------------------------------- MODULE Reports -------------------------------
(***************************************************************************)
(* The reports of `tracebridge debug`: status, fault, mem and trace        *)
(* (debug/commands.rs), which ask PowerView one question after the other   *)
(* while other tools start and stop the core; the symbols shown with       *)
(* addresses (symbolize in probe.rs), the decoders (decode.rs) and the     *)
(* trace listing, a file that every tracebridge of a board shares          *)
(* (trace.rs).                                                             *)
(*                                                                         *)
(* A 32-bit register is the set of its bits that are 1.  Colours, labels   *)
(* and JSON are left out: a report is what it says.                        *)
(***************************************************************************)
EXTENDS TargetAddress, Positions

CONSTANTS
  Cores,         (* states of the core that other tools bring about        *)
  SymbolTable,   (* symbols of the program: path, begin, end               *)
  SYMBOL_SLACK,
  MEM_MAX_WORDS,
  Locations,     (* arguments of `mem`: texts, or paths of symbols         *)
  Counts,        (* numbers of words and records asked for                 *)
  MaxMoves       (* bound: acts of other tools                             *)

ASSUME ReportsAssumption ==
  /\ {SYMBOL_SLACK, MEM_MAX_WORDS, MaxMoves} \subseteq Nat
  /\ Counts \subseteq Nat
  /\ \A s \in SymbolTable : s.begin \in Nat /\ s.end \in Nat
  /\ \A c \in Cores :
       /\ {c.mode, c.pc, c.hvbar, c.elr} \subseteq Nat /\ {c.running, c.is_64bit} \subseteq BOOLEAN
       /\ c.cpsr \subseteq 0 .. 31 /\ c.hsr \subseteq 0 .. 31
       /\ c.trace \in Seq([numbered : BOOLEAN, classified : BOOLEAN, address : Nat, decimals : Nat])
  /\ None \notin Nat /\ None \notin BOOLEAN /\ None \notin {"HDFAR", "HIFAR"}

VARIABLES
  command,       (* the command: name and arguments                        *)
  at,            (* the next question, or how the command ended            *)
  told,          (* the answers                                            *)
  retried,       (* read_long: C15 failed, HC15 is tried                   *)
  todo,          (* addresses to look up                                   *)
  near,          (* nearest_symbol of the first of them                    *)
  symbols,       (* the lookups done: address, symbol                      *)
  blamed,        (* fault: the mode that the error names                   *)
  words,         (* mem: the addresses read                                *)
  dump,          (* the trace: its records, and when they were exported    *)
  core,          (* PowerView: the core                                    *)
  moves,         (* acts of other tools                                    *)
  listing,       (* the file trace.ad                                      *)
  exports,       (* number of exports, by any tool                         *)
  removal        (* history: exports when this command removed the file    *)

worldVars == <<core, moves, listing, exports>>
reportVars == <<command, at, told, retried, todo, near, symbols, blamed, words, dump,
                removal, worldVars>>

-----------------------------------------------------------------------------
(* decode.rs *)
(* The number that the bits low to high are; they are six at most.         *)
RawBits(raw, low, high) ==
  LET bit(k) == IF low + k <= high /\ low + k \in raw THEN 1 ELSE 0
  IN  bit(0) + 2 * bit(1) + 4 * bit(2) + 8 * bit(3) + 16 * bit(4) + 32 * bit(5)

IsUpMode(mode) == mode \in {11, 12}

ModeName(mode) ==
  CASE mode = 16 -> "usr" [] mode = 17 -> "fiq" [] mode = 18 -> "irq" [] mode = 19 -> "svc"
    [] mode = 22 -> "mon" [] mode = 23 -> "abt" [] mode = 26 -> "hyp" [] mode = 27 -> "und"
    [] mode = 31 -> "sys" [] OTHER -> None

DecodePsr(raw) ==
  [mode |-> RawBits(raw, 0, 4), mode_name |-> ModeName(RawBits(raw, 0, 4)), thumb |-> 5 \in raw,
   masked |-> (IF 8 \in raw THEN {"A"} ELSE {}) \cup (IF 7 \in raw THEN {"I"} ELSE {})
                \cup (IF 6 \in raw THEN {"F"} ELSE {}),
   nzcv |-> RawBits(raw, 28, 31)]

(* Codes that ec_name, dfsc_name and ifsc_name name; others are reserved.  *)
NamedCodes ==
  [ec   |-> {0, 1, 12, 14, 17, 18, 32, 33, 34, 36, 37} \cup (3 .. 8),
   dfsc |-> {4, 12, 16, 17, 24, 25, 33, 34, 52, 53},
   ifsc |-> {4, 12, 16, 24, 34}]

(* The class of the exception, whether and how IL is valid, and the parts  *)
(* of the syndrome that it has.                                            *)
DecodeHsr(raw) ==
  LET ec   == RawBits(raw, 26, 31)
      kind == IF ec \in {36, 37} THEN "data abort"
              ELSE IF ec \in {32, 33} THEN "prefetch abort" ELSE "other"
      il_valid == /\ kind # "prefetch abort"
                  /\ kind = "data abort" => 24 \in raw
                  /\ ec \notin {0, 14}
  IN  [ec |-> ec, kind |-> kind,
       il |-> IF il_valid THEN (IF 25 \in raw THEN 32 ELSE 16) ELSE None,
       status |-> IF kind = "other" THEN None ELSE RawBits(raw, 0, 5),
       write |-> kind = "data abort" /\ 6 \in raw]

(* What `describe` and `to_json` add of the syndrome.                      *)
Described(hsr) ==
  {"EC", "IL", "ISS"}
    \cup (IF hsr.kind = "data abort" THEN {"ISV", "WnR", "DFSC", "EA", "CM", "S1PTW"} ELSE {})
    \cup (IF hsr.kind = "prefetch abort" THEN {"IFSC"} ELSE {})

FaultAddress(hsr) ==
  IF hsr.kind = "data abort" THEN "HDFAR"
  ELSE IF hsr.kind = "prefetch abort" THEN "HIFAR" ELSE None

HYP_VECTORS == {4 * i : i \in 0 .. 7}
VectorSlot(base, pc) == IF pc - base \in HYP_VECTORS THEN pc - base ELSE None

(* trace.rs parse_line: a number, an address with its class, and then the  *)
(* decimal numbers before the symbol, two of them at most.                 *)
ParseLine(line) ==
  IF ~line.numbered \/ ~line.classified THEN None
  ELSE LET n == IF line.decimals > 2 THEN 2 ELSE line.decimals
       IN  [address |-> line.address, back |-> n = 2, zero |-> n >= 1]

-----------------------------------------------------------------------------
(* What PowerView answers: core registers only while the core is up and    *)
(* halted, Hyp registers as C15 only in Hyp mode; or None, an error.        *)
Halted == IsUpMode(core.mode) /\ ~core.running

CoreRegisters == {"pc", "cpsr", "hsr", "elr", "spsr", "hdfar", "hifar", "hvbar"}
HypRegisters == {"hsr", "hdfar", "hifar", "hvbar"}
InHypMode == DecodePsr(core.cpsr).mode_name = "hyp"

(* Values that nothing depends on.                                         *)
Shown == 0

Value(question) ==
  CASE question = "mode" -> core.mode
    [] question = "state" -> core.running
    [] question = "is_64bit" -> core.is_64bit
    [] question = "pc" -> core.pc
    [] question = "cpsr" -> core.cpsr
    [] question = "hsr" -> core.hsr
    [] question = "elr" -> core.elr
    [] question = "hvbar" -> core.hvbar
    [] question = "records" -> Len(core.trace)
    [] OTHER -> Shown

Replies(question) ==
  LET readable ==
        /\ question \in CoreRegisters => Halted
        /\ question \in HypRegisters => InHypMode \/ retried
        /\ question = "state" => IsUpMode(core.mode)
  IN  IF readable THEN {Value(question), None} ELSE {None}

-----------------------------------------------------------------------------
(* The commands as sequences of questions.                                 *)
Questions ==
  [status |-> <<"mode", "state", "power", "cpu", "pc", "cpsr">>,
   fault  |-> <<"is_64bit", "state", "cpsr", "hsr", "elr", "spsr", "hdfar", "hifar",
                "hvbar", "pc">>]

(* Questions of `optional`: a failure is an answer.                        *)
OptionalQuestions ==
  [status |-> {"state", "power", "cpu", "pc", "cpsr"},
   fault  |-> {"is_64bit", "state", "cpsr"}]

Position(question) ==
  CHOOSE i \in DOMAIN Questions[command.name] : Questions[command.name][i] = question

Following(question) == Questions[command.name][Position(question) + 1]

Commands ==
  [name : {"status"}] \cup [name : {"trace"}, last : Counts]
    \cup [name : {"fault"}, trace : {TRUE}, last : Counts]
    \cup {[name |-> "fault", trace |-> FALSE]}
    \cup [name : {"mem"}, location : Locations, count : Counts]

FirstStep ==
  [status |-> "mode", fault |-> "is_64bit", trace |-> "halted?", mem |-> "count"]

NoDump == [records |-> <<>>, exported |-> 0, own |-> FALSE, asked |-> 0]

ReportInit ==
  /\ command \in Commands
  /\ at = FirstStep[command.name]
  /\ told = [question \in CoreRegisters
                         \cup {"mode", "state", "is_64bit", "base", "records"} |-> None]
  /\ retried = FALSE /\ todo = <<>> /\ near = None /\ symbols = <<>> /\ blamed = None
  /\ words = <<>> /\ dump = NoDump
  /\ core \in Cores /\ moves = 0 /\ exports = 0 /\ removal = 0
  /\ listing \in {None} \cup
       {[lines |-> c.trace, exported |-> 0, own |-> FALSE] :
          c \in {c \in Cores : "last" \in DOMAIN command /\ c.trace # <<>>}}

Ends(how) ==
  /\ at' = how
  /\ UNCHANGED <<command, told, retried, todo, near, symbols, words, dump, removal>>

Continue(step) ==
  /\ at' = step
  /\ UNCHANGED <<command, todo, near, symbols, blamed, words, dump, removal>>

Answered(question, value) ==
  told' = IF question \in DOMAIN told THEN [told EXCEPT ![question] = value] ELSE told

(* After the last register of a fault: PC, HVBAR and ELR are looked up.    *)
LookUp(addresses) ==
  /\ todo' = addresses /\ at' = "nearest"
  /\ UNCHANGED <<command, near, symbols, blamed, words, dump, removal>>

(* What an answer leads to.  status: core registers only if the answers    *)
(* said up and halted.  fault: refused on a 64-bit or running core.        *)
Proceed(question, value) ==
  /\ Answered(question, value) /\ retried' = FALSE
  /\ IF question = "pc"
       THEN IF value = None THEN Continue(Following(question))
            ELSE LookUp(IF command.name = "status" THEN <<value>>
                        ELSE <<value, told.hvbar, told.elr>>)
     ELSE IF command.name = "status"
       THEN Continue(IF question = "cpsr" THEN "done"
                     ELSE IF question = "cpu" /\ ~(IsUpMode(told.mode) /\ told.state = FALSE)
                       THEN "done" ELSE Following(question))
     ELSE Continue(IF question \in {"is_64bit", "state"} /\ value = TRUE
                     THEN "failed" ELSE Following(question))

(* Mutant: the mode is named whatever it is.                               *)
BlameAnyMode(question) ==
  IF command.name = "fault" /\ question \notin {"is_64bit", "state", "cpsr", "pc"}
     /\ told.cpsr # None
    THEN DecodePsr(told.cpsr).mode ELSE None

(* no_hyp: the error of a register that cannot be read names the mode if   *)
(* CPSR told one that is not Hyp.                                          *)
Blame(question) ==
  IF command.name = "fault" /\ question \notin {"is_64bit", "state", "cpsr", "pc"}
     /\ told.cpsr # None /\ DecodePsr(told.cpsr).mode_name # "hyp"
    THEN DecodePsr(told.cpsr).mode ELSE None

(* A question of status or fault; read_long asks for a Hyp register again  *)
(* as HC15.                                                                *)
Ask ==
  /\ command.name \in {"status", "fault"}
  /\ \E i \in DOMAIN Questions[command.name] : Questions[command.name][i] = at
  /\ \/ \E answer \in Replies(at) :
          IF answer # None THEN Proceed(at, answer)
          ELSE IF at \in OptionalQuestions[command.name] THEN Proceed(at, None)
          ELSE IF at \in HypRegisters /\ ~retried
            THEN retried' = TRUE /\ Continue(at) /\ UNCHANGED told
          ELSE Ends("failed") /\ blamed' = Blame(at)
     \/ Ends("lost") /\ UNCHANGED blamed
  /\ UNCHANGED worldVars

-----------------------------------------------------------------------------
(* probe.rs symbolize.  The symbol nearest below an address, however far;  *)
(* TRACE32 may write name+offset itself, or print no name.                 *)
Below(address) ==
  LET lower == {s \in SymbolTable : s.begin <= address}
  IN  IF lower = {} THEN None
      ELSE CHOOSE s \in lower : \A t \in lower : t.begin <= s.begin

Found(symbol) ==
  /\ symbols' = Append(symbols, [address |-> Head(todo), symbol |-> symbol])
  /\ todo' = Tail(todo) /\ near' = None
  /\ at' = IF Tail(todo) # <<>> THEN "nearest"
           ELSE IF command.name = "status" THEN "cpsr"
           ELSE IF command.name = "fault" /\ command.trace /\ dump = NoDump THEN "halted?"
           ELSE "done"
  /\ UNCHANGED <<command, told, retried, blamed, words, dump, removal>>

Nearest(symbol, step) ==
  /\ near' = symbol /\ at' = step
  /\ UNCHANGED <<command, told, retried, todo, symbols, blamed, words, dump, removal>>

(* nearest_symbol: sYmbol.NAME and sYmbol.BEGIN.                           *)
NearestSymbol ==
  /\ at = "nearest"
  /\ \/ Found(None)
     \/ /\ Below(Head(todo)) # None
        /\ LET symbol == Below(Head(todo)) IN
             \/ Nearest([symbol |-> symbol, offset |-> None], "begin")
             \/ IF Head(todo) - symbol.begin < SYMBOL_SLACK
                  THEN Found([symbol |-> symbol, offset |-> None]) ELSE Found(None)
  /\ UNCHANGED worldVars

SymbolBegin ==
  /\ at = "begin"
  /\ \/ Nearest([near EXCEPT !.offset = Head(todo) - near.symbol.begin], "end")
     \/ Found(None)
  /\ UNCHANGED worldVars

(* Within begin and end, or close when the symbol has no (known) size.     *)
SymbolEnd ==
  /\ at = "end"
  /\ LET begin == Head(todo) - near.offset IN
       \E end \in {near.symbol.end, None} :
         LET inside == IF end # None /\ end > begin THEN Head(todo) <= end
                       ELSE near.offset < SYMBOL_SLACK
         IN  Found(IF inside THEN near ELSE None)
  /\ UNCHANGED worldVars

SymbolLost ==
  /\ at \in {"nearest", "begin", "end"}
  /\ Ends("lost") /\ UNCHANGED blamed
  /\ UNCHANGED worldVars

-----------------------------------------------------------------------------
(* trace_dump and trace.rs read.  An error of the trace does not take the  *)
(* report of `fault` with it.                                              *)
TraceFails == Ends(IF command.name = "fault" THEN "done" ELSE "failed") /\ UNCHANGED blamed

TraceGoes(step) == Continue(step) /\ UNCHANGED <<told, retried>>

(* core_running: no answer counts as halted.                               *)
TraceHalted ==
  /\ at = "halted?"
  /\ \/ IsUpMode(core.mode) /\ core.running /\ TraceFails
     \/ ~(IsUpMode(core.mode) /\ core.running) /\ TraceGoes("records")
     \/ TraceGoes("records")
     \/ Ends("lost") /\ UNCHANGED blamed
  /\ UNCHANGED worldVars

(* The run directory is made, the number and the count of records are      *)
(* checked.                                                                *)
TraceRecords ==
  /\ at = "records"
  /\ \/ /\ command.last > 0 /\ core.trace # <<>>
        /\ told' = [told EXCEPT !["records"] = Len(core.trace)]
        /\ Continue("remove") /\ UNCHANGED retried
     \/ TraceFails
     \/ Ends("lost") /\ UNCHANGED blamed
  /\ UNCHANGED worldVars

(* Mutant: the listing of an earlier export is left where it is.           *)
LeaveListing ==
  /\ at = "remove"
  /\ removal' = exports /\ at' = "export"
  /\ UNCHANGED <<command, told, retried, todo, near, symbols, blamed, words, dump, worldVars>>

RemoveListing ==
  /\ at = "remove"
  /\ \/ /\ listing' = None /\ removal' = exports /\ at' = "export"
        /\ UNCHANGED <<command, told, retried, todo, near, symbols, blamed, words, dump>>
     \/ TraceFails /\ UNCHANGED listing
  /\ UNCHANGED <<core, moves, exports>>

Least(a, b) == IF a < b THEN a ELSE b

NewestRecords(n) ==
  LET length == Len(core.trace)
  IN  SubSeq(core.trace, length - Least(n, length) + 1, length)

(* Trace.EXPORT.Ascii writes the listing; or PowerView, which may be on    *)
(* another machine, does not write it here; with or without an error.      *)
ExportTrace ==
  /\ at = "export"
  /\ \/ /\ listing' = [lines |-> NewestRecords(Least(told["records"], command.last)),
                       exported |-> exports + 1, own |-> TRUE]
        /\ exports' = exports + 1
     \/ UNCHANGED <<listing, exports>>
  /\ \/ TraceGoes("read")
     \/ TraceFails
     \/ Ends("lost") /\ UNCHANGED blamed
  /\ UNCHANGED <<core, moves>>

(* The lines that parse, as records.                                       *)
Parsed(lines) ==
  Picked([i \in DOMAIN lines |-> ParseLine(lines[i])],
         {i \in DOMAIN lines : ParseLine(lines[i]) # None})

(* The addresses of records, each once, as they are first needed.          *)
FirstSeen(records) ==
  Picked([k \in DOMAIN records |-> records[k].address],
         {k \in DOMAIN records : \A j \in 1 .. k - 1 : records[j].address # records[k].address})

ReadListing ==
  /\ at = "read"
  /\ IF listing = None THEN TraceFails
     ELSE LET records == Parsed(listing.lines) IN
       /\ dump' = [records |-> records, exported |-> listing.exported, own |-> listing.own,
                   asked |-> command.last]
       /\ todo' = FirstSeen(records)
       /\ at' = IF records = <<>> THEN "done" ELSE "nearest"
       /\ UNCHANGED <<command, told, retried, near, symbols, blamed, words, removal>>
  /\ UNCHANGED worldVars

-----------------------------------------------------------------------------
(* mem *)
MemStart ==
  /\ command.name = "mem" /\ at = "count"
  /\ LET location == command.location
         count == command.count
     IN  IF count = 0 \/ count > MEM_MAX_WORDS THEN Ends("failed") /\ UNCHANGED blamed
         ELSE IF Parse(location) = None THEN TraceGoes("symbol address")
         ELSE /\ told' = [told EXCEPT !["base"] = Parse(location)]
              /\ Continue("base") /\ UNCHANGED retried
  /\ UNCHANGED worldVars

(* symbol_address: an address as text, or the offset asked for separately. *)
MemSymbol ==
  /\ at = "symbol address"
  /\ \/ /\ \E s \in SymbolTable, class \in PlainClasses :
             /\ s.path = command.location.path
             /\ told' = [told EXCEPT !["base"] = [class |-> class, value |-> s.begin]]
        /\ Continue("base") /\ UNCHANGED retried
     \/ Ends("failed") /\ UNCHANGED blamed
     \/ Ends("lost") /\ UNCHANGED blamed
  /\ UNCHANGED worldVars

(* One coprocessor register at a time, and of a halted core.               *)
MemBase ==
  /\ at = "base"
  /\ IF ~IsCoprocessor(told["base"]) THEN TraceGoes("word")
     ELSE IF command.count > 1 THEN Ends("failed") /\ UNCHANGED blamed
     ELSE \/ IsUpMode(core.mode) /\ core.running /\ Ends("failed") /\ UNCHANGED blamed
          \/ ~(IsUpMode(core.mode) /\ core.running) /\ TraceGoes("word")
          \/ TraceGoes("word")
          \/ Ends("lost") /\ UNCHANGED blamed
  /\ UNCHANGED worldVars

ReadWord ==
  /\ at = "word"
  /\ LET address == Offset(told["base"], 4 * Len(words))
         readable == /\ IsCoprocessor(address) => Halted
                     /\ IsHypCp15(address) => InHypMode \/ retried
     IN  \/ /\ readable
            /\ words' = Append(words, [address |-> address, halted |-> Halted])
            /\ retried' = FALSE
            /\ at' = IF Len(words) + 1 = command.count THEN "done" ELSE "word"
            /\ UNCHANGED <<command, told, todo, near, symbols, blamed, dump, removal>>
         \/ IsHypCp15(address) /\ ~retried /\ retried' = TRUE /\ Continue("word") /\ UNCHANGED told
         \/ ~(IsHypCp15(address) /\ ~retried) /\ Ends("failed") /\ UNCHANGED blamed
         \/ Ends("lost") /\ UNCHANGED blamed
  /\ UNCHANGED worldVars

-----------------------------------------------------------------------------
(* Other tools start, stop and step the core, and export traces too.       *)
CoreMoves ==
  /\ moves < MaxMoves /\ moves' = moves + 1
  /\ core' \in Cores
  /\ UNCHANGED <<listing, exports>>

OtherTrace ==
  /\ moves < MaxMoves /\ moves' = moves + 1
  /\ \/ listing' = None /\ UNCHANGED exports
     \/ \E n \in Counts \ {0} :
          /\ core.trace # <<>>
          /\ listing' = [lines |-> NewestRecords(n), exported |-> exports + 1, own |-> FALSE]
          /\ exports' = exports + 1
  /\ UNCHANGED core

ReportWorld ==
  /\ at \notin {"done", "failed", "lost"}
  /\ CoreMoves \/ OtherTrace
  /\ UNCHANGED <<command, at, told, retried, todo, near, symbols, blamed, words, dump, removal>>

ReportNext ==
  \/ Ask \/ NearestSymbol \/ SymbolBegin \/ SymbolEnd \/ SymbolLost
  \/ TraceHalted \/ TraceRecords \/ RemoveListing \/ ExportTrace \/ ReadListing
  \/ MemStart \/ MemSymbol \/ MemBase \/ ReadWord
  \/ ReportWorld

ReportSpec == ReportInit /\ [][ReportNext]_reportVars

-----------------------------------------------------------------------------
(* What `fault` says of PC, and of the fault address.                      *)
Slot == VectorSlot(told.hvbar, told.pc)

OtherTable ==
  LET symbol == symbols[1].symbol
      base   == told.pc - symbol.offset
  IN  IF /\ Slot = None /\ symbol # None /\ symbol.offset # None
         /\ VectorSlot(base, told.pc) # None /\ base # told.hvbar /\ base % 32 = 0
        THEN base ELSE None

ShownFaultAddress == IF told.hsr = {} THEN None ELSE FaultAddress(DecodeHsr(told.hsr))

FaultReported == command.name = "fault" /\ at = "done"

(* An address is shown with a symbol only if it is in it, or               *)
(* just past its begin when the size is not known: never with the nearest  *)
(* symbol far below, whichever of the three questions fails.               *)
(* (symbolize and nearest_symbol, for status, fault and trace.)            *)
SymbolHoldsAddress ==
  \A i \in DOMAIN symbols :
    LET address == symbols[i].address
        found   == symbols[i].symbol
    IN  found # None =>
          /\ found.symbol.begin <= address
          /\ address <= found.symbol.end \/ address - found.symbol.begin < SYMBOL_SLACK
          /\ found.offset # None => found.symbol.begin + found.offset = address

(* Property: of a core that nobody touched, a fault report says the entry  *)
(* of the active table that PC is at; another table only if PC is not in   *)
(* the active one and a program's table has it as an entry; no fault       *)
(* address without an abort; and an error blames the mode only when the    *)
(* core is not in Hyp mode.  And no report, of no command, names a symbol  *)
(* that the address is not in.  (fault, vector_slot, decode_hsr.)          *)
FaultExplainsItself ==
  /\ SymbolHoldsAddress
  /\ moves = 0 /\ blamed # None => ~InHypMode
  /\ FaultReported /\ moves = 0 =>
       /\ Halted
       /\ told.is_64bit # None => ~core.is_64bit
       /\ (Slot # None) = (\E i \in 0 .. 7 : core.pc = core.hvbar + 4 * i)
       /\ OtherTable # None =>
            /\ core.pc < core.hvbar \/ core.pc >= core.hvbar + 32 \/ core.pc % 4 # core.hvbar % 4
            /\ \E s \in SymbolTable : s.begin = OtherTable /\ core.pc \in s.begin .. s.begin + 31
       /\ core.hsr = {} => ShownFaultAddress = None
       /\ ShownFaultAddress = "HDFAR" <=> core.hsr \cap (27 .. 31) = {28, 31}

(* Property: the records shown were exported after this command had        *)
(* removed the listing that all commands share, so never those of an       *)
(* earlier trace; and no more than were asked for, unless another command  *)
(* has exported in between.  (trace.rs read.)                              *)
TraceIsFresh ==
  dump.asked > 0 =>
    /\ dump.exported > removal
    /\ dump.own => Len(dump.records) <= dump.asked
=============================================================================
