------------------------------ MODULE CheckRun ------------------------------
(***************************************************************************)
(* `tracebridge debug check <file>` (crates/tracebridge/src/debug/check.rs *)
(* and check_report in commands.rs): the checks of a TOML file are parsed, *)
(* selected by variant, resolved with PowerView, and judged one after the  *)
(* other by what the target answers.                                       *)
(*                                                                         *)
(* A table of the file is a record: its keys are its fields.  Every RCL    *)
(* call may be answered, fail, or find the connection lost; the core stops *)
(* at breakpoints and the user of PowerView starts it.  Refreshing the PER *)
(* snapshot is one step here (module DebugSession has its calls).          *)
(***************************************************************************)
EXTENDS Integers, Sequences, FiniteSets, Positions

CONSTANTS
  Entries,    (* the [[check]] tables a file may hold: a sequence          *)
  MaxChecks,  (* bound: tables per file                                    *)
  Variants,   (* what --variant may name                                   *)
  Width,      (* bits of a value, 64 in the code                           *)
  Registers,  (* name of a PER register -> "memory" or "coprocessor"       *)
  Symbols,    (* name -> [begin, end]                                      *)
  TreeClocks, (* the clocks of the chip's clock tree                       *)
  Evaluated,  (* what evaluating a clock can give                          *)
  NoVariant   (* no --variant, no variants                                 *)

ASSUME CheckAssumption ==
  /\ MaxChecks \in Nat /\ Width \in Nat \ {0} /\ NoVariant \notin Variants
  /\ \A clock \in Evaluated : clock.state = "on" => clock.hz \in Int

(* Arithmetic of the powers up to Width.                                   *)
ASSUME PowersOfTwo == \A k \in 0 .. Width - 1 : 2 ^ k \in Nat /\ 2 ^ (k + 1) = 2 * 2 ^ k

Word == 2 ^ Width
U64  == 0 .. Word - 1

VARIABLES
  checkAt,    (* the next step of run                                      *)
  file,       (* the tables of the file, as indices of Entries             *)
  options,    (* Options                                                   *)
  prepared,   (* the checks after the resolve phase                        *)
  halted,     (* run's local: --halt stopped the core                      *)
  tree_report, (* the evaluated clock tree, or that it could not be read   *)
  results,    (* the status of each check judged                           *)
  checkExit,  (* exit code of the command                                  *)
  checkCore,  (* the core, "running" or "halted"                           *)
  breaks,     (* history: Break was sent                                   *)
  got         (* history: what each check read                             *)

checkVars ==
  <<checkAt, file, options, prepared, halted, tree_report, results, checkExit, checkCore,
    breaks, got>>

-----------------------------------------------------------------------------
(* Parsing.                                                                *)

ReadForms  == {"reg", "addr", "core", "expr", "clock"}
ValueForms == {"eq", "ne", "nonzero", "range", "in_symbol", "one_of"}
ClockForms == {"state", "hz", "source", "warnings"}

ParseRead(table) == \E form \in ReadForms : DOMAIN table = {form}

ParseExpect(table) ==
  \E form \in ValueForms :
    /\ DOMAIN table \ {"mask"} = {form}
    /\ "mask" \in DOMAIN table => form \in {"eq", "ne"}
    /\ form = "range" => table.range[1] <= table.range[2]
    /\ form = "one_of" => table.one_of # <<>>

ParseClockExpect(table) ==
  /\ DOMAIN table # {} /\ DOMAIN table \subseteq ClockForms
  /\ {"hz", "state"} \subseteq DOMAIN table => table.state = "on"

Parses(entry) ==
  /\ ParseRead(entry.read)
  /\ IF "clock" \in DOMAIN entry.read THEN ParseClockExpect(entry.expect)
                                      ELSE ParseExpect(entry.expect)

(* Check::selected.                                                        *)
Selected(entry) ==
  entry.variants = NoVariant
    \/ (options.variant # NoVariant /\ options.variant \in entry.variants)

Chosen == Picked(file, {k \in DOMAIN file : Selected(Entries[file[k]])})

Reads(i, form)  == form \in DOMAIN Entries[i].read
AnyReads(form)  == \E k \in DOMAIN Chosen : Reads(Chosen[k], form)

-----------------------------------------------------------------------------
(* Resolving.                                                              *)

(* An operand is a number (no symbol) or a symbol plus an offset.          *)
NoSymbol == "no symbol"

OperandResolves(operand) == operand.symbol = NoSymbol \/ operand.symbol \in DOMAIN Symbols

ResolveOperand(operand) ==
  IF operand.symbol = NoSymbol THEN operand.number
  ELSE (Symbols[operand.symbol].begin + operand.number) % Word

Operands(expect) ==
  IF "one_of" \in DOMAIN expect THEN expect.one_of
  ELSE IF "eq" \in DOMAIN expect THEN <<expect.eq>>
  ELSE IF "ne" \in DOMAIN expect THEN <<expect.ne>>
  ELSE <<>>

ExpectResolves(expect) ==
  /\ \A k \in DOMAIN Operands(expect) : OperandResolves(Operands(expect)[k])
  /\ "in_symbol" \in DOMAIN expect => expect.in_symbol \in DOMAIN Symbols

(* The bounds of range and in_symbol.                                      *)
Bounds(expect) ==
  IF "range" \in DOMAIN expect THEN expect.range
  ELSE <<Symbols[expect.in_symbol].begin, Symbols[expect.in_symbol].end>>

Bit(value, k) == (value \div 2 ^ k) % 2
Bits(value)   == {k \in 0 .. Width - 1 : Bit(value, k) = 1}

(* Mutant: the mask is not applied.                                        *)
Unmasked(value, expect) == value

(* value & mask.                                                           *)
Masked(value, expect) ==
  IF "mask" \notin DOMAIN expect THEN value
  ELSE CHOOSE v \in U64 : Bits(v) = Bits(value) \cap Bits(expect.mask)

(* Numbers in a file are of 64 bits (parse_operand, parse_mask).           *)
ASSUME EntriesAssumption ==
  /\ \A i \in DOMAIN Entries : LET expect == Entries[i].expect IN
       /\ "mask" \in DOMAIN expect => expect.mask \in U64
       /\ "range" \in DOMAIN expect => expect.range[1] \in U64 /\ expect.range[2] \in U64
       /\ "hz" \in DOMAIN expect => expect.hz \in Int
       /\ \A k \in DOMAIN Operands(expect) : LET operand == Operands(expect)[k] IN
            operand.number \in Int /\ (operand.symbol = NoSymbol => operand.number \in U64)
  /\ \A path \in DOMAIN Symbols : {Symbols[path].begin, Symbols[path].end} \subseteq U64

(* Resolved::holds.                                                        *)
Holds(expect, value) ==
  CASE "eq" \in DOMAIN expect -> Masked(value, expect) = ResolveOperand(expect.eq)
    [] "ne" \in DOMAIN expect -> Masked(value, expect) # ResolveOperand(expect.ne)
    [] "nonzero" \in DOMAIN expect -> value # 0
    [] "one_of" \in DOMAIN expect ->
         \E k \in DOMAIN expect.one_of : value = ResolveOperand(expect.one_of[k])
    [] OTHER -> value \in Bounds(expect)[1] .. Bounds(expect)[2]

(* ClockExpect::mismatches, frequencies in steps of half a hertz; the      *)
(* warnings are compared sorted, so as bags: each text occurs once here.   *)
Matches(expect, clock) ==
  /\ "hz" \in DOMAIN expect => clock.state = "on" /\ clock.hz - expect.hz \in -1 .. 1
  /\ "state" \in DOMAIN expect /\ "hz" \notin DOMAIN expect => clock.state = expect.state
  /\ "source" \in DOMAIN expect => clock.parent = expect.source
  /\ "warnings" \in DOMAIN expect => clock.warnings = expect.warnings

(* Prepared::needs_halt.  A check whose symbols did not resolve counts.    *)
NeedsHalt(item) ==
  \/ Reads(item.check, "core")
  \/ Reads(item.check, "addr") /\ Entries[item.check].read.addr = "coprocessor"
  \/ item.register = "coprocessor"

-----------------------------------------------------------------------------

CheckInit ==
  /\ checkAt = "load" /\ prepared = <<>> /\ halted = FALSE /\ tree_report = <<>>
  /\ results = <<>> /\ checkExit = -1 /\ breaks = FALSE /\ got = <<>>
  /\ file \in UNION {[1 .. n -> DOMAIN Entries] : n \in 0 .. MaxChecks}
  /\ options \in [variant : Variants \cup {NoVariant}, halt : BOOLEAN, dry_run : BOOLEAN]
  /\ checkCore \in {"running", "halted"}

(* The command ends with an error: exit code 1 and no report.              *)
CheckFails ==
  /\ checkAt' = "failed" /\ checkExit' = 1
  /\ UNCHANGED <<prepared, halted, tree_report, results, got>>

CheckGoes(step) ==
  checkAt' = step /\ UNCHANGED <<prepared, halted, tree_report, results, checkExit, got>>

CheckQuiet == UNCHANGED <<file, options, checkCore, breaks>>

(* load, and the clock tree of the chip when a check reads a clock.        *)
LoadFile ==
  /\ checkAt = "load"
  /\ \/ (\A k \in DOMAIN file : Parses(Entries[file[k]])) /\ CheckGoes("per")
     \/ (\E k \in DOMAIN file : ~Parses(Entries[file[k]])) /\ CheckFails
     \/ AnyReads("clock") /\ CheckFails
  /\ CheckQuiet

(* PerSnapshot::ensure before any register is resolved, and after Break.   *)
EnsurePer ==
  /\ checkAt = "per"
  /\ \/ CheckGoes("resolve")
     \/ AnyReads("reg") /\ CheckFails
  /\ CheckQuiet

(* What resolving a check finds.  A call that fails for another reason     *)
(* than a lost connection is the error of this check.                      *)
Prepared(i, answers) ==
  LET read  == Entries[i].read
      known == "reg" \in DOMAIN read /\ answers.register /\ read.reg \in DOMAIN Registers
  IN  [check |-> i, register |-> IF known THEN Registers[read.reg] ELSE "none",
       error |-> \/ "reg" \in DOMAIN read /\ ~known
                 \/ "clock" \in DOMAIN read /\ read.clock \notin TreeClocks
                 \/ ~answers.expect \/ ~ExpectResolves(Entries[i].expect)]

(* Only a register and a symbol need a call.                               *)
AsksSymbol(expect) ==
  \/ "in_symbol" \in DOMAIN expect
  \/ \E k \in DOMAIN Operands(expect) : Operands(expect)[k].symbol # NoSymbol

ResolveCheck ==
  /\ checkAt = "resolve" /\ Len(prepared) < Len(Chosen)
  /\ LET i    == Chosen[Len(prepared) + 1]
         asks == [register |-> Reads(i, "reg"), expect |-> AsksSymbol(Entries[i].expect)]
     IN  \/ /\ \E answers \in [register : {TRUE, ~asks.register}, expect : {TRUE, ~asks.expect}] :
                 prepared' = Append(prepared, Prepared(i, answers))
            /\ UNCHANGED <<checkAt, halted, tree_report, results, checkExit, got>>
         \/ (asks.register \/ asks.expect) /\ CheckFails
  /\ CheckQuiet

Resolved ==
  /\ checkAt = "resolve" /\ Len(prepared) = Len(Chosen)
  /\ CheckGoes(IF options.dry_run \/ ~\E k \in DOMAIN prepared : NeedsHalt(prepared[k])
               THEN "clocks" ELSE "running")
  /\ CheckQuiet

(* core_running, and the refusal without --halt.  A core that cannot be    *)
(* asked counts as halted, unless the connection is lost: the reads that   *)
(* follow then fail, or not.                                               *)
AskRunning ==
  /\ checkAt = "running"
  /\ \/ CheckGoes("clocks")   (* halted, or STATE.RUN() failed             *)
     \/ checkCore = "running" /\ options.halt /\ CheckGoes("break")
     \/ checkCore = "running" /\ ~options.halt /\ CheckFails
     \/ CheckFails
  /\ CheckQuiet

(* Break, which may take effect and still fail.                            *)
SendBreak ==
  /\ checkAt = "break"
  /\ breaks' = TRUE
  /\ \/ /\ checkAt' = IF \E k \in DOMAIN prepared : prepared[k].register # "none"
                      THEN "per_again" ELSE "clocks"
        /\ halted' = TRUE /\ checkCore' = "halted"
        /\ UNCHANGED <<prepared, tree_report, results, checkExit, got>>
     \/ CheckFails /\ checkCore' \in {checkCore, "halted"}
  /\ UNCHANGED <<file, options>>

EnsureAgain ==
  /\ checkAt = "per_again" /\ (CheckGoes("clocks") \/ CheckFails) /\ CheckQuiet

WantsClocks ==
  ~options.dry_run
    /\ \E k \in DOMAIN prepared : ~prepared[k].error /\ Reads(prepared[k].check, "clock")

(* clock::evaluate: once for all checks.                                   *)
EvaluateClocks ==
  /\ checkAt = "clocks"
  /\ \/ ~WantsClocks /\ CheckGoes("judge")
     \/ /\ WantsClocks
        /\ \/ /\ tree_report' \in {<<>>} \cup {<<r>> : r \in [TreeClocks -> Evaluated]}
              /\ checkAt' = "judge"
              /\ UNCHANGED <<prepared, halted, results, checkExit, got>>
           \/ CheckFails
  /\ CheckQuiet

-----------------------------------------------------------------------------
(* Judging.                                                                *)

Add(status, read) == results' = Append(results, status) /\ got' = Append(got, read)

Judging == checkAt = "judge" /\ Len(results) < Len(prepared)
Item == prepared[Len(results) + 1]

(* A check that did not resolve is not read; a dry run reads none.         *)
JudgeUnread ==
  /\ Judging /\ (Item.error \/ options.dry_run)
  /\ Add(IF Item.error THEN "error" ELSE "pass", <<"unread">>)
  /\ UNCHANGED <<checkAt, prepared, halted, tree_report, checkExit>> /\ CheckQuiet

(* judge_clock: the tree may not have been read, or the clock not.         *)
JudgeClock ==
  /\ Judging /\ ~Item.error /\ ~options.dry_run /\ Reads(Item.check, "clock")
  /\ LET entry == Entries[Item.check] IN
       IF tree_report = <<>> THEN Add("error", <<"failed">>)
       ELSE LET clock == tree_report[1][entry.read.clock] IN
              Add(CASE clock.state = "error" -> "error"
                    [] clock.state # "error" /\ Matches(entry.expect, clock) -> "pass"
                    [] OTHER -> "fail", <<"read", clock>>)
  /\ UNCHANGED <<checkAt, prepared, halted, tree_report, checkExit>> /\ CheckQuiet

(* read_value: PowerView refuses coprocessor and core registers of a       *)
(* running core.  Only a lost connection ends the command.                 *)
JudgeValue ==
  /\ Judging /\ ~Item.error /\ ~options.dry_run /\ ~Reads(Item.check, "clock")
  /\ \/ /\ ~NeedsHalt(Item) \/ checkCore = "halted"
        /\ \E value \in U64 :
             Add(IF Holds(Entries[Item.check].expect, value) THEN "pass" ELSE "fail",
                 <<"read", value>>)
        /\ UNCHANGED <<checkAt, prepared, halted, tree_report, checkExit>>
     \/ /\ Add("error", <<"failed">>)
        /\ UNCHANGED <<checkAt, prepared, halted, tree_report, checkExit>>
     \/ CheckFails
  /\ CheckQuiet

(* Report::exit_code.                                                      *)
Report ==
  /\ checkAt = "judge" /\ Len(results) = Len(prepared)
  /\ checkAt' = "reported"
  /\ checkExit' = IF \A k \in DOMAIN results : results[k] = "pass" THEN 0 ELSE 3
  /\ UNCHANGED <<prepared, halted, tree_report, results, got>> /\ CheckQuiet

(* A breakpoint stops the core; the user of PowerView starts it.           *)
CoreActs ==
  /\ checkAt \notin {"reported", "failed"}
  /\ checkCore' = IF checkCore = "running" THEN "halted" ELSE "running"
  /\ UNCHANGED <<checkAt, file, options, prepared, halted, tree_report, results, checkExit,
                 breaks, got>>

CheckNext ==
  \/ LoadFile \/ EnsurePer \/ ResolveCheck \/ Resolved \/ AskRunning \/ SendBreak
  \/ EnsureAgain \/ EvaluateClocks \/ JudgeUnread \/ JudgeClock \/ JudgeValue \/ Report
  \/ CoreActs

CheckSpec == CheckInit /\ [][CheckNext]_checkVars

-----------------------------------------------------------------------------
(* What `check` promises (README, "verify and check").                     *)

Compared(value, expect) ==
  IF "mask" \in DOMAIN expect THEN Bits(value) \cap Bits(expect.mask) ELSE Bits(value)

OperandBits(operand) == Bits(ResolveOperand(operand))

(* The expectation as the file states it, of the value or clock read.  A   *)
(* clock that could not be evaluated meets none.                           *)
Meets(expect, read) ==
  /\ "eq" \in DOMAIN expect => Compared(read, expect) = OperandBits(expect.eq)
  /\ "ne" \in DOMAIN expect => Compared(read, expect) # OperandBits(expect.ne)
  /\ "nonzero" \in DOMAIN expect => Bits(read) # {}
  /\ "one_of" \in DOMAIN expect =>
       \E k \in DOMAIN expect.one_of : Bits(read) = OperandBits(expect.one_of[k])
  /\ "range" \in DOMAIN expect => expect.range[1] <= read /\ read <= expect.range[2]
  /\ "in_symbol" \in DOMAIN expect =>
       /\ Symbols[expect.in_symbol].begin <= read /\ read <= Symbols[expect.in_symbol].end
  /\ DOMAIN expect \subseteq ClockForms => read.state # "error"
  /\ "state" \in DOMAIN expect => read.state = expect.state
  /\ "hz" \in DOMAIN expect => read.state = "on" /\ read.hz \in expect.hz - 1 .. expect.hz + 1
  /\ "source" \in DOMAIN expect => read.parent = expect.source
  /\ "warnings" \in DOMAIN expect => read.warnings = expect.warnings

(* The core is stopped only with --halt, never by a dry run, and only for  *)
(* a selected check of a coprocessor or core register.                     *)
StopIsAsked ==
  /\ options.halt /\ ~options.dry_run
  /\ \E k \in DOMAIN Chosen :
       LET read == Entries[Chosen[k]].read IN
         \/ "core" \in DOMAIN read
         \/ "addr" \in DOMAIN read /\ read.addr = "coprocessor"
         \/ /\ "reg" \in DOMAIN read /\ read.reg \in DOMAIN Registers
            /\ Registers[read.reg] = "coprocessor"

(* Property: the report has one verdict per selected check, in the order   *)
(* of the file, and each is about its own check: it passes if and only if  *)
(* what was read for it meets its expectation, whatever failed for the     *)
(* others (per_check), and a dry run reads nothing and passes what         *)
(* resolves.  Exit code 0 means that all of them passed.  The core is      *)
(* stopped only as asked, and the report says so.                          *)
VerdictsAreOwn ==
  /\ checkAt = "reported" =>
       /\ Len(results) = Len(Chosen)
       /\ \A k \in DOMAIN results :
            /\ results[k] = "pass" <=>
                 IF options.dry_run THEN ~prepared[k].error
                 ELSE got[k][1] = "read" /\ Meets(Entries[Chosen[k]].expect, got[k][2])
            /\ results[k] = "fail" => got[k][1] = "read"
            /\ got[k] = <<"unread">> <=> options.dry_run \/ prepared[k].error
       /\ checkExit = 0 <=> \A k \in DOMAIN results : results[k] = "pass"
       /\ halted = breaks
  /\ breaks => StopIsAsked
  /\ options.dry_run => \A k \in DOMAIN got : got[k] = <<"unread">>
=============================================================================
