------------------------------ MODULE MemoryApi ------------------------------
(***************************************************************************)
(* What t32rcl makes of calls and their answers: memory_read and           *)
(* write_memory in chunks, symbol queries, functions and the version check *)
(* (lib.rs, symbol.rs, eval.rs, error.rs), and addresses as text           *)
(* (address.rs).  RclLink is how one call gets its answer.                 *)
(*                                                                         *)
(* Chunks and addresses are scaled down.  A symbol in an answer is a       *)
(* sequence of parameters, the last of which may be cut; the text of an    *)
(* address is a sequence of tokens, that of a function's answer one of     *)
(* characters, without blanks, capitals and "_" between digits.            *)
(***************************************************************************)
EXTENDS Integers, Sequences, FiniteSets, SequencesExt

CONSTANTS
  ApiCalls,        (* [op] with address and length or data, stream, or text*)
  FunctionAnswers, (* [type, text] or Garbled                              *)
  MaxReadChunk,    (* 1008                                                 *)
  MaxWriteChunk,   (* 1024                                                 *)
  AddressSpace,    (* 2^64                                                 *)
  ByteBase,        (* 256                                                  *)
  WordLimit,       (* 2^64                                                 *)
  IntLimit,        (* 2^127                                                *)
  MinBuild, MinBase,
  MaxTargetMoves,  (* bound: bytes that the target writes meanwhile        *)
  Garbled, Nothing

(* Parameters of a symbol; tokens of the text of an address.               *)
Ids == {"NM", "NE", "PT", "SZ", "AD", "A32", "A64", "AC", "skip", "XX", "other"}
Tokens == {":", "0x", "0", "7", "a", "huge", "newline"}
Characters == {"+", "-", "0", "1", "7", "b", "x", "y", ".", "TRUE()", "FALSE()", "other"}

ASSUME ApiAssumption ==
  /\ MaxReadChunk \in Nat \ {0} /\ MaxWriteChunk \in Nat \ {0} /\ AddressSpace \in Nat \ {0}
  /\ ByteBase \in Nat \ {0} /\ WordLimit \in Nat \ {0} /\ WordLimit % ByteBase = 0
  /\ MinBuild \in Nat /\ MinBase \in Nat /\ MaxTargetMoves \in Nat
  /\ \A c \in ApiCalls :
       /\ c.op \in {"read", "write", "symbol", "practice", "parse", "version", "idle", "running",
                    "eval"}
       /\ c.op \in {"read", "write"} => c.address \in Nat
       /\ c.op = "read" => c.length \in 0 .. AddressSpace
       /\ c.op = "write" => c.data \in Seq(Nat)
       /\ c.op = "practice" => c.data \in Seq(0 .. ByteBase - 1)
       /\ c.op = "symbol" => c.stream \in Seq([id : Ids, text : Nat, cut : BOOLEAN])
       /\ c.op = "parse" => c.text \in Seq(Tokens)
  /\ \A answer \in FunctionAnswers \ {Garbled} : answer.text \in Seq(Characters)

VARIABLES
  apiCall, apiAt,
  moved,           (* bytes read; answers of functions                     *)
  at_item,         (* next chunk to write; position in the stream          *)
  symbol,          (* the symbol so far                                    *)
  apiResult,       (* what the caller gets: [ok] or [error, operation]     *)
  target_bytes,    (* memory of the target                                 *)
  held,            (* history: the bytes an address held since the call    *)
  written,         (* history: [address, byte] that the call wrote         *)
  targetMoves

apiVars == <<apiCall, apiAt, moved, at_item, symbol, apiResult, target_bytes, held, written,
             targetMoves>>

AddressRange == 0 .. AddressSpace - 1
Smaller(m, n) == IF m < n THEN m ELSE n

-----------------------------------------------------------------------------
(* Failures of `call`: an error code of TRACE32, FN1 or another; no answer *)
(* in time; the connection.  check_response, from_code.                    *)
Failures == {"FN1", "code", "timeout", "lost"}
OfTrace32(failure) == failure \in {"FN1", "code"}
Error(error, operation) == [error |-> error, operation |-> operation]

(* cmd and fnc name what failed for FN1 only; memory_error for every code. *)
CallError(failure, operation) ==
  IF failure = "FN1" THEN Error("trace32", operation)
  ELSE IF failure = "code" THEN Error("trace32", "Api") ELSE Error(failure, "none")
MemoryError(failure, operation) ==
  IF OfTrace32(failure) THEN Error("trace32", operation) ELSE Error(failure, "none")
Protocol == Error("protocol", "none")

CallEnds(result) == apiResult' = result /\ apiAt' = "ended"

ApiInit ==
  /\ apiCall \in ApiCalls /\ apiAt = apiCall.op
  /\ moved = <<>> /\ at_item = 1 /\ apiResult = Nothing
  /\ symbol = [name |-> <<>>, path |-> Nothing, size |-> 0, has_address |-> FALSE,
               value |-> Nothing, access |-> Nothing, in_address |-> FALSE]
  /\ target_bytes = [a \in AddressRange |-> 0] /\ held = [a \in AddressRange |-> {0}]
  /\ written = {} /\ targetMoves = 0

(* The target runs, or another program writes. *)
TargetWrites ==
  /\ apiAt = "read" /\ targetMoves < MaxTargetMoves /\ targetMoves' = targetMoves + 1
  /\ \E a \in AddressRange :
       /\ target_bytes' = [target_bytes EXCEPT ![a] = 2] /\ held' = [held EXCEPT ![a] = @ \cup {2}]
  /\ UNCHANGED <<apiCall, apiAt, moved, at_item, symbol, apiResult, written>>

-----------------------------------------------------------------------------
(* memory_read: an answer may be short, or longer than asked for.          *)
At(offset) == (apiCall.address + offset) % AddressSpace

MemoryRead ==
  /\ apiAt = "read"
  /\ LET chunk == Smaller(apiCall.length - Len(moved), MaxReadChunk) IN
     IF chunk = 0 THEN CallEnds([ok |-> moved]) /\ UNCHANGED moved
     ELSE \/ \E count \in 0 .. chunk + 1 :
               IF count < chunk THEN CallEnds(Protocol) /\ UNCHANGED moved
               ELSE /\ moved' = moved \o
                         [i \in 1 .. chunk |-> target_bytes[At(Len(moved) + i - 1)]]
                    /\ UNCHANGED <<apiAt, apiResult>>
          \/ \E failure \in Failures :
               CallEnds(MemoryError(failure, "MemoryRead")) /\ UNCHANGED moved
  /\ UNCHANGED <<apiCall, at_item, symbol, target_bytes, held, written, targetMoves>>

(* write_memory; a chunk that fails may be written in part.                *)
Placed(bytes, offset) == {[address |-> At(offset + i - 1), byte |-> bytes[i]] : i \in DOMAIN bytes}

(* Mutant: the offset counts chunks of the size that is read.              *)
OffsetByReadChunk(index) == (index - 1) * MaxReadChunk

ChunkOffset(index) == (index - 1) * MaxWriteChunk

WriteMemory ==
  /\ apiAt = "write"
  /\ LET offset == (at_item - 1) * MaxWriteChunk
         chunk == SubSeq(apiCall.data, offset + 1,
                         Smaller(offset + MaxWriteChunk, Len(apiCall.data)))
         put(bytes) ==
           /\ written' = written \cup Placed(bytes, ChunkOffset(at_item))
           /\ target_bytes' =
                [a \in AddressRange |->
                   IF \E w \in Placed(bytes, ChunkOffset(at_item)) : w.address = a
                     THEN (CHOOSE w \in Placed(bytes, ChunkOffset(at_item)) : w.address = a).byte
                     ELSE target_bytes[a]]
     IN  IF offset >= Len(apiCall.data)
           THEN CallEnds([ok |-> <<>>]) /\ UNCHANGED <<at_item, written, target_bytes>>
         ELSE \/ put(chunk) /\ at_item' = at_item + 1 /\ UNCHANGED <<apiAt, apiResult>>
              \/ \E failure \in Failures, done \in 0 .. Len(chunk) :
                   /\ put(SubSeq(chunk, 1, done)) /\ UNCHANGED at_item
                   /\ CallEnds(MemoryError(failure, "MemoryWrite"))
  /\ UNCHANGED <<apiCall, moved, symbol, held, targetMoves>>

-----------------------------------------------------------------------------
(* Symbol and Address: deserialize, one parameter at a time.  A parameter  *)
(* that is cut, or not known where it stands, is refused; what is skipped  *)
(* is not looked at.  An address ends, as the symbol does, at its XX or    *)
(* with the answer.                                                        *)
Stream == apiCall.stream
InStream(i) == i \in DOMAIN Stream
Intact(i, ids) == InStream(i) /\ Stream[i].id \in ids /\ ~Stream[i].cut
Skipped(i) == InStream(i) /\ Stream[i].id = "skip"

(* Mutant: a name keeps the extensions of the one before.                  *)
TakeParameterBehind(id, text) ==
  CASE id \in {"NM", "NE"} -> [symbol EXCEPT !.name = Append(symbol.name, text)]
    [] id = "PT" -> [symbol EXCEPT !.path = text]
    [] id = "SZ" -> [symbol EXCEPT !.size = text]

TakeParameter(id, text) ==
  CASE id = "NM" -> [symbol EXCEPT !.name = <<text>>]
    [] id = "NE" -> [symbol EXCEPT !.name = Append(symbol.name, text)]
    [] id = "PT" -> [symbol EXCEPT !.path = text]
    [] id = "SZ" -> [symbol EXCEPT !.size = text]

TakeAddressParameter(id, text) ==
  CASE id = "AC" -> [symbol EXCEPT !.access = text]
    [] id = "skip" -> symbol
    [] id = "XX" -> [symbol EXCEPT !.in_address = FALSE]

(* An extension needs a name before it.                                    *)
IsParameter ==
  /\ ~symbol.in_address /\ Intact(at_item, {"NM", "NE", "PT", "SZ"})
  /\ Stream[at_item].id = "NE" => symbol.name # <<>>
IsAddress ==
  ~symbol.in_address /\ Intact(at_item, {"AD"}) /\ Intact(at_item + 1, {"A32", "A64"})
IsAddressParameter == symbol.in_address /\ (Intact(at_item, {"AC", "XX"}) \/ Skipped(at_item))

SymbolParameter ==
  /\ IsParameter /\ at_item' = at_item + 1
  /\ symbol' = TakeParameter(Stream[at_item].id, Stream[at_item].text)

SymbolAddress ==
  /\ IsAddress /\ at_item' = at_item + 2
  /\ symbol' = [symbol EXCEPT !.has_address = TRUE, !.value = Stream[at_item + 1].text,
                              !.access = Nothing, !.in_address = TRUE]

AddressParameter ==
  /\ IsAddressParameter /\ at_item' = at_item + 1
  /\ symbol' = TakeAddressParameter(Stream[at_item].id, Stream[at_item].text)

Exhausted == ~InStream(at_item) \/ (~symbol.in_address /\ Intact(at_item, {"XX"}))
Refused == ~Exhausted /\ ~IsParameter /\ ~IsAddress /\ ~IsAddressParameter

ReadStream ==
  /\ apiAt = "symbol" /\ (SymbolParameter \/ SymbolAddress \/ AddressParameter)
  /\ UNCHANGED <<apiCall, apiAt, moved, apiResult, target_bytes, held, written, targetMoves>>

(* symbol_address                                                          *)
QuerySymbol ==
  /\ apiAt = "symbol"
  /\ \/ at_item = 1 /\ \E failure \in Failures : CallEnds(CallError(failure, "Api"))
     \/ /\ Exhausted
        /\ CallEnds(IF symbol.has_address THEN [ok |-> symbol.value]
                ELSE Error("trace32", "Symbol"))
     \/ Refused /\ CallEnds(Protocol)
  /\ UNCHANGED <<apiCall, moved, at_item, symbol, target_bytes, held, written, targetMoves>>

-----------------------------------------------------------------------------
(* Functions: the type says how the text is decoded.                       *)
Kind(type) ==
  CASE type = 1 -> "bool" [] type \in {2, 4, 8} -> "int" [] type \in {16, 1024} -> "float"
    [] type = 2048 -> "times" [] type \in {0, 32, 64, 128, 256, 512, 16384} -> "text"
    [] OTHER -> "empty"

(* parse_int: a sign, the prefix of the base, digits; below 2^127.         *)
DigitValue(c) == CASE c = "1" -> 1 [] c = "7" -> 7 [] c = "b" -> 11 [] OTHER -> 0
DigitsBelow(base) == {c \in {"0", "1", "7", "b"} : DigitValue(c) < base}
NumberOf(digits, base) ==
  LET value[n \in 0 .. Len(digits)] ==
        IF n = 0 THEN 0 ELSE value[n - 1] * base + DigitValue(digits[n])
  IN  value[Len(digits)]
TextFrom(text, place) == SubSeq(text, place, Len(text))

Unsigned(text) == IF text # <<>> /\ text[1] \in {"+", "-"} THEN TextFrom(text, 2) ELSE text
DigitsIn(text, base) ==
  LET unsigned == Unsigned(text) IN
  IF Len(unsigned) > 1 /\ unsigned[1] = "0" /\ <<base, unsigned[2]>> \in {<<2, "b">>, <<16, "x">>}
    THEN TextFrom(unsigned, 3) ELSE unsigned
IsInteger(text, base) ==
  LET digits == DigitsIn(text, base) IN
  digits # <<>> /\ ToSet(digits) \subseteq DigitsBelow(base) /\ NumberOf(digits, base) < IntLimit
IntegerOf(text, base) ==
  IF text[1] = "-" THEN 0 - NumberOf(DigitsIn(text, base), base)
  ELSE NumberOf(DigitsIn(text, base), base)

(* decode takes off the first two characters of a binary number and the    *)
(* last one of a decimal or a time, the unit, whatever they are.  A range  *)
(* of times is one time here, and a float is its text.                     *)
StripLast(text) == SubSeq(text, 1, Len(text) - 1)
Base(type) == CASE type = 2 -> 2 [] type = 4 -> 16 [] OTHER -> 10
Numeral(type, text) ==
  CASE type = 2 -> TextFrom(text, 3) [] type = 4 -> text [] OTHER -> StripLast(text)
IsFloat(text) ==
  /\ ToSet(text) \subseteq {"0", "1", "7", "."} /\ ToSet(text) \ {"."} # {}
  /\ Cardinality({i \in DOMAIN text : text[i] = "."}) <= 1

Decode(answer) ==
  IF answer = Garbled THEN Protocol
  ELSE LET kind == Kind(answer.type)
           text == answer.text IN
    CASE kind = "bool" -> IF text \in {<<"TRUE()">>, <<"FALSE()">>}
                            THEN [kind |-> "bool", value |-> text]
                            ELSE Error("trace32", "Function")
      [] kind = "int" ->
           LET numeral == Numeral(answer.type, text) IN
           IF IsInteger(numeral, Base(answer.type))
             THEN [kind |-> "int", value |-> IntegerOf(numeral, Base(answer.type))] ELSE Protocol
      [] kind \in {"float", "times"} ->
           LET numeral == IF answer.type = 16 THEN text ELSE StripLast(text) IN
           IF IsFloat(numeral) THEN [kind |-> kind, value |-> numeral] ELSE Protocol
      [] OTHER -> [kind |-> kind, value |-> text]

(* What is asked: fnc, fnc_int, fnc_bool; require_practice_idle; and       *)
(* check_powerview_version.                                                *)
Asks ==
  [version |-> <<"int", "int", "any">>, idle |-> <<"int">>, running |-> <<"bool">>,
   eval |-> <<"any">>]
AsksFunction == apiCall.op \in DOMAIN Asks

IsValue(decoded) == "kind" \in DOMAIN decoded

(* Two minimal versions, checked before VERSION.PYRCL is told.             *)
TooOld == Len(moved) = 2 /\ (moved[1].value < MinBuild \/ moved[2].value < MinBase)

CallFunction ==
  /\ AsksFunction /\ apiAt = apiCall.op /\ Len(moved) < Len(Asks[apiCall.op])
  /\ IF apiCall.op = "version" /\ TooOld
       THEN CallEnds(Error("trace32", "Version")) /\ UNCHANGED moved
     ELSE \/ \E answer \in FunctionAnswers :
               LET decoded == Decode(answer)
                   wanted == Asks[apiCall.op][Len(moved) + 1]
               IN  IF ~IsValue(decoded) THEN CallEnds(decoded) /\ UNCHANGED moved
                   ELSE IF wanted \notin {decoded.kind, "any"}
                     THEN CallEnds(Protocol) /\ UNCHANGED moved
                   ELSE moved' = Append(moved, decoded) /\ UNCHANGED <<apiAt, apiResult>>
          \/ \E failure \in Failures : CallEnds(CallError(failure, "Function")) /\ UNCHANGED moved
  /\ UNCHANGED <<apiCall, at_item, symbol, target_bytes, held, written, targetMoves>>

FunctionsCalled ==
  /\ AsksFunction /\ apiAt = apiCall.op /\ Len(moved) = Len(Asks[apiCall.op])
  /\ IF apiCall.op = "idle" /\ moved[1].value # 0 THEN CallEnds(Error("busy", "none"))
     ELSE CallEnds([ok |-> Last(moved).value])
  /\ UNCHANGED <<apiCall, moved, at_item, symbol, target_bytes, held, written, targetMoves>>

(* practice_state: a little-endian integer of any length.                  *)
Folded(bytes) ==
  LET value[n \in 0 .. Len(bytes)] ==
        IF n = 0 THEN 0
        ELSE LET high == value[n - 1] IN
             IF high = WordLimit \/ high * ByteBase >= WordLimit THEN WordLimit
             ELSE high * ByteBase + bytes[Len(bytes) + 1 - n]
  IN  value[Len(bytes)]

PracticeState ==
  /\ apiAt = "practice"
  /\ \/ CallEnds(IF Folded(apiCall.data) = WordLimit THEN Protocol
                 ELSE [ok |-> Folded(apiCall.data)])
     \/ \E failure \in Failures : CallEnds(CallError(failure, "Api"))
  /\ UNCHANGED <<apiCall, moved, at_item, symbol, target_bytes, held, written, targetMoves>>

-----------------------------------------------------------------------------
(* Address::parse: the access class is all that is before the last colon.  *)
Colons(text) == {i \in DOMAIN text : text[i] = ":"}

(* Mutant: the class is all that is before the first colon.                *)
AfterFirstColon(text) ==
  IF Colons(text) = {} THEN 0
  ELSE CHOOSE i \in Colons(text) : \A j \in Colons(text) : j >= i

AfterClass(text) ==
  IF Colons(text) = {} THEN 0
  ELSE CHOOSE i \in Colons(text) : \A j \in Colons(text) : j <= i

Decimal == {"0", "7", "huge"}
Hexadecimal == Decimal \cup {"a"}

(* The digits behind a prefix; a decimal number has no leading zero.       *)
IsHex(text) == text # <<>> /\ Head(text) = "0x"
DigitsOf(text) == IF IsHex(text) THEN Tail(text) ELSE text

IsNumber(text) ==
  LET digits == DigitsOf(text) IN
  /\ digits # <<>> /\ ToSet(digits) \subseteq (IF IsHex(text) THEN Hexadecimal ELSE Decimal)
  /\ ~IsHex(text) /\ Len(digits) > 1 /\ Head(digits) = "0" => ToSet(digits) = {"0"}
  /\ "huge" \notin ToSet(digits)

ParseAddress ==
  /\ apiAt = "parse"
  /\ LET text == apiCall.text
         colon == AfterClass(text)
         number == SubSeq(text, colon + 1, Len(text))
     IN  CallEnds(IF "newline" \in ToSet(text) \/ colon = 1 \/ ~IsNumber(number) THEN Protocol
              ELSE [ok |-> [access |-> SubSeq(text, 1, colon - 1),
                            hex |-> IsHex(number), digits |-> DigitsOf(number)]])
  /\ UNCHANGED <<apiCall, moved, at_item, symbol, target_bytes, held, written, targetMoves>>

ApiNext ==
  \/ TargetWrites \/ MemoryRead \/ WriteMemory \/ ReadStream \/ QuerySymbol
  \/ CallFunction \/ FunctionsCalled \/ PracticeState \/ ParseAddress

-----------------------------------------------------------------------------
(* The parameters of an address are behind an AD with no XX in between.    *)
OfAddress(i) ==
  \E j \in 1 .. i - 1 : Stream[j].id = "AD" /\ \A k \in j + 1 .. i - 1 : Stream[k].id # "XX"
StreamEnd ==
  LET ends == {i \in DOMAIN Stream : Stream[i].id = "XX" /\ ~OfAddress(i)}
  IN  IF ends = {} THEN Len(Stream) + 1 ELSE CHOOSE i \in ends : \A j \in ends : i <= j
LastOf(ids) == {i \in 1 .. StreamEnd - 1 : Stream[i].id \in ids
                  /\ \A j \in i + 1 .. StreamEnd - 1 : Stream[j].id \notin ids}

ParameterFits(i) ==
  LET after_ad == i > 1 /\ Stream[i - 1].id = "AD" IN
  /\ after_ad => Stream[i].id \in {"A32", "A64"}
  /\ ~after_ad /\ OfAddress(i) => Stream[i].id \in {"AC", "skip", "XX"}
  /\ ~after_ad /\ ~OfAddress(i) =>
       /\ Stream[i].id \in {"NM", "NE", "PT", "SZ", "AD"}
       /\ Stream[i].id = "NE" => \E j \in 1 .. i - 1 : Stream[j].id = "NM"

(* What the parser reads of the answer is not cut, and is where it belongs. *)
(* The answer may still have been cut: inside what an address skips, or    *)
(* behind a parameter, without an XX.                                      *)
Parseable ==
  /\ \A i \in 1 .. Smaller(StreamEnd, Len(Stream)) : Stream[i].cut => Stream[i].id = "skip"
  /\ \A i \in 1 .. StreamEnd - 1 :
       ParameterFits(i) /\ (Stream[i].id = "AD" => InStream(i + 1))

(* The parts of the last name, up to a place in the stream.                *)
PartsOfName(i) ==
  {k \in 1 .. i : k < StreamEnd /\ Stream[k].id \in {"NM", "NE"}
                   /\ \A j \in LastOf({"NM"}) : k >= j}

Succeeds(result) == "ok" \in DOMAIN result

(* Property: a read that succeeds has the bytes asked for, each one as its *)
(* address held it during the call, whatever the chunks; a write puts the  *)
(* data at its addresses and nothing else, and one that fails leaves its   *)
(* beginning (memory_read, write_memory).                                  *)
MemoryIsExact ==
  /\ apiAt = "ended" /\ apiCall.op = "read" /\ Succeeds(apiResult) =>
       /\ Len(apiResult.ok) = apiCall.length
       /\ \A i \in 1 .. apiCall.length : apiResult.ok[i] \in held[At(i - 1)]
  /\ apiCall.op = "write" =>
       \E n \in 0 .. Len(apiCall.data) :
         /\ written = {[address |-> At(i - 1), byte |-> apiCall.data[i]] : i \in 1 .. n}
         /\ apiAt = "ended" /\ Succeeds(apiResult) => n = Len(apiCall.data)

(* Property: a symbol has the last address of what came as its answer, and *)
(* the last name with all its extensions, in their order.  Of an answer    *)
(* that is cut in a parameter that is read, or has one where it does not   *)
(* belong, nothing is taken; any other is not refused, so an answer that   *)
(* is cut in what an address skips, or between two parameters, counts as   *)
(* one that ends there (Symbol::deserialize, Address::deserialize).        *)
SymbolsAsTheyCame ==
  apiAt = "ended" /\ apiCall.op = "symbol" =>
    /\ Succeeds(apiResult) =>
         Parseable /\ \A i \in LastOf({"AD"}) : apiResult.ok = Stream[i + 1].text
    /\ apiResult = Protocol => ~Parseable
    /\ Parseable /\ at_item >= StreamEnd /\ apiResult # Protocol =>
         /\ LastOf({"NM"}) = {} <=> symbol.name = <<>>
         /\ \A i \in LastOf({"NM"}) :
              /\ Len(symbol.name) = Cardinality(PartsOfName(Len(Stream)))
              /\ \A k \in PartsOfName(Len(Stream)) :
                   symbol.name[Cardinality(PartsOfName(k))] = Stream[k].text

(* A little-endian number, from the byte at a place on.                    *)
ValueFrom(bytes) ==
  LET value[i \in 1 .. Len(bytes) + 1] ==
        IF i = Len(bytes) + 1 THEN 0 ELSE bytes[i] + ByteBase * value[i + 1]
  IN  value

(* A number, decimal or hexadecimal, and an address as they are written.   *)
WrittenAsNumber(number) ==
  \/ number # <<>> /\ ToSet(number) \subseteq {"0"}
  \/ number # <<>> /\ ToSet(number) \subseteq {"0", "7"} /\ number[1] # "0"
  \/ Len(number) > 1 /\ number[1] = "0x" /\ ToSet(Tail(number)) \subseteq {"0", "7", "a"}
WrittenAsAddress(text) ==
  \E colon \in 0 .. Len(text) :
    /\ colon # 0 => colon > 1 /\ text[colon] = ":"
    /\ "newline" \notin ToSet(text) /\ WrittenAsNumber(SubSeq(text, colon + 1, Len(text)))

(* Property: PowerView is accepted or idle only on answers in the type of  *)
(* an integer, with numbers, as parse_int reads them, that say so; the     *)
(* state of the script is the number that the answer spells, or an error   *)
(* if it is too large; and a text is an address exactly if it is written   *)
(* as one (check_powerview_version, require_practice_idle, practice_state, *)
(* Address::parse).                                                        *)
ValuesAreWhole ==
  apiAt = "ended" =>
    /\ apiCall.op = "version" /\ Succeeds(apiResult) =>
         moved[1].value >= MinBuild /\ moved[2].value >= MinBase
    /\ apiCall.op = "idle" /\ Succeeds(apiResult) => apiResult.ok = 0
    /\ apiCall.op = "practice" =>
         /\ Succeeds(apiResult) => apiResult.ok = ValueFrom(apiCall.data)[1]
         /\ apiResult = Protocol => ValueFrom(apiCall.data)[1] >= WordLimit
    /\ apiCall.op = "parse" => (Succeeds(apiResult) <=> WrittenAsAddress(apiCall.text))

(* Property: memory is read and written exactly; a symbol has the last     *)
(* address and name of what came, and nothing is taken of an answer cut in *)
(* what is read of it; versions and states are what the answers say        *)
(* (memory_read, memory_write, symbol_address, fnc, practice_state,        *)
(* Address::parse).                                                        *)
ApiAnswersFaithfully == MemoryIsExact /\ SymbolsAsTheyCame /\ ValuesAreWhole

ApiSpec == ApiInit /\ [][ApiNext]_apiVars
=============================================================================
