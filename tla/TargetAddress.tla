---------------------------- MODULE TargetAddress ----------------------------
(***************************************************************************)
(* debug/probe.rs: addresses as the PowerView command line writes them, an *)
(* access class and a number (`C15:0x4025`, `AD:0x40000000`).              *)
(*                                                                         *)
(* A text is what `parse` tells apart in it: its class (NoColon when there *)
(* is no colon) and how its number is written.  Words are WordSize wide    *)
(* (64 bits in the code).                                                  *)
(***************************************************************************)
EXTENDS Naturals

CONSTANTS
  WordSize,     (* number of values of a word                              *)
  PlainClasses, (* access classes of memory                                *)
  None

(* Classes that end in C15 or C14: registers of the core.                  *)
CoprocessorClasses == {"C15", "C14", "HC15", "EC15"}

Classes == PlainClasses \cup CoprocessorClasses

ASSUME AddressAssumption ==
  /\ WordSize \in Nat \ {0}
  /\ PlainClasses \cap (CoprocessorClasses \cup {"no colon", "not alphanumeric"}) = {}

Addresses == [class : Classes, value : 0 .. WordSize - 1]

(* A number after 0x, a decimal number with or without the dot of TRACE32, *)
(* or neither; a number too large for a word is not one.                   *)
Numbers == [written : {"0x", "decimal", "decimal dot"}, value : Nat] \cup {[written |-> "other"]}

Parse(text) ==
  IF text.class \in Classes /\ text.number.written # "other" /\ text.number.value < WordSize
    THEN [class |-> text.class, value |-> text.number.value] ELSE None

IsCoprocessor(address) == address.class \in CoprocessorClasses

(* Class C15, and op1 (bits 12 to 14) is 4.                                *)
IsHypCp15(address) == address.class = "C15" /\ (address.value \div 4096) % 8 = 4

(* The value wraps around.                                                 *)
Offset(address, by) == [address EXCEPT !.value = (@ + by) % WordSize]

(* PER.ADDRESS of a C15 or C14 register is four times its address.         *)
CommandLineAddress(class, offset) ==
  IF class \notin {"C15", "C14"} THEN [class |-> class, value |-> offset]
  ELSE IF offset % 4 = 0 THEN [class |-> class, value |-> offset \div 4]
  ELSE None

(* value_as_u64 of a reply: numbers, booleans, and texts that are addresses. *)
ValueAsWord(reply) ==
  IF reply.type = "int" THEN reply.value
  ELSE IF reply.type = "bool" THEN IF reply.value THEN 1 ELSE 0
  ELSE IF reply.type = "text" /\ Parse(reply.value) # None THEN Parse(reply.value).value
  ELSE None
=============================================================================
