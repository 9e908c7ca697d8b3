------------------------------ MODULE RclCalls ------------------------------
(***************************************************************************)
(* What a t32rcl Debugger promises its user: calls are made one at a time, *)
(* each returns its own answer or an error, and no answer is returned      *)
(* twice.  The 8-bit message id weakens the promise in two places, stated  *)
(* here and nowhere else: an answer late by a whole turn of the counter    *)
(* (Modulus calls) can be taken for the answer of a later call, and a late *)
(* answer from before a wrap of the counter ends in "out of sync".         *)
(* Module RclLink implements this specification.                           *)
(***************************************************************************)
EXTENDS Integers

CONSTANT Modulus

VARIABLES counter, waiting, last, accepted

callVars == <<counter, waiting, last, accepted>>

Failures == {"timeout", "closed", "protocol"}

Nothing == [call |-> 0, result |-> "none", of |-> 0]

CallsInit == counter = 0 /\ waiting = FALSE /\ last = Nothing /\ accepted = 0

(* A new Debugger, whose requests are numbered from one again.             *)
Open ==
  /\ ~waiting
  /\ counter' = 0 /\ accepted' = 0 /\ last' = Nothing
  /\ UNCHANGED waiting

Begin ==
  /\ ~waiting
  /\ counter' = counter + 1 /\ waiting' = TRUE
  /\ UNCHANGED <<last, accepted>>

(* The request could not be sent.                                          *)
Refuse ==
  /\ ~waiting
  /\ counter' = counter + 1
  /\ \E r \in Failures : last' = [call |-> counter + 1, result |-> r, of |-> 0]
  /\ UNCHANGED <<waiting, accepted>>

(* The requests not newer than this call whose answer was not returned.    *)
Unreturned == (accepted + 1) .. counter

Succeed ==
  /\ waiting /\ waiting' = FALSE
  /\ \E of \in Unreturned, r \in {"answered", "trace32"} :
       /\ of = counter \/ counter - of >= Modulus
       /\ last' = [call |-> counter, result |-> r, of |-> of]
       /\ accepted' = of
  /\ UNCHANGED counter

Fail ==
  /\ waiting /\ waiting' = FALSE
  /\ \/ \E r \in Failures : last' = [call |-> counter, result |-> r, of |-> 0]
     \/ \E of \in Unreturned :
          /\ of \div Modulus < counter \div Modulus
          /\ last' = [call |-> counter, result |-> "out_of_sync", of |-> of]
  /\ UNCHANGED <<counter, accepted>>

CallsNext == Open \/ Begin \/ Refuse \/ Succeed \/ Fail

CallsSpec == CallsInit /\ [][CallsNext]_callVars

=============================================================================
