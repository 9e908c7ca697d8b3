----------------------------- MODULE RttStreams -----------------------------
(***************************************************************************)
(* What the RTT terminal promises: two byte streams between the target and *)
(* the user.  Target output is delivered in order and at most once;        *)
(* terminal input is delivered in order and at least once.  Output is lost *)
(* and input repeated only when TRACE32 carried out the write of an offset *)
(* but its answer did not reach the host.  A reset of the target empties   *)
(* both streams; an operation of the host that it cuts in two may leave    *)
(* one of them with stale bytes, once.                                     *)
(* Module RttChannel implements this specification over ring buffers in    *)
(* target memory.                                                          *)
(***************************************************************************)
EXTENDS Integers, Sequences

CONSTANT Size

VARIABLES
  up,       (* written by the target, not yet taken by the host            *)
  down,     (* published by the host, not yet read by the target           *)
  input,    (* typed by the user, not known to be published                *)
  printed,  (* the latest output passed to the user                        *)
  torn,     (* a reset hit the operation in progress on this stream        *)
  started   (* the terminal is past its first look at the target           *)

streamVars == <<up, down, input, printed, torn, started>>

Prefix(s, k)  == SubSeq(s, 1, k)
Without(s, k) == SubSeq(s, k + 1, Len(s))

(* A ring of Size cells holds one byte less.                               *)
Fits(s) == Len(s) < Size

StreamsInit ==
  /\ up = <<>> /\ down = <<>> /\ input = <<>> /\ printed = <<>> /\ torn = "none"
  /\ started = FALSE

(* The target writes output, or reads input.                               *)
TargetWrites ==
  /\ up' # <<>> /\ up = Prefix(up', Len(up') - 1)
  /\ Fits(up')
  /\ UNCHANGED <<down, input, printed, torn, started>>

TargetReads ==
  /\ down # <<>> /\ down' = Tail(down)
  /\ UNCHANGED <<up, input, printed, torn, started>>

(* The host takes a batch of output; it is printed if the host knows.      *)
HostReads ==
  /\ started
  /\ torn # "up"
  /\ \E k \in 1 .. Len(up) :
       /\ up' = Without(up, k)
       /\ printed' \in {printed, Prefix(up, k)}
  /\ UNCHANGED <<down, input, torn, started>>

UserTypes ==
  /\ started
  /\ \E n \in 1 .. Len(input') : input = SubSeq(input', 1, Len(input') - n)
  /\ UNCHANGED <<up, down, printed, torn, started>>

(* The host publishes a batch of input; it keeps it if it does not know.   *)
HostWrites ==
  /\ started
  /\ torn # "down"
  /\ \E k \in 1 .. Len(input) :
       /\ down' = down \o Prefix(input, k)
       /\ input' \in {input, Without(input, k)}
  /\ Fits(down')
  /\ UNCHANGED <<up, printed, torn, started>>

Reset ==
  /\ up' = <<>> /\ down' = <<>>
  /\ torn' \in {torn, "up", "down"}
  /\ UNCHANGED <<input, printed, started>>

(* The end of an operation that a reset cut in two: what it prints or      *)
(* takes from the input is right, the ring it touched is not.              *)
TornRead ==
  /\ torn = "up" /\ Fits(up') /\ torn' = "none"
  /\ UNCHANGED <<down, input, started>>

TornWrite ==
  /\ torn = "down" /\ Fits(down') /\ torn' = "none"
  /\ \E k \in 0 .. Len(input) : input' = Without(input, k)
  /\ UNCHANGED <<up, printed, started>>

(* An operation that a reset cut in two fails before its last step.        *)
TornEnds ==
  torn' = "none" /\ UNCHANGED <<up, down, input, printed, started>>

(* The terminal starts; with --replay it sets the read position back, to   *)
(* output that may have been read before.                                  *)
StartPolling ==
  /\ ~started /\ started' = TRUE
  /\ Fits(up')
  /\ UNCHANGED <<down, input, printed, torn>>

StreamsNext ==
  \/ TargetWrites \/ TargetReads \/ HostReads \/ UserTypes \/ HostWrites
  \/ Reset \/ TornRead \/ TornWrite \/ TornEnds \/ StartPolling

StreamsSpec == StreamsInit /\ [][StreamsNext]_streamVars

=============================================================================
