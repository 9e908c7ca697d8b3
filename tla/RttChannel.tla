----------------------------- MODULE RttChannel -----------------------------
(***************************************************************************)
(* The SEGGER RTT terminal (crates/tracebridge/src/rtt.rs): RttChannel's   *)
(* read_up and write_down, and the loop of run that calls them.            *)
(*                                                                         *)
(* The rings live in target memory.  The firmware writes the up-channel's  *)
(* WrOff and the down-channel's RdOff, the host the other two, and both    *)
(* sides run at the same time: every access of the host to target memory   *)
(* is a step of its own.  An access may fail before TRACE32 carried it out *)
(* (run-time access refused) or after it did (the answer was late: PowerView *)
(* works through its requests in order, so a late write still comes before *)
(* everything the host does next).  The target may be reset at any time.   *)
(*                                                                         *)
(* Bytes are numbered in the order they were produced.                     *)
(***************************************************************************)
EXTENDS Integers, Sequences

CONSTANTS
  Size,       (* SizeOfBuffer of both channels                             *)
  MaxUp,      (* bound on the bytes the firmware writes                    *)
  MaxTyped,   (* bound on the bytes the user types                         *)
  MaxResets   (* bound on the resets of the target                         *)

ASSUME SizeAssumption == Size \in Nat /\ Size >= 2
ASSUME RttBoundsAssumption == MaxUp \in Nat /\ MaxTyped \in Nat /\ MaxResets \in Nat

VARIABLES
  id,           (* the identifier "SEGGER RTT" is in place                 *)
  valid,        (* both descriptors name a buffer                          *)
  upRing,       (* up-channel: offsets WrOff and RdOff, and the cells      *)
  downRing,     (* down-channel, likewise                                  *)
  pc,           (* where the host is                                       *)
  initialized,  (* RttChannel.initialized                                  *)
  desc,         (* offsets of the Descriptor the host read                 *)
  data,         (* bytes read_up has read                                  *)
  count,        (* bytes write_down writes                                 *)
  pending_input, (* typed, not known to be written                         *)
  printed,      (* the latest output written to stdout                     *)
  torn,         (* history: a reset hit this operation after its           *)
                (* descriptor was read                                     *)
  written,      (* bytes the firmware has written                          *)
  typed,        (* bytes the user has typed                                *)
  resets        (* resets of the target                                    *)

firmwareVars == <<id, valid, upRing, downRing>>
hostVars     == <<pc, initialized, desc, data, count, pending_input, printed>>
rttVars      == <<firmwareVars, hostVars, torn, written, typed, resets>>

Offsets == 0 .. Size - 1

Blank == [wr |-> 0, rd |-> 0, cell |-> [o \in Offsets |-> 0]]

(* Bytes between two offsets of a ring, and the room left after wr.        *)
Used(wr, rd) == (wr - rd + Size) % Size

(* Mutant: the room at the beginning of the ring is not counted.           *)
FreeToEnd(wr, rd) == IF wr < rd THEN rd - wr - 1 ELSE Size - 1 - wr

Free(wr, rd) == (rd + Size - wr - 1) % Size

Contents(ring) ==
  [k \in 1 .. Used(ring.wr, ring.rd) |-> ring.cell[(ring.rd + k - 1) % Size]]

-----------------------------------------------------------------------------
(* The firmware.                                                           *)

TargetInitsDescriptors ==
  /\ ~valid
  /\ valid' = TRUE
  /\ upRing' = [upRing EXCEPT !.wr = 0, !.rd = 0]
  /\ downRing' = [downRing EXCEPT !.wr = 0, !.rd = 0]
  /\ UNCHANGED <<id, hostVars, torn, written, typed, resets>>

TargetWritesId ==
  /\ valid /\ ~id
  /\ id' = TRUE
  /\ UNCHANGED <<valid, upRing, downRing, hostVars, torn, written, typed, resets>>

(* SEGGER_RTT_Write of one byte.                                           *)
TargetWrites ==
  /\ id /\ written < MaxUp
  /\ Free(upRing.wr, upRing.rd) > 0
  /\ upRing' = [upRing EXCEPT !.cell[upRing.wr] = written + 1,
                              !.wr = (@ + 1) % Size]
  /\ written' = written + 1
  /\ UNCHANGED <<id, valid, downRing, hostVars, torn, typed, resets>>

(* SEGGER_RTT_Read of one byte.                                            *)
TargetReads ==
  /\ id /\ downRing.wr # downRing.rd
  /\ downRing' = [downRing EXCEPT !.rd = (@ + 1) % Size]
  /\ UNCHANGED <<id, valid, upRing, hostVars, torn, written, typed, resets>>

UpOperation   == {"up_wrap", "up_rest", "up_publish"}
DownOperation == {"down_first", "down_second", "down_publish"}

(* A reset clears the control block; the cells keep what they held.        *)
TargetResets ==
  /\ resets < MaxResets
  /\ resets' = resets + 1
  /\ id' = FALSE /\ valid' = FALSE
  /\ upRing' = [upRing EXCEPT !.wr = 0, !.rd = 0]
  /\ downRing' = [downRing EXCEPT !.wr = 0, !.rd = 0]
  /\ torn' = CASE pc \in UpOperation   -> "up"
               [] pc \in DownOperation -> "down"
               [] OTHER                -> torn
  /\ UNCHANGED <<hostVars, written, typed>>

-----------------------------------------------------------------------------
(* The host.                                                               *)

RttInit ==
  /\ id = FALSE /\ valid = FALSE /\ upRing = Blank /\ downRing = Blank
  /\ pc = "start" /\ initialized = FALSE
  /\ desc = [wr |-> 0, rd |-> 0] /\ data = <<>> /\ count = 0
  /\ pending_input = <<>> /\ printed = <<>>
  /\ torn = "none" /\ written = 0 /\ typed = 0 /\ resets = 0

HostSteps == <<firmwareVars, written, typed, resets>>

(* The operation ends; whatever it had read is forgotten.                  *)
Goto(label) ==
  /\ pc' = label
  /\ desc' = [wr |-> 0, rd |-> 0] /\ data' = <<>> /\ count' = 0
  /\ torn' = "none"

(* run's first refresh_state, whose failure only means "waiting"; --replay *)
(* then writes RdOff, and stops the program if that fails.                 *)
Start ==
  /\ pc = "start"
  /\ initialized' \in {FALSE, id}
  /\ pc' \in {"replay", "up"}
  /\ UNCHANGED <<HostSteps, desc, data, count, pending_input, printed, torn>>

Replay ==
  /\ pc = "replay"
  /\ \/ upRing' = [upRing EXCEPT !.rd = 0] /\ pc' \in {"up", "stopped"}
     \/ upRing' = upRing /\ pc' = "stopped"
  /\ UNCHANGED <<id, valid, downRing, initialized, desc, data, count,
                 pending_input, printed, torn, written, typed, resets>>

(* An access fails: run forgets that the channel was initialized, waits,   *)
(* and starts the loop over.                                               *)
Retry == Goto("up") /\ initialized' = FALSE

Accesses == {"up", "up_desc", "up_wrap", "up_rest", "up_publish",
             "down", "down_desc", "down_first", "down_second", "down_publish"}

AccessFails ==
  /\ pc \in Accesses
  /\ Retry
  /\ UNCHANGED <<HostSteps, pending_input, printed>>

(* refresh_state, only when the channel is not known to be initialized.    *)
UpRefresh ==
  /\ pc = "up"
  /\ initialized' = (initialized \/ id)
  /\ IF initialized' THEN Goto("up_desc") ELSE Goto("input")
  /\ UNCHANGED <<HostSteps, pending_input, printed>>

(* Descriptor::read and is_valid.                                          *)
UpDescriptor ==
  /\ pc = "up_desc"
  /\ initialized' = valid
  /\ IF valid /\ upRing.wr # upRing.rd
     THEN /\ desc' = [wr |-> upRing.wr, rd |-> upRing.rd]
          /\ pc' = IF upRing.wr < upRing.rd THEN "up_wrap" ELSE "up_rest"
          /\ UNCHANGED <<data, count, torn>>
     ELSE Goto("input")
  /\ UNCHANGED <<HostSteps, pending_input, printed>>

CellsFrom(ring, first, n) == [k \in 1 .. n |-> ring.cell[first + k - 1]]

(* The bytes up to the end of the buffer, then those from its beginning.   *)
UpReadWrap ==
  /\ pc = "up_wrap"
  /\ data' = CellsFrom(upRing, desc.rd, Size - desc.rd)
  /\ desc' = [desc EXCEPT !.rd = 0]
  /\ pc' = IF desc.wr > 0 THEN "up_rest" ELSE "up_publish"
  /\ UNCHANGED <<HostSteps, initialized, count, pending_input, printed, torn>>

UpReadRest ==
  /\ pc = "up_rest"
  /\ data' = data \o CellsFrom(upRing, desc.rd, desc.wr - desc.rd)
  /\ pc' = "up_publish"
  /\ UNCHANGED <<HostSteps, initialized, desc, count, pending_input, printed, torn>>

(* Mutant: RdOff is set to what the target has written by now.             *)
UpPublishLatest ==
  /\ pc = "up_publish"
  /\ upRing' = [upRing EXCEPT !.rd = upRing.wr]
  /\ \/ printed' = data /\ Goto("input") /\ UNCHANGED initialized
     \/ UNCHANGED printed /\ Retry
  /\ UNCHANGED <<id, valid, downRing, pending_input, written, typed, resets>>

(* RdOff := the WrOff read before; read_up returns and run prints.  The    *)
(* answer may be lost, and the output with it.                             *)
UpPublish ==
  /\ pc = "up_publish"
  /\ upRing' = [upRing EXCEPT !.rd = desc.wr]
  /\ \/ printed' = data /\ Goto("input") /\ UNCHANGED initialized
     \/ UNCHANGED printed /\ Retry
  /\ UNCHANGED <<id, valid, downRing, pending_input, written, typed, resets>>

(* read_terminal_input: whatever is there; write_down only if something is. *)
ReadTerminal ==
  /\ pc = "input"
  /\ \E n \in 0 .. MaxTyped - typed :
       /\ pending_input' = pending_input \o [k \in 1 .. n |-> typed + k]
       /\ typed' = typed + n
  /\ Goto(IF pending_input' = <<>> THEN "up" ELSE "down")
  /\ UNCHANGED <<firmwareVars, initialized, printed, written, resets>>

DownRefresh ==
  /\ pc = "down"
  /\ initialized' = (initialized \/ id)
  /\ IF initialized' THEN Goto("down_desc") ELSE Goto("up")
  /\ UNCHANGED <<HostSteps, pending_input, printed>>

Least(a, b) == IF a < b THEN a ELSE b

DownDescriptor ==
  /\ pc = "down_desc"
  /\ initialized' = valid
  /\ LET n == Least(Len(pending_input), Free(downRing.wr, downRing.rd)) IN
     IF valid /\ n > 0
     THEN /\ desc' = [wr |-> downRing.wr, rd |-> downRing.rd]
          /\ count' = n
          /\ pc' = "down_first"
          /\ UNCHANGED <<data, torn>>
     ELSE Goto("up")
  /\ UNCHANGED <<HostSteps, pending_input, printed>>

first == Least(count, Size - desc.wr)

(* n bytes of the pending input, from its k-th on, go to offset o.         *)
Store(o, k, n) ==
  downRing' = [downRing EXCEPT !.cell =
    [c \in Offsets |-> IF c \in o .. o + n - 1 THEN pending_input[k + c - o] ELSE @[c]]]

(* An access that writes cells may be carried out and fail all the same.   *)
DownFirst ==
  /\ pc = "down_first"
  /\ Store(desc.wr, 1, first)
  /\ \/ /\ pc' = IF count > first THEN "down_second" ELSE "down_publish"
        /\ UNCHANGED <<initialized, desc, data, count, torn>>
     \/ Retry
  /\ UNCHANGED <<id, valid, upRing, pending_input, printed, written, typed, resets>>

DownSecond ==
  /\ pc = "down_second"
  /\ Store(0, first + 1, count - first)
  /\ \/ pc' = "down_publish" /\ UNCHANGED <<initialized, desc, data, count, torn>>
     \/ Retry
  /\ UNCHANGED <<id, valid, upRing, pending_input, printed, written, typed, resets>>

(* WrOff is published last; then run drops what was sent.  If the answer   *)
(* is lost, the input stays pending and is sent again.                     *)
DownPublish ==
  /\ pc = "down_publish"
  /\ downRing' = [downRing EXCEPT !.wr = (desc.wr + count) % Size]
  /\ \/ /\ pending_input' = SubSeq(pending_input, count + 1, Len(pending_input))
        /\ Goto("up") /\ UNCHANGED initialized
     \/ UNCHANGED pending_input /\ Retry
  /\ UNCHANGED <<id, valid, upRing, printed, written, typed, resets>>

Target ==
  \/ TargetInitsDescriptors \/ TargetWritesId \/ TargetWrites \/ TargetReads
  \/ TargetResets

Host ==
  \/ Start \/ Replay \/ AccessFails
  \/ UpRefresh \/ UpDescriptor \/ UpReadWrap \/ UpReadRest \/ UpPublish
  \/ ReadTerminal
  \/ DownRefresh \/ DownDescriptor \/ DownFirst \/ DownSecond \/ DownPublish

RttNext == Target \/ Host

RttSpec == RttInit /\ [][RttNext]_rttVars

(* The loop never stops, run-time access works from some time on, and the  *)
(* firmware initializes RTT and reads its input.  Nothing is assumed of    *)
(* what the firmware writes or the user types.  (A step that finds RTT not *)
(* initialized looks like a failure; those end with the initialization.)   *)
RttFairness ==
  /\ WF_rttVars(Host)
  /\ <>[][~(pc \in Accesses /\ Retry)]_rttVars
  /\ WF_rttVars(TargetInitsDescriptors \/ TargetWritesId)
  /\ WF_rttVars(TargetReads)

RttFairSpec == RttSpec /\ RttFairness

-----------------------------------------------------------------------------

Ring == [wr : Offsets, rd : Offsets, cell : [Offsets -> Nat]]

(* Every offset stays inside its ring, also those the host writes after a  *)
(* reset of the target: the firmware indexes the buffer with them.         *)
RttTypeOK ==
  /\ id \in BOOLEAN /\ valid \in BOOLEAN /\ initialized \in BOOLEAN
  /\ upRing \in Ring /\ downRing \in Ring
  /\ pc \in Accesses \cup {"start", "replay", "stopped", "input"}
  /\ desc \in [wr : Offsets, rd : Offsets]
  /\ data \in Seq(Nat) /\ pending_input \in Seq(Nat) /\ printed \in Seq(Nat)
  /\ count \in 0 .. Size - 1
  /\ torn \in {"none", "up", "down"}
  /\ written \in Nat /\ typed \in Nat /\ resets \in Nat

(* Both streams keep their order and lose or repeat nothing but what       *)
(* RttStreams allows: the rings hold the streams between host and target.  *)
Streams == INSTANCE RttStreams WITH
  up      <- Contents(upRing),
  down    <- Contents(downRing),
  input   <- pending_input,
  started <- pc \notin {"start", "replay"}

ImplementsStreams == Streams!StreamsSpec

(* Everything typed is published in the end, however small the ring, and   *)
(* whatever failures and resets came in between.                           *)
InputReachesTarget == pending_input # <<>> ~> pending_input = <<>>

(* Output in the ring is taken in the end, unless the program gave up      *)
(* because --replay could not set RdOff.                                   *)
OutputReachesHost ==
  upRing.wr # upRing.rd ~> upRing.wr = upRing.rd \/ pc = "stopped"

(* Property: both directions drain.                                        *)
BytesArrive == InputReachesTarget /\ OutputReachesHost

=============================================================================
