------------------------------ MODULE MCParts ------------------------------
(***************************************************************************)
(* TLC instance of four parts that do not interact: the connection to      *)
(* PowerView, the RTT terminal, the process of the adapter proxy, and the  *)
(* command sequences of the target.  Each behaviour is about one, and the  *)
(* others rest.                                                            *)
(***************************************************************************)
EXTENDS RclLink, RttChannel, DapProxy, TargetSequence

VARIABLE part  (* the part this behaviour is about                         *)

vars == <<rclVars, rttVars, processVars, commandVars, part>>

(* The parts at rest.                                                      *)
ProxyRest ==
  /\ main = "none" /\ result = 0 /\ ports = {} /\ adapter = "none" /\ status = 0
  /\ client = [c \in Clients |-> "absent"] /\ outcomes = {}
  /\ session_active = FALSE /\ exit_code = 0 /\ finished = FALSE /\ shutdown = FALSE
SequenceRest ==
  /\ action = "none" /\ config = {} /\ todo = <<>> /\ depth = 0 /\ failed = FALSE
  /\ outcome = "rest" /\ culprit = "none" /\ mode = "down" /\ running = FALSE
  /\ settings = {} /\ stack = <<>> /\ others = 0 /\ reprogram = FALSE
  /\ programmed = {} /\ flash = {} /\ symbols = {}

(* The first two begin in one state each.                                  *)
Init ==
  /\ part \in {"connection", "terminal", "proxy", "sequence"}
  /\ RclInit /\ RttInit
  /\ IF part = "proxy"    THEN ProxyInit    ELSE ProxyRest
  /\ IF part = "sequence" THEN SequenceInit ELSE SequenceRest

(* All but the connection may really stop, so that a deadlock is one of    *)
(* the connection.                                                         *)
MayStop == part # "connection" /\ UNCHANGED vars

Next ==
  \/ part = "connection" /\ RclNext
       /\ UNCHANGED <<rttVars, processVars, commandVars, part>>
  \/ part = "terminal" /\ RttNext
       /\ UNCHANGED <<rclVars, processVars, commandVars, part>>
  \/ part = "proxy" /\ ProxyNext
       /\ UNCHANGED <<rclVars, rttVars, commandVars, part>>
  \/ part = "sequence" /\ SequenceNext
       /\ UNCHANGED <<rclVars, rttVars, processVars, part>>
  \/ MayStop

Spec == Init /\ [][Next]_vars

(* The fairness of each part, for the behaviours in which it runs.         *)
FairSpec ==
  /\ Spec
  /\ WF_rclVars(part = "connection" /\ Receive)
  /\ WF_rttVars(part = "terminal" /\ Host)
  /\ <>[][~(pc \in Accesses /\ Retry)]_rttVars
  /\ WF_rttVars(part = "terminal" /\ (TargetInitsDescriptors \/ TargetWritesId))
  /\ WF_rttVars(part = "terminal" /\ TargetReads)
  /\ WF_processVars(part = "proxy" /\ Run)
  /\ \A c \in Clients : WF_processVars(part = "proxy" /\ Connecting(c))
  /\ WF_commandVars(part = "sequence" /\ Sequencer)
=============================================================================
