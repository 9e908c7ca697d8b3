------------------------------ MODULE RclLink ------------------------------
(***************************************************************************)
(* The Remote Control connection of the t32rcl crate: Debugger::connect    *)
(* and Debugger::call over a Link (crates/t32rcl/src/lib.rs, link.rs).     *)
(*                                                                         *)
(* One request is outstanding at a time from the client's point of view,   *)
(* but a request that timed out is not cancelled: PowerView still works    *)
(* on it and its answer arrives later, in front of the answer of the next  *)
(* request.  The client tells them apart with an 8-bit message id, the     *)
(* request counter modulo Modulus (255 in the code).                       *)
(*                                                                         *)
(* A request is named by the value of the counter when it was made; the id *)
(* that travels is IdOf of it.  The payload of requests and answers is     *)
(* abstracted away, so is the byte framing (module FrameDecoder).          *)
(***************************************************************************)
EXTENDS Integers, Sequences, FiniteSets

CONSTANTS
  Modulus,      (* number of message ids, 255 in MessageId::current        *)
  MaxCalls,     (* bound on the requests of one Debugger                   *)
  MaxConnects,  (* bound on the Debuggers created one after the other      *)
  MaxNoise      (* bound on the responses of no request on the wire        *)

ASSUME ModulusAssumption == Modulus \in Nat \ {0}
ASSUME BoundsAssumption  == MaxCalls \in Nat /\ MaxConnects \in Nat /\ MaxNoise \in Nat

VARIABLES
  stage,      (* progress of Debugger::connect                             *)
  counter,    (* MessageId: number of requests made so far                 *)
  waiting,    (* the call is inside Link::receive                          *)
  responses,  (* Link.responses: decoded, not yet looked at                *)
  wire,       (* responses PowerView sent that no read returned yet        *)
  backlog,    (* requests PowerView received and has not answered          *)
  peer,       (* the TCP connection as PowerView sees it                   *)
  last,       (* outcome of the latest finished call                       *)
  accepted,   (* history: the latest request whose answer was returned     *)
  connects    (* Debuggers created                                         *)

linkVars == <<responses, wire, backlog, peer>>
rclVars  == <<stage, counter, waiting, linkVars, last, accepted, connects>>

-----------------------------------------------------------------------------
(* Messages and outcomes.                                                  *)

(* Mutant: the modulus is off by one.                                      *)
IdOfTwo(n) == n % (Modulus - 1)

IdOf(n) == n % Modulus

(* An answer carries the id of its request and a status byte.              *)
Answers == [kind : {"ok", "error"}, of : Nat]

(* What belongs to no request: messages too short to carry an id, and what *)
(* is skipped, here a keepalive, which stands for an empty message, for a  *)
(* notification and for a part of a frame too: a read returns it and       *)
(* receive reads again.                                                    *)
Noise    == [kind : {"keepalive", "short"}, of : {0}]
Response == Answers \cup Noise

IsAnswer(r) == r.kind \in {"ok", "error"}

Results == {"none", "answered", "trace32", "timeout", "closed",
            "out_of_sync", "protocol"}

(* The results that DebugError::from marks as a lost connection.           *)
Lost == {"closed", "out_of_sync"}

Outcome == [call : Nat, result : Results, of : Nat]

NoOutcome == [call |-> 0, result |-> "none", of |-> 0]

Stages == {"new", "attach", "relink", "reattach", "build", "base", "pyrcl",
           "ready", "failed"}

Connected == {"attach", "reattach", "build", "base", "pyrcl", "ready"}

-----------------------------------------------------------------------------

(* Mutant: a new Link keeps what the old one received.                     *)
LinkKeepsResponses(p) == UNCHANGED <<responses, wire>> /\ backlog' = {} /\ peer' = p

(* A Link that was just made, or that was dropped: nothing is under way.   *)
FreshLink(p) == responses' = <<>> /\ wire' = <<>> /\ backlog' = {} /\ peer' = p

RclInit ==
  /\ stage = "new" /\ counter = 0 /\ waiting = FALSE
  /\ responses = <<>> /\ wire = <<>> /\ backlog = {} /\ peer = "closed"
  /\ last = NoOutcome /\ accepted = 0 /\ connects = 0

(* Debugger::connect makes a Link and a counter of its own; the Debugger   *)
(* it replaces, if any, was dropped.  Link::connect itself may fail.       *)
Connect ==
  /\ stage \in {"new", "ready", "failed"} /\ ~waiting
  /\ connects < MaxConnects
  /\ connects' = connects + 1
  /\ \/ stage' = "attach" /\ FreshLink("open")
     \/ stage' = "failed" /\ FreshLink("closed")
  /\ counter' = 0 /\ accepted' = 0 /\ last' = NoOutcome
  /\ UNCHANGED waiting

(* The second Link of Debugger::connect after a timed out ATTACH: the      *)
(* counter goes on.                                                        *)
Relink ==
  /\ stage = "relink"
  /\ \/ stage' = "reattach" /\ FreshLink("open")
     \/ stage' = "failed" /\ FreshLink("closed")
  /\ UNCHANGED <<counter, waiting, last, accepted, connects>>

(* What Debugger::connect does with the result of each of its calls: it    *)
(* retries ATTACH once after a timeout, then checks the version with three *)
(* functions, whose results may be undecodable or a version too old.       *)
AfterAnswer ==
  [attach |-> {"build"}, reattach |-> {"build"}, build |-> {"base", "failed"},
   base |-> {"pyrcl", "failed"}, pyrcl |-> {"ready", "failed"}]

NextStage(result) ==
  CASE stage = "ready"                           -> {"ready"}
    [] stage = "attach" /\ result = "timeout"    -> {"relink"}
    [] stage # "ready" /\ result = "answered"    -> AfterAnswer[stage]
    [] OTHER                                     -> {"failed"}

(* Debugger::call returns.                                                 *)
Return(n, result, of) ==
  /\ waiting' = FALSE
  /\ last' = [call |-> n, result |-> result, of |-> of]
  /\ stage' \in NextStage(result)
  /\ accepted' = IF result \in {"answered", "trace32"} THEN of ELSE accepted
  /\ UNCHANGED connects

(* A request is made: the counter advances first.                          *)
BeginCall ==
  /\ stage \in Connected /\ ~waiting /\ counter < MaxCalls
  /\ counter' = counter + 1

(* encode_frame reached the socket; PowerView will answer unless it is     *)
(* gone or a frame cut short by a write timeout garbled the stream.        *)
Transmit ==
  /\ BeginCall
  /\ waiting' = TRUE
  /\ backlog' = IF peer = "open" THEN backlog \cup {counter + 1} ELSE backlog
  /\ UNCHANGED <<stage, responses, wire, peer, last, accepted, connects>>

(* encode_request refuses a message above 0xF000 bytes: nothing is sent,   *)
(* the id is used up.  The requests of Debugger::connect are short.        *)
TooLarge ==
  /\ stage = "ready" /\ BeginCall
  /\ Return(counter + 1, "protocol", 0)
  /\ UNCHANGED linkVars

(* write_all timed out, before or inside the frame.                        *)
WriteTimeout ==
  /\ BeginCall /\ peer # "closed"
  /\ Return(counter + 1, "timeout", 0)
  /\ peer' \in {peer, "garbled"}
  /\ UNCHANGED <<responses, wire, backlog>>

(* write_all failed on a closed connection.                                *)
WriteFails ==
  /\ BeginCall /\ peer = "closed"
  /\ Return(counter + 1, "closed", 0)
  /\ UNCHANGED linkVars

(* PowerView answers its requests in the order it received them.           *)
Answer ==
  /\ peer = "open"
  /\ \E n \in backlog, status \in {"ok", "error"} :
       /\ \A m \in backlog : n <= m
       /\ wire' = Append(wire, [kind |-> status, of |-> n])
       /\ backlog' = backlog \ {n}
  /\ UNCHANGED <<stage, counter, waiting, responses, peer, last, accepted, connects>>

(* PowerView may send these for ever; MaxNoise bounds those that are on    *)
(* the wire at a time.                                                     *)
SendNoise ==
  /\ peer = "open"
  /\ Cardinality({k \in DOMAIN wire : ~IsAnswer(wire[k])}) < MaxNoise
  /\ \E r \in Noise : wire' = Append(wire, r)
  /\ UNCHANGED <<stage, counter, waiting, responses, backlog, peer, last, accepted, connects>>

(* PowerView exits or closes the connection; what it sent still arrives.   *)
PeerCloses ==
  /\ peer # "closed"
  /\ peer' = "closed" /\ backlog' = {}
  /\ UNCHANGED <<stage, counter, waiting, responses, wire, last, accepted, connects>>

-----------------------------------------------------------------------------
(* Link::receive: take_response looks at the queue until it holds nothing  *)
(* more, then poll_response reads from the socket.                         *)

expected == IdOf(counter)

(* Mutant: stale answers are not skipped.                                  *)
SkipKeepaliveOnly(r) == r.kind = "keepalive"

TakeSkips(r) ==
  \/ r.kind = "keepalive"
  \/ IsAnswer(r) /\ IdOf(r.of) < expected

Skip ==
  /\ waiting /\ responses # <<>>
  /\ TakeSkips(Head(responses))
  /\ responses' = Tail(responses)
  /\ UNCHANGED <<stage, counter, waiting, wire, backlog, peer, last, accepted, connects>>

(* check_response turns a status other than zero into a TRACE32 error.     *)
TakeResult(r) ==
  CASE r.kind = "short" -> "protocol"
    [] IsAnswer(r) /\ IdOf(r.of) = expected ->
         IF r.kind = "ok" THEN "answered" ELSE "trace32"
    [] OTHER -> "out_of_sync"

Take ==
  /\ waiting /\ responses # <<>>
  /\ ~TakeSkips(Head(responses))
  /\ responses' = Tail(responses)
  /\ LET r == Head(responses) IN Return(counter, TakeResult(r), r.of)
  /\ UNCHANGED <<counter, wire, backlog, peer>>

(* One read returns the frames of any prefix of what has arrived.          *)
Poll ==
  /\ waiting /\ responses = <<>>
  /\ \E k \in 1 .. Len(wire) :
       /\ responses' = SubSeq(wire, 1, k)
       /\ wire' = SubSeq(wire, k + 1, Len(wire))
  /\ UNCHANGED <<stage, counter, waiting, backlog, peer, last, accepted, connects>>

(* Mutant: the socket has no read timeout.                                 *)
NoReadTimeout == FALSE

(* The socket's read timeout, set for each read anew (link.rs:200-205):    *)
(* nothing arrived in time, whatever is still under way.  The request      *)
(* stays in PowerView's backlog.                                           *)
ReadTimeout ==
  /\ waiting /\ responses = <<>>
  /\ Return(counter, "timeout", 0)
  /\ UNCHANGED <<counter, linkVars>>

(* A read of zero bytes.                                                   *)
ReadClosed ==
  /\ waiting /\ responses = <<>> /\ wire = <<>> /\ peer = "closed"
  /\ Return(counter, "closed", 0)
  /\ UNCHANGED <<counter, linkVars>>

Receive == Skip \/ Take \/ Poll \/ ReadTimeout \/ ReadClosed

(* Every request of the bounded run has been made: the model's end.        *)
Done ==
  /\ connects = MaxConnects /\ ~waiting
  /\ stage = "failed" \/ counter = MaxCalls
  /\ UNCHANGED rclVars

RclNext ==
  \/ Connect \/ Relink
  \/ Transmit \/ TooLarge \/ WriteTimeout \/ WriteFails
  \/ Answer \/ SendNoise \/ PeerCloses
  \/ Receive
  \/ Done

RclSpec == RclInit /\ [][RclNext]_rclVars

(* A call is a loop of one thread that nothing else blocks, and each of    *)
(* its reads ends, with data or at the socket's time-out, which is never   *)
(* zero (config.rs:396).  Nothing is assumed of PowerView.                 *)
RclFairSpec == RclSpec /\ WF_rclVars(Receive)

-----------------------------------------------------------------------------

RclTypeOK ==
  /\ stage \in Stages
  /\ counter \in Nat /\ accepted \in Nat /\ connects \in Nat
  /\ waiting \in BOOLEAN
  /\ responses \in Seq(Response) /\ wire \in Seq(Response)
  /\ backlog \in SUBSET Nat
  /\ peer \in {"open", "garbled", "closed"}
  /\ last \in Outcome

(* An answer is handed to a call it does not belong to only if it is late  *)
(* by a whole turn of the id counter or more (take_response compares ids,  *)
(* not requests; every shorter delay is noticed).                          *)
ForeignAnswerNeedsFullTurn ==
  last.result \in {"answered", "trace32"} =>
    \/ last.of = last.call
    \/ last.call - last.of >= Modulus

(* "Out of sync" is reported for a late answer from before the id counter  *)
(* wrapped to zero, never for an answer from the same turn.                *)
OutOfSyncOnlyAcrossWrap ==
  last.result = "out_of_sync" =>
    last.of \div Modulus < last.call \div Modulus

(* The connection implements RclCalls: every answer is returned at most    *)
(* once and in the order of the requests, to its own call but for the two  *)
(* exceptions that specification states.                                   *)
Calls == INSTANCE RclCalls
ImplementsCalls == Calls!CallsSpec

(* A call waits for ever only while PowerView keeps sending what belongs   *)
(* to no request: the time-out is that of one read (link.rs:188-205), so   *)
(* keepalives or trickled data postpone it without end.  Silence, late     *)
(* answers, a lost request and a closed connection all let it return.      *)
CallReturns == <>[]waiting => []<><<SendNoise>>_rclVars

(* debug/probe.rs:77-78: "timeouts and undecodable results leave the       *)
(* connection usable": as long as PowerView keeps the connection open, no  *)
(* call reports it as lost.                                                *)
TimeoutsKeepConnectionUsable ==
  peer = "open" => last.result \notin Lost

=============================================================================
