----------------------------- MODULE DapSession -----------------------------
(***************************************************************************)
(* One IDE connection of the DAP proxy (Session in                         *)
(* crates/tracebridge/src/dap/proxy.rs): two pumps that forward messages   *)
(* between the IDE and t32debugadapter, and the restarts that run beside   *)
(* them.                                                                   *)
(*                                                                         *)
(* The pumps and the restarts are asynchronous tasks over one SessionState.*)
(* Each is interrupted where it awaits: handling a message and writing its *)
(* outcome are two steps, and a restart stops after its reset, before and  *)
(* after it sent `continue`, and between its two messages to the IDE.  The *)
(* reset itself is a blocking thread, which outlives a cancelled restart.  *)
(*                                                                         *)
(* The IDE numbers its requests 1, 2, ...  It asks for the variables of    *)
(* the scopes it was shown last, and forgets them when it is told that the *)
(* target continued.  The adapter answers requests in any order and as     *)
(* late as it likes.  Either side may stop reading: when the buffers of    *)
(* its socket are full, a write to it awaits (deaf), and every other task  *)
(* that writes to that side awaits the lock of its writer.  Events and     *)
(* requests of the adapter, which the proxy forwards untouched, are left   *)
(* out.                                                                    *)
(***************************************************************************)
EXTENDS Integers, Sequences, FiniteSets

CONSTANTS
  MaxRequests,    (* bound on the requests of the IDE                      *)
  MaxRestarts,    (* bound on the restarts among them                      *)
  FIRST_SEQUENCE, (* number of the proxy's first message                   *)
  References      (* variablesReference of the adapter's scopes            *)

ASSUME RequestsAssumption ==
  /\ MaxRequests \in Nat /\ MaxRestarts \in Nat /\ FIRST_SEQUENCE \in Nat
  /\ MaxRequests < FIRST_SEQUENCE
ASSUME ReferencesAssumption == 0 \notin References

VARIABLES
  open,              (* the session runs                                   *)
  asked,             (* requests of the IDE, in order                      *)
  shown,             (* the scopes the IDE knows                           *)
  received,          (* the answers the IDE received to each request       *)
  leaked,            (* numbers of other answers it received               *)
  pump_client,       (* message pump_client is writing                     *)
  pump_backend,      (* message pump_backend is writing                    *)
  client_commands,   (* requests of the IDE that are not answered yet      *)
  internal_requests, (* state of the request of each restart               *)
  local_references, launch_rewrites, next_sequence,
  restart,           (* where each restart is                              *)
  reset,             (* where the thread of its reset is                   *)
  internal,          (* number of its `continue`                           *)
  unanswered,        (* what the adapter received and has not answered     *)
  forwarded,         (* history: requests of the IDE the adapter received  *)
  from_backend,      (* answers under way to the proxy                     *)
  deaf,              (* sides that do not read, their sockets full         *)
  running,           (* the target runs                                    *)
  clears             (* history: how often local_references was cleared    *)

ideVars     == <<asked, shown, received, leaked>>
stateVars   == <<client_commands, internal_requests, local_references,
                 launch_rewrites, next_sequence>>
restartVars == <<restart, reset, internal>>
adapterVars == <<unanswered, forwarded, from_backend, deaf, running>>
vars == <<open, ideVars, pump_client, pump_backend, stateVars, restartVars,
          adapterVars, clears>>

Requests == 1 .. MaxRequests
Idle     == [to |-> "nobody"]
NoScopes == [locals |-> 0, epoch |-> 0]

Message(request_seq, command, success, locals, epoch) ==
  [request_seq |-> request_seq, command |-> command, success |-> success,
   locals |-> locals, epoch |-> epoch]

(* A response of the proxy itself, and its event.                          *)
Response(request_seq, command, success) == Message(request_seq, command, success, 0, 0)
Continued == Response(0, "continued event", TRUE)

Init ==
  /\ open = TRUE
  /\ asked = <<>> /\ shown = NoScopes /\ received = [r \in Requests |-> <<>>] /\ leaked = {}
  /\ pump_client = Idle /\ pump_backend = Idle
  /\ client_commands = {} /\ internal_requests = [r \in Requests |-> "none"]
  /\ local_references = {} /\ launch_rewrites = {}
  /\ next_sequence = FIRST_SEQUENCE
  /\ restart = [r \in Requests |-> "none"]
  /\ reset = [r \in Requests |-> "none"]
  /\ internal = [r \in Requests |-> 0]
  /\ unanswered = {} /\ forwarded = {} /\ from_backend = <<>> /\ deaf = {}
  /\ running = FALSE
  /\ clears = 0

-----------------------------------------------------------------------------
(* pump_client: handle_client_message up to its write, and the write.      *)

seq == Len(asked) + 1

Ask(command, locals) ==
  /\ open /\ pump_client = Idle /\ seq <= MaxRequests
  /\ asked' = Append(asked, [command |-> command, locals |-> locals,
                             epoch |-> shown.epoch, clears |-> clears])
  /\ client_commands' = client_commands \cup {seq}
  /\ UNCHANGED <<open, shown, received, leaked, pump_backend, internal_requests,
                 local_references, internal, adapterVars, clears>>

Forward(command) ==
  pump_client' = [to |-> "backend", message |-> [seq |-> seq, command |-> command]]

Restarts == {r \in DOMAIN asked : asked[r].command = "restart"}

AskRestart ==
  /\ Cardinality(Restarts) < MaxRestarts
  /\ Ask("restart", FALSE)
  /\ restart' = [restart EXCEPT ![seq] = "reset"]
  /\ reset' = [reset EXCEPT ![seq] = "started"]
  /\ UNCHANGED <<pump_client, launch_rewrites, next_sequence>>

AskVariables ==
  \E reference \in References :
    /\ shown # NoScopes
    /\ Ask("variables", reference = shown.locals)
    /\ IF reference \in local_references
       THEN /\ pump_client' = [to |-> "client", message |-> Response(seq, "variables", TRUE)]
            /\ next_sequence' = next_sequence + 1
       ELSE Forward("variables") /\ UNCHANGED next_sequence
    /\ UNCHANGED <<launch_rewrites, restart, reset>>

(* launch with "request": "attach" in its arguments.                       *)
AskLaunch ==
  /\ Ask("launch", FALSE)
  /\ launch_rewrites' = launch_rewrites \cup {seq}
  /\ Forward("attach")
  /\ UNCHANGED <<next_sequence, restart, reset>>

AskScopes ==
  /\ Ask("scopes", FALSE)
  /\ Forward("scopes")
  /\ UNCHANGED <<launch_rewrites, next_sequence, restart, reset>>

(* The adapter receives a message, if it reads.                            *)
ToBackend(message) ==
  /\ "backend" \notin deaf
  /\ unanswered' = unanswered \cup {message}
  /\ forwarded' = forwarded \cup ({message.seq} \cap Requests)
  /\ UNCHANGED <<from_backend, deaf, running>>

(* The IDE receives a message, if it reads.                                *)
ToClient(message) ==
  /\ "client" \notin deaf
  /\ IF message.request_seq \in Requests
     THEN /\ received' = [received EXCEPT ![message.request_seq] =
               Append(@, [command |-> message.command, success |-> message.success])]
          /\ UNCHANGED leaked
     ELSE /\ leaked' = leaked \cup ({message.request_seq} \ {0})
          /\ UNCHANGED received
  /\ shown' = CASE message = Continued   -> NoScopes
                [] message.locals # 0     -> [locals |-> message.locals,
                                              epoch |-> message.epoch]
                [] OTHER                  -> shown
  /\ UNCHANGED asked

WriteOfClientPump ==
  /\ open /\ pump_client # Idle
  /\ pump_client' = Idle
  /\ \/ pump_client.to = "backend" /\ ToBackend(pump_client.message) /\ UNCHANGED ideVars
     \/ pump_client.to = "client" /\ ToClient(pump_client.message) /\ UNCHANGED adapterVars
  /\ UNCHANGED <<open, pump_backend, stateVars, restartVars, clears>>

-----------------------------------------------------------------------------
(* restart.                                                                *)

Step(r, from, to) ==
  /\ open /\ restart[r] = from
  /\ restart' = [restart EXCEPT ![r] = to]
  /\ UNCHANGED <<open, asked, pump_client, pump_backend, client_commands,
                 launch_rewrites>>

(* The thread of reset_and_stop: connect, Break, SYStem.Mode Up.  It may   *)
(* fail before Break or after it.                                          *)
ResetBreaks(r) ==
  /\ reset[r] = "started"
  /\ \/ reset' = [reset EXCEPT ![r] = "halted"] /\ running' = FALSE
     \/ reset' = [reset EXCEPT ![r] = "failed"] /\ UNCHANGED running
  /\ UNCHANGED <<open, ideVars, pump_client, pump_backend, stateVars, restart,
                 internal, unanswered, forwarded, from_backend, deaf, clears>>

ResetEnds(r) ==
  /\ reset[r] = "halted"
  /\ reset' \in {[reset EXCEPT ![r] = "up"], [reset EXCEPT ![r] = "failed"]}
  /\ running' = FALSE
  /\ UNCHANGED <<open, ideVars, pump_client, pump_backend, stateVars, restart,
                 internal, unanswered, forwarded, from_backend, deaf, clears>>

(* Mutant: the restart goes on without waiting for the reset.              *)
AfterResetAtOnce(r) ==
  /\ Step(r, "reset", "send")
  /\ local_references' = {} /\ clears' = clears + 1
  /\ internal' = [internal EXCEPT ![r] = next_sequence]
  /\ internal_requests' = [internal_requests EXCEPT ![r] = "waiting"]
  /\ next_sequence' = next_sequence + 1
  /\ UNCHANGED <<shown, received, leaked, reset, adapterVars>>

(* Mutant: `continue` is sent without registering the request.             *)
AfterResetUnregistered(r) ==
  /\ reset[r] = "up" /\ Step(r, "reset", "send")
  /\ local_references' = {} /\ clears' = clears + 1
  /\ internal' = [internal EXCEPT ![r] = next_sequence]
  /\ next_sequence' = next_sequence + 1
  /\ UNCHANGED <<shown, received, leaked, internal_requests, reset, adapterVars>>

(* The reset succeeded: local_references is cleared and the request of     *)
(* backend_request registered before it is sent.                           *)
AfterReset(r) ==
  /\ reset[r] = "up" /\ Step(r, "reset", "send")
  /\ local_references' = {} /\ clears' = clears + 1
  /\ internal' = [internal EXCEPT ![r] = next_sequence]
  /\ internal_requests' = [internal_requests EXCEPT ![r] = "waiting"]
  /\ next_sequence' = next_sequence + 1
  /\ UNCHANGED <<shown, received, leaked, reset, adapterVars>>

AfterFailedReset(r) ==
  /\ reset[r] = "failed" /\ Step(r, "reset", "refuse")
  /\ UNCHANGED <<shown, received, leaked, internal_requests, local_references,
                 next_sequence, reset, internal, adapterVars, clears>>

SendContinue(r) ==
  /\ Step(r, "send", "wait")
  /\ ToBackend([seq |-> internal[r], command |-> "continue"])
  /\ UNCHANGED <<shown, received, leaked, internal_requests, local_references,
                 next_sequence, reset, internal, clears>>

(* The end of backend_request: an answer, or none within                   *)
(* INTERNAL_REQUEST_TIMEOUT, which begins after `continue` was written     *)
(* (proxy.rs:188-190).                                                     *)
EndOfRequest(r, next) ==
  /\ Step(r, "wait", next)
  /\ internal_requests' = [internal_requests EXCEPT ![r] = "none"]
  /\ UNCHANGED <<shown, received, leaked, local_references, next_sequence, reset,
                 internal, adapterVars, clears>>

ContinueAnswered(r) ==
  \/ internal_requests[r] = "success" /\ EndOfRequest(r, "respond")
  \/ internal_requests[r] = "failure" /\ EndOfRequest(r, "refuse")

(* Mutant: an answer is waited for without a limit.                        *)
NeverTimesOut(r) == FALSE /\ EndOfRequest(r, "refuse")

ContinueTimesOut(r) == internal_requests[r] = "waiting" /\ EndOfRequest(r, "refuse")

Respond(r) ==
  /\ Step(r, "respond", "event")
  /\ ToClient(Response(r, "restart", TRUE))
  /\ next_sequence' = next_sequence + 2
  /\ UNCHANGED <<internal_requests, local_references, reset, internal,
                 adapterVars, clears>>

SendContinued(r) ==
  /\ Step(r, "event", "done")
  /\ ToClient(Continued)
  /\ UNCHANGED <<internal_requests, local_references, next_sequence, reset,
                 internal, adapterVars, clears>>

Refuse(r) ==
  /\ Step(r, "refuse", "done")
  /\ ToClient(Response(r, "restart", FALSE))
  /\ next_sequence' = next_sequence + 1
  /\ UNCHANGED <<internal_requests, local_references, reset, internal,
                 adapterVars, clears>>

-----------------------------------------------------------------------------
(* The adapter.                                                            *)

Answer(request, command, success, locals) ==
  /\ open
  /\ unanswered' = unanswered \ {request}
  /\ from_backend' = Append(from_backend,
                            Message(request.seq, command, success, locals, 0))
  /\ UNCHANGED <<open, ideVars, pump_client, pump_backend, stateVars,
                 restartVars, forwarded, deaf, clears>>

AdapterContinues ==
  \E request \in unanswered :
    /\ request.command = "continue"
    /\ \/ Answer(request, "continue", TRUE, 0) /\ running' = TRUE
       \/ Answer(request, "continue", FALSE, 0) /\ UNCHANGED running

(* The answer to scopes may come without the name of its command.          *)
AdapterShowsScopes ==
  \E request \in unanswered, reference \in References, name \in {"scopes", ""} :
    /\ request.command = "scopes"
    /\ Answer(request, name, TRUE, reference)
    /\ UNCHANGED running

AdapterAnswers ==
  \E request \in unanswered :
    /\ request.command \in {"attach", "variables"}
    /\ Answer(request, request.command, TRUE, 0)
    /\ UNCHANGED running

(* A task is about to write to the side.                                   *)
WritesTo(side) ==
  \/ pump_client.to = side \/ pump_backend.to = side
  \/ \E r \in Requests :
       restart[r] \in (IF side = "backend" THEN {"send"} ELSE {"respond", "event", "refuse"})

(* The adapter or the IDE stops reading, which shows when the proxy writes *)
(* to it, or it reads again.                                               *)
ListensOrNot ==
  \E side \in {"backend", "client"} :
    /\ open /\ WritesTo(side)
    /\ deaf' = IF side \in deaf THEN deaf \ {side} ELSE deaf \cup {side}
    /\ UNCHANGED <<open, ideVars, pump_client, pump_backend, stateVars, restartVars,
                   unanswered, forwarded, from_backend, running, clears>>

-----------------------------------------------------------------------------
(* pump_backend: handle_backend_message and its write.                     *)

answer == Head(from_backend)

Receive ==
  /\ open /\ pump_backend = Idle /\ from_backend # <<>>
  /\ from_backend' = Tail(from_backend)
  /\ UNCHANGED <<open, ideVars, pump_client, next_sequence, restartVars,
                 unanswered, forwarded, deaf, running, clears>>

(* The first answer to a request of the proxy is taken; none is forwarded. *)
IsInternal(r) == internal_requests[r] # "none" /\ internal[r] = answer.request_seq

TakeInternalAnswer ==
  /\ Receive
  /\ \E r \in Requests :
       /\ IsInternal(r)
       /\ internal_requests' = [internal_requests EXCEPT ![r] =
            IF @ # "waiting" THEN @ ELSE IF answer.success THEN "success" ELSE "failure"]
  /\ UNCHANGED <<pump_backend, client_commands, local_references, launch_rewrites>>

Command ==
  IF answer.command = "" /\ answer.request_seq \in client_commands
  THEN asked[answer.request_seq].command
  ELSE answer.command

(* Mutant: the answer to a rewritten launch keeps the name attach.         *)
NotRenamed == answer.command

Renamed ==
  IF answer.request_seq \in launch_rewrites THEN "launch" ELSE answer.command

ForwardAnswer ==
  /\ Receive
  /\ \A r \in Requests : ~IsInternal(r)
  /\ client_commands' = client_commands \ {answer.request_seq}
  /\ launch_rewrites' = launch_rewrites \ {answer.request_seq}
  /\ local_references' = local_references \cup
       (IF Command = "scopes" THEN {answer.locals} ELSE {})
  /\ pump_backend' = [to |-> "client",
       message |-> [answer EXCEPT !.command = Renamed, !.epoch = clears]]
  /\ UNCHANGED internal_requests

WriteOfBackendPump ==
  /\ open /\ pump_backend # Idle
  /\ pump_backend' = Idle
  /\ ToClient(pump_backend.message)
  /\ UNCHANGED <<open, pump_client, stateVars, restartVars, adapterVars, clears>>

-----------------------------------------------------------------------------
(* One side closes: run_session cancels the restarts, but not the threads  *)
(* of their resets, forgets the requests it waited for, and closes both    *)
(* connections, whoever reads.                                             *)
EndSession ==
  /\ open
  /\ open' = FALSE
  /\ restart' = [r \in Requests |->
       IF restart[r] \in {"none", "done"} THEN restart[r] ELSE "cancelled"]
  /\ internal_requests' = [r \in Requests |-> "none"]
  /\ pump_client' = Idle /\ pump_backend' = Idle /\ deaf' = {}
  /\ UNCHANGED <<ideVars, client_commands, local_references, launch_rewrites,
                 next_sequence, reset, internal, unanswered, forwarded, from_backend,
                 running, clears>>

RestartStep(r) ==
  \/ AfterReset(r) \/ AfterFailedReset(r) \/ SendContinue(r)
  \/ ContinueAnswered(r) \/ ContinueTimesOut(r)
  \/ Respond(r) \/ SendContinued(r) \/ Refuse(r)

ResetStep(r) == ResetBreaks(r) \/ ResetEnds(r)

Pumps ==
  \/ WriteOfClientPump \/ WriteOfBackendPump
  \/ TakeInternalAnswer \/ ForwardAnswer

Next ==
  \/ AskRestart \/ AskVariables \/ AskLaunch \/ AskScopes
  \/ Pumps
  \/ \E r \in Requests : RestartStep(r) \/ ResetStep(r)
  \/ AdapterContinues \/ AdapterShowsScopes \/ AdapterAnswers \/ ListensOrNot
  \/ EndSession

Spec == Init /\ [][Next]_vars

(* The runtime runs every task that can run, a reset ends, and so does the *)
(* wait for an answer.  Nothing is assumed of the IDE or the adapter: a    *)
(* write to a side that does not read is a task that cannot run.           *)
Fairness ==
  /\ WF_vars(Pumps)
  /\ \A r \in Requests : WF_vars(RestartStep(r)) /\ WF_vars(ResetStep(r))

FairSpec == Spec /\ Fairness

-----------------------------------------------------------------------------

(* A request of the proxy is registered exactly while its restart awaits   *)
(* the answer, so nothing it leaves behind takes an answer of the IDE.     *)
TypeOK ==
  /\ open \in BOOLEAN /\ running \in BOOLEAN
  /\ Len(asked) <= MaxRequests
  /\ client_commands \subseteq 1 .. Len(asked)
  /\ launch_rewrites \subseteq {r \in 1 .. Len(asked) : asked[r].command = "launch"}
  /\ local_references \subseteq References
  /\ internal_requests \in [Requests -> {"none", "waiting", "success", "failure"}]
  /\ \A r \in Requests : internal_requests[r] # "none" <=> restart[r] \in {"send", "wait"}
  /\ restart \in [Requests -> {"none", "reset", "send", "wait", "respond", "event",
                               "refuse", "done", "cancelled"}]
  /\ reset \in [Requests -> {"none", "started", "halted", "up", "failed"}]
  /\ internal \in [Requests -> Nat] /\ next_sequence \in Nat
  /\ forwarded \subseteq 1 .. Len(asked)
  /\ deaf \subseteq {"backend", "client"}
  /\ clears \in Nat

(* The IDE gets at most one answer to a request, under the name it gave    *)
(* the command: whatever the proxy renames, answers itself or takes over.  *)
AnsweredOnce ==
  \A r \in Requests :
    received[r] # <<>> => /\ r \in DOMAIN asked
                          /\ Len(received[r]) = 1
                          /\ received[r][1].command \in {asked[r].command, ""}

(* What the proxy keeps between the two sides stays there.  An answer that *)
(* reaches the IDE without a request of it answers a `continue` of the     *)
(* proxy, and only of a restart that was refused before: it was late.  And *)
(* while no restart cleared the references after the IDE's scopes were     *)
(* recorded, no request for the variables of their Locals scope gets to    *)
(* the adapter, which might not survive it.                                *)
SidesStayApart ==
  /\ \A n \in leaked :
       \E r \in Requests :
         /\ internal[r] = n
         /\ restart[r] \in {"refuse", "done", "cancelled"}
         /\ \A k \in DOMAIN received[r] : ~received[r][k].success
  /\ \A r \in forwarded : asked[r].locals => asked[r].epoch < asked[r].clears

(* No answer to a request of the proxy reaches the IDE.                    *)
InternalAnswersStayInside == leaked = {}

(* No request for the variables of a Locals scope the IDE was shown since  *)
(* the target was last continued gets to the adapter.                      *)
LocalsNeverForwarded == \A r \in forwarded : ~asked[r].locals

Succeeded(r) == \E k \in DOMAIN received[r] : received[r][k].success

(* When every restart was answered with success, in whatever order their   *)
(* resets and continues came, the target runs.                             *)
RestartedTargetRuns ==
  Restarts # {} /\ (\A r \in Restarts : Succeeded(r)) => running

(* Time and again every restart the IDE asked for is answered, or the      *)
(* session has ended, or one of the sides does not read: no restart waits  *)
(* for ever for an adapter that reads, answer or not.  One that stops      *)
(* reading for good keeps it waiting, since INTERNAL_REQUEST_TIMEOUT does  *)
(* not cover the write of `continue` (proxy.rs:188).                       *)
RestartsAreAnswered ==
  []<>(~open \/ deaf # {} \/ \A r \in Restarts : received[r] # <<>>)

=============================================================================
