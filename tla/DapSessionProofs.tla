-------------------------- MODULE DapSessionProofs --------------------------
(***************************************************************************)
(* The safety of DapSession for any number of requests and restarts and    *)
(* any references.  A request of the IDE is at one place at a time: on its *)
(* way to the adapter, with the adapter, on its way back, with a restart,  *)
(* or answered.  That is what makes an answer the only one.  The second    *)
(* part is about what may reach the IDE without a request of it, and about *)
(* the target after restarts that succeeded.                               *)
(***************************************************************************)
EXTENDS DapSession, SequenceTheorems, TLAPS

Commands ==
  {"restart", "variables", "launch", "attach", "scopes", "continue", "continued event", ""}

Asked    == [command : Commands, locals : BOOLEAN, epoch : Nat, clears : Nat]
Sent     == [seq : Nat, command : Commands]
Messages ==
  [request_seq : Nat, command : Commands, success : BOOLEAN, locals : References \cup {0},
   epoch : Nat]

(* TypeOK and the types it leaves out.                                     *)
IdeType ==
  /\ asked \in Seq(Asked) /\ Len(asked) <= MaxRequests
  /\ shown \in [locals : References \cup {0}, epoch : Nat]
  /\ received \in [Requests -> Seq([command : Commands, success : BOOLEAN])]

ClientPumpType ==
  \/ pump_client = Idle
  \/ /\ pump_client \in [to : {"backend"}, message : Sent]
     /\ pump_client.message.seq \in 1 .. Len(asked)
  \/ /\ pump_client \in [to : {"client"}, message : Messages]
     /\ pump_client.message.request_seq \in 1 .. Len(asked)
     /\ pump_client.message.locals = 0

BackendPumpType ==
  \/ pump_backend = Idle
  \/ pump_backend \in [to : {"client"}, message : Messages]

StateType ==
  /\ client_commands \subseteq 1 .. Len(asked)
  /\ launch_rewrites \subseteq {r \in 1 .. Len(asked) : asked[r].command = "launch"}
  /\ local_references \subseteq References
  /\ next_sequence \in Nat /\ next_sequence >= FIRST_SEQUENCE

RestartType ==
  /\ internal_requests \in [Requests -> {"none", "waiting", "success", "failure"}]
  /\ restart \in [Requests -> {"none", "reset", "send", "wait", "respond", "event",
                               "refuse", "done", "cancelled"}]
  /\ \A r \in Requests : internal_requests[r] # "none" <=> restart[r] \in {"send", "wait"}
  /\ reset \in [Requests -> {"none", "started", "halted", "up", "failed"}]
  /\ internal \in [Requests -> {0} \cup (Nat \ Requests)]
  /\ \A r \in Requests : r > Len(asked) => restart[r] = "none"

AdapterType ==
  /\ unanswered \subseteq Sent
  /\ forwarded \subseteq 1 .. Len(asked)
  /\ from_backend \in Seq(Messages)
  /\ \A k \in 1 .. Len(from_backend) :
       from_backend[k].command \in {"scopes", ""} => from_backend[k].locals \in References
  /\ running \in BOOLEAN /\ deaf \subseteq {"backend", "client"}

TypeInv ==
  /\ open \in BOOLEAN /\ clears \in Nat
  /\ IdeType /\ ClientPumpType /\ BackendPumpType /\ StateType /\ RestartType /\ AdapterType

(* The places of a request.                                                *)
AtClientPump(r) ==
  \/ pump_client # Idle /\ pump_client.to = "backend" /\ pump_client.message.seq = r
  \/ pump_client # Idle /\ pump_client.to = "client" /\ pump_client.message.request_seq = r
AtAdapter(r)     == \E m \in unanswered : m.seq = r
OnItsWayBack(r)  == \E k \in 1 .. Len(from_backend) : from_backend[k].request_seq = r
AtBackendPump(r) == pump_backend # Idle /\ pump_backend.message.request_seq = r
AtRestart(r)     == restart[r] \in {"reset", "send", "wait", "respond", "refuse"}
AtIde(r)         == received[r] # <<>>

OnePlace(r) ==
  /\ AtIde(r) => Len(received[r]) = 1 /\ ~AtRestart(r) /\ ~AtBackendPump(r)
                   /\ ~OnItsWayBack(r) /\ ~AtAdapter(r) /\ ~AtClientPump(r)
  /\ AtRestart(r) => ~AtBackendPump(r) /\ ~OnItsWayBack(r) /\ ~AtAdapter(r) /\ ~AtClientPump(r)
  /\ AtBackendPump(r) => ~OnItsWayBack(r) /\ ~AtAdapter(r) /\ ~AtClientPump(r)
  /\ OnItsWayBack(r) => ~AtAdapter(r) /\ ~AtClientPump(r)
  /\ AtAdapter(r) => ~AtClientPump(r)
  /\ \A m, n \in unanswered : m.seq = r /\ n.seq = r => m = n
  /\ \A j, k \in 1 .. Len(from_backend) :
       from_backend[j].request_seq = r /\ from_backend[k].request_seq = r => j = k

(* A request that was not made is nowhere.                                 *)
Nowhere(r) ==
  ~AtIde(r) /\ ~AtRestart(r) /\ ~AtBackendPump(r) /\ ~OnItsWayBack(r) /\ ~AtAdapter(r)
  /\ ~AtClientPump(r)

(* The name that a request goes by: a rewritten launch is called attach    *)
(* for as long as it is in launch_rewrites.                                *)
Named(r, command) ==
  command = asked[r].command \/ (command = "attach" /\ r \in launch_rewrites)

RightName(r) ==
  /\ pump_client # Idle /\ pump_client.to = "backend" /\ pump_client.message.seq = r
       => Named(r, pump_client.message.command)
  /\ pump_client # Idle /\ pump_client.to = "client" /\ pump_client.message.request_seq = r
       => pump_client.message.command = asked[r].command
  /\ \A m \in unanswered : m.seq = r => Named(r, m.command)
  /\ \A k \in 1 .. Len(from_backend) :
       from_backend[k].request_seq = r =>
         from_backend[k].command = "" \/ Named(r, from_backend[k].command)
  /\ AtBackendPump(r) => pump_backend.message.command \in {asked[r].command, ""}
  /\ AtRestart(r) => asked[r].command = "restart"
  /\ AtIde(r) => received[r][1].command \in {asked[r].command, ""}

(* A restart is nowhere but with the task that runs it, or answered.       *)
ByItself(r) ==
  asked[r].command = "restart" =>
    ~AtBackendPump(r) /\ ~OnItsWayBack(r) /\ ~AtAdapter(r) /\ ~AtClientPump(r)

Place(r) ==
  /\ OnePlace(r)
  /\ r > Len(asked) => Nowhere(r)
  /\ r <= Len(asked) => RightName(r) /\ ByItself(r)

Places == \A r \in Requests : Place(r)

IInv == TypeInv /\ Places

-----------------------------------------------------------------------------
(* Types.                                                                  *)

LEMMA Initially == Init => TypeInv
<1> SUFFICES ASSUME Init PROVE TypeInv
  OBVIOUS
<1>1. /\ <<>> \in Seq(Asked) /\ <<>> \in Seq(Messages)
      /\ <<>> \in Seq([command : Commands, success : BOOLEAN]) /\ Len(<<>>) = 0
  BY EmptySeq
<1>2. MaxRequests \in Nat /\ FIRST_SEQUENCE \in Nat
  BY RequestsAssumption
<1>3. IdeType
  BY <1>1, <1>2 DEF Init, IdeType, NoScopes
<1>4. ClientPumpType /\ BackendPumpType
  BY DEF Init, ClientPumpType, BackendPumpType
<1>5. StateType
  BY <1>2 DEF Init, StateType
<1>6. RestartType
  BY DEF Init, RestartType
<1>7. AdapterType
  <2>1. 1 .. Len(from_backend) = {}
    BY <1>1 DEF Init
  <2> QED BY <1>1, <2>1 DEF Init, AdapterType
<1>8. open \in BOOLEAN /\ clears \in Nat
  BY DEF Init
<1> QED BY <1>3, <1>4, <1>5, <1>6, <1>7, <1>8 DEF TypeInv

(* The proxy's own messages and their type.                                *)
LEMMA OwnMessages ==
  ASSUME NEW r \in Nat, NEW b \in BOOLEAN
  PROVE  /\ Response(r, "variables", b) \in Messages
         /\ Response(r, "restart", b) \in Messages
         /\ Continued \in Messages
BY DEF Response, Continued, Message, Messages, Commands

(* What the IDE's receiving of a message leaves.                           *)
LEMMA ToClientType ==
  ASSUME TypeInv, NEW message \in Messages, ToClient(message)
  PROVE  /\ received' \in [Requests -> Seq([command : Commands, success : BOOLEAN])]
         /\ shown' \in [locals : References \cup {0}, epoch : Nat]
         /\ asked' = asked
<1> DEFINE got == [command |-> message.command, success |-> message.success]
<1>1. got \in [command : Commands, success : BOOLEAN]
  BY DEF Messages
<1>2. ASSUME message.request_seq \in Requests
      PROVE  Append(received[message.request_seq], got)
               \in Seq([command : Commands, success : BOOLEAN])
  BY <1>1, <1>2, AppendProperties DEF TypeInv, IdeType
<1>3. received' \in [Requests -> Seq([command : Commands, success : BOOLEAN])]
  BY <1>2 DEF ToClient, TypeInv, IdeType
<1>4. shown' \in [locals : References \cup {0}, epoch : Nat]
  BY DEF ToClient, TypeInv, IdeType, Messages, NoScopes
<1> QED BY <1>3, <1>4 DEF ToClient

(* What a new request of the IDE leaves.                                   *)
LEMMA AskType ==
  ASSUME TypeInv, NEW command \in Commands, NEW locals \in BOOLEAN, Ask(command, locals)
  PROVE  /\ seq \in Requests /\ seq \in Nat /\ seq \notin 1 .. Len(asked)
         /\ seq > Len(asked) /\ \A r \in Requests : r > Len(asked') => r > Len(asked)
         /\ asked' \in Seq(Asked) /\ Len(asked') = seq /\ asked'[seq].command = command
         /\ \A r \in 1 .. Len(asked) : asked'[r] = asked[r]
         /\ 1 .. Len(asked') = 1 .. Len(asked) \cup {seq}
<1> DEFINE new == [command |-> command, locals |-> locals, epoch |-> shown.epoch,
                   clears |-> clears]
<1>1. new \in Asked
  BY DEF TypeInv, IdeType, Asked
<1>2. asked \in Seq(Asked) /\ Len(asked) \in Nat
  BY LenProperties DEF TypeInv, IdeType
<1>3. asked' = Append(asked, new) /\ seq <= MaxRequests
  BY DEF Ask
<1>4. /\ asked' \in Seq(Asked) /\ Len(asked') = Len(asked) + 1
      /\ asked'[Len(asked) + 1] = new
      /\ \A r \in 1 .. Len(asked) : asked'[r] = asked[r]
  <2> HIDE DEF new
  <2> QED BY <1>1, <1>2, <1>3, AppendProperties
<1>5. MaxRequests \in Nat
  BY RequestsAssumption
<1>6. \A r \in Requests : r > Len(asked') => r > Len(asked)
  BY <1>2, <1>4, <1>5 DEF Requests
<1> QED BY <1>2, <1>3, <1>4, <1>5, <1>6 DEF seq, Requests


(* A new request of the IDE keeps the types that mention the requests.     *)
LEMMA AskKeeps ==
  ASSUME TypeInv, NEW command \in Commands, NEW locals \in BOOLEAN, Ask(command, locals)
  PROVE  /\ IdeType'
         /\ client_commands' \subseteq 1 .. Len(asked')
         /\ launch_rewrites \subseteq {r \in 1 .. Len(asked') : asked'[r].command = "launch"}
         /\ AdapterType'
<1>1. /\ seq \in Requests /\ seq \in Nat /\ seq \notin 1 .. Len(asked)
      /\ asked' \in Seq(Asked) /\ Len(asked') = seq /\ asked'[seq].command = command
      /\ \A r \in 1 .. Len(asked) : asked'[r] = asked[r]
      /\ 1 .. Len(asked') = 1 .. Len(asked) \cup {seq}
  BY AskType
<1>2. IdeType'
  BY <1>1, RequestsAssumption DEF TypeInv, IdeType, Ask, Requests
<1>3. client_commands' \subseteq 1 .. Len(asked')
  BY <1>1 DEF TypeInv, StateType, Ask
<1>4. launch_rewrites \subseteq {r \in 1 .. Len(asked') : asked'[r].command = "launch"}
  BY <1>1 DEF TypeInv, StateType
<1>5. AdapterType'
  BY <1>1 DEF TypeInv, AdapterType, Ask, adapterVars
<1> QED BY <1>2, <1>3, <1>4, <1>5

LEMMA AskRestartType == TypeInv /\ AskRestart => TypeInv'
<1> SUFFICES ASSUME TypeInv, AskRestart PROVE TypeInv'
  OBVIOUS
<1>1. Ask("restart", FALSE) /\ "restart" \in Commands
  BY DEF AskRestart, Commands
<1>2. /\ IdeType' /\ AdapterType' /\ client_commands' \subseteq 1 .. Len(asked')
      /\ launch_rewrites \subseteq {r \in 1 .. Len(asked') : asked'[r].command = "launch"}
      /\ seq \in Requests /\ 1 .. Len(asked') = 1 .. Len(asked) \cup {seq}
  BY <1>1, AskKeeps, AskType
<1>3. ClientPumpType' /\ BackendPumpType'
  BY <1>1, <1>2 DEF AskRestart, Ask, TypeInv, ClientPumpType, BackendPumpType
<1>4. StateType'
  BY <1>1, <1>2 DEF AskRestart, Ask, TypeInv, StateType
<1>5. RestartType'
  <2>1. seq > Len(asked) /\ \A r \in Requests : r > Len(asked') => r > Len(asked)
    BY <1>1, AskType
  <2>2. restart[seq] = "none"
    BY <1>2, <2>1 DEF TypeInv, RestartType
  <2> QED BY <1>1, <1>2, <2>1, <2>2 DEF AskRestart, Ask, TypeInv, RestartType
<1> QED BY <1>1, <1>2, <1>3, <1>4, <1>5 DEF TypeInv, Ask


LEMMA AskVariablesType == TypeInv /\ AskVariables => TypeInv'
<1> SUFFICES ASSUME TypeInv, AskVariables PROVE TypeInv'
  OBVIOUS
<1> PICK reference \in References :
      /\ Ask("variables", reference = shown.locals)
      /\ IF reference \in local_references
         THEN /\ pump_client' = [to |-> "client", message |-> Response(seq, "variables", TRUE)]
              /\ next_sequence' = next_sequence + 1
         ELSE Forward("variables") /\ UNCHANGED next_sequence
      /\ UNCHANGED <<launch_rewrites, restart, reset>>
  BY DEF AskVariables
<1>1. "variables" \in Commands
  BY DEF Commands
<1>2. /\ IdeType' /\ AdapterType' /\ client_commands' \subseteq 1 .. Len(asked')
      /\ launch_rewrites \subseteq {r \in 1 .. Len(asked') : asked'[r].command = "launch"}
      /\ seq \in Nat /\ 1 .. Len(asked') = 1 .. Len(asked) \cup {seq}
      /\ \A r \in Requests : r > Len(asked') => r > Len(asked)
  BY <1>1, AskKeeps, AskType
<1>3. /\ Response(seq, "variables", TRUE) \in Messages
      /\ Response(seq, "variables", TRUE).request_seq = seq
      /\ Response(seq, "variables", TRUE).locals = 0
  BY <1>2, OwnMessages DEF Response, Message
<1>4. ClientPumpType'
  <2>1. CASE reference \in local_references
    <3> DEFINE m == Response(seq, "variables", TRUE)
    <3>1. m \in Messages /\ m.request_seq \in 1 .. Len(asked') /\ m.locals = 0
      BY <1>2, <1>3
    <3>2. pump_client' = [to |-> "client", message |-> m]
      BY <2>1
    <3> HIDE DEF m
    <3> QED BY <3>1, <3>2 DEF ClientPumpType
  <2>2. CASE reference \notin local_references
    BY <1>1, <1>2, <2>2 DEF ClientPumpType, Forward, Sent
  <2> QED BY <2>1, <2>2
<1>5. BackendPumpType'
  BY DEF Ask, TypeInv, BackendPumpType
<1>6. StateType'
  <2>1. next_sequence' \in {next_sequence, next_sequence + 1}
    OBVIOUS
  <2>2. next_sequence' \in Nat /\ next_sequence' >= FIRST_SEQUENCE
    BY <2>1, RequestsAssumption DEF TypeInv, StateType
  <2> QED BY <1>2, <2>2 DEF Ask, TypeInv, StateType
<1>7. RestartType'
  BY <1>2 DEF Ask, TypeInv, RestartType
<1> QED BY <1>2, <1>4, <1>5, <1>6, <1>7 DEF TypeInv, Ask

LEMMA AskLaunchType == TypeInv /\ AskLaunch => TypeInv'
<1> SUFFICES ASSUME TypeInv, AskLaunch PROVE TypeInv'
  OBVIOUS
<1>1. Ask("launch", FALSE) /\ "launch" \in Commands /\ "attach" \in Commands
  BY DEF AskLaunch, Commands
<1>2. /\ IdeType' /\ AdapterType' /\ client_commands' \subseteq 1 .. Len(asked')
      /\ launch_rewrites \subseteq {r \in 1 .. Len(asked') : asked'[r].command = "launch"}
      /\ seq \in Nat /\ 1 .. Len(asked') = 1 .. Len(asked) \cup {seq}
      /\ asked'[seq].command = "launch"
      /\ \A r \in Requests : r > Len(asked') => r > Len(asked)
  BY <1>1, AskKeeps, AskType
<1>3. ClientPumpType'
  BY <1>1, <1>2 DEF AskLaunch, ClientPumpType, Forward, Sent
<1>4. BackendPumpType'
  BY <1>1 DEF Ask, TypeInv, BackendPumpType
<1>5. StateType'
  BY <1>1, <1>2 DEF AskLaunch, Ask, TypeInv, StateType
<1>6. RestartType'
  BY <1>1, <1>2 DEF AskLaunch, Ask, TypeInv, RestartType
<1> QED BY <1>1, <1>2, <1>3, <1>4, <1>5, <1>6 DEF TypeInv, Ask

LEMMA AskScopesType == TypeInv /\ AskScopes => TypeInv'
<1> SUFFICES ASSUME TypeInv, AskScopes PROVE TypeInv'
  OBVIOUS
<1>1. Ask("scopes", FALSE) /\ "scopes" \in Commands
  BY DEF AskScopes, Commands
<1>2. /\ IdeType' /\ AdapterType' /\ client_commands' \subseteq 1 .. Len(asked')
      /\ launch_rewrites \subseteq {r \in 1 .. Len(asked') : asked'[r].command = "launch"}
      /\ seq \in Nat /\ 1 .. Len(asked') = 1 .. Len(asked) \cup {seq}
      /\ \A r \in Requests : r > Len(asked') => r > Len(asked)
  BY <1>1, AskKeeps, AskType
<1>3. ClientPumpType'
  BY <1>1, <1>2 DEF AskScopes, ClientPumpType, Forward, Sent
<1>4. BackendPumpType'
  BY <1>1 DEF Ask, TypeInv, BackendPumpType
<1>5. StateType'
  BY <1>1, <1>2 DEF AskScopes, Ask, TypeInv, StateType
<1>6. RestartType'
  BY <1>1, <1>2 DEF AskScopes, Ask, TypeInv, RestartType
<1> QED BY <1>1, <1>2, <1>3, <1>4, <1>5, <1>6 DEF TypeInv, Ask

(* A message reaches the adapter: a request of the IDE, or a `continue`.   *)
LEMMA ToBackendType ==
  ASSUME TypeInv, NEW message \in Sent, ToBackend(message),
         message.seq \in 1 .. Len(asked) \/ message.seq \notin Requests, asked' = asked
  PROVE  AdapterType'
BY DEF ToBackend, TypeInv, AdapterType

LEMMA PumpWritesType == TypeInv /\ (WriteOfClientPump \/ WriteOfBackendPump) => TypeInv'
<1> USE DEF stateVars, restartVars, adapterVars, ideVars
<1>1. ASSUME TypeInv, WriteOfClientPump, pump_client.to = "backend",
             ToBackend(pump_client.message), UNCHANGED ideVars
      PROVE  TypeInv'
  <2>1. pump_client # Idle /\ pump_client' = Idle /\ pump_backend' = pump_backend /\ open' = open
    BY <1>1 DEF WriteOfClientPump
  <2>2. pump_client.message \in Sent /\ pump_client.message.seq \in 1 .. Len(asked)
    BY <1>1, <2>1 DEF TypeInv, ClientPumpType
  <2>3. AdapterType'
    BY <1>1, <2>2, ToBackendType
  <2>4. IdeType'
    BY <1>1 DEF TypeInv, IdeType
  <2>5. ClientPumpType' /\ BackendPumpType'
    BY <1>1, <2>1 DEF TypeInv, ClientPumpType, BackendPumpType
  <2>6. StateType' /\ RestartType' /\ clears' = clears
    BY <1>1 DEF WriteOfClientPump, TypeInv, StateType, RestartType
  <2> QED BY <1>1, <2>1, <2>3, <2>4, <2>5, <2>6 DEF TypeInv
<1>2. ASSUME TypeInv, WriteOfClientPump, pump_client.to = "client",
             ToClient(pump_client.message), UNCHANGED adapterVars
      PROVE  TypeInv'
  <2>1. pump_client # Idle /\ pump_client' = Idle /\ pump_backend' = pump_backend /\ open' = open
    BY <1>2 DEF WriteOfClientPump
  <2>2. pump_client.message \in Messages
    BY <1>2, <2>1 DEF TypeInv, ClientPumpType
  <2>3. asked' = asked /\ IdeType'
    BY <1>2, <2>2, ToClientType DEF TypeInv, IdeType
  <2>4. AdapterType'
    BY <1>2, <2>3 DEF TypeInv, AdapterType
  <2>5. ClientPumpType' /\ BackendPumpType'
    BY <1>2, <2>1 DEF TypeInv, ClientPumpType, BackendPumpType
  <2>6. StateType' /\ RestartType' /\ clears' = clears
    BY <1>2, <2>3 DEF WriteOfClientPump, TypeInv, StateType, RestartType
  <2> QED BY <1>2, <2>1, <2>3, <2>4, <2>5, <2>6 DEF TypeInv
<1>3. ASSUME TypeInv, WriteOfBackendPump PROVE TypeInv'
  <2>1. /\ pump_backend # Idle /\ pump_backend' = Idle /\ pump_client' = pump_client
        /\ open' = open /\ ToClient(pump_backend.message)
    BY <1>3 DEF WriteOfBackendPump
  <2>2. pump_backend.message \in Messages
    BY <1>3, <2>1 DEF TypeInv, BackendPumpType
  <2>3. asked' = asked /\ IdeType'
    BY <1>3, <2>1, <2>2, ToClientType DEF TypeInv, IdeType
  <2>4. AdapterType'
    BY <1>3, <2>3 DEF WriteOfBackendPump, TypeInv, AdapterType
  <2>5. ClientPumpType' /\ BackendPumpType'
    BY <1>3, <2>1, <2>3 DEF TypeInv, ClientPumpType, BackendPumpType
  <2>6. StateType' /\ RestartType' /\ clears' = clears
    BY <1>3, <2>3 DEF WriteOfBackendPump, TypeInv, StateType, RestartType
  <2> QED BY <1>3, <2>1, <2>3, <2>4, <2>5, <2>6 DEF TypeInv
<1> QED BY <1>1, <1>2, <1>3 DEF WriteOfClientPump

(* What pump_backend takes is an answer, and the rest stay.                *)
LEMMA ReceiveType ==
  ASSUME TypeInv, Receive
  PROVE  /\ answer = from_backend[1] /\ answer \in Messages
         /\ answer.command \in {"scopes", ""} => answer.locals \in References
         /\ IdeType' /\ ClientPumpType' /\ AdapterType'
         /\ Len(from_backend) \in Nat /\ Len(from_backend') = Len(from_backend) - 1
         /\ Len(from_backend) >= 1
         /\ \A k \in 1 .. Len(from_backend') : from_backend'[k] = from_backend[k + 1]
<1>1. /\ from_backend # <<>> /\ from_backend' = Tail(from_backend)
      /\ from_backend \in Seq(Messages)
  BY DEF Receive, TypeInv, AdapterType
<1>2. /\ answer \in Messages /\ from_backend' \in Seq(Messages)
      /\ Len(from_backend') = Len(from_backend) - 1
      /\ \A k \in 1 .. Len(from_backend') : from_backend'[k] = from_backend[k + 1]
  BY <1>1, HeadTailProperties DEF answer
<1>3. Len(from_backend) \in Nat /\ Len(from_backend) >= 1
  BY <1>1, EmptySeq, LenProperties
<1>4. answer = from_backend[1]
  BY <1>1 DEF answer
<1>5. answer.command \in {"scopes", ""} => answer.locals \in References
  <2>1. 1 \in 1 .. Len(from_backend)
    BY <1>3
  <2> QED BY <1>4, <2>1 DEF TypeInv, AdapterType
<1>6. \A k \in 1 .. Len(from_backend') : k + 1 \in 1 .. Len(from_backend)
  BY <1>2, <1>3
<1>7. AdapterType'
  BY <1>2, <1>6 DEF Receive, TypeInv, AdapterType, ideVars
<1>8. IdeType' /\ ClientPumpType'
  BY DEF Receive, TypeInv, IdeType, ClientPumpType, ideVars
<1> QED BY <1>2, <1>3, <1>4, <1>5, <1>7, <1>8

LEMMA TakeInternalAnswerType == TypeInv /\ TakeInternalAnswer => TypeInv'
<1> SUFFICES ASSUME TypeInv, TakeInternalAnswer PROVE TypeInv'
  OBVIOUS
<1>1. Receive
  BY DEF TakeInternalAnswer
<1>2. IdeType' /\ ClientPumpType' /\ AdapterType'
  BY <1>1, ReceiveType
<1>3. BackendPumpType' /\ StateType'
  BY <1>1 DEF TakeInternalAnswer, Receive, TypeInv, BackendPumpType, StateType, ideVars
<1>4. RestartType'
  BY <1>1 DEF TakeInternalAnswer, Receive, TypeInv, RestartType, ideVars, restartVars, IsInternal
<1> QED BY <1>1, <1>2, <1>3, <1>4 DEF TypeInv, Receive

LEMMA ForwardAnswerType == TypeInv /\ ForwardAnswer => TypeInv'
<1> SUFFICES ASSUME TypeInv, ForwardAnswer PROVE TypeInv'
  OBVIOUS
<1>1. Receive
  BY DEF ForwardAnswer
<1>2. /\ IdeType' /\ ClientPumpType' /\ AdapterType' /\ answer \in Messages
      /\ answer.command \in {"scopes", ""} => answer.locals \in References
  BY <1>1, ReceiveType
<1>3. Renamed \in Commands
  BY <1>2 DEF Renamed, Messages, Commands
<1>4. [answer EXCEPT !.command = Renamed, !.epoch = clears] \in Messages
  BY <1>2, <1>3 DEF Messages, TypeInv
<1>5. BackendPumpType'
  BY <1>4 DEF ForwardAnswer, BackendPumpType
<1>6. Command = "scopes" => answer.locals \in References
  BY <1>2 DEF Command
<1>7. StateType'
  BY <1>1, <1>6 DEF ForwardAnswer, Receive, TypeInv, StateType, ideVars
<1>8. RestartType'
  BY <1>1 DEF ForwardAnswer, Receive, TypeInv, RestartType, ideVars, restartVars
<1> QED BY <1>1, <1>2, <1>5, <1>7, <1>8 DEF TypeInv, Receive


LEMMA ResetStepType == TypeInv /\ (\E r \in Requests : ResetStep(r)) => TypeInv'
<1> SUFFICES ASSUME TypeInv, NEW r \in Requests, ResetStep(r) PROVE TypeInv'
  OBVIOUS
<1>1. /\ UNCHANGED <<open, ideVars, pump_client, pump_backend, stateVars, restart, internal>>
      /\ UNCHANGED <<unanswered, forwarded, from_backend, deaf, clears>>
      /\ running' \in {FALSE, running}
      /\ \E s \in {"halted", "up", "failed"} : reset' = [reset EXCEPT ![r] = s]
  BY DEF ResetStep, ResetBreaks, ResetEnds
<1>2. IdeType' /\ ClientPumpType' /\ BackendPumpType' /\ StateType'
  BY <1>1 DEF TypeInv, IdeType, ClientPumpType, BackendPumpType, StateType, ideVars, stateVars
<1>3. RestartType'
  BY <1>1 DEF TypeInv, RestartType, ideVars, stateVars
<1>4. AdapterType'
  BY <1>1 DEF TypeInv, AdapterType, ideVars
<1> QED BY <1>1, <1>2, <1>3, <1>4 DEF TypeInv

(* What a step of a restart leaves alone.                                  *)
LEMMA StepKeeps ==
  ASSUME TypeInv, NEW r \in Requests, NEW from, NEW to, Step(r, from, to)
  PROVE  /\ open' = open /\ asked' = asked /\ ClientPumpType' /\ BackendPumpType'
         /\ (local_references' \subseteq References /\ next_sequence' \in Nat
             /\ next_sequence' >= next_sequence) => StateType'
<1>1. FIRST_SEQUENCE \in Nat
  BY RequestsAssumption
<1>2. ClientPumpType' /\ BackendPumpType'
  BY DEF Step, TypeInv, ClientPumpType, BackendPumpType
<1>3. (local_references' \subseteq References /\ next_sequence' \in Nat
        /\ next_sequence' >= next_sequence) => StateType'
  BY <1>1 DEF Step, TypeInv, StateType
<1> QED BY <1>2, <1>3 DEF Step

LEMMA AfterResetType == TypeInv /\ (\E r \in Requests : AfterReset(r)) => TypeInv'
<1> SUFFICES ASSUME TypeInv, NEW r \in Requests, AfterReset(r) PROVE TypeInv'
  OBVIOUS
<1>1. Step(r, "reset", "send")
  BY DEF AfterReset
<1>2. next_sequence \in {0} \cup (Nat \ Requests) /\ next_sequence + 1 \in Nat
  BY RequestsAssumption DEF TypeInv, StateType, Requests
<1>3. open' = open /\ asked' = asked /\ ClientPumpType' /\ BackendPumpType' /\ StateType'
  BY <1>1, <1>2, StepKeeps DEF AfterReset, TypeInv, StateType
<1>4. RestartType'
  BY <1>1, <1>2, <1>3 DEF AfterReset, Step, TypeInv, RestartType
<1>5. IdeType' /\ AdapterType'
  BY <1>3 DEF AfterReset, TypeInv, IdeType, AdapterType, adapterVars
<1>6. clears' \in Nat
  BY DEF AfterReset, TypeInv
<1> QED BY <1>3, <1>4, <1>5, <1>6 DEF TypeInv

LEMMA SendContinueType == TypeInv /\ (\E r \in Requests : SendContinue(r)) => TypeInv'
<1> SUFFICES ASSUME TypeInv, NEW r \in Requests, SendContinue(r) PROVE TypeInv'
  OBVIOUS
<1> DEFINE message == [seq |-> internal[r], command |-> "continue"]
<1>1. Step(r, "send", "wait") /\ ToBackend(message)
  BY DEF SendContinue
<1>2. message \in Sent /\ message.seq \notin Requests
  BY RequestsAssumption DEF TypeInv, RestartType, Sent, Commands, Requests
<1>3. open' = open /\ asked' = asked /\ ClientPumpType' /\ BackendPumpType' /\ StateType'
  BY <1>1, StepKeeps DEF SendContinue, TypeInv, StateType
<1>4. AdapterType'
  <2> HIDE DEF message
  <2> QED BY <1>1, <1>2, <1>3, ToBackendType
<1>5. RestartType'
  BY <1>1, <1>3 DEF SendContinue, Step, TypeInv, RestartType
<1>6. IdeType'
  BY <1>3 DEF SendContinue, TypeInv, IdeType
<1>7. clears' = clears
  BY DEF SendContinue
<1> QED BY <1>3, <1>4, <1>5, <1>6, <1>7 DEF TypeInv

(* The steps of a restart that neither clear nor send nor tell the IDE.    *)
LEMMA QuietStepType ==
  TypeInv /\ (\E r \in Requests : AfterFailedReset(r) \/ ContinueAnswered(r)
                                 \/ ContinueTimesOut(r)) => TypeInv'
<1> SUFFICES ASSUME TypeInv, NEW r \in Requests,
                    AfterFailedReset(r) \/ ContinueAnswered(r) \/ ContinueTimesOut(r)
             PROVE  TypeInv'
  OBVIOUS
<1>1. \/ AfterFailedReset(r)
      \/ \E next \in {"respond", "refuse"} : EndOfRequest(r, next)
  BY DEF ContinueAnswered, ContinueTimesOut
<1>2. /\ \E from, to : Step(r, from, to)
      /\ UNCHANGED <<shown, received, leaked, local_references, next_sequence, reset, internal>>
      /\ UNCHANGED <<adapterVars, clears>>
  BY <1>1 DEF AfterFailedReset, EndOfRequest
<1>3. open' = open /\ asked' = asked /\ ClientPumpType' /\ BackendPumpType' /\ StateType'
  BY <1>2, StepKeeps DEF TypeInv, StateType
<1>4. RestartType'
  BY <1>1, <1>3 DEF AfterFailedReset, EndOfRequest, Step, TypeInv, RestartType
<1>5. IdeType' /\ AdapterType'
  BY <1>2, <1>3 DEF TypeInv, IdeType, AdapterType, adapterVars
<1> QED BY <1>2, <1>3, <1>4, <1>5 DEF TypeInv

(* The steps of a restart that tell the IDE something.                     *)
LEMMA TellingStepType ==
  TypeInv /\ (\E r \in Requests : Respond(r) \/ SendContinued(r) \/ Refuse(r)) => TypeInv'
<1> SUFFICES ASSUME TypeInv, NEW r \in Requests, Respond(r) \/ SendContinued(r) \/ Refuse(r)
             PROVE  TypeInv'
  OBVIOUS
<1>1. /\ \/ Step(r, "respond", "event") \/ Step(r, "event", "done") \/ Step(r, "refuse", "done")
      /\ \E message \in {Response(r, "restart", TRUE), Response(r, "restart", FALSE), Continued} :
           ToClient(message)
      /\ next_sequence' \in {next_sequence, next_sequence + 1, next_sequence + 2}
      /\ UNCHANGED <<internal_requests, local_references, reset, internal, adapterVars, clears>>
  BY DEF Respond, SendContinued, Refuse
<1>2. r \in Nat
  BY RequestsAssumption DEF Requests
<1>3. asked' = asked /\ IdeType'
  BY <1>1, <1>2, OwnMessages, ToClientType DEF TypeInv, IdeType
<1>4. next_sequence' \in Nat /\ next_sequence' >= next_sequence
  BY <1>1 DEF TypeInv, StateType
<1>5. open' = open /\ ClientPumpType' /\ BackendPumpType' /\ StateType'
  BY <1>1, <1>4, StepKeeps DEF TypeInv, StateType
<1>6. RestartType'
  BY <1>1, <1>3 DEF Step, TypeInv, RestartType
<1>7. AdapterType'
  BY <1>1, <1>3 DEF TypeInv, AdapterType, adapterVars
<1> QED BY <1>1, <1>3, <1>5, <1>6, <1>7 DEF TypeInv

(* A message joins the answers under way.                                  *)
LEMMA AppendMessage ==
  ASSUME NEW q \in Seq(Messages), NEW m \in Messages
  PROVE  /\ Append(q, m) \in Seq(Messages) /\ Len(Append(q, m)) = Len(q) + 1
         /\ Append(q, m)[Len(q) + 1] = m
         /\ \A k \in 1 .. Len(q) : Append(q, m)[k] = q[k]
         /\ Len(q) \in Nat /\ 1 .. Len(Append(q, m)) = 1 .. Len(q) \cup {Len(q) + 1}
<1>1. Len(q) \in Nat
  BY LenProperties
<1>2. /\ Append(q, m) \in Seq(Messages) /\ Len(Append(q, m)) = Len(q) + 1
      /\ Append(q, m)[Len(q) + 1] = m
      /\ \A k \in 1 .. Len(q) : Append(q, m)[k] = q[k]
  BY AppendProperties
<1>3. 1 .. Len(Append(q, m)) = 1 .. Len(q) \cup {Len(q) + 1}
  BY <1>1, <1>2
<1> QED BY <1>1, <1>2, <1>3

(* The adapter's answer to a request.                                      *)
LEMMA AnswerType ==
  ASSUME TypeInv, NEW request \in unanswered, NEW command \in Commands, NEW success \in BOOLEAN,
         NEW locals \in References \cup {0}, Answer(request, command, success, locals),
         running' \in BOOLEAN, command \in {"scopes", ""} => locals \in References
  PROVE  /\ TypeInv'
         /\ Len(from_backend) \in Nat /\ Len(from_backend') = Len(from_backend) + 1
         /\ from_backend'[Len(from_backend) + 1]
              = Message(request.seq, command, success, locals, 0)
         /\ \A k \in 1 .. Len(from_backend) : from_backend'[k] = from_backend[k]
<1> DEFINE message == Message(request.seq, command, success, locals, 0)
<1>1. message.command = command /\ message.locals = locals
  BY DEF Message
<1>2. message \in Messages
  BY DEF Message, Messages, Sent, TypeInv, AdapterType
<1>3. from_backend \in Seq(Messages) /\ from_backend' = Append(from_backend, message)
  BY DEF Answer, TypeInv, AdapterType
<1> HIDE DEF message
<1>4. Len(from_backend) \in Nat
  BY <1>2, <1>3, AppendMessage
<1>5. /\ from_backend' \in Seq(Messages) /\ Len(from_backend') = Len(from_backend) + 1
       /\ from_backend'[Len(from_backend) + 1] = message
       /\ \A k \in 1 .. Len(from_backend) : from_backend'[k] = from_backend[k]
  BY <1>2, <1>3, AppendMessage
<1>6. 1 .. Len(from_backend') = 1 .. Len(from_backend) \cup {Len(from_backend) + 1}
  BY <1>2, <1>3, AppendMessage
<1>7. \A k \in 1 .. Len(from_backend') :
        from_backend'[k].command \in {"scopes", ""} => from_backend'[k].locals \in References
  <2> SUFFICES ASSUME NEW k \in 1 .. Len(from_backend'),
                      from_backend'[k].command \in {"scopes", ""}
               PROVE  from_backend'[k].locals \in References
    OBVIOUS
  <2>1. CASE k = Len(from_backend) + 1
    BY <1>1, <1>5, <2>1
  <2>2. CASE k \in 1 .. Len(from_backend)
    BY <1>5, <2>2 DEF TypeInv, AdapterType
  <2> QED BY <1>6, <2>1, <2>2
<1>8. AdapterType'
  BY <1>5, <1>7 DEF Answer, TypeInv, AdapterType, ideVars
<1>9. IdeType' /\ ClientPumpType' /\ BackendPumpType'
  BY DEF Answer, TypeInv, IdeType, ClientPumpType, BackendPumpType, ideVars
<1>10. StateType' /\ RestartType'
  BY DEF Answer, TypeInv, StateType, RestartType, ideVars, stateVars, restartVars
<1>11. open' = open /\ clears' = clears
  BY DEF Answer
<1> QED BY <1>4, <1>5, <1>8, <1>9, <1>10, <1>11 DEF TypeInv, message

(* Every answer of the adapter is one of these.                            *)
AdapterStep == AdapterContinues \/ AdapterShowsScopes \/ AdapterAnswers

LEMMA AnAnswer ==
  ASSUME TypeInv, AdapterStep
  PROVE  \E request \in unanswered, command \in Commands, success \in BOOLEAN,
            locals \in References \cup {0} :
           /\ Answer(request, command, success, locals)
           /\ \/ command = request.command /\ request.command # "scopes" /\ locals = 0
              \/ /\ command \in {"scopes", ""} /\ request.command = "scopes"
                 /\ locals \in References
           /\ request.command \in {"continue", "scopes", "attach", "variables"}
           /\ running' \in BOOLEAN
           /\ running' = (running \/ (request.command = "continue" /\ success))
<1>0. running \in BOOLEAN
  BY DEF TypeInv, AdapterType
<1>1. CASE AdapterContinues
  BY <1>0, <1>1 DEF AdapterContinues, Commands
<1>2. CASE AdapterShowsScopes
  BY <1>0, <1>2 DEF AdapterShowsScopes, Commands
<1>3. CASE AdapterAnswers
  BY <1>0, <1>3 DEF AdapterAnswers, Commands
<1> QED BY <1>1, <1>2, <1>3 DEF AdapterStep

LEMMA AdapterStepType == TypeInv /\ AdapterStep => TypeInv'
BY AnAnswer, AnswerType DEF Commands

LEMMA EndSessionType == TypeInv /\ EndSession => TypeInv'
<1> SUFFICES ASSUME TypeInv, EndSession PROVE TypeInv'
  OBVIOUS
<1>1. IdeType' /\ ClientPumpType' /\ BackendPumpType' /\ StateType'
  BY DEF EndSession, TypeInv, IdeType, ClientPumpType, BackendPumpType, StateType, ideVars
<1>2. RestartType'
  BY DEF EndSession, TypeInv, RestartType, ideVars
<1>3. AdapterType'
  BY DEF EndSession, TypeInv, AdapterType, ideVars, adapterVars
<1> QED BY <1>1, <1>2, <1>3 DEF TypeInv, EndSession

(* The steps of the session, one name each.                                *)
LEMMA Steps ==
  Next => \/ AskRestart \/ AskVariables \/ AskLaunch \/ AskScopes
          \/ WriteOfClientPump \/ WriteOfBackendPump \/ TakeInternalAnswer \/ ForwardAnswer
          \/ \E r \in Requests : AfterReset(r)
          \/ \E r \in Requests : SendContinue(r)
          \/ \E r \in Requests : AfterFailedReset(r) \/ ContinueAnswered(r) \/ ContinueTimesOut(r)
          \/ \E r \in Requests : Respond(r) \/ SendContinued(r) \/ Refuse(r)
          \/ \E r \in Requests : ResetStep(r)
          \/ AdapterStep \/ EndSession \/ ListensOrNot
BY DEF Next, Pumps, RestartStep, AdapterStep

(* Who reads changes nothing else.                                         *)
Still ==
  UNCHANGED <<open, ideVars, pump_client, pump_backend, stateVars, restartVars, unanswered,
              forwarded, from_backend, running, clears>>

LEMMA StillSteps == ListensOrNot \/ UNCHANGED vars => Still
BY DEF ListensOrNot, Still, vars, adapterVars

LEMMA TypeStep == TypeInv /\ [Next]_vars => TypeInv'
<1> SUFFICES ASSUME TypeInv, [Next]_vars PROVE TypeInv'
  OBVIOUS
<1>1. CASE ListensOrNot \/ UNCHANGED vars
  <2>1. deaf' \subseteq {"backend", "client"}
    BY <1>1 DEF ListensOrNot, vars, adapterVars, TypeInv, AdapterType
  <2>2. Still
    BY <1>1, StillSteps
  <2> QED
    BY <2>1, <2>2 DEF Still, ideVars, stateVars, restartVars, TypeInv, IdeType,
       ClientPumpType, BackendPumpType, StateType, RestartType, AdapterType
<1>2. CASE Next
  BY <1>1, <1>2, Steps, AskRestartType, AskVariablesType, AskLaunchType, AskScopesType,
     PumpWritesType,
     TakeInternalAnswerType, ForwardAnswerType, AfterResetType, SendContinueType, QuietStepType,
     TellingStepType, ResetStepType, AdapterStepType, EndSessionType
<1> QED BY <1>1, <1>2


-----------------------------------------------------------------------------
(* Places.                                                                 *)

LEMMA PlacesInitially == Init => Places
<1> SUFFICES ASSUME Init, NEW r \in Requests PROVE Place(r)
  BY DEF Places
<1>1. Len(asked) = 0 /\ Len(from_backend) = 0
  BY EmptySeq DEF Init
<1>2. 1 .. Len(from_backend) = {}
  BY <1>1
<1>3. Nowhere(r)
  BY <1>2 DEF Init, Nowhere, AtIde, AtRestart, AtBackendPump, OnItsWayBack, AtAdapter, AtClientPump
<1>4. r \in Nat /\ r >= 1
  BY RequestsAssumption DEF Requests
<1>5. OnePlace(r)
  BY <1>2, <1>3 DEF Init, OnePlace, Nowhere
<1> QED BY <1>1, <1>3, <1>4, <1>5 DEF Place

(* Of every request of the IDE it is known whether it was made.            *)
LEMMA Made ==
  ASSUME TypeInv, NEW r \in Requests
  PROVE  /\ r \in Nat /\ Len(asked) \in Nat
         /\ r <= Len(asked) <=> r \in 1 .. Len(asked)
         /\ r > Len(asked) <=> r \notin 1 .. Len(asked)
<1>1. Len(asked) \in Nat
  BY LenProperties DEF TypeInv, IdeType
<1>2. r \in Nat /\ r >= 1
  BY RequestsAssumption DEF Requests
<1> QED BY <1>1, <1>2

(* The places of the requests after a new one.                             *)
LEMMA AskPlaces ==
  ASSUME TypeInv, Places, NEW command \in Commands, NEW locals \in BOOLEAN, Ask(command, locals),
         NEW r \in Requests, r # seq, restart'[r] = restart[r],
         launch_rewrites' \cap (1 .. Len(asked)) = launch_rewrites,
         \/ pump_client' = Idle
         \/ pump_client'.to = "backend" /\ pump_client'.message.seq = seq
         \/ pump_client'.to = "client" /\ pump_client'.message.request_seq = seq
  PROVE  Place(r)'
<1>1. /\ \A q \in 1 .. Len(asked) : asked'[q] = asked[q]
      /\ 1 .. Len(asked') = 1 .. Len(asked) \cup {seq}
      /\ Len(asked') = seq /\ seq \in Requests
  BY AskType
<1>2. /\ r \in 1 .. Len(asked) <=> r <= Len(asked)
      /\ r \in 1 .. Len(asked) <=> r <= Len(asked')
      /\ r \notin 1 .. Len(asked) <=> r > Len(asked)
      /\ r \notin 1 .. Len(asked) <=> r > Len(asked')
  <2>1. Len(asked) \in Nat /\ Len(asked') = Len(asked) + 1 /\ r # Len(asked) + 1
    BY <1>1, Made DEF seq
  <2>2. r \in Nat /\ r >= 1
    BY RequestsAssumption DEF Requests
  <2> QED BY <2>1, <2>2
<1>3. /\ AtIde(r)' = AtIde(r) /\ AtRestart(r)' = AtRestart(r)
      /\ AtBackendPump(r)' = AtBackendPump(r) /\ OnItsWayBack(r)' = OnItsWayBack(r)
      /\ AtAdapter(r)' = AtAdapter(r) /\ ~AtClientPump(r)'
      /\ received' = received /\ unanswered' = unanswered /\ from_backend' = from_backend
      /\ pump_backend' = pump_backend
  BY DEF Ask, AtIde, AtRestart, AtBackendPump, OnItsWayBack, AtAdapter, AtClientPump, Idle,
     adapterVars
<1>4. Place(r)
  BY DEF Places
<1>5. OnePlace(r)'
  BY <1>3, <1>4 DEF Place, OnePlace
<1>6. r \notin 1 .. Len(asked) => Nowhere(r)'
  BY <1>2, <1>3, <1>4 DEF Place, Nowhere
<1>7. ASSUME r \in 1 .. Len(asked) PROVE RightName(r)' /\ ByItself(r)'
  <2>1. asked'[r] = asked[r] /\ (r \in launch_rewrites' <=> r \in launch_rewrites)
    BY <1>1, <1>7
  <2>2. RightName(r) /\ ByItself(r)
    BY <1>2, <1>4, <1>7 DEF Place
  <2>3. \A c : Named(r, c)' <=> Named(r, c)
    BY <2>1 DEF Named
  <2>4. RightName(r)'
    BY <1>3, <2>1, <2>2, <2>3 DEF RightName, AtClientPump
  <2> QED BY <1>3, <2>1, <2>2, <2>4 DEF ByItself
<1> QED BY <1>2, <1>5, <1>6, <1>7 DEF Place


(* The place of the new request itself.                                    *)
LEMMA NewPlace ==
  ASSUME TypeInv, Places, NEW command \in Commands, NEW locals \in BOOLEAN, Ask(command, locals),
         NEW r, r = seq,
         \/ command = "restart" /\ pump_client' = pump_client
         \/ /\ command # "restart" /\ restart'[r] = restart[r]
            /\ \/ \E c \in Commands :
                    /\ pump_client' = [to |-> "backend", message |-> [seq |-> r, command |-> c]]
                    /\ c = command \/ (c = "attach" /\ r \in launch_rewrites')
               \/ /\ pump_client'.to = "client" /\ pump_client'.message.request_seq = r
                  /\ pump_client'.message.command = command
  PROVE  Place(r)'
<1>1. /\ asked'[r].command = command /\ Len(asked') = r /\ r \in Requests /\ r \in Nat
      /\ r > Len(asked)
  BY AskType
<1>2. Nowhere(r) /\ OnePlace(r)
  BY <1>1 DEF Places, Place
<1>3. /\ received' = received /\ unanswered' = unanswered /\ from_backend' = from_backend
      /\ pump_backend' = pump_backend /\ pump_client = Idle
  BY DEF Ask, adapterVars
<1>4. ~AtIde(r)' /\ ~AtBackendPump(r)' /\ ~OnItsWayBack(r)' /\ ~AtAdapter(r)'
  BY <1>2, <1>3 DEF Nowhere, AtIde, AtBackendPump, OnItsWayBack, AtAdapter
<1>5. AtRestart(r)' => command = "restart"
  BY <1>2 DEF Nowhere, AtRestart
<1>6. AtClientPump(r)' => command # "restart"
  BY <1>3 DEF AtClientPump
<1>7. OnePlace(r)'
  BY <1>2, <1>3, <1>4, <1>5, <1>6 DEF OnePlace
<1>8. RightName(r)'
  <2>1. \A m \in unanswered' : m.seq # r
    BY <1>4 DEF AtAdapter
  <2>2. \A k \in 1 .. Len(from_backend') : from_backend'[k].request_seq # r
    BY <1>4 DEF OnItsWayBack
  <2>3. ASSUME pump_client' # Idle, pump_client'.to = "backend"
        PROVE  Named(r, pump_client.message.command)'
    <3>1. PICK c \in Commands :
                 /\ pump_client' = [to |-> "backend", message |-> [seq |-> r, command |-> c]]
                 /\ c = command \/ (c = "attach" /\ r \in launch_rewrites')
      BY <1>3, <2>3
    <3>2. pump_client'.message.command = c
      BY <3>1
    <3> QED BY <1>1, <3>1, <3>2 DEF Named
  <2>4. ASSUME pump_client' # Idle, pump_client'.to = "client"
        PROVE  pump_client'.message.command = asked'[r].command
    <3>1. \A c \in Commands :
            pump_client' # [to |-> "backend", message |-> [seq |-> r, command |-> c]]
      BY <2>4
    <3> QED BY <1>1, <1>3, <2>4, <3>1
  <2> QED BY <1>1, <1>4, <1>5, <2>1, <2>2, <2>3, <2>4 DEF RightName
<1>9. ByItself(r)'
  BY <1>1, <1>4, <1>6 DEF ByItself
<1> QED BY <1>1, <1>7, <1>8, <1>9 DEF Place

(* A request stays where it is, or leaves, in a step that is not about it. *)
LEMMA StaysPut ==
  ASSUME NEW r \in Requests, Place(r), asked' = asked,
         r \in launch_rewrites' <=> r \in launch_rewrites,
         received'[r] = received[r],
         AtRestart(r)' => AtRestart(r),
         pump_client' = pump_client \/ ~AtClientPump(r)',
         pump_backend' = pump_backend \/ ~AtBackendPump(r)',
         \A m \in unanswered' : m.seq = r => m \in unanswered,
         \A k \in 1 .. Len(from_backend') : from_backend'[k].request_seq = r =>
           \E j \in 1 .. Len(from_backend) : from_backend'[k] = from_backend[j],
         \A j, k \in 1 .. Len(from_backend') :
           from_backend'[j].request_seq = r /\ from_backend'[k].request_seq = r => j = k
  PROVE  Place(r)'
<1>1. /\ AtIde(r)' <=> AtIde(r)
      /\ AtAdapter(r)' => AtAdapter(r)
      /\ OnItsWayBack(r)' => OnItsWayBack(r)
      /\ AtClientPump(r)' => AtClientPump(r)
      /\ AtBackendPump(r)' => AtBackendPump(r)
  <2>1. AtIde(r)' <=> AtIde(r)
    BY DEF AtIde
  <2>2. AtAdapter(r)' => AtAdapter(r)
    BY DEF AtAdapter
  <2>3. OnItsWayBack(r)' => OnItsWayBack(r)
    BY DEF OnItsWayBack
  <2>4. AtClientPump(r)' => AtClientPump(r)
    BY DEF AtClientPump
  <2>5. AtBackendPump(r)' => AtBackendPump(r)
    BY DEF AtBackendPump
  <2> QED BY <2>1, <2>2, <2>3, <2>4, <2>5
<1>2. OnePlace(r)'
  BY <1>1 DEF Place, OnePlace
<1>3. r > Len(asked') => Nowhere(r)'
  BY <1>1 DEF Place, Nowhere
<1>4. ASSUME r <= Len(asked) PROVE RightName(r)' /\ ByItself(r)'
  <2>1. RightName(r) /\ ByItself(r)
    BY <1>4 DEF Place
  <2>2. \A c : Named(r, c)' <=> Named(r, c)
    BY DEF Named
  <2>3. AtClientPump(r)' => pump_client' = pump_client
    OBVIOUS
  <2>4. \A k \in 1 .. Len(from_backend') : from_backend'[k].request_seq = r =>
          from_backend'[k].command = "" \/ Named(r, from_backend'[k].command)
    BY <2>1 DEF RightName
  <2>5. \A m \in unanswered' : m.seq = r => Named(r, m.command)
    BY <2>1 DEF RightName
  <2>6. pump_client' # Idle /\ pump_client'.to = "backend" /\ pump_client'.message.seq = r
          => Named(r, pump_client'.message.command)
    BY <2>1, <2>3 DEF RightName, AtClientPump
  <2>7. pump_client' # Idle /\ pump_client'.to = "client" /\ pump_client'.message.request_seq = r
          => pump_client'.message.command = asked[r].command
    BY <2>1, <2>3 DEF RightName, AtClientPump
  <2>8. AtBackendPump(r)' => pump_backend'.message.command \in {asked[r].command, ""}
    BY <1>1, <2>1 DEF RightName
  <2>9. AtRestart(r)' => asked[r].command = "restart"
    BY <2>1 DEF RightName
  <2>10. AtIde(r)' => received'[r][1].command \in {asked[r].command, ""}
    BY <1>1, <2>1 DEF RightName
  <2>11. RightName(r)'
    BY <2>2, <2>4, <2>5, <2>6, <2>7, <2>8, <2>9, <2>10 DEF RightName
  <2>12. ByItself(r)'
    BY <1>1, <2>1 DEF ByItself
  <2> QED BY <2>11, <2>12
<1> QED BY <1>2, <1>3, <1>4 DEF Place

LEMMA AskStepPlaces ==
  TypeInv /\ Places /\ (AskRestart \/ AskVariables \/ AskLaunch \/ AskScopes) => Places'
<1> SUFFICES ASSUME TypeInv, Places, AskRestart \/ AskVariables \/ AskLaunch \/ AskScopes,
                    NEW r \in Requests
             PROVE  Place(r)'
  BY DEF Places
<1>1. PICK command \in Commands, locals \in BOOLEAN :
        /\ Ask(command, locals)
        /\ launch_rewrites' \in {launch_rewrites, launch_rewrites \cup {seq}}
        /\ \/ /\ command = "restart" /\ pump_client' = pump_client
              /\ launch_rewrites' = launch_rewrites
              /\ restart' = [restart EXCEPT ![seq] = "reset"]
           \/ /\ command # "restart" /\ restart' = restart
              /\ \/ \E c \in Commands :
                      /\ pump_client' = [to |-> "backend", message |-> [seq |-> seq, command |-> c]]
                      /\ c = command \/ (c = "attach" /\ seq \in launch_rewrites')
                 \/ /\ pump_client'.to = "client" /\ pump_client'.message.request_seq = seq
                    /\ pump_client'.message.command = command
  <2>1. CASE AskRestart
    BY <2>1 DEF AskRestart, Commands
  <2>2. CASE AskVariables
    <3>1. PICK reference \in References :
            /\ Ask("variables", reference = shown.locals)
            /\ IF reference \in local_references
               THEN pump_client' = [to |-> "client", message |-> Response(seq, "variables", TRUE)]
               ELSE Forward("variables")
            /\ launch_rewrites' = launch_rewrites /\ restart' = restart
      BY <2>2 DEF AskVariables
    <3>2. CASE reference \in local_references
      <4>1. /\ pump_client'.to = "client" /\ pump_client'.message.request_seq = seq
            /\ pump_client'.message.command = "variables"
        BY <3>1, <3>2 DEF Response, Message
      <4> QED BY <3>1, <4>1 DEF Commands
    <3>3. CASE reference \notin local_references
      <4>1. pump_client' = [to |-> "backend", message |-> [seq |-> seq, command |-> "variables"]]
        BY <3>1, <3>3 DEF Forward
      <4> QED BY <3>1, <4>1 DEF Commands
    <3> QED BY <3>2, <3>3
  <2>3. CASE AskLaunch
    BY <2>3 DEF AskLaunch, Commands, Forward
  <2>4. CASE AskScopes
    BY <2>4 DEF AskScopes, Commands, Forward
  <2> QED BY <2>1, <2>2, <2>3, <2>4
<1>2. /\ seq \notin 1 .. Len(asked) /\ seq \in Requests
      /\ launch_rewrites \subseteq 1 .. Len(asked) /\ pump_client = Idle
  BY <1>1, AskType DEF TypeInv, StateType, Ask
<1>3. CASE r = seq
  BY <1>1, <1>3, NewPlace
<1>4. CASE r # seq
  <2>1. restart'[r] = restart[r]
    BY <1>1, <1>4 DEF TypeInv, RestartType
  <2>2. launch_rewrites' \cap (1 .. Len(asked)) = launch_rewrites
    BY <1>1, <1>2
  <2>3. \/ pump_client' = Idle
        \/ pump_client'.to = "backend" /\ pump_client'.message.seq = seq
        \/ pump_client'.to = "client" /\ pump_client'.message.request_seq = seq
    <3>1. CASE pump_client' = pump_client
      BY <1>2, <3>1
    <3>2. CASE \E c \in Commands :
                 pump_client' = [to |-> "backend", message |-> [seq |-> seq, command |-> c]]
      BY <3>2
    <3> QED BY <1>1, <3>1, <3>2
  <2> QED BY <1>1, <1>4, <2>1, <2>2, <2>3, AskPlaces
<1> QED BY <1>3, <1>4


(* What is appended to nothing is all there is.                            *)
LEMMA AppendFirst ==
  ASSUME NEW S, NEW e \in S
  PROVE  LET q == Append(<<>>, e) IN q # <<>> /\ Len(q) = 1 /\ q[1] = e
<1>1. <<>> \in Seq(S) /\ Len(<<>>) = 0
  BY EmptySeq
<1> QED BY <1>1, AppendProperties

(* The IDE receives the answer to a request: its first.                    *)
LEMMA ArrivesAtIde ==
  ASSUME TypeInv, NEW r \in Requests, Place(r), NEW message \in Messages, ToClient(message),
         message.request_seq = r, r \in 1 .. Len(asked), received[r] = <<>>,
         message.command \in {asked[r].command, ""},
         ~AtRestart(r)', ~AtBackendPump(r)', ~OnItsWayBack(r)', ~AtAdapter(r)', ~AtClientPump(r)'
  PROVE  Place(r)'
<1> DEFINE got == [command |-> message.command, success |-> message.success]
<1>1. got \in [command : Commands, success : BOOLEAN]
  BY DEF Messages
<1>2. asked' = asked /\ received'[r] = Append(received[r], got)
  BY DEF ToClient, TypeInv, IdeType
<1>3. /\ received'[r] # <<>> /\ Len(received'[r]) = 1 /\ received'[r][1] = got
  <2> HIDE DEF got
  <2> QED BY <1>1, <1>2, AppendFirst
<1>4. received'[r][1].command \in {asked[r].command, ""}
  <2>1. got.command = message.command
    OBVIOUS
  <2> HIDE DEF got
  <2> QED BY <1>3, <2>1
<1>5. /\ \A m \in unanswered' : m.seq # r
      /\ \A k \in 1 .. Len(from_backend') : from_backend'[k].request_seq # r
  BY DEF AtAdapter, OnItsWayBack
<1>6. OnePlace(r)'
  BY <1>3, <1>5 DEF OnePlace, AtIde
<1>7. RightName(r)'
  BY <1>2, <1>4, <1>5 DEF RightName, AtClientPump
<1>8. ByItself(r)'
  BY DEF ByItself
<1>9. r <= Len(asked') /\ ~(r > Len(asked'))
  BY <1>2, Made
<1> QED BY <1>6, <1>7, <1>8, <1>9 DEF Place

(* For every other request nothing happens at the IDE.                     *)
LEMMA NotForIde ==
  ASSUME TypeInv, NEW r \in Requests, NEW message, ToClient(message), message.request_seq # r
  PROVE  received'[r] = received[r] /\ asked' = asked
BY DEF ToClient, TypeInv, IdeType

LEMMA ClientPumpPlaces == TypeInv /\ Places /\ WriteOfClientPump => Places'
<1> SUFFICES ASSUME TypeInv, Places, WriteOfClientPump, NEW r \in Requests PROVE Place(r)'
  BY DEF Places
<1>1. /\ pump_client # Idle /\ pump_client' = Idle /\ pump_backend' = pump_backend
      /\ launch_rewrites' = launch_rewrites /\ restart' = restart /\ Place(r)
  BY DEF WriteOfClientPump, stateVars, restartVars, Places
<1>2. ~AtClientPump(r)'
  BY <1>1 DEF AtClientPump
<1>3. ASSUME pump_client.to = "backend", ToBackend(pump_client.message), UNCHANGED ideVars
      PROVE  Place(r)'
  <2> DEFINE message == pump_client.message
  <2>1. /\ unanswered' = unanswered \cup {message} /\ from_backend' = from_backend
        /\ asked' = asked /\ received' = received
    BY <1>3 DEF ToBackend, ideVars
  <2>2. CASE message.seq # r
    <3>1. /\ AtRestart(r)' => AtRestart(r)
          /\ \A m \in unanswered' : m.seq = r => m \in unanswered
      BY <1>1, <2>1, <2>2 DEF AtRestart
    <3>2. \A j, k \in 1 .. Len(from_backend') :
            from_backend'[j].request_seq = r /\ from_backend'[k].request_seq = r => j = k
      BY <1>1, <2>1 DEF Place, OnePlace
    <3> QED BY <1>1, <1>2, <2>1, <3>1, <3>2, StaysPut
  <2>3. CASE message.seq = r
    <3>1. AtClientPump(r) /\ r \in 1 .. Len(asked) /\ r <= Len(asked)
      BY <1>1, <1>3, <2>3, Made DEF AtClientPump, TypeInv, ClientPumpType
    <3>2. /\ ~AtIde(r) /\ ~AtRestart(r) /\ ~AtBackendPump(r) /\ ~OnItsWayBack(r) /\ ~AtAdapter(r)
          /\ Named(r, message.command) /\ asked[r].command # "restart"
      BY <1>1, <1>3, <2>3, <3>1 DEF Place, OnePlace, RightName, ByItself
    <3>3. /\ ~AtIde(r)' /\ ~AtRestart(r)' /\ ~AtBackendPump(r)' /\ ~OnItsWayBack(r)'
      BY <1>1, <2>1, <3>2 DEF AtIde, AtRestart, AtBackendPump, OnItsWayBack
    <3>4. /\ \A m \in unanswered' : m.seq = r => m = message
          /\ \A k \in 1 .. Len(from_backend') : from_backend'[k].request_seq # r
      BY <2>1, <3>2, <3>3 DEF AtAdapter, OnItsWayBack
    <3>5. OnePlace(r)'
      BY <1>2, <3>3, <3>4 DEF OnePlace
    <3>6. \A m \in unanswered' : m.seq = r => Named(r, m.command)'
      BY <1>1, <2>1, <3>2, <3>4 DEF Named
    <3>7. RightName(r)'
      BY <1>2, <3>3, <3>4, <3>6 DEF RightName, AtClientPump
    <3>8. ByItself(r)'
      BY <2>1, <3>2 DEF ByItself
    <3> QED BY <2>1, <3>1, <3>5, <3>7, <3>8, Made DEF Place
  <2> QED BY <2>2, <2>3
<1>4. ASSUME pump_client.to = "client", ToClient(pump_client.message), UNCHANGED adapterVars
      PROVE  Place(r)'
  <2> DEFINE message == pump_client.message
  <2>1. /\ unanswered' = unanswered /\ from_backend' = from_backend
    BY <1>4 DEF adapterVars
  <2>2. message \in Messages /\ message.request_seq \in 1 .. Len(asked)
    BY <1>1, <1>4 DEF TypeInv, ClientPumpType
  <2>3. CASE message.request_seq # r
    <3>1. received'[r] = received[r] /\ asked' = asked
      BY <1>4, <2>3, NotForIde
    <3>2. AtRestart(r)' => AtRestart(r)
      BY <1>1 DEF AtRestart
    <3>3. \A j, k \in 1 .. Len(from_backend') :
            from_backend'[j].request_seq = r /\ from_backend'[k].request_seq = r => j = k
      BY <1>1, <2>1 DEF Place, OnePlace
    <3> QED BY <1>1, <1>2, <2>1, <3>1, <3>2, <3>3, StaysPut
  <2>4. CASE message.request_seq = r
    <3>1. AtClientPump(r) /\ r \in 1 .. Len(asked) /\ r <= Len(asked)
      BY <1>1, <1>4, <2>2, <2>4, Made DEF AtClientPump
    <3>2. /\ ~AtIde(r) /\ ~AtRestart(r) /\ ~AtBackendPump(r) /\ ~OnItsWayBack(r) /\ ~AtAdapter(r)
          /\ message.command = asked[r].command
      BY <1>1, <1>4, <2>4, <3>1 DEF Place, OnePlace, RightName
    <3>3. ~AtRestart(r)' /\ ~AtBackendPump(r)' /\ ~OnItsWayBack(r)' /\ ~AtAdapter(r)'
      BY <1>1, <2>1, <3>2 DEF AtRestart, AtBackendPump, OnItsWayBack, AtAdapter
    <3> QED BY <1>1, <1>2, <1>4, <2>2, <2>4, <3>1, <3>2, <3>3, ArrivesAtIde DEF AtIde
  <2> QED BY <2>3, <2>4
<1> QED BY <1>3, <1>4 DEF WriteOfClientPump

LEMMA BackendPumpPlaces == TypeInv /\ Places /\ WriteOfBackendPump => Places'
<1> SUFFICES ASSUME TypeInv, Places, WriteOfBackendPump, NEW r \in Requests PROVE Place(r)'
  BY DEF Places
<1> DEFINE message == pump_backend.message
<1>1. /\ pump_backend # Idle /\ pump_backend' = Idle /\ pump_client' = pump_client
      /\ launch_rewrites' = launch_rewrites /\ restart' = restart /\ Place(r)
      /\ unanswered' = unanswered /\ from_backend' = from_backend /\ ToClient(message)
  BY DEF WriteOfBackendPump, stateVars, restartVars, adapterVars, Places
<1>2. ~AtBackendPump(r)'
  BY <1>1 DEF AtBackendPump
<1>3. message \in Messages
  BY <1>1 DEF TypeInv, BackendPumpType
<1>4. CASE message.request_seq # r
  <2>1. received'[r] = received[r] /\ asked' = asked
    BY <1>1, <1>4, NotForIde
  <2>2. AtRestart(r)' => AtRestart(r)
    BY <1>1 DEF AtRestart
  <2>3. \A j, k \in 1 .. Len(from_backend') :
          from_backend'[j].request_seq = r /\ from_backend'[k].request_seq = r => j = k
    BY <1>1 DEF Place, OnePlace
  <2> QED BY <1>1, <1>2, <2>1, <2>2, <2>3, StaysPut
<1>5. CASE message.request_seq = r
  <2>1. AtBackendPump(r)
    BY <1>1, <1>5 DEF AtBackendPump
  <2>2. r <= Len(asked) /\ r \in 1 .. Len(asked)
    BY <1>1, <2>1, Made DEF Place, Nowhere
  <2>3. /\ ~AtIde(r) /\ ~AtRestart(r) /\ ~OnItsWayBack(r) /\ ~AtAdapter(r) /\ ~AtClientPump(r)
        /\ message.command \in {asked[r].command, ""}
    BY <1>1, <2>1, <2>2 DEF Place, OnePlace, RightName
  <2>4. ~AtRestart(r)' /\ ~OnItsWayBack(r)' /\ ~AtAdapter(r)' /\ ~AtClientPump(r)'
    BY <1>1, <2>3 DEF AtRestart, AtClientPump, OnItsWayBack, AtAdapter
  <2> QED BY <1>1, <1>2, <1>3, <1>5, <2>2, <2>3, <2>4, ArrivesAtIde DEF AtIde
<1> QED BY <1>4, <1>5


(* The answers behind the one that pump_backend takes.                     *)
LEMMA BehindTheFirst ==
  ASSUME TypeInv, Receive, NEW r, Place(r)
  PROVE  /\ \A k \in 1 .. Len(from_backend') :
              k + 1 \in 1 .. Len(from_backend) /\ from_backend'[k] = from_backend[k + 1]
         /\ \A j, k \in 1 .. Len(from_backend') :
              from_backend'[j].request_seq = r /\ from_backend'[k].request_seq = r => j = k
         /\ answer.request_seq = r => OnItsWayBack(r) /\ ~OnItsWayBack(r)'
<1>1. /\ Len(from_backend) \in Nat /\ Len(from_backend') = Len(from_backend) - 1
      /\ Len(from_backend) >= 1 /\ answer = from_backend[1]
      /\ \A k \in 1 .. Len(from_backend') : from_backend'[k] = from_backend[k + 1]
  BY ReceiveType
<1>2. \A k \in 1 .. Len(from_backend') : k + 1 \in 1 .. Len(from_backend) /\ k + 1 # 1 /\ k \in Nat
  BY <1>1
<1>3. \A j, k \in 1 .. Len(from_backend) :
        from_backend[j].request_seq = r /\ from_backend[k].request_seq = r => j = k
  BY DEF Place, OnePlace
<1>4. 1 \in 1 .. Len(from_backend)
  BY <1>1
<1>5. ASSUME NEW j \in 1 .. Len(from_backend'), NEW k \in 1 .. Len(from_backend'),
             from_backend'[j].request_seq = r, from_backend'[k].request_seq = r
      PROVE  j = k
  <2>1. j + 1 = k + 1
    BY <1>1, <1>2, <1>3, <1>5
  <2> QED BY <1>2, <2>1
<1>6. answer.request_seq = r => OnItsWayBack(r) /\ ~OnItsWayBack(r)'
  BY <1>1, <1>2, <1>3, <1>4 DEF OnItsWayBack
<1> QED BY <1>1, <1>2, <1>5, <1>6

LEMMA TakeInternalAnswerPlaces == TypeInv /\ Places /\ TakeInternalAnswer => Places'
<1> SUFFICES ASSUME TypeInv, Places, TakeInternalAnswer, NEW r \in Requests PROVE Place(r)'
  BY DEF Places
<1>1. Receive /\ pump_backend' = pump_backend /\ launch_rewrites' = launch_rewrites
  BY DEF TakeInternalAnswer
<1>2. /\ pump_client' = pump_client /\ asked' = asked /\ received' = received
      /\ unanswered' = unanswered /\ restart' = restart /\ Place(r)
  BY <1>1 DEF Receive, ideVars, restartVars, Places
<1>3. AtRestart(r)' => AtRestart(r)
  BY <1>2 DEF AtRestart
<1> QED BY <1>1, <1>2, <1>3, BehindTheFirst, StaysPut

LEMMA ForwardAnswerPlaces == TypeInv /\ Places /\ ForwardAnswer => Places'
<1> SUFFICES ASSUME TypeInv, Places, ForwardAnswer, NEW r \in Requests PROVE Place(r)'
  BY DEF Places
<1> DEFINE message == [answer EXCEPT !.command = Renamed, !.epoch = clears]
<1>1. /\ Receive /\ launch_rewrites' = launch_rewrites \ {answer.request_seq}
      /\ pump_backend' = [to |-> "client", message |-> message]
  BY DEF ForwardAnswer
<1>2. /\ pump_client' = pump_client /\ asked' = asked /\ received' = received
      /\ unanswered' = unanswered /\ restart' = restart /\ pump_backend = Idle /\ Place(r)
  BY <1>1 DEF Receive, ideVars, restartVars, Places
<1>3. answer \in Messages /\ answer = from_backend[1] /\ 1 \in 1 .. Len(from_backend)
  <2>1. Len(from_backend) \in Nat /\ Len(from_backend) >= 1
    BY <1>1, ReceiveType
  <2>2. 1 \in 1 .. Len(from_backend)
    BY <2>1
  <2> QED BY <1>1, <2>2, ReceiveType
<1>4. message.request_seq = answer.request_seq /\ message.command = Renamed
  BY <1>3 DEF Messages
<1> HIDE DEF message
<1>5. pump_backend' # Idle /\ pump_backend'.message = message
  BY <1>1 DEF Idle
<1>6. CASE answer.request_seq # r
  <2>1. AtRestart(r)' => AtRestart(r)
    BY <1>2 DEF AtRestart
  <2>2. ~AtBackendPump(r)'
    BY <1>4, <1>5, <1>6 DEF AtBackendPump
  <2>3. r \in launch_rewrites' <=> r \in launch_rewrites
    BY <1>1, <1>6
  <2>4. \A k \in 1 .. Len(from_backend') : from_backend'[k].request_seq = r =>
          \E j \in 1 .. Len(from_backend) : from_backend'[k] = from_backend[j]
    BY <1>1, <1>2, BehindTheFirst
  <2>5. \A j, k \in 1 .. Len(from_backend') :
          from_backend'[j].request_seq = r /\ from_backend'[k].request_seq = r => j = k
    BY <1>1, <1>2, BehindTheFirst
  <2> QED BY <1>2, <2>1, <2>2, <2>3, <2>4, <2>5, StaysPut
<1>7. CASE answer.request_seq = r
  <2>1. OnItsWayBack(r) /\ ~OnItsWayBack(r)'
    BY <1>1, <1>2, <1>7, BehindTheFirst
  <2>2. r <= Len(asked)
    BY <1>2, <2>1, Made DEF Place, Nowhere
  <2>3. /\ ~AtIde(r) /\ ~AtRestart(r) /\ ~AtAdapter(r) /\ ~AtClientPump(r)
        /\ asked[r].command # "restart"
        /\ answer.command = "" \/ Named(r, answer.command)
    BY <1>2, <1>3, <1>7, <2>1, <2>2 DEF Place, OnePlace, RightName, ByItself
  <2>4. ~AtIde(r)' /\ ~AtRestart(r)' /\ ~AtAdapter(r)' /\ ~AtClientPump(r)'
    BY <1>2, <2>3 DEF AtIde, AtRestart, AtAdapter, AtClientPump
  <2>5. /\ \A m \in unanswered' : m.seq # r
        /\ \A k \in 1 .. Len(from_backend') : from_backend'[k].request_seq # r
    BY <2>1, <2>4 DEF AtAdapter, OnItsWayBack
  <2>6. message.command \in {asked[r].command, ""}
    BY <1>4, <1>7, <2>2, <2>3, Made DEF Renamed, Named, TypeInv, StateType
  <2>7. OnePlace(r)'
    BY <2>1, <2>4, <2>5 DEF OnePlace
  <2>8. RightName(r)'
    BY <1>2, <1>5, <2>4, <2>5, <2>6 DEF RightName, AtClientPump
  <2>9. ByItself(r)'
    BY <1>2, <2>3 DEF ByItself
  <2> QED BY <1>2, <2>2, <2>7, <2>8, <2>9, Made DEF Place
<1> QED BY <1>6, <1>7

LEMMA AdapterStepPlaces == TypeInv /\ Places /\ AdapterStep => Places'
<1> SUFFICES ASSUME TypeInv, Places, AdapterStep, NEW r \in Requests PROVE Place(r)'
  BY DEF Places
<1>1. PICK request \in unanswered, command \in Commands, success \in BOOLEAN,
           locals \in References \cup {0} :
        /\ Answer(request, command, success, locals)
        /\ command \in {"scopes", ""} => locals \in References
        /\ command \in {"", request.command} /\ running' \in BOOLEAN
  BY AnAnswer
<1> DEFINE n == Len(from_backend) + 1
           message == Message(request.seq, command, success, locals, 0)
<1>2. /\ Len(from_backend) \in Nat /\ Len(from_backend') = n
      /\ from_backend'[n] = message
      /\ \A k \in 1 .. Len(from_backend) : from_backend'[k] = from_backend[k]
  BY <1>1, AnswerType
<1>3. message.request_seq = request.seq /\ message.command = command
  BY DEF Message
<1>4. /\ unanswered' = unanswered \ {request}
      /\ pump_client' = pump_client /\ pump_backend' = pump_backend
      /\ asked' = asked /\ received' = received /\ restart' = restart
      /\ launch_rewrites' = launch_rewrites /\ Place(r)
  BY <1>1 DEF Answer, ideVars, stateVars, restartVars, Places
<1>5. 1 .. Len(from_backend') = 1 .. Len(from_backend) \cup {n}
  BY <1>2
<1> HIDE DEF message, n
<1>6. CASE request.seq # r
  <2>1. \A k \in 1 .. Len(from_backend') : from_backend'[k].request_seq = r =>
          k \in 1 .. Len(from_backend) /\ from_backend'[k] = from_backend[k]
    BY <1>2, <1>3, <1>5, <1>6
  <2>2. \A j, k \in 1 .. Len(from_backend') :
          from_backend'[j].request_seq = r /\ from_backend'[k].request_seq = r => j = k
    BY <1>4, <2>1 DEF Place, OnePlace
  <2>3. AtRestart(r)' => AtRestart(r)
    BY <1>4 DEF AtRestart
  <2>4. \A m \in unanswered' : m.seq = r => m \in unanswered
    BY <1>4
  <2> QED BY <1>4, <2>1, <2>2, <2>3, <2>4, StaysPut
<1>7. CASE request.seq = r
  <2>1. AtAdapter(r)
    BY <1>7 DEF AtAdapter
  <2>2. r <= Len(asked)
    BY <1>4, <2>1, Made DEF Place, Nowhere
  <2>3. /\ ~AtIde(r) /\ ~AtRestart(r) /\ ~AtBackendPump(r) /\ ~OnItsWayBack(r) /\ ~AtClientPump(r)
        /\ \A m \in unanswered : m.seq = r => m = request
        /\ Named(r, request.command) /\ asked[r].command # "restart"
    BY <1>4, <1>7, <2>1, <2>2 DEF Place, OnePlace, RightName, ByItself
  <2>4. /\ ~AtIde(r)' /\ ~AtRestart(r)' /\ ~AtBackendPump(r)' /\ ~AtClientPump(r)'
    BY <1>4, <2>3 DEF AtIde, AtRestart, AtBackendPump, AtClientPump
  <2>5. \A m \in unanswered' : m.seq # r
    BY <1>4, <2>3
  <2>6. ~AtAdapter(r)'
    BY <2>5 DEF AtAdapter
  <2>7. \A k \in 1 .. Len(from_backend') :
          from_backend'[k].request_seq = r => k = n /\ from_backend'[k] = message
    BY <1>2, <1>5, <2>3 DEF OnItsWayBack
  <2>8. OnePlace(r)'
    BY <2>4, <2>5, <2>6, <2>7 DEF OnePlace
  <2>9. command = "" \/ Named(r, command)'
    BY <1>1, <1>4, <2>3 DEF Named
  <2>10. \A k \in 1 .. Len(from_backend') : from_backend'[k].request_seq = r =>
           from_backend'[k].command = "" \/ Named(r, from_backend[k].command)'
    BY <1>3, <2>7, <2>9 DEF Named
  <2>11. RightName(r)'
    BY <2>4, <2>5, <2>10 DEF RightName, AtClientPump
  <2>12. ByItself(r)'
    BY <1>4, <2>3 DEF ByItself
  <2> QED BY <1>4, <2>2, <2>8, <2>11, <2>12, Made DEF Place
<1> QED BY <1>6, <1>7


(* A restart that does not tell the IDE anything keeps every place.        *)
LEMMA QuietPlaces ==
  ASSUME TypeInv, Places,
         UNCHANGED <<asked, received, launch_rewrites, pump_client, pump_backend, from_backend>>,
         \A r \in Requests : AtRestart(r)' => AtRestart(r),
         \A m \in unanswered' : m \in unanswered \/ m.seq \notin Requests
  PROVE  Places'
<1> SUFFICES ASSUME NEW r \in Requests PROVE Place(r)'
  BY DEF Places
<1>1. Place(r)
  BY DEF Places
<1>2. \A j, k \in 1 .. Len(from_backend') :
        from_backend'[j].request_seq = r /\ from_backend'[k].request_seq = r => j = k
  BY <1>1 DEF Place, OnePlace
<1> QED BY <1>1, <1>2, StaysPut

LEMMA RestartPlaces ==
  TypeInv /\ Places
    /\ (\E r \in Requests : \/ AfterReset(r) \/ SendContinue(r) \/ AfterFailedReset(r)
                            \/ ContinueAnswered(r) \/ ContinueTimesOut(r)) => Places'
<1> SUFFICES ASSUME TypeInv, Places, NEW r \in Requests,
                    \/ AfterReset(r) \/ SendContinue(r) \/ AfterFailedReset(r)
                    \/ ContinueAnswered(r) \/ ContinueTimesOut(r)
             PROVE  Places'
  OBVIOUS
<1>1. /\ \E from \in {"reset", "send", "wait"}, to \in {"send", "wait", "respond", "refuse"} :
           Step(r, from, to)
      /\ received' = received /\ from_backend' = from_backend
  BY DEF AfterReset, SendContinue, AfterFailedReset, ContinueAnswered, ContinueTimesOut,
     EndOfRequest, ToBackend, adapterVars
<1>2. \A q \in Requests : AtRestart(q)' => AtRestart(q)
  BY <1>1 DEF Step, AtRestart, TypeInv, RestartType
<1>3. \A m \in unanswered' : m \in unanswered \/ m.seq \notin Requests
  <2>1. CASE SendContinue(r)
    <3>1. internal[r] \notin Requests
      BY RequestsAssumption DEF TypeInv, RestartType, Requests
    <3> QED BY <2>1, <3>1 DEF SendContinue, ToBackend
  <2>2. CASE ~SendContinue(r)
    BY <2>2 DEF AfterReset, AfterFailedReset, ContinueAnswered, ContinueTimesOut, EndOfRequest,
       adapterVars
  <2> QED BY <2>1, <2>2
<1>4. UNCHANGED <<asked, launch_rewrites, pump_client, pump_backend>>
  BY <1>1 DEF Step
<1> QED BY <1>1, <1>2, <1>3, <1>4, QuietPlaces

LEMMA TellingPlaces ==
  TypeInv /\ Places /\ (\E r \in Requests : Respond(r) \/ SendContinued(r) \/ Refuse(r)) => Places'
<1> SUFFICES ASSUME TypeInv, Places, NEW q \in Requests, NEW r \in Requests,
                    Respond(q) \/ SendContinued(q) \/ Refuse(q)
             PROVE  Place(r)'
  BY DEF Places
<1>1. /\ asked' = asked /\ launch_rewrites' = launch_rewrites /\ pump_client' = pump_client
      /\ pump_backend' = pump_backend /\ unanswered' = unanswered /\ from_backend' = from_backend
      /\ Place(r) /\ \E to \in {"event", "done"} : restart' = [restart EXCEPT ![q] = to]
  BY DEF Respond, SendContinued, Refuse, Step, adapterVars, Places
<1>2. AtRestart(r)' => AtRestart(r) /\ r # q
  BY <1>1 DEF AtRestart, TypeInv, RestartType
<1>3. \A j, k \in 1 .. Len(from_backend') :
        from_backend'[j].request_seq = r /\ from_backend'[k].request_seq = r => j = k
  BY <1>1 DEF Place, OnePlace
<1>4. q \in Nat /\ 0 \notin Requests
  BY RequestsAssumption DEF Requests
<1>5. PICK message \in Messages :
        /\ ToClient(message)
        /\ \/ message.request_seq = 0
           \/ /\ message.request_seq = q /\ message.command = "restart"
              /\ restart[q] \in {"respond", "refuse"}
  <2>1. CASE SendContinued(q)
    <3>1. Continued.request_seq = 0 /\ Continued \in Messages /\ ToClient(Continued)
      BY <1>4, <2>1, OwnMessages DEF Continued, Response, Message, SendContinued
    <3> QED BY <3>1
  <2>2. ASSUME NEW b \in BOOLEAN, ToClient(Response(q, "restart", b)),
               restart[q] \in {"respond", "refuse"}
        PROVE  \E message \in Messages :
                 /\ ToClient(message) /\ message.request_seq = q /\ message.command = "restart"
                 /\ restart[q] \in {"respond", "refuse"}
    <3> DEFINE message == Response(q, "restart", b)
    <3>1. message \in Messages /\ message.request_seq = q /\ message.command = "restart"
      BY <1>4, OwnMessages DEF Response, Message
    <3> HIDE DEF message
    <3>2. ToClient(message)
      BY <2>2 DEF message
    <3> QED BY <2>2, <3>1, <3>2
  <2>3. CASE Respond(q)
    BY <2>2, <2>3 DEF Respond, Step
  <2>4. CASE Refuse(q)
    BY <2>2, <2>4 DEF Refuse, Step
  <2> QED BY <2>1, <2>3, <2>4
<1>6. CASE message.request_seq # r
  <2>1. received'[r] = received[r]
    BY <1>5, <1>6, NotForIde
  <2> QED BY <1>1, <1>2, <1>3, <2>1, StaysPut
<1>7. CASE message.request_seq = r
  <2>1. r = q /\ AtRestart(r) /\ ~AtRestart(r)'
    BY <1>2, <1>4, <1>5, <1>7 DEF AtRestart
  <2>2. r <= Len(asked) /\ r \in 1 .. Len(asked)
    BY <1>1, <2>1, Made DEF Place, Nowhere
  <2>3. /\ ~AtIde(r) /\ ~AtBackendPump(r) /\ ~OnItsWayBack(r) /\ ~AtAdapter(r) /\ ~AtClientPump(r)
        /\ message.command = asked[r].command
    BY <1>1, <1>5, <1>4, <1>7, <2>1, <2>2 DEF Place, OnePlace, RightName
  <2>4. ~AtBackendPump(r)' /\ ~OnItsWayBack(r)' /\ ~AtAdapter(r)' /\ ~AtClientPump(r)'
    BY <1>1, <2>3 DEF AtBackendPump, AtClientPump, OnItsWayBack, AtAdapter
  <2> QED BY <1>1, <1>5, <1>7, <2>1, <2>2, <2>3, <2>4, ArrivesAtIde DEF AtIde
<1> QED BY <1>6, <1>7

LEMMA PlaceStep == TypeInv /\ Places /\ [Next]_vars => Places'
<1> SUFFICES ASSUME TypeInv, Places, [Next]_vars PROVE Places'
  OBVIOUS
<1>1. CASE \E r \in Requests : ResetStep(r)
  <2>1. /\ UNCHANGED <<asked, received, launch_rewrites, pump_client, pump_backend, from_backend>>
        /\ restart' = restart /\ unanswered' = unanswered
    BY <1>1 DEF ResetStep, ResetBreaks, ResetEnds, ideVars, stateVars
  <2>2. \A r \in Requests : AtRestart(r)' => AtRestart(r)
    BY <2>1 DEF AtRestart
  <2> QED BY <2>1, <2>2, QuietPlaces
<1>2. CASE EndSession
  <2> SUFFICES ASSUME NEW r \in Requests PROVE Place(r)'
    BY DEF Places
  <2>1. /\ asked' = asked /\ received' = received /\ launch_rewrites' = launch_rewrites
        /\ from_backend' = from_backend /\ unanswered' = unanswered /\ Place(r)
        /\ pump_client' = Idle /\ pump_backend' = Idle
    BY <1>2 DEF EndSession, ideVars, adapterVars, Places
  <2>2. AtRestart(r)' => AtRestart(r)
    BY <1>2 DEF EndSession, AtRestart
  <2>3. ~AtClientPump(r)' /\ ~AtBackendPump(r)'
    BY <2>1 DEF AtClientPump, AtBackendPump
  <2>4. \A j, k \in 1 .. Len(from_backend') :
          from_backend'[j].request_seq = r /\ from_backend'[k].request_seq = r => j = k
    BY <2>1 DEF Place, OnePlace
  <2> QED BY <2>1, <2>2, <2>3, <2>4, StaysPut
<1>3. CASE ListensOrNot \/ UNCHANGED vars
  <2>1. /\ UNCHANGED <<asked, received, launch_rewrites, pump_client, pump_backend, from_backend>>
        /\ restart' = restart /\ unanswered' = unanswered
    BY <1>3, StillSteps DEF Still, ideVars, stateVars, restartVars
  <2>2. \A r \in Requests : AtRestart(r)' => AtRestart(r)
    BY <2>1 DEF AtRestart
  <2> QED BY <2>1, <2>2, QuietPlaces
<1>4. CASE \E r \in Requests : \/ AfterReset(r) \/ SendContinue(r) \/ AfterFailedReset(r)
                              \/ ContinueAnswered(r) \/ ContinueTimesOut(r)
  BY <1>4, RestartPlaces
<1>5. CASE Next
  BY <1>1, <1>2, <1>3, <1>4, <1>5, Steps, AskStepPlaces, ClientPumpPlaces, BackendPumpPlaces,
     TakeInternalAnswerPlaces, ForwardAnswerPlaces, TellingPlaces, AdapterStepPlaces
<1> QED BY <1>3, <1>5

(* IInv is an invariant.                                                   *)
LEMMA Invariance == Spec => []IInv
<1>1. Init => IInv
  BY Initially, PlacesInitially DEF IInv
<1>2. IInv /\ [Next]_vars => IInv'
  BY TypeStep, PlaceStep DEF IInv
<1> QED BY <1>1, <1>2, PTL DEF Spec

(* Every variable of a session keeps its type, and a request of the proxy  *)
(* is registered exactly while its restart awaits the answer.              *)
THEOREM TypeCorrect == Spec => []TypeOK
<1>1. IInv => TypeOK
  <2> SUFFICES ASSUME IInv PROVE TypeOK
    OBVIOUS
  <2>1. TypeInv
    BY DEF IInv
  <2>2. internal \in [Requests -> Nat]
    BY <2>1 DEF TypeInv, RestartType
  <2> QED BY <2>1, <2>2 DEF TypeOK, TypeInv, IdeType, StateType, RestartType, AdapterType
<1> QED BY <1>1, Invariance, PTL

(* The IDE gets at most one answer to a request, under the name it gave    *)
(* the command, for any number of requests and restarts.                   *)
THEOREM AnsweredAtMostOnce == Spec => []AnsweredOnce
<1>1. IInv => AnsweredOnce
  <2> SUFFICES ASSUME IInv, NEW r \in Requests, received[r] # <<>>
               PROVE  /\ r \in DOMAIN asked /\ Len(received[r]) = 1
                      /\ received[r][1].command \in {asked[r].command, ""}
    BY DEF AnsweredOnce
  <2>1. TypeInv /\ Place(r) /\ AtIde(r)
    BY DEF IInv, Places, AtIde
  <2>2. r <= Len(asked) /\ r \in 1 .. Len(asked)
    BY <2>1, Made DEF Place, Nowhere
  <2>3. DOMAIN asked = 1 .. Len(asked)
    BY <2>1, LenProperties DEF TypeInv, IdeType
  <2> QED BY <2>1, <2>2, <2>3 DEF Place, OnePlace, RightName
<1> QED BY <1>1, Invariance, PTL

-----------------------------------------------------------------------------
(***************************************************************************)
(* What is kept between the two sides stays there, and the target runs     *)
(* when every restart was answered with success.                           *)
(***************************************************************************)

(* Nothing is under way, or was let through to the IDE, under a number.    *)
Absent(n) == ~AtAdapter(n) /\ ~OnItsWayBack(n) /\ ~AtBackendPump(n) /\ n \notin leaked

(* The restart was refused, or cancelled, and stays so.                    *)
Refused(r) == restart[r] \in {"refuse", "done", "cancelled"} /\ ~Succeeded(r)

(* The `continue` of a restart was answered, and its restart knows.        *)
Known(r) ==
  \/ internal_requests[r] \in {"success", "failure"}
  \/ restart[r] \in {"respond", "event"}
  \/ Succeeded(r)

(* The number of a `continue`: its own, given after the reset.             *)
Numbered(r) ==
  /\ restart[r] \in {"none", "reset"} => internal[r] = 0
  /\ restart[r] \in {"send", "wait", "respond", "event"} => internal[r] # 0
  /\ restart[r] = "cancelled" => ~open
  /\ restart[r] = "send" => internal_requests[r] = "waiting"
  /\ reset[r] # "none" => r \in Restarts
  /\ r \in Restarts /\ Succeeded(r) => internal[r] # 0
  /\ internal[r] # 0 => reset[r] = "up" /\ r \in Restarts /\ internal[r] < next_sequence
  /\ \A q \in Requests : internal[r] # 0 /\ internal[q] = internal[r] => q = r

(* Where the `continue` with number n of a restart, and its answer, are.   *)
Whereabouts(r, n) ==
  /\ restart[r] = "send" \/ Known(r) => Absent(n)
  /\ AtAdapter(n) => ~OnItsWayBack(n)
  /\ AtBackendPump(n) \/ n \in leaked => Refused(r)
  /\ \A l, m \in unanswered : l.seq = n /\ m.seq = n => l = m
  /\ \A m \in unanswered : m.seq = n => m.command = "continue"
  /\ \A j, k \in 1 .. Len(from_backend) :
       from_backend[j].request_seq = n /\ from_backend[k].request_seq = n => j = k

(* Whatever is not about a request of the IDE is about a `continue`.       *)
IsContinue(n) == n # 0 /\ \E r \in Requests : internal[r] = n

Origins ==
  /\ \A m \in unanswered : m.seq \in Requests \/ IsContinue(m.seq)
  /\ \A k \in 1 .. Len(from_backend) :
       from_backend[k].request_seq \in Requests \/ IsContinue(from_backend[k].request_seq)
  /\ pump_backend # Idle =>
       pump_backend.message.request_seq \in Requests \/ IsContinue(pump_backend.message.request_seq)
  /\ \A n \in leaked : IsContinue(n)

ContinueInv ==
  /\ Origins
  /\ \A r \in Requests : Numbered(r)
  /\ \A r \in Requests, n \in Nat : n # 0 /\ internal[r] = n => Whereabouts(r, n)

(* The target was continued for a restart.                                 *)
Continues(r) ==
  \/ \E k \in 1 .. Len(from_backend) :
       from_backend[k].request_seq = internal[r] /\ from_backend[k].success
  \/ internal_requests[r] = "success"
  \/ restart[r] \in {"respond", "event"}
  \/ Succeeded(r)

RunInv ==
  Restarts # {} /\ (\A r \in Restarts : internal[r] # 0 /\ Continues(r)) => running

(* Scopes that were recorded and not cleared since are known.              *)
Recorded(locals, epoch) ==
  locals # 0 => epoch <= clears /\ (locals \in local_references \/ epoch < clears)

(* A request for scopes is registered for as long as its answer may come.  *)
ForScopes(r) == r \in client_commands /\ asked[r].command = "scopes"

LocalsInv ==
  /\ Recorded(shown.locals, shown.epoch)
  /\ pump_backend # Idle => Recorded(pump_backend.message.locals, pump_backend.message.epoch)
  /\ \A m \in unanswered : m.command = "scopes" => m.seq \in Requests /\ ForScopes(m.seq)
  /\ \A k \in 1 .. Len(from_backend) :
       from_backend[k].locals # 0 =>
         /\ from_backend[k].command \in {"scopes", ""}
         /\ from_backend[k].request_seq \in Requests /\ ForScopes(from_backend[k].request_seq)
  /\ pump_client # Idle /\ pump_client.to = "backend" =>
       LET r == pump_client.message.seq IN
       /\ pump_client.message.command = "scopes" => ForScopes(r)
       /\ asked[r].locals => asked[r].epoch < asked[r].clears
  /\ \A r \in forwarded : asked[r].locals => asked[r].epoch < asked[r].clears

SInv == ContinueInv /\ RunInv /\ LocalsInv

-----------------------------------------------------------------------------
(* Frames: what a step that is not about a `continue` keeps.               *)

LEMMA SucceededSame ==
  ASSUME NEW r, received'[r] = received[r]
  PROVE  Succeeded(r)' <=> Succeeded(r)
BY DEF Succeeded

LEMMA NumberStays ==
  ASSUME TypeInv, NEW r \in Requests, Numbered(r), internal' = internal, open' = open,
         \/ restart'[r] = restart[r] /\ internal_requests'[r] = internal_requests[r]
         \/ restart[r] = "none" /\ restart'[r] = "reset",
         reset'[r] = reset[r] \/ (reset[r] \in {"started", "halted"} /\ reset'[r] # "none")
                             \/ (r \in Restarts' /\ internal[r] = 0),
         next_sequence' \in Nat, next_sequence' >= next_sequence,
         r \in Restarts => r \in Restarts',
         r \in Restarts' /\ Succeeded(r)' => r \in Restarts /\ Succeeded(r)
  PROVE  Numbered(r)'
<1>1. next_sequence \in Nat /\ internal[r] \in Nat
  BY DEF TypeInv, StateType, RestartType
<1>2. internal[r] < next_sequence => internal[r] < next_sequence'
  BY <1>1
<1> QED BY <1>2 DEF Numbered

LEMMA WhereStays ==
  ASSUME NEW r, NEW n, Whereabouts(r, n),
         restart'[r] = "send" \/ Known(r)' => restart[r] = "send" \/ Known(r),
         Refused(r) => Refused(r)',
         \A m \in unanswered' : m.seq = n => m \in unanswered,
         AtBackendPump(n)' => AtBackendPump(n),
         n \in leaked' => n \in leaked,
         \A k \in 1 .. Len(from_backend') : from_backend'[k].request_seq = n =>
           \E j \in 1 .. Len(from_backend) : from_backend[j].request_seq = n,
         \A j, k \in 1 .. Len(from_backend') :
           from_backend'[j].request_seq = n /\ from_backend'[k].request_seq = n => j = k
  PROVE  Whereabouts(r, n)'
<1>1. AtAdapter(n)' => AtAdapter(n)
  BY DEF AtAdapter
<1>2. OnItsWayBack(n)' => OnItsWayBack(n)
  BY DEF OnItsWayBack
<1>3. Absent(n) => Absent(n)'
  BY <1>1, <1>2 DEF Absent
<1> QED BY <1>1, <1>2, <1>3 DEF Whereabouts

LEMMA OriginsStay ==
  ASSUME Origins, internal' = internal,
         \A m \in unanswered' : m \in unanswered \/ m.seq \in Requests,
         \A k \in 1 .. Len(from_backend') :
           \E j \in 1 .. Len(from_backend) : from_backend'[k] = from_backend[j],
         pump_backend' \in {pump_backend, Idle}, leaked' = leaked
  PROVE  Origins'
<1>1. \A n : IsContinue(n)' <=> IsContinue(n)
  BY DEF IsContinue
<1> QED BY <1>1 DEF Origins, Idle

(* The step keeps everything about the `continue`s.                        *)
LEMMA ContinuesStay ==
  ASSUME TypeInv, ContinueInv, internal' = internal, open' = open, leaked' = leaked,
         \A r \in Requests :
           /\ \/ restart'[r] = restart[r] /\ internal_requests'[r] = internal_requests[r]
              \/ /\ restart[r] = "none" /\ restart'[r] = "reset"
                 /\ internal_requests'[r] = internal_requests[r]
           /\ \/ reset'[r] = reset[r]
              \/ reset[r] \in {"started", "halted"} /\ reset'[r] # "none"
              \/ r \in Restarts' /\ internal[r] = 0
           /\ r \in Restarts => r \in Restarts'
           /\ r \in Restarts' /\ Succeeded(r)' => r \in Restarts /\ Succeeded(r)
           /\ r \in Restarts => (Succeeded(r)' <=> Succeeded(r)),
         next_sequence' \in Nat, next_sequence' >= next_sequence,
         \A m \in unanswered' : m \in unanswered \/ m.seq \in Requests,
         from_backend' = from_backend, pump_backend' \in {pump_backend, Idle}
  PROVE  ContinueInv'
<1>1. Origins'
  BY OriginsStay DEF ContinueInv
<1>2. ASSUME NEW r \in Requests PROVE Numbered(r)'
  BY NumberStays DEF ContinueInv
<1>3. ASSUME NEW r \in Requests, NEW n \in Nat, n # 0, internal[r] = n PROVE Whereabouts(r, n)'
  <2>1. Whereabouts(r, n) /\ Numbered(r)
    BY <1>3 DEF ContinueInv
  <2>2. r \in Restarts /\ restart[r] # "none" /\ n \notin Requests
    BY <1>3, <2>1 DEF Numbered, TypeInv, RestartType
  <2>3. restart'[r] = restart[r] /\ internal_requests'[r] = internal_requests[r]
        /\ (Succeeded(r)' <=> Succeeded(r))
    BY <2>2
  <2>4. /\ restart'[r] = "send" \/ Known(r)' => restart[r] = "send" \/ Known(r)
        /\ Refused(r) => Refused(r)'
    BY <2>3 DEF Known, Refused
  <2>5. AtBackendPump(n)' => AtBackendPump(n)
    BY DEF AtBackendPump
  <2>6. \A j, k \in 1 .. Len(from_backend') :
          from_backend'[j].request_seq = n /\ from_backend'[k].request_seq = n => j = k
    BY <2>1 DEF Whereabouts
  <2> QED BY <2>1, <2>2, <2>4, <2>5, <2>6, WhereStays
<1> QED BY <1>1, <1>2, <1>3 DEF ContinueInv

(* The IDE receives something that is not about a restart.                 *)
LEMMA RestartsStay ==
  ASSUME TypeInv, asked' = asked, \A r \in Restarts : received'[r] = received[r]
  PROVE  /\ Restarts' = Restarts
         /\ \A r \in Restarts : Succeeded(r)' <=> Succeeded(r)
BY SucceededSame DEF Restarts

LEMMA RestartsType ==
  ASSUME TypeInv
  PROVE  /\ Restarts \subseteq Requests
         /\ \A r \in Requests : r \in Restarts <=> r <= Len(asked) /\ asked[r].command = "restart"
<1>1. DOMAIN asked = 1 .. Len(asked) /\ Len(asked) \in Nat /\ Len(asked) <= MaxRequests
  BY LenProperties DEF TypeInv, IdeType
<1>2. 1 .. Len(asked) \subseteq Requests
  BY <1>1, RequestsAssumption DEF Requests
<1> QED BY <1>1, <1>2, Made DEF Restarts

(* Nothing under way is about a restart.                                   *)
LEMMA RestartByItself ==
  ASSUME TypeInv, Places, NEW r \in Restarts
  PROVE  /\ ~AtBackendPump(r) /\ ~OnItsWayBack(r) /\ ~AtAdapter(r) /\ ~AtClientPump(r)
         /\ AtRestart(r) => received[r] = <<>>
BY RestartsType DEF Places, Place, ByItself, OnePlace, AtIde

LEMMA ContinueInitially == Init => ContinueInv
<1> SUFFICES ASSUME Init PROVE ContinueInv
  OBVIOUS
<1>1. Len(from_backend) = 0 /\ 1 .. Len(from_backend) = {}
  BY EmptySeq DEF Init
<1>2. Origins
  BY <1>1 DEF Init, Origins
<1>3. ASSUME NEW r \in Requests PROVE internal[r] = 0 /\ Numbered(r)
  <2>1. Restarts = {}
    BY DEF Init, Restarts
  <2> QED BY <2>1 DEF Init, Numbered
<1> QED BY <1>2, <1>3 DEF ContinueInv

-----------------------------------------------------------------------------
(* The `continue`s.                                                        *)

LEMMA NothingReceived ==
  ASSUME NEW r, received[r] = <<>>
  PROVE  ~Succeeded(r)
<1>1. <<>> \in Seq({}) /\ Len(<<>>) = 0
  BY EmptySeq
<1>2. DOMAIN <<>> = {}
  BY <1>1, LenProperties
<1> QED BY <1>2 DEF Succeeded

LEMMA AskRestarts ==
  ASSUME TypeInv, NEW command \in Commands, NEW locals \in BOOLEAN, Ask(command, locals)
  PROVE  /\ Restarts' = IF command = "restart" THEN Restarts \cup {seq} ELSE Restarts
         /\ seq \notin Restarts
<1>1. DOMAIN asked = 1 .. Len(asked)
  BY LenProperties DEF TypeInv, IdeType
<1>2. /\ asked' \in Seq(Asked) /\ 1 .. Len(asked') = 1 .. Len(asked) \cup {seq}
      /\ asked'[seq].command = command /\ seq \notin 1 .. Len(asked)
      /\ \A r \in 1 .. Len(asked) : asked'[r] = asked[r]
  BY AskType
<1>3. DOMAIN asked' = 1 .. Len(asked')
  BY <1>2, LenProperties
<1> QED BY <1>1, <1>2, <1>3 DEF Restarts

LEMMA AskContinues ==
  ASSUME IInv, ContinueInv, AskRestart \/ AskVariables \/ AskLaunch \/ AskScopes
  PROVE  ContinueInv'
<1>0. TypeInv /\ Places
  BY DEF IInv
<1>1. PICK command \in Commands, locals \in BOOLEAN :
        /\ Ask(command, locals)
        /\ \/ command = "restart" /\ restart' = [restart EXCEPT ![seq] = "reset"]
              /\ reset' = [reset EXCEPT ![seq] = "started"] /\ next_sequence' = next_sequence
           \/ command # "restart" /\ UNCHANGED <<restart, reset>>
              /\ next_sequence' \in {next_sequence, next_sequence + 1}
  BY DEF AskRestart, AskVariables, AskLaunch, AskScopes, Commands
<1>2. /\ Restarts' = IF command = "restart" THEN Restarts \cup {seq} ELSE Restarts
      /\ seq \notin Restarts /\ seq \in Requests /\ seq > Len(asked)
  BY <1>0, <1>1, AskRestarts, AskType
<1>3. received[seq] = <<>> /\ restart[seq] = "none"
  BY <1>0, <1>2 DEF Places, Place, Nowhere, AtIde, TypeInv, RestartType
<1>4. /\ ~Succeeded(seq) /\ internal[seq] = 0
  BY <1>2, <1>3, NothingReceived DEF ContinueInv, Numbered
<1>5. /\ internal' = internal /\ open' = open /\ leaked' = leaked /\ received' = received
      /\ unanswered' = unanswered /\ from_backend' = from_backend /\ pump_backend' = pump_backend
      /\ internal_requests' = internal_requests
  BY <1>1 DEF Ask, adapterVars
<1>6. next_sequence' \in Nat /\ next_sequence' >= next_sequence
  BY <1>0, <1>1 DEF TypeInv, StateType
<1>7. \A r \in Requests : Succeeded(r)' <=> Succeeded(r)
  BY <1>5, SucceededSame
<1>8. \A r \in Requests :
        /\ \/ restart'[r] = restart[r] /\ internal_requests'[r] = internal_requests[r]
           \/ /\ restart[r] = "none" /\ restart'[r] = "reset"
              /\ internal_requests'[r] = internal_requests[r]
        /\ reset'[r] = reset[r] \/ (r \in Restarts' /\ internal[r] = 0)
        /\ r \in Restarts => r \in Restarts'
        /\ r \in Restarts' => r \in Restarts \/ r = seq
  BY <1>0, <1>1, <1>2, <1>3, <1>4, <1>5 DEF TypeInv, RestartType
<1>9. \A r \in Requests : r \in Restarts' /\ Succeeded(r)' => r \in Restarts /\ Succeeded(r)
  BY <1>4, <1>7, <1>8
<1> QED BY <1>0, <1>5, <1>6, <1>7, <1>8, <1>9, ContinuesStay

(* A step that leaves everything about restarts alone but for their resets. *)
LEMMA AsideContinues ==
  ASSUME IInv, ContinueInv, UNCHANGED <<open, asked, restart, internal, internal_requests>>,
         UNCHANGED <<from_backend, leaked, next_sequence>>,
         \A r \in Requests :
           reset'[r] = reset[r] \/ (reset[r] \in {"started", "halted"} /\ reset'[r] # "none"),
         \A r \in Restarts : received'[r] = received[r],
         \A m \in unanswered' : m \in unanswered \/ m.seq \in Requests,
         pump_backend' \in {pump_backend, Idle}
  PROVE  ContinueInv'
<1>1. TypeInv
  BY DEF IInv
<1>2. /\ Restarts' = Restarts
      /\ \A r \in Restarts : Succeeded(r)' <=> Succeeded(r)
  BY <1>1, RestartsStay
<1>3. next_sequence' \in Nat /\ next_sequence' >= next_sequence
  BY <1>1 DEF TypeInv, StateType
<1> QED BY <1>1, <1>2, <1>3, ContinuesStay

LEMMA ClientPumpContinues == IInv /\ ContinueInv /\ WriteOfClientPump => ContinueInv'
<1> SUFFICES ASSUME IInv, ContinueInv, WriteOfClientPump PROVE ContinueInv'
  OBVIOUS
<1>0. TypeInv /\ Places
  BY DEF IInv
<1>1. /\ UNCHANGED <<open, restart, reset, internal, internal_requests, next_sequence>>
      /\ pump_client # Idle /\ pump_backend' = pump_backend
  BY DEF WriteOfClientPump, stateVars, restartVars
<1>2. ASSUME pump_client.to = "backend", ToBackend(pump_client.message), UNCHANGED ideVars
      PROVE  ContinueInv'
  <2>1. pump_client.message.seq \in Requests
    BY <1>0, <1>1, <1>2, RequestsAssumption, LenProperties
       DEF TypeInv, ClientPumpType, IdeType, Requests
  <2>2. /\ \A m \in unanswered' : m \in unanswered \/ m.seq \in Requests
        /\ UNCHANGED <<asked, received, leaked, from_backend>>
    BY <1>2, <2>1 DEF ToBackend, ideVars
  <2> QED BY <1>1, <2>2, AsideContinues
<1>3. ASSUME pump_client.to = "client", ToClient(pump_client.message), UNCHANGED adapterVars
      PROVE  ContinueInv'
  <2> DEFINE message == pump_client.message
  <2>1. message.request_seq \in Requests
    BY <1>0, <1>1, <1>3, RequestsAssumption, LenProperties
       DEF TypeInv, ClientPumpType, IdeType, Requests
  <2>2. asked' = asked /\ leaked' = leaked
    BY <1>3, <2>1 DEF ToClient
  <2>3. ASSUME NEW r \in Restarts PROVE received'[r] = received[r]
    <3>1. ~AtClientPump(r) /\ r \in Requests
      BY <1>0, <2>3, RestartByItself, RestartsType
    <3>2. message.request_seq # r
      BY <1>1, <1>3, <3>1 DEF AtClientPump
    <3> QED BY <1>0, <1>3, <3>1, <3>2, NotForIde
  <2>4. UNCHANGED <<unanswered, from_backend>>
    BY <1>3 DEF adapterVars
  <2> QED BY <1>1, <2>2, <2>3, <2>4, AsideContinues
<1> QED BY <1>2, <1>3 DEF WriteOfClientPump

LEMMA ResetContinues ==
  IInv /\ ContinueInv /\ (\E r \in Requests : ResetStep(r)) => ContinueInv'
<1> SUFFICES ASSUME IInv, ContinueInv, NEW q \in Requests, ResetStep(q) PROVE ContinueInv'
  OBVIOUS
<1>1. /\ UNCHANGED <<open, asked, restart, internal, internal_requests>>
      /\ UNCHANGED <<from_backend, leaked, next_sequence, received, unanswered, pump_backend>>
  BY DEF ResetStep, ResetBreaks, ResetEnds, ideVars, stateVars
<1>2. ASSUME NEW r \in Requests
      PROVE  reset'[r] = reset[r] \/ (reset[r] \in {"started", "halted"} /\ reset'[r] # "none")
  BY DEF ResetStep, ResetBreaks, ResetEnds, IInv, TypeInv, RestartType
<1> QED BY <1>1, <1>2, AsideContinues

(* The answer that is taken, and those behind it.                          *)
LEMMA TheAnswer ==
  ASSUME TypeInv, Receive
  PROVE  /\ 1 \in 1 .. Len(from_backend) /\ answer = from_backend[1]
         /\ \A k \in 1 .. Len(from_backend') :
              \E j \in 1 .. Len(from_backend) : from_backend'[k] = from_backend[j]
<1>1. /\ Len(from_backend) \in Nat /\ Len(from_backend') = Len(from_backend) - 1
      /\ Len(from_backend) >= 1 /\ answer = from_backend[1]
      /\ \A k \in 1 .. Len(from_backend') : from_backend'[k] = from_backend[k + 1]
  BY ReceiveType
<1>2. \A k \in 1 .. Len(from_backend') : k + 1 \in 1 .. Len(from_backend)
  BY <1>1
<1>3. 1 \in 1 .. Len(from_backend)
  BY <1>1
<1> QED BY <1>1, <1>2, <1>3

(* The answers behind the one that is taken, by the number of a `continue`. *)
LEMMA BehindTheAnswer ==
  ASSUME TypeInv, Receive, NEW n,
         \A j, k \in 1 .. Len(from_backend) :
           from_backend[j].request_seq = n /\ from_backend[k].request_seq = n => j = k
  PROVE  /\ \A k \in 1 .. Len(from_backend') :
              \E j \in 1 .. Len(from_backend) : from_backend'[k] = from_backend[j]
         /\ \A j, k \in 1 .. Len(from_backend') :
              from_backend'[j].request_seq = n /\ from_backend'[k].request_seq = n => j = k
         /\ answer.request_seq = n => OnItsWayBack(n) /\ ~OnItsWayBack(n)'
<1>1. /\ Len(from_backend) \in Nat /\ Len(from_backend') = Len(from_backend) - 1
      /\ Len(from_backend) >= 1 /\ answer = from_backend[1]
      /\ \A k \in 1 .. Len(from_backend') : from_backend'[k] = from_backend[k + 1]
  BY ReceiveType
<1>2. \A k \in 1 .. Len(from_backend') : k + 1 \in 1 .. Len(from_backend) /\ k + 1 # 1 /\ k \in Nat
  BY <1>1
<1>3. 1 \in 1 .. Len(from_backend)
  BY <1>1
<1>4. ASSUME NEW j \in 1 .. Len(from_backend'), NEW k \in 1 .. Len(from_backend'),
             from_backend'[j].request_seq = n, from_backend'[k].request_seq = n
      PROVE  j = k
  <2>1. j + 1 = k + 1
    BY <1>1, <1>2, <1>4
  <2> QED BY <1>2, <2>1
<1>5. answer.request_seq = n => OnItsWayBack(n) /\ ~OnItsWayBack(n)'
  BY <1>1, <1>2, <1>3 DEF OnItsWayBack
<1> QED BY <1>1, <1>2, <1>4, <1>5

LEMMA TakeInternalAnswerContinues == IInv /\ ContinueInv /\ TakeInternalAnswer => ContinueInv'
<1> SUFFICES ASSUME IInv, ContinueInv, TakeInternalAnswer PROVE ContinueInv'
  OBVIOUS
<1>0. TypeInv
  BY DEF IInv
<1>1. PICK q \in Requests :
        /\ IsInternal(q)
        /\ internal_requests' = [internal_requests EXCEPT ![q] =
             IF @ # "waiting" THEN @ ELSE IF answer.success THEN "success" ELSE "failure"]
  BY DEF TakeInternalAnswer
<1>2. /\ Receive /\ UNCHANGED <<open, asked, received, restart, reset, internal, leaked>>
      /\ UNCHANGED <<next_sequence, unanswered, pump_backend>>
  BY DEF TakeInternalAnswer, Receive, ideVars, restartVars
<1>3. Restarts' = Restarts /\ \A r \in Requests : Succeeded(r)' <=> Succeeded(r)
  BY <1>2, SucceededSame DEF Restarts
<1>4. \A n : /\ \A k \in 1 .. Len(from_backend') :
                  \E j \in 1 .. Len(from_backend) : from_backend'[k] = from_backend[j]
  BY <1>0, <1>2, TheAnswer
<1>5. Origins'
  BY <1>2, <1>4, OriginsStay DEF ContinueInv
<1>6. /\ internal_requests[q] # "none" /\ internal_requests'[q] # "none"
      /\ answer.request_seq = internal[q]
      /\ \A r \in Requests \ {q} : internal_requests'[r] = internal_requests[r]
      /\ internal_requests[q] = "waiting" \/ internal_requests'[q] = internal_requests[q]
  BY <1>0, <1>1 DEF IsInternal, TypeInv, RestartType
<1>7. /\ restart[q] \in {"send", "wait"} /\ internal[q] # 0
  BY <1>0, <1>6 DEF ContinueInv, Numbered, TypeInv, RestartType
<1>8. OnItsWayBack(internal[q])
  BY <1>0, <1>2, <1>6, TheAnswer DEF OnItsWayBack
<1>9. internal[q] \in Nat /\ Whereabouts(q, internal[q]) /\ restart[q] = "wait"
  <2>1. internal[q] \in Nat /\ Whereabouts(q, internal[q])
    BY <1>0, <1>7 DEF ContinueInv, TypeInv, RestartType
  <2> QED BY <1>7, <1>8, <2>1 DEF Whereabouts, Absent
<1>10. ASSUME NEW r \in Requests PROVE Numbered(r)'
  <2>1. Numbered(r)
    BY DEF ContinueInv
  <2>2. restart[r] = "send" => internal_requests'[r] = internal_requests[r]
    BY <1>6, <1>9
  <2> QED BY <1>2, <1>3, <2>1, <2>2 DEF Numbered
<1>11. ASSUME NEW r \in Requests, NEW n \in Nat, n # 0, internal[r] = n PROVE Whereabouts(r, n)'
  <2>1. Whereabouts(r, n)
    BY <1>11 DEF ContinueInv
  <2>2. /\ \A j, k \in 1 .. Len(from_backend') :
             from_backend'[j].request_seq = n /\ from_backend'[k].request_seq = n => j = k
        /\ answer.request_seq = n => OnItsWayBack(n) /\ ~OnItsWayBack(n)'
    BY <1>0, <1>2, <2>1, BehindTheAnswer DEF Whereabouts
  <2>3. /\ AtAdapter(n)' <=> AtAdapter(n)
        /\ AtBackendPump(n)' <=> AtBackendPump(n)
        /\ Refused(r)' <=> Refused(r)
    BY <1>2, <1>3 DEF AtAdapter, AtBackendPump, Refused
  <2>4. CASE r # q
    <3>1. restart'[r] = "send" \/ Known(r)' => restart[r] = "send" \/ Known(r)
      BY <1>2, <1>3, <1>6, <2>4 DEF Known
    <3>2. \A k \in 1 .. Len(from_backend') : from_backend'[k].request_seq = n =>
            \E j \in 1 .. Len(from_backend) : from_backend[j].request_seq = n
      BY <1>4
    <3> QED BY <1>2, <2>1, <2>2, <2>3, <3>1, <3>2, WhereStays
  <2>5. CASE r = q
    <3>1. OnItsWayBack(n) /\ ~OnItsWayBack(n)'
      BY <1>6, <1>11, <2>2, <2>5
    <3>2. ~AtAdapter(n) /\ ~AtBackendPump(n) /\ n \notin leaked
      BY <1>9, <2>1, <2>5, <3>1 DEF Whereabouts, Refused
    <3>3. Absent(n)'
      BY <1>2, <2>3, <3>1, <3>2 DEF Absent
    <3>4. ~AtBackendPump(n)' /\ n \notin leaked' /\ ~AtAdapter(n)'
      BY <3>3 DEF Absent
    <3> QED BY <1>2, <2>1, <2>2, <3>3, <3>4 DEF Whereabouts
  <2> QED BY <2>4, <2>5
<1> QED BY <1>2, <1>5, <1>10, <1>11 DEF ContinueInv

LEMMA ForwardAnswerContinues == IInv /\ ContinueInv /\ ForwardAnswer => ContinueInv'
<1> SUFFICES ASSUME IInv, ContinueInv, ForwardAnswer PROVE ContinueInv'
  OBVIOUS
<1>0. TypeInv
  BY DEF IInv
<1> DEFINE message == [answer EXCEPT !.command = Renamed, !.epoch = clears]
<1>1. /\ Receive /\ UNCHANGED <<open, asked, received, restart, reset, internal, leaked>>
      /\ UNCHANGED <<next_sequence, unanswered, internal_requests>> /\ pump_backend = Idle
      /\ pump_backend' = [to |-> "client", message |-> message] /\ open
      /\ \A r \in Requests : ~IsInternal(r)
  BY DEF ForwardAnswer, Receive, ideVars, restartVars
<1>2. /\ answer \in Messages
      /\ \A k \in 1 .. Len(from_backend') :
           \E j \in 1 .. Len(from_backend) : from_backend'[k] = from_backend[j]
  BY <1>0, <1>1, ReceiveType, TheAnswer
<1>3. 1 \in 1 .. Len(from_backend) /\ answer = from_backend[1]
  BY <1>0, <1>1, TheAnswer
<1>4. message.request_seq = answer.request_seq
  BY <1>2 DEF Messages
<1> HIDE DEF message
<1>5. pump_backend'.message = message /\ pump_backend' # Idle
  BY <1>1 DEF Idle
<1>6. Restarts' = Restarts /\ \A r \in Requests : Succeeded(r)' <=> Succeeded(r)
  BY <1>1, SucceededSame DEF Restarts
<1>7. \A n : IsContinue(n)' <=> IsContinue(n)
  BY <1>1 DEF IsContinue
<1>8. Origins'
  <2>1. Origins
    BY DEF ContinueInv
  <2>2. answer.request_seq \in Requests \/ IsContinue(answer.request_seq)
    BY <1>2, <1>3, <2>1 DEF Origins
  <2> QED BY <1>1, <1>2, <1>4, <1>5, <1>7, <2>1, <2>2 DEF Origins
<1>9. ASSUME NEW r \in Requests PROVE Numbered(r)'
  BY <1>1, <1>6 DEF ContinueInv, Numbered
<1>10. ASSUME NEW r \in Requests, NEW n \in Nat, n # 0, internal[r] = n PROVE Whereabouts(r, n)'
  <2>1. Whereabouts(r, n) /\ Numbered(r)
    BY <1>10 DEF ContinueInv
  <2>2. /\ \A j, k \in 1 .. Len(from_backend') :
             from_backend'[j].request_seq = n /\ from_backend'[k].request_seq = n => j = k
        /\ answer.request_seq = n => OnItsWayBack(n) /\ ~OnItsWayBack(n)'
    BY <1>0, <1>1, <2>1, BehindTheAnswer DEF Whereabouts
  <2>3. /\ AtAdapter(n)' <=> AtAdapter(n)
        /\ Refused(r)' <=> Refused(r)
        /\ restart'[r] = "send" \/ Known(r)' => restart[r] = "send" \/ Known(r)
    BY <1>1, <1>6 DEF AtAdapter, Refused, Known
  <2>4. AtBackendPump(n)' <=> answer.request_seq = n
    BY <1>4, <1>5 DEF AtBackendPump
  <2>5. CASE answer.request_seq # n
    <3>1. \A k \in 1 .. Len(from_backend') : from_backend'[k].request_seq = n =>
            \E j \in 1 .. Len(from_backend) : from_backend[j].request_seq = n
      BY <1>2
    <3> QED BY <1>1, <2>1, <2>2, <2>3, <2>4, <2>5, <3>1, WhereStays
  <2>6. CASE answer.request_seq = n
    <3>1. OnItsWayBack(n) /\ ~OnItsWayBack(n)' /\ internal_requests[r] = "none"
      BY <1>1, <1>10, <2>2, <2>6 DEF IsInternal
    <3>2. restart[r] # "send" /\ ~Known(r)
      BY <2>1, <3>1 DEF Whereabouts, Absent
    <3>3. restart[r] \in {"refuse", "done", "cancelled"} /\ ~Succeeded(r)
      BY <1>0, <1>10, <2>1, <3>1, <3>2 DEF TypeInv, RestartType, Numbered, Known
    <3>4. Refused(r)'
      BY <2>3, <3>3 DEF Refused
    <3> QED BY <1>1, <2>1, <2>2, <2>3, <3>1, <3>2, <3>4 DEF Whereabouts
  <2> QED BY <2>5, <2>6
<1> QED BY <1>1, <1>8, <1>9, <1>10 DEF ContinueInv

LEMMA BackendPumpContinues == IInv /\ ContinueInv /\ WriteOfBackendPump => ContinueInv'
<1> SUFFICES ASSUME IInv, ContinueInv, WriteOfBackendPump PROVE ContinueInv'
  OBVIOUS
<1>0. TypeInv /\ Places
  BY DEF IInv
<1> DEFINE message == pump_backend.message
<1>1. /\ UNCHANGED <<open, restart, reset, internal, internal_requests, next_sequence>>
      /\ UNCHANGED <<unanswered, from_backend>> /\ pump_backend # Idle /\ pump_backend' = Idle
      /\ ToClient(message)
  BY DEF WriteOfBackendPump, stateVars, restartVars, adapterVars
<1>2. asked' = asked /\ leaked' \in {leaked, leaked \cup ({message.request_seq} \ {0})}
  BY <1>1 DEF ToClient
<1>3. message.request_seq \in Requests => leaked' = leaked
  BY <1>1 DEF ToClient
<1>4. ASSUME NEW r \in Restarts PROVE received'[r] = received[r]
  <2>1. ~AtBackendPump(r) /\ r \in Requests
    BY <1>0, <1>4, RestartByItself, RestartsType
  <2>2. message.request_seq # r
    BY <1>1, <2>1 DEF AtBackendPump
  <2> QED BY <1>0, <1>1, <2>1, <2>2, NotForIde
<1>5. CASE leaked' = leaked
  BY <1>1, <1>2, <1>4, <1>5, AsideContinues
<1>6. CASE leaked' # leaked
  <2>1. /\ message.request_seq \notin Requests /\ IsContinue(message.request_seq)
        /\ leaked' = leaked \cup {message.request_seq}
    BY <1>1, <1>2, <1>3, <1>6 DEF ContinueInv, Origins, IsContinue
  <2>2. \A n : IsContinue(n)' <=> IsContinue(n)
    BY <1>1 DEF IsContinue
  <2>3. Origins'
    BY <1>1, <2>1, <2>2 DEF ContinueInv, Origins
  <2>4. /\ Restarts' = Restarts
        /\ \A r \in Restarts : Succeeded(r)' <=> Succeeded(r)
    BY <1>0, <1>2, <1>4, RestartsStay
  <2>5. ASSUME NEW r \in Requests PROVE Numbered(r)'
    BY <1>1, <2>4 DEF ContinueInv, Numbered
  <2>6. ASSUME NEW r \in Requests, NEW n \in Nat, n # 0, internal[r] = n PROVE Whereabouts(r, n)'
    <3>1. Whereabouts(r, n) /\ r \in Restarts
      BY <2>6 DEF ContinueInv, Numbered
    <3>2. /\ AtAdapter(n)' <=> AtAdapter(n)
          /\ OnItsWayBack(n)' <=> OnItsWayBack(n)
          /\ Refused(r)' <=> Refused(r)
          /\ Known(r)' <=> Known(r)
          /\ ~AtBackendPump(n)'
      BY <1>1, <2>4, <3>1 DEF AtAdapter, OnItsWayBack, Refused, Known, AtBackendPump
    <3>3. n \in leaked' => n \in leaked \/ AtBackendPump(n)
      BY <1>1, <2>1 DEF AtBackendPump
    <3>4. Absent(n) => Absent(n)'
      BY <3>2, <3>3 DEF Absent
    <3> QED BY <1>1, <3>1, <3>2, <3>3, <3>4 DEF Whereabouts
  <2> QED BY <1>1, <2>3, <2>5, <2>6 DEF ContinueInv
<1> QED BY <1>5, <1>6

LEMMA AdapterStepContinues == IInv /\ ContinueInv /\ AdapterStep => ContinueInv'
<1> SUFFICES ASSUME IInv, ContinueInv, AdapterStep PROVE ContinueInv'
  OBVIOUS
<1>0. TypeInv
  BY DEF IInv
<1>1. PICK request \in unanswered, command \in Commands, success \in BOOLEAN,
           locals \in References \cup {0} :
        /\ Answer(request, command, success, locals)
        /\ running' \in BOOLEAN /\ (command \in {"scopes", ""} => locals \in References)
  BY <1>0, AnAnswer
<1>2. /\ UNCHANGED <<open, asked, received, restart, reset, internal, internal_requests>>
      /\ UNCHANGED <<next_sequence, pump_backend, leaked>>
      /\ unanswered' = unanswered \ {request}
  BY <1>1 DEF Answer, ideVars, stateVars, restartVars
<1>3. /\ Len(from_backend) \in Nat /\ Len(from_backend') = Len(from_backend) + 1
      /\ from_backend'[Len(from_backend) + 1].request_seq = request.seq
      /\ \A k \in 1 .. Len(from_backend) : from_backend'[k] = from_backend[k]
  <2>1. /\ Len(from_backend) \in Nat /\ Len(from_backend') = Len(from_backend) + 1
        /\ from_backend'[Len(from_backend) + 1]
             = Message(request.seq, command, success, locals, 0)
        /\ \A k \in 1 .. Len(from_backend) : from_backend'[k] = from_backend[k]
    BY <1>0, <1>1, AnswerType
  <2>2. Message(request.seq, command, success, locals, 0).request_seq = request.seq
    BY DEF Message
  <2> QED BY <2>1, <2>2
<1>4. 1 .. Len(from_backend') = 1 .. Len(from_backend) \cup {Len(from_backend) + 1}
  BY <1>3
<1>5. \A n : OnItsWayBack(n)' <=> OnItsWayBack(n) \/ request.seq = n
  BY <1>3, <1>4 DEF OnItsWayBack
<1>6. Restarts' = Restarts /\ \A r \in Requests : Succeeded(r)' <=> Succeeded(r)
  BY <1>2, SucceededSame DEF Restarts
<1>7. \A n : IsContinue(n)' <=> IsContinue(n)
  BY <1>2 DEF IsContinue
<1>8. Origins'
  BY <1>2, <1>3, <1>4, <1>7 DEF ContinueInv, Origins
<1>9. ASSUME NEW r \in Requests PROVE Numbered(r)'
  BY <1>2, <1>6 DEF ContinueInv, Numbered
<1>10. ASSUME NEW r \in Requests, NEW n \in Nat, n # 0, internal[r] = n PROVE Whereabouts(r, n)'
  <2>1. Whereabouts(r, n)
    BY <1>10 DEF ContinueInv
  <2>2. /\ AtBackendPump(n)' <=> AtBackendPump(n)
        /\ Refused(r)' <=> Refused(r)
        /\ Known(r)' <=> Known(r)
        /\ AtAdapter(n)' => AtAdapter(n)
    BY <1>2, <1>6 DEF AtBackendPump, AtAdapter, Refused, Known
  <2>3. CASE request.seq # n
    <3>1. \A k \in 1 .. Len(from_backend') : from_backend'[k].request_seq = n =>
            k \in 1 .. Len(from_backend) /\ from_backend'[k] = from_backend[k]
      BY <1>3, <1>4, <2>3
    <3>2. \A j, k \in 1 .. Len(from_backend') :
            from_backend'[j].request_seq = n /\ from_backend'[k].request_seq = n => j = k
      BY <2>1, <3>1 DEF Whereabouts
    <3> QED BY <1>2, <2>1, <2>2, <3>1, <3>2, WhereStays
  <2>4. CASE request.seq = n
    <3>1. AtAdapter(n) /\ ~AtAdapter(n)'
      BY <1>2, <2>1, <2>4 DEF AtAdapter, Whereabouts
    <3>2. restart[r] # "send" /\ ~Known(r) /\ ~OnItsWayBack(n)
      BY <2>1, <3>1 DEF Whereabouts, Absent
    <3>3. \A j, k \in 1 .. Len(from_backend') :
            from_backend'[j].request_seq = n /\ from_backend'[k].request_seq = n => j = k
      BY <1>3, <1>4, <3>2 DEF OnItsWayBack
    <3> QED BY <1>2, <2>1, <2>2, <3>1, <3>2, <3>3 DEF Whereabouts
  <2> QED BY <2>3, <2>4
<1> QED BY <1>2, <1>8, <1>9, <1>10 DEF ContinueInv

(* A restart takes a step that the numbers and messages do not show.       *)
LEMMA RestartContinues ==
  ASSUME IInv, ContinueInv, NEW q \in Requests,
         UNCHANGED <<open, asked, reset, internal, unanswered, from_backend, pump_backend, leaked>>,
         next_sequence' \in Nat, next_sequence' >= next_sequence,
         \A r \in Requests \ {q} : /\ restart'[r] = restart[r] /\ received'[r] = received[r]
                                   /\ internal_requests'[r] = internal_requests[r],
         restart'[q] \in {"respond", "event", "refuse", "done"},
         restart'[q] \in {"respond", "event"} => internal[q] # 0,
         q \in Restarts /\ Succeeded(q)' => internal[q] # 0,
         Known(q)' => Known(q), Refused(q) => Refused(q)'
  PROVE  ContinueInv'
<1>0. TypeInv
  BY DEF IInv
<1>1. Restarts' = Restarts
  BY DEF Restarts
<1>2. \A r \in Requests \ {q} : Succeeded(r)' <=> Succeeded(r)
  BY SucceededSame
<1>3. \A n : IsContinue(n)' <=> IsContinue(n)
  BY DEF IsContinue
<1>4. Origins'
  BY <1>3 DEF ContinueInv, Origins
<1>5. ASSUME NEW r \in Requests PROVE Numbered(r)'
  <2>1. Numbered(r) /\ next_sequence \in Nat /\ internal[r] \in Nat
    BY <1>0 DEF ContinueInv, TypeInv, StateType, RestartType
  <2>2. internal[r] < next_sequence => internal[r] < next_sequence'
    BY <2>1
  <2>3. CASE r = q
    BY <1>1, <2>1, <2>2, <2>3 DEF Numbered
  <2>4. CASE r # q
    BY <1>1, <1>2, <2>1, <2>2, <2>4 DEF Numbered
  <2> QED BY <2>3, <2>4
<1>6. ASSUME NEW r \in Requests, NEW n \in Nat, n # 0, internal[r] = n PROVE Whereabouts(r, n)'
  <2>1. Whereabouts(r, n)
    BY <1>6 DEF ContinueInv
  <2>2. /\ restart'[r] = "send" \/ Known(r)' => restart[r] = "send" \/ Known(r)
        /\ Refused(r) => Refused(r)'
    <3>1. CASE r = q
      BY <3>1
    <3>2. CASE r # q
      BY <1>2, <3>2 DEF Known, Refused
    <3> QED BY <3>1, <3>2
  <2>3. AtBackendPump(n)' => AtBackendPump(n)
    BY DEF AtBackendPump
  <2>4. \A j, k \in 1 .. Len(from_backend') :
          from_backend'[j].request_seq = n /\ from_backend'[k].request_seq = n => j = k
    BY <2>1 DEF Whereabouts
  <2> QED BY <2>1, <2>2, <2>3, <2>4, WhereStays
<1> QED BY <1>4, <1>5, <1>6 DEF ContinueInv

LEMMA QuietContinues ==
  IInv /\ ContinueInv
    /\ (\E r \in Requests : AfterFailedReset(r) \/ ContinueAnswered(r) \/ ContinueTimesOut(r))
  => ContinueInv'
<1> SUFFICES ASSUME IInv, ContinueInv, NEW q \in Requests,
                    AfterFailedReset(q) \/ ContinueAnswered(q) \/ ContinueTimesOut(q)
             PROVE  ContinueInv'
  OBVIOUS
<1>0. TypeInv
  BY DEF IInv
<1>1. /\ UNCHANGED <<open, asked, reset, internal, unanswered, from_backend, pump_backend, leaked>>
      /\ next_sequence' = next_sequence /\ received' = received
  BY DEF AfterFailedReset, ContinueAnswered, ContinueTimesOut, EndOfRequest, Step, adapterVars
<1>2. /\ \A r \in Requests \ {q} : /\ restart'[r] = restart[r]
                                   /\ internal_requests'[r] = internal_requests[r]
      /\ \/ restart[q] = "wait" /\ restart'[q] = "respond" /\ internal_requests[q] = "success"
            /\ internal_requests'[q] = "none"
         \/ restart[q] \in {"wait", "reset"} /\ restart'[q] = "refuse"
            /\ internal_requests'[q] \in {"none", internal_requests[q]}
  BY <1>0 DEF AfterFailedReset, ContinueAnswered, ContinueTimesOut, EndOfRequest, Step,
              TypeInv, RestartType
<1>3. Succeeded(q)' <=> Succeeded(q)
  BY <1>1, SucceededSame
<1>4. next_sequence' \in Nat /\ next_sequence' >= next_sequence
  BY <1>0, <1>1 DEF TypeInv, StateType
<1>5. Known(q)' => Known(q)
  BY <1>2, <1>3 DEF Known
<1>6. Refused(q) => Refused(q)'
  BY <1>2, <1>3 DEF Refused
<1>7. /\ restart'[q] \in {"respond", "event"} => internal[q] # 0
      /\ q \in Restarts /\ Succeeded(q)' => internal[q] # 0
  BY <1>2, <1>3 DEF ContinueInv, Numbered
<1> QED BY <1>1, <1>2, <1>4, <1>5, <1>6, <1>7, RestartContinues

(* What the IDE is told of a restart.                                      *)
LEMMA ToldOfRestart ==
  ASSUME TypeInv, NEW q \in Requests, NEW success \in BOOLEAN, received[q] = <<>>,
         ToClient(Response(q, "restart", success))
  PROVE  /\ Succeeded(q)' <=> success
         /\ leaked' = leaked
         /\ \A r \in Requests \ {q} : received'[r] = received[r]
<1>1. /\ Response(q, "restart", success).request_seq = q
      /\ Response(q, "restart", success).command = "restart"
      /\ Response(q, "restart", success).success = success
  BY DEF Response, Message
<1> DEFINE answered == [command |-> "restart", success |-> success]
<1>2. /\ received'[q] = Append(<<>>, answered)
      /\ leaked' = leaked
      /\ \A r \in Requests \ {q} : received'[r] = received[r]
  BY <1>1 DEF ToClient, TypeInv, IdeType
<1>3. Len(Append(<<>>, answered)) = 1 /\ Append(<<>>, answered)[1] = answered
  BY AppendFirst
<1>4. DOMAIN Append(<<>>, answered) = {1}
  <2>1. <<>> \in Seq({answered})
    BY EmptySeq
  <2>2. Append(<<>>, answered) \in Seq({answered})
    BY <2>1, AppendProperties
  <2> QED BY <1>3, <2>2, LenProperties
<1>5. Succeeded(q)' <=> success
  BY <1>2, <1>3, <1>4 DEF Succeeded
<1> QED BY <1>2, <1>5

LEMMA TellingContinues ==
  IInv /\ ContinueInv /\ (\E r \in Requests : Respond(r) \/ SendContinued(r) \/ Refuse(r))
  => ContinueInv'
<1> SUFFICES ASSUME IInv, ContinueInv, NEW q \in Requests,
                    Respond(q) \/ SendContinued(q) \/ Refuse(q)
             PROVE  ContinueInv'
  OBVIOUS
<1>0. TypeInv /\ Numbered(q)
  BY DEF IInv, ContinueInv
<1>1. /\ UNCHANGED <<open, asked, reset, internal, unanswered, from_backend, pump_backend>>
      /\ internal_requests' = internal_requests
      /\ next_sequence' \in {next_sequence, next_sequence + 1, next_sequence + 2}
  BY DEF Respond, SendContinued, Refuse, Step, adapterVars
<1>2. next_sequence' \in Nat /\ next_sequence' >= next_sequence
  BY <1>0, <1>1 DEF TypeInv, StateType
<1>3. \A r \in Requests \ {q} : restart'[r] = restart[r]
  BY <1>0 DEF Respond, SendContinued, Refuse, Step, TypeInv, RestartType
<1>4. restart[q] \in {"respond", "refuse"} => received[q] = <<>>
  BY DEF IInv, Places, Place, OnePlace, AtIde, AtRestart
<1>5. CASE Respond(q)
  <2>1. /\ restart[q] = "respond" /\ restart'[q] = "event"
        /\ ToClient(Response(q, "restart", TRUE))
    BY <1>0, <1>5 DEF Respond, Step, TypeInv, RestartType
  <2>2. leaked' = leaked /\ \A r \in Requests \ {q} : received'[r] = received[r]
    BY <1>0, <1>4, <2>1, ToldOfRestart
  <2>3. internal[q] # 0 /\ Known(q) /\ ~Refused(q)
    BY <1>0, <2>1 DEF Numbered, Known, Refused
  <2> QED BY <1>1, <1>2, <1>3, <2>1, <2>2, <2>3, RestartContinues
<1>6. CASE SendContinued(q)
  <2>1. /\ restart[q] = "event" /\ restart'[q] = "done" /\ ToClient(Continued)
    BY <1>0, <1>6 DEF SendContinued, Step, TypeInv, RestartType
  <2>2. Continued.request_seq = 0 /\ 0 \notin Requests
    BY DEF Continued, Response, Message, Requests
  <2>3. leaked' = leaked /\ received' = received
    BY <2>1, <2>2 DEF ToClient
  <2>4. internal[q] # 0 /\ Known(q) /\ ~Refused(q)
    BY <1>0, <2>1 DEF Numbered, Known, Refused
  <2> QED BY <1>1, <1>2, <1>3, <2>1, <2>3, <2>4, RestartContinues
<1>7. CASE Refuse(q)
  <2>1. /\ restart[q] = "refuse" /\ restart'[q] = "done"
        /\ ToClient(Response(q, "restart", FALSE))
    BY <1>0, <1>7 DEF Refuse, Step, TypeInv, RestartType
  <2>2. /\ leaked' = leaked /\ \A r \in Requests \ {q} : received'[r] = received[r]
        /\ ~Succeeded(q)'
    BY <1>0, <1>4, <2>1, ToldOfRestart
  <2>3. (Known(q)' => Known(q)) /\ Refused(q)'
    BY <1>1, <2>1, <2>2 DEF Known, Refused
  <2> QED BY <1>1, <1>2, <1>3, <2>1, <2>2, <2>3, RestartContinues
<1> QED BY <1>5, <1>6, <1>7

LEMMA EndSessionContinues == IInv /\ ContinueInv /\ EndSession => ContinueInv'
<1> SUFFICES ASSUME IInv, ContinueInv, EndSession PROVE ContinueInv'
  OBVIOUS
<1>1. /\ UNCHANGED <<asked, received, reset, internal, unanswered, from_backend, leaked>>
      /\ next_sequence' = next_sequence /\ open' = FALSE /\ pump_backend' = Idle
  BY DEF EndSession, ideVars, adapterVars
<1>2. ASSUME NEW r \in Requests
      PROVE  /\ restart'[r] \in {"none", "done", "cancelled"}
             /\ restart'[r] = "none" => restart[r] = "none"
             /\ restart[r] \in {"refuse", "done", "cancelled"} =>
                  restart'[r] \in {"done", "cancelled"}
             /\ internal_requests'[r] = "none"
  BY DEF EndSession
<1>3. Restarts' = Restarts /\ \A r \in Requests : Succeeded(r)' <=> Succeeded(r)
  BY <1>1, SucceededSame DEF Restarts
<1>4. Origins'
  BY <1>1, OriginsStay DEF ContinueInv
<1>5. ASSUME NEW r \in Requests PROVE Numbered(r)'
  BY <1>1, <1>2, <1>3 DEF ContinueInv, Numbered
<1>6. ASSUME NEW r \in Requests, NEW n \in Nat, n # 0, internal[r] = n PROVE Whereabouts(r, n)'
  <2>1. Whereabouts(r, n)
    BY <1>6 DEF ContinueInv
  <2>2. /\ restart'[r] # "send" /\ (Known(r)' => Known(r))
        /\ Refused(r) => Refused(r)'
        /\ ~AtBackendPump(n)'
    BY <1>1, <1>2, <1>3 DEF Known, Refused, AtBackendPump
  <2>3. \A j, k \in 1 .. Len(from_backend') :
          from_backend'[j].request_seq = n /\ from_backend'[k].request_seq = n => j = k
    BY <1>1, <2>1 DEF Whereabouts
  <2> QED BY <1>1, <2>1, <2>2, <2>3, WhereStays
<1> QED BY <1>1, <1>4, <1>5, <1>6 DEF ContinueInv

LEMMA SendContinueContinues ==
  IInv /\ ContinueInv /\ (\E r \in Requests : SendContinue(r)) => ContinueInv'
<1> SUFFICES ASSUME IInv, ContinueInv, NEW q \in Requests, SendContinue(q) PROVE ContinueInv'
  OBVIOUS
<1>0. TypeInv /\ Numbered(q)
  BY DEF IInv, ContinueInv
<1> DEFINE message == [seq |-> internal[q], command |-> "continue"]
<1>1. /\ UNCHANGED <<open, asked, received, reset, internal, internal_requests, leaked>>
      /\ UNCHANGED <<next_sequence, from_backend, pump_backend>>
      /\ unanswered' = unanswered \cup {message}
  BY DEF SendContinue, Step, ToBackend
<1>2. /\ restart[q] = "send" /\ restart'[q] = "wait"
      /\ \A r \in Requests \ {q} : restart'[r] = restart[r]
  BY <1>0 DEF SendContinue, Step, TypeInv, RestartType
<1>3. /\ internal[q] # 0 /\ internal_requests[q] = "waiting" /\ ~Succeeded(q)
  <2>1. received[q] = <<>>
    BY <1>2 DEF IInv, Places, Place, OnePlace, AtIde, AtRestart
  <2> QED BY <1>0, <1>2, <2>1, NothingReceived DEF Numbered
<1>4. Restarts' = Restarts /\ \A r \in Requests : Succeeded(r)' <=> Succeeded(r)
  BY <1>1, SucceededSame DEF Restarts
<1>5. \A n : IsContinue(n)' <=> IsContinue(n)
  BY <1>1 DEF IsContinue
<1>6. Origins'
  <2>1. IsContinue(message.seq)
    BY <1>3 DEF IsContinue
  <2> QED BY <1>1, <1>5, <2>1 DEF ContinueInv, Origins
<1>7. ASSUME NEW r \in Requests PROVE Numbered(r)'
  BY <1>1, <1>2, <1>3, <1>4 DEF ContinueInv, Numbered
<1>8. ASSUME NEW r \in Requests, NEW n \in Nat, n # 0, internal[r] = n PROVE Whereabouts(r, n)'
  <2>1. Whereabouts(r, n) /\ Numbered(r)
    BY <1>8 DEF ContinueInv
  <2>2. AtBackendPump(n)' <=> AtBackendPump(n)
    BY <1>1 DEF AtBackendPump
  <2>3. \A j, k \in 1 .. Len(from_backend') :
          from_backend'[j].request_seq = n /\ from_backend'[k].request_seq = n => j = k
    BY <1>1, <2>1 DEF Whereabouts
  <2>4. CASE r # q
    <3>1. internal[q] # n
      BY <1>8, <2>1, <2>4 DEF Numbered
    <3>2. \A m \in unanswered' : m.seq = n => m \in unanswered
      BY <1>1, <3>1
    <3>3. /\ restart'[r] = "send" \/ Known(r)' => restart[r] = "send" \/ Known(r)
          /\ Refused(r) => Refused(r)'
      BY <1>1, <1>2, <1>4, <2>4 DEF Known, Refused
    <3> QED BY <1>1, <2>1, <2>2, <2>3, <3>2, <3>3, WhereStays
  <2>5. CASE r = q
    <3>1. Absent(n)
      BY <1>2, <2>1, <2>5 DEF Whereabouts
    <3>2. \A m \in unanswered : m.seq # n
      BY <3>1 DEF Absent, AtAdapter
    <3>3. ~OnItsWayBack(n)' /\ ~AtBackendPump(n)' /\ n \notin leaked'
      BY <1>1, <2>2, <3>1 DEF Absent, OnItsWayBack
    <3>4. restart'[r] # "send" /\ ~Known(r)'
      BY <1>1, <1>2, <1>3, <1>4, <2>5 DEF Known
    <3>5. \A m \in unanswered' : m.seq = n => m = message
      BY <1>1, <3>2
    <3> QED BY <2>3, <3>3, <3>4, <3>5 DEF Whereabouts
  <2> QED BY <2>4, <2>5
<1> QED BY <1>1, <1>6, <1>7, <1>8 DEF ContinueInv

(* A number that was not given yet is nowhere.                             *)
LEMMA NewNumber ==
  ASSUME IInv, ContinueInv
  PROVE  /\ next_sequence \in Nat /\ next_sequence # 0 /\ next_sequence \notin Requests
         /\ \A r \in Requests : internal[r] # next_sequence
         /\ Absent(next_sequence)
<1>1. /\ next_sequence \in Nat /\ next_sequence # 0 /\ next_sequence \notin Requests
  BY RequestsAssumption DEF IInv, TypeInv, StateType, Requests
<1>2. \A r \in Requests : internal[r] # next_sequence
  <2> SUFFICES ASSUME NEW r \in Requests PROVE internal[r] # next_sequence
    OBVIOUS
  <2>1. internal[r] \in Nat /\ (internal[r] # 0 => internal[r] < next_sequence)
    BY DEF ContinueInv, Numbered, IInv, TypeInv, RestartType
  <2> QED BY <1>1, <2>1
<1>3. ~IsContinue(next_sequence)
  BY <1>2 DEF IsContinue
<1>4. Absent(next_sequence)
  BY <1>1, <1>3 DEF ContinueInv, Origins, Absent, AtAdapter, OnItsWayBack, AtBackendPump
<1> QED BY <1>1, <1>2, <1>4

LEMMA AfterResetContinues ==
  IInv /\ ContinueInv /\ (\E r \in Requests : AfterReset(r)) => ContinueInv'
<1> SUFFICES ASSUME IInv, ContinueInv, NEW q \in Requests, AfterReset(q) PROVE ContinueInv'
  OBVIOUS
<1>0. TypeInv /\ Numbered(q)
  BY DEF IInv, ContinueInv
<1>1. /\ UNCHANGED <<open, asked, received, reset, leaked>>
      /\ UNCHANGED <<unanswered, from_backend, pump_backend>>
      /\ next_sequence' = next_sequence + 1 /\ reset[q] = "up"
  BY DEF AfterReset, Step, adapterVars
<1>2. /\ restart[q] = "reset" /\ restart'[q] = "send"
      /\ \A r \in Requests \ {q} : restart'[r] = restart[r]
      /\ internal'[q] = next_sequence
      /\ \A r \in Requests \ {q} : internal'[r] = internal[r]
      /\ internal_requests'[q] = "waiting"
      /\ \A r \in Requests \ {q} : internal_requests'[r] = internal_requests[r]
  BY <1>0 DEF AfterReset, Step, TypeInv, RestartType
<1>3. /\ internal[q] = 0 /\ q \in Restarts
  BY <1>0, <1>1, <1>2 DEF Numbered
<1>4. Restarts' = Restarts /\ \A r \in Requests : Succeeded(r)' <=> Succeeded(r)
  BY <1>1, SucceededSame DEF Restarts
<1>5. \A n : IsContinue(n) => IsContinue(n)'
  <2> SUFFICES ASSUME NEW n, IsContinue(n) PROVE IsContinue(n)'
    OBVIOUS
  <2>1. PICK r \in Requests : n # 0 /\ internal[r] = n
    BY DEF IsContinue
  <2>2. internal'[r] = n
    BY <1>2, <1>3, <2>1
  <2> QED BY <2>1, <2>2 DEF IsContinue
<1>6. Origins'
  BY <1>1, <1>5 DEF ContinueInv, Origins
<1>7. /\ next_sequence \in Nat /\ next_sequence # 0
      /\ \A r \in Requests : internal[r] # next_sequence
      /\ Absent(next_sequence)
  BY NewNumber
<1>8. ASSUME NEW r \in Requests PROVE Numbered(r)'
  <2>1. Numbered(r) /\ internal[r] \in Nat
    BY <1>0 DEF ContinueInv, TypeInv, RestartType
  <2>2. CASE r = q
    <3>1. internal'[r] # 0 /\ internal'[r] < next_sequence'
      BY <1>1, <1>2, <1>7, <2>2
    <3>2. \A p \in Requests : internal'[p] = internal'[r] => p = r
      BY <1>2, <1>7, <2>2
    <3> QED BY <1>1, <1>2, <1>3, <1>4, <2>2, <3>1, <3>2 DEF Numbered
  <2>3. CASE r # q
    <3>1. internal[r] < next_sequence => internal[r] < next_sequence'
      BY <1>1, <1>7, <2>1
    <3>2. \A p \in Requests : internal'[r] # 0 /\ internal'[p] = internal'[r] => p = r
      <4> SUFFICES ASSUME NEW p \in Requests, internal'[r] # 0, internal'[p] = internal'[r]
                   PROVE  p = r
        OBVIOUS
      <4>1. internal'[r] = internal[r] /\ internal[r] # next_sequence
        BY <1>2, <1>7, <2>3
      <4>2. p # q /\ internal'[p] = internal[p]
        BY <1>2, <4>1
      <4> QED BY <2>1, <4>1, <4>2 DEF Numbered
    <3> QED BY <1>1, <1>2, <1>4, <2>1, <2>3, <3>1, <3>2 DEF Numbered
  <2> QED BY <2>2, <2>3
<1>9. ASSUME NEW r \in Requests, NEW n \in Nat, n # 0, internal'[r] = n PROVE Whereabouts(r, n)'
  <2>1. /\ AtAdapter(n)' <=> AtAdapter(n)
        /\ OnItsWayBack(n)' <=> OnItsWayBack(n)
        /\ AtBackendPump(n)' <=> AtBackendPump(n)
    BY <1>1 DEF AtAdapter, OnItsWayBack, AtBackendPump
  <2>2. CASE r = q
    <3>1. Absent(n)
      BY <1>2, <1>7, <1>9, <2>2
    <3>2. Absent(n)'
      BY <1>1, <2>1, <3>1 DEF Absent
    <3>3. /\ \A m \in unanswered' : m.seq # n
          /\ \A k \in 1 .. Len(from_backend') : from_backend'[k].request_seq # n
      BY <3>2 DEF Absent, AtAdapter, OnItsWayBack
    <3> QED BY <3>2, <3>3 DEF Whereabouts, Absent
  <2>3. CASE r # q
    <3>1. Whereabouts(r, n)
      BY <1>2, <1>9, <2>3 DEF ContinueInv
    <3>2. /\ restart'[r] = "send" \/ Known(r)' => restart[r] = "send" \/ Known(r)
          /\ Refused(r) => Refused(r)'
      BY <1>2, <1>4, <2>3 DEF Known, Refused
    <3>3. \A j, k \in 1 .. Len(from_backend') :
            from_backend'[j].request_seq = n /\ from_backend'[k].request_seq = n => j = k
      BY <1>1, <3>1 DEF Whereabouts
    <3> QED BY <1>1, <2>1, <3>1, <3>2, <3>3, WhereStays
  <2> QED BY <2>2, <2>3
<1> QED BY <1>6, <1>8, <1>9 DEF ContinueInv

LEMMA ContinueStep == IInv /\ ContinueInv /\ [Next]_vars => ContinueInv'
<1> SUFFICES ASSUME IInv, ContinueInv, [Next]_vars PROVE ContinueInv'
  OBVIOUS
<1>1. CASE ListensOrNot \/ UNCHANGED vars
  <2>1. /\ UNCHANGED <<open, asked, received, restart, internal, internal_requests, from_backend>>
        /\ UNCHANGED <<leaked, next_sequence, reset, unanswered, pump_backend>>
    BY <1>1, StillSteps DEF Still, ideVars, stateVars, restartVars
  <2> QED BY <2>1, AsideContinues
<1>2. CASE Next
  BY <1>1, <1>2, Steps, AskContinues, ClientPumpContinues, BackendPumpContinues,
     TakeInternalAnswerContinues, ForwardAnswerContinues, AfterResetContinues,
     SendContinueContinues, QuietContinues, TellingContinues, ResetContinues,
     AdapterStepContinues, EndSessionContinues
<1> QED BY <1>1, <1>2

-----------------------------------------------------------------------------
(* The target.                                                             *)

LEMMA RunStays ==
  ASSUME RunInv, running' = running, Restarts \subseteq Restarts',
         \A r \in Restarts' :
           internal'[r] # 0 /\ Continues(r)' => r \in Restarts /\ internal[r] # 0 /\ Continues(r)
  PROVE  RunInv'
BY DEF RunInv

(* What continues a restart after the step continued it before.            *)
LEMMA ContinuedBefore ==
  ASSUME NEW r, internal'[r] = internal[r],
         \A k \in 1 .. Len(from_backend') :
           \E j \in 1 .. Len(from_backend) : from_backend'[k] = from_backend[j],
         internal_requests'[r] = "success" => Continues(r),
         restart'[r] \in {"respond", "event"} => Continues(r),
         Succeeded(r)' => Continues(r)
  PROVE  Continues(r)' => Continues(r)
BY DEF Continues

LEMMA TheSameContinues ==
  ASSUME NEW r, internal'[r] = internal[r], from_backend' = from_backend,
         internal_requests'[r] = internal_requests[r], restart'[r] = restart[r],
         Succeeded(r)' <=> Succeeded(r)
  PROVE  Continues(r)' <=> Continues(r)
BY DEF Continues

LEMMA AskRuns ==
  ASSUME IInv, ContinueInv, RunInv, AskRestart \/ AskVariables \/ AskLaunch \/ AskScopes
  PROVE  RunInv'
<1>0. TypeInv
  BY DEF IInv
<1>1. PICK command \in Commands, locals \in BOOLEAN :
        /\ Ask(command, locals)
        /\ \/ command = "restart" /\ restart' = [restart EXCEPT ![seq] = "reset"]
           \/ command # "restart" /\ UNCHANGED restart
  BY DEF AskRestart, AskVariables, AskLaunch, AskScopes, Commands
<1>2. /\ Restarts' = IF command = "restart" THEN Restarts \cup {seq} ELSE Restarts
      /\ seq \notin Restarts /\ seq \in Requests /\ seq > Len(asked)
  BY <1>0, <1>1, AskRestarts, AskType
<1>3. restart[seq] = "none" /\ internal[seq] = 0
  BY <1>0, <1>2 DEF ContinueInv, Numbered, TypeInv, RestartType
<1>4. /\ UNCHANGED <<internal, received, internal_requests, from_backend, running>>
  BY <1>1 DEF Ask, adapterVars
<1>5. ASSUME NEW r \in Restarts', internal'[r] # 0, Continues(r)'
      PROVE  r \in Restarts /\ internal[r] # 0 /\ Continues(r)
  <2>1. r \in Restarts /\ r # seq /\ r \in Requests
    BY <1>0, <1>2, <1>3, <1>4, <1>5, RestartsType
  <2>2. restart'[r] = restart[r]
    BY <1>0, <1>1, <1>2, <2>1 DEF TypeInv, RestartType
  <2> QED BY <1>4, <1>5, <2>1, <2>2, SucceededSame, TheSameContinues
<1> QED BY <1>2, <1>4, <1>5, RunStays

(* A step that shows of the restarts only what they knew.                  *)
LEMMA AsideRuns ==
  ASSUME IInv, RunInv, UNCHANGED <<asked, internal, running>>,
         \A k \in 1 .. Len(from_backend') :
           \E j \in 1 .. Len(from_backend) : from_backend'[k] = from_backend[j],
         \A r \in Restarts :
           /\ internal_requests'[r] = "success" => Continues(r)
           /\ restart'[r] \in {"respond", "event"} => Continues(r)
           /\ Succeeded(r)' => Continues(r)
  PROVE  RunInv'
<1>1. Restarts' = Restarts
  BY DEF Restarts
<1> QED BY <1>1, ContinuedBefore, RunStays

LEMMA PumpWritesRun ==
  IInv /\ RunInv /\ (WriteOfClientPump \/ WriteOfBackendPump) => RunInv'
<1> SUFFICES ASSUME IInv, RunInv, WriteOfClientPump \/ WriteOfBackendPump PROVE RunInv'
  OBVIOUS
<1>0. TypeInv /\ Places
  BY DEF IInv
<1>1. /\ UNCHANGED <<asked, internal, internal_requests, restart, running, from_backend>>
  BY DEF WriteOfClientPump, WriteOfBackendPump, ToClient, ToBackend, stateVars, restartVars,
         adapterVars, ideVars
<1>2. ASSUME NEW r \in Restarts PROVE received'[r] = received[r]
  <2>1. r \in Requests /\ ~AtClientPump(r) /\ ~AtBackendPump(r)
    BY <1>0, <1>2, RestartByItself, RestartsType
  <2>2. CASE WriteOfClientPump
    <3>1. CASE received' = received
      BY <3>1
    <3>2. CASE pump_client # Idle /\ pump_client.to = "client" /\ ToClient(pump_client.message)
      BY <1>0, <2>1, <3>2, NotForIde DEF AtClientPump
    <3> QED BY <2>2, <3>1, <3>2 DEF WriteOfClientPump, ideVars
  <2>3. CASE WriteOfBackendPump
    BY <1>0, <2>1, <2>3, NotForIde DEF WriteOfBackendPump, AtBackendPump
  <2> QED BY <2>2, <2>3
<1> QED BY <1>1, <1>2, SucceededSame, AsideRuns DEF Continues

LEMMA ReceiveRuns == IInv /\ RunInv /\ (TakeInternalAnswer \/ ForwardAnswer) => RunInv'
<1> SUFFICES ASSUME IInv, RunInv, TakeInternalAnswer \/ ForwardAnswer PROVE RunInv'
  OBVIOUS
<1>0. TypeInv
  BY DEF IInv
<1>1. /\ Receive /\ UNCHANGED <<asked, internal, running, restart, received>>
  BY DEF TakeInternalAnswer, ForwardAnswer, Receive, ideVars, restartVars
<1>2. /\ 1 \in 1 .. Len(from_backend) /\ answer = from_backend[1]
      /\ \A k \in 1 .. Len(from_backend') :
           \E j \in 1 .. Len(from_backend) : from_backend'[k] = from_backend[j]
  BY <1>0, <1>1, TheAnswer
<1>3. ASSUME NEW r \in Restarts, internal_requests'[r] = "success" PROVE Continues(r)
  <2>1. CASE internal_requests[r] = "success"
    BY <2>1 DEF Continues
  <2>2. CASE internal_requests[r] # "success"
    <3>1. TakeInternalAnswer
      BY <1>3, <2>2 DEF ForwardAnswer
    <3>2. PICK q \in Requests :
            /\ IsInternal(q)
            /\ internal_requests' = [internal_requests EXCEPT ![q] =
                 IF @ # "waiting" THEN @ ELSE IF answer.success THEN "success" ELSE "failure"]
      BY <3>1 DEF TakeInternalAnswer
    <3>3. r = q /\ answer.success
      BY <1>0, <1>3, <2>2, <3>2, RestartsType DEF TypeInv, RestartType
    <3>4. answer.request_seq = internal[r]
      BY <3>2, <3>3 DEF IsInternal
    <3> QED BY <1>2, <3>3, <3>4 DEF Continues
  <2> QED BY <2>1, <2>2
<1>4. \A r : Succeeded(r)' <=> Succeeded(r)
  BY <1>1, SucceededSame
<1>5. ASSUME NEW r \in Restarts
      PROVE  /\ restart'[r] \in {"respond", "event"} => Continues(r)
             /\ Succeeded(r)' => Continues(r)
  BY <1>1, <1>4 DEF Continues
<1> QED BY <1>1, <1>2, <1>3, <1>5, AsideRuns

LEMMA AfterResetRuns ==
  IInv /\ ContinueInv /\ RunInv /\ (\E r \in Requests : AfterReset(r)) => RunInv'
<1> SUFFICES ASSUME IInv, ContinueInv, RunInv, NEW q \in Requests, AfterReset(q) PROVE RunInv'
  OBVIOUS
<1>0. TypeInv
  BY DEF IInv
<1>1. /\ UNCHANGED <<asked, received, from_backend, running>>
  BY DEF AfterReset, Step, adapterVars
<1>2. /\ restart[q] = "reset" /\ restart'[q] = "send"
      /\ internal'[q] = next_sequence /\ internal_requests'[q] = "waiting"
      /\ \A r \in Requests \ {q} : /\ restart'[r] = restart[r] /\ internal'[r] = internal[r]
                                   /\ internal_requests'[r] = internal_requests[r]
  BY <1>0 DEF AfterReset, Step, TypeInv, RestartType
<1>3. Restarts' = Restarts /\ Restarts \subseteq Requests
  BY <1>0, <1>1, RestartsType DEF Restarts
<1>4. ~Succeeded(q)
  <2>1. received[q] = <<>>
    BY <1>2 DEF IInv, Places, Place, OnePlace, AtIde, AtRestart
  <2> QED BY <2>1, NothingReceived
<1>5. \A k \in 1 .. Len(from_backend) : from_backend[k].request_seq # next_sequence
  BY NewNumber DEF Absent, OnItsWayBack
<1>6. \A r : Succeeded(r)' <=> Succeeded(r)
  BY <1>1, SucceededSame
<1>7. ~Continues(q)'
  BY <1>1, <1>2, <1>4, <1>5, <1>6 DEF Continues
<1>8. \A r \in Restarts \ {q} : Continues(r)' <=> Continues(r)
  BY <1>1, <1>2, <1>3, <1>6, TheSameContinues
<1> QED BY <1>1, <1>2, <1>3, <1>7, <1>8, RunStays

LEMMA RestartRuns ==
  IInv /\ RunInv
    /\ (\E r \in Requests : SendContinue(r) \/ AfterFailedReset(r) \/ ContinueAnswered(r)
                            \/ ContinueTimesOut(r)) => RunInv'
<1> SUFFICES ASSUME IInv, RunInv, NEW q \in Requests,
                    \/ SendContinue(q) \/ AfterFailedReset(q) \/ ContinueAnswered(q)
                    \/ ContinueTimesOut(q)
             PROVE  RunInv'
  OBVIOUS
<1>0. TypeInv
  BY DEF IInv
<1>1. UNCHANGED <<asked, internal, received, from_backend, running>>
  BY DEF SendContinue, AfterFailedReset, ContinueAnswered, ContinueTimesOut, EndOfRequest, Step,
         ToBackend, adapterVars
<1>2. \A r \in Requests :
        /\ internal_requests'[r] \in {internal_requests[r], "none"}
        /\ \/ restart'[r] = restart[r]
           \/ restart'[r] \in {"wait", "refuse"}
           \/ restart'[r] = "respond" /\ internal_requests[r] = "success"
  BY <1>0 DEF SendContinue, AfterFailedReset, ContinueAnswered, ContinueTimesOut, EndOfRequest,
              Step, TypeInv, RestartType
<1>3. \A r : Succeeded(r)' <=> Succeeded(r)
  BY <1>1, SucceededSame
<1>4. ASSUME NEW r \in Restarts
      PROVE  /\ internal_requests'[r] = "success" => Continues(r)
             /\ restart'[r] \in {"respond", "event"} => Continues(r)
             /\ Succeeded(r)' => Continues(r)
  BY <1>0, <1>2, <1>3, RestartsType DEF Continues
<1> QED BY <1>1, <1>4, AsideRuns

LEMMA TellingRuns ==
  IInv /\ RunInv /\ (\E r \in Requests : Respond(r) \/ SendContinued(r) \/ Refuse(r)) => RunInv'
<1> SUFFICES ASSUME IInv, RunInv, NEW q \in Requests,
                    Respond(q) \/ SendContinued(q) \/ Refuse(q)
             PROVE  RunInv'
  OBVIOUS
<1>0. TypeInv
  BY DEF IInv
<1>1. UNCHANGED <<asked, internal, internal_requests, from_backend, running>>
  BY DEF Respond, SendContinued, Refuse, Step, adapterVars
<1>2. /\ restart[q] \in {"respond", "event"} \/ Refuse(q)
      /\ \A r \in Requests \ {q} : restart'[r] = restart[r]
      /\ restart'[q] \in {"respond", "event"} => restart[q] = "respond"
      /\ restart[q] \in {"respond", "refuse"} => received[q] = <<>>
  BY ZenonT(30), <1>0
  DEF Respond, SendContinued, Refuse, Step, TypeInv, RestartType, IInv, Places, Place,
              OnePlace, AtIde, AtRestart
<1>3. \A r \in Requests \ {q} : received'[r] = received[r]
  <2>1. CASE SendContinued(q)
    <3>1. Continued.request_seq = 0 /\ 0 \notin Requests
      BY DEF Continued, Response, Message, Requests
    <3> QED BY <2>1, <3>1 DEF SendContinued, ToClient
  <2>2. ASSUME NEW success \in BOOLEAN, received[q] = <<>>,
               ToClient(Response(q, "restart", success))
        PROVE  \A r \in Requests \ {q} : received'[r] = received[r]
    BY <1>0, <2>2, ToldOfRestart
  <2>3. CASE Respond(q) \/ Refuse(q)
    BY <1>2, <2>2, <2>3 DEF Respond, Refuse, Step
  <2> QED BY <2>1, <2>3
<1>4. restart[q] \in {"respond", "event"} => Continues(q)
  BY DEF Continues
<1>5. Refuse(q) => ~Succeeded(q)' /\ restart'[q] = "done"
  <2> SUFFICES ASSUME Refuse(q) PROVE ~Succeeded(q)' /\ restart'[q] = "done"
    OBVIOUS
  <2>1. restart'[q] = "done" /\ received[q] = <<>> /\ ToClient(Response(q, "restart", FALSE))
    BY <1>0, <1>2 DEF Refuse, Step, TypeInv, RestartType
  <2> QED BY <1>0, <2>1, ToldOfRestart
<1>6. ASSUME NEW r \in Restarts
      PROVE  /\ internal_requests'[r] = "success" => Continues(r)
             /\ restart'[r] \in {"respond", "event"} => Continues(r)
             /\ Succeeded(r)' => Continues(r)
  <2>1. CASE r = q
    BY <1>1, <1>2, <1>4, <1>5, <2>1 DEF Continues
  <2>2. CASE r # q
    <3>1. r \in Requests
      BY <1>0, <1>6, RestartsType
    <3>2. Succeeded(r)' <=> Succeeded(r)
      BY <1>3, <2>2, <3>1, SucceededSame
    <3> QED BY <1>1, <1>2, <2>2, <3>1, <3>2 DEF Continues
  <2> QED BY <2>1, <2>2
<1> QED BY <1>1, <1>6, AsideRuns

(* The restart whose reset takes a step was not continued.                 *)
LEMMA ResetRuns == IInv /\ ContinueInv /\ (\E r \in Requests : ResetStep(r)) => RunInv'
<1> SUFFICES ASSUME IInv, ContinueInv, NEW q \in Requests, ResetStep(q) PROVE RunInv'
  OBVIOUS
<1>1. reset[q] \in {"started", "halted"} /\ asked' = asked /\ internal' = internal
  BY DEF ResetStep, ResetBreaks, ResetEnds, ideVars
<1>2. q \in Restarts /\ internal[q] = 0
  BY <1>1 DEF ContinueInv, Numbered
<1>3. Restarts' = Restarts
  BY <1>1 DEF Restarts
<1> QED BY <1>1, <1>2, <1>3 DEF RunInv

LEMMA AdapterStepRuns == IInv /\ ContinueInv /\ RunInv /\ AdapterStep => RunInv'
<1> SUFFICES ASSUME IInv, ContinueInv, RunInv, AdapterStep PROVE RunInv'
  OBVIOUS
<1>0. TypeInv
  BY DEF IInv
<1>1. PICK request \in unanswered, command \in Commands, success \in BOOLEAN,
           locals \in References \cup {0} :
        /\ Answer(request, command, success, locals)
        /\ running' \in BOOLEAN /\ (command \in {"scopes", ""} => locals \in References)
        /\ running' = (running \/ (request.command = "continue" /\ success))
  BY <1>0, AnAnswer
<1>2. UNCHANGED <<asked, received, restart, internal, internal_requests>>
  BY <1>1 DEF Answer, ideVars, stateVars, restartVars
<1>3. /\ Len(from_backend) \in Nat /\ Len(from_backend') = Len(from_backend) + 1
      /\ from_backend'[Len(from_backend) + 1].request_seq = request.seq
      /\ from_backend'[Len(from_backend) + 1].success = success
      /\ \A k \in 1 .. Len(from_backend) : from_backend'[k] = from_backend[k]
  <2>1. /\ Len(from_backend) \in Nat /\ Len(from_backend') = Len(from_backend) + 1
        /\ from_backend'[Len(from_backend) + 1]
             = Message(request.seq, command, success, locals, 0)
        /\ \A k \in 1 .. Len(from_backend) : from_backend'[k] = from_backend[k]
    BY <1>0, <1>1, AnswerType
  <2>2. /\ Message(request.seq, command, success, locals, 0).request_seq = request.seq
        /\ Message(request.seq, command, success, locals, 0).success = success
    BY DEF Message
  <2> QED BY <2>1, <2>2
<1>4. 1 .. Len(from_backend') = 1 .. Len(from_backend) \cup {Len(from_backend) + 1}
  BY <1>3
<1>5. Restarts' = Restarts /\ Restarts \subseteq Requests
  BY <1>0, <1>2, RestartsType DEF Restarts
<1>6. \A r : Succeeded(r)' <=> Succeeded(r)
  BY <1>2, SucceededSame
<1>7. CASE running'
  BY <1>7 DEF RunInv
<1>8. CASE ~running'
  <2>1. ~running /\ ~(request.command = "continue" /\ success)
    BY <1>1, <1>8
  <2>2. ASSUME NEW r \in Restarts, internal[r] # 0, Continues(r)' PROVE Continues(r)
    <3>1. Whereabouts(r, internal[r])
      BY <1>0, <1>5, <2>2 DEF ContinueInv, TypeInv, RestartType
    <3>2. request.seq = internal[r] => ~success
      BY <2>1, <3>1 DEF Whereabouts
    <3>3. \A k \in 1 .. Len(from_backend') :
            from_backend'[k].request_seq = internal[r] /\ from_backend'[k].success =>
              k \in 1 .. Len(from_backend) /\ from_backend'[k] = from_backend[k]
      BY <1>3, <1>4, <3>2
    <3> QED BY <1>2, <1>6, <2>2, <3>3 DEF Continues
  <2>3. running' = running
    BY <1>0, <1>1, <1>8, <2>1 DEF TypeInv, AdapterType
  <2> QED BY <1>2, <1>5, <2>2, <2>3, RunStays
<1> QED BY <1>7, <1>8

LEMMA EndSessionRuns == IInv /\ RunInv /\ EndSession => RunInv'
<1> SUFFICES ASSUME IInv, RunInv, EndSession PROVE RunInv'
  OBVIOUS
<1>1. UNCHANGED <<asked, received, internal, from_backend, running>>
  BY DEF EndSession, ideVars, adapterVars
<1>2. \A r \in Requests : /\ internal_requests'[r] = "none"
                          /\ restart'[r] \in {"none", "done", "cancelled"}
  BY DEF EndSession
<1>3. \A r : Succeeded(r)' <=> Succeeded(r)
  BY <1>1, SucceededSame
<1>4. Restarts \subseteq Requests
  BY RestartsType DEF IInv
<1> QED BY <1>1, <1>2, <1>3, <1>4, AsideRuns DEF Continues

LEMMA RunStep == IInv /\ ContinueInv /\ RunInv /\ [Next]_vars => RunInv'
<1> SUFFICES ASSUME IInv, ContinueInv, RunInv, [Next]_vars PROVE RunInv'
  OBVIOUS
<1>1. CASE ListensOrNot \/ UNCHANGED vars
  <2>1. UNCHANGED <<asked, received, restart, internal, internal_requests, from_backend, running>>
    BY <1>1, StillSteps DEF Still, ideVars, stateVars, restartVars
  <2> QED BY <2>1, AsideRuns, SucceededSame DEF Continues
<1>2. CASE Next
  BY <1>1, <1>2, Steps, AskRuns, PumpWritesRun, ReceiveRuns, AfterResetRuns, RestartRuns,
     TellingRuns, ResetRuns, AdapterStepRuns, EndSessionRuns
<1> QED BY <1>1, <1>2

-----------------------------------------------------------------------------
(* The references.                                                         *)

LEMMA LocalsStay ==
  ASSUME LocalsInv, UNCHANGED <<asked, client_commands, local_references, clears>>,
         shown' = shown \/ shown'.locals = 0 \/ Recorded(shown'.locals, shown'.epoch),
         pump_backend' \in {pump_backend, Idle}, pump_client' \in {pump_client, Idle},
         \A m \in unanswered' : m.command = "scopes" =>
           m \in unanswered \/ (m.seq \in Requests /\ ForScopes(m.seq)),
         \A k \in 1 .. Len(from_backend') : from_backend'[k].locals # 0 =>
           \/ \E j \in 1 .. Len(from_backend) : from_backend'[k] = from_backend[j]
           \/ /\ from_backend'[k].command \in {"scopes", ""}
              /\ from_backend'[k].request_seq \in Requests
              /\ ForScopes(from_backend'[k].request_seq),
         \A r \in forwarded' :
           r \in forwarded \/ (asked[r].locals => asked[r].epoch < asked[r].clears)
  PROVE  LocalsInv'
<1>1. Recorded(shown.locals, shown.epoch)'
  BY DEF LocalsInv, Recorded
<1>2. (pump_backend # Idle => Recorded(pump_backend.message.locals, pump_backend.message.epoch))'
  BY DEF LocalsInv, Recorded, Idle
<1>3. (\A m \in unanswered : m.command = "scopes" => m.seq \in Requests /\ ForScopes(m.seq))'
  BY DEF LocalsInv, ForScopes
<1>4. (\A k \in 1 .. Len(from_backend) :
         from_backend[k].locals # 0 =>
           /\ from_backend[k].command \in {"scopes", ""}
           /\ from_backend[k].request_seq \in Requests /\ ForScopes(from_backend[k].request_seq))'
  <2> SUFFICES ASSUME NEW k \in 1 .. Len(from_backend'), from_backend'[k].locals # 0
               PROVE  /\ from_backend'[k].command \in {"scopes", ""}
                      /\ from_backend'[k].request_seq \in Requests
                      /\ from_backend'[k].request_seq \in client_commands
                      /\ asked[from_backend'[k].request_seq].command = "scopes"
    BY DEF ForScopes
  <2>1. CASE \E j \in 1 .. Len(from_backend) : from_backend'[k] = from_backend[j]
    <3>1. PICK j \in 1 .. Len(from_backend) : from_backend'[k] = from_backend[j]
      BY <2>1
    <3>2. /\ from_backend[j].command \in {"scopes", ""}
          /\ from_backend[j].request_seq \in Requests /\ ForScopes(from_backend[j].request_seq)
      BY <3>1 DEF LocalsInv
    <3> QED BY <3>1, <3>2 DEF ForScopes
  <2>2. CASE /\ from_backend'[k].command \in {"scopes", ""}
             /\ from_backend'[k].request_seq \in Requests
             /\ ForScopes(from_backend'[k].request_seq)
    BY <2>2 DEF ForScopes
  <2> QED BY <2>1, <2>2
<1>5. (pump_client # Idle /\ pump_client.to = "backend" =>
         LET r == pump_client.message.seq IN
         /\ pump_client.message.command = "scopes" => ForScopes(r)
         /\ asked[r].locals => asked[r].epoch < asked[r].clears)'
  BY DEF LocalsInv, ForScopes, Idle
<1>6. (\A r \in forwarded : asked[r].locals => asked[r].epoch < asked[r].clears)'
  BY DEF LocalsInv
<1> QED BY <1>1, <1>2, <1>3, <1>4, <1>5, <1>6 DEF LocalsInv

LEMMA LocalsInitially == Init => LocalsInv
<1> SUFFICES ASSUME Init PROVE LocalsInv
  OBVIOUS
<1>1. Len(from_backend) = 0 /\ 1 .. Len(from_backend) = {}
  BY EmptySeq DEF Init
<1> QED BY <1>1 DEF Init, LocalsInv, Recorded, NoScopes

(* The request that the IDE makes, as it is kept.                          *)
LEMMA AskedNow ==
  ASSUME TypeInv, NEW command \in Commands, NEW locals \in BOOLEAN, Ask(command, locals)
  PROVE  asked'[seq] = [command |-> command, locals |-> locals,
                        epoch |-> shown.epoch, clears |-> clears]
<1>1. [command |-> command, locals |-> locals, epoch |-> shown.epoch, clears |-> clears] \in Asked
  BY DEF TypeInv, IdeType, Asked
<1> QED BY <1>1, AppendProperties DEF Ask, seq, TypeInv, IdeType

LEMMA AskLocals ==
  ASSUME IInv, LocalsInv, AskRestart \/ AskVariables \/ AskLaunch \/ AskScopes
  PROVE  LocalsInv'
<1>0. TypeInv
  BY DEF IInv
<1>1. PICK command \in Commands, locals \in BOOLEAN :
        /\ Ask(command, locals)
        /\ \/ pump_client' = pump_client \/ pump_client'.to = "client"
           \/ /\ pump_client'.to = "backend"
              /\ pump_client'.message.seq = seq
              /\ pump_client'.message.command = "scopes" => command = "scopes"
              /\ locals => shown.locals \in References /\ shown.locals \notin local_references
  <2>1. CASE AskRestart
    BY <2>1 DEF AskRestart, Commands
  <2>2. CASE AskVariables
    <3>1. PICK reference \in References :
            /\ Ask("variables", reference = shown.locals)
            /\ IF reference \in local_references
               THEN pump_client' = [to |-> "client", message |-> Response(seq, "variables", TRUE)]
               ELSE Forward("variables")
      BY <2>2 DEF AskVariables
    <3>2. CASE reference \in local_references
      <4>1. pump_client'.to = "client"
        BY <3>1, <3>2
      <4> QED BY <3>1, <4>1 DEF Commands
    <3>3. CASE reference \notin local_references
      <4>1. /\ pump_client'.to = "backend" /\ pump_client'.message.seq = seq
            /\ pump_client'.message.command = "variables"
        BY <3>1, <3>3 DEF Forward
      <4> QED BY <3>1, <3>3, <4>1 DEF Commands
    <3> QED BY <3>2, <3>3
  <2>3. CASE AskLaunch
    BY <2>3 DEF AskLaunch, Forward, Commands
  <2>4. CASE AskScopes
    BY <2>4 DEF AskScopes, Forward, Commands
  <2> QED BY <2>1, <2>2, <2>3, <2>4
<1>2. /\ seq \in Requests /\ asked'[seq].command = command
      /\ \A r \in 1 .. Len(asked) : asked'[r] = asked[r]
      /\ asked'[seq].locals = locals /\ asked'[seq].epoch = shown.epoch
      /\ asked'[seq].clears = clears
  <2>1. asked'[seq] = [command |-> command, locals |-> locals,
                       epoch |-> shown.epoch, clears |-> clears]
    BY <1>0, <1>1, AskedNow
  <2>2. seq \in Requests /\ \A r \in 1 .. Len(asked) : asked'[r] = asked[r]
    BY <1>0, <1>1, AskType
  <2> QED BY <2>1, <2>2
<1>3. /\ UNCHANGED <<shown, pump_backend, local_references, unanswered, from_backend, forwarded>>
      /\ clears' = clears /\ pump_client = Idle /\ client_commands' = client_commands \cup {seq}
  BY <1>1 DEF Ask, adapterVars
<1>4. ASSUME NEW r, ForScopes(r) PROVE ForScopes(r)'
  BY <1>0, <1>2, <1>3, <1>4 DEF ForScopes, TypeInv, StateType
<1>5. Recorded(shown.locals, shown.epoch)'
  BY <1>3 DEF LocalsInv, Recorded
<1>6. (pump_backend # Idle => Recorded(pump_backend.message.locals, pump_backend.message.epoch))'
  BY <1>3 DEF LocalsInv, Recorded
<1>7. (\A m \in unanswered : m.command = "scopes" => m.seq \in Requests /\ ForScopes(m.seq))'
  <2>1. \A m \in unanswered : m.command = "scopes" => m.seq \in Requests /\ ForScopes(m.seq)
    BY DEF LocalsInv
  <2>2. \A m \in unanswered : ForScopes(m.seq) => ForScopes(m.seq)'
    BY <1>4
  <2> QED BY <1>3, <2>1, <2>2 DEF ForScopes
<1>8. (\A k \in 1 .. Len(from_backend) :
         from_backend[k].locals # 0 =>
           /\ from_backend[k].command \in {"scopes", ""}
           /\ from_backend[k].request_seq \in Requests /\ ForScopes(from_backend[k].request_seq))'
  <2> SUFFICES ASSUME NEW k \in 1 .. Len(from_backend), from_backend[k].locals # 0
               PROVE  /\ from_backend[k].command \in {"scopes", ""}
                      /\ from_backend[k].request_seq \in Requests
                      /\ from_backend[k].request_seq \in client_commands'
                      /\ asked'[from_backend[k].request_seq].command = "scopes"
    BY <1>3 DEF ForScopes
  <2>1. /\ from_backend[k].command \in {"scopes", ""}
        /\ from_backend[k].request_seq \in Requests /\ ForScopes(from_backend[k].request_seq)
    BY DEF LocalsInv
  <2> DEFINE r == from_backend[k].request_seq
  <2> HIDE DEF r
  <2>2. r = from_backend[k].request_seq /\ ForScopes(r)
    BY <2>1 DEF r
  <2>3. r \in client_commands' /\ asked'[r].command = "scopes"
    BY <1>0, <1>2, <1>3, <2>2 DEF ForScopes, TypeInv, StateType
  <2> QED BY <2>1, <2>2, <2>3
<1>9. (pump_client # Idle /\ pump_client.to = "backend" =>
         LET r == pump_client.message.seq IN
         /\ pump_client.message.command = "scopes" => ForScopes(r)
         /\ asked[r].locals => asked[r].epoch < asked[r].clears)'
  <2> SUFFICES ASSUME pump_client' # Idle, pump_client'.to = "backend"
               PROVE  /\ pump_client'.message.command = "scopes" =>
                           /\ pump_client'.message.seq \in client_commands'
                           /\ asked'[pump_client'.message.seq].command = "scopes"
                      /\ asked'[pump_client'.message.seq].locals =>
                           asked'[pump_client'.message.seq].epoch
                             < asked'[pump_client'.message.seq].clears
    BY DEF ForScopes, Idle
  <2>1. /\ pump_client'.message.seq = seq
        /\ pump_client'.message.command = "scopes" => command = "scopes"
        /\ locals => shown.locals \in References /\ shown.locals \notin local_references
    BY <1>1, <1>3
  <2>2. locals => shown.epoch < clears
    BY <2>1, ReferencesAssumption DEF LocalsInv, Recorded
  <2> QED BY <1>2, <1>3, <2>1, <2>2
<1>10. (\A r \in forwarded : asked[r].locals => asked[r].epoch < asked[r].clears)'
  BY <1>0, <1>2, <1>3 DEF LocalsInv, TypeInv, AdapterType
<1> QED BY <1>5, <1>6, <1>7, <1>8, <1>9, <1>10 DEF LocalsInv

LEMMA ClientPumpLocals == IInv /\ LocalsInv /\ WriteOfClientPump => LocalsInv'
<1> SUFFICES ASSUME IInv, LocalsInv, WriteOfClientPump PROVE LocalsInv'
  OBVIOUS
<1>0. TypeInv
  BY DEF IInv
<1>1. /\ UNCHANGED <<client_commands, local_references, clears, pump_backend>>
      /\ pump_client # Idle /\ pump_client' = Idle
  BY DEF WriteOfClientPump, stateVars
<1>2. ASSUME pump_client.to = "backend", ToBackend(pump_client.message), UNCHANGED ideVars
      PROVE  LocalsInv'
  <2> DEFINE message == pump_client.message
  <2>1. /\ UNCHANGED <<asked, shown, from_backend>>
        /\ unanswered' = unanswered \cup {message}
        /\ forwarded' \subseteq forwarded \cup {message.seq}
    BY <1>2 DEF ToBackend, ideVars
  <2>2. /\ message.command = "scopes" => ForScopes(message.seq)
        /\ asked[message.seq].locals => asked[message.seq].epoch < asked[message.seq].clears
    BY <1>1, <1>2 DEF LocalsInv
  <2>3. message.seq \in Requests
    BY <1>0, <1>1, <1>2, RequestsAssumption, LenProperties
       DEF TypeInv, ClientPumpType, IdeType, Requests
  <2>4. \A m \in unanswered' : m.command = "scopes" =>
          m \in unanswered \/ (m.seq \in Requests /\ ForScopes(m.seq))
    BY <2>1, <2>2, <2>3
  <2>5. \A r \in forwarded' :
          r \in forwarded \/ (asked[r].locals => asked[r].epoch < asked[r].clears)
    BY <2>1, <2>2
  <2> QED BY <1>1, <2>1, <2>4, <2>5, LocalsStay
<1>3. ASSUME pump_client.to = "client", ToClient(pump_client.message), UNCHANGED adapterVars
      PROVE  LocalsInv'
  <2>1. pump_client.message.locals = 0
    BY <1>0, <1>1, <1>3 DEF TypeInv, ClientPumpType
  <2>2. asked' = asked /\ (shown' = shown \/ shown'.locals = 0)
    BY <1>3, <2>1 DEF ToClient, NoScopes
  <2>3. UNCHANGED <<unanswered, from_backend, forwarded>>
    BY <1>3 DEF adapterVars
  <2> QED BY <1>1, <2>2, <2>3, LocalsStay
<1> QED BY <1>2, <1>3 DEF WriteOfClientPump

LEMMA BackendPumpLocals == IInv /\ LocalsInv /\ WriteOfBackendPump => LocalsInv'
<1> SUFFICES ASSUME LocalsInv, WriteOfBackendPump PROVE LocalsInv'
  OBVIOUS
<1> DEFINE message == pump_backend.message
<1>1. /\ UNCHANGED <<client_commands, local_references, clears, pump_client>>
      /\ UNCHANGED <<unanswered, from_backend, forwarded>>
      /\ pump_backend # Idle /\ pump_backend' = Idle /\ ToClient(message)
  BY DEF WriteOfBackendPump, stateVars, adapterVars
<1>2. Recorded(message.locals, message.epoch)
  BY <1>1 DEF LocalsInv
<1>3. /\ asked' = asked
      /\ shown' \in {shown, NoScopes, [locals |-> message.locals, epoch |-> message.epoch]}
  BY <1>1 DEF ToClient
<1>4. shown' = shown \/ shown'.locals = 0 \/ Recorded(shown'.locals, shown'.epoch)
  BY <1>2, <1>3 DEF NoScopes, Recorded
<1> QED BY <1>1, <1>3, <1>4, LocalsStay

LEMMA TakeInternalAnswerLocals == IInv /\ LocalsInv /\ TakeInternalAnswer => LocalsInv'
<1> SUFFICES ASSUME IInv, LocalsInv, TakeInternalAnswer PROVE LocalsInv'
  OBVIOUS
<1>1. /\ Receive
      /\ UNCHANGED <<asked, shown, client_commands, local_references, clears>>
      /\ UNCHANGED <<pump_client, pump_backend, unanswered, forwarded>>
  BY DEF TakeInternalAnswer, Receive, ideVars
<1>2. \A k \in 1 .. Len(from_backend') :
        \E j \in 1 .. Len(from_backend) : from_backend'[k] = from_backend[j]
  BY <1>1, TheAnswer DEF IInv
<1> QED BY <1>1, <1>2, LocalsStay

(* The answer to a request for scopes is recognised, and nothing else of   *)
(* the request is under way.                                               *)
LEMMA ForwardAnswerLocals == IInv /\ LocalsInv /\ ForwardAnswer => LocalsInv'
<1> SUFFICES ASSUME IInv, LocalsInv, ForwardAnswer PROVE LocalsInv'
  OBVIOUS
<1>0. TypeInv /\ Places
  BY DEF IInv
<1>1. PICK n : n = answer.request_seq
  OBVIOUS
<1> DEFINE message == [answer EXCEPT !.command = Renamed, !.epoch = clears]
<1>2. /\ Receive /\ UNCHANGED <<asked, shown, clears, pump_client, unanswered, forwarded>>
      /\ client_commands' = client_commands \ {n}
      /\ local_references' = local_references \cup
           (IF Command = "scopes" THEN {answer.locals} ELSE {})
      /\ pump_backend' = [to |-> "client", message |-> message]
  BY <1>1 DEF ForwardAnswer, Receive, ideVars
<1>3. /\ 1 \in 1 .. Len(from_backend) /\ answer = from_backend[1]
      /\ \A k \in 1 .. Len(from_backend') :
           \E j \in 1 .. Len(from_backend) : from_backend'[k] = from_backend[j]
  BY <1>0, <1>2, TheAnswer
<1>4. message.locals = answer.locals /\ message.epoch = clears
  BY <1>0, <1>2, ReceiveType DEF Messages
<1> HIDE DEF message
<1>5. answer.locals # 0 => Command = "scopes"
  <2> SUFFICES ASSUME answer.locals # 0 PROVE Command = "scopes"
    OBVIOUS
  <2>1. answer.command \in {"scopes", ""} /\ ForScopes(n)
    BY <1>1, <1>3 DEF LocalsInv
  <2> QED BY <1>1, <2>1 DEF Command, ForScopes
<1>6. n \in Requests => ~AtAdapter(n) /\ ~AtClientPump(n) /\ ~OnItsWayBack(n)'
  <2> SUFFICES ASSUME n \in Requests
               PROVE  ~AtAdapter(n) /\ ~AtClientPump(n) /\ ~OnItsWayBack(n)'
    OBVIOUS
  <2>1. OnePlace(n) /\ OnItsWayBack(n)
    BY <1>0, <1>1, <1>3 DEF Places, Place, OnItsWayBack
  <2>2. answer.request_seq = n => OnItsWayBack(n) /\ ~OnItsWayBack(n)'
    BY <1>0, <1>2, <2>1, BehindTheAnswer DEF OnePlace
  <2>3. ~AtAdapter(n) /\ ~AtClientPump(n)
    BY <2>1 DEF OnePlace
  <2> QED BY <1>1, <2>2, <2>3
<1>7. ASSUME NEW r, ForScopes(r), r # n PROVE ForScopes(r)'
  BY <1>2, <1>7 DEF ForScopes
<1>8. Recorded(shown.locals, shown.epoch)'
  BY <1>2 DEF LocalsInv, Recorded
<1>9. (pump_backend # Idle => Recorded(pump_backend.message.locals, pump_backend.message.epoch))'
  <2>1. pump_backend'.message.locals = answer.locals /\ pump_backend'.message.epoch = clears
    BY <1>2, <1>4
  <2>2. /\ clears' = clears /\ clears \in Nat
        /\ answer.locals # 0 => answer.locals \in local_references'
    BY <1>0, <1>2, <1>5 DEF TypeInv
  <2> QED BY <2>1, <2>2 DEF Recorded
<1>10. (\A m \in unanswered : m.command = "scopes" => m.seq \in Requests /\ ForScopes(m.seq))'
  <2> SUFFICES ASSUME NEW m \in unanswered, m.command = "scopes"
               PROVE  m.seq \in Requests /\ m.seq \in client_commands'
                      /\ asked'[m.seq].command = "scopes"
    BY <1>2 DEF ForScopes
  <2>1. m.seq \in Requests /\ ForScopes(m.seq)
    BY DEF LocalsInv
  <2>2. m.seq # n
    BY <1>6, <2>1 DEF AtAdapter
  <2> QED BY <1>2, <2>1, <2>2 DEF ForScopes
<1>11. (\A k \in 1 .. Len(from_backend) :
          from_backend[k].locals # 0 =>
            /\ from_backend[k].command \in {"scopes", ""}
            /\ from_backend[k].request_seq \in Requests /\ ForScopes(from_backend[k].request_seq))'
  <2> SUFFICES ASSUME NEW k \in 1 .. Len(from_backend'), from_backend'[k].locals # 0
               PROVE  /\ from_backend'[k].command \in {"scopes", ""}
                      /\ from_backend'[k].request_seq \in Requests
                      /\ from_backend'[k].request_seq \in client_commands'
                      /\ asked'[from_backend'[k].request_seq].command = "scopes"
    BY DEF ForScopes
  <2>1. PICK j \in 1 .. Len(from_backend) : from_backend'[k] = from_backend[j]
    BY <1>3
  <2>2. /\ from_backend[j].command \in {"scopes", ""}
        /\ from_backend[j].request_seq \in Requests /\ ForScopes(from_backend[j].request_seq)
    BY <2>1 DEF LocalsInv
  <2>3. from_backend'[k].request_seq # n
    <3> SUFFICES ASSUME from_backend'[k].request_seq = n PROVE FALSE
      OBVIOUS
    <3>1. n \in Requests
      BY <2>1, <2>2
    <3>2. OnItsWayBack(n)'
      BY DEF OnItsWayBack
    <3> QED BY <1>6, <3>1, <3>2
  <2> QED BY <1>2, <2>1, <2>2, <2>3 DEF ForScopes
<1>12. (pump_client # Idle /\ pump_client.to = "backend" =>
          LET r == pump_client.message.seq IN
          /\ pump_client.message.command = "scopes" => ForScopes(r)
          /\ asked[r].locals => asked[r].epoch < asked[r].clears)'
  <2> SUFFICES ASSUME pump_client # Idle, pump_client.to = "backend"
               PROVE  /\ pump_client.message.command = "scopes" =>
                           /\ pump_client.message.seq \in client_commands'
                           /\ asked'[pump_client.message.seq].command = "scopes"
                      /\ asked'[pump_client.message.seq].locals =>
                           asked'[pump_client.message.seq].epoch
                             < asked'[pump_client.message.seq].clears
    BY <1>2 DEF ForScopes, Idle
  <2>1. /\ pump_client.message.command = "scopes" => ForScopes(pump_client.message.seq)
        /\ asked[pump_client.message.seq].locals =>
             asked[pump_client.message.seq].epoch < asked[pump_client.message.seq].clears
    BY DEF LocalsInv
  <2>2. pump_client.message.seq \in Requests
    BY <1>0, RequestsAssumption, LenProperties DEF TypeInv, ClientPumpType, IdeType, Requests
  <2>3. pump_client.message.seq # n
    BY <1>6, <2>2 DEF AtClientPump
  <2> QED BY <1>2, <2>1, <2>3 DEF ForScopes
<1>13. (\A r \in forwarded : asked[r].locals => asked[r].epoch < asked[r].clears)'
  BY <1>2 DEF LocalsInv
<1> QED BY <1>8, <1>9, <1>10, <1>11, <1>12, <1>13 DEF LocalsInv

LEMMA AfterResetLocals ==
  IInv /\ LocalsInv /\ (\E r \in Requests : AfterReset(r)) => LocalsInv'
<1> SUFFICES ASSUME IInv, LocalsInv, NEW q \in Requests, AfterReset(q) PROVE LocalsInv'
  OBVIOUS
<1>1. /\ UNCHANGED <<asked, shown, client_commands, pump_client, pump_backend>>
      /\ UNCHANGED <<unanswered, from_backend, forwarded>>
      /\ clears' = clears + 1 /\ clears \in Nat
  BY DEF AfterReset, Step, adapterVars, IInv, TypeInv
<1>2. \A epoch \in Nat : epoch <= clears => epoch <= clears' /\ epoch < clears'
  BY <1>1
<1>3. Recorded(shown.locals, shown.epoch)'
  <2>1. shown.epoch \in Nat
    BY DEF IInv, TypeInv, IdeType
  <2>2. shown.locals # 0 => shown.epoch <= clears
    BY DEF LocalsInv, Recorded
  <2> QED BY <1>1, <1>2, <2>1, <2>2 DEF Recorded
<1>4. (pump_backend # Idle => Recorded(pump_backend.message.locals, pump_backend.message.epoch))'
  <2> SUFFICES ASSUME pump_backend # Idle
               PROVE  pump_backend.message.locals # 0 =>
                        /\ pump_backend.message.epoch <= clears'
                        /\ pump_backend.message.epoch < clears'
    BY <1>1 DEF Recorded, Idle
  <2>1. pump_backend.message.epoch \in Nat
    BY DEF IInv, TypeInv, BackendPumpType, Messages
  <2>2. pump_backend.message.locals # 0 => pump_backend.message.epoch <= clears
    BY DEF LocalsInv, Recorded
  <2> QED BY <1>2, <2>1, <2>2
<1> QED BY <1>1, <1>3, <1>4 DEF LocalsInv, ForScopes

LEMMA RestartLocals ==
  IInv /\ LocalsInv
    /\ (\E r \in Requests : SendContinue(r) \/ AfterFailedReset(r) \/ ContinueAnswered(r)
                            \/ ContinueTimesOut(r)) => LocalsInv'
<1> SUFFICES ASSUME IInv, LocalsInv, NEW q \in Requests,
                    \/ SendContinue(q) \/ AfterFailedReset(q) \/ ContinueAnswered(q)
                    \/ ContinueTimesOut(q)
             PROVE  LocalsInv'
  OBVIOUS
<1>1. /\ UNCHANGED <<asked, shown, client_commands, local_references, clears>>
      /\ UNCHANGED <<pump_client, pump_backend, from_backend>>
  BY DEF SendContinue, AfterFailedReset, ContinueAnswered, ContinueTimesOut, EndOfRequest, Step,
         ToBackend, adapterVars
<1>2. /\ \A m \in unanswered' : m.command = "scopes" => m \in unanswered
      /\ forwarded' = forwarded
  <2>1. CASE SendContinue(q)
    <3>1. internal[q] \notin Requests
      BY DEF IInv, TypeInv, RestartType, Requests
    <3> QED BY <2>1, <3>1 DEF SendContinue, ToBackend
  <2>2. CASE ~SendContinue(q)
    BY <2>2 DEF AfterFailedReset, ContinueAnswered, ContinueTimesOut, EndOfRequest, adapterVars
  <2> QED BY <2>1, <2>2
<1> QED BY <1>1, <1>2, LocalsStay

LEMMA TellingLocals ==
  LocalsInv /\ (\E r \in Requests : Respond(r) \/ SendContinued(r) \/ Refuse(r)) => LocalsInv'
<1> SUFFICES ASSUME LocalsInv, NEW q \in Requests, Respond(q) \/ SendContinued(q) \/ Refuse(q)
             PROVE  LocalsInv'
  OBVIOUS
<1>1. /\ UNCHANGED <<asked, client_commands, local_references, clears>>
      /\ UNCHANGED <<pump_client, pump_backend, unanswered, from_backend, forwarded>>
  BY DEF Respond, SendContinued, Refuse, Step, adapterVars
<1>2. shown' = shown \/ shown'.locals = 0
  <2>1. ASSUME NEW message, ToClient(message), message.locals = 0
        PROVE  shown' = shown \/ shown'.locals = 0
    BY <2>1 DEF ToClient, NoScopes
  <2>2. /\ Continued.locals = 0
        /\ \A success : Response(q, "restart", success).locals = 0
    BY DEF Continued, Response, Message
  <2> QED BY <2>1, <2>2 DEF Respond, SendContinued, Refuse
<1> QED BY <1>1, <1>2, LocalsStay

LEMMA AdapterStepLocals == IInv /\ LocalsInv /\ AdapterStep => LocalsInv'
<1> SUFFICES ASSUME IInv, LocalsInv, AdapterStep PROVE LocalsInv'
  OBVIOUS
<1>0. TypeInv
  BY DEF IInv
<1>1. PICK request \in unanswered, command \in Commands, success \in BOOLEAN,
           locals \in References \cup {0} :
        /\ Answer(request, command, success, locals)
        /\ running' \in BOOLEAN /\ (command \in {"scopes", ""} => locals \in References)
        /\ \/ locals = 0
           \/ command \in {"scopes", ""} /\ request.command = "scopes"
  BY <1>0, AnAnswer
<1>2. /\ UNCHANGED <<asked, shown, client_commands, local_references, clears>>
      /\ UNCHANGED <<pump_client, pump_backend, forwarded>>
      /\ unanswered' = unanswered \ {request}
  BY <1>1 DEF Answer, ideVars, stateVars
<1>3. /\ Len(from_backend) \in Nat /\ Len(from_backend') = Len(from_backend) + 1
      /\ from_backend'[Len(from_backend) + 1].request_seq = request.seq
      /\ from_backend'[Len(from_backend) + 1].command = command
      /\ from_backend'[Len(from_backend) + 1].locals = locals
      /\ \A k \in 1 .. Len(from_backend) : from_backend'[k] = from_backend[k]
  <2>1. /\ Len(from_backend) \in Nat /\ Len(from_backend') = Len(from_backend) + 1
        /\ from_backend'[Len(from_backend) + 1]
             = Message(request.seq, command, success, locals, 0)
        /\ \A k \in 1 .. Len(from_backend) : from_backend'[k] = from_backend[k]
    BY <1>0, <1>1, AnswerType
  <2>2. /\ Message(request.seq, command, success, locals, 0).request_seq = request.seq
        /\ Message(request.seq, command, success, locals, 0).command = command
        /\ Message(request.seq, command, success, locals, 0).locals = locals
    BY DEF Message
  <2> QED BY <2>1, <2>2
<1>4. request.command = "scopes" => request.seq \in Requests /\ ForScopes(request.seq)
  BY DEF LocalsInv
<1>5. ASSUME NEW k \in 1 .. Len(from_backend'), from_backend'[k].locals # 0
      PROVE  \/ \E j \in 1 .. Len(from_backend) : from_backend'[k] = from_backend[j]
             \/ /\ from_backend'[k].command \in {"scopes", ""}
                /\ from_backend'[k].request_seq \in Requests
                /\ ForScopes(from_backend'[k].request_seq)
  <2>1. CASE k \in 1 .. Len(from_backend)
    BY <1>3, <2>1
  <2>2. CASE k = Len(from_backend) + 1
    BY <1>1, <1>3, <1>4, <1>5, <2>2
  <2>3. k \in 1 .. Len(from_backend) \/ k = Len(from_backend) + 1
    BY <1>3
  <2> QED BY <2>1, <2>2, <2>3
<1> QED BY <1>2, <1>5, LocalsStay

LEMMA LocalsStep == IInv /\ LocalsInv /\ [Next]_vars => LocalsInv'
<1> SUFFICES ASSUME IInv, LocalsInv, [Next]_vars PROVE LocalsInv'
  OBVIOUS
<1>1. ASSUME UNCHANGED <<asked, shown, client_commands, local_references, clears>>,
             pump_client' \in {pump_client, Idle}, pump_backend' \in {pump_backend, Idle},
             UNCHANGED <<unanswered, from_backend, forwarded>>
      PROVE  LocalsInv'
  BY <1>1, LocalsStay
<1>2. CASE ListensOrNot \/ UNCHANGED vars
  BY <1>1, <1>2, StillSteps DEF Still, ideVars, stateVars
<1>3. CASE \E r \in Requests : ResetStep(r)
  BY <1>1, <1>3 DEF ResetStep, ResetBreaks, ResetEnds, ideVars, stateVars
<1>4. CASE EndSession
  BY <1>1, <1>4 DEF EndSession, ideVars, adapterVars
<1> QED BY <1>2, <1>3, <1>4, Steps, AskLocals, ClientPumpLocals, BackendPumpLocals,
        TakeInternalAnswerLocals, ForwardAnswerLocals, AfterResetLocals, RestartLocals,
        TellingLocals, AdapterStepLocals

-----------------------------------------------------------------------------

LEMMA SidesInvariance == Spec => [](IInv /\ SInv)
<1>1. Init => SInv
  <2> SUFFICES ASSUME Init PROVE SInv
    OBVIOUS
  <2>1. RunInv
    BY DEF Init, RunInv, Restarts
  <2> QED BY <2>1, ContinueInitially, LocalsInitially DEF SInv
<1>2. IInv /\ SInv /\ [Next]_vars => SInv'
  BY ContinueStep, RunStep, LocalsStep DEF SInv
<1> QED BY <1>1, <1>2, Invariance, PTL DEF Spec

(* What the proxy keeps between the two sides stays there (SidesStayApart):*)
(* an answer that reaches the IDE without a request of it answers the      *)
(* `continue` of a restart that was refused before, and no request for the *)
(* variables of Locals that are still recorded gets to the adapter.        *)
THEOREM SidesAreKeptApart == Spec => []SidesStayApart
<1>1. IInv /\ SInv => SidesStayApart
  <2> SUFFICES ASSUME IInv, SInv PROVE SidesStayApart
    OBVIOUS
  <2>1. ASSUME NEW n \in leaked
        PROVE  \E r \in Requests :
                 /\ internal[r] = n
                 /\ restart[r] \in {"refuse", "done", "cancelled"}
                 /\ \A k \in DOMAIN received[r] : ~received[r][k].success
    <3>1. PICK r \in Requests : n # 0 /\ internal[r] = n
      BY DEF SInv, ContinueInv, Origins, IsContinue
    <3>2. n \in Nat
      BY <3>1 DEF IInv, TypeInv, RestartType
    <3>3. Refused(r)
      BY <2>1, <3>1, <3>2 DEF SInv, ContinueInv, Whereabouts
    <3> QED BY <3>1, <3>3 DEF Refused, Succeeded
  <2>2. \A r \in forwarded : asked[r].locals => asked[r].epoch < asked[r].clears
    BY DEF SInv, LocalsInv
  <2> QED BY <2>1, <2>2 DEF SidesStayApart
<1> QED BY <1>1, SidesInvariance, PTL

(* When every restart was answered with success, in whatever order their   *)
(* resets and continues came, the target runs (RestartedTargetRuns).       *)
THEOREM RestartsRunTheTarget == Spec => []RestartedTargetRuns
<1>1. IInv /\ SInv => RestartedTargetRuns
  <2> SUFFICES ASSUME IInv, SInv, Restarts # {}, \A r \in Restarts : Succeeded(r) PROVE running
    BY DEF RestartedTargetRuns
  <2>1. ASSUME NEW r \in Restarts PROVE internal[r] # 0 /\ Continues(r)
    <3>1. r \in Requests
      BY <2>1, RestartsType DEF IInv
    <3> QED BY <3>1 DEF SInv, ContinueInv, Numbered, Continues
  <2> QED BY <2>1 DEF SInv, RunInv
<1> QED BY <1>1, SidesInvariance, PTL

=============================================================================
