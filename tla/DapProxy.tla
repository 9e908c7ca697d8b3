------------------------------ MODULE DapProxy ------------------------------
(***************************************************************************)
(* The life of the DAP proxy process (DapProxy in                          *)
(* crates/tracebridge/src/dap/proxy.rs): it starts t32debugadapter,        *)
(* listens for the IDE, runs one session (module DapSession) and stops     *)
(* when the adapter exits, the session ends or it is asked to.             *)
(*                                                                         *)
(* The runtime has one thread: between two awaits a task is not            *)
(* interrupted.  A session that still runs when the proxy begins to stop   *)
(* is not cancelled before the process exits.                              *)
(***************************************************************************)
EXTENDS Integers

CONSTANTS
  Clients,      (* connections the IDE, or anyone, may open                *)
  Codes,        (* codes with which the adapter may exit                   *)
  Signals       (* signals that may kill it                                *)

ASSUME CodesAssumption == Codes \subseteq Nat /\ Signals \subseteq Nat \ {0}

(* exit_code: a signal counts as minus its number.                         *)
ExitCodes == Codes \cup {-signal : signal \in Signals}

VARIABLES
  main,            (* where DapProxy.run is                                *)
  result,          (* the code it returned; 1 also stands for an error     *)
  ports,           (* ports that other processes listen on                 *)
  adapter,         (* the process of the adapter                           *)
  status,          (* its exit code                                        *)
  client,          (* where handle_client is for each connection           *)
  session_active, exit_code, finished,
  shutdown,        (* SIGINT or SIGTERM came                               *)
  outcomes         (* history: how sessions ended                          *)

proxyVars   == <<session_active, exit_code, finished>>
adapterVars == <<adapter, status>>
processVars == <<main, result, ports, adapterVars, client, proxyVars, shutdown, outcomes>>

ProxyInit ==
  /\ main = "start" /\ result = 0
  /\ ports \in SUBSET {"dap", "backend"}
  /\ adapter = "none" /\ status = 0
  /\ client = [c \in Clients |-> "absent"]
  /\ session_active = FALSE /\ exit_code = 0 /\ finished = FALSE
  /\ shutdown = FALSE /\ outcomes = {}

Exit(code) == main' = "done" /\ result' = code

Alive == adapter \in {"starting", "listening"}

-----------------------------------------------------------------------------
(* DapProxy.run.                                                           *)

(* start_adapter: the file is missing, the port is taken, spawn fails, or  *)
(* the adapter starts.                                                     *)
StartAdapter ==
  /\ main = "start"
  /\ \/ Exit(1) /\ UNCHANGED adapter
     \/ /\ "backend" \notin ports
        /\ adapter' = "starting" /\ main' = "bind" /\ UNCHANGED result
  /\ UNCHANGED <<ports, status, client, proxyVars, shutdown, outcomes>>

(* Mutant: the adapter is left alone when the port is taken.               *)
BindAndLeave ==
  /\ main = "bind"
  /\ IF "dap" \in ports
     THEN Exit(1) /\ UNCHANGED adapter
     ELSE main' = "select" /\ UNCHANGED <<result, adapter>>
  /\ UNCHANGED <<ports, status, client, proxyVars, shutdown, outcomes>>

Bind ==
  /\ main = "bind"
  /\ IF "dap" \in ports
     THEN Exit(1) /\ adapter' = "exited"
     ELSE main' = "select" /\ UNCHANGED <<result, adapter>>
  /\ UNCHANGED <<ports, status, client, proxyVars, shutdown, outcomes>>

(* The three branches of select!; any that is ready may be taken.          *)
Selected(branch) ==
  /\ main = "select" /\ branch
  /\ main' = "terminate"
  /\ UNCHANGED <<result, ports, adapterVars, client, session_active, finished,
                 shutdown, outcomes>>

(* Mutant: the adapter's exit code is passed on as it is.                  *)
SelectAdapterPlain ==
  /\ Selected(adapter = "exited")
  /\ exit_code' = IF finished THEN exit_code ELSE status

(* An adapter that exits before the session ended is a failure, whatever   *)
(* its code.                                                               *)
SelectAdapter ==
  /\ Selected(adapter = "exited")
  /\ exit_code' = IF finished THEN exit_code ELSE IF status = 0 THEN 1 ELSE status

SelectFinished == Selected(finished) /\ UNCHANGED exit_code
SelectShutdown == Selected(shutdown) /\ UNCHANGED exit_code

(* terminate: SIGTERM unless the adapter has exited, and the result.      *)
Terminate ==
  /\ main = "terminate"
  /\ IF adapter = "exited" THEN Exit(exit_code) ELSE main' = "wait" /\ UNCHANGED result
  /\ UNCHANGED <<ports, adapterVars, client, proxyVars, shutdown, outcomes>>

(* Mutant: an adapter that ignores SIGTERM is waited for.                  *)
WaitForExit ==
  /\ main = "wait" /\ adapter = "exited" /\ Exit(exit_code)
  /\ UNCHANGED <<ports, adapterVars, client, proxyVars, shutdown, outcomes>>

(* After SIGTERM the adapter exits, or is killed after 2 s.                *)
TerminateEnds ==
  /\ main = "wait" /\ Exit(exit_code)
  /\ adapter' = "exited"
  /\ UNCHANGED <<ports, status, client, proxyVars, shutdown, outcomes>>

-----------------------------------------------------------------------------
(* handle_client, one task per connection.                                 *)

HandleClient(c, from, to) ==
  /\ main # "done" /\ client[c] = from
  /\ client' = [client EXCEPT ![c] = to]
  /\ UNCHANGED <<main, result, ports, adapterVars, shutdown>>

Accept(c) ==
  /\ main = "select" /\ HandleClient(c, "absent", "silent")
  /\ UNCHANGED <<proxyVars, outcomes>>

CloseSilently(c) ==
  HandleClient(c, "silent", "closed") /\ UNCHANGED <<proxyVars, outcomes>>

(* Mutant: session_active is read here and set when the session begins.    *)
FirstDataLate(c) ==
  /\ HandleClient(c, "silent", IF session_active THEN "closed" ELSE "connecting")
  /\ UNCHANGED <<proxyVars, outcomes>>

(* The first data; only one connection finds session_active unset.         *)
FirstData(c) ==
  /\ HandleClient(c, "silent", IF session_active THEN "closed" ELSE "connecting")
  /\ session_active' = TRUE
  /\ UNCHANGED <<finished, exit_code, outcomes>>

ConnectBackend(c) ==
  /\ adapter = "listening"
  /\ HandleClient(c, "connecting", "session")
  /\ UNCHANGED <<proxyVars, outcomes>>

(* handle_client ends: connect_backend gave up, or the session is over.    *)
Finish(c, from, outcome) ==
  /\ HandleClient(c, from, "closed")
  /\ finished' = TRUE /\ outcomes' = outcomes \cup {outcome}
  /\ exit_code' = IF outcome = "error" THEN 1 ELSE exit_code
  /\ UNCHANGED session_active

(* dap_backend_timeout is over, or the connection fails otherwise.         *)
ConnectFails(c) == Finish(c, "connecting", "error")

(* The IDE closes its side, the adapter closes its own or has exited, or   *)
(* run_session fails: invalid framing or a broken connection.  An end of   *)
(* the stream is no error, whichever side it comes from (proxy.rs:369,     *)
(* 383).                                                                   *)
SessionEnds(c) == \E how \in {"left", "dropped", "error"} : Finish(c, "session", how)

-----------------------------------------------------------------------------
(* The adapter and the user.                                               *)

AdapterListens ==
  /\ adapter = "starting" /\ adapter' = "listening"
  /\ UNCHANGED <<main, result, ports, status, client, proxyVars, shutdown, outcomes>>

AdapterExits ==
  /\ Alive /\ main # "done"
  /\ adapter' = "exited" /\ status' \in ExitCodes
  /\ UNCHANGED <<main, result, ports, client, proxyVars, shutdown, outcomes>>

Shutdown ==
  /\ main = "select" /\ ~shutdown /\ shutdown' = TRUE
  /\ UNCHANGED <<main, result, ports, adapterVars, client, proxyVars, outcomes>>

Run ==
  \/ StartAdapter \/ Bind \/ SelectAdapter \/ SelectFinished \/ SelectShutdown
  \/ Terminate \/ TerminateEnds

Connecting(c) == ConnectBackend(c) \/ ConnectFails(c)

ProxyNext ==
  \/ Run
  \/ \E c \in Clients : \/ Accept(c) \/ CloseSilently(c) \/ FirstData(c)
                        \/ Connecting(c) \/ SessionEnds(c)
  \/ AdapterListens \/ AdapterExits \/ Shutdown

ProxySpec == ProxyInit /\ [][ProxyNext]_processVars

(* The runtime runs every task that can run; the wait of terminate and the *)
(* retries of connect_backend are bounded.  Nothing is assumed of the IDE, *)
(* the user or the adapter.                                                *)
ProxyFairness == WF_processVars(Run) /\ \A c \in Clients : WF_processVars(Connecting(c))

ProxyFairSpec == ProxySpec /\ ProxyFairness

-----------------------------------------------------------------------------

(* The states of the proxy, of the adapter and of each connection.         *)
ProxyTypeOK ==
  /\ main \in {"start", "bind", "select", "terminate", "wait", "done"}
  /\ adapter \in {"none", "starting", "listening", "exited"}
  /\ client \in [Clients -> {"absent", "silent", "connecting", "session", "closed"}]
  /\ session_active \in BOOLEAN /\ finished \in BOOLEAN /\ shutdown \in BOOLEAN
  /\ exit_code \in ExitCodes \cup {0, 1} /\ result \in ExitCodes \cup {0, 1}
  /\ outcomes \subseteq {"left", "dropped", "error"}

(* Only the first connection that sends data becomes the session.          *)
OneSession ==
  \A c, d \in Clients :
    client[c] \in {"connecting", "session"} =>
      ~finished /\ (client[d] \in {"connecting", "session"} => c = d)

(* The proxy never leaves an adapter behind, however it ends.              *)
AdapterStopped == main = "done" => ~Alive

(* Success is returned only if the stream of a session came to its end or  *)
(* a signal came: an adapter that exits before is a failure, even with     *)
(* code 0.  One that dies within a session ends the stream, too: if the    *)
(* proxy sees that end before the exit, it returns success as when the IDE *)
(* left ("dropped").                                                       *)
SuccessHasAReason ==
  main = "done" /\ result = 0 => shutdown \/ outcomes \cap {"left", "dropped"} # {}

(* A session error is never lost, whatever else ends at the same time.     *)
ErrorIsReported == main = "done" /\ "error" \in outcomes => result # 0

(* Property: what exit code 0 and the error of a session say of each other. *)
ExitCodeIsHonest == SuccessHasAReason /\ ErrorIsReported

(* When the session ends, the adapter exits or a signal comes, the process *)
(* ends, also when the adapter ignores SIGTERM or the IDE stays connected. *)
ProxyStops ==
  main = "select" /\ (finished \/ shutdown \/ adapter = "exited") ~> main = "done"

=============================================================================
