--------------------------- MODULE PowerViewStart ---------------------------
(***************************************************************************)
(* `tracebridge open` reuses or starts PowerView (start_powerview,         *)
(* wait_for_powerview and install_toolbar in                               *)
(* crates/tracebridge/src/powerview.rs).  Several may run at once.         *)
(*                                                                         *)
(* The child that is spawned is PowerView, or a launcher (macOS) that      *)
(* exits with 0 while PowerView goes on starting.  The RCL port may belong *)
(* to a program that is not PowerView, or to another PowerView.            *)
(***************************************************************************)
EXTENDS Naturals

CONSTANTS
  Tools,      (* concurrent runs of `tracebridge open`                     *)
  ReadyPolls, (* READY_TIMEOUT, in polls                                   *)
  Foreign,    (* a program on the port that does not speak RCL             *)
  Nobody      (* the port is closed                                        *)

ASSUME PortAssumption ==
  ReadyPolls \in Nat /\ Foreign # Nobody /\ {Foreign, Nobody} \cap Tools = {}

VARIABLES
  pvAt,       (* the next step of each run                                 *)
  polls,      (* iterations of the loop of wait_for_powerview, or of the   *)
              (* loop of install_toolbar                                   *)
  outcome,    (* what start_powerview returned: "reused", "started"        *)
  child,      (* the child spawned: "none", "running", its exit code       *)
  instance,   (* its PowerView: "none", "starting", "up", "gone"           *)
  port,       (* who listens on the RCL port                               *)
  answered,   (* history: RCL answered since the child was spawned         *)
  failures    (* history: the exit with an error was there at a poll       *)

pvVars == <<pvAt, polls, outcome, child, instance, port, answered, failures>>

Exited == {"exit 0", "exit 1"}

PvInit ==
  /\ pvAt = [t \in Tools |-> "port"] /\ polls = [t \in Tools |-> 0]
  /\ outcome = [t \in Tools |-> "none"]
  /\ child = [t \in Tools |-> "none"] /\ instance = [t \in Tools |-> "none"]
  /\ port \in {Nobody, Foreign}
  /\ answered = [t \in Tools |-> FALSE] /\ failures = {}

PvGoes(t, step) == pvAt' = [pvAt EXCEPT ![t] = step]
PvReturns(t, r) == PvGoes(t, "returned") /\ outcome' = [outcome EXCEPT ![t] = r]
PvFails(t)      == PvReturns(t, "error")

PvEnvironment == UNCHANGED <<child, instance, port>>

(* A PowerView answers on the port, unless it is busy.                     *)
Answers == port \in Tools

-----------------------------------------------------------------------------
(* start_powerview_with.                                                   *)

CheckPort(t) ==
  /\ pvAt[t] = "port"
  /\ PvGoes(t, IF port = Nobody THEN "spawn" ELSE "verify")
  /\ UNCHANGED <<polls, outcome, answered, failures>> /\ PvEnvironment

VerifyRunning(t) ==
  /\ pvAt[t] = "verify"
  /\ \/ Answers /\ PvReturns(t, "reused")
     \/ PvFails(t)
  /\ UNCHANGED <<polls, answered, failures>> /\ PvEnvironment

(* The files, the run directory, the log; then the child.                  *)
Spawn(t) ==
  /\ pvAt[t] = "spawn"
  /\ \/ /\ PvGoes(t, "poll") /\ UNCHANGED outcome
        /\ child' = [child EXCEPT ![t] = "running"]
        /\ instance' = [instance EXCEPT ![t] = "starting"]
     \/ PvFails(t) /\ UNCHANGED <<child, instance>>
  /\ UNCHANGED <<polls, port, answered, failures>>

(* Mutant: an exit of the child is taken for the launcher's.               *)
PollLauncher(t) ==
  /\ pvAt[t] = "poll"
  /\ IF polls[t] > ReadyPolls THEN PvFails(t) /\ UNCHANGED <<polls, failures>>
     ELSE /\ PvGoes(t, "connect") /\ UNCHANGED <<polls, outcome>>
          /\ failures' = IF child[t] = "exit 1" THEN failures \cup {t} ELSE failures
  /\ UNCHANGED answered /\ PvEnvironment

(* wait_for_powerview: the deadline, then the child, ...                   *)
Poll(t) ==
  /\ pvAt[t] = "poll"
  /\ IF polls[t] > ReadyPolls THEN PvFails(t) /\ UNCHANGED <<polls, failures>>
     ELSE IF child[t] = "exit 1" THEN
       PvFails(t) /\ failures' = failures \cup {t} /\ UNCHANGED polls
     ELSE PvGoes(t, "connect") /\ UNCHANGED <<polls, outcome, failures>>
  /\ UNCHANGED answered /\ PvEnvironment

(* ... the port, ...                                                       *)
Connect(t) ==
  /\ pvAt[t] = "connect"
  /\ IF port = Nobody THEN PvGoes(t, "poll") /\ polls' = [polls EXCEPT ![t] = @ + 1]
                      ELSE PvGoes(t, "rcl") /\ UNCHANGED polls
  /\ UNCHANGED <<outcome, answered, failures>> /\ PvEnvironment

(* ... and RCL.                                                            *)
VerifyStarted(t) ==
  /\ pvAt[t] = "rcl"
  /\ \/ /\ Answers /\ PvGoes(t, "toolbar")
        /\ polls' = [polls EXCEPT ![t] = 0] /\ answered' = [answered EXCEPT ![t] = TRUE]
     \/ /\ PvGoes(t, "poll")
        /\ polls' = [polls EXCEPT ![t] = @ + 1] /\ UNCHANGED answered
  /\ UNCHANGED <<outcome, failures>> /\ PvEnvironment

(* install_toolbar: connect, again until the deadline.                     *)
ConnectToolbar(t) ==
  /\ pvAt[t] = "toolbar"
  /\ \/ Answers /\ PvGoes(t, "script") /\ UNCHANGED <<polls, outcome>>
     \/ IF polls[t] > ReadyPolls THEN PvFails(t) /\ UNCHANGED polls
        ELSE polls' = [polls EXCEPT ![t] = @ + 1] /\ UNCHANGED <<pvAt, outcome>>
  /\ UNCHANGED <<answered, failures>> /\ PvEnvironment

(* toolbar.cmm, on that connection.                                        *)
InstallToolbar(t) ==
  /\ pvAt[t] = "script"
  /\ \/ Answers /\ PvReturns(t, "started")
     \/ PvFails(t)
  /\ UNCHANGED <<polls, answered, failures>> /\ PvEnvironment

-----------------------------------------------------------------------------
(* The children.  A PowerView that finds the port taken goes on without    *)
(* it or exits; an exit that is not a launcher's ends the PowerView.       *)

PvTool == UNCHANGED <<pvAt, polls, outcome, answered, failures>>

PowerViewUp(t) ==
  /\ instance[t] = "starting"
  /\ instance' = [instance EXCEPT ![t] = "up"]
  /\ port' = IF port = Nobody THEN t ELSE port
  /\ UNCHANGED child /\ PvTool

LauncherExits(t) ==
  /\ child[t] = "running" /\ instance[t] = "starting"
  /\ child' = [child EXCEPT ![t] = "exit 0"]
  /\ UNCHANGED <<instance, port>> /\ PvTool

PowerViewExits(t) ==
  /\ instance[t] \in {"starting", "up"}
  /\ instance' = [instance EXCEPT ![t] = "gone"]
  /\ \E status \in Exited :
       child' = IF child[t] = "running" THEN [child EXCEPT ![t] = status] ELSE child
  /\ port' = IF port = t THEN Nobody ELSE port
  /\ PvTool

ForeignLeaves == port = Foreign /\ port' = Nobody /\ UNCHANGED <<child, instance>> /\ PvTool

PvNext ==
  \/ \E t \in Tools :
       \/ CheckPort(t) \/ VerifyRunning(t) \/ Spawn(t) \/ Poll(t) \/ Connect(t)
       \/ VerifyStarted(t) \/ ConnectToolbar(t) \/ InstallToolbar(t)
       \/ PowerViewUp(t) \/ LauncherExits(t) \/ PowerViewExits(t)
  \/ ForeignLeaves

PvSpec == PvInit /\ [][PvNext]_pvVars

(* Property: "reused" means that this run spawned nothing, "started" that  *)
(* RCL answered after its child was spawned and that no poll of the child  *)
(* had found an exit with an error.                                        *)
StartIsHonest ==
  \A t \in Tools :
    /\ outcome[t] = "reused" => child[t] = "none"
    /\ outcome[t] = "started" => answered[t] /\ t \notin failures
=============================================================================
