---------------------------- MODULE CommandProofs ----------------------------
(***************************************************************************)
(* What `tracebridge debug watch`, `tracebridge open`, the sessions of the *)
(* library, the configuration and the process of the DAP proxy promise,    *)
(* for any number of names, of runs at once, of operations, of connections *)
(* and of settings' values.  Each part has an invariant that ties the      *)
(* histories its property speaks of to the step the command is at.         *)
(*                                                                         *)
(* And what the scan of a PER file finds, for a file of any length: the    *)
(* stack, the open group and the candidates that the scan keeps are, after *)
(* every line, what the positions of the lines read so far say.            *)
(***************************************************************************)
EXTENDS Watch, PowerViewStart, BackendSession, Configuration, DapProxy, PerFile,
        SequenceTheorems, FiniteSetTheorems, WellFoundedInduction, TLAPS

(***************************************************************************)
(* debug watch.                                                            *)

WatchSteps == {"start", "resolve", "clear", "add", "done", "refused", "failed"}

WatchType ==
  /\ watchAt \in WatchSteps
  /\ names \in Seq(WatchNames) /\ paths \in Seq(WatchNames)
  /\ window \in Seq(WatchNames) /\ before \in Seq(WatchNames)
  /\ resolved \in Nat /\ resolved <= Len(names) /\ errors \in BOOLEAN /\ added \in Nat

(* Without an error the paths are those of the names resolved so far.      *)
PathsOfNames ==
  errors = FALSE => Len(paths) = resolved /\ \A k \in 1 .. resolved : paths[k] = names[k]

(* The window, by the step the command is at.                              *)
WindowNow ==
  /\ watchAt \in {"start", "resolve", "clear"} => added = 0
  /\ watchAt \in {"start", "resolve", "refused"} => window = before
  /\ watchAt \in {"clear", "add"} => errors = FALSE /\ resolved = Len(names)
  /\ watchAt = "add" =>
       /\ added <= Len(paths) /\ Len(window) = added
       /\ \A k \in 1 .. added : window[k] = paths[k]
  /\ watchAt = "done" => window = names

WatchInv == WatchType /\ PathsOfNames /\ WindowNow

(* What a user names is a sequence of names.                               *)
LEMMA ListsAreSequences ==
  ASSUME NEW S, NEW l \in Lists(S), WatchAssumption
  PROVE  l \in Seq(S)
<1>1. PICK n \in 0 .. MaxWatched : l \in [1 .. n -> S]
  BY DEF Lists
<1>2. n \in Nat
  OBVIOUS
<1> QED BY <1>1, <1>2

(* The invariant of `watch` holds at the start,                            *)
LEMMA WatchInitOk ==
  ASSUME WatchAssumption, WatchInit
  PROVE  WatchInv
<1>1. names \in Seq(WatchNames)
  BY ListsAreSequences DEF WatchInit
<1>2. before \in Seq(Known) /\ window = before
  BY ListsAreSequences DEF WatchInit
<1>3. before \in Seq(WatchNames)
  <2>1. Known \subseteq WatchNames
    BY DEF WatchAssumption
  <2> QED BY <1>2, <2>1
<1>4. Len(names) \in Nat /\ Len(paths) = 0 /\ paths \in Seq(WatchNames)
  BY <1>1, LenProperties, EmptySeq DEF WatchInit
<1>5. WatchType
  <2>1. resolved \in Nat /\ resolved <= Len(names) /\ added \in Nat /\ errors \in BOOLEAN
    <3>1. resolved = 0 /\ added = 0 /\ errors = FALSE
      BY DEF WatchInit
    <3>2. errors \in BOOLEAN
      BY <3>1
    <3>3. resolved \in Nat /\ resolved <= Len(names) /\ added \in Nat
      BY <1>4, <3>1
    <3> QED BY <3>2, <3>3
  <2>2. watchAt \in WatchSteps /\ window \in Seq(WatchNames)
    BY <1>2, <1>3 DEF WatchInit, WatchSteps
  <2> QED BY <1>1, <1>3, <1>4, <2>1, <2>2 DEF WatchType
<1>6. PathsOfNames /\ WindowNow
  BY <1>2, <1>4 DEF WatchInit, PathsOfNames, WindowNow
<1> QED BY <1>5, <1>6 DEF WatchInv

(* is kept when a name is looked up,                                       *)
LEMMA ResolveNameOk ==
  ASSUME WatchInv, ResolveName
  PROVE  WatchInv'
<1>1. /\ WatchType /\ PathsOfNames /\ WindowNow
      /\ UNCHANGED <<names, added, window, before>>
      /\ watchAt = "resolve" /\ resolved < Len(names)
      /\ window = before /\ added = 0
  BY DEF WatchInv, WindowNow, ResolveName, WatchEnds, WatchQuiet
<1>2. resolved \in Nat /\ Len(names) \in Nat /\ paths \in Seq(WatchNames)
  BY <1>1, LenProperties DEF WatchType
<1>3. CASE WatchEnds("failed")
  BY <1>1, <1>3 DEF WatchEnds, WatchInv, WatchType, WatchSteps, PathsOfNames, WindowNow
<1>4. CASE /\ errors' = TRUE /\ resolved' = resolved + 1
           /\ UNCHANGED <<watchAt, names, paths, added>>
  <2>1. resolved' \in Nat /\ resolved' <= Len(names)
    BY <1>1, <1>2, <1>4
  <2>2. WatchType'
    BY <1>1, <1>4, <2>1 DEF WatchType
  <2>3. PathsOfNames' /\ WindowNow'
    BY <1>1, <1>4 DEF PathsOfNames, WindowNow
  <2> QED BY <2>2, <2>3 DEF WatchInv
<1>5. CASE /\ paths' = Append(paths, names[resolved + 1]) /\ resolved' = resolved + 1
           /\ UNCHANGED <<watchAt, names, errors, added>>
  <2>1. resolved' \in Nat /\ resolved' <= Len(names)
    BY <1>1, <1>2, <1>5
  <2>2. names[resolved + 1] \in WatchNames
    <3>1. resolved + 1 \in 1 .. Len(names)
      BY <1>1, <1>2
    <3> QED BY <1>1, <3>1, ElementOfSeq DEF WatchType
  <2>3. /\ paths' \in Seq(WatchNames) /\ Len(paths') = Len(paths) + 1
        /\ \A k \in 1 .. Len(paths) : paths'[k] = paths[k]
        /\ paths'[Len(paths) + 1] = names[resolved + 1]
    BY <1>2, <1>5, <2>2, AppendProperties
  <2>4. WatchType'
    BY <1>1, <1>5, <2>1, <2>3 DEF WatchType
  <2>5. PathsOfNames'
    <3> SUFFICES ASSUME errors = FALSE
                 PROVE  /\ Len(paths') = resolved + 1
                        /\ \A k \in 1 .. resolved + 1 : paths'[k] = names[k]
      BY <1>1, <1>5 DEF PathsOfNames
    <3>1. Len(paths) = resolved /\ \A k \in 1 .. resolved : paths[k] = names[k]
      BY <1>1 DEF PathsOfNames
    <3>2. \A k \in 1 .. resolved + 1 : k \in 1 .. resolved \/ k = resolved + 1
      BY <1>2
    <3> QED BY <2>3, <3>1, <3>2
  <2>6. WindowNow'
    BY <1>1, <1>5 DEF WindowNow
  <2> QED BY <2>4, <2>5, <2>6 DEF WatchInv
<1> QED BY <1>3, <1>4, <1>5 DEF ResolveName

(* when a register is added to the window,                                 *)
LEMMA AddWatchOk ==
  ASSUME WatchInv, AddWatch
  PROVE  WatchInv'
<1>1. /\ WatchType /\ PathsOfNames /\ WindowNow
      /\ UNCHANGED <<names, resolved, paths, errors, before>>
      /\ watchAt = "add" /\ added < Len(paths)
      /\ errors = FALSE /\ resolved = Len(names) /\ Len(window) = added
      /\ \A k \in 1 .. added : window[k] = paths[k]
  BY DEF WatchInv, WindowNow, AddWatch, WatchEnds
<1>2. added \in Nat /\ Len(paths) \in Nat /\ window \in Seq(WatchNames)
  BY <1>1, LenProperties DEF WatchType
<1> DEFINE more == Append(window, paths[added + 1])
<1>3. paths[added + 1] \in WatchNames
  <2>1. added + 1 \in 1 .. Len(paths)
    BY <1>1, <1>2
  <2> QED BY <1>1, <2>1, ElementOfSeq DEF WatchType
<1>4. /\ more \in Seq(WatchNames) /\ Len(more) = added + 1
      /\ \A k \in 1 .. added : more[k] = window[k]
      /\ more[added + 1] = paths[added + 1]
  BY <1>1, <1>2, <1>3, AppendProperties
<1>5. \/ window' = more /\ added' = added + 1 /\ watchAt' = watchAt
      \/ window' \in {window, more} /\ added' = added /\ watchAt' = "failed"
  BY DEF AddWatch, WatchEnds
<1> HIDE DEF more
<1>6. WatchType'
  BY <1>1, <1>2, <1>4, <1>5 DEF WatchType, WatchSteps
<1>7. PathsOfNames'
  BY <1>1 DEF PathsOfNames
<1>8. WindowNow'
  <2>1. CASE window' = more /\ added' = added + 1 /\ watchAt' = watchAt
    <3>1. \A k \in 1 .. added + 1 : k \in 1 .. added \/ k = added + 1
      BY <1>2
    <3>2. added + 1 <= Len(paths)
      BY <1>1, <1>2
    <3>3. \A k \in 1 .. added + 1 : more[k] = paths[k]
      BY <1>1, <1>4, <3>1
    <3> QED BY <1>1, <1>4, <2>1, <3>2, <3>3 DEF WindowNow
  <2>2. CASE watchAt' = "failed"
    BY <2>2 DEF WindowNow
  <2> QED BY <1>5, <2>1, <2>2
<1> QED BY <1>6, <1>7, <1>8 DEF WatchInv

(* and by the other steps.                                                 *)
LEMMA OtherWatchStepsOk ==
  ASSUME WatchInv, StartWatch \/ AllResolved \/ ClearWatch \/ ShowWatch
  PROVE  WatchInv'
<1>1. /\ WatchType /\ PathsOfNames /\ WindowNow
      /\ UNCHANGED <<names, resolved, paths, errors, added, before>>
  BY DEF WatchInv, StartWatch, AllResolved, ClearWatch, ShowWatch, WatchEnds, WatchQuiet
<1>2. window' \in {window, <<>>} /\ watchAt' \in WatchSteps
  BY DEF StartWatch, AllResolved, ClearWatch, ShowWatch, WatchEnds, WatchQuiet, WatchSteps
<1>3. window' \in Seq(WatchNames)
  BY <1>1, <1>2, EmptySeq DEF WatchType
<1>4. WatchType' /\ PathsOfNames'
  BY <1>1, <1>2, <1>3 DEF WatchType, PathsOfNames
<1>5. CASE StartWatch
  <2>1. /\ watchAt = "start" /\ watchAt' \in {"resolve", "failed"} /\ window' = window
    BY <1>5 DEF StartWatch, WatchEnds, WatchQuiet
  <2>2. added = 0 /\ window = before
    BY <1>1, <2>1 DEF WindowNow
  <2>3. WindowNow'
    BY <1>1, <2>1, <2>2 DEF WindowNow
  <2> QED BY <1>4, <2>3 DEF WatchInv
<1>6. CASE AllResolved
  <2>1. /\ watchAt = "resolve" /\ resolved = Len(names) /\ window' = window
        /\ watchAt' = IF errors THEN "refused" ELSE "clear"
    BY <1>6 DEF AllResolved, WatchEnds, WatchQuiet
  <2>2. added = 0 /\ window = before
    BY <1>1, <2>1 DEF WindowNow
  <2>3. \/ errors = FALSE /\ watchAt' = "clear"
        \/ errors = TRUE /\ watchAt' = "refused"
    <3>1. errors \in BOOLEAN
      BY <1>1 DEF WatchType
    <3> QED BY <2>1, <3>1
  <2>4. WindowNow'
    BY <1>1, <2>1, <2>2, <2>3 DEF WindowNow
  <2> QED BY <1>4, <2>4 DEF WatchInv
<1>7. CASE ClearWatch
  <2>1. /\ watchAt = "clear" /\ errors = FALSE /\ resolved = Len(names) /\ added = 0
        /\ \/ watchAt' = "add" /\ window' = <<>>
           \/ watchAt' = "failed"
    BY <1>1, <1>7 DEF ClearWatch, WatchEnds, WindowNow
  <2>2. Len(paths) \in Nat
    BY <1>1, LenProperties DEF WatchType
  <2>3. WindowNow'
    BY <1>1, <2>1, <2>2, EmptySeq DEF WindowNow
  <2> QED BY <1>4, <2>3 DEF WatchInv
<1>8. CASE ShowWatch
  <2>1. /\ watchAt = "add" /\ added = Len(paths) /\ UNCHANGED window
        /\ watchAt' \in {"done", "failed"}
    BY <1>8 DEF ShowWatch, WatchEnds, WatchQuiet
  <2>2. /\ errors = FALSE /\ resolved = Len(names)
        /\ Len(window) = added /\ \A k \in 1 .. added : window[k] = paths[k]
    BY <1>1, <2>1 DEF WindowNow
  <2>3. Len(paths) = resolved /\ \A k \in 1 .. resolved : paths[k] = names[k]
    BY <1>1, <2>2 DEF PathsOfNames
  <2>4. window = names
    <3>1. window \in Seq(WatchNames) /\ names \in Seq(WatchNames)
      BY <1>1 DEF WatchType
    <3>2. Len(window) = Len(names) /\ \A k \in 1 .. Len(window) : window[k] = names[k]
      BY <2>1, <2>2, <2>3
    <3> QED BY <3>1, <3>2, SeqEqual
  <2>5. WindowNow'
    BY <1>1, <2>1, <2>4 DEF WindowNow
  <2> QED BY <1>4, <2>5 DEF WatchInv
<1> QED BY <1>4, <1>5, <1>6, <1>7, <1>8 DEF WatchInv

(* When `debug watch` succeeds the window has exactly the registers named, *)
(* in that order, and when it says that the window was not changed, it was *)
(* not, for any number of names (watch in debug/commands.rs).              *)
THEOREM WatchedAsNamed ==
  ASSUME WatchAssumption PROVE WatchSpec => []WatchExactly
<1>1. WatchInit => WatchInv
  BY WatchInitOk
<1>2. WatchInv /\ [WatchNext]_watchVars => WatchInv'
  <2> SUFFICES ASSUME WatchInv, [WatchNext]_watchVars PROVE WatchInv'
    OBVIOUS
  <2>1. CASE ResolveName
    BY <2>1, ResolveNameOk
  <2>2. CASE AddWatch
    BY <2>2, AddWatchOk
  <2>3. CASE StartWatch \/ AllResolved \/ ClearWatch \/ ShowWatch
    BY <2>3, OtherWatchStepsOk
  <2>4. CASE UNCHANGED watchVars
    BY <2>4 DEF watchVars, WatchInv, WatchType, PathsOfNames, WindowNow
  <2> QED BY <2>1, <2>2, <2>3, <2>4 DEF WatchNext
<1>3. WatchInv => WatchExactly
  BY DEF WatchInv, WindowNow, WatchExactly
<1> QED BY <1>1, <1>2, <1>3, PTL DEF WatchSpec

-----------------------------------------------------------------------------
(***************************************************************************)
(* open.                                                                   *)

PvSteps ==
  {"port", "verify", "spawn", "poll", "connect", "rcl", "toolbar", "script", "returned"}

PvType ==
  /\ pvAt \in [Tools -> PvSteps]
  /\ outcome \in [Tools -> {"none", "reused", "started", "error"}]
  /\ child \in [Tools -> {"none", "running"} \cup Exited]
  /\ answered \in [Tools -> BOOLEAN]

(* What a run knows, by the step it is at.                                 *)
RunKnows(t) ==
  /\ pvAt[t] \in {"port", "verify", "spawn"} => child[t] = "none"
  /\ pvAt[t] \in {"poll", "connect", "rcl", "toolbar", "script"} => t \notin failures
  /\ pvAt[t] \in {"toolbar", "script"} => answered[t] = TRUE
  /\ outcome[t] # "none" => pvAt[t] = "returned"
  /\ outcome[t] = "reused" => child[t] = "none"
  /\ outcome[t] = "started" => answered[t] = TRUE /\ t \notin failures
  /\ t \in failures => pvAt[t] = "returned"

PvInv == PvType /\ \A t \in Tools : RunKnows(t)

(* Only the run that acts changes what it knows.                           *)
OnlyRun(t) ==
  \A u \in Tools \ {t} :
    /\ pvAt'[u] = pvAt[u] /\ outcome'[u] = outcome[u] /\ child'[u] = child[u]
    /\ answered'[u] = answered[u] /\ (u \in failures' <=> u \in failures)

(* A step that keeps what its own run knows keeps what all know.           *)
LEMMA OneRunActs ==
  ASSUME PvInv, NEW t \in Tools, OnlyRun(t), PvType', RunKnows(t)'
  PROVE  PvInv'
<1>1. ASSUME NEW u \in Tools PROVE RunKnows(u)'
  <2>1. CASE u = t
    BY <2>1
  <2>2. CASE u # t
    <3>1. RunKnows(u)
      BY DEF PvInv
    <3>2. /\ pvAt'[u] = pvAt[u] /\ outcome'[u] = outcome[u] /\ child'[u] = child[u]
          /\ answered'[u] = answered[u] /\ (u \in failures' <=> u \in failures)
      BY <2>2 DEF OnlyRun
    <3> QED BY <3>1, <3>2 DEF RunKnows
  <2> QED BY <2>1, <2>2
<1> QED BY <1>1 DEF PvInv

(* Every step of a run keeps the invariant.                                *)
LEMMA RunActs ==
  ASSUME PvInv, NEW t \in Tools,
         \/ CheckPort(t) \/ VerifyRunning(t) \/ Spawn(t) \/ Poll(t) \/ Connect(t)
         \/ VerifyStarted(t) \/ ConnectToolbar(t) \/ InstallToolbar(t)
  PROVE  PvInv'
<1>1. PvType /\ RunKnows(t)
  BY DEF PvInv
<1>2. CASE CheckPort(t)
  <2>1. OnlyRun(t) /\ PvType'
    BY <1>1, <1>2 DEF CheckPort, PvGoes, PvEnvironment, OnlyRun, PvType, PvSteps
  <2>2. RunKnows(t)'
    BY <1>1, <1>2 DEF CheckPort, PvGoes, PvEnvironment, RunKnows, PvType
  <2> QED BY <2>1, <2>2, OneRunActs
<1>3. CASE VerifyRunning(t)
  <2>1. OnlyRun(t) /\ PvType'
    BY <1>1, <1>3 DEF VerifyRunning, PvReturns, PvFails, PvGoes, PvEnvironment,
                       OnlyRun, PvType, PvSteps
  <2>2. RunKnows(t)'
    BY <1>1, <1>3 DEF VerifyRunning, PvReturns, PvFails, PvGoes, PvEnvironment, RunKnows, PvType
  <2> QED BY <2>1, <2>2, OneRunActs
<1>4. CASE Spawn(t)
  <2>1. OnlyRun(t) /\ PvType'
    BY <1>1, <1>4 DEF Spawn, PvReturns, PvFails, PvGoes, OnlyRun, PvType, PvSteps
  <2>2. RunKnows(t)'
    BY <1>1, <1>4 DEF Spawn, PvReturns, PvFails, PvGoes, RunKnows, PvType
  <2> QED BY <2>1, <2>2, OneRunActs
<1>5. CASE Poll(t)
  <2>1. OnlyRun(t) /\ PvType'
    BY <1>1, <1>5 DEF Poll, PvReturns, PvFails, PvGoes, PvEnvironment, OnlyRun, PvType, PvSteps
  <2>2. RunKnows(t)'
    BY <1>1, <1>5 DEF Poll, PvReturns, PvFails, PvGoes, PvEnvironment, RunKnows, PvType
  <2> QED BY <2>1, <2>2, OneRunActs
<1>6. CASE Connect(t)
  <2>1. OnlyRun(t) /\ PvType'
    BY <1>1, <1>6 DEF Connect, PvGoes, PvEnvironment, OnlyRun, PvType, PvSteps
  <2>2. RunKnows(t)'
    BY <1>1, <1>6 DEF Connect, PvGoes, PvEnvironment, RunKnows, PvType
  <2> QED BY <2>1, <2>2, OneRunActs
<1>7. CASE VerifyStarted(t)
  <2>1. OnlyRun(t) /\ PvType'
    BY <1>1, <1>7 DEF VerifyStarted, PvGoes, PvEnvironment, OnlyRun, PvType, PvSteps
  <2>2. RunKnows(t)'
    BY <1>1, <1>7 DEF VerifyStarted, PvGoes, PvEnvironment, RunKnows, PvType
  <2> QED BY <2>1, <2>2, OneRunActs
<1>8. CASE ConnectToolbar(t)
  <2>1. OnlyRun(t) /\ PvType'
    BY <1>1, <1>8 DEF ConnectToolbar, PvReturns, PvFails, PvGoes, PvEnvironment,
                       OnlyRun, PvType, PvSteps
  <2>2. RunKnows(t)'
    BY <1>1, <1>8 DEF ConnectToolbar, PvReturns, PvFails, PvGoes, PvEnvironment, RunKnows,
       PvType
  <2> QED BY <2>1, <2>2, OneRunActs
<1>9. CASE InstallToolbar(t)
  <2>1. OnlyRun(t) /\ PvType'
    BY <1>1, <1>9 DEF InstallToolbar, PvReturns, PvFails, PvGoes, PvEnvironment,
                       OnlyRun, PvType, PvSteps
  <2>2. RunKnows(t)'
    BY <1>1, <1>9 DEF InstallToolbar, PvReturns, PvFails, PvGoes, PvEnvironment, RunKnows,
       PvType
  <2> QED BY <2>1, <2>2, OneRunActs
<1> QED BY <1>2, <1>3, <1>4, <1>5, <1>6, <1>7, <1>8, <1>9

(* A child exits after it was spawned.                                     *)
LEMMA ChildActs ==
  ASSUME PvInv, NEW t \in Tools, PowerViewUp(t) \/ LauncherExits(t) \/ PowerViewExits(t)
  PROVE  PvInv'
<1>1. PvType /\ RunKnows(t) /\ UNCHANGED <<pvAt, outcome, answered, failures>>
  BY DEF PvInv, PvTool, PowerViewUp, LauncherExits, PowerViewExits
<1>2. \/ child' = child
      \/ child[t] = "running" /\ \E exit \in Exited : child' = [child EXCEPT ![t] = exit]
  BY DEF PowerViewUp, LauncherExits, PowerViewExits, Exited
<1>3. OnlyRun(t) /\ PvType'
  BY <1>1, <1>2 DEF OnlyRun, PvType
<1>4. child'[t] = "none" <=> child[t] = "none"
  BY <1>1, <1>2 DEF PvType, Exited
<1>5. RunKnows(t)'
  BY <1>1, <1>4 DEF RunKnows
<1> QED BY <1>3, <1>5, OneRunActs

(* A run that says it reused a PowerView has started none, and one that    *)
(* says it started one had an answer after that, and found no exit with an *)
(* error at any poll, for any number of runs at once and any program on    *)
(* the port (start_powerview_with, wait_for_powerview, install_toolbar).   *)
THEOREM StartsAreHonest == PvSpec => []StartIsHonest
<1>1. PvInit => PvInv
  BY DEF PvInit, PvInv, PvType, PvSteps, RunKnows
<1>2. PvInv /\ [PvNext]_pvVars => PvInv'
  <2> SUFFICES ASSUME PvInv, [PvNext]_pvVars PROVE PvInv'
    OBVIOUS
  <2>1. ASSUME NEW t \in Tools,
               \/ CheckPort(t) \/ VerifyRunning(t) \/ Spawn(t) \/ Poll(t) \/ Connect(t)
               \/ VerifyStarted(t) \/ ConnectToolbar(t) \/ InstallToolbar(t)
        PROVE  PvInv'
    BY <2>1, RunActs
  <2>2. ASSUME NEW t \in Tools, PowerViewUp(t) \/ LauncherExits(t) \/ PowerViewExits(t)
        PROVE  PvInv'
    BY <2>2, ChildActs
  <2>3. CASE ForeignLeaves \/ UNCHANGED pvVars
    BY <2>3 DEF ForeignLeaves, PvTool, pvVars, PvInv, PvType, RunKnows
  <2> QED BY <2>1, <2>2, <2>3 DEF PvNext
<1>3. PvInv => StartIsHonest
  BY DEF PvInv, RunKnows, StartIsHonest
<1> QED BY <1>1, <1>2, <1>3, PTL DEF PvSpec

-----------------------------------------------------------------------------
(***************************************************************************)
(* Sessions of the library.                                                *)

(* Conditions that count as taken are of after the latest operation that   *)
(* changed the target, or the session has warned since; an operation that  *)
(* changes the target has dropped them, and they are never kept from one   *)
(* check of a running core to another.                                     *)
Taken == warned \/ "operation" \notin since

SnapshotIsCurrent ==
  /\ target_state \in TargetStates
  /\ snapshot # "none" => Taken
  /\ opAt \in {"change", "return"} => snapshot = "none"
  /\ opAt = "per" =>
       /\ Taken /\ (warned \/ "operation" \notin kept_since)
       /\ state_told # "running" \/ warned \/ (kept_since = {} /\ since \cap Own = {})
  /\ \/ read_at.warned
     \/ "operation" \notin read_at.since /\ (read_at.state = "running" => read_at.since = {})

(* RAM is reached by ranges that ram_length accepts.                       *)
RangeAccepted ==
  \/ accessed = {}
  \/ \E address, length \in Nat :
       /\ accessed = address .. address + length - 1
       /\ length > 0 /\ length <= MaxRead /\ length % 4 = 0
       /\ address % 4 = 0 /\ address + length < RamSize

BackendInv == SnapshotIsCurrent /\ RangeAccepted

(* What ram_length accepts.                                                *)
LEMMA RamLengthAccepts ==
  ASSUME BackendAssumption, NEW address \in RamAddresses, NEW count \in Nat,
         RamLength(address, count) # 0
  PROVE  LET length == RamLength(address, count) IN
         /\ length \in Nat /\ length > 0 /\ length <= MaxRead /\ length % 4 = 0
         /\ address \in Nat /\ address % 4 = 0 /\ address + length < RamSize
<1>1. address \in Nat /\ MaxRead \in Nat /\ RamSize \in Nat
  BY DEF BackendAssumption
<1> DEFINE l == 4 * count
<1>2. l \in Nat /\ l % 4 = 0
  OBVIOUS
<1>3. /\ RamLength(address, count) = l
      /\ l # 0 /\ ~(l > MaxRead) /\ address % 4 = 0 /\ ~(address + l >= RamSize)
  BY DEF RamLength
<1> HIDE DEF l
<1> QED BY <1>1, <1>2, <1>3

(* No step leaves a snapshot from before an operation that changed the     *)
(* target.                                                                 *)
LEMMA SnapshotStepOk ==
  ASSUME SnapshotIsCurrent, [BackendNext]_backendVars
  PROVE  SnapshotIsCurrent'
<1> USE DEF SnapshotIsCurrent, Taken, Own, outsideVars, snapshotVars
<1>1. CASE Change \/ SetImages \/ Read
  <2>1. /\ opAt' \in {"idle", "change", "ensure", "read"}
        /\ target_state' = target_state /\ warned' = warned /\ since' = since
        /\ read_at' = NotRead
        /\ snapshot' = "none" \/ (snapshot' = snapshot /\ opAt' # "change")
    BY <1>1 DEF Change, SetImages, Read, Called
  <2>2. read_at'.since = {}
    BY <2>1 DEF NotRead
  <2> QED BY <2>1, <2>2
<1>2. CASE Resume \/ ChangeTarget \/ ChangeReturns
  BY <1>2 DEF Resume, ChangeTarget, ChangeReturns, Returns, TargetStates
<1>3. CASE Ensure
  BY <1>3 DEF Ensure, Returns, TargetStates
<1>4. CASE SetConditions
  BY <1>4 DEF SetConditions, Returns
<1>5. CASE ReadPer
  BY <1>5 DEF ReadPer, Returns, TargetStates, Changed, Seen
<1>6. CASE ReadReturns \/ Ram
  <2>1. /\ opAt' = opAt \/ opAt' = "idle"
        /\ UNCHANGED <<snapshotVars, outsideVars, read_at>>
    BY <1>6 DEF ReadReturns, Returns, Ram
  <2> QED BY <2>1
<1>7. CASE StrangersMove \/ LateChange
  BY <1>7 DEF StrangersMove, LateChange, Changed, Seen
<1>8. CASE UNCHANGED backendVars
  BY <1>8 DEF backendVars
<1> QED BY <1>1, <1>2, <1>3, <1>4, <1>5, <1>6, <1>7, <1>8 DEF BackendNext

(* Every range that is reached was accepted.                               *)
LEMMA RangeStepOk ==
  ASSUME BackendAssumption, RangeAccepted, [BackendNext]_backendVars
  PROVE  RangeAccepted'
<1>1. CASE Ram
  <2>1. PICK address \in RamAddresses, count \in RamCounts, write \in BOOLEAN :
          LET length == RamLength(address, IF write THEN 1 ELSE count) IN
          IF length = 0 THEN accessed' = {}
          ELSE accessed' = address .. address + length - 1
    BY <1>1 DEF Ram
  <2> DEFINE n == IF write THEN 1 ELSE count
             length == RamLength(address, n)
  <2>2. n \in Nat
    BY DEF BackendAssumption
  <2>3. CASE length = 0
    BY <2>1, <2>3 DEF RangeAccepted
  <2>4. CASE length # 0
    <3>1. accessed' = address .. address + length - 1
      BY <2>1, <2>4
    <3>2. /\ length \in Nat /\ length > 0 /\ length <= MaxRead /\ length % 4 = 0
          /\ address \in Nat /\ address % 4 = 0 /\ address + length < RamSize
      BY <2>2, <2>4, RamLengthAccepts
    <3> HIDE DEF length
    <3> QED BY <3>1, <3>2 DEF RangeAccepted
  <2> QED BY <2>3, <2>4
<1>2. CASE Change \/ SetImages \/ Read
  BY <1>2 DEF Change, SetImages, Read, Called, RangeAccepted
<1>3. CASE accessed' = accessed
  BY <1>3 DEF RangeAccepted
<1>4. Ram \/ Change \/ SetImages \/ Read \/ accessed' = accessed
  BY DEF BackendNext, Resume, ChangeTarget, ChangeReturns, Ensure, SetConditions, ReadPer,
         ReadReturns, StrangersMove, LateChange, backendVars
<1> QED BY <1>1, <1>2, <1>3, <1>4

(* An accepted range is whole words of memory that exists.                 *)
LEMMA RangeIsWords ==
  ASSUME BackendAssumption, RangeAccepted, accessed # {}
  PROVE  /\ Cardinality(accessed) <= MaxRead /\ Cardinality(accessed) % 4 = 0
         /\ accessed \subseteq 0 .. RamSize - 1 /\ \E a \in accessed : a % 4 = 0
<1>1. PICK address \in Nat, length \in Nat :
        /\ accessed = address .. address + length - 1
        /\ length > 0 /\ length <= MaxRead /\ length % 4 = 0
        /\ address % 4 = 0 /\ address + length < RamSize
  BY DEF RangeAccepted
<1>2. RamSize \in Nat
  BY DEF BackendAssumption
<1>3. Cardinality(accessed) = length
  <2>1. address \in Int /\ address + length - 1 \in Int /\ ~(address > address + length - 1)
    BY <1>1
  <2>2. (address + length - 1) - address + 1 = length
    OBVIOUS
  <2>3. Cardinality(address .. address + length - 1)
          = (address + length - 1) - address + 1
    BY <2>1, FS_Interval
  <2> QED BY <1>1, <2>2, <2>3
<1>4. accessed \subseteq 0 .. RamSize - 1
  BY <1>1, <1>2
<1>5. address \in accessed
  BY <1>1
<1> QED BY <1>1, <1>3, <1>4, <1>5

(* A variant that no check names is refused, so that checks of some        *)
(* variant never pass for having none selected (check_names).              *)
LEMMA VariantsAreNamed ==
  ASSUME BackendAssumption, NEW list, NEW variant \in VariantNames,
         CheckNames(list, variant) # {0}, \E i \in DOMAIN list : list[i] # AnyVariant
  PROVE  \E i \in CheckNames(list, variant) : list[i] # AnyVariant
<1> DEFINE named(i) == list[i] # AnyVariant /\ variant # AnyVariant /\ variant \in list[i]
<1>1. variant # AnyVariant
  BY DEF BackendAssumption
<1>2. \E i \in DOMAIN list : named(i)
  BY <1>1 DEF CheckNames
<1>3. CheckNames(list, variant) = {i \in DOMAIN list : list[i] = AnyVariant \/ named(i)}
  BY <1>2 DEF CheckNames
<1> QED BY <1>2, <1>3

(* No register is read under conditions from before the latest operation   *)
(* of the session that changed the target, however it ended, unless        *)
(* PER.Set.CONDitions failed since and the session warned; those of a      *)
(* running core are taken anew, or with that warning; RAM is reached in    *)
(* whole words within the address space and the limit; and a variant in no *)
(* check selects nothing; for any number of operations, any lists of       *)
(* checks and any size of the memory (Session, ram_length and check_names  *)
(* in backend.rs, PerSnapshot in probe.rs).                                *)
THEOREM SessionsReadCurrentTarget ==
  ASSUME BackendAssumption PROVE BackendSpec => []SessionReadsCurrentTarget
<1>1. BackendInit => BackendInv
  BY DEF BackendInit, BackendInv, SnapshotIsCurrent, Taken, NotRead, RangeAccepted
<1>2. BackendInv /\ [BackendNext]_backendVars => BackendInv'
  BY SnapshotStepOk, RangeStepOk DEF BackendInv
<1>3. BackendInv => SessionReadsCurrentTarget
  <2> SUFFICES ASSUME BackendInv PROVE SessionReadsCurrentTarget
    OBVIOUS
  <2>1. /\ RangeAccepted
        /\ \/ read_at.warned
           \/ /\ "operation" \notin read_at.since
              /\ read_at.state = "running" => read_at.since = {}
    BY DEF BackendInv, SnapshotIsCurrent
  <2>2. accessed # {} =>
          /\ Cardinality(accessed) <= MaxRead /\ Cardinality(accessed) % 4 = 0
          /\ accessed \subseteq 0 .. RamSize - 1 /\ \E a \in accessed : a % 4 = 0
    BY <2>1, RangeIsWords
  <2>3. \A list \in CheckLists, variant \in VariantNames :
          CheckNames(list, variant) # {0} /\ (\E i \in DOMAIN list : list[i] # AnyVariant) =>
            \E i \in CheckNames(list, variant) : list[i] # AnyVariant
    BY VariantsAreNamed
  <2> QED BY <2>1, <2>2, <2>3 DEF SessionReadsCurrentTarget
<1> QED BY <1>1, <1>2, <1>3, PTL DEF BackendSpec

(***************************************************************************)
(* The configuration.                                                      *)

ListSettings == {"extra_elf", "flash_args"}
Seconds == {"dap_backend_timeout", "operation_timeout"}
TextSettings ==
  {"elf", "program", "sys", "host", "executable", "binary", "config", "debug_adapter", "cpu",
   "cores", "mem_access", "jtag_clock", "dual_port", "rtos_config", "rtos_menu", "flash_chip",
   "flash_script", "rtt_symbol", "control_block_address"}

(* Which settings are of which kind.                                       *)
LEMMA SettingKinds ==
  /\ SettingNames = TextSettings \cup ListSettings \cup Ports \cup Seconds
                      \cup {"show_tasks", "poll_interval"}
  /\ \A name \in TextSettings : Settings[name].kind = "text"
  /\ \A name \in ListSettings : Settings[name].kind = "list"
  /\ \A name \in Ports \cup Seconds : Settings[name].kind = "integer"
  /\ Settings["show_tasks"].kind = "boolean" /\ Settings["poll_interval"].kind = "number"
<1>1. SettingNames = TextSettings \cup ListSettings \cup Ports \cup Seconds
                      \cup {"show_tasks", "poll_interval"}
  BY DEF SettingNames, Settings, TextSettings, ListSettings, Ports, Seconds
<1>2. \A name \in TextSettings : Settings[name].kind = "text"
  BY DEF Settings, TextSettings, Setting, Free
<1>3. \A name \in ListSettings : Settings[name].kind = "list"
  BY DEF Settings, ListSettings, Setting
<1>4. \A name \in Ports \cup Seconds : Settings[name].kind = "integer"
  BY DEF Settings, Ports, Seconds, Port, Setting
<1>5. Settings["show_tasks"].kind = "boolean" /\ Settings["poll_interval"].kind = "number"
  <2>1. Settings["show_tasks"].kind = "boolean"
    BY DEF Settings, Free, Setting
  <2>2. Settings["poll_interval"].kind = "number"
    BY DEF Settings, Free, Setting
  <2> QED BY <2>1, <2>2
<1> QED BY <1>1, <1>2, <1>3, <1>4, <1>5

(* The default of a setting has a type the setting may have.               *)
LEMMA DefaultValues ==
  \A name \in SettingNames :
    /\ Settings[name].default \in Values
    /\ Settings[name].default.type \in Types[Settings[name].kind]
<1>1. \A name \in TextSettings : Settings[name].default \in {Empty, Str("plain")}
  BY DEF Settings, TextSettings, Setting, Free
<1>2. \A name \in ListSettings : Settings[name].default = List("empty")
  BY DEF Settings, ListSettings, Setting
<1>3. \A name \in Ports \cup Seconds : \E n \in Int : Settings[name].default = Int64(n)
  BY DEF Settings, Ports, Seconds, Port, Setting
<1>4. /\ Settings["show_tasks"].default = [type |-> "boolean", is |-> "false", number |-> 0]
      /\ Settings["poll_interval"].default = [type |-> "float", is |-> "number", number |-> 1]
  BY DEF Settings, Free, Setting
<1>5. \A n \in Int : Int64(n) \in Values /\ Int64(n).type \in Types["integer"]
  <2>1. \A n \in Int : Int64(n) \in [type : {"integer", "float"}, is : {"number"}, number : Int]
    BY DEF Int64
  <2> QED BY <2>1 DEF Values, Types, Int64
<1>6. /\ {Empty, Str("plain")} \subseteq TextValues
      /\ \A v \in {Empty, Str("plain")} : v.type \in Types["text"]
  BY DEF TextValues, TextKinds, Types, Empty, Str
<1>7. List("empty") \in Values /\ List("empty").type \in Types["list"]
  BY DEF Values, Types, List
<1>8. \A name \in TextSettings :
        Settings[name].default \in Values /\ Settings[name].default.type \in Types["text"]
  BY <1>1, <1>6 DEF Values
<1>9. \A name \in ListSettings :
        Settings[name].default \in Values /\ Settings[name].default.type \in Types["list"]
  BY <1>2, <1>7
<1>10. \A name \in Ports \cup Seconds :
         Settings[name].default \in Values /\ Settings[name].default.type \in Types["integer"]
  BY <1>3, <1>5
<1>11. /\ Settings["show_tasks"].default \in Values
       /\ Settings["show_tasks"].default.type \in Types["boolean"]
  BY <1>4 DEF Values, Types
<1>12. /\ Settings["poll_interval"].default \in Values
       /\ Settings["poll_interval"].default.type \in Types["number"]
  BY <1>4 DEF Values, Types
<1> QED BY <1>8, <1>9, <1>10, <1>11, <1>12, SettingKinds

(* Of which form a value is, by its type.                                  *)
LEMMA ValueFacts ==
  ASSUME NEW v \in Values
  PROVE  /\ v.type \in {"string", "integer", "float", "boolean", "array"} /\ v.number \in Int
         /\ v.type = "string" => v \in TextValues /\ v.is \in TextKinds \cup {"number"}
         /\ v.type \in {"integer", "float"} => v.is = "number"
         /\ v.type = "boolean" => v.is \in {"true", "false"}
         /\ v.type = "array" => v.is \in {"empty", "plain", "quoted", "mixed"}
         /\ "in" \notin DOMAIN v
<1>1. CASE v \in [type : {"string"}, is : TextKinds, number : {0}]
  BY <1>1 DEF TextValues
<1>2. CASE v \in [type : {"string"}, is : {"number"}, number : Int]
  BY <1>2 DEF TextValues
<1>3. CASE v \in [type : {"integer", "float"}, is : {"number"}, number : Int]
  BY <1>3
<1>4. CASE v \in [type : {"boolean"}, is : {"true", "false"}, number : {0}]
  BY <1>4
<1>5. CASE v \in [type : {"array"}, is : {"empty", "plain", "quoted", "mixed"}, number : {0}]
  BY <1>5
<1> QED BY <1>1, <1>2, <1>3, <1>4, <1>5 DEF Values, TextValues

(* Whatever wins is a value, and a text if a variable wins.                *)
LEMMA WinningIsValue ==
  ASSUME CfgAssumption, cfgInput \in CfgInputs, NEW name \in SettingNames
  PROVE  /\ InFile(name) \in Values /\ Winning(name) \in Values
         /\ FromEnvironment(name) => Winning(name) \in TextValues
         /\ ~FromEnvironment(name) => Winning(name) = InFile(name)
<1>1. /\ \A n \in DOMAIN Document : Document[n] \in Values
      /\ \A n \in DOMAIN Environment : Environment[n] \in TextValues
  BY DEF CfgAssumption, Document, Environment
<1>2. InFile(name) \in Values
  BY <1>1, DefaultValues DEF InFile
<1>3. FromEnvironment(name) => Settings[name].variable \in DOMAIN Environment
  BY DEF FromEnvironment, IsSet, Filled
<1>4. FromEnvironment(name) => Winning(name) \in TextValues
  BY <1>1, <1>3 DEF Winning
<1>5. TextValues \subseteq Values
  BY DEF Values
<1> QED BY <1>2, <1>4, <1>5 DEF Winning

(* ShlexSplit fails on an open quotation only and keeps quotation marks.   *)
LEMMA SplitIsBroken ==
  ASSUME NEW v \in Values, v.type \in {"string", "array"}
  PROVE  /\ ShlexSplit(v).is \in {"broken", "mixed"} <=> v.is \in {"open", "mixed"}
         /\ ShlexSplit(v) = Broken <=> v.is = "open"
         /\ HasMark(ShlexSplit(v)) <=> v = List("quoted") \/ v.is = "escaped"
<1>1. CASE v.type = "array"
  <2>1. ShlexSplit(v) = v
    BY <1>1 DEF ShlexSplit
  <2>2. v.is \in {"empty", "plain", "quoted", "mixed"} /\ v # Broken
    BY <1>1, ValueFacts DEF Broken, List
  <2>3. v.is = "quoted" => v = List("quoted")
    BY <1>1 DEF Values, TextValues, List
  <2> QED BY <2>1, <2>2, <2>3 DEF HasMark, List
<1>2. CASE v.type = "string"
  <2>1. v.is \in TextKinds \cup {"number"}
    BY <1>2, ValueFacts
  <2>2. v # List("quoted")
    BY <1>2 DEF List
  <2>3. ShlexSplit(v) = IF v.is = "empty" THEN List("empty") ELSE IF v.is = "open" THEN Broken
          ELSE IF v.is = "escaped" THEN List("quoted") ELSE List("plain")
    BY <1>2, <2>1 DEF ShlexSplit, TextKinds
  <2> QED BY <2>1, <2>2, <2>3 DEF Broken, List, HasMark, TextKinds
<1> QED BY <1>1, <1>2

(* The file's value of a setting has a type that the setting takes, unless *)
(* the setting is in the file.                                             *)
LEMMA UntypedIsRefusable ==
  ASSUME NEW name \in SettingNames, InFile(name).type \notin Types[Settings[name].kind]
  PROVE  name \in DOMAIN Document /\ Document[name].type \notin Types[Settings[name].kind]
  BY DefaultValues DEF InFile

(* A value that cannot be read is one to refuse.                           *)
LEMMA UnreadableIsRefusable ==
  ASSUME CfgAssumption, cfgInput \in CfgInputs, NEW name \in SettingNames, ~Readable(name)
  PROVE  Refusable(name)
<1>1. CASE InFile(name).type \notin Types[Settings[name].kind]
  BY <1>1, UntypedIsRefusable DEF Refusable
<1>2. CASE InFile(name).type \in Types[Settings[name].kind] /\ Settings[name].kind = "list"
  <2>1. InFile(name).type \in {"string", "array"}
    BY <1>2 DEF Types
  <2>2. Winning(name).type \in {"string", "array"}
    <3>1. \A v \in TextValues : v.type = "string"
      BY DEF TextValues
    <3> QED BY <2>1, <3>1, WinningIsValue
  <2>3. InFile(name).is \in {"open", "mixed"} \/ Winning(name).is = "open"
    BY <1>2, <2>1, <2>2, WinningIsValue, SplitIsBroken DEF Readable, WellTyped
  <2> QED BY <1>2, <2>3 DEF Refusable
<1>3. CASE InFile(name).type \in Types[Settings[name].kind] /\ Settings[name].kind # "list"
  <2>1. Settings[name].kind = "integer" /\ Winning(name).is # "number"
    BY <1>3 DEF Readable, WellTyped
  <2>2. name \in Ports \cup Seconds
    BY <2>1, SettingKinds
  <2> QED BY <2>1, <2>2 DEF Refusable, Seconds
<1> QED BY <1>1, <1>2, <1>3

(* What the three checks of the values let pass.                           *)
ValuesPass ==
  /\ \A name \in SettingNames : Readable(name)
  /\ Winning("host") = Empty => cfgInput.known_system
  /\ LET address == InFile("control_block_address")
     IN  address = Empty \/ (address.is = "number" /\ address.number >= 0)
NumbersPass ==
  /\ settings.program # Empty
  /\ \A name \in Ports : settings[name].number \in PortNumbers
  /\ settings.dap_port.number # settings.dap_backend_port.number
  /\ \A name \in {"dap_backend_timeout", "operation_timeout", "poll_interval"} :
       settings[name].number > 0
MarksPass ==
  /\ ~cfgInput.quoted_place
  /\ \A name \in {"program", "elf", "cpu", "cores", "mem_access", "jtag_clock", "dual_port",
                  "rtos_config", "rtos_menu", "flash_script", "flash_args"} :
       ~HasMark(settings[name])

(* No variable overrides the address of the control block.                 *)
LEMMA AddressFromFile == Winning("control_block_address") = InFile("control_block_address")
<1>1. Settings["control_block_address"].wins = "never"
  BY DEF Settings, Free, Setting
<1> QED BY <1>1 DEF Winning, FromEnvironment

(* The settings that the checks look at.                                   *)
LEMMA LoadedValues ==
  ASSUME settings = Loaded
  PROVE  /\ \A name \in Ports \cup Seconds \cup {"poll_interval", "program"} :
              settings[name] = Winning(name)
         /\ \A name \in CheckedValues \ {"elf", "flash_args"} : settings[name] = Winning(name)
         /\ settings["elf"].is = Winning("elf").is
         /\ settings["flash_args"] = ShlexSplit(Winning("flash_args"))
         /\ settings["elf"] = Relative(project_dir, Winning("elf"))
         /\ settings["extra_elf"] = Relative(project_dir, ShlexSplit(Winning("extra_elf")))
<1>1. \A name \in SettingNames : settings[name] =
        CASE name = "elf" -> Relative(project_dir, Winning(name))
          [] name = "extra_elf" -> Relative(project_dir, ShlexSplit(Winning(name)))
          [] name = "host" /\ Winning(name) = Empty -> Str("plain")
          [] name = "sys" /\ Sys = Empty -> Relative("home", Str("plain"))
          [] name = "sys" /\ Sys # Empty -> Relative("config", Sys)
          [] name \in {"binary", "config", "debug_adapter"} -> TracePath(name)
          [] name = "flash_args" -> ShlexSplit(Winning(name))
          [] OTHER -> Winning(name)
  BY DEF Loaded
<1>3. \A name \in SettingNames :
        name \notin {"elf", "extra_elf", "host", "sys", "binary", "config", "debug_adapter",
                     "flash_args"}
          => settings[name] = Winning(name)
  BY <1>1
<1>4. Ports \cup Seconds \cup {"poll_interval", "program"} \subseteq SettingNames
  BY SettingKinds DEF TextSettings
<1>5. \A name \in Ports \cup Seconds \cup {"poll_interval", "program"} :
        settings[name] = Winning(name)
  BY <1>3, <1>4 DEF Ports, Seconds, TextSettings
<1>6. /\ CheckedValues \ {"elf", "flash_args"} \subseteq TextSettings
      /\ TextSettings \subseteq SettingNames
  BY SettingKinds DEF CheckedValues, TextSettings
<1>7. \A name \in CheckedValues \ {"elf", "flash_args"} : settings[name] = Winning(name)
  BY <1>3, <1>6 DEF CheckedValues
<1>8. {"elf", "extra_elf", "flash_args"} \subseteq SettingNames
  BY SettingKinds DEF TextSettings, ListSettings
<1>9. settings["elf"] = Relative(project_dir, Winning("elf"))
  BY <1>1, <1>8
<1>10. settings["extra_elf"] = Relative(project_dir, ShlexSplit(Winning("extra_elf")))
  BY <1>1, <1>8
<1>11. settings["flash_args"] = ShlexSplit(Winning("flash_args"))
  BY <1>1, <1>8
<1>12. settings["elf"].is = Winning("elf").is
  BY <1>9 DEF Relative
<1> QED BY <1>5, <1>7, <1>9, <1>10, <1>11, <1>12

FilePass ==
  /\ cfgInput.toml = "ok" /\ cfgInput.not_tables = {}
  /\ \A value \in cfgInput.clocks : IsFrequency(value)
RootPass ==
  /\ ~cfgInput.has_root
  /\ Filled("PROJECT_ROOT") => Environment["PROJECT_ROOT"].is = "folder"

(* The clocks are numbers of Hz exactly if none is wrong.                  *)
LEMMA ClocksAreRight ==
  ASSUME CfgAssumption, cfgInput \in CfgInputs
  PROVE  (\A value \in cfgInput.clocks : IsFrequency(value)) <=>
           ~\E value \in cfgInput.clocks :
              value.is # "number" \/ value.number <= 0 \/ value.type = "float"
<1>1. ASSUME NEW v \in Values
      PROVE  IsFrequency(v) <=> ~(v.is # "number" \/ v.number <= 0 \/ v.type = "float")
  <2>1. /\ v.type \in {"string", "integer", "float", "boolean", "array"} /\ v.number \in Int
        /\ v.type \in {"integer", "float"} => v.is = "number"
        /\ v.type \in {"boolean", "array"} => v.is # "number"
    BY ValueFacts
  <2> QED BY <2>1 DEF IsFrequency
<1>2. cfgInput.clocks \subseteq Values
  BY DEF CfgAssumption
<1> QED BY <1>1, <1>2

(* The values as numbers and texts.                                        *)
LEMMA TextIsText ==
  ASSUME CfgAssumption, cfgInput \in CfgInputs, NEW name \in SettingNames, Readable(name)
  PROVE  /\ Settings[name].kind \in {"integer", "number"} =>
              Winning(name).is = "number" /\ Winning(name).number \in Int
         /\ Settings[name].kind = "list" => Winning(name).type \in {"string", "array"}
         /\ name \in DOMAIN Document => Document[name].type \in Types[Settings[name].kind]
<1>1. InFile(name).type \in Types[Settings[name].kind]
  BY DEF Readable, WellTyped
<1>2. \A v \in TextValues : v.type = "string"
  BY DEF TextValues
<1>3. Settings[name].kind = "list" => Winning(name).type \in {"string", "array"}
  BY <1>1, <1>2, WinningIsValue DEF Types
<1>4. Winning(name).number \in Int
  BY WinningIsValue, ValueFacts
<1>5. Settings[name].kind = "integer" => Winning(name).is = "number"
  BY DEF Readable
<1>6. ASSUME Settings[name].kind = "number" PROVE Winning(name).is = "number"
  <2>1. name = "poll_interval"
    BY <1>6, SettingKinds
  <2>2. ~FromEnvironment(name)
    BY <2>1 DEF FromEnvironment, Settings, Free, Setting
  <2>3. Winning(name).type \in {"integer", "float"}
    BY <1>1, <1>6, <2>2, WinningIsValue DEF Types
  <2> QED BY <2>3, WinningIsValue, ValueFacts
<1>7. name \in DOMAIN Document => Document[name].type \in Types[Settings[name].kind]
  BY <1>1 DEF InFile
<1> QED BY <1>3, <1>4, <1>5, <1>6, <1>7

(* A number that load_config refuses is a reason to refuse.                *)
LEMMA BadNumberIsWrong ==
  ASSUME CfgAssumption, cfgInput \in CfgInputs, settings = Loaded, ValuesPass, ~NumbersPass
  PROVE  Wrong
<1>1. Ports \cup Seconds \cup {"poll_interval", "program"} \subseteq SettingNames
  BY SettingKinds DEF TextSettings
<1>2. \A name \in Ports \cup Seconds \cup {"poll_interval", "program"} :
        settings[name] = Winning(name)
  BY LoadedValues
<1>3. \A name \in Ports \cup Seconds \cup {"poll_interval"} : Winning(name).number \in Int
  BY <1>1, SettingKinds, TextIsText DEF ValuesPass
<1>4. CASE settings.program = Empty
  BY <1>1, <1>2, <1>4 DEF Wrong, Refusable
<1>5. CASE \E name \in Ports : settings[name].number \notin PortNumbers
  <2>1. PICK name \in Ports : settings[name].number \notin PortNumbers
    BY <1>5
  <2>2. settings[name] = Winning(name) /\ name \in SettingNames
    BY <1>1, <1>2
  <2>3. Refusable(name)
    BY <2>1, <2>2 DEF Refusable
  <2> QED BY <2>2, <2>3 DEF Wrong
<1>6. CASE settings.dap_port.number = settings.dap_backend_port.number
  <2>1. {"dap_port", "dap_backend_port"} \subseteq Ports
    BY DEF Ports
  <2> QED BY <1>2, <1>6, <2>1 DEF Wrong
<1>7. CASE \E name \in Seconds \cup {"poll_interval"} : ~(settings[name].number > 0)
  <2>1. PICK name \in Seconds \cup {"poll_interval"} : ~(Winning(name).number > 0)
    BY <1>2, <1>7
  <2>2. Winning(name).number <= 0
    BY <1>3, <2>1
  <2> QED BY <1>1, <2>1, <2>2 DEF Wrong, Refusable, Seconds
<1>8. Seconds \cup {"poll_interval"} = {"dap_backend_timeout", "operation_timeout", "poll_interval"}
  BY DEF Seconds
<1> QED BY <1>4, <1>5, <1>6, <1>7, <1>8 DEF NumbersPass

(* So is a quotation mark that check_command_values finds.                 *)
LEMMA BadMarkIsWrong ==
  ASSUME CfgAssumption, cfgInput \in CfgInputs, settings = Loaded, ValuesPass, ~MarksPass
  PROVE  Wrong
<1>1. CheckedValues \ {"flash_args"} \subseteq TextSettings /\ CheckedValues \subseteq SettingNames
  BY SettingKinds DEF CheckedValues, TextSettings, ListSettings
<1>2. CASE cfgInput.quoted_place
  BY <1>2 DEF Wrong
<1>3. CASE \E name \in CheckedValues \ {"flash_args"} : HasMark(settings[name])
  <2>1. PICK name \in CheckedValues \ {"flash_args"} : HasMark(settings[name])
    BY <1>3
  <2>2. settings[name].is = Winning(name).is
    BY LoadedValues
  <2>3. HasMark(Winning(name))
    BY <2>1, <2>2 DEF HasMark
  <2> QED BY <1>1, <2>1, <2>3, SettingKinds DEF Wrong, Refusable
<1>4. CASE HasMark(settings["flash_args"])
  <2>1. "flash_args" \in SettingNames /\ Settings["flash_args"].kind = "list"
    BY SettingKinds DEF ListSettings
  <2>2. Winning("flash_args").type \in {"string", "array"} /\ Winning("flash_args") \in Values
    BY <2>1, TextIsText, WinningIsValue DEF ValuesPass
  <2>3. Winning("flash_args") = List("quoted") \/ Winning("flash_args").is = "escaped"
    BY <1>4, <2>2, LoadedValues, SplitIsBroken
  <2> QED BY <2>1, <2>3 DEF Wrong, Refusable
<1> QED BY <1>2, <1>3, <1>4 DEF MarksPass, CheckedValues

(* What passed all checks has no setting to refuse,                        *)
LEMMA PassedIsNotRefusable ==
  ASSUME CfgAssumption, cfgInput \in CfgInputs, settings = Loaded, ValuesPass, NumbersPass,
         MarksPass, NEW name \in SettingNames
  PROVE  ~Refusable(name)
<1>1. Readable(name)
  BY DEF ValuesPass
<1>2. ~(name \in DOMAIN Document /\ Document[name].type \notin Types[Settings[name].kind])
  BY <1>1, TextIsText
<1>3. name \in Ports => Winning(name).is = "number" /\ Winning(name).number \in PortNumbers
  <2>1. name \in Ports => Winning(name).number \in PortNumbers
    BY LoadedValues DEF NumbersPass
  <2> QED BY <1>1, <2>1, TextIsText, SettingKinds
<1>4. name \in Seconds \cup {"poll_interval"} =>
        Winning(name).is = "number" /\ ~(Winning(name).number <= 0)
  <2>1. name \in Seconds \cup {"poll_interval"} => Winning(name).number > 0
    BY LoadedValues DEF NumbersPass, Seconds
  <2>2. name \in Seconds \cup {"poll_interval"} =>
          Winning(name).is = "number" /\ Winning(name).number \in Int
    BY <1>1, TextIsText, SettingKinds
  <2> QED BY <2>1, <2>2
<1>5. ~(name \in CheckedValues /\ Settings[name].kind = "text" /\ HasMark(Winning(name)))
  <2> SUFFICES ASSUME name \in CheckedValues, Settings[name].kind = "text"
               PROVE  ~HasMark(Winning(name))
    OBVIOUS
  <2>1. name # "flash_args"
    BY SettingKinds DEF ListSettings
  <2>2. settings[name].is = Winning(name).is
    BY <2>1, LoadedValues
  <2>3. ~HasMark(settings[name])
    BY DEF MarksPass, CheckedValues
  <2> QED BY <2>2, <2>3 DEF HasMark
<1>6. ASSUME Settings[name].kind = "list"
      PROVE  ~\E given \in {InFile(name), Winning(name)} : given.is \in {"open", "mixed"}
  <2>1. InFile(name).type \in {"string", "array"} /\ Winning(name).type \in {"string", "array"}
    BY <1>1, <1>6, TextIsText DEF Readable, WellTyped, Types
  <2>2. InFile(name).is \notin {"open", "mixed"} /\ Winning(name).is # "open"
    BY <1>1, <1>6, <2>1, WinningIsValue, SplitIsBroken DEF Readable, WellTyped
  <2>3. Winning(name).is # "mixed"
    <3>1. \A v \in TextValues : v.is # "mixed"
      BY DEF TextValues, TextKinds
    <3> QED BY <2>2, <3>1, WinningIsValue
  <2> QED BY <2>2, <2>3
<1>7. ~(name = "flash_args" /\ (Winning(name) = List("quoted") \/ Winning(name).is = "escaped"))
  <2> SUFFICES ASSUME name = "flash_args"
               PROVE  ~(Winning(name) = List("quoted") \/ Winning(name).is = "escaped")
    OBVIOUS
  <2>1. Winning(name).type \in {"string", "array"} /\ Winning(name) \in Values
    BY <1>1, TextIsText, WinningIsValue, SettingKinds DEF ListSettings
  <2>2. ~HasMark(ShlexSplit(Winning(name)))
    BY LoadedValues DEF MarksPass
  <2> QED BY <2>1, <2>2, SplitIsBroken
<1>8. ~(name = "program" /\ Winning(name) = Empty)
  BY LoadedValues DEF NumbersPass
<1>9. ~(name = "host" /\ Winning(name) = Empty /\ ~cfgInput.known_system)
  BY DEF ValuesPass
<1>10. ~(name = "control_block_address" /\ Winning(name) # Empty
           /\ (Winning(name).is # "number" \/ Winning(name).number < 0))
  <2>1. InFile("control_block_address").number \in Int
    BY SettingKinds, WinningIsValue, ValueFacts DEF TextSettings
  <2>2. InFile("control_block_address") = Empty
          \/ /\ InFile("control_block_address").is = "number"
             /\ ~(InFile("control_block_address").number < 0)
    BY <2>1 DEF ValuesPass
  <2> QED BY <2>2, AddressFromFile
<1> QED
  BY <1>2, <1>3, <1>4, <1>5, <1>6, <1>7, <1>8, <1>9, <1>10 DEF Refusable, Seconds

(* and no other reason.                                                    *)
LEMMA PassedIsNotWrong ==
  ASSUME CfgAssumption, cfgInput \in CfgInputs, settings = Loaded,
         cfgInput.explicit = Absent => "file" \in ToSet(cfgInput.folders),
         FilePass, RootPass, ValuesPass, NumbersPass, MarksPass
  PROVE  ~Wrong
<1>1. \A name \in SettingNames : ~Refusable(name)
  BY PassedIsNotRefusable
<1>2. Winning("dap_port").number # Winning("dap_backend_port").number
  BY LoadedValues DEF NumbersPass, Ports
<1>3. ~cfgInput.quoted_place
  BY DEF MarksPass
<1> QED BY <1>1, <1>2, <1>3, ClocksAreRight DEF Wrong, FilePass, RootPass

FoundInv ==
  /\ level \in Nat /\ level <= Len(cfgInput.folders)
  /\ cfgAt = "find" =>
       /\ config_file = Absent
       /\ \A deeper \in level + 1 .. Len(cfgInput.folders) : cfgInput.folders[deeper] # "file"
  /\ cfgAt \notin {"find", "refused"} /\ cfgInput.explicit = Absent =>
       "file" \in ToSet(cfgInput.folders)
  /\ config_file # Absent /\ cfgInput.explicit = Absent =>
       /\ cfgInput.folders[config_file] = "file"
       /\ \A deeper \in config_file + 1 .. Len(cfgInput.folders) : cfgInput.folders[deeper] # "file"

(* The checks that a step has behind it.                                   *)
AfterCommands == {"loaded", "ready", "failed"}
AfterNumbers == {"commands"} \cup AfterCommands
AfterValues == {"validate"} \cup AfterNumbers
AfterRoot == {"values"} \cup AfterValues
AfterFile == {"root"} \cup AfterRoot

PassedInv ==
  /\ cfgAt \in {"find", "read", "refused"} \cup AfterFile
  /\ cfgAt \in AfterFile => FilePass
  /\ cfgAt \in AfterRoot =>
       RootPass /\ project_dir = IF Filled("PROJECT_ROOT") THEN "PROJECT_ROOT" ELSE "config"
  /\ cfgAt \in AfterValues => ValuesPass /\ settings = Loaded
  /\ cfgAt \in AfterNumbers => NumbersPass
  /\ cfgAt \in AfterCommands => MarksPass
  /\ cfgAt = "refused" => Wrong
  /\ cfgAt = "ready" => run_dir = [is |-> "folder", ignored |-> TRUE]

CfgInv == cfgInput \in CfgInputs /\ FoundInv /\ PassedInv

(* What is decided by the sources stays while they do.                     *)
LEMMA InputStays ==
  ASSUME cfgInput' = cfgInput
  PROVE  /\ Wrong' <=> Wrong
         /\ FilePass' <=> FilePass
         /\ RootPass' <=> RootPass
         /\ ValuesPass' <=> ValuesPass
         /\ Filled("PROJECT_ROOT")' <=> Filled("PROJECT_ROOT")
         /\ project_dir' = project_dir => Loaded' = Loaded
         /\ settings' = settings => (NumbersPass' <=> NumbersPass) /\ (MarksPass' <=> MarksPass)
<1>1. /\ Document' = Document /\ Environment' = Environment
      /\ \A name : InFile(name)' = InFile(name)
      /\ \A name : FromEnvironment(name)' <=> FromEnvironment(name)
      /\ \A name : Winning(name)' = Winning(name)
      /\ \A name : Filled(name)' <=> Filled(name)
  BY DEF Document, Environment, InFile, FromEnvironment, Winning, Filled, IsSet
<1>2. \A name : (Readable(name)' <=> Readable(name)) /\ (Refusable(name)' <=> Refusable(name))
  BY DEF Readable, WellTyped, Refusable, Document, Environment, InFile, FromEnvironment,
     Winning,
         Filled, IsSet
<1>3. Wrong' <=> Wrong
  BY <1>1, <1>2 DEF Wrong
<1>4. (FilePass' <=> FilePass) /\ (RootPass' <=> RootPass)
  BY <1>1 DEF FilePass, RootPass
<1>5. ValuesPass' <=> ValuesPass
  BY <1>1, <1>2 DEF ValuesPass
<1>6. ASSUME project_dir' = project_dir PROVE Loaded' = Loaded
  BY <1>1, <1>6 DEF Loaded, Sys, TracePath
<1>7. settings' = settings => (NumbersPass' <=> NumbersPass) /\ (MarksPass' <=> MarksPass)
  BY DEF NumbersPass, MarksPass
<1> QED BY <1>1, <1>3, <1>4, <1>5, <1>6, <1>7

(* The search: behind it, there is a file, and it is the nearest one.      *)
LEMMA FoundStep ==
  ASSUME CfgAssumption, CfgInv, [CfgNext]_configurationVars
  PROVE  FoundInv'
<1>1. cfgInput' = cfgInput /\ cfgInput.folders \in Seq({"none", "folder", "file"})
  BY DEF CfgInv, CfgAssumption, CfgNext, configurationVars, FindExplicit, FindNearest, ReadFile,
         ProjectRoot, ReadSettings, ValidateCommon, CheckCommandValues, EnsureRunDir
<1>2. PICK size \in Nat : size = Len(cfgInput.folders)
  BY <1>1, LenProperties
<1>3. FoundInv
  BY DEF CfgInv
<1>4. CASE FindExplicit
  BY <1>1, <1>3, <1>4 DEF FindExplicit, FoundInv
<1>5. CASE FindNearest
  <2>1. cfgAt = "find" /\ config_file = Absent /\ cfgInput.explicit = Absent
    BY <1>3, <1>5 DEF FindNearest, FoundInv
  <2>2. CASE level = 0
    BY <1>1, <1>3, <1>5, <2>1, <2>2 DEF FindNearest, FoundInv
  <2>3. CASE level # 0 /\ cfgInput.folders[level] = "file"
    <3>1. cfgAt' = "read" /\ config_file' = level /\ level' = level
      BY <1>5, <2>3 DEF FindNearest
    <3>2. level \in 1 .. Len(cfgInput.folders)
      BY <1>2, <1>3, <2>3 DEF FoundInv
    <3>3. "file" \in ToSet(cfgInput.folders)
      BY <1>1, <2>3, <3>2 DEF ToSet
    <3> QED BY <1>1, <1>3, <2>1, <2>3, <3>1, <3>3 DEF FoundInv
  <2>4. CASE level # 0 /\ cfgInput.folders[level] # "file"
    <3>1. cfgAt' = cfgAt /\ config_file' = config_file /\ level' = level - 1
      BY <1>5, <2>4 DEF FindNearest
    <3>2. level' \in Nat /\ level' <= size /\ level' + 1 = level
      BY <1>2, <1>3, <2>4, <3>1 DEF FoundInv
    <3>3. \A deeper \in level .. size : deeper = level \/ deeper \in level + 1 .. size
      BY <3>1, <3>2
    <3>4. \A deeper \in level' + 1 .. size : cfgInput.folders[deeper] # "file"
      BY <1>2, <1>3, <2>1, <2>4, <3>2, <3>3 DEF FoundInv
    <3> QED BY <1>1, <1>2, <2>1, <3>1, <3>2, <3>4 DEF FoundInv
  <2> QED BY <2>2, <2>3, <2>4
<1>6. CASE \/ ReadFile \/ ProjectRoot \/ ReadSettings \/ ValidateCommon \/ CheckCommandValues
           \/ EnsureRunDir
  <2>1. cfgAt \notin {"find", "refused"} /\ cfgAt' # "find"
    BY <1>6 DEF ReadFile, ProjectRoot, ReadSettings, ValidateCommon, CheckCommandValues,
                EnsureRunDir, Check
  <2>2. level' = level /\ config_file' = config_file
    BY <1>6 DEF ReadFile, ProjectRoot, ReadSettings, ValidateCommon, CheckCommandValues,
                EnsureRunDir
  <2> QED BY <1>1, <1>3, <2>1, <2>2 DEF FoundInv
<1>7. CASE UNCHANGED configurationVars
  BY <1>3, <1>7 DEF FoundInv, configurationVars
<1> QED BY <1>4, <1>5, <1>6, <1>7 DEF CfgNext

(* The checks: each step adds one; the first that fails is what is wrong.  *)
LEMMA PassedStep ==
  ASSUME CfgAssumption, CfgInv, [CfgNext]_configurationVars
  PROVE  PassedInv'
<1> USE DEF AfterCommands, AfterNumbers, AfterValues, AfterRoot, AfterFile
<1>1. cfgInput' = cfgInput
  BY DEF CfgNext, configurationVars, FindExplicit, FindNearest, ReadFile,
         ProjectRoot, ReadSettings, ValidateCommon, CheckCommandValues, EnsureRunDir
<1>2. cfgInput \in CfgInputs /\ FoundInv /\ PassedInv
  BY DEF CfgInv
<1>3. CASE FindExplicit
  BY <1>3 DEF FindExplicit, PassedInv
<1>4. CASE FindNearest
  <2>1. CASE level # 0
    BY <1>4, <2>1 DEF FindNearest, PassedInv
  <2>2. CASE level = 0
    <3>1. cfgAt' = "refused" /\ cfgInput.explicit = Absent
      BY <1>4, <2>2 DEF FindNearest
    <3>2. \A deeper \in 1 .. Len(cfgInput.folders) : cfgInput.folders[deeper] # "file"
      BY <1>2, <1>4, <2>2 DEF FoundInv, FindNearest
    <3>3. "file" \notin ToSet(cfgInput.folders)
      <4>1. DOMAIN cfgInput.folders = 1 .. Len(cfgInput.folders)
        BY <1>2, LenProperties DEF CfgAssumption
      <4> QED BY <3>2, <4>1 DEF ToSet
    <3>4. Wrong'
      BY <1>1, <3>1, <3>3, InputStays DEF Wrong
    <3> QED BY <3>1, <3>4 DEF PassedInv
  <2> QED BY <2>1, <2>2
<1>5. CASE ReadFile
  <2>1. cfgAt = "read" /\ cfgAt' = (IF FilePass THEN "root" ELSE "refused")
    BY <1>5 DEF ReadFile, Check, FilePass
  <2>2. ~FilePass => Wrong
    BY <1>2, ClocksAreRight DEF FilePass, Wrong
  <2> QED BY <1>1, <2>1, <2>2, InputStays DEF PassedInv
<1>6. CASE ProjectRoot
  <2>1. cfgAt = "root" /\ cfgAt' = (IF RootPass THEN "values" ELSE "refused")
    BY <1>6 DEF ProjectRoot, Check, RootPass
  <2>2. project_dir' = IF Filled("PROJECT_ROOT") THEN "PROJECT_ROOT" ELSE "config"
    BY <1>6 DEF ProjectRoot
  <2>3. ~RootPass => Wrong
    BY DEF RootPass, Wrong
  <2> QED BY <1>1, <1>2, <2>1, <2>2, <2>3, InputStays DEF PassedInv
<1>7. CASE ReadSettings
  <2>1. /\ cfgAt = "values" /\ cfgAt' = (IF ValuesPass THEN "validate" ELSE "refused")
        /\ project_dir' = project_dir
    BY <1>7 DEF ReadSettings, Check, ValuesPass
  <2>2. settings' = IF cfgAt' = "validate" THEN Loaded ELSE settings
    BY <1>7 DEF ReadSettings
  <2>3. ASSUME ~ValuesPass PROVE Wrong
    <3>1. CASE \E name \in SettingNames : ~Readable(name)
      BY <1>2, <3>1, UnreadableIsRefusable DEF Wrong
    <3>2. CASE Winning("host") = Empty /\ ~cfgInput.known_system
      BY <3>2, SettingKinds DEF Wrong, Refusable, TextSettings
    <3>3. CASE ~(\/ InFile("control_block_address") = Empty
                 \/ /\ InFile("control_block_address").is = "number"
                    /\ InFile("control_block_address").number >= 0)
      <4>1. "control_block_address" \in SettingNames
        BY SettingKinds DEF TextSettings
      <4>2. InFile("control_block_address").number \in Int
        BY <1>2, <4>1, WinningIsValue, ValueFacts
      <4>3. Refusable("control_block_address")
        BY <3>3, <4>2, AddressFromFile DEF Refusable
      <4> QED BY <4>1, <4>3 DEF Wrong
    <3> QED BY <2>3, <3>1, <3>2, <3>3 DEF ValuesPass
  <2> QED BY <1>1, <1>2, <2>1, <2>2, <2>3, InputStays DEF PassedInv
<1>8. CASE ValidateCommon
  <2>1. /\ cfgAt = "validate" /\ cfgAt' = (IF NumbersPass THEN "commands" ELSE "refused")
        /\ project_dir' = project_dir /\ settings' = settings
    BY <1>8 DEF ValidateCommon, Check, NumbersPass
  <2>2. ~NumbersPass => Wrong
    BY <1>2, <2>1, BadNumberIsWrong DEF PassedInv
  <2> QED BY <1>1, <1>2, <2>1, <2>2, InputStays DEF PassedInv
<1>9. CASE CheckCommandValues
  <2>1. /\ cfgAt = "commands" /\ cfgAt' = (IF MarksPass THEN "loaded" ELSE "refused")
        /\ project_dir' = project_dir /\ settings' = settings
    BY <1>9 DEF CheckCommandValues, Check, MarksPass
  <2>2. ~MarksPass => Wrong
    BY <1>2, <2>1, BadMarkIsWrong DEF PassedInv
  <2> QED BY <1>1, <1>2, <2>1, <2>2, InputStays DEF PassedInv
<1>10. CASE EnsureRunDir
  <2>1. /\ cfgAt = "loaded" /\ cfgAt' \in {"ready", "failed"}
        /\ cfgAt' = "ready" => run_dir' = [is |-> "folder", ignored |-> TRUE]
        /\ project_dir' = project_dir /\ settings' = settings
    BY <1>10 DEF EnsureRunDir
  <2> QED BY <1>1, <1>2, <2>1, InputStays DEF PassedInv
<1>11. CASE UNCHANGED configurationVars
  BY <1>2, <1>11, InputStays DEF PassedInv, configurationVars
<1> QED BY <1>3, <1>4, <1>5, <1>6, <1>7, <1>8, <1>9, <1>10, <1>11 DEF CfgNext

(* PROJECT_ROOT is the directory of the images, and of nothing else.       *)
LEMMA ImagesMove ==
  ASSUME CfgAssumption, cfgInput \in CfgInputs, settings = Loaded,
         project_dir = IF Filled("PROJECT_ROOT") THEN "PROJECT_ROOT" ELSE "config",
         NEW name \in SettingNames, "in" \in DOMAIN settings[name]
  PROVE  settings[name].in = "PROJECT_ROOT" <=>
           name \in {"elf", "extra_elf"} /\ Filled("PROJECT_ROOT")
<1>1. CASE name \in {"elf", "extra_elf"}
  BY <1>1, LoadedValues DEF Relative
<1>2. CASE name \in {"sys", "binary", "config", "debug_adapter"}
  <2>1. settings[name].in \in {"home", "config", "sys"}
    BY <1>2 DEF Loaded, TracePath, Relative
  <2> QED BY <1>2, <2>1
<1>3. CASE name = "host"
  <2>1. settings[name] = Str("plain") \/ settings[name] = Winning(name)
    BY <1>3 DEF Loaded
  <2> QED BY <1>3, <2>1, WinningIsValue, ValueFacts DEF Str
<1>4. CASE name \notin {"elf", "extra_elf", "host", "sys", "binary", "config", "debug_adapter"}
  <2>1. settings[name] = IF name = "flash_args" THEN ShlexSplit(Winning(name)) ELSE Winning(name)
    BY <1>4 DEF Loaded
  <2>2. ShlexSplit(Winning(name)) = Winning(name) \/ \E is : ShlexSplit(Winning(name)) = List(is)
    BY DEF ShlexSplit, Broken
  <2>3. \A is : "in" \notin DOMAIN List(is)
    BY DEF List
  <2>4. "in" \notin DOMAIN settings[name]
    BY <2>1, <2>2, <2>3, WinningIsValue, ValueFacts
  <2> QED BY <2>4
<1> QED BY <1>1, <1>2, <1>3, <1>4

(* For which settings an empty variable counts.                            *)
LEMMA WhoWins ==
  ASSUME NEW name \in SettingNames
  PROVE  /\ Settings[name].wins \in {"set", "filled", "never"}
         /\ Settings[name].wins = "set" <=> name \in EmptyCounts
<1> DEFINE NeverSet == {"rtos_config", "rtos_menu", "show_tasks", "poll_interval",
                        "control_block_address"}
<1>1. \A n \in EmptyCounts : Settings[n].wins = "set"
  BY DEF EmptyCounts, Settings, Setting
<1>2. \A n \in NeverSet : Settings[n].wins = "never"
  BY DEF Settings, Free, Setting
<1>3. \A n \in SettingNames \ (EmptyCounts \cup NeverSet) : Settings[n].wins = "filled"
  <2>1. SettingNames \ (EmptyCounts \cup NeverSet) \subseteq
          {"elf", "sys", "host", "executable", "binary", "config", "debug_adapter", "flash_chip",
           "rtt_symbol"} \cup Ports \cup Seconds
    BY SettingKinds DEF EmptyCounts, TextSettings, ListSettings
  <2>2. \A n \in {"elf", "sys", "host", "executable", "binary", "config", "debug_adapter",
                  "flash_chip", "rtt_symbol"} : Settings[n].wins = "filled"
    BY DEF Settings, Setting
  <2>3. \A n \in Ports \cup Seconds : Settings[n].wins = "filled"
    BY DEF Settings, Ports, Seconds, Port, Setting
  <2> QED BY <2>1, <2>2, <2>3
<1> QED BY <1>1, <1>2, <1>3

(* A setting is kept as what wins.                                         *)
LEMMA WinningIsKept ==
  ASSUME CfgAssumption, cfgInput \in CfgInputs, settings = Loaded, NEW name \in SettingNames
  PROVE  KeptAs(name, IF name = "sys" THEN Sys ELSE Winning(name))
<1>1. CASE Settings[name].kind = "list"
  <2>1. name \in {"extra_elf", "flash_args"}
    BY <1>1, SettingKinds DEF ListSettings
  <2>2. settings[name].is = ShlexSplit(Winning(name)).is
    BY <2>1, LoadedValues DEF Relative
  <2> QED BY <1>1, <2>1, <2>2 DEF KeptAs
<1>2. CASE Settings[name].kind # "list"
  <2>1. name \notin {"extra_elf", "flash_args"}
    BY <1>2, SettingKinds DEF ListSettings
  <2>2. CASE name = "sys"
    <3>1. settings[name] = IF Sys = Empty THEN Relative("home", Str("plain"))
                           ELSE Relative("config", Sys)
      BY <2>2 DEF Loaded
    <3> QED BY <1>2, <2>2, <3>1 DEF KeptAs, Relative, Str
  <2>3. CASE name \in {"binary", "config", "debug_adapter"}
    <3>1. settings[name] = TracePath(name)
      BY <2>3 DEF Loaded
    <3> QED BY <1>2, <2>3, <3>1 DEF KeptAs, TracePath, Relative, Str
  <2>4. CASE name = "host"
    <3>1. settings[name] = IF Winning(name) = Empty THEN Str("plain") ELSE Winning(name)
      BY <2>4 DEF Loaded
    <3> QED BY <1>2, <2>4, <3>1 DEF KeptAs, Str
  <2>5. CASE name = "elf"
    <3>1. settings[name] = Relative(project_dir, Winning(name))
      BY <2>5 DEF Loaded
    <3> QED BY <1>2, <2>5, <3>1 DEF KeptAs, Relative
  <2>6. CASE name \notin {"elf", "host", "sys", "binary", "config", "debug_adapter"}
    <3>1. settings[name] = Winning(name)
      BY <2>1, <2>6 DEF Loaded
    <3> QED BY <1>2, <2>6, <3>1 DEF KeptAs
  <2> QED BY <2>2, <2>3, <2>4, <2>5, <2>6
<1> QED BY <1>1, <1>2

(* What wins is what the first source that speaks says.                    *)
LEMMA SourcesWin ==
  ASSUME CfgAssumption, cfgInput \in CfgInputs, settings = Loaded, NEW name \in SettingNames
  PROVE  SourceWins(name)
<1> DEFINE variable == Settings[name].variable
           won == IF name = "sys" THEN Sys ELSE Winning(name)
<1>1. KeptAs(name, won)
  BY WinningIsKept
<1>3. CASE name # "sys"
  <2>1. \A v : Speaks(name, v) => v = variable
    BY <1>3 DEF Speaks
  <2>2. Speaks(name, variable) <=> FromEnvironment(name)
    BY <1>3, WhoWins DEF Speaks, FromEnvironment
  <2>3. won = IF FromEnvironment(name) THEN Environment[variable] ELSE InFile(name)
    BY <1>3 DEF Winning
  <2> HIDE DEF won, variable
  <2>4. \A v \in {"T32SYS", variable} : Speaks(name, v) => KeptAs(name, Environment[v])
    BY <1>1, <2>1, <2>2, <2>3
  <2>5. (\A v \in {"T32SYS", variable} : ~Speaks(name, v)) => KeptAs(name, InFile(name))
    BY <1>1, <2>2, <2>3
  <2> QED BY <2>4, <2>5 DEF SourceWins, variable
<1>4. CASE name = "sys"
  <2>1. variable = "T32_SYS" /\ Settings[name].wins = "filled" /\ name \notin EmptyCounts
    BY <1>4 DEF Settings, Setting, EmptyCounts
  <2>2. Speaks(name, "T32_SYS") <=> Filled("T32_SYS")
    BY <1>4, <2>1 DEF Speaks
  <2>3. Speaks(name, "T32SYS") <=> Filled("T32SYS") /\ ~Filled("T32_SYS")
    BY <1>4, <2>1 DEF Speaks
  <2>4. /\ Filled("T32_SYS") => won = Environment["T32_SYS"]
        /\ Filled("T32SYS") /\ ~Filled("T32_SYS") => won = Environment["T32SYS"]
        /\ ~Filled("T32_SYS") /\ ~Filled("T32SYS") => won = InFile(name)
    BY <1>4, <2>1 DEF Sys, Winning, FromEnvironment
  <2> HIDE DEF won
  <2> QED BY <1>1, <2>1, <2>2, <2>3, <2>4 DEF SourceWins
<1> QED BY <1>3, <1>4

(* The nearest file is taken, a configuration is loaded if and only if     *)
(* nothing is wrong with it, and then each setting is what the first of    *)
(* its sources that speaks says, nothing that check_command_values is for  *)
(* has a quotation mark, PROJECT_ROOT moves the images only, and a run         *)
(* directory is ignored by git; for directories of any depth and any       *)
(* content of the file and the environment (find_config_file, load_config, *)
(* check_command_values and ensure_run_dir in config.rs).                  *)
THEOREM ConfigurationsAreSound ==
  ASSUME CfgAssumption PROVE CfgSpec => []ConfigurationIsSound
<1>1. CfgInit => CfgInv
  <2> SUFFICES ASSUME CfgInit PROVE CfgInv
    OBVIOUS
  <2>1. cfgInput \in CfgInputs /\ cfgInput.folders \in Seq({"none", "folder", "file"})
    BY DEF CfgInit, CfgAssumption
  <2>2. PICK size \in Nat : size = Len(cfgInput.folders)
    BY <2>1, LenProperties
  <2>3. \A deeper \in size + 1 .. size : FALSE
    OBVIOUS
  <2> QED BY <2>1, <2>2, <2>3 DEF CfgInit, CfgInv, FoundInv, PassedInv, AfterCommands,
                                  AfterNumbers, AfterValues, AfterRoot, AfterFile
<1>2. CfgInv /\ [CfgNext]_configurationVars => CfgInv'
  <2> SUFFICES ASSUME CfgInv, [CfgNext]_configurationVars PROVE CfgInv'
    OBVIOUS
  <2>1. cfgInput' = cfgInput
    BY DEF CfgNext, configurationVars, FindExplicit, FindNearest, ReadFile,
           ProjectRoot, ReadSettings, ValidateCommon, CheckCommandValues, EnsureRunDir
  <2> QED BY <2>1, FoundStep, PassedStep DEF CfgInv
<1>3. CfgInv => ConfigurationIsSound
  <2> SUFFICES ASSUME CfgInv PROVE ConfigurationIsSound
    OBVIOUS
  <2>1. cfgInput \in CfgInputs /\ FoundInv /\ PassedInv
    BY DEF CfgInv
  <2>2. ASSUME cfgAt \in AfterCommands
        PROVE  /\ FilePass /\ RootPass /\ ValuesPass /\ NumbersPass /\ MarksPass
               /\ settings = Loaded
               /\ project_dir = IF Filled("PROJECT_ROOT") THEN "PROJECT_ROOT" ELSE "config"
               /\ cfgInput.explicit = Absent => "file" \in ToSet(cfgInput.folders)
    BY <2>1, <2>2 DEF FoundInv, PassedInv, AfterCommands, AfterNumbers, AfterValues, AfterRoot,
                      AfterFile
  <2>3. cfgAt \in AfterCommands => ~Wrong
    BY <2>1, <2>2, PassedIsNotWrong
  <2>4. ASSUME cfgAt \in AfterCommands, NEW name \in CheckedValues
        PROVE  settings[name].is \notin {"quoted", "escaped", "open"}
    BY <2>2, <2>4 DEF MarksPass, HasMark, CheckedValues
  <2>5. ASSUME cfgAt \in AfterCommands, NEW name \in SettingNames, "in" \in DOMAIN settings[name]
        PROVE  settings[name].in = "PROJECT_ROOT" <=>
                 name \in {"elf", "extra_elf"} /\ Filled("PROJECT_ROOT")
    BY <2>1, <2>2, <2>5, ImagesMove
  <2>6. /\ cfgAt = "refused" => Wrong
        /\ cfgAt = "ready" => run_dir = [is |-> "folder", ignored |-> TRUE]
    BY <2>1 DEF PassedInv
  <2>7. config_file # Absent /\ cfgInput.explicit = Absent =>
          /\ cfgInput.folders[config_file] = "file"
          /\ \A deeper \in config_file + 1 .. Len(cfgInput.folders) :
               cfgInput.folders[deeper] # "file"
    BY <2>1 DEF FoundInv
  <2>8. ASSUME cfgAt \in AfterCommands, NEW name \in SettingNames PROVE SourceWins(name)
    BY <2>1, <2>2, <2>8, SourcesWin
  <2> QED BY <2>3, <2>4, <2>5, <2>6, <2>7, <2>8 DEF ConfigurationIsSound, AfterCommands
<1> QED BY <1>1, <1>2, <1>3, PTL DEF CfgSpec

(***************************************************************************)
(* The process of the DAP proxy.                                           *)

Active(c) == client[c] \in {"connecting", "session"}

(* session_active is set before the first connection becomes the session   *)
(* and never reset; the session ends once.                                 *)
SessionInv ==
  /\ finished => session_active /\ outcomes # {}
  /\ \A c \in Clients : Active(c) => session_active /\ ~finished
  /\ \A c, d \in Clients : Active(c) /\ Active(d) => c = d

ErrorKept == "error" \in outcomes => exit_code # 0

Justified == exit_code = 0 => shutdown \/ outcomes \cap {"left", "dropped"} # {}

(* The result is the exit code, but for a proxy that could not start.      *)
ResultInv ==
  /\ main \in {"terminate", "wait"} => Justified
  /\ main = "done" => result = 1 \/ (result = exit_code /\ Justified)

AdapterInv ==
  /\ status \in ExitCodes \cup {0}
  /\ main = "start" => adapter = "none"
  /\ AdapterStopped

IInv == ProxyTypeOK /\ SessionInv /\ ErrorKept /\ ResultInv /\ AdapterInv

-----------------------------------------------------------------------------

(* A task of handle_client moves its connection and nothing of run.        *)
LEMMA HandleClientMoves ==
  ASSUME ProxyTypeOK, NEW c \in Clients, NEW from, NEW to, HandleClient(c, from, to)
  PROVE  /\ main # "done" /\ client[c] = from /\ client'[c] = to
         /\ \A d \in Clients \ {c} : client'[d] = client[d]
         /\ <<main, result, ports, adapter, status, shutdown>>' =
              <<main, result, ports, adapter, status, shutdown>>
         /\ to \in {"absent", "silent", "connecting", "session", "closed"} =>
              client' \in [Clients -> {"absent", "silent", "connecting", "session", "closed"}]
BY DEF HandleClient, ProxyTypeOK, adapterVars

(* The proxy has just been started.                                        *)
LEMMA Initially == ProxyInit => IInv
<1> SUFFICES ASSUME ProxyInit PROVE IInv
  OBVIOUS
<1>1. ProxyTypeOK
  BY DEF ProxyInit, ProxyTypeOK
<1>2. SessionInv
  BY DEF ProxyInit, SessionInv, Active
<1>3. ErrorKept /\ ResultInv /\ AdapterInv
  BY DEF ProxyInit, ErrorKept, ResultInv, AdapterInv, AdapterStopped, Alive
<1> QED BY <1>1, <1>2, <1>3 DEF IInv

(* Finish ends the one session: what it leaves in exit_code and outcomes.  *)
LEMMA FinishStep ==
  ASSUME IInv, NEW c \in Clients, NEW from \in {"connecting", "session"},
         NEW how \in {"left", "dropped", "error"}, Finish(c, from, how)
  PROVE  IInv'
<1>1. /\ main # "done" /\ client[c] = from /\ client'[c] = "closed"
      /\ \A d \in Clients \ {c} : client'[d] = client[d]
      /\ <<main, result, ports, adapter, status, shutdown>>' =
           <<main, result, ports, adapter, status, shutdown>>
      /\ client' \in [Clients -> {"absent", "silent", "connecting", "session", "closed"}]
  BY HandleClientMoves DEF Finish, IInv
<1>2. /\ finished' = TRUE /\ outcomes' = outcomes \cup {how}
      /\ exit_code' = (IF how = "error" THEN 1 ELSE exit_code)
      /\ session_active' = session_active
  BY DEF Finish
<1>3. ProxyTypeOK'
  BY <1>1, <1>2 DEF ProxyTypeOK, IInv
<1>4. SessionInv'
  <2>1. Active(c) /\ session_active
    BY <1>1 DEF IInv, SessionInv, Active
  <2>2. \A d \in Clients : ~Active(d)'
    BY <1>1, <2>1 DEF IInv, SessionInv, Active
  <2> QED BY <1>2, <2>1, <2>2 DEF SessionInv
<1>5. ErrorKept'
  BY <1>2 DEF IInv, ErrorKept
<1>6. ResultInv'
  BY <1>1, <1>2 DEF IInv, ResultInv, Justified
<1>7. AdapterInv'
  BY <1>1 DEF IInv, AdapterInv, AdapterStopped, Alive
<1> QED BY <1>3, <1>4, <1>5, <1>6, <1>7 DEF IInv

(* The other steps of a connection: accepted, closed, first data, adapter. *)
LEMMA ClientStep ==
  ASSUME IInv, NEW c \in Clients,
         Accept(c) \/ CloseSilently(c) \/ FirstData(c) \/ ConnectBackend(c)
  PROVE  IInv'
<1>1. CASE Accept(c) \/ CloseSilently(c) \/ ConnectBackend(c)
  <2>1. PICK from \in {"absent", "silent", "connecting"},
             to \in {"silent", "closed", "session"} :
          HandleClient(c, from, to) /\ (to = "session" => from = "connecting")
    BY <1>1 DEF Accept, CloseSilently, ConnectBackend
  <2>2. /\ main # "done" /\ client[c] = from /\ client'[c] = to
        /\ \A d \in Clients \ {c} : client'[d] = client[d]
        /\ <<main, result, ports, adapter, status, shutdown>>' =
             <<main, result, ports, adapter, status, shutdown>>
        /\ client' \in [Clients -> {"absent", "silent", "connecting", "session", "closed"}]
    BY <2>1, HandleClientMoves DEF IInv
  <2>3. UNCHANGED <<session_active, exit_code, finished, outcomes>>
    BY <1>1 DEF Accept, CloseSilently, ConnectBackend, proxyVars
  <2>4. \A d \in Clients : Active(d)' => Active(d)
    BY <2>1, <2>2 DEF Active
  <2>5. ProxyTypeOK'
    BY <2>2, <2>3 DEF ProxyTypeOK, IInv
  <2>6. SessionInv'
    BY <2>3, <2>4 DEF SessionInv, IInv
  <2> QED BY <2>2, <2>3, <2>5, <2>6
          DEF IInv, ErrorKept, ResultInv, Justified, AdapterInv, AdapterStopped, Alive
<1>2. CASE FirstData(c)
  <2> DEFINE to == IF session_active THEN "closed" ELSE "connecting"
  <2>1. HandleClient(c, "silent", to) /\ session_active' = TRUE
        /\ UNCHANGED <<finished, exit_code, outcomes>>
    BY <1>2 DEF FirstData
  <2>2. /\ main # "done" /\ client[c] = "silent" /\ client'[c] = to
        /\ \A d \in Clients \ {c} : client'[d] = client[d]
        /\ <<main, result, ports, adapter, status, shutdown>>' =
             <<main, result, ports, adapter, status, shutdown>>
        /\ client' \in [Clients -> {"absent", "silent", "connecting", "session", "closed"}]
    BY <2>1, HandleClientMoves DEF IInv
  <2>3. ProxyTypeOK'
    BY <2>1, <2>2 DEF ProxyTypeOK, IInv
  <2>4. SessionInv'
    <3>1. CASE session_active
      <4>1. \A d \in Clients : Active(d)' => Active(d)
        BY <2>2, <3>1 DEF Active
      <4> QED BY <2>1, <3>1, <4>1 DEF SessionInv, IInv
    <3>2. CASE ~session_active
      <4>1. ~finished /\ \A d \in Clients : ~Active(d)
        BY <3>2 DEF SessionInv, IInv
      <4>2. \A d \in Clients \ {c} : ~Active(d)'
        BY <2>2, <4>1 DEF Active
      <4> QED BY <2>1, <4>1, <4>2 DEF SessionInv
    <3> QED BY <3>1, <3>2
  <2> QED BY <2>1, <2>2, <2>3, <2>4
          DEF IInv, ErrorKept, ResultInv, Justified, AdapterInv, AdapterStopped, Alive
<1> QED BY <1>1, <1>2

(* The steps of DapProxy.run and of terminate.                             *)
LEMMA RunStep == ASSUME IInv, Run PROVE IInv'
<1>1. /\ UNCHANGED <<ports, status, client, session_active, finished, shutdown, outcomes>>
      /\ main \in {"start", "bind", "select", "terminate", "wait"}
  BY DEF Run, StartAdapter, Bind, SelectAdapter, SelectFinished, SelectShutdown, Selected,
         Terminate, TerminateEnds, proxyVars, adapterVars
<1>2. SessionInv'
  BY <1>1 DEF IInv, SessionInv, Active
<1>3. CASE StartAdapter \/ Bind
  <2>1. /\ exit_code' = exit_code
        /\ main' \in {"bind", "select", "done"} /\ main # "done"
        /\ adapter' \in {"none", "starting", "listening", "exited"}
        /\ main' = "done" => result' = 1 /\ adapter' \notin {"starting", "listening"}
        /\ main' # "done" => result' = result
    BY <1>3 DEF StartAdapter, Bind, Exit, proxyVars, IInv, ProxyTypeOK, AdapterInv
  <2>2. ProxyTypeOK'
    BY <1>1, <2>1 DEF IInv, ProxyTypeOK
  <2> QED BY <1>1, <1>2, <2>1, <2>2
          DEF IInv, ErrorKept, ResultInv, AdapterInv, AdapterStopped, Alive
<1>4. CASE SelectAdapter \/ SelectFinished \/ SelectShutdown
  <2>1. main' = "terminate" /\ UNCHANGED <<result, adapter>>
    BY <1>4 DEF SelectAdapter, SelectFinished, SelectShutdown, Selected, adapterVars
  <2>2. exit_code' \in ExitCodes \cup {0, 1}
    BY <1>4 DEF SelectAdapter, SelectFinished, SelectShutdown, IInv, ProxyTypeOK, AdapterInv
  <2>3. exit_code' = exit_code \/ (~finished /\ exit_code' # 0)
    BY <1>4 DEF SelectAdapter, SelectFinished, SelectShutdown
  <2>4. ErrorKept'
    BY <1>1, <2>3 DEF IInv, ErrorKept
  <2>5. finished /\ exit_code = 0 => outcomes \cap {"left", "dropped"} # {}
    BY DEF IInv, ProxyTypeOK, SessionInv, ErrorKept
  <2>6. Justified'
    BY <1>1, <1>4, <2>5 DEF SelectAdapter, SelectFinished, SelectShutdown, Selected, Justified
  <2>7. ProxyTypeOK'
    BY <1>1, <2>1, <2>2 DEF IInv, ProxyTypeOK
  <2> QED BY <1>1, <1>2, <2>1, <2>4, <2>6, <2>7
          DEF IInv, ResultInv, AdapterInv, AdapterStopped
<1>5. CASE Terminate \/ TerminateEnds
  <2>1. /\ main \in {"terminate", "wait"} /\ main' \in {"wait", "done"}
        /\ exit_code' = exit_code
        /\ main' = "done" => result' = exit_code /\ adapter' = "exited"
        /\ main' = "wait" => result' = result /\ adapter' = adapter
    BY <1>5 DEF Terminate, TerminateEnds, Exit, proxyVars, adapterVars
  <2>2. ProxyTypeOK'
    BY <1>1, <2>1 DEF IInv, ProxyTypeOK
  <2> QED BY <1>1, <1>2, <2>1, <2>2
          DEF IInv, ErrorKept, ResultInv, Justified, AdapterInv, AdapterStopped, Alive
<1> QED BY <1>3, <1>4, <1>5 DEF Run

(* The adapter listens or exits, and a signal comes.                       *)
LEMMA WorldStep == ASSUME IInv, AdapterListens \/ AdapterExits \/ Shutdown PROVE IInv'
<1>1. UNCHANGED <<main, result, ports, client, session_active, exit_code, finished, outcomes>>
  BY DEF AdapterListens, AdapterExits, Shutdown, proxyVars
<1>2. /\ adapter' \in {"none", "starting", "listening", "exited"}
      /\ status' \in ExitCodes \cup {0} /\ shutdown' \in BOOLEAN /\ (shutdown => shutdown')
      /\ adapter # "none" \/ adapter' = "none"
      /\ adapter' \in {"starting", "listening"} => adapter \in {"starting", "listening"}
  BY DEF AdapterListens, AdapterExits, Shutdown, Alive, adapterVars, IInv, ProxyTypeOK, AdapterInv
<1>3. ProxyTypeOK'
  BY <1>1, <1>2 DEF IInv, ProxyTypeOK
<1>4. SessionInv' /\ ErrorKept'
  BY <1>1 DEF IInv, SessionInv, Active, ErrorKept
<1>5. ResultInv'
  BY <1>1, <1>2 DEF IInv, ResultInv, Justified
<1>6. AdapterInv'
  BY <1>1, <1>2 DEF IInv, AdapterInv, AdapterStopped, Alive
<1> QED BY <1>3, <1>4, <1>5, <1>6 DEF IInv

(* The invariant holds in every state of the proxy (DapProxy.run with its  *)
(* tasks), for any connections and exit codes.                             *)
THEOREM Invariance == ProxySpec => []IInv
<1>1. IInv /\ [ProxyNext]_processVars => IInv'
  <2> SUFFICES ASSUME IInv, [ProxyNext]_processVars PROVE IInv'
    OBVIOUS
  <2>1. CASE Run
    BY <2>1, RunStep
  <2>2. ASSUME NEW c \in Clients,
               \/ Accept(c) \/ CloseSilently(c) \/ FirstData(c)
               \/ Connecting(c) \/ SessionEnds(c)
        PROVE  IInv'
    <3>1. CASE Accept(c) \/ CloseSilently(c) \/ FirstData(c) \/ ConnectBackend(c)
      BY <3>1, ClientStep
    <3>2. CASE ConnectFails(c) \/ SessionEnds(c)
      BY <3>2, FinishStep DEF ConnectFails, SessionEnds
    <3> QED BY <2>2, <3>1, <3>2 DEF Connecting
  <2>3. CASE AdapterListens \/ AdapterExits \/ Shutdown
    BY <2>3, WorldStep
  <2>4. CASE UNCHANGED processVars
    BY <2>4 DEF processVars, proxyVars, adapterVars, IInv, ProxyTypeOK, SessionInv, Active,
                ErrorKept, ResultInv, Justified, AdapterInv, AdapterStopped, Alive
  <2> QED BY <2>1, <2>2, <2>3, <2>4 DEF ProxyNext
<1> QED BY <1>1, Initially, PTL DEF ProxySpec

(* Every variable keeps its type.                                          *)
THEOREM TypeCorrect == ProxySpec => []ProxyTypeOK
<1>1. IInv => ProxyTypeOK
  BY DEF IInv
<1> QED BY <1>1, Invariance, PTL

(* At most one connection is ever the session, and none after it ended     *)
(* (session_active in handle_client).                                      *)
THEOREM OnlyOneSession == ProxySpec => []OneSession
<1>1. IInv => OneSession
  BY DEF IInv, SessionInv, Active, OneSession
<1> QED BY <1>1, Invariance, PTL

(* The proxy never returns with the adapter still running (terminate).     *)
THEOREM NoAdapterLeft == ProxySpec => []AdapterStopped
<1>1. IInv => AdapterStopped
  BY DEF IInv, AdapterInv
<1> QED BY <1>1, Invariance, PTL

(* The exit code 0 is returned only when the stream of a session came to   *)
(* its end, from the IDE or the adapter, or a signal came (the branches of *)
(* run).                                                                   *)
THEOREM SuccessJustified == ProxySpec => []SuccessHasAReason
<1>1. IInv => SuccessHasAReason
  BY DEF IInv, ResultInv, Justified, SuccessHasAReason
<1> QED BY <1>1, Invariance, PTL

(* The error of a session is never lost (handle_client and run).           *)
THEOREM ErrorReported == ProxySpec => []ErrorIsReported
<1>1. IInv => ErrorIsReported
  BY DEF IInv, ResultInv, ErrorKept, ErrorIsReported
<1> QED BY <1>1, Invariance, PTL

(* Both: exit code 0 is never that of a session that failed, nor of an     *)
(* adapter that exited before a session ended.                             *)
THEOREM HonestExit == ProxySpec => []ExitCodeIsHonest
<1>1. SuccessHasAReason /\ ErrorIsReported => ExitCodeIsHonest
  BY DEF ExitCodeIsHonest
<1> QED BY <1>1, SuccessJustified, ErrorReported, PTL

(***************************************************************************)
(* The PER file.  The lemmas are about a text `w` of which n lines have    *)
(* been read, and `v`, which has a line more: what is around a line, its   *)
(* base, its group, its path and its field, as the positions of the text   *)
(* tell them, and how one line more changes them.                          *)

(***************************************************************************)
(* debug reg: addresses from the PER file.                                 *)
(*                                                                         *)
(* What a text means is a function of its lines, here of a text w: the     *)
(* lemmas compare what w means at line k and at the line after it.         *)

LinesIn(w, kind, from, to) == {i \in from .. to : w[i].kind = kind}
CountIn(w, kind, from, to) == Cardinality(LinesIn(w, kind, from, to))
EnclosingIn(w, k) ==
  {j \in 1 .. k - 1 : w[j].kind = "tree" /\ \A m \in j + 1 .. k - 1 :
     CountIn(w, "tree.end", j + 1, m) <= CountIn(w, "tree", j + 1, m)}

(* Trees begun up to line n but not ended, were no end one too many.       *)
Depth(w, n) == CountIn(w, "tree", 1, n) - CountIn(w, "tree.end", 1, n)

(* Of a set of lines, the last.                                            *)
LEMMA LastOf ==
  ASSUME NEW n \in Nat, NEW S \in SUBSET (0 .. n), S # {}
  PROVE  \E x \in S : \A y \in S : y <= x
<1> DEFINE T == {x .. n : x \in S}
<1>1. T \subseteq FiniteSubsetsOf(Nat) /\ T # {}
  <2>1. \A x \in S : IsFiniteSet(x .. n) /\ x .. n \subseteq Nat
    BY FS_Interval
  <2> QED BY <2>1 DEF FiniteSubsetsOf
<1>2. IsWellFoundedOn(StrictSubsetOrdering(Nat), FiniteSubsetsOf(Nat))
  BY FS_StrictSubsetOrderingWellFounded
<1>3. PICK least \in T : \A t \in T : ~(<<t, least>> \in StrictSubsetOrdering(Nat))
  <2> HIDE DEF T
  <2> QED BY <1>1, <1>2, WFMin
<1>4. PICK x \in S : least = x .. n
  BY <1>3
<1>5. ASSUME NEW y \in S PROVE y <= x
  <2>1. ~(y .. n \subseteq x .. n /\ y .. n # x .. n)
    <3>1. y .. n \in SUBSET Nat /\ x .. n \in SUBSET Nat /\ y .. n \in T
      OBVIOUS
    <3>2. ~(<<y .. n, x .. n>> \in StrictSubsetOrdering(Nat))
      BY <1>3, <1>4, <3>1
    <3> QED BY <3>1, <3>2, Zenon DEF StrictSubsetOrdering
  <2>2. CASE x < y
    <3>1. x \in x .. n /\ x \notin y .. n /\ y .. n \subseteq x .. n
      BY <2>2
    <3> QED BY <2>1, <3>1
  <2> QED BY <2>2
<1> QED BY <1>5

LEMMA CountIs ==
  ASSUME NEW w, NEW kind, NEW a \in Nat, NEW b \in Nat
  PROVE  /\ IsFiniteSet(LinesIn(w, kind, a, b))
         /\ CountIn(w, kind, a, b) \in Nat
         /\ b < a => CountIn(w, kind, a, b) = 0
<1> DEFINE S == {i \in a .. b : w[i].kind = kind}
<1>1. IsFiniteSet(S)
  <2>1. IsFiniteSet(a .. b) /\ S \in SUBSET (a .. b)
    BY FS_Interval
  <2> QED BY <2>1, FS_Subset
<1>2. b < a => S = {}
  OBVIOUS
<1>3. CountIn(w, kind, a, b) = Cardinality(S)
  BY DEF CountIn, LinesIn
<1> HIDE DEF S
<1>4. Cardinality(S) \in Nat /\ (S = {} => Cardinality(S) = 0)
  BY <1>1, FS_CardinalityType, FS_EmptySet
<1>5. S = LinesIn(w, kind, a, b)
  BY DEF S, LinesIn
<1>6. b < a => S = {}
  BY <1>2
<1> QED BY <1>1, <1>3, <1>4, <1>5, <1>6

LEMMA CountGoesOn ==
  ASSUME NEW w, NEW kind, NEW a \in Nat, NEW b \in Nat, a <= b + 1
  PROVE  CountIn(w, kind, a, b + 1)
           = CountIn(w, kind, a, b) + (IF w[b + 1].kind = kind THEN 1 ELSE 0)
<1>1. PICK S : S = LinesIn(w, kind, a, b)
  OBVIOUS
<1>2. PICK c : c = b + 1
  OBVIOUS
<1>3. a .. c = (a .. b) \cup {c} /\ c \notin a .. b
  BY <1>2
<1>4. LinesIn(w, kind, a, c) = IF w[c].kind = kind THEN S \cup {c} ELSE S
  <2>1. CASE w[c].kind = kind
    BY <1>1, <1>3, <2>1 DEF LinesIn
  <2>2. CASE w[c].kind # kind
    BY <1>1, <1>3, <2>2 DEF LinesIn
  <2> QED BY <2>1, <2>2
<1>5. IsFiniteSet(S) /\ c \notin S /\ Cardinality(S) \in Nat
  BY <1>1, <1>3, CountIs, FS_CardinalityType DEF LinesIn
<1>6. Cardinality(S \cup {c}) = Cardinality(S) + 1
  BY <1>5, FS_AddElement
<1>7. CountIn(w, kind, a, c) = Cardinality(IF w[c].kind = kind THEN S \cup {c} ELSE S)
  BY <1>4 DEF CountIn
<1>8. CountIn(w, kind, a, b) = Cardinality(S)
  BY <1>1 DEF CountIn
<1>9. CASE w[c].kind = kind
  BY <1>2, <1>6, <1>7, <1>8, <1>9
<1>10. CASE w[c].kind # kind
  BY <1>2, <1>5, <1>7, <1>8, <1>10
<1> QED BY <1>9, <1>10

LEMMA CountSplits ==
  ASSUME NEW w, NEW kind, NEW b \in Nat, NEW c \in Nat, b <= c
  PROVE  CountIn(w, kind, 1, c) = CountIn(w, kind, 1, b) + CountIn(w, kind, b + 1, c)
<1>1. PICK S, T : S = LinesIn(w, kind, 1, b) /\ T = LinesIn(w, kind, b + 1, c)
  OBVIOUS
<1>2. LinesIn(w, kind, 1, c) = S \cup T /\ S \cap T = {}
  <2>1. 1 .. c = (1 .. b) \cup (b + 1 .. c) /\ (1 .. b) \cap (b + 1 .. c) = {}
    OBVIOUS
  <2> QED BY <1>1, <2>1 DEF LinesIn
<1>3. IsFiniteSet(S) /\ IsFiniteSet(T) /\ Cardinality(S) \in Nat /\ Cardinality(T) \in Nat
  <2>1. 1 \in Nat /\ b + 1 \in Nat
    OBVIOUS
  <2>2. IsFiniteSet(S) /\ IsFiniteSet(T)
    BY <1>1, <2>1, CountIs
  <2> QED BY <2>2, FS_CardinalityType
<1>4. Cardinality(S \cup T) = Cardinality(S) + Cardinality(T) - Cardinality(S \cap T)
  BY <1>3, FS_Union
<1>5. Cardinality(S \cap T) = 0
  BY <1>2, FS_EmptySet
<1>6. Cardinality(S \cup T) = Cardinality(S) + Cardinality(T)
  BY <1>3, <1>4, <1>5
<1> QED BY <1>1, <1>2, <1>6 DEF CountIn

LEMMA DepthIs ==
  ASSUME NEW w, NEW n \in Nat
  PROVE  /\ Depth(w, n) \in Int
         /\ n > 0 => Depth(w, n) = Depth(w, n - 1)
                       + (IF w[n].kind = "tree" THEN 1
                          ELSE IF w[n].kind = "tree.end" THEN -1 ELSE 0)
<1>1. Depth(w, n) \in Int
  <2>1. CountIn(w, "tree", 1, n) \in Nat /\ CountIn(w, "tree.end", 1, n) \in Nat
    BY CountIs
  <2> QED BY <2>1 DEF Depth
<1>2. ASSUME n > 0
      PROVE  Depth(w, n) = Depth(w, n - 1)
                       + (IF w[n].kind = "tree" THEN 1
                          ELSE IF w[n].kind = "tree.end" THEN -1 ELSE 0)
  <2>1. PICK k \in Nat : k = n - 1 /\ n = k + 1
    BY <1>2
  <2>2. /\ CountIn(w, "tree", 1, n)
             = CountIn(w, "tree", 1, k) + (IF w[n].kind = "tree" THEN 1 ELSE 0)
        /\ CountIn(w, "tree.end", 1, n)
             = CountIn(w, "tree.end", 1, k) + (IF w[n].kind = "tree.end" THEN 1 ELSE 0)
    BY <2>1, CountGoesOn
  <2>3. CountIn(w, "tree", 1, k) \in Nat /\ CountIn(w, "tree.end", 1, k) \in Nat
    BY CountIs
  <2>4. "tree" # "tree.end"
    OBVIOUS
  <2> QED BY <2>1, <2>2, <2>3, <2>4 DEF Depth
<1> QED BY <1>1, <1>2

(* A tree is around a line if the depth never was less than the depth of   *)
(* the tree.                                                               *)
LEMMA EnclosingIs ==
  ASSUME NEW w, NEW k \in Nat \ {0}
  PROVE  \A j : j \in EnclosingIn(w, k) <=>
                /\ j \in 1 .. k - 1 /\ w[j].kind = "tree"
                /\ \A m \in j .. k - 1 : Depth(w, j) <= Depth(w, m)
<1>1. ASSUME NEW j \in 1 .. k - 1
      PROVE  (\A m \in j + 1 .. k - 1 :
                CountIn(w, "tree.end", j + 1, m) <= CountIn(w, "tree", j + 1, m))
             <=> (\A m \in j .. k - 1 : Depth(w, j) <= Depth(w, m))
  <2>1. ASSUME NEW m \in j + 1 .. k - 1
        PROVE  CountIn(w, "tree.end", j + 1, m) <= CountIn(w, "tree", j + 1, m)
                 <=> Depth(w, j) <= Depth(w, m)
    <3>1. /\ CountIn(w, "tree", 1, m) = CountIn(w, "tree", 1, j) + CountIn(w, "tree", j + 1, m)
          /\ CountIn(w, "tree.end", 1, m)
               = CountIn(w, "tree.end", 1, j) + CountIn(w, "tree.end", j + 1, m)
      BY CountSplits
    <3>2. /\ CountIn(w, "tree", 1, j) \in Nat /\ CountIn(w, "tree", j + 1, m) \in Nat
          /\ CountIn(w, "tree.end", 1, j) \in Nat /\ CountIn(w, "tree.end", j + 1, m) \in Nat
      <4>1. j \in Nat /\ j + 1 \in Nat /\ m \in Nat /\ 1 \in Nat
        OBVIOUS
      <4> QED BY <4>1, CountIs
    <3> QED BY <3>1, <3>2 DEF Depth
  <2>2. Depth(w, j) \in Int
    BY DepthIs
  <2>3. Depth(w, j) <= Depth(w, j)
    BY <2>2
  <2>4. \A m : m \in j .. k - 1 <=> m = j \/ m \in j + 1 .. k - 1
    OBVIOUS
  <2> QED BY <2>1, <2>3, <2>4
<1> QED BY <1>1 DEF EnclosingIn

LEMMA TreesAreNested ==
  ASSUME NEW w, NEW k \in Nat \ {0}, NEW t \in EnclosingIn(w, k)
  PROVE  /\ t \in 1 .. k - 1 /\ w[t].kind = "tree"
         /\ EnclosingIn(w, t) = {j \in EnclosingIn(w, k) : j < t}
         /\ \A b \in t + 1 .. k - 1 : t \in EnclosingIn(w, b)
<1>1. /\ t \in 1 .. k - 1 /\ w[t].kind = "tree"
      /\ \A m \in t .. k - 1 : Depth(w, t) <= Depth(w, m)
  BY EnclosingIs
<1>2. \A m \in Nat : Depth(w, m) \in Int
  BY DepthIs
<1>3. Depth(w, t) = Depth(w, t - 1) + 1
  BY <1>1, DepthIs
<1>4. ASSUME NEW j \in EnclosingIn(w, t) PROVE j \in EnclosingIn(w, k) /\ j < t
  <2>1. /\ j \in 1 .. t - 1 /\ w[j].kind = "tree"
        /\ \A m \in j .. t - 1 : Depth(w, j) <= Depth(w, m)
    BY <1>1, EnclosingIs
  <2>2. ASSUME NEW m \in j .. k - 1 PROVE Depth(w, j) <= Depth(w, m)
    <3>1. CASE m <= t - 1
      <4>1. m \in j .. t - 1
        BY <1>1, <3>1
      <4> QED BY <2>1, <4>1
    <3>2. CASE ~(m <= t - 1)
      <4>1. m \in t .. k - 1 /\ t - 1 \in j .. t - 1 /\ t - 1 \in Nat /\ j \in Nat /\ m \in Nat
        BY <1>1, <2>1, <3>2
      <4>2. Depth(w, j) <= Depth(w, t - 1) /\ Depth(w, t) <= Depth(w, m)
        BY <1>1, <2>1, <4>1
      <4> QED BY <1>1, <1>2, <1>3, <4>1, <4>2
    <3> QED BY <3>1, <3>2
  <2>3. j \in 1 .. k - 1 /\ j < t
    BY <1>1, <2>1
  <2> QED BY <2>1, <2>2, <2>3, EnclosingIs
<1>5. ASSUME NEW j \in EnclosingIn(w, k), j < t PROVE j \in EnclosingIn(w, t)
  <2>1. /\ j \in 1 .. k - 1 /\ w[j].kind = "tree"
        /\ \A m \in j .. k - 1 : Depth(w, j) <= Depth(w, m)
    BY EnclosingIs
  <2>2. t \in Nat \ {0} /\ j \in 1 .. t - 1 /\ \A m \in j .. t - 1 : m \in j .. k - 1
    BY <1>1, <1>5, <2>1
  <2> QED BY <2>1, <2>2, EnclosingIs
<1>6. ASSUME NEW b \in t + 1 .. k - 1 PROVE t \in EnclosingIn(w, b)
  <2>1. b \in Nat \ {0} /\ t \in 1 .. b - 1 /\ \A m \in t .. b - 1 : m \in t .. k - 1
    BY <1>1
  <2> QED BY <1>1, <2>1, EnclosingIs
<1> QED BY <1>1, <1>4, <1>5, <1>6

LEMMA AfterTree ==
  ASSUME NEW w, NEW k \in Nat \ {0}, w[k].kind = "tree"
  PROVE  EnclosingIn(w, k + 1) = EnclosingIn(w, k) \cup {k}
<1>1. \A m \in Nat : Depth(w, m) \in Int
  BY DepthIs
<1>2. Depth(w, k) = Depth(w, k - 1) + 1
  BY DepthIs
<1>3. PICK next \in Nat \ {0} : next = k + 1 /\ next - 1 = k
  OBVIOUS
<1>4. k \in EnclosingIn(w, next)
  <2>1. k \in 1 .. next - 1 /\ \A m \in k .. next - 1 : m = k
    BY <1>3
  <2>2. Depth(w, k) <= Depth(w, k)
    BY <1>1
  <2> QED BY <2>1, <2>2, EnclosingIs
<1>5. ASSUME NEW j, j # k PROVE j \in EnclosingIn(w, next) <=> j \in EnclosingIn(w, k)
  <2>1. j \in EnclosingIn(w, next) <=>
          /\ j \in 1 .. k /\ w[j].kind = "tree"
          /\ \A m \in j .. k : Depth(w, j) <= Depth(w, m)
    BY <1>3, EnclosingIs
  <2>2. j \in EnclosingIn(w, k) <=>
          /\ j \in 1 .. k - 1 /\ w[j].kind = "tree"
          /\ \A m \in j .. k - 1 : Depth(w, j) <= Depth(w, m)
    BY EnclosingIs
  <2>3. j \in 1 .. k <=> j \in 1 .. k - 1
    BY <1>5
  <2>4. ASSUME j \in 1 .. k - 1
        PROVE  (\A m \in j .. k : Depth(w, j) <= Depth(w, m))
                 <=> \A m \in j .. k - 1 : Depth(w, j) <= Depth(w, m)
    <3>1. /\ \A m : m \in j .. k <=> m \in j .. k - 1 \/ m = k
          /\ k - 1 \in j .. k - 1 /\ j \in Nat /\ k - 1 \in Nat
      BY <2>4
    <3>2. Depth(w, j) <= Depth(w, k - 1) => Depth(w, j) <= Depth(w, k)
      BY <1>1, <1>2, <3>1
    <3> QED BY <3>1, <3>2
  <2> QED BY <2>1, <2>2, <2>3, <2>4
<1>6. k \notin EnclosingIn(w, k)
  <2>1. k \notin 1 .. k - 1
    OBVIOUS
  <2> QED BY <2>1, EnclosingIs
<1> QED BY <1>3, <1>4, <1>5

(* tree.end: those stay around that have another one inside them.          *)
LEMMA AfterEnd ==
  ASSUME NEW w, NEW k \in Nat \ {0}, w[k].kind = "tree.end"
  PROVE  EnclosingIn(w, k + 1) = {j \in EnclosingIn(w, k) : \E t \in EnclosingIn(w, k) : j < t}
<1>1. \A m \in Nat : Depth(w, m) \in Int
  BY DepthIs
<1>2. Depth(w, k) = Depth(w, k - 1) - 1
  <2>1. "tree" # "tree.end"
    OBVIOUS
  <2>2. Depth(w, k) = Depth(w, k - 1) + -1
    BY <2>1, DepthIs
  <2>3. Depth(w, k - 1) \in Int
    BY <1>1
  <2> QED BY <2>2, <2>3
<1>3. PICK next \in Nat \ {0} : next = k + 1 /\ next - 1 = k
  OBVIOUS
<1>4. ASSUME NEW j \in EnclosingIn(w, k), NEW t \in EnclosingIn(w, k), j < t
      PROVE  j \in EnclosingIn(w, next)
  <2>1. /\ j \in 1 .. k - 1 /\ w[j].kind = "tree"
        /\ \A m \in j .. k - 1 : Depth(w, j) <= Depth(w, m)
    BY EnclosingIs
  <2>2. /\ t \in 1 .. k - 1 /\ w[t].kind = "tree"
        /\ \A m \in t .. k - 1 : Depth(w, t) <= Depth(w, m)
    BY EnclosingIs
  <2>3. Depth(w, t) = Depth(w, t - 1) + 1
    BY <2>2, DepthIs
  <2>4. /\ t - 1 \in j .. k - 1 /\ k - 1 \in t .. k - 1
        /\ j \in Nat /\ t \in Nat /\ t - 1 \in Nat /\ k - 1 \in Nat
    BY <1>4, <2>1, <2>2
  <2>5. Depth(w, j) <= Depth(w, t - 1) /\ Depth(w, t) <= Depth(w, k - 1)
    BY <2>1, <2>2, <2>4
  <2>6. Depth(w, j) <= Depth(w, k)
    BY <1>1, <1>2, <2>3, <2>4, <2>5
  <2>7. j \in 1 .. next - 1 /\ \A m \in j .. next - 1 : m \in j .. k - 1 \/ m = k
    BY <1>3, <2>1
  <2> QED BY <2>1, <2>6, <2>7, EnclosingIs
<1>5. ASSUME NEW j \in EnclosingIn(w, next)
      PROVE  j \in EnclosingIn(w, k) /\ \E t \in EnclosingIn(w, k) : j < t
  <2>1. /\ j \in 1 .. k /\ w[j].kind = "tree"
        /\ \A m \in j .. k : Depth(w, j) <= Depth(w, m)
    BY <1>3, EnclosingIs
  <2>2. j # k
    BY <2>1
  <2>3. j \in 1 .. k - 1 /\ k \in j .. k /\ \A m \in j .. k - 1 : m \in j .. k
    BY <2>1, <2>2
  <2>4. j \in EnclosingIn(w, k)
    BY <2>1, <2>3, EnclosingIs
  <2> DEFINE S == {m \in j .. k - 1 : Depth(w, m) <= Depth(w, j)}
  <2>5. PICK m \in S : \A i \in S : i <= m
    <3>1. S \in SUBSET (0 .. k) /\ j \in S
      BY <1>1, <2>3
    <3> HIDE DEF S
    <3> QED BY <3>1, LastOf
  <2>6. m \in j .. k - 1 /\ Depth(w, m) <= Depth(w, j)
    OBVIOUS
  <2>7. m # k - 1
    <3>1. Depth(w, j) <= Depth(w, k) /\ j \in Nat /\ k - 1 \in Nat /\ k \in Nat
      BY <2>1, <2>3
    <3> QED BY <1>1, <1>2, <2>6, <3>1
  <2>8. PICK t \in 1 .. k - 1 : t = m + 1 /\ t - 1 = m
    BY <2>3, <2>6, <2>7
  <2>9. ASSUME NEW i \in t .. k - 1 PROVE Depth(w, j) < Depth(w, i)
    <3>1. i \in j .. k - 1 /\ ~(i <= m)
      <4>1. j \in Nat /\ m \in Nat /\ t \in Nat /\ k - 1 \in Nat /\ i \in Nat
        BY <2>3, <2>6, <2>8
      <4>2. j <= m /\ t = m + 1 /\ t <= i /\ i <= k - 1
        BY <2>6, <2>8
      <4> QED BY <4>1, <4>2
    <3>2. ~(Depth(w, i) <= Depth(w, j))
      BY <2>5, <3>1
    <3>3. Depth(w, i) \in Int /\ Depth(w, j) \in Int
      BY <1>1, <2>3, <3>1
    <3> QED BY <3>2, <3>3
  <2>10. Depth(w, j) < Depth(w, t) /\ Depth(w, m) <= Depth(w, j)
    <3>1. t \in t .. k - 1
      BY <2>8
    <3> QED BY <2>6, <2>9, <3>1
  <2>11. Depth(w, j) \in Int /\ Depth(w, m) \in Int /\ Depth(w, t) \in Int
    BY <1>1, <2>3, <2>6, <2>8
  <2>12. Depth(w, t) = Depth(w, m)
                       + (IF w[t].kind = "tree" THEN 1
                          ELSE IF w[t].kind = "tree.end" THEN -1 ELSE 0)
    BY <2>8, DepthIs
  <2>13. w[t].kind = "tree" /\ Depth(w, t) = Depth(w, m) + 1
    <3>1. CASE w[t].kind = "tree"
      BY <2>12, <3>1
    <3>2. CASE w[t].kind # "tree"
      <4>1. Depth(w, t) = Depth(w, m) + -1 \/ Depth(w, t) = Depth(w, m) + 0
        BY <2>12, <3>2
      <4> QED BY <2>10, <2>11, <4>1
    <3> QED BY <3>1, <3>2
  <2>14. ASSUME NEW i \in t .. k - 1 PROVE Depth(w, t) <= Depth(w, i)
    <3>1. Depth(w, i) \in Int /\ Depth(w, j) < Depth(w, i)
      BY <1>1, <2>8, <2>9
    <3> QED BY <2>10, <2>11, <2>13, <3>1
  <2>15. t \in EnclosingIn(w, k)
    BY <2>13, <2>14, EnclosingIs
  <2>16. j < t
    BY <2>3, <2>6, <2>8
  <2> QED BY <2>4, <2>15, <2>16
<1> QED BY <1>3, <1>4, <1>5

LEMMA AfterOther ==
  ASSUME NEW w, NEW k \in Nat \ {0}, w[k].kind \notin {"tree", "tree.end"}
  PROVE  EnclosingIn(w, k + 1) = EnclosingIn(w, k)
<1>1. \A m \in Nat : Depth(w, m) \in Int
  BY DepthIs
<1>2. Depth(w, k) = Depth(w, k - 1)
  <2>1. Depth(w, k) = Depth(w, k - 1) + 0
    BY DepthIs
  <2>2. Depth(w, k - 1) \in Int
    BY <1>1
  <2> QED BY <2>1, <2>2
<1>3. PICK next \in Nat \ {0} : next = k + 1 /\ next - 1 = k
  OBVIOUS
<1>4. ASSUME NEW j PROVE j \in EnclosingIn(w, next) <=> j \in EnclosingIn(w, k)
  <2>1. j \in EnclosingIn(w, next) <=>
          /\ j \in 1 .. k /\ w[j].kind = "tree"
          /\ \A m \in j .. k : Depth(w, j) <= Depth(w, m)
    BY <1>3, EnclosingIs
  <2>2. j \in EnclosingIn(w, k) <=>
          /\ j \in 1 .. k - 1 /\ w[j].kind = "tree"
          /\ \A m \in j .. k - 1 : Depth(w, j) <= Depth(w, m)
    BY EnclosingIs
  <2>3. w[j].kind = "tree" => (j \in 1 .. k <=> j \in 1 .. k - 1)
    <3>1. w[j].kind = "tree" => j # k
      OBVIOUS
    <3> QED BY <3>1
  <2>4. ASSUME j \in 1 .. k - 1
        PROVE  (\A m \in j .. k : Depth(w, j) <= Depth(w, m))
                 <=> \A m \in j .. k - 1 : Depth(w, j) <= Depth(w, m)
    <3>1. /\ \A m : m \in j .. k <=> m \in j .. k - 1 \/ m = k
          /\ k - 1 \in j .. k - 1
      BY <2>4
    <3> QED BY <1>2, <3>1
  <2> QED BY <2>1, <2>2, <2>3, <2>4
<1> QED BY <1>3, <1>4

(* The base at a line.                                                     *)
BasesIn(w, k) ==
  {b \in 1 .. k - 1 : w[b].kind = "base" /\ EnclosingIn(w, b) \subseteq EnclosingIn(w, k)}
LatestBase(w, bases) ==
  IF bases = {} THEN None ELSE w[CHOOSE b \in bases : \A c \in bases : c <= b].base
BaseIn(w, k) == LatestBase(w, BasesIn(w, k))

LEMMA TreesComeBefore ==
  ASSUME NEW w, NEW k \in Nat \ {0}
  PROVE  EnclosingIn(w, k) \subseteq 1 .. k - 1
BY EnclosingIs

(* A tree inherits its base.                                               *)
LEMMA TreeInherits ==
  ASSUME NEW w, NEW k \in Nat \ {0}, w[k].kind = "tree"
  PROVE  BaseIn(w, k + 1) = BaseIn(w, k)
<1>1. PICK next : next = k + 1 /\ next - 1 = k
  OBVIOUS
<1>2. EnclosingIn(w, next) = EnclosingIn(w, k) \cup {k}
  BY <1>1, AfterTree
<1>3. ASSUME NEW b PROVE b \in BasesIn(w, next) <=> b \in BasesIn(w, k)
  <2>1. CASE b \in 1 .. k - 1
    <3>1. b \in Nat \ {0} /\ k \notin 1 .. b - 1 /\ b \in 1 .. k
      BY <2>1
    <3>2. k \notin EnclosingIn(w, b)
      BY <3>1, TreesComeBefore
    <3>3. EnclosingIn(w, b) \subseteq EnclosingIn(w, next)
            <=> EnclosingIn(w, b) \subseteq EnclosingIn(w, k)
      BY <1>2, <3>2
    <3> QED BY <1>1, <2>1, <3>1, <3>3 DEF BasesIn
  <2>2. CASE b \notin 1 .. k - 1
    <3>1. b \in 1 .. k => b = k
      BY <2>2
    <3>2. "tree" # "base"
      OBVIOUS
    <3> QED BY <1>1, <2>2, <3>1, <3>2 DEF BasesIn
  <2> QED BY <2>1, <2>2
<1>4. BasesIn(w, next) = BasesIn(w, k)
  BY <1>3
<1> QED BY <1>1, <1>4 DEF BaseIn

(* A tree that ends leaves the base it began with.                         *)
LEMMA EndRestores ==
  ASSUME NEW w, NEW k \in Nat \ {0}, w[k].kind = "tree.end",
         NEW t \in EnclosingIn(w, k), \A j \in EnclosingIn(w, k) : j <= t
  PROVE  BaseIn(w, k + 1) = BaseIn(w, t)
<1>1. PICK next : next = k + 1 /\ next - 1 = k
  OBVIOUS
<1>2. /\ t \in 1 .. k - 1 /\ w[t].kind = "tree"
      /\ EnclosingIn(w, t) = {j \in EnclosingIn(w, k) : j < t}
      /\ \A b \in t + 1 .. k - 1 : t \in EnclosingIn(w, b)
  BY TreesAreNested
<1>3. EnclosingIn(w, next) = EnclosingIn(w, t)
  <2>1. EnclosingIn(w, next) = {j \in EnclosingIn(w, k) : \E i \in EnclosingIn(w, k) : j < i}
    BY <1>1, AfterEnd
  <2>2. ASSUME NEW j \in EnclosingIn(w, k)
        PROVE  (\E i \in EnclosingIn(w, k) : j < i) <=> j < t
    <3>1. EnclosingIn(w, k) \subseteq 1 .. k - 1
      BY TreesComeBefore
    <3>2. \A i \in EnclosingIn(w, k) : i <= t /\ i \in Nat /\ t \in Nat /\ j \in Nat
      BY <3>1
    <3>3. \A i \in EnclosingIn(w, k) : j < i => j < t
      BY <3>2
    <3> QED BY <3>3
  <2> QED BY <1>2, <2>1, <2>2
<1>4. t \notin EnclosingIn(w, t)
  <2>1. t \notin 1 .. t - 1 /\ t \in Nat \ {0}
    BY <1>2
  <2> QED BY <2>1, TreesComeBefore
<1>5. ASSUME NEW b PROVE b \in BasesIn(w, next) <=> b \in BasesIn(w, t)
  <2>1. b \in BasesIn(w, next) <=>
          b \in 1 .. k /\ w[b].kind = "base" /\ EnclosingIn(w, b) \subseteq EnclosingIn(w, t)
    BY <1>1, <1>3 DEF BasesIn
  <2>2. b \in 1 .. k => b \in 1 .. t - 1 \/ b = t \/ b \in t + 1 .. k - 1 \/ b = k
    BY <1>2
  <2>3. "base" # "tree" /\ "base" # "tree.end"
    OBVIOUS
  <2>4. b = t \/ b = k => w[b].kind # "base"
    BY <1>2, <2>3
  <2>5. b \in t + 1 .. k - 1 => ~(EnclosingIn(w, b) \subseteq EnclosingIn(w, t))
    BY <1>2, <1>4
  <2>6. b \in 1 .. t - 1 => b \in 1 .. k
    BY <1>2
  <2> QED BY <2>1, <2>2, <2>4, <2>5, <2>6 DEF BasesIn
<1>6. BasesIn(w, next) = BasesIn(w, t)
  BY <1>5
<1> QED BY <1>1, <1>6 DEF BaseIn

(* Lines other than of a tree or a base change no base.                    *)
LEMMA BaseStays ==
  ASSUME NEW w, NEW k \in Nat \ {0}, w[k].kind # "base",
         EnclosingIn(w, k + 1) = EnclosingIn(w, k)
  PROVE  BaseIn(w, k + 1) = BaseIn(w, k)
<1>1. PICK next : next = k + 1 /\ next - 1 = k
  OBVIOUS
<1>2. ASSUME NEW b PROVE b \in BasesIn(w, next) <=> b \in BasesIn(w, k)
  <2>1. b \in 1 .. k <=> b \in 1 .. k - 1 \/ b = k
    OBVIOUS
  <2> QED BY <1>1, <2>1 DEF BasesIn
<1>3. BasesIn(w, next) = BasesIn(w, k)
  BY <1>2
<1> QED BY <1>1, <1>3 DEF BaseIn

LEMMA BaseIsSet ==
  ASSUME NEW w, NEW k \in Nat \ {0}, w[k].kind = "base"
  PROVE  BaseIn(w, k + 1) = w[k].base
<1>1. PICK next : next = k + 1 /\ next - 1 = k
  OBVIOUS
<1>2. EnclosingIn(w, next) = EnclosingIn(w, k)
  BY <1>1, AfterOther
<1>3. k \in BasesIn(w, next) /\ \A b \in BasesIn(w, next) : b \in Nat /\ b <= k
  BY <1>1, <1>2 DEF BasesIn
<1>4. PICK S : S = BasesIn(w, next)
  OBVIOUS
<1>5. (CHOOSE b \in S : \A c \in S : c <= b) = k
  <2>1. k \in S /\ \A c \in S : c <= k /\ c \in Nat
    BY <1>3, <1>4
  <2>2. PICK b : b = CHOOSE x \in S : \A c \in S : c <= x
    OBVIOUS
  <2>3. b \in S /\ \A c \in S : c <= b
    BY <2>1, <2>2
  <2>4. b <= k /\ k <= b /\ b \in Nat
    BY <2>1, <2>3
  <2> QED BY <2>2, <2>4
<1> QED BY <1>1, <1>3, <1>4, <1>5 DEF BaseIn, LatestBase

(* What is around a line, and its base, are told by the lines before it.   *)
LEMMA SameTrees ==
  ASSUME NEW w, NEW v, NEW n \in Nat, \A i \in 1 .. n : v[i] = w[i], NEW k \in 1 .. n + 1
  PROVE  EnclosingIn(v, k) = EnclosingIn(w, k)
<1>1. ASSUME NEW kind, NEW a \in Nat \ {0}, NEW b \in 0 .. n
      PROVE  CountIn(v, kind, a, b) = CountIn(w, kind, a, b)
  <2>1. \A i \in a .. b : v[i] = w[i]
    <3>1. \A i \in a .. b : i \in 1 .. n
      OBVIOUS
    <3> QED BY <3>1
  <2> QED BY <2>1 DEF CountIn, LinesIn
<1>2. ASSUME NEW j \in 1 .. k - 1
      PROVE  /\ v[j] = w[j]
             /\ \A m \in j + 1 .. k - 1 :
                  CountIn(v, "tree.end", j + 1, m) <= CountIn(v, "tree", j + 1, m)
                    <=> CountIn(w, "tree.end", j + 1, m) <= CountIn(w, "tree", j + 1, m)
  <2>1. j \in 1 .. n /\ j + 1 \in Nat \ {0} /\ \A m \in j + 1 .. k - 1 : m \in 0 .. n
    OBVIOUS
  <2> QED BY <1>1, <2>1
<1> QED BY <1>2 DEF EnclosingIn

LEMMA SameBase ==
  ASSUME NEW w, NEW v, NEW n \in Nat, \A i \in 1 .. n : v[i] = w[i], NEW k \in 1 .. n + 1
  PROVE  BaseIn(v, k) = BaseIn(w, k)
<1>1. EnclosingIn(v, k) = EnclosingIn(w, k)
  BY SameTrees
<1>2. ASSUME NEW b \in 1 .. k - 1 PROVE v[b] = w[b] /\ EnclosingIn(v, b) = EnclosingIn(w, b)
  <2>1. b \in 1 .. n /\ b \in 1 .. n + 1
    OBVIOUS
  <2> QED BY <2>1, SameTrees
<1>3. BasesIn(v, k) = BasesIn(w, k)
  BY <1>1, <1>2 DEF BasesIn
<1>4. PICK S : S = BasesIn(w, k)
  OBVIOUS
<1>5. \A b \in S : b \in 0 .. n + 1 /\ v[b] = w[b]
  BY <1>2, <1>4 DEF BasesIn
<1>6. LatestBase(v, S) = LatestBase(w, S)
  <2>1. CASE S = {}
    BY <2>1 DEF LatestBase
  <2>2. CASE S # {}
    <3>1. PICK x \in S : \A y \in S : y <= x
      <4>1. S \in SUBSET (0 .. n + 1) /\ n + 1 \in Nat
        BY <1>5
      <4> QED BY <2>2, <4>1, LastOf
    <3>2. (CHOOSE b \in S : \A c \in S : c <= b) \in S
      BY <3>1
    <3> QED BY <1>5, <2>2, <3>2 DEF LatestBase
  <2> QED BY <2>1, <2>2
<1> QED BY <1>3, <1>4, <1>6 DEF BaseIn

(* The stack of trees, of which there are m, after n lines: begun at the   *)
(* lines o, the last of which is the line to be read.  Each has the base   *)
(* that is inherited by the next one.                                      *)
StackIs(w, n, ts, m, top, o) ==
  /\ o \in [1 .. m + 1 -> 1 .. n + 1] /\ o[m + 1] = n + 1
  /\ \A i, j \in 1 .. m + 1 : i < j => o[i] < o[j]
  /\ EnclosingIn(w, n + 1) = {o[i] : i \in 1 .. m}
  /\ \A i \in 1 .. m : ts[i].name = w[o[i]].name /\ ts[i].base = BaseIn(w, o[i + 1])
  /\ top = BaseIn(w, o[1])

HasStack(w, n, ts, m, top) == \E o : StackIs(w, n, ts, m, top, o)

LEMMA CurrentBaseIs ==
  ASSUME NEW w, NEW n \in Nat, NEW ts, NEW m \in Nat, NEW top, NEW o, StackIs(w, n, ts, m, top, o)
  PROVE  (IF m = 0 THEN top ELSE ts[m].base) = BaseIn(w, n + 1)
<1>1. CASE m = 0
  <2>1. m + 1 = 1
    BY <1>1
  <2> QED BY <1>1, <2>1 DEF StackIs
<1>2. CASE m # 0
  <2>1. m \in 1 .. m
    BY <1>2
  <2> QED BY <1>2, <2>1 DEF StackIs
<1> QED BY <1>1, <1>2

(* A line that begins and ends no tree.                                    *)
LEMMA StackStays ==
  ASSUME NEW w, NEW v, NEW n \in Nat, \A i \in 1 .. n : v[i] = w[i],
         NEW ts, NEW m \in Nat, NEW top, NEW o, StackIs(w, n, ts, m, top, o),
         NEW us, NEW new, EnclosingIn(v, (n + 1) + 1) = EnclosingIn(w, n + 1),
         \A i \in 1 .. m : us[i].name = ts[i].name,
         \A i \in 1 .. m - 1 : us[i].base = ts[i].base,
         (IF m = 0 THEN new ELSE us[m].base) = BaseIn(v, (n + 1) + 1),
         m # 0 => new = top
  PROVE  HasStack(v, n + 1, us, m, new)
<1> DEFINE p == [i \in 1 .. m + 1 |-> IF i = m + 1 THEN (n + 1) + 1 ELSE o[i]]
<1>1. /\ o \in [1 .. m + 1 -> 1 .. n + 1] /\ o[m + 1] = n + 1
      /\ \A i, j \in 1 .. m + 1 : i < j => o[i] < o[j]
      /\ EnclosingIn(w, n + 1) = {o[i] : i \in 1 .. m}
      /\ \A i \in 1 .. m : ts[i].name = w[o[i]].name /\ ts[i].base = BaseIn(w, o[i + 1])
      /\ top = BaseIn(w, o[1])
  BY DEF StackIs
<1>2. /\ \A i \in 1 .. m : i \in 1 .. m + 1 /\ i < m + 1 /\ i # m + 1
      /\ m + 1 \in 1 .. m + 1
      /\ \A i \in 1 .. m + 1 : i = m + 1 \/ i \in 1 .. m
  OBVIOUS
<1>3. ASSUME NEW i \in 1 .. m PROVE o[i] \in 1 .. n /\ p[i] = o[i]
  <2>1. o[i] \in 1 .. n + 1 /\ o[i] < n + 1
    BY <1>1, <1>2
  <2> QED BY <1>2, <2>1
<1>4. p[m + 1] = (n + 1) + 1
  BY <1>2
<1>5. p \in [1 .. m + 1 -> 1 .. (n + 1) + 1]
  <2>1. \A x \in 1 .. n : x \in 1 .. (n + 1) + 1
    OBVIOUS
  <2>2. \A i \in 1 .. m + 1 :
          (IF i = m + 1 THEN (n + 1) + 1 ELSE o[i]) \in 1 .. (n + 1) + 1
    <3>1. (n + 1) + 1 \in 1 .. (n + 1) + 1
      OBVIOUS
    <3> QED BY <1>2, <1>3, <2>1, <3>1
  <2> QED BY <2>2
<1> HIDE DEF p
<1>6. ASSUME NEW i \in 1 .. m + 1, NEW j \in 1 .. m + 1, i < j PROVE p[i] < p[j]
  <2>1. i \in 1 .. m
    BY <1>6
  <2>2. CASE j = m + 1
    <3>1. o[i] \in 1 .. n /\ p[i] = o[i] /\ p[j] = (n + 1) + 1
      BY <1>3, <1>4, <2>1, <2>2
    <3> QED BY <3>1
  <2>3. CASE j \in 1 .. m
    BY <1>1, <1>3, <1>6, <2>1, <2>3
  <2> QED BY <1>2, <2>2, <2>3
<1>7. EnclosingIn(v, (n + 1) + 1) = {p[i] : i \in 1 .. m}
  <2>1. \A i \in 1 .. m : p[i] = o[i]
    BY <1>3
  <2>2. {p[i] : i \in 1 .. m} = {o[i] : i \in 1 .. m}
    BY <2>1
  <2>3. EnclosingIn(v, (n + 1) + 1) = {o[i] : i \in 1 .. m}
    BY <1>1
  <2> QED BY <2>2, <2>3
<1>8. ASSUME NEW i \in 1 .. m
      PROVE  us[i].name = v[p[i]].name /\ us[i].base = BaseIn(v, p[i + 1])
  <2>1. us[i].name = v[p[i]].name
    BY <1>1, <1>3
  <2>2. CASE i = m
    <3>1. m # 0
      OBVIOUS
    <3> QED BY <1>4, <2>1, <2>2, <3>1
  <2>3. CASE i # m
    <3>1. i \in 1 .. m - 1 /\ i + 1 \in 1 .. m
      BY <2>3
    <3>2. o[i + 1] \in 1 .. n /\ o[i + 1] \in 1 .. n + 1 /\ p[i + 1] = o[i + 1]
      BY <1>3, <3>1
    <3>3. BaseIn(v, o[i + 1]) = BaseIn(w, o[i + 1])
      BY <3>2, SameBase
    <3> QED BY <1>1, <2>1, <3>1, <3>2, <3>3
  <2> QED BY <2>2, <2>3
<1>9. new = BaseIn(v, p[1])
  <2>1. CASE m = 0
    <3>1. m + 1 = 1
      BY <2>1
    <3> QED BY <1>4, <2>1, <3>1
  <2>2. CASE m # 0
    <3>1. 1 \in 1 .. m
      BY <2>2
    <3>2. o[1] \in 1 .. n + 1 /\ p[1] = o[1]
      BY <1>3, <3>1
    <3>3. BaseIn(v, o[1]) = BaseIn(w, o[1])
      BY <3>2, SameBase
    <3> QED BY <1>1, <2>2, <3>2, <3>3
  <2> QED BY <2>1, <2>2
<1>10. StackIs(v, n + 1, us, m, new, p)
  BY <1>4, <1>5, <1>6, <1>7, <1>8, <1>9 DEF StackIs
<1> QED BY <1>10 DEF HasStack

(* tree: the tree that begins inherits the base.                           *)
LEMMA StackOpens ==
  ASSUME NEW w, NEW v, NEW n \in Nat, \A i \in 1 .. n : v[i] = w[i],
         NEW ts, NEW m \in Nat, NEW top, NEW o, StackIs(w, n, ts, m, top, o),
         v[n + 1].kind = "tree", NEW us, \A i \in 1 .. m : us[i] = ts[i],
         us[m + 1].name = v[n + 1].name, us[m + 1].base = BaseIn(w, n + 1)
  PROVE  HasStack(v, n + 1, us, m + 1, top)
<1> DEFINE p == [i \in 1 .. (m + 1) + 1 |-> IF i = (m + 1) + 1 THEN (n + 1) + 1 ELSE o[i]]
<1>1. /\ o \in [1 .. m + 1 -> 1 .. n + 1] /\ o[m + 1] = n + 1
      /\ \A i, j \in 1 .. m + 1 : i < j => o[i] < o[j]
      /\ EnclosingIn(w, n + 1) = {o[i] : i \in 1 .. m}
      /\ \A i \in 1 .. m : ts[i].name = w[o[i]].name /\ ts[i].base = BaseIn(w, o[i + 1])
      /\ top = BaseIn(w, o[1])
  BY DEF StackIs
<1>2. /\ \A i \in 1 .. m + 1 : i \in 1 .. (m + 1) + 1 /\ i # (m + 1) + 1
      /\ (m + 1) + 1 \in 1 .. (m + 1) + 1 /\ m + 1 \in 1 .. m + 1
      /\ \A i \in 1 .. (m + 1) + 1 : i = (m + 1) + 1 \/ i \in 1 .. m + 1
      /\ \A i \in 1 .. m + 1 : i = m + 1 \/ i \in 1 .. m
      /\ \A i \in 1 .. m : i + 1 \in 1 .. m + 1 /\ i \in 1 .. m + 1 /\ i # m + 1 /\ i < m + 1
  OBVIOUS
<1>3. ASSUME NEW i \in 1 .. m + 1 PROVE o[i] \in 1 .. n + 1 /\ p[i] = o[i]
  BY <1>1, <1>2
<1>4. p[(m + 1) + 1] = (n + 1) + 1
  BY <1>2
<1>5. p \in [1 .. (m + 1) + 1 -> 1 .. (n + 1) + 1]
  <2>1. (n + 1) + 1 \in 1 .. (n + 1) + 1 /\ \A x \in 1 .. n + 1 : x \in 1 .. (n + 1) + 1
    OBVIOUS
  <2>2. \A i \in 1 .. (m + 1) + 1 :
          (IF i = (m + 1) + 1 THEN (n + 1) + 1 ELSE o[i]) \in 1 .. (n + 1) + 1
    BY <1>2, <1>3, <2>1
  <2> QED BY <2>2
<1> HIDE DEF p
<1>6. ASSUME NEW i \in 1 .. (m + 1) + 1, NEW j \in 1 .. (m + 1) + 1, i < j PROVE p[i] < p[j]
  <2>1. i \in 1 .. m + 1
    BY <1>6
  <2>2. CASE j = (m + 1) + 1
    <3>1. o[i] \in 1 .. n + 1 /\ p[i] = o[i] /\ p[j] = (n + 1) + 1
      BY <1>3, <1>4, <2>1, <2>2
    <3> QED BY <3>1
  <2>3. CASE j \in 1 .. m + 1
    BY <1>1, <1>3, <1>6, <2>1, <2>3
  <2> QED BY <1>2, <2>2, <2>3
<1>7. EnclosingIn(v, (n + 1) + 1) = {p[i] : i \in 1 .. m + 1}
  <2>1. EnclosingIn(v, (n + 1) + 1) = EnclosingIn(v, n + 1) \cup {n + 1}
    <3>1. n + 1 \in Nat \ {0}
      OBVIOUS
    <3> QED BY <3>1, AfterTree
  <2>2. EnclosingIn(v, n + 1) = EnclosingIn(w, n + 1)
    <3>1. n + 1 \in 1 .. n + 1
      OBVIOUS
    <3> QED BY <3>1, SameTrees
  <2>3. p[m + 1] = n + 1
    BY <1>1, <1>2, <1>3
  <2>4. \A i \in 1 .. m : p[i] = o[i]
    BY <1>2, <1>3
  <2>5. \A x : (\E i \in 1 .. m + 1 : x = p[i]) <=> x = n + 1 \/ \E i \in 1 .. m : x = o[i]
    BY <1>2, <2>3, <2>4
  <2>6. PICK A : A = EnclosingIn(v, n + 1)
    OBVIOUS
  <2>7. \A x : x \in A <=> \E i \in 1 .. m : x = o[i]
    BY <1>1, <2>2, <2>6
  <2>8. \A x : x \in A \cup {n + 1} <=> \E i \in 1 .. m + 1 : x = p[i]
    BY <2>5, <2>7
  <2>9. A \cup {n + 1} = {p[i] : i \in 1 .. m + 1}
    BY <2>8
  <2> QED BY <2>1, <2>6, <2>9
<1>8. ASSUME NEW i \in 1 .. m + 1
      PROVE  us[i].name = v[p[i]].name /\ us[i].base = BaseIn(v, p[i + 1])
  <2>1. CASE i = m + 1
    <3>1. p[i] = n + 1 /\ p[i + 1] = (n + 1) + 1
      BY <1>1, <1>2, <1>3, <1>4, <2>1
    <3>2. BaseIn(v, (n + 1) + 1) = BaseIn(v, n + 1)
      BY TreeInherits
    <3>3. BaseIn(v, n + 1) = BaseIn(w, n + 1)
      <4>1. n + 1 \in 1 .. n + 1
        OBVIOUS
      <4> QED BY <4>1, SameBase
    <3> QED BY <2>1, <3>1, <3>2, <3>3
  <2>2. CASE i \in 1 .. m
    <3>1. o[i] < o[m + 1] /\ o[i] \in 1 .. n + 1
      BY <1>1, <1>2, <2>2
    <3>2. o[i] \in 1 .. n /\ p[i] = o[i] /\ p[i + 1] = o[i + 1] /\ o[i + 1] \in 1 .. n + 1
      BY <1>1, <1>2, <1>3, <2>2, <3>1
    <3>3. PICK x \in 1 .. n + 1 : x = o[i + 1]
      BY <3>2
    <3>4. BaseIn(v, x) = BaseIn(w, x)
      BY SameBase
    <3>5. ts[i].name = w[o[i]].name /\ ts[i].base = BaseIn(w, x)
      BY <1>1, <2>2, <3>3
    <3> QED BY <2>2, <3>2, <3>3, <3>4, <3>5
  <2> QED BY <1>2, <2>1, <2>2
<1>9. top = BaseIn(v, p[1])
  <2>1. 1 \in 1 .. m + 1
    OBVIOUS
  <2>2. PICK x \in 1 .. n + 1 : x = o[1] /\ x = p[1]
    BY <1>3, <2>1
  <2>3. BaseIn(v, x) = BaseIn(w, x)
    BY SameBase
  <2> QED BY <1>1, <2>2, <2>3
<1>10. StackIs(v, n + 1, us, m + 1, top, p)
  BY <1>4, <1>5, <1>6, <1>7, <1>8, <1>9 DEF StackIs
<1> QED BY <1>10 DEF HasStack

(* tree.end, with a tree to end.                                           *)
LEMMA StackCloses ==
  ASSUME NEW w, NEW v, NEW n \in Nat, \A i \in 1 .. n : v[i] = w[i],
         NEW ts, NEW m \in Nat, NEW top, NEW o, StackIs(w, n, ts, m + 1, top, o),
         v[n + 1].kind = "tree.end", NEW us, \A i \in 1 .. m : us[i] = ts[i]
  PROVE  HasStack(v, n + 1, us, m, top)
<1> DEFINE p == [i \in 1 .. m + 1 |-> IF i = m + 1 THEN (n + 1) + 1 ELSE o[i]]
<1>1. /\ o \in [1 .. (m + 1) + 1 -> 1 .. n + 1] /\ o[(m + 1) + 1] = n + 1
      /\ \A i, j \in 1 .. (m + 1) + 1 : i < j => o[i] < o[j]
      /\ EnclosingIn(w, n + 1) = {o[i] : i \in 1 .. m + 1}
      /\ \A i \in 1 .. m + 1 : ts[i].name = w[o[i]].name /\ ts[i].base = BaseIn(w, o[i + 1])
      /\ top = BaseIn(w, o[1])
  BY DEF StackIs
<1>2. /\ \A i \in 1 .. m : i \in 1 .. m + 1 /\ i \in 1 .. (m + 1) + 1 /\ i # m + 1 /\ i < m + 1
      /\ m + 1 \in 1 .. m + 1 /\ m + 1 \in 1 .. (m + 1) + 1 /\ (m + 1) + 1 \in 1 .. (m + 1) + 1
      /\ m + 1 < (m + 1) + 1
      /\ \A i \in 1 .. m + 1 : i = m + 1 \/ i \in 1 .. m
  OBVIOUS
<1>3. ASSUME NEW i \in 1 .. m PROVE o[i] \in 1 .. n /\ p[i] = o[i] /\ o[i] < o[m + 1]
  <2>1. o[i] < o[m + 1] /\ o[m + 1] < n + 1 /\ o[i] \in 1 .. n + 1 /\ o[m + 1] \in 1 .. n + 1
    BY <1>1, <1>2
  <2> QED BY <1>2, <2>1
<1>4. p[m + 1] = (n + 1) + 1
  BY <1>2
<1>5. p \in [1 .. m + 1 -> 1 .. (n + 1) + 1]
  <2>1. (n + 1) + 1 \in 1 .. (n + 1) + 1 /\ \A x \in 1 .. n : x \in 1 .. (n + 1) + 1
    OBVIOUS
  <2>2. \A i \in 1 .. m + 1 : (IF i = m + 1 THEN (n + 1) + 1 ELSE o[i]) \in 1 .. (n + 1) + 1
    BY <1>2, <1>3, <2>1
  <2> QED BY <2>2
<1> HIDE DEF p
<1>6. ASSUME NEW i \in 1 .. m + 1, NEW j \in 1 .. m + 1, i < j PROVE p[i] < p[j]
  <2>1. i \in 1 .. m
    BY <1>6
  <2>2. CASE j = m + 1
    <3>1. o[i] \in 1 .. n /\ p[i] = o[i] /\ p[j] = (n + 1) + 1
      BY <1>3, <1>4, <2>1, <2>2
    <3> QED BY <3>1
  <2>3. CASE j \in 1 .. m
    BY <1>1, <1>2, <1>3, <1>6, <2>1, <2>3
  <2> QED BY <1>2, <2>2, <2>3
<1>7. PICK t : t = o[m + 1]
  OBVIOUS
<1>8. /\ EnclosingIn(v, n + 1) = EnclosingIn(w, n + 1)
      /\ t \in EnclosingIn(v, n + 1) /\ t \in 1 .. n + 1
      /\ \A j \in EnclosingIn(v, n + 1) : j <= t
  <2>1. EnclosingIn(v, n + 1) = EnclosingIn(w, n + 1)
    <3>1. n + 1 \in 1 .. n + 1
      OBVIOUS
    <3> QED BY <3>1, SameTrees
  <2>2. t \in EnclosingIn(v, n + 1) /\ t \in 1 .. n + 1
    BY <1>1, <1>2, <1>7, <2>1
  <2>3. ASSUME NEW i \in 1 .. m + 1 PROVE o[i] <= t
    <3>1. CASE i = m + 1
      BY <1>7, <2>2, <3>1
    <3>2. CASE i \in 1 .. m
      <4>1. o[i] < t /\ o[i] \in 1 .. n
        BY <1>3, <1>7, <3>2
      <4> QED BY <2>2, <4>1
    <3> QED BY <1>2, <3>1, <3>2
  <2> QED BY <1>1, <2>1, <2>2, <2>3
<1>9. EnclosingIn(v, (n + 1) + 1) = {p[i] : i \in 1 .. m}
  <2>1. EnclosingIn(v, (n + 1) + 1)
          = {j \in EnclosingIn(v, n + 1) : \E x \in EnclosingIn(v, n + 1) : j < x}
    BY AfterEnd
  <2>2. ASSUME NEW j \in EnclosingIn(v, n + 1)
        PROVE  (\E x \in EnclosingIn(v, n + 1) : j < x) <=> \E i \in 1 .. m : j = o[i]
    <3>1. PICK i \in 1 .. m + 1 : j = o[i]
      BY <1>1, <1>8
    <3>2. CASE i = m + 1
      <4>1. \A a \in 1 .. m : o[a] < t /\ o[a] \in 1 .. n
        BY <1>3, <1>7
      <4>2. \A a \in 1 .. m : o[a] # t
        BY <1>8, <4>1
      <4>3. \A x \in EnclosingIn(v, n + 1) : x \in 1 .. n + 1 /\ x <= t
        <5>1. EnclosingIn(v, n + 1) \subseteq 1 .. n + 1
          BY <1>1, <1>8
        <5> QED BY <1>8, <5>1
      <4>4. \A x \in EnclosingIn(v, n + 1) : ~(t < x)
        BY <1>8, <4>3
      <4> QED BY <1>7, <3>1, <3>2, <4>2, <4>4
    <3>3. CASE i \in 1 .. m
      BY <1>3, <1>7, <1>8, <3>1, <3>3
    <3> QED BY <1>2, <3>2, <3>3
  <2>3. \A i \in 1 .. m : o[i] \in EnclosingIn(v, n + 1)
    BY <1>1, <1>2, <1>8
  <2>4. EnclosingIn(v, (n + 1) + 1) = {o[i] : i \in 1 .. m}
    BY <2>1, <2>2, <2>3
  <2> QED BY <1>3, <2>4
<1>10. BaseIn(v, (n + 1) + 1) = BaseIn(w, o[m + 1])
  <2>1. BaseIn(v, (n + 1) + 1) = BaseIn(v, t)
    BY <1>8, EndRestores
  <2>2. BaseIn(v, t) = BaseIn(w, t)
    BY <1>8, SameBase
  <2> QED BY <1>7, <2>1, <2>2
<1>11. ASSUME NEW i \in 1 .. m
       PROVE  us[i].name = v[p[i]].name /\ us[i].base = BaseIn(v, p[i + 1])
  <2>1. us[i].name = v[p[i]].name
    <3>1. o[i] \in 1 .. n /\ p[i] = o[i]
      BY <1>3
    <3>2. us[i] = ts[i] /\ ts[i].name = w[o[i]].name
      BY <1>1, <1>2
    <3> QED BY <3>1, <3>2
  <2>2. us[i].base = BaseIn(w, o[i + 1])
    BY <1>1, <1>2
  <2>3. CASE i = m
    BY <1>4, <1>10, <2>1, <2>2, <2>3
  <2>4. CASE i # m
    <3>1. i + 1 \in 1 .. m
      BY <2>4
    <3>2. o[i + 1] \in 1 .. n /\ o[i + 1] \in 1 .. n + 1 /\ p[i + 1] = o[i + 1]
      BY <1>3, <3>1
    <3>3. BaseIn(v, o[i + 1]) = BaseIn(w, o[i + 1])
      BY <3>2, SameBase
    <3> QED BY <2>1, <2>2, <3>2, <3>3
  <2> QED BY <2>3, <2>4
<1>12. top = BaseIn(v, p[1])
  <2>1. CASE m = 0
    <3>1. m + 1 = 1
      BY <2>1
    <3> QED BY <1>1, <1>4, <1>10, <3>1
  <2>2. CASE m # 0
    <3>1. 1 \in 1 .. m
      BY <2>2
    <3>2. o[1] \in 1 .. n /\ o[1] \in 1 .. n + 1 /\ p[1] = o[1]
      BY <1>3, <3>1
    <3>3. BaseIn(v, o[1]) = BaseIn(w, o[1])
      BY <3>2, SameBase
    <3> QED BY <1>1, <3>2, <3>3
  <2> QED BY <2>1, <2>2
<1>13. StackIs(v, n + 1, us, m, top, p)
  BY <1>4, <1>5, <1>6, <1>9, <1>11, <1>12 DEF StackIs
<1> QED BY <1>13 DEF HasStack

(* The group at a line.                                                    *)
GroupsIn(w, k) ==
  {g \in 1 .. k - 1 : w[g].kind = "group"
     /\ \A i \in g + 1 .. k - 1 : w[i].kind \notin {"group", "tree", "tree.end"}}
GroupStart(w, g) == IF w[g].literal THEN w[g].start ELSE Plus(BaseIn(w, g), w[g].start)
GroupIn(w, k) ==
  IF GroupsIn(w, k) = {} THEN None ELSE GroupStart(w, CHOOSE g \in GroupsIn(w, k) : TRUE)

LEMMA SameGroup ==
  ASSUME NEW w, NEW v, NEW n \in Nat, \A i \in 1 .. n : v[i] = w[i], NEW k \in 1 .. n + 1
  PROVE  GroupIn(v, k) = GroupIn(w, k)
<1>1. \A i \in 1 .. k - 1 : v[i] = w[i] /\ i \in 1 .. n + 1
  <2>1. \A i \in 1 .. k - 1 : i \in 1 .. n /\ i \in 1 .. n + 1
    OBVIOUS
  <2> QED BY <2>1
<1>2. \A g \in 1 .. k - 1 : \A i \in g + 1 .. k - 1 : i \in 1 .. k - 1
  OBVIOUS
<1>3. GroupsIn(v, k) = GroupsIn(w, k)
  BY <1>1, <1>2 DEF GroupsIn
<1>4. PICK S : S = GroupsIn(w, k)
  OBVIOUS
<1>5. PICK g : g = CHOOSE x \in S : TRUE
  OBVIOUS
<1>6. S # {} => g \in 1 .. k - 1
  <2>1. S # {} => g \in S
    BY <1>5
  <2> QED BY <1>4, <2>1 DEF GroupsIn
<1>7. S # {} => GroupStart(v, g) = GroupStart(w, g)
  <2>1. S # {} => v[g] = w[g] /\ g \in 1 .. n + 1
    BY <1>1, <1>6
  <2>2. S # {} => BaseIn(v, g) = BaseIn(w, g)
    BY <2>1, SameBase
  <2> QED BY <2>1, <2>2 DEF GroupStart
<1>8. GroupIn(v, k) = IF S = {} THEN None ELSE GroupStart(v, g)
  BY <1>3, <1>4, <1>5 DEF GroupIn
<1>9. GroupIn(w, k) = IF S = {} THEN None ELSE GroupStart(w, g)
  BY <1>4, <1>5 DEF GroupIn
<1> QED BY <1>7, <1>8, <1>9

LEMMA GroupGoesOn ==
  ASSUME NEW w, NEW k \in Nat \ {0}
  PROVE  /\ w[k].kind \in {"tree", "tree.end"} => GroupIn(w, k + 1) = None
         /\ w[k].kind = "group" => GroupIn(w, k + 1) = GroupStart(w, k)
         /\ w[k].kind \notin {"group", "tree", "tree.end"} => GroupIn(w, k + 1) = GroupIn(w, k)
<1>1. PICK next : next = k + 1 /\ next - 1 = k
  OBVIOUS
<1>2. GroupsIn(w, next) =
        {g \in 1 .. k : w[g].kind = "group"
           /\ \A i \in g + 1 .. k : w[i].kind \notin {"group", "tree", "tree.end"}}
  BY <1>1 DEF GroupsIn
<1>3. /\ \A g \in 1 .. k : g = k \/ g \in 1 .. k - 1
      /\ \A g \in 1 .. k - 1 : k \in g + 1 .. k /\ g \in 1 .. k
      /\ \A g \in 1 .. k - 1 : \A i : i \in g + 1 .. k <=> i = k \/ i \in g + 1 .. k - 1
      /\ k \in 1 .. k /\ k + 1 .. k = {}
  OBVIOUS
<1>4. ASSUME w[k].kind \in {"tree", "tree.end"} PROVE GroupIn(w, next) = None
  <2>1. w[k].kind # "group"
    BY <1>4
  <2>2. ASSUME NEW g \in GroupsIn(w, next) PROVE FALSE
    BY <1>2, <1>3, <1>4, <2>1
  <2> QED BY <2>2 DEF GroupIn
<1>5. ASSUME w[k].kind = "group" PROVE GroupIn(w, next) = GroupStart(w, k)
  <2>1. \A g : g \in GroupsIn(w, next) <=> g = k
    BY <1>2, <1>3, <1>5
  <2>2. GroupsIn(w, next) # {} /\ (CHOOSE g \in GroupsIn(w, next) : TRUE) = k
    BY <2>1
  <2> QED BY <2>2 DEF GroupIn
<1>6. ASSUME w[k].kind \notin {"group", "tree", "tree.end"}
      PROVE  GroupIn(w, next) = GroupIn(w, k)
  <2>1. ASSUME NEW g PROVE g \in GroupsIn(w, next) <=> g \in GroupsIn(w, k)
    BY <1>2, <1>3, <1>6 DEF GroupsIn
  <2>2. GroupsIn(w, next) = GroupsIn(w, k)
    BY <2>1
  <2> QED BY <2>2 DEF GroupIn
<1> QED BY <1>1, <1>4, <1>5, <1>6

(* The path of a line.                                                     *)
Outermost(S, i) == CHOOSE j \in S : Cardinality({h \in S : h < j}) = i - 1
PathOver(w, S) == [i \in 1 .. Cardinality(S) |-> w[Outermost(S, i)].name]
PathIn(w, k) == PathOver(w, EnclosingIn(w, k))

TreeLines(o, m) == {o[i] : i \in 1 .. m}

LEMMA CountUpTo ==
  ASSUME NEW m \in Nat, NEW o, \A i \in 1 .. m : o[i] \in Nat,
         \A i, j \in 1 .. m : i < j => o[i] < o[j]
  PROVE  \A k \in 0 .. m : Cardinality(TreeLines(o, k)) = k
<1>1. ASSUME NEW k \in 0 .. m PROVE Cardinality(TreeLines(o, k)) = k
  <2>1. PICK T : T = TreeLines(o, k)
    OBVIOUS
  <2>2. PICK f : f = [i \in 1 .. k |-> o[i]]
    OBVIOUS
  <2>3. f \in [1 .. k -> T] /\ \A i \in 1 .. k : f[i] = o[i]
    BY <2>1, <2>2 DEF TreeLines
  <2>4. ASSUME NEW i \in 1 .. k, NEW j \in 1 .. k, i # j PROVE f[i] # f[j]
    <3>1. i \in 1 .. m /\ j \in 1 .. m /\ (i < j \/ j < i)
      BY <2>4
    <3>2. o[i] < o[j] \/ o[j] < o[i]
      BY <3>1
    <3>3. o[i] \in Nat /\ o[j] \in Nat
      BY <3>1
    <3>4. o[i] # o[j]
      BY <3>2, <3>3
    <3> QED BY <2>3, <3>4
  <2>5. \A t \in T : \E i \in 1 .. k : f[i] = t
    BY <2>1, <2>3 DEF TreeLines
  <2>6. f \in Bijection(1 .. k, T)
    <3>1. f \in Injection(1 .. k, T)
      <4>1. \A i, j \in 1 .. k : f[i] = f[j] => i = j
        BY <2>4
      <4> QED BY <2>3, <4>1 DEF Injection, IsInjective
    <3>2. f \in Surjection(1 .. k, T)
      BY <2>3, <2>5 DEF Surjection
    <3> QED BY <3>1, <3>2 DEF Bijection
  <2>7. ExistsBijection(1 .. k, T) /\ k \in Nat
    BY <2>6 DEF ExistsBijection
  <2> QED BY <2>1, <2>7, FS_CountingElements
<1> QED BY <1>1

LEMMA OutermostIs ==
  ASSUME NEW m \in Nat, NEW o, \A i \in 1 .. m : o[i] \in Nat,
         \A i, j \in 1 .. m : i < j => o[i] < o[j], NEW S, S = TreeLines(o, m)
  PROVE  /\ Cardinality(S) = m /\ \A i \in 1 .. m : o[i] \in S
         /\ \A i \in 1 .. m : Outermost(S, i) = o[i]
<1>1. \A x : x \in S <=> \E i \in 1 .. m : x = o[i]
  BY DEF TreeLines
<1>2. Cardinality(S) = m
  <2>1. m \in 0 .. m
    OBVIOUS
  <2> QED BY <2>1, CountUpTo
<1>3. ASSUME NEW i \in 1 .. m PROVE Cardinality({h \in S : h < o[i]}) = i - 1
  <2>1. ASSUME NEW a \in 1 .. m PROVE o[a] < o[i] <=> a \in 1 .. i - 1
    <3>1. o[a] \in Nat /\ o[i] \in Nat
      OBVIOUS
    <3>2. CASE a < i
      BY <3>2
    <3>3. CASE a = i
      BY <3>1, <3>3
    <3>4. CASE i < a
      <4>1. o[i] < o[a]
        BY <3>4
      <4> QED BY <3>1, <3>4, <4>1
    <3> QED BY <3>2, <3>3, <3>4
  <2>2. \A a \in 1 .. i - 1 : a \in 1 .. m
    OBVIOUS
  <2>3. {h \in S : h < o[i]} = TreeLines(o, i - 1)
    BY <1>1, <2>1, <2>2 DEF TreeLines
  <2>4. i - 1 \in 0 .. m
    OBVIOUS
  <2> QED BY <2>3, <2>4, CountUpTo
<1>4. ASSUME NEW i \in 1 .. m PROVE Outermost(S, i) = o[i]
  <2>1. o[i] \in S /\ Cardinality({h \in S : h < o[i]}) = i - 1
    BY <1>1, <1>3
  <2>2. Outermost(S, i) \in S /\ Cardinality({h \in S : h < Outermost(S, i)}) = i - 1
    BY <2>1 DEF Outermost
  <2>3. PICK a \in 1 .. m : Outermost(S, i) = o[a]
    BY <1>1, <2>2
  <2>4. a - 1 = i - 1
    BY <1>3, <2>2, <2>3
  <2>5. a = i
    BY <2>4
  <2> QED BY <2>3, <2>5
<1> QED BY <1>1, <1>2, <1>4

LEMMA PathIsStack ==
  ASSUME NEW w, NEW n \in Nat, NEW ts, NEW m \in Nat, NEW top, NEW o, StackIs(w, n, ts, m, top, o)
  PROVE  PathIn(w, n + 1) = [i \in 1 .. m |-> ts[i].name]
<1>1. /\ \A i \in 1 .. m : o[i] \in Nat
      /\ \A i, j \in 1 .. m : i < j => o[i] < o[j]
      /\ EnclosingIn(w, n + 1) = TreeLines(o, m)
      /\ \A i \in 1 .. m : ts[i].name = w[o[i]].name
  <2>1. \A i \in 1 .. m : i \in 1 .. m + 1
    OBVIOUS
  <2> QED BY <2>1 DEF StackIs, TreeLines
<1>2. PICK S : S = EnclosingIn(w, n + 1)
  OBVIOUS
<1>3. Cardinality(S) = m /\ \A i \in 1 .. m : Outermost(S, i) = o[i]
  BY <1>1, <1>2, OutermostIs
<1>4. \A i \in 1 .. m : w[Outermost(S, i)].name = ts[i].name
  BY <1>1, <1>3
<1> QED BY <1>2, <1>3, <1>4 DEF PathIn, PathOver

(* The trees around a line, in order.                                      *)
OrderedBy(w, k, m, o) ==
  /\ \A i \in 1 .. m : o[i] \in Nat
  /\ \A i, j \in 1 .. m : i < j => o[i] < o[j]
  /\ EnclosingIn(w, k) = TreeLines(o, m)
Ordered(w, k) == \E m \in Nat : \E o : OrderedBy(w, k, m, o)

LEMMA StackIsOrdered ==
  ASSUME NEW w, NEW n \in Nat, NEW ts, NEW m \in Nat, NEW top, NEW o, StackIs(w, n, ts, m, top, o)
  PROVE  Ordered(w, n + 1)
<1>1. \A i \in 1 .. m : i \in 1 .. m + 1
  OBVIOUS
<1>2. OrderedBy(w, n + 1, m, o)
  BY <1>1 DEF StackIs, TreeLines, OrderedBy
<1> QED BY <1>2 DEF Ordered

LEMMA SamePath ==
  ASSUME NEW w, NEW v, NEW n \in Nat, \A i \in 1 .. n : v[i] = w[i], NEW k \in 1 .. n + 1,
         Ordered(w, k)
  PROVE  PathIn(v, k) = PathIn(w, k) /\ Ordered(v, k)
<1>1. PICK m \in Nat : \E o : OrderedBy(w, k, m, o)
  BY DEF Ordered
<1>2. PICK o : OrderedBy(w, k, m, o)
  BY <1>1
<1>3. PICK S : S = EnclosingIn(w, k)
  OBVIOUS
<1>4. /\ EnclosingIn(v, k) = S /\ Cardinality(S) = m
      /\ \A i \in 1 .. m : o[i] \in S /\ Outermost(S, i) = o[i]
  <2>1. EnclosingIn(v, k) = EnclosingIn(w, k)
    BY SameTrees
  <2>2. /\ S = TreeLines(o, m) /\ \A i \in 1 .. m : o[i] \in Nat
        /\ \A i, j \in 1 .. m : i < j => o[i] < o[j]
    BY <1>2, <1>3 DEF OrderedBy
  <2>3. /\ Cardinality(S) = m /\ \A i \in 1 .. m : o[i] \in S
        /\ \A i \in 1 .. m : Outermost(S, i) = o[i]
    BY <2>2, OutermostIs
  <2> QED BY <1>3, <2>1, <2>3
<1>5. \A i \in 1 .. m : v[Outermost(S, i)].name = w[Outermost(S, i)].name
  <2>1. \A x \in S : x \in 1 .. n
    <3>1. S \subseteq 1 .. k - 1
      BY <1>3, TreesComeBefore
    <3> QED BY <3>1
  <2>2. \A i \in 1 .. m : o[i] \in S
    BY <1>4
  <2> QED BY <1>4, <2>1, <2>2
<1>6. PathIn(v, k) = PathIn(w, k)
  BY <1>3, <1>4, <1>5 DEF PathIn, PathOver
<1>7. Ordered(v, k)
  <2>1. EnclosingIn(v, k) = EnclosingIn(w, k)
    BY <1>3, <1>4
  <2>2. OrderedBy(v, k, m, o)
    BY <1>2, <2>1 DEF OrderedBy
  <2> QED BY <2>2 DEF Ordered
<1> QED BY <1>6, <1>7

(* The definition of the field that belongs to a line, of n.               *)
FieldsIn(w, n, k) ==
  {f \in k + 1 .. n : w[f].kind = "field"
     /\ \A i \in k + 1 .. f - 1 : w[i].kind \in {"base", "other"}}
FieldOf(w, S) == w[CHOOSE f \in S : TRUE].definition
FieldIn(w, n, k, asked) ==
  IF FieldsIn(w, n, k) = {} \/ ~asked THEN None ELSE FieldOf(w, FieldsIn(w, n, k))
Waits(w, n, k) == \A i \in k + 1 .. n : w[i].kind \in {"base", "other"}

LEMMA WaitsOn ==
  ASSUME NEW w, NEW v, NEW n \in Nat, \A i \in 1 .. n : v[i] = w[i], NEW k \in 1 .. n
  PROVE  Waits(v, n + 1, k) <=> Waits(w, n, k) /\ v[n + 1].kind \in {"base", "other"}
<1>1. \A i : i \in k + 1 .. n + 1 <=> i = n + 1 \/ i \in k + 1 .. n
  OBVIOUS
<1>2. \A i \in k + 1 .. n : v[i] = w[i]
  <2>1. \A i \in k + 1 .. n : i \in 1 .. n
    OBVIOUS
  <2> QED BY <2>1
<1> QED BY <1>1, <1>2 DEF Waits

FieldFollows(w, v, n, k, asked) ==
  IF v[n + 1].kind = "field" /\ Waits(w, n, k)
    THEN FieldIn(v, n + 1, k, asked) = IF asked THEN v[n + 1].definition ELSE None
    ELSE FieldIn(v, n + 1, k, asked) = FieldIn(w, n, k, asked)

LEMMA FieldGoesOn ==
  ASSUME NEW w, NEW v, NEW n \in Nat, \A i \in 1 .. n : v[i] = w[i], NEW k \in 1 .. n, NEW asked
  PROVE  FieldFollows(w, v, n, k, asked)
<1>1. /\ \A f : f \in k + 1 .. n + 1 <=> f = n + 1 \/ f \in k + 1 .. n
      /\ \A f \in k + 1 .. n :
           f \in 1 .. n /\ \A i \in k + 1 .. f - 1 : i \in 1 .. n /\ i \in k + 1 .. n
      /\ \A f \in k + 1 .. n : f # n + 1
      /\ \A i : i \in k + 1 .. (n + 1) - 1 <=> i \in k + 1 .. n
      /\ \A i \in k + 1 .. n : i \in 1 .. n
  OBVIOUS
<1>2. ASSUME NEW f \in k + 1 .. n PROVE f \in FieldsIn(v, n + 1, k) <=> f \in FieldsIn(w, n, k)
  <2>1. v[f] = w[f] /\ \A i \in k + 1 .. f - 1 : v[i] = w[i]
    BY <1>1
  <2> QED BY <1>1, <2>1 DEF FieldsIn
<1>3. n + 1 \in FieldsIn(v, n + 1, k) <=> v[n + 1].kind = "field" /\ Waits(w, n, k)
  <2>1. \A i \in k + 1 .. (n + 1) - 1 : v[i] = w[i]
    BY <1>1
  <2>2. (\A i \in k + 1 .. (n + 1) - 1 : v[i].kind \in {"base", "other"}) <=> Waits(w, n, k)
    BY <1>1, <2>1 DEF Waits
  <2>3. n + 1 \in k + 1 .. n + 1
    OBVIOUS
  <2> QED BY <2>2, <2>3 DEF FieldsIn
<1>4. FieldsIn(v, n + 1, k) \subseteq k + 1 .. n + 1 /\ FieldsIn(w, n, k) \subseteq k + 1 .. n
  BY DEF FieldsIn
<1>5. CASE v[n + 1].kind = "field" /\ Waits(w, n, k)
  <2>1. FieldsIn(w, n, k) = {}
    <3>1. ASSUME NEW f \in FieldsIn(w, n, k) PROVE FALSE
      <4>1. f \in k + 1 .. n /\ w[f].kind = "field"
        BY <3>1 DEF FieldsIn
      <4>2. "field" \notin {"base", "other"}
        OBVIOUS
      <4> QED BY <1>5, <4>1, <4>2 DEF Waits
    <3> QED BY <3>1
  <2>2. \A f : f \in FieldsIn(v, n + 1, k) <=> f = n + 1
    BY <1>1, <1>2, <1>3, <1>4, <1>5, <2>1
  <2>3. PICK S : S = FieldsIn(v, n + 1, k)
    OBVIOUS
  <2>4. S # {} /\ (CHOOSE f \in S : TRUE) = n + 1
    BY <2>2, <2>3
  <2>5. FieldOf(v, S) = v[n + 1].definition
    BY <2>4 DEF FieldOf
  <2>6. FieldIn(v, n + 1, k, asked) = IF asked THEN v[n + 1].definition ELSE None
    BY <2>3, <2>4, <2>5 DEF FieldIn
  <2> QED BY <1>5, <2>6 DEF FieldFollows
<1>6. CASE ~(v[n + 1].kind = "field" /\ Waits(w, n, k))
  <2>1. \A f : f \in FieldsIn(v, n + 1, k) <=> f \in FieldsIn(w, n, k)
    BY <1>1, <1>2, <1>3, <1>4, <1>6
  <2>2. PICK S : S = FieldsIn(w, n, k)
    OBVIOUS
  <2>3. FieldsIn(v, n + 1, k) = S
    BY <2>1, <2>2
  <2>4. S # {} => FieldOf(v, S) = FieldOf(w, S)
    <3>1. S # {} => (CHOOSE f \in S : TRUE) \in S
      OBVIOUS
    <3>2. \A f \in S : v[f] = w[f]
      BY <1>1, <1>4, <2>2
    <3> QED BY <3>1, <3>2 DEF FieldOf
  <2>5. FieldIn(v, n + 1, k, asked) = FieldIn(w, n, k, asked)
    BY <2>2, <2>3, <2>4 DEF FieldIn
  <2> QED BY <1>6, <2>5 DEF FieldFollows
<1> QED BY <1>5, <1>6

(* A candidate that says what line k means.                                *)
AddressIn(w, k) == Plus(GroupIn(w, k), w[k].offset)
IsCandidate(w, n, asked, c, k) ==
  /\ k \in 1 .. n /\ w[k].kind = "line"
  /\ c.at = k /\ c.address = AddressIn(w, k) /\ c.path = PathIn(w, k) /\ Ordered(w, k)
  /\ c.field = FieldIn(w, n, k, asked)

(* A line more leaves a candidate what it is, but for its field.           *)
LEMMA CandidateStays ==
  ASSUME NEW w, NEW v, NEW n \in Nat, \A i \in 1 .. n : v[i] = w[i],
         NEW asked, NEW c, NEW k, IsCandidate(w, n, asked, c, k), NEW d,
         d.at = c.at, d.address = c.address, d.path = c.path,
         d.field = FieldIn(v, n + 1, k, asked)
  PROVE  IsCandidate(v, n + 1, asked, d, k)
<1>1. /\ k \in 1 .. n /\ w[k].kind = "line"
      /\ c.at = k /\ c.address = AddressIn(w, k) /\ c.path = PathIn(w, k) /\ Ordered(w, k)
  BY DEF IsCandidate
<1>2. k \in 1 .. n + 1 /\ v[k] = w[k]
  BY <1>1
<1>3. GroupIn(v, k) = GroupIn(w, k)
  BY <1>2, SameGroup
<1>4. PathIn(v, k) = PathIn(w, k) /\ Ordered(v, k)
  BY <1>1, <1>2, SamePath
<1>5. AddressIn(v, k) = AddressIn(w, k)
  BY <1>2, <1>3 DEF AddressIn
<1> QED BY <1>1, <1>2, <1>4, <1>5 DEF IsCandidate

(* The candidates, of which there are m, are those of the lines p, and the *)
(* last one waits for its field.                                           *)
FoundIs(w, n, asked, fs, m, awaits, p) ==
  /\ \A i \in 1 .. m : IsCandidate(w, n, asked, fs[i], p[i])
  /\ \A k \in 1 .. n : w[k].kind = "line" => \E i \in 1 .. m : p[i] = k
  /\ \A i, j \in 1 .. m : i < j => p[i] < p[j]
  /\ awaits <=> asked /\ m > 0 /\ Waits(w, n, p[m])
HasFound(w, n, asked, fs, m, awaits) == \E p : FoundIs(w, n, asked, fs, m, awaits, p)

(* line.*: the definition becomes the candidate that waits for its field.  *)
LEMMA FoundDefines ==
  ASSUME NEW w, NEW v, NEW n \in Nat, \A i \in 1 .. n : v[i] = w[i],
         NEW asked \in BOOLEAN, NEW fs, NEW m \in Nat, NEW awaits \in BOOLEAN, NEW p,
         FoundIs(w, n, asked, fs, m, awaits, p), v[n + 1].kind = "line",
         NEW gs, \A i \in 1 .. m : gs[i] = fs[i], Ordered(v, n + 1),
         gs[m + 1].at = n + 1, gs[m + 1].address = AddressIn(v, n + 1),
         gs[m + 1].path = PathIn(v, n + 1), gs[m + 1].field = None
  PROVE  HasFound(v, n + 1, asked, gs, m + 1, asked)
<1> DEFINE q == [i \in 1 .. m + 1 |-> IF i = m + 1 THEN n + 1 ELSE p[i]]
<1>1. /\ \A i \in 1 .. m : IsCandidate(w, n, asked, fs[i], p[i])
      /\ \A k \in 1 .. n : w[k].kind = "line" => \E i \in 1 .. m : p[i] = k
      /\ \A i, j \in 1 .. m : i < j => p[i] < p[j]
  BY DEF FoundIs
<1>2. /\ \A i \in 1 .. m : i \in 1 .. m + 1 /\ i # m + 1
      /\ m + 1 \in 1 .. m + 1 /\ m + 1 > 0
      /\ \A i \in 1 .. m + 1 : i = m + 1 \/ i \in 1 .. m
      /\ n + 1 \in 1 .. n + 1 /\ (n + 1) + 1 .. n + 1 = {}
      /\ \A k \in 1 .. n + 1 : k = n + 1 \/ k \in 1 .. n
  OBVIOUS
<1>3. q[m + 1] = n + 1 /\ \A i \in 1 .. m : q[i] = p[i]
  BY <1>2
<1> HIDE DEF q
<1>4. ASSUME NEW i \in 1 .. m PROVE IsCandidate(v, n + 1, asked, gs[i], q[i]) /\ q[i] \in 1 .. n
  <2>1. PICK k : k = p[i]
    OBVIOUS
  <2>2. IsCandidate(w, n, asked, fs[i], k)
    BY <1>1, <2>1
  <2>3. k \in 1 .. n /\ fs[i].field = FieldIn(w, n, k, asked)
    BY <2>2 DEF IsCandidate
  <2>4. v[n + 1].kind # "field"
    OBVIOUS
  <2>5. FieldIn(v, n + 1, k, asked) = FieldIn(w, n, k, asked)
    <3>1. k \in 1 .. n
      BY <2>3
    <3>2. FieldFollows(w, v, n, k, asked)
      BY <3>1, FieldGoesOn
    <3> QED BY <2>4, <3>2 DEF FieldFollows
  <2>6. PICK d : d = fs[i]
    OBVIOUS
  <2>7. IsCandidate(v, n + 1, asked, d, k)
    BY <2>2, <2>3, <2>5, <2>6, CandidateStays
  <2> QED BY <1>3, <2>1, <2>3, <2>6, <2>7
<1>5. IsCandidate(v, n + 1, asked, gs[m + 1], q[m + 1])
  <2>1. FieldsIn(v, n + 1, n + 1) = {}
    BY <1>2 DEF FieldsIn
  <2>2. FieldIn(v, n + 1, n + 1, asked) = None
    BY <2>1 DEF FieldIn
  <2>3. IsCandidate(v, n + 1, asked, gs[m + 1], n + 1)
    BY <1>2, <2>2 DEF IsCandidate
  <2> QED BY <1>3, <2>3
<1>6. \A i \in 1 .. m + 1 : IsCandidate(v, n + 1, asked, gs[i], q[i])
  BY <1>2, <1>4, <1>5
<1>7. \A k \in 1 .. n + 1 : v[k].kind = "line" => \E i \in 1 .. m + 1 : q[i] = k
  <2>1. ASSUME NEW k \in 1 .. n, w[k].kind = "line" PROVE \E i \in 1 .. m + 1 : q[i] = k
    <3>1. PICK i \in 1 .. m : p[i] = k
      BY <1>1, <2>1
    <3> QED BY <1>2, <1>3, <3>1
  <2> QED BY <1>2, <1>3, <2>1
<1>8. ASSUME NEW i \in 1 .. m + 1, NEW j \in 1 .. m + 1, i < j PROVE q[i] < q[j]
  <2>1. i \in 1 .. m
    BY <1>8
  <2>2. CASE j = m + 1
    <3>1. q[i] \in 1 .. n /\ q[j] = n + 1
      BY <1>3, <1>4, <2>1, <2>2
    <3> QED BY <3>1
  <2>3. CASE j \in 1 .. m
    BY <1>1, <1>3, <1>8, <2>1, <2>3
  <2> QED BY <1>2, <2>2, <2>3
<1>9. asked <=> asked /\ m + 1 > 0 /\ Waits(v, n + 1, q[m + 1])
  <2>1. Waits(v, n + 1, n + 1)
    BY <1>2 DEF Waits
  <2> QED BY <1>2, <1>3, <2>1
<1>10. FoundIs(v, n + 1, asked, gs, m + 1, asked, q)
  BY <1>6, <1>7, <1>8, <1>9 DEF FoundIs
<1> QED BY <1>10 DEF HasFound

CandidatesKept(v, n, fs, gs, m, awaits) ==
  /\ \A i \in 1 .. m - 1 : gs[i] = fs[i]
  /\ IF awaits /\ v[n + 1].kind = "field"
       THEN /\ gs[m].at = fs[m].at /\ gs[m].path = fs[m].path /\ gs[m].address = fs[m].address
            /\ gs[m].field = v[n + 1].definition
       ELSE m > 0 => gs[m] = fs[m]

(* A line of another kind: a field is that of the candidate waiting.       *)
LEMMA FoundGoesOn ==
  ASSUME NEW w, NEW v, NEW n \in Nat, \A i \in 1 .. n : v[i] = w[i],
         NEW asked \in BOOLEAN, NEW fs, NEW m \in Nat, NEW awaits \in BOOLEAN, NEW p,
         FoundIs(w, n, asked, fs, m, awaits, p), v[n + 1].kind # "line",
         NEW gs, CandidatesKept(v, n, fs, gs, m, awaits),
         NEW after \in BOOLEAN, after <=> awaits /\ v[n + 1].kind \in {"base", "other"}
  PROVE  HasFound(v, n + 1, asked, gs, m, after)
<1>1. /\ \A i \in 1 .. m : IsCandidate(w, n, asked, fs[i], p[i])
      /\ \A k \in 1 .. n : w[k].kind = "line" => \E i \in 1 .. m : p[i] = k
      /\ \A i, j \in 1 .. m : i < j => p[i] < p[j]
      /\ awaits <=> asked /\ m > 0 /\ Waits(w, n, p[m])
  BY DEF FoundIs
<1>2. /\ \A i \in 1 .. m : i # m => i \in 1 .. m - 1 /\ i < m
      /\ m > 0 => m \in 1 .. m
      /\ \A i \in 1 .. m : m > 0
      /\ \A k \in 1 .. n + 1 : k = n + 1 \/ k \in 1 .. n
  OBVIOUS
<1>3. \A i \in 1 .. m : p[i] \in 1 .. n /\ w[p[i]].kind = "line"
  BY <1>1 DEF IsCandidate
<1>9. /\ \A i \in 1 .. m - 1 : gs[i] = fs[i]
      /\ ~(awaits /\ v[n + 1].kind = "field") /\ m > 0 => gs[m] = fs[m]
      /\ awaits /\ v[n + 1].kind = "field" =>
           /\ gs[m].at = fs[m].at /\ gs[m].path = fs[m].path /\ gs[m].address = fs[m].address
           /\ gs[m].field = v[n + 1].definition
  BY DEF CandidatesKept
<1>4. ASSUME NEW i \in 1 .. m, i # m PROVE ~Waits(w, n, p[i])
  <2>1. m \in 1 .. m /\ p[i] < p[m]
    BY <1>1, <1>2, <1>4
  <2>2. p[m] \in 1 .. n /\ p[i] \in 1 .. n /\ w[p[m]].kind = "line"
    BY <1>3, <2>1
  <2>3. p[m] \in p[i] + 1 .. n
    BY <2>1, <2>2
  <2>4. "line" \notin {"base", "other"}
    OBVIOUS
  <2> QED BY <2>2, <2>3, <2>4 DEF Waits
<1>5. ASSUME NEW i \in 1 .. m PROVE IsCandidate(v, n + 1, asked, gs[i], p[i])
  <2>1. PICK k \in 1 .. n : \E c, d : k = p[i] /\ c = fs[i] /\ d = gs[i]
    BY <1>3
  <2>8. PICK c, d : k = p[i] /\ c = fs[i] /\ d = gs[i]
    BY <2>1
  <2>2. IsCandidate(w, n, asked, c, k)
    BY <1>1, <2>8
  <2>3. k \in 1 .. n /\ c.field = FieldIn(w, n, k, asked)
    BY <2>2 DEF IsCandidate
  <2>4. IF v[n + 1].kind = "field" /\ Waits(w, n, k)
          THEN FieldIn(v, n + 1, k, asked) = IF asked THEN v[n + 1].definition ELSE None
          ELSE FieldIn(v, n + 1, k, asked) = FieldIn(w, n, k, asked)
    <3>1. FieldFollows(w, v, n, k, asked)
      BY FieldGoesOn
    <3> QED BY <3>1 DEF FieldFollows
  <2>5. ~asked => FieldIn(w, n, k, asked) = None
    BY DEF FieldIn
  <2>6. CASE i = m /\ awaits /\ v[n + 1].kind = "field"
    <3>5. p[m] = k
      BY <2>6, <2>8
    <3>1. Waits(w, n, k) /\ asked
      BY <1>1, <2>6, <3>5
    <3>2. d.field = FieldIn(v, n + 1, k, asked)
      BY <1>9, <2>8, <2>4, <2>6, <3>1
    <3>3. d.at = c.at /\ d.address = c.address /\ d.path = c.path
      BY <1>9, <2>8, <2>6
    <3>4. IsCandidate(v, n + 1, asked, d, k)
      BY <2>2, <3>2, <3>3, CandidateStays
    <3> QED BY <2>8, <3>4
  <2>7. CASE ~(i = m /\ awaits /\ v[n + 1].kind = "field")
    <3>1. d = c
      BY <1>2, <1>9, <2>8, <2>7
    <3>2. v[n + 1].kind = "field" /\ Waits(w, n, k) => ~asked
      BY <1>1, <1>2, <1>4, <2>8, <2>7
    <3>3. d.field = FieldIn(v, n + 1, k, asked)
      BY <2>3, <2>4, <2>5, <3>1, <3>2
    <3>4. IsCandidate(v, n + 1, asked, d, k)
      BY <2>2, <3>1, <3>3, CandidateStays
    <3> QED BY <2>8, <3>4
  <2> QED BY <2>6, <2>7
<1>6. \A k \in 1 .. n + 1 : v[k].kind = "line" => \E i \in 1 .. m : p[i] = k
  BY <1>1, <1>2
<1>7. after <=> asked /\ m > 0 /\ Waits(v, n + 1, p[m])
  <2>1. m > 0 => p[m] \in 1 .. n
    BY <1>2, <1>3
  <2>2. m > 0 =>
          (Waits(v, n + 1, p[m]) <=> Waits(w, n, p[m]) /\ v[n + 1].kind \in {"base", "other"})
    BY <2>1, WaitsOn
  <2> QED BY <1>1, <2>2
<1>8. FoundIs(v, n + 1, asked, gs, m, after, p)
  BY <1>1, <1>5, <1>6, <1>7 DEF FoundIs
<1> QED BY <1>8 DEF HasFound

(* The state of `find`: what it keeps means what the lines read so far say. *)
IsSeq(s) == \E T : s \in Seq(T)

Longer(s, x, t) ==
  /\ Len(s) \in Nat /\ DOMAIN s = 1 .. Len(s)
  /\ IsSeq(t) /\ Len(t) = Len(s) + 1 /\ DOMAIN t = 1 .. Len(s) + 1
  /\ \A i \in 1 .. Len(s) : t[i] = s[i]
  /\ t[Len(s) + 1] = x
OtherLast(s, x, t) ==
  /\ Len(s) \in Nat \ {0} /\ DOMAIN s = 1 .. Len(s)
  /\ IsSeq(t) /\ Len(t) = Len(s) /\ DOMAIN t = 1 .. Len(s)
  /\ \A i \in 1 .. Len(s) : t[i] = IF i = Len(s) THEN x ELSE s[i]
Shorter(s, t) ==
  /\ Len(s) \in Nat /\ IsSeq(t)
  /\ Len(t) = IF Len(s) = 0 THEN 0 ELSE Len(s) - 1
  /\ \A i \in 1 .. Len(s) - 1 : t[i] = s[i]

LEMMA Appended ==
  ASSUME NEW s, IsSeq(s), NEW x
  PROVE  Longer(s, x, Append(s, x))
<1> DEFINE t == Append(s, x)
<1>1. PICK T : s \in Seq(T)
  BY DEF IsSeq
<1>2. PICK U : T \subseteq U /\ x \in U
  <2>1. T \subseteq T \cup {x} /\ x \in T \cup {x}
    OBVIOUS
  <2> QED BY <2>1
<1>3. s \in Seq(U)
  BY <1>1, <1>2
<1>4. Len(s) \in Nat /\ DOMAIN s = 1 .. Len(s)
  BY <1>3, LenProperties
<1>5. /\ t \in Seq(U) /\ Len(t) = Len(s) + 1
      /\ \A i \in 1 .. Len(s) : t[i] = s[i]
      /\ t[Len(s) + 1] = x
  BY <1>2, <1>3, AppendProperties
<1>6. DOMAIN t = 1 .. Len(s) + 1
  BY <1>5, LenProperties
<1>7. IsSeq(t)
  BY <1>5 DEF IsSeq
<1> QED BY <1>4, <1>5, <1>6, <1>7 DEF Longer

LEMMA LastReplaced ==
  ASSUME NEW s, IsSeq(s), s # <<>>, NEW x
  PROVE  OtherLast(s, x, [s EXCEPT ![Len(s)] = x])
<1> DEFINE t == [s EXCEPT ![Len(s)] = x]
<1>1. PICK T : s \in Seq(T)
  BY DEF IsSeq
<1>2. PICK U : T \subseteq U /\ x \in U
  <2>1. T \subseteq T \cup {x} /\ x \in T \cup {x}
    OBVIOUS
  <2> QED BY <2>1
<1>3. s \in Seq(U)
  BY <1>1, <1>2
<1>4. Len(s) \in Nat \ {0}
  BY <1>3, EmptySeq
<1>5. Len(s) \in 1 .. Len(s)
  BY <1>4
<1>6. /\ t \in Seq(U) /\ Len(t) = Len(s)
      /\ \A i \in 1 .. Len(s) : t[i] = IF i = Len(s) THEN x ELSE s[i]
  BY <1>2, <1>3, <1>5, ExceptSeq
<1>7. IsSeq(t) /\ DOMAIN s = 1 .. Len(s) /\ DOMAIN t = 1 .. Len(s)
  BY <1>3, <1>6, LenProperties DEF IsSeq
<1> QED BY <1>4, <1>6, <1>7 DEF OtherLast

LEMMA Shortened ==
  ASSUME NEW s, IsSeq(s)
  PROVE  Shorter(s, SubSeq(s, 1, Len(s) - 1))
<1> DEFINE t == SubSeq(s, 1, Len(s) - 1)
<1>1. PICK T : s \in Seq(T)
  BY DEF IsSeq
<1>2. Len(s) \in Nat
  BY <1>1, LenProperties
<1>3. \A i \in 1 .. Len(s) - 1 : i \in 1 .. Len(s)
  BY <1>2
<1>4. \A i \in 1 .. Len(s) - 1 : s[i] \in T
  BY <1>1, <1>3, ElementOfSeq
<1>5. PICK k : k = Len(s) - 1 /\ k \in Int /\ 1 \in Int
  BY <1>2
<1>6. /\ t \in Seq(T) /\ Len(t) = IF 1 <= k THEN k - 1 + 1 ELSE 0
      /\ \A i \in 1 .. k - 1 + 1 : t[i] = s[1 + i - 1]
  BY <1>4, <1>5, SubSeqProperties
<1>7. k - 1 + 1 = k /\ \A i \in 1 .. k : 1 + i - 1 = i
  BY <1>5
<1>8. \A i \in 1 .. k : t[i] = s[i]
  BY <1>6, <1>7
<1>9. Len(t) = IF Len(s) = 0 THEN 0 ELSE k
  <2>1. Len(t) = IF 1 <= k THEN k ELSE 0
    BY <1>6, <1>7
  <2> QED BY <1>2, <1>5, <2>1
<1>10. IsSeq(t)
  BY <1>6 DEF IsSeq
<1> QED BY <1>2, <1>5, <1>8, <1>9, <1>10 DEF Shorter

PerShape ==
  /\ IsSeq(text) /\ IsSeq(trees) /\ IsSeq(found)
  /\ with_field \in BOOLEAN /\ awaiting_field \in BOOLEAN

StackSays == HasStack(text, Len(text), trees, Len(trees), top_base)
GroupSays == group = GroupIn(text, Len(text) + 1)
FoundSays ==
  HasFound(text, Len(text), with_field, found, Len(found), awaiting_field)

(* The text and what was read before the line.                             *)
LEMMA TextGrows ==
  ASSUME PerShape, NEW line, text' = Append(text, line)
  PROVE  Longer(text, line, text')
<1>1. PICK s : s = text /\ IsSeq(s)
  BY DEF PerShape
<1>2. Longer(s, line, Append(s, line))
  BY <1>1, Appended
<1> QED BY <1>1, <1>2

(* What a line that no tree begins or ends at changes.                     *)
LEMMA LineAfter ==
  ASSUME NEW v, NEW n \in Nat
  PROVE  /\ v[n + 1].kind \notin {"tree", "tree.end"} =>
              EnclosingIn(v, (n + 1) + 1) = EnclosingIn(v, n + 1)
         /\ v[n + 1].kind = "tree.end" /\ EnclosingIn(v, n + 1) = {} =>
              EnclosingIn(v, (n + 1) + 1) = {}
         /\ v[n + 1].kind # "base" /\ EnclosingIn(v, (n + 1) + 1) = EnclosingIn(v, n + 1) =>
              BaseIn(v, (n + 1) + 1) = BaseIn(v, n + 1)
         /\ v[n + 1].kind = "base" => BaseIn(v, (n + 1) + 1) = v[n + 1].base
<1>1. PICK k : k = n + 1 /\ k \in Nat \ {0}
  OBVIOUS
<1>2. ASSUME v[k].kind = "tree.end", EnclosingIn(v, k) = {} PROVE EnclosingIn(v, k + 1) = {}
  <2>1. EnclosingIn(v, k + 1) = {j \in EnclosingIn(v, k) : \E t \in EnclosingIn(v, k) : j < t}
    BY <1>1, <1>2, AfterEnd
  <2> QED BY <1>2, <2>1
<1>3. v[k].kind \notin {"tree", "tree.end"} => EnclosingIn(v, k + 1) = EnclosingIn(v, k)
  BY <1>1, AfterOther
<1>4. v[k].kind # "base" /\ EnclosingIn(v, k + 1) = EnclosingIn(v, k) =>
        BaseIn(v, k + 1) = BaseIn(v, k)
  BY <1>1, BaseStays
<1>5. v[k].kind = "base" => BaseIn(v, k + 1) = v[k].base
  BY <1>1, BaseIsSet
<1> QED BY <1>1, <1>2, <1>3, <1>4, <1>5

LEMMA BaseOfNow ==
  ASSUME PerShape, NEW o, StackIs(text, Len(text), trees, Len(trees), top_base, o)
  PROVE  /\ CurrentBase = BaseIn(text, Len(text) + 1)
         /\ Len(text) \in Nat /\ Len(trees) \in Nat
         /\ trees = <<>> <=> Len(trees) = 0
         /\ DOMAIN trees = 1 .. Len(trees)
<1>1. Len(text) \in Nat /\ Len(trees) \in Nat /\ DOMAIN trees = 1 .. Len(trees)
  <2>1. PICK T, U : text \in Seq(T) /\ trees \in Seq(U)
    BY DEF PerShape, IsSeq
  <2> QED BY <2>1, LenProperties
<1>2. trees = <<>> <=> Len(trees) = 0
  <2>1. PICK T : trees \in Seq(T)
    BY DEF PerShape, IsSeq
  <2>2. trees # <<>> => Len(trees) \in Nat \ {0}
    BY <2>1, EmptySeq
  <2>3. trees = <<>> => Len(trees) = 0
    BY <2>1, EmptySeq
  <2> QED BY <2>2, <2>3
<1>3. (IF Len(trees) = 0 THEN top_base ELSE trees[Len(trees)].base) = BaseIn(text, Len(text) + 1)
  BY <1>1, CurrentBaseIs
<1> QED BY <1>1, <1>2, <1>3 DEF CurrentBase

(* The open trees, after any line.                                         *)
LEMMA StackFollows ==
  ASSUME PerShape, StackSays, NEW line, text' = Append(text, line),
         \/ OpenTree(line) \/ CloseTree(line) \/ SetBase(line)
         \/ line.kind \notin {"tree", "tree.end", "base"} /\ UNCHANGED <<trees, top_base>>
  PROVE  IsSeq(trees') /\ StackSays'
<1>1. PICK o : StackIs(text, Len(text), trees, Len(trees), top_base, o)
  BY DEF StackSays, HasStack
<1>11. PICK w, v, n : w = text /\ v = text' /\ n = Len(text)
  OBVIOUS
<1>2. /\ w = text /\ v = text' /\ n = Len(text) /\ Len(v) = n + 1
      /\ n \in Nat /\ v[n + 1] = line /\ n + 1 \in Nat \ {0}
      /\ \A i \in 1 .. n : v[i] = w[i]
  <2>1. Longer(w, line, v)
    BY <1>11, TextGrows
  <2>2. n \in Nat /\ v[n + 1] = line /\ Len(v) = n + 1 /\ \A i \in 1 .. n : v[i] = w[i]
    BY <1>11, <2>1 DEF Longer
  <2> QED BY <1>11, <2>2
<1>3. PICK ts, m, top, us, new :
        /\ ts = trees /\ m = Len(trees) /\ top = top_base /\ us = trees' /\ new = top_base'
  OBVIOUS
<1>4. /\ StackIs(w, n, ts, m, top, o) /\ m \in Nat /\ IsSeq(ts) /\ (ts = <<>> <=> m = 0)
      /\ CurrentBase = BaseIn(w, n + 1)
  BY <1>1, <1>2, <1>3, BaseOfNow DEF PerShape
<1>5. EnclosingIn(v, n + 1) = EnclosingIn(w, n + 1) /\ BaseIn(v, n + 1) = BaseIn(w, n + 1)
  <2>1. PICK k \in 1 .. n + 1 : k = n + 1
    BY <1>2
  <2>2. n \in Nat /\ \A i \in 1 .. n : v[i] = w[i]
    BY <1>2
  <2>3. EnclosingIn(v, k) = EnclosingIn(w, k)
    BY <2>2, SameTrees
  <2>4. BaseIn(v, k) = BaseIn(w, k)
    BY <2>2, SameBase
  <2> QED BY <2>1, <2>3, <2>4
<1>12. /\ n \in Nat /\ m \in Nat /\ StackIs(w, n, ts, m, top, o)
       /\ \A i \in 1 .. n : v[i] = w[i]
  BY <1>2, <1>4
<1>6. SUFFICES IsSeq(us) /\ HasStack(v, n + 1, us, Len(us), new)
  BY <1>2, <1>3 DEF StackSays
<1>7. CASE OpenTree(line)
  <2>1. /\ us = Append(ts, [name |-> line.name, base |-> CurrentBase])
        /\ v[n + 1].kind = "tree" /\ new = top
    BY <1>2, <1>3, <1>7 DEF OpenTree
  <2>2. PICK x : x = [name |-> line.name, base |-> CurrentBase] /\ us = Append(ts, x)
    BY <2>1
  <2>3. /\ IsSeq(us) /\ Len(us) = m + 1 /\ us[m + 1] = x
        /\ \A i \in 1 .. m : us[i] = ts[i]
    <3>1. Longer(ts, x, us)
      BY <1>4, <2>2, Appended
    <3> QED BY <1>3, <3>1 DEF Longer
  <2>4. us[m + 1].name = v[n + 1].name /\ us[m + 1].base = BaseIn(w, n + 1)
    BY <1>2, <1>4, <2>2, <2>3
  <2>5. HasStack(v, n + 1, us, m + 1, top)
    <3>1. v[n + 1].kind = "tree" /\ \A i \in 1 .. m : us[i] = ts[i]
      BY <2>1, <2>3
    <3> QED BY <1>12, <2>4, <3>1, StackOpens
  <2> QED BY <2>1, <2>3, <2>5
<1>8. CASE CloseTree(line)
  <2>1. us = SubSeq(ts, 1, m - 1) /\ v[n + 1].kind = "tree.end" /\ new = top
    BY <1>2, <1>3, <1>8 DEF CloseTree
  <2>2. /\ IsSeq(us) /\ Len(us) = IF m = 0 THEN 0 ELSE m - 1
        /\ \A i \in 1 .. m - 1 : us[i] = ts[i]
    <3>1. Shorter(ts, us)
      <4>1. m = Len(ts)
        BY <1>3
      <4> QED BY <1>4, <2>1, <4>1, Shortened
    <3> QED BY <1>3, <3>1 DEF Shorter
  <2>3. CASE m # 0
    <3>1. PICK k \in Nat : m = k + 1 /\ k = m - 1
      BY <1>4, <2>3
    <3>2. StackIs(w, n, ts, k + 1, top, o) /\ \A i \in 1 .. k : us[i] = ts[i]
      BY <1>4, <2>2, <3>1
    <3>3. HasStack(v, n + 1, us, k, top)
      <4>1. v[n + 1].kind = "tree.end" /\ n \in Nat /\ \A i \in 1 .. n : v[i] = w[i]
        BY <1>12, <2>1
      <4> QED BY <3>2, <4>1, StackCloses
    <3> QED BY <2>1, <2>2, <2>3, <3>1, <3>3
  <2>4. CASE m = 0
    <3>1. EnclosingIn(w, n + 1) = {}
      <4>1. EnclosingIn(w, n + 1) = {o[i] : i \in 1 .. 0}
        BY <1>4, <2>4 DEF StackIs
      <4>2. 1 .. 0 = {}
        OBVIOUS
      <4> QED BY <4>1, <4>2
    <3>2. EnclosingIn(v, (n + 1) + 1) = {}
      <4>1. EnclosingIn(v, n + 1) = {}
        BY <1>5, <3>1
      <4> QED BY <1>2, <2>1, <4>1, LineAfter
    <3>3. BaseIn(v, (n + 1) + 1) = BaseIn(v, n + 1)
      <4>1. v[n + 1].kind # "base"
        BY <2>1
      <4>2. EnclosingIn(v, (n + 1) + 1) = EnclosingIn(v, n + 1)
        BY <1>5, <3>1, <3>2
      <4> QED BY <1>2, <4>1, <4>2, LineAfter
    <3>4. top = BaseIn(w, n + 1)
      BY <1>3, <1>4, <2>4 DEF CurrentBase
    <3>5. /\ \A i \in 1 .. m : us[i].name = ts[i].name
          /\ \A i \in 1 .. m - 1 : us[i].base = ts[i].base
          /\ (IF m = 0 THEN new ELSE us[m].base) = BaseIn(v, (n + 1) + 1)
          /\ m # 0 => new = top
      BY <1>5, <2>1, <2>4, <3>3, <3>4
    <3>6. HasStack(v, n + 1, us, m, new)
      <4>1. EnclosingIn(v, (n + 1) + 1) = EnclosingIn(w, n + 1)
        BY <3>1, <3>2
      <4> QED BY <1>12, <3>5, <4>1, StackStays
    <3> QED BY <2>2, <2>4, <3>6
  <2> QED BY <2>3, <2>4
<1>9. CASE SetBase(line)
  <2>1. v[n + 1].kind = "base" /\ BaseIn(v, (n + 1) + 1) = line.base
    <3>1. v[n + 1].kind = "base" /\ v[n + 1].base = line.base
      BY <1>2, <1>9 DEF SetBase
    <3>2. BaseIn(v, (n + 1) + 1) = v[n + 1].base
      BY <1>12, <3>1, LineAfter
    <3> QED BY <3>1, <3>2
  <2>2. EnclosingIn(v, (n + 1) + 1) = EnclosingIn(w, n + 1)
    <3>1. v[n + 1].kind \notin {"tree", "tree.end"}
      BY <2>1
    <3> QED BY <1>2, <1>5, <3>1, LineAfter
  <2>3. CASE ts = <<>>
    <3>1. new = line.base /\ us = ts /\ m = 0
      BY <1>3, <1>4, <1>9, <2>3 DEF SetBase
    <3>2. /\ \A i \in 1 .. m : us[i].name = ts[i].name
          /\ \A i \in 1 .. m - 1 : us[i].base = ts[i].base
          /\ (IF m = 0 THEN new ELSE us[m].base) = BaseIn(v, (n + 1) + 1)
          /\ m # 0 => new = top
      BY <2>1, <3>1
    <3>3. HasStack(v, n + 1, us, m, new)
      BY <1>12, <2>2, <3>2, StackStays
    <3> QED BY <1>3, <1>4, <3>1, <3>3
  <2>4. CASE ts # <<>>
    <3>1. new = top /\ us = [ts EXCEPT ![m] = [name |-> ts[m].name, base |-> line.base]]
      BY <1>3, <1>9, <2>4 DEF SetBase
    <3>2. PICK x : x = [name |-> ts[m].name, base |-> line.base] /\ us = [ts EXCEPT ![m] = x]
      BY <3>1
    <3>3. /\ m \in Nat \ {0} /\ IsSeq(us) /\ Len(us) = m
          /\ \A i \in 1 .. m : us[i] = IF i = m THEN x ELSE ts[i]
      <4>1. m = Len(ts)
        BY <1>3
      <4>2. OtherLast(ts, x, us)
        BY <1>4, <2>4, <3>2, <4>1, LastReplaced
      <4> QED BY <4>1, <4>2 DEF OtherLast
    <3>4. \A i \in 1 .. m - 1 : i \in 1 .. m /\ i # m
      BY <3>3
    <3>5. m \in 1 .. m
      BY <3>3
    <3>6. /\ \A i \in 1 .. m : us[i].name = ts[i].name
          /\ \A i \in 1 .. m - 1 : us[i].base = ts[i].base
          /\ (IF m = 0 THEN new ELSE us[m].base) = BaseIn(v, (n + 1) + 1)
          /\ m # 0 => new = top
      BY <2>1, <3>1, <3>2, <3>3, <3>4, <3>5
    <3>7. HasStack(v, n + 1, us, m, new)
      BY <1>12, <2>2, <3>6, StackStays
    <3> QED BY <3>3, <3>7
  <2> QED BY <2>3, <2>4
<1>10. CASE line.kind \notin {"tree", "tree.end", "base"} /\ UNCHANGED <<trees, top_base>>
  <2>1. us = ts /\ new = top
    BY <1>3, <1>10
  <2>2. EnclosingIn(v, (n + 1) + 1) = EnclosingIn(v, n + 1)
    <3>1. v[n + 1].kind \notin {"tree", "tree.end"}
      BY <1>2, <1>10
    <3> QED BY <1>2, <3>1, LineAfter
  <2>3. BaseIn(v, (n + 1) + 1) = BaseIn(v, n + 1)
    <3>1. v[n + 1].kind # "base"
      BY <1>2, <1>10
    <3> QED BY <1>2, <2>2, <3>1, LineAfter
  <2>4. /\ \A i \in 1 .. m : us[i].name = ts[i].name
        /\ \A i \in 1 .. m - 1 : us[i].base = ts[i].base
        /\ (IF m = 0 THEN new ELSE us[m].base) = BaseIn(v, (n + 1) + 1)
        /\ m # 0 => new = top
    BY <1>3, <1>4, <1>5, <2>1, <2>3 DEF CurrentBase
  <2>5. EnclosingIn(v, (n + 1) + 1) = EnclosingIn(w, n + 1)
    BY <1>5, <2>2
  <2>6. HasStack(v, n + 1, us, m, new)
    BY <1>12, <2>4, <2>5, StackStays
  <2> QED BY <1>3, <1>4, <2>1, <2>6
<1> QED BY <1>7, <1>8, <1>9, <1>10

(* What `find` makes of a line.                                            *)
ReadLine(line) ==
  \/ OpenTree(line) \/ CloseTree(line) \/ SetBase(line)
  \/ OpenGroup(line) \/ Define(line) \/ DefineField(line) \/ PassLine(line)
  \/ line.kind = "other" /\ UNCHANGED <<trees, top_base, group, found, awaiting_field>>

(* The open group, after any line.                                         *)
LEMMA GroupFollows ==
  ASSUME PerShape, StackSays, GroupSays, NEW line, text' = Append(text, line), ReadLine(line)
  PROVE  GroupSays'
<1>1. PICK o : StackIs(text, Len(text), trees, Len(trees), top_base, o)
  BY DEF StackSays, HasStack
<1>2. PICK w, v, n : w = text /\ v = text' /\ n = Len(text)
  OBVIOUS
<1>3. n \in Nat /\ v[n + 1] = line /\ Len(v) = n + 1 /\ \A i \in 1 .. n : v[i] = w[i]
  <2>1. Longer(w, line, v)
    BY <1>2, TextGrows
  <2> QED BY <1>2, <2>1 DEF Longer
<1>4. PICK k : k = n + 1 /\ k \in Nat \ {0} /\ k \in 1 .. n + 1
  BY <1>3
<1>5. CurrentBase = BaseIn(w, k) /\ group = GroupIn(w, k)
  BY <1>1, <1>2, <1>4, BaseOfNow DEF GroupSays
<1>6. BaseIn(v, k) = BaseIn(w, k) /\ GroupIn(v, k) = GroupIn(w, k)
  <2>1. n \in Nat /\ k \in 1 .. n + 1 /\ \A i \in 1 .. n : v[i] = w[i]
    BY <1>3, <1>4
  <2>2. BaseIn(v, k) = BaseIn(w, k)
    BY <2>1, SameBase
  <2>3. GroupIn(v, k) = GroupIn(w, k)
    BY <2>1, SameGroup
  <2> QED BY <2>2, <2>3
<1>7. v[k] = line
  BY <1>3, <1>4
<1>8. SUFFICES group' = GroupIn(v, k + 1)
  BY <1>2, <1>3, <1>4 DEF GroupSays
<1>9. CASE OpenTree(line) \/ CloseTree(line)
  <2>1. v[k].kind \in {"tree", "tree.end"} /\ group' = None
    BY <1>7, <1>9 DEF OpenTree, CloseTree
  <2> QED BY <1>4, <2>1, GroupGoesOn
<1>10. CASE OpenGroup(line)
  <2>1. /\ v[k].kind = "group"
        /\ group' = IF line.literal THEN line.start ELSE Plus(CurrentBase, line.start)
    BY <1>7, <1>10 DEF OpenGroup
  <2>2. GroupIn(v, k + 1) = GroupStart(v, k)
    BY <1>4, <2>1, GroupGoesOn
  <2>3. GroupStart(v, k) = IF line.literal THEN line.start ELSE Plus(CurrentBase, line.start)
    BY <1>5, <1>6, <1>7 DEF GroupStart
  <2> QED BY <2>1, <2>2, <2>3
<1>11. CASE ~(OpenTree(line) \/ CloseTree(line) \/ OpenGroup(line))
  <2>1. v[k].kind \notin {"group", "tree", "tree.end"} /\ group' = group
    BY <1>7, <1>11 DEF ReadLine, SetBase, Define, DefineField, PassLine
  <2>2. GroupIn(v, k + 1) = GroupIn(v, k)
    BY <1>4, <2>1, GroupGoesOn
  <2> QED BY <1>5, <1>6, <2>1, <2>2
<1> QED BY <1>9, <1>10, <1>11

(* The candidates, after any line.                                         *)
LEMMA FoundFollows ==
  ASSUME PerShape, StackSays, GroupSays, FoundSays, NEW line, text' = Append(text, line),
         ReadLine(line), with_field' = with_field
  PROVE  IsSeq(found') /\ awaiting_field' \in BOOLEAN /\ FoundSays'
<1>1. PICK o : StackIs(text, Len(text), trees, Len(trees), top_base, o)
  BY DEF StackSays, HasStack
<1>2. PICK p : FoundIs(text, Len(text), with_field, found, Len(found), awaiting_field, p)
  BY DEF FoundSays, HasFound
<1>3. PICK w, v, n, fs, gs, m, asked, awaits :
        /\ w = text /\ v = text' /\ n = Len(text) /\ fs = found /\ gs = found'
        /\ m = Len(found) /\ asked = with_field /\ awaits = awaiting_field
  OBVIOUS
<1>4. n \in Nat /\ v[n + 1] = line /\ Len(v) = n + 1 /\ \A i \in 1 .. n : v[i] = w[i]
  <2>1. Longer(w, line, v)
    BY <1>3, TextGrows
  <2> QED BY <1>3, <2>1 DEF Longer
<1>5. /\ asked \in BOOLEAN /\ awaits \in BOOLEAN /\ IsSeq(fs) /\ m = Len(fs)
      /\ m \in Nat /\ (fs # <<>> => m > 0) /\ (fs = <<>> => m = 0)
  <2>1. asked \in BOOLEAN /\ awaits \in BOOLEAN /\ IsSeq(fs) /\ m = Len(fs)
    BY <1>3 DEF PerShape
  <2>2. PICK T : fs \in Seq(T)
    BY <2>1 DEF IsSeq
  <2>3. Len(fs) \in Nat /\ (fs # <<>> => Len(fs) \in Nat \ {0}) /\ Len(<<>>) = 0
    BY <2>2, LenProperties, EmptySeq
  <2> QED BY <2>1, <2>3
<1>6. FoundIs(w, n, asked, fs, m, awaits, p)
  BY <1>2, <1>3
<1>7. SUFFICES /\ IsSeq(gs) /\ awaiting_field' \in BOOLEAN
               /\ HasFound(v, n + 1, asked, gs, Len(gs), awaiting_field')
  BY <1>3, <1>4 DEF FoundSays
<1>8. CASE Define(line)
  <2>1. PICK c : /\ c = [at |-> n + 1, path |-> [i \in DOMAIN trees |-> trees[i].name],
                          address |-> Plus(group, line.offset), field |-> None]
                 /\ gs = Append(fs, c)
    BY <1>3, <1>8 DEF Define
  <2>2. awaiting_field' = asked /\ v[n + 1].kind = "line" /\ v[n + 1].offset = line.offset
    BY <1>3, <1>4, <1>8 DEF Define
  <2>3. Longer(fs, c, gs)
    BY <1>5, <2>1, Appended
  <2>4. IsSeq(gs) /\ Len(gs) = m + 1 /\ gs[m + 1] = c /\ \A i \in 1 .. m : gs[i] = fs[i]
    BY <1>5, <2>3 DEF Longer
  <2>5. PICK k \in 1 .. n + 1 : k = n + 1
    BY <1>4
  <2>6. /\ StackIs(w, n, trees, Len(trees), top_base, o) /\ Len(trees) \in Nat
        /\ DOMAIN trees = 1 .. Len(trees)
    BY <1>1, <1>3, BaseOfNow
  <2>7. PathIn(v, k) = [i \in DOMAIN trees |-> trees[i].name] /\ Ordered(v, k)
    <3>1. PathIn(w, n + 1) = [i \in 1 .. Len(trees) |-> trees[i].name]
      BY <1>4, <2>6, PathIsStack
    <3>2. Ordered(w, n + 1)
      BY <1>4, <2>6, StackIsOrdered
    <3>3. PathIn(v, k) = PathIn(w, k) /\ Ordered(v, k)
      <4>1. Ordered(w, k)
        BY <2>5, <3>2
      <4> QED BY <1>4, <4>1, SamePath
    <3> QED BY <2>5, <2>6, <3>1, <3>3
  <2>8. AddressIn(v, k) = Plus(group, line.offset)
    <3>1. GroupIn(v, k) = GroupIn(w, k)
      BY <1>4, <2>5, SameGroup
    <3>2. group = GroupIn(w, k)
      BY <1>3, <2>5 DEF GroupSays
    <3> QED BY <2>2, <2>5, <3>1, <3>2 DEF AddressIn
  <2>9. /\ gs[m + 1].at = n + 1 /\ gs[m + 1].address = AddressIn(v, n + 1)
        /\ gs[m + 1].path = PathIn(v, n + 1) /\ gs[m + 1].field = None
        /\ Ordered(v, n + 1) /\ v[n + 1].kind = "line" /\ \A i \in 1 .. m : gs[i] = fs[i]
    <3>1. /\ c.at = n + 1 /\ c.address = AddressIn(v, n + 1) /\ c.path = PathIn(v, n + 1)
          /\ c.field = None /\ Ordered(v, n + 1)
      BY <2>1, <2>5, <2>7, <2>8
    <3> QED BY <2>2, <2>4, <3>1
  <2>11. /\ n \in Nat /\ m \in Nat /\ asked \in BOOLEAN /\ awaits \in BOOLEAN
         /\ \A i \in 1 .. n : v[i] = w[i]
    BY <1>4, <1>5
  <2>10. HasFound(v, n + 1, asked, gs, m + 1, asked)
    BY ZenonT(30), <1>6, <2>9, <2>11, FoundDefines
  <2> QED BY <1>5, <2>2, <2>4, <2>10
<1>9. CASE ~Define(line)
  <2>1. v[n + 1].kind # "line"
    BY <1>4, <1>9 DEF ReadLine, OpenTree, CloseTree, SetBase, OpenGroup, DefineField, PassLine
  <2>2. PICK after : after = awaiting_field'
    OBVIOUS
  <2>3. after = (awaits /\ v[n + 1].kind \in {"base", "other"})
    <3>1. CASE SetBase(line) \/ (line.kind = "other" /\ UNCHANGED awaiting_field)
      <4>1. after = awaits /\ v[n + 1].kind \in {"base", "other"}
        BY <1>3, <1>4, <2>2, <3>1 DEF SetBase
      <4> QED BY <1>5, <4>1
    <3>2. CASE \/ OpenTree(line) \/ CloseTree(line) \/ OpenGroup(line) \/ DefineField(line)
               \/ PassLine(line)
      <4>1. /\ after = FALSE
            /\ v[n + 1].kind \in {"tree", "tree.end", "group", "field", "other line"}
        BY <1>4, <2>2, <3>2 DEF OpenTree, CloseTree, OpenGroup, DefineField, PassLine
      <4>2. v[n + 1].kind \notin {"base", "other"}
        BY <4>1
      <4> QED BY <4>1, <4>2
    <3>3. UNCHANGED <<trees, top_base, group, found, awaiting_field>> => UNCHANGED awaiting_field
      OBVIOUS
    <3>4. \/ OpenTree(line) \/ CloseTree(line) \/ OpenGroup(line) \/ DefineField(line)
          \/ SetBase(line) \/ PassLine(line)
          \/ line.kind = "other" /\ UNCHANGED <<trees, top_base, group, found, awaiting_field>>
      BY <1>9 DEF ReadLine
    <3> QED BY <3>1, <3>2, <3>3, <3>4
  <2>4. after \in BOOLEAN /\ (after <=> awaits /\ v[n + 1].kind \in {"base", "other"})
    BY <2>3
  <2>8. /\ n \in Nat /\ m \in Nat /\ asked \in BOOLEAN /\ awaits \in BOOLEAN
        /\ \A i \in 1 .. n : v[i] = w[i]
    BY <1>4, <1>5
  <2>5. awaits => fs # <<>> /\ m > 0
    BY <1>5, <1>6 DEF FoundIs
  <2>6. CASE awaits /\ v[n + 1].kind = "field"
    <3>1. DefineField(line)
      BY <1>4, <1>9, <2>6 DEF ReadLine, OpenTree, CloseTree, SetBase, OpenGroup, PassLine
    <3>2. gs = [fs EXCEPT ![m] = [at |-> fs[m].at, path |-> fs[m].path,
                                  address |-> fs[m].address, field |-> line.definition]]
      BY <1>3, <2>6, <3>1 DEF DefineField
    <3>3. PICK x : /\ x = [at |-> fs[m].at, path |-> fs[m].path,
                            address |-> fs[m].address, field |-> line.definition]
                   /\ gs = [fs EXCEPT ![m] = x]
      BY <3>2
    <3>4. OtherLast(fs, x, gs)
      BY <1>5, <2>5, <2>6, <3>3, LastReplaced
    <3>5. IsSeq(gs) /\ Len(gs) = m /\ \A i \in 1 .. m : gs[i] = IF i = m THEN x ELSE fs[i]
      BY <1>5, <3>4 DEF OtherLast
    <3>6. m \in 1 .. m /\ \A i \in 1 .. m - 1 : i \in 1 .. m /\ i # m
      BY <1>5, <2>5, <2>6
    <3>7. /\ \A i \in 1 .. m - 1 : gs[i] = fs[i]
          /\ gs[m].at = fs[m].at /\ gs[m].path = fs[m].path /\ gs[m].address = fs[m].address
          /\ gs[m].field = v[n + 1].definition
      BY <1>4, <3>3, <3>5, <3>6
    <3>8. CandidatesKept(v, n, fs, gs, m, awaits)
      BY <2>6, <3>7 DEF CandidatesKept
    <3>9. HasFound(v, n + 1, asked, gs, m, after)
      BY <1>6, <2>1, <2>4, <2>8, <3>8, FoundGoesOn
    <3> QED BY <2>2, <2>4, <3>5, <3>9
  <2>7. CASE ~(awaits /\ v[n + 1].kind = "field")
    <3>1. gs = fs
      BY <1>3, <1>4, <1>9, <2>7
         DEF ReadLine, OpenTree, CloseTree, SetBase, OpenGroup, DefineField, PassLine
    <3>2. CandidatesKept(v, n, fs, gs, m, awaits)
      BY <2>7, <3>1 DEF CandidatesKept
    <3>3. HasFound(v, n + 1, asked, gs, m, after)
      BY <1>6, <2>1, <2>4, <2>8, <3>2, FoundGoesOn
    <3> QED BY <1>5, <2>2, <2>4, <3>1, <3>3
  <2> QED BY <2>6, <2>7
<1> QED BY <1>8, <1>9

(* All candidates have the address of the register, and the same field.    *)
AnswerSays ==
  /\ register.kind \in {"register", "duplicate"} =>
       \A i \in DOMAIN found : found[i].address = register.address
  /\ register.kind = "duplicate" /\ with_field =>
       \A i, j \in DOMAIN found : found[i].field = found[j].field /\ found[i].field # None

PerInv == PerShape /\ StackSays /\ GroupSays /\ FoundSays /\ AnswerSays

LEMMA PerInitOk ==
  ASSUME PerInit
  PROVE  PerInv
<1>1. PICK e : e = <<>> /\ IsSeq(e) /\ Len(e) = 0
  <2>1. <<>> \in Seq({}) /\ Len(<<>>) = 0
    BY EmptySeq
  <2>2. IsSeq(<<>>)
    BY <2>1 DEF IsSeq
  <2> QED BY <2>1, <2>2
<1>2. text = e /\ trees = e /\ found = e
  BY <1>1 DEF PerInit
<1>3. PerShape
  BY <1>1, <1>2 DEF PerInit, PerShape
<1>4. EnclosingIn(e, 1) = {} /\ GroupIn(e, 1) = None /\ BaseIn(e, 1) = None
  <2>1. 1 .. 1 - 1 = {}
    OBVIOUS
  <2>2. EnclosingIn(e, 1) = {} /\ BasesIn(e, 1) = {} /\ GroupsIn(e, 1) = {}
    BY <2>1 DEF EnclosingIn, BasesIn, GroupsIn
  <2> QED BY <2>2 DEF GroupIn, BaseIn, LatestBase
<1>5. StackSays
  <2>1. PICK o : o = [i \in 1 .. 0 + 1 |-> 1]
    OBVIOUS
  <2>2. 0 + 1 = 1 /\ 1 .. 0 = {} /\ \A i \in 1 .. 1 : i = 1
    OBVIOUS
  <2>3. o \in [1 .. 0 + 1 -> 1 .. 0 + 1] /\ o[0 + 1] = 0 + 1 /\ o[1] = 1
    BY <2>1, <2>2
  <2>4. \A i, j \in 1 .. 0 + 1 : i < j => o[i] < o[j]
    BY <2>2
  <2>5. EnclosingIn(e, 0 + 1) = {o[i] : i \in 1 .. 0}
    BY <1>4, <2>2
  <2>6. \A i \in 1 .. 0 : e[i].name = e[o[i]].name /\ e[i].base = BaseIn(e, o[i + 1])
    BY <2>2
  <2>7. StackIs(e, 0, e, 0, None, o)
    BY <1>4, <2>3, <2>4, <2>5, <2>6 DEF StackIs
  <2>8. top_base = None
    BY DEF PerInit
  <2> QED BY <1>1, <1>2, <2>7, <2>8 DEF StackSays, HasStack
<1>6. GroupSays
  <2>1. Len(e) + 1 = 1
    BY <1>1
  <2> QED BY <1>2, <1>4, <2>1 DEF GroupSays, PerInit
<1>7. FoundSays
  <2>1. 1 .. 0 = {} /\ ~(0 > 0)
    OBVIOUS
  <2>2. PICK asked : asked = with_field
    OBVIOUS
  <2>3. FoundIs(e, 0, asked, e, 0, FALSE, e)
    BY <2>1 DEF FoundIs
  <2>4. awaiting_field = FALSE
    BY DEF PerInit
  <2> QED BY <1>1, <1>2, <2>2, <2>3, <2>4 DEF FoundSays, HasFound
<1>8. AnswerSays
  <2>1. register.kind = "none"
    BY DEF PerInit, NoRegister
  <2> QED BY <2>1 DEF AnswerSays
<1> QED BY <1>3, <1>5, <1>6, <1>7, <1>8 DEF PerInv

LEMMA ScanLineOk ==
  ASSUME PerInv, ScanLine
  PROVE  PerInv'
<1>1. PICK line \in PerLines : text' = Append(text, line) /\ ReadLine(line)
  BY DEF ScanLine, ReadLine
<1>2. with_field' = with_field /\ register' = register /\ register = NoRegister
  BY DEF ScanLine
<1>3. PerShape /\ StackSays /\ GroupSays /\ FoundSays
  BY DEF PerInv
<1>4. IsSeq(text')
  BY <1>1, <1>3, TextGrows DEF Longer
<1>5. IsSeq(trees') /\ StackSays'
  <2>1. \/ OpenTree(line) \/ CloseTree(line) \/ SetBase(line)
        \/ line.kind \notin {"tree", "tree.end", "base"} /\ UNCHANGED <<trees, top_base>>
    <3>1. CASE OpenGroup(line) \/ Define(line) \/ DefineField(line) \/ PassLine(line)
      <4>1. /\ line.kind \in {"group", "line", "field", "other line"}
            /\ UNCHANGED <<trees, top_base>>
        BY <3>1 DEF OpenGroup, Define, DefineField, PassLine
      <4> QED BY <4>1
    <3>2. CASE line.kind = "other" /\ UNCHANGED <<trees, top_base, group, found, awaiting_field>>
      <4>1. line.kind \notin {"tree", "tree.end", "base"} /\ UNCHANGED <<trees, top_base>>
        BY <3>2
      <4> QED BY <4>1
    <3> QED BY <1>1, <3>1, <3>2 DEF ReadLine
  <2> QED BY <1>1, <1>3, <2>1, StackFollows
<1>6. GroupSays'
  BY <1>1, <1>3, GroupFollows
<1>7. IsSeq(found') /\ awaiting_field' \in BOOLEAN /\ FoundSays'
  BY <1>1, <1>2, <1>3, FoundFollows
<1>8. PerShape'
  BY <1>2, <1>3, <1>4, <1>5, <1>7 DEF PerShape
<1>9. AnswerSays'
  <2>1. register'.kind = "none"
    BY <1>2 DEF NoRegister
  <2> QED BY <2>1 DEF AnswerSays
<1> QED BY <1>5, <1>6, <1>7, <1>8, <1>9 DEF PerInv

(* An address that all candidates have is that of each, and so is a field. *)
LEMMA CommonIsEachOnes ==
  ASSUME CommonAddress # None
  PROVE  \A i \in DOMAIN found : found[i].address = CommonAddress
<1>1. Candidates # {} /\ \A c, d \in Candidates : c.address = d.address
  BY DEF CommonAddress
<1>2. PICK x \in Candidates : CommonAddress = x.address
  BY <1>1 DEF CommonAddress
<1>3. ASSUME NEW i \in DOMAIN found PROVE found[i].address = CommonAddress
  <2>1. PICK c \in Candidates : c.address = found[i].address
    <3> DEFINE y == [path |-> found[i].path, address |-> found[i].address,
                     field |-> found[i].field]
    <3>1. y \in Candidates
      BY DEF Candidates
    <3>2. y.address = found[i].address
      OBVIOUS
    <3> HIDE DEF y
    <3> QED BY <3>1, <3>2
  <2> QED BY <1>1, <1>2, <2>1
<1> QED BY <1>3

LEMMA SameFieldIsEachOnes ==
  ASSUME SameField
  PROVE  \A i, j \in DOMAIN found : found[i].field = found[j].field /\ found[i].field # None
<1>1. ASSUME NEW i \in DOMAIN found, NEW j \in DOMAIN found
      PROVE  found[i].field = found[j].field /\ found[i].field # None
  <2>1. PICK c \in Candidates : c.field = found[i].field
    <3> DEFINE x == [path |-> found[i].path, address |-> found[i].address,
                     field |-> found[i].field]
    <3>1. x \in Candidates
      BY DEF Candidates
    <3>2. x.field = found[i].field
      OBVIOUS
    <3> HIDE DEF x
    <3> QED BY <3>1, <3>2
  <2>2. PICK d \in Candidates : d.field = found[j].field
    <3> DEFINE x == [path |-> found[j].path, address |-> found[j].address,
                     field |-> found[j].field]
    <3>1. x \in Candidates
      BY DEF Candidates
    <3>2. x.field = found[j].field
      OBVIOUS
    <3> HIDE DEF x
    <3> QED BY <3>1, <3>2
  <2> QED BY <2>1, <2>2 DEF SameField
<1> QED BY <1>1

LEMMA ResolveOk ==
  ASSUME PerInv, ResolveFromFile \/ ResolveDuplicate
  PROVE  PerInv'
<1>1. /\ text' = text /\ trees' = trees /\ top_base' = top_base /\ group' = group
      /\ found' = found /\ awaiting_field' = awaiting_field /\ with_field' = with_field
  BY DEF ResolveFromFile, ResolveDuplicate
<1>2. PerShape' /\ StackSays' /\ GroupSays' /\ FoundSays'
  BY <1>1 DEF PerInv, PerShape, StackSays, GroupSays, FoundSays
<1>3. CASE ResolveFromFile
  <2>1. CASE CommonAddress # None
    <3>1. register'.kind = "register" /\ register'.address = CommonAddress
      BY <1>3, <2>1 DEF ResolveFromFile
    <3>2. \A i \in DOMAIN found' : found'[i].address = register'.address
      BY <1>1, <2>1, <3>1, CommonIsEachOnes
    <3> QED BY <1>2, <3>1, <3>2 DEF PerInv, AnswerSays
  <2>2. CASE CommonAddress = None
    <3>1. register'.kind = "error"
      BY <1>3, <2>2 DEF ResolveFromFile
    <3> QED BY <1>2, <3>1 DEF PerInv, AnswerSays
  <2> QED BY <2>1, <2>2
<1>4. CASE ResolveDuplicate
  <2>1. \/ register'.kind = "error"
        \/ /\ register'.kind = "duplicate" /\ register'.address = CommonAddress
           /\ CommonAddress # None /\ (with_field => SameField)
    BY <1>4 DEF ResolveDuplicate
  <2>2. CASE register'.kind = "error"
    BY <1>2, <2>2 DEF PerInv, AnswerSays
  <2>3. CASE /\ register'.kind = "duplicate" /\ register'.address = CommonAddress
             /\ CommonAddress # None /\ (with_field => SameField)
    <3>1. \A i \in DOMAIN found' : found'[i].address = register'.address
      BY <1>1, <2>3, CommonIsEachOnes
    <3>2. with_field' => \A i, j \in DOMAIN found' :
                           found'[i].field = found'[j].field /\ found'[i].field # None
      BY <1>1, <2>3, SameFieldIsEachOnes
    <3>3. AnswerSays'
      BY <3>1, <3>2 DEF AnswerSays
    <3> QED BY <1>2, <3>3 DEF PerInv
  <2> QED BY <2>1, <2>2, <2>3
<1> QED BY <1>3, <1>4

(* What the property says of a line is what the lemmas say.                *)
LEMMA MeaningsAgree ==
  ASSUME NEW k
  PROVE  /\ AddressOf(k) = AddressIn(text, k) /\ PathOf(k) = PathIn(text, k)
         /\ FieldAt(k) = FieldIn(text, Len(text), k, with_field)
<1>1. ASSUME NEW j PROVE BaseAt(j) = BaseIn(text, j)
  BY Zenon DEF BaseAt, BaseIn, BasesIn, LatestBase, Enclosing, EnclosingIn, Count, CountIn, LinesIn
<1>2. GroupAt(k) = GroupIn(text, k)
  BY <1>1 DEF GroupAt, GroupIn, GroupsIn, GroupStart
<1>3. AddressOf(k) = AddressIn(text, k)
  BY <1>2 DEF AddressOf, AddressIn
<1>4. PathOf(k) = PathIn(text, k)
  BY Zenon DEF PathOf, PathIn, PathOver, Outermost, Enclosing, EnclosingIn, Count, CountIn, LinesIn
<1>5. FieldAt(k) = FieldIn(text, Len(text), k, with_field)
  BY DEF FieldAt, FieldIn, FieldsIn, FieldOf
<1> QED BY <1>3, <1>4, <1>5

LEMMA PerInvMeansCertain ==
  ASSUME PerInv
  PROVE  AddressFromFileIsCertain
<1>1. PICK p : FoundIs(text, Len(text), with_field, found, Len(found), awaiting_field, p)
  BY DEF PerInv, FoundSays, HasFound
<1>2. DOMAIN found = 1 .. Len(found) /\ DOMAIN text = 1 .. Len(text)
  <2>1. PICK T, U : text \in Seq(T) /\ found \in Seq(U)
    BY DEF PerInv, PerShape, IsSeq
  <2> QED BY <2>1, LenProperties
<1>3. ASSUME NEW i \in DOMAIN found
      PROVE  /\ p[i] \in Definitions /\ found[i].at = p[i] /\ found[i].address = AddressOf(p[i])
             /\ found[i].path = PathOf(p[i]) /\ found[i].field = FieldAt(p[i])
  <2>1. PICK k : k = p[i]
    OBVIOUS
  <2>2. IsCandidate(text, Len(text), with_field, found[i], k)
    BY <1>1, <1>2, <2>1 DEF FoundIs
  <2>3. /\ k \in DOMAIN text /\ text[k].kind = "line" /\ found[i].at = k
        /\ found[i].address = AddressIn(text, k) /\ found[i].path = PathIn(text, k)
        /\ found[i].field = FieldIn(text, Len(text), k, with_field)
    BY <1>2, <2>2 DEF IsCandidate
  <2>4. k \in Definitions
    BY <2>3 DEF Definitions
  <2> QED BY <2>1, <2>3, <2>4, MeaningsAgree
<1>4. ASSUME NEW k \in Definitions PROVE \E i \in DOMAIN found : p[i] = k
  BY <1>1, <1>2 DEF FoundIs, Definitions
<1>5. {<<found[i].at, found[i].address, found[i].path, found[i].field>> : i \in DOMAIN found}
        = {<<k, AddressOf(k), PathOf(k), FieldAt(k)>> : k \in Definitions}
  <2>1. ASSUME NEW i \in DOMAIN found
        PROVE  \E k \in Definitions :
                 <<found[i].at, found[i].address, found[i].path, found[i].field>>
                   = <<k, AddressOf(k), PathOf(k), FieldAt(k)>>
    BY <1>3
  <2>2. ASSUME NEW k \in Definitions
        PROVE  \E i \in DOMAIN found :
                 <<k, AddressOf(k), PathOf(k), FieldAt(k)>>
                   = <<found[i].at, found[i].address, found[i].path, found[i].field>>
    BY <1>3, <1>4
  <2> QED BY <2>1, <2>2
<1>6. register.kind \in {"register", "duplicate"} =>
        \A k \in Definitions : AddressOf(k) = register.address
  BY <1>3, <1>4 DEF PerInv, AnswerSays
<1>7. register.kind = "duplicate" /\ with_field =>
        \A k, l \in Definitions : FieldAt(k) = FieldAt(l) /\ FieldAt(k) # None
  <2>1. ASSUME register.kind = "duplicate", with_field, NEW k \in Definitions,
               NEW l \in Definitions
        PROVE  FieldAt(k) = FieldAt(l) /\ FieldAt(k) # None
    <3>1. PICK i \in DOMAIN found : p[i] = k
      BY <1>4
    <3>2. PICK j \in DOMAIN found : p[j] = l
      BY <1>4
    <3>3. found[i].field = found[j].field /\ found[i].field # None
      BY <2>1 DEF PerInv, AnswerSays
    <3>4. found[i].field = FieldAt(k) /\ found[j].field = FieldAt(l)
      BY <1>3, <3>1, <3>2
    <3> QED BY <3>3, <3>4
  <2> QED BY <2>1
<1> QED BY <1>5, <1>6, <1>7 DEF AddressFromFileIsCertain

(* Whatever the PER file, an address worked out from its text is that of   *)
(* every definition of the register in it, as the nesting of trees, bases, *)
(* groups and fields gives it, and every definition is found.              *)
THEOREM AddressesAreCertain == PerSpec => []AddressFromFileIsCertain
<1>1. PerInit => PerInv
  BY PerInitOk
<1>2. PerInv /\ [PerNext]_perVars => PerInv'
  <2> SUFFICES ASSUME PerInv, [PerNext]_perVars PROVE PerInv'
    OBVIOUS
  <2>1. CASE ScanLine
    BY <2>1, ScanLineOk
  <2>2. CASE ResolveFromFile \/ ResolveDuplicate
    BY <2>2, ResolveOk
  <2>3. CASE UNCHANGED perVars
    BY <2>3 DEF perVars, PerInv, PerShape, StackSays, GroupSays, FoundSays, AnswerSays
  <2> QED BY <2>1, <2>2, <2>3 DEF PerNext
<1>3. PerInv => AddressFromFileIsCertain
  BY PerInvMeansCertain
<1> QED BY <1>1, <1>2, <1>3, PTL DEF PerSpec
=============================================================================
