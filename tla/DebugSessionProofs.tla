------------------------- MODULE DebugSessionProofs -------------------------
(***************************************************************************)
(* The safety of DebugSession for every bound: a command is where its code *)
(* can be (Places), and what it reads is as fresh as the place promises    *)
(* (FreshInv).                                                             *)
(***************************************************************************)
EXTENDS DebugSession, TLAPS

Steps ==
  {"prompt", "state", "conditions", "reprogram_conditions", "filename", "address",
   "reprogram_address", "value", "cmd", "changed", "up", "running", "break", "go", "stopped",
   "idle", "error_reset", "DO", "depth", "practice_state", "occurred", "end", "ended", "none"}

Changes == {"pending", "own", "failed", "script"}

TypeInv ==
  /\ link \in {"open", "broken", "none"}
  /\ command \in Commands \cup {"none"} /\ at \in Steps
  /\ local \in Locals
  /\ taken \in States \cup {"none"} /\ reprogrammed \in BOOLEAN
  /\ warned \in BOOLEAN
  /\ core \in Cores /\ per_file \in BOOLEAN /\ others \in BOOLEAN
  /\ stale \subseteq Changes
  /\ at = "prompt" <=> command = "none"

(* The calls of reg and check.                                             *)
PerSteps ==
  {"state", "conditions", "reprogram_conditions", "filename", "address",
   "reprogram_address", "value"}

(* Which command can be at a step, and what is left to do there.           *)
Places ==
  /\ at = "running" => command \in {"reg", "check", "run_until"}
  /\ at = "up" => command = "attach"
  /\ at = "cmd" => command # "do"
  /\ at \in {"idle", "up", "cmd"} => local.left \in 1 .. MaxCommands
  /\ at = "end" => local.ends < MaxEnds
  /\ at # "end" /\ at # "ended" => local.ends = 0
  /\ at \in PerSteps => command \in {"reg", "check"}
  /\ at = "break" => command = "check"

(* The IF conditions were taken after the last own command, or the user    *)
(* was warned.                                                             *)
Fresh == "own" \in stale => warned

(* Nothing changed the target since they were taken, or the user was       *)
(* warned.                                                                 *)
Current == stale # {} => warned

(* `reg` and `check` have a snapshot.                                      *)
Reading == at \in {"address", "value"} \/ (at = "running" /\ command = "check")

FreshInv ==
  /\ taken # "none" => Fresh
  /\ at = "filename" => Current
  /\ Reading => Fresh
  /\ Reading /\ taken = "running" => Current

IInv == TypeInv /\ Places /\ FreshInv /\ DoMeansEnded

USE DEF PerSteps, Changes

-----------------------------------------------------------------------------

LEMMA Bounds ==
  /\ MaxEnds \in Nat /\ MaxEnds > 0 /\ MaxCommands \in Nat /\ MaxCommands > 0
  /\ Timeout \in Nat /\ Timeout > 0
BY DebugAssumption

(* Locals by their fields.                                                 *)
LEMMA LocalFields ==
  ASSUME NEW l \in Locals
  PROVE  /\ l.after \in {"none", "address", "value"} /\ l.seen \in States \cup {"none"}
         /\ l.left \in 0 .. MaxCommands /\ l.polls \in 0 .. 2 /\ l.waited \in 0 .. Timeout + 1
         /\ l.ends \in 0 .. MaxEnds
         /\ \A x \in {"none", "address", "value"} : [l EXCEPT !.after = x] \in Locals
         /\ \A x \in States \cup {"none"} : [l EXCEPT !.seen = x] \in Locals
         /\ \A x \in 0 .. MaxCommands : [l EXCEPT !.left = x] \in Locals
         /\ \A x \in 0 .. 2 : [l EXCEPT !.polls = x] \in Locals
         /\ \A x \in 0 .. Timeout + 1 : [l EXCEPT !.waited = x] \in Locals
         /\ \A x \in 0 .. MaxEnds : [l EXCEPT !.ends = x] \in Locals
BY DEF Locals

LEMMA NoLocalsType == NoLocals \in Locals /\ NoLocals.ends = 0 /\ NoLocals.left = 0
<1>1. 0 \in 0 .. MaxCommands /\ 0 \in 0 .. 2 /\ 0 \in 0 .. Timeout + 1 /\ 0 \in 0 .. MaxEnds
  BY Bounds
<1> QED BY <1>1 DEF NoLocals, Locals

LEMMA Initially == Init => IInv
<1> SUFFICES ASSUME Init PROVE IInv
  OBVIOUS
<1>1. TypeInv
  BY NoLocalsType DEF Init, TypeInv, Steps
<1>2. Places /\ FreshInv /\ DoMeansEnded
  BY NoLocalsType DEF Init, Places, PerSteps, FreshInv, Fresh, Reading, DoMeansEnded
<1> QED BY <1>1, <1>2 DEF IInv

(* A command ends, well or not.                                            *)
LEMMA Ends ==
  ASSUME IInv, link' \in {"open", "broken", "none"}, at' = "prompt", command' = "none",
         local' = NoLocals, warned' = warned,
         taken' = "none" \/ (taken' = taken /\ ("own" \in stale' => "own" \in stale)),
         reprogrammed' \in BOOLEAN, core' \in Cores, per_file' \in BOOLEAN, others' \in BOOLEAN,
         stale' \subseteq Changes
  PROVE  IInv'
<1>1. TypeInv'
  BY NoLocalsType DEF IInv, TypeInv, Steps
<1>2. Places' /\ FreshInv' /\ DoMeansEnded'
  BY NoLocalsType DEF IInv, Places, PerSteps, FreshInv, Fresh, Reading, DoMeansEnded
<1> QED BY <1>1, <1>2 DEF IInv

LEMMA FailedType ==
  ASSUME TypeInv
  PROVE  /\ Failed \subseteq Changes
         /\ Own \subseteq Changes
         /\ Failed \cup {Blame} \subseteq Changes
         /\ "own" \in Failed \cup {Blame} => "own" \in stale
BY DEF Failed, Own, Blame, Changes, TypeInv

(* The world acts, not the session.                                        *)
LEMMA WorldActs ==
  ASSUME IInv, link' \in {"open", "broken", "none"},
         UNCHANGED <<command, at, local, snapshotVars>>,
         core' \in Cores, per_file' \in BOOLEAN, others' \in BOOLEAN,
         stale' \in {stale, stale \cup {"pending"}}, stale' = stale \/ command = "do",
         script = "none" => script' = "none"
  PROVE  IInv'
<1>1. /\ UNCHANGED <<taken, reprogrammed, warned>> /\ stale' \subseteq Changes
      /\ "own" \in stale' => "own" \in stale
  BY DEF snapshotVars, IInv, TypeInv, Changes
<1>2. TypeInv'
  BY <1>1 DEF IInv, TypeInv
<1>3. Places'
  BY <1>1 DEF IInv, Places
<1>4. (at = "filename" \/ Reading) => stale' = stale
  BY DEF IInv, Places, PerSteps, Reading
<1>5. FreshInv' /\ DoMeansEnded'
  BY <1>1, <1>4 DEF IInv, FreshInv, Fresh, Current, Reading, DoMeansEnded
<1> QED BY <1>2, <1>3, <1>5 DEF IInv

LEMMA WorldStep ==
  ASSUME IInv,
         \/ ScriptRuns \/ ScriptActs \/ OthersAct \/ OthersRunScripts
         \/ LinkBreaks \/ PowerViewRestarts
  PROVE  IInv'
<1> USE DEF sessionVars, powerviewVars, scriptVars
<1>1. TypeInv
  BY DEF IInv
<1>2. CASE ScriptRuns
  BY <1>1, <1>2, WorldActs DEF ScriptRuns, TypeInv
<1>3. CASE ScriptActs
  BY <1>1, <1>3, WorldActs DEF ScriptActs, TypeInv
<1>4. CASE OthersAct
  BY <1>1, <1>4, WorldActs DEF OthersAct, TypeInv
<1>5. CASE OthersRunScripts
  BY <1>1, <1>5, WorldActs DEF OthersRunScripts, TypeInv
<1>6. CASE LinkBreaks
  BY <1>1, <1>6, WorldActs DEF LinkBreaks, TypeInv
<1>7. CASE PowerViewRestarts
  BY <1>1, <1>7, WorldActs DEF PowerViewRestarts, TypeInv, Cores
<1> QED BY <1>2, <1>3, <1>4, <1>5, <1>6, <1>7

-----------------------------------------------------------------------------
(* How a call leaves the session.                                          *)

(* A command goes on with another call.                                    *)
LEMMA GoesOn ==
  ASSUME IInv, at # "prompt", NEW step \in Steps \ {"prompt", "up", "idle"}, NEW l \in Locals,
         GoWith(step, l),
         taken' \in States \cup {"none"}, reprogrammed' \in BOOLEAN, warned' \in BOOLEAN,
         core' \in Cores, per_file' \in BOOLEAN, others' \in BOOLEAN,
         stale' \subseteq Changes,
         step = "running" => command \in {"reg", "check", "run_until"},
         step = "cmd" => command # "do" /\ l.left \in 1 .. MaxCommands,
         step = "end" => l.ends < MaxEnds,
         step # "end" /\ step # "ended" => l.ends = 0,
         command = "do" /\ step = "changed" => script' = "none",
         \/ taken' = "none"
         \/ "own" \notin stale' \/ warned'
         \/ /\ taken' = taken /\ warned' = warned
            /\ "own" \in stale' => "own" \in stale,
         step \in PerSteps => command \in {"reg", "check"},
         step = "break" => command = "check",
         step = "filename" => (stale' # {} => warned'),
         step \in {"address", "value"} \/ (step = "running" /\ command = "check") =>
           /\ "own" \in stale' => warned'
           /\ taken' = "running" /\ stale' # {} => warned'
  PROVE  IInv'
<1>1. /\ at' = step /\ local' = l /\ UNCHANGED <<link, command>> /\ step # "up" /\ step # "idle"
  BY DEF GoWith
<1>2. TypeInv'
  BY <1>1 DEF IInv, TypeInv
<1>3. Places'
  BY <1>1 DEF Places
<1>4. FreshInv'
  BY <1>1 DEF IInv, FreshInv, Fresh, Current, Reading
<1>5. DoMeansEnded'
  BY <1>1 DEF DoMeansEnded
<1> QED BY <1>2, <1>3, <1>4, <1>5 DEF IInv

(* It fails, or ends well, without a change to the snapshot.               *)
LEMMA FailsOrEnds ==
  ASSUME IInv, NEW r, End(r), UNCHANGED <<taken, warned>>,
         reprogrammed' \in BOOLEAN, core' \in Cores, per_file' \in BOOLEAN, others' \in BOOLEAN,
         stale' \in {stale, Failed, Failed \cup {Blame}}
  PROVE  IInv'
<1>1. link' = link /\ link \in {"open", "broken", "none"}
  BY DEF End, IInv, TypeInv
<1>2. stale' \subseteq Changes /\ ("own" \in stale' => "own" \in stale)
  BY FailedType DEF IInv, TypeInv
<1> QED BY <1>1, <1>2, Ends DEF End

LEMMA LostKeeps == IInv /\ Lost => IInv'
<1> SUFFICES ASSUME IInv, Lost PROVE IInv'
  OBVIOUS
<1>1. TypeInv
  BY DEF IInv
<1> QED BY <1>1, Ends, FailedType DEF Lost, snapshotVars, scriptVars, TypeInv

-----------------------------------------------------------------------------
(* PerSnapshot::ensure.                                                    *)

LEMMA ReadStateKeeps == IInv /\ ReadState => IInv'
<1> SUFFICES ASSUME IInv, ReadState PROVE IInv'
  OBVIOUS
<1>0. /\ TypeInv /\ at = "state" /\ local \in Locals /\ local.ends = 0
      /\ command \in {"reg", "check"}
      /\ UNCHANGED <<taken, reprogrammed, warned, core, per_file, script, others>>
  BY DEF IInv, TypeInv, ReadState, Calling, snapshotVars, scriptVars, Places
<1>1. CASE Fails
  BY <1>0, <1>1, FailsOrEnds DEF Fails, TypeInv
<1>2. ASSUME NEW seen \in {core, "unknown"}, taken = seen, seen # "running", GoTo(local.after),
             stale' = stale
      PROVE  IInv'
  <2>1. /\ local.after \in {"none", "address", "value"} /\ local.after \in Steps
        /\ GoWith(local.after, local)
    BY <1>0, <1>2, LocalFields DEF GoTo, Steps
  <2>2. taken # "none"
    BY <1>0, <1>2 DEF TypeInv, Cores
  <2>3. ("own" \in stale => warned) /\ taken # "running"
    BY <1>2, <2>2 DEF IInv, FreshInv, Fresh
  <2> QED BY <1>0, <1>2, <2>1, <2>3, GoesOn DEF TypeInv
<1>3. ASSUME NEW seen \in {core, "unknown"}, GoWith("conditions", [local EXCEPT !.seen = seen]),
             stale' = stale
      PROVE  IInv'
  <2>1. seen \in States
    BY <1>0 DEF TypeInv, States
  <2>2. [local EXCEPT !.seen = seen] \in Locals /\ [local EXCEPT !.seen = seen].ends = 0
    BY <1>0, <2>1, LocalFields DEF Locals
  <2>3. "conditions" \in Steps
    BY DEF Steps
  <2> QED BY <1>0, <1>3, <2>2, <2>3, GoesOn DEF TypeInv
<1> QED BY <1>1, <1>2, <1>3 DEF ReadState

LEMMA SetConditionsKeeps == IInv /\ SetConditions => IInv'
<1> SUFFICES ASSUME IInv, SetConditions PROVE IInv'
  OBVIOUS
<1>0. /\ TypeInv /\ at = "conditions" /\ local \in Locals /\ local.ends = 0
      /\ command \in {"reg", "check"}
      /\ UNCHANGED <<taken, reprogrammed, core, per_file, script, others>>
      /\ GoWith("filename", local) /\ "filename" \in Steps
  BY DEF IInv, TypeInv, SetConditions, Calling, scriptVars, Places, GoTo, Steps
<1>1. /\ warned' \in BOOLEAN /\ stale' \in {stale, {}}
      /\ stale' # {} => warned'
  BY DEF SetConditions
<1> QED BY <1>0, <1>1, GoesOn DEF TypeInv

LEMMA ConditionsNeedFileKeeps == IInv /\ ConditionsNeedFile => IInv'
<1> SUFFICES ASSUME IInv, ConditionsNeedFile PROVE IInv'
  OBVIOUS
<1>0. /\ TypeInv /\ at = "conditions" /\ local \in Locals /\ local.ends = 0
      /\ command \in {"reg", "check"}
      /\ UNCHANGED <<taken, core, per_file, stale, script, others>>
      /\ "filename" \in Steps /\ "reprogram_conditions" \in Steps
  BY DEF IInv, TypeInv, ConditionsNeedFile, Quiet, powerviewVars, Calling, scriptVars, Places, Steps
<1>1. CASE warned' = TRUE /\ GoTo("filename") /\ UNCHANGED reprogrammed
  BY <1>0, <1>1, GoesOn DEF TypeInv, GoTo
<1>2. CASE GoTo("reprogram_conditions") /\ UNCHANGED warned /\ reprogrammed' = TRUE
  BY <1>0, <1>2, GoesOn DEF TypeInv, GoTo
<1> QED BY <1>1, <1>2 DEF ConditionsNeedFile

LEMMA ReprogramForConditionsKeeps == IInv /\ ReprogramForConditions => IInv'
<1> SUFFICES ASSUME IInv, ReprogramForConditions PROVE IInv'
  OBVIOUS
<1>0. /\ TypeInv /\ at = "reprogram_conditions" /\ local \in Locals /\ local.ends = 0
      /\ command \in {"reg", "check"}
      /\ UNCHANGED <<reprogrammed, core, stale, script, others>> /\ per_file' \in BOOLEAN
      /\ "filename" \in Steps /\ "conditions" \in Steps
  BY DEF IInv, TypeInv, ReprogramForConditions, Calling, scriptVars, Places, Steps
<1>1. CASE taken' = "none" /\ GoTo("conditions") /\ UNCHANGED warned
  BY <1>0, <1>1, GoesOn DEF TypeInv, GoTo
<1>2. CASE warned' = TRUE /\ GoTo("filename") /\ UNCHANGED taken
  BY <1>0, <1>2, GoesOn DEF TypeInv, GoTo
<1> QED BY <1>1, <1>2 DEF ReprogramForConditions

LEMMA FilenameKeeps == IInv /\ Filename => IInv'
<1> SUFFICES ASSUME IInv, Filename PROVE IInv'
  OBVIOUS
<1> DEFINE l == [local EXCEPT !.seen = "none"]
<1>0. /\ TypeInv /\ at = "filename" /\ local \in Locals /\ local.ends = 0
      /\ command \in {"reg", "check"}
      /\ UNCHANGED <<reprogrammed, warned, core, per_file, stale, script, others>>
      /\ taken' = local.seen /\ GoWith(local.after, l)
  BY DEF IInv, TypeInv, Filename, Quiet, powerviewVars, Calling, scriptVars, Places
<1>1. /\ local.after \in {"none", "address", "value"} /\ local.after \in Steps
      /\ local.seen \in States \cup {"none"} /\ l \in Locals /\ l.ends = 0
  BY <1>0, LocalFields DEF Steps, Locals
<1>2. stale' # {} => warned'
  BY <1>0 DEF IInv, FreshInv, Current
<1> HIDE DEF l
<1> QED BY <1>0, <1>1, <1>2, GoesOn DEF TypeInv

LEMMA AddressKeeps == IInv /\ Address => IInv'
<1> SUFFICES ASSUME IInv, Address PROVE IInv'
  OBVIOUS
<1>0. /\ TypeInv /\ at = "address" /\ local \in Locals /\ local.ends = 0
      /\ command \in {"reg", "check"}
      /\ UNCHANGED <<taken, reprogrammed, warned, core, per_file, script, others>>
      /\ "value" \in Steps /\ "running" \in Steps
      /\ "own" \in stale => warned
      /\ taken = "running" /\ stale # {} => warned
  BY DEF IInv, TypeInv, Address, snapshotVars, Calling, scriptVars, Places, Steps, FreshInv,
         Fresh, Current, Reading
<1>1. CASE Fails
  BY <1>0, <1>1, FailsOrEnds DEF Fails, TypeInv
<1>2. ASSUME GoTo("value"), stale' = stale PROVE IInv'
  BY <1>0, <1>2, GoesOn DEF TypeInv, GoTo
<1>3. ASSUME command = "check", GoTo("running"), stale' = stale PROVE IInv'
  BY <1>0, <1>3, GoesOn DEF TypeInv, GoTo
<1> QED BY <1>1, <1>2, <1>3 DEF Address

LEMMA AddressNeedsFileKeeps == IInv /\ AddressNeedsFile => IInv'
<1> SUFFICES ASSUME IInv, AddressNeedsFile PROVE IInv'
  OBVIOUS
<1>0. /\ TypeInv /\ at = "address" /\ local \in Locals /\ local.ends = 0
      /\ command \in {"reg", "check"}
      /\ UNCHANGED <<taken, warned, core, per_file, stale, script, others>>
      /\ "reprogram_address" \in Steps
  BY DEF IInv, TypeInv, AddressNeedsFile, Quiet, powerviewVars, Calling, scriptVars, Places, Steps
<1>1. ASSUME NEW r, End(r), UNCHANGED reprogrammed PROVE IInv'
  BY <1>0, <1>1, FailsOrEnds DEF TypeInv
<1>2. CASE GoTo("reprogram_address") /\ reprogrammed' = TRUE
  BY <1>0, <1>2, GoesOn DEF TypeInv, GoTo
<1> QED BY <1>1, <1>2 DEF AddressNeedsFile

LEMMA ReprogramForAddressKeeps == IInv /\ ReprogramForAddress => IInv'
<1> SUFFICES ASSUME IInv, ReprogramForAddress PROVE IInv'
  OBVIOUS
<1>0. /\ TypeInv /\ at = "reprogram_address" /\ local \in Locals /\ local.ends = 0
      /\ command \in {"reg", "check"}
      /\ UNCHANGED <<reprogrammed, warned, core, stale, script, others>> /\ per_file' \in BOOLEAN
      /\ "state" \in Steps
  BY DEF IInv, TypeInv, ReprogramForAddress, Calling, scriptVars, Places, Steps
<1>1. CASE taken' = "none" /\ GoTo("state")
  BY <1>0, <1>1, GoesOn DEF TypeInv, GoTo
<1>2. CASE End("no file") /\ UNCHANGED taken
  BY <1>0, <1>2, FailsOrEnds DEF TypeInv
<1> QED BY <1>1, <1>2 DEF ReprogramForAddress

-----------------------------------------------------------------------------
(* State changes.                                                          *)

LEMMA CmdKeeps == IInv /\ Cmd => IInv'
<1> SUFFICES ASSUME IInv, Cmd PROVE IInv'
  OBVIOUS
<1>0. /\ TypeInv /\ at = "cmd" /\ local \in Locals /\ local.ends = 0
      /\ command # "do" /\ local.left \in 1 .. MaxCommands
      /\ UNCHANGED <<taken, reprogrammed, warned, per_file, script, others>>
      /\ "cmd" \in Steps /\ "changed" \in Steps /\ core' \in Cores
  BY DEF IInv, TypeInv, Cmd, Effect, snapshotVars, Calling, scriptVars, Places, Steps
<1>1. CASE Fails \/ FailsLate
  BY <1>0, <1>1, FailsOrEnds DEF Fails, FailsLate, TypeInv
<1>2. ASSUME NEW step, step = (IF local.left = 1 THEN "changed" ELSE "cmd"),
             NEW l, l = [local EXCEPT !.left = @ - 1], GoWith(step, l), Effect
      PROVE  IInv'
  <2>1. /\ local.left - 1 \in 0 .. MaxCommands
        /\ local.left # 1 => local.left - 1 \in 1 .. MaxCommands
    BY <1>0, Bounds
  <2>2. l \in Locals /\ l.ends = 0 /\ l.left = local.left - 1
    BY <1>0, <1>2, <2>1, LocalFields DEF Locals
  <2>3. stale' \subseteq Changes /\ ("own" \in stale' => "own" \in stale)
    BY <1>0, <1>2 DEF Effect, TypeInv
  <2>4. step \in {"cmd", "changed"} /\ (step = "cmd" => local.left # 1)
    BY <1>2
  <2>5. step \in Steps \ {"prompt", "up", "idle"}
    BY <2>4 DEF Steps
  <2> QED BY <1>0, <1>2, <2>1, <2>2, <2>3, <2>4, <2>5, GoesOn DEF TypeInv
<1> QED BY <1>0, <1>1, <1>2 DEF Cmd

LEMMA AfterChangeKeeps == IInv /\ AfterChange => IInv'
<1> SUFFICES ASSUME IInv, AfterChange PROVE IInv'
  OBVIOUS
<1>0. /\ TypeInv /\ UNCHANGED <<reprogrammed, warned, core, per_file, script, others>>
      /\ taken' = "none" /\ stale' \subseteq Changes
      /\ \E r : End(r)
  BY FailedType DEF IInv, AfterChange, Invalidate, scriptVars
<1> QED BY <1>0, Ends DEF End, TypeInv

LEMMA UpKeeps == IInv /\ Up => IInv'
<1> SUFFICES ASSUME IInv, Up PROVE IInv'
  OBVIOUS
<1>0. /\ TypeInv /\ at = "up" /\ local \in Locals /\ local.ends = 0
      /\ command = "attach" /\ local.left \in 1 .. MaxCommands
      /\ UNCHANGED <<taken, reprogrammed, warned, core, per_file, stale, script, others>>
      /\ "cmd" \in Steps
  BY DEF IInv, TypeInv, Up, snapshotVars, Quiet, powerviewVars, Calling, scriptVars, Places, Steps
<1>1. ASSUME NEW r, End(r) PROVE IInv'
  BY <1>0, <1>1, FailsOrEnds DEF TypeInv
<1>2. CASE GoTo("cmd")
  BY <1>0, <1>2, GoesOn DEF TypeInv, GoTo
<1> QED BY <1>1, <1>2 DEF Up

(* What ends a command or asks for something, and changes nothing else.    *)
LEMMA ValueOrStoppedKeeps == IInv /\ (Value \/ Stopped) => IInv'
<1> SUFFICES ASSUME IInv, Value \/ Stopped PROVE IInv'
  OBVIOUS
<1>0. /\ TypeInv /\ at \in {"value", "stopped"} /\ local \in Locals /\ local.ends = 0
      /\ UNCHANGED <<taken, reprogrammed, warned, core, per_file, stale, script, others>>
      /\ "stopped" \in Steps
  BY DEF IInv, TypeInv, Value, Stopped, snapshotVars, Quiet, powerviewVars, Calling, scriptVars,
         Places, Steps
<1>1. ASSUME NEW r, End(r) PROVE IInv'
  BY <1>0, <1>1, FailsOrEnds DEF TypeInv
<1>2. CASE NextPoll("stopped", local)
  <2>1. PICK n \in local.waited + 1 .. Timeout + 1 :
          GoWith("stopped", [local EXCEPT !.waited = n])
    BY <1>2 DEF NextPoll
  <2>2. n \in 0 .. Timeout + 1
    <3>1. local.waited \in 0 .. Timeout + 1 /\ Timeout \in Nat
      BY <1>0, LocalFields, Bounds
    <3> QED BY <3>1
  <2>3. [local EXCEPT !.waited = n] \in Locals /\ [local EXCEPT !.waited = n].ends = 0
    BY <1>0, <2>2, LocalFields DEF Locals
  <2> QED BY <1>0, <2>1, <2>3, GoesOn DEF TypeInv
<1> QED BY <1>1, <1>2 DEF Value, Stopped

LEMMA RunningKeeps == IInv /\ Running => IInv'
<1> SUFFICES ASSUME IInv, Running PROVE IInv'
  OBVIOUS
<1>0. /\ TypeInv /\ at = "running" /\ local \in Locals /\ local.ends = 0
      /\ command \in {"reg", "check", "run_until"}
      /\ UNCHANGED <<taken, reprogrammed, warned, core, per_file, stale, script, others>>
      /\ command = "check" => ("own" \in stale => warned)
      /\ command = "check" /\ taken = "running" /\ stale # {} => warned
      /\ {"state", "go", "break", "value"} \subseteq Steps
  BY DEF IInv, TypeInv, Running, snapshotVars, Quiet, powerviewVars, Calling, scriptVars, Places,
         Steps, FreshInv, Fresh, Current, Reading
<1>1. ASSUME NEW r, End(r) PROVE IInv'
  BY <1>0, <1>1, FailsOrEnds DEF TypeInv
<1>2. ASSUME NEW step \in {"state", "go", "break"}, GoTo(step),
             step = "state" => command = "reg", step = "break" => command = "check"
      PROVE  IInv'
  BY <1>0, <1>2, GoesOn DEF TypeInv, GoTo
<1>3. CASE GoTo("value") /\ command = "check"
  BY <1>0, <1>3, GoesOn DEF TypeInv, GoTo
<1>4. CASE command = "reg"
  BY <1>2, <1>4 DEF Running
<1>5. CASE command = "run_until"
  BY <1>1, <1>2, <1>5 DEF Running
<1>6. CASE command = "check"
  BY <1>1, <1>2, <1>3, <1>6 DEF Running
<1> QED BY <1>0, <1>4, <1>5, <1>6

LEMMA BreakKeeps == IInv /\ Break => IInv'
<1> SUFFICES ASSUME IInv, Break PROVE IInv'
  OBVIOUS
<1>0. /\ TypeInv /\ at = "break" /\ local \in Locals /\ local.ends = 0
      /\ UNCHANGED <<reprogrammed, warned, per_file, script, others>>
      /\ "state" \in Steps /\ core' \in Cores /\ command = "check"
  BY DEF IInv, TypeInv, Break, Calling, scriptVars, Places, Steps, Cores
<1>1. CASE (Fails \/ FailsLate) /\ UNCHANGED taken
  BY <1>0, <1>1, FailsOrEnds DEF Fails, FailsLate, TypeInv
<1>2. CASE /\ taken' = "none" /\ stale' = stale \cup {"own"}
           /\ GoWith("state", [local EXCEPT !.after = "value"])
  <2>1. [local EXCEPT !.after = "value"] \in Locals /\ [local EXCEPT !.after = "value"].ends = 0
    BY <1>0, LocalFields DEF Locals
  <2> QED BY <1>0, <1>2, <2>1, GoesOn DEF TypeInv
<1> QED BY <1>1, <1>2 DEF Break

LEMMA GoKeeps == IInv /\ Go => IInv'
<1> SUFFICES ASSUME IInv, Go PROVE IInv'
  OBVIOUS
<1>0. /\ TypeInv /\ at = "go" /\ local \in Locals /\ local.ends = 0
      /\ UNCHANGED <<reprogrammed, warned, per_file, script, others>>
      /\ "stopped" \in Steps /\ core' \in Cores
  BY DEF IInv, TypeInv, Go, Calling, scriptVars, Places, Steps, Cores
<1>1. CASE (Fails \/ FailsLate) /\ UNCHANGED taken
  BY <1>0, <1>1, FailsOrEnds DEF Fails, FailsLate, TypeInv
<1>2. CASE taken' = "none" /\ stale' = stale \cup {"own"} /\ GoTo("stopped")
  BY <1>0, <1>2, GoesOn DEF TypeInv, GoTo
<1> QED BY <1>1, <1>2 DEF Go

-----------------------------------------------------------------------------
(* run_script.                                                             *)

LEMMA RequireIdleKeeps == IInv /\ RequireIdle => IInv'
<1> SUFFICES ASSUME IInv, RequireIdle PROVE IInv'
  OBVIOUS
<1>0. /\ TypeInv /\ at = "idle" /\ local \in Locals /\ local.ends = 0
      /\ local.left \in 1 .. MaxCommands
      /\ UNCHANGED <<taken, reprogrammed, warned, core, per_file, stale, script, others>>
      /\ {"error_reset", "cmd"} \subseteq Steps
  BY DEF IInv, TypeInv, RequireIdle, snapshotVars, Quiet, powerviewVars, Calling, scriptVars,
         Places, Steps
<1>1. CASE End("error")
  BY <1>0, <1>1, FailsOrEnds DEF TypeInv
<1>2. CASE command = "do" /\ GoTo("error_reset")
  BY <1>0, <1>2, GoesOn DEF TypeInv, GoTo
<1>3. CASE command # "do" /\ GoTo("cmd")
  BY <1>0, <1>3, GoesOn DEF TypeInv, GoTo
<1> QED BY <1>1, <1>2, <1>3 DEF RequireIdle

LEMMA ErrorResetKeeps == IInv /\ ErrorReset => IInv'
<1> SUFFICES ASSUME IInv, ErrorReset PROVE IInv'
  OBVIOUS
<1>0. /\ TypeInv /\ at = "error_reset" /\ local \in Locals /\ local.ends = 0
      /\ UNCHANGED <<taken, reprogrammed, warned, core, per_file, stale, script, others>>
      /\ "DO" \in Steps
  BY DEF IInv, TypeInv, ErrorReset, snapshotVars, Quiet, powerviewVars, Calling, scriptVars,
         Places, Steps
<1>1. CASE End("error")
  BY <1>0, <1>1, FailsOrEnds DEF TypeInv
<1>2. CASE GoTo("DO")
  BY <1>0, <1>2, GoesOn DEF TypeInv, GoTo
<1> QED BY <1>1, <1>2 DEF ErrorReset

LEMMA DoKeeps == IInv /\ Do => IInv'
<1> SUFFICES ASSUME IInv, Do PROVE IInv'
  OBVIOUS
<1>0. /\ TypeInv /\ at = "DO" /\ local \in Locals /\ local.ends = 0
      /\ UNCHANGED <<taken, reprogrammed, warned, core, per_file, stale, others>>
      /\ "depth" \in Steps
  BY DEF IInv, TypeInv, Do, snapshotVars, Calling, Places, Steps
<1>1. CASE End("error")
  BY <1>0, <1>1, FailsOrEnds DEF TypeInv
<1>2. CASE GoTo("depth")
  BY <1>0, <1>2, GoesOn DEF TypeInv, GoTo
<1> QED BY <1>1, <1>2 DEF Do

(* Only an empty stack counts as the end of the script.                    *)
LEMMA AskDepthKeeps == IInv /\ AskDepth => IInv'
<1> SUFFICES ASSUME IInv, AskDepth PROVE IInv'
  OBVIOUS
<1>0. /\ TypeInv /\ at = "depth" /\ local \in Locals /\ local.ends = 0
      /\ UNCHANGED <<taken, reprogrammed, warned, core, per_file, script, others>>
      /\ {"practice_state", "changed"} \subseteq Steps
  BY DEF IInv, TypeInv, AskDepth, snapshotVars, Calling, scriptVars, Places, Steps
<1>1. CASE Fails
  BY <1>0, <1>1, FailsOrEnds DEF Fails, TypeInv
<1>2. CASE Depth /\ GoTo("practice_state") /\ UNCHANGED stale
  BY <1>0, <1>2, GoesOn DEF TypeInv, GoTo
<1>3. CASE ~Depth /\ GoTo("changed") /\ UNCHANGED stale
  BY <1>0, <1>3, GoesOn DEF TypeInv, GoTo, Depth
<1> QED BY <1>1, <1>2, <1>3 DEF AskDepth

LEMMA PracticeStateKeeps == IInv /\ PracticeState => IInv'
<1> SUFFICES ASSUME IInv, PracticeState PROVE IInv'
  OBVIOUS
<1>0. /\ TypeInv /\ at = "practice_state" /\ local \in Locals /\ local.ends = 0
      /\ UNCHANGED <<taken, reprogrammed, warned, core, per_file, script, others>>
      /\ {"depth", "occurred"} \subseteq Steps
  BY DEF IInv, TypeInv, PracticeState, snapshotVars, Calling, scriptVars, Places, Steps
<1>1. CASE Fails
  BY <1>0, <1>1, FailsOrEnds DEF Fails, TypeInv
<1>2. CASE GoTo("occurred") /\ UNCHANGED stale
  BY <1>0, <1>2, GoesOn DEF TypeInv, GoTo
<1>3. ASSUME NEW polls \in 0 .. 2, PollAgain(polls) PROVE IInv'
  <2>1. CASE NextPoll("depth", [local EXCEPT !.polls = polls]) /\ UNCHANGED stale
    <3>1. [local EXCEPT !.polls = polls] \in Locals
      BY <1>0, LocalFields
    <3>2. PICK n \in local.waited + 1 .. Timeout + 1 :
            GoWith("depth", [[local EXCEPT !.polls = polls] EXCEPT !.waited = n])
      BY <2>1 DEF NextPoll
    <3>3. n \in 0 .. Timeout + 1
      <4>1. local.waited \in 0 .. Timeout + 1 /\ Timeout \in Nat
        BY <1>0, LocalFields, Bounds
      <4> QED BY <4>1
    <3> DEFINE l == [[local EXCEPT !.polls = polls] EXCEPT !.waited = n]
    <3>4. l \in Locals /\ l.ends = 0
      <4> DEFINE m == [local EXCEPT !.polls = polls]
      <4>1. m \in Locals /\ m.ends = 0
        BY <1>0, <3>1 DEF Locals
      <4> HIDE DEF m
      <4>2. [m EXCEPT !.waited = n] \in Locals /\ [m EXCEPT !.waited = n].ends = 0
        BY <3>3, <4>1, LocalFields DEF Locals
      <4> QED BY <4>2 DEF m
    <3> HIDE DEF l
    <3>5. GoWith("depth", l)
      BY <3>2 DEF l
    <3> QED BY <1>0, <2>1, <3>4, <3>5, GoesOn DEF TypeInv
  <2> QED BY <1>1, <1>3, <2>1 DEF PollAgain
<1>4. local.polls \in 0 .. 2
  BY <1>0, LocalFields
<1>5. local.polls < 1 => local.polls + 1 \in 0 .. 2
  BY <1>4
<1> QED BY <1>1, <1>2, <1>3, <1>5 DEF PracticeState

LEMMA OccurredKeeps == IInv /\ Occurred => IInv'
<1> SUFFICES ASSUME IInv, Occurred PROVE IInv'
  OBVIOUS
<1>0. /\ TypeInv /\ at = "occurred" /\ local \in Locals /\ local.ends = 0
      /\ UNCHANGED <<taken, reprogrammed, warned, core, per_file, script, others>>
      /\ "end" \in Steps
  BY DEF IInv, TypeInv, Occurred, snapshotVars, Calling, scriptVars, Places, Steps
<1>1. CASE Fails
  BY <1>0, <1>1, FailsOrEnds DEF Fails, TypeInv
<1>2. CASE GoTo("end") /\ UNCHANGED stale
  BY <1>0, <1>2, GoesOn, Bounds DEF TypeInv, GoTo
<1> QED BY <1>1, <1>2 DEF Occurred

LEMMA EndScriptsKeeps == IInv /\ EndScripts => IInv'
<1> SUFFICES ASSUME IInv, EndScripts PROVE IInv'
  OBVIOUS
<1>0. /\ TypeInv /\ at = "end" /\ local \in Locals /\ local.ends < MaxEnds
      /\ UNCHANGED <<taken, reprogrammed, warned, core, per_file>> /\ others' \in BOOLEAN
      /\ "ended" \in Steps
  BY DEF IInv, TypeInv, EndScripts, snapshotVars, Calling, scriptVars, Places, Steps
<1>1. CASE Fails
  BY <1>0, <1>1, FailsOrEnds DEF Fails, TypeInv
<1>2. CASE GoWith("ended", [local EXCEPT !.ends = @ + 1]) /\ UNCHANGED stale
  <2> DEFINE l == [local EXCEPT !.ends = @ + 1]
  <2>1. local.ends + 1 \in 0 .. MaxEnds
    <3>1. local.ends \in 0 .. MaxEnds
      BY <1>0, LocalFields
    <3> QED BY <1>0, <3>1, Bounds
  <2>2. l \in Locals
    BY <1>0, <2>1, LocalFields
  <2> HIDE DEF l
  <2>3. GoWith("ended", l)
    BY <1>2 DEF l
  <2> QED BY <1>0, <1>2, <2>2, <2>3, GoesOn DEF TypeInv
<1> QED BY <1>1, <1>2 DEF EndScripts

LEMMA EndedKeeps == IInv /\ Ended => IInv'
<1> SUFFICES ASSUME IInv, Ended PROVE IInv'
  OBVIOUS
<1>0. /\ TypeInv /\ at = "ended" /\ local \in Locals
      /\ UNCHANGED <<taken, reprogrammed, warned, core, per_file, script, others>>
      /\ "end" \in Steps
  BY DEF IInv, TypeInv, Ended, snapshotVars, Calling, scriptVars, Places, Steps
<1>1. CASE Fails
  BY <1>0, <1>1, FailsOrEnds DEF Fails, TypeInv
<1>2. CASE local.ends < MaxEnds /\ GoTo("end") /\ UNCHANGED stale
  BY <1>0, <1>2, GoesOn DEF TypeInv, GoTo
<1> QED BY <1>1, <1>2 DEF Ended

-----------------------------------------------------------------------------
(* The prompt.                                                             *)

LEMMA HandleLineKeeps == IInv /\ HandleLine => IInv'
<1> SUFFICES ASSUME IInv, HandleLine PROVE IInv'
  OBVIOUS
<1>1. PICK c \in Commands :
        /\ command' = c /\ at' = FirstCall[c]
        /\ \E n \in IF c \in {"reset", "attach"} THEN 1 .. MaxCommands ELSE {1} :
             local' = [NoLocals EXCEPT !.left = n,
                         !.after = IF c \in {"reg", "check"} THEN "address" ELSE "none"]
  BY DEF HandleLine
<1>2. PICK n \in 1 .. MaxCommands :
        local' = [NoLocals EXCEPT !.left = n,
                    !.after = IF c \in {"reg", "check"} THEN "address" ELSE "none"]
  <2>1. {1} \subseteq 1 .. MaxCommands
    BY Bounds
  <2> QED BY <1>1, <2>1
<1>3. local' \in Locals /\ local'.left = n /\ local'.ends = 0
  <2>1. n \in 0 .. MaxCommands
    BY Bounds
  <2> QED BY <1>2, <2>1, NoLocalsType DEF Locals
<1>4. UNCHANGED <<link, taken, reprogrammed, warned, core, per_file, stale>> /\ others' \in BOOLEAN
  BY DEF HandleLine, snapshotVars, Depth, IInv, TypeInv
<1>5. /\ at' \in {"running", "state", "idle", "up", "cmd"}
      /\ at' = "running" => c \in {"reg", "run_until"}
      /\ at' = "state" => c = "check"
      /\ at' = "up" => c = "attach"
      /\ at' = "cmd" => c = "command"
  BY <1>1 DEF FirstCall, Commands
<1>6. TypeInv'
  BY <1>1, <1>3, <1>4, <1>5 DEF IInv, TypeInv, Steps, Commands
<1>7. Places'
  BY <1>1, <1>3, <1>5 DEF Places
<1>8. FreshInv' /\ DoMeansEnded'
  BY <1>1, <1>4, <1>5 DEF IInv, FreshInv, Fresh, Reading, DoMeansEnded
<1> QED BY <1>6, <1>7, <1>8 DEF IInv

LEMMA ReconnectKeeps == IInv /\ Reconnect => IInv'
<1> SUFFICES ASSUME IInv, Reconnect PROVE IInv'
  OBVIOUS
<1>1. /\ at = "prompt" /\ UNCHANGED <<command, at, local, warned, core, per_file, stale, others>>
      /\ link' \in {"open", "none"}
      /\ \/ taken' = "none" /\ reprogrammed' = FALSE
         \/ UNCHANGED <<taken, reprogrammed>>
  BY DEF Reconnect, Reconnected, powerviewVars, scriptVars
<1>2. TypeInv'
  BY <1>1 DEF IInv, TypeInv
<1>3. Places' /\ FreshInv' /\ DoMeansEnded'
  BY <1>1 DEF IInv, Places, FreshInv, Fresh, Reading, DoMeansEnded
<1> QED BY <1>2, <1>3 DEF IInv

-----------------------------------------------------------------------------

LEMMA Invariance == Spec => []IInv
<1>1. IInv /\ UNCHANGED vars => IInv'
  BY WorldActs DEF vars, snapshotVars, powerviewVars, scriptVars, IInv, TypeInv
<1>2. IInv /\ Step => IInv'
  BY LostKeeps, ReadStateKeeps, SetConditionsKeeps, ConditionsNeedFileKeeps,
     ReprogramForConditionsKeeps, FilenameKeeps, AddressKeeps, AddressNeedsFileKeeps,
     ReprogramForAddressKeeps, CmdKeeps, AfterChangeKeeps, UpKeeps, ValueOrStoppedKeeps,
     RunningKeeps, BreakKeeps, GoKeeps, RequireIdleKeeps, ErrorResetKeeps, DoKeeps, AskDepthKeeps,
     PracticeStateKeeps, OccurredKeeps, EndScriptsKeeps, EndedKeeps DEF Step
<1>3. IInv /\ [Next]_vars => IInv'
  BY <1>1, <1>2, HandleLineKeeps, ReconnectKeeps, WorldStep DEF Next
<1> QED BY Initially, <1>3, PTL DEF Spec

(* Every variable of a debug session keeps its type, for any bounds: among *)
(* them the polls, the time waited and the ENDs sent.                      *)
THEOREM TypeCorrect == Spec => []TypeOK
<1>1. IInv => TypeOK
  BY DEF IInv, TypeInv, TypeOK
<1> QED BY <1>1, Invariance, PTL

(* No command reads a register with IF conditions that were taken before   *)
(* the last command that changed the target and invalidated the snapshot   *)
(* (PerSnapshot), unless the user was warned; and while the core is seen   *)
(* running, with none taken before any change of the session, that of a    *)
(* failed command included.                                                *)
THEOREM ReadsAreFresh == Spec => []SnapshotAfterOwnCommand
<1>1. IInv => SnapshotAfterOwnCommand
  BY DEF IInv, FreshInv, Fresh, Current, Reading, SnapshotAfterOwnCommand
<1> QED BY <1>1, Invariance, PTL

(* `do` reports success only when its script has left the PRACTICE stack   *)
(* (run_script), whatever other scripts run meanwhile.                     *)
THEOREM SuccessMeansScriptEnded == Spec => []DoMeansEnded
<1>1. IInv => DoMeansEnded
  BY DEF IInv
<1> QED BY <1>1, Invariance, PTL

=============================================================================
