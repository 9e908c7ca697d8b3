---------------------------- MODULE DebugSession ----------------------------
(***************************************************************************)
(* A `tracebridge debug` session (crates/tracebridge/src/debug): commands  *)
(* typed one after the other (repl.rs), each a sequence of RCL calls       *)
(* (commands.rs, check.rs), and the snapshot of the IF conditions of the   *)
(* PER file they share (PerSnapshot in probe.rs).                          *)
(*                                                                         *)
(* Between any two calls the core, a PRACTICE script, t32mcp or the user   *)
(* of PowerView may act.  A call is answered, or fails with or without its *)
(* effect, or finds the connection lost.  One register stands for all that *)
(* `reg` and `check` read; the commands of `reset` and `attach` are those  *)
(* of module TargetSequence and stand here as any number of commands.      *)
(***************************************************************************)
EXTENDS Integers

CONSTANTS
  MaxEnds,      (* ENDs sent to clear the PRACTICE stack, 50 in the code   *)
  MaxCommands,  (* bound: commands of reset and attach                     *)
  Timeout       (* of `do` and `run-until`, in polls                       *)

ASSUME DebugAssumption == {MaxEnds, MaxCommands, Timeout} \subseteq Nat \ {0}

VARIABLES
  link,         (* the RCL connection: Session.probe and what it is worth  *)
  command,      (* the command under way                                   *)
  at,           (* its next call                                           *)
  local,        (* its local variables                                     *)
  taken,        (* PerSnapshot.taken                                       *)
  reprogrammed, (* PerSnapshot.reprogrammed                                *)
  result,       (* how the latest command ended                            *)
  warned,       (* history: the latest PER.Set.CONDitions failed           *)
  core,         (* SYStem.Mode and STATE.RUN()                             *)
  per_file,     (* PowerView has a default PER file                        *)
  stale,        (* which commands changed the target since the snapshot    *)
  script,       (* the script of `do`                                      *)
  others        (* a script of someone else is on the PRACTICE stack       *)

snapshotVars  == <<taken, reprogrammed, warned>>
scriptVars    == <<script, others>>
powerviewVars == <<core, per_file, stale, scriptVars>>
vars == <<link, command, at, local, snapshotVars, result, powerviewVars>>

Commands == {"reg", "check", "do", "run_until", "reset", "attach", "command"}
Cores    == {"down", "halted", "running"}
States   == Cores \cup {"unknown"}

(* after: what follows PerSnapshot::ensure; seen: the DebuggerState it     *)
(* read; left: commands still to send; polls: stopped_polls; waited: time  *)
(* since the script or the core was started; ends: ENDs sent.              *)
Locals ==
  [after : {"none", "address", "value"}, seen : States \cup {"none"},
   left : 0 .. MaxCommands, polls : 0 .. 2, waited : 0 .. Timeout + 1,
   ends : 0 .. MaxEnds]

NoLocals ==
  [after |-> "none", seen |-> "none", left |-> 0, polls |-> 0, waited |-> 0, ends |-> 0]

-----------------------------------------------------------------------------

Init ==
  /\ link = "open" /\ command = "none" /\ at = "prompt" /\ local = NoLocals
  /\ taken = "none" /\ reprogrammed = FALSE
  /\ result = "none" /\ warned = FALSE
  /\ core \in Cores /\ per_file \in BOOLEAN /\ stale = {}
  /\ script = "none" /\ others \in BOOLEAN

(* The depth of the PRACTICE stack is not 0.                               *)
Depth == script # "none" \/ others

(* The first call of each command.                                         *)
FirstCall ==
  [reg |-> "running", check |-> "state", do |-> "idle", run_until |-> "running",
   reset |-> "idle", attach |-> "up", command |-> "cmd"]

HandleLine ==
  /\ at = "prompt" /\ link # "none"
  /\ \E c \in Commands :
       /\ command' = c /\ at' = FirstCall[c]
       /\ \E n \in IF c \in {"reset", "attach"} THEN 1 .. MaxCommands ELSE {1} :
            local' = [NoLocals EXCEPT !.left = n,
                        !.after = IF c \in {"reg", "check"} THEN "address" ELSE "none"]
  /\ result' = "none"
  (* A script an earlier `do` left behind is one of the others from now on. *)
  /\ script' = "none" /\ others' = Depth
  /\ UNCHANGED <<link, snapshotVars, core, per_file, stale>>

(* PerSnapshot::reconnected.                                               *)
Reconnected == taken' = "none" /\ reprogrammed' = FALSE

Reconnect ==
  /\ at = "prompt"
  /\ \/ link' = "open" /\ result' = "ok" /\ Reconnected
     \/ link' = "none" /\ result' = "error" /\ UNCHANGED <<taken, reprogrammed>>
  /\ UNCHANGED <<command, at, local, warned, powerviewVars>>

-----------------------------------------------------------------------------
(* How a command ends, and how it goes on.                                 *)

Calling(step) == at = step /\ link = "open"

GoWith(step, l) == at' = step /\ local' = l /\ UNCHANGED <<link, command, result>>

GoTo(step) == GoWith(step, local)

(* A change of the target counts for the command that made it: "pending"   *)
(* until the command has invalidated the snapshot ("own") or failed before *)
(* it did, which is told apart for `do` ("script") and the others          *)
(* ("failed").                                                             *)
Own == {IF c = "pending" THEN "own" ELSE c : c \in stale}

Blame == IF command = "do" THEN "script" ELSE "failed"

Failed == (stale \ {"pending"}) \cup (IF "pending" \in stale THEN {Blame} ELSE {})

End(r) ==
  /\ at' = "prompt" /\ result' = r
  /\ command' = "none" /\ local' = NoLocals /\ UNCHANGED link

Fails == End("error") /\ stale' = Failed

(* The call fails, but not its effect: it timed out, for one.              *)
FailsLate == End("error") /\ stale' = Failed \cup {Blame}

(* Session::lost: the connection is dropped.  The prompt notices it too.   *)
Lost ==
  /\ link = "broken"
  /\ link' = "none" /\ at' = "prompt" /\ command' = "none" /\ result' = "error"
  /\ local' = NoLocals /\ stale' = Failed
  /\ UNCHANGED <<snapshotVars, core, per_file, scriptVars>>

(* A call that only asks.                                                  *)
Quiet == UNCHANGED powerviewVars

-----------------------------------------------------------------------------
(* PerSnapshot::ensure and reprogram_after.                                *)

(* STATE.RUN() may fail, which leaves the run state unknown.               *)
ReadState ==
  /\ Calling("state")
  /\ \/ /\ \E seen \in {core, "unknown"} :
             IF taken = seen /\ seen # "running" THEN GoTo(local.after)
             ELSE GoWith("conditions", [local EXCEPT !.seen = seen])
        /\ UNCHANGED stale
     \/ Fails
  /\ UNCHANGED <<snapshotVars, core, per_file, scriptVars>>

SetConditions ==
  /\ Calling("conditions") /\ per_file
  /\ \/ warned' = FALSE /\ stale' = {}
     \/ warned' = TRUE /\ stale' \in {stale, {}}
  /\ GoTo("filename")
  /\ UNCHANGED <<taken, reprogrammed, core, per_file, scriptVars>>

ConditionsNeedFile ==
  /\ Calling("conditions") /\ ~per_file
  /\ \/ warned' = TRUE /\ GoTo("filename") /\ UNCHANGED reprogrammed
     \/ /\ ~reprogrammed /\ GoTo("reprogram_conditions") /\ UNCHANGED warned
        /\ reprogrammed' = TRUE
  /\ UNCHANGED taken /\ Quiet

(* `No default peripheral file`: PER.ReProgram, then the call is repeated. *)
ReprogramForConditions ==
  /\ Calling("reprogram_conditions")
  /\ per_file' \in BOOLEAN
  /\ \/ taken' = "none" /\ GoTo("conditions") /\ UNCHANGED warned
     \/ warned' = TRUE /\ GoTo("filename") /\ UNCHANGED taken
  /\ UNCHANGED <<reprogrammed, core, stale, scriptVars>>

(* PER.FILENAME() may fail; the snapshot counts as taken all the same.     *)
Filename ==
  /\ Calling("filename")
  /\ taken' = local.seen /\ GoWith(local.after, [local EXCEPT !.seen = "none"])
  /\ UNCHANGED <<reprogrammed, warned>> /\ Quiet

(* resolve_register: PER.ADDRESS().  check then stops the core if the      *)
(* register is one of a coprocessor.                                       *)
Address ==
  /\ Calling("address") /\ per_file
  /\ \/ \E step \in {"value"} \cup (IF command = "check" THEN {"running"} ELSE {}) :
          GoTo(step) /\ UNCHANGED stale
     \/ Fails
  /\ UNCHANGED <<snapshotVars, core, per_file, scriptVars>>

AddressNeedsFile ==
  /\ Calling("address") /\ ~per_file
  /\ \/ reprogrammed /\ End("no file") /\ UNCHANGED reprogrammed
     \/ /\ ~reprogrammed /\ GoTo("reprogram_address")
        /\ reprogrammed' = TRUE
     \/ End("error") /\ UNCHANGED reprogrammed
  /\ UNCHANGED <<taken, warned>> /\ Quiet

ReprogramForAddress ==
  /\ Calling("reprogram_address")
  /\ per_file' \in BOOLEAN
  /\ \/ taken' = "none" /\ GoTo("state")
     \/ End("no file") /\ UNCHANGED taken
  /\ UNCHANGED <<reprogrammed, warned, core, stale, scriptVars>>

(* PER.VALUE(): the register is read.                                      *)
Value ==
  /\ Calling("value")
  /\ \E r \in {"ok", "error"} : End(r)
  /\ UNCHANGED snapshotVars /\ Quiet

-----------------------------------------------------------------------------
(* State changes.  The command may change the target in any way.           *)

Effect == core' \in Cores /\ stale' = stale \cup {"pending"}

(* Mutant: the snapshot is kept after a command.                           *)
KeepSnapshot == UNCHANGED taken /\ stale' = Own

Invalidate == taken' = "none" /\ stale' = Own

Cmd ==
  /\ Calling("cmd")
  /\ \/ /\ Effect
        /\ GoWith(IF local.left = 1 THEN "changed" ELSE "cmd", [local EXCEPT !.left = @ - 1])
     \/ Fails /\ UNCHANGED core
     \/ FailsLate /\ core' \in Cores
  /\ UNCHANGED <<snapshotVars, per_file, scriptVars>>

(* after_change: the snapshot is dropped before the state is read.         *)
AfterChange ==
  /\ Calling("changed")
  /\ Invalidate
  /\ \E r \in {"ok", "error"} : End(r)
  /\ UNCHANGED <<reprogrammed, warned, core, per_file, scriptVars>>

(* attach: nothing to do when the system is up.                            *)
Up ==
  /\ Calling("up")
  /\ \/ core # "down" /\ End("ok")
     \/ core = "down" /\ GoTo("cmd")
     \/ End("error")
  /\ UNCHANGED snapshotVars /\ Quiet

(* core_running: an error counts as not running.                           *)
Running ==
  /\ Calling("running")
  /\ \E running \in {core = "running", FALSE} :
       CASE command = "reg"       -> GoTo("state")
         [] command = "run_until" -> IF running THEN End("error") ELSE GoTo("go")
         [] command = "check"     ->
              IF running THEN GoTo("break") \/ End("error") ELSE GoTo("value")
  /\ UNCHANGED snapshotVars /\ Quiet

(* check --halt: the core is stopped and the snapshot taken again.         *)
Break ==
  /\ Calling("break")
  /\ \/ /\ core' = (IF core = "running" THEN "halted" ELSE core)
        /\ taken' = "none" /\ stale' = stale \cup {"own"}
        /\ GoWith("state", [local EXCEPT !.after = "value"])
     \/ Fails /\ UNCHANGED <<core, taken>>
     \/ FailsLate /\ core' = (IF core = "running" THEN "halted" ELSE core) /\ UNCHANGED taken
  /\ UNCHANGED <<reprogrammed, warned, per_file, scriptVars>>

Go ==
  /\ Calling("go")
  /\ \/ /\ core' = "running" /\ taken' = "none" /\ stale' = stale \cup {"own"}
        /\ GoTo("stopped")
     \/ Fails /\ UNCHANGED <<core, taken>>
     \/ FailsLate /\ core' = "running" /\ UNCHANGED taken
  /\ UNCHANGED <<reprogrammed, warned, per_file, scriptVars>>

(* The next poll, after some time.                                         *)
NextPoll(step, l) ==
  \E n \in local.waited + 1 .. Timeout + 1 : GoWith(step, [l EXCEPT !.waited = n])

(* Mutant: run-until measures the time of each poll, not of all.           *)
StoppedEachPoll ==
  /\ Calling("stopped")
  /\ \/ core = "running" /\ \E n \in (0 .. Timeout) \ {local.waited} :
          GoWith("stopped", [local EXCEPT !.waited = n])
     \/ \E r \in {"ok", "error"} : End(r)
  /\ UNCHANGED <<snapshotVars, powerviewVars>>

(* run-until polls; an error of STATE.RUN() counts as stopped, and the     *)
(* read of the program counter then fails or finds where the core is.      *)
Stopped ==
  /\ Calling("stopped")
  /\ \/ core = "running" /\ local.waited <= Timeout /\ NextPoll("stopped", local)
     \/ core = "running" /\ local.waited > Timeout /\ End("error")
     \/ \E r \in {"ok", "error"} : End(r)
  /\ UNCHANGED <<snapshotVars, powerviewVars>>

-----------------------------------------------------------------------------
(* run_script.                                                             *)

RequireIdle ==
  /\ Calling("idle")
  /\ \/ ~Depth /\ GoTo(IF command = "do" THEN "error_reset" ELSE "cmd")
     \/ End("error")
  /\ UNCHANGED snapshotVars /\ Quiet

ErrorReset ==
  /\ Calling("error_reset")
  /\ GoTo("DO") \/ End("error")
  /\ UNCHANGED snapshotVars /\ Quiet

(* DO answers when the script starts.                                      *)
Do ==
  /\ Calling("DO")
  /\ \/ script' = "starting" /\ GoTo("depth")
     \/ script' \in {script, "starting"} /\ End("error")
  /\ UNCHANGED <<snapshotVars, core, per_file, stale, others>>

(* Mutant: `do` does not wait for the end of the script.                   *)
DepthUnasked ==
  /\ Calling("depth")
  /\ GoTo("changed")
  /\ UNCHANGED <<snapshotVars, powerviewVars>>

AskDepth ==
  /\ Calling("depth")
  /\ \/ (IF Depth THEN GoTo("practice_state") ELSE GoTo("changed")) /\ UNCHANGED stale
     \/ Fails
  /\ UNCHANGED <<snapshotVars, core, per_file, scriptVars>>

(* The state of PRACTICE: 0 stopped, 1 running, 2 in a dialog; with a      *)
(* script of someone else on the stack, any of them.                       *)
PracticeStates ==
  IF others THEN 0 .. 2
  ELSE CASE script \in {"none", "starting", "stopped", "error"} -> {0}
         [] script = "dialog"  -> {2}
         [] script = "running" -> {1}

PollAgain(polls) ==
  IF local.waited > Timeout THEN Fails
  ELSE NextPoll("depth", [local EXCEPT !.polls = polls]) /\ UNCHANGED stale

PracticeState ==
  /\ Calling("practice_state")
  /\ \/ 0 \in PracticeStates /\ local.polls < 1 /\ PollAgain(local.polls + 1)
     \/ 0 \in PracticeStates /\ local.polls = 1 /\ GoTo("occurred") /\ UNCHANGED stale
     \/ 1 \in PracticeStates /\ PollAgain(0)
     \/ Fails       (* also when the script waits in a dialog *)
  /\ UNCHANGED <<snapshotVars, core, per_file, scriptVars>>

(* ERROR.OCCURRED() tells an error of the script from a STOP.              *)
Occurred ==
  /\ Calling("occurred")
  /\ \/ (script = "error" \/ others) /\ GoTo("end") /\ UNCHANGED stale
     \/ Fails
  /\ UNCHANGED <<snapshotVars, core, per_file, scriptVars>>

(* end_scripts: END ends every script on the stack, soon.                  *)
EndScripts ==
  /\ Calling("end")
  /\ \/ /\ GoWith("ended", [local EXCEPT !.ends = @ + 1]) /\ UNCHANGED stale
        /\ \/ script' = "none" /\ others' = FALSE
           \/ UNCHANGED scriptVars
     \/ Fails /\ UNCHANGED scriptVars
  /\ UNCHANGED <<snapshotVars, core, per_file>>

(* The stack is empty, or another END; the command fails in any case, with *)
(* the message of the script's error.                                      *)
Ended ==
  /\ Calling("ended")
  /\ \/ Depth /\ local.ends < MaxEnds /\ GoTo("end") /\ UNCHANGED stale
     \/ Fails
  /\ UNCHANGED <<snapshotVars, core, per_file, scriptVars>>

Step ==
  \/ Lost
  \/ ReadState \/ SetConditions \/ ConditionsNeedFile \/ ReprogramForConditions \/ Filename
  \/ Address \/ AddressNeedsFile \/ ReprogramForAddress \/ Value
  \/ Cmd \/ AfterChange \/ Up \/ Running \/ Break \/ Go \/ Stopped
  \/ RequireIdle \/ ErrorReset \/ Do \/ AskDepth \/ PracticeState \/ Occurred
  \/ EndScripts \/ Ended

-----------------------------------------------------------------------------
(* The rest of the world.                                                  *)

sessionVars == <<link, command, at, local, snapshotVars, result>>

(* The script of `do` goes on, in a dialog answered by the user too, and   *)
(* may do so when the command is over.                                     *)
ScriptRuns ==
  /\ script # "none"
  /\ script' \in {"none", "running", "dialog", "stopped", "error"} \ {script}
  /\ UNCHANGED <<sessionVars, core, per_file, stale, others>>

ScriptActs ==
  /\ script # "none"
  /\ core' \in Cores
  /\ stale' = IF command = "do" THEN stale \cup {"pending"} ELSE stale
  /\ UNCHANGED <<sessionVars, per_file, scriptVars>>

(* Breakpoints, the IDE, t32mcp and the user.                              *)
OthersAct ==
  /\ core' \in Cores \ {core}
  /\ UNCHANGED <<sessionVars, per_file, stale, scriptVars>>

OthersRunScripts ==
  /\ others' = ~others
  /\ UNCHANGED <<sessionVars, core, per_file, stale, script>>

LinkBreaks ==
  /\ link = "open" /\ link' = "broken"
  /\ UNCHANGED <<command, at, local, snapshotVars, result, powerviewVars>>

(* PowerView is closed and started again.                                  *)
PowerViewRestarts ==
  /\ link' = IF link = "none" THEN "none" ELSE "broken"
  /\ per_file' = FALSE /\ core' = "down" /\ script' = "none" /\ others' = FALSE
  /\ UNCHANGED <<command, at, local, snapshotVars, result, stale>>

Next ==
  \/ HandleLine \/ Reconnect \/ Step
  \/ ScriptRuns \/ ScriptActs \/ OthersAct \/ OthersRunScripts
  \/ LinkBreaks \/ PowerViewRestarts

Spec == Init /\ [][Next]_vars

(* Every call returns as long as PowerView does not keep the connection    *)
(* busy without an answer (CallReturns of module RclLink), so a command    *)
(* takes its next step.                                                    *)
FairSpec == Spec /\ WF_vars(Step)

-----------------------------------------------------------------------------

TypeOK ==
  /\ link \in {"open", "broken", "none"}
  /\ taken \in States \cup {"none"}
  /\ local \in Locals
  /\ stale \subseteq {"pending", "own", "failed", "script"}
  /\ at = "prompt" <=> command = "none"

(* A register is read with IF conditions taken after the last command of   *)
(* the session that changed the target and got as far as invalidating the  *)
(* snapshot, unless the user was warned that they could not be taken.      *)
(* What a command changed that failed before is missed (next properties),  *)
(* but never by a snapshot of a running core, which is not used again.     *)
SnapshotAfterOwnCommand ==
  at = "value" /\ ~warned =>
    /\ "own" \notin stale
    /\ taken = "running" => stale = {}

(* debug/probe.rs: the snapshot is taken again "after a state-changing     *)
(* command": also after `do` of a script that stopped or was ended, and    *)
(* after `reset`, `attach`, `cmd` and `run-until` that changed the target  *)
(* and then failed.                                                        *)
(* Stated for a halted core, whose mode and run state are known.           *)
SnapshotAfterChange ==
  at = "value" /\ taken = "halted" /\ core = "halted" /\ stale \cap {"failed", "script"} # {}
    => warned

(* `do` reports success only when its script has left the stack, whatever  *)
(* other scripts were started meanwhile.                                   *)
DoMeansEnded ==
  command = "do" /\ at = "changed" => script = "none"

(* A command always returns to the prompt, also when a script waits, the   *)
(* core never stops or the connection is lost.                             *)
CommandReturns == command # "none" ~> command = "none"

=============================================================================
