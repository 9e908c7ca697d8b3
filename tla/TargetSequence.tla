--------------------------- MODULE TargetSequence ---------------------------
(***************************************************************************)
(* The command sequences tracebridge sends to PowerView: `flash`, `load`   *)
(* and `reset_and_stop` (target.rs, remote.rs) and the `reset` and `attach` *)
(* of the debug commands, with t32rcl's cmm, which runs a PRACTICE script  *)
(* and waits for its end.                                                  *)
(*                                                                         *)
(* A sequence is kept as the commands still to send; an answer of PowerView *)
(* may put more commands in front.  Every command may be refused, or       *)
(* carried out and answered too late; both end the sequence.  A script     *)
(* that takes too long goes on after the sequence ended.  The user and      *)
(* t32mcp may start scripts of their own at any time.                      *)
(***************************************************************************)
EXTENDS Integers, Sequences

CONSTANTS
  Images,     (* the ELF is image 1, the others are extra_elf              *)
  Options,    (* settings of the project file                              *)
  MaxOthers   (* bound: scripts the user and t32mcp start                  *)

ASSUME ImagesAssumption == Images \in Nat \ {0}
ASSUME OptionsAssumption ==
  Options = {"cpu", "mem_access", "cores", "jtag_clock"}
ASSUME OthersAssumption == MaxOthers \in Nat

VARIABLES
  action,     (* what tracebridge was asked to do                          *)
  config,     (* the settings the project file makes                       *)
  todo,       (* commands not sent yet                                     *)
  depth,      (* depth_before of cmm                                       *)
  failed,     (* the load of an image failed                               *)
  outcome,    (* how the sequence ended                                    *)
  culprit,    (* history: the command that failed                          *)
  mode,       (* SYStem.Mode                                               *)
  running,    (* STATE.RUN()                                               *)
  settings,   (* SYStem settings in force                                  *)
  stack,      (* the PRACTICE stack: whose script runs on top of whose     *)
  others,     (* history: scripts the user and t32mcp started              *)
  reprogram,  (* FLASH.ReProgram mode                                      *)
  programmed, (* images written in the FLASH.ReProgram session             *)
  flash,      (* images in flash memory                                    *)
  symbols     (* images whose symbols are loaded                           *)

sequenceVars  == <<action, config, todo, depth, failed, outcome, culprit>>
stackVars     == <<stack, others>>
flashVars     == <<reprogram, programmed, flash>>
targetVars    == <<mode, running, settings>>
powerviewVars == <<targetVars, stackVars, flashVars, symbols>>
commandVars   == <<sequenceVars, powerviewVars>>

Actions == {"flash", "load", "reset", "attach", "reset_and_stop"}
AllImages == 1 .. Images
C(text) == <<text, 0>>

Loads(text) == [i \in AllImages |-> <<text, i>>]

(* A command that is sent only with its setting in the project file.       *)
If(option, text, c) == IF option \in c THEN <<C(text)>> ELSE <<>>

(* Mutant: CORE.ASSIGN is left out.                                        *)
NoCores(c) ==
  If("cpu", "SYStem.CPU", c) \o If("mem_access", "SYStem.MemAccess", c)

(* The settings attach_commands and reset_commands make.                   *)
SettingCommands(c) ==
  If("cpu", "SYStem.CPU", c) \o If("mem_access", "SYStem.MemAccess", c)
    \o If("cores", "CORE.ASSIGN", c)

attach_commands(c) ==
  <<C("SYStem.Mode Down")>> \o SettingCommands(c) \o <<C("SYStem.Mode Attach")>>

reset_commands(c) ==
  <<C("SYStem.Down"), C("SYStem.RESet")>> \o SettingCommands(c)
    \o <<C("SYStem.Mode Up")>> \o If("jtag_clock", "SYStem.JtagClock", c)

reset_and_stop == <<C("Break"), C("SYStem.Mode Up")>>

(* Mutant: DO without the wait for the end of the script.                  *)
StartScript == <<C("depth_before"), C("DO")>>

cmm == <<C("depth_before"), C("DO"), C("wait")>>

program(c) ==
  <<C("system_up, then Down")>> \o cmm
    \o If("jtag_clock", "SYStem.JtagClock", c)
    \o <<C("FLASH.ReProgram ALL /Erase")>> \o Loads("Data.LOAD.Elf")
    \o <<C("FLASH.ReProgram OFF"), C("SYStem.Down"), C("SYStem.Up")>>
    \o If("jtag_clock", "SYStem.JtagClock", c)

setup_debug ==
  <<C("system_up, else attach")>> \o Loads("Data.LOAD.Elf /NoCODE")
    \o <<C("state_run, else Go")>>

Sequence(a, c) ==
  CASE a = "flash" -> <<C("require_practice_idle")>> \o program(c) \o setup_debug
    [] a = "load"  -> <<C("require_practice_idle")>> \o setup_debug
    [] a = "reset" -> <<C("require_practice_idle")>> \o reset_commands(c)
    [] a = "attach" -> <<C("system_up, else attach")>>
    [] a = "reset_and_stop" -> reset_and_stop

-----------------------------------------------------------------------------

SequenceInit ==
  /\ action \in Actions
  /\ config \in {c \in SUBSET Options : action = "reset" => "cpu" \in c}
  /\ todo = Sequence(action, config)
  /\ depth = 0 /\ failed = FALSE /\ outcome = "none" /\ culprit = "none"
  /\ mode \in {"down", "up"} /\ running \in {FALSE, mode = "up"}
  /\ settings \in {{}, config}
  /\ stack \in {<<>>, <<"other">>} /\ others = 0
  /\ reprogram = FALSE /\ programmed = {}
  /\ flash = {} /\ symbols = {}

command == todo[1][1]
image == todo[1][2]
Then(commands) == todo' = commands \o Tail(todo)

Unsent == outcome = "none" /\ todo # <<>>

(* Questions to PowerView.                                                 *)
Ask ==
  /\ Unsent
  /\ \/ command = "require_practice_idle" /\ stack = <<>> /\ Then(<<>>)
     \/ /\ command = "system_up, then Down"
        /\ Then(IF mode = "up" THEN <<C("SYStem.Down")>> ELSE <<>>)
     \/ /\ command = "system_up, else attach"
        /\ Then(IF mode = "up" THEN <<>> ELSE attach_commands(config))
     \/ /\ command = "state_run, else Go"
        /\ Then(IF running THEN <<>> ELSE <<C("Go")>>)
     \/ command = "wait" /\ Len(stack) = depth /\ Then(<<>>)
  /\ UNCHANGED <<action, config, depth, failed, outcome, culprit, powerviewVars>>

AskDepth ==
  /\ Unsent /\ command = "depth_before"
  /\ depth' = Len(stack) /\ Then(<<>>)
  /\ UNCHANGED <<action, config, failed, outcome, culprit, powerviewVars>>

(* SYStem.Down forgets the JTAG clock and SYStem.RESet every setting; the  *)
(* other SYStem commands set one.                                          *)
Mode(m, r, s) ==
  /\ mode' = m /\ running' = r /\ settings' = s
  /\ UNCHANGED <<stackVars, flashVars, symbols>>

Sets(option) == Mode(mode, running, settings \cup {option})

(* Loading the ELF replaces the symbols, an extra ELF adds its own.        *)
LoadSymbols == symbols' = IF image = 1 THEN {1} ELSE symbols \cup {image}

System ==
  \/ command \in {"SYStem.Down", "SYStem.Mode Down"}
       /\ Mode("down", FALSE, settings \ {"jtag_clock"})
  \/ command = "SYStem.RESet"     /\ Mode("down", FALSE, {})
  \/ command = "SYStem.CPU"       /\ Sets("cpu")
  \/ command = "SYStem.MemAccess" /\ Sets("mem_access")
  \/ command = "CORE.ASSIGN"      /\ Sets("cores")
  \/ command = "SYStem.JtagClock" /\ Sets("jtag_clock")
  \/ command \in {"SYStem.Up", "SYStem.Mode Up"} /\ Mode("up", FALSE, settings)
  \/ command = "SYStem.Mode Attach" /\ \E r \in BOOLEAN : Mode("up", r, settings)
  \/ command = "Go"    /\ Mode(mode, mode = "up", settings)
  \/ command = "Break" /\ Mode(mode, FALSE, settings)

DoScript ==
  /\ command = "DO" /\ stack' = Append(stack, "own")
  /\ UNCHANGED <<targetVars, others, flashVars, symbols>>

ReprogramAll ==
  /\ command = "FLASH.ReProgram ALL /Erase"
  /\ reprogram' = TRUE /\ programmed' = {}
  /\ UNCHANGED <<targetVars, stackVars, flash, symbols>>

LoadImage ==
  /\ command = "Data.LOAD.Elf" /\ LoadSymbols
  /\ programmed' = programmed \cup {image}
  /\ UNCHANGED <<targetVars, stackVars, reprogram, flash>>

(* Programs the written sectors and erases the others.                     *)
ReprogramOff ==
  /\ command = "FLASH.ReProgram OFF"
  /\ reprogram' = FALSE /\ flash' = IF reprogram THEN programmed ELSE flash
  /\ UNCHANGED <<targetVars, stackVars, programmed, symbols>>

LoadNoCode ==
  /\ command = "Data.LOAD.Elf /NoCODE" /\ LoadSymbols
  /\ UNCHANGED <<targetVars, stackVars, flashVars>>

Effect ==
  \/ System \/ DoScript \/ ReprogramAll \/ LoadImage \/ ReprogramOff \/ LoadNoCode

Send ==
  /\ Unsent /\ Effect
  /\ IF failed
     THEN outcome' = "failed" /\ UNCHANGED todo
     ELSE Then(<<>>) /\ UNCHANGED outcome
  /\ UNCHANGED <<action, config, depth, failed, culprit>>

(* The end of a sequence whose command failed.                             *)
Stop == outcome' = "failed" /\ UNCHANGED <<todo, failed>>

(* Mutant: a failed load ends the sequence at once.                        *)
StopAtOnce == Stop

(* A failed load of an image is reported after FLASH.ReProgram OFF.        *)
FailLoad ==
  /\ todo' = <<C("FLASH.ReProgram OFF")>> /\ failed' = TRUE
  /\ UNCHANGED outcome

(* Mutant: the wait for the script has no limit.                           *)
FailUnlimited ==
  /\ Unsent /\ command # "wait"
  /\ culprit' = command
  /\ IF command = "Data.LOAD.Elf" THEN FailLoad ELSE Stop
  /\ Effect \/ UNCHANGED powerviewVars
  /\ UNCHANGED <<action, config, depth>>

(* A question fails, a command is refused or its answer comes too late, a  *)
(* script is active or takes too long.                                     *)
Fail ==
  /\ Unsent
  /\ culprit' = command
  /\ IF command = "Data.LOAD.Elf" THEN FailLoad ELSE Stop
  /\ Effect \/ UNCHANGED powerviewVars
  /\ UNCHANGED <<action, config, depth>>

Succeed ==
  /\ outcome = "none" /\ todo = <<>>
  /\ outcome' = "success"
  /\ UNCHANGED <<action, config, todo, depth, failed, culprit, powerviewVars>>

(* A script resets the chip if it finds the system down and makes its      *)
(* settings, then ends or waits for the user.                              *)
ScriptRuns ==
  /\ stack # <<>> /\ mode = "down"
  /\ Mode("up", FALSE, settings \cup (config \ {"jtag_clock"}))
  /\ UNCHANGED sequenceVars

ScriptEnds ==
  /\ stack # <<>> /\ stack' = SubSeq(stack, 1, Len(stack) - 1)
  /\ UNCHANGED <<sequenceVars, targetVars, others, flashVars, symbols>>

OthersStart ==
  /\ others < MaxOthers
  /\ others' = others + 1 /\ stack' = Append(stack, "other")
  /\ UNCHANGED <<sequenceVars, targetVars, flashVars, symbols>>

Sequencer == Ask \/ AskDepth \/ Send \/ Fail \/ Succeed

SequenceNext == Sequencer \/ ScriptRuns \/ ScriptEnds \/ OthersStart

SequenceSpec == SequenceInit /\ [][SequenceNext]_commandVars

(* PowerView may keep silent: the time-out of an answer and the limit of   *)
(* cmm make Fail possible, and the sequencer takes one of its steps.  Each *)
(* of them is a call, which returns as long as PowerView does not keep the *)
(* connection busy without an answer (CallReturns of module RclLink).      *)
SequenceFairSpec == SequenceSpec /\ WF_commandVars(Sequencer)

-----------------------------------------------------------------------------

Texts ==
  {"require_practice_idle", "system_up, then Down", "system_up, else attach",
   "state_run, else Go", "depth_before", "DO", "wait", "Go", "Break",
   "SYStem.CPU", "SYStem.MemAccess", "CORE.ASSIGN", "SYStem.JtagClock",
   "SYStem.Down", "SYStem.Up", "SYStem.RESet", "SYStem.Mode Down",
   "SYStem.Mode Up", "SYStem.Mode Attach", "FLASH.ReProgram ALL /Erase",
   "FLASH.ReProgram OFF"}

LoadTexts == {"Data.LOAD.Elf", "Data.LOAD.Elf /NoCODE"}

(* A command and the image it loads, 0 if none.                            *)
Commands == (Texts \X {0}) \cup (LoadTexts \X AllImages)

(* Types; a core runs only when the system is up.                          *)
SequenceTypeOK ==
  /\ action \in Actions /\ config \subseteq Options
  /\ todo \in Seq(Commands) /\ depth \in Nat
  /\ outcome \in {"none", "success", "failed"} /\ failed \in BOOLEAN
  /\ mode \in {"down", "up"} /\ running \in BOOLEAN
  /\ running => mode = "up"
  /\ settings \subseteq Options
  /\ stack \in Seq({"own", "other"}) /\ others \in 0 .. MaxOthers
  /\ reprogram \in BOOLEAN
  /\ programmed \subseteq AllImages /\ flash \subseteq AllImages
  /\ symbols \subseteq AllImages

(* "flashed", "symbols loaded", "reset, halted at the reset vector" and    *)
(* "attached" are printed only when they are true, for every project file; *)
(* a script of someone else may undo it.                                   *)
SuccessMeansReady ==
  outcome = "success" /\ others = 0 /\ stack = <<>> =>
    /\ mode = "up"
    /\ action \in {"flash", "load"} => running /\ symbols = AllImages
    /\ action \in {"reset", "reset_and_stop"} => ~running
    /\ action = "flash" =>
         flash = AllImages /\ config \cap {"jtag_clock"} \subseteq settings
    /\ action = "reset" => settings = config

(* FLASH.ReProgram mode is left whatever fails (target.rs "Always leave    *)
(* FLASH.ReProgram mode"); it stays on only if the command that leaves it  *)
(* was refused, or the one that enters it was carried out too late.        *)
ReprogramLeft ==
  outcome # "none" /\ reprogram =>
    culprit \in {"FLASH.ReProgram ALL /Erase", "FLASH.ReProgram OFF"}

(* The flash script starts from its own reset, with the target down, and   *)
(* the flash is erased only after the script has ended, unless somebody    *)
(* else started a script meanwhile.                                        *)
EraseAfterOwnReset ==
  [][others = 0 =>
       /\ stack' = Append(stack, "own") => mode = "down" /\ stack = <<>>
       /\ reprogram' /\ ~reprogram => stack = <<>>]_commandVars

(* Every sequence ends, also when the script waits for the user.           *)
SequenceEnds == <>(outcome # "none")

=============================================================================
