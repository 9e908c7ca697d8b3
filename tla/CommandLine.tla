----------------------------- MODULE CommandLine -----------------------------
(***************************************************************************)
(* One `tracebridge` process: from its arguments to its exit code (cli.rs, *)
(* signals.rs, and main of debug/mod.rs), while PowerView starts and exits,*)
(* the user edits files, and Ctrl-C comes at any time.                     *)
(*                                                                         *)
(* start_powerview, run_target, the proxy, the terminal and the debug      *)
(* commands are single steps here: PowerViewStart, TargetSequence,         *)
(* DapProxy, RttChannel, DebugSession and the other modules of the         *)
(* commands have their insides.  Messages are left out.                    *)
(***************************************************************************)
EXTENDS Positions

CONSTANTS
  CommandLines,  (* arguments: command, chip, script, args                 *)
  TomlFiles,     (* trace32.toml: flash_script, flash_chip, cpu, flash_args*)
  LibraryScripts,(* what flash::choose finds for a chip: path, accepts_cpu, *)
                 (* safe; or Unknown                                       *)
  ConfigT32,     (* lines of config.t32                                    *)
  RclPort,
  Unknown,
  MaxWorldMoves  (* bound: acts of PowerView and the user                  *)

Subcommands ==
  {"usage", "--help", "init", "skill", "rustrover", "vscode", "config", "open", "load", "flash",
   "adapter", "rtt", "chips", "debug"}
Assignments == [key : STRING, value : STRING]

ASSUME CommandLineAssumption ==
  /\ MaxWorldMoves \in Nat /\ Unknown \notin {0, 1, 2, 3, 130, RclPort}
  /\ \A c \in CommandLines :
       /\ c.command \in Subcommands /\ c.args \in Seq(STRING)
       /\ c.chip = Unknown \/ c.script = Unknown (* conflicts_with *)
  /\ \A toml \in TomlFiles :
       /\ DOMAIN toml = {"flash_script", "flash_chip", "cpu", "flash_args"}
       /\ toml.flash_args \in Seq(Assignments)
  /\ ConfigT32 \subseteq Seq(Assignments)

VARIABLES
  argv,          (* the arguments                                          *)
  cliAt,         (* the next step                                          *)
  handlers,      (* what Ctrl-C does: kills, exits with 130, or nothing    *)
  cliExit,       (* the exit code                                          *)
  docs,          (* JSON documents printed                                 *)
  cliConfig,     (* the Config                                             *)
  pick,          (* the flash script validated, [load |-> TRUE] for load   *)
  effects,       (* what was done outside the process                      *)
  remarks,       (* what `config` says about config.t32                    *)
  generated,     (* a file that tracebridge writes, was before, and backups *)
  pv_up,         (* the world: PowerView answers on the RCL port           *)
  files_ok,      (* the ELFs and the script exist                          *)
  cliMoves

cliWorld == <<pv_up, files_ok, cliMoves>>
cliVars == <<argv, cliAt, handlers, cliExit, docs, cliConfig, pick, effects, remarks, generated,
             cliWorld>>

-----------------------------------------------------------------------------
(* debug/mod.rs: arguments of `debug`.                                     *)
TakesRest == {"eval", "cmd", "do"}
IsOption(arg) == arg \in {"--json", "--other"}

(* Where the name of the command is: at the first word of these.           *)
Words(args) == {i \in DOMAIN args : ~IsOption(args[i])}

(* split_trailing_json                                                     *)
SplitTrailingJson(args) ==
  LET takes_rest == Words(args) # {} /\ args[Earliest(Words(args))] \in TakesRest
      cuts == {n \in 0 .. Len(args) :
                 \A k \in n + 1 .. Len(args) : k > 2 /\ args[k] = "--json"}
      length == IF takes_rest THEN Earliest(cuts) ELSE Len(args)
  IN  [args |-> SubSeq(args, 1, length), json |-> length < Len(args)]

(* clap: --json before or among the arguments of a command; the commands   *)
(* that take the rest of the line take it as it is; or a usage error.      *)
SessionCommands == {"reconnect", "help", "quit"}
DebugNames == TakesRest \cup SessionCommands \cup {"status", "verify", "check"}
Arity(name) ==
  CASE name \in {"status", "reconnect", "quit"} -> {0}
    [] name \in {"help", "verify"} -> {0, 1}
    [] name = "check" -> {1}
    [] OTHER -> {}

DebugParse(args) ==
  LET at == Earliest(Words(args))
      before == IF Words(args) = {} THEN DOMAIN args ELSE 1 .. at - 1
      after == SubSeq(args, at + 1, Len(args))
      plain == {i \in DOMAIN after : after[i] # "--json"}
  IN  IF \E i \in before : args[i] = "--other" THEN Unknown
      ELSE IF Words(args) = {} THEN [name |-> Unknown, rest |-> <<>>, json |-> args # <<>>]
      ELSE IF args[at] \in TakesRest
        THEN IF after = <<>> \/ after[1] = "--json" THEN Unknown
             ELSE [name |-> args[at], rest |-> after, json |-> at > 1]
      ELSE IF Cardinality(plain) \in Arity(args[at]) /\ \A i \in plain : ~IsOption(after[i])
        THEN [name |-> args[at], rest |-> IF plain = {} THEN <<>> ELSE <<after[Earliest(plain)]>>,
              json |-> at > 1 \/ plain # DOMAIN after]
      ELSE Unknown

(* parse *)
ParseDebug(args) ==
  LET split  == SplitTrailingJson(args)
      parsed == DebugParse(split.args)
  IN  IF parsed = Unknown THEN Unknown ELSE [parsed EXCEPT !.json = @ \/ split.json]

-----------------------------------------------------------------------------
(* flash.rs: chip_name, resolve, cpu_argument.  CPU= is written as "CPU".  *)
ChipName(config) ==
  IF config.flash_chip # Unknown THEN config.flash_chip ELSE config.cpu

Resolve(config) ==
  LET chip == ChipName(config) IN
  IF config.flash_script # Unknown
    THEN [script |-> config.flash_script, chip |-> Unknown, accepts_cpu |-> FALSE]
  ELSE IF chip = Unknown THEN Unknown
  ELSE IF LibraryScripts[chip] = Unknown \/ ~LibraryScripts[chip].safe THEN Unknown
  ELSE [script |-> LibraryScripts[chip].path, chip |-> chip,
        accepts_cpu |-> LibraryScripts[chip].accepts_cpu]

CpuArgument(choice, args) ==
  IF choice.accepts_cpu /\ ~\E i \in DOMAIN args : args[i].key = "CPU"
    THEN <<[key |-> "CPU", value |-> choice.chip]>> ELSE <<>>

(* t32config.rs: the section of RCL=, up to a blank line.                  *)
RclSettings(lines) ==
  LET start == {i \in DOMAIN lines : lines[i].key = "RCL"}
      rcl   == Earliest(start)
      in_section(i) == i > rcl /\ \A j \in rcl + 1 .. i : lines[j].key # "blank"
      latest(keys) ==
        LET set == {i \in DOMAIN lines : in_section(i) /\ lines[i].key \in keys}
        IN  IF set = {} THEN Unknown ELSE lines[CHOOSE i \in set : \A j \in set : j <= i]
      port == latest({"PORT"})
      host == latest({"REMOTEHOSTDENY", "REMOTEHOSTALLOW"})
  IN  IF start = {} THEN Unknown
      ELSE [protocol |-> lines[rcl].value, port |-> IF port = Unknown THEN Unknown ELSE port.value,
            remote_host_deny |-> host # Unknown /\ host.key = "REMOTEHOSTDENY"]

(* print_config: what it remarks about the Remote API.                     *)
Remarks(settings) ==
  IF settings = Unknown THEN {"tracebridge enables it"}
  ELSE (IF settings.protocol # "NETTCP" THEN {"needs RCL=NETTCP"}
        ELSE IF settings.port # RclPort THEN {"PORT differs"} ELSE {})
       \cup (IF settings.remote_host_deny THEN {} ELSE {"other hosts"})

-----------------------------------------------------------------------------
CliInit ==
  /\ argv \in CommandLines
  /\ cliAt = "signals" /\ handlers = "kill" /\ cliExit = Unknown /\ docs = <<>>
  /\ cliConfig = Unknown /\ pick = Unknown /\ effects = {} /\ remarks = Unknown
  /\ \E was \in {"none", "user's", "same"} :
       generated = [content |-> was, was |-> was, backups |-> {}]
  /\ pv_up \in BOOLEAN /\ files_ok \in BOOLEAN /\ cliMoves = 0

Step(next) ==
  cliAt' = next /\ UNCHANGED <<argv, cliExit, docs>>

Exit(code) ==
  cliAt' = "ended" /\ cliExit' = code /\ UNCHANGED <<argv, docs>>

Did(what) == [did |-> what]

(* What most steps leave alone.                                            *)
Same == UNCHANGED <<handlers, cliConfig, pick, effects, remarks, generated, cliWorld>>

InstallHandlers ==
  /\ cliAt = "signals" /\ Step("parse")
  /\ handlers' = "exit"
  /\ UNCHANGED <<cliConfig, pick, effects, remarks, generated, cliWorld>>

(* Cli::parse ends the process itself; then the long-running commands take *)
(* over the signals.                                                       *)
ParseCommand ==
  /\ cliAt = "parse"
  /\ IF argv.command = "usage" THEN Exit(2) /\ UNCHANGED handlers
     ELSE IF argv.command = "--help" THEN Exit(0) /\ UNCHANGED handlers
     ELSE /\ Step("dispatch")
          /\ handlers' = IF argv.command \in {"rtt", "adapter"} THEN "released" ELSE handlers
  /\ UNCHANGED <<cliConfig, pick, effects, remarks, generated, cliWorld>>

(* Commands that need no configuration; main_without_config.               *)
Dispatch ==
  /\ cliAt = "dispatch"
  /\ LET debug == ParseDebug(argv.args) IN
     IF argv.command = "init" THEN Step("create")
     ELSE IF argv.command = "skill" THEN Step("compare")
     ELSE IF argv.command # "debug" THEN Step("config")
     ELSE IF debug = Unknown THEN Exit(2)
     ELSE IF debug.name = "help"
       THEN Exit(IF debug.rest = <<>> \/ debug.rest[1] \in DebugNames THEN 0 ELSE 2)
     ELSE IF debug.name = "quit" THEN Exit(0)
     ELSE Step("config")
  /\ Same

(* find_config_file and load_config; --chip and --script of `flash`.       *)
AfterConfig ==
  CASE argv.command \in {"flash", "load"} -> "validate"
    [] argv.command = "open" -> "powerview"
    [] argv.command = "rustrover" -> "compare"
    [] argv.command = "config" -> "print"
    [] OTHER -> argv.command

Overridden(toml) ==
  IF argv.chip # Unknown THEN [toml EXCEPT !.flash_script = Unknown, !.flash_chip = argv.chip]
  ELSE IF argv.script # Unknown THEN [toml EXCEPT !.flash_script = argv.script]
  ELSE toml

LoadConfig ==
  /\ cliAt = "config"
  /\ \/ Exit(1) /\ UNCHANGED cliConfig
     \/ \E toml \in TomlFiles : cliConfig' = Overridden(toml) /\ Step(AfterConfig)
  /\ UNCHANGED <<handlers, pick, effects, remarks, generated, cliWorld>>

-----------------------------------------------------------------------------
(* open, flash, load *)
(* Mutant: PowerView is started first, and then the files are checked.     *)
ValidateLast ==
  /\ cliAt = "validate"
  /\ LET choice == IF argv.command = "load" THEN [load |-> TRUE] ELSE Resolve(cliConfig) IN
       /\ pv_up' = TRUE
       /\ IF files_ok /\ choice # Unknown
            THEN pick' = choice /\ Step("powerview")
            ELSE Exit(1) /\ UNCHANGED pick
  /\ effects' = effects \cup {Did(IF pv_up THEN "reused PowerView" ELSE "started PowerView")}
  /\ UNCHANGED <<handlers, cliConfig, remarks, generated, files_ok, cliMoves>>

(* validate_target_action: before PowerView is started.                    *)
Validate ==
  /\ cliAt = "validate"
  /\ LET choice == IF argv.command = "load" THEN [load |-> TRUE] ELSE Resolve(cliConfig) IN
       IF files_ok /\ choice # Unknown
         THEN pick' = choice /\ Step("powerview")
         ELSE Exit(1) /\ UNCHANGED pick
  /\ UNCHANGED <<handlers, cliConfig, effects, remarks, generated, cliWorld>>

StartPowerView ==
  /\ cliAt = "powerview"
  /\ \/ /\ pv_up' = TRUE
        /\ effects' = effects \cup {Did(IF pv_up THEN "reused PowerView" ELSE "started PowerView")}
        /\ IF argv.command = "open" THEN Exit(0) ELSE Step("target")
     \/ Exit(1) /\ UNCHANGED pv_up
          /\ effects' \in {effects, effects \cup {Did("started PowerView")}}
  /\ UNCHANGED <<handlers, cliConfig, pick, remarks, generated, files_ok, cliMoves>>

(* run_target with the script chosen and, for a family script, CPU=.       *)
TargetAction ==
  IF argv.command = "load" THEN Did("load")
  ELSE [did |-> "flash", script |-> pick.script,
        args |-> cliConfig.flash_args \o CpuArgument(pick, cliConfig.flash_args)]

RunTarget ==
  /\ cliAt = "target"
  /\ \/ /\ pv_up /\ files_ok
        /\ effects' = effects \cup {TargetAction} /\ Exit(0)
     \/ effects' \in {effects, effects \cup {Did("part of a target action")}} /\ Exit(1)
  /\ UNCHANGED <<handlers, cliConfig, pick, remarks, generated, cliWorld>>

-----------------------------------------------------------------------------
(* emit: with --json, a document; and the exit code.                       *)
Emit(json, code) ==
  /\ cliAt' = "ended" /\ cliExit' = code /\ UNCHANGED argv
  /\ docs' = IF json THEN Append(docs, [command |-> ParseDebug(argv.args).name, ok |-> code = 0,
                                        exit_code |-> code]) ELSE docs

(* connect: it never starts PowerView.  Without a command, a session.      *)
DebugConnect ==
  /\ cliAt = "debug"
  /\ LET debug == ParseDebug(argv.args) IN
     IF debug.name = Unknown THEN Step("session")
     ELSE \/ Emit(debug.json, 1)
          \/ pv_up /\ debug.name = "reconnect" /\ Emit(debug.json, 0)
          \/ pv_up /\ debug.name # "reconnect" /\ Step("execute")
  /\ Same

(* execute: what a command may change, by its kind, and its exit code.     *)
DebugExecute ==
  /\ cliAt = "execute"
  /\ LET debug == ParseDebug(argv.args) IN
       \E code \in {0, 1} \cup (IF debug.name \in {"check", "verify"} THEN {3} ELSE {}) :
         /\ Emit(debug.json, code)
         /\ effects' \in {effects} \cup
              (IF debug.name \in {"cmd", "do"} THEN {effects \cup {Did("PRACTICE")}} ELSE {})
  /\ UNCHANGED <<handlers, cliConfig, pick, remarks, generated, cliWorld>>

(* The interactive session; its exit code is DebugSession's.               *)
Session ==
  /\ cliAt = "session" /\ \E code \in {0, 1, 3} : Exit(code)
  /\ effects' \in {effects, effects \cup {Did("PRACTICE")}}
  /\ UNCHANGED <<handlers, cliConfig, pick, remarks, generated, cliWorld>>

(* adapter: another proxy listens, no PowerView, or the proxy.             *)
Adapter ==
  /\ cliAt = "adapter"
  /\ \/ Exit(0) /\ UNCHANGED effects
     \/ ~pv_up /\ Exit(1) /\ UNCHANGED effects
     \/ pv_up /\ effects' = effects \cup {Did("proxy")} /\ \E code \in {0, 1} : Exit(code)
  /\ UNCHANGED <<handlers, cliConfig, pick, remarks, generated, cliWorld>>

(* rtt: its arguments are parsed after the configuration is loaded.        *)
Rtt ==
  /\ cliAt = "rtt"
  /\ \/ argv.args # <<>> /\ Exit(2) /\ UNCHANGED effects
     \/ argv.args = <<>> /\ ~pv_up /\ Exit(1) /\ UNCHANGED effects
     \/ argv.args = <<>> /\ pv_up /\ effects' = effects \cup {Did("terminal")}
          /\ \E code \in {0, 1} : Exit(code)
  /\ UNCHANGED <<handlers, cliConfig, pick, remarks, generated, cliWorld>>

(* vscode: VscodeInstall has its steps.                                    *)
Vscode ==
  /\ cliAt = "vscode" /\ \E code \in {0, 1} : Exit(code)
  /\ Same

(* config; chips without a chip to ask for fails.                          *)
PrintConfig ==
  /\ cliAt = "print" /\ Exit(0)
  /\ remarks' \in {Unknown} \cup
       {[lines |-> lines, said |-> Remarks(RclSettings(lines))] : lines \in ConfigT32}
  /\ UNCHANGED <<handlers, cliConfig, pick, effects, generated, cliWorld>>

Chips ==
  /\ cliAt = "chips"
  /\ IF argv.chip = Unknown /\ ChipName(cliConfig) = Unknown THEN Exit(1) ELSE Exit(0)
  /\ Same

-----------------------------------------------------------------------------
(* Files of the user: init refuses to overwrite and writes a new file in   *)
(* two steps; skill and rustrover back up a file that differs and replace  *)
(* it at once.                                                             *)
Writes(next, content, backups) ==
  /\ generated' = [generated EXCEPT !.content = content, !.backups = backups]
  /\ IF next = "ended" THEN Exit(0) ELSE Step(next)

CreateToml ==
  /\ cliAt = "create"
  /\ \/ Exit(1) /\ UNCHANGED generated
     \/ generated.content = "none" /\ Writes("fill", "partial", generated.backups)
  /\ UNCHANGED <<handlers, cliConfig, pick, effects, remarks, cliWorld>>

FillToml ==
  /\ cliAt = "fill"
  /\ Writes("ended", "same", generated.backups) \/ (Exit(1) /\ UNCHANGED generated)
  /\ UNCHANGED <<handlers, cliConfig, pick, effects, remarks, cliWorld>>

CompareFile ==
  /\ cliAt = "compare"
  /\ \/ generated.content = "same" /\ Exit(0)
     \/ Step(IF generated.content = "none" THEN "replace" ELSE "backup")
     \/ Exit(1)
  /\ Same

BackupFile ==
  /\ cliAt = "backup"
  /\ \/ Writes("replace", generated.content, generated.backups \cup {generated.content})
     \/ Exit(1) /\ UNCHANGED generated
  /\ UNCHANGED <<handlers, cliConfig, pick, effects, remarks, cliWorld>>

ReplaceFile ==
  /\ cliAt = "replace"
  /\ Writes("ended", "same", generated.backups) \/ (Exit(1) /\ UNCHANGED generated)
  /\ UNCHANGED <<handlers, cliConfig, pick, effects, remarks, cliWorld>>

-----------------------------------------------------------------------------
(* Ctrl-C ends the process unless the handlers were released: then it is   *)
(* an event of the proxy and the terminal.                                 *)
CtrlC ==
  /\ cliAt # "ended" /\ handlers \in {"kill", "exit"}
  /\ Exit(IF handlers = "exit" THEN 130 ELSE Unknown)
  /\ Same

OthersMove ==
  /\ cliAt # "ended" /\ cliMoves < MaxWorldMoves /\ cliMoves' = cliMoves + 1
  /\ \/ pv_up' = ~pv_up /\ UNCHANGED files_ok
     \/ files_ok' = ~files_ok /\ UNCHANGED pv_up
  /\ UNCHANGED <<argv, cliAt, handlers, cliExit, docs, cliConfig, pick, effects, remarks,
                 generated>>

CliNext ==
  \/ InstallHandlers \/ ParseCommand \/ Dispatch \/ LoadConfig
  \/ Validate \/ StartPowerView \/ RunTarget
  \/ DebugConnect \/ DebugExecute \/ Session \/ Adapter \/ Rtt \/ Vscode \/ PrintConfig \/ Chips
  \/ CreateToml \/ FillToml \/ CompareFile \/ BackupFile \/ ReplaceFile
  \/ CtrlC \/ OthersMove

CliSpec == CliInit /\ [][CliNext]_cliVars

-----------------------------------------------------------------------------
(* What the command line asks for, said without the functions above.       *)
AskedScript ==
  LET chip == IF argv.chip # Unknown THEN argv.chip
              ELSE IF cliConfig.flash_chip # Unknown THEN cliConfig.flash_chip ELSE cliConfig.cpu
  IN  IF argv.script # Unknown THEN argv.script
      ELSE IF argv.chip = Unknown /\ cliConfig.flash_script # Unknown THEN cliConfig.flash_script
      ELSE LibraryScripts[chip].path

JsonAsked ==
  LET args == argv.args
      name == CHOOSE i \in DOMAIN args : /\ ~IsOption(args[i])
                                         /\ \A j \in 1 .. i - 1 : IsOption(args[j])
      named == \E i \in DOMAIN args : ~IsOption(args[i])
  IN  \/ \E i \in DOMAIN args : args[i] = "--json" /\ (~named \/ i < name)
      \/ named /\ args[name] \notin TakesRest /\ \E i \in DOMAIN args : args[i] = "--json"
      \/ named /\ args[name] \in TakesRest /\ args[Len(args)] = "--json"

(* What a process that ended with 0 has done.                              *)
Done ==
  CASE argv.command = "open" -> effects \cap {Did("started PowerView"), Did("reused PowerView")} # {}
    [] argv.command = "load" -> Did("load") \in effects
    [] argv.command = "flash" ->
         \E e \in effects :
           /\ e.did = "flash" /\ e.script = AskedScript
           /\ Len(e.args) >= Len(cliConfig.flash_args)
           /\ \A i, j \in DOMAIN e.args :
                i < j /\ e.args[i].key = "CPU" /\ e.args[j].key = "CPU" =>
                  j <= Len(cliConfig.flash_args)
    [] argv.command \in {"init", "skill", "rustrover"} -> generated.content = "same"
    [] OTHER -> TRUE

UsageErrorsDoNothing ==
  cliExit = 2 =>
    /\ effects = {} /\ docs = <<>> /\ generated.content = generated.was
    /\ argv.command # "rtt" => cliConfig = Unknown

StartedOnlyAfterChecks ==
  Did("started PowerView") \in effects => argv.command = "open" \/ pick # Unknown

(* A configuration that is missing or refused ends a command without one.  *)
OneDocument ==
  argv.command = "debug" /\ cliExit \in {0, 1, 3} =>
    LET debug == ParseDebug(argv.args) IN
    /\ cliConfig # Unknown /\ debug.name # Unknown /\ JsonAsked => docs # <<>>
    /\ docs # <<>> =>
         /\ debug.name # Unknown /\ JsonAsked
         /\ Len(docs) = 1 /\ docs[1].exit_code = cliExit /\ docs[1].ok = (cliExit = 0)
         /\ debug.rest # <<>> => debug.rest[Len(debug.rest)] # "--json"

FileIsKept ==
  generated.was = "user's" => "user's" \in {generated.content} \cup generated.backups

SilenceIsRight ==
  remarks # Unknown /\ remarks.said = {} =>
    LET lines == remarks.lines IN
    \E i, j \in DOMAIN lines :
      /\ i < j /\ \A k \in i .. j : lines[k].key # "blank"
      /\ lines[i] = [key |-> "RCL", value |-> "NETTCP"]
      /\ lines[j] = [key |-> "PORT", value |-> RclPort]

(* Property: whenever PowerView, the user and Ctrl-C interfere, a usage    *)
(* error has touched nothing; PowerView is started by open, flash and load *)
(* only, and by the last two only when the ELFs and the script were found; *)
(* exit code 0 means that the script asked for was run, or the file        *)
(* written; with --json, wherever it stands, a command whose configuration *)
(* was loaded prints one document that has the exit code, and no other     *)
(* prints any; a file of the user is kept or backed up; and `config`       *)
(* without a remark means a port that tracebridge can use.  (run, open and *)
(* main of cli.rs and debug/mod.rs.)                                       *)
CommandLineKeepsItsWord ==
  /\ UsageErrorsDoNothing /\ StartedOnlyAfterChecks /\ OneDocument /\ FileIsKept
  /\ SilenceIsRight /\ (cliExit = 0 => Done)

(* Property: --json prints one JSON document per command, whatever becomes *)
(* of it (DebugCli).  It does not hold: the configuration is loaded before *)
(* main of debug/mod.rs, and an error in it is printed as any other.       *)
DocumentPerCommand ==
  LET debug == ParseDebug(argv.args) IN
  argv.command = "debug" /\ cliExit \in {0, 1, 3} /\ JsonAsked =>
    debug.name \in {Unknown, "help", "quit"} \/ Len(docs) = 1
=============================================================================
