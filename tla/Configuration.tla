---------------------------- MODULE Configuration ----------------------------
(***************************************************************************)
(* config.rs: the search for trace32.toml, load_config, which takes every  *)
(* setting from the environment, the file or a default, and checks them,   *)
(* and ensure_run_dir.                                                     *)
(*                                                                         *)
(* A value is its type and what the code tells apart: a text is empty,     *)
(* plain, a number, a TRACE32 path (~~), or has quotation marks: pairs of  *)
(* them, an escaped one, or one that does not end.  A path is the          *)
(* directory it is relative to and that text.                              *)
(***************************************************************************)
EXTENDS Integers, Sequences, FiniteSets, SequencesExt

CONSTANTS
  CfgInputs,      (* folders: what trace32.toml is in each directory from  *)
                  (* the root to the working directory; explicit: the one  *)
                  (* of --config, or Absent; toml: "ok", "missing" or what *)
                  (* is wrong with it; document, not_tables, clocks,       *)
                  (* has_root: its content; environment; known_system;     *)
                  (* quoted_place: its path has a quotation mark           *)
  Absent

TextKinds == {"empty", "plain", "quoted", "escaped", "open", "folder", "practice"}
TextValues ==
  [type : {"string"}, is : TextKinds, number : {0}]
    \cup [type : {"string"}, is : {"number"}, number : Int]
Values ==
  TextValues
    \cup [type : {"integer", "float"}, is : {"number"}, number : Int]
    \cup [type : {"boolean"}, is : {"true", "false"}, number : {0}]
    \cup [type : {"array"}, is : {"empty", "plain", "quoted", "mixed"}, number : {0}]

ASSUME CfgAssumption ==
  \A i \in CfgInputs :
    /\ i.folders \in Seq({"none", "folder", "file"})
    /\ i.clocks \subseteq Values
    /\ i.has_root \in BOOLEAN /\ i.known_system \in BOOLEAN /\ i.quoted_place \in BOOLEAN
    /\ \A n \in DOMAIN i.document : i.document[n] \in Values
    /\ \A n \in DOMAIN i.environment : i.environment[n] \in TextValues

VARIABLES
  cfgInput, cfgAt,
  level,          (* loop of find_config_file: the directory               *)
  config_file,    (* the directory of the file found                       *)
  project_dir,    (* its directory or that of PROJECT_ROOT                 *)
  settings,       (* the Config: values by name                            *)
  run_dir         (* <project>/.tracebridge: what it is, with .gitignore   *)

configurationVars == <<cfgInput, cfgAt, level, config_file, project_dir, settings, run_dir>>

Document == cfgInput.document
Environment == cfgInput.environment

-----------------------------------------------------------------------------
Str(is)    == [type |-> "string", is |-> is, number |-> 0]
Digits(n)  == [type |-> "string", is |-> "number", number |-> n]
Int64(n)   == [type |-> "integer", is |-> "number", number |-> n]
List(is)   == [type |-> "array", is |-> is, number |-> 0]
Empty      == Str("empty")

(* Types that `text`, `integer`, `number`, `boolean` and `string_list`     *)
(* take, and how the variable of a setting overrides it: env_text and      *)
(* env_integer ("filled"), env_override and env_arguments ("set").         *)
Types ==
  [text |-> {"string"}, integer |-> {"integer"}, number |-> {"integer", "float"},
   boolean |-> {"boolean"}, list |-> {"string", "array"}]

Setting(kind, variable, wins, default) ==
  [kind |-> kind, variable |-> variable, wins |-> wins, default |-> default]
Free(kind, default) == Setting(kind, Absent, "never", default)
Port(variable, n) == Setting("integer", variable, "filled", Int64(n))

Settings ==
  [elf           |-> Setting("text", "ELF", "filled", Empty),
   extra_elf     |-> Setting("list", "EXTRA_ELF", "set", List("empty")),
   program       |-> Setting("text", "PROGRAM_NAME", "set", Empty),
   sys           |-> Setting("text", "T32_SYS", "filled", Empty),
   host          |-> Setting("text", "T32_HOST", "filled", Empty),
   executable    |-> Setting("text", "T32_EXE", "filled", Str("plain")),
   binary        |-> Setting("text", "T32_BIN", "filled", Empty),
   config        |-> Setting("text", "T32_CONFIG", "filled", Empty),
   debug_adapter |-> Setting("text", "T32_DEBUG_ADAPTER", "filled", Empty),
   cpu           |-> Setting("text", "T32_CPU", "set", Empty),
   cores         |-> Setting("text", "T32_CORES", "set", Str("plain")),
   mem_access    |-> Setting("text", "T32_MEMACCESS", "set", Empty),
   jtag_clock    |-> Setting("text", "T32_JTAG_CLOCK", "set", Empty),
   dual_port     |-> Setting("text", "T32_DUALPORT", "set", Empty),
   rtos_config   |-> Free("text", Empty),
   rtos_menu     |-> Free("text", Empty),
   show_tasks    |-> Free("boolean", [type |-> "boolean", is |-> "false", number |-> 0]),
   flash_chip    |-> Setting("text", "T32_FLASH_CHIP", "filled", Empty),
   flash_script  |-> Setting("text", "T32_FLASH_SCRIPT", "set", Empty),
   flash_args    |-> Setting("list", "T32_FLASH_ARGS", "set", List("empty")),
   rcl_port      |-> Port("T32_RCL_PORT", 20000),
   dap_port      |-> Port("T32_DAP_PORT", 58870),
   dap_backend_port    |-> Port("T32_DAP_BACKEND_PORT", 58871),
   dap_backend_timeout |-> Port("T32_DAP_BACKEND_TIMEOUT", 30),
   operation_timeout   |-> Port("T32_TIMEOUT", 600),
   rtt_symbol    |-> Setting("text", "RTT_SYMBOL", "filled", Str("plain")),
   poll_interval |-> Free("number", [type |-> "float", is |-> "number", number |-> 1]),
   control_block_address |-> Free("text", Empty)]

SettingNames == DOMAIN Settings
Ports == {"rcl_port", "dap_port", "dap_backend_port"}
PortNumbers == 1 .. 65535

IsSet(variable) == variable \in DOMAIN Environment
Filled(variable) == IsSet(variable) /\ Environment[variable] # Empty

FromEnvironment(name) ==
  LET s == Settings[name] IN
  \/ s.wins = "set" /\ IsSet(s.variable)
  \/ s.wins = "filled" /\ Filled(s.variable)

InFile(name) == IF name \in DOMAIN Document THEN Document[name] ELSE Settings[name].default
Winning(name) ==
  IF FromEnvironment(name) THEN Environment[Settings[name].variable] ELSE InFile(name)

(* shlex_split takes the pairs of quotation marks away, and leaves one     *)
(* that is escaped.                                                        *)
Broken == List("broken")
ShlexSplit(value) ==
  IF value.type = "array" THEN value
  ELSE CASE value.is = "empty" -> List("empty") [] value.is = "open" -> Broken
         [] value.is = "escaped" -> List("quoted") [] OTHER -> List("plain")

(* The type in the file counts although a variable overrides the value.    *)
WellTyped(name) ==
  /\ InFile(name).type \in Types[Settings[name].kind]
  /\ Settings[name].kind = "list" => ShlexSplit(InFile(name)).is \notin {"broken", "mixed"}
(* Mutant: the file is not read where a variable overrides it.             *)
ReadableLazily(name) ==
  /\ FromEnvironment(name) \/ WellTyped(name)
  /\ Settings[name].kind = "integer" => Winning(name).is = "number"
  /\ Settings[name].kind = "list" => ShlexSplit(Winning(name)) # Broken

Readable(name) ==
  /\ WellTyped(name)
  /\ Settings[name].kind = "integer" => Winning(name).is = "number"
  /\ Settings[name].kind = "list" => ShlexSplit(Winning(name)) # Broken

-----------------------------------------------------------------------------
CfgInit ==
  /\ cfgInput \in CfgInputs /\ cfgAt = "find" /\ level = Len(cfgInput.folders)
  /\ config_file = Absent /\ project_dir = Absent /\ settings = <<>> /\ run_dir = Absent

Check(from, to, condition) == cfgAt = from /\ cfgAt' = IF condition THEN to ELSE "refused"

(* find_config_file: --config, or the nearest directory with the file.     *)
FindExplicit ==
  /\ cfgAt = "find" /\ cfgInput.explicit # Absent
  /\ config_file' = cfgInput.explicit /\ cfgAt' = "read"
  /\ UNCHANGED <<cfgInput, level, project_dir, settings, run_dir>>

FindNearest ==
  /\ cfgAt = "find" /\ cfgInput.explicit = Absent
  /\ IF level = 0 THEN cfgAt' = "refused" /\ UNCHANGED <<level, config_file>>
     ELSE IF cfgInput.folders[level] = "file"
       THEN cfgAt' = "read" /\ config_file' = level /\ UNCHANGED level
     ELSE level' = level - 1 /\ UNCHANGED <<cfgAt, config_file>>
  /\ UNCHANGED <<cfgInput, project_dir, settings, run_dir>>

(* load_config: the text, the tables, [clock].                             *)
IsFrequency(value) ==
  IF value.type = "string" THEN value.is = "number" /\ value.number > 0
  ELSE value.type = "integer" /\ value.number > 0

ReadFile ==
  /\ Check("read", "root",
          /\ cfgInput.toml = "ok" /\ cfgInput.not_tables = {}
          /\ \A value \in cfgInput.clocks : IsFrequency(value))
  /\ UNCHANGED <<cfgInput, level, config_file, project_dir, settings, run_dir>>

(* project.root is refused; PROJECT_ROOT is a directory.                   *)
ProjectRoot ==
  /\ LET elsewhere == Filled("PROJECT_ROOT")
         exists == elsewhere => Environment["PROJECT_ROOT"].is = "folder"
     IN  /\ Check("root", "values", ~cfgInput.has_root /\ exists)
         /\ project_dir' = IF elsewhere THEN "PROJECT_ROOT" ELSE "config"
  /\ UNCHANGED <<cfgInput, level, config_file, settings, run_dir>>

(* The settings.  T32_SYS, T32SYS, the file, ~/t32, in this order.         *)
Sys == IF ~Filled("T32_SYS") /\ Filled("T32SYS") THEN Environment["T32SYS"] ELSE Winning("sys")

Relative(directory, text) == [in |-> directory, is |-> text.is]
TracePath(name) ==
  IF Winning(name) = Empty THEN Relative("sys", Str("plain")) ELSE Relative("config", Winning(name))

Loaded ==
  [name \in SettingNames |->
     CASE name = "elf" -> Relative(project_dir, Winning(name))
       [] name = "extra_elf" -> Relative(project_dir, ShlexSplit(Winning(name)))
       [] name = "host" /\ Winning(name) = Empty -> Str("plain")   (* host_default *)
       [] name = "sys" /\ Sys = Empty -> Relative("home", Str("plain"))
       [] name = "sys" /\ Sys # Empty -> Relative("config", Sys)
       [] name \in {"binary", "config", "debug_adapter"} -> TracePath(name)
       [] name = "flash_args" -> ShlexSplit(Winning(name))
       [] OTHER -> Winning(name)]

ReadSettings ==
  /\ Check("values", "validate",
          /\ \A name \in SettingNames : Readable(name)
          /\ Winning("host") = Empty => cfgInput.known_system
          /\ LET address == InFile("control_block_address")
             IN  address = Empty \/ (address.is = "number" /\ address.number >= 0))
  /\ settings' = IF cfgAt' = "validate" THEN Loaded ELSE settings
  /\ UNCHANGED <<cfgInput, level, config_file, project_dir, run_dir>>

(* validate_common *)
ValidateCommon ==
  /\ Check("validate", "commands",
          /\ settings.program # Empty
          /\ \A name \in Ports : settings[name].number \in PortNumbers
          /\ settings.dap_port.number # settings.dap_backend_port.number
          /\ \A name \in {"dap_backend_timeout", "operation_timeout", "poll_interval"} :
               settings[name].number > 0)
  /\ UNCHANGED <<cfgInput, level, config_file, project_dir, settings, run_dir>>

(* check_command_values.  Paths of the project have those of the file.     *)
HasMark(text) == text.is \in {"quoted", "escaped", "open"}

CheckCommandValues ==
  /\ Check("commands", "loaded",
          /\ ~cfgInput.quoted_place
          /\ \A name \in {"program", "elf", "cpu", "cores", "mem_access", "jtag_clock", "dual_port",
                          "rtos_config", "rtos_menu", "flash_script", "flash_args"} :
               ~HasMark(settings[name]))
  /\ UNCHANGED <<cfgInput, level, config_file, project_dir, settings, run_dir>>

(* ensure_run_dir: whatever it finds; any step may fail.                   *)
RunDirs == [is : {"none", "file"}, ignored : {FALSE}] \cup [is : {"folder"}, ignored : BOOLEAN]
EnsureRunDir ==
  /\ cfgAt = "loaded"
  /\ \E found \in RunDirs :
       \/ /\ found.is # "file" /\ cfgAt' = "ready"
          /\ run_dir' = [is |-> "folder", ignored |-> TRUE]
       \/ /\ found.is # "file" /\ ~found.ignored /\ cfgAt' = "failed"
          /\ run_dir' = [is |-> "folder", ignored |-> FALSE]
       \/ found.is # "folder" /\ cfgAt' = "failed" /\ run_dir' = found
  /\ UNCHANGED <<cfgInput, level, config_file, project_dir, settings>>

CfgNext ==
  \/ FindExplicit \/ FindNearest \/ ReadFile \/ ProjectRoot \/ ReadSettings \/ ValidateCommon
  \/ CheckCommandValues \/ EnsureRunDir

CfgSpec == CfgInit /\ [][CfgNext]_configurationVars

-----------------------------------------------------------------------------
(* Settings that get into a command of TRACE32 as they are: those that     *)
(* check_command_values looks at, and the further images.                  *)
CheckedValues ==
  {"program", "elf", "cpu", "cores", "mem_access", "jtag_clock", "dual_port", "rtos_config",
   "rtos_menu", "flash_script", "flash_args"}
InCommands == CheckedValues \cup {"extra_elf"}

(* What alone makes the code refuse a setting.                             *)
Refusable(name) ==
  LET value == Winning(name) IN
  \/ name \in DOMAIN Document /\ Document[name].type \notin Types[Settings[name].kind]
  \/ name \in Ports /\ (value.is # "number" \/ value.number \notin PortNumbers)
  \/ name \in {"dap_backend_timeout", "operation_timeout", "poll_interval"}
       /\ (value.is # "number" \/ value.number <= 0)
  \/ name \in CheckedValues /\ Settings[name].kind = "text" /\ HasMark(value)
  \/ Settings[name].kind = "list"
       /\ \E text \in {InFile(name), value} : text.is \in {"open", "mixed"}
  \/ name = "flash_args" /\ (value = List("quoted") \/ value.is = "escaped")
  \/ name = "program" /\ value = Empty
  \/ name = "host" /\ value = Empty /\ ~cfgInput.known_system
  \/ name = "control_block_address" /\ value # Empty /\ (value.is # "number" \/ value.number < 0)

(* What alone makes it refuse the configuration.                           *)
Wrong ==
  \/ cfgInput.explicit = Absent /\ "file" \notin ToSet(cfgInput.folders)
  \/ cfgInput.toml # "ok" \/ cfgInput.not_tables # {} \/ cfgInput.has_root
  \/ cfgInput.quoted_place
  \/ \E value \in cfgInput.clocks :
       value.is # "number" \/ value.number <= 0 \/ value.type = "float"
  \/ Filled("PROJECT_ROOT") /\ Environment["PROJECT_ROOT"].is # "folder"
  \/ \E name \in SettingNames : Refusable(name)
  \/ Winning("dap_port").number = Winning("dap_backend_port").number

(* Who says what a setting is: a variable, for some settings even with an  *)
(* empty text; then the file; then the default, which for some is told by  *)
(* the others.                                                             *)
EmptyCounts ==
  {"extra_elf", "program", "cpu", "cores", "mem_access", "jtag_clock", "dual_port",
   "flash_script", "flash_args"}
Speaks(name, variable) ==
  /\ \/ variable = Settings[name].variable /\ Settings[name].wins # "never"
     \/ name = "sys" /\ variable = "T32SYS" /\ ~Filled("T32_SYS")
  /\ IF name \in EmptyCounts THEN IsSet(variable) ELSE Filled(variable)
KeptAs(name, value) ==
  LET kept == settings[name] IN
  IF Settings[name].kind = "list" THEN kept.is = ShlexSplit(value).is
  ELSE IF name \in {"sys", "host", "binary", "config", "debug_adapter"} /\ value = Empty
    THEN kept.is = "plain"
  ELSE kept.is = value.is /\ ("number" \in DOMAIN kept => kept.number = value.number)
SourceWins(name) ==
  LET speakers == {v \in {"T32SYS", Settings[name].variable} : Speaks(name, v)} IN
  /\ \A v \in speakers : KeptAs(name, Environment[v])
  /\ speakers = {} => KeptAs(name, InFile(name))

(* Property: the file is the nearest one above the working directory; it   *)
(* is loaded if and only if nothing in it is of the wrong type, even where *)
(* a variable overrides it, and each value that wins is usable, alone and  *)
(* together (so a variable saves a bad value, and ruins a good one); then  *)
(* each setting is what the first of its sources that speaks says, no      *)
(* value that check_command_values is for has a quotation mark,            *)
(* PROJECT_ROOT moves the images and nothing else, and what the code       *)
(* calls the run directory has a .gitignore.  (find_config_file,           *)
(* load_config, check_command_values, ensure_run_dir.)                     *)
ConfigurationIsSound ==
  /\ config_file # Absent /\ cfgInput.explicit = Absent =>
       /\ cfgInput.folders[config_file] = "file"
       /\ \A deeper \in config_file + 1 .. Len(cfgInput.folders) : cfgInput.folders[deeper] # "file"
  /\ cfgAt \in {"loaded", "ready", "failed", "refused"} =>
       (cfgAt = "refused" <=> Wrong)
  /\ cfgAt \in {"loaded", "ready", "failed"} =>
       /\ \A name \in SettingNames : SourceWins(name)
       /\ \A name \in CheckedValues : settings[name].is \notin {"quoted", "escaped", "open"}
       /\ \A name \in SettingNames : "in" \in DOMAIN settings[name] =>
            (settings[name].in = "PROJECT_ROOT" <=>
               name \in {"elf", "extra_elf"} /\ Filled("PROJECT_ROOT"))
  /\ cfgAt = "ready" => run_dir = [is |-> "folder", ignored |-> TRUE]

(* config.rs, of check_command_values: "values embedded in TRACE32         *)
(* commands must not break the quoting".  project.extra_elf and EXTRA_ELF  *)
(* are put between quotation marks in Data.LOAD.Elf, but not checked.      *)
NothingBreaksTheQuoting ==
  cfgAt \in {"loaded", "ready", "failed"} => \A name \in InCommands : ~HasMark(settings[name])
=============================================================================
