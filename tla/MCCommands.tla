----------------------------- MODULE MCCommands -----------------------------
(***************************************************************************)
(* TLC instance of the commands that are sequences of calls with no state  *)
(* of their own: check, verify, watch, open, vscode, reg and the reports;  *)
(* of the two that call them: the command line and the library that a      *)
(* board runner links; and of the configuration and the calls that they    *)
(* use.  Each behaviour is about one, and the others rest.                 *)
(***************************************************************************)
EXTENDS CheckRun, Verify, Watch, PowerViewStart, VscodeInstall, Reports, RegisterLookup,
        CommandLine, BackendSession, Configuration, MemoryApi

VARIABLE running  (* the command this behaviour is about                   *)

Number(n)           == [symbol |-> NoSymbol, number |-> n]
Of(path, n)         == [symbol |-> path, number |-> n]
Entry(read, expect) == [read |-> read, expect |-> expect, variants |-> NoVariant]

(* Every form of read and expect; names that are unknown; masks, offsets,  *)
(* a variant; and two tables that do not parse.                            *)
MCEntries ==
  << Entry([reg |-> "CTRL"], [eq |-> Number(1), mask |-> 1]),
     Entry([reg |-> "CP15"], [ne |-> Of("main", 3)]),
     Entry([reg |-> "OTHER"], [nonzero |-> TRUE]),
     Entry([addr |-> "memory"], [range |-> <<1, 2>>]),
     Entry([addr |-> "coprocessor"], [one_of |-> <<Number(0), Of("main", -2)>>]),
     [read |-> [core |-> "PC"], expect |-> [in_symbol |-> "main"], variants |-> {"v"}],
     Entry([core |-> "PC"], [in_symbol |-> "gone"]),
     Entry([expr |-> "e"], [nonzero |-> TRUE]),
     Entry([clock |-> "PLL"], [hz |-> 8, source |-> "osc"]),
     Entry([clock |-> "PLL"], [state |-> "off", warnings |-> {}]),
     Entry([clock |-> "PLL"], [source |-> "osc"]),
     Entry([clock |-> "GONE"], [state |-> "on"]),
     Entry([addr |-> "memory"], [range |-> <<2, 1>>]),
     Entry([addr |-> "memory"], [nonzero |-> TRUE, mask |-> 1]) >>

MCSymbols   == [main |-> [begin |-> 1, end |-> 2]]
MCRegisters == [CTRL |-> "memory", CP15 |-> "coprocessor"]

EvaluatedClock(state, hz, warnings) ==
  [state |-> state, hz |-> hz, parent |-> "osc", warnings |-> warnings]

MCEvaluated ==
  {EvaluatedClock("on", 8, {}), EvaluatedClock("on", 7, {}),
   EvaluatedClock("on", 10, {"not locked"}), EvaluatedClock("off", 0, {}),
   EvaluatedClock("error", 0, {})}

LoadableSegment(paddr, data) == [load |-> TRUE, paddr |-> paddr, data |-> data]

(* An image of two segments, one longer than a chunk; one of a segment     *)
(* without content; one that has nothing to load.                          *)
MCImages ==
  {<<LoadableSegment(0, <<0, 1, 1>>), LoadableSegment(3, <<1>>)>>,
   <<LoadableSegment(1, <<>>), LoadableSegment(1, <<0>>)>>,
   <<[load |-> FALSE, paddr |-> 0, data |-> <<1>>]>>}

(* Items of the user, one without a name; of the old tool; and of the      *)
(* template, with fields of the user (twice in one document) and as        *)
(* installed.                                                              *)
MCItem(called, fields, ours) == [name |-> called, fields |-> fields, ours |-> ours]
MCDocuments ==
  LET user == MCItem("user", "his", FALSE)
      none == MCItem("none", "his", FALSE)
      old  == MCItem("legacy", "old", FALSE)
      mine == MCItem("template", "his", FALSE)
      ours == MCItem("template", "none", TRUE)
  IN  {<<>>, <<none, user>>, <<old, user, old>>, <<user, mine, none, ours>>, <<ours, user>>}
MCFiles     == <<"tasks.json", "launch.json">>

(* Cores: in Hyp mode at an entry of the active table, and of another one; *)
(* in another mode; running; of 64 bits.  Registers are sets of bits.      *)
Hyp == {1, 3, 4}
Svc == {0, 1, 4}
DataAbort == {31, 28, 25, 24, 2}
MCLine(address, decimals) ==
  [numbered |-> TRUE, classified |-> TRUE, address |-> address, decimals |-> decimals]
MCOther == [numbered |-> FALSE, classified |-> FALSE, address |-> 0, decimals |-> 0]
MCCore(goes, psr, pc, hvbar, hsr, trace) ==
  [mode |-> 11, running |-> goes, is_64bit |-> FALSE, cpsr |-> psr, pc |-> pc, elr |-> 3,
   hvbar |-> hvbar, hsr |-> hsr, trace |-> trace]
MCCores ==
  {MCCore(FALSE, Hyp, 40, 32, DataAbort, <<MCLine(3, 3), MCLine(3, 1)>>),
   MCCore(FALSE, Hyp, 36, 64, {31, 2}, <<>>),
   MCCore(FALSE, Svc, 7, 32, {}, <<MCOther, MCLine(40, 0)>>),
   MCCore(TRUE, Svc, 7, 32, {}, <<>>),
   [MCCore(FALSE, Hyp, 40, 32, {}, <<>>) EXCEPT !.is_64bit = TRUE]}
MCSymbolTable ==
  {[path |-> "main", begin |-> 2, end |-> 5], [path |-> "table", begin |-> 32, end |-> 32]}
MCText(v) == [written |-> "0x", value |-> v]
MCLocations ==
  {[path |-> "main", class |-> "no colon", number |-> [written |-> "other"]],
   [path |-> "", class |-> "AD", number |-> MCText(20478)],
   [path |-> "", class |-> "C15", number |-> MCText(16421)]}

(* A register R in a tree T and outside it, with a field F: two addresses  *)
(* or one, read-only, with other choices or none; a register F in a tree R *)
(* of that tree, at the address that the text of another is taken for.     *)
MCName(dot, quoted, elements) == [dot |-> dot, quoted |-> quoted, elements |-> elements]
MCNames ==
  {MCName(FALSE, FALSE, <<"R">>), MCName(FALSE, FALSE, <<"R", "F">>),
   MCName(TRUE, FALSE, <<"T", "R", "F">>), MCName(FALSE, TRUE, <<"T", "R", "F">>)}
MCDefinition(trees, class, address, read_only, choices) ==
  [trees |-> trees, register |-> "R", address |-> [class |-> class, value |-> address],
   read_only |-> read_only, fields |-> [F |-> choices]]
MCDefinitions ==
  {MCDefinition(<<>>, "C15", 1, FALSE, <<"off", "on">>),
   MCDefinition(<<"T">>, "C15", 1, TRUE, <<"off", "on">>),
   MCDefinition(<<"T">>, "C15", 2, FALSE, <<"no", "?...">>),
   MCDefinition(<<>>, "AD", 2, FALSE, None),
   [MCDefinition(<<"T", "R">>, "C15", 4, FALSE, <<"no", "yes">>) EXCEPT !.register = "F"]}

(* Command lines: of every command; --json in front, behind, twice, and as *)
(* the text of a command; options that are unknown; chips with a script    *)
(* that takes CPU=, with none, and with a path that cannot be quoted.      *)
MCLibrary ==
  [C1 |-> [path |-> "family", accepts_cpu |-> TRUE, safe |-> TRUE], C2 |-> Unknown,
   C3 |-> [path |-> "quoted", accepts_cpu |-> FALSE, safe |-> FALSE]]
MCCommandLine(called, chip, script, args) ==
  [command |-> called, chip |-> chip, script |-> script, args |-> args]
MCPlainLine(called) == MCCommandLine(called, Unknown, Unknown, <<>>)
MCDebugArgs ==
  {<<>>, <<"--json">>, <<"status">>, <<"status", "--json">>, <<"--json", "eval", "x">>,
   <<"eval", "x", "--json", "--json">>, <<"--json", "cmd", "--json">>, <<"do", "--json">>,
   <<"status", "--other">>, <<"help", "eval">>, <<"help", "x">>, <<"quit">>,
   <<"reconnect", "--json">>, <<"--json", "check", "x">>, <<"cmd", "x", "--other">>}
MCCommandLines ==
  {MCPlainLine(c) : c \in {"usage", "--help", "init", "skill", "rustrover", "vscode", "config",
                           "open", "load", "flash", "adapter", "rtt", "chips"}}
  \cup {MCCommandLine("flash", chip, Unknown, <<>>) : chip \in {"C1", "C2", "C3"}}
  \cup {MCCommandLine("flash", Unknown, "mine", <<>>)}
  \cup {MCCommandLine("rtt", Unknown, Unknown, <<"--other">>)}
  \cup {MCCommandLine("debug", Unknown, Unknown, args) : args \in MCDebugArgs}

MCToml(script, chip, cpu, args) ==
  [flash_script |-> script, flash_chip |-> chip, cpu |-> cpu, flash_args |-> args]
MCTomlFiles ==
  {MCToml(Unknown, Unknown, Unknown, <<>>), MCToml("toml", "C1", "C1", <<>>),
   MCToml(Unknown, Unknown, "C1", <<[key |-> "CPU", value |-> "C9"]>>)}
MCSetting(key, v) == [key |-> key, value |-> v]
MCConfigT32 ==
  {<<>>, <<MCSetting("PORT", "20000"), MCSetting("RCL", "NETTCP")>>,
   <<MCSetting("RCL", "NETTCP"), MCSetting("PORT", "20000"), MCSetting("REMOTEHOSTALLOW", ""),
     MCSetting("REMOTEHOSTDENY", "")>>,
   <<MCSetting("RCL", "NETTCP"), MCSetting("REMOTEHOSTDENY", ""), MCSetting("blank", ""),
     MCSetting("PORT", "20000")>>,
   <<MCSetting("RCL", "NETASSIST"), MCSetting("PORT", "20000")>>}

MCCheckLists == {<<>>, <<AnyVariant, {"v"}>>, <<{"v", "w"}, {"w"}, AnyVariant>>, <<AnyVariant>>}

(* trace32.toml: one that is complete, then with one or two of its values  *)
(* or variables of another type, in another place, empty, zero, or with a  *)
(* quotation mark.                                                         *)
MCBase == [program |-> Str("plain"), elf |-> Str("plain"), cpu |-> Str("plain")]
MCInFile ==
  {[file |-> called, value |-> v] :
     called \in {"program", "elf", "cpu", "sys", "host", "binary", "rtos_menu", "flash_script",
               "rtt_symbol", "control_block_address"},
     v \in {Empty, Digits(-1), Digits(0), Str("escaped"), Str("practice"), Int64(0)}}
  \cup {[file |-> called, value |-> v] : called \in {"extra_elf", "flash_args"},
     v \in {Str("quoted"), Str("escaped"), Str("open"), List("mixed"), List("quoted"),
             Int64(0)}}
  \cup {[file |-> called, value |-> v] :
     called \in Ports \cup {"dap_backend_timeout", "operation_timeout", "poll_interval"},
     v \in {Int64(0), Int64(65536), Int64(58870), Str("plain"),
                [type |-> "float", is |-> "number", number |-> 1]}}
  \cup {[file |-> "show_tasks", value |-> Int64(0)]}
MCInEnvironment ==
  {[variable |-> variable, value |-> v] :
     variable \in {"PROGRAM_NAME", "ELF", "T32_CPU", "T32_SYS", "T32SYS", "T32_HOST", "T32_BIN",
                   "T32_FLASH_SCRIPT", "PROJECT_ROOT"},
     v \in {Empty, Str("folder"), Str("escaped")}}
  \cup {[variable |-> variable, value |-> v] :
     variable \in {"EXTRA_ELF", "T32_FLASH_ARGS"},
     v \in {Empty, Str("quoted"), Str("escaped"), Str("open")}}
  \cup {[variable |-> variable, value |-> v] :
     variable \in {"T32_RCL_PORT", "T32_DAP_PORT", "T32_TIMEOUT"},
     v \in {Empty, Str("plain"), Digits(0), Digits(65536), Digits(58871)}}

MCOverridden(base, changes, key) ==
  LET keys == {c[key] : c \in {c \in changes : key \in DOMAIN c}}
  IN  [n \in keys |-> (CHOOSE c \in changes : key \in DOMAIN c /\ c[key] = n).value] @@ base
MCCfgInput(changes) ==
  [folders |-> <<"file", "none">>, explicit |-> Absent, toml |-> "ok", not_tables |-> {},
   clocks |-> {}, has_root |-> FALSE, known_system |-> TRUE, quoted_place |-> FALSE,
   document |-> MCOverridden(MCBase, changes, "file"),
   environment |-> MCOverridden(<<>>, changes, "variable")]
MCPlain == MCCfgInput({})
MCCfgInputs ==
  {MCCfgInput({a, b}) : a, b \in MCInFile \cup MCInEnvironment}
  \cup {[MCPlain EXCEPT !.folders = folders] : folders \in [1 .. 3 -> {"none", "folder", "file"}]}
  \cup {[MCPlain EXCEPT !.explicit = 1, !.toml = toml] :
          toml \in {"ok", "missing", "unreadable", "not UTF-8", "not TOML"}}
  \cup {[MCPlain EXCEPT !.not_tables = {"rtt"}], [MCPlain EXCEPT !.has_root = TRUE],
        [MCPlain EXCEPT !.known_system = FALSE], [MCPlain EXCEPT !.quoted_place = TRUE]}
  \cup {[MCPlain EXCEPT !.clocks = {Digits(8), v}] :
          v \in {Int64(8), Int64(0), Str("plain"),
                  [type |-> "float", is |-> "number", number |-> 8]}}

(* Calls of the library: every read and write up to a wrap of the address, *)
(* symbols with every few parameters, and more behind a name or an address.*)
MCParameter(id, text, cut) == [id |-> id, text |-> text, cut |-> cut]
MCParameters ==
  {MCParameter(id, 1, FALSE) : id \in {"NM", "A64", "AC", "AD", "XX", "PT", "SZ", "skip", "other"}}
  \cup {MCParameter("NE", 2, FALSE), MCParameter("A64", 2, FALSE)}
  \cup {MCParameter(id, 1, TRUE) : id \in {"AD", "XX", "PT", "skip"}}
MCBehind ==
  {<<>>, <<MCParameter("NM", 2, FALSE), MCParameter("NE", 3, FALSE)>>,
   <<MCParameter("AD", 1, FALSE), MCParameter("A64", 3, FALSE)>>}
MCStreams ==
  {first \o more : first \in MCBehind,
     more \in {stream \in UNION {[1 .. n -> MCParameters] : n \in 0 .. 3} :
                 \A i \in 1 .. Len(stream) - 1 : ~stream[i].cut}}
MCResult(type, written_as) == [type |-> type, text |-> written_as]
MCFunctionAnswers ==
  {Garbled, MCResult(1, <<"TRUE()">>)}
  \cup {MCResult(type, <<"other">>) : type \in {1, 2, 3, 32, 32768}}
  \cup {MCResult(8, text) : text \in {<<"0", ".">>, <<"7", ".">>, <<"-", "7", ".">>, <<"1", "0">>,
                                     <<"7", "7", "7", ".">>, <<"0">>, <<"b", ".">>, <<"-", ".">>}}
  \cup {MCResult(4, text) : text \in {<<"0", "x", "b">>, <<"0", "b">>, <<"0", "x">>}}
  \cup {MCResult(2, text) : text \in {<<"0", "y", "1", "0">>, <<"0", "y", "0", "b", "1">>, <<"1">>}}
  \cup {MCResult(16, <<"1", ".", "7">>), MCResult(2048, <<"1", "0">>), MCResult(16, <<".">>)}
MCSequences(members, n) == UNION {[1 .. k -> members] : k \in 0 .. n}
MCApiCalls ==
  {[op |-> "read", address |-> a, length |-> n] : a \in {0, 3}, n \in 0 .. 5}
  \cup {[op |-> "write", address |-> a, data |-> data] :
          a \in {0, 3}, data \in MCSequences({1, 3}, 5)}
  \cup {[op |-> "symbol", stream |-> stream] : stream \in MCStreams}
  \cup {[op |-> o] : o \in {"version", "idle", "running", "eval"}}
  \cup {[op |-> "practice", data |-> data] : data \in MCSequences({0, 1}, 4)}
  \cup {[op |-> "parse", text |-> words_of] :
          words_of \in MCSequences({":", "0x", "0", "7", "a", "huge", "newline"}, 4)}

(* The commands at rest.                                                   *)
CheckRest ==
  /\ checkAt = "none" /\ prepared = <<>> /\ halted = FALSE /\ tree_report = <<>>
  /\ results = <<>> /\ checkExit = -1 /\ breaks = FALSE /\ got = <<>> /\ file = <<>>
  /\ options = [variant |-> NoVariant, halt |-> FALSE, dry_run |-> FALSE]
  /\ checkCore = "halted"
VerifyRest ==
  /\ verifyAt = "none" /\ image = 1 /\ segment = 1 /\ bytes = <<>> /\ images = <<>>
  /\ with_t32 = FALSE /\ differing = 0 /\ code = 0 /\ memory = <<>> /\ found = FALSE
  /\ writes = 0 /\ equal = TRUE /\ denied = FALSE
WatchRest ==
  /\ watchAt = "none" /\ resolved = 0 /\ paths = <<>> /\ errors = FALSE /\ added = 0
  /\ names = <<>> /\ before = <<>> /\ window = <<>>
PvRest ==
  /\ pvAt = [t \in Tools |-> "none"] /\ polls = [t \in Tools |-> 0]
  /\ outcome = [t \in Tools |-> "none"] /\ child = [t \in Tools |-> "none"]
  /\ instance = [t \in Tools |-> "none"] /\ port = Nobody
  /\ answered = [t \in Tools |-> FALSE] /\ failures = {}
InstallRest ==
  /\ installAt = "none" /\ target = 1 /\ merged = <<>> /\ disk = <<>> /\ backups = <<>>
  /\ temporary = Missing /\ runs = 1 /\ saves = 0 /\ seen = Missing /\ saved = FALSE

ReportRest ==
  /\ command = [name |-> "none"] /\ at = "none" /\ told = <<>> /\ retried = FALSE /\ todo = <<>>
  /\ near = None /\ symbols = <<>> /\ blamed = None /\ words = <<>> /\ dump = NoDump
  /\ core = None /\ moves = 0 /\ listing = None /\ exports = 0 /\ removal = 0
LookupRest ==
  /\ name = None /\ definitions = <<>> /\ visible = {} /\ on_disk = FALSE /\ loaded = FALSE
  /\ content = <<>> /\ core_runs = FALSE /\ regAt = "none" /\ tried = 0 /\ first_error = None
  /\ reprogrammed = FALSE /\ per_register = None /\ value = None /\ choice = None
  /\ address_check = "none" /\ explained = NotExplained
CliRest ==
  /\ argv = MCPlainLine("usage") /\ cliAt = "none" /\ handlers = "kill"
  /\ cliExit = Unknown /\ docs = <<>>
  /\ cliConfig = Unknown /\ pick = Unknown /\ effects = {} /\ remarks = Unknown
  /\ generated = [content |-> "none", was |-> "none", backups |-> {}]
  /\ pv_up = FALSE /\ files_ok = FALSE /\ cliMoves = 0
BackendRest ==
  /\ operation = "none" /\ opAt = "none" /\ answer = "none" /\ snapshot = "none" /\ since = {}
  /\ warned = FALSE /\ state_told = "none" /\ kept_since = {} /\ target_state = "down"
  /\ left_behind = FALSE /\ steps = 0 /\ strangers = 0 /\ operations = 0 /\ read_at = NotRead
  /\ accessed = {}
ConfigurationRest ==
  /\ cfgInput = Absent /\ cfgAt = "none" /\ level = 0 /\ config_file = Absent
  /\ project_dir = Absent /\ settings = <<>> /\ run_dir = Absent
ApiRest ==
  /\ apiCall = [op |-> "none"] /\ apiAt = "none" /\ moved = <<>> /\ at_item = 1
  /\ symbol = Nothing /\ apiResult = Nothing /\ target_bytes = <<>> /\ held = <<>>
  /\ written = {} /\ targetMoves = 0

Init ==
  /\ running \in {"check", "verify", "watch", "open", "vscode", "report", "reg", "cli", "backend",
                 "configuration", "api"}
  /\ IF running = "check"   THEN CheckInit   ELSE CheckRest
  /\ IF running = "verify"  THEN VerifyInit  ELSE VerifyRest
  /\ IF running = "watch"   THEN WatchInit   ELSE WatchRest
  /\ IF running = "open"    THEN PvInit      ELSE PvRest
  /\ IF running = "vscode"  THEN InstallInit ELSE InstallRest
  /\ IF running = "report"  THEN ReportInit  ELSE ReportRest
  /\ IF running = "reg"     THEN RegInit     ELSE LookupRest
  /\ IF running = "cli"     THEN CliInit     ELSE CliRest
  /\ IF running = "backend" THEN BackendInit ELSE BackendRest
  /\ IF running = "configuration" THEN CfgInit ELSE ConfigurationRest
  /\ IF running = "api"     THEN ApiInit     ELSE ApiRest

Next ==
  \/ running = "check" /\ CheckNext
       /\ UNCHANGED <<verifyVars, watchVars, pvVars, installVars, reportVars,
                      lookupVars, cliVars, backendVars, configurationVars, apiVars, running>>
  \/ running = "verify" /\ VerifyNext
       /\ UNCHANGED <<checkVars, watchVars, pvVars, installVars, reportVars,
                      lookupVars, cliVars, backendVars, configurationVars, apiVars, running>>
  \/ running = "watch" /\ WatchNext
       /\ UNCHANGED <<checkVars, verifyVars, pvVars, installVars, reportVars,
                      lookupVars, cliVars, backendVars, configurationVars, apiVars, running>>
  \/ running = "open" /\ PvNext
       /\ UNCHANGED <<checkVars, verifyVars, watchVars, installVars, reportVars,
                      lookupVars, cliVars, backendVars, configurationVars, apiVars, running>>
  \/ running = "vscode" /\ InstallNext
       /\ UNCHANGED <<checkVars, verifyVars, watchVars, pvVars, reportVars,
                      lookupVars, cliVars, backendVars, configurationVars, apiVars, running>>
  \/ running = "report" /\ ReportNext
       /\ UNCHANGED <<checkVars, verifyVars, watchVars, pvVars, installVars,
                      lookupVars, cliVars, backendVars, configurationVars, apiVars, running>>
  \/ running = "reg" /\ RegNext
       /\ UNCHANGED <<checkVars, verifyVars, watchVars, pvVars, installVars,
                      reportVars, cliVars, backendVars, configurationVars, apiVars, running>>
  \/ running = "cli" /\ CliNext
       /\ UNCHANGED <<checkVars, verifyVars, watchVars, pvVars, installVars,
                      reportVars, lookupVars, backendVars, configurationVars, apiVars, running>>
  \/ running = "backend" /\ BackendNext
       /\ UNCHANGED <<checkVars, verifyVars, watchVars, pvVars, installVars,
                      reportVars, lookupVars, cliVars, configurationVars, apiVars, running>>
  \/ running = "configuration" /\ CfgNext
       /\ UNCHANGED <<checkVars, verifyVars, watchVars, pvVars, installVars,
                      reportVars, lookupVars, cliVars, backendVars, apiVars, running>>
  \/ running = "api" /\ ApiNext
       /\ UNCHANGED <<checkVars, verifyVars, watchVars, pvVars, installVars,
                      reportVars, lookupVars, cliVars, backendVars, configurationVars, running>>

Spec ==
  Init /\ [][Next]_<<checkVars, verifyVars, watchVars, pvVars, installVars, reportVars,
                     lookupVars, cliVars, backendVars, configurationVars, apiVars, running>>
=============================================================================
