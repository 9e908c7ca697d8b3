# A TLA+ model of tracebridge

tracebridge connects an IDE, a command line and libraries to a Lauterbach
TRACE32 PowerView: it starts PowerView, flashes and loads firmware, runs a DAP
proxy in front of `t32debugadapter`, offers an interactive debug shell, and a
SEGGER RTT terminal.  Everything goes through `t32rcl`, a client of TRACE32's
Remote Control protocol (RCL) over TCP.

This directory holds TLA+ modules that model those parts, TLC configurations
that check them on small instances, and TLAPS proofs for every instance.

- [Components](#components): the system, its state, how the parts interact
- [Modules](#modules): which module models what, how it maps to the code
- [Runs](#runs): what each configuration checks, its bounds
- [Fairness](#fairness) assumed by the liveness properties
- [Proofs](#proofs): what holds for every value of the constants, and why
- [Disagreements](#disagreements) between the code and what it says of itself
- [Not modelled](#not-modelled) and the [plan](#plan)

`PROJECT.json` lists the same in a form for tools: for every definition the
source lines it stands for, for every property a mutant of the model that
violates it, and the hazards of the code with the properties that cover them.

## Components

| component | source | state | operations | what makes it hard | correct when |
|---|---|---|---|---|---|
| RCL connection | `t32rcl/src/link.rs`, `lib.rs` | message counter, decoded responses, buffer | `connect`, `call`, `transmit`, `receive` | a request that timed out is still answered, later; the id is 8 bits; a cut request spoils the stream | a call returns its own answer or an error, and returns unless PowerView keeps sending what is no answer |
| RCL frame decoder | `link.rs` `FrameDecoder` | buffer, padding still to skip | `feed` | reads split frames anywhere, the alignment bytes too | frames come out whole, in order, at once |
| DAP message decoder | `dap/protocol.rs` | buffer | `feed` | the same, with size limits and malformed input | the same, and it fails only for a cause |
| RTT terminal | `rtt.rs` | descriptors, `initialized`, `pending_input`; two rings in target memory | `read_up`, `write_down`, the loop of `run` | firmware and host share the rings without a lock; accesses fail, or succeed without an answer; the target is reset | output in order at most once, input in order at least once |
| DAP session | `dap/proxy.rs` `Session` | `client_commands`, `launch_rewrites`, `local_references`, `internal_requests` | two pumps, `restart`, `backend_request` | four kinds of task over one state, each await an interleaving point; late answers; sides that do not read; the blocking reset outlives its task | each request is answered once; nothing of the proxy's own reaches the IDE; a restarted target runs |
| DAP proxy process | `dap/proxy.rs` `DapProxy` | adapter process, `session_active`, result | `run`, `handle_client`, `connect_backend`, `terminate` | adapter exit, session end, signal at the same time | one session, no adapter left behind, no success after the error of a session or without one |
| Target sequences | `target.rs`, `remote.rs`, `lib.rs` `cmm` | the commands still to send; PowerView's state | `program`, `setup_debug`, `attach_commands`, `reset_commands`, `cmm` | any command may fail with or without its effect; scripts go on by themselves; other users of PowerView | success means ready; flash mode is left |
| Debug session | `debug/probe.rs`, `repl.rs`, `commands.rs` | connection, `PerSnapshot` | the debug commands, `reconnect` | a cached snapshot of the target, invalidated by commands; scripts, users, lost connections | no register is read under conditions of before a command that ended, every command returns |
| Check files | `debug/check.rs`, `commands.rs` | tables, prepared checks, results | `load`, `run`, `judge_clock`, `Report` | every call fails on its own; the core starts and stops in between; results are matched to checks by position | a verdict follows from what its own check read; the core is stopped only with `--halt` |
| ELF verify, memory chunks | `debug/elf.rs`, `commands.rs`, `lib.rs` `memory_read` | bytes read so far, verdict of all images | `verify`, `compare`, `memory_read` | chunks, empty segments, several images; `FOUND()` belongs to PowerView, not to the connection | "match" only if every byte read was equal |
| Watch window | `commands.rs` `watch` | names resolved | resolve, clear, add, show | fails after any of its commands | all names or none |
| PowerView start | `powerview.rs` | child process, port | `start_powerview`, `wait_for_powerview`, `install_toolbar` | port check and spawn are two steps, two tools may interleave; the launcher exits early, PowerView late | "started" and "reused" are true |
| VS Code files | `vscode/installer.rs` | `tasks.json`, `launch.json`, backups, a temporary file | load, merge, back up, `atomic_write` | killed or failing at any step, user saves meanwhile, run again | nothing of the user is lost, installing twice is installing once |
| Flash script choice | `flash.rs` | catalog of scripts | `catalog`, `choose`, `resolve` | several scripts match a chip | the best one, whatever the order of files; a tie is refused |
| Clock tree | `debug/clock.rs`, `clockhtml.rs` | the description, register values; `done`, `visiting`; the page | `clock`: parse, find, read, `evaluate`, draw | loops through registers, memoization; expressions parsed by hand; inputs from two places; views drawn by recursion | expressions mean what they say; each clock follows from the one it runs from and is shown once |
| PER file scan | `debug/perfile.rs`, `probe.rs` | tree stack, base, group, waiting field | `find`, `from_per_file`, `resolve_duplicate` | nesting, names defined several times | an address is given only if it is certain |
| Register names | `debug/probe.rs` `resolve_register`, `perfile.rs`, `commands.rs` `reg` | PerRegister, first error | `try_paths`, `resolve_duplicate`, `read_choice`, `verify_address`, `lookup_error` | one name, several definitions, of which PowerView sees some; an address put together from two texts; value, address and choice text come from different answers | what is shown is of one register |
| Fault, status, mem | `debug/decode.rs`, `probe.rs` `symbolize`, `commands.rs` | the answers so far | sequences of reads, then decoding | the core moves between two reads; any read fails; symbols without size | the report explains the fault, no address gets a symbol it is not in |
| Trace export | `debug/trace.rs`, `commands.rs` | the listing file, shared by every command of a board | check, remove, export, parse | PowerView may not write the file, others may | an old listing is never read |
| Backend library | `backend.rs` | connection and one `PerSnapshot` over all operations | `reset`, `flash`, `load`, `resume`, `check`, RAM, ... in any order | operations fail half-way, leave scripts and commands behind that go on; PER.Set.CONDitions fails too | no snapshot of before an operation without a warning; RAM ranges and variants as asked |
| Command line | `cli.rs`, `debug/mod.rs`, `signals.rs`, `t32config.rs` | arguments, configuration, exit code | `run`, `open`, `adapter`, `config`, debug `main` | PowerView, files and Ctrl-C change between the checks and their use; `--json` in any place | exit code 0 and the JSON document say what happened |
| Other generated files | `init.rs`, `skill.rs`, `rustrover.rs` | one file each | create, compare, back up, replace | the file is the user's | nothing is overwritten without a backup |
| Configuration | `config.rs` | `Config` | `find_config_file`, `load_config`, `ensure_run_dir` | four sources per value, a rule of its own for each empty variable | refused exactly when unusable; each value is that of the source that wins |
| Memory and symbol API | `t32rcl/src/lib.rs`, `address.rs`, `symbol.rs`, `eval.rs` | bytes moved so far | `memory_read`, `write_memory`, `symbol_query`, `fnc`, version check | chunks; the address wraps; answers short, cut or malformed | what is returned is what the answers said |

How they interact: every command of the CLI, the debug shell and the library is
a sequence of RCL *calls*; the DAP proxy makes such a sequence
(`reset_and_stop`) inside a restart, on a thread of its own; the RTT terminal
reads and writes target memory by calls.  PowerView is shared with its user, the
IDE's adapter and t32mcp, so between two calls anything may change.  That is why
the modules above the connection use what `RclCalls` promises of a call: it is
answered, or it fails and its effect happened or not.

## Modules

Each module's header says what it abstracts.  Names follow the source.
A definition whose comment begins with "Mutant:" is a plausible bug; it is used
by no specification and only serves to show that a property notices it.

- **`RclCalls`** - the abstract calls: begin, succeed, fail.  It states the only
  two exceptions the 8-bit id causes: an answer late by a whole turn of the
  counter passes as one's own, and one from before a wrap ends in "out of sync".
- **`RclLink`** - `Debugger::connect` and `call` over a `Link`: `Transmit`
  (`Link::transmit`), `Poll`/`Take`/`Skip` (`Link::receive`, `take_response`),
  time-outs of writes and reads, ATTACH with its second attempt on a new link.
  PowerView is its `backlog` and the `wire`, and may send keepalives or parts of frames
  for ever: each restarts the time-out, which is one of a socket read and not of a call
  (`ReadTimeout`).  It implements `RclCalls`.
- **`RclLinkProofs`** - the proofs about `RclLink` and `MemoryApi`.
- **`FrameDecoder`**, **`DapDecoder`** - `feed` of both decoders.  A byte is its
  position in the stream, so "the right bytes" is checked without contents.
- **`RttStreams`** - the abstract terminal: two byte streams; says when a byte
  may be lost, repeated or torn.
- **`RttChannel`** - `read_up`, `write_down` and the loop, one step per access to
  target memory, against a firmware that uses the rings at the same time.
  Implements `RttStreams` (`up` and `down` are the contents of the rings).
- **`RttChannelProofs`** - the proofs about `RttChannel`: offsets and contents of a
  ring, the operation in progress, the refinement.
- **`DapSession`** - the two pumps, message handlers and restarts of one IDE
  connection.  Handling a message and writing its result are two steps, as the
  code awaits in between; a reset is its own thread.  A side that does not read blocks
  who writes to it, the restart with its `continue` included, which no time-out covers.
- **`DapSessionProofs`** - the proofs about `DapSession`: where a request of the IDE
  is; where a `continue` of the proxy and its answer are.
- **`DapProxy`** - the process around the session: bind, `select!`, terminate.
- **`TargetSequence`** - the commands of `flash`, `load`, `reset`, `attach` and
  `reset_and_stop`, kept as the list still to send, and what PowerView's
  commands do (marked external).  `cmm` with its polling.
- **`MCParts`** - runs `RclLink`, `RttChannel`, `DapProxy` and `TargetSequence`, one per
  behaviour (`part`), each with its own fairness.  They do not interact here: what the
  sequences and the proxy take from the connection is in their guards.
- **`TargetSequenceProofs`** - the proofs about `TargetSequence`: types and
  FLASH.ReProgram; what is true before each command and at the end.
- **`DebugSession`** - commands of the debug shell as sequences of calls over one
  `PerSnapshot`: `ensure`, `reprogram_after`, `resolve_register`, `run_script`
  with `end_scripts`, `run_until`, `check --halt`, `reconnect`, and any other command,
  which fails with or without its effect before it drops the snapshot.  `at` is the next
  call, `local` the local variables of the command; `stale` is a history variable: which
  commands changed the target since PER.Set.CONDitions ran.
- **`DebugSessionProofs`** - the proofs about `DebugSession`.
- **`FlashChoice`** - the catalog read script by script, `glob_match`,
  `specificity`, `choose`, `resolve`.  A pattern is a sequence of characters; the loop
  of `glob_match` is a function on its places (`GlobPlaces`).
- **`ClockTree`** - `Evaluator::evaluate` with the recursion as a stack
  (`visiting`) of calls and the memo (`done`); `state` and `derive`.
- **`PerFile`** - `find` of `perfile.rs`, one step per line, and what
  `resolve_register` makes of its candidates.  A line of another register ends the wait
  for a field.
- **`ClockCommand`** - `debug clock` around it: the recursive descent of `Expr`,
  the checks of a description (`Usable`), the choice by chip (`FindFiles`), the one
  read of each register, inputs from `trace32.toml` and arguments, the exit code.
- **`ClockViews`** - the lines of the text and the boxes and links of the page,
  drawn by recursion over what runs from what.
- **`MCAlgorithms`** - runs these five and the two decoders, one per behaviour
  (`which`), with small inputs.
- **`AlgorithmProofs`** - the proofs about `ClockTree`, `FlashChoice` and both decoders.
- **`CheckRun`** - `check <file>`: a table of the file is a record whose fields
  are its keys, so `Parses` is a predicate on tables; `Selected`, the resolve
  phase (`Prepared`), `--halt`, the clock tree, and one judging step per check.  A core
  that cannot be asked whether it runs counts as halted, as in the code.
  Values have `Width` bits; `value & mask` is the value whose bits are in both.
- **`Verify`** - `verify` of several images: loadable segments, `memory_read` in
  chunks, and `/DIFF` with `FOUND()` of `--t32`.
- **`Watch`** - `watch`: resolve every name, then clear, add, show.
- **`PowerViewStart`** - `start_powerview` of several tools at once, against the
  children they spawn, a launcher that exits, and a foreign program on the port.
- **`VscodeInstall`** - the installer: merge, backup, atomic write, crashes,
  further runs, and the user's saves.
- **`Positions`** - positions in a list: the first, and those that pass a test, in
  order.  Six models filter lists with it, as a filter of the library takes an
  operator and nothing could be proved about it.
- **`TargetAddress`** - addresses as texts: `parse`, `command_line_address`, the
  coprocessor classes.
- **`Reports`** - `status`, `fault`, `mem` and `trace` as sequences of questions;
  `symbolize`; the decoders of PSR and HSR, a register being the set of its bits;
  the listing `trace.ad`.
- **`RegisterLookup`** - `reg NAME`: PowerView's paths, PER.ReProgram, the PER file,
  duplicates, value, choice text, the address as PER.ADDRESS and ADDRESS.OFFSET tell it
  (`PerAddress`), its check against the value with 32 bits compared, the error.
- **`CommandLine`** - one process from its arguments to its exit code.  What the
  commands do inside is one step here.
- **`BackendSession`** - the library's `Session`: any order of operations over one
  snapshot, what they leave behind (`LateChange`), RAM ranges, `check_names`.  `since` is
  a history variable: who changed the target since PER.Set.CONDitions ran.
- **`CommandProofs`** - the proofs about `Watch`, `PowerViewStart`, `BackendSession`,
  `Configuration`, `DapProxy` and `PerFile`.
- **`DebugCommandProofs`** - the proofs about `CommandLine`, `Reports`, `Verify`,
  `VscodeInstall`, `CheckRun` and `RegisterLookup`.
- **`Configuration`** - `trace32.toml`, the environment and defaults.  `Settings`
  has one record per setting: its type, its variable, and the rule by which the
  variable wins.
- **`MemoryApi`** - reads and writes in chunks, symbol answers as sequences of
  parameters, functions, the version, addresses as text.
- **`MCCommands`** - runs these from `CheckRun` on, one per behaviour (`running`), as
  the process does.

Every module is parameterised by CONSTANTS with named assumptions.  `ClockCommand` and
`ClockViews` use RECURSIVE operators, since they follow a recursive descent or recursive
drawing; the others do not, so that each can be proved about.

## Runs

Each passing run fires every action of its module.  "Mutant" bugs the
properties notice are in `PROJECT.json`.

| run | shows | bounds, and why they are enough |
|---|---|---|
| `Parts` | the connection: answers reach their own call but for a full turn of the id; out of sync only across a wrap; implements `RclCalls`; calls return unless PowerView keeps sending what answers nothing.  The terminal: implements `RttStreams`; input and output drain.  The proxy process: one session; adapter stopped; no success after the error of a session, nor by an adapter that exits before one ended; the process ends.  The sequences: success means ready; FLASH.ReProgram left; erase only after the own script; sequences end | `part` = connection: 3 ids, 8 calls: more than two turns, so a wrap, a full-turn delay and what follows both occur; 2 Debuggers; any number of keepalives, parts of frames and malformed responses, one on the wire at a time; terminal: rings of 3 cells hold 2: full, empty and wrapped rings; 2 bytes out, 3 in, one reset; proxy: 3 connections (one session, one racing, one silent), exit codes 0, 3 and a signal; sequence: ELF and one extra image, every subset of the 4 options with an effect on another command, one foreign script |
| `DapSession` | one answer per request, under its name; of the proxy's own requests only a late answer to `continue` reaches the IDE, and Locals are answered by the proxy; restarted target runs; restarts answered unless a side does not read | 3 requests, 2 of them restarts: two restarts overlap beside another request |
| `DebugSession` | no register read, without a warning, with conditions from before a command that dropped the snapshot, and while the core is seen running none from before any change; `do` waits for its script; commands return | one END allowed (50 in the code: they only repeat), two commands in a sequence (first, last), time-out after one poll |
| `Algorithms` | the script chosen is the one with the best claim; clocks follow their sources, loops end; expressions and descriptions are read as they mean, or refused; the views show every clock once (by source, those that have one); an address from a PER file is certain; frames and messages come out as sent, none is held back or lost before a failing read, and failures have a cause | `which` = flash: catalogs of 2 scripts with up to 2 of 4 patterns (a tie, a better one, none); clock: 3 clocks wired in every way, with 7 settings each (loops of 1 to 3); view: every report of 3 clocks; command: every expression of up to 4 tokens (5 of some), every pair and triple of operators, and 10 calls over 6 directories of descriptions that are usable, cyclic or broken in one way each; per: every file of 5 of 12 lines (a tree that inherits, ends, or sets its own base; a line of another register, which ends the wait for a field); rcl: 3 frames of 0, 3 or 8 bytes (no, some and no padding); dap: 3 messages with headers at and over the limit; reads of any length up to more than a frame.  `GlobAssumption` also compares `GlobMatch` with its meaning on every pattern and text of up to 4 characters.  2.3 million states |
| `Commands` | verdicts of `check` follow from what each check read, and the core stops only as asked; "match" means equal; the watch window is what was asked for or untouched; "started" and "reused" are true; the installer loses nothing; a fault report explains the fault; the trace is fresh; `reg` shows one register; the command line keeps its word; the library's snapshot is current; the configuration is sound; memory is read and written exactly, symbols are as they came, numbers and addresses are what their text says | `running` = check: files of up to 2 of 14 tables (every form of read and expectation, a table without symbol, two that do not parse) over values of 2 bits; verify: 1 or 2 images with chunks of 2 bytes (segments shorter, longer and empty) and 1 write of the target; watch: 2 names; open: 2 tools, the ready loop polled once; vscode: 2 runs of the installer on 2 files of 5 documents, 1 save; report: 5 cores (in and out of Hyp mode, at an entry of the active and of another table, running, 64 bits), 1 move between the reads; reg: 4 names over PER files of up to 2 of 5 definitions (same or other address, read-only, other choices, a register with the path of a field), the offset of an address told or not, contents below and above the width that is compared; cli: every command, 15 argument lists of `debug`, 2 moves of the world; backend: 3 operations of at most 2 changes, which may fail anywhere and leave something behind; configuration: a complete file, changed in any 2 of about 150 ways; api: reads and writes of up to 5 bytes in an address space of 5 (so that it wraps), all symbol answers of up to 3 parameters and what may stand in front, all texts of 4 tokens.  1.4 million states |
| `RclLink_usable`, `DapSession_late`, `DapSession_locals`, `DebugSession_change`, `Algorithms_boxes`, `Commands_quoting`, `Commands_json` | the disagreements below | as above or smaller |

The type invariants of `RclLink`, `RttChannel`, `DapSession`, `DapProxy`,
`TargetSequence` and `DebugSession` are proved; the others are checked only through
the properties that use the variables.

Deadlock is checked for `RclLink`; the other systems may really stop (a
finished sequence, an ended session, an input that is exhausted), which in `Parts` is
the action `MayStop`.

Bounds in guards (`MaxCalls`, `MaxNoise`, `MaxResets`, `MaxUp`, `MaxTyped`,
`MaxRequests`, `MaxOthers`, ...) are named CONSTANTS; the proofs hold whatever their
values.

## Fairness

- `RclLink`: weak fairness of `Receive`: one thread loops over socket reads that
  have a time-out.  Nothing is assumed of PowerView.  The time-out is one of a read, so
  a call may wait for ever while PowerView keeps sending what answers nothing;
  `CallReturns` says that it is the only way.
- `RttChannel`: weak fairness of the host's loop and of a firmware that
  initializes RTT and reads its input; run-time access works from some time on
  (else nothing can be promised).  What the firmware writes is free.
- `DapSession`, `DapProxy`: the runtime runs every task that can run; the waits
  of `backend_request`, `connect_backend` and `terminate` are bounded in the code.
  Nothing is assumed of the IDE, the user or the adapter.  A write to the IDE or to the
  adapter blocks when that side does not read; the `continue` of a restart is written
  outside its 5 s, so `RestartsAreAnswered` holds unless the session ends or a side
  is deaf.
- `TargetSequence`, `DebugSession`: the session takes its next step, since every
  call returns as long as PowerView does not keep the connection busy without an answer
  (`CallReturns` of `RclLink`).  Scripts, dialogs, the core and the user may do nothing
  for ever.

## Proofs

`RclLinkProofs` proves, for every `Modulus > 0` and all bounds:

- `TypeCorrect`: `[]RclTypeOK`;
- `OwnAnswer`: `[]ForeignAnswerNeedsFullTurn`;
- `LateAnswersSkipped`: `[]OutOfSyncOnlyAcrossWrap`;
- `Implementation`: `RclLink` implements `RclCalls`.

The assumptions are `ModulusAssumption` and `BoundsAssumption` of `RclLink`.

The invariant `IInv` adds to `RclTypeOK` what makes the argument work: the answers
decoded, then those on the wire, then those PowerView still owes are in the order
of their requests (`Ordered`, `Before`, `Unanswered`), none is older than the
latest accepted nor newer than the counter (`Within`).  It is needed because
`take_response` compares ids only: when the ids of two requests agree, the
requests are a multiple of `Modulus` apart (`SameId`), and when the late id is
the larger one the counter wrapped in between (`LargerId`); both need that an
answer under way is never newer than the current request, and "at most once"
needs the order.  `TypeStep`, `StreamStep` and `LastStep` show that each
action keeps the parts; `RefinementStep` maps each action to one of `RclCalls` or
a stutter.

`RclLinkProofs` proves of `MemoryApi`, for calls, answers and texts of any length, chunks
of any size, and whatever the target writes in between:

- `MemoryExact`: `[]MemoryIsExact`;
- `SymbolsTaken`: `[]SymbolsAsTheyCame`;
- `ValuesWhole`: `[]ValuesAreWhole`;
- `ApiAnswers`: `[]ApiAnswersFaithfully`, the three together, which the run checks.

The specification is `ApiSpec`. Of a read, `ReadSays` keeps that each byte so far was held
by its own address during the call; of a write, `WriteSays` that what was put is the
`Beginning` of the data up to the next chunk, which `Placing` carries from one chunk to the
next, a part of a chunk that failed included. Of a symbol, the property says which answer
the code makes of which stream, not that the stream was whole: a parameter that it skips may
be cut, and a stream may stop between two parameters, without `XX`. `SymbolRead` says what
the first parameters of the stream make of it: its last name with the extensions after it
(`NameIs`), its last address (`AddressAt`), whether the next parameter is one of an address,
and that each of them is `Proper` where it stands. `ParametersAre` says that a step takes
one parameter or two and `ReadOn` what follows; `StreamEndIs`, `ExhaustedIs` and `RefusedIs`
relate where the code stops to the end and the faults that the property reads off the stream
as a whole. The number of `practice_state` is computed in one direction and spelled in the
other: `FoldedIs` and `ValueIs` give both by the equations of their functions, and
`FoldedIsValue` compares them place by place. Induction is not at hand there; a least place
where an equation fails, or where the two differ, replaces it (`Following`, `FirstPlace`).
`CapKept` shows that a number that became too large stays so, which is why checking every
multiplication is enough. `AfterClassIs`, `NumberIs` and `AddressIs` relate what
`Address::parse` tests, one text after another, to how an address is written.

`CommandProofs` proves of `DapProxy`, for any set of connections and any set of exit codes:

- `TypeCorrect`: `[]ProxyTypeOK`;
- `OnlyOneSession`: `[]OneSession`;
- `NoAdapterLeft`: `[]AdapterStopped`;
- `HonestExit`: `[]ExitCodeIsHonest`: exit code 0 is returned only after the stream of
  a session came to its end or for a signal, and the error of a session always makes
  it another one.  The end of the stream may be the IDE's or the adapter's, who closed
  it or died: the code does not tell them apart.

The invariant adds to `ProxyTypeOK`: `SessionInv`, that a connection past the check
of `session_active` holds the flag, is the only one, and that the flag stays set
once a session finished (without it nothing rules out a second session after the
first left the states that `OneSession` names); `ErrorKept` and `ResultInv`,
which carry the reason of an exit code from the branch of `select!` that found
it to the exit, through the seconds of `terminate`; and `AdapterInv`, that no
adapter exists before it is started and that its exit status is one of
`ExitCodes`.  `FinishStep`, `ClientStep` and the lemmas after them show that
each action keeps the parts.  The only assumptions are those of the module on
its constants.

`TargetSequenceProofs` proves, for any number of images and of foreign scripts:

- `TypeCorrect`: `[]SequenceTypeOK`;
- `ModeIsLeft`: `[]ReprogramLeft`.

`ReprogramLeft` speaks of the end of a sequence and is not inductive: nothing in
it says that what is still to be sent will leave the mode.  The invariant adds
`Followed(todo)`: in the commands still to send, the command that enters the mode
and every load of an image is followed directly by another load or by the
command that leaves it.  The first half of the module shows that concatenation
and `Tail` keep this (`ChainedConcat`, `FollowedConcat`, `FollowedTail`), hence that
`program` and every other sequence has it (`ProgramFollowed`, `SequenceFollowed`);
the second half that with the mode on, the next command is one of these, and that
a failed load puts the command that leaves the mode in front (`FailStep`).

The second part proves, for any number of images, every project file and whatever
scripts and other users do:

- `ReadyAtSuccess`: `[]SuccessMeansReady`, what `flash`, `load`, `reset`, `attach` and
  `reset_and_stop` report at their end is true;
- `EraseComesAfterReset`: `EraseAfterOwnReset`.

A command near the end relies on one many steps before it, so the invariant
speaks of the commands to come: for each thing a command `X` or the end needs
(system up, core halted, target down, image loaded, ...) it is *true now and
undone by no command that comes before `X`*, or *brought about by a command still
to come* and not undone after that (`Safe`, `Assured`, `Holds`).  `Holds` is a
statement about a sequence and a set of commands that bring about, and one of
commands that undo; the lemmas on `Tail` and concatenation say what a step does to
it once and for all, `ScriptReady` states that each sequence of the code begins with
it, and `Ready` collects the instances.  The prover's work is mostly in the commands
that are skipped, replaced (an `Up` that becomes an `Attach`) or put in front
after a failure (`Kept`).  `ReadyAtSuccess` turned out not to depend on what
foreign scripts do; `EraseComesAfterReset` does, as its statement says.

`DapSessionProofs` proves, for any number of requests and restarts and any
references:

- `TypeCorrect`: `[]TypeOK`;
- `AnsweredAtMostOnce`: `[]AnsweredOnce`.

A second answer could come from each of the four kinds of task.  The invariant
says where a request of the IDE is: in the client pump, with the adapter, on its way
back, in the backend pump, with its restart, or answered - at one of these
places, with the command's name still registered until it leaves.  Each
action moves a request from one place to the next (`PlaceStep`).

The second part proves:

- `SidesAreKeptApart`: `[]SidesStayApart`;
- `RestartsRunTheTarget`: `[]RestartedTargetRuns`.

The proxy's own requests have numbers of their own; `Numbered` and `Whereabouts`
say who holds a number and where the `continue` that bears it, or its answer, can be,
so that an answer is let through only after its restart gave up (`Refused`).
`LocalsInv` relates a `variables` request under way to the scopes recorded when it was
sent.  `RunInv` is about the target: after the last reset of all restarts a
`continue` is still to come, is under way, or was carried out, and only a failed
one leaves the target halted.

`DebugSessionProofs` proves, for any number of polls, seconds, ENDs and commands:

- `TypeCorrect`: `[]TypeOK`;
- `ReadsAreFresh`: `[]SnapshotAfterOwnCommand`;
- `SuccessMeansScriptEnded`: `[]DoMeansEnded`.

`Places` says which command can be at which call with which local variables (the
program counter has no such structure in itself); with it, `FreshInv` says where a
snapshot taken before an own command can no longer be read without a warning,
and that a script that `do` waits for stays on the PRACTICE stack until `do` has seen
it leave.

`RttChannelProofs` proves, for rings of any size, any number of bytes typed and
written, and any number of resets:

- `TypeCorrect`: `[]RttTypeOK`, no offset leaves its ring;
- `Implementation`: `RttChannel` implements `RttStreams`.

The first part is about offsets: `Used` and `Free` without `%` (`UsedIs`, `PosIs`),
different bytes are in different cells (`PosInjective`), and what the contents of
a ring become when bytes are added, taken, or written into free cells
(`ContentsGrow`, `ContentsShrink`, `ContentsSame`, `ContentsExtend`).  The
invariant is about the operation in progress.  `TornInv`: unless a reset cut it in
two, the descriptors are valid, and if it cut a write, the down ring is empty.
`UpRead`: what `read_up` has read are the first bytes of the ring, up to the `WrOff` of
its descriptor, although the firmware keeps adding bytes behind it.  `DownWritten`:
what `write_down` has written are the first bytes of the input, in free cells
behind the contents, although the firmware keeps taking bytes.  Without these,
setting an offset at the end of the operation could not be mapped to one step
of the abstract streams; with them `RefinementStep` maps each action to one step
or a stutter.

`AlgorithmProofs` proves of the decoders, for frames and messages of any length and any
split of the stream into reads:

- `ResponsesAreAsSent`: `[]ResponsesAsSent`;
- `MessagesAreDelivered`: `[]MessagesDelivered`.

Both invariants say that the buffer holds consecutive bytes from the beginning of
the first frame or message not decoded yet (`FrameBuffer`, `BufferInv`); the frame
decoder may instead be empty, with alignment bytes of the frame before still
missing.  As frames begin at different positions, the one the buffer starts with
is that frame (`BufferStartsNext`, `FrontIsNext`).  `Alignment` shows that rounding
up a length, as `feed` does, consumes what `encode_frame` appends.  `NoFrameWaits`
and `NoneWaits` hold when `feed` returns and are kept while more is sent;
`RefusalHasACause` is where the limit on an incomplete header costs up to 3 bytes.

Of the clock tree it proves, for any number of clocks in any order, wired in any way:

- `ClocksFollow`: `[]ClocksFollowTheirSources`.

`ClockInv` says what the recursion keeps: the calls under way are a walk of different
clocks from one to the next it runs from (`CallsNow`); an answer is what is known of
the clock the latest call asked for, or the error of a clock under way (`AnswerNow`);
and what is kept of a clock follows from what is kept of its source, unless it was
found on a loop (`Settled`), so that a frequency has a root and an `off` a switch
(`Reasons`).  A clock with a root is on no loop (`RootedIsNoLoop`), which is why the
error a loop begins with never becomes a frequency.  The rest is about chains: one
exists for each clock (`ChainExists`, the longest walk of different clocks), and along
it the frequency is what `ChainHz` computes (`ChainHzIs`; the function that
`ChainHz` chooses exists because the frequencies shown are one).  Each of these
would be an induction over the chain; a least counterexample takes its place.

Of the flash script, for any catalog, patterns and chip:

- `ChoicesAreBest`: `[]ChoiceIsUniqueBest`.

Half of it is `GlobMatchFits`: the loop of `glob_match` accepts exactly the texts a
pattern can be cut to fit. `loop` is chosen by TLA+, so it has to exist before
anything is known of it: `RunsDecide` gives for any machine with one next place a
function that decides where its runs end, and `GlobLoops` takes it. Of the places
where the answer were wrong one would be furthest (in `mark`, then in `p`), and each
branch of the loop refutes it (`GlobTakesOne`, `GlobMeetsStar`, `GlobGoesBack`); that
only the latest `*` has to be gone back to is right because whatever fits with more
for an earlier `*` fits with more for the latest (`LaterFromHere`). The other half is
order: a finite order has a highest element (`SomeIsHighest`), hence `BestPattern` and
the first rank exist, the claim of a script's best pattern is its strongest
(`BestClaimIs`), claims compare as ranks do (`RanksCompare`), and the holders of a
strongest claim are the first candidates (`ForemostHold`). `CatalogAssumption` says
that no name of a chip has a `*`: `glob_match` would take it for a literal and a
pattern `*` would then fit the character `*` alone.

`CommandProofs` proves also, for any number of names, of runs at once and of operations,
and any settings:

- `WatchedAsNamed`: `[]WatchExactly`;
- `StartsAreHonest`: `[]StartIsHonest`;
- `SessionsReadCurrentTarget`: `[]SessionReadsCurrentTarget`;
- `ConfigurationsAreSound`: `[]ConfigurationIsSound`.

Each invariant ties what the property says to the step the command is at. `WindowNow`: what
the window holds; `RunKnows`: what a run of `open` has learned of its child, which no other
run changes (`OneRunActs`); `SnapshotIsCurrent`: no operation of the session changed the
target since a snapshot that is there was taken, unless PER.Set.CONDitions failed then, with
a warning, and the snapshot counts as taken all the same; and an operation that changes the
target has none. What an operation left behind changes later is no change of an operation:
of it, and of other tools, the property promises only that a core seen running is not read
under an earlier check. `RangeIsWords` adds that a range `ram_length` accepts is whole words
of existing memory, and `VariantsAreNamed` that `check_names` chooses a check of a variant
or refuses.

For the configuration, the property says for each setting which source wins and that the
value is that source's. `FoundInv` follows the search upwards, and `PassedInv` says at each
step which reasons to refuse are ruled out by then; most lemmas are about one setting with
four sources: that what cannot be read is refused although a variable overrides it
(`UnreadableIsRefusable`), and that nothing else is (`PassedIsNotRefusable`,
`BadNumberIsWrong`, `BadMarkIsWrong`).

`CommandProofs` proves of the scan of a PER file, for any lines and a file of any length:

- `AddressesAreCertain`: `[]AddressFromFileIsCertain`.

The property tells what a line means from positions: the trees around it are those not
closed in between, by a count of tree lines; its base is the latest that stands in a tree
around it and in no other; its group the latest that no tree line follows. The scan keeps a
stack, one open group and a waiting candidate instead. `PerInv` says that after every line
these agree: the stack holds the trees around the next line, the outermost first, each with
the base that holds inside it (`StackIs`), the group is that of the next line (`GroupSays`),
and the candidates are those of the definitions in the order of the file, of which the last
one waits exactly if its field may still come, that is, before any line of another register
(`FoundIs`). The work is in a tree that ends. `TreesAreNested` shows that trees are enclosed
one in another, by the depth of each line (`Depth`, `EnclosingIs`); `AfterEnd`, that an end
closes the innermost; and `EndRestores`, that the base is then again what it was at that
tree's own line, which is why the entry below on the stack still has the right one. What was
found keeps its meaning when a line is added (`SameTrees`, `SameBase`, `SameGroup`,
`SamePath`), but for the field that is waited for (`FieldGoesOn`).

`DebugCommandProofs` proves, for any arguments, machine states, symbol tables,
listings, PER files, images, documents and checks, and whatever other commands, tools, the user
and the target do:

- `CommandLineIsHonest`: `[]CommandLineKeepsItsWord`;
- `TracesAreFresh`: `[]TraceIsFresh`;
- `FaultsExplainThemselves`: `[]FaultExplainsItself`;
- `MatchesAreEqual`: `[]MatchMeansAllEqual`;
- `FilesAreBackedUp`: `[][ReplacedAfterBackup]_installVars`;
- `NothingIsEverLost`: `NothingIsLost`, that is, `[]MergeKeepsUserItems` as well;
- `VerdictsAreTheirOwn`: `[]VerdictsAreOwn`;
- `RegistersAreOne`: `[]ShowsOneRegister`.

For the command line, `CliInv` has a part for each promise.  `WhereInv`: which commands
can be at which step; `UsageInv`: what is still untouched where a usage error can come,
`rtt` included, whose arguments are parsed after the configuration; `PickInv`: what
is run is what was resolved from the arguments and `trace32.toml`, checked before;
`FileInv`: what is about to be replaced is in a backup; `DocsInv`: no document before
the end.  `JsonIsUnderstood` shows for lines of any length that splitting off a
trailing `--json` and then parsing finds `--json` exactly where `JsonAsked` says, and
leaves none in the rest; `ScriptIsAsked`, `CpuIsAddedOnce` and `SilenceMeansUsable` are
about the flash script, `CPU=` and `config.t32`.  "The first", "the last" and "as
far as" are least elements of sets of positions: `EarliestIsIn` shows that they exist.

For the reports, `ReportInv` follows the questions.  `TraceNow` and `ListingNow`: from the
removal of the listing on, what is in it was exported later, by this command or
another; `FaultTold` and `FaultKnows`: which registers have been answered at each
step, and that they are those of the core if it did not move; `LookupNow` and
`LookupsDone`: a symbol is kept only with the offset of its own begin, for each of
the three questions that may fail.  `DataAbortBits` and `VectorSlots` relate the
decoders, which work on numbers, to the bits and the entries the property names;
`RankedIsIn` and `PickedIsSequence` say what filtering a list gives.

For `verify`, `VerdictNow` says at each step what the exit code, the count of the image
under way and the bytes read so far say together: a count that was lost between
two segments, or an exit code replaced by that of a later image, would break it.

For the installer, `Safe` says that from the backup to the rename, what is to be replaced
is in a backup or was saved after it.  `DocumentsInv` says that what is to be written
was merged from what was loaded (`MergedFrom`), for documents of any length:
`MergeKeeps` shows it by counting positions (`RankedBy`, and `PickedAgain`: a list
filtered twice is the list filtered by both), and `MergeAgain` that every item of a
merged document stays, so that merging again changes nothing.

For `check`, `CheckInv` says of the lists what the property says at the end: every
resolved check is about the selected check at its place (`IsPrepared`), every verdict
about the resolved one at its place and what was read for it (`IsVerdict`), whatever
step comes in between; and of the steps, that the core is stopped only after a check
that needs it was resolved.  `HoldsIfMeets` relates what the code computes, a masked
number equal to an operand, to what a table asks for, equal bits where the mask has
ones: by `BitsCompare` numbers of `Width` bits are equal exactly if their bits are, and
some number has any given bits.

For `reg NAME`, `RegInv` says of each thing shown whose it is, as soon as it is known:
`KnownRegister` (the definition a resolved path means, and its address), `KnownValue`,
`KnownChoice`, `ReadAtAddress`, `SuggestedByAll`; file, view and name stay, so that what was
known stays. Most lemmas are about what `find` and `find_partial` return: `FindMembers`
(exactly the definitions of the name), and that a path tried first, or the path of a
candidate, means that candidate. Two limits of the code are in the property. Paths are
texts, so a field of a register and a register of a tree of the same name have one path:
then PowerView may mean the one and the file the other (`MayBeFieldOf`). And PER.ADDRESS is
read from a text when ADDRESS.OFFSET does not tell it, which is another number for some
coprocessor registers (`PerAddress`): the address may be wrong, and is shown as confirmed
only when the value read there is the register's in its low 32 bits (`IsConfirmed`).

All assumptions are those of the modules on their constants.  `PowersOfTwo` of `CheckRun` is
arithmetic and no restriction: the provers know nothing of `2 ^ k`.

Model-checked only: all liveness properties (TLAPS does not treat fairness and
ENABLED here), and the safety of `ClockCommand` and `ClockViews`
(`DescriptionIsHonoured`, `ViewsShowEveryClockOnce`), which use RECURSIVE operators.
What those operators compute (`ParseLevel`, `Visit`, ...) is compared with its meaning
over bounded inputs: it needs induction over data, out of reach here.  Where a
search has a first hit, as in `CommandLine`, or a function walks along a sequence, as
in `practice_state`, a least element replaces the induction.

## Disagreements

Runs that end in a counterexample, each of a statement the repository makes:

- `RclLink_usable`: `debug/probe.rs:77` says time-outs leave the connection
  usable.  After a time-out of the request with the last id, its late answer
  makes the next call report a broken connection.
- `DapSession_late`: `dap/proxy.rs:20` says answers to the proxy's own requests
  never reach the IDE.  One that comes after the 5 s does.
- `DapSession_locals`: `dap/proxy.rs:12` says `variables` of a Locals scope are
  answered with an empty list.  A restart forgets the Locals references up to 5 s
  before the IDE hears that the target continued.
- `DebugSession_change`: `debug/probe.rs:357` says the IF conditions are taken
  again after a state-changing command.  A command that fails after its effect returns
  before it drops the snapshot: `cmd` or `run-until` that timed out, `reset` or `attach`
  at a later command, `do` of a script that ends in a dialog, a STOP, an error or the
  time-out.  The library (`backend.rs`) drops it before each operation.
- `Algorithms_boxes`: `clockhtml.rs:69` says that every clock has a box in each view, and
  `README.md:563` of the repository that the whole tree is printed.  Clocks on a loop have
  no line in the text and no box in the view by source; the exit code is 0.
- `Commands_quoting`: `config.rs:463` says that embedded values must not break the
  quoting of a command.  `extra_elf`, which `target.rs:124` puts into one, is not checked.
- `Commands_json`: `README.md:365` and `debug/mod.rs:56` say one JSON document per
  command.  A missing or refused configuration ends the command before
  (`cli.rs:168`) with a text and no document.

Not disagreements, but worth knowing; the models show them and no statement of
the repository excludes them:

- a check whose symbol does not resolve still counts for `needs_halt`, so a file
  can be refused for a running core although the check is not read;
- when a call after `Break` fails, `check` ends without saying that it stopped the
  core;
- a `watch` that fails after `PER.ClearWatch` leaves a part of the window;
- what the user saves between the backup and the rename of the installer is
  overwritten without a backup;
- two `tracebridge open` at once start two PowerViews, and the one without the
  port is reported as started, for the other answers;
- `[clock]` refuses a frequency written as a float, although the error asks for a
  number of Hz;
- a relative flash script is resolved against the directory of `trace32.toml`, the
  comment at `config.rs:443` says the project root;
- `rcl_port` and `dap_port` may be equal;
- `ensure_run_dir` interrupted after it created `.gitignore` leaves it empty, and no
  later run writes it;
- `rtt --help` and its usage errors need a configuration, those of `debug` do not;
- Ctrl-C between the release of the process's handlers and the command's own is
  swallowed;
- an interrupted `init` leaves a partial `trace32.toml`, which the next `init` refuses
  to touch;
- the time-out of a call is one of each socket read: keepalives or trickled data postpone
  it without end;
- an adapter that dies within its session ends the stream as one that closes it: the
  proxy returns 0 if it sees that end before the exit;
- an adapter or an IDE that stops reading blocks a restart for ever, and with it every
  other message to that side;
- decimal results lose their last character whatever it is (`eval.rs:50`), and answers of
  symbols cut within a skipped parameter or between two are accepted;
- a PER.Set.CONDitions that fails is a warning, and the snapshot counts as taken: checks
  that follow read under the conditions of before and do not repeat it;
- the snapshot is compared by mode and run state: a core that ran and was stopped again
  between two checks, by the user, a script left behind by `do`, or a `Break` of `check`
  without an answer, is read under the conditions of the first;
- when ADDRESS.OFFSET fails, the address of a coprocessor register is read from a text, and
  may be another one; its value may be the same by chance.  The right address of a field
  is called failed when its register cannot be looked up;
- a register and a field of the same path may be shown with each other's choice text;
- a core whose STATE.RUN() fails counts as halted for `check`.

## Not modelled

- The inside of parsers that a library or a table does: TOML, JSONC (`jsonc.rs`),
  ELF headers, XML, and `pycompat.rs`, which imitates Python's number and text
  formats.  The models take what they accept as input.
- Text: colours (`style.rs`), labels, help, the toolbar script, the page's markup,
  the bodies of generated files.  A model keeps what a text says where a property
  is about it.
- Payload encodings of RCL calls and JSON bodies are abstracted to their parts.
- How a PowerView process is set up (options, environment, `ui.rs`), and the line
  editing of the debug shell.

The remaining gaps of modelled parts are in the notes of `PROJECT.json`.

## Plan

1. Done, models: all components of the table above.
2. Done, proofs: the safety of the connection, the decoders, the RTT terminal, the DAP
   session, the proxy process, the target sequences, the debug session, the watch
   window, `open`, the installer, the library's sessions, the configuration, the command
   line, the reports, `reg`, `verify`, `check`, the clock tree, the choice of flash scripts,
   the scan of PER files, the memory and symbol API, and both refinements.
3. Left to TLC: `ClockCommand` and `ClockViews`, whose recursion cannot be proved about,
   and liveness.
