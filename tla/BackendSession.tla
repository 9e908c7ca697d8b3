--------------------------- MODULE BackendSession ---------------------------
(***************************************************************************)
(* backend.rs: the library that a board runner links.  A Session owns one  *)
(* connection and one PER snapshot (PerSnapshot in probe.rs), and the      *)
(* runner calls its operations one after the other, in any order.  Other   *)
(* tools stop and start the core meanwhile, and so does what an operation  *)
(* left behind: a script of run_script that timed out or of `DO`, a        *)
(* command that timed out and is carried out later.                        *)
(*                                                                         *)
(* What the operations do is in TargetSequence (reset, flash, load),       *)
(* DebugSession (run_script, run_until), CheckRun (check), Verify, Reports *)
(* (trace) and ClockCommand (clock); here an operation that changes the    *)
(* target is some number of changes and then an answer.                    *)
(***************************************************************************)
EXTENDS Naturals, Sequences, FiniteSets

CONSTANTS
  RamSize,      (* number of addresses, 2^64 in the code                  *)
  MaxRead,       (* most bytes of one read of RAM                          *)
  RamAddresses, RamCounts,
  CheckLists,    (* checks of a file: their variants, or AnyVariant        *)
  AnyVariant,
  VariantNames,  (* variants asked for                                     *)
  MaxOperations, (* bound: operations of the runner                        *)
  MaxSteps       (* bound: changes of one operation, acts of other tools   *)

ASSUME BackendAssumption ==
  /\ {RamSize, MaxRead, MaxOperations, MaxSteps} \subseteq Nat
  /\ RamAddresses \subseteq 0 .. RamSize - 1 /\ RamCounts \subseteq Nat
  /\ AnyVariant \notin VariantNames

VARIABLES
  operation,     (* the operation under way, or "none"                     *)
  opAt,          (* its next step                                          *)
  answer,        (* how the latest operation ended                         *)
  snapshot,      (* PerSnapshot.taken                                      *)
  since,         (* what changed the target since PER.Set.CONDitions ran:  *)
                 (* an operation, check --halt, what one left behind; and  *)
                 (* "moved" when it had another mode or run state meanwhile*)
  warned,        (* PER.Set.CONDitions failed since the latest operation   *)
                 (* that changed the target, with no more than a warning   *)
  state_told,    (* the DebuggerState that PerSnapshot::ensure read        *)
  left_behind,   (* something that an operation began is still under way   *)
  target_state,  (* the core, as DebuggerState tells it                    *)
  steps,         (* changes of this operation                              *)
  strangers,     (* acts of other tools, and of what was left behind       *)
  operations,    (* operations begun                                       *)
  kept_since,    (* history: since, when the snapshot was used again       *)
  read_at,       (* history: how the latest PER register was read          *)
  accessed       (* history: RAM reached by the latest operation           *)

snapshotVars == <<snapshot, since, warned, state_told, kept_since>>
outsideVars == <<target_state, left_behind, strangers>>
backendVars == <<operation, opAt, answer, snapshotVars, outsideVars, steps, operations, read_at,
                 accessed>>

TargetStates == {"halted", "running", "down"}
Changing == {"reset", "flash", "load", "resume", "command", "run_script", "run_until"}
Reading  == {"verify", "check", "clock", "trace"}
Own      == {"operation", "halt"}
NotRead  == [since |-> {}, warned |-> FALSE, state |-> "none"]

(* ram_length: the length in bytes, or 0 when the range is refused.        *)
RamLength(address, count) ==
  LET length == 4 * count
  IN  IF length = 0 \/ length > MaxRead THEN 0
      ELSE IF address % 4 # 0 \/ address + length >= RamSize THEN 0
      ELSE length

(* check_names: positions of the checks of a variant; a variant that no    *)
(* check names is refused when some check is of a variant.                 *)
CheckNames(list, variant) ==
  LET named(i) == list[i] # AnyVariant /\ variant # AnyVariant /\ variant \in list[i]
  IN  IF /\ variant # AnyVariant
         /\ \E i \in DOMAIN list : list[i] # AnyVariant
         /\ ~\E i \in DOMAIN list : named(i)
        THEN {0} ELSE {i \in DOMAIN list : list[i] = AnyVariant \/ named(i)}

-----------------------------------------------------------------------------
(* Session::connect                                                        *)
BackendInit ==
  /\ operation = "none" /\ opAt = "idle" /\ answer = "none" /\ snapshot = "none" /\ since = {}
  /\ warned = FALSE /\ state_told = "none" /\ kept_since = {} /\ target_state \in TargetStates
  /\ left_behind = FALSE /\ steps = 0 /\ strangers = 0 /\ operations = 0
  /\ read_at = NotRead /\ accessed = {}

Called(op, next, how) ==
  /\ opAt = "idle" /\ operations < MaxOperations /\ operations' = operations + 1
  /\ operation' = op /\ opAt' = next /\ answer' = how /\ steps' = 0
  /\ read_at' = NotRead /\ kept_since' = {} /\ state_told' = "none" /\ accessed' = {}
  /\ UNCHANGED <<since, warned, outsideVars>>

Returns(how) == opAt' = "idle" /\ answer' = how /\ operation' = "none"

(* A change of the state of the target is seen by whoever asks for it.     *)
Seen == IF target_state' # target_state THEN {"moved"} ELSE {}
Changed(who) == since' = since \cup {who} \cup Seen

(* Mutant: the snapshot is kept across an operation.                       *)
ChangeFirst ==
  \E op \in Changing : Called(op, "change", "none") /\ UNCHANGED snapshot

(* The snapshot is dropped before the operation, which may fail half-way;  *)
(* flash and load check their files before that.                           *)
Change ==
  \E op \in Changing :
    \/ Called(op, "change", "none") /\ snapshot' = "none"
    \/ /\ op \in {"flash", "load"} /\ Called("none", "idle", "failed") /\ UNCHANGED snapshot

(* resume: Go only to a core that is stopped; a Go without an answer may   *)
(* have been carried out, or may yet be.                                   *)
Resume ==
  /\ opAt = "change" /\ operation = "resume"
  /\ \/ target_state = "running" /\ Returns("ok") /\ UNCHANGED <<since, warned, outsideVars>>
     \/ /\ target_state # "running" /\ (Returns("ok") \/ Returns("failed"))
        /\ target_state' = "running" /\ Changed("operation") /\ warned' = FALSE
        /\ UNCHANGED <<left_behind, strangers>>
     \/ /\ Returns("failed") /\ left_behind' \in {left_behind, TRUE}
        /\ UNCHANGED <<since, warned, target_state, strangers>>
  /\ UNCHANGED <<snapshot, state_told, kept_since, steps, operations, read_at, accessed>>

(* One command of another operation, carried out whether it is answered or *)
(* not; nothing is sent twice.                                             *)
ChangeTarget ==
  /\ opAt = "change" /\ operation # "resume" /\ steps < MaxSteps /\ steps' = steps + 1
  /\ target_state' \in TargetStates /\ Changed("operation") /\ warned' = FALSE
  /\ opAt' = "change" \/ opAt' = "return"
  /\ UNCHANGED <<operation, answer, snapshot, state_told, kept_since, left_behind, strangers,
                 operations, read_at, accessed>>

(* The operation ends: a script of `command` has only begun, and one that  *)
(* fails may have left a script or a command that was not answered.        *)
ChangeReturns ==
  /\ opAt \in {"change", "return"} /\ operation # "resume"
  /\ \/ Returns("ok") /\ left_behind' \in {left_behind, left_behind \/ operation = "command"}
     \/ Returns("failed") /\ left_behind' \in {left_behind, TRUE}
  /\ UNCHANGED <<snapshotVars, target_state, strangers, steps, operations, read_at, accessed>>

(* images: explicit images replace those of the project.                   *)
SetImages ==
  Called("none", "idle", "ok") /\ snapshot' = "none"

-----------------------------------------------------------------------------
Read ==
  \E op \in Reading :
    Called(op, IF op = "check" THEN "ensure" ELSE "read", "none") /\ UNCHANGED snapshot

(* PerSnapshot::ensure: a snapshot of the same state of a core that stands *)
(* still is used again.                                                    *)
Ensure ==
  /\ opAt = "ensure"
  /\ \/ /\ snapshot = target_state /\ target_state # "running"
        /\ opAt' = "per" /\ kept_since' = since /\ UNCHANGED <<operation, answer>>
     \/ /\ ~(snapshot = target_state /\ target_state # "running")
        /\ opAt' = "conditions" /\ UNCHANGED <<kept_since, operation, answer>>
     \/ Returns("failed") /\ UNCHANGED kept_since
  /\ state_told' = target_state
  /\ UNCHANGED <<snapshot, since, warned, outsideVars, steps, operations, read_at, accessed>>

(* set_conditions: PER.Set.CONDitions that fails on a connection that is   *)
(* not lost is a warning; the snapshot counts as taken all the same.       *)
SetConditions ==
  /\ opAt = "conditions"
  /\ \/ /\ opAt' = "per" /\ snapshot' = state_told /\ kept_since' = {} /\ since' = {}
        /\ warned' \in BOOLEAN /\ UNCHANGED <<operation, answer>>
     \/ /\ opAt' = "per" /\ snapshot' = state_told /\ kept_since' = since /\ warned' = TRUE
        /\ UNCHANGED <<since, operation, answer>>
     \/ /\ Returns("failed") /\ since' \in {since, {}}
        /\ UNCHANGED <<snapshot, warned, kept_since>>
  /\ UNCHANGED <<state_told, outsideVars, steps, operations, read_at, accessed>>

(* A PER register is read.  check --halt sends Break, drops the snapshot   *)
(* and takes it again; a Break without an answer may have stopped the core.*)
ReadPer ==
  /\ opAt = "per"
  /\ \/ /\ opAt' = "read"
        /\ read_at' = [since |-> kept_since \cup (since \cap Own), warned |-> warned,
                       state |-> state_told]
        /\ UNCHANGED <<snapshot, since, warned, target_state, steps, operation, answer>>
     \/ /\ steps = 0 /\ target_state = "running" /\ steps' = 1
        /\ target_state' = "halted" /\ Changed("halt") /\ UNCHANGED <<warned, read_at>>
        /\ \/ snapshot' = "none" /\ opAt' = "ensure" /\ UNCHANGED <<operation, answer>>
           \/ Returns("failed") /\ UNCHANGED snapshot
     \/ /\ Returns("failed")
        /\ UNCHANGED <<snapshot, since, warned, target_state, steps, read_at>>
  /\ UNCHANGED <<state_told, kept_since, left_behind, strangers, operations, accessed>>

(* success: an exit code that is not 0 is an error of verify, clock and    *)
(* trace; check returns its report whatever it says; and a lost connection *)
(* ends any of them.                                                       *)
ReadReturns ==
  /\ opAt = "read"
  /\ \/ Returns("failed")
     \/ \E code \in {0, 1, 3} :
          Returns(IF operation # "check" /\ code # 0 THEN "failed" ELSE "ok")
  /\ UNCHANGED <<snapshotVars, outsideVars, steps, operations, read_at, accessed>>

(* read_ram_words and write_ram_word: plain memory, not a PER register.    *)
Ram ==
  \E address \in RamAddresses, count \in RamCounts, write \in BOOLEAN :
    LET length == RamLength(address, IF write THEN 1 ELSE count) IN
      /\ opAt = "idle" /\ operations < MaxOperations /\ operations' = operations + 1
      /\ IF length = 0 THEN answer' = "failed" /\ accessed' = {}
         ELSE answer' \in {"ok", "failed"} /\ accessed' = address .. address + length - 1
      /\ UNCHANGED <<operation, opAt, snapshotVars, outsideVars, steps, read_at>>

-----------------------------------------------------------------------------
(* Other tools stop and start the core; what was left behind changes the   *)
(* target, seen in its state or not, and ends.                             *)
StrangersMove ==
  /\ strangers < MaxSteps /\ strangers' = strangers + 1 /\ operations > 0
  /\ target_state' \in TargetStates \ {target_state} /\ since' = since \cup {"moved"}
  /\ UNCHANGED <<operation, opAt, answer, snapshot, warned, state_told, kept_since, left_behind,
                 steps, operations, read_at, accessed>>

LateChange ==
  /\ left_behind /\ strangers < MaxSteps /\ strangers' = strangers + 1
  /\ target_state' \in TargetStates /\ left_behind' \in BOOLEAN
  /\ Changed("left behind")
  /\ UNCHANGED <<operation, opAt, answer, snapshot, warned, state_told, kept_since, steps,
                 operations, read_at, accessed>>

BackendNext ==
  \/ Change \/ Resume \/ ChangeTarget \/ ChangeReturns \/ SetImages
  \/ Read \/ Ensure \/ SetConditions \/ ReadPer \/ ReadReturns \/ Ram
  \/ StrangersMove \/ LateChange

BackendSpec == BackendInit /\ [][BackendNext]_backendVars

-----------------------------------------------------------------------------
(* Property: a PER register is read under conditions from before the       *)
(* latest change of the target by an operation of the session, however     *)
(* that operation ended, only if PER.Set.CONDitions failed after the       *)
(* change, with a warning; and under conditions from before anything else  *)
(* that came meanwhile, only if the core did not run when the check began, *)
(* or with that warning.  RAM is reached in whole words, within the        *)
(* address space and the limit; and a variant that is in no check selects  *)
(* nothing rather than the checks of no variant.  (Session, PerSnapshot,   *)
(* ram_length and check_names.)                                            *)
SessionReadsCurrentTarget ==
  /\ \/ read_at.warned
     \/ "operation" \notin read_at.since /\ (read_at.state = "running" => read_at.since = {})
  /\ accessed # {} =>
       /\ Cardinality(accessed) <= MaxRead /\ Cardinality(accessed) % 4 = 0
       /\ accessed \subseteq 0 .. RamSize - 1 /\ \E a \in accessed : a % 4 = 0
  /\ \A list \in CheckLists, variant \in VariantNames :
       LET chosen == CheckNames(list, variant) IN
       chosen # {0} /\ (\E i \in DOMAIN list : list[i] # AnyVariant) =>
         \E i \in chosen : list[i] # AnyVariant

=============================================================================
