---------------------------- MODULE VscodeInstall ----------------------------
(***************************************************************************)
(* `tracebridge vscode` (crates/tracebridge/src/vscode/installer.rs):      *)
(* merges the project's tasks and launch configurations into the files     *)
(* tasks.json and launch.json of the user, one after the other: load,      *)
(* merge, back up, write a temporary file, rename.  The tool may be killed *)
(* between any two of these steps and run again, every step may fail, and  *)
(* the user may save the file in the editor at any moment.                 *)
(*                                                                         *)
(* A document is the sequence of its items; an item has a name, the fields *)
(* the user gave it, and whether it has the fields of the template.        *)
(***************************************************************************)
EXTENDS Naturals, Sequences, FiniteSets, Positions

CONSTANTS
  Files,        (* tasks.json, launch.json: a sequence                     *)
  TemplateName, (* the item of the template                                *)
  LEGACY,       (* names of the items of the Python tool                   *)
  Documents,    (* what the user may have in a file                        *)
  MaxRuns,      (* bound: runs of the tool                                 *)
  MaxSaves,     (* bound: saves of the user                                *)
  Missing,      (* no such file                                            *)
  Unreadable    (* not a JSON object with the array, or cut off            *)

ItemsOf(names, fields) == [name : names, fields : fields, ours : BOOLEAN]

IsDocument(items) ==
  items \in Seq(ItemsOf({items[k].name : k \in DOMAIN items},
                       {items[k].fields : k \in DOMAIN items}))

ASSUME InstallAssumption ==
  /\ TemplateName \notin LEGACY /\ MaxRuns \in Nat /\ MaxSaves \in Nat
  /\ Missing # Unreadable /\ {Missing, Unreadable} \cap Documents = {}
  /\ Len(Files) \in Nat \ {0} /\ DOMAIN Files = 1 .. Len(Files)
  /\ \A document \in Documents : IsDocument(document)

VARIABLES
  installAt,    (* the next step                                           *)
  target,       (* the file under way, as an index of Files                *)
  merged,       (* the document to write                                   *)
  disk,         (* the files                                               *)
  backups,      (* the backups of each, complete or Unreadable             *)
  temporary,    (* <name>.tmp.<pid> of this run                            *)
  runs,         (* number of runs                                          *)
  saves,        (* number of saves                                         *)
  seen,         (* history: the document loaded                            *)
  saved         (* history: the user saved since the backup                *)

installVars ==
  <<installAt, target, merged, disk, backups, temporary, runs, saves, seen, saved>>

-----------------------------------------------------------------------------
(* merge_named_items.                                                      *)

TemplateItem == [name |-> TemplateName, fields |-> "none", ours |-> TRUE]

(* Items of the old tool are dropped, and of several with the template's   *)
(* name all but the first.                                                 *)
Stays(items, k) ==
  /\ items[k].name \notin LEGACY
  /\ items[k].name = TemplateName => \A j \in 1 .. k - 1 : items[j].name # TemplateName

(* The item of the name gets the template's fields and keeps its others.   *)
Combined(item) == IF item.name = TemplateName THEN [item EXCEPT !.ours = TRUE] ELSE item

MergeNamedItems(existing) ==
  LET places == {k \in DOMAIN existing : Stays(existing, k)}
      mine   == Picked([k \in DOMAIN existing |-> Combined(existing[k])], places)
  IN  IF \E k \in places : existing[k].name = TemplateName THEN mine
      ELSE Append(mine, TemplateItem)

-----------------------------------------------------------------------------

InstallInit ==
  /\ installAt = "start" /\ target = 1 /\ merged = <<>>
  /\ disk \in [DOMAIN Files -> Documents \cup {Missing, Unreadable}]
  /\ backups = [f \in DOMAIN Files |-> {}] /\ temporary = Missing
  /\ runs = 1 /\ saves = 0 /\ seen = Missing /\ saved = FALSE

InstallEnds(how) ==
  installAt' = how /\ temporary' = Missing /\ UNCHANGED <<target, merged, seen, saved>>

InstallQuiet == UNCHANGED <<backups, disk, runs, saves>>

(* create_dir_all.                                                         *)
CreateDirectory ==
  /\ installAt = "start"
  /\ InstallEnds("load") \/ InstallEnds("failed")
  /\ InstallQuiet

(* Load, merge: a missing file is an empty document.                       *)
LoadAndMerge ==
  /\ installAt = "load"
  /\ \/ /\ disk[target] # Unreadable
        /\ merged' = MergeNamedItems(IF disk[target] = Missing THEN <<>> ELSE disk[target])
        /\ seen' = disk[target] /\ installAt' = "backup"
        /\ UNCHANGED <<target, temporary, saved>>
     \/ InstallEnds("failed")
  /\ InstallQuiet

(* Mutant: a backup that fails is no error.                                *)
BackupIfPossible ==
  /\ installAt = "backup"
  /\ backups' \in {backups, [backups EXCEPT ![target] = @ \cup ({disk[target]} \ {Missing})]}
  /\ installAt' = "write" /\ saved' = FALSE
  /\ UNCHANGED <<target, merged, temporary, seen, disk, runs, saves>>

(* backup of a file that exists now, under a name that is new.  A copy     *)
(* that fails is left cut off.                                             *)
Backup ==
  /\ installAt = "backup"
  /\ \/ /\ backups' = IF disk[target] = Missing THEN backups
                      ELSE [backups EXCEPT ![target] = @ \cup {disk[target]}]
        /\ installAt' = "write" /\ saved' = FALSE
        /\ UNCHANGED <<target, merged, temporary, seen>>
     \/ /\ disk[target] # Missing
        /\ backups' \in {backups, [backups EXCEPT ![target] = @ \cup {Unreadable}]}
        /\ InstallEnds("failed")
  /\ UNCHANGED <<disk, runs, saves>>

(* atomic_write: create, write_all, rename; a failure removes the file.    *)
WriteTemporary ==
  /\ installAt = "write"
  /\ \/ /\ temporary' = Unreadable /\ installAt' = "written"
        /\ UNCHANGED <<target, merged, seen, saved>>
     \/ InstallEnds("failed")
  /\ InstallQuiet

Written ==
  /\ installAt = "written"
  /\ \/ temporary' = merged /\ installAt' = "rename" /\ UNCHANGED <<target, merged, seen, saved>>
     \/ InstallEnds("failed")
  /\ InstallQuiet

Rename ==
  /\ installAt = "rename"
  /\ \/ /\ disk' = [disk EXCEPT ![target] = temporary] /\ temporary' = Missing
        /\ IF target < Len(Files) THEN installAt' = "load" /\ target' = target + 1
                                  ELSE installAt' = "done" /\ UNCHANGED target
        /\ UNCHANGED <<merged, seen, saved>>
     \/ InstallEnds("failed") /\ UNCHANGED disk
  /\ UNCHANGED <<backups, runs, saves>>

(* The process is killed, in a copy too; it is run again.                  *)
Killed ==
  /\ installAt \notin {"done", "failed", "killed"}
  /\ installAt' = "killed"
  /\ backups' = IF installAt = "backup" /\ disk[target] # Missing
                THEN [backups EXCEPT ![target] = @ \cup {Unreadable}] ELSE backups
  /\ UNCHANGED <<target, merged, disk, temporary, runs, saves, seen, saved>>

RunAgain ==
  /\ installAt \in {"done", "failed", "killed"} /\ runs < MaxRuns
  /\ installAt' = "start" /\ target' = 1 /\ runs' = runs + 1
  /\ merged' = <<>> /\ temporary' = Missing /\ seen' = Missing /\ saved' = FALSE
  /\ UNCHANGED <<disk, backups, saves>>

UserSaves ==
  /\ saves < MaxSaves /\ saves' = saves + 1
  /\ \E f \in DOMAIN Files, d \in Documents :
       disk' = [disk EXCEPT ![f] = d] /\ saved' = (saved \/ f = target)
  /\ UNCHANGED <<installAt, target, merged, backups, temporary, runs, seen>>

InstallNext ==
  \/ CreateDirectory \/ LoadAndMerge \/ Backup \/ WriteTemporary \/ Written \/ Rename
  \/ Killed \/ RunAgain \/ UserSaves

InstallSpec == InstallInit /\ [][InstallNext]_installVars

-----------------------------------------------------------------------------

Renames == installAt = "rename" /\ disk'[target] # disk[target]

OfUser(item) == item.name # TemplateName /\ item.name \notin LEGACY

UserItems(document) == Picked(document, {k \in DOMAIN document : OfUser(document[k])})

(* Where the template's item is.                                           *)
TemplatePlaces(document) == {k \in DOMAIN document : document[k].name = TemplateName}

(* The document written has every item of the user, in order and           *)
(* unchanged, none of the old tool, the template's item exactly once, with *)
(* the fields the user gave it first, and installing again changes         *)
(* nothing.                                                                *)
MergeKeepsUserItems ==
  installAt \in {"backup", "write", "written", "rename"} =>
    LET old == IF seen = Missing THEN <<>> ELSE seen
    IN  /\ UserItems(merged) = UserItems(old)
        /\ \A k \in DOMAIN merged : merged[k].name \notin LEGACY
        /\ \E k \in DOMAIN merged :
             /\ TemplatePlaces(merged) = {k} /\ merged[k].ours
             /\ TemplatePlaces(old) # {} =>
                  merged[k].fields = old[Earliest(TemplatePlaces(old))].fields
        /\ MergeNamedItems(merged) = merged

(* A file is replaced only as a whole by a merged document, and only when  *)
(* what it replaces is in a complete backup or was saved by the user after *)
(* the backup.                                                             *)
ReplacedAfterBackup ==
  Renames /\ saves' = saves =>
    /\ disk'[target] = merged
    /\ disk[target] \in backups[target] \cup {Missing} \/ saved

(* Property: whatever fails and whenever the tool is killed, a file is     *)
(* replaced only as ReplacedAfterBackup says (README: "the files are       *)
(* backed up first"), and by the document that MergeKeepsUserItems says.   *)
NothingIsLost == []MergeKeepsUserItems /\ [][ReplacedAfterBackup]_installVars
=============================================================================
