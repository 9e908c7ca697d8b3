-------------------------------- MODULE Watch --------------------------------
(***************************************************************************)
(* `tracebridge debug watch <names>` (watch in                             *)
(* crates/tracebridge/src/debug/commands.rs): the names are resolved       *)
(* first, all of them, and only then is the PER.Watch window rebuilt with  *)
(* one command per register.  Any call may fail, a command with or without *)
(* its effect.                                                             *)
(***************************************************************************)
EXTENDS Sequences, Naturals

CONSTANTS
  WatchNames, (* names of registers; the names of a watch file             *)
  Known,      (* those that resolve                                        *)
  MaxWatched  (* bound: names given                                        *)

ASSUME WatchAssumption == Known \subseteq WatchNames /\ MaxWatched \in Nat

VARIABLES
  watchAt,    (* the next step                                             *)
  names,      (* the names to watch                                        *)
  resolved,   (* number of names resolved                                  *)
  paths,      (* the paths found                                           *)
  errors,     (* some name did not resolve                                 *)
  added,      (* number of PER.AddWatch sent                               *)
  window,     (* PowerView: the registers in the window                    *)
  before      (* history: the window at the start                          *)

watchVars == <<watchAt, names, resolved, paths, errors, added, window, before>>

Lists(S) == UNION {[1 .. n -> S] : n \in 0 .. MaxWatched}

WatchInit ==
  /\ watchAt = "start" /\ resolved = 0 /\ paths = <<>> /\ errors = FALSE /\ added = 0
  /\ names \in Lists(WatchNames)
  /\ before \in Lists(Known) /\ window = before

(* The command ends with an error; "refused" when it says that the window  *)
(* was not changed.                                                        *)
WatchEnds(outcome) == watchAt' = outcome /\ UNCHANGED <<names, resolved, paths, errors, added>>

WatchQuiet == UNCHANGED <<window, before>>

(* No names, a PowerView without PER.Watch, or no PER file.                *)
StartWatch ==
  /\ watchAt = "start"
  /\ \/ names # <<>> /\ WatchEnds("resolve")
     \/ WatchEnds("failed")
  /\ WatchQuiet

ResolveName ==
  /\ watchAt = "resolve" /\ resolved < Len(names)
  /\ \/ /\ names[resolved + 1] \in Known
        /\ paths' = Append(paths, names[resolved + 1]) /\ resolved' = resolved + 1
        /\ UNCHANGED <<watchAt, names, errors, added>>
     \/ /\ errors' = TRUE /\ resolved' = resolved + 1
        /\ UNCHANGED <<watchAt, names, paths, added>>
     \/ WatchEnds("failed")
  /\ WatchQuiet

(* Mutant: names that do not resolve are left out.                         *)
AllThatResolved ==
  /\ watchAt = "resolve" /\ resolved = Len(names)
  /\ WatchEnds("clear") /\ WatchQuiet

AllResolved ==
  /\ watchAt = "resolve" /\ resolved = Len(names)
  /\ WatchEnds(IF errors THEN "refused" ELSE "clear") /\ WatchQuiet

ClearWatch ==
  /\ watchAt = "clear"
  /\ \/ window' = <<>> /\ WatchEnds("add")
     \/ window' \in {window, <<>>} /\ WatchEnds("failed")
  /\ UNCHANGED before

AddWatch ==
  /\ watchAt = "add" /\ added < Len(paths)
  /\ LET more == Append(window, paths[added + 1]) IN
       \/ /\ window' = more /\ added' = added + 1
          /\ UNCHANGED <<watchAt, names, resolved, paths, errors>>
       \/ window' \in {window, more} /\ WatchEnds("failed")
  /\ UNCHANGED before

ShowWatch ==
  /\ watchAt = "add" /\ added = Len(paths)
  /\ WatchEnds("done") \/ WatchEnds("failed")
  /\ WatchQuiet

WatchNext ==
  StartWatch \/ ResolveName \/ AllResolved \/ ClearWatch \/ AddWatch \/ ShowWatch

WatchSpec == WatchInit /\ [][WatchNext]_watchVars

(* Property: when watch succeeds, the window has exactly the registers     *)
(* named, in that order, whatever it had before; when it says that the     *)
(* window was not changed, it was not.                                     *)
WatchExactly ==
  /\ watchAt = "done" => window = names
  /\ watchAt = "refused" => window = before
=============================================================================
