------------------------------ MODULE PerFile ------------------------------
(***************************************************************************)
(* debug/perfile.rs `find` and the part of probe.rs `resolve_register`     *)
(* that uses it: PowerView cannot tell the address of a register by its    *)
(* name (an entry of an rgroup, or several definitions of the name), so it *)
(* is worked out from the text of the PER file, line by line.              *)
(*                                                                         *)
(* A line is what `find` takes from it; the register and field searched    *)
(* for are fixed: a "line" defines the register, an "other line" another   *)
(* one (or is a tree line without a name), and a "field" is the field; the *)
(* other fields of a register are among the "other" lines.  The class of   *)
(* an address is left out: an address is a number.  Labels, choices, read- *)
(* only groups and conditions (IF/ELSE lines, which `find` ignores) too.   *)
(***************************************************************************)
EXTENDS Naturals, Sequences, FiniteSets

CONSTANTS
  PerLines,     (* lines of PER files                                      *)
  MaxLines,     (* bound: lines of the file                                *)
  None

ASSUME PerFileAssumption ==
  /\ MaxLines \in Nat
  /\ None \notin Nat
  /\ \A l \in PerLines :
       \/ l.kind \in {"tree", "tree.end", "other line", "other"} (* a tree has a name *)
       \/ l.kind = "base" /\ l.base \in Nat \cup {None}
       \/ l.kind = "group" /\ l.literal \in BOOLEAN /\ l.start \in Nat \cup {None}
       \/ l.kind = "line" /\ l.offset \in Nat \cup {None}
       \/ l.kind = "field"

VARIABLES
  with_field,   (* whether REG.FIELD was asked for, and not REG            *)
  text,         (* the lines read so far                                   *)
  trees,        (* the open trees: name and base of each                   *)
  top_base,
  group,        (* address of the open group                               *)
  found,        (* the candidates: line number, path, address, field       *)
  awaiting_field,
  register      (* what resolve_register returned                          *)

perVars == <<with_field, text, trees, top_base, group, found, awaiting_field, register>>

NoRegister == [kind |-> "none"]

(* trees.last().map_or(top_base, ...) *)
CurrentBase == IF trees = <<>> THEN top_base ELSE trees[Len(trees)].base

Plus(address, offset) ==
  IF None \in {address, offset} THEN None ELSE address + offset

(* tree: the base is inherited, the group is not. *)
OpenTree(line) ==
  /\ line.kind = "tree"
  /\ trees' = Append(trees, [name |-> line.name, base |-> CurrentBase])
  /\ group' = None
  /\ awaiting_field' = FALSE
  /\ UNCHANGED <<top_base, found>>

(* Mutant: the group of the tree that ended goes on. *)
CloseTreeKeepGroup(line) ==
  /\ line.kind = "tree.end"
  /\ trees' = SubSeq(trees, 1, Len(trees) - 1)
  /\ awaiting_field' = FALSE
  /\ UNCHANGED <<top_base, group, found>>

CloseTree(line) ==
  /\ line.kind = "tree.end"
  /\ trees' = SubSeq(trees, 1, Len(trees) - 1)
  /\ group' = None
  /\ awaiting_field' = FALSE
  /\ UNCHANGED <<top_base, found>>

(* A base that is an expression makes the addresses under it unknown. *)
SetBase(line) ==
  /\ line.kind = "base"
  /\ IF trees = <<>>
       THEN top_base' = line.base /\ UNCHANGED trees
       ELSE /\ trees' = [trees EXCEPT ![Len(trees)] = [name |-> @.name, base |-> line.base]]
            /\ UNCHANGED top_base
  /\ UNCHANGED <<group, found, awaiting_field>>

(* group_start: an address with its class, or an offset to the base. *)
OpenGroup(line) ==
  /\ line.kind = "group"
  /\ group' = IF line.literal THEN line.start ELSE Plus(CurrentBase, line.start)
  /\ awaiting_field' = FALSE
  /\ UNCHANGED <<trees, top_base, found>>

Define(line) ==
  /\ line.kind = "line"
  /\ found' = Append(found, [at |-> Len(text) + 1,
                             path |-> [i \in DOMAIN trees |-> trees[i].name],
                             address |-> Plus(group, line.offset), field |-> None])
  /\ awaiting_field' = with_field
  /\ UNCHANGED <<trees, top_base, group>>

(* The definition of the field belongs to the candidate that waits for it. *)
DefineField(line) ==
  /\ line.kind = "field"
  /\ found' = IF awaiting_field
                THEN [found EXCEPT ![Len(found)] =
                        [at |-> @.at, path |-> @.path, address |-> @.address,
                         field |-> line.definition]]
                ELSE found
  /\ awaiting_field' = FALSE
  /\ UNCHANGED <<trees, top_base, group>>

(* A register of another name: the fields that follow are its own. *)
PassLine(line) ==
  /\ line.kind = "other line"
  /\ awaiting_field' = FALSE
  /\ UNCHANGED <<trees, top_base, group, found>>

PerInit ==
  /\ with_field \in BOOLEAN
  /\ text = <<>> /\ trees = <<>> /\ top_base = None /\ group = None
  /\ found = <<>> /\ awaiting_field = FALSE
  /\ register = NoRegister

ScanLine ==
  /\ register = NoRegister
  /\ Len(text) < MaxLines
  /\ \E line \in PerLines :
       /\ text' = Append(text, line)
       /\ \/ OpenTree(line) \/ CloseTree(line) \/ SetBase(line)
          \/ OpenGroup(line) \/ Define(line) \/ DefineField(line) \/ PassLine(line)
          \/ line.kind = "other"
               /\ UNCHANGED <<trees, top_base, group, found, awaiting_field>>
  /\ UNCHANGED <<with_field, register>>

-----------------------------------------------------------------------------
(* Candidates that differ in nothing but their place are one: definitions *)
(* repeated in the branches of a condition.                               *)
Candidates ==
  {[path |-> found[i].path, address |-> found[i].address, field |-> found[i].field] :
     i \in DOMAIN found}

(* common_address *)
CommonAddress ==
  IF Candidates # {} /\ \A c, d \in Candidates : c.address = d.address
    THEN (CHOOSE c \in Candidates : TRUE).address ELSE None

SameField == \A c, d \in Candidates : c.field = d.field /\ c.field # None

(* resolve_register after PowerView answered PAR_256: the address comes   *)
(* from the file.                                                         *)
ResolveFromFile ==
  /\ register = NoRegister
  /\ register' = IF CommonAddress # None
                   THEN [kind |-> "register", address |-> CommonAddress]
                   ELSE [kind |-> "error"]
  /\ UNCHANGED <<with_field, text, trees, top_base, group, found, awaiting_field>>

(* resolve_duplicate after PowerView found the name ambiguous: if all     *)
(* definitions are the same register, the first path is read; its address *)
(* is PowerView's own or, after PAR_256 again, the file's.                *)
ResolveDuplicate ==
  /\ register = NoRegister
  /\ LET same == /\ \E c, d \in Candidates : c # d
                 /\ CommonAddress # None
                 /\ with_field => SameField
     IN  register' \in
           IF same
             THEN {[kind |-> "duplicate", address |-> CommonAddress], [kind |-> "error"]}
             ELSE {[kind |-> "error"]}
  /\ UNCHANGED <<with_field, text, trees, top_base, group, found, awaiting_field>>

PerNext == ScanLine \/ ResolveFromFile \/ ResolveDuplicate

PerSpec == PerInit /\ [][PerNext]_perVars

-----------------------------------------------------------------------------
(* What the text means, told from positions instead of a scan.            *)
Count(kind, from, to) == Cardinality({i \in from .. to : text[i].kind = kind})

(* The trees around line k: nothing between has closed them. *)
Enclosing(k) ==
  {j \in 1 .. k - 1 : text[j].kind = "tree" /\ \A m \in j + 1 .. k - 1 :
     Count("tree.end", j + 1, m) <= Count("tree", j + 1, m)}

(* The base at line k: the latest one before it that stands in a tree      *)
(* around it and in no other, or in none.                                  *)
BaseAt(k) ==
  LET bases == {b \in 1 .. k - 1 : text[b].kind = "base" /\ Enclosing(b) \subseteq Enclosing(k)}
  IN  IF bases = {} THEN None
      ELSE text[CHOOSE b \in bases : \A c \in bases : c <= b].base

(* The group of line k: the latest one that no tree line follows. *)
GroupAt(k) ==
  LET groups == {g \in 1 .. k - 1 : text[g].kind = "group"
                   /\ \A i \in g + 1 .. k - 1 : text[i].kind \notin {"group", "tree", "tree.end"}}
      g == CHOOSE g \in groups : TRUE
  IN  IF groups = {} THEN None
      ELSE IF text[g].literal THEN text[g].start ELSE Plus(BaseAt(g), text[g].start)

FieldAt(k) ==
  LET fields == {f \in k + 1 .. Len(text) : text[f].kind = "field"
                   /\ \A i \in k + 1 .. f - 1 : text[i].kind \in {"base", "other"}}
  IN  IF fields = {} \/ ~with_field THEN None
      ELSE text[CHOOSE f \in fields : TRUE].definition

Definitions == {k \in DOMAIN text : text[k].kind = "line"}
PathOf(k) ==
  [i \in 1 .. Cardinality(Enclosing(k)) |->
     text[CHOOSE j \in Enclosing(k) : Cardinality({h \in Enclosing(k) : h < j}) = i - 1].name]
AddressOf(k) == Plus(GroupAt(k), text[k].offset)

(* An address of a register leads to reads of the target by address, so a  *)
(* wrong one shows a value that is not the register's.  Every definition   *)
(* is found with the address, path and field that the nesting of the file *)
(* gives it; and a name stands for an address only if all definitions in   *)
(* the file have it, of a field only if they define the same field.        *)
(* (perfile::find with its tree stack, inherited bases and open group;     *)
(* common_address, from_per_file and resolve_duplicate.)                   *)
AddressFromFileIsCertain ==
  /\ {<<found[i].at, found[i].address, found[i].path, found[i].field>> : i \in DOMAIN found}
       = {<<k, AddressOf(k), PathOf(k), FieldAt(k)>> : k \in Definitions}
  /\ register.kind \in {"register", "duplicate"} =>
       \A k \in Definitions : AddressOf(k) = register.address
  /\ register.kind = "duplicate" /\ with_field =>
       \A k, l \in Definitions : FieldAt(k) = FieldAt(l) /\ FieldAt(k) # None
=============================================================================
