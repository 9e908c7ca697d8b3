--------------------------- MODULE RegisterLookup ---------------------------
(***************************************************************************)
(* `tracebridge debug reg NAME` (reg in debug/commands.rs; resolve_register*)
(* and what follows it in debug/probe.rs): the name is resolved by         *)
(* PowerView, by the text of the PER file when PowerView cannot, or not at *)
(* all, and explained; then the register is read, its choice text is       *)
(* looked up and its address is checked with a second read.                *)
(*                                                                         *)
(* The PER file is the list of its definitions (PerFile.tla has the scan   *)
(* that finds them).  PowerView sees those whose conditions hold.  A path  *)
(* is its elements, and whether a dot in front asks for a search of the    *)
(* file.  A field is the lowest bit of its register.                       *)
(***************************************************************************)
EXTENDS TargetAddress, Sequences, FiniteSets, Positions

CONSTANTS
  Names,         (* names given: dot, quoted, elements                     *)
  PerDefinitions,(* definitions: trees, register, address, read_only,      *)
                 (* fields (field to its choice texts, None when it has    *)
                 (* none)                                                  *)
  MaxDefinitions,(* bound: definitions of the file                         *)
  Contents,      (* values of registers                                    *)
  LongSize       (* number of values that Data.Long reads: 2^32            *)

ASSUME LookupAssumption ==
  /\ MaxDefinitions \in Nat /\ Contents \subseteq Nat /\ LongSize \in Nat \ {0}
  /\ \A d \in PerDefinitions :
       /\ d.trees \in Seq(STRING) /\ d.register \in STRING /\ DOMAIN d.fields \subseteq STRING
       /\ None \notin DOMAIN d.fields /\ d.address \in Addresses \cup {None}
  /\ \A n \in Names : n.elements \in Seq(STRING) /\ n.elements # <<>>

VARIABLES
  name,          (* the name asked for                                     *)
  definitions,   (* of the PER file                                        *)
  visible,       (* PowerView: those it knows                              *)
  on_disk,       (* whether the PER file was found on disk                 *)
  loaded,        (* PowerView: a PER file is loaded                        *)
  content,       (* value of each definition's register                    *)
  core_runs,     (* core_running, asked at the start                       *)
  regAt,         (* the next step                                          *)
  tried,         (* try_paths: candidates of the name tried                *)
  first_error,
  reprogrammed,
  per_register,  (* the PerRegister                                        *)
  value,
  choice,
  address_check,
  explained      (* the error: its reason, candidates, suggested address   *)

lookupWorld == <<name, definitions, visible, on_disk, content, core_runs>>
lookupVars == <<lookupWorld, loaded, regAt, tried, first_error, reprogrammed, per_register, value,
                choice, address_check, explained>>

Path(searched, elements) == [searched |-> searched, elements |-> elements]

(* The path above an element, and that element.                             *)
Above(elements) == SubSeq(elements, 1, Len(elements) - 1)
Leaf(elements)  == elements[Len(elements)]

(* per_candidates *)
PerCandidates ==
  IF name.dot THEN <<Path(TRUE, name.elements)>>
  ELSE IF name.quoted THEN <<Path(FALSE, name.elements), Path(TRUE, name.elements)>>
  ELSE IF Len(name.elements) > 1
    THEN <<Path(TRUE, name.elements), Path(FALSE, name.elements)>>
  ELSE <<Path(TRUE, name.elements)>>

(* has_several_elements and parent_path *)
HasSeveralElements(path) == Len(path.elements) > 1
ParentPath(path) ==
  IF HasSeveralElements(path) THEN [path EXCEPT !.elements = Above(@)] ELSE None

(* register_and_field: NAME or NAME.FIELD; not a full path.                *)
RegisterAndField ==
  IF name.quoted \/ Len(name.elements) > 2 THEN None
  ELSE [register |-> name.elements[1],
        field |-> IF Len(name.elements) = 2 THEN name.elements[2] ELSE None]

-----------------------------------------------------------------------------
(* perfile.rs *)
(* What `find` makes of a definition.                                      *)
Candidate(d, field) ==
  LET has == field # None /\ field \in DOMAIN d.fields
  IN  [path |-> Path(FALSE, d.trees \o <<d.register>>
                              \o (IF field = None THEN <<>> ELSE <<field>>)),
       address |-> d.address, read_only |-> d.read_only, trees |-> d.trees,
       field_definition |-> IF has THEN [choices |-> d.fields[field]] ELSE None,
       choices |-> IF has THEN d.fields[field] ELSE None]

Unique(list) ==
  Picked(list, {k \in DOMAIN list : \A j \in 1 .. k - 1 : list[j] # list[k]})

Find(register, field) ==
  LET named == Picked(definitions, {i \in DOMAIN definitions : definitions[i].register = register})
  IN  Unique([i \in DOMAIN named |-> Candidate(named[i], field)])

(* scan; an unreadable file has no candidates.                             *)
Scan ==
  IF ~on_disk \/ RegisterAndField = None THEN <<>>
  ELSE Find(RegisterAndField.register, RegisterAndField.field)

IsSubsequence(needle, haystack) ==
  LET matched[k \in 0 .. Len(haystack)] ==
        IF k = 0 THEN 0
        ELSE IF matched[k - 1] < Len(needle) /\ needle[matched[k - 1] + 1] = haystack[k]
          THEN matched[k - 1] + 1 ELSE matched[k - 1]
  IN  matched[Len(haystack)] = Len(needle)

(* find_partial: .TREE.REG and .TREE.REG.FIELD, which are not paths.       *)
FindPartial ==
  LET elements == name.elements
      meant(last, field) ==
        IF last < 2 THEN <<>>
        ELSE LET all == Find(elements[last], field)
             IN  Picked(all, {k \in DOMAIN all :
                   /\ field # None => all[k].field_definition # None
                   /\ IsSubsequence(SubSeq(elements, 1, last - 1), all[k].trees)})
  IN  Unique(meant(Len(elements), None) \o meant(Len(elements) - 1, Leaf(elements)))

(* choice_for: the text of a value; ?... reserves the rest, ? the value.   *)
ChoiceFor(choices, v) ==
  IF \E i \in 1 .. v + 1 : i <= Len(choices) /\ choices[i] = "?..." THEN None
  ELSE IF v < Len(choices) /\ choices[v + 1] \notin {"", "?"} THEN choices[v + 1] ELSE None

(* Mutant: the first definition decides.                                   *)
FieldChoiceOfFirst(path, v) ==
  LET count == Len(path.elements)
      all   == Find(path.elements[count - 1], path.elements[count])
  IN  IF count < 2 \/ all = <<>> \/ all[1].choices = None THEN None
      ELSE ChoiceFor(all[1].choices, v)

(* The candidates of the field of a path that it means.                    *)
FieldsMeant(path) ==
  LET count == Len(path.elements)
      all   == Find(path.elements[count - 1], path.elements[count])
  IN  Picked(all, {k \in DOMAIN all :
        \/ path.searched /\ count = 2
        \/ all[k].trees = SubSeq(path.elements, 1, count - 2)})

(* field_choice: they must agree.                                          *)
FieldChoice(path, v) ==
  LET meant == FieldsMeant(path)
  IN  IF Len(path.elements) < 2 THEN None
      ELSE IF meant = <<>> \/ \E i \in DOMAIN meant : meant[i].choices # meant[1].choices THEN None
      ELSE IF meant[1].choices = None THEN None
      ELSE ChoiceFor(meant[1].choices, v)

-----------------------------------------------------------------------------
(* PowerView: the definitions that a path means there; after a dot only    *)
(* REGISTER or REGISTER.FIELD.                                             *)
Meant(path) ==
  {i \in visible :
     LET d == definitions[i]
         full == d.trees \o <<d.register>>
         e == path.elements
     IN  \/ path.searched /\ e = <<d.register>>
         \/ path.searched /\ Len(e) = 2 /\ e[1] = d.register /\ e[2] \in DOMAIN d.fields
         \/ ~path.searched /\ e = full
         \/ ~path.searched /\ Above(e) = full /\ Leaf(e) \in DOMAIN d.fields}

IsField(path, d) == Len(path.elements) = IF path.searched THEN 2 ELSE Len(d.trees) + 2

PerValue(path) ==
  LET i == CHOOSE i \in Meant(path) : TRUE
  IN  IF Cardinality(Meant(path)) # 1 THEN None
      ELSE IF IsField(path, definitions[i]) THEN content[i] % 2 ELSE content[i]

(* What an address of the command line reads, when that does not fail: the *)
(* value of the register there, or anything where the file knows none.     *)
DefinedAt(address) ==
  {i \in DOMAIN definitions : address # None /\ definitions[i].address = address}
DataLong(address) ==
  LET there == DefinedAt(address)
  IN  {v % LongSize : v \in IF there = {} THEN Contents ELSE {content[i] : i \in there}}

(* PER.ADDRESS's text is the address, but for C14 and C15 16 times it, and *)
(* ADDRESS.OFFSET of it 4 times.  When that fails, the offset is the number*)
(* of the text, and an offset that cannot be converted keeps the text.     *)
IsScaled(address) == address.class \in {"C15", "C14"}
Offsets(address) ==
  IF IsScaled(address) THEN {4 * address.value, 16 * address.value, 4 * address.value + 1}
  ELSE {address.value}
AddressOfOffset(address, offset) ==
  LET converted == CommandLineAddress(address.class, offset)
  IN  IF converted # None THEN converted ELSE [address EXCEPT !.value = 16 * @]

(* per_address; PAR_256 is its answer for some read-only entries.          *)
PerAddress(path) ==
  LET i == CHOOSE i \in Meant(path) : TRUE
      d == definitions[i]
  IN  IF ~loaded THEN {[error |-> "No default peripheral file"]}
      ELSE IF Meant(path) = {} THEN {[error |-> "not found"]}
      ELSE IF Cardinality(Meant(path)) > 1 THEN {[error |-> "ambiguous"]}
      ELSE IF d.read_only \/ d.address = None THEN {[error |-> "PAR_256"]}
      ELSE {[path |-> path, address |-> AddressOfOffset(d.address, offset), offset |-> offset,
             source |-> "PowerView", register_path |-> None, note |-> FALSE] :
              offset \in Offsets(d.address)}

-----------------------------------------------------------------------------
NotExplained == [reason |-> "none", listed |-> <<>>, suggested |-> None]

RegInit ==
  /\ name \in Names
  /\ definitions \in UNION {[1 .. n -> PerDefinitions] : n \in 0 .. MaxDefinitions}
  /\ visible \in SUBSET DOMAIN definitions
  /\ on_disk \in BOOLEAN /\ loaded \in BOOLEAN /\ core_runs \in BOOLEAN
  /\ content \in [DOMAIN definitions -> Contents]
  /\ \A i, j \in DOMAIN definitions : (* one register, one value *)
       definitions[i].address = definitions[j].address /\ definitions[i].address # None
         => content[i] = content[j]
  /\ regAt = "paths" /\ tried = 0 /\ first_error = None /\ reprogrammed = FALSE
  /\ per_register = None /\ value = None /\ choice = None /\ address_check = "none"
  /\ explained = NotExplained

RegLost ==
  /\ regAt \in {"paths", "reprogram", "duplicate", "value", "choice", "check"}
  /\ regAt' = "lost"
  /\ UNCHANGED <<lookupWorld, loaded, tried, first_error, reprogrammed, per_register, value, choice,
                 address_check, explained>>

Settled(register) ==
  /\ per_register' = register /\ regAt' = "value"
  /\ UNCHANGED explained

(* try_paths: the first error stands for the name.                         *)
TryPath ==
  /\ regAt = "paths"
  /\ \E answer \in PerAddress(PerCandidates[tried + 1]) \cup {[error |-> "other"]} :
       IF "error" \notin DOMAIN answer
         THEN Settled(answer) /\ UNCHANGED <<tried, first_error>>
         ELSE /\ first_error' = IF first_error = None THEN answer.error ELSE first_error
              /\ tried' = tried + 1
              /\ regAt' = IF tried + 1 = Len(PerCandidates) THEN "reprogram" ELSE "paths"
              /\ UNCHANGED <<per_register, explained>>
  /\ UNCHANGED <<lookupWorld, loaded, reprogrammed, value, choice, address_check>>

(* reprogram_after, ensure, and the paths again.                           *)
ReProgram ==
  /\ regAt = "reprogram"
  /\ IF reprogrammed \/ first_error # "No default peripheral file"
       THEN regAt' = "file" /\ UNCHANGED <<loaded, tried, first_error, reprogrammed>>
       ELSE /\ reprogrammed' = TRUE
            /\ \/ /\ loaded' = TRUE
                  /\ regAt' = "paths" /\ tried' = 0 /\ first_error' = None
               \/ regAt' = "file" /\ UNCHANGED <<loaded, tried, first_error>>
  /\ UNCHANGED <<lookupWorld, per_register, value, choice, address_check, explained>>

(* The address that all of them have.                                      *)
SharedAddress(candidates) ==
  IF candidates # <<>> /\ \A i \in DOMAIN candidates : candidates[i].address = candidates[1].address
    THEN candidates[1].address ELSE None

FromPerFile(path, note) ==
  [path |-> path, address |-> SharedAddress(Scan), offset |-> None, source |-> "PER file",
   register_path |-> IF RegisterAndField.field = None THEN None ELSE ParentPath(path),
   note |-> note]

(* lookup_error: what is listed, and the address if they all have one.     *)
Explained ==
  LET partial == IF on_disk /\ Scan = <<>> /\ first_error # "ambiguous" THEN FindPartial ELSE <<>>
      listed  == IF partial = <<>> THEN Scan ELSE partial
  IN  [reason |-> IF first_error \in {"ambiguous", "PAR_256"} THEN first_error
                  ELSE IF partial # <<>> THEN "partial" ELSE "not found",
       listed |-> IF first_error = "No default peripheral file" THEN <<>> ELSE listed,
       suggested |-> IF first_error \in {"ambiguous", "PAR_256"}
                       THEN SharedAddress(listed) ELSE None]

Unresolved == regAt' = "error" /\ explained' = Explained /\ UNCHANGED per_register

SameFieldEverywhere ==
  RegisterAndField.field # None =>
    /\ Scan[1].field_definition # None
    /\ \A i \in DOMAIN Scan : Scan[i].field_definition = Scan[1].field_definition

(* The rest of resolve_register: the address of an entry that PowerView    *)
(* cannot tell; several definitions of one register.                       *)
UseFile ==
  /\ regAt = "file"
  /\ IF first_error = "PAR_256" /\ SharedAddress(Scan) # None
       THEN Settled(FromPerFile(PerCandidates[1], FALSE))
     ELSE IF /\ first_error = "ambiguous" /\ Len(Scan) > 1
             /\ SharedAddress(Scan) # None /\ SameFieldEverywhere
       THEN regAt' = "duplicate" /\ UNCHANGED <<per_register, explained>>
     ELSE Unresolved
  /\ UNCHANGED <<lookupWorld, loaded, tried, first_error, reprogrammed, value, choice,
                 address_check>>

(* resolve_duplicate, once the definitions are known to be one register.   *)
ReadDuplicate ==
  /\ regAt = "duplicate"
  /\ \E answer \in PerAddress(Scan[1].path) \cup {[error |-> "other"]} :
       IF "error" \notin DOMAIN answer THEN Settled([answer EXCEPT !.note = TRUE])
       ELSE IF answer.error = "PAR_256" THEN Settled(FromPerFile(Scan[1].path, TRUE))
       ELSE Unresolved
  /\ UNCHANGED <<lookupWorld, loaded, tried, first_error, reprogrammed, value, choice,
                 address_check>>

-----------------------------------------------------------------------------
AfterFound ==
  UNCHANGED <<lookupWorld, loaded, tried, first_error, reprogrammed, per_register, explained>>

(* read_register; a coprocessor register of a running core is refused.     *)
ReadValue ==
  /\ regAt = "value"
  /\ \/ /\ ~(IsCoprocessor(per_register.address) /\ core_runs) /\ PerValue(per_register.path) # None
        /\ value' = PerValue(per_register.path) /\ regAt' = "choice"
     \/ regAt' = "error" /\ UNCHANGED value
  /\ UNCHANGED <<choice, address_check>> /\ AfterFound

(* read_choice: PER.VALUE.STRING, or the PER file when it says nothing.    *)
ReadChoice ==
  /\ regAt = "choice" /\ regAt' = "check"
  /\ IF ~HasSeveralElements(per_register.path) THEN UNCHANGED choice
     ELSE LET found == FieldChoice(per_register.path, value)
          IN  choice' \in {[text |-> "PowerView", from_per_file |-> FALSE],
                           IF on_disk /\ found # None
                             THEN [text |-> found, from_per_file |-> TRUE] ELSE None}
  /\ UNCHANGED <<value, address_check>> /\ AfterFound

(* The value of the whole register, None when it cannot be read: of the    *)
(* register of a field, which is above it and has its offset.              *)
WholeValues ==
  LET parent == ParentPath(per_register.path)
      above  == {PerValue(parent), None}
  IN  IF per_register.register_path # None THEN above
      ELSE {value} \cup
           IF /\ parent # None
              /\ \E answer \in PerAddress(parent) :
                   "error" \notin DOMAIN answer /\ answer.offset = per_register.offset
             THEN above ELSE {}

Ones == LongSize - 1

(* verify_address: a second read must give the register's value; 0 and all *)
(* ones, which wrong addresses read too, confirm nothing.                  *)
CheckAddress ==
  /\ regAt = "check" /\ regAt' = "shown"
  /\ \E whole \in WholeValues, read \in DataLong(per_register.address) \cup {None} :
       address_check' = IF ~IsCoprocessor(per_register.address) THEN "none"
                        ELSE IF whole = None THEN "unconfirmed"
                        ELSE IF read = None \/ read # whole % LongSize THEN "failed"
                        ELSE IF read \in {0, Ones} THEN "unconfirmed" ELSE "confirmed"
  /\ UNCHANGED <<value, choice>> /\ AfterFound

(* How the address is shown: a remark when the check found it wrong (then  *)
(* the text of PER.ADDRESS, if that is where it came from) or undecided.   *)
ShownAddress ==
  IF address_check = "failed" /\ per_register.source = "PowerView"
    THEN [text |-> "PER.ADDRESS", remark |-> TRUE]
  ELSE [text |-> "command line", remark |-> address_check \in {"failed", "unconfirmed"}]

(* The entry of a name in the report, and the exit code that it asks for:  *)
(* an error takes the place of a value.                                    *)
ShownEntry ==
  IF regAt = "shown"
    THEN [value |-> value, choice |-> choice, address |-> ShownAddress, error |-> FALSE, code |-> 0]
    ELSE [value |-> None, choice |-> None, address |-> None, error |-> TRUE, code |-> 1]

RegNext ==
  \/ TryPath \/ ReProgram \/ UseFile \/ ReadDuplicate \/ ReadValue \/ ReadChoice
  \/ CheckAddress \/ RegLost

RegSpec == RegInit /\ [][RegNext]_lookupVars

-----------------------------------------------------------------------------
(* The definitions in the file that the name may stand for.                *)
Named ==
  {i \in DOMAIN definitions :
     RegisterAndField # None /\ definitions[i].register = RegisterAndField.register}

(* No path of the file is that of a field and of a register.               *)
PathsAreDistinct ==
  \A i, j \in DOMAIN definitions : \A field \in DOMAIN definitions[i].fields :
    definitions[i].trees \o <<definitions[i].register>> \o <<field>>
      # definitions[j].trees \o <<definitions[j].register>>

(* The address is that of the definition, or one that PowerView told and   *)
(* whose offset it did not; an address of the file, and one of several     *)
(* definitions, is that of all that the name may mean.                     *)
IsRegisterOf(register, i) ==
  LET d == definitions[i] IN
  /\ register.source = "PowerView" =>
       \/ register.address = d.address
       \/ IsScaled(d.address) /\ register.offset # 4 * d.address.value
  /\ register.source = "PER file" => \A j \in Named : definitions[j].address = register.address
  /\ register.note => \A j, k \in Named : definitions[j].address = definitions[k].address
  /\ PathsAreDistinct /\ (register.note \/ register.source = "PER file") => i \in Named

(* A choice text of the file is the one that every definition in the file, *)
(* whose field the path may be, gives the value.                           *)
MayBeFieldOf(path, d) ==
  \/ path.searched /\ path.elements = <<d.register, Leaf(path.elements)>>
  \/ path.elements = d.trees \o <<d.register>> \o <<Leaf(path.elements)>>
IsChoiceOf(text, path, v, i) ==
  text # None /\ text.from_per_file =>
    /\ \A j \in DOMAIN definitions :
         LET fields == definitions[j].fields
             field  == Leaf(path.elements)
         IN  MayBeFieldOf(path, definitions[j]) =>
               /\ field \in DOMAIN fields /\ fields[field] # None
               /\ text.text = ChoiceFor(fields[field], v)
    /\ PathsAreDistinct => IsField(path, definitions[i])

(* What is known at an address reads the value shown, or that of the       *)
(* register around a field, and tells it from a wrong address.             *)
IsConfirmed(register, v) ==
  \A j \in DefinedAt(register.address) :
    LET read == content[j] % LongSize IN
    /\ read \notin {0, Ones}
    /\ read = v % LongSize \/ read = PerValue(ParentPath(register.path)) % LongSize

(* Property: whichever way a name was resolved, what is shown is one       *)
(* register: the value is that of the only definition PowerView has for    *)
(* the path, and the address and a choice text of the file are that        *)
(* definition's, as far as the three operators above say.  An address that *)
(* PowerView told without its offset may be wrong, and is called confirmed *)
(* only if what is known there reads the same.  Where a path of the file   *)
(* is that of a register and of a field of another, PowerView may mean the *)
(* one and the file the other.  An address suggested in an error is that   *)
(* of all definitions of the name.  (resolve_register, per_address,        *)
(* read_choice and verify_address; field_choice.)                          *)
ShowsOneRegister ==
  /\ regAt = "shown" =>
       \E i \in visible :
         /\ Meant(per_register.path) = {i} /\ value = PerValue(per_register.path)
         /\ IsRegisterOf(per_register, i)
         /\ IsChoiceOf(choice, per_register.path, value, i)
         /\ address_check = "confirmed" => IsConfirmed(per_register, value)
         /\ ShownEntry.address.text = "PER.ADDRESS" => per_register.source = "PowerView"
  /\ explained.suggested # None /\ RegisterAndField # None =>
       \A j \in Named : definitions[j].address = explained.suggested
=============================================================================
