---------------------------- MODULE FlashChoice ----------------------------
(***************************************************************************)
(* flash.rs: how `tracebridge flash` comes to its flash script.  The       *)
(* catalog is read file by file (the library first, then TRACE32's demo    *)
(* directories), then `resolve` takes flash.script, or chooses the script  *)
(* whose @Chip: patterns fit the chip best.                                *)
(*                                                                         *)
(* A name or a pattern is a sequence of characters, already in upper case. *)
(* A script is what read_script keeps of a file: its source, patterns,     *)
(* PREPAREONLY support and whether the file name has a '-' (a variant for  *)
(* external memory).  Contents, messages and paths are left out; whether a *)
(* path can be quoted is asked when the script is chosen.                  *)
(***************************************************************************)
EXTENDS Naturals, Sequences, FiniteSets

CONSTANTS
  ChipNames,    (* values of flash.chip and target.cpu, as sequences       *)
  ChipPatterns, (* patterns in @Chip: lines                                *)
  MaxPatterns,  (* bound: patterns of one script                           *)
  MaxScripts    (* bound: scripts in the catalog                           *)

(* The name of a chip has no '*': glob_match takes one in it for a literal. *)
ASSUME CatalogAssumption ==
  /\ MaxPatterns \in Nat /\ MaxScripts \in Nat
  /\ ChipNames \subseteq Seq(STRING) /\ ChipPatterns \subseteq Seq(STRING)
  /\ \A chip \in ChipNames : \A i \in DOMAIN chip : chip[i] # "*"

VARIABLES
  scripts,      (* the catalog read so far                                 *)
  resolved      (* what `resolve` returned                                 *)

flashVars == <<scripts, resolved>>

Script ==
  [source : {"trace32", "library"},
   chips : UNION {[1 .. n -> ChipPatterns] : n \in 0 .. MaxPatterns},
   prepare_only : BOOLEAN,
   variant : BOOLEAN]

Unresolved == [kind |-> "none"]

(* Where glob_match is: in the pattern, in the text, at the latest '*'    *)
(* (0 for none), and up to where in the text that one has taken.           *)
GlobAt(p, t, star, mark) == [p |-> p, t |-> t, star |-> star, mark |-> mark]

GlobPlaces(pattern, text) ==
  {s \in [p : 1 .. Len(pattern) + 1, t : 1 .. Len(text) + 1,
          star : 0 .. Len(pattern), mark : 1 .. Len(text) + 1] : s.mark <= s.t}

(* One pass over the text; a mismatch goes back to the latest '*', which   *)
(* then takes one more character.                                          *)
GlobMatch(pattern, text) ==
  LET loop[s \in GlobPlaces(pattern, text)] ==
        IF s.t > Len(text) THEN \A i \in s.p .. Len(pattern) : pattern[i] = "*"
        ELSE IF s.p <= Len(pattern) /\ pattern[s.p] \in {"?", text[s.t]}
          THEN loop[GlobAt(s.p + 1, s.t + 1, s.star, s.mark)]
        ELSE IF s.p <= Len(pattern) /\ pattern[s.p] = "*"
          THEN loop[GlobAt(s.p + 1, s.t, s.p, s.t)]
        ELSE s.star > 0 /\ loop[GlobAt(s.star + 1, s.mark + 1, s.star, s.mark + 1)]
  IN  loop[GlobAt(1, 1, 0, 1)]

(* specificity: whether the pattern has no wildcard, and its literal      *)
(* characters; as numbers, so that ranks compare from left to right.      *)
Specificity(pattern) ==
  LET literal == Cardinality({i \in DOMAIN pattern : pattern[i] \notin {"*", "?"}})
  IN <<IF literal = Len(pattern) THEN 1 ELSE 0, literal>>

(* The derived order of tuples. *)
Below(a, b) ==
  \E i \in DOMAIN a : a[i] < b[i] /\ \A j \in 1 .. i - 1 : a[j] = b[j]

Matching(script, chip) == {i \in DOMAIN script.chips : GlobMatch(script.chips[i], chip)}

(* Mutant: the first pattern that matches. *)
FirstPattern(script, chip) ==
  script.chips[CHOOSE i \in Matching(script, chip) : \A j \in Matching(script, chip) : i <= j]

(* max_by_key: the last of the most specific matching patterns. *)
BestPattern(script, chip) ==
  script.chips[CHOOSE i \in Matching(script, chip) :
    \A j \in Matching(script, chip) \ {i} :
      \/ Below(Specificity(script.chips[j]), Specificity(script.chips[i]))
      \/ Specificity(script.chips[j]) = Specificity(script.chips[i]) /\ j < i]

Rank(script, chip) ==
  LET specificity == Specificity(BestPattern(script, chip))
  IN  <<IF script.source = "library" THEN 1 ELSE 0, specificity[1], specificity[2],
        IF script.variant THEN 0 ELSE 1>>

Contenders(chip) ==
  {i \in DOMAIN scripts : scripts[i].prepare_only /\ Matching(scripts[i], chip) # {}}

(* Those that are first when the candidates are sorted by rank.            *)
Foremost(chip) ==
  {i \in Contenders(chip) :
     \A j \in Contenders(chip) : ~Below(Rank(scripts[i], chip), Rank(scripts[j], chip))}

(* choose: the first, when it is alone. *)
ChooseScript(chip) ==
  IF Contenders(chip) = {} THEN [kind |-> "not_found", chip |-> chip]
  ELSE IF Cardinality(Foremost(chip)) > 1 THEN [kind |-> "ambiguous", chip |-> chip]
  ELSE LET best == scripts[CHOOSE i \in Foremost(chip) : TRUE]
       IN  [kind |-> "chosen", chip |-> chip, script |-> best,
            pattern |-> BestPattern(best, chip)]

-----------------------------------------------------------------------------
FlashInit == scripts = <<>> /\ resolved = Unresolved

(* catalog: the library's scripts come first. *)
ReadScript ==
  /\ resolved = Unresolved
  /\ Len(scripts) < MaxScripts
  /\ \E script \in Script :
       /\ \A i \in DOMAIN scripts : scripts[i].source = "trace32" => script.source = "trace32"
       /\ scripts' = Append(scripts, script)
  /\ UNCHANGED resolved

(* resolve with flash.script set. *)
ResolveExplicit ==
  /\ resolved = Unresolved
  /\ resolved' = [kind |-> "explicit"]
  /\ UNCHANGED scripts

(* resolve by chip: flash.chip, else target.cpu; with neither it fails, and*)
(* for a script whose path cannot be put between quotation marks.          *)
ResolveByChip ==
  /\ resolved = Unresolved
  /\ \E flash_chip, cpu \in ChipNames \cup {<<>>} :
       LET chip == IF flash_chip # <<>> THEN flash_chip ELSE cpu IN
       \E choice \in {IF chip = <<>> THEN [kind |-> "no_chip"] ELSE ChooseScript(chip)} :
         \/ resolved' = choice
         \/ choice.kind = "chosen" /\ resolved' = [kind |-> "unsafe_path"]
  /\ UNCHANGED scripts

FlashNext == ReadScript \/ ResolveExplicit \/ ResolveByChip

FlashSpec == FlashInit /\ [][FlashNext]_flashVars

-----------------------------------------------------------------------------
(* What a pattern means, without a way to decide it: the text can be cut  *)
(* into pieces, one per character of the pattern, that fit.               *)
Fits(pattern, text) ==
  \E cut \in [0 .. Len(pattern) -> 0 .. Len(text)] :
    /\ cut[0] = 0 /\ cut[Len(pattern)] = Len(text)
    /\ \A i \in DOMAIN pattern :
         \/ pattern[i] = "*" /\ cut[i - 1] <= cut[i]
         \/ /\ cut[i] = cut[i - 1] + 1
            /\ pattern[i] \in {"?", text[cut[i]]}

(* The claims a script has on a chip: what each fitting pattern offers. *)
Claims(script, chip) ==
  {<<script.source = "library", Specificity(script.chips[i]), ~script.variant>> :
     i \in {j \in DOMAIN script.chips : script.prepare_only /\ Fits(script.chips[j], chip)}}

(* The user's library goes before TRACE32's scripts, then the more        *)
(* specific pattern, then the plain script before the variant.            *)
StrongerClaim(a, b) ==
  \/ a[1] /\ ~b[1]
  \/ a[1] = b[1] /\ Below(b[2], a[2])
  \/ a[1] = b[1] /\ a[2] = b[2] /\ a[3] /\ ~b[3]

StrongestClaims(chip) ==
  LET all == UNION {Claims(scripts[i], chip) : i \in DOMAIN scripts}
  IN  {c \in all : ~\E d \in all : StrongerClaim(d, c)}

(* `flash` erases and programs through the script it chose, so the choice *)
(* must not depend on the order of files: a script is chosen exactly if   *)
(* it alone has the strongest claim on the chip; two of them are refused  *)
(* as ambiguous; and it is "not found" only if no script with PREPAREONLY *)
(* fits.  The pattern shown to the user is the one that gave the claim.   *)
(* It covers glob_match's backtracking, specificity, the ranks and choose. *)
ChoiceIsUniqueBest ==
  resolved.kind \in {"chosen", "ambiguous", "not_found"} =>
    LET chip == resolved.chip
        holders == {i \in DOMAIN scripts : Claims(scripts[i], chip) \cap StrongestClaims(chip) # {}}
    IN  /\ resolved.kind = "not_found" <=> holders = {}
        /\ resolved.kind = "ambiguous" <=> Cardinality(holders) > 1
        /\ resolved.kind = "chosen" =>
             /\ \E i \in holders : scripts[i] = resolved.script
             /\ Fits(resolved.pattern, chip)
             /\ \E c \in StrongestClaims(chip) : c[2] = Specificity(resolved.pattern)
=============================================================================
