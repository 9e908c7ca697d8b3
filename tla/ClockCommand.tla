---------------------------- MODULE ClockCommand ----------------------------
(***************************************************************************)
(* `tracebridge debug clock` (debug/clock.rs, clock of debug/commands.rs): *)
(* the arguments, the choice of the description, its checks, the one read  *)
(* of every register, the evaluation (ClockTree) of the expressions, and   *)
(* the views (ClockViews).                                                 *)
(*                                                                         *)
(* An expression is a sequence of tokens: numbers, fields of registers and *)
(* operators.  A description is a table as written, checked by `parse`.    *)
(* Numbers are integers that the divisors divide.                          *)
(***************************************************************************)
EXTENDS ClockTree, ClockViews, FlashChoice, Integers, TLC

CONSTANTS
  ExpressionTexts, (* texts for the parser alone                           *)
  Directories,     (* sequences of files: a description or Broken          *)
  Calls,           (* chip, file of --tree, [clock] of trace32.toml,       *)
                   (* arguments, --html                                    *)
  RegisterValues,
  TopBit,          (* 31                                                   *)
  Broken,          (* a file or argument that cannot be read or parsed     *)
  Missing,         (* no chip, no file, no frequency                       *)
  SameName(_, _)   (* eq_ignore_ascii_case                                 *)

ASSUME ExpressionAssumption == TopBit \in Nat /\ RegisterValues \subseteq Nat

VARIABLES
  clkAt,           (* the next step                                        *)
  expression,      (* the text parsed alone, and its node                  *)
  call, directory,
  description,     (* the description chosen                               *)
  inputs,          (* frequencies given: trace32.toml, then arguments      *)
  read_at,         (* loop of Registers::read                              *)
  values,          (* Registers: value, or Fails, of what was read         *)
  reads,           (* history: Data.Long() of a register: name and class   *)
  result,          (* exit code, warnings, and roots without frequency     *)
  given            (* the frequencies that the page says were used         *)

commandVars == <<clkAt, expression, call, directory, description, inputs, read_at, values, reads,
                 result, given>>

-----------------------------------------------------------------------------
(* Parser.  A result is a node and the position behind it; 0 is a failure. *)
Refused == [token |-> "refused"]
NotParsed == [node |-> Refused, at |-> 0]

Eats(tokens, at, ops) == at \in DOMAIN tokens /\ tokens[at].token \in ops

Joined(left, op, right) ==
  IF right.at = 0 THEN NotParsed
  ELSE [node |-> [token |-> op, left |-> left.node, right |-> right.node], at |-> right.at]

(* comparison, sum, product, power, atom, from the weakest: the operators  *)
(* of a level join what the next one reads, again and again from the left; *)
(* a comparison only once, and a power with the power to its right.        *)
Levels == <<{"==", "!="}, {"+", "-"}, {"*", "/"}, {"^"}>>
AtomLevel == Len(Levels) + 1
RECURSIVE ParseLevel(_, _, _), JoinFrom(_, _, _)

(* atom: the bits of a field are [high:low] within TopBit..0.              *)
ParseLevel(tokens, at, level) ==
  IF level < AtomLevel THEN JoinFrom(tokens, level, ParseLevel(tokens, at, level + 1))
  ELSE IF Eats(tokens, at, {"("})
    THEN LET inner == ParseLevel(tokens, at + 1, 1)
         IN  IF inner.at # 0 /\ Eats(tokens, inner.at, {")"}) THEN [inner EXCEPT !.at = @ + 1]
             ELSE NotParsed
  ELSE IF \/ Eats(tokens, at, {"number"})
          \/ Eats(tokens, at, {"field"}) /\ tokens[at].low <= tokens[at].high
                                         /\ tokens[at].high <= TopBit
    THEN [node |-> tokens[at], at |-> at + 1]
  ELSE NotParsed

JoinFrom(tokens, level, left) ==
  IF left.at = 0 \/ ~Eats(tokens, left.at, Levels[level]) THEN left
  ELSE LET right == ParseLevel(tokens, left.at + 1, IF level = 4 THEN 4 ELSE level + 1)
           joined == Joined(left, tokens[left.at].token, right)
       IN  IF level \in {2, 3} THEN JoinFrom(tokens, level, joined) ELSE joined

(* Expr::parse: the whole text.                                            *)
ParseExpr(tokens) ==
  LET whole == ParseLevel(tokens, 1, 1)
  IN  IF whole.at = Len(tokens) + 1 THEN whole.node ELSE Refused

(* Expr::registers *)
RECURSIVE NodeRegisters(_)
NodeRegisters(node) ==
  IF node.token = "number" THEN {}
  ELSE IF node.token = "field" THEN {node.register}
  ELSE NodeRegisters(node.left) \cup NodeRegisters(node.right)

(* eval_node.  A register that the description has not is a panic.         *)
Panic == Broken
Applied(op, left, right) ==
  CASE op = "+" -> left + right [] op = "-" -> left - right [] op = "*" -> left * right
    [] op = "/" -> IF right = 0 THEN Fails ELSE left \div right
    [] op = "^" -> left ^ right
    [] op = "==" -> IF left = right THEN 1 ELSE 0
    [] op = "!=" -> IF left # right THEN 1 ELSE 0

RECURSIVE EvalNode(_, _)
EvalNode(node, of) ==
  IF node.token = "number" THEN node.value
  ELSE IF node.token = "field"
    THEN IF node.register \notin DOMAIN of THEN Panic
         ELSE IF of[node.register] = Fails THEN Fails
         ELSE (of[node.register] \div 2^node.low) % 2^(node.high - node.low + 1)
  ELSE LET left == EvalNode(node.left, of)  right == EvalNode(node.right, of)
       IN  IF left \in {Fails, Panic} THEN left
           ELSE IF right \in {Fails, Panic} THEN right ELSE Applied(node.token, left, right)

-----------------------------------------------------------------------------
(* Description: parse_clock and parse.                                     *)
Has(table, key) == key \in DOMAIN table
ExpressionKeys == {"select", "mul", "div", "enable"}
Warnings(table) == IF Has(table, "warn") THEN table.warn ELSE <<>>
Expressions(table) ==
  {ParseExpr(table[key]) : key \in ExpressionKeys \cap DOMAIN table}
    \cup {ParseExpr(Warnings(table)[k].when) : k \in DOMAIN Warnings(table)}

IsRoot(table) == ~Has(table, "from") /\ ~Has(table, "select")

ParseClock(table) ==
  /\ DOMAIN table \subseteq {"name", "group", "hz", "from", "sources", "warn"} \cup ExpressionKeys
  /\ Has(table, "name") /\ Refused \notin Expressions(table)
  /\ ~(Has(table, "from") /\ Has(table, "select"))
  /\ Has(table, "select") <=> Has(table, "sources")
  /\ Has(table, "hz") => IsRoot(table)

Parents(table) ==
  IF Has(table, "from") THEN {table.from}
  ELSE IF Has(table, "select") THEN {table.sources[code] : code \in DOMAIN table.sources}
  ELSE {}

Used(file) == UNION {NodeRegisters(node) : node \in UNION {Expressions(file.clocks[i]) :
                                                            i \in DOMAIN file.clocks}}
RegisterNames(file) == {file.registers[k].name : k \in DOMAIN file.registers}
ClockNames(file) == {file.clocks[i].name : i \in DOMAIN file.clocks}

(* Mutant: the registers of an expression are not looked up.               *)
UsableWithAnyRegister(file) ==
  /\ file # Broken /\ file.clocks # <<>>
  /\ \A i \in DOMAIN file.clocks : ParseClock(file.clocks[i])
  /\ Cardinality(ClockNames(file)) = Len(file.clocks)
  /\ \A i \in DOMAIN file.clocks : Parents(file.clocks[i]) \subseteq ClockNames(file)

(* load, parse: every clock, then names, sources and registers.            *)
Usable(file) ==
  /\ file # Broken /\ file.clocks # <<>>
  /\ \A i \in DOMAIN file.clocks : ParseClock(file.clocks[i])
  /\ Cardinality(ClockNames(file)) = Len(file.clocks)
  /\ \A i \in DOMAIN file.clocks : Parents(file.clocks[i]) \subseteq ClockNames(file)
  /\ Used(file) \subseteq RegisterNames(file)

(* find: the usable files that match, by their most specific pattern.      *)
MatchingRanks(file, chip) ==
  {Specificity(file.chips[p]) : p \in {p \in DOMAIN file.chips : GlobMatch(file.chips[p], chip)}}
HighestRank(ranks) == CHOOSE r \in ranks : \A other \in ranks \ {r} : Below(other, r)

FindFiles(chip) ==
  LET candidates == {f \in DOMAIN directory : Usable(directory[f])
                                              /\ MatchingRanks(directory[f], chip) # {}}
      rank(f) == HighestRank(MatchingRanks(directory[f], chip))
  IN  {f \in candidates : \A other \in candidates : ~Below(rank(f), rank(other))}

-----------------------------------------------------------------------------
CommandInit ==
  /\ \/ /\ clkAt = "expression" /\ expression \in [text : ExpressionTexts, node : {Refused}]
        /\ call = Missing /\ directory = <<>>
     \/ /\ clkAt = "inputs" /\ expression = [text |-> <<>>, node |-> Refused]
        /\ call \in Calls /\ directory \in Directories
  /\ description = Missing /\ inputs = <<>> /\ read_at = 1 /\ values = <<>> /\ reads = <<>>
  /\ result = [code |-> Missing, warnings |-> {}, missing |-> {}] /\ given = <<>>

Fail == clkAt' = "ended" /\ result' = [result EXCEPT !.code = 1]

ParseText ==
  /\ clkAt = "expression" /\ clkAt' = "parsed"
  /\ expression' = [expression EXCEPT !.node = ParseExpr(expression.text)]
  /\ UNCHANGED <<call, directory, description, inputs, read_at, values, reads, result, given,
                 clockVars, viewVars>>

(* parse_inputs; trace32.toml first, arguments override.                   *)
ParseInputs ==
  /\ clkAt = "inputs"
  /\ IF \E i \in DOMAIN call.arguments : call.arguments[i] = Broken
       THEN Fail /\ UNCHANGED inputs
       ELSE clkAt' = "tree" /\ inputs' = call.config \o call.arguments /\ UNCHANGED result
  /\ UNCHANGED <<expression, call, directory, description, read_at, values, reads, given,
                 clockVars, viewVars>>

(* clock_tree; then evaluate refuses a frequency for what is no source.    *)
Chosen ==
  IF call.tree # Missing THEN call.tree
  ELSE IF call.chip = Missing \/ Cardinality(FindFiles(call.chip)) # 1 THEN Broken
  ELSE directory[CHOOSE f \in FindFiles(call.chip) : TRUE]

ChooseTree ==
  /\ clkAt = "tree"
  /\ LET sources == {i \in DOMAIN Chosen.clocks : IsRoot(Chosen.clocks[i])}
         known(input) == \E i \in sources : SameName(Chosen.clocks[i].name, input.name)
     IN  IF ~Usable(Chosen) \/ \E k \in DOMAIN inputs : ~known(inputs[k])
           THEN Fail /\ UNCHANGED description
           ELSE clkAt' = "registers" /\ description' = Chosen /\ UNCHANGED result
  /\ UNCHANGED <<expression, call, directory, inputs, read_at, values, reads, given,
                 clockVars, viewVars>>

(* Registers::read, read_long: a register that no clock uses is not read;  *)
(* a CP15 register of Hyp mode is tried again as HC15.                     *)
Register == description.registers[read_at]
Answer(outcome) == values' = values @@ (Register.name :> outcome) /\ read_at' = read_at + 1

SkipRegister ==
  /\ clkAt = "registers" /\ read_at \in DOMAIN description.registers
  /\ Register.name \notin Used(description) /\ read_at' = read_at + 1
  /\ UNCHANGED <<clkAt, expression, call, directory, description, inputs, values, reads, result,
                 given, clockVars, viewVars>>

ReadRegister ==
  /\ clkAt \in {"registers", "again"} /\ read_at \in DOMAIN description.registers
  /\ Register.name \in Used(description)
  /\ reads' = Append(reads, [name |-> Register.name, again |-> clkAt = "again"])
  /\ \/ \E v \in RegisterValues : Answer(v) /\ clkAt' = "registers" /\ UNCHANGED result
     \/ /\ Register.hyp_cp15 /\ clkAt = "registers" /\ clkAt' = "again"
        /\ UNCHANGED <<values, read_at, result>>
     \/ /\ ~Register.hyp_cp15 \/ clkAt = "again"
        /\ Answer(Fails) /\ clkAt' = "registers" /\ UNCHANGED result
     \/ Fail /\ UNCHANGED <<values, read_at>>
  /\ UNCHANGED <<expression, call, directory, description, inputs, given, clockVars, viewVars>>

-----------------------------------------------------------------------------
(* Evaluator::state: what the registers and the inputs make of a clock.    *)
Index(name) == CHOOSE i \in DOMAIN description.clocks : description.clocks[i].name = name
GivenTo(name) == {k \in DOMAIN inputs : SameName(inputs[k].name, name)}
Value(table, key) == IF Has(table, key) THEN EvalNode(ParseExpr(table[key]), values) ELSE 1

FieldValue(table) ==
  LET v == Value(table, "select") IN IF v \in {Fails, Panic} THEN v ELSE IF v < 0 THEN 0 ELSE v

SourceOf(table) ==
  LET latest == CHOOSE k \in GivenTo(table.name) : \A other \in GivenTo(table.name) : other <= k
  IN  IF Has(table, "from") THEN [kind |-> "clock", of |-> Index(table.from)]
      ELSE IF ~IsRoot(table)
        THEN IF FieldValue(table) = Fails THEN [kind |-> "fails"]
             ELSE IF FieldValue(table) \in DOMAIN table.sources
               THEN [kind |-> "clock", of |-> Index(table.sources[FieldValue(table)])]
             ELSE [kind |-> "unknown"]
      ELSE IF GivenTo(table.name) # {} THEN [kind |-> "root", hz |-> inputs[latest].hz]
      ELSE IF Has(table, "hz") THEN [kind |-> "root", hz |-> table.hz]
      ELSE [kind |-> "unknown"]

Panics == \E node \in UNION {Expressions(description.clocks[i]) : i \in DOMAIN description.clocks} :
            EvalNode(node, values) = Panic

Evaluation ==
  /\ clkAt = "registers" /\ read_at \notin DOMAIN description.registers
  /\ IF Panics THEN clkAt' = "panicked" /\ UNCHANGED <<clocks, done>>
     ELSE /\ clkAt' = "evaluating"
          /\ clocks' = [i \in DOMAIN description.clocks |->
                LET table == description.clocks[i] IN
                [source |-> SourceOf(table),
                 gates |-> [enable |-> Value(table, "enable"), mul |-> Value(table, "mul"),
                            div |-> Value(table, "div")]]]
          /\ done' = [i \in DOMAIN description.clocks |-> NoAnswer]
  /\ UNCHANGED <<next, visiting, answer, expression, call, directory, description, inputs,
                 read_at, values, reads, result, given, viewVars>>

EvaluateClocks ==
  /\ clkAt = "evaluating" /\ ClockNext
  /\ UNCHANGED <<commandVars, viewVars>>

(* Warnings of the clocks that run; the sources without frequency.         *)
WarningsOf(i) ==
  LET warn == Warnings(description.clocks[i])
      says(k) == EvalNode(ParseExpr(warn[k].when), values)
  IN  IF done[i].state # "hz" THEN {}
      ELSE {[clock |-> i, warning |-> k, unknown |-> says(k) = Fails] :
              k \in {k \in DOMAIN warn : says(k) # 0}}

(* A frequency replaces the one given before under the same name.          *)
GivenAfter(n) ==
  LET keep[k \in 0 .. n] ==
        IF k = 0 THEN <<>>
        ELSE Append(SelectSeq(keep[k - 1], LAMBDA g : ~SameName(g.name, inputs[k].name)), inputs[k])
  IN  keep[n]

(* The report: exit_code, the text and, with --html, the page, which is    *)
(* written once everything is drawn.                                       *)
Report ==
  /\ clkAt = "evaluating" /\ Finished
  /\ clkAt' = "drawing"
  /\ result' =
       [code |-> IF \E i \in Clocks : done[i].state = "error" THEN 1 ELSE 0,
        warnings |-> UNION {WarningsOf(i) : i \in Clocks},
        missing |-> {i \in Clocks : IsRoot(description.clocks[i]) /\ done[i].state = "unknown"}]
  /\ given' = GivenAfter(Len(inputs))
  /\ report' = [i \in Clocks |->
       LET table == description.clocks[i]
           source == clocks[i].source
           selects == Has(table, "select") /\ source.kind # "fails"
       IN  [parent |-> IF source.kind = "clock" THEN source.of ELSE NoParent,
            group |-> IF Has(table, "group") THEN table.group ELSE NoGroup,
            selects |-> selects,
            others |-> IF ~selects THEN {}
                       ELSE {Index(table.sources[code]) : code \in DOMAIN table.sources
                                                                    \ {FieldValue(table)}}]]
  /\ viewAt' = "text"
  /\ UNCHANGED <<expression, call, directory, description, inputs, read_at, values, reads,
                 clockVars, rows, boxes, links, panels>>

Draw ==
  /\ clkAt = "drawing" /\ ViewNext /\ (viewAt = "text" \/ call.html)
  /\ UNCHANGED <<commandVars, clockVars>>

WriteOut ==
  /\ clkAt = "drawing" /\ clkAt' = "ended"
  /\ \/ (IF call.html THEN viewAt = "drawn" ELSE viewAt = "panels") /\ UNCHANGED result
     \/ call.html /\ viewAt = "drawn" /\ result' = [result EXCEPT !.code = 1]
  /\ UNCHANGED <<expression, call, directory, description, inputs, read_at, values, reads,
                 given, clockVars, viewVars>>

CommandNext ==
  \/ ParseText \/ ParseInputs \/ ChooseTree \/ SkipRegister \/ ReadRegister
  \/ Evaluation \/ EvaluateClocks \/ Report \/ Draw \/ WriteOut

-----------------------------------------------------------------------------
(* What an expression means: the operator that binds weakest and is not in *)
(* parentheses splits it; at most one comparison, the last of sums and     *)
(* products, the first of powers.                                          *)
Nesting(text, i) ==
  LET count(token) == Cardinality({k \in 1 .. i - 1 : text[k].token = token})
  IN  count("(") - count(")")

RECURSIVE Meaning(_)
Meaning(text) ==
  LET at(ops) == {i \in DOMAIN text : text[i].token \in ops /\ Nesting(text, i) = 0}
      split(i) ==
        LET left == Meaning(SubSeq(text, 1, i - 1))
            right == Meaning(SubSeq(text, i + 1, Len(text)))
        IN  IF Refused \in {left, right} THEN Refused
            ELSE [token |-> text[i].token, left |-> left, right |-> right]
      first(set) == CHOOSE i \in set : \A j \in set : i <= j
      last(set)  == CHOOSE i \in set : \A j \in set : i >= j
      comparisons == at({"==", "!="})
  IN  IF Cardinality(comparisons) > 1 THEN Refused
      ELSE IF comparisons # {} THEN split(first(comparisons))
      ELSE IF at({"+", "-"}) # {} THEN split(last(at({"+", "-"})))
      ELSE IF at({"*", "/"}) # {} THEN split(last(at({"*", "/"})))
      ELSE IF at({"^"}) # {} THEN split(first(at({"^"})))
      ELSE IF Len(text) > 2 /\ text[1].token = "(" /\ text[Len(text)].token = ")"
        THEN Meaning(SubSeq(text, 2, Len(text) - 1))
      ELSE IF Len(text) # 1 THEN Refused
      ELSE IF text[1].token = "field" /\ TopBit >= text[1].high /\ text[1].high >= text[1].low
        THEN text[1]
      ELSE IF text[1].token = "number" THEN text[1] ELSE Refused

(* The frequency that was given last for a source.                         *)
LastGiven(name) ==
  LET all == call.config \o call.arguments
      same == {k \in DOMAIN all : SameName(all[k].name, name)}
  IN  IF same = {} THEN Missing ELSE all[CHOOSE k \in same : \A j \in same : j <= k].hz

(* Property: an expression is read as it means, or refused; a description  *)
(* that passed the checks never panics, and if none was named it is the    *)
(* only one with the pattern most specific for the chip; a register is     *)
(* read only if a clock uses it, and once, or once more as HC15; a source  *)
(* runs at the frequency given last, an argument before trace32.toml, and  *)
(* that is the one frequency the page says was given; exit code 0 means    *)
(* that no clock failed, and then with no source missing a clock is        *)
(* unknown only for a selection that is not described, or a loop.          *)
(* (Expr, parse, find, Registers::read, Evaluator::state, clock.)          *)
DescriptionIsHonoured ==
  /\ clkAt = "parsed" => expression.node = Meaning(expression.text)
  /\ clkAt # "panicked"
  /\ description # Missing /\ call.tree = Missing =>
       \E p \in DOMAIN description.chips :
         /\ Fits(description.chips[p], call.chip)
         /\ Cardinality({f \in DOMAIN directory :
              /\ directory[f] # Broken /\ Usable(directory[f])
              /\ \E q \in DOMAIN directory[f].chips :
                   /\ Fits(directory[f].chips[q], call.chip)
                   /\ ~Below(Specificity(directory[f].chips[q]),
                             Specificity(description.chips[p]))}) = 1
  /\ \A k, l \in DOMAIN reads : k # l => reads[k] # reads[l]
  /\ description # Missing => {reads[k].name : k \in DOMAIN reads} \subseteq Used(description)
  /\ clkAt = "drawing" =>
       /\ \A i \in Clocks : IsRoot(description.clocks[i]) =>
            LET name == description.clocks[i].name
                said == {k \in DOMAIN given : SameName(given[k].name, name)}
            IN  /\ {given[k].hz : k \in said} = {LastGiven(name)} \ {Missing}
                /\ Cardinality(said) <= 1
                /\ said # {} => clocks[i].source = [kind |-> "root", hz |-> LastGiven(name)]
       /\ result.code = 0 /\ result.missing = {} =>
            \A i \in Clocks :
              LET last == Chain(i)[Len(Chain(i))] IN
              done[i].state = "unknown" =>
                \/ clocks[last].source.kind = "clock"
                \/ clocks[last].source.kind = "unknown" /\ Has(description.clocks[last], "select")
=============================================================================
