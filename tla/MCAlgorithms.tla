---------------------------- MODULE MCAlgorithms ----------------------------
(***************************************************************************)
(* TLC instance of the sequential parts: the choice of the flash script,   *)
(* the evaluation of the clock tree, its views, the address of a register  *)
(* from the PER file, and the two incremental decoders.  Each behaviour    *)
(* exercises one of them, and the others rest; in "command" `debug clock`  *)
(* takes the evaluation and the views through a whole description.         *)
(***************************************************************************)
EXTENDS FlashChoice, ClockCommand, PerFile, FrameDecoder, DapDecoder

VARIABLE which  (* the algorithm this behaviour is about                   *)

(* Names and patterns: two chips that several patterns match; *)
(* wildcards at the front (backtracking), inside and alone. *)
MCChipNames == {<<"A", "A", "B">>, <<"A", "B">>}
MCChipPatterns ==
  {<<"*", "A", "B">>, <<"A", "?", "B">>, <<"A", "A", "B">>, <<"*">>}

(* All short patterns and texts: glob_match is what the pattern means.     *)
Words(letters, n) == UNION {[1 .. k -> letters] : k \in 0 .. n}
ASSUME GlobAssumption ==
  \A pattern \in Words({"A", "B", "?", "*"}, 3) \cup Words({"A", "B", "*"}, 4),
     word \in Words({"A", "B"}, 4) :
    GlobMatch(pattern, word) = Fits(pattern, word)

Gate(enable, mul, div) == [enable |-> enable, mul |-> mul, div |-> div]
MCGates ==
  {Gate(1, 1, 1), Gate(1, 3, 2), Gate(0, 1, 2), Gate(1, 1, 0),
   Gate(Fails, 1, 1), Gate(1, Fails, 0), Gate(1, 1, Fails)}

MCPerLines ==
  {[kind |-> "tree", name |-> "X"], [kind |-> "tree", name |-> "Y"], [kind |-> "tree.end"],
   [kind |-> "base", base |-> 16], [kind |-> "base", base |-> None],
   [kind |-> "group", literal |-> FALSE, start |-> 0],
   [kind |-> "group", literal |-> TRUE, start |-> 20],
   [kind |-> "line", offset |-> 4], [kind |-> "other line"], [kind |-> "other"],
   [kind |-> "field", definition |-> "a"], [kind |-> "field", definition |-> "b"]}

(* Three clocks, each below any other, grouped or not, selectors or not.   *)
MCEntry ==
  {e \in [parent : 0 .. 3, group : {NoGroup, "G"}, selects : BOOLEAN, others : {{}, {1}}] :
     e.selects \/ e.others = {}}
MCReports == [1 .. 3 -> MCEntry]

(* Expressions: all short ones, and every pair of operators in a row.      *)
Num(n) == [token |-> "number", value |-> n]
Bits(r, high, low) == [token |-> "field", register |-> r, high |-> high, low |-> low]
Op(o) == [token |-> o]
Operators == {"+", "-", "*", "/", "^", "==", "!="}
Tokens == {Num(2), Bits("R", 4, 2), Op("-"), Op("/"), Op("^"), Op("=="), Op("("), Op(")")}
MCExpressionTexts ==
  Words(Tokens, 4) \cup Words({Num(2), Op("-"), Op("^"), Op("("), Op(")")}, 5)
    \cup {<<Num(1), Op(a), Num(2), Op(b), Num(3), Op(c), Num(4)>> : a, b, c \in Operators}
    \cup {<<Op("("), Num(1), Op(a), Num(2), Op(")"), Op(b), Num(3)>> : a, b \in Operators}
    \cup {<<Bits("R", 2, 4)>>, <<Bits("R", 32, 0)>>, <<Num(1), Op("+"), Bits("R", 40, 40)>>}

(* Clocks: a source, a PLL with a warning, a selector and a gated clock.  *)
Osc == [name |-> "OSC"]
Nominal == [name |-> "OSC", hz |-> 8]
Pll ==
  [name |-> "PLL", group |-> "A", from |-> "OSC", mul |-> <<Num(2), Op("*"), Bits("R", 1, 0)>>,
   div |-> <<Bits("R", 2, 2), Op("+"), Num(1)>>, warn |-> <<[when |-> <<Bits("S", 1, 1)>>]>>]
Mux(inputs_named) ==
  [name |-> "MUX", group |-> "B", select |-> <<Bits("S", 0, 0)>>, sources |-> inputs_named]
Core ==
  [name |-> "CORE", from |-> "MUX", enable |-> <<Bits("R", 0, 0), Op("!="), Num(0)>>]
Back == [name |-> "BACK", from |-> "MUX", group |-> "B"]

MCRegister(name) == [name |-> name, hyp_cp15 |-> name = "S"]
File(chips, registers, tables) ==
  [chips |-> chips, registers |-> [k \in DOMAIN registers |-> MCRegister(registers[k])],
   clocks |-> tables]

(* Usable: with all of it; without a frequency; with a loop.  Not usable:  *)
(* a register, a source missing; a clock twice; an expression, an unknown  *)
(* key, from and select, a pattern without clocks.                         *)
Good(chips) == File(chips, <<"R", "U", "S">>, <<Nominal, Pll, Mux(0 :> "OSC" @@ 1 :> "PLL"), Core>>)
NoHz(chips) == File(chips, <<"S", "R">>, <<Mux(1 :> "OSC"), Osc, Core>>)
Loop(chips) == File(chips, <<"S">>, <<Osc, Back, Mux(0 :> "BACK" @@ 1 :> "OSC")>>)
NoReg(chips) == File(chips, <<"R">>, <<Osc, Mux(0 :> "OSC")>>)
Twice(chips) == File(chips, <<>>, <<Osc, Nominal>>)
Unusable ==
  {File(<<<<"A", "B">>>>, <<"R", "S">>, tables) :
     tables \in {<<>>, <<Osc, Mux(0 :> "PLL")>>, <<[mul |-> <<Num(2), Op("+")>>] @@ Osc>>,
                 <<[hertz |-> 8] @@ Osc>>, <<Osc, [from |-> "OSC"] @@ Mux(0 :> "OSC")>>}}

MCDirectories ==
  LET AB == <<"A", "B">>
      Star == <<"A", "*">>
  IN  {<<Good(<<AB>>), NoHz(<<Star>>)>>, <<NoHz(<<Star>>), Loop(<<Star>>)>>,
       <<NoHz(<<AB, Star>>), Broken, Twice(<<AB>>)>>, <<NoReg(<<AB>>), Loop(<<Star, <<"B">>>>)>>,
       <<NoHz(<<<<"B", "*">>>>), Good(<<<<"*", "B">>, <<"A", "?">>>>)>>, SetToSeq(Unusable)}

Input(name, hz) == [name |-> name, hz |-> hz]
PlainCall ==
  [chip |-> <<"A", "B">>, tree |-> Missing, config |-> <<>>, arguments |-> <<>>, html |-> TRUE]
MCCalls ==
  {PlainCall, [PlainCall EXCEPT !.chip = Missing],
   [PlainCall EXCEPT !.config = <<Input("OSC", 16)>>, !.arguments = <<Input("osc", 24)>>],
   [PlainCall EXCEPT !.arguments = <<Input("osc", 24), Input("OSC", 16)>>, !.html = FALSE],
   [PlainCall EXCEPT !.arguments = <<Broken>>], [PlainCall EXCEPT !.config = <<Input("PLL", 16)>>],
   [PlainCall EXCEPT !.tree = Good(<<>>), !.config = <<Input("OSC", 16)>>],
   [PlainCall EXCEPT !.tree = Broken], [PlainCall EXCEPT !.tree = NoReg(<<>>)],
   [PlainCall EXCEPT !.tree = Twice(<<>>)]}
MCSameName(a, b) == a = b \/ {a, b} = {"OSC", "osc"}

(* The algorithms at rest. *)
ClockRest ==
  /\ clocks = <<>> /\ next = 1 /\ done = <<>> /\ visiting = <<>> /\ answer = NoAnswer
ViewRest ==
  /\ report = <<>> /\ rows = <<>> /\ boxes = <<>> /\ links = {} /\ panels = <<>> /\ viewAt = "text"
CommandRest ==
  /\ clkAt = "ended" /\ expression = <<>> /\ call = Missing /\ directory = <<>>
  /\ description = Missing /\ inputs = <<>> /\ read_at = 1 /\ values = <<>> /\ reads = <<>>
  /\ result = Missing /\ given = <<>>
PerRest ==
  /\ with_field = FALSE /\ text = <<>> /\ trees = <<>> /\ top_base = None /\ group = None
  /\ found = <<>> /\ awaiting_field = FALSE /\ register = NoRegister

Init ==
  /\ FlashInit /\ FrameInit /\ DapDecoderInit
  /\ \/ which \in {"flash", "rcl", "dap"} /\ ClockRest /\ ViewRest /\ CommandRest /\ PerRest
     \/ which = "clock" /\ ClockInit /\ ViewRest /\ CommandRest /\ PerRest
     \/ which = "view" /\ ClockRest /\ ViewInit /\ CommandRest /\ PerRest
     \/ which = "command" /\ ClockRest /\ ViewRest /\ CommandInit /\ PerRest
     \/ which = "per" /\ ClockRest /\ ViewRest /\ CommandRest /\ PerInit

Next ==
  \/ which = "flash" /\ FlashNext
       /\ UNCHANGED <<clockVars, viewVars, commandVars, perVars, frameVars, dapDecoderVars, which>>
  \/ which = "clock" /\ ClockNext
       /\ UNCHANGED <<flashVars, viewVars, commandVars, perVars, frameVars, dapDecoderVars, which>>
  \/ which = "view" /\ ViewNext
       /\ UNCHANGED <<flashVars, clockVars, commandVars, perVars, frameVars, dapDecoderVars, which>>
  \/ which = "command" /\ CommandNext
       /\ UNCHANGED <<flashVars, perVars, frameVars, dapDecoderVars, which>>
  \/ which = "per" /\ PerNext
       /\ UNCHANGED <<flashVars, clockVars, viewVars, commandVars, frameVars, dapDecoderVars, which>>
  \/ which = "rcl" /\ FrameNext
       /\ UNCHANGED <<flashVars, clockVars, viewVars, commandVars, perVars, dapDecoderVars, which>>
  \/ which = "dap" /\ DapDecoderNext
       /\ UNCHANGED <<flashVars, clockVars, viewVars, commandVars, perVars, frameVars, which>>

Spec ==
  Init /\ [][Next]_<<flashVars, clockVars, viewVars, commandVars, perVars, frameVars,
                    dapDecoderVars, which>>
=============================================================================
