----------------------------- MODULE ClockTree -----------------------------
(***************************************************************************)
(* debug/clock.rs: Evaluator, which computes the state of every clock of a *)
(* description from the clocks they run from, depth first, keeping what it *)
(* has computed.  Registers are read once, before; so an expression of a   *)
(* clock has a value, or fails because its register cannot be read.        *)
(*                                                                         *)
(* A clock is its source as selected by the registers (From and Select are *)
(* the same once the field has a value) and its three expressions.  1      *)
(* stands for an absent `enable`, `mul` or `div`, which changes nothing.   *)
(* Frequencies are numbers that the divisors divide.  Texts, warnings and  *)
(* rendering are left out.                                                 *)
(***************************************************************************)
EXTENDS Naturals, Sequences, FiniteSets

CONSTANTS
  NClocks,      (* bound: clocks of a description                          *)
  Fails,        (* value of an expression whose register cannot be read    *)
  Gates,        (* enable, mul and div of a clock                          *)
  RootHz        (* frequencies of roots                                    *)

ASSUME ClocksAssumption == NClocks \in Nat /\ Fails \notin Nat

VARIABLES
  clocks,       (* the description, its fields already selected            *)
  next,         (* loop of `evaluate`: the next clock                      *)
  done,         (* Evaluator::done                                         *)
  visiting,     (* Evaluator::visiting, the calls under way                *)
  answer        (* what the inner `evaluate` returned to the latest call   *)

clockVars == <<clocks, next, done, visiting, answer>>

Clocks == DOMAIN clocks

(* A root with its frequency; From or Select of another clock, which      *)
(* `parse` has checked to exist; a root without frequency or a selection  *)
(* that is not described; a selector whose field cannot be read.          *)
ClockSources ==
  [kind : {"root"}, hz : RootHz] \cup [kind : {"clock"}, of : 1 .. NClocks]
    \cup {[kind |-> "unknown"], [kind |-> "fails"]}

Hz(f) == [state |-> "hz", hz |-> f]
Off == [state |-> "off"]
Unknown == [state |-> "unknown"]
Error == [state |-> "error"]
NoAnswer == [state |-> "none yet"]

(* derive: enable first; a divider of a clock that is off says nothing.   *)
Derive(gates, source) ==
  IF gates.enable = Fails THEN Error
  ELSE IF gates.enable = 0 THEN Off
  ELSE IF source = Off THEN Off
  ELSE IF gates.mul = Fails \/ gates.div = Fails THEN Error
  ELSE IF gates.div = 0 THEN Off
  ELSE IF source.state = "hz" THEN Hz((source.hz * gates.mul) \div gates.div)
  ELSE source

(* What a clock takes over from the one it runs from. *)
FromParent(parent) == IF parent.state = "error" THEN Unknown ELSE parent

(* state, once the inner call has returned. *)
SourceState(source) ==
  IF source.kind = "root" THEN Hz(source.hz)
  ELSE IF source.kind = "clock" THEN FromParent(answer)
  ELSE IF source.kind = "fails" THEN Error ELSE Unknown

-----------------------------------------------------------------------------
ClockInit ==
  /\ clocks \in [1 .. NClocks -> [source : ClockSources, gates : Gates]]
  /\ next = 1
  /\ done = [i \in 1 .. NClocks |-> NoAnswer]
  /\ visiting = <<>>
  /\ answer = NoAnswer

(* Mutant: only a clock that is its own source directly is noticed. *)
EvaluateSelf(index) ==
  IF done[index] # NoAnswer
    THEN answer' = done[index] /\ UNCHANGED visiting
  ELSE IF visiting # <<>> /\ Head(visiting) = index
    THEN answer' = Hz(0) /\ UNCHANGED visiting
  ELSE visiting' = Append(visiting, index) /\ UNCHANGED answer

(* evaluate(index) called from `state`: what is done is returned, and a    *)
(* clock that is being computed is its own source: an error that is not    *)
(* kept.                                                                   *)
Evaluate(index) ==
  IF done[index] # NoAnswer
    THEN answer' = done[index] /\ UNCHANGED visiting
  ELSE IF \E k \in DOMAIN visiting : visiting[k] = index
    THEN answer' = Error /\ UNCHANGED visiting
  ELSE visiting' = Append(visiting, index) /\ UNCHANGED answer

(* The loop of the free function `evaluate` over the clocks. *)
EvaluateNext ==
  /\ visiting = <<>>
  /\ next <= Len(clocks)
  /\ next' = next + 1
  /\ visiting' = IF done[next] = NoAnswer THEN <<next>> ELSE <<>>
  /\ UNCHANGED <<clocks, done, answer>>

(* state: the clock runs from another one. *)
EvaluateSource ==
  /\ visiting # <<>>
  /\ answer = NoAnswer
  /\ LET source == clocks[visiting[Len(visiting)]].source
     IN  source.kind = "clock" /\ Evaluate(source.of)
  /\ UNCHANGED <<clocks, next, done>>

(* evaluate: the clock is derived from its source, kept, and returned.    *)
(* The outermost result goes to the report.                               *)
EvaluateReturns ==
  /\ visiting # <<>>
  /\ LET index == visiting[Len(visiting)]
         clock == clocks[index]
         state == Derive(clock.gates, SourceState(clock.source))
     IN  /\ clock.source.kind = "clock" => answer # NoAnswer
         /\ done' = [done EXCEPT ![index] = state]
         /\ answer' = IF Len(visiting) = 1 THEN NoAnswer ELSE state
  /\ visiting' = SubSeq(visiting, 1, Len(visiting) - 1)
  /\ UNCHANGED <<clocks, next>>

ClockNext == EvaluateNext \/ EvaluateSource \/ EvaluateReturns

Finished == next > Len(clocks) /\ visiting = <<>>

ClockSpec == ClockInit /\ [][ClockNext]_clockVars

-----------------------------------------------------------------------------
Follows(i, j) == clocks[i].source.kind = "clock" /\ clocks[i].source.of = j

(* The clocks that `i` runs from, itself first, up to the one after which *)
(* none or one of them again follows.                                     *)
Chain(i) ==
  CHOOSE chain \in UNION {[1 .. n -> Clocks] : n \in 1 .. Len(clocks)} :
    /\ chain[1] = i
    /\ \A k \in 1 .. Len(chain) - 1 : Follows(chain[k], chain[k + 1])
    /\ \A k, l \in DOMAIN chain : chain[k] = chain[l] => k = l
    /\ LET source == clocks[chain[Len(chain)]].source
       IN  source.kind = "clock" => \E k \in DOMAIN chain : chain[k] = source.of

(* The frequency at the first clock of a chain, from the root on. *)
ChainHz(chain) ==
  LET hz[k \in 1 .. Len(chain)] ==
        LET clock == clocks[chain[k]]
            source == IF k = Len(chain) THEN clock.source.hz ELSE hz[k + 1]
        IN  (source * clock.gates.mul) \div clock.gates.div
  IN  hz[1]

Running(i) ==
  LET g == clocks[i].gates
  IN  g.enable \notin {0, Fails} /\ g.mul # Fails /\ g.div \notin {0, Fails}

SwitchedOff(i) == clocks[i].gates.enable = 0 \/ clocks[i].gates.div = 0

ExpressionFails(i) ==
  \/ Fails \in {clocks[i].gates[e] : e \in {"enable", "mul", "div"}}
  \/ clocks[i].source.kind = "fails"

(* Registers may wire the clocks of a description in a loop, and the       *)
(* evaluator keeps what it found while the loop was open.  Whatever the    *)
(* order of the clocks: no clock is entered twice, so the recursion ends;  *)
(* a clock is shown with a frequency exactly if every clock from it up to  *)
(* a root runs, and it is the root's times the factors on the way (so none *)
(* on a loop has one); it is shown as off only if one of them is switched  *)
(* off, and as an error, which sets the exit code, only if an expression   *)
(* of its own fails.  Off a loop, each clock agrees with what is shown of  *)
(* the clock it runs from.  (Evaluator::evaluate, state and derive.)       *)
ClocksFollowTheirSources ==
  /\ \A k, l \in DOMAIN visiting : visiting[k] = visiting[l] => k = l
  /\ Finished => \A i \in Clocks :
      LET chain == Chain(i)
          source == clocks[chain[Len(chain)]].source
      IN  /\ done[i].state = "hz" <=>
               source.kind = "root" /\ \A k \in DOMAIN chain : Running(chain[k])
          /\ done[i].state = "hz" => done[i].hz = ChainHz(chain)
          /\ done[i].state = "off" => \E k \in DOMAIN chain : SwitchedOff(chain[k])
          /\ done[i].state = "error" => ExpressionFails(i)
          /\ source.kind # "clock" /\ Len(chain) > 1 =>
               done[i] = Derive(clocks[i].gates, FromParent(done[chain[2]]))
=============================================================================
