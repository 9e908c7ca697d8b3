------------------------- MODULE DebugCommandProofs -------------------------
(***************************************************************************)
(* What the command line promises for any arguments; what status, fault,   *)
(* trace and mem promise for any machine state, symbol table and trace     *)
(* listing; what reg promises for any PER file, verify for any images and  *)
(* check for any file of checks; and what vscode promises of the user's    *)
(* files: however many other commands, tools and the target act meanwhile. *)
(* The invariants tie what was asked and answered so far, and what others  *)
(* may change, to the step the command is at.                              *)
(***************************************************************************)
EXTENDS CommandLine, Reports, Verify, VscodeInstall, CheckRun, RegisterLookup,
        SequenceTheorems, FiniteSetTheorems, WellFoundedInduction, TLAPS

(***************************************************************************)
(* Positions of a list.                                                    *)

(* A set of numbers has a least one: the prefixes 0 .. n of its members    *)
(* are finite sets, which strict inclusion orders well.                    *)
LEMMA EarliestIsIn ==
  ASSUME NEW S \in SUBSET Nat, S # {}
  PROVE  Earliest(S) \in S /\ \A m \in S : Earliest(S) <= m
<1> DEFINE T == {0 .. n : n \in S}
<1>1. T \subseteq FiniteSubsetsOf(Nat) /\ T # {}
  <2>1. \A n \in S : IsFiniteSet(0 .. n) /\ 0 .. n \subseteq Nat
    BY FS_Interval
  <2> QED BY <2>1 DEF FiniteSubsetsOf
<1>2. IsWellFoundedOn(StrictSubsetOrdering(Nat), FiniteSubsetsOf(Nat))
  BY FS_StrictSubsetOrderingWellFounded
<1>3. PICK least \in T : \A t \in T : ~(<<t, least>> \in StrictSubsetOrdering(Nat))
  <2> HIDE DEF T
  <2> QED BY <1>1, <1>2, WFMin
<1>4. PICK x \in S : least = 0 .. x
  BY <1>3
<1>5. ASSUME NEW y \in S PROVE x <= y
  <2>1. ~(0 .. y \subseteq 0 .. x /\ 0 .. y # 0 .. x)
    <3>1. 0 .. y \in SUBSET Nat /\ 0 .. x \in SUBSET Nat /\ 0 .. y \in T
      OBVIOUS
    <3>2. ~(<<0 .. y, 0 .. x>> \in StrictSubsetOrdering(Nat))
      BY <1>3, <1>4, <3>1
    <3> QED BY <3>1, <3>2, Zenon DEF StrictSubsetOrdering
  <2>2. CASE y < x
    <3>1. x \in 0 .. x /\ x \notin 0 .. y /\ 0 .. y \subseteq 0 .. x
      BY <2>2
    <3> QED BY <2>1, <3>1
  <2> QED BY <2>2
<1> QED BY <1>5 DEF Earliest

(* The positions of a list that pass a test are no more than its length,   *)
(* and in order each of them is one that passes.                           *)
LEMMA PositionsCount ==
  ASSUME NEW n \in Nat, NEW S \in SUBSET (1 .. n)
  PROVE  IsFiniteSet(S) /\ Cardinality(S) \in Nat /\ Cardinality(S) <= n
<1>1. IsFiniteSet(1 .. n) /\ Cardinality(1 .. n) = n
  BY FS_Interval
<1>2. IsFiniteSet(S) /\ Cardinality(S) <= Cardinality(1 .. n)
  BY <1>1, FS_Subset
<1> QED BY <1>1, <1>2, FS_CardinalityType

LEMMA RankedIsIn ==
  ASSUME NEW n \in Nat, NEW S \in SUBSET (1 .. n), NEW i \in 1 .. Cardinality(S)
  PROVE  Ranked(S, i) \in S /\ Cardinality({j \in S : j <= Ranked(S, i)}) = i
<1> DEFINE upTo(k) == {j \in S : j <= k}
           T == {k \in Nat : i <= Cardinality(upTo(k))}
<1>1. Cardinality(S) \in Nat /\ i \in Nat /\ i >= 1 /\ i <= Cardinality(S)
  BY PositionsCount
<1>2. \A k \in Nat : IsFiniteSet(upTo(k)) /\ Cardinality(upTo(k)) \in Nat
  BY PositionsCount
<1>3. n \in T
  <2>1. \A j \in S : j \in Nat /\ j <= n
    OBVIOUS
  <2>2. upTo(n) = S
    BY <2>1, Zenon
  <2> HIDE DEF upTo
  <2> QED BY <2>2, <1>1
<1>4. T \in SUBSET Nat /\ T # {}
  BY <1>3
<1> DEFINE m == Earliest(T)
<1>5. m \in T /\ \A k \in T : m <= k
  <2> HIDE DEF T
  <2> QED BY <1>4, EarliestIsIn
<1>6. m \in Nat /\ i <= Cardinality(upTo(m))
  BY <1>5
<1> HIDE DEF m
<1>7. m # 0
  <2>0. \A j \in S : ~(j <= 0)
    OBVIOUS
  <2>1. upTo(0) = {}
    BY <2>0, Zenon
  <2>2. Cardinality(upTo(0)) = 0
    BY <2>1, FS_EmptySet
  <2> HIDE DEF upTo
  <2> QED BY <2>2, <1>1, <1>6
<1>8. m - 1 \in Nat /\ m - 1 \notin T
  <2> HIDE DEF T
  <2>1. m - 1 \in Nat /\ ~(m <= m - 1)
    BY <1>6, <1>7
  <2> QED BY <2>1, <1>5
<1>9. ~(i <= Cardinality(upTo(m - 1)))
  BY <1>8
<1>10. upTo(m) = IF m \in S THEN upTo(m - 1) \cup {m} ELSE upTo(m - 1)
  <2>1. \A j \in S : j <= m <=> j <= m - 1 \/ j = m
    BY <1>6, <1>8
  <2> QED BY <2>1, Zenon
<1>11. m \notin upTo(m - 1)
  BY <1>6
<1>12. m \in S
  <2> HIDE DEF upTo
  <2> QED BY <1>6, <1>9, <1>10
<1>13. Cardinality(upTo(m)) = Cardinality(upTo(m - 1)) + 1
  <2> HIDE DEF upTo
  <2>1. Cardinality(upTo(m - 1) \cup {m}) = Cardinality(upTo(m - 1)) + 1
    BY <1>2, <1>8, <1>11, FS_AddElement
  <2> QED BY <2>1, <1>10, <1>12
<1>14. Cardinality(upTo(m)) = i
  <2> HIDE DEF upTo, T
  <2>1. Cardinality(upTo(m)) \in Nat /\ Cardinality(upTo(m - 1)) \in Nat
    BY <1>2, <1>6, <1>8
  <2> QED BY <2>1, <1>1, <1>6, <1>9, <1>13
<1>15. \E k \in S : Cardinality({j \in S : j <= k}) = i
  BY <1>12, <1>14
<1> QED BY <1>15 DEF Ranked

LEMMA PickedIsSequence ==
  ASSUME NEW Values, NEW n \in Nat, NEW S \in SUBSET (1 .. n), NEW list,
         \A k \in S : list[k] \in Values
  PROVE  /\ Picked(list, S) \in Seq(Values)
         /\ Len(Picked(list, S)) = Cardinality(S) /\ Cardinality(S) <= n
         /\ S # {} => Picked(list, S) # <<>>
<1>1. IsFiniteSet(S) /\ Cardinality(S) \in Nat /\ Cardinality(S) <= n
  BY PositionsCount
<1>2. \A i \in 1 .. Cardinality(S) : list[Ranked(S, i)] \in Values
  BY RankedIsIn
<1>3. S # {} => Cardinality(S) # 0
  BY <1>1, FS_EmptySet
<1>4. PICK size \in Nat : size = Cardinality(S)
  BY <1>1
<1>5. Picked(list, S) \in [1 .. size -> Values]
  BY <1>2, <1>4 DEF Picked
<1>6. Picked(list, S) \in Seq(Values) /\ Len(Picked(list, S)) = size
  <2>1. \A p \in [1 .. size -> Values] : p \in Seq(Values) /\ Len(p) = size
    OBVIOUS
  <2> QED BY <1>5, <2>1
<1>7. Len(Picked(list, S)) # 0 => Picked(list, S) # <<>>
  OBVIOUS
<1> QED BY <1>1, <1>3, <1>4, <1>6, <1>7

(* Conversely, a position is found under the number of those up to it.     *)
LEMMA RankedBy ==
  ASSUME NEW n \in Nat, NEW S \in SUBSET (1 .. n), NEW k \in S
  PROVE  /\ Cardinality({j \in S : j <= k}) \in 1 .. Cardinality(S)
         /\ Ranked(S, Cardinality({j \in S : j <= k})) = k
<1> DEFINE upTo(x) == {j \in S : j <= x}
<1>1. \A x \in S : x \in Nat
  OBVIOUS
<1>2. ASSUME NEW x \in S
      PROVE  /\ IsFiniteSet(upTo(x)) /\ Cardinality(upTo(x)) \in Nat
             /\ Cardinality(upTo(x)) <= Cardinality(S)
  <2>1. IsFiniteSet(S) /\ upTo(x) \subseteq S /\ upTo(x) \subseteq 1 .. n
    BY PositionsCount
  <2>2. Cardinality(upTo(x)) <= Cardinality(S)
    BY <2>1, FS_Subset
  <2> QED BY <2>1, <2>2, PositionsCount
<1>3. ASSUME NEW x \in S, NEW y \in S, x < y
      PROVE  Cardinality(upTo(x)) < Cardinality(upTo(y))
  <2>0. \A a, b, c \in Nat : (a < b => ~(b <= a)) /\ (c <= a /\ a < b => c <= b) /\ b <= b
    OBVIOUS
  <2>1. upTo(x) \cup {y} \subseteq upTo(y) /\ y \notin upTo(x)
    BY <1>1, <1>3, <2>0, Zenon
  <2>2. Cardinality(upTo(x) \cup {y}) = Cardinality(upTo(x)) + 1
    BY <1>2, <2>1, FS_AddElement
  <2>3. Cardinality(upTo(x) \cup {y}) <= Cardinality(upTo(y))
    BY <1>2, <2>1, FS_Subset
  <2> HIDE DEF upTo
  <2> QED BY <1>2, <2>2, <2>3
<1>4. ASSUME NEW x \in S, NEW y \in S, Cardinality(upTo(x)) = Cardinality(upTo(y))
      PROVE  x = y
  <2>1. x < y \/ y < x \/ x = y
    BY <1>1
  <2>2. \A a, b \in Nat : a = b => ~(a < b) /\ ~(b < a)
    OBVIOUS
  <2> HIDE DEF upTo
  <2> QED BY <1>2, <1>3, <1>4, <2>1, <2>2
<1>5. Cardinality(upTo(k)) \in 1 .. Cardinality(S)
  <2>1. k \in upTo(k)
    BY <1>1
  <2>2. Cardinality(upTo(k)) # 0
    BY <1>2, <2>1, FS_EmptySet
  <2>3. Cardinality(S) \in Nat
    BY PositionsCount
  <2> HIDE DEF upTo
  <2> QED BY <1>2, <2>2, <2>3
<1>6. /\ Ranked(S, Cardinality(upTo(k))) \in S
      /\ Cardinality(upTo(Ranked(S, Cardinality(upTo(k))))) = Cardinality(upTo(k))
  BY <1>5, RankedIsIn
<1> QED
  <2> HIDE DEF upTo
  <2>1. Ranked(S, Cardinality(upTo(k))) = k
    BY <1>4, <1>6
  <2> QED BY <1>5, <2>1 DEF upTo

(* All positions in order are the positions themselves.                    *)
LEMMA RankedAll ==
  ASSUME NEW n \in Nat, NEW i \in 1 .. n
  PROVE  Ranked(1 .. n, i) = i
<1>1. {j \in 1 .. n : j <= i} = 1 .. i /\ i \in Nat
  OBVIOUS
<1>2. Cardinality(1 .. i) = i
  BY <1>1, FS_Interval
<1>3. Ranked(1 .. n, Cardinality({j \in 1 .. n : j <= i})) = i
  BY RankedBy
<1> QED BY <1>1, <1>2, <1>3

LEMMA PickedAll ==
  ASSUME NEW n \in Nat, NEW list, list = [k \in 1 .. n |-> list[k]]
  PROVE  Picked(list, 1 .. n) = list
<1>1. Cardinality(1 .. n) = n
  BY FS_Interval
<1>2. \A i \in 1 .. n : list[Ranked(1 .. n, i)] = list[i]
  BY RankedAll
<1>3. Picked(list, 1 .. n) = [i \in 1 .. n |-> list[Ranked(1 .. n, i)]]
  BY <1>1 DEF Picked
<1> QED BY <1>2, <1>3

(* Where the members of U are in V.                                        *)
Within(U, V) == {j \in 1 .. Cardinality(V) : Ranked(V, j) \in U}

(* Picking the positions U from what was picked at V gives what is at U.   *)
LEMMA PickedAgain ==
  ASSUME NEW n \in Nat, NEW V \in SUBSET (1 .. n), NEW U \in SUBSET V, NEW list
  PROVE  Picked(Picked(list, V), Within(U, V)) = Picked(list, U)
<1> DEFINE W == {j \in 1 .. Cardinality(V) : Ranked(V, j) \in U}
           down(w) == {j \in W : j <= w}
           below(u) == {j \in U : j <= u}
           place(v) == Cardinality({j \in V : j <= v})
<1>1. Cardinality(V) \in Nat /\ IsFiniteSet(V)
  BY PositionsCount
<1>2. PICK size \in Nat : size = Cardinality(V)
  BY <1>1
<1>3. U \in SUBSET (1 .. n) /\ W \in SUBSET (1 .. size)
  BY <1>2
<1>4. \A j \in 1 .. size : Ranked(V, j) \in V /\ place(Ranked(V, j)) = j
  BY <1>2, RankedIsIn
<1>5. \A v \in V : place(v) \in 1 .. size /\ Ranked(V, place(v)) = v
  BY <1>2, RankedBy
<1>6. ASSUME NEW x \in V, NEW y \in V
      PROVE  x <= y <=> place(x) <= place(y)
  <2>1. x \in Nat /\ y \in Nat
    OBVIOUS
  <2>2. ASSUME NEW a \in V, NEW b \in V, a <= b
        PROVE  place(a) <= place(b)
    <3>1. a \in Nat /\ b \in Nat
      OBVIOUS
    <3>2. ASSUME NEW j \in V, j <= a PROVE j <= b
      <4>1. j \in Nat
        OBVIOUS
      <4> QED BY <2>2, <3>1, <3>2, <4>1
    <3>3. IsFiniteSet({j \in V : j <= b})
      BY <1>1, FS_Subset
    <3>4. {j \in V : j <= a} \subseteq {j \in V : j <= b}
      BY <3>2
    <3> QED BY <3>3, <3>4, FS_Subset
  <2> HIDE DEF place
  <2>3. place(x) \in Nat /\ place(y) \in Nat
    BY <1>5
  <2>4. x <= y \/ y <= x
    BY <2>1
  <2>5. CASE x <= y
    BY <2>2, <2>5
  <2>6. CASE y <= x
    <3>1. place(y) <= place(x)
      BY <2>2, <2>6
    <3>2. place(x) <= place(y) => place(x) = place(y)
      BY <2>3, <3>1
    <3>3. place(x) = place(y) => x = y
      BY <1>5
    <3>4. x = y => x <= y
      BY <2>1
    <3> QED BY <2>2, <3>2, <3>3, <3>4
  <2> QED BY <2>4, <2>5, <2>6
<1> HIDE DEF place
<1>7. ASSUME NEW w \in W
      PROVE  /\ Ranked(V, w) \in U
             /\ Cardinality(down(w)) = Cardinality(below(Ranked(V, w)))
  <2>1. w \in 1 .. size /\ Ranked(V, w) \in U /\ place(Ranked(V, w)) = w
    BY <1>3, <1>4
  <2> DEFINE u == Ranked(V, w)
             f == [j \in down(w) |-> Ranked(V, j)]
  <2>2. ASSUME NEW j \in down(w) PROVE f[j] \in below(u)
    <3>1. j \in 1 .. size /\ Ranked(V, j) \in U /\ j <= w
      BY <1>3
    <3>2. place(Ranked(V, j)) = j
      BY <1>4, <3>1
    <3>3. Ranked(V, j) <= u
      BY <1>6, <2>1, <3>1, <3>2
    <3> QED BY <3>1, <3>3
  <2>3. \A i, j \in down(w) : f[i] = f[j] => i = j
    BY <1>3, <1>4
  <2>4. ASSUME NEW x \in below(u) PROVE \E j \in down(w) : f[j] = x
    <3>1. x \in U /\ x <= u
      OBVIOUS
    <3>2. place(x) \in 1 .. size /\ Ranked(V, place(x)) = x
      BY <1>5, <3>1
    <3>3. place(x) <= place(u)
      BY <1>6, <2>1, <3>1
    <3>4. place(x) \in down(w)
      BY <1>2, <2>1, <3>1, <3>2, <3>3
    <3> QED BY <3>2, <3>4
  <2>5. f \in Bijection(down(w), below(u))
    <3>1. f \in [down(w) -> below(u)]
      BY <2>2
    <3> HIDE DEF f, down, below
    <3>2. f \in Injection(down(w), below(u)) /\ f \in Surjection(down(w), below(u))
      BY <2>3, <2>4, <3>1 DEF Injection, IsInjective, Surjection
    <3> QED BY <3>2 DEF Bijection
  <2>6. IsFiniteSet(down(w))
    <3>1. down(w) \subseteq 1 .. size
      BY <1>3
    <3> QED BY <3>1, PositionsCount
  <2> HIDE DEF f, down, below
  <2>7. Cardinality(down(w)) = Cardinality(below(u))
    BY <2>5, <2>6, FS_Bijection DEF ExistsBijection
  <2> QED BY <2>1, <2>7
<1>8. ASSUME NEW i \in 1 .. Cardinality(W)
      PROVE  Ranked(W, i) \in W /\ Ranked(V, Ranked(W, i)) = Ranked(U, i)
  <2>1. Ranked(W, i) \in W /\ Cardinality(down(Ranked(W, i))) = i
    <3> HIDE DEF W
    <3> QED BY <1>3, RankedIsIn
  <2>2. PICK w \in W : w = Ranked(W, i)
    BY <2>1
  <2>3. Ranked(V, w) \in U /\ Cardinality(below(Ranked(V, w))) = i
    BY <1>7, <2>1, <2>2
  <2>4. Ranked(U, i) = Ranked(V, w)
    BY <1>3, <2>3, RankedBy
  <2> QED BY <2>1, <2>2, <2>4
<1>9. Cardinality(W) = Cardinality(U)
  <2> DEFINE g == [j \in W |-> Ranked(V, j)]
  <2>1. g \in [W -> U]
    OBVIOUS
  <2>2. \A i, j \in W : g[i] = g[j] => i = j
    BY <1>3, <1>4
  <2>3. \A x \in U : \E j \in W : g[j] = x
    <3>1. \A x \in U : place(x) \in W /\ g[place(x)] = x
      BY <1>2, <1>5
    <3> QED BY <3>1
  <2> HIDE DEF g, W
  <2>4. g \in Injection(W, U) /\ g \in Surjection(W, U)
    BY <2>1, <2>2, <2>3 DEF Injection, IsInjective, Surjection
  <2>5. g \in Bijection(W, U)
    BY <2>4 DEF Bijection
  <2>6. IsFiniteSet(W)
    BY <1>3, PositionsCount
  <2> QED BY <2>5, <2>6, FS_Bijection DEF ExistsBijection
<1>10. ASSUME NEW i \in 1 .. Cardinality(W)
       PROVE  Picked(list, V)[Ranked(W, i)] = list[Ranked(U, i)]
  <2>1. Ranked(W, i) \in 1 .. Cardinality(V)
    BY <1>2, <1>3, <1>8
  <2> QED BY <1>8, <2>1 DEF Picked
<1>11. Picked(Picked(list, V), W) = Picked(list, U)
  <2> HIDE DEF W
  <2>1. Picked(Picked(list, V), W)
          = [i \in 1 .. Cardinality(W) |-> Picked(list, V)[Ranked(W, i)]]
    BY DEF Picked
  <2>2. Picked(list, U) = [i \in 1 .. Cardinality(U) |-> list[Ranked(U, i)]]
    BY DEF Picked
  <2> QED BY <1>9, <1>10, <2>1, <2>2
<1> QED BY <1>11 DEF Within

(***************************************************************************)
(* Reports.                                                                *)

(* The steps, and those that come after a register of `fault` is told.     *)
Lookups     == {"nearest", "begin", "end"}
TraceSteps  == {"halted?", "records", "remove", "export", "read"}
MemSteps    == {"count", "symbol address", "base", "word"}
Ended       == {"done", "failed", "lost"}
AfterPc     == Lookups \cup TraceSteps \cup {"done"}
AfterHvbar  == AfterPc \cup {"pc"}
AfterElr    == AfterHvbar \cup {"spsr", "hdfar", "hifar", "hvbar"}
AfterHsr    == AfterElr \cup {"elr"}
AfterIs64   == AfterHsr \cup {"state", "cpsr", "hsr"}
StatusSteps == {"mode", "state", "power", "cpu", "pc", "cpsr"} \cup Lookups \cup Ended

StepsOf(called) ==
  CASE called = "status" -> StatusSteps
    [] called = "fault" -> AfterIs64 \cup {"is_64bit"} \cup Ended
    [] called = "trace" -> Lookups \cup TraceSteps \cup Ended
    [] OTHER -> MemSteps \cup Ended

(* The commands that read a trace, and what they read it into.             *)
ReadsTrace ==
  \/ command.name = "trace" /\ command.last \in Counts
  \/ command.name = "fault" /\ command.trace = TRUE /\ command.last \in Counts

NearSymbols == [symbol : SymbolTable, offset : Nat \cup {None}]
LookupEntries == [address : Nat, symbol : {None} \cup NearSymbols]
Records == [address : Nat, back : BOOLEAN, zero : BOOLEAN]
TraceLines == [numbered : BOOLEAN, classified : BOOLEAN, address : Nat, decimals : Nat]
ToldOf == CoreRegisters \cup {"mode", "state", "is_64bit", "base", "records"}

ReportType ==
  /\ command.name \in {"status", "fault", "trace", "mem"}
  /\ command.name = "fault" => command.trace \in BOOLEAN
  /\ command.name = "fault" /\ command.trace = TRUE => command.last \in Counts
  /\ command.name = "trace" => command.last \in Counts
  /\ at \in StepsOf(command.name)
  /\ DOMAIN told = ToldOf /\ told = [q \in ToldOf |-> told[q]]
  /\ core \in Cores /\ moves \in Nat
  /\ todo \in Seq(Nat) /\ symbols \in Seq(LookupEntries)
  /\ exports \in Nat /\ removal \in Nat

(* The lookup: what is asked about, and what is known of it.               *)
LookupNow ==
  /\ at \in Lookups => todo # <<>>
  /\ at \in {"begin", "end"} =>
       /\ near \in NearSymbols /\ near.symbol.begin <= Head(todo)
  /\ at = "begin" => near.offset = None
  /\ at = "end" => near.offset = Head(todo) - near.symbol.begin

(* The lookups done: symbols that hold their addresses.                    *)
HoldsAddress(entry) ==
  entry.symbol # None =>
    /\ entry.symbol.symbol.begin <= entry.address
    /\ \/ entry.address <= entry.symbol.symbol.end
       \/ entry.address - entry.symbol.symbol.begin < SYMBOL_SLACK
    /\ entry.symbol.offset # None =>
         entry.symbol.offset = entry.address - entry.symbol.symbol.begin

LookupsDone ==
  \A i \in DOMAIN symbols : HoldsAddress(symbols[i])

(* The trace read: its records, once all is read;                          *)
TraceNow ==
  /\ at \in TraceSteps => ReadsTrace /\ dump = NoDump
  /\ at \in {"remove", "export", "read"} => command.last > 0 /\ told["records"] \in Nat
  /\ dump # NoDump =>
       /\ ReadsTrace /\ at \in Lookups \cup Ended
       /\ dump.asked \in Nat /\ dump.asked > 0 /\ dump.exported > removal
       /\ dump.own => Len(dump.records) <= dump.asked

(* and the listing: the one that is read was exported after the removal.   *)
ListingNow ==
  /\ removal <= exports
  /\ listing # None =>
       /\ listing.exported \in Nat /\ listing.exported <= exports
       /\ listing.lines \in Seq(TraceLines)
       /\ listing.own => command.last \in Nat /\ Len(listing.lines) <= command.last
       /\ at \in {"export", "read"} => listing.exported > removal

(* A fault report: the registers told, whoever moves the core,             *)
FaultTold ==
  command.name = "fault" =>
    /\ at \in AfterElr => told["elr"] \in Nat
    /\ at \in AfterHvbar => told["hvbar"] \in Nat
    /\ at \in AfterPc => told["pc"] \in Nat
    /\ at \notin AfterPc \cup Ended => symbols = <<>> /\ dump = NoDump
    /\ at \in Lookups /\ symbols = <<>> => Head(todo) = told["pc"]
    /\ at \in TraceSteps \cup {"done"} => symbols # <<>>
    /\ at \in AfterPc /\ symbols # <<>> => symbols[1].address = told["pc"]

(* and when nobody does: those of the core.                                *)
FaultKnows ==
  command.name = "fault" /\ moves = 0 =>
    /\ told["cpsr"] \in {None, core.cpsr}
    /\ at \in AfterIs64 => told["is_64bit"] \in {None, core.is_64bit} \ {TRUE}
    /\ at \in AfterHsr => told["hsr"] = core.hsr /\ Halted
    /\ at \in AfterElr => told["elr"] = core.elr
    /\ at \in AfterHvbar => told["hvbar"] = core.hvbar
    /\ at \in AfterPc => told["pc"] = core.pc
    /\ blamed # None => ~InHypMode

OthersBlameNothing == command.name # "fault" => blamed = None

CommandInv ==
  /\ ReportType /\ LookupNow /\ LookupsDone /\ TraceNow /\ FaultTold /\ FaultKnows
  /\ OthersBlameNothing

ReportInv == CommandInv /\ ListingNow

(* Records are lines that parse, no more than there are lines; their       *)
(* addresses are numbers, and there is one to look up if there is a record.*)
LEMMA ParsedLines ==
  ASSUME NEW lines \in Seq(TraceLines)
  PROVE  Parsed(lines) \in Seq(Records) /\ Len(Parsed(lines)) <= Len(lines)
<1> DEFINE good == {i \in DOMAIN lines : ParseLine(lines[i]) # None}
           list == [i \in DOMAIN lines |-> ParseLine(lines[i])]
<1>1. PICK n \in Nat : n = Len(lines)
  OBVIOUS
<1>2. good \in SUBSET (1 .. n) /\ DOMAIN lines = 1 .. n
  BY <1>1
<1>3. ASSUME NEW i \in good PROVE list[i] \in Records
  <2>1. i \in DOMAIN lines /\ lines[i] \in TraceLines /\ ParseLine(lines[i]) # None
    BY <1>2
  <2>2. \A line \in TraceLines : ParseLine(line) # None => ParseLine(line) \in Records
    BY DEF ParseLine, TraceLines, Records
  <2> QED BY <2>1, <2>2
<1>4. Parsed(lines) = Picked(list, good)
  BY DEF Parsed
<1> HIDE DEF good, list
<1>5. Picked(list, good) \in Seq(Records) /\ Len(Picked(list, good)) = Cardinality(good)
      /\ Cardinality(good) <= n
  BY <1>2, <1>3, PickedIsSequence
<1> QED BY <1>1, <1>4, <1>5

LEMMA AddressesSeen ==
  ASSUME NEW records \in Seq(Records)
  PROVE  FirstSeen(records) \in Seq(Nat) /\ (records # <<>> => FirstSeen(records) # <<>>)
<1> DEFINE first == {k \in DOMAIN records :
                       \A j \in 1 .. k - 1 : records[j].address # records[k].address}
           list == [k \in DOMAIN records |-> records[k].address]
<1>1. PICK n \in Nat : n = Len(records)
  OBVIOUS
<1>2. first \in SUBSET (1 .. n) /\ DOMAIN records = 1 .. n
  BY <1>1
<1>3. ASSUME NEW k \in first PROVE list[k] \in Nat
  <2>1. records[k] \in Records /\ list[k] = records[k].address
    BY <1>2
  <2> QED BY <2>1 DEF Records
<1>4. FirstSeen(records) = Picked(list, first)
  BY DEF FirstSeen
<1>5. records # <<>> => first # {}
  <2> SUFFICES ASSUME records # <<>> PROVE 1 \in first
    OBVIOUS
  <2>1. n # 0
    BY <1>1
  <2>2. 1 \in 1 .. n /\ 1 .. 1 - 1 = {}
    BY <2>1
  <2> QED BY <1>2, <2>2
<1> HIDE DEF first, list
<1>6. Picked(list, first) \in Seq(Nat) /\ (first # {} => Picked(list, first) # <<>>)
  BY <1>2, <1>3, PickedIsSequence
<1> QED BY <1>4, <1>5, <1>6

(* Below is one of the symbols that begin at or below the address.         *)
LEMMA BelowIsBelow ==
  ASSUME NEW address \in Nat, Below(address) # None
  PROVE  Below(address) \in SymbolTable /\ Below(address).begin <= address
<1> DEFINE lower == {s \in SymbolTable : s.begin <= address}
           gaps == {address - s.begin : s \in lower}
<1>1. \A s \in lower : s.begin \in Nat /\ s.begin <= address
  BY ReportsAssumption
<1>2. lower # {}
  BY DEF Below
<1>3. gaps \in SUBSET Nat /\ gaps # {}
  BY <1>1, <1>2
<1>4. Earliest(gaps) \in gaps /\ \A m \in gaps : Earliest(gaps) <= m
  <2> HIDE DEF gaps
  <2> QED BY <1>3, EarliestIsIn
<1>5. PICK s \in lower : Earliest(gaps) = address - s.begin
  BY <1>4
<1>6. ASSUME NEW t \in lower PROVE t.begin <= s.begin
  <2>1. address - s.begin <= address - t.begin
    BY <1>4, <1>5
  <2> QED BY <1>1, <2>1
<1>7. Below(address) \in lower
  BY <1>2, <1>6 DEF Below
<1> QED BY <1>7

(* The invariant of the reports holds at the start.                        *)
LEMMA ReportInitOk == ReportInit => ReportInv
<1> SUFFICES ASSUME ReportInit PROVE ReportInv
  OBVIOUS
<1> USE DEF ReportInit
<1>1. /\ command.name \in {"status", "fault", "trace", "mem"}
      /\ command.name = "fault" => command.trace \in BOOLEAN
      /\ command.name = "fault" /\ command.trace = TRUE => command.last \in Counts
      /\ command.name = "trace" => command.last \in Counts
  <2>1. \/ command \in [name : {"status"}]
        \/ command \in [name : {"trace"}, last : Counts]
        \/ command \in [name : {"fault"}, trace : {TRUE}, last : Counts]
        \/ command = [name |-> "fault", trace |-> FALSE]
        \/ command \in [name : {"mem"}, location : Locations, count : Counts]
    BY DEF Commands
  <2>2. CASE command \in [name : {"status"}]
    BY <2>2
  <2>3. CASE command \in [name : {"trace"}, last : Counts]
    BY <2>3
  <2>4. CASE command \in [name : {"fault"}, trace : {TRUE}, last : Counts]
    BY <2>4
  <2>5. CASE command = [name |-> "fault", trace |-> FALSE]
    <3>1. command.name = "fault" /\ command.trace = FALSE
      BY <2>5
    <3> QED BY <3>1
  <2>6. CASE command \in [name : {"mem"}, location : Locations, count : Counts]
    BY <2>6
  <2> QED BY <2>1, <2>2, <2>3, <2>4, <2>5, <2>6
<1>2. /\ command.name = "status" => at = "mode"
      /\ command.name = "fault" => at = "is_64bit"
      /\ command.name = "trace" => at = "halted?"
      /\ command.name = "mem" => at = "count"
  BY <1>1 DEF FirstStep
<1>3. ReportType
  <2>1. DOMAIN told = ToldOf /\ told = [q \in ToldOf |-> told[q]]
    BY DEF ToldOf
  <2>2. at \in StepsOf(command.name)
    BY <1>1, <1>2
    DEF StepsOf, StatusSteps, AfterIs64, AfterHsr, AfterElr, AfterHvbar, AfterPc, TraceSteps,
        MemSteps
  <2> QED BY <1>1, <2>1, <2>2 DEF ReportType
<1>4. LookupNow /\ LookupsDone
  BY <1>1, <1>2 DEF LookupNow, LookupsDone, Lookups
<1>5. TraceNow
  BY <1>1, <1>2 DEF TraceNow, TraceSteps, ReadsTrace
<1>6. FaultTold /\ OthersBlameNothing
  BY <1>1, <1>2
  DEF FaultTold, OthersBlameNothing, AfterElr, AfterHvbar, AfterPc, TraceSteps, Lookups, Ended
<1>7. FaultKnows
  <2>1. told["cpsr"] = None
    BY DEF CoreRegisters
  <2> QED BY <2>1, <1>2
      DEF FaultKnows, AfterIs64, AfterHsr, AfterElr, AfterHvbar, AfterPc, TraceSteps, Lookups
<1>8. ListingNow
  <2>1. at \notin {"export", "read"}
    BY <1>1, <1>2
  <2>2. ASSUME listing # None
        PROVE  listing.exported = 0 /\ listing.own = FALSE /\ listing.lines \in Seq(TraceLines)
    <3>1. PICK c \in Cores : listing = [lines |-> c.trace, exported |-> 0, own |-> FALSE]
      BY <2>2
    <3>2. c.trace \in Seq(TraceLines)
      BY ReportsAssumption DEF TraceLines
    <3> QED BY <3>1, <3>2
  <2>3. removal <= exports /\ exports \in Nat /\ exports >= 0
    OBVIOUS
  <2>4. ASSUME listing # None
        PROVE  listing.exported \in Nat /\ listing.exported <= exports /\ ~listing.own
               /\ listing.lines \in Seq(TraceLines)
    <3>1. listing.exported = 0 /\ listing.lines \in Seq(TraceLines)
      BY <2>2, <2>4
    <3>2. ~listing.own
      BY <2>2, <2>4
    <3> QED BY <2>3, <3>1, <3>2
  <2> QED BY <2>1, <2>3, <2>4, Zenon DEF ListingNow
<1> QED BY <1>3, <1>4, <1>5, <1>6, <1>7, <1>8 DEF ReportInv, CommandInv

(* A step that leaves the listing alone and is none of its own.            *)
LEMMA ListingStays ==
  ASSUME ListingNow, command' = command, removal' = removal, UNCHANGED <<listing, exports>>,
         at' \in {"export", "read"} => at \in {"export", "read"}
  PROVE  ListingNow'
BY DEF ListingNow

(* A command that ends, of an error, or with the error of the trace.       *)
LEMMA EndsOk ==
  ASSUME CommandInv, NEW how, Ends(how), UNCHANGED <<core, moves>>, exports' \in Nat,
         how \in {"failed", "lost"} \/ (how = "done" /\ at \in TraceSteps),
         blamed' = blamed \/ (blamed' = Blame(at) /\ command.name = "fault")
  PROVE  CommandInv'
<1> USE DEF Ends
<1>1. ReportType'
  BY DEF CommandInv, ReportType, StepsOf, StatusSteps, Ended
<1>2. LookupNow' /\ LookupsDone'
  BY DEF CommandInv, LookupNow, LookupsDone, Lookups, HoldsAddress
<1>3. TraceNow'
  BY DEF CommandInv, TraceNow, TraceSteps, ReadsTrace, Ended
<1>4. FaultTold'
  BY DEF CommandInv, FaultTold, AfterElr, AfterHvbar, AfterPc, TraceSteps, Lookups, Ended
<1>5. OthersBlameNothing'
  BY DEF CommandInv, OthersBlameNothing
<1>6. FaultKnows'
  <2> SUFFICES ASSUME command.name = "fault", moves = 0
               PROVE  FaultKnows'
    BY DEF FaultKnows
  <2>1. FaultKnows
    BY DEF CommandInv
  <2>2. blamed' # None => ~InHypMode
    <3>1. CASE blamed' = blamed
      BY <2>1, <3>1 DEF FaultKnows
    <3>2. CASE blamed' = Blame(at)
      BY <2>1, <3>2 DEF FaultKnows, Blame, InHypMode
    <3> QED BY <3>1, <3>2
  <2>3. (InHypMode' <=> InHypMode) /\ (Halted' <=> Halted)
    BY DEF InHypMode, Halted
  <2>4. CASE how \in {"failed", "lost"}
    BY <2>1, <2>2, <2>3, <2>4
    DEF FaultKnows, AfterIs64, AfterHsr, AfterElr, AfterHvbar, AfterPc, TraceSteps, Lookups
  <2>5. CASE how = "done" /\ at \in TraceSteps
    <3>1. at \in AfterPc /\ at \in AfterHvbar /\ at \in AfterElr /\ at \in AfterHsr
          /\ at \in AfterIs64
      BY <2>5 DEF AfterIs64, AfterHsr, AfterElr, AfterHvbar, AfterPc
    <3> QED BY <2>1, <2>2, <2>3, <3>1 DEF FaultKnows
  <2> QED BY <2>4, <2>5
<1> QED BY <1>1, <1>2, <1>3, <1>4, <1>5, <1>6 DEF CommandInv

(* A lookup done: the next one, or what the command does after them.       *)
LEMMA FoundOk ==
  ASSUME CommandInv, at \in Lookups, NEW symbol \in {None} \cup NearSymbols,
         HoldsAddress([address |-> Head(todo), symbol |-> symbol]), Found(symbol),
         UNCHANGED worldVars
  PROVE  CommandInv' /\ at' \notin {"export", "read"}
<1> DEFINE entry == [address |-> Head(todo), symbol |-> symbol]
<1> USE DEF worldVars
<1>1. /\ todo \in Seq(Nat) /\ todo # <<>> /\ Head(todo) \in Nat /\ Tail(todo) \in Seq(Nat)
      /\ symbols \in Seq(LookupEntries)
  BY DEF CommandInv, ReportType, LookupNow
<1>2. entry \in LookupEntries
  BY <1>1 DEF LookupEntries
<1>3. symbols' = Append(symbols, entry)
  BY DEF Found
<1>4. PICK n \in Nat : n = Len(symbols) /\ DOMAIN symbols = 1 .. n
  BY <1>1
<1> HIDE DEF entry
<1>5. /\ symbols' \in Seq(LookupEntries) /\ DOMAIN symbols' = 1 .. n + 1
      /\ \A i \in 1 .. n : symbols'[i] = symbols[i]
      /\ symbols'[n + 1] = entry
  BY <1>1, <1>2, <1>3, <1>4
<1>6. symbols' # <<>> /\ (symbols = <<>> <=> n = 0)
  BY <1>1, <1>4, <1>5
<1>7. /\ UNCHANGED <<command, told, retried, blamed, words, dump, removal>>
      /\ todo' = Tail(todo)
  BY DEF Found
<1>8. \/ at' = "nearest" /\ Tail(todo) # <<>>
      \/ at' = "cpsr" /\ command.name = "status"
      \/ at' = "halted?" /\ command.name = "fault" /\ command.trace /\ dump = NoDump
      \/ at' = "done"
  BY DEF Found
<1>9. command.name \in {"status", "fault", "trace"}
  BY DEF CommandInv, ReportType, StepsOf, Lookups, MemSteps, Ended
<1>10. ReportType'
  <2>1. at' \in StepsOf(command.name)
    BY <1>8, <1>9
    DEF StepsOf, StatusSteps, AfterIs64, AfterHsr, AfterElr, AfterHvbar, AfterPc, TraceSteps,
        Lookups, Ended
  <2> QED BY <1>1, <1>5, <1>7, <2>1 DEF CommandInv, ReportType
<1>11. LookupNow'
  <2>1. at' \notin {"begin", "end"} /\ (at' \in Lookups => todo' # <<>>)
    BY <1>7, <1>8 DEF Lookups
  <2> QED BY <2>1 DEF LookupNow
<1>12. LookupsDone'
  <2>1. \A i \in 1 .. n : HoldsAddress(symbols'[i])
    BY <1>4, <1>5 DEF CommandInv, LookupsDone
  <2>2. HoldsAddress(symbols'[n + 1])
    BY <1>5 DEF entry
  <2>3. \A i \in 1 .. n + 1 : i \in 1 .. n \/ i = n + 1
    BY <1>4
  <2>4. \A i \in DOMAIN symbols' : HoldsAddress(symbols'[i])
    BY <1>5, <2>1, <2>2, <2>3
  <2> QED BY <2>4 DEF LookupsDone, HoldsAddress
<1>13. TraceNow'
  BY <1>7, <1>8, <1>9 DEF CommandInv, ReportType, TraceNow, ReadsTrace, TraceSteps, Lookups, Ended
<1>14. FaultTold'
  <2> SUFFICES ASSUME command.name = "fault" PROVE FaultTold'
    BY <1>7 DEF FaultTold
  <2>1. at \in AfterPc /\ at \in AfterHvbar /\ at \in AfterElr
    BY DEF AfterPc, AfterHvbar, AfterElr
  <2>2. told["elr"] \in Nat /\ told["hvbar"] \in Nat /\ told["pc"] \in Nat
    BY <2>1 DEF CommandInv, FaultTold
  <2>3. symbols'[1].address = told["pc"]
    <3>1. CASE n = 0
      <4>1. Head(todo) = told["pc"]
        BY <1>6, <3>1 DEF CommandInv, FaultTold
      <4> QED BY <1>5, <3>1, <4>1 DEF entry
    <3>2. CASE n # 0
      <4>1. 1 \in 1 .. n
        BY <3>2
      <4>2. symbols[1].address = told["pc"]
        BY <1>6, <2>1, <3>2 DEF CommandInv, FaultTold
      <4> QED BY <1>5, <4>1, <4>2
    <3> QED BY <3>1, <3>2
  <2>4. at' \in AfterPc
    BY <1>8 DEF AfterPc, Lookups, TraceSteps
  <2> QED BY <1>6, <1>7, <2>2, <2>3, <2>4 DEF FaultTold
<1>15. FaultKnows'
  <2> SUFFICES ASSUME command.name = "fault", moves = 0 PROVE FaultKnows'
    BY <1>7 DEF FaultKnows
  <2>1. /\ at \in AfterPc /\ at \in AfterHvbar /\ at \in AfterElr /\ at \in AfterHsr
        /\ at \in AfterIs64
    BY DEF AfterPc, AfterHvbar, AfterElr, AfterHsr, AfterIs64
  <2>2. FaultKnows
    BY DEF CommandInv
  <2>3. (InHypMode' <=> InHypMode) /\ (Halted' <=> Halted)
    BY DEF InHypMode, Halted
  <2> QED BY <1>7, <2>1, <2>2, <2>3 DEF FaultKnows
<1>16. OthersBlameNothing'
  BY <1>7 DEF CommandInv, OthersBlameNothing
<1>17. at' \notin {"export", "read"}
  BY <1>8
<1> QED BY <1>10, <1>11, <1>12, <1>13, <1>14, <1>15, <1>16, <1>17 DEF CommandInv

(* A question about the symbol near the address.                           *)
LEMMA NearestOk ==
  ASSUME CommandInv, at \in Lookups, NEW symbol \in NearSymbols, NEW step \in {"begin", "end"},
         symbol.symbol.begin <= Head(todo),
         step = "begin" => symbol.offset = None,
         step = "end" => symbol.offset = Head(todo) - symbol.symbol.begin,
         Nearest(symbol, step), UNCHANGED worldVars
  PROVE  CommandInv' /\ at' \notin {"export", "read"}
<1> USE DEF worldVars, Nearest
<1>1. at' \in Lookups
  BY DEF Lookups
<1>2. command.name \in {"status", "fault", "trace"}
  BY DEF CommandInv, ReportType, StepsOf, Lookups, MemSteps, Ended
<1>3. ReportType'
  <2>1. at' \in StepsOf(command.name)
    BY <1>1, <1>2
    DEF StepsOf, StatusSteps, AfterIs64, AfterHsr, AfterElr, AfterHvbar, AfterPc
  <2> QED BY <2>1 DEF CommandInv, ReportType
<1>4. LookupNow'
  BY DEF CommandInv, LookupNow
<1>5. LookupsDone'
  BY DEF CommandInv, LookupsDone, HoldsAddress
<1>6. TraceNow'
  BY <1>1 DEF CommandInv, TraceNow, ReadsTrace, TraceSteps, Lookups
<1>7. FaultTold'
  <2>1. at' \in AfterPc /\ at \in AfterPc /\ at \in AfterHvbar /\ at \in AfterElr
    BY <1>1 DEF AfterPc, AfterHvbar, AfterElr
  <2>2. at' \notin TraceSteps \cup {"done"}
    BY DEF TraceSteps
  <2> QED BY <1>1, <2>1, <2>2 DEF CommandInv, FaultTold
<1>8. FaultKnows'
  <2>1. /\ at \in AfterPc /\ at \in AfterHvbar /\ at \in AfterElr /\ at \in AfterHsr
        /\ at \in AfterIs64
    BY DEF AfterPc, AfterHvbar, AfterElr, AfterHsr, AfterIs64
  <2>2. (InHypMode' <=> InHypMode) /\ (Halted' <=> Halted)
    BY DEF InHypMode, Halted
  <2> QED BY <2>1, <2>2 DEF CommandInv, FaultKnows
<1>9. OthersBlameNothing'
  BY DEF CommandInv, OthersBlameNothing
<1> QED BY <1>3, <1>4, <1>5, <1>6, <1>7, <1>8, <1>9 DEF CommandInv

(* The lookup of an address.                                               *)
LEMMA LookupStepOk ==
  ASSUME CommandInv, NearestSymbol \/ SymbolBegin \/ SymbolEnd
  PROVE  CommandInv' /\ at' \notin {"export", "read"}
<1>1. at \in Lookups
  BY DEF NearestSymbol, SymbolBegin, SymbolEnd, Lookups
<1>2. UNCHANGED worldVars
  BY DEF NearestSymbol, SymbolBegin, SymbolEnd
<1>3. PICK address \in Nat : address = Head(todo)
  BY <1>1 DEF CommandInv, ReportType, LookupNow
<1>4. HoldsAddress([address |-> Head(todo), symbol |-> None])
  BY DEF HoldsAddress
<1>5. ASSUME Found(None) PROVE CommandInv' /\ at' \notin {"export", "read"}
  BY <1>1, <1>2, <1>4, <1>5, FoundOk
<1>6. CASE NearestSymbol
  <2> SUFFICES ASSUME Below(address) # None, ~Found(None)
               PROVE  CommandInv' /\ at' \notin {"export", "read"}
    BY <1>3, <1>5, <1>6 DEF NearestSymbol
  <2>1. PICK s \in SymbolTable : s = Below(address) /\ s.begin <= address
    BY BelowIsBelow
  <2> DEFINE new == [symbol |-> s, offset |-> None]
  <2>2. new \in NearSymbols /\ new.symbol = s /\ new.offset = None
    BY DEF NearSymbols
  <2>3. Nearest(new, "begin") \/ (address - s.begin < SYMBOL_SLACK /\ Found(new))
    BY <1>3, <1>6, <2>1 DEF NearestSymbol
  <2> HIDE DEF new
  <2>4. CASE Nearest(new, "begin")
    BY <1>1, <1>2, <1>3, <2>1, <2>2, <2>4, NearestOk
  <2>5. CASE address - s.begin < SYMBOL_SLACK /\ Found(new)
    <3>1. HoldsAddress([address |-> Head(todo), symbol |-> new])
      BY <1>3, <2>1, <2>2, <2>5 DEF HoldsAddress
    <3> QED BY <1>1, <1>2, <2>2, <2>5, <3>1, FoundOk
  <2> QED BY <2>3, <2>4, <2>5
<1>7. CASE SymbolBegin
  <2>1. /\ near \in NearSymbols /\ near.symbol.begin <= address /\ near.symbol \in SymbolTable
        /\ near.symbol.begin \in Nat
    BY <1>3, <1>7, ReportsAssumption DEF SymbolBegin, CommandInv, LookupNow, NearSymbols
  <2> DEFINE new == [near EXCEPT !.offset = Head(todo) - near.symbol.begin]
  <2>2. Head(todo) - near.symbol.begin \in Nat
    BY <1>3, <2>1
  <2>3. new \in NearSymbols /\ new.symbol = near.symbol
        /\ new.offset = Head(todo) - near.symbol.begin
    BY <2>1, <2>2 DEF NearSymbols
  <2>4. Nearest(new, "end") \/ Found(None)
    BY <1>7 DEF SymbolBegin
  <2> HIDE DEF new
  <2>5. CASE Nearest(new, "end")
    BY <1>1, <1>2, <1>3, <2>1, <2>3, <2>5, NearestOk
  <2> QED BY <1>5, <2>4, <2>5
<1>8. CASE SymbolEnd
  <2>1. /\ near \in NearSymbols /\ near.symbol.begin <= address
        /\ near.symbol.begin \in Nat /\ near.symbol.end \in Nat
        /\ near.offset = address - near.symbol.begin /\ near.offset \in Nat
    <3>1. near \in NearSymbols /\ near.symbol.begin <= address /\ near.symbol \in SymbolTable
          /\ near.offset = address - near.symbol.begin
      BY <1>3, <1>8 DEF SymbolEnd, CommandInv, LookupNow, NearSymbols
    <3> QED BY <3>1, ReportsAssumption
  <2>2. address - near.offset = near.symbol.begin
    BY <2>1
  <2>3. PICK end \in {near.symbol.end, None} :
          Found(IF (IF end # None /\ end > near.symbol.begin THEN address <= end
                    ELSE near.offset < SYMBOL_SLACK) THEN near ELSE None)
    BY <1>3, <1>8, <2>2 DEF SymbolEnd
  <2>4. CASE IF end # None /\ end > near.symbol.begin THEN address <= end
             ELSE near.offset < SYMBOL_SLACK
    <3>1. Found(near)
      BY <2>3, <2>4
    <3>2. address <= near.symbol.end \/ address - near.symbol.begin < SYMBOL_SLACK
      BY <2>1, <2>3, <2>4
    <3>3. HoldsAddress([address |-> Head(todo), symbol |-> near])
      BY <1>3, <2>1, <3>2 DEF HoldsAddress
    <3> QED BY <1>1, <1>2, <2>1, <3>1, <3>3, FoundOk
  <2>5. CASE ~(IF end # None /\ end > near.symbol.begin THEN address <= end
               ELSE near.offset < SYMBOL_SLACK)
    BY <1>5, <2>3, <2>5
  <2> QED BY <2>4, <2>5
<1> QED BY <1>6, <1>7, <1>8

(* A step within the trace.                                                *)
LEMMA TraceGoesOk ==
  ASSUME CommandInv, at \in TraceSteps, NEW step \in TraceSteps, exports' \in Nat,
         UNCHANGED <<command, retried, todo, near, symbols, blamed, words, dump, core, moves>>,
         at' = step, removal' \in Nat, DOMAIN told' = ToldOf,
         told' = [q \in ToldOf |-> told'[q]],
         \A q \in ToldOf \ {"records"} : told'[q] = told[q],
         step \in {"remove", "export", "read"} => command.last > 0 /\ told'["records"] \in Nat
  PROVE  CommandInv'
<1>1. command.name \in {"fault", "trace"} /\ ReadsTrace /\ dump = NoDump
  BY DEF CommandInv, TraceNow, ReadsTrace
<1>2. ReportType'
  <2>1. at' \in StepsOf(command.name)
    BY <1>1 DEF StepsOf, AfterIs64, AfterHsr, AfterElr, AfterHvbar, AfterPc
  <2> QED BY <2>1 DEF CommandInv, ReportType
<1>3. LookupNow' /\ LookupsDone'
  <2>1. at' \notin Lookups /\ at' \notin {"begin", "end"}
    BY DEF Lookups, TraceSteps
  <2> QED BY <2>1 DEF CommandInv, LookupNow, LookupsDone, HoldsAddress
<1>4. TraceNow'
  BY <1>1 DEF TraceNow, ReadsTrace, NoDump
<1>5. /\ at \in AfterPc /\ at \in AfterHvbar /\ at \in AfterElr /\ at \in AfterHsr
      /\ at \in AfterIs64 /\ at' \in AfterPc /\ at' \notin Lookups
  BY DEF AfterPc, AfterHvbar, AfterElr, AfterHsr, AfterIs64, Lookups, TraceSteps
<1>6. /\ told'["elr"] = told["elr"] /\ told'["hvbar"] = told["hvbar"]
      /\ told'["pc"] = told["pc"] /\ told'["cpsr"] = told["cpsr"] /\ told'["hsr"] = told["hsr"]
      /\ told'["is_64bit"] = told["is_64bit"]
  BY DEF ToldOf, CoreRegisters
<1>7. FaultTold'
  BY <1>5, <1>6 DEF CommandInv, FaultTold
<1>8. FaultKnows'
  <2>1. (InHypMode' <=> InHypMode) /\ (Halted' <=> Halted)
    BY DEF InHypMode, Halted
  <2> QED BY <1>5, <1>6, <2>1 DEF CommandInv, FaultKnows
<1>9. OthersBlameNothing'
  BY DEF CommandInv, OthersBlameNothing
<1> QED BY <1>2, <1>3, <1>4, <1>7, <1>8, <1>9 DEF CommandInv

(* The trace's checks.                                                     *)
LEMMA TraceChecksOk ==
  ASSUME ReportInv, TraceHalted \/ TraceRecords
  PROVE  ReportInv'
<1> USE DEF ReportInv, worldVars
<1>1. at \in TraceSteps /\ exports \in Nat /\ removal \in Nat
      /\ DOMAIN told = ToldOf /\ told = [q \in ToldOf |-> told[q]]
  BY DEF TraceHalted, TraceRecords, TraceSteps, CommandInv, ReportType
<1>2. UNCHANGED worldVars
  BY DEF TraceHalted, TraceRecords
<1>3. ASSUME TraceFails PROVE ReportInv'
  BY <1>1, <1>2, <1>3, EndsOk, ListingStays DEF TraceFails, Ends
<1>4. ASSUME Ends("lost"), UNCHANGED blamed PROVE ReportInv'
  BY <1>1, <1>2, <1>4, EndsOk, ListingStays DEF Ends
<1>5. CASE TraceHalted
  <2> SUFFICES ASSUME TraceGoes("records") PROVE ReportInv'
    BY <1>3, <1>4, <1>5 DEF TraceHalted
  <2>1. "records" \in TraceSteps
    BY DEF TraceSteps
  <2>2. CommandInv'
    BY <1>1, <1>2, <2>1, TraceGoesOk DEF TraceGoes, Continue
  <2> QED BY <1>2, <2>2, ListingStays DEF TraceGoes, Continue
<1>6. CASE TraceRecords
  <2> SUFFICES ASSUME command.last > 0, told' = [told EXCEPT !["records"] = Len(core.trace)],
                      Continue("remove"), UNCHANGED retried
               PROVE  ReportInv'
    BY <1>3, <1>4, <1>6 DEF TraceRecords
  <2>1. core.trace \in Seq(TraceLines)
    BY ReportsAssumption DEF CommandInv, ReportType, TraceLines
  <2>2. Len(core.trace) \in Nat
    BY <2>1
  <2>3. "records" \in ToldOf /\ "remove" \in TraceSteps
    BY DEF ToldOf, TraceSteps
  <2>4. DOMAIN told' = ToldOf /\ told' = [q \in ToldOf |-> told'[q]]
        /\ \A q \in ToldOf \ {"records"} : told'[q] = told[q]
    BY <1>1, <2>3
  <2>5. told'["records"] \in Nat
    BY <1>1, <2>2, <2>3
  <2>6. CommandInv'
    BY <1>1, <1>2, <2>3, <2>4, <2>5, TraceGoesOk DEF Continue
  <2> QED BY <1>2, <2>6, ListingStays DEF Continue
<1> QED BY <1>5, <1>6

(* The newest records of the core's trace are lines, as many as asked for  *)
(* or fewer.                                                               *)
LEMMA NewestLines ==
  ASSUME ReportType, NEW n \in Nat
  PROVE  NewestRecords(n) \in Seq(TraceLines) /\ Len(NewestRecords(n)) <= n
<1>1. core.trace \in Seq(TraceLines)
  BY ReportsAssumption DEF ReportType, TraceLines
<1>2. PICK length \in Nat : length = Len(core.trace)
  BY <1>1
<1>3. PICK least \in Nat : least = Least(n, length) /\ least <= n /\ least <= length
  BY DEF Least
<1>4. NewestRecords(n) = SubSeq(core.trace, length - least + 1, length)
  BY <1>2, <1>3 DEF NewestRecords
<1>5. length - least + 1 \in 1 .. length + 1 /\ length \in length - least + 1 - 1 .. length
      /\ length - (length - least + 1) + 1 = least
  BY <1>3
<1>6. /\ SubSeq(core.trace, length - least + 1, length) \in Seq(TraceLines)
      /\ Len(SubSeq(core.trace, length - least + 1, length)) =
           IF length - least + 1 <= length THEN length - (length - least + 1) + 1 ELSE 0
  BY <1>1, <1>2, <1>5, SubSeqProperties
<1> QED BY <1>3, <1>4, <1>5, <1>6

(* The listing is removed, exported and read.                              *)
LEMMA RemoveListingOk ==
  ASSUME ReportInv, RemoveListing
  PROVE  ReportInv'
<1>1. at \in TraceSteps /\ exports \in Nat /\ removal \in Nat
      /\ DOMAIN told = ToldOf /\ told = [q \in ToldOf |-> told[q]]
      /\ at = "remove" /\ command.last > 0 /\ told["records"] \in Nat
  BY DEF RemoveListing, TraceSteps, ReportInv, CommandInv, ReportType, TraceNow
<1>2. CASE TraceFails /\ UNCHANGED listing
  <2>1. CommandInv' /\ at' \in {"done", "failed"}
    BY <1>1, <1>2, EndsOk DEF TraceFails, Ends, RemoveListing, ReportInv
  <2> QED BY <1>2, <2>1, ListingStays DEF TraceFails, Ends, RemoveListing, ReportInv
<1>3. CASE /\ listing' = None /\ removal' = exports /\ at' = "export"
           /\ UNCHANGED <<command, told, retried, todo, near, symbols, blamed, words, dump>>
  <2>1. "export" \in TraceSteps
    BY DEF TraceSteps
  <2>2. CommandInv'
    BY <1>1, <1>3, <2>1, TraceGoesOk DEF RemoveListing, ReportInv
  <2>3. removal' <= exports' /\ listing' = None
    BY <1>1, <1>3 DEF RemoveListing
  <2> QED BY <2>2, <2>3 DEF ReportInv, ListingNow
<1> QED BY <1>2, <1>3 DEF RemoveListing

LEMMA ExportTraceOk ==
  ASSUME ReportInv, ExportTrace
  PROVE  ReportInv'
<1>1. at \in TraceSteps /\ exports \in Nat /\ removal \in Nat
      /\ DOMAIN told = ToldOf /\ told = [q \in ToldOf |-> told[q]]
      /\ at = "export" /\ command.last > 0 /\ told["records"] \in Nat /\ removal <= exports
      /\ ReportType
  BY DEF ExportTrace, TraceSteps, ReportInv, CommandInv, ReportType, TraceNow, ListingNow
<1>2. command.last \in Nat
  BY <1>1, ReportsAssumption DEF ReportInv, CommandInv, TraceNow, ReadsTrace
<1>3. /\ UNCHANGED <<core, moves, command, removal, told, todo, retried, near, symbols, words>>
      /\ UNCHANGED <<dump, blamed>>
      /\ exports' \in Nat
  BY <1>1 DEF ExportTrace, TraceGoes, Continue, TraceFails, Ends
<1>4. at' \in {"read", "done", "failed", "lost"}
  BY DEF ExportTrace, TraceGoes, Continue, TraceFails, Ends
<1>5. CommandInv'
  <2>1. CASE TraceGoes("read")
    <3>1. "read" \in TraceSteps
      BY DEF TraceSteps
    <3> QED BY <1>1, <1>3, <2>1, <3>1, TraceGoesOk DEF TraceGoes, Continue, ReportInv
  <2>2. CASE TraceFails
    BY <1>1, <1>3, <2>2, EndsOk DEF TraceFails, ReportInv
  <2>3. CASE Ends("lost")
    BY <1>1, <1>3, <2>3, EndsOk DEF ReportInv
  <2> QED BY <2>1, <2>2, <2>3 DEF ExportTrace
<1>6. ListingNow'
  <2>1. CASE UNCHANGED <<listing, exports>>
    BY <1>1, <1>3, <2>1, ListingStays DEF ReportInv
  <2>2. CASE /\ listing' = [lines |-> NewestRecords(Least(told["records"], command.last)),
                            exported |-> exports + 1, own |-> TRUE]
             /\ exports' = exports + 1
    <3>1. PICK n \in Nat : n = Least(told["records"], command.last) /\ n <= command.last
      BY <1>1, <1>2 DEF Least
    <3>2. /\ listing'.lines = NewestRecords(n) /\ listing'.exported = exports + 1
      BY <2>2, <3>1
    <3>3. NewestRecords(n) \in Seq(TraceLines) /\ Len(NewestRecords(n)) <= n
      BY <1>1, NewestLines
    <3>4. Len(NewestRecords(n)) <= command.last
      <4>1. \A s \in Seq(TraceLines) : Len(s) \in Nat
        OBVIOUS
      <4> QED BY <1>2, <3>1, <3>3, <4>1
    <3>5. exports + 1 \in Nat /\ exports + 1 <= exports' /\ exports + 1 > removal
          /\ removal <= exports'
      BY <1>1, <2>2
    <3> QED BY <1>2, <1>3, <3>2, <3>3, <3>4, <3>5 DEF ListingNow
  <2> QED BY <2>1, <2>2 DEF ExportTrace
<1> QED BY <1>5, <1>6 DEF ReportInv

LEMMA ReadListingOk ==
  ASSUME ReportInv, ReadListing
  PROVE  ReportInv'
<1>1. at \in TraceSteps /\ exports \in Nat /\ at = "read" /\ command.last > 0
      /\ ReadsTrace /\ dump = NoDump
  BY DEF ReadListing, TraceSteps, ReportInv, CommandInv, ReportType, TraceNow
<1>2. UNCHANGED worldVars
  BY DEF ReadListing
<1>3. CASE TraceFails
  <2>1. CommandInv'
    BY <1>1, <1>2, <1>3, EndsOk DEF TraceFails, Ends, ReportInv, worldVars
  <2> QED BY <1>1, <1>2, <1>3, <2>1, ListingStays DEF TraceFails, Ends, ReportInv, worldVars
<1> SUFFICES ASSUME listing # None, ~TraceFails PROVE ReportInv'
  BY <1>3 DEF ReadListing
<1> DEFINE records == Parsed(listing.lines)
<1>4. /\ dump' = [records |-> records, exported |-> listing.exported, own |-> listing.own,
                  asked |-> command.last]
      /\ todo' = FirstSeen(records)
      /\ at' = IF records = <<>> THEN "done" ELSE "nearest"
      /\ UNCHANGED <<command, told, retried, near, symbols, blamed, words, removal>>
  BY DEF ReadListing
<1>5. /\ listing.exported \in Nat /\ listing.lines \in Seq(TraceLines)
      /\ listing.own => Len(listing.lines) <= command.last
      /\ listing.exported > removal
  BY <1>1 DEF ReportInv, ListingNow
<1>6. records \in Seq(Records) /\ Len(records) <= Len(listing.lines)
  BY <1>5, ParsedLines
<1> HIDE DEF records
<1>7. FirstSeen(records) \in Seq(Nat) /\ (records # <<>> => FirstSeen(records) # <<>>)
  BY <1>6, AddressesSeen
<1>8. command.last \in Nat
  BY <1>1, ReportsAssumption DEF ReadsTrace
<1>9. listing.own => Len(records) <= command.last
  <2>1. Len(records) \in Nat /\ Len(listing.lines) \in Nat
    BY <1>5, <1>6
  <2>2. Len(listing.lines) <= command.last => Len(records) <= command.last
    BY <1>6, <1>8, <2>1
  <2> QED BY <1>5, <2>2
<1>10. command.name \in {"fault", "trace"}
  BY <1>1 DEF ReadsTrace
<1>11. at' \in {"done", "nearest"}
  BY <1>4
<1>12. /\ at \in AfterPc /\ at \in AfterHvbar /\ at \in AfterElr /\ at \in AfterHsr
       /\ at \in AfterIs64 /\ at' \in AfterPc
  BY <1>1, <1>11 DEF AfterPc, AfterHvbar, AfterElr, AfterHsr, AfterIs64, Lookups
<1>13. ReportType'
  <2>1. at' \in StepsOf(command.name)
    BY <1>10, <1>11 DEF StepsOf, AfterIs64, AfterHsr, AfterElr, AfterHvbar, AfterPc, Lookups, Ended
  <2> QED BY <1>2, <1>4, <1>7, <2>1 DEF ReportInv, CommandInv, ReportType, worldVars
<1>14. LookupNow' /\ LookupsDone'
  <2>1. at' \in Lookups => todo' # <<>>
    BY <1>4, <1>7 DEF Lookups
  <2>2. at' \notin {"begin", "end"}
    BY <1>11
  <2>3. LookupsDone'
    BY <1>4 DEF ReportInv, CommandInv, LookupsDone, HoldsAddress
  <2> QED BY <2>1, <2>2, <2>3 DEF LookupNow
<1>15. TraceNow'
  <2>1. /\ at' \notin TraceSteps /\ at' \in Lookups \cup Ended
        /\ at' \notin {"remove", "export", "read"}
    BY <1>11 DEF TraceSteps, Lookups, Ended
  <2>2. dump'.asked = command.last /\ dump'.exported = listing.exported
        /\ dump'.own = listing.own /\ dump'.records = records
    BY <1>4
  <2>3. ReadsTrace'
    BY <1>1, <1>4 DEF ReadsTrace
  <2> QED BY <1>1, <1>4, <1>5, <1>8, <1>9, <2>1, <2>2, <2>3 DEF TraceNow
<1>16. FaultTold'
  <2>1. command.name = "fault" => symbols # <<>>
    BY <1>1 DEF ReportInv, CommandInv, FaultTold
  <2> QED BY <1>4, <1>12, <2>1 DEF ReportInv, CommandInv, FaultTold
<1>17. FaultKnows'
  <2>1. (InHypMode' <=> InHypMode) /\ (Halted' <=> Halted)
    BY <1>2 DEF InHypMode, Halted, worldVars
  <2> QED BY <1>2, <1>4, <1>12, <2>1 DEF ReportInv, CommandInv, FaultKnows, worldVars
<1>18. OthersBlameNothing'
  BY <1>4 DEF ReportInv, CommandInv, OthersBlameNothing
<1>19. ListingNow'
  BY <1>2, <1>4, <1>11, ListingStays DEF ReportInv, worldVars
<1> QED BY <1>13, <1>14, <1>15, <1>16, <1>17, <1>18, <1>19 DEF ReportInv, CommandInv

(* Steps of `mem`.                                                         *)
LEMMA MemGoesOk ==
  ASSUME CommandInv, at \in MemSteps, at' \in MemSteps \cup {"done"}, DOMAIN told' = ToldOf,
         told' = [q \in ToldOf |-> told'[q]],
         UNCHANGED <<command, todo, near, symbols, blamed, dump, removal, worldVars>>
  PROVE  CommandInv' /\ at' \notin {"export", "read"}
<1>1. command.name = "mem"
  BY DEF CommandInv, ReportType, StepsOf, StatusSteps, AfterIs64, AfterHsr, AfterElr, AfterHvbar,
         AfterPc, TraceSteps, Lookups, Ended, MemSteps
<1>2. ReportType'
  <2>1. at' \in StepsOf(command.name)
    BY <1>1 DEF StepsOf, Ended
  <2> QED BY <1>1, <2>1 DEF CommandInv, ReportType, worldVars
<1>3. at' \notin Lookups /\ at' \notin TraceSteps /\ at' \notin {"remove", "export", "read"}
      /\ at' \notin {"begin", "end"} /\ at \notin Lookups \cup Ended
  BY DEF MemSteps, Lookups, TraceSteps, Ended
<1>4. LookupNow' /\ LookupsDone'
  BY <1>3 DEF CommandInv, LookupNow, LookupsDone, HoldsAddress
<1>5. TraceNow'
  BY <1>3 DEF CommandInv, TraceNow
<1>6. FaultTold' /\ FaultKnows'
  BY <1>1 DEF FaultTold, FaultKnows
<1>7. OthersBlameNothing'
  BY DEF CommandInv, OthersBlameNothing
<1> QED BY <1>2, <1>3, <1>4, <1>5, <1>6, <1>7 DEF CommandInv

LEMMA MemStepsOk ==
  ASSUME ReportInv, MemStart \/ MemSymbol \/ MemBase \/ ReadWord
  PROVE  ReportInv'
<1>1. at \in MemSteps /\ UNCHANGED worldVars /\ CommandInv /\ ListingNow /\ exports \in Nat
      /\ DOMAIN told = ToldOf /\ told = [q \in ToldOf |-> told[q]]
  BY DEF MemStart, MemSymbol, MemBase, ReadWord, MemSteps, ReportInv, CommandInv, ReportType
<1>2. ASSUME NEW how \in {"failed", "lost"}, Ends(how), UNCHANGED blamed PROVE ReportInv'
  <2>1. CommandInv'
    BY <1>1, <1>2, EndsOk DEF worldVars
  <2> QED BY <1>1, <1>2, <2>1, ListingStays DEF Ends, ReportInv, worldVars
<1>3. ASSUME UNCHANGED <<command, todo, near, symbols, blamed, dump, removal>>,
             at' \in MemSteps \cup {"done"}, DOMAIN told' = ToldOf,
             told' = [q \in ToldOf |-> told'[q]]
      PROVE  ReportInv'
  <2>1. CommandInv' /\ at' \notin {"export", "read"}
    BY <1>1, <1>3, MemGoesOk
  <2> QED BY <1>1, <1>3, <2>1, ListingStays DEF ReportInv, worldVars
<1>4. ASSUME NEW step \in MemSteps, TraceGoes(step) PROVE ReportInv'
  BY <1>1, <1>3, <1>4 DEF TraceGoes, Continue
<1>5. ASSUME NEW base, told' = [told EXCEPT !["base"] = base], Continue("base") PROVE ReportInv'
  <2>1. "base" \in ToldOf /\ "base" \in MemSteps
    BY DEF ToldOf, MemSteps
  <2>2. DOMAIN told' = ToldOf /\ told' = [q \in ToldOf |-> told'[q]]
    BY <1>1, <1>5, <2>1
  <2> QED BY <1>3, <1>5, <2>1, <2>2 DEF Continue
<1>6. "symbol address" \in MemSteps /\ "base" \in MemSteps /\ "word" \in MemSteps
  BY DEF MemSteps
<1>7. CASE MemStart
  BY <1>2, <1>4, <1>5, <1>6, <1>7 DEF MemStart
<1>8. CASE MemSymbol
  BY <1>2, <1>5, <1>8 DEF MemSymbol
<1>9. CASE MemBase
  BY <1>2, <1>4, <1>6, <1>9 DEF MemBase
<1>10. CASE ReadWord
  <2>1. ASSUME at' \in {"done", "word"},
               UNCHANGED <<command, told, todo, near, symbols, blamed, dump, removal>>
        PROVE  ReportInv'
    BY <1>1, <1>3, <1>6, <2>1
  <2>2. ASSUME Continue("word"), UNCHANGED told PROVE ReportInv'
    BY <2>1, <2>2 DEF Continue
  <2>3. \/ /\ at' \in {"done", "word"}
           /\ UNCHANGED <<command, told, todo, near, symbols, blamed, dump, removal>>
        \/ Continue("word") /\ UNCHANGED told
        \/ Ends("failed") /\ UNCHANGED blamed
        \/ Ends("lost") /\ UNCHANGED blamed
    BY <1>10 DEF ReadWord
  <2> QED BY <1>2, <2>1, <2>2, <2>3
<1> QED BY <1>7, <1>8, <1>9, <1>10

(* The questions in their order.                                           *)
LEMMA StatusOrder ==
  ASSUME command.name = "status"
  PROVE  /\ Following("mode") = "state" /\ Following("state") = "power"
         /\ Following("power") = "cpu" /\ Following("cpu") = "pc" /\ Following("pc") = "cpsr"
<1> DEFINE s == Questions[command.name]
<1>1. s = <<"mode", "state", "power", "cpu", "pc", "cpsr">>
  BY DEF Questions
<1>2. DOMAIN s = 1 .. 6 /\ s[1] = "mode" /\ s[2] = "state" /\ s[3] = "power" /\ s[4] = "cpu"
      /\ s[5] = "pc" /\ s[6] = "cpsr"
  BY <1>1
<1> HIDE DEF s
<1>3. Position("mode") = 1 /\ Position("state") = 2
  BY <1>2 DEF Position, s
<1>4. Position("power") = 3 /\ Position("cpu") = 4 /\ Position("pc") = 5
  BY <1>2 DEF Position, s
<1> QED BY <1>2, <1>3, <1>4 DEF Following, s

LEMMA FaultOrder ==
  ASSUME command.name = "fault"
  PROVE  /\ Following("is_64bit") = "state" /\ Following("state") = "cpsr"
         /\ Following("cpsr") = "hsr" /\ Following("hsr") = "elr"
         /\ Following("elr") = "spsr" /\ Following("spsr") = "hdfar"
         /\ Following("hdfar") = "hifar" /\ Following("hifar") = "hvbar"
         /\ Following("hvbar") = "pc"
<1> DEFINE s == Questions[command.name]
<1>1. s = <<"is_64bit", "state", "cpsr", "hsr", "elr", "spsr", "hdfar", "hifar", "hvbar", "pc">>
  BY DEF Questions
<1>2. DOMAIN s = 1 .. 10 /\ s[1] = "is_64bit" /\ s[2] = "state" /\ s[3] = "cpsr" /\ s[4] = "hsr"
      /\ s[5] = "elr" /\ s[6] = "spsr" /\ s[7] = "hdfar" /\ s[8] = "hifar" /\ s[9] = "hvbar"
      /\ s[10] = "pc"
  BY <1>1
<1> HIDE DEF s
<1>3. Position("is_64bit") = 1 /\ Position("state") = 2 /\ Position("cpsr") = 3
  BY <1>2 DEF Position, s
<1>4. Position("hsr") = 4 /\ Position("elr") = 5 /\ Position("spsr") = 6
  BY <1>2 DEF Position, s
<1>5. Position("hdfar") = 7 /\ Position("hifar") = 8 /\ Position("hvbar") = 9
  BY <1>2 DEF Position, s
<1> QED BY <1>2, <1>3, <1>4, <1>5 DEF Following, s

FaultQuestions ==
  {"is_64bit", "state", "cpsr", "hsr", "elr", "spsr", "hdfar", "hifar", "hvbar", "pc"}
StatusQuestions == {"mode", "state", "power", "cpu", "pc", "cpsr"}

(* An answer of `status`: the next question, the end, or PC is looked up.  *)
LEMMA StatusAnswerOk ==
  ASSUME CommandInv, command.name = "status", at \in StatusQuestions, NEW given,
         given \in {Value(at), None}, Proceed(at, given), UNCHANGED worldVars
  PROVE  CommandInv' /\ at' \notin {"export", "read"}
<1> USE DEF worldVars
<1>1. /\ DOMAIN told = ToldOf /\ told = [q \in ToldOf |-> told[q]]
      /\ todo \in Seq(Nat) /\ core \in Cores
  BY DEF CommandInv, ReportType
<1>2. UNCHANGED <<command, near, symbols, blamed, words, dump, removal>>
  BY DEF Proceed, Continue, LookUp
<1>3. DOMAIN told' = ToldOf /\ told' = [q \in ToldOf |-> told'[q]]
  BY <1>1 DEF Proceed, Answered
<1>4. /\ at' \in StatusQuestions \cup {"nearest", "done"}
      /\ at' = "nearest" => todo' # <<>>
      /\ todo' \in Seq(Nat)
  <2>1. CASE at = "pc" /\ given # None
    <3>1. given \in Nat
      BY <1>1, <2>1, ReportsAssumption DEF Value
    <3>2. todo' = <<given>> /\ at' = "nearest"
      BY <2>1 DEF Proceed, LookUp
    <3> QED BY <3>1, <3>2
  <2>2. CASE at = "pc" /\ given = None
    <3>1. todo' = todo /\ at' = "cpsr"
      BY <2>2, StatusOrder DEF Proceed, Continue
    <3> QED BY <1>1, <3>1 DEF StatusQuestions
  <2>3. CASE at # "pc"
    <3>1. todo' = todo /\ (at' = "done" \/ (at # "cpsr" /\ at' = Following(at)))
      BY <2>3 DEF Proceed, Continue
    <3>2. at' \in StatusQuestions \cup {"done"}
      BY <2>3, <3>1, StatusOrder DEF StatusQuestions
    <3>3. at' # "nearest"
      BY <3>2 DEF StatusQuestions
    <3> QED BY <1>1, <3>1, <3>2, <3>3
  <2> QED BY <2>1, <2>2, <2>3
<1>5. ReportType'
  <2>1. at' \in StepsOf(command.name)
    BY <1>4 DEF StepsOf, StatusSteps, StatusQuestions, Lookups, Ended
  <2> QED BY <1>2, <1>3, <1>4, <2>1 DEF CommandInv, ReportType
<1>6. /\ at' \notin {"begin", "end"} /\ at' \notin {"remove", "export", "read"}
      /\ at' \notin TraceSteps /\ (at' \in Lookups => at' = "nearest")
  BY <1>4 DEF StatusQuestions, TraceSteps, Lookups
<1>7. LookupNow' /\ LookupsDone'
  BY <1>2, <1>4, <1>6 DEF CommandInv, LookupNow, LookupsDone, HoldsAddress
<1>8. TraceNow'
  <2>1. dump = NoDump
    BY DEF CommandInv, TraceNow, ReadsTrace
  <2> QED BY <1>2, <1>6, <2>1 DEF TraceNow
<1>9. FaultTold' /\ FaultKnows' /\ OthersBlameNothing'
  BY <1>2 DEF CommandInv, FaultTold, FaultKnows, OthersBlameNothing
<1> QED BY <1>5, <1>6, <1>7, <1>8, <1>9 DEF CommandInv

(* An answer of `fault`: the next question, an end, or three addresses     *)
(* are looked up.  Only a few questions may go unanswered.                 *)
LEMMA FaultAnswerOk ==
  ASSUME CommandInv, command.name = "fault", at \in FaultQuestions, NEW given,
         \/ given = None /\ at \in {"is_64bit", "state", "cpsr"}
         \/ given = Value(at) /\ given # None /\ (at \in CoreRegisters => Halted),
         Proceed(at, given), UNCHANGED worldVars
  PROVE  CommandInv' /\ at' \notin {"export", "read"}
<1> USE DEF worldVars
<1>1. /\ DOMAIN told = ToldOf /\ told = [q \in ToldOf |-> told[q]] /\ todo \in Seq(Nat)
      /\ core \in Cores /\ moves \in Nat
  BY DEF CommandInv, ReportType
<1>2. UNCHANGED <<command, near, symbols, blamed, words, dump, removal>>
  BY DEF Proceed, Continue, LookUp
<1>3. /\ DOMAIN told' = ToldOf /\ told' = [q \in ToldOf |-> told'[q]]
      /\ \A q \in ToldOf : told'[q] = IF q = at THEN given ELSE told[q]
  BY <1>1 DEF Proceed, Answered
<1>4. {"is_64bit", "cpsr", "hsr", "elr", "hvbar", "pc"} \subseteq ToldOf
  BY DEF ToldOf, CoreRegisters
<1>5. \/ at = "is_64bit" /\ at' = "state" /\ given # TRUE
      \/ at = "state" /\ at' = "cpsr"
      \/ at = "cpsr" /\ at' = "hsr"
      \/ at = "hsr" /\ at' = "elr"
      \/ at = "elr" /\ at' = "spsr"
      \/ at = "spsr" /\ at' = "hdfar"
      \/ at = "hdfar" /\ at' = "hifar"
      \/ at = "hifar" /\ at' = "hvbar"
      \/ at = "hvbar" /\ at' = "pc"
      \/ at = "pc" /\ at' = "nearest"
      \/ at' = "failed"
  <2>1. CASE at = "pc"
    BY <2>1 DEF Proceed, LookUp
  <2>2. CASE at # "pc"
    <3>1. at' = IF at \in {"is_64bit", "state"} /\ given = TRUE THEN "failed" ELSE Following(at)
      BY <2>2 DEF Proceed, Continue
    <3> QED BY <2>2, <3>1, FaultOrder DEF FaultQuestions
  <2> QED BY <2>1, <2>2
<1>6. /\ at \notin AfterPc \cup Ended
      /\ at' \in AfterIs64 => at \in AfterIs64 \/ (at = "is_64bit" /\ given # TRUE)
      /\ at' \in AfterHsr => at \in AfterHsr \/ at = "hsr"
      /\ at' \in AfterElr => at \in AfterElr \/ at = "elr"
      /\ at' \in AfterHvbar => at \in AfterHvbar \/ at = "hvbar"
      /\ at' \in AfterPc => at = "pc" /\ at' = "nearest"
      /\ at' \in Lookups => at = "pc" /\ at' = "nearest"
  <2>1. at \notin AfterPc \cup Ended
    BY DEF FaultQuestions, AfterPc, Lookups, TraceSteps, Ended
  <2>2. /\ at' \in AfterPc => at = "pc" /\ at' = "nearest"
        /\ at' \in Lookups => at = "pc" /\ at' = "nearest"
    BY <1>5 DEF AfterPc, Lookups, TraceSteps
  <2>3. at' \in AfterHvbar => at \in AfterHvbar \/ at = "hvbar"
    BY <1>5, <2>2 DEF AfterHvbar
  <2>4. at' \in AfterElr => at \in AfterElr \/ at = "elr"
    BY <1>5, <2>3 DEF AfterElr
  <2>5. at' \in AfterHsr => at \in AfterHsr \/ at = "hsr"
    BY <1>5, <2>4 DEF AfterHsr
  <2>6. at' \in AfterIs64 => at \in AfterIs64 \/ (at = "is_64bit" /\ given # TRUE)
    BY <1>5, <2>5 DEF AfterIs64
  <2> QED BY <2>1, <2>2, <2>3, <2>4, <2>5, <2>6
<1>7. at' \in FaultQuestions \cup {"nearest", "failed"}
  BY <1>5 DEF FaultQuestions
<1>8. /\ at = "is_64bit" => given \in {None, core.is_64bit}
      /\ at = "cpsr" => given \in {None, core.cpsr}
      /\ at = "hsr" => given = core.hsr /\ Halted
      /\ at = "elr" => given = core.elr
      /\ at = "hvbar" => given = core.hvbar
      /\ at = "pc" => given = core.pc
  <2>1. "hsr" \in CoreRegisters
    BY DEF CoreRegisters
  <2> QED BY <2>1 DEF Value
<1>9. core.elr \in Nat /\ core.hvbar \in Nat /\ core.pc \in Nat
  BY <1>1, ReportsAssumption
<1>10. FaultTold
  BY DEF CommandInv
<1>11. /\ at' \in AfterElr => told'["elr"] \in Nat
       /\ at' \in AfterHvbar => told'["hvbar"] \in Nat
       /\ at' \in AfterPc => told'["pc"] \in Nat
  <2>1. at' \in AfterElr => told'["elr"] \in Nat
    BY <1>3, <1>4, <1>6, <1>8, <1>9, <1>10 DEF FaultTold
  <2>2. at' \in AfterHvbar => told'["hvbar"] \in Nat
    BY <1>3, <1>4, <1>6, <1>8, <1>9, <1>10 DEF FaultTold
  <2>3. at' \in AfterPc => told'["pc"] \in Nat
    BY <1>3, <1>4, <1>6, <1>8, <1>9
  <2> QED BY <2>1, <2>2, <2>3
<1>12. symbols = <<>> /\ dump = NoDump
  BY <1>6, <1>10 DEF FaultTold
<1>13. /\ todo' \in Seq(Nat)
       /\ at' = "nearest" => todo' # <<>> /\ Head(todo') = told'["pc"]
  <2>1. CASE at = "pc"
    <3>1. todo' = <<given, told["hvbar"], told["elr"]>>
      BY <1>8, <2>1 DEF Proceed, LookUp
    <3>2. told["hvbar"] \in Nat /\ told["elr"] \in Nat /\ given \in Nat
      BY <1>8, <1>9, <1>10, <2>1 DEF FaultTold, AfterHvbar, AfterElr
    <3>3. told'["pc"] = given
      BY <1>3, <1>4, <2>1
    <3> QED BY <3>1, <3>2, <3>3
  <2>2. CASE at # "pc"
    <3>1. todo' = todo /\ at' # "nearest"
      BY <1>5, <2>2 DEF Proceed, Continue
    <3> QED BY <1>1, <3>1
  <2> QED BY <2>1, <2>2
<1>14. ReportType'
  <2>1. at' \in StepsOf(command.name)
    BY <1>7
    DEF StepsOf, FaultQuestions, AfterIs64, AfterHsr, AfterElr, AfterHvbar, AfterPc, Lookups, Ended
  <2> QED BY <1>2, <1>3, <1>13, <2>1 DEF CommandInv, ReportType
<1>15. /\ at' \notin {"begin", "end"} /\ at' \notin {"remove", "export", "read"}
       /\ at' \notin TraceSteps /\ at' # "done"
  BY <1>7 DEF FaultQuestions, TraceSteps
<1>16. LookupNow' /\ LookupsDone'
  <2>1. at' \in Lookups => todo' # <<>>
    BY <1>6, <1>13
  <2>2. LookupsDone'
    BY <1>2 DEF CommandInv, LookupsDone, HoldsAddress
  <2> QED BY <1>15, <2>1, <2>2 DEF LookupNow
<1>17. TraceNow'
  BY <1>2, <1>12, <1>15 DEF TraceNow
<1>18. FaultTold'
  BY <1>2, <1>6, <1>11, <1>12, <1>13, <1>15 DEF FaultTold
<1>19. FaultKnows'
  <2> SUFFICES ASSUME moves = 0 PROVE FaultKnows'
    BY DEF FaultKnows
  <2>1. FaultKnows
    BY DEF CommandInv
  <2>2. (InHypMode' <=> InHypMode) /\ (Halted' <=> Halted)
    BY DEF InHypMode, Halted
  <2>3. told'["cpsr"] \in {None, core.cpsr}
    BY <1>3, <1>4, <1>8, <2>1 DEF FaultKnows
  <2>4. at' \in AfterIs64 => told'["is_64bit"] \in {None, core.is_64bit} \ {TRUE}
    <3>1. CASE at = "is_64bit"
      BY <1>3, <1>4, <1>6, <1>8, <3>1 DEF AfterIs64, AfterHsr, AfterElr, AfterHvbar, AfterPc,
         Lookups, TraceSteps
    <3>2. CASE at # "is_64bit"
      BY <1>3, <1>4, <1>6, <2>1, <3>2 DEF FaultKnows
    <3> QED BY <3>1, <3>2
  <2>5. at' \in AfterHsr => told'["hsr"] = core.hsr /\ Halted
    BY <1>3, <1>4, <1>6, <1>8, <2>1 DEF FaultKnows
  <2>6. at' \in AfterElr => told'["elr"] = core.elr
    BY <1>3, <1>4, <1>6, <1>8, <2>1 DEF FaultKnows
  <2>7. at' \in AfterHvbar => told'["hvbar"] = core.hvbar
    BY <1>3, <1>4, <1>6, <1>8, <2>1 DEF FaultKnows
  <2>8. at' \in AfterPc => told'["pc"] = core.pc
    BY <1>3, <1>4, <1>6, <1>8
  <2>9. blamed # None => ~InHypMode
    BY <2>1 DEF FaultKnows
  <2> QED BY <1>2, <2>2, <2>3, <2>4, <2>5, <2>6, <2>7, <2>8, <2>9 DEF FaultKnows
<1>20. OthersBlameNothing'
  BY <1>2 DEF CommandInv, OthersBlameNothing
<1> QED BY <1>14, <1>15, <1>16, <1>17, <1>18, <1>19, <1>20 DEF CommandInv

LEMMA AskOk ==
  ASSUME ReportInv, Ask
  PROVE  ReportInv'
<1>1. UNCHANGED worldVars /\ CommandInv /\ ListingNow /\ exports \in Nat
  BY DEF Ask, ReportInv, CommandInv, ReportType
<1>2. ASSUME NEW how \in {"failed", "lost"}, Ends(how),
             blamed' = blamed \/ (blamed' = Blame(at) /\ command.name = "fault")
      PROVE  ReportInv'
  <2>1. CommandInv'
    BY <1>1, <1>2, EndsOk DEF worldVars
  <2> QED BY <1>1, <1>2, <2>1, ListingStays DEF Ends, ReportInv, worldVars
<1>3. ASSUME NEW given, Proceed(at, given), CommandInv' /\ at' \notin {"export", "read"}
      PROVE  ReportInv'
  BY <1>1, <1>3, ListingStays DEF Proceed, Continue, LookUp, ReportInv, worldVars
<1>4. \/ command.name = "status" /\ at \in StatusQuestions
      \/ command.name = "fault" /\ at \in FaultQuestions
  <2>1. command.name \in {"status", "fault"}
    BY DEF Ask
  <2>2. PICK i \in DOMAIN Questions[command.name] : Questions[command.name][i] = at
    BY DEF Ask
  <2>3. CASE command.name = "status"
    <3>1. Questions[command.name] = <<"mode", "state", "power", "cpu", "pc", "cpsr">>
      BY <2>3 DEF Questions
    <3> QED BY <2>2, <2>3, <3>1 DEF StatusQuestions
  <2>4. CASE command.name = "fault"
    <3>1. Questions[command.name] =
            <<"is_64bit", "state", "cpsr", "hsr", "elr", "spsr", "hdfar", "hifar", "hvbar", "pc">>
      BY <2>4 DEF Questions
    <3> QED BY <2>2, <2>4, <3>1 DEF FaultQuestions
  <2> QED BY <2>1, <2>3, <2>4
<1>5. ASSUME Ends("lost"), UNCHANGED blamed PROVE ReportInv'
  BY <1>2, <1>5
<1>6. ASSUME NEW answer \in Replies(at),
             IF answer # None THEN Proceed(at, answer)
             ELSE IF at \in OptionalQuestions[command.name] THEN Proceed(at, None)
             ELSE IF at \in HypRegisters /\ ~retried
               THEN retried' = TRUE /\ Continue(at) /\ UNCHANGED told
             ELSE Ends("failed") /\ blamed' = Blame(at)
      PROVE  ReportInv'
  <2>1. /\ answer = Value(at) \/ answer = None
        /\ answer # None /\ at \in CoreRegisters => Halted
    BY <1>6 DEF Replies
  <2>2. CASE answer # None
    <3>1. Proceed(at, answer)
      BY <1>6, <2>2
    <3>2. CommandInv' /\ at' \notin {"export", "read"}
      BY <1>1, <1>4, <2>1, <2>2, <3>1, StatusAnswerOk, FaultAnswerOk
    <3> QED BY <1>3, <3>1, <3>2
  <2>3. CASE answer = None /\ at \in OptionalQuestions[command.name]
    <3>1. Proceed(at, None)
      BY <1>6, <2>3
    <3>2. command.name = "fault" => at \in {"is_64bit", "state", "cpsr"}
      BY <2>3 DEF OptionalQuestions
    <3>3. CommandInv' /\ at' \notin {"export", "read"}
      BY <1>1, <1>4, <3>1, <3>2, StatusAnswerOk, FaultAnswerOk
    <3> QED BY <1>3, <3>1, <3>3
  <2>4. CASE /\ answer = None /\ at \notin OptionalQuestions[command.name]
             /\ at \in HypRegisters /\ ~retried
    <3>1. /\ UNCHANGED <<command, told, todo, near, symbols, blamed, words, dump, removal>>
          /\ at' = at
      BY <1>6, <2>4 DEF Continue
    <3>2. ReportType' /\ LookupNow' /\ LookupsDone' /\ TraceNow'
      BY <1>1, <3>1 DEF CommandInv, ReportType, LookupNow, LookupsDone, HoldsAddress, TraceNow,
                        ReadsTrace, worldVars
    <3>3. (InHypMode' <=> InHypMode) /\ (Halted' <=> Halted)
      BY <1>1 DEF InHypMode, Halted, worldVars
    <3>4. FaultTold' /\ FaultKnows' /\ OthersBlameNothing'
      <4>1. FaultTold'
        BY <1>1, <3>1 DEF CommandInv, FaultTold, worldVars
      <4>2. FaultKnows'
        BY <1>1, <3>1, <3>3 DEF CommandInv, FaultKnows, worldVars
      <4>3. OthersBlameNothing'
        BY <1>1, <3>1 DEF CommandInv, OthersBlameNothing, worldVars
      <4> QED BY <4>1, <4>2, <4>3
    <3>5. ListingNow'
      BY <1>1, <3>1, ListingStays DEF worldVars
    <3> QED BY <3>2, <3>4, <3>5 DEF ReportInv, CommandInv
  <2>5. CASE /\ answer = None /\ at \notin OptionalQuestions[command.name]
             /\ ~(at \in HypRegisters /\ ~retried)
    <3>1. Ends("failed") /\ blamed' = Blame(at)
      BY <1>6, <2>5
    <3>2. command.name = "status" => at = "mode"
      BY <1>4, <2>5 DEF OptionalQuestions, StatusQuestions
    <3>3. command.name # "fault" => blamed' = blamed
      BY <1>1, <3>1 DEF Blame, CommandInv, OthersBlameNothing
    <3> QED BY <1>2, <3>1, <3>3
  <2> QED BY <2>2, <2>3, <2>4, <2>5
<1> QED BY <1>5, <1>6 DEF Ask

(* Other tools: what is known of the core is claimed only as long as       *)
(* nobody moves it, and a newer export is newer than the removal.          *)
LEMMA ReportWorldOk ==
  ASSUME ReportInv, ReportWorld
  PROVE  ReportInv'
<1>1. /\ UNCHANGED <<command, at, told, retried, todo, near, symbols, blamed, words, dump, removal>>
      /\ moves \in Nat /\ exports \in Nat /\ removal \in Nat /\ removal <= exports
      /\ moves' = moves + 1 /\ ReportType /\ core' \in Cores
  BY DEF ReportWorld, CoreMoves, OtherTrace, ReportInv, CommandInv, ReportType, ListingNow
<1>2. moves' \in Nat /\ moves' # 0
  BY <1>1
<1>3. /\ exports' \in Nat
      /\ \/ UNCHANGED <<listing, exports>>
         \/ listing' = None /\ UNCHANGED exports
         \/ /\ exports' = exports + 1
            /\ \E n \in Counts : listing' = [lines |-> NewestRecords(n),
                                             exported |-> exports + 1, own |-> FALSE]
  BY <1>1 DEF ReportWorld, CoreMoves, OtherTrace
<1>4. ReportType' /\ LookupNow' /\ LookupsDone' /\ TraceNow'
  BY <1>1, <1>2, <1>3 DEF ReportInv, CommandInv, ReportType, LookupNow, LookupsDone,
                          HoldsAddress, TraceNow, ReadsTrace
<1>5. FaultTold' /\ FaultKnows' /\ OthersBlameNothing'
  BY <1>1, <1>2 DEF ReportInv, CommandInv, FaultTold, FaultKnows, OthersBlameNothing
<1>6. ListingNow'
  <2>1. CASE UNCHANGED <<listing, exports>>
    BY <1>1, <2>1, ListingStays DEF ReportInv
  <2>2. CASE listing' = None /\ UNCHANGED exports
    BY <1>1, <2>2 DEF ListingNow
  <2>3. CASE /\ exports' = exports + 1
             /\ \E n \in Counts : listing' = [lines |-> NewestRecords(n),
                                              exported |-> exports + 1, own |-> FALSE]
    <3>1. PICK n \in Nat : listing' = [lines |-> NewestRecords(n), exported |-> exports + 1,
                                       own |-> FALSE]
      BY <2>3, ReportsAssumption
    <3>2. listing'.lines = NewestRecords(n) /\ listing'.exported = exports + 1 /\ ~listing'.own
      BY <3>1
    <3>3. NewestRecords(n) \in Seq(TraceLines)
      BY <1>1, NewestLines
    <3>4. exports + 1 \in Nat /\ exports + 1 <= exports' /\ exports + 1 > removal
          /\ removal <= exports'
      BY <1>1, <2>3
    <3> QED BY <1>1, <3>2, <3>3, <3>4 DEF ListingNow
  <2> QED BY <1>3, <2>1, <2>2, <2>3
<1> QED BY <1>4, <1>5, <1>6 DEF ReportInv, CommandInv

(* Every step of a report keeps the invariant.                             *)
LEMMA ReportStepOk == ReportInv /\ [ReportNext]_reportVars => ReportInv'
<1> SUFFICES ASSUME ReportInv, [ReportNext]_reportVars PROVE ReportInv'
  OBVIOUS
<1>1. CASE Ask
  BY <1>1, AskOk
<1>2. CASE NearestSymbol \/ SymbolBegin \/ SymbolEnd
  <2>1. CommandInv' /\ at' \notin {"export", "read"}
    BY <1>2, LookupStepOk DEF ReportInv
  <2>2. UNCHANGED <<command, removal, listing, exports>>
    BY <1>2 DEF NearestSymbol, SymbolBegin, SymbolEnd, Found, Nearest, worldVars
  <2> QED BY <2>1, <2>2, ListingStays DEF ReportInv
<1>3. CASE SymbolLost
  <2>1. CommandInv'
    BY <1>3, EndsOk DEF SymbolLost, ReportInv, CommandInv, ReportType, worldVars
  <2>2. UNCHANGED <<command, removal, listing, exports>> /\ at' = "lost"
    BY <1>3 DEF SymbolLost, Ends, worldVars
  <2> QED BY <2>1, <2>2, ListingStays DEF ReportInv
<1>4. CASE TraceHalted \/ TraceRecords
  BY <1>4, TraceChecksOk
<1>5. CASE RemoveListing
  BY <1>5, RemoveListingOk
<1>6. CASE ExportTrace
  BY <1>6, ExportTraceOk
<1>7. CASE ReadListing
  BY <1>7, ReadListingOk
<1>8. CASE MemStart \/ MemSymbol \/ MemBase \/ ReadWord
  BY <1>8, MemStepsOk
<1>9. CASE ReportWorld
  BY <1>9, ReportWorldOk
<1>10. CASE UNCHANGED reportVars
  <2>1. (InHypMode' <=> InHypMode) /\ (Halted' <=> Halted)
    BY <1>10 DEF InHypMode, Halted, reportVars, worldVars
  <2>2. ReportType' /\ LookupNow' /\ LookupsDone' /\ TraceNow' /\ ListingNow'
    BY <1>10 DEF ReportInv, CommandInv, ReportType, LookupNow, LookupsDone, HoldsAddress, TraceNow,
                 ReadsTrace, ListingNow, reportVars, worldVars
  <2>3. FaultTold' /\ OthersBlameNothing'
    BY <1>10 DEF ReportInv, CommandInv, FaultTold, OthersBlameNothing, reportVars, worldVars
  <2>4. FaultKnows'
    BY <1>10, <2>1 DEF ReportInv, CommandInv, FaultKnows, reportVars, worldVars
  <2> QED BY <2>2, <2>3, <2>4 DEF ReportInv, CommandInv
<1> QED BY <1>1, <1>2, <1>3, <1>4, <1>5, <1>6, <1>7, <1>8, <1>9, <1>10 DEF ReportNext

(* The records that `trace` and `fault` show were exported after the       *)
(* command removed the listing all commands share, and are no more than    *)
(* asked for, however many tools export how often.  (trace.rs read.)       *)
THEOREM TracesAreFresh == ReportSpec => []TraceIsFresh
<1>1. ReportInv => TraceIsFresh
  <2> SUFFICES ASSUME ReportInv, dump.asked > 0 PROVE TraceIsFresh
    BY DEF TraceIsFresh
  <2>1. NoDump.asked = 0
    BY DEF NoDump
  <2>2. dump # NoDump
    BY <2>1
  <2> QED BY <2>2 DEF TraceIsFresh, ReportInv, CommandInv, TraceNow
<1> QED BY <1>1, ReportInitOk, ReportStepOk, PTL DEF ReportSpec

(* A data abort is told by bits 27 to 31 of the syndrome: 36 and 37, in    *)
(* bits 26 to 31, are 100100 and 100101.                                   *)
LEMMA DataAbortBits ==
  ASSUME NEW raw
  PROVE  DecodeHsr(raw).kind = "data abort" <=> raw \cap (27 .. 31) = {28, 31}
<1> DEFINE bit(k) == IF 26 + k <= 31 /\ 26 + k \in raw THEN 1 ELSE 0
           ec == RawBits(raw, 26, 31)
<1>1. ec = bit(0) + 2 * bit(1) + 4 * bit(2) + 8 * bit(3) + 16 * bit(4) + 32 * bit(5)
  BY DEF RawBits
<1>2. /\ bit(0) = IF 26 \in raw THEN 1 ELSE 0
      /\ bit(1) = IF 27 \in raw THEN 1 ELSE 0
      /\ bit(2) = IF 28 \in raw THEN 1 ELSE 0
      /\ bit(3) = IF 29 \in raw THEN 1 ELSE 0
      /\ bit(4) = IF 30 \in raw THEN 1 ELSE 0
      /\ bit(5) = IF 31 \in raw THEN 1 ELSE 0
  OBVIOUS
<1>3. DecodeHsr(raw).kind = "data abort" <=> ec \in {36, 37}
  BY DEF DecodeHsr
<1> HIDE DEF bit, ec
<1>4. ec \in {36, 37} <=>
        bit(1) = 0 /\ bit(2) = 1 /\ bit(3) = 0 /\ bit(4) = 0 /\ bit(5) = 1
  <2>1. \A a, b, c, d, e, f \in {0, 1} :
          (a + 2 * b + 4 * c + 8 * d + 16 * e + 32 * f \in {36, 37}) <=>
            (b = 0 /\ c = 1 /\ d = 0 /\ e = 0 /\ f = 1)
    OBVIOUS
  <2>2. bit(0) \in {0, 1} /\ bit(1) \in {0, 1} /\ bit(2) \in {0, 1} /\ bit(3) \in {0, 1}
        /\ bit(4) \in {0, 1} /\ bit(5) \in {0, 1}
    BY <1>2
  <2> QED BY <1>1, <2>1, <2>2
<1>5. raw \cap (27 .. 31) = {28, 31} <=>
        27 \notin raw /\ 28 \in raw /\ 29 \notin raw /\ 30 \notin raw /\ 31 \in raw
  <2>1. 27 .. 31 = {27, 28, 29, 30, 31}
    OBVIOUS
  <2> QED BY <2>1
<1>6. /\ (bit(1) = 0 <=> 27 \notin raw) /\ (bit(2) = 1 <=> 28 \in raw)
      /\ (bit(3) = 0 <=> 29 \notin raw) /\ (bit(4) = 0 <=> 30 \notin raw)
      /\ (bit(5) = 1 <=> 31 \in raw)
  BY <1>2
<1> QED BY <1>3, <1>4, <1>5, <1>6, Zenon

(* An address is an entry of a table if it is 0, 4 .. 28 from its base; an *)
(* address within 32 from the base, aligned as the base is, is one.        *)
LEMMA VectorSlots ==
  ASSUME NEW base \in Nat, NEW pc \in Nat
  PROVE  /\ (VectorSlot(base, pc) # None) <=> (\E i \in 0 .. 7 : pc = base + 4 * i)
         /\ VectorSlot(base, pc) = None =>
              pc < base \/ pc >= base + 32 \/ pc % 4 # base % 4
         /\ VectorSlot(base, pc) # None => pc \in base .. base + 31
<1>1. (VectorSlot(base, pc) # None) <=> (\E i \in 0 .. 7 : pc = base + 4 * i)
  <2>1. None \notin HYP_VECTORS
    <3>1. HYP_VECTORS \subseteq Nat
      BY DEF HYP_VECTORS
    <3> QED BY <3>1, ReportsAssumption
  <2>2. (VectorSlot(base, pc) # None) <=> pc - base \in HYP_VECTORS
    BY <2>1 DEF VectorSlot
  <2>3. pc - base \in HYP_VECTORS <=> \E i \in 0 .. 7 : pc = base + 4 * i
    BY DEF HYP_VECTORS
  <2> QED BY <2>2, <2>3
<1>2. ASSUME ~(pc < base), ~(pc >= base + 32), pc % 4 = base % 4
      PROVE  \E i \in 0 .. 7 : pc = base + 4 * i
  <2>1. PICK d \in 0 .. 31 : pc = base + d
    <3>1. pc - base \in 0 .. 31 /\ pc = base + (pc - base)
      BY <1>2
    <3> QED BY <3>1
  <2>2. d % 4 = 0
    BY <1>2, <2>1
  <2>3. d \div 4 \in 0 .. 7 /\ d = 4 * (d \div 4)
    BY <2>1, <2>2
  <2> QED BY <2>1, <2>3
<1>3. ASSUME NEW i \in 0 .. 7, pc = base + 4 * i PROVE pc \in base .. base + 31
  BY <1>3
<1> QED BY <1>1, <1>2, <1>3

(* A fault report of a core that nobody touched says the entry of the      *)
(* table PC is at, another table only if PC is not in the active one, a    *)
(* fault address only of an abort, and blames the mode only out of Hyp     *)
(* mode; and no report names a symbol that does not hold the address, for  *)
(* any core, any program and any failure of a question.                    *)
THEOREM FaultsExplainThemselves == ReportSpec => []FaultExplainsItself
<1>1. ReportInv => SymbolHoldsAddress
  <2> SUFFICES ASSUME ReportInv, NEW i \in DOMAIN symbols, symbols[i].symbol # None
               PROVE  LET address == symbols[i].address
                          place   == symbols[i].symbol
                      IN  /\ place.symbol.begin <= address
                          /\ \/ address <= place.symbol.end
                             \/ address - place.symbol.begin < SYMBOL_SLACK
                          /\ place.offset # None => place.symbol.begin + place.offset = address
    BY DEF SymbolHoldsAddress
  <2>1. HoldsAddress(symbols[i])
    BY DEF ReportInv, CommandInv, LookupsDone
  <2>2. symbols[i] \in LookupEntries
    BY DEF ReportInv, CommandInv, ReportType
  <2>3. symbols[i].address \in Nat /\ symbols[i].symbol.symbol \in SymbolTable
    BY <2>2 DEF LookupEntries, NearSymbols
  <2>4. symbols[i].symbol.symbol.begin \in Nat
    BY <2>3, ReportsAssumption
  <2> QED BY <2>1, <2>3, <2>4 DEF HoldsAddress
<1>2. ReportInv => (moves = 0 /\ blamed # None => ~InHypMode)
  BY DEF ReportInv, CommandInv, FaultKnows, OthersBlameNothing
<1>3. ASSUME ReportInv, FaultReported, moves = 0
      PROVE  /\ Halted
             /\ told.is_64bit # None => ~core.is_64bit
             /\ (Slot # None) = (\E i \in 0 .. 7 : core.pc = core.hvbar + 4 * i)
             /\ OtherTable # None =>
                  /\ \/ core.pc < core.hvbar \/ core.pc >= core.hvbar + 32
                     \/ core.pc % 4 # core.hvbar % 4
                  /\ \E s \in SymbolTable :
                       s.begin = OtherTable /\ core.pc \in s.begin .. s.begin + 31
             /\ core.hsr = {} => ShownFaultAddress = None
             /\ ShownFaultAddress = "HDFAR" <=> core.hsr \cap (27 .. 31) = {28, 31}
  <2>1. /\ command.name = "fault" /\ at = "done" /\ core \in Cores
        /\ at \in AfterPc /\ at \in AfterHvbar /\ at \in AfterHsr /\ at \in AfterIs64
    BY <1>3 DEF FaultReported, AfterPc, AfterHvbar, AfterElr, AfterHsr, AfterIs64, ReportInv,
                CommandInv, ReportType
  <2>2. /\ told["is_64bit"] \in {None, core.is_64bit} \ {TRUE}
        /\ told["hsr"] = core.hsr /\ Halted
        /\ told["hvbar"] = core.hvbar /\ told["pc"] = core.pc
    BY <1>3, <2>1 DEF ReportInv, CommandInv, FaultKnows
  <2>3. core.pc \in Nat /\ core.hvbar \in Nat /\ core.is_64bit \in BOOLEAN
    BY <2>1, ReportsAssumption
  <2>4. Slot = VectorSlot(core.hvbar, core.pc)
    BY <2>2 DEF Slot
  <2>5. told.is_64bit # None => ~core.is_64bit
    BY <2>2, <2>3
  <2>6. ASSUME OtherTable # None
        PROVE  /\ VectorSlot(core.hvbar, core.pc) = None
               /\ \E s \in SymbolTable :
                    s.begin = OtherTable /\ core.pc \in s.begin .. s.begin + 31
    <3> DEFINE place == symbols[1].symbol
    <3>1. /\ Slot = None /\ place # None /\ place.offset # None
          /\ OtherTable = core.pc - place.offset
          /\ VectorSlot(core.pc - place.offset, core.pc) # None
      BY <2>2, <2>6 DEF OtherTable
    <3>2. symbols \in Seq(LookupEntries) /\ symbols # <<>>
      BY <1>3, <2>1 DEF ReportInv, CommandInv, ReportType, FaultTold
    <3>3. 1 \in DOMAIN symbols /\ symbols[1] \in LookupEntries
      BY <3>2
    <3>4. symbols[1].address = core.pc /\ HoldsAddress(symbols[1])
      BY <1>3, <2>1, <2>2, <3>2, <3>3 DEF ReportInv, CommandInv, FaultTold, LookupsDone
    <3>5. place.symbol \in SymbolTable /\ place.symbol.begin \in Nat
          /\ place.offset = core.pc - place.symbol.begin
      <4>1. place.symbol \in SymbolTable
        BY <3>1, <3>3 DEF LookupEntries, NearSymbols
      <4> QED BY <3>1, <3>4, <4>1, ReportsAssumption DEF HoldsAddress
    <3>6. core.pc - place.offset = place.symbol.begin
      BY <2>3, <3>5
    <3>7. core.pc \in place.symbol.begin .. place.symbol.begin + 31
      BY <2>3, <3>1, <3>5, <3>6, VectorSlots
    <3> QED BY <2>4, <3>1, <3>5, <3>6, <3>7
  <2>7. core.hsr = {} => ShownFaultAddress = None
    BY <2>2 DEF ShownFaultAddress
  <2>8. ShownFaultAddress = "HDFAR" <=> core.hsr \cap (27 .. 31) = {28, 31}
    <3>1. None # "HDFAR"
      BY ReportsAssumption
    <3>2. FaultAddress(DecodeHsr(core.hsr)) = "HDFAR" <=>
            DecodeHsr(core.hsr).kind = "data abort"
      BY <3>1 DEF FaultAddress
    <3>3. core.hsr = {} => core.hsr \cap (27 .. 31) # {28, 31}
      OBVIOUS
    <3> QED BY <2>2, <3>1, <3>2, <3>3, DataAbortBits DEF ShownFaultAddress
  <2> QED BY <2>2, <2>3, <2>4, <2>5, <2>6, <2>7, <2>8, VectorSlots
<1>4. ReportInv => FaultExplainsItself
  BY <1>1, <1>2, <1>3 DEF FaultExplainsItself
<1> QED BY <1>4, ReportInitOk, ReportStepOk, PTL DEF ReportSpec

(***************************************************************************)
(* debug verify.                                                           *)

VerifySteps == {"image", "read", "diff", "found", "image_done", "reported", "failed"}

ImageSegments == [load : BOOLEAN, paddr : Nat, data : Seq(Bytes)]

VerifyType ==
  /\ verifyAt \in VerifySteps
  /\ images \in Seq(Images) /\ image \in 1 .. Len(images)
  /\ segment \in Nat /\ differing \in Nat
  /\ equal \in BOOLEAN /\ denied \in BOOLEAN
  /\ bytes \in Seq({bytes[k] : k \in DOMAIN bytes})

(* Where memory is read: in a segment, which has been read in part.        *)
ReadsSegment ==
  verifyAt = "read" => segment \in 1 .. Len(Segments) /\ Len(bytes) <= Len(Segment.data)

SameSoFar == \A k \in DOMAIN bytes : bytes[k] = Segment.data[k]

(* What the exit code and the count of this image say so far: that of the  *)
(* images before, of the segments before, and of the bytes read of this.   *)
VerdictNow ==
  /\ verifyAt # "failed" => code \in {0, 3}
  /\ verifyAt \in {"image", "reported"} => (code = 0 <=> equal /\ ~denied)
  /\ verifyAt = "read" => (code = 0 /\ differing = 0 /\ SameSoFar <=> equal /\ ~denied)
  /\ verifyAt \in {"diff", "found", "image_done"} =>
       (code = 0 /\ differing = 0 <=> equal /\ ~denied)

VerifyInv == VerifyType /\ ReadsSegment /\ VerdictNow

(* The segments to compare are those of the image with content, in order.  *)
LEMMA SegmentsAreSegments ==
  ASSUME VerifyAssumption, VerifyType
  PROVE  /\ Segments \in Seq(ImageSegments) /\ Len(Segments) \in Nat
         /\ \A k \in 1 .. Len(Segments) :
              Segments[k].data \in Seq(Bytes) /\ Len(Segments[k].data) \in Nat
<1> DEFINE segments == images[image]
           loadable == {i \in DOMAIN segments : Loadable(segments[i])}
<1>1. segments \in Seq(ImageSegments)
  <2>1. images \in Seq(Images) /\ image \in 1 .. Len(images)
    BY DEF VerifyType
  <2>2. segments \in Images
    BY <2>1, ElementOfSeq
  <2> QED BY <2>2 DEF VerifyAssumption, ImageSegments
<1>2. PICK n \in Nat : n = Len(segments) /\ DOMAIN segments = 1 .. n
  BY <1>1
<1>3. loadable \in SUBSET (1 .. n) /\ \A i \in loadable : segments[i] \in ImageSegments
  BY <1>1, <1>2
<1>4. Segments = Picked(segments, loadable)
  BY DEF Segments
<1> HIDE DEF segments, loadable
<1>5. Segments \in Seq(ImageSegments)
  BY <1>3, <1>4, PickedIsSequence
<1>6. ASSUME NEW k \in 1 .. Len(Segments)
      PROVE  Segments[k].data \in Seq(Bytes) /\ Len(Segments[k].data) \in Nat
  <2>1. Segments[k] \in ImageSegments
    BY <1>5
  <2>2. Segments[k].data \in Seq(Bytes)
    BY <2>1 DEF ImageSegments
  <2> QED BY <2>2
<1> QED BY <1>5, <1>6

LEMMA VerifyInitOk == VerifyAssumption /\ VerifyInit => VerifyInv
<1> SUFFICES ASSUME VerifyAssumption, VerifyInit PROVE VerifyInv
  OBVIOUS
<1>1. images \in Seq(Images) /\ image \in 1 .. Len(images)
  <2>1. PICK n \in 1 .. MaxImages : images \in [1 .. n -> Images]
    BY DEF VerifyInit
  <2>2. n \in Nat /\ n >= 1 /\ images \in Seq(Images) /\ Len(images) = n
    BY <2>1 DEF VerifyAssumption
  <2> QED BY <2>2 DEF VerifyInit
<1>2. bytes \in Seq({bytes[k] : k \in DOMAIN bytes})
  BY EmptySeq DEF VerifyInit
<1>3. VerifyType
  BY <1>1, <1>2 DEF VerifyInit, VerifyType, VerifySteps
<1> QED BY <1>3 DEF VerifyInit, VerifyInv, ReadsSegment, VerdictNow

(* A failure ends it; the world outside changes nothing that is compared.  *)
LEMMA VerifyEnds ==
  ASSUME VerifyInv, VerifyFails, UNCHANGED images
  PROVE  VerifyInv'
<1>1. VerifyType'
  BY DEF VerifyInv, VerifyType, VerifyFails, VerifySteps
<1> QED BY <1>1 DEF VerifyInv, ReadsSegment, VerdictNow, VerifyFails

LEMMA ReadImageOk ==
  ASSUME VerifyAssumption, VerifyInv, ReadImage
  PROVE  VerifyInv'
<1>1. CASE VerifyFails /\ VerifyQuiet
  BY <1>1, VerifyEnds DEF VerifyQuiet
<1>2. CASE /\ Segments # <<>> /\ VerifyQuiet
           /\ verifyAt' = "read" /\ segment' = 1 /\ bytes' = <<>> /\ differing' = 0
           /\ UNCHANGED <<image, code, equal, denied>>
  <2>1. bytes' \in Seq({bytes'[k] : k \in DOMAIN bytes'}) /\ Len(bytes') = 0
    BY <1>2, EmptySeq
  <2>2. VerifyType'
    BY <1>2, <2>1 DEF VerifyInv, VerifyType, VerifySteps, VerifyQuiet
  <2>3. Segments' = Segments
    BY <1>2 DEF Segments, VerifyQuiet
  <2>4. PICK n \in Nat : n = Len(Segments)
    BY SegmentsAreSegments DEF VerifyInv
  <2>5. n # 0
    BY <1>2, <2>4, SegmentsAreSegments DEF VerifyInv
  <2>6. segment' \in 1 .. n
    BY <1>2, <2>5
  <2>7. ReadsSegment'
    <3>1. 1 \in 1 .. Len(Segments)
      BY <2>4, <2>5
    <3>2. Len(Segments[1].data) \in Nat
      BY <3>1, SegmentsAreSegments DEF VerifyInv
    <3>3. Segment' = Segments[1]
      BY <1>2, <2>3 DEF Segment
    <3> QED BY <1>2, <2>1, <2>3, <3>1, <3>2, <3>3 DEF ReadsSegment
  <2>8. SameSoFar'
    BY <1>2, <2>1 DEF SameSoFar
  <2>9. VerdictNow'
    BY <1>2, <2>8 DEF ReadImage, VerifyInv, VerdictNow
  <2> QED BY <2>2, <2>7, <2>9 DEF VerifyInv
<1> QED BY <1>1, <1>2 DEF ReadImage

(* A chunk read: the bytes read so far are the same as the segment's if    *)
(* they were before and the chunk is.                                      *)
LEMMA ReadChunkOk ==
  ASSUME VerifyAssumption, VerifyInv, ReadChunk
  PROVE  VerifyInv'
<1> DEFINE size == Len(Segment.data)
           chunk == ChunkSize(size - Len(bytes))
           data == [k \in 1 .. chunk |-> memory[Segment.paddr + Len(bytes) + k - 1]]
           part == SubSeq(Segment.data, Len(bytes) + 1, Len(bytes) + chunk)
<1>1. CASE VerifyFails /\ VerifyQuiet
  BY <1>1, VerifyEnds DEF VerifyQuiet
<1>2. CASE /\ bytes' = bytes \o data /\ equal' = (equal /\ data = part) /\ VerifyQuiet
           /\ UNCHANGED <<verifyAt, image, segment, differing, code, denied>>
  <2>1. /\ verifyAt = "read" /\ Len(bytes) < size
        /\ VerifyType /\ ReadsSegment /\ VerdictNow
    BY DEF ReadChunk, VerifyInv
  <2>2. Segment.data \in Seq(Bytes) /\ segment \in 1 .. Len(Segments)
    BY <2>1, SegmentsAreSegments DEF ReadsSegment, Segment
  <2>3. PICK n \in Nat : n = size
    BY <2>2
  <2>4. PICK m \in Nat : m = Len(bytes) /\ DOMAIN bytes = 1 .. m
    BY <2>1 DEF VerifyType
  <2>5. PICK c \in Nat : c = chunk /\ c >= 1 /\ m + c <= n
    <3>1. m < n /\ n - m \in Nat /\ chunk = ChunkSize(n - m)
      BY <2>1, <2>3, <2>4
    <3> HIDE DEF chunk, size
    <3>2. PICK r \in Nat : r = READ_CHUNK_SIZE /\ r >= 1
      BY DEF VerifyAssumption
    <3>3. chunk = IF n - m < r THEN n - m ELSE r
      BY <3>1, <3>2 DEF ChunkSize
    <3> QED BY <3>1, <3>2, <3>3
  <2>6. Len(data) = c /\ DOMAIN data = 1 .. c /\ data \in [1 .. c -> {data[k] : k \in 1 .. c}]
    <3> HIDE DEF chunk, size
    <3> QED BY <2>5
  <2>7. /\ part \in Seq(Bytes) /\ Len(part) = c
        /\ \A k \in 1 .. c : part[k] = Segment.data[m + k]
    <3>1. m + 1 \in 1 .. n + 1 /\ m + c \in m + 1 - 1 .. n
      BY <2>5
    <3>2. m + 1 \in 1 .. Len(Segment.data) + 1 /\ m + c \in m + 1 - 1 .. Len(Segment.data)
      BY <2>3, <3>1
    <3>3. part = SubSeq(Segment.data, m + 1, m + c)
      BY <2>4, <2>5
    <3> HIDE DEF part, chunk, size
    <3>4. \A k \in m + 1 .. m + c : k \in 1 .. Len(Segment.data)
      BY <2>3, <3>1 DEF size
    <3>5. /\ part \in Seq(Bytes)
          /\ Len(part) = (IF m + 1 <= m + c THEN m + c - (m + 1) + 1 ELSE 0)
          /\ \A k \in 1 .. m + c - (m + 1) + 1 : part[k] = Segment.data[m + 1 + k - 1]
      BY <2>2, <3>2, <3>3, SubSeqProperties
    <3>6. Len(part) = c
      BY <2>5, <3>5
    <3>7. ASSUME NEW k \in 1 .. c PROVE part[k] = Segment.data[m + k]
      <4>1. k \in 1 .. m + c - (m + 1) + 1 /\ m + 1 + k - 1 = m + k
        OBVIOUS
      <4> QED BY <3>5, <4>1
    <3> QED BY <3>5, <3>6, <3>7
  <2> HIDE DEF data, part, chunk, size
  <2> DEFINE S == {bytes[k] : k \in 1 .. m} \cup {data[k] : k \in 1 .. c}
  <2>8. bytes \in Seq(S) /\ data \in Seq(S)
    <3>1. bytes = [k \in 1 .. m |-> bytes[k]]
      BY <2>1, <2>4 DEF VerifyType
    <3>2. data = [k \in 1 .. c |-> data[k]]
      BY <2>6
    <3>3. (\A k \in 1 .. m : bytes[k] \in S) /\ (\A k \in 1 .. c : data[k] \in S)
      OBVIOUS
    <3> HIDE DEF S
    <3>4. bytes \in [1 .. m -> S] /\ data \in [1 .. c -> S]
      BY <3>1, <3>2, <3>3
    <3> QED BY <2>4, <2>5, <3>4
  <2>9. /\ bytes' \in Seq(S) /\ Len(bytes') = m + c
        /\ \A k \in 1 .. m + c : bytes'[k] = IF k <= m THEN bytes[k] ELSE data[k - m]
    <3> HIDE DEF S
    <3>1. Len(data) = c /\ Len(bytes) = m
      BY <2>4, <2>6
    <3> QED BY <1>2, <2>8, <3>1, ConcatProperties
  <2>10. DOMAIN bytes' = 1 .. m + c /\ bytes' \in Seq({bytes'[k] : k \in DOMAIN bytes'})
    <3> HIDE DEF S
    <3>1. DOMAIN bytes' = 1 .. m + c /\ bytes' = [k \in 1 .. m + c |-> bytes'[k]]
      BY <2>9
    <3>2. bytes' \in [1 .. m + c -> {bytes'[k] : k \in 1 .. m + c}]
      BY <3>1
    <3> DEFINE R == {bytes'[k] : k \in 1 .. m + c}
    <3>3. bytes' \in Seq(R)
      <4> HIDE DEF R
      <4>1. m + c \in Nat /\ bytes' \in [1 .. m + c -> R]
        BY <3>2 DEF R
      <4> QED BY <4>1
    <3> QED BY <3>1, <3>3
  <2> HIDE DEF S
  <2>11. VerifyType'
    BY <1>2, <2>1, <2>10 DEF VerifyType, VerifyQuiet
  <2>12. Segments' = Segments /\ Segment' = Segment
    BY <1>2 DEF Segments, Segment, VerifyQuiet
  <2>13. ReadsSegment'
    <3>1. Len(bytes') <= Len(Segment.data)
      BY <2>3, <2>5, <2>9 DEF size
    <3> QED BY <1>2, <2>1, <2>12, <3>1 DEF ReadsSegment
  <2>14. data = part <=> \A k \in 1 .. c : data[k] = part[k]
    <3>1. data = [k \in 1 .. c |-> data[k]]
      BY <2>6
    <3>2. part = [k \in 1 .. c |-> part[k]]
      BY <2>7
    <3> QED BY <3>1, <3>2
  <2>15. SameSoFar' <=> SameSoFar /\ data = part
    <3>1. SameSoFar <=> \A k \in 1 .. m : bytes[k] = Segment.data[k]
      BY <2>4 DEF SameSoFar
    <3>2. SameSoFar' <=> \A k \in 1 .. m + c : bytes'[k] = Segment.data[k]
      BY <2>10, <2>12 DEF SameSoFar
    <3>3. ASSUME SameSoFar, data = part, NEW k \in 1 .. m + c PROVE bytes'[k] = Segment.data[k]
      <4>1. CASE k <= m
        <5>1. k \in 1 .. m
          BY <4>1
        <5> QED BY <2>9, <3>1, <3>3, <4>1, <5>1
      <4>2. CASE ~(k <= m)
        <5>1. k - m \in 1 .. c /\ m + (k - m) = k
          BY <4>2
        <5>2. part[k - m] = Segment.data[k]
          BY <2>7, <5>1
        <5> QED BY <2>9, <3>3, <4>2, <5>2
      <4> QED BY <4>1, <4>2
    <3>4. ASSUME SameSoFar' PROVE SameSoFar /\ data = part
      <4>1. ASSUME NEW k \in 1 .. m PROVE bytes[k] = Segment.data[k]
        <5>1. k \in 1 .. m + c /\ k <= m
          OBVIOUS
        <5> QED BY <2>9, <3>2, <3>4, <5>1
      <4>2. ASSUME NEW k \in 1 .. c PROVE data[k] = part[k]
        <5>1. m + k \in 1 .. m + c /\ ~(m + k <= m) /\ (m + k) - m = k
          OBVIOUS
        <5>2. bytes'[m + k] = data[k] /\ bytes'[m + k] = Segment.data[m + k]
          BY <2>9, <3>2, <3>4, <5>1
        <5> QED BY <2>7, <5>2
      <4> QED BY <2>14, <3>1, <4>1, <4>2
    <3> QED BY <3>2, <3>3, <3>4
  <2>16. VerdictNow'
    <3>1. code = 0 /\ differing = 0 /\ SameSoFar <=> equal /\ ~denied
      BY <2>1 DEF VerdictNow
    <3>2. code' = 0 /\ differing' = 0 /\ SameSoFar' <=> equal' /\ ~denied'
      <4>1. (code' = 0 <=> code = 0) /\ (differing' = 0 <=> differing = 0)
            /\ (denied' <=> denied) /\ (equal' <=> equal /\ data = part)
        BY <1>2
      <4> QED BY <2>15, <3>1, <4>1
    <3>3. code' \in {0, 3} /\ verifyAt' = "read"
      BY <1>2, <2>1 DEF VerdictNow
    <3> QED BY <3>2, <3>3 DEF VerdictNow
  <2> QED BY <2>11, <2>13, <2>16 DEF VerifyInv
<1> QED BY <1>1, <1>2 DEF ReadChunk

(* compare counts the bytes that differ: none if and only if all are same. *)
LEMMA CompareSegmentOk ==
  ASSUME VerifyAssumption, VerifyInv, CompareSegment
  PROVE  VerifyInv'
<1> DEFINE other == {k \in DOMAIN bytes : bytes[k] # Segment.data[k]}
<1>1. /\ verifyAt = "read" /\ VerifyType /\ ReadsSegment /\ VerdictNow
      /\ differing' = differing + Cardinality(other)
      /\ bytes' = <<>> /\ images' = images /\ image' = image
      /\ code' = code /\ equal' = equal /\ denied' = denied
      /\ IF segment < Len(Segments) THEN segment' = segment + 1 /\ verifyAt' = verifyAt
         ELSE verifyAt' = (IF with_t32 THEN "diff" ELSE "image_done") /\ segment' = segment
  BY DEF CompareSegment, VerifyInv, VerifyQuiet
<1>2. PICK m \in Nat : m = Len(bytes) /\ DOMAIN bytes = 1 .. m
  BY <1>1 DEF VerifyType
<1>3. IsFiniteSet(other) /\ Cardinality(other) \in Nat
  <2>1. other \in SUBSET (1 .. m)
    BY <1>2
  <2> HIDE DEF other
  <2> QED BY <2>1, PositionsCount
<1>4. Cardinality(other) = 0 <=> SameSoFar
  <2>1. other = {} <=> SameSoFar
    BY DEF SameSoFar
  <2> HIDE DEF other
  <2> QED BY <1>3, <2>1, FS_EmptySet
<1> HIDE DEF other
<1>5. differing \in Nat /\ differing' \in Nat
      /\ (differing' = 0 <=> differing = 0 /\ Cardinality(other) = 0)
  BY <1>1, <1>3 DEF VerifyType
<1>6. code' = 0 /\ differing' = 0 <=> equal' /\ ~denied'
  <2>1. code = 0 /\ differing = 0 /\ SameSoFar <=> equal /\ ~denied
    BY <1>1 DEF VerdictNow
  <2> QED BY <1>1, <1>4, <1>5, <2>1
<1>7. bytes' \in Seq({bytes'[k] : k \in DOMAIN bytes'}) /\ Len(bytes') = 0
  BY <1>1, EmptySeq
<1>8. PICK n \in Nat : n = Len(Segments)
  BY <1>1, SegmentsAreSegments
<1>9. segment \in 1 .. n /\ code' \in {0, 3}
  BY <1>1, <1>8 DEF ReadsSegment, VerdictNow
<1>10. verifyAt' \in {"read", "diff", "image_done"} /\ segment' \in Nat
  BY <1>1, <1>9
<1>11. VerifyType'
  BY <1>1, <1>5, <1>7, <1>10 DEF VerifyType, VerifySteps
<1>12. Segments' = Segments
  BY <1>1 DEF Segments
<1>13. ReadsSegment'
  <2> SUFFICES ASSUME verifyAt' = "read"
               PROVE  segment' \in 1 .. Len(Segments)' /\ Len(bytes') <= Len(Segment.data)'
    BY DEF ReadsSegment
  <2>1. segment < n
    BY <1>1, <1>8
  <2>2. segment' = segment + 1 /\ segment' \in 1 .. n
    BY <1>1, <1>8, <1>9, <2>1
  <2>3. Segment' = Segments[segment']
    BY <1>12 DEF Segment
  <2>4. Len(Segments[segment'].data) \in Nat
    BY <1>1, <1>8, <2>2, SegmentsAreSegments
  <2> QED BY <1>7, <1>8, <1>12, <2>2, <2>3, <2>4
<1>14. SameSoFar'
  BY <1>1, <1>7 DEF SameSoFar
<1>15. VerdictNow'
  BY <1>6, <1>9, <1>10, <1>14 DEF VerdictNow
<1> QED BY <1>11, <1>13, <1>15 DEF VerifyInv

(* --t32, the end of an image, and the world.                              *)
LEMMA OtherVerifyStepsOk ==
  ASSUME VerifyAssumption, VerifyInv,
         Diff \/ AskFound \/ ImageDone \/ CoreWrites \/ OthersSearch \/ UNCHANGED verifyVars
  PROVE  VerifyInv'
<1>1. VerifyType /\ ReadsSegment /\ VerdictNow
  BY DEF VerifyInv
<1>2. CASE Diff
  <2>1. CASE VerifyFails
    BY <1>2, <2>1, VerifyEnds DEF Diff
  <2>2. CASE /\ verifyAt' = "found"
             /\ UNCHANGED <<image, segment, bytes, differing, code, equal, denied>>
    <3>1. verifyAt = "diff" /\ images' = images
      BY <1>2 DEF Diff
    <3>2. VerifyType'
      BY <1>1, <2>2, <3>1 DEF VerifyType, VerifySteps
    <3> QED BY <1>1, <2>2, <3>1, <3>2 DEF VerifyInv, ReadsSegment, VerdictNow
  <2> QED BY <1>2, <2>1, <2>2 DEF Diff
<1>3. CASE AskFound
  <2>1. CASE VerifyFails
    BY <1>3, <2>1, VerifyEnds DEF AskFound, VerifyQuiet
  <2>2. CASE /\ verifyAt' = "image_done" /\ denied' = (denied \/ found)
             /\ code' = (IF found THEN 3 ELSE code)
             /\ UNCHANGED <<image, segment, bytes, differing, equal>>
    <3>1. verifyAt = "found" /\ images' = images
      BY <1>3 DEF AskFound, VerifyQuiet
    <3>2. VerifyType'
      BY <1>1, <2>2, <3>1 DEF VerifyType, VerifySteps
    <3>3. code \in {0, 3} /\ (code = 0 /\ differing = 0 <=> equal /\ ~denied)
      BY <1>1, <3>1 DEF VerdictNow
    <3>4. code' \in {0, 3} /\ (code' = 0 /\ differing' = 0 <=> equal' /\ ~denied')
      <4>1. CASE found
        <5>1. code' = 3 /\ denied'
          BY <2>2, <4>1
        <5> QED BY <5>1
      <4>2. CASE ~found
        BY <2>2, <3>3, <4>2
      <4> QED BY <4>1, <4>2
    <3> QED BY <2>2, <3>2, <3>4 DEF VerifyInv, ReadsSegment, VerdictNow
  <2> QED BY <1>3, <2>1, <2>2 DEF AskFound
<1>4. CASE ImageDone
  <2>1. /\ verifyAt = "image_done" /\ images' = images /\ code' = Joined(code, differing)
        /\ UNCHANGED <<segment, bytes, differing, equal, denied>>
        /\ IF image < Len(images) THEN image' = image + 1 /\ verifyAt' = "image"
                                  ELSE verifyAt' = "reported" /\ image' = image
    BY <1>4 DEF ImageDone, VerifyQuiet
  <2>2. image' \in 1 .. Len(images) /\ verifyAt' \in {"image", "reported"}
    <3>1. PICK n \in Nat : n = Len(images)
      BY <1>1 DEF VerifyType
    <3>2. image \in 1 .. n
      BY <1>1, <3>1 DEF VerifyType
    <3> QED BY <2>1, <3>1, <3>2
  <2>3. VerifyType'
    BY <1>1, <2>1, <2>2 DEF VerifyType, VerifySteps
  <2>4. code \in {0, 3} /\ (code = 0 /\ differing = 0 <=> equal /\ ~denied)
    BY <1>1, <2>1 DEF VerdictNow
  <2>5. code' \in {0, 3} /\ (code' = 0 <=> code = 0 /\ differing = 0)
    BY <2>1, <2>4 DEF Joined
  <2>6. code' = 0 <=> equal' /\ ~denied'
    BY <2>1, <2>4, <2>5
  <2> QED BY <2>2, <2>3, <2>5, <2>6 DEF VerifyInv, ReadsSegment, VerdictNow
<1>5. CASE CoreWrites \/ OthersSearch \/ UNCHANGED verifyVars
  <2>1. UNCHANGED <<verifyAt, images, image, segment, bytes, differing, code, equal, denied>>
    BY <1>5 DEF CoreWrites, OthersSearch, verifyVars
  <2>2. Segments' = Segments /\ Segment' = Segment
    BY <2>1 DEF Segments, Segment
  <2>3. SameSoFar' <=> SameSoFar
    BY <2>1, <2>2 DEF SameSoFar
  <2>4. VerifyType'
    BY <1>1, <2>1 DEF VerifyType
  <2>5. ReadsSegment'
    BY <1>1, <2>1, <2>2 DEF ReadsSegment
  <2>6. VerdictNow'
    BY <1>1, <2>1, <2>3 DEF VerdictNow
  <2> QED BY <2>4, <2>5, <2>6 DEF VerifyInv
<1> QED BY <1>2, <1>3, <1>4, <1>5

(* Whatever the images, the size of a chunk, and the core, PowerView and   *)
(* its other clients do meanwhile: `verify` matches exactly if every byte  *)
(* compared was equal when read and TRACE32 found no difference.  (verify, *)
(* verify_one, compare, memory_read.)                                      *)
THEOREM MatchesAreEqual == VerifySpec => []MatchMeansAllEqual
<1>1. VerifyInv => MatchMeansAllEqual
  BY DEF VerifyInv, VerdictNow, MatchMeansAllEqual
<1>2. VerifyInv /\ [VerifyNext]_verifyVars => VerifyInv'
  BY VerifyAssumption, ReadImageOk, ReadChunkOk, CompareSegmentOk, OtherVerifyStepsOk DEF VerifyNext
<1> QED BY <1>1, <1>2, VerifyAssumption, VerifyInitOk, PTL DEF VerifySpec

(***************************************************************************)
(* The command line.                                                       *)

(* The name of the command, and what stands before it.                     *)
LEMMA FirstWord ==
  ASSUME NEW args \in Seq(STRING), Words(args) # {}
  PROVE  /\ Earliest(Words(args)) \in 1 .. Len(args) /\ ~IsOption(args[Earliest(Words(args))])
         /\ \A i \in 1 .. Earliest(Words(args)) - 1 : IsOption(args[i])
<1>1. PICK n \in Nat : n = Len(args) /\ DOMAIN args = 1 .. n
  BY LenProperties
<1>2. Words(args) \in SUBSET Nat /\ Words(args) \subseteq 1 .. n
  BY <1>1 DEF Words
<1>3. PICK w \in Words(args) : w = Earliest(Words(args)) /\ \A i \in Words(args) : w <= i
  BY <1>2, EarliestIsIn
<1>4. w \in 1 .. n /\ ~IsOption(args[w])
  BY <1>1, <1>3 DEF Words
<1>5. ASSUME NEW i \in 1 .. w - 1 PROVE IsOption(args[i])
  <2>1. i \in 1 .. n /\ ~(w <= i)
    BY <1>4
  <2> QED BY <1>1, <1>3, <2>1 DEF Words
<1> QED BY <1>1, <1>3, <1>4, <1>5

(* The command takes the rest of the line as it is.                        *)
TakesTheRest(args) == Words(args) # {} /\ args[Earliest(Words(args))] \in TakesRest

(* A --json that is taken off is at the end, and none is left there.       *)
LEMMA SplitIsPrefix ==
  ASSUME NEW args \in Seq(STRING)
  PROVE  \E cut \in 0 .. Len(args) :
           /\ SplitTrailingJson(args).args = SubSeq(args, 1, cut)
           /\ SplitTrailingJson(args).json = (cut < Len(args))
           /\ \A k \in cut + 1 .. Len(args) : k > 2 /\ args[k] = "--json"
           /\ ~TakesTheRest(args) => cut = Len(args)
           /\ TakesTheRest(args) /\ cut > 2 => args[cut] # "--json"
<1>1. PICK n \in Nat : n = Len(args)
  BY LenProperties
<1> DEFINE cuts == {m \in 0 .. n : \A k \in m + 1 .. n : k > 2 /\ args[k] = "--json"}
           cut == IF TakesTheRest(args) THEN Earliest(cuts) ELSE n
<1>2. /\ SplitTrailingJson(args).args = SubSeq(args, 1, cut)
      /\ SplitTrailingJson(args).json = (cut < n)
  BY <1>1 DEF SplitTrailingJson, TakesTheRest
<1>3. n \in cuts /\ cuts \in SUBSET Nat
  BY <1>1
<1>4. Earliest(cuts) \in cuts /\ \A m \in cuts : Earliest(cuts) <= m
  BY <1>3, EarliestIsIn
<1>5. CASE ~TakesTheRest(args)
  BY <1>1, <1>2, <1>5
<1>6. CASE TakesTheRest(args)
  <2>1. cut = Earliest(cuts)
    BY <1>6
  <2> HIDE DEF cut
  <2>2. cut \in 0 .. n /\ \A k \in cut + 1 .. n : k > 2 /\ args[k] = "--json"
    BY <1>4, <2>1
  <2>3. ASSUME cut > 2, args[cut] = "--json" PROVE FALSE
    <3>1. cut - 1 \in 0 .. n /\ \A k \in cut - 1 + 1 .. n : k = cut \/ k \in cut + 1 .. n
      BY <2>2, <2>3
    <3>2. \A k \in cut - 1 + 1 .. n : k > 2 /\ args[k] = "--json"
      BY <2>2, <2>3, <3>1
    <3>3. cut - 1 \in cuts
      BY <3>1, <3>2
    <3>4. cut <= cut - 1
      BY <1>4, <2>1, <3>3
    <3> QED BY <2>2, <3>4
  <2> QED BY <1>1, <1>2, <1>6, <2>2, <2>3
<1> QED BY <1>5, <1>6

(* What clap makes of a command.                                           *)
LEMMA ParsedCommand ==
  ASSUME NEW s \in Seq(STRING), DebugParse(s) # Unknown, DebugParse(s).name # Unknown,
         NEW w, w = Earliest(Words(s)), NEW size \in Nat, size = Len(s)
  PROVE  /\ Words(s) # {} /\ w \in 1 .. size
         /\ \A i \in 1 .. w - 1 : s[i] = "--json"
         /\ s[w] \in TakesRest =>
              /\ w < size /\ s[w + 1] # "--json" /\ DebugParse(s).json = (w > 1)
              /\ DebugParse(s).rest[Len(DebugParse(s).rest)] = s[size]
         /\ s[w] \notin TakesRest =>
              /\ DebugParse(s).json <=> w > 1 \/ \E k \in w + 1 .. size : s[k] = "--json"
              /\ DebugParse(s).rest # <<>> =>
                   DebugParse(s).rest[Len(DebugParse(s).rest)] # "--json"
<1> DEFINE leading == IF Words(s) = {} THEN DOMAIN s ELSE 1 .. w - 1
           after == SubSeq(s, w + 1, Len(s))
           plain == {i \in DOMAIN after : after[i] # "--json"}
           parsed == DebugParse(s)
<1>1. parsed =
        IF \E i \in leading : s[i] = "--other" THEN Unknown
        ELSE IF Words(s) = {} THEN [name |-> Unknown, rest |-> <<>>, json |-> s # <<>>]
        ELSE IF s[w] \in TakesRest
          THEN IF after = <<>> \/ after[1] = "--json" THEN Unknown
               ELSE [name |-> s[w], rest |-> after, json |-> w > 1]
        ELSE IF Cardinality(plain) \in Arity(s[w]) /\ \A i \in plain : ~IsOption(after[i])
          THEN [name |-> s[w], rest |-> IF plain = {} THEN <<>> ELSE <<after[Earliest(plain)]>>,
                json |-> w > 1 \/ plain # DOMAIN after]
        ELSE Unknown
  BY DEF DebugParse
<1>2. ~(\E i \in leading : s[i] = "--other") /\ Words(s) # {}
  <2> HIDE DEF plain, after, leading
  <2> QED BY <1>1
<1>3. w \in 1 .. size /\ \A i \in 1 .. w - 1 : IsOption(s[i])
  BY <1>2, FirstWord
<1>4. \A i \in 1 .. w - 1 : s[i] = "--json"
  BY <1>2, <1>3 DEF IsOption
<1>5. /\ after \in Seq(STRING) /\ Len(after) = size - w
      /\ \A i \in 1 .. size - w : after[i] = s[w + i]
  <2>1. w + 1 \in 1 .. size + 1 /\ size + 1 - (w + 1) = size - w
    BY <1>3
  <2>2. /\ after \in Seq(STRING)
        /\ Len(after) = (IF w + 1 <= size THEN size - (w + 1) + 1 ELSE 0)
        /\ \A i \in 1 .. size - (w + 1) + 1 : after[i] = s[w + 1 + i - 1]
    BY <2>1, SubSeqProperties
  <2>3. Len(after) = size - w
    BY <1>3, <2>2
  <2>4. ASSUME NEW i \in 1 .. size - w PROVE after[i] = s[w + i]
    <3>1. i \in 1 .. size - (w + 1) + 1 /\ w + 1 + i - 1 = w + i
      BY <1>3
    <3> QED BY <2>2, <3>1
  <2> QED BY <2>2, <2>3, <2>4
<1>6. DOMAIN after = 1 .. size - w
  BY <1>5, LenProperties
<1> HIDE DEF after
<1>7. CASE s[w] \in TakesRest
  <2>1. after # <<>> /\ after[1] # "--json"
    <3> HIDE DEF plain, leading
    <3> QED BY <1>1, <1>2, <1>7
  <2>2. parsed = [name |-> s[w], rest |-> after, json |-> w > 1]
    <3> HIDE DEF plain, leading
    <3> QED BY <1>1, <1>2, <1>7, <2>1
  <2>3. Len(after) # 0
    BY <1>5, <2>1, EmptySeq
  <2>4. /\ w < size /\ size - w \in 1 .. size - w
        /\ w + (size - w) = size /\ 1 \in 1 .. size - w
    BY <1>3, <1>5, <2>3
  <2>5. s[w + 1] = after[1] /\ after[Len(after)] = s[size]
    BY <1>5, <2>4
  <2>6. parsed.rest = after /\ parsed.json = (w > 1)
    BY <2>2
  <2> QED BY <1>2, <1>3, <1>4, <1>7, <2>1, <2>4, <2>5, <2>6
<1>8. CASE s[w] \notin TakesRest
  <2>1. parsed = [name |-> s[w], rest |-> IF plain = {} THEN <<>> ELSE <<after[Earliest(plain)]>>,
                  json |-> w > 1 \/ plain # DOMAIN after]
    <3> HIDE DEF plain, leading
    <3> QED BY <1>1, <1>2, <1>8
  <2>2. plain # DOMAIN after <=> \E k \in w + 1 .. size : s[k] = "--json"
    <3>1. plain # DOMAIN after <=> \E i \in 1 .. size - w : after[i] = "--json"
      BY <1>6
    <3>2. ASSUME NEW i \in 1 .. size - w, after[i] = "--json"
          PROVE  \E k \in w + 1 .. size : s[k] = "--json"
      <4>1. w + i \in w + 1 .. size
        BY <1>3
      <4> QED BY <1>5, <3>2, <4>1
    <3>3. ASSUME NEW k \in w + 1 .. size, s[k] = "--json"
          PROVE  \E i \in 1 .. size - w : after[i] = "--json"
      <4>1. k - w \in 1 .. size - w /\ w + (k - w) = k
        BY <1>3
      <4> QED BY <1>5, <3>3, <4>1
    <3> QED BY <3>1, <3>2, <3>3
  <2>3. plain # {} => after[Earliest(plain)] # "--json"
    <3>1. plain \in SUBSET Nat
      BY <1>6
    <3> QED BY <3>1, EarliestIsIn
  <2>4. parsed.rest # <<>> => parsed.rest[Len(parsed.rest)] # "--json"
    <3>1. parsed.rest = IF plain = {} THEN <<>> ELSE <<after[Earliest(plain)]>>
      BY <2>1
    <3> HIDE DEF plain, parsed
    <3> QED BY <2>3, <3>1
  <2>5. parsed.json = (w > 1 \/ plain # DOMAIN after)
    BY <2>1
  <2> QED BY <1>2, <1>3, <1>4, <1>8, <2>2, <2>4, <2>5
<1> QED BY <1>7, <1>8

(* --json is understood wherever it stands, and is no part of the rest.    *)
LEMMA JsonIsUnderstood ==
  ASSUME argv.args \in Seq(STRING), ParseDebug(argv.args) # Unknown,
         ParseDebug(argv.args).name # Unknown
  PROVE  /\ ParseDebug(argv.args).json <=> JsonAsked
         /\ ParseDebug(argv.args).rest # <<>> =>
              ParseDebug(argv.args).rest[Len(ParseDebug(argv.args).rest)] # "--json"
<1> DEFINE args == argv.args
           split == SplitTrailingJson(args)
           s == split.args
           parsed == DebugParse(s)
           debug == ParseDebug(args)
<1>1. PICK n \in Nat : n = Len(args) /\ DOMAIN args = 1 .. n
  BY LenProperties
<1>2. PICK cut \in 0 .. n :
        /\ s = SubSeq(args, 1, cut) /\ split.json = (cut < n)
        /\ \A k \in cut + 1 .. n : k > 2 /\ args[k] = "--json"
        /\ ~TakesTheRest(args) => cut = n
        /\ TakesTheRest(args) /\ cut > 2 => args[cut] # "--json"
  BY <1>1, SplitIsPrefix
<1>3. /\ s \in Seq(STRING) /\ Len(s) = cut /\ DOMAIN s = 1 .. cut
      /\ \A i \in 1 .. cut : s[i] = args[i]
  <2>1. /\ s \in Seq(STRING) /\ Len(s) = (IF 1 <= cut THEN cut - 1 + 1 ELSE 0)
        /\ \A i \in 1 .. cut - 1 + 1 : s[i] = args[1 + i - 1]
    <3>1. 1 \in 1 .. n + 1 /\ cut \in 1 - 1 .. n
      OBVIOUS
    <3> QED BY <1>1, <1>2, <3>1, SubSeqProperties
  <2>2. Len(s) = cut /\ \A i \in 1 .. cut : i \in 1 .. cut - 1 + 1 /\ 1 + i - 1 = i
    BY <2>1
  <2>3. DOMAIN s = 1 .. cut
    BY <2>1, <2>2, LenProperties
  <2> QED BY <2>1, <2>2, <2>3
<1>4. Words(s) = Words(args)
  <2>1. \A k \in cut + 1 .. n : IsOption(args[k])
    BY <1>2 DEF IsOption
  <2>2. \A k \in 1 .. n : k \in 1 .. cut \/ k \in cut + 1 .. n
    OBVIOUS
  <2>3. 1 .. cut \subseteq 1 .. n
    OBVIOUS
  <2> QED BY <1>1, <1>3, <2>1, <2>2, <2>3 DEF Words
<1>5. debug = IF parsed = Unknown THEN Unknown ELSE [parsed EXCEPT !.json = @ \/ split.json]
  BY DEF ParseDebug
<1>6. parsed # Unknown
  <2> HIDE DEF parsed, split
  <2> QED BY <1>5
<1>7. /\ \E called, rest, json : parsed = [name |-> called, rest |-> rest, json |-> json]
  <2> HIDE DEF split, s
  <2> QED BY <1>6 DEF DebugParse
<1>8. /\ debug.name = parsed.name /\ debug.rest = parsed.rest
      /\ debug.json = (parsed.json \/ split.json)
  <2> HIDE DEF parsed, split
  <2> QED BY <1>5, <1>6, <1>7
<1> DEFINE w == Earliest(Words(args))
<1>9. /\ Words(args) # {} /\ w \in 1 .. cut
      /\ \A i \in 1 .. w - 1 : args[i] = "--json"
      /\ args[w] \in TakesRest =>
           /\ w < cut /\ args[w + 1] # "--json" /\ parsed.json = (w > 1)
           /\ parsed.rest[Len(parsed.rest)] = args[cut]
      /\ args[w] \notin TakesRest =>
           /\ parsed.json <=> w > 1 \/ \E k \in w + 1 .. cut : args[k] = "--json"
           /\ parsed.rest # <<>> => parsed.rest[Len(parsed.rest)] # "--json"
  <2> HIDE DEF s, parsed
  <2>1. parsed.name # Unknown
    BY <1>8
  <2>2. w = Earliest(Words(s))
    BY <1>4
  <2> HIDE DEF w
  <2>3. /\ Words(s) # {} /\ w \in 1 .. cut
        /\ \A i \in 1 .. w - 1 : s[i] = "--json"
        /\ s[w] \in TakesRest =>
             /\ w < cut /\ s[w + 1] # "--json" /\ parsed.json = (w > 1)
             /\ parsed.rest[Len(parsed.rest)] = s[cut]
        /\ s[w] \notin TakesRest =>
             /\ parsed.json <=> w > 1 \/ \E k \in w + 1 .. cut : s[k] = "--json"
             /\ parsed.rest # <<>> => parsed.rest[Len(parsed.rest)] # "--json"
    BY <1>3, <1>6, <2>1, <2>2, ParsedCommand DEF parsed
  <2>4. /\ \A i \in 1 .. w - 1 : i \in 1 .. cut
        /\ \A k \in w + 1 .. cut : k \in 1 .. cut
        /\ w < cut => w + 1 \in 1 .. cut
        /\ cut \in 1 .. cut
    BY <2>3
  <2> QED BY <1>3, <1>4, <2>3, <2>4
<1> HIDE DEF parsed, debug, split, s, w
<1>10. w \in 1 .. n /\ ~IsOption(args[w]) /\ \A i \in 1 .. w - 1 : IsOption(args[i])
  BY <1>1, <1>9, FirstWord DEF w
<1>11. TakesTheRest(args) <=> args[w] \in TakesRest
  BY <1>9 DEF TakesTheRest, w
<1>12. JsonAsked <=>
         \/ \E i \in 1 .. w - 1 : args[i] = "--json"
         \/ args[w] \notin TakesRest /\ \E i \in 1 .. n : args[i] = "--json"
         \/ args[w] \in TakesRest /\ args[n] = "--json"
  <2> DEFINE first == CHOOSE i \in DOMAIN args : /\ ~IsOption(args[i])
                                                 /\ \A j \in 1 .. i - 1 : IsOption(args[j])
  <2>1. \A i \in 1 .. n :
          ~IsOption(args[i]) /\ (\A j \in 1 .. i - 1 : IsOption(args[j])) => i = w
    <3> SUFFICES ASSUME NEW i \in 1 .. n, ~IsOption(args[i]),
                        \A j \in 1 .. i - 1 : IsOption(args[j])
                 PROVE  i = w
      OBVIOUS
    <3>1. i < w => i \in 1 .. w - 1
      BY <1>10
    <3>2. w < i => w \in 1 .. i - 1
      BY <1>10
    <3> QED BY <1>10, <3>1, <3>2
  <2>2. first = w
    BY <1>1, <1>10, <2>1
  <2>3. \E i \in DOMAIN args : ~IsOption(args[i])
    BY <1>1, <1>10
  <2>4. JsonAsked <=>
          \/ \E i \in DOMAIN args : args[i] = "--json" /\ i < first
          \/ args[first] \notin TakesRest /\ \E i \in DOMAIN args : args[i] = "--json"
          \/ args[first] \in TakesRest /\ args[Len(args)] = "--json"
    BY <2>3 DEF JsonAsked
  <2>5. (\E i \in 1 .. n : args[i] = "--json" /\ i < w) <=>
          \E i \in 1 .. w - 1 : args[i] = "--json"
    <3>1. \A i \in 1 .. n : i < w => i \in 1 .. w - 1
      BY <1>10
    <3>2. \A i \in 1 .. w - 1 : i \in 1 .. n /\ i < w
      BY <1>10
    <3> QED BY <3>1, <3>2
  <2> HIDE DEF first
  <2> QED BY <1>1, <2>2, <2>4, <2>5
<1>13. (\E i \in 1 .. w - 1 : args[i] = "--json") <=> w > 1
  <2>1. w > 1 => 1 \in 1 .. w - 1
    BY <1>10
  <2> QED BY <1>9, <1>10, <2>1
<1>14. CASE args[w] \in TakesRest
  <2>1. w < cut /\ args[w + 1] # "--json" /\ parsed.json = (w > 1)
    BY <1>9, <1>14
  <2>2. cut > 2 => args[cut] # "--json"
    BY <1>2, <1>11, <1>14
  <2>3. args[cut] # "--json"
    <3>1. cut <= 2 => w + 1 = cut
      BY <1>10, <2>1
    <3> QED BY <2>1, <2>2, <3>1
  <2>4. cut < n <=> args[n] = "--json"
    <3>1. cut < n => n \in cut + 1 .. n
      OBVIOUS
    <3> QED BY <1>2, <2>3, <3>1
  <2>5. parsed.rest[Len(parsed.rest)] # "--json"
    BY <1>9, <1>14, <2>3
  <2>6. JsonAsked <=> (w > 1 \/ args[n] = "--json")
    BY <1>12, <1>13, <1>14
  <2>7. debug.json <=> (w > 1 \/ cut < n)
    BY <1>2, <1>8, <2>1
  <2> QED BY <1>8, <2>4, <2>5, <2>6, <2>7 DEF debug
<1>15. CASE args[w] \notin TakesRest
  <2>1. cut = n /\ ~split.json
    <3>1. cut = n
      BY <1>2, <1>11, <1>15
    <3>2. ~(cut < n)
      BY <3>1
    <3> QED BY <1>2, <3>1, <3>2
  <2>2. debug.json <=> w > 1 \/ \E k \in w + 1 .. n : args[k] = "--json"
    BY <1>8, <1>9, <1>15, <2>1
  <2>3. JsonAsked <=> w > 1 \/ \E i \in 1 .. n : args[i] = "--json"
    BY <1>12, <1>13, <1>15
  <2>4. \A i \in 1 .. n : args[i] = "--json" => i \in 1 .. w - 1 \/ i \in w + 1 .. n
    <3>1. args[w] # "--json"
      BY <1>10 DEF IsOption
    <3>2. \A i \in 1 .. n : i = w \/ i \in 1 .. w - 1 \/ i \in w + 1 .. n
      BY <1>10
    <3> QED BY <3>1, <3>2
  <2>5. \A k \in w + 1 .. n : k \in 1 .. n
    BY <1>10
  <2>6. JsonAsked <=> w > 1 \/ \E k \in w + 1 .. n : args[k] = "--json"
    BY <1>13, <2>3, <2>4, <2>5
  <2> QED BY <1>8, <1>9, <1>15, <2>2, <2>6 DEF debug
<1> QED BY <1>14, <1>15

(* CPU= is added w most once, and behind the user's arguments.             *)
LEMMA CpuIsAddedOnce ==
  ASSUME NEW args \in Seq(Assignments), NEW decided,
         NEW all, all = args \o CpuArgument(decided, args)
  PROVE  /\ Len(all) >= Len(args)
         /\ \A i, j \in DOMAIN all :
              i < j /\ all[i].key = "CPU" /\ all[j].key = "CPU" => j <= Len(args)
<1> DEFINE cpu == [key |-> "CPU", value |-> decided.chip]
           S == Assignments \cup {cpu}
<1>1. PICK n \in Nat : n = Len(args) /\ DOMAIN args = 1 .. n
  BY LenProperties
<1>2. args \in Seq(S) /\ <<cpu>> \in Seq(S) /\ Len(<<cpu>>) = 1 /\ <<cpu>>[1] = cpu
  <2> HIDE DEF cpu
  <2> QED OBVIOUS
<1>3. CASE CpuArgument(decided, args) = <<>>
  <2>1. all = args
    BY <1>3, ConcatEmptySeq
  <2> QED BY <1>1, <2>1
<1>4. CASE CpuArgument(decided, args) # <<>>
  <2>1. CpuArgument(decided, args) = <<cpu>> /\ \A i \in 1 .. n : args[i].key # "CPU"
    BY <1>1, <1>4 DEF CpuArgument
  <2> HIDE DEF cpu, S
  <2>2. /\ all \in Seq(S) /\ Len(all) = Len(args) + Len(<<cpu>>)
        /\ \A i \in 1 .. Len(args) + Len(<<cpu>>) :
             all[i] = IF i <= Len(args) THEN args[i] ELSE <<cpu>>[i - Len(args)]
    BY <1>2, <2>1, ConcatProperties
  <2>3. Len(all) = n + 1 /\ DOMAIN all = 1 .. n + 1
    BY <1>1, <1>2, <2>2, LenProperties
  <2>4. \A i \in 1 .. n : all[i] = args[i]
    BY <1>1, <1>2, <2>2
  <2>5. \A i, j \in 1 .. n + 1 : i < j => i \in 1 .. n
    OBVIOUS
  <2> QED BY <1>1, <2>1, <2>3, <2>4, <2>5
<1> QED BY <1>3, <1>4

(* And a bounded one has a greatest.                                       *)
LEMMA GreatestExists ==
  ASSUME NEW n \in Nat, NEW S \in SUBSET (1 .. n), S # {}
  PROVE  \E j \in S : \A k \in S : k <= j
<1> DEFINE mirrored == {n - j : j \in S}
<1>1. mirrored \in SUBSET Nat /\ mirrored # {}
  <2>1. \A j \in S : j \in Int /\ j <= n
    OBVIOUS
  <2>2. \A j \in S : n - j \in Nat
    BY <2>1
  <2> QED BY <2>2
<1>2. PICK x \in mirrored : \A m \in mirrored : x <= m
  <2> HIDE DEF mirrored
  <2> QED BY <1>1, EarliestIsIn
<1>3. PICK j \in S : x = n - j
  BY <1>2
<1>4. ASSUME NEW k \in S PROVE k <= j
  <2>1. n - j <= n - k
    BY <1>2, <1>3
  <2>2. j \in Int /\ k \in Int
    OBVIOUS
  <2> HIDE DEF mirrored
  <2> QED BY <2>1, <2>2
<1> QED BY <1>4

(* No remark: a section of RCL=NETTCP with the PORT that is asked for.     *)
LEMMA SilenceMeansUsable ==
  ASSUME CommandLineAssumption, NEW lines \in ConfigT32, Remarks(RclSettings(lines)) = {}
  PROVE  \E i, j \in DOMAIN lines :
           /\ i < j /\ \A k \in i .. j : lines[k].key # "blank"
           /\ lines[i] = [key |-> "RCL", value |-> "NETTCP"]
           /\ lines[j] = [key |-> "PORT", value |-> RclPort]
<1> DEFINE start == {i \in DOMAIN lines : lines[i].key = "RCL"}
           rcl   == Earliest(start)
           in_section(i) == i > rcl /\ \A j \in rcl + 1 .. i : lines[j].key # "blank"
           those(keys) == {i \in DOMAIN lines : in_section(i) /\ lines[i].key \in keys}
           latest(keys) ==
             IF those(keys) = {} THEN Unknown
             ELSE lines[CHOOSE i \in those(keys) : \A j \in those(keys) : j <= i]
           port_line == latest({"PORT"})
           host == latest({"REMOTEHOSTDENY", "REMOTEHOSTALLOW"})
           section == RclSettings(lines)
<1>1. PICK n \in Nat : n = Len(lines) /\ DOMAIN lines = 1 .. n
  BY LenProperties DEF CommandLineAssumption
<1>2. \A i \in 1 .. n : lines[i] \in Assignments
  BY <1>1, ElementOfSeq DEF CommandLineAssumption
<1>3. section = IF start = {} THEN Unknown
        ELSE [protocol |-> lines[rcl].value,
              port |-> IF port_line = Unknown THEN Unknown ELSE port_line.value,
              remote_host_deny |-> host # Unknown /\ host.key = "REMOTEHOSTDENY"]
  BY DEF RclSettings
<1>4. /\ section # Unknown /\ section.protocol = "NETTCP" /\ section.port = RclPort
  <2> HIDE DEF section
  <2> QED BY DEF Remarks, section
<1>5. start # {} /\ lines[rcl].value = "NETTCP" /\ port_line # Unknown /\ port_line.value = RclPort
  <2> HIDE DEF start, rcl, port_line, host, section
  <2>1. start # {}
    BY <1>3, <1>4
  <2>2. section.protocol = lines[rcl].value
        /\ section.port = IF port_line = Unknown THEN Unknown ELSE port_line.value
    BY <1>3, <2>1
  <2>3. Unknown # RclPort
    BY DEF CommandLineAssumption
  <2> QED BY <1>4, <2>1, <2>2, <2>3
<1>6. rcl \in start /\ rcl \in 1 .. n /\ lines[rcl].key = "RCL"
  <2>1. start \in SUBSET Nat
    BY <1>1
  <2>2. rcl \in start
    BY <1>5, <2>1, EarliestIsIn
  <2> QED BY <1>1, <2>2
<1> HIDE DEF rcl
<1>7. lines[rcl] = [key |-> "RCL", value |-> "NETTCP"]
  BY <1>2, <1>5, <1>6 DEF Assignments
<1>8. PICK j \in those({"PORT"}) : port_line = lines[j]
  <2>1. those({"PORT"}) # {} /\ those({"PORT"}) \in SUBSET (1 .. n)
    BY <1>1, <1>5
  <2>2. PICK latest_j \in those({"PORT"}) : \A k \in those({"PORT"}) : k <= latest_j
    <3> HIDE DEF those
    <3> QED BY <2>1, GreatestExists
  <2> HIDE DEF those
  <2> QED BY <2>1, <2>2
<1>9. /\ j \in 1 .. n /\ j > rcl /\ lines[j].key = "PORT"
      /\ \A k \in rcl + 1 .. j : lines[k].key # "blank"
  BY <1>1, <1>8
<1>10. lines[j] = [key |-> "PORT", value |-> RclPort]
  BY <1>2, <1>5, <1>8, <1>9 DEF Assignments
<1>11. \A k \in rcl .. j : k = rcl \/ k \in rcl + 1 .. j
  BY <1>6, <1>9
<1>12. \A k \in rcl .. j : lines[k].key # "blank"
  BY <1>6, <1>9, <1>11
<1> QED BY <1>1, <1>6, <1>7, <1>9, <1>10, <1>12

(* The process, step by step: which commands take a step.                  *)
EarlySteps == {"signals", "parse", "dispatch", "config"}

WhereInv ==
  /\ argv \in CommandLines
  /\ cliAt \in {"validate", "target"} => argv.command \in {"flash", "load"}
  /\ cliAt = "powerview" => argv.command \in {"open", "flash", "load"}
  /\ cliAt \in {"debug", "execute", "session"} => argv.command = "debug"
  /\ cliAt \in {"rtt", "adapter", "vscode", "chips"} => argv.command = cliAt
  /\ cliAt = "print" => argv.command = "config"
  /\ cliAt \in {"create", "fill"} => argv.command = "init"
  /\ cliAt \in {"compare", "backup", "replace"} => argv.command \in {"skill", "rustrover"}
  /\ argv.command = "debug" /\ cliAt \in {"config", "debug", "execute", "session"} =>
       ParseDebug(argv.args) # Unknown
  /\ cliAt = "execute" => ParseDebug(argv.args).name # Unknown
  /\ cliAt = "session" => ParseDebug(argv.args).name = Unknown

(* No document before the end.                                             *)
DocsInv == (cliAt # "ended" => cliExit = Unknown /\ docs = <<>>) /\ OneDocument

(* Nothing is done early, by `rtt` before it knows its arguments, or to a  *)
(* file that is to be written.                                             *)
UsageInv ==
  /\ cliAt \in EarlySteps => cliConfig = Unknown
  /\ cliAt \in EarlySteps \cup {"rtt"} => effects = {}
  /\ cliAt \in EarlySteps \cup {"rtt", "create", "compare", "backup"} =>
       generated.content = generated.was
  /\ UsageErrorsDoNothing

(* What was checked is what is run.                                        *)
PickInv ==
  /\ cliAt \in {"validate", "powerview", "target"} =>
       \E toml \in TomlFiles : cliConfig = Overridden(toml)
  /\ cliAt \in {"powerview", "target"} /\ argv.command # "open" => pick # Unknown
  /\ cliAt \in {"powerview", "target"} /\ argv.command = "flash" => pick = Resolve(cliConfig)
  /\ StartedOnlyAfterChecks
  /\ cliExit = 0 => Done

Promised == {"none", "user's", "same", "partial"}
FileInv ==
  /\ generated \in [content : Promised, was : Promised, backups : SUBSET Promised]
  /\ cliAt = "fill" => generated.was # "user's"
  /\ cliAt = "replace" /\ generated.was = "user's" => "user's" \in generated.backups
  /\ FileIsKept

RemarksInv ==
  remarks # Unknown =>
    \E lines \in ConfigT32 : remarks = [lines |-> lines, said |-> Remarks(RclSettings(lines))]

CliInv == WhereInv /\ DocsInv /\ UsageInv /\ PickInv /\ FileInv /\ RemarksInv

(* Every step leads a command to a step of its own.                        *)
LEMMA WhereStep ==
  ASSUME CommandLineAssumption, CliInv, [CliNext]_cliVars
  PROVE  WhereInv'
<1> USE DEF WhereInv
<1>1. WhereInv /\ DocsInv /\ UsageInv /\ PickInv /\ FileInv /\ RemarksInv
  BY DEF CliInv
<1>2. CASE InstallHandlers
  BY <1>1, <1>2 DEF InstallHandlers, Step, Exit, Emit, Same, cliWorld, Writes
<1>3. CASE ParseCommand
  BY <1>1, <1>3 DEF ParseCommand, Step, Exit, Emit, Same, cliWorld, Writes
<1>4. CASE Dispatch
  BY <1>1, <1>4 DEF Dispatch, Step, Exit, Emit, Same, cliWorld, Writes
<1>5. CASE LoadConfig
  <2>1. cliAt' = "ended" \/ cliAt' = AfterConfig
    BY <1>5 DEF LoadConfig, Step, Exit
  <2>2. argv' = argv /\ cliAt = "config" /\ argv.command \in Subcommands
    BY <1>1, <1>5 DEF LoadConfig, Step, Exit, CommandLineAssumption
  <2> QED BY <1>1, <2>1, <2>2 DEF AfterConfig, Subcommands
<1>6. CASE Validate
  BY <1>1, <1>6 DEF Validate, Step, Exit, Emit, Same, cliWorld, Writes
<1>7. CASE StartPowerView
  BY <1>1, <1>7 DEF StartPowerView, Step, Exit, Emit, Same, cliWorld, Writes
<1>8. CASE RunTarget
  BY <1>1, <1>8 DEF RunTarget, Step, Exit, Emit, Same, cliWorld, Writes
<1>9. CASE DebugConnect
  BY <1>1, <1>9 DEF DebugConnect, Step, Exit, Emit, Same, cliWorld, Writes
<1>10. CASE DebugExecute
  BY <1>1, <1>10 DEF DebugExecute, Step, Exit, Emit, Same, cliWorld, Writes
<1>11. CASE Session
  BY <1>1, <1>11 DEF Session, Step, Exit, Emit, Same, cliWorld, Writes
<1>12. CASE Adapter
  BY <1>1, <1>12 DEF Adapter, Step, Exit, Emit, Same, cliWorld, Writes
<1>13. CASE Rtt
  BY <1>1, <1>13 DEF Rtt, Step, Exit, Emit, Same, cliWorld, Writes
<1>14. CASE Vscode
  BY <1>1, <1>14 DEF Vscode, Step, Exit, Emit, Same, cliWorld, Writes
<1>15. CASE PrintConfig
  BY <1>1, <1>15 DEF PrintConfig, Step, Exit, Emit, Same, cliWorld, Writes
<1>16. CASE Chips
  BY <1>1, <1>16 DEF Chips, Step, Exit, Emit, Same, cliWorld, Writes
<1>17. CASE CreateToml
  BY <1>1, <1>17 DEF CreateToml, Step, Exit, Emit, Same, cliWorld, Writes
<1>18. CASE FillToml
  BY <1>1, <1>18 DEF FillToml, Step, Exit, Emit, Same, cliWorld, Writes
<1>19. CASE CompareFile
  BY <1>1, <1>19 DEF CompareFile, Step, Exit, Emit, Same, cliWorld, Writes
<1>20. CASE BackupFile
  BY <1>1, <1>20 DEF BackupFile, Step, Exit, Emit, Same, cliWorld, Writes
<1>21. CASE ReplaceFile
  BY <1>1, <1>21 DEF ReplaceFile, Step, Exit, Emit, Same, cliWorld, Writes
<1>22. CASE CtrlC
  BY <1>1, <1>22 DEF CtrlC, Step, Exit, Emit, Same, cliWorld, Writes
<1>23. CASE OthersMove
  BY <1>1, <1>23 DEF OthersMove, Step, Exit, Emit, Same, cliWorld, Writes
<1>24. CASE UNCHANGED cliVars
  BY <1>1, <1>24 DEF cliVars, cliWorld
<1> QED
  BY <1>2, <1>3, <1>4, <1>5, <1>6, <1>7, <1>8, <1>9, <1>10, <1>11, <1>12, <1>13, <1>14, <1>15,
     <1>16, <1>17, <1>18, <1>19, <1>20, <1>21, <1>22, <1>23, <1>24 DEF CliNext

(* The remarks are those on a config.t32.                                  *)
LEMMA RemarksStep ==
  ASSUME CommandLineAssumption, CliInv, [CliNext]_cliVars
  PROVE  RemarksInv'
<1> USE DEF RemarksInv
<1>1. WhereInv /\ DocsInv /\ UsageInv /\ PickInv /\ FileInv /\ RemarksInv
  BY DEF CliInv
<1>2. CASE InstallHandlers
  BY <1>1, <1>2 DEF InstallHandlers, Step, Exit, Emit, Same, cliWorld
<1>3. CASE ParseCommand
  BY <1>1, <1>3 DEF ParseCommand, Step, Exit, Emit, Same, cliWorld
<1>4. CASE Dispatch
  BY <1>1, <1>4 DEF Dispatch, Step, Exit, Emit, Same, cliWorld
<1>5. CASE LoadConfig
  BY <1>1, <1>5 DEF LoadConfig, Step, Exit, Emit, Same, cliWorld
<1>6. CASE Validate
  BY <1>1, <1>6 DEF Validate, Step, Exit, Emit, Same, cliWorld
<1>7. CASE StartPowerView
  BY <1>1, <1>7 DEF StartPowerView, Step, Exit, Emit, Same, cliWorld
<1>8. CASE RunTarget
  BY <1>1, <1>8 DEF RunTarget, Step, Exit, Emit, Same, cliWorld
<1>9. CASE DebugConnect
  BY <1>1, <1>9 DEF DebugConnect, Step, Exit, Emit, Same, cliWorld
<1>10. CASE DebugExecute
  BY <1>1, <1>10 DEF DebugExecute, Step, Exit, Emit, Same, cliWorld
<1>11. CASE Session
  BY <1>1, <1>11 DEF Session, Step, Exit, Emit, Same, cliWorld
<1>12. CASE Adapter
  BY <1>1, <1>12 DEF Adapter, Step, Exit, Emit, Same, cliWorld
<1>13. CASE Rtt
  BY <1>1, <1>13 DEF Rtt, Step, Exit, Emit, Same, cliWorld
<1>14. CASE Vscode
  BY <1>1, <1>14 DEF Vscode, Step, Exit, Emit, Same, cliWorld
<1>15. CASE PrintConfig
  BY <1>1, <1>15 DEF PrintConfig, Step, Exit, Emit, Same, cliWorld
<1>16. CASE Chips
  BY <1>1, <1>16 DEF Chips, Step, Exit, Emit, Same, cliWorld
<1>17. CASE CreateToml
  BY <1>1, <1>17 DEF CreateToml, Step, Exit, Emit, Same, cliWorld
<1>18. CASE FillToml
  BY <1>1, <1>18 DEF FillToml, Step, Exit, Emit, Same, cliWorld
<1>19. CASE CompareFile
  BY <1>1, <1>19 DEF CompareFile, Step, Exit, Emit, Same, cliWorld
<1>20. CASE BackupFile
  BY <1>1, <1>20 DEF BackupFile, Step, Exit, Emit, Same, cliWorld
<1>21. CASE ReplaceFile
  BY <1>1, <1>21 DEF ReplaceFile, Step, Exit, Emit, Same, cliWorld
<1>22. CASE CtrlC
  BY <1>1, <1>22 DEF CtrlC, Step, Exit, Emit, Same, cliWorld
<1>23. CASE OthersMove
  BY <1>1, <1>23 DEF OthersMove, Step, Exit, Emit, Same, cliWorld
<1>24. CASE UNCHANGED cliVars
  BY <1>1, <1>24 DEF cliVars, cliWorld
<1> QED
  BY <1>2, <1>3, <1>4, <1>5, <1>6, <1>7, <1>8, <1>9, <1>10, <1>11, <1>12, <1>13, <1>14, <1>15,
     <1>16, <1>17, <1>18, <1>19, <1>20, <1>21, <1>22, <1>23, <1>24 DEF CliNext

(* The user's file is kept by every step, killed or not,                   *)
LEMMA FileStep ==
  ASSUME CommandLineAssumption, CliInv, [CliNext]_cliVars
  PROVE  FileInv'
<1> USE DEF FileInv, FileIsKept, Promised
<1>1. WhereInv /\ DocsInv /\ UsageInv /\ PickInv /\ FileInv /\ RemarksInv
  BY DEF CliInv
<1>2. CASE InstallHandlers
  BY <1>1, <1>2 DEF InstallHandlers, Step, Exit, Emit, Same, cliWorld, Writes
<1>3. CASE ParseCommand
  BY <1>1, <1>3 DEF ParseCommand, Step, Exit, Emit, Same, cliWorld, Writes
<1>4. CASE Dispatch
  BY <1>1, <1>4 DEF Dispatch, Step, Exit, Emit, Same, cliWorld, Writes
<1>5. CASE LoadConfig
  <2>1. cliAt' = "ended" \/ cliAt' = AfterConfig
    BY <1>5 DEF LoadConfig, Step, Exit
  <2>2. AfterConfig \notin {"fill", "replace"}
    BY <1>1 DEF WhereInv, CommandLineAssumption, AfterConfig, Subcommands
  <2> QED BY <1>1, <1>5, <2>1, <2>2 DEF LoadConfig
<1>6. CASE Validate
  BY <1>1, <1>6 DEF Validate, Step, Exit, Emit, Same, cliWorld, Writes
<1>7. CASE StartPowerView
  BY <1>1, <1>7 DEF StartPowerView, Step, Exit, Emit, Same, cliWorld, Writes
<1>8. CASE RunTarget
  BY <1>1, <1>8 DEF RunTarget, Step, Exit, Emit, Same, cliWorld, Writes
<1>9. CASE DebugConnect
  BY <1>1, <1>9 DEF DebugConnect, Step, Exit, Emit, Same, cliWorld, Writes
<1>10. CASE DebugExecute
  BY <1>1, <1>10 DEF DebugExecute, Step, Exit, Emit, Same, cliWorld, Writes
<1>11. CASE Session
  BY <1>1, <1>11 DEF Session, Step, Exit, Emit, Same, cliWorld, Writes
<1>12. CASE Adapter
  BY <1>1, <1>12 DEF Adapter, Step, Exit, Emit, Same, cliWorld, Writes
<1>13. CASE Rtt
  BY <1>1, <1>13 DEF Rtt, Step, Exit, Emit, Same, cliWorld, Writes
<1>14. CASE Vscode
  BY <1>1, <1>14 DEF Vscode, Step, Exit, Emit, Same, cliWorld, Writes
<1>15. CASE PrintConfig
  BY <1>1, <1>15 DEF PrintConfig, Step, Exit, Emit, Same, cliWorld, Writes
<1>16. CASE Chips
  BY <1>1, <1>16 DEF Chips, Step, Exit, Emit, Same, cliWorld, Writes
<1>17. CASE CreateToml
  <2>1. cliAt = "create" /\ generated.content = generated.was
    BY <1>1, <1>17 DEF CreateToml, UsageInv
  <2>2. CASE generated' = generated /\ cliAt' = "ended"
    BY <1>1, <2>2
  <2>3. CASE /\ generated.content = "none" /\ cliAt' = "fill"
             /\ generated' = [generated EXCEPT !.content = "partial", !.backups = generated.backups]
    BY <1>1, <2>1, <2>3
  <2> QED BY <1>17, <2>2, <2>3 DEF CreateToml, Writes, Step, Exit
<1>18. CASE FillToml
  BY <1>1, <1>18 DEF FillToml, Step, Exit, Emit, Same, cliWorld, Writes
<1>19. CASE CompareFile
  BY <1>1, <1>19 DEF CompareFile, Step, Exit, Emit, Same, cliWorld, Writes
<1>20. CASE BackupFile
  <2>1. cliAt = "backup" /\ generated.content = generated.was
    BY <1>1, <1>20 DEF BackupFile, UsageInv
  <2>2. CASE generated' = generated /\ cliAt' = "ended"
    BY <1>1, <2>2
  <2>3. CASE /\ cliAt' = "replace"
             /\ generated' = [generated EXCEPT !.content = generated.content,
                                              !.backups =
                                                generated.backups \cup {generated.content}]
    BY <1>1, <2>1, <2>3
  <2> QED BY <1>20, <2>2, <2>3 DEF BackupFile, Writes, Step, Exit
<1>21. CASE ReplaceFile
  BY <1>1, <1>21 DEF ReplaceFile, Step, Exit, Emit, Same, cliWorld, Writes
<1>22. CASE CtrlC
  BY <1>1, <1>22 DEF CtrlC, Step, Exit, Emit, Same, cliWorld, Writes
<1>23. CASE OthersMove
  BY <1>1, <1>23 DEF OthersMove, Step, Exit, Emit, Same, cliWorld, Writes
<1>24. CASE UNCHANGED cliVars
  BY <1>1, <1>24 DEF cliVars, cliWorld
<1> QED
  BY <1>2, <1>3, <1>4, <1>5, <1>6, <1>7, <1>8, <1>9, <1>10, <1>11, <1>12, <1>13, <1>14, <1>15,
     <1>16, <1>17, <1>18, <1>19, <1>20, <1>21, <1>22, <1>23, <1>24 DEF CliNext

(* a usage error has done nothing,                                         *)
LEMMA UsageStep ==
  ASSUME CommandLineAssumption, CliInv, [CliNext]_cliVars
  PROVE  UsageInv'
<1> USE DEF UsageInv, UsageErrorsDoNothing, EarlySteps
<1>1. WhereInv /\ DocsInv /\ UsageInv /\ PickInv /\ FileInv /\ RemarksInv
  BY DEF CliInv
<1>2. Unknown # 2 /\ (cliAt # "ended" => cliExit = Unknown /\ docs = <<>>)
  BY <1>1 DEF DocsInv, CommandLineAssumption
<1>3. CASE InstallHandlers
  BY <1>1, <1>2, <1>3 DEF InstallHandlers, Step, Exit, Emit, Same, cliWorld, Writes
<1>4. CASE ParseCommand
  BY <1>1, <1>2, <1>4 DEF ParseCommand, Step, Exit, Emit, Same, cliWorld, Writes
<1>5. CASE Dispatch
  BY <1>1, <1>2, <1>5 DEF Dispatch, Step, Exit, Emit, Same, cliWorld, Writes
<1>6. CASE LoadConfig
  <2>1. cliAt = "config" /\ cliAt' \in {"ended", AfterConfig} /\ AfterConfig # "ended"
    BY <1>1, <1>6 DEF LoadConfig, Step, Exit, AfterConfig, WhereInv, CommandLineAssumption,
       Subcommands
  <2>2. AfterConfig \notin EarlySteps
    BY <1>1 DEF AfterConfig, WhereInv, CommandLineAssumption, Subcommands
  <2> QED BY <1>1, <1>2, <1>6, <2>1, <2>2 DEF LoadConfig, Step, Exit
<1>7. CASE Validate
  BY <1>1, <1>2, <1>7 DEF Validate, Step, Exit, Emit, Same, cliWorld, Writes
<1>8. CASE StartPowerView
  <2>1. cliAt' \in {"ended", "target"} /\ cliExit' \in {Unknown, 0, 1}
    BY <1>1, <1>2, <1>8 DEF StartPowerView, Step, Exit
  <2> QED BY <1>2, <2>1
<1>9. CASE RunTarget
  <2>1. cliAt' = "ended" /\ cliExit' \in {0, 1}
    BY <1>9 DEF RunTarget, Exit
  <2> QED BY <2>1
<1>10. CASE DebugConnect
  BY <1>1, <1>2, <1>10 DEF DebugConnect, Step, Exit, Emit, Same, cliWorld, Writes
<1>11. CASE DebugExecute
  BY <1>1, <1>2, <1>11 DEF DebugExecute, Step, Exit, Emit, Same, cliWorld, Writes
<1>12. CASE Session
  BY <1>1, <1>2, <1>12 DEF Session, Step, Exit, Emit, Same, cliWorld, Writes
<1>13. CASE Adapter
  BY <1>1, <1>2, <1>13 DEF Adapter, Step, Exit, Emit, Same, cliWorld, Writes
<1>14. CASE Rtt
  <2>1. /\ cliAt = "rtt" /\ argv.command = "rtt"
        /\ argv' = argv /\ cliAt' = "ended" /\ docs' = <<>>
    BY <1>1, <1>2, <1>14 DEF Rtt, Exit, WhereInv
  <2>2. generated' = generated /\ generated.content = generated.was /\ effects = {}
    BY <1>1, <2>1, <1>14 DEF Rtt
  <2>3. CASE cliExit' \in {0, 1}
    BY <2>1, <2>3
  <2>4. CASE effects' = effects
    BY <2>1, <2>2, <2>4
  <2> QED BY <1>14, <2>3, <2>4 DEF Rtt, Exit
<1>15. CASE Vscode
  BY <1>1, <1>2, <1>15 DEF Vscode, Step, Exit, Emit, Same, cliWorld, Writes
<1>16. CASE PrintConfig
  BY <1>1, <1>2, <1>16 DEF PrintConfig, Step, Exit, Emit, Same, cliWorld, Writes
<1>17. CASE Chips
  BY <1>1, <1>2, <1>17 DEF Chips, Step, Exit, Emit, Same, cliWorld, Writes
<1>18. CASE CreateToml
  BY <1>1, <1>2, <1>18 DEF CreateToml, Step, Exit, Emit, Same, cliWorld, Writes
<1>19. CASE FillToml
  BY <1>1, <1>2, <1>19 DEF FillToml, Step, Exit, Emit, Same, cliWorld, Writes
<1>20. CASE CompareFile
  BY <1>1, <1>2, <1>20 DEF CompareFile, Step, Exit, Emit, Same, cliWorld, Writes
<1>21. CASE BackupFile
  BY <1>1, <1>2, <1>21 DEF BackupFile, Step, Exit, Emit, Same, cliWorld, Writes
<1>22. CASE ReplaceFile
  BY <1>1, <1>2, <1>22 DEF ReplaceFile, Step, Exit, Emit, Same, cliWorld, Writes
<1>23. CASE CtrlC
  BY <1>1, <1>2, <1>23 DEF CtrlC, Step, Exit, Emit, Same, cliWorld, Writes
<1>24. CASE OthersMove
  BY <1>1, <1>2, <1>24 DEF OthersMove, Step, Exit, Emit, Same, cliWorld, Writes
<1>25. CASE UNCHANGED cliVars
  BY <1>1, <1>2, <1>25 DEF cliVars, cliWorld
<1> QED
  BY <1>3, <1>4, <1>5, <1>6, <1>7, <1>8, <1>9, <1>10, <1>11, <1>12, <1>13, <1>14, <1>15,
     <1>16, <1>17, <1>18, <1>19, <1>20, <1>21, <1>22, <1>23, <1>24, <1>25 DEF CliNext

(* A command of `debug` that ends has printed what was asked for.          *)
LEMMA DocumentIsOne ==
  ASSUME CommandLineAssumption, argv \in CommandLines, docs = <<>>,
         ParseDebug(argv.args) # Unknown, ParseDebug(argv.args).name # Unknown,
         NEW exit \in {0, 1, 3}, Emit(ParseDebug(argv.args).json, exit)
  PROVE  DocsInv'
<1> DEFINE debug == ParseDebug(argv.args)
           document == [command |-> debug.name, ok |-> exit = 0, exit_code |-> exit]
<1>1. /\ debug.json <=> JsonAsked
      /\ debug.rest # <<>> => debug.rest[Len(debug.rest)] # "--json"
  BY JsonIsUnderstood DEF CommandLineAssumption
<1>2. cliAt' = "ended" /\ cliExit' = exit /\ argv' = argv
  BY DEF Emit
<1>3. docs' = IF debug.json THEN <<document>> ELSE <<>>
  BY DEF Emit
<1>4. debug' = debug /\ (JsonAsked <=> JsonAsked')
  BY <1>2 DEF JsonAsked
<1>5. Len(<<document>>) = 1 /\ <<document>>[1] = document
  OBVIOUS
<1>6. document.exit_code = exit /\ document.ok = (exit = 0)
  OBVIOUS
<1> HIDE DEF debug, document
<1>7. OneDocument'
  BY <1>1, <1>2, <1>3, <1>4, <1>5, <1>6 DEF OneDocument, debug
<1> QED BY <1>2, <1>7 DEF DocsInv

(* there is one document at the end and none before,                       *)
LEMMA DocsStep ==
  ASSUME CommandLineAssumption, CliInv, [CliNext]_cliVars
  PROVE  DocsInv'
<1> USE DEF DocsInv, WhereInv, UsageInv, EarlySteps
<1>1. WhereInv /\ DocsInv /\ UsageInv /\ PickInv /\ FileInv /\ RemarksInv
  BY DEF CliInv
<1>2. cliExit' \notin {0, 1, 3} \/ argv'.command # "debug"
         \/ (cliConfig' = Unknown /\ docs' = <<>>) => OneDocument'
  BY DEF OneDocument
<1>3. CASE InstallHandlers
  BY <1>1, <1>2, <1>3 DEF InstallHandlers, Step, Exit, Emit, Same, cliWorld, Writes
<1>4. CASE ParseCommand
  BY <1>1, <1>2, <1>4 DEF ParseCommand, Step, Exit, Emit, Same, cliWorld, Writes
<1>5. CASE Dispatch
  BY <1>1, <1>2, <1>5 DEF Dispatch, Step, Exit, Emit, Same, cliWorld, Writes
<1>6. CASE LoadConfig
  BY <1>1, <1>2, <1>6 DEF LoadConfig, Step, Exit, Emit, Same, cliWorld, Writes
<1>7. CASE Validate
  BY <1>1, <1>2, <1>7 DEF Validate, Step, Exit, Emit, Same, cliWorld, Writes
<1>8. CASE StartPowerView
  BY <1>1, <1>2, <1>8 DEF StartPowerView, Step, Exit, Emit, Same, cliWorld, Writes
<1>9. CASE RunTarget
  BY <1>1, <1>2, <1>9 DEF RunTarget, Step, Exit, Emit, Same, cliWorld, Writes
<1>10. CASE DebugConnect
  <2>1. /\ cliAt = "debug" /\ argv.command = "debug" /\ argv' = argv /\ cliConfig' = cliConfig
        /\ cliExit = Unknown /\ docs = <<>> /\ ParseDebug(argv.args) # Unknown
        /\ argv \in CommandLines
    BY <1>1, <1>10 DEF DebugConnect, Step, Emit, Same
  <2>2. CASE Step("session") \/ Step("execute")
    <3>1. cliExit' = Unknown /\ docs' = <<>> /\ Unknown \notin {0, 1, 3}
      BY <2>1, <2>2 DEF Step, CommandLineAssumption
    <3> QED BY <1>2, <3>1
  <2>3. CASE ParseDebug(argv.args).name # Unknown
               /\ \E exit \in {0, 1} : Emit(ParseDebug(argv.args).json, exit)
    BY <2>1, <2>3, DocumentIsOne
  <2> QED BY <1>10, <2>2, <2>3 DEF DebugConnect
<1>11. CASE DebugExecute
  <2>1. /\ cliAt = "execute" /\ argv.command = "debug" /\ argv' = argv /\ cliConfig' = cliConfig
        /\ cliExit = Unknown /\ docs = <<>> /\ ParseDebug(argv.args) # Unknown
        /\ argv \in CommandLines
        /\ ParseDebug(argv.args).name # Unknown
    BY <1>1, <1>11 DEF DebugExecute, Emit
  <2>2. \E exit \in {0, 1, 3} : Emit(ParseDebug(argv.args).json, exit)
    BY <1>11 DEF DebugExecute
  <2> QED BY <2>1, <2>2, DocumentIsOne
<1>12. CASE Session
  <2>1. /\ cliAt = "session" /\ argv' = argv /\ docs' = <<>> /\ cliAt' = "ended"
        /\ ParseDebug(argv.args).name = Unknown
    BY <1>1, <1>12 DEF Session, Exit
  <2>2. ParseDebug(argv.args)'.name = Unknown
    BY <2>1
  <2> QED BY <2>1, <2>2 DEF OneDocument
<1>13. CASE Adapter
  BY <1>1, <1>2, <1>13 DEF Adapter, Step, Exit, Emit, Same, cliWorld, Writes
<1>14. CASE Rtt
  BY <1>1, <1>2, <1>14 DEF Rtt, Step, Exit, Emit, Same, cliWorld, Writes
<1>15. CASE Vscode
  BY <1>1, <1>2, <1>15 DEF Vscode, Step, Exit, Emit, Same, cliWorld, Writes
<1>16. CASE PrintConfig
  BY <1>1, <1>2, <1>16 DEF PrintConfig, Step, Exit, Emit, Same, cliWorld, Writes
<1>17. CASE Chips
  BY <1>1, <1>2, <1>17 DEF Chips, Step, Exit, Emit, Same, cliWorld, Writes
<1>18. CASE CreateToml
  BY <1>1, <1>2, <1>18 DEF CreateToml, Step, Exit, Emit, Same, cliWorld, Writes
<1>19. CASE FillToml
  BY <1>1, <1>2, <1>19 DEF FillToml, Step, Exit, Emit, Same, cliWorld, Writes
<1>20. CASE CompareFile
  BY <1>1, <1>2, <1>20 DEF CompareFile, Step, Exit, Emit, Same, cliWorld, Writes
<1>21. CASE BackupFile
  BY <1>1, <1>2, <1>21 DEF BackupFile, Step, Exit, Emit, Same, cliWorld, Writes
<1>22. CASE ReplaceFile
  BY <1>1, <1>2, <1>22 DEF ReplaceFile, Step, Exit, Emit, Same, cliWorld, Writes
<1>23. CASE CtrlC
  BY <1>1, <1>2, <1>23 DEF CtrlC, Step, Exit, Emit, Same, cliWorld, Writes
<1>24. CASE OthersMove
  BY <1>1, <1>2, <1>24 DEF OthersMove, Step, Exit, Emit, Same, cliWorld, Writes
<1>25. CASE UNCHANGED cliVars
  BY <1>1, <1>25 DEF cliVars, cliWorld, OneDocument, JsonAsked
<1> QED
  BY <1>3, <1>4, <1>5, <1>6, <1>7, <1>8, <1>9, <1>10, <1>11, <1>12, <1>13, <1>14, <1>15,
     <1>16, <1>17, <1>18, <1>19, <1>20, <1>21, <1>22, <1>23, <1>24, <1>25 DEF CliNext

(* What is resolved from the arguments and trace32.toml is what was asked. *)
LEMMA ScriptIsAsked ==
  ASSUME CommandLineAssumption, argv \in CommandLines, NEW toml \in TomlFiles,
         cliConfig = Overridden(toml), Resolve(cliConfig) # Unknown
  PROVE  Resolve(cliConfig).script = AskedScript /\ cliConfig.flash_args \in Seq(Assignments)
<1>1. /\ DOMAIN toml = {"flash_script", "flash_chip", "cpu", "flash_args"}
      /\ toml.flash_args \in Seq(Assignments)
      /\ argv.chip = Unknown \/ argv.script = Unknown
  BY DEF CommandLineAssumption
<1>2. CASE argv.chip # Unknown
  <2>1. cliConfig.flash_script = Unknown /\ cliConfig.flash_chip = argv.chip
        /\ cliConfig.flash_args = toml.flash_args
    BY <1>1, <1>2 DEF Overridden
  <2> QED BY <1>1, <1>2, <2>1 DEF Resolve, ChipName, AskedScript
<1>3. CASE argv.chip = Unknown /\ argv.script # Unknown
  <2>1. cliConfig.flash_script = argv.script /\ cliConfig.flash_args = toml.flash_args
    BY <1>1, <1>3 DEF Overridden
  <2> QED BY <1>1, <1>3, <2>1 DEF Resolve, AskedScript
<1>4. CASE argv.chip = Unknown /\ argv.script = Unknown
  <2>1. cliConfig = toml
    BY <1>4 DEF Overridden
  <2> QED BY <1>1, <1>4, <2>1 DEF Resolve, ChipName, AskedScript
<1> QED BY <1>2, <1>3, <1>4

(* A step that has to do with neither PowerView's target nor a file.       *)
NothingPicked ==
  /\ cliAt' \notin {"validate", "powerview", "target"} /\ argv' = argv /\ pick' = pick
  /\ Did("started PowerView") \in effects' => Did("started PowerView") \in effects
  /\ cliExit' # 0 \/ argv.command \notin {"open", "load", "flash", "init", "skill", "rustrover"}

(* and what was asked was checked, and is done.                            *)
LEMMA PickStep ==
  ASSUME CommandLineAssumption, CliInv, [CliNext]_cliVars
  PROVE  PickInv'
<1> USE DEF StartedOnlyAfterChecks
<1>1. WhereInv /\ DocsInv /\ UsageInv /\ PickInv /\ FileInv /\ RemarksInv
  BY DEF CliInv
<1>2. cliExit' # 0 \/ argv'.command \notin {"open", "load", "flash", "init", "skill",
                                           "rustrover"} =>
        (cliExit' = 0 => Done')
  BY DEF Done
<1>3. Unknown # 0 /\ (cliAt # "ended" => cliExit = Unknown)
  BY <1>1 DEF DocsInv, CommandLineAssumption
<1>4. NothingPicked => PickInv'
  BY <1>1, <1>2 DEF NothingPicked, PickInv
<1> USE DEF PickInv
<1>6. CASE InstallHandlers
  <2>1. NothingPicked
    BY <1>1, <1>3, <1>6 DEF InstallHandlers, WhereInv, Step, Exit, Emit, Same, cliWorld,
       Writes, NothingPicked, Did
  <2> QED BY <1>4, <2>1
<1>7. CASE ParseCommand
  <2>1. NothingPicked
    BY <1>1, <1>3, <1>7 DEF ParseCommand, WhereInv, Step, Exit, Emit, Same, cliWorld, Writes,
       NothingPicked, Did
  <2> QED BY <1>4, <2>1
<1>8. CASE Dispatch
  <2>1. NothingPicked
    BY <1>1, <1>3, <1>8 DEF Dispatch, WhereInv, Step, Exit, Emit, Same, cliWorld, Writes,
       NothingPicked, Did
  <2> QED BY <1>4, <2>1
<1>9. CASE LoadConfig
  <2>1. argv' = argv /\ effects' = effects /\ pick' = pick
    BY <1>9 DEF LoadConfig, Step, Exit
  <2>2. CASE Exit(1)
    <3>1. cliAt' = "ended" /\ cliExit' = 1
      BY <2>2 DEF Exit
    <3>2. Did("started PowerView") \in effects' => Did("started PowerView") \in effects
      BY <2>1
    <3>3. cliExit' # 0 /\ cliAt' \notin {"validate", "powerview", "target"}
      BY <3>1
    <3> QED BY <1>4, <2>1, <3>2, <3>3 DEF NothingPicked
  <2>3. CASE \E toml \in TomlFiles : cliConfig' = Overridden(toml) /\ Step(AfterConfig)
    <3>1. PICK toml \in TomlFiles : cliConfig' = Overridden(toml) /\ Step(AfterConfig)
      BY <2>3
    <3>2. cliAt' = AfterConfig /\ cliExit' = Unknown
      BY <1>3, <3>1, <1>9 DEF Step, LoadConfig
    <3>3. /\ AfterConfig # "target"
          /\ AfterConfig = "powerview" => argv.command = "open"
      BY <1>1 DEF AfterConfig, WhereInv, CommandLineAssumption, Subcommands
    <3>4. \E t \in TomlFiles : cliConfig' = Overridden(t)'
      BY <2>1, <3>1 DEF Overridden
    <3> QED BY <1>1, <1>2, <1>3, <2>1, <3>2, <3>3, <3>4
  <2> QED BY <1>9, <2>2, <2>3 DEF LoadConfig
<1>10. CASE Validate
  <2>1. /\ cliAt = "validate" /\ argv' = argv /\ cliConfig' = cliConfig /\ effects' = effects
        /\ cliExit' \in {Unknown, 1}
    BY <1>3, <1>10 DEF Validate, Step, Exit
  <2>2. \E toml \in TomlFiles : cliConfig' = Overridden(toml)'
    BY <1>1, <2>1 DEF Overridden
  <2>3. CASE pick' = pick /\ cliAt' = "ended"
    <3>1. cliExit' # 0
      BY <1>3, <2>1
    <3> QED BY <1>4, <2>1, <2>3, <3>1 DEF NothingPicked
  <2>4. CASE /\ pick' # Unknown /\ cliAt' = "powerview"
             /\ argv.command # "load" => pick' = Resolve(cliConfig)
    <3>1. Resolve(cliConfig)' = Resolve(cliConfig)
      BY <2>1 DEF Resolve, ChipName
    <3>2. cliExit' # 0 /\ argv.command \in {"flash", "load"}
      <4> HIDE DEF PickInv
      <4>1. cliExit' # 0
        BY <1>3, <2>1
      <4> QED BY <1>1, <2>1, <4>1 DEF WhereInv
    <3>3. \/ Did("started PowerView") \notin effects' \/ pick' # Unknown
      BY <2>4
    <3> QED BY <2>1, <2>2, <2>4, <3>1, <3>2, <3>3
  <2> QED BY <1>10, <2>3, <2>4 DEF Validate, Step, Exit
<1>11. CASE StartPowerView
  <2>1. /\ cliAt = "powerview" /\ argv' = argv /\ cliConfig' = cliConfig /\ pick' = pick
        /\ cliAt' \in {"ended", "target"} /\ cliExit' \in {Unknown, 0, 1}
    BY <1>3, <1>11 DEF StartPowerView, Step, Exit
  <2>2. /\ \E toml \in TomlFiles : cliConfig' = Overridden(toml)'
        /\ Resolve(cliConfig)' = Resolve(cliConfig)
    BY <1>1, <2>1 DEF Overridden, Resolve, ChipName
  <2>3. StartedOnlyAfterChecks'
    BY <1>1, <2>1
  <2>4. ASSUME cliExit' = 0 PROVE Done'
    <3>1. argv.command = "open" /\ \E did \in {"started PowerView", "reused PowerView"} :
                                    effects' = effects \cup {Did(did)}
      <4> HIDE DEF PickInv
      <4>1. cliAt # "ended"
        BY <1>11 DEF StartPowerView
      <4>2. cliExit = Unknown /\ Unknown # 0
        BY <1>3, <4>1
      <4>3. CASE Exit(1) \/ Step("target")
        <5>1. cliExit' = 1 \/ cliExit' = Unknown
          BY <4>2, <4>3 DEF Exit, Step
        <5>2. cliExit' = 0 /\ 1 # 0
          BY <2>4
        <5> QED BY <4>2, <5>1, <5>2
      <4>4. CASE argv.command = "open" /\ effects' = effects \cup
                   {Did(IF pv_up THEN "reused PowerView" ELSE "started PowerView")}
        BY <4>4
      <4> QED BY <4>3, <4>4, <1>11 DEF StartPowerView
    <3>2. effects' \cap {Did("started PowerView"), Did("reused PowerView")} # {}
      BY <3>1
    <3> QED BY <2>1, <3>1, <3>2 DEF Done
  <2> QED BY <1>1, <2>1, <2>2, <2>3, <2>4
<1>12. CASE RunTarget
  <2>1. /\ cliAt = "target" /\ argv' = argv /\ cliConfig' = cliConfig /\ pick' = pick
        /\ cliAt' = "ended" /\ argv.command \in {"flash", "load"}
    BY <1>1, <1>12 DEF RunTarget, Exit, WhereInv
  <2>2. StartedOnlyAfterChecks'
    BY <1>1, <2>1
  <2>3. ASSUME cliExit' = 0 PROVE Done'
    <3>1. TargetAction \in effects'
      BY <2>3, <1>12 DEF RunTarget, Exit
    <3>2. CASE argv.command = "load"
      BY <2>1, <3>1, <3>2 DEF Done, TargetAction
    <3>3. CASE argv.command = "flash"
      <4>1. PICK toml \in TomlFiles : cliConfig = Overridden(toml)
        BY <1>1, <2>1
      <4>2. pick = Resolve(cliConfig) /\ pick # Unknown /\ argv \in CommandLines
        BY <1>1, <2>1, <3>3 DEF WhereInv
      <4>3. pick.script = AskedScript /\ cliConfig.flash_args \in Seq(Assignments)
        BY <4>1, <4>2, ScriptIsAsked
      <4> DEFINE all == cliConfig.flash_args \o CpuArgument(pick, cliConfig.flash_args)
      <4>4. /\ Len(all) >= Len(cliConfig.flash_args)
            /\ \A i, j \in DOMAIN all :
                 i < j /\ all[i].key = "CPU" /\ all[j].key = "CPU" => j <= Len(cliConfig.flash_args)
        BY <4>3, CpuIsAddedOnce
      <4>5. TargetAction = [did |-> "flash", script |-> pick.script, args |-> all]
        BY <3>3 DEF TargetAction
      <4>6. AskedScript' = AskedScript
        BY <2>1 DEF AskedScript
      <4> HIDE DEF all
      <4>7. /\ TargetAction.did = "flash" /\ TargetAction.script = AskedScript'
            /\ TargetAction.args = all
        BY <4>3, <4>5, <4>6
      <4>8. \E e \in effects' :
              /\ e.did = "flash" /\ e.script = AskedScript'
              /\ Len(e.args) >= Len(cliConfig'.flash_args)
              /\ \A i, j \in DOMAIN e.args :
                   i < j /\ e.args[i].key = "CPU" /\ e.args[j].key = "CPU" =>
                     j <= Len(cliConfig'.flash_args)
        BY <2>1, <3>1, <4>4, <4>7
      <4> QED BY <2>1, <3>3, <4>8 DEF Done
    <3> QED BY <2>1, <3>2, <3>3
  <2> QED BY <2>1, <2>2, <2>3
<1>13. CASE DebugConnect
  <2>1. NothingPicked
    BY <1>1, <1>3, <1>13 DEF DebugConnect, WhereInv, Step, Exit, Emit, Same, cliWorld, Writes,
       NothingPicked, Did
  <2> QED BY <1>4, <2>1
<1>14. CASE DebugExecute
  <2>1. /\ cliAt' \notin {"validate", "powerview", "target"} /\ argv' = argv /\ pick' = pick
        /\ argv.command = "debug"
    BY <1>1, <1>14 DEF DebugExecute, WhereInv, Step, Exit, Emit, Same, cliWorld, Writes
  <2>2. Did("started PowerView") \in effects' => Did("started PowerView") \in effects
    <3>1. effects' = effects \/ effects' = effects \cup {Did("PRACTICE")}
      BY <1>14 DEF DebugExecute
    <3>2. Did("PRACTICE") # Did("started PowerView")
      BY DEF Did
    <3> QED BY <3>1, <3>2
  <2>3. cliExit' # 0 \/ argv.command = "debug"
    BY <1>3, <2>1
  <2> QED BY <1>4, <2>1, <2>2, <2>3 DEF NothingPicked
<1>15. CASE Session
  <2>1. NothingPicked
    BY <1>1, <1>3, <1>15 DEF Session, WhereInv, Step, Exit, Emit, Same, cliWorld, Writes,
       NothingPicked, Did
  <2> QED BY <1>4, <2>1
<1>16. CASE Adapter
  <2>1. NothingPicked
    BY <1>1, <1>3, <1>16 DEF Adapter, WhereInv, Step, Exit, Emit, Same, cliWorld, Writes,
       NothingPicked, Did
  <2> QED BY <1>4, <2>1
<1>17. CASE Rtt
  <2>1. NothingPicked
    BY <1>1, <1>3, <1>17 DEF Rtt, WhereInv, Step, Exit, Emit, Same, cliWorld, Writes,
       NothingPicked, Did
  <2> QED BY <1>4, <2>1
<1>18. CASE Vscode
  <2>1. NothingPicked
    BY <1>1, <1>3, <1>18 DEF Vscode, WhereInv, Step, Exit, Emit, Same, cliWorld, Writes,
       NothingPicked, Did
  <2> QED BY <1>4, <2>1
<1>19. CASE PrintConfig
  <2>1. NothingPicked
    BY <1>1, <1>3, <1>19 DEF PrintConfig, WhereInv, Step, Exit, Emit, Same, cliWorld, Writes,
       NothingPicked, Did
  <2> QED BY <1>4, <2>1
<1>20. CASE Chips
  <2>1. NothingPicked
    BY <1>1, <1>3, <1>20 DEF Chips, WhereInv, Step, Exit, Emit, Same, cliWorld, Writes,
       NothingPicked, Did
  <2> QED BY <1>4, <2>1
<1>21. CASE CreateToml
  <2>1. /\ cliAt' \in {"ended", "fill"} /\ argv' = argv /\ pick' = pick /\ effects' = effects
        /\ Exit(1) \/ Step("fill")
    BY <1>21 DEF CreateToml, Writes, Step, Exit
  <2>2. cliExit' = 1 \/ cliExit' = Unknown
    BY <1>3, <2>1, <1>21 DEF CreateToml, Step, Exit
  <2>3. cliExit' # 0 /\ cliAt' \notin {"validate", "powerview", "target"}
    BY <1>3, <2>1, <2>2
  <2>4. Did("started PowerView") \in effects' => Did("started PowerView") \in effects
    BY <2>1
  <2> QED BY <1>4, <2>1, <2>3, <2>4 DEF NothingPicked
<1>22. CASE FillToml
  <2>1. cliExit' = 0 => generated'.content = "same"
    <3>1. generated = [content |-> generated.content, was |-> generated.was,
                       backups |-> generated.backups]
      BY <1>1 DEF FileInv
    <3>2. \/ generated' = [generated EXCEPT !.content = "same", !.backups = generated.backups]
          \/ cliExit' = 1
      BY <1>22 DEF FillToml, Writes, Exit
    <3>3. CASE generated' = [generated EXCEPT !.content = "same", !.backups = generated.backups]
      BY <3>1, <3>3
    <3> QED BY <3>2, <3>3
  <2>2. /\ cliAt' = "ended" /\ argv' = argv /\ effects' = effects /\ pick' = pick
        /\ argv.command = "init"
    BY <1>1, <1>22 DEF FillToml, Writes, Step, Exit, WhereInv
  <2> QED BY <1>1, <2>1, <2>2 DEF Done
<1>23. CASE CompareFile
  <2>1. cliExit' = 0 => generated'.content = "same"
    BY <1>3, <1>23 DEF CompareFile, Step, Exit, Same
  <2>2. /\ cliAt' \in {"ended", "replace", "backup"} /\ argv' = argv
        /\ effects' = effects /\ pick' = pick
        /\ argv.command \in {"skill", "rustrover"}
    BY <1>1, <1>23 DEF CompareFile, Step, Exit, Same, WhereInv
  <2> QED BY <1>1, <2>1, <2>2 DEF Done
<1>24. CASE BackupFile
  <2>1. /\ cliAt' \in {"ended", "replace"} /\ argv' = argv /\ pick' = pick /\ effects' = effects
        /\ Exit(1) \/ Step("replace")
    BY <1>24 DEF BackupFile, Writes, Step, Exit
  <2>2. cliExit' = 1 \/ cliExit' = Unknown
    BY <1>3, <2>1, <1>24 DEF BackupFile, Step, Exit
  <2>3. cliExit' # 0 /\ cliAt' \notin {"validate", "powerview", "target"}
    BY <1>3, <2>1, <2>2
  <2>4. Did("started PowerView") \in effects' => Did("started PowerView") \in effects
    BY <2>1
  <2> QED BY <1>4, <2>1, <2>3, <2>4 DEF NothingPicked
<1>25. CASE ReplaceFile
  <2>1. cliExit' = 0 => generated'.content = "same"
    <3>1. generated = [content |-> generated.content, was |-> generated.was,
                       backups |-> generated.backups]
      BY <1>1 DEF FileInv
    <3>2. \/ generated' = [generated EXCEPT !.content = "same", !.backups = generated.backups]
          \/ cliExit' = 1
      BY <1>25 DEF ReplaceFile, Writes, Exit
    <3>3. CASE generated' = [generated EXCEPT !.content = "same", !.backups = generated.backups]
      BY <3>1, <3>3
    <3> QED BY <3>2, <3>3
  <2>2. /\ cliAt' = "ended" /\ argv' = argv /\ effects' = effects /\ pick' = pick
        /\ argv.command \in {"skill", "rustrover"}
    BY <1>1, <1>25 DEF ReplaceFile, Writes, Step, Exit, WhereInv
  <2> QED BY <1>1, <2>1, <2>2 DEF Done
<1>26. CASE CtrlC
  <2>1. /\ cliAt' \notin {"validate", "powerview", "target"} /\ argv' = argv /\ pick' = pick
        /\ cliExit' \in {130, Unknown}
    BY <1>1, <1>26 DEF CtrlC, WhereInv, Step, Exit, Emit, Same, cliWorld, Writes
  <2>2. Did("started PowerView") \in effects' => Did("started PowerView") \in effects
    BY <1>26 DEF CtrlC, Same
  <2>3. cliExit' # 0 \/ argv.command = "debug"
    BY <1>3, <2>1
  <2> QED BY <1>4, <2>1, <2>2, <2>3 DEF NothingPicked
<1>27. CASE OthersMove
  <2>1. (\E toml \in TomlFiles : cliConfig = Overridden(toml)) =>
          \E toml \in TomlFiles : cliConfig' = Overridden(toml)'
    BY <1>27 DEF OthersMove, Overridden
  <2>2. Resolve(cliConfig)' = Resolve(cliConfig)
    BY <1>27 DEF OthersMove, Resolve, ChipName
  <2> QED BY <1>1, <1>2, <1>3, <1>27, <2>1, <2>2 DEF OthersMove
<1>28. CASE UNCHANGED cliVars
  <2>1. (\E toml \in TomlFiles : cliConfig = Overridden(toml)) =>
          \E toml \in TomlFiles : cliConfig' = Overridden(toml)'
    BY <1>28 DEF cliVars, Overridden
  <2>2. Resolve(cliConfig)' = Resolve(cliConfig)
    BY <1>28 DEF cliVars, Resolve, ChipName
  <2>3. Done => Done'
    BY <1>28 DEF cliVars, Done, AskedScript
  <2> QED BY <1>1, <1>28, <2>1, <2>2, <2>3 DEF cliVars
<1> QED
  BY <1>6, <1>7, <1>8, <1>9, <1>10, <1>11, <1>12, <1>13, <1>14, <1>15, <1>16, <1>17, <1>18,
     <1>19, <1>20, <1>21, <1>22, <1>23, <1>24, <1>25, <1>26, <1>27, <1>28 DEF CliNext

(* Theorem: for every set of arguments, trace32.toml, library of scripts   *)
(* and config.t32, and whatever PowerView, the user and Ctrl-C do between  *)
(* two steps: a usage error touches nothing, PowerView is started only     *)
(* after the checks, exit code 0 means that what was asked was done,       *)
(* --json prints one document wherever it stands, the user's file is kept, *)
(* and `config` is silent only about a usable port (cli.rs, signals.rs,    *)
(* debug/mod.rs).                                                          *)
THEOREM CommandLineIsHonest ==
  ASSUME CommandLineAssumption
  PROVE  CliSpec => []CommandLineKeepsItsWord
<1>1. CliInit => CliInv
  <2> SUFFICES ASSUME CliInit PROVE CliInv
    OBVIOUS
  <2>1. /\ argv \in CommandLines /\ cliAt = "signals" /\ cliExit = Unknown /\ docs = <<>>
        /\ cliConfig = Unknown /\ effects = {} /\ remarks = Unknown
        /\ Unknown \notin {0, 1, 2, 3, 130}
    BY DEF CliInit, CommandLineAssumption
  <2>2. PICK was \in {"none", "user's", "same"} :
          generated = [content |-> was, was |-> was, backups |-> {}]
    BY DEF CliInit
  <2>3. WhereInv /\ RemarksInv
    BY <2>1 DEF WhereInv, RemarksInv
  <2>4. DocsInv
    BY <2>1 DEF DocsInv, OneDocument
  <2>5. UsageInv
    BY <2>1, <2>2 DEF UsageInv, UsageErrorsDoNothing
  <2>6. PickInv
    BY <2>1 DEF PickInv, StartedOnlyAfterChecks
  <2>7. FileInv
    BY <2>1, <2>2 DEF FileInv, FileIsKept, Promised
  <2> QED BY <2>3, <2>4, <2>5, <2>6, <2>7 DEF CliInv
<1>2. CliInv /\ [CliNext]_cliVars => CliInv'
  BY WhereStep, RemarksStep, FileStep, UsageStep, DocsStep, PickStep DEF CliInv
<1>3. CliInv => CommandLineKeepsItsWord
  <2> SUFFICES ASSUME CliInv PROVE CommandLineKeepsItsWord
    OBVIOUS
  <2>1. SilenceIsRight
    <3> SUFFICES ASSUME remarks # Unknown, remarks.said = {} PROVE SilenceIsRight
      BY DEF SilenceIsRight
    <3>1. PICK lines \in ConfigT32 :
            remarks = [lines |-> lines, said |-> Remarks(RclSettings(lines))]
      BY DEF CliInv, RemarksInv
    <3>2. remarks.lines = lines /\ remarks.said = Remarks(RclSettings(lines))
      BY <3>1
    <3>3. \E i, j \in DOMAIN lines :
            /\ i < j /\ \A k \in i .. j : lines[k].key # "blank"
            /\ lines[i] = [key |-> "RCL", value |-> "NETTCP"]
            /\ lines[j] = [key |-> "PORT", value |-> RclPort]
      BY <3>2, SilenceMeansUsable
    <3> QED BY <3>2, <3>3, Zenon DEF SilenceIsRight
  <2> QED BY <2>1 DEF CliInv, DocsInv, UsageInv, PickInv, FileInv, CommandLineKeepsItsWord
<1> QED BY <1>1, <1>2, <1>3, PTL DEF CliSpec

(***************************************************************************)
(* vscode.                                                                 *)

(* An item keeps its name and fields when the template's are added, and an *)
(* item of the user is left alone.                                         *)
LEMMA CombinedItem ==
  ASSUME NEW Labels, NEW Values, NEW item \in ItemsOf(Labels, Values)
  PROVE  /\ Combined(item) \in ItemsOf(Labels, Values)
         /\ Combined(item).name = item.name /\ Combined(item).fields = item.fields
         /\ item.name = TemplateName => Combined(item).ours = TRUE
         /\ (item.name # TemplateName \/ item.ours = TRUE) => Combined(item) = item
  BY DEF Combined, ItemsOf

(* The items of the user are the same before and after one more item that  *)
(* is not the user's.                                                      *)
LEMMA UserItemsAppend ==
  ASSUME NEW n \in Nat, NEW Values, NEW list \in [1 .. n -> Values], NEW item, ~OfUser(item)
  PROVE  /\ Append(list, item) = [k \in 1 .. n + 1 |-> IF k <= n THEN list[k] ELSE item]
         /\ UserItems(Append(list, item)) = UserItems(list)
<1>1. list \in Seq(Values) /\ Len(list) = n /\ DOMAIN list = 1 .. n
  OBVIOUS
<1>2. PICK all : all = Values \cup {item}
  OBVIOUS
<1>3. list \in Seq(all) /\ item \in all
  BY <1>1, <1>2
<1>4. Append(list, item) = [k \in 1 .. n + 1 |-> IF k <= n THEN list[k] ELSE item]
  <2>1. /\ Append(list, item) \in Seq(all) /\ Len(Append(list, item)) = n + 1
        /\ \A k \in 1 .. n : Append(list, item)[k] = list[k]
        /\ Append(list, item)[n + 1] = item
    BY <1>1, <1>3, AppendProperties
  <2>2. Append(list, item) \in [1 .. n + 1 -> all]
    <3>1. \A s \in Seq(all) : Len(s) = n + 1 => s \in [1 .. n + 1 -> all]
      OBVIOUS
    <3> QED BY <2>1, <3>1
  <2>3. \A k \in 1 .. n + 1 : (k <= n => k \in 1 .. n) /\ (~(k <= n) => k = n + 1)
    OBVIOUS
  <2> QED BY <2>1, <2>2, <2>3
<1> DEFINE more == [k \in 1 .. n + 1 |-> IF k <= n THEN list[k] ELSE item]
           S == {k \in DOMAIN list : OfUser(list[k])}
<1>5. {k \in DOMAIN more : OfUser(more[k])} = S
  <2>1. ASSUME NEW k \in 1 .. n + 1 PROVE OfUser(more[k]) <=> k \in S
    <3>1. CASE k <= n
      <4>1. k \in 1 .. n /\ more[k] = list[k]
        BY <3>1
      <4> QED BY <1>1, <4>1
    <3>2. CASE ~(k <= n)
      <4>1. k \notin 1 .. n /\ more[k] = item
        BY <3>2
      <4> QED BY <1>1, <4>1
    <3> QED BY <3>1, <3>2
  <2>2. DOMAIN more = 1 .. n + 1 /\ \A k \in 1 .. n : k \in 1 .. n + 1
    OBVIOUS
  <2> HIDE DEF more
  <2> QED BY <1>1, <2>1, <2>2
<1>6. S \in SUBSET (1 .. n)
  BY <1>1
<1>7. Picked(more, S) = Picked(list, S)
  <2>1. \A i \in 1 .. Cardinality(S) : Ranked(S, i) \in 1 .. n
    <3> HIDE DEF S
    <3> QED BY <1>6, RankedIsIn
  <2>2. \A k \in 1 .. n : more[k] = list[k]
    OBVIOUS
  <2> HIDE DEF S, more
  <2> QED BY <2>1, <2>2 DEF Picked
<1> HIDE DEF more
<1>8. UserItems(more) = UserItems(list)
  BY <1>5, <1>7 DEF UserItems
<1> QED BY <1>4, <1>8 DEF more

(* What installing makes of a document: the items of the user, in order;   *)
(* none of the old tool; and once the item of the template, with the       *)
(* fields the first one of its name had.                                   *)
MergedFrom(old, new) ==
  /\ UserItems(new) = UserItems(old)
  /\ \A k \in DOMAIN new : new[k].name \notin LEGACY
  /\ \E k \in DOMAIN new :
       /\ TemplatePlaces(new) = {k} /\ new[k].ours = TRUE
       /\ TemplatePlaces(old) # {} =>
            new[k].fields = old[Earliest(TemplatePlaces(old))].fields

LEMMA MergeKeeps ==
  ASSUME InstallAssumption, NEW old, IsDocument(old)
  PROVE  IsDocument(MergeNamedItems(old)) /\ MergedFrom(old, MergeNamedItems(old))
<1> DEFINE Labels == {old[k].name : k \in DOMAIN old}
           Values == {old[k].fields : k \in DOMAIN old}
           Items == ItemsOf(Labels, Values)
<1>1. ASSUME NEW item \in Items
      PROVE  /\ Combined(item) \in Items
             /\ Combined(item).name = item.name /\ Combined(item).fields = item.fields
             /\ item.name = TemplateName => Combined(item).ours = TRUE
             /\ (item.name # TemplateName \/ item.ours = TRUE) => Combined(item) = item
  BY CombinedItem
<1>2. old \in Seq(Items)
  BY DEF IsDocument
<1> HIDE DEF Items
<1>3. PICK n \in Nat : /\ n = Len(old) /\ DOMAIN old = 1 .. n /\ old = [k \in 1 .. n |-> old[k]]
                      /\ \A k \in 1 .. n : old[k] \in Items
  BY <1>2
<1> DEFINE V == {k \in DOMAIN old : Stays(old, k)}
           U == {k \in DOMAIN old : OfUser(old[k])}
           T == TemplatePlaces(old)
           updated == [k \in DOMAIN old |-> Combined(old[k])]
           mine == Picked(updated, V)
<1>4. V \in SUBSET (1 .. n) /\ U \in SUBSET V /\ T \in SUBSET (1 .. n)
  BY <1>3 DEF Stays, OfUser, TemplatePlaces
<1>5. PICK size \in Nat : size = Cardinality(V)
  BY <1>4, PositionsCount
<1>6. \A j \in 1 .. size : Ranked(V, j) \in V /\ Ranked(V, j) \in 1 .. n
  <2> HIDE DEF V
  <2> QED BY <1>4, <1>5, RankedIsIn
<1>7. DOMAIN mine = 1 .. size /\ \A j \in 1 .. size : mine[j] = Combined(old[Ranked(V, j)])
  BY <1>3, <1>5, <1>6 DEF Picked
<1>8. ASSUME NEW j \in 1 .. size
      PROVE  /\ mine[j] \in Items
             /\ mine[j].name = old[Ranked(V, j)].name
             /\ mine[j].fields = old[Ranked(V, j)].fields
             /\ mine[j].name = TemplateName => mine[j].ours = TRUE
  <2>1. PICK item \in Items : item = old[Ranked(V, j)]
    BY <1>3, <1>6
  <2>2. mine[j] = Combined(item)
    BY <1>7, <2>1
  <2>3. /\ Combined(item) \in Items
        /\ Combined(item).name = item.name /\ Combined(item).fields = item.fields
        /\ item.name = TemplateName => Combined(item).ours = TRUE
    BY <1>1
  <2> HIDE DEF mine, V
  <2> QED BY <2>1, <2>2, <2>3, Zenon
<1>9. mine \in [1 .. size -> Items]
  <2>1. mine = [j \in 1 .. size |-> mine[j]]
    BY <1>5 DEF Picked
  <2> HIDE DEF mine
  <2> QED BY <1>8, <2>1
<1> HIDE DEF mine
<1>10. ASSUME NEW j \in 1 .. size
       PROVE  /\ mine[j].name = old[Ranked(V, j)].name
              /\ mine[j].fields = old[Ranked(V, j)].fields
              /\ mine[j].name = TemplateName => mine[j].ours = TRUE
              /\ mine[j].name \notin LEGACY
              /\ OfUser(mine[j]) <=> Ranked(V, j) \in U
  <2>1. PICK r \in 1 .. n : r = Ranked(V, j) /\ Stays(old, r)
    BY <1>6
  <2>2. mine[j].name = old[r].name
    BY <1>8, <2>1
  <2>3. mine[j].name \notin LEGACY
    BY <2>1, <2>2 DEF Stays
  <2>4. OfUser(mine[j]) <=> OfUser(old[r])
    BY <2>2 DEF OfUser
  <2>5. OfUser(old[r]) <=> r \in U
    BY <1>3
  <2> QED BY <1>8, <2>1, <2>2, <2>3, <2>4, <2>5
<1>11. UserItems(mine) = UserItems(old)
  <2>1. {j \in DOMAIN mine : OfUser(mine[j])} = Within(U, V)
    <3> HIDE DEF U, V
    <3> QED BY <1>5, <1>7, <1>10 DEF Within
  <2>2. Picked(mine, Within(U, V)) = Picked(updated, U)
    <3>1. mine = Picked(updated, V)
      BY DEF mine
    <3> HIDE DEF V, U, updated
    <3>2. Picked(Picked(updated, V), Within(U, V)) = Picked(updated, U)
      BY ZenonT(30), <1>4, PickedAgain
    <3> QED BY <3>1, <3>2
  <2>3. Picked(updated, U) = Picked(old, U)
    <3>1. \A i \in 1 .. Cardinality(U) : Ranked(U, i) \in U
      <4>1. U \in SUBSET (1 .. n)
        BY <1>4
      <4> HIDE DEF U
      <4> QED BY <4>1, RankedIsIn
    <3>2. \A k \in U : updated[k] = old[k]
      BY <1>1, <1>3 DEF OfUser
    <3> HIDE DEF U, updated
    <3> QED BY <3>1, <3>2 DEF Picked
  <2> QED BY <2>1, <2>2, <2>3 DEF UserItems
<1>12. CASE T = {}
  <2>1. MergeNamedItems(old) = Append(mine, TemplateItem)
    BY <1>12 DEF MergeNamedItems, TemplatePlaces, mine
  <2>2. ~OfUser(TemplateItem) /\ TemplateItem.name = TemplateName /\ TemplateItem.ours = TRUE
    BY DEF OfUser, TemplateItem
  <2> DEFINE more == [k \in 1 .. size + 1 |-> IF k <= size THEN mine[k] ELSE TemplateItem]
  <2>3. MergeNamedItems(old) = more /\ UserItems(more) = UserItems(mine)
    <3>1. /\ Append(mine, TemplateItem) = more
          /\ UserItems(Append(mine, TemplateItem)) = UserItems(mine)
      BY <1>9, <2>2, UserItemsAppend
    <3> HIDE DEF more
    <3> QED BY <2>1, <3>1
  <2>4. ASSUME NEW k \in 1 .. size + 1, k # size + 1
        PROVE  /\ k \in 1 .. size /\ more[k] = mine[k] /\ more[k].name # TemplateName
    <3>1. k \in 1 .. size
      BY <2>4
    <3>2. more[k] = mine[k]
      BY <3>1
    <3>3. Ranked(V, k) \in 1 .. n
      BY <1>6, <3>1
    <3>4. old[Ranked(V, k)].name # TemplateName
      BY <1>3, <1>12, <3>3 DEF TemplatePlaces
    <3>5. mine[k].name = old[Ranked(V, k)].name
      BY <1>10, <3>1
    <3> HIDE DEF more
    <3> QED BY <3>1, <3>2, <3>4, <3>5
  <2>5. more[size + 1] = TemplateItem
    OBVIOUS
  <2>6. DOMAIN more = 1 .. size + 1 /\ size + 1 \in 1 .. size + 1
    OBVIOUS
  <2> HIDE DEF more
  <2>7. ASSUME NEW k \in 1 .. size + 1
        PROVE  /\ more[k].name \notin LEGACY
               /\ k # size + 1 =>
                    more[k] \in Items
    <3>1. CASE k = size + 1
      BY <2>5, <3>1 DEF TemplateItem, InstallAssumption
    <3>2. CASE k # size + 1
      BY <1>8, <1>10, <2>4, <3>2
    <3> QED BY <3>1, <3>2
  <2>8. IsDocument(more)
    <3> DEFINE names == {more[k].name : k \in DOMAIN more}
               values == {more[k].fields : k \in DOMAIN more}
               Given == ItemsOf(names, values)
    <3>1. ASSUME NEW k \in 1 .. size + 1 PROVE more[k] \in Given
      <4>1. more[k].name \in names /\ more[k].fields \in values
        BY <2>6
      <4> HIDE DEF names, values
      <4>2. CASE k = size + 1
        <5>1. more[k] = TemplateItem
          BY <2>5, <4>2
        <5>2. TemplateItem \in ItemsOf({TemplateItem.name}, {TemplateItem.fields})
          BY DEF TemplateItem, ItemsOf
        <5> QED BY <4>1, <5>1, <5>2 DEF ItemsOf
      <4>3. CASE k # size + 1
        BY <2>7, <4>1, <4>3 DEF Items, ItemsOf
      <4> QED BY <4>2, <4>3
    <3> HIDE DEF Given
    <3>2. more = [k \in 1 .. size + 1 |-> more[k]]
      BY DEF more
    <3>3. more \in [1 .. size + 1 -> Given]
      BY <3>1, <3>2
    <3>4. more \in Seq(Given)
      BY <3>3
    <3> QED BY <3>4 DEF IsDocument, Given
  <2>10. TemplatePlaces(more) = {size + 1}
    BY <2>2, <2>4, <2>5, <2>6 DEF TemplatePlaces
  <2>11. MergedFrom(old, more)
    BY <1>11, <1>12, <2>2, <2>3, <2>5, <2>6, <2>7, <2>10 DEF MergedFrom
  <2> QED BY <2>3, <2>8, <2>11
<1>13. CASE T # {}
  <2>1. PICK first \in T : first = Earliest(T) /\ \A k \in T : first <= k
    <3>1. T \in SUBSET Nat
      BY <1>4
    <3> HIDE DEF T
    <3> QED BY <1>13, <3>1, EarliestIsIn
  <2>2. first \in 1 .. n /\ old[first].name = TemplateName
    BY <1>4, <2>1 DEF TemplatePlaces
  <2>3. first \in V
    <3>1. ASSUME NEW j \in 1 .. first - 1 PROVE old[j].name # TemplateName
      <4>1. j \in 1 .. n /\ ~(first <= j)
        BY <2>2
      <4> QED BY <1>3, <2>1, <4>1 DEF TemplatePlaces
    <3> QED BY <1>3, <2>2, <3>1 DEF Stays, InstallAssumption
  <2>4. ASSUME NEW k \in V, old[k].name = TemplateName PROVE k = first
    <3>1. k \in T /\ first <= k /\ k \in 1 .. n
      BY <1>3, <2>1, <2>4 DEF TemplatePlaces
    <3>2. ~(first \in 1 .. k - 1)
      BY <2>2, <2>4 DEF Stays
    <3> QED BY <2>2, <3>1, <3>2
  <2>5. PICK place \in 1 .. size : Ranked(V, place) = first
    <3> HIDE DEF V
    <3> QED BY <1>4, <1>5, <2>3, RankedBy
  <2>6. \A j \in 1 .. size : Ranked(V, j) = first => j = place
    <3>1. \A j \in 1 .. size : Cardinality({k \in V : k <= Ranked(V, j)}) = j
      <4> HIDE DEF V
      <4> QED BY <1>4, <1>5, RankedIsIn
    <3> HIDE DEF V
    <3> QED BY <2>5, <3>1
  <2>7. MergeNamedItems(old) = mine
    BY <2>2, <2>3 DEF MergeNamedItems, mine
  <2>8. TemplatePlaces(mine) = {place}
    <3>1. ASSUME NEW j \in 1 .. size
          PROVE  mine[j].name = TemplateName <=> j = place
      <4>1. mine[j].name = old[Ranked(V, j)].name /\ Ranked(V, j) \in V
        BY <1>6, <1>10
      <4> HIDE DEF V
      <4> QED BY <2>2, <2>4, <2>5, <2>6, <4>1
    <3> QED BY <1>7, <3>1 DEF TemplatePlaces
  <2>9. mine[place].ours = TRUE /\ mine[place].fields = old[first].fields
    <3>1. mine[place].name = old[first].name /\ mine[place].fields = old[first].fields
      BY <1>10, <2>5
    <3> QED BY <1>10, <2>2, <3>1
  <2>10. DOMAIN mine = 1 .. size
    BY <1>9
  <2>11. IsDocument(mine)
    <3> DEFINE names == {mine[k].name : k \in DOMAIN mine}
               values == {mine[k].fields : k \in DOMAIN mine}
               Given == ItemsOf(names, values)
    <3>1. ASSUME NEW k \in 1 .. size PROVE mine[k] \in Given
      <4>1. mine[k].name \in names /\ mine[k].fields \in values
        BY <2>10
      <4> HIDE DEF names, values
      <4> QED BY <1>8, <4>1 DEF Items, ItemsOf
    <3> HIDE DEF Given
    <3>2. mine \in [1 .. size -> Given]
      BY <1>9, <3>1
    <3>3. mine \in Seq(Given)
      BY <3>2
    <3> QED BY <3>3 DEF IsDocument, Given
  <2>12. MergedFrom(old, mine)
    <3> HIDE DEF V, U
    <3> QED BY <1>10, <1>11, <2>1, <2>8, <2>9, <2>10 DEF MergedFrom
  <2> QED BY <2>7, <2>11, <2>12
<1> QED BY <1>12, <1>13

(* Installing again changes nothing.                                       *)
LEMMA MergeAgain ==
  ASSUME NEW new, IsDocument(new), \A k \in DOMAIN new : new[k].name \notin LEGACY,
         NEW place \in DOMAIN new, TemplatePlaces(new) = {place}, new[place].ours = TRUE
  PROVE  MergeNamedItems(new) = new
<1> DEFINE Labels == {new[k].name : k \in DOMAIN new}
           Values == {new[k].fields : k \in DOMAIN new}
           Items == ItemsOf(Labels, Values)
<1>1. ASSUME NEW item \in Items
      PROVE  /\ Combined(item) \in Items
             /\ Combined(item).name = item.name /\ Combined(item).fields = item.fields
             /\ item.name = TemplateName => Combined(item).ours = TRUE
             /\ (item.name # TemplateName \/ item.ours = TRUE) => Combined(item) = item
  BY CombinedItem
<1>2. new \in Seq(Items)
  BY DEF IsDocument
<1> HIDE DEF Items
<1>3. PICK n \in Nat : /\ n = Len(new) /\ DOMAIN new = 1 .. n /\ new = [k \in 1 .. n |-> new[k]]
                      /\ \A k \in 1 .. n : new[k] \in Items
  BY <1>2
<1>4. new[place].name = TemplateName /\ \A k \in 1 .. n : new[k].name = TemplateName => k = place
  BY <1>3 DEF TemplatePlaces
<1>5. {k \in DOMAIN new : Stays(new, k)} = 1 .. n
  <2>1. ASSUME NEW k \in 1 .. n PROVE Stays(new, k)
    <3>1. ASSUME new[k].name = TemplateName, NEW j \in 1 .. k - 1
          PROVE  new[j].name # TemplateName
      <4>1. k = place /\ j \in 1 .. n /\ j # k
        BY <1>4, <3>1
      <4> QED BY <1>4, <4>1
    <3> QED BY <1>3, <3>1 DEF Stays
  <2> QED BY <1>3, <2>1
<1>6. \A k \in 1 .. n : Combined(new[k]) = new[k]
  BY <1>1, <1>3, <1>4
<1>7. [k \in DOMAIN new |-> Combined(new[k])] = new
  <2>1. [k \in 1 .. n |-> Combined(new[k])] = [k \in 1 .. n |-> new[k]]
    BY <1>6
  <2> QED BY <1>3, <1>3, <2>1
<1>8. Picked(new, 1 .. n) = new
  BY <1>3, PickedAll
<1> QED BY <1>3, <1>4, <1>5, <1>7, <1>8 DEF MergeNamedItems

(* What is to be replaced is safe: in a complete backup, or saved by the   *)
(* user after the backup.                                                  *)
Safe == disk[target] \in backups[target] \cup {Missing} \/ saved = TRUE

InstallInv ==
  /\ target \in DOMAIN Files /\ saved \in BOOLEAN /\ saves \in Nat
  /\ disk = [f \in DOMAIN Files |-> disk[f]]
  /\ backups = [f \in DOMAIN Files |-> backups[f]]
  /\ installAt \in {"write", "written", "rename"} => Safe
  /\ installAt = "rename" => temporary = merged

(* The invariant of the installer holds at the start,                      *)
LEMMA InstallInitOk ==
  ASSUME InstallAssumption, InstallInit
  PROVE  InstallInv
<1>1. disk \in [DOMAIN Files -> Documents \cup {Missing, Unreadable}]
  BY DEF InstallInit
<1>2. disk = [f \in DOMAIN Files |-> disk[f]]
  BY <1>1
<1>3. backups = [f \in DOMAIN Files |-> backups[f]]
  BY DEF InstallInit
<1>4. 1 \in DOMAIN Files
  BY DEF InstallAssumption
<1> QED BY <1>2, <1>3, <1>4 DEF InstallInit, InstallInv

(* and each step of a run, a kill or a save keeps it.                      *)
LEMMA InstallStepOk ==
  ASSUME InstallAssumption, InstallInv, InstallNext
  PROVE  InstallInv'
<1>1. /\ target \in DOMAIN Files /\ saved \in BOOLEAN /\ saves \in Nat
      /\ disk = [f \in DOMAIN Files |-> disk[f]]
      /\ backups = [f \in DOMAIN Files |-> backups[f]]
      /\ installAt \in {"write", "written", "rename"} => Safe
      /\ installAt = "rename" => temporary = merged
  BY DEF InstallInv
<1>2. CASE CreateDirectory \/ LoadAndMerge
  BY <1>1, <1>2 DEF CreateDirectory, LoadAndMerge, InstallEnds, InstallQuiet, InstallInv
<1>3. CASE Backup
  <2>1. UNCHANGED <<target, merged, disk, saves>>
    BY <1>3 DEF Backup, InstallEnds
  <2>2. \/ backups' = backups
        \/ \E b : backups' = [backups EXCEPT ![target] = b]
    BY <1>3 DEF Backup
  <2>3. backups' = [f \in DOMAIN Files |-> backups'[f]]
    BY <1>1, <2>2
  <2>4. \/ installAt' = "failed" /\ saved' = saved
        \/ /\ installAt' = "write" /\ saved' = FALSE
           /\ disk[target] \in backups'[target] \cup {Missing}
    BY <1>1, <1>3 DEF Backup, InstallEnds
  <2> QED BY <1>1, <2>1, <2>3, <2>4 DEF InstallInv, Safe
<1>4. CASE WriteTemporary
  BY <1>1, <1>4 DEF WriteTemporary, InstallEnds, InstallQuiet, InstallInv, Safe
<1>5. CASE Written
  BY <1>1, <1>5 DEF Written, InstallEnds, InstallQuiet, InstallInv, Safe
<1>6. CASE Rename
  <2>1. /\ UNCHANGED <<saved, backups, saves>> /\ installAt' \in {"load", "done", "failed"}
        /\ disk' = disk \/ disk' = [disk EXCEPT ![target] = temporary]
        /\ target' = target \/ (target < Len(Files) /\ target' = target + 1)
    BY <1>6 DEF Rename, InstallEnds
  <2>2. target' \in DOMAIN Files
    BY <1>1, <2>1 DEF InstallAssumption
  <2>3. disk' = [f \in DOMAIN Files |-> disk'[f]]
    BY <1>1, <2>1
  <2> QED BY <1>1, <2>1, <2>2, <2>3 DEF InstallInv
<1>7. CASE Killed
  <2>1. /\ UNCHANGED <<target, disk, saved, saves>> /\ installAt' = "killed"
        /\ \/ backups' = backups
           \/ \E b : backups' = [backups EXCEPT ![target] = b]
    BY <1>7 DEF Killed
  <2>2. backups' = [f \in DOMAIN Files |-> backups'[f]]
    BY <1>1, <2>1
  <2> QED BY <1>1, <2>1, <2>2 DEF InstallInv
<1>8. CASE RunAgain
  <2>1. 1 \in DOMAIN Files
    BY DEF InstallAssumption
  <2> QED BY <1>1, <1>8, <2>1 DEF RunAgain, InstallInv
<1>9. CASE UserSaves
  <2>1. PICK f \in DOMAIN Files, d \in Documents :
          disk' = [disk EXCEPT ![f] = d] /\ saved' = (saved \/ f = target)
    BY <1>9 DEF UserSaves
  <2>2. /\ UNCHANGED <<installAt, target, merged, backups, temporary>>
        /\ saves' = saves + 1
    BY <1>9 DEF UserSaves
  <2>3. disk' = [g \in DOMAIN Files |-> disk'[g]]
    BY <1>1, <2>1
  <2>4. saved' \in BOOLEAN
    BY <2>1
  <2>5. Safe => Safe'
    <3>1. CASE f = target
      BY <2>1, <3>1 DEF Safe
    <3>2. CASE f # target
      <4>1. disk'[target] = disk[target]
        BY <1>1, <2>1, <3>2
      <4> QED BY <2>1, <2>2, <4>1 DEF Safe
    <3> QED BY <3>1, <3>2
  <2> QED BY <1>1, <2>2, <2>3, <2>4, <2>5 DEF InstallInv
<1> QED BY <1>2, <1>3, <1>4, <1>5, <1>6, <1>7, <1>8, <1>9 DEF InstallNext

(* What the files hold, and of what the document to write was merged.      *)
Merging == {"backup", "write", "written", "rename"}

DocumentsInv ==
  /\ \A f \in DOMAIN Files : \E now :
       /\ disk[f] = now
       /\ IsDocument(now) \/ now \in {Missing, Unreadable}
  /\ installAt \in Merging => \E old :
       /\ old = (IF seen = Missing THEN <<>> ELSE seen)
       /\ IsDocument(old) /\ merged = MergeNamedItems(old)

LEMMA DocumentsInitOk ==
  ASSUME InstallAssumption, InstallInit
  PROVE  DocumentsInv
<1>1. disk \in [DOMAIN Files -> Documents \cup {Missing, Unreadable}]
  BY DEF InstallInit
<1>2. ASSUME NEW f \in DOMAIN Files
      PROVE  IsDocument(disk[f]) \/ disk[f] \in {Missing, Unreadable}
  <2>1. disk[f] \in Documents \cup {Missing, Unreadable}
    BY <1>1
  <2> QED BY <2>1 DEF InstallAssumption
<1>3. installAt \notin Merging
  BY DEF InstallInit, Merging
<1> QED BY <1>2, <1>3 DEF DocumentsInv

LEMMA DocumentsStepOk ==
  ASSUME InstallAssumption, InstallInv, DocumentsInv, InstallNext
  PROVE  DocumentsInv'
<1> DEFINE Content(d) == IsDocument(d) \/ d \in {Missing, Unreadable}
           MergedOf(s, m) == \E old : /\ old = (IF s = Missing THEN <<>> ELSE s)
                                     /\ IsDocument(old) /\ m = MergeNamedItems(old)
<1>1. /\ target \in DOMAIN Files /\ disk = [f \in DOMAIN Files |-> disk[f]]
      /\ installAt = "rename" => temporary = merged
  BY DEF InstallInv
<1>2. \A f \in DOMAIN Files : Content(disk[f])
  BY DEF DocumentsInv
<1>3. installAt \in Merging => MergedOf(seen, merged)
  BY DEF DocumentsInv
<1>4. ASSUME UNCHANGED disk, installAt' \in Merging => MergedOf(seen', merged')
      PROVE  DocumentsInv'
  BY <1>2, <1>4 DEF DocumentsInv
<1>5. ASSUME UNCHANGED <<disk, seen, merged>>,
             installAt' \in Merging => installAt \in Merging
      PROVE  DocumentsInv'
  BY <1>3, <1>4, <1>5
<1>6. ASSUME UNCHANGED disk, installAt' \notin Merging
      PROVE  DocumentsInv'
  BY <1>4, <1>6
<1>7. CASE CreateDirectory
  BY <1>6, <1>7 DEF CreateDirectory, InstallEnds, InstallQuiet, Merging
<1>8. CASE LoadAndMerge
  <2>1. CASE InstallEnds("failed")
    BY <1>6, <1>8, <2>1 DEF LoadAndMerge, InstallEnds, InstallQuiet, Merging
  <2>2. CASE ~InstallEnds("failed")
    <3>1. /\ disk[target] # Unreadable /\ seen' = disk[target] /\ UNCHANGED disk
          /\ merged' = MergeNamedItems(IF disk[target] = Missing THEN <<>> ELSE disk[target])
      BY <1>8, <2>2 DEF LoadAndMerge, InstallQuiet
    <3>2. PICK old : old = (IF disk[target] = Missing THEN <<>> ELSE disk[target])
      OBVIOUS
    <3>3. IsDocument(old)
      <4>1. CASE disk[target] = Missing
        <5>1. old = <<>>
          BY <3>2, <4>1
        <5> QED BY <5>1 DEF IsDocument
      <4>2. CASE disk[target] # Missing
        <5>1. old = disk[target] /\ Content(disk[target])
          BY <1>1, <1>2, <3>2, <4>2
        <5> QED BY <3>1, <4>2, <5>1
      <4> QED BY <4>1, <4>2
    <3>4. merged' = MergeNamedItems(old) /\ old = (IF seen' = Missing THEN <<>> ELSE seen')
      BY <3>1, <3>2
    <3>5. MergedOf(seen', merged')
      BY <3>3, <3>4
    <3> QED BY <1>4, <3>1, <3>5
  <2> QED BY <2>1, <2>2
<1>9. CASE Backup
  BY <1>5, <1>6, <1>9 DEF Backup, InstallEnds, Merging
<1>10. CASE WriteTemporary \/ Written
  BY <1>5, <1>6, <1>10 DEF WriteTemporary, Written, InstallEnds, InstallQuiet, Merging
<1>11. CASE Rename
  <2>1. CASE UNCHANGED disk
    BY <1>6, <1>11, <2>1 DEF Rename, InstallEnds, Merging
  <2>2. CASE disk' # disk
    <3>1. installAt = "rename" /\ disk' = [disk EXCEPT ![target] = temporary]
      BY <1>11, <2>2 DEF Rename
    <3>2. installAt' \notin Merging
      BY <1>11 DEF Rename, InstallEnds, Merging
    <3>3. PICK old : IsDocument(old) /\ merged = MergeNamedItems(old)
      BY <1>3, <3>1 DEF Merging
    <3>4. IsDocument(merged)
      BY <3>3, MergeKeeps
    <3>5. \A f \in DOMAIN Files : disk'[f] = IF f = target THEN merged ELSE disk[f]
      BY <1>1, <3>1
    <3>6. \A f \in DOMAIN Files : Content(disk'[f])
      <4> HIDE DEF Content
      <4>1. Content(merged)
        BY <3>4 DEF Content
      <4> QED BY <1>2, <3>5, <4>1
    <3> QED BY <3>2, <3>6 DEF DocumentsInv
  <2> QED BY <2>1, <2>2
<1>12. CASE Killed \/ RunAgain
  BY <1>6, <1>12 DEF Killed, RunAgain, Merging
<1>13. CASE UserSaves
  <2>1. PICK f \in DOMAIN Files, d \in Documents : disk' = [disk EXCEPT ![f] = d]
    BY <1>13 DEF UserSaves
  <2>2. UNCHANGED <<installAt, seen, merged>>
    BY <1>13 DEF UserSaves
  <2>3. \A g \in DOMAIN Files : disk'[g] = IF g = f THEN d ELSE disk[g]
    BY <1>1, <2>1
  <2>4. Content(d)
    BY DEF InstallAssumption
  <2>5. \A g \in DOMAIN Files : Content(disk'[g])
    <3> HIDE DEF Content
    <3> QED BY <1>2, <2>3, <2>4
  <2>6. installAt' \in Merging => MergedOf(seen', merged')
    BY <1>3, <2>2
  <2> QED BY <2>5, <2>6 DEF DocumentsInv
<1> QED BY <1>7, <1>8, <1>9, <1>10, <1>11, <1>12, <1>13 DEF InstallNext

(* A file of the user is replaced only as a whole by a merged document,    *)
(* and only when what it replaces is in a complete backup or was saved     *)
(* after it, whatever fails and whenever the tool is killed, for any       *)
(* number of files, runs and saves (backup and atomic_write in             *)
(* installer.rs).  That is the action property of NothingIsLost.           *)
THEOREM FilesAreBackedUp ==
  ASSUME InstallAssumption PROVE InstallSpec => [][ReplacedAfterBackup]_installVars
<1>1. InstallInit => InstallInv
  BY InstallInitOk
<1>2. InstallInv /\ [InstallNext]_installVars => InstallInv'
  <2> SUFFICES ASSUME InstallInv, [InstallNext]_installVars PROVE InstallInv'
    OBVIOUS
  <2>1. CASE InstallNext
    BY <2>1, InstallStepOk
  <2>2. CASE UNCHANGED installVars
    BY <2>2 DEF installVars, InstallInv, Safe
  <2> QED BY <2>1, <2>2
<1>3. InstallInv /\ [InstallNext]_installVars => [ReplacedAfterBackup]_installVars
  <2> SUFFICES ASSUME InstallInv, InstallNext, Renames, saves' = saves
               PROVE  /\ disk'[target] = merged
                      /\ disk[target] \in backups[target] \cup {Missing} \/ saved
    BY DEF ReplacedAfterBackup
  <2>1. /\ installAt = "rename" /\ disk'[target] # disk[target]
        /\ Safe /\ temporary = merged /\ target \in DOMAIN Files
        /\ disk = [f \in DOMAIN Files |-> disk[f]] /\ saved \in BOOLEAN
        /\ saves \in Nat
    BY DEF Renames, InstallInv
  <2>2. CASE Rename
    <3>1. disk' = [disk EXCEPT ![target] = temporary]
      BY <2>1, <2>2 DEF Rename
    <3>2. disk'[target] = merged
      BY <2>1, <3>1
    <3> QED BY <2>1, <3>2 DEF Safe
  <2>3. CASE ~Rename
    <3>1. disk' = disk \/ UserSaves
      BY <2>1, <2>3 DEF InstallNext, CreateDirectory, LoadAndMerge, Backup, WriteTemporary,
                       Written, Killed, RunAgain, InstallQuiet
    <3>2. UserSaves => saves' = saves + 1
      BY DEF UserSaves
    <3> QED BY <2>1, <3>1, <3>2
  <2> QED BY <2>2, <2>3
<1> QED BY <1>1, <1>2, <1>3, PTL DEF InstallSpec

(* Nothing the user has is lost: besides, the document that replaces a     *)
(* file has every item of the user, in order and unchanged, none of the    *)
(* old tool, the template's item once, and installing it again changes     *)
(* nothing (merge_named_items in installer.rs), for documents of any       *)
(* length.                                                                 *)
THEOREM NothingIsEverLost ==
  ASSUME InstallAssumption PROVE InstallSpec => NothingIsLost
<1>1. InstallInit => InstallInv /\ DocumentsInv
  BY InstallInitOk, DocumentsInitOk
<1>2. InstallInv /\ DocumentsInv /\ [InstallNext]_installVars => InstallInv' /\ DocumentsInv'
  <2> SUFFICES ASSUME InstallInv, DocumentsInv, [InstallNext]_installVars
               PROVE  InstallInv' /\ DocumentsInv'
    OBVIOUS
  <2>1. CASE InstallNext
    BY <2>1, InstallStepOk, DocumentsStepOk
  <2>2. CASE UNCHANGED installVars
    <3>1. InstallInv'
      BY <2>2 DEF installVars, InstallInv, Safe
    <3>2. DocumentsInv'
      BY <2>2 DEF installVars, DocumentsInv
    <3> QED BY <3>1, <3>2
  <2> QED BY <2>1, <2>2
<1>3. DocumentsInv => MergeKeepsUserItems
  <2> SUFFICES ASSUME DocumentsInv, installAt \in Merging
               PROVE  LET old == IF seen = Missing THEN <<>> ELSE seen
                      IN  /\ UserItems(merged) = UserItems(old)
                          /\ \A k \in DOMAIN merged : merged[k].name \notin LEGACY
                          /\ \E k \in DOMAIN merged :
                               /\ TemplatePlaces(merged) = {k} /\ merged[k].ours
                               /\ TemplatePlaces(old) # {} =>
                                    merged[k].fields = old[Earliest(TemplatePlaces(old))].fields
                          /\ MergeNamedItems(merged) = merged
    BY DEF MergeKeepsUserItems, Merging
  <2>1. PICK old : /\ old = (IF seen = Missing THEN <<>> ELSE seen)
                   /\ IsDocument(old) /\ merged = MergeNamedItems(old)
    BY DEF DocumentsInv
  <2>2. PICK new : new = merged
    OBVIOUS
  <2>3. IsDocument(new) /\ MergedFrom(old, new)
    BY <2>1, <2>2, MergeKeeps
  <2>4. MergeNamedItems(new) = new
    BY <2>3, MergeAgain DEF MergedFrom
  <2>5. \A k \in DOMAIN new : new[k].ours = TRUE => new[k].ours
    OBVIOUS
  <2> QED BY <2>1, <2>2, <2>3, <2>4, <2>5 DEF MergedFrom
<1>4. InstallSpec => [][ReplacedAfterBackup]_installVars
  BY FilesAreBackedUp
<1> QED BY <1>1, <1>2, <1>3, <1>4, PTL DEF InstallSpec, NothingIsLost

(***************************************************************************)
(* check.                                                                  *)

(* The bits of a number are its lowest one and those of its half.          *)
LEMMA HalvedBits ==
  ASSUME PowersOfTwo, NEW k \in 0 .. Width - 1, NEW word \in Nat
  PROVE  /\ 2 ^ k \in Nat \ {0} => 2 ^ (k + 1) \in Nat \ {0}
         /\ 2 ^ k \in Nat \ {0} => Bit(word, k + 1) = Bit(word \div 2, k)
         /\ Bit(word, 0) = word % 2
<1>1. 2 ^ k \in Nat /\ 2 ^ (k + 1) = 2 * 2 ^ k
  BY DEF PowersOfTwo
<1>2. PICK p \in Nat : p = 2 ^ k
  BY <1>1
<1>3. 2 ^ (k + 1) = 2 * p
  BY <1>1, <1>2
<1>4. ASSUME p # 0 PROVE word \div (2 * p) = (word \div 2) \div p
  <2>1. p > 0
    BY <1>4
  <2> QED BY <2>1
<1>5. p # 0 => Bit(word, k + 1) = Bit(word \div 2, k)
  BY <1>2, <1>3, <1>4 DEF Bit
<1>6. 2 ^ 0 = 1 /\ word \div 1 = word
  OBVIOUS
<1>7. Bit(word, 0) = word % 2
  BY <1>6 DEF Bit
<1> QED BY <1>2, <1>3, <1>5, <1>7

LEMMA PositivePowers ==
  ASSUME CheckAssumption, PowersOfTwo
  PROVE  \A k \in 0 .. Width : 2 ^ k \in Nat \ {0}
<1> DEFINE S == {k \in 0 .. Width : 2 ^ k \notin Nat \ {0}}
<1>1. SUFFICES ASSUME S # {} PROVE FALSE
  OBVIOUS
<1>2. Width \in Nat
  BY DEF CheckAssumption
<1>3. PICK m \in S : \A k \in S : m <= k
  <2>1. S \in SUBSET Nat
    BY <1>2
  <2> HIDE DEF S
  <2> QED BY <1>1, <2>1, EarliestIsIn
<1>4. m # 0
  <2>1. 2 ^ 0 = 1
    OBVIOUS
  <2>2. m = 0 => 2 ^ m = 2 ^ 0
    BY Zenon
  <2>3. 2 ^ m \notin Nat \ {0}
    OBVIOUS
  <2> HIDE DEF S
  <2> QED BY <2>1, <2>2, <2>3
<1>5. PICK j \in 0 .. Width - 1 : m = j + 1
  <2>1. m \in 0 .. Width
    OBVIOUS
  <2>2. m - 1 \in 0 .. Width - 1 /\ m = (m - 1) + 1
    BY <1>2, <1>4, <2>1
  <2> QED BY <2>2
<1>6. j \in 0 .. Width /\ ~(m <= j) /\ j \in Nat
  BY <1>2, <1>5
<1>7. 2 ^ j \in Nat \ {0}
  BY <1>3, <1>6
<1>8. 2 ^ (j + 1) \in Nat \ {0}
  BY <1>6, <1>7, HalvedBits
<1> QED BY <1>5, <1>8

(* Up to each width, numbers with the same bits are the same, and there is *)
(* a number with the bits that two have in common.                         *)
SameBits(w, a, b) == \A k \in 0 .. w - 1 : Bit(a, k) = Bit(b, k)
CommonBits(w, a, b, c) == \A k \in 0 .. w - 1 : Bit(c, k) = Bit(a, k) * Bit(b, k)

BitsTell(w) ==
  \A a, b \in 0 .. 2 ^ w - 1 :
    /\ SameBits(w, a, b) => a = b
    /\ \E c \in 0 .. 2 ^ w - 1 : CommonBits(w, a, b, c)

LEMMA OneMoreBit ==
  ASSUME CheckAssumption, PowersOfTwo, NEW w \in 0 .. Width - 1, BitsTell(w)
  PROVE  BitsTell(w + 1)
<1>1. Width \in Nat /\ w \in Nat
  BY DEF CheckAssumption
<1>2. PICK p \in Nat \ {0} : p = 2 ^ w
  BY <1>1, PositivePowers
<1>3. 2 ^ (w + 1) = 2 * p
  BY <1>2 DEF PowersOfTwo
<1>4. ASSUME NEW x \in Nat
      PROVE  /\ x % 2 \in 0 .. 1 /\ x \div 2 \in Nat /\ x = 2 * (x \div 2) + (x % 2)
             /\ x < 2 * p => x \div 2 \in 0 .. p - 1
             /\ Bit(x, 0) = x % 2
             /\ \A k \in 0 .. w - 1 : Bit(x, k + 1) = Bit(x \div 2, k)
  <2>1. /\ x % 2 \in 0 .. 1 /\ x \div 2 \in Nat /\ x = 2 * (x \div 2) + (x % 2)
        /\ x < 2 * p => x \div 2 \in 0 .. p - 1
    OBVIOUS
  <2>2. Bit(x, 0) = x % 2
    BY HalvedBits
  <2>3. ASSUME NEW k \in 0 .. w - 1 PROVE Bit(x, k + 1) = Bit(x \div 2, k)
    <3>1. k \in 0 .. Width - 1 /\ k \in 0 .. Width
      BY <1>1
    <3>2. 2 ^ k \in Nat \ {0}
      BY <3>1, PositivePowers
    <3>3. 2 ^ k \in Nat \ {0} => Bit(x, k + 1) = Bit(x \div 2, k)
      BY <3>1, HalvedBits, Zenon
    <3> QED BY <3>2, <3>3, Zenon
  <2> QED BY <2>1, <2>2, <2>3
<1>5. ASSUME NEW a \in 0 .. 2 * p - 1, NEW b \in 0 .. 2 * p - 1
      PROVE  /\ SameBits(w + 1, a, b) => a = b
             /\ \E c \in 0 .. 2 * p - 1 : CommonBits(w + 1, a, b, c)
  <2>1. a \in Nat /\ b \in Nat /\ a < 2 * p /\ b < 2 * p
    OBVIOUS
  <2>2. PICK a0 \in 0 .. 1, b0 \in 0 .. 1, ah \in 0 .. p - 1, bh \in 0 .. p - 1 :
          /\ a0 = a % 2 /\ b0 = b % 2 /\ ah = a \div 2 /\ bh = b \div 2
          /\ a = 2 * ah + a0 /\ b = 2 * bh + b0
    BY <1>4, <2>1
  <2>3. 0 \in 0 .. (w + 1) - 1 /\ \A k \in 0 .. w - 1 : k + 1 \in 0 .. (w + 1) - 1
    BY <1>1
  <2>4. /\ Bit(a, 0) = a0 /\ \A k \in 0 .. w - 1 : Bit(a, k + 1) = Bit(ah, k)
        /\ Bit(b, 0) = b0 /\ \A k \in 0 .. w - 1 : Bit(b, k + 1) = Bit(bh, k)
    BY <1>4, <2>1, <2>2, Zenon
  <2>5. SameBits(w + 1, a, b) => a = b
    <3>1. SUFFICES ASSUME SameBits(w + 1, a, b) PROVE a = b
      OBVIOUS
    <3>2. a0 = b0
      <4>1. Bit(a, 0) = Bit(b, 0)
        BY <2>3, <3>1 DEF SameBits
      <4> QED BY <2>4, <4>1
    <3>3. ASSUME NEW k \in 0 .. w - 1 PROVE Bit(ah, k) = Bit(bh, k)
      <4>1. Bit(a, k + 1) = Bit(b, k + 1)
        BY <2>3, <3>1 DEF SameBits
      <4> QED BY <2>4, <4>1
    <3>4. ah = bh
      BY <1>2, <3>3 DEF BitsTell, SameBits
    <3> QED BY <2>2, <3>2, <3>4
  <2>6. \E c \in 0 .. 2 * p - 1 : CommonBits(w + 1, a, b, c)
    <3>1. PICK ch \in 0 .. p - 1 : CommonBits(w, ah, bh, ch)
      BY <1>2 DEF BitsTell
    <3>2. PICK c0 \in 0 .. 1 : c0 = a0 * b0
      BY <2>2
    <3>3. PICK c \in 0 .. 2 * p - 1 : c = 2 * ch + c0
      OBVIOUS
    <3>4. c \div 2 = ch /\ c % 2 = c0 /\ c \in Nat
      BY <3>3
    <3>5. Bit(c, 0) = c0 /\ \A k \in 0 .. w - 1 : Bit(c, k + 1) = Bit(ch, k)
      BY <1>4, <3>4, Zenon
    <3>6. ASSUME NEW k \in 0 .. (w + 1) - 1 PROVE Bit(c, k) = Bit(a, k) * Bit(b, k)
      <4>1. CASE k = 0
        <5>1. Bit(c, 0) = c0 /\ Bit(a, 0) = a0 /\ Bit(b, 0) = b0
          BY <2>4, <3>5
        <5> QED BY <3>2, <4>1, <5>1
      <4>2. CASE k # 0
        <5>1. PICK j \in 0 .. w - 1 : k = j + 1
          <6>1. k - 1 \in 0 .. w - 1 /\ k = (k - 1) + 1
            BY <1>1, <4>2
          <6> QED BY <6>1
        <5>2. Bit(c, j + 1) = Bit(ch, j) /\ Bit(a, j + 1) = Bit(ah, j) /\ Bit(b, j + 1) = Bit(bh, j)
          BY <2>4, <3>5
        <5>3. Bit(ch, j) = Bit(ah, j) * Bit(bh, j)
          BY <3>1 DEF CommonBits
        <5> QED BY <5>1, <5>2, <5>3
      <4> QED BY <4>1, <4>2
    <3> QED BY <3>6 DEF CommonBits
  <2> QED BY <2>5, <2>6
<1> QED BY <1>3, <1>5 DEF BitsTell

LEMMA AllBits ==
  ASSUME CheckAssumption, PowersOfTwo
  PROVE  BitsTell(Width)
<1> DEFINE S == {w \in 0 .. Width : ~BitsTell(w)}
<1>1. Width \in Nat /\ Width \in 0 .. Width
  BY DEF CheckAssumption
<1>2. CASE S = {}
  BY <1>1, <1>2
<1>3. CASE S # {}
  <2>1. PICK m \in S : \A w \in S : m <= w
    <3>1. S \in SUBSET Nat
      BY <1>1
    <3> HIDE DEF S
    <3> QED BY <1>3, <3>1, EarliestIsIn
  <2>2. m \in 0 .. Width /\ ~BitsTell(m)
    OBVIOUS
  <2>3. m # 0
    <3>1. 2 ^ 0 = 1
      OBVIOUS
    <3>2. 0 .. 2 ^ 0 - 1 = {0} /\ 0 .. 0 - 1 = {}
      BY <3>1
    <3>3. BitsTell(0)
      BY <3>2 DEF BitsTell, SameBits, CommonBits
    <3> QED BY <2>2, <3>3
  <2>4. PICK j \in 0 .. Width - 1 : m = j + 1
    <3>1. m - 1 \in 0 .. Width - 1 /\ m = (m - 1) + 1
      BY <1>1, <2>2, <2>3
    <3> QED BY <3>1
  <2>5. j \in 0 .. Width /\ ~(m <= j)
    BY <1>1, <2>4
  <2>6. BitsTell(j)
    BY <2>1, <2>5
  <2>7. BitsTell(j + 1)
    BY <2>6, OneMoreBit
  <2> QED BY <2>2, <2>4, <2>7
<1> QED BY <1>2, <1>3

(* So a comparison of numbers is one of their bits, masked or not.         *)
LEMMA BitsCompare ==
  ASSUME CheckAssumption, PowersOfTwo, NEW a \in U64, NEW b \in U64
  PROVE  /\ a = b <=> Bits(a) = Bits(b)
         /\ Bits(a) # {} <=> a # 0
         /\ \E c \in U64 : Bits(c) = Bits(a) \cap Bits(b)
<1>1. Width \in Nat /\ BitsTell(Width)
  BY AllBits DEF CheckAssumption
<1>2. PICK p \in Nat \ {0} : p = 2 ^ Width /\ U64 = 0 .. p - 1
  <2>1. Width \in 0 .. Width
    BY <1>1
  <2> QED BY <2>1, PositivePowers DEF U64, Word
<1>3. ASSUME NEW x \in U64, NEW k \in 0 .. Width - 1
      PROVE  Bit(x, k) \in {0, 1}
  <2>1. PICK q \in Nat \ {0} : q = 2 ^ k
    <3>1. k \in 0 .. Width
      BY <1>1
    <3> QED BY <3>1, PositivePowers
  <2>2. x \in Nat
    BY <1>2
  <2>3. x \div q \in Nat
    BY <2>2
  <2>4. (x \div q) % 2 \in {0, 1}
    BY <2>3
  <2> QED BY <2>1, <2>4 DEF Bit
<1>4. ASSUME NEW x \in U64, NEW y \in U64
      PROVE  x = y <=> Bits(x) = Bits(y)
  <2>1. Bits(x) = Bits(y) => SameBits(Width, x, y)
    BY <1>3 DEF Bits, SameBits
  <2>2. SameBits(Width, x, y) => x = y
    BY <1>1, <1>2 DEF BitsTell
  <2> QED BY <2>1, <2>2
<1>5. PICK c \in U64 : CommonBits(Width, a, b, c)
  BY <1>1, <1>2 DEF BitsTell
<1>6. Bits(c) = Bits(a) \cap Bits(b)
  <2>1. ASSUME NEW k \in 0 .. Width - 1
        PROVE  Bit(c, k) = 1 <=> Bit(a, k) = 1 /\ Bit(b, k) = 1
    <3>1. Bit(a, k) \in {0, 1} /\ Bit(b, k) \in {0, 1} /\ Bit(c, k) = Bit(a, k) * Bit(b, k)
      BY <1>3, <1>5 DEF CommonBits
    <3> QED BY <3>1
  <2> QED BY <2>1 DEF Bits
<1>7. Bits(a) # {} <=> a # 0
  <2>1. 0 \in U64
    BY <1>2
  <2>2. Bits(0) = {}
    <3>1. ASSUME NEW k \in 0 .. Width - 1 PROVE Bit(0, k) # 1
      <4>1. PICK q \in Nat \ {0} : q = 2 ^ k
        <5>1. k \in 0 .. Width
          BY <1>1
        <5> QED BY <5>1, PositivePowers
      <4>2. 0 \div q = 0
        OBVIOUS
      <4>3. (0 \div q) % 2 = 0
        BY <4>2
      <4> QED BY <4>1, <4>3 DEF Bit
    <3> QED BY <3>1 DEF Bits
  <2> QED BY <1>4, <2>1, <2>2
<1> QED BY <1>4, <1>6, <1>7

(* A resolved operand is a word of 64 bits.                                *)
LEMMA OperandIsValue ==
  ASSUME CheckAssumption, PowersOfTwo, EntriesAssumption, NEW i \in DOMAIN Entries,
         NEW k \in DOMAIN Operands(Entries[i].expect),
         NEW operand, operand = Operands(Entries[i].expect)[k], OperandResolves(operand)
  PROVE  ResolveOperand(operand) \in U64
<1>1. operand.number \in Int /\ (operand.symbol = NoSymbol => operand.number \in U64)
  BY DEF EntriesAssumption
<1>2. PICK p \in Nat \ {0} : p = Word /\ U64 = 0 .. p - 1
  <2>1. Width \in 0 .. Width
    BY DEF CheckAssumption
  <2> QED BY <2>1, PositivePowers DEF U64, Word
<1>3. CASE operand.symbol = NoSymbol
  BY <1>1, <1>3 DEF ResolveOperand
<1>4. CASE operand.symbol # NoSymbol
  <2>1. operand.symbol \in DOMAIN Symbols
    BY <1>4 DEF OperandResolves
  <2>2. PICK begin \in U64 : begin = Symbols[operand.symbol].begin
    BY <2>1 DEF EntriesAssumption
  <2>3. PICK number \in Int : number = operand.number
    BY <1>1
  <2>4. begin \in Int
    BY <1>2
  <2>5. (begin + number) % p \in 0 .. p - 1
    <3>1. PICK sum \in Int : sum = begin + number
      BY <2>4
    <3>2. p > 0 /\ p \in Int
      OBVIOUS
    <3>3. sum % p \in 0 .. p - 1
      BY <3>2
    <3> QED BY <3>1, <3>3
  <2>6. ResolveOperand(operand) = (begin + number) % p
    BY <1>2, <1>4, <2>2, <2>3 DEF ResolveOperand
  <2> QED BY <1>2, <2>5, <2>6
<1> QED BY <1>3, <1>4

(* What is compared has the bits of the mask.                              *)
LEMMA MaskedIsCompared ==
  ASSUME CheckAssumption, PowersOfTwo, NEW expect, NEW word \in U64,
         "mask" \in DOMAIN expect => expect.mask \in U64
  PROVE  Masked(word, expect) \in U64 /\ Bits(Masked(word, expect)) = Compared(word, expect)
<1>1. CASE "mask" \in DOMAIN expect
  <2>1. PICK mask \in U64 : mask = expect.mask
    BY <1>1
  <2>2. \E c \in U64 : Bits(c) = Bits(word) \cap Bits(mask)
    BY BitsCompare
  <2>3. Masked(word, expect) = CHOOSE v \in U64 : Bits(v) = Bits(word) \cap Bits(mask)
    BY <1>1, <2>1 DEF Masked
  <2>4. Compared(word, expect) = Bits(word) \cap Bits(mask)
    BY <1>1, <2>1 DEF Compared
  <2> QED BY <2>2, <2>3, <2>4
<1>2. CASE "mask" \notin DOMAIN expect
  BY <1>2 DEF Masked, Compared
<1> QED BY <1>1, <1>2

(* A word passes exactly if it meets the expectation of the file.          *)
LEMMA HoldsIfMeets ==
  ASSUME CheckAssumption, PowersOfTwo, EntriesAssumption, NEW i \in DOMAIN Entries,
         NEW expect, expect = Entries[i].expect, ParseExpect(expect), ExpectResolves(expect),
         NEW word \in U64
  PROVE  Holds(expect, word) <=> Meets(expect, word)
<1>1. PICK form \in ValueForms :
        /\ DOMAIN expect \ {"mask"} = {form}
        /\ "mask" \in DOMAIN expect => form \in {"eq", "ne"}
  BY DEF ParseExpect
<1>2. \A other \in (ValueForms \cup ClockForms) \ {form} : other \notin DOMAIN expect
  BY <1>1 DEF ValueForms, ClockForms
<1>3. form \in DOMAIN expect /\ ~(DOMAIN expect \subseteq ClockForms)
  BY <1>1 DEF ValueForms, ClockForms
<1>4. /\ "mask" \in DOMAIN expect => expect.mask \in U64
      /\ "range" \in DOMAIN expect => expect.range[1] \in U64 /\ expect.range[2] \in U64
      /\ \A path \in DOMAIN Symbols : Symbols[path].begin \in U64 /\ Symbols[path].end \in U64
  BY DEF EntriesAssumption
<1>5. U64 \subseteq Int
  <2>1. PICK p \in Nat : p = Word
    BY PositivePowers DEF Word, CheckAssumption
  <2> QED BY <2>1 DEF U64
<1>6. \A k \in DOMAIN Operands(expect) : ResolveOperand(Operands(expect)[k]) \in U64
  <2>1. \A k \in DOMAIN Operands(expect) : OperandResolves(Operands(expect)[k])
    BY DEF ExpectResolves
  <2> QED BY <2>1, OperandIsValue
<1>7. PICK masked \in U64 : masked = Masked(word, expect) /\ Bits(masked) = Compared(word, expect)
  BY <1>4, MaskedIsCompared
<1>8. CASE form = "eq"
  <2>1. Operands(expect) = <<expect.eq>>
    BY <1>2, <1>3, <1>8 DEF Operands, ValueForms
  <2>2. PICK right \in U64 : right = ResolveOperand(expect.eq)
    <3>1. 1 \in DOMAIN Operands(expect) /\ Operands(expect)[1] = expect.eq
      BY <2>1
    <3> QED BY <1>6, <3>1
  <2>3. Holds(expect, word) <=> masked = right
    BY <1>2, <1>3, <1>7, <1>8, <2>2 DEF Holds, ValueForms
  <2>4. Meets(expect, word) <=> Compared(word, expect) = Bits(right)
    BY <1>2, <1>3, <1>8, <2>2 DEF Meets, OperandBits, ValueForms, ClockForms
  <2>5. masked = right <=> Bits(masked) = Bits(right)
    BY BitsCompare
  <2> QED BY <1>7, <2>3, <2>4, <2>5
<1>9. CASE form = "ne"
  <2>1. Operands(expect) = <<expect.ne>>
    BY <1>2, <1>3, <1>9 DEF Operands, ValueForms
  <2>2. PICK right \in U64 : right = ResolveOperand(expect.ne)
    <3>1. 1 \in DOMAIN Operands(expect) /\ Operands(expect)[1] = expect.ne
      BY <2>1
    <3> QED BY <1>6, <3>1
  <2>3. Holds(expect, word) <=> masked # right
    BY <1>2, <1>3, <1>7, <1>9, <2>2 DEF Holds, ValueForms
  <2>4. Meets(expect, word) <=> Compared(word, expect) # Bits(right)
    BY <1>2, <1>3, <1>9, <2>2 DEF Meets, OperandBits, ValueForms, ClockForms
  <2>5. masked = right <=> Bits(masked) = Bits(right)
    BY BitsCompare
  <2> QED BY <1>7, <2>3, <2>4, <2>5
<1>10. CASE form = "nonzero"
  <2>1. Holds(expect, word) <=> word # 0
    BY <1>2, <1>3, <1>10 DEF Holds, ValueForms
  <2>2. Meets(expect, word) <=> Bits(word) # {}
    BY <1>2, <1>3, <1>10 DEF Meets, ValueForms, ClockForms
  <2>3. Bits(word) # {} <=> word # 0
    BY BitsCompare
  <2> QED BY <2>1, <2>2, <2>3
<1>11. CASE form = "one_of"
  <2>1. Operands(expect) = expect.one_of
    BY <1>3, <1>11 DEF Operands
  <2>2. Holds(expect, word) <=>
          \E k \in DOMAIN expect.one_of : word = ResolveOperand(expect.one_of[k])
    BY <1>2, <1>3, <1>11 DEF Holds, ValueForms
  <2>3. Meets(expect, word) <=>
          \E k \in DOMAIN expect.one_of : Bits(word) = Bits(ResolveOperand(expect.one_of[k]))
    BY <1>2, <1>3, <1>11 DEF Meets, OperandBits, ValueForms, ClockForms
  <2>4. ASSUME NEW k \in DOMAIN expect.one_of
        PROVE  word = ResolveOperand(expect.one_of[k])
                 <=> Bits(word) = Bits(ResolveOperand(expect.one_of[k]))
    <3>1. PICK right \in U64 : right = ResolveOperand(expect.one_of[k])
      BY <1>6, <2>1
    <3> QED BY <3>1, BitsCompare
  <2> QED BY <2>2, <2>3, <2>4
<1>12. CASE form = "range"
  <2>1. PICK low \in Int, high \in Int : low = expect.range[1] /\ high = expect.range[2]
    BY <1>3, <1>4, <1>5, <1>12
  <2>2. Bounds(expect)[1] = low /\ Bounds(expect)[2] = high
    BY <1>3, <1>12, <2>1 DEF Bounds
  <2>3. Holds(expect, word) <=> word \in low .. high
    BY <1>2, <1>3, <1>12, <2>2 DEF Holds, ValueForms
  <2>4. Meets(expect, word) <=> low <= word /\ word <= high
    BY <1>2, <1>3, <1>12, <2>1 DEF Meets, ValueForms, ClockForms
  <2>5. word \in Int
    BY <1>5
  <2>8. \A x, y, z \in Int : x \in y .. z <=> y <= x /\ x <= z
    OBVIOUS
  <2> QED BY <2>1, <2>3, <2>4, <2>5, <2>8
<1>13. CASE form = "in_symbol"
  <2>1. expect.in_symbol \in DOMAIN Symbols
    BY <1>3, <1>13 DEF ExpectResolves
  <2>2. PICK low \in Int, high \in Int :
          low = Symbols[expect.in_symbol].begin /\ high = Symbols[expect.in_symbol].end
    BY <1>4, <1>5, <2>1
  <2>3. "range" \notin DOMAIN expect
    BY <1>2, <1>13 DEF ValueForms
  <2>4. Bounds(expect)[1] = low /\ Bounds(expect)[2] = high
    BY <2>2, <2>3 DEF Bounds
  <2>5. Holds(expect, word) <=> word \in low .. high
    BY <1>2, <1>3, <1>13, <2>4 DEF Holds, ValueForms
  <2>6. Meets(expect, word) <=> low <= word /\ word <= high
    BY <1>2, <1>3, <1>13, <2>2 DEF Meets, ValueForms, ClockForms
  <2>7. word \in Int
    BY <1>5
  <2>8. \A x, y, z \in Int : x \in y .. z <=> y <= x /\ x <= z
    OBVIOUS
  <2> QED BY <2>2, <2>5, <2>6, <2>7, <2>8
<1> QED BY <1>8, <1>9, <1>10, <1>11, <1>12, <1>13 DEF ValueForms

(* So does an evaluated clock.                                             *)
LEMMA MatchesIfMeets ==
  ASSUME CheckAssumption, EntriesAssumption, NEW i \in DOMAIN Entries,
         NEW expect, expect = Entries[i].expect, ParseClockExpect(expect),
         NEW clock \in Evaluated
  PROVE  clock.state # "error" /\ Matches(expect, clock) <=> Meets(expect, clock)
<1>1. \A form \in ValueForms : form \notin DOMAIN expect
  BY DEF ParseClockExpect, ValueForms, ClockForms
<1>2. DOMAIN expect \subseteq ClockForms
      /\ ({"hz", "state"} \subseteq DOMAIN expect => expect.state = "on")
  BY DEF ParseClockExpect
<1>3. Meets(expect, clock) <=>
        /\ clock.state # "error"
        /\ "state" \in DOMAIN expect => clock.state = expect.state
        /\ "hz" \in DOMAIN expect =>
             clock.state = "on" /\ clock.hz \in expect.hz - 1 .. expect.hz + 1
        /\ "source" \in DOMAIN expect => clock.parent = expect.source
        /\ "warnings" \in DOMAIN expect => clock.warnings = expect.warnings
  BY <1>1, <1>2 DEF Meets, ValueForms
<1>4. ASSUME "hz" \in DOMAIN expect, clock.state = "on"
      PROVE  clock.hz - expect.hz \in -1 .. 1 <=> clock.hz \in expect.hz - 1 .. expect.hz + 1
  <2>1. PICK is \in Int, asked \in Int : is = clock.hz /\ asked = expect.hz
    BY <1>4 DEF CheckAssumption, EntriesAssumption
  <2>2. \A x, y \in Int : x - y \in -1 .. 1 <=> x \in y - 1 .. y + 1
    OBVIOUS
  <2> QED BY <2>1, <2>2
<1> QED BY <1>2, <1>3, <1>4 DEF Matches

(* What is known of a check that was resolved, and of its verdict.         *)
IsPrepared(i, item) ==
  /\ item.check = i
  /\ item.register # "none" =>
       /\ Reads(i, "reg") /\ Entries[i].read.reg \in DOMAIN Registers
       /\ item.register = Registers[Entries[i].read.reg]
  /\ item.error = FALSE =>
       /\ ExpectResolves(Entries[i].expect)
       /\ Reads(i, "clock") => Entries[i].read.clock \in TreeClocks

IsVerdict(i, dry, item, status, reading) ==
  /\ reading = <<"unread">> <=> dry = TRUE \/ item.error = TRUE
  /\ status = "fail" => reading[1] = "read"
  /\ dry = TRUE => (status = "pass" <=> item.error = FALSE)
  /\ dry = FALSE =>
       (status = "pass" <=> reading[1] = "read" /\ Meets(Entries[i].expect, reading[2]))

PreparedOk(chosen, items) ==
  /\ Len(items) <= Len(chosen)
  /\ \A k \in 1 .. Len(items) : IsPrepared(chosen[k], items[k])

VerdictsOk(chosen, dry, items, statuses, readings) ==
  /\ Len(readings) = Len(statuses) /\ Len(statuses) <= Len(items)
  /\ \A k \in 1 .. Len(statuses) :
       IsVerdict(chosen[k], dry, items[k], statuses[k], readings[k])

Kinds    == {"none"} \cup {Registers[label] : label \in DOMAIN Registers}
Items    == [check : DOMAIN Entries, register : Kinds, error : BOOLEAN]
Statuses == {"pass", "fail", "error"}
Readings == {<<"unread">>, <<"failed">>} \cup {<<"read", v>> : v \in U64 \cup Evaluated}

CheckType ==
  /\ \E n \in Nat : file \in [1 .. n -> DOMAIN Entries]
  /\ options.halt \in BOOLEAN /\ options.dry_run \in BOOLEAN
  /\ prepared \in Seq(Items) /\ results \in Seq(Statuses) /\ got \in Seq(Readings)
  /\ halted \in BOOLEAN /\ breaks \in BOOLEAN
  /\ tree_report = <<>> \/ \E clocks \in [TreeClocks -> Evaluated] : tree_report = <<clocks>>

AllParse == \A k \in DOMAIN file : Parses(Entries[file[k]])

(* The steps after all checks are resolved.                                *)
AfterResolve == {"running", "break", "per_again", "clocks", "judge", "reported"}

MustHalt == options.dry_run = FALSE /\ \E k \in 1 .. Len(prepared) : NeedsHalt(prepared[k])

CheckSteps ==
  /\ checkAt \notin {"load", "failed"} => AllParse
  /\ checkAt \in AfterResolve => Len(prepared) = Len(Chosen)
  /\ checkAt \in {"running", "break"} => MustHalt
  /\ checkAt = "break" => options.halt = TRUE
  /\ checkAt # "failed" => halted = breaks
  /\ breaks = TRUE => StopIsAsked
  /\ checkAt = "reported" =>
       /\ Len(results) = Len(prepared)
       /\ checkExit = 0 <=> \A k \in 1 .. Len(results) : results[k] = "pass"

CheckLists ==
  \E chosen, items, statuses, readings :
    /\ chosen = Chosen /\ items = prepared /\ statuses = results /\ readings = got
    /\ PreparedOk(chosen, items)
    /\ VerdictsOk(chosen, options.dry_run, items, statuses, readings)

CheckInv == CheckType /\ CheckSteps /\ CheckLists

(* The checks chosen are of the file, and parse when those do.             *)
LEMMA ChosenChecks ==
  ASSUME CheckType
  PROVE  /\ Chosen \in Seq(DOMAIN Entries)
         /\ AllParse => \A k \in 1 .. Len(Chosen) : Parses(Entries[Chosen[k]])
<1>1. PICK n \in Nat : file \in [1 .. n -> DOMAIN Entries]
  BY DEF CheckType
<1> DEFINE S == {k \in DOMAIN file : Selected(Entries[file[k]])}
<1>2. S \in SUBSET (1 .. n) /\ DOMAIN file = 1 .. n
  BY <1>1
<1>3. Chosen = Picked(file, S)
  BY DEF Chosen
<1> HIDE DEF S
<1>4. Picked(file, S) \in Seq(DOMAIN Entries) /\ Len(Picked(file, S)) = Cardinality(S)
  <2>1. \A k \in S : file[k] \in DOMAIN Entries
    BY <1>1, <1>2
  <2>2. PICK Values : Values = DOMAIN Entries
    OBVIOUS
  <2>3. \A k \in S : file[k] \in Values
    BY <2>1, <2>2
  <2>4. Picked(file, S) \in Seq(Values) /\ Len(Picked(file, S)) = Cardinality(S)
    BY <1>2, <2>3, PickedIsSequence
  <2> QED BY <2>2, <2>4
<1>5. \A k \in 1 .. Cardinality(S) :
        Ranked(S, k) \in DOMAIN file /\ Picked(file, S)[k] = file[Ranked(S, k)]
  BY <1>2, RankedIsIn DEF Picked
<1>6. AllParse => \A k \in 1 .. Cardinality(S) : Parses(Entries[Picked(file, S)[k]])
  BY <1>5 DEF AllParse
<1> QED BY <1>3, <1>4, <1>6

(* The file and the options say which checks are chosen.                   *)
LEMMA FileStays ==
  ASSUME UNCHANGED <<file, options>>
  PROVE  Chosen' = Chosen /\ StopIsAsked' = StopIsAsked /\ AllParse' = AllParse
<1>1. Chosen' = Chosen
  BY DEF Chosen, Selected
<1>2. StopIsAsked' = StopIsAsked
  BY <1>1 DEF StopIsAsked
<1>3. AllParse' = AllParse
  BY DEF AllParse
<1> QED BY <1>1, <1>2, <1>3

(* Nothing of a step is left open when the lists stay.                     *)
LEMMA ListsStay ==
  ASSUME CheckInv, UNCHANGED <<file, options, prepared, results, got>>
  PROVE  CheckLists' /\ Chosen' = Chosen /\ StopIsAsked' = StopIsAsked /\ AllParse' = AllParse
<1>1. Chosen' = Chosen /\ StopIsAsked' = StopIsAsked /\ AllParse' = AllParse
  BY FileStays
<1>2. CheckLists'
  BY <1>1 DEF CheckInv, CheckLists
<1> QED BY <1>1, <1>2

(* The command stops the core only as StopIsAsked says.                    *)
LEMMA StopsAsAsked ==
  ASSUME CheckInv, checkAt = "break"
  PROVE  StopIsAsked
<1>1. options.halt = TRUE /\ options.dry_run = FALSE
  BY DEF CheckInv, CheckSteps, MustHalt
<1>2. PICK k \in 1 .. Len(prepared) : NeedsHalt(prepared[k])
  BY DEF CheckInv, CheckSteps, MustHalt
<1>3. Chosen \in Seq(DOMAIN Entries) /\ Len(prepared) <= Len(Chosen)
      /\ IsPrepared(Chosen[k], prepared[k])
  BY ChosenChecks DEF CheckInv, CheckLists, PreparedOk
<1>4. k \in DOMAIN Chosen
  <2>1. prepared \in Seq(Items)
    BY DEF CheckInv, CheckType
  <2> QED BY <1>3, <2>1
<1>5. PICK i : i = Chosen[k]
  OBVIOUS
<1>6. PICK item : item = prepared[k]
  OBVIOUS
<1>7. IsPrepared(i, item) /\ NeedsHalt(item)
  BY <1>2, <1>3, <1>5, <1>6
<1>8. LET read == Entries[i].read IN
        \/ "core" \in DOMAIN read
        \/ "addr" \in DOMAIN read /\ read.addr = "coprocessor"
        \/ /\ "reg" \in DOMAIN read /\ read.reg \in DOMAIN Registers
           /\ Registers[read.reg] = "coprocessor"
  BY <1>7 DEF IsPrepared, NeedsHalt, Reads
<1> QED BY <1>1, <1>4, <1>5, <1>8 DEF StopIsAsked

(* The command begins with nothing resolved and nothing judged.            *)
LEMMA CheckInitOk == CheckAssumption /\ CheckInit => CheckInv
<1> SUFFICES ASSUME CheckAssumption, CheckInit PROVE CheckInv
  OBVIOUS
<1>1. \E n \in Nat : file \in [1 .. n -> DOMAIN Entries]
  <2>1. PICK n \in 0 .. MaxChecks : file \in [1 .. n -> DOMAIN Entries]
    BY DEF CheckInit
  <2>2. n \in Nat
    BY DEF CheckAssumption
  <2> QED BY <2>1, <2>2
<1>2. CheckType
  <2>1. <<>> \in Seq(Items) /\ <<>> \in Seq(Statuses) /\ <<>> \in Seq(Readings)
    OBVIOUS
  <2>2. prepared \in Seq(Items) /\ results \in Seq(Statuses) /\ got \in Seq(Readings)
    BY <2>1 DEF CheckInit
  <2>3. options.halt \in BOOLEAN /\ options.dry_run \in BOOLEAN
    BY DEF CheckInit
  <2>4. halted \in BOOLEAN /\ breaks \in BOOLEAN /\ tree_report = <<>>
    BY DEF CheckInit
  <2> QED BY <1>1, <2>2, <2>3, <2>4 DEF CheckType
<1>3. CheckSteps
  BY DEF CheckInit, CheckSteps, AfterResolve
<1>4. PreparedOk(Chosen, <<>>) /\ VerdictsOk(Chosen, options.dry_run, <<>>, <<>>, <<>>)
  BY <1>2, ChosenChecks DEF PreparedOk, VerdictsOk
<1>5. CheckLists
  BY <1>4 DEF CheckInit, CheckLists
<1> QED BY <1>2, <1>3, <1>5 DEF CheckInv

(* A step that fails ends the command, whatever the core does.             *)
LEMMA FailuresOk ==
  ASSUME CheckInv, CheckFails, UNCHANGED <<file, options>>,
         breaks' \in BOOLEAN, breaks' = TRUE => StopIsAsked
  PROVE  CheckInv'
<1>1. UNCHANGED <<prepared, halted, tree_report, results, got>> /\ checkAt' = "failed"
  BY DEF CheckFails
<1>2. CheckLists' /\ StopIsAsked' = StopIsAsked
  BY <1>1, ListsStay
<1>3. CheckType'
  BY <1>1 DEF CheckInv, CheckType
<1>4. CheckSteps'
  BY <1>1, <1>2 DEF CheckSteps, AfterResolve
<1> QED BY <1>2, <1>3, <1>4 DEF CheckInv

(* A step that only goes on keeps what is known, if it may go there.       *)
LEMMA GoesOk ==
  ASSUME CheckInv, UNCHANGED <<file, options, prepared, results, got, halted, breaks>>,
         checkAt # "failed" \/ checkAt' = "failed",
         checkAt' # "reported",
         tree_report' = <<>> \/ \E clocks \in [TreeClocks -> Evaluated] : tree_report' = <<clocks>>,
         checkAt' \notin {"load", "failed"} => AllParse,
         checkAt' \in AfterResolve => Len(prepared) = Len(Chosen),
         checkAt' \in {"running", "break"} => MustHalt,
         checkAt' = "break" => options.halt = TRUE
  PROVE  CheckInv'
<1>1. CheckLists' /\ StopIsAsked' = StopIsAsked /\ Chosen' = Chosen /\ AllParse' = AllParse
  BY ListsStay
<1>2. CheckType'
  BY DEF CheckInv, CheckType
<1>3. MustHalt' = MustHalt
  BY DEF MustHalt
<1>4. CheckSteps'
  BY <1>1, <1>3 DEF CheckInv, CheckSteps
<1> QED BY <1>1, <1>2, <1>4 DEF CheckInv

(* The steps before and between resolving and judging.                     *)
LEMMA CheckGoesOk ==
  ASSUME CheckInv,
         LoadFile \/ EnsurePer \/ Resolved \/ AskRunning \/ SendBreak \/ EnsureAgain
           \/ EvaluateClocks \/ CoreActs
  PROVE  CheckInv'
<1>1. /\ halted \in BOOLEAN /\ breaks \in BOOLEAN /\ prepared \in Seq(Items)
      /\ options.halt \in BOOLEAN /\ options.dry_run \in BOOLEAN
      /\ tree_report = <<>> \/ \E clocks \in [TreeClocks -> Evaluated] : tree_report = <<clocks>>
  BY DEF CheckInv, CheckType
<1>2. breaks = TRUE => StopIsAsked
  BY DEF CheckInv, CheckSteps
<1>3. ASSUME CheckFails, CheckQuiet PROVE CheckInv'
  BY <1>1, <1>2, <1>3, FailuresOk DEF CheckQuiet
<1>4. ASSUME NEW step, CheckGoes(step), CheckQuiet, checkAt # "failed",
             step \notin {"load", "reported", "failed"}, AllParse,
             step \in AfterResolve => Len(prepared) = Len(Chosen),
             step \in {"running", "break"} => MustHalt,
             step = "break" => options.halt = TRUE
      PROVE  CheckInv'
  <2>1. /\ UNCHANGED <<file, options, prepared, results, got, halted, breaks, tree_report>>
        /\ checkAt' = step
    BY <1>4 DEF CheckGoes, CheckQuiet
  <2> QED BY <1>1, <1>4, <2>1, GoesOk
<1>5. /\ checkAt \notin {"load", "failed"} => AllParse
      /\ checkAt \in AfterResolve => Len(prepared) = Len(Chosen)
      /\ checkAt \in {"running", "break"} => MustHalt
  BY DEF CheckInv, CheckSteps
<1>6. CASE LoadFile
  <2>1. CASE CheckFails
    BY <1>3, <1>6, <2>1 DEF LoadFile
  <2>2. CASE ~CheckFails
    <3>1. AllParse /\ CheckGoes("per") /\ CheckQuiet /\ checkAt = "load"
      BY <1>6, <2>2 DEF LoadFile, AllParse
    <3> QED BY <1>4, <3>1 DEF AfterResolve
  <2> QED BY <2>1, <2>2
<1>7. CASE EnsurePer
  BY <1>3, <1>4, <1>5, <1>7 DEF EnsurePer, AfterResolve
<1>8. CASE Resolved
  <2>1. \/ CheckGoes("clocks")
        \/ /\ CheckGoes("running") /\ ~options.dry_run
           /\ \E k \in DOMAIN prepared : NeedsHalt(prepared[k])
    BY <1>8 DEF Resolved
  <2>2. checkAt = "resolve" /\ Len(prepared) = Len(Chosen) /\ CheckQuiet
    BY <1>8 DEF Resolved
  <2>3. DOMAIN prepared = 1 .. Len(prepared)
    BY <1>1
  <2>4. CheckGoes("clocks") \/ (CheckGoes("running") /\ MustHalt)
    BY <1>1, <2>1, <2>3 DEF MustHalt
  <2> QED BY <1>4, <1>5, <2>2, <2>4
<1>9. CASE AskRunning
  <2>1. /\ CheckQuiet /\ checkAt = "running"
        /\ \/ CheckFails \/ CheckGoes("clocks")
           \/ CheckGoes("break") /\ options.halt
    BY <1>9 DEF AskRunning
  <2> QED BY <1>1, <1>3, <1>4, <1>5, <2>1 DEF AfterResolve
<1>10. CASE SendBreak
  <2>1. checkAt = "break" /\ breaks' = TRUE /\ UNCHANGED <<file, options>> /\ StopIsAsked
    BY <1>10, StopsAsAsked DEF SendBreak
  <2>2. CASE CheckFails
    BY <2>1, <2>2, FailuresOk
  <2>3. CASE ~CheckFails
    <3>1. /\ checkAt' \in {"per_again", "clocks"} /\ halted' = TRUE
          /\ UNCHANGED <<prepared, tree_report, results, checkExit, got>>
      BY <1>10, <2>3 DEF SendBreak
    <3>2. /\ CheckLists' /\ StopIsAsked' = StopIsAsked /\ Chosen' = Chosen
          /\ AllParse' = AllParse
      BY <2>1, <3>1, ListsStay
    <3>3. CheckType'
      BY <2>1, <3>1 DEF CheckInv, CheckType
    <3>4. AllParse /\ Len(prepared) = Len(Chosen)
      BY <1>5, <2>1 DEF AfterResolve
    <3>5. CheckSteps'
      BY <2>1, <3>1, <3>2, <3>4 DEF CheckSteps
    <3> QED BY <3>2, <3>3, <3>5 DEF CheckInv
  <2> QED BY <2>2, <2>3
<1>11. CASE EnsureAgain
  BY <1>3, <1>4, <1>5, <1>11 DEF EnsureAgain, AfterResolve
<1>12. CASE EvaluateClocks
  <2>1. CASE CheckFails
    BY <1>3, <1>12, <2>1 DEF EvaluateClocks
  <2>2. CASE CheckGoes("judge")
    BY <1>4, <1>5, <1>12, <2>2 DEF EvaluateClocks, AfterResolve
  <2>3. CASE ~CheckFails /\ ~CheckGoes("judge")
    <3>1. /\ checkAt = "clocks" /\ checkAt' = "judge"
          /\ tree_report' \in {<<>>} \cup {<<r>> : r \in [TreeClocks -> Evaluated]}
          /\ UNCHANGED <<file, options, prepared, results, got, halted, breaks>>
      BY <1>12, <2>3 DEF EvaluateClocks, CheckQuiet
    <3>2. tree_report' = <<>> \/ \E clocks \in [TreeClocks -> Evaluated] : tree_report' = <<clocks>>
      BY <3>1
    <3>3. AllParse /\ Len(prepared) = Len(Chosen)
      BY <1>5, <3>1 DEF AfterResolve
    <3> QED BY <3>1, <3>2, <3>3, GoesOk
  <2> QED BY <2>1, <2>2, <2>3
<1>13. CASE CoreActs
  <2>1. /\ UNCHANGED <<checkAt, file, options, prepared, results, got, halted, breaks, tree_report>>
        /\ checkAt \notin {"reported", "failed"}
    BY <1>13 DEF CoreActs
  <2>2. checkAt = "break" => options.halt = TRUE
    BY DEF CheckInv, CheckSteps
  <2> QED BY <1>1, <1>5, <2>1, <2>2, GoesOk
<1> QED BY <1>6, <1>7, <1>8, <1>9, <1>10, <1>11, <1>12, <1>13

(* What resolving a check finds is about that check.                       *)
LEMMA PreparedFits ==
  ASSUME NEW i \in DOMAIN Entries, NEW answers, NEW item, item = Prepared(i, answers)
  PROVE  item \in Items /\ IsPrepared(i, item)
<1> DEFINE read  == Entries[i].read
           known == "reg" \in DOMAIN read /\ answers.register /\ read.reg \in DOMAIN Registers
           wrong == \/ "reg" \in DOMAIN read /\ ~known
                    \/ "clock" \in DOMAIN read /\ read.clock \notin TreeClocks
                    \/ ~answers.expect \/ ~ExpectResolves(Entries[i].expect)
<1>1. item = [check |-> i, register |-> IF known THEN Registers[read.reg] ELSE "none",
              error |-> wrong]
  BY DEF Prepared
<1>2. item.check = i /\ item.register = (IF known THEN Registers[read.reg] ELSE "none")
      /\ item.error = wrong
  BY <1>1
<1>3. wrong \in BOOLEAN
  OBVIOUS
<1>4. (IF known THEN Registers[read.reg] ELSE "none") \in Kinds
  BY DEF Kinds
<1>5. item \in Items
  BY <1>1, <1>3, <1>4 DEF Items
<1>6. item.register # "none" => known /\ item.register = Registers[read.reg]
  BY <1>2
<1>7. item.error = FALSE => ~wrong
  BY <1>2
<1>8. ~wrong =>
        /\ ExpectResolves(Entries[i].expect)
        /\ "clock" \in DOMAIN read => read.clock \in TreeClocks
  OBVIOUS
<1> HIDE DEF wrong
<1> QED BY <1>2, <1>5, <1>6, <1>7, <1>8 DEF IsPrepared, Reads

(* Resolving one more check keeps what is known of the others.             *)
LEMMA OneMorePrepared ==
  ASSUME NEW chosen, NEW items \in Seq(Items), NEW item \in Items, PreparedOk(chosen, items),
         Len(items) < Len(chosen), Len(chosen) \in Nat, IsPrepared(chosen[Len(items) + 1], item)
  PROVE  PreparedOk(chosen, Append(items, item))
<1>1. PICK n \in Nat : n = Len(items)
  OBVIOUS
<1>2. PICK more : more = Append(items, item)
  OBVIOUS
<1>3. Len(more) = n + 1 /\ more[n + 1] = item /\ \A k \in 1 .. n : more[k] = items[k]
  BY <1>1, <1>2
<1>4. \A k \in 1 .. n + 1 : IsPrepared(chosen[k], more[k])
  <2>1. \A k \in 1 .. n + 1 : k \in 1 .. n \/ k = n + 1
    OBVIOUS
  <2>2. \A k \in 1 .. n : IsPrepared(chosen[k], items[k])
    BY <1>1 DEF PreparedOk
  <2> QED BY <1>1, <1>3, <2>1, <2>2
<1>5. n + 1 <= Len(chosen)
  BY <1>1
<1> QED BY <1>2, <1>3, <1>4, <1>5 DEF PreparedOk

LEMMA VerdictsStay ==
  ASSUME NEW chosen, NEW dry, NEW items \in Seq(Items), NEW item \in Items,
         NEW statuses \in Seq(Statuses), NEW readings,
         VerdictsOk(chosen, dry, items, statuses, readings)
  PROVE  VerdictsOk(chosen, dry, Append(items, item), statuses, readings)
<1>1. PICK n \in Nat : n = Len(items)
  OBVIOUS
<1>2. PICK m \in Nat : m = Len(statuses)
  OBVIOUS
<1>3. PICK more : more = Append(items, item)
  OBVIOUS
<1>4. Len(more) = n + 1 /\ \A k \in 1 .. n : more[k] = items[k]
  BY <1>1, <1>3
<1>5. m <= n
  BY <1>1, <1>2 DEF VerdictsOk
<1>6. m <= n + 1 /\ \A k \in 1 .. m : k \in 1 .. n
  BY <1>5
<1> QED BY <1>2, <1>3, <1>4, <1>6 DEF VerdictsOk

(* Judging one more check keeps the verdicts on the others.                *)
LEMMA OneMoreVerdict ==
  ASSUME NEW chosen, NEW dry, NEW items \in Seq(Items), NEW statuses \in Seq(Statuses),
         NEW readings \in Seq(Readings), NEW status \in Statuses, NEW reading \in Readings,
         VerdictsOk(chosen, dry, items, statuses, readings), Len(statuses) < Len(items),
         IsVerdict(chosen[Len(statuses) + 1], dry, items[Len(statuses) + 1], status, reading)
  PROVE  VerdictsOk(chosen, dry, items, Append(statuses, status), Append(readings, reading))
<1>1. PICK n \in Nat : n = Len(items)
  OBVIOUS
<1>2. PICK m \in Nat : m = Len(statuses) /\ m = Len(readings)
  BY DEF VerdictsOk
<1>3. PICK s : s = Append(statuses, status)
  OBVIOUS
<1>4. PICK r : r = Append(readings, reading)
  OBVIOUS
<1>5. Len(s) = m + 1 /\ s[m + 1] = status /\ \A k \in 1 .. m : s[k] = statuses[k]
  <2>1. m = Len(statuses)
    BY <1>2
  <2>2. Len(Append(statuses, status)) = m + 1 /\ Append(statuses, status)[m + 1] = status
    BY <2>1
  <2>3. \A k \in 1 .. m : Append(statuses, status)[k] = statuses[k]
    BY <2>1
  <2> QED BY <1>3, <2>2, <2>3
<1>6. Len(r) = m + 1 /\ r[m + 1] = reading /\ \A k \in 1 .. m : r[k] = readings[k]
  BY <1>2, <1>4
<1>7. \A k \in 1 .. m + 1 : IsVerdict(chosen[k], dry, items[k], s[k], r[k])
  <2>1. \A k \in 1 .. m + 1 : k \in 1 .. m \/ k = m + 1
    OBVIOUS
  <2>2. \A k \in 1 .. m : IsVerdict(chosen[k], dry, items[k], statuses[k], readings[k])
    BY <1>2 DEF VerdictsOk
  <2> QED BY <1>2, <1>5, <1>6, <2>1, <2>2
<1>8. m + 1 <= n
  BY <1>1, <1>2
<1> QED BY <1>1, <1>3, <1>4, <1>5, <1>6, <1>7, <1>8 DEF VerdictsOk

LEMMA ResolveCheckOk ==
  ASSUME CheckInv, ResolveCheck
  PROVE  CheckInv'
<1>1. Chosen' = Chosen /\ StopIsAsked' = StopIsAsked /\ AllParse' = AllParse
  BY FileStays DEF ResolveCheck, CheckQuiet
<1>2. CASE CheckFails
  <2>1. UNCHANGED <<file, options>> /\ breaks' = breaks
    BY DEF ResolveCheck, CheckQuiet
  <2>2. breaks \in BOOLEAN /\ (breaks = TRUE => StopIsAsked)
    BY DEF CheckInv, CheckType, CheckSteps
  <2> QED BY <1>2, <2>1, <2>2, FailuresOk
<1>3. CASE ~CheckFails
  <2>1. PICK n \in Nat : n = Len(prepared)
    BY DEF CheckInv, CheckType
  <2>2. Chosen \in Seq(DOMAIN Entries)
    BY ChosenChecks DEF CheckInv
  <2>3. PICK chosen \in Seq(DOMAIN Entries) : chosen = Chosen
    BY <2>2
  <2>4. n < Len(chosen)
    BY <2>1, <2>3 DEF ResolveCheck
  <2>5. PICK i \in DOMAIN Entries : i = chosen[n + 1]
    <3>1. n + 1 \in 1 .. Len(chosen)
      BY <2>4
    <3> QED BY <3>1
  <2>6. PICK answers : prepared' = Append(prepared, Prepared(i, answers))
    BY <1>3, <2>1, <2>3, <2>5 DEF ResolveCheck
  <2>7. PICK item : item = Prepared(i, answers)
    OBVIOUS
  <2>8. item \in Items /\ IsPrepared(i, item)
    BY <2>7, PreparedFits
  <2>9. PICK items \in Seq(Items) : items = prepared
    BY DEF CheckInv, CheckType
  <2>10. PICK statuses \in Seq(Statuses) : statuses = results
    BY DEF CheckInv, CheckType
  <2>11. PreparedOk(chosen, items) /\ VerdictsOk(chosen, options.dry_run, items, statuses, got)
    BY <2>3, <2>9, <2>10 DEF CheckInv, CheckLists
  <2>12. PreparedOk(chosen, Append(items, item))
    <3>1. Len(chosen) \in Nat /\ Len(items) < Len(chosen)
      BY <2>1, <2>4, <2>9
    <3>2. IsPrepared(chosen[Len(items) + 1], item)
      BY <2>1, <2>5, <2>8, <2>9
    <3> QED BY <2>8, <2>11, <3>1, <3>2, OneMorePrepared
  <2>13. VerdictsOk(chosen, options.dry_run, Append(items, item), statuses, got)
    BY <2>8, <2>11, VerdictsStay
  <2>14. /\ checkAt' = "resolve" /\ checkAt = "resolve"
         /\ UNCHANGED <<file, options, halted, breaks, tree_report, results, checkExit, got>>
    BY <1>3 DEF ResolveCheck, CheckQuiet
  <2>15. prepared' = Append(items, item)
    BY <2>6, <2>7, <2>9
  <2>16. CheckLists'
    <3>1. Chosen' = chosen /\ results' = statuses /\ got' = got
      BY <1>1, <2>3, <2>10, <2>14
    <3>2. options' = options
      BY <2>14
    <3> QED BY <2>12, <2>13, <2>15, <3>1, <3>2 DEF CheckLists
  <2>17. prepared' \in Seq(Items)
    BY <2>8, <2>15
  <2>18. CheckType'
    BY <2>14, <2>17 DEF CheckInv, CheckType
  <2>19. CheckSteps'
    BY <1>1, <2>14 DEF CheckInv, CheckSteps, AfterResolve
  <2> QED BY <2>16, <2>18, <2>19 DEF CheckInv
<1> QED BY <1>2, <1>3

(* The check about to be judged.                                           *)
LEMMA CheckToJudge ==
  ASSUME CheckInv, Judging
  PROVE  \E i \in DOMAIN Entries, item \in Items :
           /\ i = Chosen[Len(results) + 1] /\ item = Item
           /\ IsPrepared(i, item) /\ Parses(Entries[i])
<1>1. PICK chosen \in Seq(DOMAIN Entries) : chosen = Chosen
  BY ChosenChecks DEF CheckInv
<1>2. PICK items \in Seq(Items) : items = prepared
  BY DEF CheckInv, CheckType
<1>3. PICK m \in Nat : m = Len(results)
  BY DEF CheckInv, CheckType
<1>4. PreparedOk(chosen, items)
  BY <1>1, <1>2 DEF CheckInv, CheckLists
<1>5. m + 1 \in 1 .. Len(items) /\ m + 1 \in 1 .. Len(chosen)
  <2>1. m < Len(items) /\ Len(items) <= Len(chosen) /\ Len(items) \in Nat /\ Len(chosen) \in Nat
    BY <1>2, <1>3, <1>4 DEF Judging, PreparedOk
  <2> QED BY <2>1
<1>6. IsPrepared(chosen[m + 1], items[m + 1])
  BY <1>4, <1>5 DEF PreparedOk
<1>7. \A k \in 1 .. Len(chosen) : Parses(Entries[chosen[k]])
  <2>1. AllParse
    BY DEF CheckInv, CheckSteps, Judging
  <2> QED BY <1>1, <2>1, ChosenChecks DEF CheckInv
<1>8. Item = items[m + 1]
  BY <1>2, <1>3 DEF Item
<1>9. chosen[m + 1] \in DOMAIN Entries /\ items[m + 1] \in Items /\ Parses(Entries[chosen[m + 1]])
  BY <1>5, <1>7
<1> QED BY <1>1, <1>3, <1>6, <1>8, <1>9

(* A verdict that is about its own check keeps the invariant.              *)
LEMMA JudgedOk ==
  ASSUME CheckInv, Judging, NEW status \in Statuses, NEW reading \in Readings,
         Add(status, reading), UNCHANGED <<checkAt, prepared, halted, tree_report, checkExit>>,
         CheckQuiet,
         NEW i, i = Chosen[Len(results) + 1],
         NEW item, item = Item,
         IsVerdict(i, options.dry_run, item, status, reading)
  PROVE  CheckInv'
<1>1. PICK items \in Seq(Items) : items = prepared
  BY DEF CheckInv, CheckType
<1>2. PICK statuses \in Seq(Statuses) : statuses = results
  BY DEF CheckInv, CheckType
<1>3. PICK readings \in Seq(Readings) : readings = got
  BY DEF CheckInv, CheckType
<1>4. PICK chosen : chosen = Chosen
  OBVIOUS
<1>5. PreparedOk(chosen, items) /\ VerdictsOk(chosen, options.dry_run, items, statuses, readings)
  BY <1>1, <1>2, <1>3, <1>4 DEF CheckInv, CheckLists
<1>6. IsVerdict(chosen[Len(statuses) + 1], options.dry_run, items[Len(statuses) + 1], status,
                reading)
  BY <1>1, <1>2, <1>4 DEF Item
<1>7. Len(statuses) < Len(items)
  BY <1>1, <1>2 DEF Judging
<1>8. VerdictsOk(chosen, options.dry_run, items, Append(statuses, status),
                 Append(readings, reading))
  BY <1>5, <1>6, <1>7, OneMoreVerdict
<1>9. results' = Append(statuses, status) /\ got' = Append(readings, reading)
  BY <1>2, <1>3 DEF Add
<1>10. UNCHANGED <<file, options, breaks>>
  BY DEF CheckQuiet
<1>11. Chosen' = Chosen /\ StopIsAsked' = StopIsAsked /\ AllParse' = AllParse
  BY <1>10, FileStays
<1>12. CheckLists'
  BY <1>1, <1>4, <1>5, <1>8, <1>9, <1>10, <1>11 DEF CheckLists
<1>13. results' \in Seq(Statuses) /\ got' \in Seq(Readings)
  BY <1>9
<1>14. CheckType'
  BY <1>10, <1>13 DEF CheckInv, CheckType
<1>15. checkAt' = "judge" /\ checkAt = "judge"
  BY DEF Judging
<1>16. CheckSteps'
  BY <1>10, <1>11, <1>15 DEF CheckInv, CheckSteps, AfterResolve
<1> QED BY <1>12, <1>14, <1>16 DEF CheckInv

LEMMA JudgeUnreadOk ==
  ASSUME CheckInv, JudgeUnread
  PROVE  CheckInv'
<1>1. PICK i \in DOMAIN Entries, item \in Items :
        i = Chosen[Len(results) + 1] /\ item = Item /\ IsPrepared(i, item)
  BY CheckToJudge DEF JudgeUnread
<1>2. PICK status : status = IF item.error THEN "error" ELSE "pass"
  OBVIOUS
<1>3. PICK reading : reading = <<"unread">>
  OBVIOUS
<1>4. item.error \in BOOLEAN /\ options.dry_run \in BOOLEAN
  BY DEF Items, CheckInv, CheckType
<1>5. item.error = TRUE \/ options.dry_run = TRUE
  BY <1>1, <1>4 DEF JudgeUnread
<1>6. status \in Statuses /\ reading \in Readings /\ reading[1] # "read"
  BY <1>2, <1>3 DEF Statuses, Readings
<1>7. status = "pass" <=> item.error = FALSE
  BY <1>2, <1>4
<1>8. IsVerdict(i, options.dry_run, item, status, reading)
  BY <1>2, <1>3, <1>4, <1>5, <1>6, <1>7 DEF IsVerdict
<1>9. /\ Judging /\ Add(status, reading) /\ CheckQuiet
      /\ UNCHANGED <<checkAt, prepared, halted, tree_report, checkExit>>
  BY <1>1, <1>2, <1>3 DEF JudgeUnread
<1> QED BY <1>1, <1>6, <1>8, <1>9, JudgedOk

(* What is read or fails to be read, when nothing was wrong before.        *)
LEMMA VerdictFits ==
  ASSUME NEW i, NEW item \in Items, NEW dry, NEW status, NEW reading, dry = FALSE,
         item.error = FALSE,
         \/ status = "error" /\ reading = <<"failed">>
         \/ \E word : /\ reading = <<"read", word>>
                      /\ status = "pass" <=> Meets(Entries[i].expect, word)
  PROVE  IsVerdict(i, dry, item, status, reading)
<1>1. CASE status = "error" /\ reading = <<"failed">>
  <2>1. reading[1] = "failed"
    BY <1>1
  <2> QED BY <1>1, <2>1 DEF IsVerdict
<1>2. ASSUME NEW word, reading = <<"read", word>>,
             status = "pass" <=> Meets(Entries[i].expect, word)
      PROVE  IsVerdict(i, dry, item, status, reading)
  <2>1. reading[1] = "read" /\ reading[2] = word /\ reading # <<"unread">>
    BY <1>2
  <2> QED BY <1>2, <2>1 DEF IsVerdict
<1> QED BY <1>1, <1>2

LEMMA JudgeClockOk ==
  ASSUME CheckAssumption, EntriesAssumption, CheckInv, JudgeClock
  PROVE  CheckInv'
<1>1. PICK i \in DOMAIN Entries, item \in Items :
        /\ i = Chosen[Len(results) + 1] /\ item = Item
        /\ IsPrepared(i, item) /\ Parses(Entries[i])
  BY CheckToJudge DEF JudgeClock
<1>2. /\ Judging /\ CheckQuiet
      /\ UNCHANGED <<checkAt, prepared, halted, tree_report, checkExit>>
  BY DEF JudgeClock
<1>3. item.error = FALSE /\ options.dry_run = FALSE /\ item.check = i /\ Reads(i, "clock")
  BY <1>1 DEF JudgeClock, Items, CheckInv, CheckType, IsPrepared
<1>4. PICK expect : expect = Entries[i].expect
  OBVIOUS
<1>5. ParseClockExpect(expect) /\ Entries[i].read.clock \in TreeClocks
  BY <1>1, <1>3, <1>4 DEF Parses, Reads, IsPrepared
<1>6. CASE tree_report = <<>>
  <2>1. Add("error", <<"failed">>)
    BY <1>6 DEF JudgeClock
  <2>2. "error" \in Statuses /\ <<"failed">> \in Readings
    BY DEF Statuses, Readings
  <2>3. IsVerdict(i, options.dry_run, item, "error", <<"failed">>)
    BY <1>3, VerdictFits
  <2> QED BY <1>1, <1>2, <2>1, <2>2, <2>3, JudgedOk
<1>7. CASE tree_report # <<>>
  <2>1. PICK clocks \in [TreeClocks -> Evaluated] : tree_report = <<clocks>>
    BY <1>7 DEF CheckInv, CheckType
  <2>2. PICK clock \in Evaluated : clock = tree_report[1][Entries[i].read.clock]
    BY <1>5, <2>1
  <2>3. PICK status :
          status = CASE clock.state = "error" -> "error"
                     [] clock.state # "error" /\ Matches(expect, clock) -> "pass"
                     [] OTHER -> "fail"
    OBVIOUS
  <2>4. Add(CASE clock.state = "error" -> "error"
              [] clock.state # "error" /\ Matches(expect, clock) -> "pass"
              [] OTHER -> "fail", <<"read", clock>>)
    BY <1>1, <1>3, <1>4, <1>7, <2>2 DEF JudgeClock
  <2>5. Add(status, <<"read", clock>>)
    BY <2>3, <2>4
  <2>6. status \in Statuses /\ <<"read", clock>> \in Readings
    BY <2>3 DEF Statuses, Readings
  <2>7. status = "pass" <=> Meets(expect, clock)
    <3>1. clock.state # "error" /\ Matches(expect, clock) <=> Meets(expect, clock)
      BY <1>4, <1>5, MatchesIfMeets
    <3>2. status = "pass" <=> clock.state # "error" /\ Matches(expect, clock)
      <4>1. CASE clock.state = "error"
        BY <2>3, <4>1
      <4>2. CASE clock.state # "error" /\ Matches(expect, clock)
        BY <2>3, <4>2
      <4>3. CASE clock.state # "error" /\ ~Matches(expect, clock)
        BY <2>3, <4>3
      <4> QED BY <4>1, <4>2, <4>3
    <3> QED BY <3>1, <3>2
  <2>8. IsVerdict(i, options.dry_run, item, status, <<"read", clock>>)
    BY <1>3, <1>4, <2>7, VerdictFits
  <2> QED BY <1>1, <1>2, <2>5, <2>6, <2>8, JudgedOk
<1> QED BY <1>6, <1>7

LEMMA JudgeValueOk ==
  ASSUME CheckAssumption, PowersOfTwo, EntriesAssumption, CheckInv, JudgeValue
  PROVE  CheckInv'
<1>1. PICK i \in DOMAIN Entries, item \in Items :
        /\ i = Chosen[Len(results) + 1] /\ item = Item
        /\ IsPrepared(i, item) /\ Parses(Entries[i])
  BY CheckToJudge DEF JudgeValue
<1>2. Judging /\ CheckQuiet
  BY DEF JudgeValue
<1>3. item.error = FALSE /\ options.dry_run = FALSE /\ item.check = i /\ ~Reads(i, "clock")
  BY <1>1 DEF JudgeValue, Items, CheckInv, CheckType, IsPrepared
<1>4. PICK expect : expect = Entries[i].expect
  OBVIOUS
<1>5. ParseExpect(expect) /\ ExpectResolves(expect)
  BY <1>1, <1>3, <1>4 DEF Parses, Reads, IsPrepared
<1>6. CASE CheckFails
  <2>1. UNCHANGED <<file, options>> /\ breaks' = breaks
    BY <1>2 DEF CheckQuiet
  <2>2. breaks \in BOOLEAN /\ (breaks = TRUE => StopIsAsked)
    BY DEF CheckInv, CheckType, CheckSteps
  <2> QED BY <1>6, <2>1, <2>2, FailuresOk
<1>7. CASE Add("error", <<"failed">>) /\ ~CheckFails
  <2>1. "error" \in Statuses /\ <<"failed">> \in Readings
    BY DEF Statuses, Readings
  <2>2. IsVerdict(i, options.dry_run, item, "error", <<"failed">>)
    BY <1>3, VerdictFits
  <2>3. UNCHANGED <<checkAt, prepared, halted, tree_report, checkExit>>
    BY <1>7 DEF JudgeValue
  <2> QED BY <1>1, <1>2, <1>7, <2>1, <2>2, <2>3, JudgedOk
<1>8. CASE ~CheckFails /\ ~Add("error", <<"failed">>)
  <2>1. /\ \E word \in U64 :
             Add(IF Holds(expect, word) THEN "pass" ELSE "fail", <<"read", word>>)
        /\ UNCHANGED <<checkAt, prepared, halted, tree_report, checkExit>>
    BY <1>1, <1>3, <1>4, <1>8 DEF JudgeValue
  <2>2. PICK word \in U64 :
          Add(IF Holds(expect, word) THEN "pass" ELSE "fail", <<"read", word>>)
    BY <2>1
  <2>3. PICK status : status = IF Holds(expect, word) THEN "pass" ELSE "fail"
    OBVIOUS
  <2>4. Add(status, <<"read", word>>)
    BY <2>2, <2>3
  <2>5. status \in Statuses /\ <<"read", word>> \in Readings
    BY <2>3 DEF Statuses, Readings
  <2>6. Holds(expect, word) <=> Meets(expect, word)
    BY <1>4, <1>5, HoldsIfMeets
  <2>7. status = "pass" <=> Meets(expect, word)
    BY <2>3, <2>6
  <2>8. IsVerdict(i, options.dry_run, item, status, <<"read", word>>)
    BY <1>3, <1>4, <2>7, VerdictFits
  <2> QED BY <1>1, <1>2, <2>1, <2>4, <2>5, <2>8, JudgedOk
<1> QED BY <1>6, <1>7, <1>8

LEMMA ReportOk ==
  ASSUME CheckInv, Report
  PROVE  CheckInv'
<1>1. /\ UNCHANGED <<prepared, halted, tree_report, results, got, file, options, breaks>>
      /\ checkAt = "judge" /\ checkAt' = "reported" /\ Len(results) = Len(prepared)
  BY DEF Report, CheckQuiet
<1>2. CheckLists' /\ Chosen' = Chosen /\ StopIsAsked' = StopIsAsked /\ AllParse' = AllParse
  BY <1>1, ListsStay
<1>3. CheckType'
  BY <1>1 DEF CheckInv, CheckType
<1>4. DOMAIN results = 1 .. Len(results)
  BY DEF CheckInv, CheckType
<1>5. checkExit' = 0 <=> \A k \in 1 .. Len(results) : results[k] = "pass"
  BY <1>4 DEF Report
<1>6. CheckSteps'
  BY <1>1, <1>2, <1>5 DEF CheckInv, CheckSteps, AfterResolve
<1> QED BY <1>2, <1>3, <1>6 DEF CheckInv

(* What the invariant says of a report is the property.                    *)
LEMMA CheckInvMeansOwn == CheckInv => VerdictsAreOwn
<1> SUFFICES ASSUME CheckInv PROVE VerdictsAreOwn
  OBVIOUS
<1>1. PICK chosen, items, statuses, readings :
        /\ chosen = Chosen /\ items = prepared /\ statuses = results /\ readings = got
        /\ PreparedOk(chosen, items)
        /\ VerdictsOk(chosen, options.dry_run, items, statuses, readings)
  BY DEF CheckInv, CheckLists
<1>2. /\ items \in Seq(Items) /\ statuses \in Seq(Statuses) /\ readings \in Seq(Readings)
      /\ options.dry_run \in BOOLEAN
  BY <1>1 DEF CheckInv, CheckType
<1>3. DOMAIN statuses = 1 .. Len(statuses) /\ DOMAIN readings = 1 .. Len(statuses)
  BY <1>1, <1>2 DEF VerdictsOk
<1>4. ASSUME NEW k \in DOMAIN statuses
      PROVE  /\ statuses[k] = "pass" <=>
                  IF options.dry_run THEN ~items[k].error
                  ELSE readings[k][1] = "read" /\ Meets(Entries[chosen[k]].expect, readings[k][2])
             /\ statuses[k] = "fail" => readings[k][1] = "read"
             /\ readings[k] = <<"unread">> <=> options.dry_run \/ items[k].error
  <2>1. IsVerdict(chosen[k], options.dry_run, items[k], statuses[k], readings[k])
    BY <1>1, <1>3 DEF VerdictsOk
  <2>2. items[k].error \in BOOLEAN
    <3>1. k \in 1 .. Len(items)
      <4>1. Len(statuses) <= Len(items) /\ Len(items) \in Nat /\ Len(statuses) \in Nat
        BY <1>1, <1>2 DEF VerdictsOk
      <4> QED BY <1>3, <4>1
    <3>2. items[k] \in Items
      BY <1>2, <3>1
    <3> QED BY <3>2 DEF Items
  <2> QED BY <1>2, <2>1, <2>2 DEF IsVerdict
<1>5. options.dry_run => \A k \in DOMAIN readings : readings[k] = <<"unread">>
  BY <1>3, <1>4
<1>6. checkAt = "reported" =>
        /\ Len(results) = Len(Chosen) /\ halted = breaks
        /\ checkExit = 0 <=> \A k \in 1 .. Len(results) : results[k] = "pass"
  BY DEF CheckInv, CheckSteps, AfterResolve
<1>7. breaks => StopIsAsked
  BY DEF CheckInv, CheckSteps, CheckType
<1> QED BY <1>1, <1>3, <1>4, <1>5, <1>6, <1>7 DEF VerdictsAreOwn

(* The verdicts of `debug check` are about their own checks, whatever the  *)
(* file, the target, the failures of calls and the core do.                *)
THEOREM VerdictsAreTheirOwn ==
  ASSUME CheckAssumption, PowersOfTwo, EntriesAssumption
  PROVE  CheckSpec => []VerdictsAreOwn
<1>1. CheckInit => CheckInv
  BY CheckInitOk
<1>2. CheckInv /\ [CheckNext]_checkVars => CheckInv'
  <2> SUFFICES ASSUME CheckInv, [CheckNext]_checkVars PROVE CheckInv'
    OBVIOUS
  <2>1. CASE LoadFile \/ EnsurePer \/ Resolved \/ AskRunning \/ SendBreak \/ EnsureAgain
               \/ EvaluateClocks \/ CoreActs
    BY <2>1, CheckGoesOk
  <2>2. CASE ResolveCheck
    BY <2>2, ResolveCheckOk
  <2>3. CASE JudgeUnread
    BY <2>3, JudgeUnreadOk
  <2>4. CASE JudgeClock
    BY <2>4, JudgeClockOk
  <2>5. CASE JudgeValue
    BY <2>5, JudgeValueOk
  <2>6. CASE Report
    BY <2>6, ReportOk
  <2>7. CASE UNCHANGED checkVars
    <3>1. UNCHANGED <<file, options, prepared, results, got, checkAt, halted, tree_report,
                      checkExit, breaks>>
      BY <2>7 DEF checkVars
    <3>2. CheckLists' /\ Chosen' = Chosen /\ StopIsAsked' = StopIsAsked /\ AllParse' = AllParse
      BY <3>1, ListsStay
    <3>3. CheckType'
      BY <3>1 DEF CheckInv, CheckType
    <3>4. MustHalt' = MustHalt
      BY <3>1 DEF MustHalt
    <3>5. CheckSteps'
      BY <3>1, <3>2, <3>4 DEF CheckInv, CheckSteps
    <3> QED BY <3>2, <3>3, <3>5 DEF CheckInv
  <2> QED BY <2>1, <2>2, <2>3, <2>4, <2>5, <2>6, <2>7 DEF CheckNext
<1> QED BY <1>1, <1>2, CheckInvMeansOwn, PTL DEF CheckSpec

-----------------------------------------------------------------------------
(***************************************************************************)
(* reg NAME.                                                               *)

(* The members of a list are those of another at some positions.           *)
IsMadeOf(few, from, S) ==
  /\ Len(few) \in Nat /\ DOMAIN few = 1 .. Len(few)
  /\ \A k \in DOMAIN few : \E i \in S : few[k] = from[i]
  /\ \A i \in S : \E k \in DOMAIN few : few[k] = from[i]

LEMMA PickedMembers ==
  ASSUME NEW n \in Nat, NEW S \in SUBSET (1 .. n), NEW from
  PROVE  IsMadeOf(Picked(from, S), from, S)
<1>0. PICK picked : picked = Picked(from, S)
  OBVIOUS
<1>1. Cardinality(S) \in Nat
  BY PositionsCount
<1>2. \A k \in 1 .. Cardinality(S) : Ranked(S, k) \in S /\ picked[k] = from[Ranked(S, k)]
  BY <1>0, RankedIsIn DEF Picked
<1>3. Len(picked) = Cardinality(S) /\ DOMAIN picked = 1 .. Cardinality(S)
  <2>1. PICK Values : Values = {from[i] : i \in S}
    OBVIOUS
  <2>2. \A i \in S : from[i] \in Values
    BY <2>1
  <2>3. Picked(from, S) \in Seq(Values) /\ Len(Picked(from, S)) = Cardinality(S)
    BY <2>2, PickedIsSequence
  <2> QED BY <1>0, <2>3
<1>4. ASSUME NEW i \in S PROVE \E k \in 1 .. Cardinality(S) : picked[k] = from[i]
  <2>1. PICK k \in 1 .. Cardinality(S) : Ranked(S, k) = i
    BY RankedBy
  <2> QED BY <1>2, <2>1
<1> QED BY <1>0, <1>1, <1>2, <1>3, <1>4 DEF IsMadeOf

(* Leaving out what was in the list before leaves its members.             *)
LEMMA UniqueMembers ==
  ASSUME NEW n \in Nat, NEW from, DOMAIN from = 1 .. n
  PROVE  IsMadeOf(Unique(from), from, 1 .. n)
<1>0. PICK S : S = {k \in 1 .. n : \A j \in 1 .. k - 1 : from[j] # from[k]}
  OBVIOUS
<1>9. PICK few : few = Unique(from)
  OBVIOUS
<1>1. few = Picked(from, S)
  BY <1>0, <1>9 DEF Unique
<1>2. S \in SUBSET (1 .. n)
  BY <1>0
<1>3. \A i \in 1 .. n : \E s \in S : from[s] = from[i]
  <2> TAKE i \in 1 .. n
  <2> DEFINE same == {j \in 1 .. n : from[j] = from[i]}
  <2>1. same \in SUBSET Nat /\ i \in same
    OBVIOUS
  <2>2. PICK s \in same : \A j \in same : s <= j
    <3> HIDE DEF same
    <3> QED BY <2>1, EarliestIsIn
  <2>3. ASSUME NEW j \in 1 .. s - 1 PROVE from[j] # from[s]
    <3>1. j \in 1 .. n /\ ~(s <= j)
      BY <2>2
    <3> QED BY <2>2, <3>1
  <2> QED BY <1>0, <2>2, <2>3
<1>4. \A s \in S : s \in 1 .. n
  BY <1>2
<1>5. IsMadeOf(few, from, S)
  BY <1>1, <1>2, PickedMembers
<1>6. ASSUME NEW i \in 1 .. n PROVE \E k \in DOMAIN few : few[k] = from[i]
  <2>1. PICK s \in S : from[s] = from[i]
    BY <1>3
  <2> QED BY <1>5, <2>1 DEF IsMadeOf
<1> QED BY <1>4, <1>5, <1>6, <1>9 DEF IsMadeOf

(* The file, PowerView's view of it, and the name stay.                    *)
LookupWorldOk ==
  /\ name \in Names
  /\ \E n \in Nat : definitions \in [1 .. n -> PerDefinitions]
  /\ visible \in SUBSET DOMAIN definitions
  /\ \A i, j \in DOMAIN definitions :
       definitions[i].address = definitions[j].address /\ definitions[i].address # None
         => content[i] = content[j]

(* Candidates are of the definitions of the register, and all are there.   *)
LEMMA FindMembers ==
  ASSUME LookupWorldOk, NEW reg, NEW part
  PROVE  /\ Len(Find(reg, part)) \in Nat
         /\ DOMAIN Find(reg, part) = 1 .. Len(Find(reg, part))
         /\ \A k \in DOMAIN Find(reg, part) : \E j \in DOMAIN definitions :
              /\ definitions[j].register = reg
              /\ Find(reg, part)[k] = Candidate(definitions[j], part)
         /\ \A j \in DOMAIN definitions : definitions[j].register = reg =>
              \E k \in DOMAIN Find(reg, part) :
                Find(reg, part)[k] = Candidate(definitions[j], part)
<1> PICK hits : hits = Find(reg, part)
  OBVIOUS
<1>1. PICK n \in Nat : DOMAIN definitions = 1 .. n
  BY DEF LookupWorldOk
<1>0. PICK all : all = definitions
  OBVIOUS
<1> DEFINE S == {i \in DOMAIN definitions : definitions[i].register = reg}
<1>2. PICK named : named = Picked(definitions, S)
  OBVIOUS
<1>3. S \in SUBSET (1 .. n)
  BY <1>1
<1>4. hits = Unique([i \in DOMAIN named |-> Candidate(named[i], part)])
  BY <1>2 DEF Find
<1>5. \A i \in S : i \in DOMAIN definitions /\ definitions[i].register = reg
  OBVIOUS
<1>6. \A j \in DOMAIN definitions : definitions[j].register = reg => j \in S
  OBVIOUS
<1> HIDE DEF S
<1>7. IsMadeOf(named, all, S)
  BY <1>0, <1>2, <1>3, PickedMembers
<1>8. PICK m \in Nat : m = Len(named)
  BY <1>7 DEF IsMadeOf
<1>9. PICK list : list = [i \in DOMAIN named |-> Candidate(named[i], part)]
  OBVIOUS
<1>10. DOMAIN list = 1 .. m /\ \A k \in 1 .. m : list[k] = Candidate(named[k], part)
  BY <1>7, <1>8, <1>9 DEF IsMadeOf
<1>11. IsMadeOf(hits, list, 1 .. m)
  BY <1>4, <1>9, <1>10, UniqueMembers
<1>12. ASSUME NEW k \in DOMAIN hits
       PROVE  \E j \in DOMAIN definitions :
                definitions[j].register = reg /\ hits[k] = Candidate(definitions[j], part)
  <2>1. PICK i \in 1 .. m : hits[k] = list[i]
    BY <1>11 DEF IsMadeOf
  <2>2. PICK j \in S : named[i] = definitions[j]
    BY <1>0, <1>7, <1>8 DEF IsMadeOf
  <2>3. hits[k] = Candidate(definitions[j], part)
    BY <1>10, <2>1, <2>2
  <2> QED BY <1>5, <2>3
<1>13. ASSUME NEW j \in DOMAIN definitions, definitions[j].register = reg
       PROVE  \E k \in DOMAIN hits : hits[k] = Candidate(definitions[j], part)
  <2>1. PICK i \in 1 .. m : named[i] = definitions[j]
    BY <1>0, <1>6, <1>7, <1>8, <1>13 DEF IsMadeOf
  <2>2. PICK k \in DOMAIN hits : hits[k] = list[i]
    BY <1>11 DEF IsMadeOf
  <2>3. hits[k] = Candidate(definitions[j], part)
    BY <1>10, <2>1, <2>2
  <2> QED BY <2>3
<1> QED BY <1>11, <1>12, <1>13 DEF IsMadeOf

(* What a candidate says of its definition.                                *)
LEMMA CandidateSays ==
  ASSUME NEW it, NEW sub
  PROVE  /\ Candidate(it, sub).address = it.address
         /\ Candidate(it, sub).trees = it.trees
         /\ Candidate(it, sub).path =
              Path(FALSE, it.trees \o <<it.register>> \o (IF sub = None THEN <<>> ELSE <<sub>>))
         /\ sub # None /\ sub \in DOMAIN it.fields =>
              Candidate(it, sub).choices = it.fields[sub]
         /\ Candidate(it, sub).choices # None \/ Candidate(it, sub).field_definition # None =>
              sub # None /\ sub \in DOMAIN it.fields
  BY DEF Candidate

(* The address they share is that of every definition named.               *)
LEMMA SharedByAll ==
  ASSUME LookupWorldOk, SharedAddress(Scan) # None
  PROVE  /\ \A j \in Named : definitions[j].address = SharedAddress(Scan)
         /\ RegisterAndField # None
         /\ \E j \in Named : Scan[1] = Candidate(definitions[j], RegisterAndField.field)
<1>1. Scan # <<>>
  BY DEF SharedAddress
<1>2. on_disk /\ RegisterAndField # None
  BY <1>1 DEF Scan
<1>3. PICK register, field : register = RegisterAndField.register /\ field = RegisterAndField.field
  OBVIOUS
<1>4. PICK hits : hits = Find(register, field) /\ hits = Scan
  BY <1>2, <1>3 DEF Scan
<1>5. /\ Len(hits) \in Nat /\ DOMAIN hits = 1 .. Len(hits)
      /\ \A k \in DOMAIN hits : \E j \in DOMAIN definitions :
           definitions[j].register = register /\ hits[k] = Candidate(definitions[j], field)
      /\ \A j \in DOMAIN definitions : definitions[j].register = register =>
           \E k \in DOMAIN hits : hits[k] = Candidate(definitions[j], field)
  <2>1. /\ Len(Find(register, field)) \in Nat
        /\ DOMAIN Find(register, field) = 1 .. Len(Find(register, field))
        /\ \A k \in DOMAIN Find(register, field) : \E j \in DOMAIN definitions :
             /\ definitions[j].register = register
             /\ Find(register, field)[k] = Candidate(definitions[j], field)
        /\ \A j \in DOMAIN definitions : definitions[j].register = register =>
             \E k \in DOMAIN Find(register, field) :
               Find(register, field)[k] = Candidate(definitions[j], field)
    BY FindMembers
  <2> QED BY <1>4, <2>1
<1>6. /\ \A k \in DOMAIN hits : hits[k].address = hits[1].address
      /\ SharedAddress(Scan) = hits[1].address
  BY <1>4 DEF SharedAddress
<1>7. \A j \in Named : j \in DOMAIN definitions /\ definitions[j].register = register
  BY <1>2, <1>3 DEF Named
<1>8. \A j \in DOMAIN definitions : definitions[j].register = register => j \in Named
  BY <1>2, <1>3 DEF Named
<1>9. ASSUME NEW j \in Named PROVE definitions[j].address = SharedAddress(Scan)
  <2>1. PICK k \in DOMAIN hits : hits[k] = Candidate(definitions[j], field)
    BY <1>5, <1>7
  <2>2. hits[k].address = definitions[j].address
    <3>1. PICK d : d = definitions[j]
      OBVIOUS
    <3>2. Candidate(d, field).address = d.address
      BY CandidateSays
    <3> QED BY <2>1, <3>1, <3>2
  <2> QED BY <1>6, <2>2
<1>10. 1 \in DOMAIN hits
  <2>1. Len(hits) # 0
    BY <1>1, <1>4, <1>5
  <2> QED BY <1>5, <2>1
<1>11. PICK j \in DOMAIN definitions :
         definitions[j].register = register /\ hits[1] = Candidate(definitions[j], field)
  BY <1>5, <1>10
<1> QED BY <1>2, <1>3, <1>4, <1>8, <1>9, <1>11

(* Paths as lists of elements.                                             *)
LEMMA PathOfRegister ==
  ASSUME NEW T, NEW t \in Seq(T), NEW r \in T
  PROVE  /\ t \o <<r>> \in Seq(T) /\ Len(t \o <<r>>) = Len(t) + 1
         /\ Above(t \o <<r>>) = t /\ Leaf(t \o <<r>>) = r
<1>1. PICK e : e = t \o <<r>>
  OBVIOUS
<1>2. PICK n \in Nat : n = Len(t)
  OBVIOUS
<1>3. e \in Seq(T) /\ Len(e) = n + 1 /\ e[n + 1] = r /\ \A k \in 1 .. n : e[k] = t[k]
  BY <1>1, <1>2
<1>4. SubSeq(e, 1, n) = t
  <2>1. SubSeq(e, 1, n) \in Seq(T) /\ Len(SubSeq(e, 1, n)) = n
    BY <1>2, <1>3
  <2>2. \A k \in 1 .. n : SubSeq(e, 1, n)[k] = t[k]
    BY <1>2, <1>3
  <2> QED BY <1>2, <2>1, <2>2, SeqEqual
<1>5. Len(e) - 1 = n
  BY <1>3
<1> QED BY <1>1, <1>2, <1>3, <1>4, <1>5 DEF Above, Leaf

(* A path that ends with a field of the register of t and r.               *)
IsFieldOf(e, t, r) ==
  /\ Len(e) = Len(t) + 2 /\ e = t \o <<r>> \o <<Leaf(e)>>
  /\ e[Len(e) - 1] = r /\ SubSeq(e, 1, Len(e) - 2) = t

LEMMA PathOfField ==
  ASSUME NEW T, NEW t \in Seq(T), NEW r \in T, NEW e \in Seq(T), Above(e) = t \o <<r>>
  PROVE  IsFieldOf(e, t, r) /\ Leaf(e) \in T
<1>1. PICK n \in Nat, m \in Nat : n = Len(t) /\ m = Len(e)
  OBVIOUS
<1>0. PICK full : full = t \o <<r>>
  OBVIOUS
<1>2. /\ full \in Seq(T) /\ Len(full) = n + 1 /\ full[n + 1] = r
      /\ \A k \in 1 .. n : full[k] = t[k]
  BY <1>0, <1>1
<1>3. SubSeq(e, 1, m - 1) = full /\ Len(SubSeq(e, 1, m - 1)) = n + 1
  BY <1>0, <1>1, <1>2 DEF Above
<1>4. m = n + 2
  <2>1. CASE m = 0
    <3>1. SubSeq(e, 1, m - 1) = <<>>
      BY <1>1, <2>1
    <3>2. Len(<<>>) = 0
      OBVIOUS
    <3> QED BY <1>3, <3>1, <3>2
  <2>2. CASE m # 0
    <3>1. Len(SubSeq(e, 1, m - 1)) = m - 1
      BY <1>1, <2>2
    <3> QED BY <1>3, <3>1
  <2> QED BY <2>1, <2>2
<1>5. \A k \in 1 .. n + 1 : e[k] = full[k]
  <2>1. \A k \in 1 .. n + 1 : SubSeq(e, 1, m - 1)[k] = e[k]
    BY <1>1, <1>4
  <2> QED BY <1>3, <2>1
<1>6. e[n + 1] = r /\ Leaf(e) = e[n + 2] /\ \A k \in 1 .. n + 2 : e[k] \in T
  <2>1. n + 1 \in 1 .. n + 1
    OBVIOUS
  <2>2. e[n + 1] = r
    BY <1>2, <1>5, <2>1
  <2>3. Leaf(e) = e[n + 2]
    BY <1>1, <1>4 DEF Leaf
  <2>4. \A k \in 1 .. m : e[k] \in T
    BY <1>1
  <2> QED BY <1>4, <2>2, <2>3, <2>4
<1>12. e[n + 2] \in T
  <2>1. n + 2 \in 1 .. n + 2
    OBVIOUS
  <2> QED BY <1>6, <2>1
<1>7. PICK whole : whole = t \o <<r>> \o <<Leaf(e)>>
  OBVIOUS
<1>8. /\ whole \in Seq(T) /\ Len(whole) = n + 2 /\ whole[n + 1] = r /\ whole[n + 2] = Leaf(e)
      /\ \A k \in 1 .. n : whole[k] = t[k]
  BY <1>1, <1>6, <1>7, <1>12
<1>9. e = whole
  <2>1. \A k \in 1 .. n + 2 : k \in 1 .. n \/ k = n + 1 \/ k = n + 2
    OBVIOUS
  <2>2. \A k \in 1 .. n : e[k] = t[k]
    BY <1>2, <1>5
  <2>3. \A k \in 1 .. n + 2 : e[k] = whole[k]
    BY <1>6, <1>8, <2>1, <2>2
  <2> QED BY <1>1, <1>4, <1>8, <2>3, SeqEqual
<1>10. SubSeq(e, 1, n) = t
  <2>1. SubSeq(e, 1, n) \in Seq(T) /\ Len(SubSeq(e, 1, n)) = n
    <3>1. \A k \in 1 .. n : e[k] \in T
      BY <1>6
    <3>2. /\ SubSeq(e, 1, n) \in Seq(T)
          /\ Len(SubSeq(e, 1, n)) = IF 1 <= n THEN n - 1 + 1 ELSE 0
      BY <3>1, SubSeqProperties
    <3>3. n = (IF 1 <= n THEN n - 1 + 1 ELSE 0)
      OBVIOUS
    <3> QED BY <3>2, <3>3
  <2>2. \A k \in 1 .. n : SubSeq(e, 1, n)[k] = t[k]
    BY <1>1, <1>2, <1>4, <1>5
  <2> QED BY <1>1, <2>1, <2>2, SeqEqual
<1>11. m - 1 = n + 1 /\ m - 2 = n
  BY <1>4
<1> QED BY <1>1, <1>4, <1>6, <1>7, <1>9, <1>10, <1>11, <1>12 DEF IsFieldOf

(* A path: whether the file is searched for it, and its elements.         *)
Paths == [searched : BOOLEAN, elements : Seq(STRING)]

(* What it is for a path to mean a definition.                             *)
MeansIt(path, d) ==
  \/ path.searched /\ path.elements = <<d.register>>
  \/ /\ path.searched /\ Len(path.elements) = 2 /\ path.elements[1] = d.register
     /\ path.elements[2] \in DOMAIN d.fields
  \/ ~path.searched /\ path.elements = d.trees \o <<d.register>>
  \/ /\ ~path.searched /\ Above(path.elements) = d.trees \o <<d.register>>
     /\ Leaf(path.elements) \in DOMAIN d.fields

LEMMA MeantSays ==
  ASSUME LookupWorldOk, NEW path, NEW i \in Meant(path)
  PROVE  i \in visible /\ \E d \in PerDefinitions : d = definitions[i] /\ MeansIt(path, d)
<1>1. i \in visible /\ MeansIt(path, definitions[i])
  BY DEF Meant, MeansIt
<1>2. definitions[i] \in PerDefinitions
  BY <1>1 DEF LookupWorldOk
<1> QED BY <1>1, <1>2

(* A path with a value means one definition.                               *)
LEMMA MeantIsOne ==
  ASSUME LookupWorldOk, NEW path, Cardinality(Meant(path)) = 1
  PROVE  \E i \in visible : Meant(path) = {i}
<1>1. PICK n \in Nat : DOMAIN definitions = 1 .. n
  BY DEF LookupWorldOk
<1>2. PICK S : S = Meant(path)
  OBVIOUS
<1>3. S \subseteq visible /\ S \subseteq 1 .. n
  BY <1>1, <1>2 DEF Meant, LookupWorldOk
<1>4. IsFiniteSet(S)
  <2>1. IsFiniteSet(1 .. n)
    BY FS_Interval
  <2> QED BY <1>3, <2>1, FS_Subset
<1>5. \E i : S = {i}
  BY <1>2, <1>4, FS_Singleton
<1> QED BY <1>2, <1>3, <1>5

(* A definition of the register asked for is named.                        *)
LEMMA NamedBy ==
  ASSUME LookupWorldOk, NEW i \in visible, RegisterAndField # None,
         definitions[i].register = RegisterAndField.register
  PROVE  i \in Named
BY DEF Named, LookupWorldOk

(* The first path tried stands for the register of the name.               *)
LEMMA FirstPathIsNamed ==
  ASSUME LookupWorldOk, RegisterAndField # None, NEW i \in visible,
         Meant(PerCandidates[1]) = {i}
  PROVE  i \in Named
<1>1. PICK path : path = PerCandidates[1]
  OBVIOUS
<1>2. ~name.quoted /\ RegisterAndField.register = name.elements[1]
  BY DEF RegisterAndField
<1>3. path.searched /\ path.elements = name.elements
  BY <1>1, <1>2 DEF PerCandidates, Path
<1>4. i \in Meant(path)
  BY <1>1
<1>5. PICK d \in PerDefinitions : d = definitions[i] /\ MeansIt(path, d)
  BY <1>4, MeantSays
<1>6. d.register = path.elements[1]
  <2>1. \/ path.elements = <<d.register>>
        \/ path.elements[1] = d.register
    BY <1>3, <1>5 DEF MeansIt
  <2> QED BY <2>1
<1> QED BY <1>2, <1>3, <1>5, <1>6, NamedBy

(* In a file of distinct paths, no field's is a register's.                 *)
LEMMA DistinctPaths ==
  ASSUME PathsAreDistinct, NEW i \in DOMAIN definitions, NEW j \in DOMAIN definitions,
         NEW d, d = definitions[i], NEW e, e = definitions[j], NEW field \in DOMAIN d.fields
  PROVE  d.trees \o <<d.register>> \o <<field>> # e.trees \o <<e.register>>
BY DEF PathsAreDistinct

(* The path of a definition stands for its register, if paths are distinct. *)
LEMMA CandidatePathIsNamed ==
  ASSUME LookupWorldOk, RegisterAndField # None, NEW j \in Named,
         NEW path, path = Candidate(definitions[j], RegisterAndField.field).path,
         RegisterAndField.field # None =>
           RegisterAndField.field \in DOMAIN definitions[j].fields
  PROVE  /\ path \in Paths
         /\ PathsAreDistinct => \A i \in visible : Meant(path) = {i} => i \in Named
<1>1. PICK e : e = definitions[j] /\ e \in PerDefinitions /\ j \in DOMAIN definitions
  BY DEF LookupWorldOk, Named
<1>2. PICK field : field = RegisterAndField.field
  OBVIOUS
<1>3. e.register = RegisterAndField.register
  BY <1>1 DEF Named
<1>4. PICK T : T = STRING
  OBVIOUS
<1>5. e.trees \in Seq(T) /\ e.register \in T /\ DOMAIN e.fields \subseteq T
  BY <1>1, <1>4, LookupAssumption
<1>6. PICK trees, register, fields :
        trees = e.trees /\ register = e.register /\ fields = DOMAIN e.fields
  OBVIOUS
<1>7. PICK full : full = trees \o <<register>>
  OBVIOUS
<1>8. full \in Seq(T) /\ Len(full) = Len(trees) + 1 /\ Above(full) = trees /\ Leaf(full) = register
  BY <1>5, <1>6, <1>7, PathOfRegister
<1>9. /\ field = None => path = Path(FALSE, full)
      /\ field # None => path = Path(FALSE, full \o <<field>>) /\ field \in fields
  <2>1. path = Candidate(e, field).path
    BY <1>1, <1>2
  <2>2. path = Path(FALSE, trees \o <<register>> \o (IF field = None THEN <<>> ELSE <<field>>))
    BY <1>6, <2>1, CandidateSays
  <2>3. full \o <<>> = full
    BY <1>8
  <2> QED BY <1>1, <1>2, <1>6, <1>7, <2>2, <2>3
<1>10. path \in Paths
  <2>1. CASE field = None
    <3>1. full \in Seq(STRING)
      BY <1>4, <1>8
    <3>2. Path(FALSE, full) \in Paths
      BY <3>1 DEF Paths, Path
    <3> QED BY <1>9, <2>1, <3>2
  <2>2. CASE field # None
    <3>1. full \o <<field>> \in Seq(T)
      BY <1>5, <1>6, <1>8, <1>9, <2>2
    <3>2. full \o <<field>> \in Seq(STRING)
      BY <1>4, <3>1
    <3>3. Path(FALSE, full \o <<field>>) \in Paths
      BY <3>2 DEF Paths, Path
    <3> QED BY <1>9, <2>2, <3>3
  <2> QED BY <2>1, <2>2
<1>11. ASSUME PathsAreDistinct, NEW i \in visible, Meant(path) = {i} PROVE i \in Named
  <2>1. i \in Meant(path) /\ i \in DOMAIN definitions
    BY <1>11 DEF LookupWorldOk
  <2>2. PICK d \in PerDefinitions : d = definitions[i] /\ MeansIt(path, d)
    BY <2>1, MeantSays
  <2>3. PICK elements : elements = path.elements
    OBVIOUS
  <2>4. ~path.searched /\ elements \in Seq(T)
    <3>1. path.searched = FALSE
      BY <1>9 DEF Path
    <3> QED BY <1>4, <1>10, <2>3, <3>1 DEF Paths
  <2>5. PICK there, called, parts :
          there = d.trees /\ called = d.register /\ parts = DOMAIN d.fields
    OBVIOUS
  <2>6. there \in Seq(T) /\ called \in T /\ parts \subseteq T
    BY <1>4, <2>2, <2>5, LookupAssumption
  <2>7. \/ elements = there \o <<called>>
        \/ Above(elements) = there \o <<called>> /\ Leaf(elements) \in parts
    BY <2>2, <2>3, <2>4, <2>5 DEF MeansIt
  <2>8. called = register
    <3>1. CASE field = None
      <4>1. elements = full
        BY <1>9, <2>3, <3>1 DEF Path
      <4>2. CASE elements = there \o <<called>>
        BY <1>8, <2>6, <4>1, <4>2, PathOfRegister
      <4>3. CASE Above(elements) = there \o <<called>> /\ Leaf(elements) \in parts
        <5>1. IsFieldOf(elements, there, called)
          BY <2>4, <2>6, <4>3, PathOfField
        <5>2. there \o <<called>> \o <<Leaf(elements)>> # full
          BY <1>1, <1>6, <1>7, <1>11, <2>1, <2>2, <2>5, <4>3, DistinctPaths
        <5> QED BY <4>1, <5>1, <5>2 DEF IsFieldOf
      <4> QED BY <2>7, <4>2, <4>3
    <3>2. CASE field # None
      <4>1. elements = full \o <<field>> /\ field \in fields
        BY <1>9, <2>3, <3>2 DEF Path
      <4>2. CASE elements = there \o <<called>>
        <5>1. full \o <<field>> # there \o <<called>>
          BY <1>1, <1>6, <1>7, <1>11, <2>1, <2>2, <2>5, <4>1, DistinctPaths
        <5> QED BY <4>1, <4>2, <5>1
      <4>3. CASE Above(elements) = there \o <<called>> /\ Leaf(elements) \in parts
        <5>1. Above(elements) = full
          BY <1>5, <1>6, <1>8, <4>1, PathOfRegister
        <5> QED BY <1>8, <2>6, <4>3, <5>1, PathOfRegister
      <4> QED BY <2>7, <4>2, <4>3
    <3> QED BY <3>1, <3>2
  <2> QED BY <1>3, <1>6, <2>2, <2>5, <2>8, NamedBy
<1> QED BY <1>10, <1>11

(* A path of two elements or more: those before its last two, and these.   *)
LEMMA PathSplit ==
  ASSUME NEW T, NEW e \in Seq(T), Len(e) >= 2
  PROVE  e = SubSeq(e, 1, Len(e) - 2) \o <<e[Len(e) - 1]>> \o <<e[Len(e)]>>
<1>1. PICK m \in Nat : m = Len(e)
  OBVIOUS
<1>2. PICK n \in Nat : m = n + 2
  <2>1. m - 2 \in Nat /\ m = (m - 2) + 2
    BY <1>1
  <2> QED BY <2>1
<1>3. m - 1 = n + 1 /\ m - 2 = n
  BY <1>2
<1>4. \A k \in 1 .. n + 2 : e[k] \in T
  <2>1. \A k \in 1 .. m : e[k] \in T
    BY <1>1
  <2> QED BY <1>2, <2>1
<1>5. PICK t : t = SubSeq(e, 1, n)
  OBVIOUS
<1>6. t \in Seq(T) /\ Len(t) = n /\ \A k \in 1 .. n : t[k] = e[k]
  <2>1. \A k \in 1 .. n : e[k] \in T
    BY <1>4
  <2>2. /\ SubSeq(e, 1, n) \in Seq(T)
        /\ Len(SubSeq(e, 1, n)) = IF 1 <= n THEN n - 1 + 1 ELSE 0
    BY <2>1, SubSeqProperties
  <2>3. n = (IF 1 <= n THEN n - 1 + 1 ELSE 0)
    OBVIOUS
  <2>4. \A k \in 1 .. n : SubSeq(e, 1, n)[k] = e[k]
    BY <1>1, <1>2
  <2> QED BY <1>5, <2>2, <2>3, <2>4
<1>7. e[n + 1] \in T /\ e[n + 2] \in T
  <2>1. n + 1 \in 1 .. n + 2 /\ n + 2 \in 1 .. n + 2
    OBVIOUS
  <2> QED BY <1>4, <2>1
<1>8. PICK whole : whole = t \o <<e[n + 1]>> \o <<e[n + 2]>>
  OBVIOUS
<1>9. PICK a \in T, b \in T : a = e[n + 1] /\ b = e[n + 2]
  BY <1>7
<1>10. /\ whole \in Seq(T) /\ Len(whole) = n + 2 /\ whole[n + 1] = a /\ whole[n + 2] = b
       /\ \A k \in 1 .. n : whole[k] = t[k]
  <2>1. PICK front : front = t \o <<a>>
    OBVIOUS
  <2>2. /\ front \in Seq(T) /\ Len(front) = n + 1 /\ front[n + 1] = a
        /\ \A k \in 1 .. n : front[k] = t[k]
    BY <1>6, <2>1
  <2>3. whole = front \o <<b>>
    BY <1>8, <1>9, <2>1
  <2> QED BY <2>2, <2>3
<1>11. \A k \in 1 .. n + 2 : e[k] = whole[k]
  <2>1. \A k \in 1 .. n + 2 : k \in 1 .. n \/ k = n + 1 \/ k = n + 2
    OBVIOUS
  <2> QED BY <1>6, <1>9, <1>10, <2>1
<1>12. e = whole
  BY <1>1, <1>2, <1>10, <1>11, SeqEqual
<1> QED BY <1>1, <1>2, <1>3, <1>5, <1>8, <1>12

(* The choice text of a path is that of every definition that it may mean. *)
LEMMA FieldChoiceIsThatOf ==
  ASSUME LookupWorldOk, NEW path \in Paths, NEW v, FieldChoice(path, v) # None,
         NEW i \in visible, Meant(path) = {i}, NEW text, text.text = FieldChoice(path, v)
  PROVE  IsChoiceOf(text, path, v, i)
<1>1. i \in Meant(path) /\ i \in DOMAIN definitions
  BY DEF LookupWorldOk
<1>2. PICK d \in PerDefinitions : d = definitions[i] /\ MeansIt(path, d)
  BY <1>1, MeantSays
<1>3. PICK T : T = STRING
  OBVIOUS
<1>4. PICK elements \in Seq(T) : elements = path.elements
  BY <1>3 DEF Paths
<1>5. PICK count \in Nat : count = Len(elements)
  BY <1>4
<1>6. PICK register, field : register = elements[count - 1] /\ field = elements[count]
  OBVIOUS
<1>7. PICK all : all = Find(register, field)
  OBVIOUS
<1>8. /\ Len(all) \in Nat /\ DOMAIN all = 1 .. Len(all)
      /\ \A k \in DOMAIN all : \E j \in DOMAIN definitions :
           definitions[j].register = register /\ all[k] = Candidate(definitions[j], field)
      /\ \A j \in DOMAIN definitions : definitions[j].register = register =>
           \E k \in DOMAIN all : all[k] = Candidate(definitions[j], field)
  <2>1. /\ Len(Find(register, field)) \in Nat
        /\ DOMAIN Find(register, field) = 1 .. Len(Find(register, field))
        /\ \A k \in DOMAIN Find(register, field) : \E j \in DOMAIN definitions :
             /\ definitions[j].register = register
             /\ Find(register, field)[k] = Candidate(definitions[j], field)
        /\ \A j \in DOMAIN definitions : definitions[j].register = register =>
             \E k \in DOMAIN Find(register, field) :
               Find(register, field)[k] = Candidate(definitions[j], field)
    BY FindMembers
  <2> QED BY <1>7, <2>1
<1>9. PICK trees : trees = SubSeq(elements, 1, count - 2)
  OBVIOUS
<1>10. PICK S : S = {k \in DOMAIN all : (path.searched /\ count = 2) \/ all[k].trees = trees}
  OBVIOUS
<1>11. PICK meant : meant = FieldsMeant(path) /\ meant = Picked(all, S)
  BY <1>4, <1>5, <1>6, <1>7, <1>9, <1>10 DEF FieldsMeant
<1>12. IsMadeOf(meant, all, S)
  <2>1. PICK n \in Nat : DOMAIN all = 1 .. n
    BY <1>8
  <2>2. S \in SUBSET (1 .. n)
    BY <1>10, <2>1
  <2> QED BY <1>11, <2>1, <2>2, PickedMembers
<1>13. /\ ~(count < 2) /\ meant # <<>> /\ meant[1].choices # None
       /\ \A k \in DOMAIN meant : meant[k].choices = meant[1].choices
       /\ FieldChoice(path, v) = ChoiceFor(meant[1].choices, v)
  BY <1>4, <1>5, <1>11 DEF FieldChoice
<1>14. 1 \in DOMAIN meant
  <2>1. Len(meant) \in Nat /\ DOMAIN meant = 1 .. Len(meant)
    BY <1>12 DEF IsMadeOf
  <2>2. Len(meant) # 0
    BY <1>13, <2>1
  <2> QED BY <2>1, <2>2
<1>15. PICK k0 \in S : meant[1] = all[k0]
  BY <1>12, <1>14 DEF IsMadeOf
<1>16. PICK e \in PerDefinitions, j0 \in DOMAIN definitions :
         /\ e = definitions[j0] /\ e.register = register /\ all[k0] = Candidate(e, field)
  <2>1. k0 \in DOMAIN all
    BY <1>10, <1>15
  <2>2. PICK j \in DOMAIN definitions :
          definitions[j].register = register /\ all[k0] = Candidate(definitions[j], field)
    BY <1>8, <2>1
  <2>3. definitions[j] \in PerDefinitions
    BY DEF LookupWorldOk
  <2> QED BY <2>2, <2>3
<1>17. field # None /\ field \in DOMAIN e.fields
  <2>1. Candidate(e, field).choices # None
    BY <1>13, <1>15, <1>16
  <2> QED BY <2>1, CandidateSays
<1>18. count >= 2 /\ field = Leaf(elements)
  BY <1>5, <1>6, <1>13 DEF Leaf
<1>19. ASSUME PathsAreDistinct PROVE IsField(path, d)
  <2>1. CASE path.searched /\ path.elements = <<d.register>>
    <3>1. Len(elements) = 1
      BY <1>4, <2>1
    <3> QED BY <1>5, <1>18, <3>1
  <2>2. CASE /\ path.searched /\ Len(path.elements) = 2 /\ path.elements[1] = d.register
             /\ path.elements[2] \in DOMAIN d.fields
    BY <2>2 DEF IsField
  <2>3. CASE ~path.searched /\ path.elements = d.trees \o <<d.register>>
    <3>1. e.trees = trees
      <4>1. all[k0].trees = trees
        BY <1>10, <1>15, <2>3
      <4>2. Candidate(e, field).trees = e.trees
        BY CandidateSays
      <4> QED BY <1>16, <4>1, <4>2
    <3>2. elements = trees \o <<register>> \o <<field>>
      BY <1>5, <1>6, <1>9, <1>18, PathSplit
    <3>3. e.trees \o <<e.register>> \o <<field>> # d.trees \o <<d.register>>
      BY <1>1, <1>2, <1>16, <1>17, <1>19, DistinctPaths
    <3> QED BY <1>4, <1>16, <2>3, <3>1, <3>2, <3>3
  <2>4. CASE /\ ~path.searched /\ Above(path.elements) = d.trees \o <<d.register>>
             /\ Leaf(path.elements) \in DOMAIN d.fields
    <3>1. d.trees \in Seq(T) /\ d.register \in T
      BY <1>3, LookupAssumption
    <3>2. IsFieldOf(elements, d.trees, d.register)
      BY <1>4, <2>4, <3>1, PathOfField
    <3> QED BY <1>4, <2>4, <3>2 DEF IsFieldOf, IsField
  <2> QED BY <1>2, <2>1, <2>2, <2>3, <2>4 DEF MeansIt
<1>20. ASSUME NEW j \in DOMAIN definitions, MayBeFieldOf(path, definitions[j])
       PROVE  /\ field \in DOMAIN definitions[j].fields /\ definitions[j].fields[field] # None
              /\ FieldChoice(path, v) = ChoiceFor(definitions[j].fields[field], v)
  <2>1. PICK f \in PerDefinitions : f = definitions[j]
    BY DEF LookupWorldOk
  <2>2. f.trees \in Seq(T) /\ f.register \in T
    BY <1>3, LookupAssumption
  <2>3. f.register = register /\ ((path.searched /\ count = 2) \/ f.trees = trees)
    <3>1. CASE path.searched /\ elements = <<f.register, field>>
      <4>1. count = 2 /\ elements[1] = f.register
        BY <1>5, <3>1
      <4> QED BY <1>6, <3>1, <4>1
    <3>2. CASE elements = f.trees \o <<f.register>> \o <<field>>
      <4>1. PICK full : full = f.trees \o <<f.register>>
        OBVIOUS
      <4>2. full \in Seq(T)
        BY <2>2, <4>1, PathOfRegister
      <4>3. field \in T
        <5>1. count \in 1 .. count
          BY <1>18
        <5>2. \A k \in 1 .. count : elements[k] \in T
          BY <1>5
        <5> QED BY <1>6, <5>1, <5>2
      <4>4. Above(elements) = full
        BY <3>2, <4>1, <4>2, <4>3, PathOfRegister
      <4>5. IsFieldOf(elements, f.trees, f.register)
        BY <2>2, <4>1, <4>4, PathOfField
      <4> QED BY <1>5, <1>6, <1>9, <4>5 DEF IsFieldOf
    <3> QED BY <1>4, <1>18, <1>20, <2>1, <3>1, <3>2 DEF MayBeFieldOf
  <2>4. PICK k \in DOMAIN all : all[k] = Candidate(f, field)
    BY <1>8, <2>1, <2>3
  <2>5. Candidate(f, field).trees = f.trees
    BY CandidateSays
  <2>6. k \in S
    BY <1>10, <2>3, <2>4, <2>5
  <2>7. PICK m \in DOMAIN meant : meant[m] = all[k]
    BY <1>12, <2>6 DEF IsMadeOf
  <2>8. Candidate(f, field).choices = meant[1].choices
    BY <1>13, <2>4, <2>7
  <2>9. field \in DOMAIN f.fields
    BY <1>13, <2>8, CandidateSays
  <2>10. Candidate(f, field).choices = f.fields[field]
    BY <1>17, <2>9, CandidateSays
  <2> QED BY <1>13, <2>1, <2>8, <2>9, <2>10
<1> QED BY <1>2, <1>4, <1>18, <1>19, <1>20 DEF IsChoiceOf

(* The command line's address of a register is that of the PER file, if    *)
(* PowerView told its offset.                                              *)
LEMMA CommandLineAddressOf ==
  ASSUME NEW address \in Addresses, address # None, NEW offset \in Offsets(address)
  PROVE  \/ AddressOfOffset(address, offset) = address
         \/ IsScaled(address) /\ offset # 4 * address.value
<1>1. PICK v \in Nat : v = address.value
  <2>1. address.value \in 0 .. WordSize - 1
    BY DEF Addresses
  <2> QED BY <2>1
<1>2. (4 * v) % 4 = 0 /\ (4 * v) \div 4 = v
  OBVIOUS
<1>3. address = [class |-> address.class, value |-> v]
  <2>1. address = [class |-> address.class, value |-> address.value]
    BY DEF Addresses
  <2> QED BY <1>1, <2>1
<1>4. CASE IsScaled(address) /\ offset = 4 * v
  <2>1. offset % 4 = 0 /\ offset \div 4 = v
    BY <1>2, <1>4
  <2>2. CommandLineAddress(address.class, offset) = [class |-> address.class, value |-> v]
    BY <1>4, <2>1 DEF CommandLineAddress, IsScaled
  <2> QED BY <1>3, <2>2 DEF AddressOfOffset
<1>5. CASE ~IsScaled(address)
  <2>1. offset = v
    BY <1>1, <1>5 DEF Offsets
  <2>2. CommandLineAddress(address.class, offset) = [class |-> address.class, value |-> v]
    BY <1>5, <2>1 DEF CommandLineAddress, IsScaled
  <2> QED BY <1>3, <2>2 DEF AddressOfOffset
<1> QED BY <1>1, <1>4, <1>5

(* What PER.ADDRESS answers, if it does.                                   *)
FromPowerView(path, address, offset) ==
  [path |-> path, address |-> address, offset |-> offset, source |-> "PowerView",
   register_path |-> None, note |-> FALSE]

LEMMA AnsweredAddress ==
  ASSUME LookupWorldOk, NEW path, NEW answer \in PerAddress(path), "error" \notin DOMAIN answer
  PROVE  \E i \in visible, d \in PerDefinitions :
           /\ Meant(path) = {i} /\ d = definitions[i] /\ d.address # None
           /\ \E address, offset :
                /\ answer = FromPowerView(path, address, offset)
                /\ address = d.address \/ (IsScaled(d.address) /\ offset # 4 * d.address.value)
<1>1. PICK S : S = Meant(path)
  OBVIOUS
<1>2. \A text : "error" \in DOMAIN [error |-> text]
  OBVIOUS
<1>3. PICK i : i = CHOOSE j \in S : TRUE
  OBVIOUS
<1>4. PICK d : d = definitions[i]
  OBVIOUS
<1>5. PICK those : those = Offsets(d.address)
  OBVIOUS
<1>6. /\ S # {} /\ ~(Cardinality(S) > 1) /\ d.address # None
      /\ \E offset \in those :
           answer = FromPowerView(path, AddressOfOffset(d.address, offset), offset)
  BY <1>1, <1>2, <1>3, <1>4, <1>5 DEF PerAddress, FromPowerView
<1>7. i \in S
  BY <1>3, <1>6
<1>8. S = {i} /\ i \in visible
  <2>1. PICK n \in Nat : DOMAIN definitions = 1 .. n
    BY DEF LookupWorldOk
  <2>2. S \subseteq visible /\ S \subseteq 1 .. n
    BY <1>1, <2>1 DEF Meant, LookupWorldOk
  <2>3. IsFiniteSet(S)
    <3>1. IsFiniteSet(1 .. n)
      BY FS_Interval
    <3> QED BY <2>2, <3>1, FS_Subset
  <2>4. Cardinality(S) \in Nat /\ Cardinality(S) # 0
    <3>1. Cardinality(S) \in Nat
      BY <2>3, FS_CardinalityType
    <3>2. Cardinality(S) # 0
      BY <1>6, <2>3, FS_EmptySet
    <3> QED BY <3>1, <3>2
  <2>5. Cardinality(S) = 1
    BY <1>6, <2>4
  <2>6. \E x : S = {x}
    BY <2>3, <2>5, FS_Singleton
  <2> QED BY <1>7, <2>2, <2>6
<1>9. d \in PerDefinitions
  BY <1>4, <1>8 DEF LookupWorldOk
<1>10. d.address \in Addresses
  BY <1>6, <1>9, LookupAssumption
<1>11. PICK offset \in those :
         answer = FromPowerView(path, AddressOfOffset(d.address, offset), offset)
  BY <1>6
<1>12. PICK address : address = AddressOfOffset(d.address, offset)
  OBVIOUS
<1>13. address = d.address \/ (IsScaled(d.address) /\ offset # 4 * d.address.value)
  <2>1. PICK true \in Addresses : true = d.address
    BY <1>10
  <2>2. offset \in Offsets(true) /\ true # None /\ address = AddressOfOffset(true, offset)
    BY <1>5, <1>6, <1>11, <1>12, <2>1
  <2>3. PICK given \in Offsets(true) : given = offset
    BY <2>2
  <2>4. AddressOfOffset(true, given) = true \/ (IsScaled(true) /\ given # 4 * true.value)
    BY <2>2, <2>3, CommandLineAddressOf, Zenon
  <2> QED BY <2>1, <2>2, <2>3, <2>4
<1> QED BY <1>1, <1>4, <1>6, <1>8, <1>9, <1>11, <1>12, <1>13

(* What an address reads is what is known there.                           *)
LEMMA ReadOfRegister ==
  ASSUME LookupWorldOk, NEW address, NEW j \in DefinedAt(address), NEW read \in DataLong(address)
  PROVE  read = content[j] % LongSize
<1>1. PICK those : those = DefinedAt(address)
  OBVIOUS
<1>2. those # {} /\ j \in those
  BY <1>1
<1>3. PICK i \in those : read = content[i] % LongSize
  BY <1>1, <1>2 DEF DataLong
<1>4. content[i] = content[j]
  BY <1>1, <1>2, <1>3 DEF DefinedAt, LookupWorldOk
<1> QED BY <1>3, <1>4

(* What `reg NAME` knows after each of its steps.  A resolved name: if     *)
(* PowerView has one definition for its path, it is that definition's.     *)
KnownRegister(register) ==
  /\ register.path \in Paths
  /\ \A i \in visible : Meant(register.path) = {i} => IsRegisterOf(register, i)

(* A value is that of the path.                                            *)
KnownValue(path, v) == v # None /\ v = PerValue(path)

(* A choice text of the file is that of the definitions it may be of.      *)
KnownChoice(path, v, text) ==
  \A i \in visible : Meant(path) = {i} => IsChoiceOf(text, path, v, i)

(* A suggested address is that of every definition of the name.            *)
SuggestedByAll(address) ==
  address # None /\ RegisterAndField # None => \A j \in Named : definitions[j].address = address

(* Several definitions of one register, each with the field asked for.     *)
OneRegister == SharedAddress(Scan) # None /\ SameFieldEverywhere

RegisterKnown ==
  regAt \in {"value", "choice", "check", "shown"} =>
    \E register : register = per_register /\ KnownRegister(register)
ValueKnown ==
  regAt \in {"choice", "check", "shown"} =>
    \E path, v : path = per_register.path /\ v = value /\ KnownValue(path, v)
ChoiceKnown ==
  regAt \in {"check", "shown"} =>
    \E path, v, text : path = per_register.path /\ v = value /\ text = choice
                       /\ KnownChoice(path, v, text)
AddressConfirmed ==
  regAt = "shown" /\ address_check = "confirmed" =>
    \E register, v : register = per_register /\ v = value /\ IsConfirmed(register, v)
SuggestionKnown == \E address : address = explained.suggested /\ SuggestedByAll(address)

RegInv ==
  /\ LookupWorldOk
  /\ regAt = "paths" => tried \in Nat /\ tried + 1 \in 1 .. Len(PerCandidates)
  /\ regAt = "duplicate" => OneRegister
  /\ RegisterKnown /\ ValueKnown /\ ChoiceKnown /\ AddressConfirmed /\ SuggestionKnown
  /\ regAt \notin {"check", "shown", "lost"} => choice = None

LEMMA RegStart ==
  ASSUME RegInit
  PROVE  RegInv
<1>1. LookupWorldOk
  <2>1. PICK n \in 0 .. MaxDefinitions : definitions \in [1 .. n -> PerDefinitions]
    BY DEF RegInit
  <2>2. n \in Nat
    BY <2>1
  <2> QED BY <2>1, <2>2 DEF RegInit, LookupWorldOk
<1>2. tried \in Nat /\ tried + 1 \in 1 .. Len(PerCandidates)
  BY DEF RegInit, PerCandidates
<1>3. SuggestionKnown
  BY DEF RegInit, NotExplained, SuggestionKnown, SuggestedByAll
<1>4. RegisterKnown /\ ValueKnown /\ ChoiceKnown /\ AddressConfirmed
  BY DEF RegInit, RegisterKnown, ValueKnown, ChoiceKnown, AddressConfirmed
<1> QED BY <1>1, <1>2, <1>3, <1>4 DEF RegInit, RegInv

(* The file and the name stay, and with them what is known of a register.  *)
LEMMA WorldStays ==
  ASSUME UNCHANGED lookupWorld
  PROVE  /\ LookupWorldOk <=> LookupWorldOk'
         /\ \A register : KnownRegister(register) <=> KnownRegister(register)'
         /\ \A path, v : KnownValue(path, v) <=> KnownValue(path, v)'
         /\ \A path, v, text : KnownChoice(path, v, text) <=> KnownChoice(path, v, text)'
         /\ \A register, v : IsConfirmed(register, v) <=> IsConfirmed(register, v)'
         /\ \A address : SuggestedByAll(address) <=> SuggestedByAll(address)'
         /\ OneRegister <=> OneRegister'
         /\ PerCandidates' = PerCandidates
<1>1. /\ name' = name /\ definitions' = definitions /\ visible' = visible
      /\ on_disk' = on_disk /\ content' = content
  BY DEF lookupWorld
<1>2. LookupWorldOk <=> LookupWorldOk'
  BY <1>1 DEF LookupWorldOk
<1>3. ASSUME NEW register PROVE KnownRegister(register) <=> KnownRegister(register)'
  BY <1>1 DEF KnownRegister, IsRegisterOf, Meant, Named, RegisterAndField, PathsAreDistinct
<1>4. ASSUME NEW path, NEW v PROVE KnownValue(path, v) <=> KnownValue(path, v)'
  BY <1>1 DEF KnownValue, PerValue, Meant
<1>5. ASSUME NEW path, NEW v, NEW text
      PROVE  KnownChoice(path, v, text) <=> KnownChoice(path, v, text)'
  BY <1>1 DEF KnownChoice, IsChoiceOf, Meant, MayBeFieldOf, PathsAreDistinct
<1>6. ASSUME NEW register, NEW v PROVE IsConfirmed(register, v) <=> IsConfirmed(register, v)'
  BY <1>1 DEF IsConfirmed, DefinedAt, PerValue, Meant
<1>7. ASSUME NEW address PROVE SuggestedByAll(address) <=> SuggestedByAll(address)'
  BY <1>1 DEF SuggestedByAll, Named, RegisterAndField
<1>8. OneRegister <=> OneRegister'
  BY <1>1 DEF OneRegister, SharedAddress, SameFieldEverywhere, Scan, RegisterAndField, Find
<1>9. PerCandidates' = PerCandidates
  BY <1>1 DEF PerCandidates
<1> QED BY <1>2, <1>3, <1>4, <1>5, <1>6, <1>7, <1>8, <1>9

LEMMA CandidatesArePaths ==
  ASSUME LookupWorldOk
  PROVE  /\ Len(PerCandidates) \in Nat /\ 1 \in 1 .. Len(PerCandidates)
         /\ \A k \in 1 .. Len(PerCandidates) : PerCandidates[k] \in Paths
<1>1. name.elements \in Seq(STRING)
  BY LookupAssumption DEF LookupWorldOk
<1>2. \A searched \in BOOLEAN : Path(searched, name.elements) \in Paths
  BY <1>1 DEF Path, Paths
<1>3. PICK a, b : a = Path(TRUE, name.elements) /\ b = Path(FALSE, name.elements)
  OBVIOUS
<1>4. a \in Paths /\ b \in Paths
  BY <1>2, <1>3
<1>5. PerCandidates \in {<<a>>, <<a, b>>, <<b, a>>}
  BY <1>3 DEF PerCandidates
<1>6. ASSUME NEW list \in {<<a>>, <<a, b>>, <<b, a>>}
      PROVE  /\ Len(list) \in Nat /\ 1 \in 1 .. Len(list)
             /\ \A k \in 1 .. Len(list) : list[k] \in Paths
  BY <1>4, <1>6
<1> QED BY <1>5, <1>6

(* A register with the address of the PER file.                            *)
LEMMA FoundInFile ==
  ASSUME LookupWorldOk, SharedAddress(Scan) # None, NEW path \in Paths, NEW note,
         PathsAreDistinct => \A i \in visible : Meant(path) = {i} => i \in Named
  PROVE  KnownRegister(FromPerFile(path, note))
<1>1. PICK address : address = SharedAddress(Scan)
  OBVIOUS
<1>2. \A j \in Named : definitions[j].address = address
  BY <1>1, SharedByAll
<1>3. PICK register : register = FromPerFile(path, note)
  OBVIOUS
<1>4. register.path = path /\ register.address = address /\ register.source = "PER file"
  BY <1>1, <1>3 DEF FromPerFile
<1>5. ASSUME NEW i \in visible, Meant(path) = {i} PROVE IsRegisterOf(register, i)
  BY <1>2, <1>4, <1>5 DEF IsRegisterOf
<1> QED BY <1>3, <1>4, <1>5 DEF KnownRegister

(* The path of a duplicate, and PowerView's address for it.                *)
LEMMA DuplicatePath ==
  ASSUME LookupWorldOk, OneRegister, NEW path, path = Scan[1].path
  PROVE  /\ path \in Paths
         /\ PathsAreDistinct => \A i \in visible : Meant(path) = {i} => i \in Named
<1>1. SharedAddress(Scan) # None /\ SameFieldEverywhere
  BY DEF OneRegister
<1>2. PICK j \in Named : Scan[1] = Candidate(definitions[j], RegisterAndField.field)
  BY <1>1, SharedByAll
<1>3. RegisterAndField # None
  BY <1>1, SharedByAll
<1>4. PICK d, field : d = definitions[j] /\ field = RegisterAndField.field
  OBVIOUS
<1>5. field # None => field \in DOMAIN d.fields
  <2>1. field # None => Candidate(d, field).field_definition # None
    BY <1>1, <1>2, <1>4 DEF SameFieldEverywhere
  <2> QED BY <2>1, CandidateSays
<1>6. path = Candidate(definitions[j], RegisterAndField.field).path
  BY <1>2
<1>7. RegisterAndField.field # None =>
        RegisterAndField.field \in DOMAIN definitions[j].fields
  BY <1>4, <1>5
<1> QED BY <1>3, <1>6, <1>7, CandidatePathIsNamed

(* An address in an error is that of all the definitions of the name.      *)
LEMMA SuggestionIsOfAll ==
  ASSUME LookupWorldOk
  PROVE  SuggestedByAll(Explained.suggested)
<1>1. SUFFICES ASSUME Explained.suggested # None, RegisterAndField # None
               PROVE  \A j \in Named : definitions[j].address = Explained.suggested
  BY DEF SuggestedByAll
<1>2. CASE Scan # <<>>
  <2>1. Explained.suggested = SharedAddress(Scan)
    BY <1>1, <1>2 DEF Explained
  <2> QED BY <1>1, <2>1, SharedByAll
<1>3. CASE Scan = <<>> /\ on_disk
  <2>1. PICK register, field : register = RegisterAndField.register /\ field = RegisterAndField.field
    OBVIOUS
  <2>2. Find(register, field) = <<>>
    BY <1>1, <1>3, <2>1 DEF Scan
  <2>3. /\ Len(Find(register, field)) \in Nat
        /\ DOMAIN Find(register, field) = 1 .. Len(Find(register, field))
        /\ \A k \in DOMAIN Find(register, field) : \E j \in DOMAIN definitions :
             /\ definitions[j].register = register
             /\ Find(register, field)[k] = Candidate(definitions[j], field)
        /\ \A j \in DOMAIN definitions : definitions[j].register = register =>
             \E k \in DOMAIN Find(register, field) :
               Find(register, field)[k] = Candidate(definitions[j], field)
    BY FindMembers
  <2>4. DOMAIN <<>> = {}
    OBVIOUS
  <2>5. \A j \in DOMAIN definitions : definitions[j].register # register
    BY <2>2, <2>3, <2>4
  <2>6. \A j \in Named : FALSE
    BY <2>1, <2>5 DEF Named
  <2> QED BY <2>6
<1>4. CASE Scan = <<>> /\ ~on_disk
  <2>1. Explained.suggested \in {SharedAddress(Scan), None}
    BY <1>4 DEF Explained
  <2>2. SharedAddress(Scan) = None
    BY <1>4 DEF SharedAddress
  <2> QED BY <1>1, <2>1, <2>2
<1> QED BY <1>2, <1>3, <1>4

(* The steps of `reg NAME`.                                                *)
LEMMA TryPathKnows ==
  ASSUME RegInv, TryPath
  PROVE  RegInv'
<1>1. LookupWorldOk /\ SuggestionKnown /\ choice = None /\ tried \in Nat
      /\ tried + 1 \in 1 .. Len(PerCandidates)
  BY DEF RegInv, TryPath
<1>2. UNCHANGED lookupWorld /\ explained' = explained /\ choice' = choice
  BY DEF TryPath, Settled
<1>3. LookupWorldOk' /\ SuggestionKnown' /\ PerCandidates' = PerCandidates
  BY <1>1, <1>2, WorldStays DEF SuggestionKnown
<1>4. PICK path : path = PerCandidates[tried + 1]
  OBVIOUS
<1>5. path \in Paths
  BY <1>1, <1>4, CandidatesArePaths
<1>6. PICK answer \in PerAddress(path) \cup {[error |-> "other"]} :
        \/ "error" \notin DOMAIN answer /\ per_register' = answer /\ regAt' = "value"
        \/ /\ tried' = tried + 1
           /\ regAt' = IF tried + 1 = Len(PerCandidates) THEN "reprogram" ELSE "paths"
  BY <1>4 DEF TryPath, Settled
<1>7. CASE "error" \notin DOMAIN answer /\ per_register' = answer /\ regAt' = "value"
  <2>1. "error" \in DOMAIN [error |-> "other"]
    OBVIOUS
  <2>2. answer \in PerAddress(path)
    BY <1>6, <1>7, <2>1
  <2>3. PICK i \in visible, d \in PerDefinitions :
          /\ Meant(path) = {i} /\ d = definitions[i] /\ d.address # None
          /\ \E address, offset :
               /\ answer = FromPowerView(path, address, offset)
               /\ address = d.address \/ (IsScaled(d.address) /\ offset # 4 * d.address.value)
    BY <1>1, <1>7, <2>2, AnsweredAddress
  <2>4. PICK address, offset :
          /\ answer = FromPowerView(path, address, offset)
          /\ address = d.address \/ (IsScaled(d.address) /\ offset # 4 * d.address.value)
    BY <2>3
  <2>5. /\ answer.path = path /\ answer.address = address /\ answer.note = FALSE
        /\ answer.source = "PowerView" /\ answer.offset = offset
    BY <2>4 DEF FromPowerView
  <2>6. KnownRegister(answer)
    <3>1. IsRegisterOf(answer, i)
      BY <2>3, <2>4, <2>5 DEF IsRegisterOf
    <3> QED BY <1>5, <2>3, <2>5, <3>1 DEF KnownRegister
  <2>7. KnownRegister(answer)'
    BY <1>2, <2>6, WorldStays
  <2>8. RegisterKnown' /\ ValueKnown' /\ ChoiceKnown' /\ AddressConfirmed'
    BY <1>7, <2>7 DEF RegisterKnown, ValueKnown, ChoiceKnown, AddressConfirmed
  <2> QED BY <1>1, <1>2, <1>3, <1>7, <2>8 DEF RegInv
<1>8. CASE /\ tried' = tried + 1
           /\ regAt' = IF tried + 1 = Len(PerCandidates) THEN "reprogram" ELSE "paths"
  <2>1. RegisterKnown' /\ ValueKnown' /\ ChoiceKnown' /\ AddressConfirmed'
    BY <1>8 DEF RegisterKnown, ValueKnown, ChoiceKnown, AddressConfirmed
  <2>2. PICK most \in Nat : most = Len(PerCandidates)
    BY <1>1, CandidatesArePaths
  <2>3. regAt' = "paths" => tried' \in Nat /\ tried' + 1 \in 1 .. most
    BY <1>1, <1>8, <2>2
  <2>4. most = Len(PerCandidates')
    BY <1>3, <2>2
  <2>5. (regAt = "paths" => tried \in Nat /\ tried + 1 \in 1 .. Len(PerCandidates))'
    BY <2>3, <2>4
  <2>6. regAt' # "duplicate"
    BY <1>8
  <2> QED BY <1>1, <1>2, <1>3, <2>1, <2>5, <2>6 DEF RegInv
<1> QED BY <1>6, <1>7, <1>8

LEMMA ReProgramKnows ==
  ASSUME RegInv, ReProgram
  PROVE  RegInv'
<1>1. LookupWorldOk /\ SuggestionKnown /\ choice = None
  BY DEF RegInv, ReProgram
<1>2. UNCHANGED lookupWorld /\ explained' = explained /\ choice' = choice
  BY DEF ReProgram
<1>3. LookupWorldOk' /\ SuggestionKnown' /\ PerCandidates' = PerCandidates
  BY <1>1, <1>2, WorldStays DEF SuggestionKnown
<1>4. regAt' = "file" \/ (regAt' = "paths" /\ tried' = 0)
  BY DEF ReProgram
<1>5. RegisterKnown' /\ ValueKnown' /\ ChoiceKnown' /\ AddressConfirmed'
  BY <1>4 DEF RegisterKnown, ValueKnown, ChoiceKnown, AddressConfirmed
<1>6. 1 \in 1 .. Len(PerCandidates')
  BY <1>1, <1>3, CandidatesArePaths
<1>7. (regAt = "paths" => tried \in Nat /\ tried + 1 \in 1 .. Len(PerCandidates))'
  BY <1>4, <1>6
<1> QED BY <1>1, <1>2, <1>3, <1>4, <1>5, <1>7 DEF RegInv

(* A register resolved with the file.                                      *)
LEMMA SettledKnows ==
  ASSUME RegInv, UNCHANGED lookupWorld, choice = None, choice' = choice,
         NEW register, Settled(register), KnownRegister(register)
  PROVE  RegInv'
<1>1. LookupWorldOk /\ SuggestionKnown
  BY DEF RegInv
<1>2. explained' = explained /\ per_register' = register /\ regAt' = "value"
  BY DEF Settled
<1>3. LookupWorldOk' /\ SuggestionKnown' /\ KnownRegister(register)'
  BY <1>1, <1>2, WorldStays DEF SuggestionKnown
<1>4. RegisterKnown' /\ ValueKnown' /\ ChoiceKnown' /\ AddressConfirmed'
  BY <1>2, <1>3 DEF RegisterKnown, ValueKnown, ChoiceKnown, AddressConfirmed
<1> QED BY <1>2, <1>3, <1>4 DEF RegInv

(* A name not resolved.                                                    *)
LEMMA UnresolvedKnows ==
  ASSUME RegInv, UNCHANGED lookupWorld, choice = None, choice' = choice, Unresolved
  PROVE  RegInv'
<1>1. LookupWorldOk
  BY DEF RegInv
<1>2. PICK address : address = Explained.suggested
  OBVIOUS
<1>3. regAt' = "error" /\ explained'.suggested = address
  BY <1>2 DEF Unresolved
<1>4. SuggestedByAll(address)
  BY <1>1, <1>2, SuggestionIsOfAll
<1>5. LookupWorldOk' /\ SuggestedByAll(address)'
  BY <1>1, <1>4, WorldStays
<1>6. SuggestionKnown'
  BY <1>3, <1>5 DEF SuggestionKnown
<1>7. RegisterKnown' /\ ValueKnown' /\ ChoiceKnown' /\ AddressConfirmed'
  BY <1>3 DEF RegisterKnown, ValueKnown, ChoiceKnown, AddressConfirmed
<1> QED BY <1>3, <1>5, <1>6, <1>7 DEF RegInv

LEMMA UseFileKnows ==
  ASSUME RegInv, UseFile
  PROVE  RegInv'
<1>1. LookupWorldOk /\ SuggestionKnown /\ choice = None
  BY DEF RegInv, UseFile
<1>2. UNCHANGED lookupWorld /\ choice' = choice
  BY DEF UseFile
<1>3. \/ SharedAddress(Scan) # None /\ Settled(FromPerFile(PerCandidates[1], FALSE))
      \/ OneRegister /\ regAt' = "duplicate" /\ explained' = explained
      \/ Unresolved
  BY DEF UseFile, OneRegister
<1>4. CASE SharedAddress(Scan) # None /\ Settled(FromPerFile(PerCandidates[1], FALSE))
  <2>1. PICK path : path = PerCandidates[1]
    OBVIOUS
  <2>2. path \in Paths
    BY <1>1, <2>1, CandidatesArePaths
  <2>3. RegisterAndField # None
    BY <1>1, <1>4, SharedByAll
  <2>4. \A i \in visible : Meant(path) = {i} => i \in Named
    BY <1>1, <2>1, <2>3, FirstPathIsNamed
  <2>5. KnownRegister(FromPerFile(path, FALSE))
    BY <1>1, <1>4, <2>2, <2>4, FoundInFile
  <2>6. PICK register : register = FromPerFile(path, FALSE)
    OBVIOUS
  <2>7. Settled(register) /\ KnownRegister(register)
    BY <1>4, <2>1, <2>5, <2>6
  <2> QED BY <1>1, <1>2, <2>7, SettledKnows
<1>5. CASE OneRegister /\ regAt' = "duplicate" /\ explained' = explained
  <2>1. LookupWorldOk' /\ SuggestionKnown' /\ OneRegister'
    BY <1>1, <1>2, <1>5, WorldStays DEF SuggestionKnown
  <2>2. RegisterKnown' /\ ValueKnown' /\ ChoiceKnown' /\ AddressConfirmed'
    BY <1>5 DEF RegisterKnown, ValueKnown, ChoiceKnown, AddressConfirmed
  <2> QED BY <1>1, <1>2, <1>5, <2>1, <2>2 DEF RegInv
<1>6. CASE Unresolved
  BY <1>1, <1>2, <1>6, UnresolvedKnows
<1> QED BY <1>3, <1>4, <1>5, <1>6

LEMMA ReadDuplicateKnows ==
  ASSUME RegInv, ReadDuplicate
  PROVE  RegInv'
<1>1. LookupWorldOk /\ choice = None /\ OneRegister
  BY DEF RegInv, ReadDuplicate
<1>2. UNCHANGED lookupWorld /\ choice' = choice
  BY DEF ReadDuplicate
<1>3. PICK path : path = Scan[1].path
  OBVIOUS
<1>4. /\ path \in Paths
      /\ PathsAreDistinct => \A i \in visible : Meant(path) = {i} => i \in Named
  BY <1>1, <1>3, DuplicatePath
<1>5. SharedAddress(Scan) # None
  BY <1>1 DEF OneRegister
<1>6. PICK answer \in PerAddress(path) \cup {[error |-> "other"]} :
        \/ "error" \notin DOMAIN answer /\ Settled([answer EXCEPT !.note = TRUE])
        \/ Settled(FromPerFile(path, TRUE))
        \/ Unresolved
  BY <1>3 DEF ReadDuplicate
<1>7. CASE "error" \notin DOMAIN answer /\ Settled([answer EXCEPT !.note = TRUE])
  <2>1. "error" \in DOMAIN [error |-> "other"]
    OBVIOUS
  <2>2. answer \in PerAddress(path)
    BY <1>6, <1>7, <2>1
  <2>3. PICK i \in visible, d \in PerDefinitions :
          /\ Meant(path) = {i} /\ d = definitions[i] /\ d.address # None
          /\ \E address, offset :
               /\ answer = FromPowerView(path, address, offset)
               /\ address = d.address \/ (IsScaled(d.address) /\ offset # 4 * d.address.value)
    BY <1>1, <1>7, <2>2, AnsweredAddress
  <2>4. PICK address, offset :
          /\ answer = FromPowerView(path, address, offset)
          /\ address = d.address \/ (IsScaled(d.address) /\ offset # 4 * d.address.value)
    BY <2>3
  <2>5. PICK register : register = [answer EXCEPT !.note = TRUE]
    OBVIOUS
  <2>6. /\ register.path = path /\ register.address = address /\ register.source = "PowerView"
        /\ register.offset = offset
    BY <2>4, <2>5 DEF FromPowerView
  <2>7. \A j, k \in Named : definitions[j].address = definitions[k].address
    <3>1. PICK shared : shared = SharedAddress(Scan)
      OBVIOUS
    <3>2. \A j \in Named : definitions[j].address = shared
      BY <1>1, <1>5, <3>1, SharedByAll
    <3> QED BY <3>2
  <2>8. KnownRegister(register)
    <3>1. IsRegisterOf(register, i)
      BY <1>4, <2>3, <2>4, <2>6, <2>7 DEF IsRegisterOf
    <3> QED BY <1>4, <2>3, <2>6, <3>1 DEF KnownRegister
  <2>9. Settled(register)
    BY <1>7, <2>5
  <2> QED BY <1>1, <1>2, <2>8, <2>9, SettledKnows
<1>8. CASE Settled(FromPerFile(path, TRUE))
  <2>1. KnownRegister(FromPerFile(path, TRUE))
    BY <1>1, <1>4, <1>5, FoundInFile
  <2>2. PICK register : register = FromPerFile(path, TRUE)
    OBVIOUS
  <2>3. Settled(register) /\ KnownRegister(register)
    BY <1>8, <2>1, <2>2
  <2> QED BY <1>1, <1>2, <2>3, SettledKnows
<1>9. CASE Unresolved
  BY <1>1, <1>2, <1>9, UnresolvedKnows
<1> QED BY <1>6, <1>7, <1>8, <1>9

LEMMA ReadValueKnows ==
  ASSUME RegInv, ReadValue
  PROVE  RegInv'
<1>1. LookupWorldOk /\ SuggestionKnown /\ RegisterKnown /\ choice = None
  BY DEF RegInv, ReadValue
<1>2. /\ UNCHANGED lookupWorld /\ explained' = explained /\ choice' = choice
      /\ per_register' = per_register
  BY DEF ReadValue, AfterFound
<1>3. PICK register : register = per_register /\ KnownRegister(register)
  BY <1>1 DEF ReadValue, RegisterKnown
<1>4. LookupWorldOk' /\ SuggestionKnown' /\ KnownRegister(register)'
  BY <1>1, <1>2, <1>3, WorldStays DEF SuggestionKnown
<1>5. \/ regAt' = "choice" /\ PerValue(register.path) # None /\ value' = PerValue(register.path)
      \/ regAt' = "error"
  BY <1>3 DEF ReadValue
<1>6. RegisterKnown' /\ ChoiceKnown' /\ AddressConfirmed'
  BY <1>2, <1>3, <1>4, <1>5 DEF RegisterKnown, ChoiceKnown, AddressConfirmed
<1>7. ValueKnown'
  <2>1. CASE regAt' = "error"
    BY <2>1 DEF ValueKnown
  <2>2. CASE /\ regAt' = "choice" /\ PerValue(register.path) # None
             /\ value' = PerValue(register.path)
    <3>1. PICK path, v : path = register.path /\ v = PerValue(path)
      OBVIOUS
    <3>2. KnownValue(path, v) /\ value' = v
      BY <2>2, <3>1 DEF KnownValue
    <3>3. KnownValue(path, v)'
      BY <1>2, <3>2, WorldStays
    <3>4. per_register'.path = path
      BY <1>2, <1>3, <3>1
    <3> QED BY <3>2, <3>3, <3>4 DEF ValueKnown
  <2> QED BY <1>5, <2>1, <2>2
<1> QED BY <1>1, <1>2, <1>4, <1>5, <1>6, <1>7 DEF RegInv

LEMMA ReadChoiceKnows ==
  ASSUME RegInv, ReadChoice
  PROVE  RegInv'
<1>1. LookupWorldOk /\ SuggestionKnown /\ RegisterKnown /\ ValueKnown /\ choice = None
  BY DEF RegInv, ReadChoice
<1>2. /\ UNCHANGED lookupWorld /\ explained' = explained /\ per_register' = per_register
      /\ value' = value /\ regAt' = "check"
  BY DEF ReadChoice, AfterFound
<1>3. PICK register : register = per_register /\ KnownRegister(register)
  BY <1>1 DEF ReadChoice, RegisterKnown
<1>4. PICK path, v : path = per_register.path /\ v = value /\ KnownValue(path, v)
  BY <1>1 DEF ReadChoice, ValueKnown
<1>5. /\ LookupWorldOk' /\ SuggestionKnown' /\ KnownRegister(register)'
      /\ KnownValue(path, v)'
  BY <1>1, <1>2, <1>3, <1>4, WorldStays DEF SuggestionKnown
<1>6. path \in Paths
  BY <1>3, <1>4 DEF KnownRegister
<1>7. PICK text : text = choice'
  OBVIOUS
<1>8. \/ text = None
      \/ text = [text |-> "PowerView", from_per_file |-> FALSE]
      \/ /\ FieldChoice(path, v) # None
         /\ text = [text |-> FieldChoice(path, v), from_per_file |-> TRUE]
  <2>1. PICK hits : hits = FieldChoice(path, v)
    OBVIOUS
  <2>2. hits = FieldChoice(per_register.path, value)
    BY <1>4, <2>1
  <2>3. \/ choice' = choice
        \/ choice' \in {[text |-> "PowerView", from_per_file |-> FALSE],
                        IF on_disk /\ hits # None
                          THEN [text |-> hits, from_per_file |-> TRUE] ELSE None}
    BY <2>2 DEF ReadChoice
  <2> QED BY <1>1, <1>7, <2>1, <2>3
<1>9. KnownChoice(path, v, text)
  <2>1. CASE text = None
    BY <2>1 DEF KnownChoice, IsChoiceOf
  <2>2. CASE text = [text |-> "PowerView", from_per_file |-> FALSE]
    BY <2>2 DEF KnownChoice, IsChoiceOf
  <2>3. CASE /\ FieldChoice(path, v) # None
             /\ text = [text |-> FieldChoice(path, v), from_per_file |-> TRUE]
    <3>1. text.text = FieldChoice(path, v)
      BY <2>3
    <3>2. ASSUME NEW i \in visible, Meant(path) = {i} PROVE IsChoiceOf(text, path, v, i)
      BY <1>1, <1>6, <2>3, <3>1, <3>2, FieldChoiceIsThatOf
    <3> QED BY <3>2 DEF KnownChoice
  <2> QED BY <1>8, <2>1, <2>2, <2>3
<1>10. KnownChoice(path, v, text)'
  BY <1>2, <1>9, WorldStays
<1>11. per_register'.path = path /\ v = value' /\ register = per_register'
  BY <1>2, <1>3, <1>4
<1>12. RegisterKnown'
  BY <1>5, <1>11 DEF RegisterKnown
<1>13. ValueKnown'
  BY <1>5, <1>11 DEF ValueKnown
<1>14. ChoiceKnown'
  BY <1>7, <1>10, <1>11 DEF ChoiceKnown
<1>15. AddressConfirmed'
  BY <1>2 DEF AddressConfirmed
<1> QED BY <1>2, <1>5, <1>12, <1>13, <1>14, <1>15 DEF RegInv

LEMMA CheckAddressKnows ==
  ASSUME RegInv, CheckAddress
  PROVE  RegInv'
<1>1. LookupWorldOk /\ SuggestionKnown /\ RegisterKnown /\ ValueKnown /\ ChoiceKnown
  BY DEF RegInv
<1>2. /\ UNCHANGED lookupWorld /\ explained' = explained /\ per_register' = per_register
      /\ value' = value /\ choice' = choice /\ regAt' = "shown" /\ regAt = "check"
  BY DEF CheckAddress, AfterFound
<1>3. PICK register : register = per_register /\ KnownRegister(register)
  BY <1>1, <1>2 DEF RegisterKnown
<1>4. PICK path, v, text : /\ path = per_register.path /\ v = value /\ text = choice
                           /\ KnownChoice(path, v, text)
  BY <1>1, <1>2 DEF ChoiceKnown
<1>5. KnownValue(path, v)
  BY <1>1, <1>2, <1>4 DEF ValueKnown
<1>6. /\ LookupWorldOk' /\ SuggestionKnown' /\ KnownRegister(register)'
      /\ KnownValue(path, v)' /\ KnownChoice(path, v, text)'
  BY <1>1, <1>2, <1>3, <1>4, <1>5, WorldStays DEF SuggestionKnown
<1>7. register = per_register' /\ path = per_register'.path /\ v = value' /\ text = choice'
  BY <1>2, <1>3, <1>4
<1>8. ASSUME address_check' = "confirmed"
      PROVE  \E whole \in WholeValues, read \in DataLong(register.address) :
               read = whole % LongSize /\ read \notin {0, Ones} /\ whole # None
  BY <1>3, <1>8 DEF CheckAddress
<1>9. ASSUME address_check' = "confirmed" PROVE IsConfirmed(register, v)
  <2>1. PICK whole \in WholeValues, read \in DataLong(register.address) :
          read = whole % LongSize /\ read \notin {0, Ones} /\ whole # None
    BY <1>8, <1>9
  <2>2. whole = v \/ whole = PerValue(ParentPath(register.path))
    BY <1>3, <1>4, <2>1 DEF WholeValues
  <2>3. \A j \in DefinedAt(register.address) : read = content[j] % LongSize
    BY <1>1, ReadOfRegister
  <2> QED BY <2>1, <2>2, <2>3 DEF IsConfirmed
<1>10. AddressConfirmed'
  <2>1. address_check' = "confirmed" => IsConfirmed(register, v)'
    BY <1>2, <1>9, WorldStays
  <2> QED BY <1>7, <2>1 DEF AddressConfirmed
<1>11. RegisterKnown'
  BY <1>6, <1>7 DEF RegisterKnown
<1>12. ValueKnown'
  BY <1>6, <1>7 DEF ValueKnown
<1>13. ChoiceKnown'
  BY <1>6, <1>7 DEF ChoiceKnown
<1> QED BY <1>2, <1>6, <1>10, <1>11, <1>12, <1>13 DEF RegInv

LEMMA RegLostKnows ==
  ASSUME RegInv, RegLost
  PROVE  RegInv'
<1>1. LookupWorldOk /\ SuggestionKnown
  BY DEF RegInv
<1>2. UNCHANGED lookupWorld /\ explained' = explained /\ regAt' = "lost"
  BY DEF RegLost
<1>3. LookupWorldOk' /\ SuggestionKnown'
  BY <1>1, <1>2, WorldStays DEF SuggestionKnown
<1>4. RegisterKnown' /\ ValueKnown' /\ ChoiceKnown' /\ AddressConfirmed'
  BY <1>2 DEF RegisterKnown, ValueKnown, ChoiceKnown, AddressConfirmed
<1> QED BY <1>2, <1>3, <1>4 DEF RegInv

LEMMA RegNothingKnows ==
  ASSUME RegInv, UNCHANGED lookupVars
  PROVE  RegInv'
<1>1. /\ UNCHANGED lookupWorld /\ explained' = explained /\ per_register' = per_register
      /\ value' = value /\ choice' = choice /\ regAt' = regAt /\ tried' = tried
      /\ address_check' = address_check
  BY DEF lookupVars
<1>2. LookupWorldOk' /\ SuggestionKnown' /\ PerCandidates' = PerCandidates
  BY <1>1, WorldStays DEF RegInv, SuggestionKnown
<1>3. RegisterKnown'
  BY <1>1, WorldStays DEF RegInv, RegisterKnown
<1>4. ValueKnown'
  BY <1>1, WorldStays DEF RegInv, ValueKnown
<1>5. ChoiceKnown'
  BY <1>1, WorldStays DEF RegInv, ChoiceKnown
<1>6. AddressConfirmed'
  BY <1>1, WorldStays DEF RegInv, AddressConfirmed
<1>7. (regAt = "duplicate" => OneRegister)'
  BY <1>1, WorldStays DEF RegInv
<1>8. (regAt = "paths" => tried \in Nat /\ tried + 1 \in 1 .. Len(PerCandidates))'
  <2>1. PICK most : most = Len(PerCandidates)
    OBVIOUS
  <2>2. most = Len(PerCandidates')
    BY <1>2, <2>1
  <2>3. regAt = "paths" => tried \in Nat /\ tried + 1 \in 1 .. most
    BY <2>1 DEF RegInv
  <2> QED BY <1>1, <2>2, <2>3
<1> QED BY <1>1, <1>2, <1>3, <1>4, <1>5, <1>6, <1>7, <1>8 DEF RegInv

(* What is known at the end is what the property says.                     *)
LEMMA KnownIsShown ==
  ASSUME RegInv
  PROVE  ShowsOneRegister
<1>1. LookupWorldOk
  BY DEF RegInv
<1>2. ASSUME regAt = "shown"
      PROVE  \E i \in visible :
               /\ Meant(per_register.path) = {i} /\ value = PerValue(per_register.path)
               /\ IsRegisterOf(per_register, i)
               /\ IsChoiceOf(choice, per_register.path, value, i)
               /\ address_check = "confirmed" => IsConfirmed(per_register, value)
               /\ ShownEntry.address.text = "PER.ADDRESS" => per_register.source = "PowerView"
  <2>1. PICK register : register = per_register /\ KnownRegister(register)
    BY <1>2 DEF RegInv, RegisterKnown
  <2>2. PICK path, v, text : /\ path = per_register.path /\ v = value /\ text = choice
                             /\ KnownChoice(path, v, text)
    BY <1>2 DEF RegInv, ChoiceKnown
  <2>3. KnownValue(path, v)
    BY <1>2, <2>2 DEF RegInv, ValueKnown
  <2>4. v = PerValue(path) /\ Cardinality(Meant(path)) = 1
    BY <2>3 DEF KnownValue, PerValue
  <2>5. PICK i \in visible : Meant(path) = {i}
    BY <1>1, <2>4, MeantIsOne
  <2>6. register.path = path
    BY <2>1, <2>2
  <2>7. IsRegisterOf(register, i)
    BY <2>1, <2>5, <2>6 DEF KnownRegister
  <2>8. IsChoiceOf(text, path, v, i)
    BY <2>2, <2>5 DEF KnownChoice
  <2>9. ShownEntry.address.text = "PER.ADDRESS" => register.source = "PowerView"
    BY <1>2, <2>1 DEF ShownEntry, ShownAddress
  <2>10. address_check = "confirmed" => IsConfirmed(register, v)
    BY <1>2, <2>1, <2>2 DEF RegInv, AddressConfirmed
  <2> QED BY <2>1, <2>2, <2>4, <2>5, <2>7, <2>8, <2>9, <2>10
<1>3. explained.suggested # None /\ RegisterAndField # None =>
        \A j \in Named : definitions[j].address = explained.suggested
  BY DEF RegInv, SuggestionKnown, SuggestedByAll
<1> QED BY <1>2, <1>3 DEF ShowsOneRegister

(* Whichever way a name was resolved, what `reg NAME` shows is of one      *)
(* register, as far as the property says: the value always, the address    *)
(* if PowerView told its offset or the file has it, the choice text of the *)
(* file if the path is not also that of another register.                  *)
THEOREM RegistersAreOne == RegSpec => []ShowsOneRegister
<1>1. RegInit => RegInv
  BY RegStart
<1>2. RegInv /\ [RegNext]_lookupVars => RegInv'
  BY TryPathKnows, ReProgramKnows, UseFileKnows, ReadDuplicateKnows, ReadValueKnows,
     ReadChoiceKnows, CheckAddressKnows, RegLostKnows, RegNothingKnows DEF RegNext
<1>3. RegInv => ShowsOneRegister
  BY KnownIsShown
<1> QED BY <1>1, <1>2, <1>3, PTL DEF RegSpec
=============================================================================
