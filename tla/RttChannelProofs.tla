--------------------------- MODULE RttChannelProofs ---------------------------
(***************************************************************************)
(* RttChannel implements the byte streams of RttStreams, for rings of any  *)
(* size and any number of bytes and resets.  The argument is about the     *)
(* operation of the host in progress: unless a reset cut it in two, the    *)
(* bytes it has read are the first of the ring, and those it has written   *)
(* are the first of its input, in free cells behind the ring's contents.   *)
(***************************************************************************)
EXTENDS RttChannel, SequenceTheorems, TLAPS

(***************************************************************************)
(* Offsets of a ring.                                                      *)

(* The offset of byte k behind offset o.                                   *)
Pos(o, k) == (o + k - 1) % Size

LEMMA ModSmall ==
  ASSUME NEW n \in Nat, n > 0, NEW a \in 0 .. n - 1
  PROVE  a % n = a
OBVIOUS

LEMMA ModLarge ==
  ASSUME NEW n \in Nat, n > 0, NEW a \in n .. 2 * n - 1
  PROVE  a % n = a - n
OBVIOUS

LEMMA PosIs ==
  ASSUME NEW o \in Offsets, NEW k \in 1 .. Size
  PROVE  /\ Pos(o, k) = IF o + k - 1 < Size THEN o + k - 1 ELSE o + k - 1 - Size
         /\ Pos(o, k) \in Offsets
<1>1. CASE o + k - 1 < Size
  BY <1>1, ModSmall, SizeAssumption DEF Pos, Offsets
<1>2. CASE ~(o + k - 1 < Size)
  <2>1. o + k - 1 \in Size .. 2 * Size - 1
    BY <1>2, SizeAssumption DEF Offsets
  <2> QED BY <1>2, <2>1, ModLarge, SizeAssumption DEF Pos, Offsets
<1> QED BY <1>1, <1>2

LEMMA UsedIs ==
  ASSUME NEW wr \in Offsets, NEW rd \in Offsets
  PROVE  /\ Used(wr, rd) = IF rd <= wr THEN wr - rd ELSE wr - rd + Size
         /\ Used(wr, rd) \in 0 .. Size - 1
         /\ Used(wr, rd) = 0 <=> wr = rd
         /\ Free(wr, rd) = Size - 1 - Used(wr, rd)
<1>1. Used(wr, rd) = IF rd <= wr THEN wr - rd ELSE wr - rd + Size
  <2>1. CASE rd <= wr
    <3>1. wr - rd + Size \in Size .. 2 * Size - 1
      BY <2>1, SizeAssumption DEF Offsets
    <3> QED BY <2>1, <3>1, ModLarge, SizeAssumption DEF Used, Offsets
  <2>2. CASE ~(rd <= wr)
    <3>1. wr - rd + Size \in 0 .. Size - 1
      BY <2>2, SizeAssumption DEF Offsets
    <3> QED BY <2>2, <3>1, ModSmall, SizeAssumption DEF Used, Offsets
  <2> QED BY <2>1, <2>2
<1>2. Free(wr, rd) = IF rd <= wr THEN Size - 1 - (wr - rd) ELSE rd - wr - 1
  <2>1. CASE rd <= wr
    <3>1. rd + Size - wr - 1 \in 0 .. Size - 1
      BY <2>1, SizeAssumption DEF Offsets
    <3> QED BY <2>1, <3>1, ModSmall, SizeAssumption DEF Free, Offsets
  <2>2. CASE ~(rd <= wr)
    <3>1. rd + Size - wr - 1 \in Size .. 2 * Size - 1
      BY <2>2, SizeAssumption DEF Offsets
    <3> QED BY <2>2, <3>1, ModLarge, SizeAssumption DEF Free, Offsets
  <2> QED BY <2>1, <2>2
<1> QED BY <1>1, <1>2, SizeAssumption DEF Offsets

(* Bytes behind the byte k + 1 of a ring.                                  *)
LEMMA PosPos ==
  ASSUME NEW o \in Offsets, NEW k \in 0 .. Size - 1, NEW j \in 1 .. Size - k
  PROVE  Pos(Pos(o, k + 1), j) = Pos(o, k + j)
<1>1. k + 1 \in 1 .. Size /\ j \in 1 .. Size /\ k + j \in 1 .. Size
  BY SizeAssumption
<1>2. Pos(o, k + 1) \in Offsets
  BY <1>1, PosIs
<1> DEFINE p == Pos(o, k + 1)
<1>3. p = IF o + (k + 1) - 1 < Size THEN o + (k + 1) - 1 ELSE o + (k + 1) - 1 - Size
  BY <1>1, PosIs
<1>4. Pos(p, j) = IF p + j - 1 < Size THEN p + j - 1 ELSE p + j - 1 - Size
  BY <1>1, <1>2, PosIs
<1>5. Pos(o, k + j)
        = IF o + (k + j) - 1 < Size THEN o + (k + j) - 1 ELSE o + (k + j) - 1 - Size
  BY <1>1, PosIs
<1>6. p \in Offsets
  BY <1>2
<1> HIDE DEF p
<1>7. Pos(p, j) = Pos(o, k + j)
  BY <1>3, <1>4, <1>5, <1>6, SizeAssumption DEF Offsets
<1> QED BY <1>7 DEF p

(* Different bytes of a ring are in different cells.                       *)
LEMMA PosInjective ==
  ASSUME NEW o \in Offsets, NEW j \in 1 .. Size, NEW k \in 1 .. Size,
         Pos(o, j) = Pos(o, k)
  PROVE  j = k
<1> DEFINE p == Pos(o, j)
<1>1. p = IF o + j - 1 < Size THEN o + j - 1 ELSE o + j - 1 - Size
  BY PosIs
<1>2. p = IF o + k - 1 < Size THEN o + k - 1 ELSE o + k - 1 - Size
  BY PosIs
<1> HIDE DEF p
<1>3. /\ o \in Nat /\ o < Size
      /\ j \in Nat /\ j <= Size /\ j > 0 /\ k \in Nat /\ k <= Size /\ k > 0
  BY SizeAssumption DEF Offsets
<1> QED BY <1>1, <1>2, <1>3, SizeAssumption

(* WrOff is where the bytes in the ring end.                               *)
LEMMA EndOfUsed ==
  ASSUME NEW wr \in Offsets, NEW rd \in Offsets
  PROVE  Pos(rd, Used(wr, rd) + 1) = wr
<1>1. Used(wr, rd) + 1 \in 1 .. Size
  BY UsedIs, SizeAssumption
<1> DEFINE u == Used(wr, rd)
           p == Pos(rd, u + 1)
<1>2. p = IF rd + (u + 1) - 1 < Size THEN rd + (u + 1) - 1 ELSE rd + (u + 1) - 1 - Size
  BY <1>1, PosIs
<1>3. u = IF rd <= wr THEN wr - rd ELSE wr - rd + Size
  BY UsedIs
<1> HIDE DEF p, u
<1>4. p = wr
  BY <1>2, <1>3, SizeAssumption DEF Offsets
<1> QED BY <1>4 DEF p, u

(* An offset with n bytes more, or n bytes less, before it.                *)
LEMMA UsedMore ==
  ASSUME NEW wr \in Offsets, NEW rd \in Offsets, NEW n \in 0 .. Size - 1,
         Used(wr, rd) + n < Size
  PROVE  /\ Pos(wr, n + 1) \in Offsets
         /\ Used(Pos(wr, n + 1), rd) = Used(wr, rd) + n
<1>1. n + 1 \in 1 .. Size
  BY SizeAssumption
<1> DEFINE p == Pos(wr, n + 1)
<1>2. /\ p = IF wr + (n + 1) - 1 < Size THEN wr + (n + 1) - 1 ELSE wr + (n + 1) - 1 - Size
      /\ p \in Offsets
  BY <1>1, PosIs
<1> HIDE DEF p
<1>3. Used(p, rd) = IF rd <= p THEN p - rd ELSE p - rd + Size
  BY <1>2, UsedIs
<1>4. Used(wr, rd) = IF rd <= wr THEN wr - rd ELSE wr - rd + Size
  BY UsedIs
<1>5. Used(p, rd) = Used(wr, rd) + n
  BY <1>2, <1>3, <1>4, SizeAssumption DEF Offsets
<1> QED BY <1>2, <1>5 DEF p

LEMMA UsedLess ==
  ASSUME NEW wr \in Offsets, NEW rd \in Offsets, NEW n \in 0 .. Used(wr, rd)
  PROVE  /\ Pos(rd, n + 1) \in Offsets
         /\ Used(wr, Pos(rd, n + 1)) = Used(wr, rd) - n
<1>1. n + 1 \in 1 .. Size
  BY UsedIs, SizeAssumption
<1> DEFINE p == Pos(rd, n + 1)
<1>2. /\ p = IF rd + (n + 1) - 1 < Size THEN rd + (n + 1) - 1 ELSE rd + (n + 1) - 1 - Size
      /\ p \in Offsets
  BY <1>1, PosIs
<1> HIDE DEF p
<1>3. Used(wr, p) = IF p <= wr THEN wr - p ELSE wr - p + Size
  BY <1>2, UsedIs
<1>4. Used(wr, rd) = IF rd <= wr THEN wr - rd ELSE wr - rd + Size
  BY UsedIs
<1>5. n \in Nat /\ n <= Used(wr, rd)
  BY UsedIs
<1>6. Used(wr, p) = Used(wr, rd) - n
  BY <1>2, <1>3, <1>4, <1>5, SizeAssumption DEF Offsets
<1> QED BY <1>2, <1>6 DEF p

(***************************************************************************)
(* What a ring holds.                                                      *)

LEMMA FunctionIsSeq ==
  ASSUME NEW n \in Nat, NEW f \in [1 .. n -> Nat]
  PROVE  f \in Seq(Nat) /\ Len(f) = n
OBVIOUS

LEMMA ContentsIs ==
  ASSUME NEW r \in Ring
  PROVE  /\ Contents(r) \in Seq(Nat)
         /\ Len(Contents(r)) = Used(r.wr, r.rd)
         /\ \A k \in 1 .. Used(r.wr, r.rd) : Contents(r)[k] = r.cell[Pos(r.rd, k)]
         /\ Used(r.wr, r.rd) \in 0 .. Size - 1
<1>1. r.wr \in Offsets /\ r.rd \in Offsets /\ r.cell \in [Offsets -> Nat]
  BY DEF Ring
<1>2. Used(r.wr, r.rd) \in 0 .. Size - 1
  BY <1>1, UsedIs
<1> DEFINE n == Used(r.wr, r.rd)
<1>3. \A k \in 1 .. n : Pos(r.rd, k) \in Offsets
  BY <1>1, <1>2, PosIs, SizeAssumption
<1>4. Contents(r) = [k \in 1 .. n |-> r.cell[Pos(r.rd, k)]]
  BY DEF Contents, Pos
<1> HIDE DEF n
<1>5. Contents(r) \in [1 .. n -> Nat]
  BY <1>1, <1>3, <1>4
<1>6. n \in Nat
  BY <1>2, SizeAssumption DEF n
<1>7. Contents(r) \in Seq(Nat) /\ Len(Contents(r)) = n
  BY <1>5, <1>6, FunctionIsSeq
<1> QED BY <1>2, <1>4, <1>7 DEF n

(* Bytes are added behind those in the ring.                               *)
LEMMA ContentsGrow ==
  ASSUME NEW r \in Ring, NEW q \in Ring, NEW n \in Nat, q.rd = r.rd,
         Used(q.wr, q.rd) = Used(r.wr, r.rd) + n,
         \A k \in 1 .. Used(r.wr, r.rd) : q.cell[Pos(r.rd, k)] = r.cell[Pos(r.rd, k)]
  PROVE  Contents(r) = SubSeq(Contents(q), 1, Len(Contents(q)) - n)
<1> DEFINE c == Contents(r)
           d == Contents(q)
           m == Used(r.wr, r.rd)
<1>1. c \in Seq(Nat) /\ Len(c) = m /\ m \in Nat
  BY ContentsIs, SizeAssumption
<1>2. d \in Seq(Nat) /\ Len(d) = m + n
  BY ContentsIs
<1>3. \A k \in 1 .. m : c[k] = r.cell[Pos(r.rd, k)]
  BY ContentsIs
<1>4. \A k \in 1 .. m + n : d[k] = q.cell[Pos(q.rd, k)]
  BY ContentsIs
<1>5. \A k \in 1 .. m : c[k] = d[k]
  <2> TAKE k \in 1 .. m
  <2>1. k \in 1 .. m + n
    BY <1>1
  <2> QED BY <1>3, <1>4, <2>1
<1> HIDE DEF c, d, m
<1>6. Len(d) - n = m
  BY <1>1, <1>2
<1>7. \A k \in 1 .. m : d[k] \in Nat
  BY <1>1, <1>5, ElementOfSeq
<1>8. /\ SubSeq(d, 1, m) \in Seq(Nat) /\ Len(SubSeq(d, 1, m)) = m
      /\ \A k \in 1 .. m : SubSeq(d, 1, m)[k] = d[k]
  BY <1>1, <1>7, SubSeqProperties
<1>9. c = SubSeq(d, 1, m)
  BY <1>1, <1>5, <1>8, SeqEqual
<1> QED BY <1>6, <1>9 DEF c, d

(* Bytes are taken from the front.                                         *)
LEMMA ContentsShrink ==
  ASSUME NEW r \in Ring, NEW q \in Ring, NEW n \in 0 .. Used(r.wr, r.rd),
         q.cell = r.cell, q.wr = r.wr, q.rd = Pos(r.rd, n + 1)
  PROVE  Contents(q) = SubSeq(Contents(r), n + 1, Len(Contents(r)))
<1> DEFINE c == Contents(r)
           d == Contents(q)
           m == Used(r.wr, r.rd)
<1>1. c \in Seq(Nat) /\ Len(c) = m /\ m \in 0 .. Size - 1
  BY ContentsIs
<1>2. r.wr \in Offsets /\ r.rd \in Offsets
  BY DEF Ring
<1>3. Used(q.wr, q.rd) = m - n
  BY <1>2, UsedLess
<1>4. d \in Seq(Nat) /\ Len(d) = m - n
  BY <1>3, ContentsIs
<1>5. \A k \in 1 .. m : c[k] = r.cell[Pos(r.rd, k)]
  BY ContentsIs
<1>6. \A k \in 1 .. m - n : d[k] = r.cell[Pos(q.rd, k)]
  BY <1>3, ContentsIs
<1>7. n \in 0 .. m
  OBVIOUS
<1> HIDE DEF c, d, m
<1>8. \A k \in 1 .. m - n : d[k] = c[n + k]
  <2> TAKE k \in 1 .. m - n
  <2>1. n + k \in 1 .. m /\ n \in 0 .. Size - 1 /\ k \in 1 .. Size - n
    BY <1>1, <1>7, SizeAssumption
  <2>2. Pos(q.rd, k) = Pos(r.rd, n + k)
    BY <1>2, <2>1, PosPos
  <2> QED BY <1>5, <1>6, <2>1, <2>2
<1>9. /\ SubSeq(c, n + 1, m) \in Seq(Nat) /\ Len(SubSeq(c, n + 1, m)) = m - n
      /\ \A k \in 1 .. m - n : SubSeq(c, n + 1, m)[k] = c[n + k]
  <2>1. \A k \in n + 1 .. m : c[k] \in Nat
    BY <1>1, <1>7, ElementOfSeq, SizeAssumption
  <2>2. m \in Nat /\ n \in Nat /\ n <= m
    BY <1>1, <1>7, SizeAssumption
  <2> DEFINE i == n + 1
  <2>3. i \in Int /\ m \in Int /\ m - i + 1 = m - n
    BY <2>2
  <2>4. (IF i <= m THEN m - i + 1 ELSE 0) = m - n
    BY <2>2
  <2>5. \A k \in 1 .. m - n : i + k - 1 = n + k
    BY <2>2
  <2> HIDE DEF i
  <2>6. /\ SubSeq(c, i, m) \in Seq(Nat) /\ Len(SubSeq(c, i, m)) = m - n
        /\ \A k \in 1 .. m - i + 1 : SubSeq(c, i, m)[k] = c[i + k - 1]
    BY <2>1, <2>3, <2>4, SubSeqProperties DEF i
  <2>7. \A k \in 1 .. m - n : SubSeq(c, i, m)[k] = c[n + k]
    BY <2>3, <2>5, <2>6
  <2> QED BY <2>6, <2>7 DEF i
<1>10. d = SubSeq(c, n + 1, m)
  BY <1>4, <1>8, <1>9, SeqEqual
<1> QED BY <1>1, <1>10 DEF c, d

(* Cells that hold no byte of the ring do not matter.                      *)
LEMMA ContentsSame ==
  ASSUME NEW r \in Ring, NEW q \in Ring, q.rd = r.rd, q.wr = r.wr,
         \A k \in 1 .. Used(r.wr, r.rd) : q.cell[Pos(r.rd, k)] = r.cell[Pos(r.rd, k)]
  PROVE  Contents(q) = Contents(r)
<1>1. \A k \in 1 .. Used(r.wr, r.rd) : Contents(r)[k] = Contents(q)[k]
  BY ContentsIs
<1>2. Len(Contents(q)) = Len(Contents(r))
  BY ContentsIs
<1> QED BY <1>1, <1>2, ContentsIs, SeqEqual

(***************************************************************************)
(* The operation in progress.                                              *)

(* Where an operation can be cut in two.                                   *)
TornInv ==
  /\ torn = "up" => pc \in UpOperation
  /\ torn = "down" => pc \in DownOperation /\ downRing.wr = downRing.rd
  /\ torn = "none" /\ pc \in UpOperation \cup DownOperation => valid

(* read_up: what is still to be read, whatever the target does.            *)
UpLocal ==
  /\ pc \notin UpOperation \/ pc = "up_wrap" => data = <<>>
  /\ pc = "up_wrap" => desc.wr < desc.rd
  /\ pc = "up_rest" => desc.rd < desc.wr

(* What has been read are the first bytes in the ring, up to the WrOff of  *)
(* the descriptor in the end.                                              *)
UpRead ==
  pc \in UpOperation /\ torn = "none" =>
    /\ Used(desc.wr, upRing.rd) \in 1 .. Used(upRing.wr, upRing.rd)
    /\ \A k \in 1 .. Len(data) : data[k] = upRing.cell[Pos(upRing.rd, k)]
    /\ pc = "up_wrap" => desc.rd = upRing.rd
    /\ pc = "up_rest" =>
         \/ data = <<>> /\ desc.rd = upRing.rd
         \/ Len(data) = Size - upRing.rd /\ desc.rd = 0 /\ desc.wr < upRing.rd
    /\ pc = "up_publish" => Len(data) = Used(desc.wr, upRing.rd)

(* write_down: what is still to be written, whatever the target does.      *)
DownLocal ==
  pc \in DownOperation =>
    /\ count \in 1 .. Len(pending_input)
    /\ pc = "down_second" => first < count

(* What has been written are the first bytes of the input, in free cells.  *)
DownWritten ==
  pc \in DownOperation /\ torn = "none" =>
    /\ desc.wr = downRing.wr
    /\ count <= Free(downRing.wr, downRing.rd)
    /\ \A k \in 1 .. count :
         pc = "down_publish" \/ (pc = "down_second" /\ k <= first)
           => downRing.cell[Pos(desc.wr, k)] = pending_input[k]

IInv == RttTypeOK /\ TornInv /\ UpLocal /\ UpRead /\ DownLocal /\ DownWritten

-----------------------------------------------------------------------------
(***************************************************************************)
(* Type correctness.                                                       *)

LEMMA CellsFromIs ==
  ASSUME NEW r \in Ring, NEW o \in Offsets, NEW n \in 0 .. Size - o
  PROVE  /\ CellsFrom(r, o, n) \in Seq(Nat)
         /\ Len(CellsFrom(r, o, n)) = n
         /\ \A k \in 1 .. n : CellsFrom(r, o, n)[k] = r.cell[o + k - 1]
<1>1. \A k \in 1 .. n : o + k - 1 \in Offsets
  BY SizeAssumption DEF Offsets
<1>2. r.cell \in [Offsets -> Nat]
  BY DEF Ring
<1>3. CellsFrom(r, o, n) \in [1 .. n -> Nat]
  BY <1>1, <1>2 DEF CellsFrom
<1>4. n \in Nat
  BY SizeAssumption DEF Offsets
<1> QED BY <1>3, <1>4, FunctionIsSeq DEF CellsFrom

LEMMA EndedTypes ==
  ASSUME NEW label, Goto(label)
  PROVE  /\ pc' = label /\ torn' = "none" /\ data' = <<>>
         /\ desc' \in [wr : Offsets, rd : Offsets]
         /\ data' \in Seq(Nat) /\ count' \in 0 .. Size - 1
         /\ torn' \in {"none", "up", "down"}
BY EmptySeq, SizeAssumption DEF Goto, Offsets

(* The bytes write_down stores before the end of the ring, and after it.   *)
LEMMA FirstIs ==
  ASSUME RttTypeOK, DownLocal, pc \in DownOperation
  PROVE  /\ first \in 1 .. count /\ desc.wr + first <= Size
         /\ first < count => first = Size - desc.wr
         /\ count \in 1 .. Len(pending_input) /\ Len(pending_input) \in Nat
         /\ count \in 1 .. Size - 1 /\ desc.wr \in Offsets
<1>1. count \in 1 .. Len(pending_input)
  BY DEF DownLocal
<1>2. count \in 0 .. Size - 1 /\ desc.wr \in Offsets /\ Len(pending_input) \in Nat
  BY LenProperties DEF RttTypeOK
<1>3. count \in 1 .. Size - 1
  BY <1>1, <1>2, SizeAssumption
<1>4. desc.wr \in Int /\ desc.wr >= 0 /\ desc.wr < Size
  BY <1>2, SizeAssumption DEF Offsets
<1>5. first = IF count < Size - desc.wr THEN count ELSE Size - desc.wr
  BY DEF first, Least
<1>6. first \in 1 .. count /\ desc.wr + first <= Size /\ (first < count => first = Size - desc.wr)
  BY <1>3, <1>4, <1>5, SizeAssumption
<1> QED BY <1>1, <1>2, <1>3, <1>6

LEMMA StoreIs ==
  ASSUME RttTypeOK, NEW o \in Offsets, NEW k \in Nat \ {0}, NEW n \in Nat,
         o + n <= Size, k + n - 1 <= Len(pending_input), Store(o, k, n)
  PROVE  /\ downRing' \in Ring
         /\ downRing'.wr = downRing.wr /\ downRing'.rd = downRing.rd
         /\ \A c \in Offsets : downRing'.cell[c]
              = IF c \in o .. o + n - 1 THEN pending_input[k + c - o] ELSE downRing.cell[c]
<1> DEFINE cells == [c \in Offsets |-> IF c \in o .. o + n - 1 THEN pending_input[k + c - o]
                                       ELSE downRing.cell[c]]
<1>1. downRing \in Ring /\ downRing.cell \in [Offsets -> Nat]
  BY DEF RttTypeOK, Ring
<1>2. downRing' = [downRing EXCEPT !.cell = cells]
  BY DEF Store
<1>3. ASSUME NEW c \in Offsets, c \in o .. o + n - 1
      PROVE  pending_input[k + c - o] \in Nat
  <2>1. pending_input \in Seq(Nat) /\ Len(pending_input) \in Nat
    BY LenProperties DEF RttTypeOK
  <2>2. PICK m \in Nat : m = Len(pending_input)
    BY <2>1
  <2>3. k + c - o \in 1 .. m
    BY <1>3, <2>2, SizeAssumption DEF Offsets
  <2> QED BY <2>1, <2>2, <2>3, ElementOfSeq
<1>4. cells \in [Offsets -> Nat]
  BY <1>1, <1>3
<1>5. /\ downRing' \in Ring /\ downRing'.cell = cells
      /\ downRing'.wr = downRing.wr /\ downRing'.rd = downRing.rd
  <2> HIDE DEF cells
  <2> QED BY <1>1, <1>2, <1>4 DEF Ring
<1> QED BY <1>5

LEMMA FirstStoreIs ==
  ASSUME RttTypeOK, DownLocal, DownFirst
  PROVE  /\ downRing' \in Ring
         /\ downRing'.wr = downRing.wr /\ downRing'.rd = downRing.rd
         /\ \A c \in Offsets : downRing'.cell[c]
              = IF c \in desc.wr .. desc.wr + first - 1 THEN pending_input[1 + c - desc.wr]
                ELSE downRing.cell[c]
<1>1. pc \in DownOperation /\ Store(desc.wr, 1, first)
  BY DEF DownFirst, DownOperation
<1>2. /\ first \in 1 .. count /\ desc.wr + first <= Size
      /\ count \in 1 .. Len(pending_input) /\ Len(pending_input) \in Nat
      /\ desc.wr \in Offsets /\ count \in 1 .. Size - 1
  BY <1>1, FirstIs
<1>3. 1 \in Nat \ {0} /\ first \in Nat /\ 1 + first - 1 <= Len(pending_input)
  BY <1>2, SizeAssumption
<1> HIDE DEF first
<1> QED BY <1>1, <1>2, <1>3, StoreIs

LEMMA SecondStoreIs ==
  ASSUME RttTypeOK, DownLocal, DownSecond
  PROVE  /\ downRing' \in Ring
         /\ downRing'.wr = downRing.wr /\ downRing'.rd = downRing.rd
         /\ \A c \in Offsets : downRing'.cell[c]
              = IF c \in 0 .. count - first - 1 THEN pending_input[first + 1 + c]
                ELSE downRing.cell[c]
<1>1. pc \in DownOperation /\ pc = "down_second" /\ Store(0, first + 1, count - first)
  BY DEF DownSecond, DownOperation
<1>2. /\ first \in 1 .. count /\ count \in 1 .. Len(pending_input)
      /\ Len(pending_input) \in Nat /\ count \in 1 .. Size - 1
  BY <1>1, FirstIs
<1>3. first < count
  BY <1>1 DEF DownLocal, DownOperation
<1>4. /\ first + 1 \in Nat \ {0} /\ count - first \in Nat /\ 0 + (count - first) <= Size
      /\ (first + 1) + (count - first) - 1 <= Len(pending_input)
      /\ 0 \in Offsets
  BY <1>2, <1>3, SizeAssumption DEF Offsets
<1> HIDE DEF first
<1>5. /\ downRing' \in Ring
      /\ downRing'.wr = downRing.wr /\ downRing'.rd = downRing.rd
      /\ \A c \in Offsets : downRing'.cell[c]
           = IF c \in 0 .. 0 + (count - first) - 1 THEN pending_input[(first + 1) + c - 0]
             ELSE downRing.cell[c]
  BY <1>1, <1>4, StoreIs
<1>6. \A c \in Offsets : (first + 1) + c - 0 = first + 1 + c
  BY <1>2, SizeAssumption DEF Offsets
<1>7. 0 + (count - first) - 1 = count - first - 1
  BY <1>2, SizeAssumption
<1> QED BY <1>5, <1>6, <1>7

(* A byte of the firmware goes behind those in the ring.                   *)
LEMMA PushIs ==
  ASSUME RttTypeOK, TargetWrites
  PROVE  /\ upRing' \in Ring /\ upRing'.rd = upRing.rd
         /\ Used(upRing'.wr, upRing.rd) = Used(upRing.wr, upRing.rd) + 1
         /\ \A k \in 1 .. Used(upRing.wr, upRing.rd) :
              upRing'.cell[Pos(upRing.rd, k)] = upRing.cell[Pos(upRing.rd, k)]
<1> DEFINE wr == upRing.wr
           rd == upRing.rd
           u  == Used(wr, rd)
           v  == written + 1
<1>1. /\ upRing \in Ring /\ wr \in Offsets /\ rd \in Offsets
      /\ upRing.cell \in [Offsets -> Nat] /\ v \in Nat
  BY SMTT(20) DEF RttTypeOK, Ring
<1>2. u \in 0 .. Size - 1 /\ u + 1 < Size /\ u \in Nat
  BY <1>1, UsedIs, SizeAssumption DEF TargetWrites
<1>3. /\ Pos(wr, 1 + 1) \in Offsets
      /\ Used(Pos(wr, 1 + 1), rd) = u + 1
  <2>1. 1 \in 0 .. Size - 1
    BY SizeAssumption
  <2> QED BY <1>1, <1>2, <2>1, UsedMore
<1>4. (wr + 1) % Size = Pos(wr, 1 + 1)
  BY <1>1, SizeAssumption DEF Pos, Offsets
<1>5. upRing' = [upRing EXCEPT !.cell[wr] = v, !.wr = (wr + 1) % Size]
  BY DEF TargetWrites
<1>6. \A k \in 1 .. u : Pos(rd, k) \in Offsets /\ Pos(rd, k) # wr
  <2> TAKE k \in 1 .. u
  <2>1. k \in 1 .. Size /\ u + 1 \in 1 .. Size /\ k # u + 1
    BY <1>2, SizeAssumption
  <2>2. Pos(rd, u + 1) = wr
    BY <1>1, EndOfUsed
  <2>3. Pos(rd, k) \in Offsets
    BY <1>1, <2>1, PosIs
  <2>4. Pos(rd, k) # Pos(rd, u + 1)
    BY <1>1, <2>1, PosInjective
  <2> QED BY <2>2, <2>3, <2>4
<1>7. /\ upRing' \in Ring /\ upRing'.rd = rd /\ upRing'.wr = Pos(wr, 1 + 1)
      /\ \A c \in Offsets : c # wr => upRing'.cell[c] = upRing.cell[c]
  <2> HIDE DEF wr, rd, v
  <2>1. [upRing EXCEPT !.cell[wr] = v, !.wr = Pos(wr, 1 + 1)] \in Ring
    BY <1>1, <1>3 DEF Ring
  <2> QED BY <1>1, <1>3, <1>4, <1>5, <2>1 DEF Ring, rd
<1> QED BY <1>3, <1>6, <1>7

(* A reset marks the operation it cuts in two, and empties both rings.     *)
LEMMA ResetIs ==
  ASSUME TargetResets
  PROVE  /\ pc \in UpOperation => torn' = "up"
         /\ pc \in DownOperation => torn' = "down"
         /\ pc \notin UpOperation \cup DownOperation => torn' = torn
         /\ valid' = FALSE /\ id' = FALSE /\ resets' = resets + 1
         /\ upRing' = [upRing EXCEPT !.wr = 0, !.rd = 0]
         /\ downRing' = [downRing EXCEPT !.wr = 0, !.rd = 0]
         /\ UNCHANGED <<hostVars, written, typed>>
<1>1. torn' = CASE pc \in UpOperation   -> "up"
               [] pc \in DownOperation -> "down"
               [] OTHER                -> torn
  BY DEF TargetResets
<1>2. ~(pc \in UpOperation /\ pc \in DownOperation)
  BY DEF UpOperation, DownOperation
<1>3. /\ valid' = FALSE /\ id' = FALSE /\ resets' = resets + 1
      /\ upRing' = [upRing EXCEPT !.wr = 0, !.rd = 0]
      /\ downRing' = [downRing EXCEPT !.wr = 0, !.rd = 0]
      /\ UNCHANGED <<hostVars, written, typed>>
  BY DEF TargetResets
<1>4. CASE pc \in UpOperation
  BY <1>1, <1>2, <1>3, <1>4
<1>5. CASE pc \in DownOperation
  BY <1>1, <1>2, <1>3, <1>5
<1>6. CASE pc \notin UpOperation \cup DownOperation
  BY <1>1, <1>3, <1>6
<1> QED BY <1>4, <1>5, <1>6

LEMMA InitIInv == RttInit => IInv
<1> SUFFICES ASSUME RttInit PROVE IInv
  OBVIOUS
<1>1. 0 \in Offsets /\ Blank \in Ring
  BY SizeAssumption DEF Blank, Ring, Offsets
<1>2. RttTypeOK
  <2>1. <<>> \in Seq(Nat)
    BY EmptySeq
  <2>2. [wr |-> 0, rd |-> 0] \in [wr : Offsets, rd : Offsets]
    BY <1>1
  <2>3. 0 \in 0 .. Size - 1 /\ 0 \in Nat
    BY SizeAssumption
  <2> QED BY <1>1, <2>1, <2>2, <2>3 DEF RttInit, RttTypeOK
<1>3. pc = "start" /\ data = <<>> /\ torn = "none"
  BY DEF RttInit
<1>4. TornInv /\ UpLocal /\ UpRead /\ DownLocal /\ DownWritten
  BY <1>3 DEF TornInv, UpLocal, UpRead, DownLocal, DownWritten, UpOperation, DownOperation
<1> QED BY <1>2, <1>4 DEF IInv

LEMMA TypeStep == IInv /\ [RttNext]_rttVars => RttTypeOK'
<1> SUFFICES ASSUME IInv, [RttNext]_rttVars PROVE RttTypeOK'
  OBVIOUS
<1>0. RttTypeOK /\ UpLocal /\ DownLocal
  BY DEF IInv
<1>a. 0 \in Offsets
  BY SizeAssumption DEF Offsets
<1>b. \A r \in Ring : \A o \in Offsets :
        /\ [r EXCEPT !.wr = 0, !.rd = 0] \in Ring
        /\ [r EXCEPT !.rd = o] \in Ring /\ [r EXCEPT !.wr = o] \in Ring
  BY <1>a DEF Ring
<1>c. /\ upRing.wr \in Offsets /\ upRing.rd \in Offsets
      /\ downRing.wr \in Offsets /\ downRing.rd \in Offsets
      /\ desc.wr \in Offsets /\ desc.rd \in Offsets
  BY <1>0 DEF RttTypeOK, Ring
<1>1. CASE TargetInitsDescriptors \/ TargetResets
  <2>1. upRing' \in Ring /\ downRing' \in Ring
    BY <1>0, <1>b, <1>1, ResetIs DEF TargetInitsDescriptors, RttTypeOK
  <2>2. torn' \in {"none", "up", "down"}
    <3>1. torn \in {"none", "up", "down"}
      BY <1>0 DEF RttTypeOK
    <3> QED BY <1>1, <3>1, ResetIs DEF TargetInitsDescriptors
  <2>3. UNCHANGED <<hostVars, written, typed>>
    BY <1>1, ResetIs DEF TargetInitsDescriptors
  <2>4. id' \in BOOLEAN /\ valid' \in BOOLEAN
    BY <1>0, <1>1, ResetIs DEF TargetInitsDescriptors, RttTypeOK
  <2>5. resets' \in Nat
    <3>1. resets \in Nat
      BY <1>0 DEF RttTypeOK
    <3>2. resets' \in {resets, resets + 1}
      BY <1>1, ResetIs DEF TargetInitsDescriptors
    <3> QED BY <3>1, <3>2
  <2> QED BY <1>0, <2>1, <2>2, <2>3, <2>4, <2>5 DEF RttTypeOK, hostVars
<1>2. CASE TargetWritesId \/ UNCHANGED rttVars
  BY <1>0, <1>2 DEF TargetWritesId, RttTypeOK, hostVars, firmwareVars, rttVars
<1>3. CASE TargetWrites
  <2>1. upRing' \in Ring
    BY <1>0, <1>3, PushIs
  <2> QED BY <1>0, <1>3, <2>1 DEF TargetWrites, RttTypeOK, hostVars
<1>4. CASE TargetReads
  <2>1. (downRing.rd + 1) % Size = Pos(downRing.rd, 2)
    BY <1>c, SizeAssumption DEF Pos, Offsets
  <2>2. Pos(downRing.rd, 2) \in Offsets
    BY <1>c, PosIs, SizeAssumption
  <2>3. downRing' = [downRing EXCEPT !.rd = Pos(downRing.rd, 2)]
    BY <1>4, <2>1 DEF TargetReads
  <2>4. downRing' \in Ring
    BY <1>0, <1>b, <2>2, <2>3 DEF RttTypeOK
  <2> QED BY <1>0, <1>4, <2>4 DEF TargetReads, RttTypeOK, hostVars
<1>5. CASE Start \/ Replay
  <2>1. upRing' \in Ring
    BY ZenonT(30), <1>0, <1>a, <1>b, <1>5 DEF Start, Replay, RttTypeOK, HostSteps, firmwareVars
  <2>2. pc' \in Accesses \cup {"start", "replay", "stopped", "input"}
    BY <1>5 DEF Start, Replay, Accesses
  <2>3. initialized' \in BOOLEAN
    BY <1>0, <1>5 DEF Start, Replay, RttTypeOK
  <2> QED BY <1>0, <1>5, <2>1, <2>2, <2>3
      DEF Start, Replay, RttTypeOK, HostSteps, firmwareVars
<1>6. CASE \E label \in {"up", "up_desc", "input", "down_desc"} : Goto(label)
             /\ UNCHANGED <<HostSteps, pending_input, printed>> /\ initialized' \in BOOLEAN
  <2>1. PICK label \in {"up", "up_desc", "input", "down_desc"} : Goto(label)
    BY <1>6
  <2>2. pc' \in Accesses \cup {"start", "replay", "stopped", "input"}
    BY <2>1, EndedTypes DEF Accesses
  <2> QED BY <1>0, <1>6, <2>1, <2>2, EndedTypes DEF RttTypeOK, HostSteps, firmwareVars
<1>7. CASE AccessFails
  BY <1>6, <1>7 DEF AccessFails, Retry
<1>8. CASE UpRefresh
  <2>1. initialized' \in BOOLEAN
    BY <1>0, <1>8 DEF UpRefresh, RttTypeOK
  <2> QED BY <1>6, <1>8, <2>1 DEF UpRefresh
<1>9. CASE UpDescriptor
  <2>1. initialized' \in BOOLEAN
    BY <1>0, <1>9 DEF UpDescriptor, RttTypeOK
  <2>2. CASE Goto("input")
    BY <1>6, <1>9, <2>1, <2>2 DEF UpDescriptor
  <2>3. CASE ~Goto("input")
    <3>1. /\ desc' = [wr |-> upRing.wr, rd |-> upRing.rd]
          /\ pc' \in {"up_wrap", "up_rest"}
          /\ UNCHANGED <<data, count, torn>>
          /\ UNCHANGED <<HostSteps, pending_input, printed>>
      BY <1>9, <2>3 DEF UpDescriptor
    <3>2. desc' \in [wr : Offsets, rd : Offsets]
      BY <1>c, <3>1
    <3>3. pc' \in Accesses \cup {"start", "replay", "stopped", "input"}
      BY <3>1 DEF Accesses
    <3> QED BY <1>0, <2>1, <3>1, <3>2, <3>3 DEF RttTypeOK, HostSteps, firmwareVars
  <2> QED BY <2>2, <2>3
<1>10. CASE UpReadWrap
  <2>1. Size - desc.rd \in 0 .. Size - desc.rd
    BY <1>c, SizeAssumption DEF Offsets
  <2>2. data' \in Seq(Nat)
    BY <1>0, <1>c, <1>10, <2>1, CellsFromIs DEF UpReadWrap, RttTypeOK
  <2>3. desc' \in [wr : Offsets, rd : Offsets]
    BY <1>0, <1>a, <1>10 DEF UpReadWrap, RttTypeOK
  <2>4. pc' \in Accesses \cup {"start", "replay", "stopped", "input"}
    BY <1>10 DEF UpReadWrap, Accesses
  <2> QED BY <1>0, <1>10, <2>2, <2>3, <2>4 DEF UpReadWrap, RttTypeOK, HostSteps, firmwareVars
<1>11. CASE UpReadRest
  <2>1. desc.rd < desc.wr
    BY <1>0, <1>11 DEF UpReadRest, UpLocal
  <2>2. desc.wr - desc.rd \in 0 .. Size - desc.rd
    BY <1>c, <2>1, SizeAssumption DEF Offsets
  <2>3. CellsFrom(upRing, desc.rd, desc.wr - desc.rd) \in Seq(Nat)
    BY <1>0, <1>c, <2>2, CellsFromIs DEF RttTypeOK
  <2>4. data' \in Seq(Nat)
    BY <1>0, <1>11, <2>3, ConcatProperties DEF UpReadRest, RttTypeOK
  <2>5. pc' \in Accesses \cup {"start", "replay", "stopped", "input"}
    BY <1>11 DEF UpReadRest, Accesses
  <2> QED BY <1>0, <1>11, <2>4, <2>5 DEF UpReadRest, RttTypeOK, HostSteps, firmwareVars
<1>12. CASE UpPublish
  <2>1. PICK label \in {"up", "input"} : Goto(label)
    BY <1>12 DEF UpPublish, Retry
  <2>2. pc' \in Accesses \cup {"start", "replay", "stopped", "input"}
    BY <2>1, EndedTypes DEF Accesses
  <2>3. upRing' \in Ring
    BY <1>0, <1>b, <1>c, <1>12 DEF UpPublish, RttTypeOK
  <2>4. printed' \in Seq(Nat) /\ initialized' \in BOOLEAN
    BY <1>0, <1>12 DEF UpPublish, Retry, RttTypeOK
  <2> QED BY <1>0, <1>12, <2>1, <2>2, <2>3, <2>4, EndedTypes DEF UpPublish, RttTypeOK
<1>13. CASE ReadTerminal
  <2>1. PICK n \in 0 .. MaxTyped - typed :
          /\ pending_input' = pending_input \o [k \in 1 .. n |-> typed + k]
          /\ typed' = typed + n
    BY <1>13 DEF ReadTerminal
  <2>2. n \in Nat /\ typed \in Nat /\ typed' \in Nat
    BY <1>0, <2>1, RttBoundsAssumption DEF RttTypeOK
  <2>3. [k \in 1 .. n |-> typed + k] \in [1 .. n -> Nat]
    BY <2>2
  <2>4. [k \in 1 .. n |-> typed + k] \in Seq(Nat)
    BY <2>2, <2>3, FunctionIsSeq
  <2>5. pending_input' \in Seq(Nat)
    BY <1>0, <2>1, <2>4, ConcatProperties DEF RttTypeOK
  <2>6. PICK label \in {"up", "down"} : Goto(label)
    BY <1>13 DEF ReadTerminal
  <2>7. pc' \in Accesses \cup {"start", "replay", "stopped", "input"}
    BY <2>6, EndedTypes DEF Accesses
  <2> QED BY <1>0, <1>13, <2>2, <2>5, <2>6, <2>7, EndedTypes
      DEF ReadTerminal, RttTypeOK, firmwareVars
<1>14. CASE DownRefresh
  <2>1. initialized' \in BOOLEAN
    BY <1>0, <1>14 DEF DownRefresh, RttTypeOK
  <2> QED BY <1>6, <1>14, <2>1 DEF DownRefresh
<1>15. CASE DownDescriptor
  <2> DEFINE n == Least(Len(pending_input), Free(downRing.wr, downRing.rd))
  <2>1. initialized' \in BOOLEAN
    BY <1>0, <1>15 DEF DownDescriptor, RttTypeOK
  <2>2. CASE Goto("up")
    BY <1>6, <1>15, <2>1, <2>2 DEF DownDescriptor
  <2>3. CASE ~Goto("up")
    <3>1. /\ desc' = [wr |-> downRing.wr, rd |-> downRing.rd]
          /\ count' = n /\ n > 0
          /\ pc' = "down_first"
          /\ UNCHANGED <<data, torn>>
          /\ UNCHANGED <<HostSteps, pending_input, printed>>
      BY <1>15, <2>3 DEF DownDescriptor
    <3>2. Len(pending_input) \in Nat
      BY <1>0, LenProperties DEF RttTypeOK
    <3>a. Free(downRing.wr, downRing.rd) \in 0 .. Size - 1
      BY <1>c, UsedIs, SizeAssumption
    <3>3. n \in 0 .. Size - 1
      BY <3>1, <3>2, <3>a, SizeAssumption DEF Least
    <3>4. desc' \in [wr : Offsets, rd : Offsets]
      BY <1>c, <3>1
    <3>5. pc' \in Accesses \cup {"start", "replay", "stopped", "input"}
      BY <3>1 DEF Accesses
    <3> HIDE DEF n
    <3> QED BY <1>0, <2>1, <3>1, <3>3, <3>4, <3>5 DEF RttTypeOK, HostSteps, firmwareVars
  <2> QED BY <2>2, <2>3
<1>16. CASE DownFirst \/ DownSecond
  <2>1. downRing' \in Ring
    BY <1>0, <1>16, FirstStoreIs, SecondStoreIs
  <2>2. /\ UNCHANGED <<id, valid, upRing, pending_input, printed, written, typed, resets>>
        /\ \/ UNCHANGED <<initialized, desc, data, count, torn>>
           \/ Goto("up") /\ initialized' = FALSE
    BY <1>16 DEF DownFirst, DownSecond, Retry
  <2>3. pc' \in Accesses \cup {"start", "replay", "stopped", "input"}
    BY <1>16, EndedTypes DEF DownFirst, DownSecond, Retry, Accesses
  <2> QED BY <1>0, <2>1, <2>2, <2>3, EndedTypes DEF RttTypeOK
<1>17. CASE DownPublish
  <2>1. pc \in DownOperation
    BY <1>17 DEF DownPublish, DownOperation
  <2>2. count \in 1 .. Len(pending_input) /\ Len(pending_input) \in Nat /\ count \in 1 .. Size - 1
    BY <1>0, <2>1, FirstIs
  <2>3. (desc.wr + count) % Size = Pos(desc.wr, count + 1)
    BY <1>c, <2>2, SizeAssumption DEF Pos, Offsets
  <2>4. Pos(desc.wr, count + 1) \in Offsets
    BY SMTT(20), <1>c, <2>2, PosIs, SizeAssumption
  <2>5. downRing' \in Ring
    BY <1>0, <1>b, <1>17, <2>3, <2>4 DEF DownPublish, RttTypeOK
  <2>6. SubSeq(pending_input, count + 1, Len(pending_input)) \in Seq(Nat)
    <3>1. PICK l \in Nat : l = Len(pending_input)
      BY <2>2
    <3>2. count + 1 \in Int /\ l \in Int
      BY <2>2, <3>1, SizeAssumption
    <3>3. \A k \in count + 1 .. l : k \in 1 .. Len(pending_input)
      BY <2>2, <3>1, SizeAssumption
    <3>4. \A k \in count + 1 .. l : pending_input[k] \in Nat
      BY <1>0, <3>3, ElementOfSeq DEF RttTypeOK
    <3> QED BY <3>1, <3>2, <3>4, SubSeqProperties
  <2>7. pending_input' \in Seq(Nat) /\ initialized' \in BOOLEAN /\ Goto("up")
    BY <1>0, <1>17, <2>6 DEF DownPublish, Retry, RttTypeOK
  <2>8. pc' \in Accesses \cup {"start", "replay", "stopped", "input"}
    BY <2>7, EndedTypes DEF Accesses
  <2> QED BY <1>0, <1>17, <2>5, <2>7, <2>8, EndedTypes DEF DownPublish, RttTypeOK
<1> QED BY <1>1, <1>2, <1>3, <1>4, <1>5, <1>7, <1>8, <1>9, <1>10, <1>11, <1>12, <1>13,
           <1>14, <1>15, <1>16, <1>17 DEF RttNext, Target, Host

-----------------------------------------------------------------------------
(***************************************************************************)
(* The operation in progress stays sound.                                  *)

InProgress == TornInv /\ UpLocal /\ UpRead /\ DownLocal /\ DownWritten

LEMMA EndedIsBetween ==
  ASSUME NEW label \in {"up", "up_desc", "input", "down", "down_desc"}, Goto(label)
  PROVE  InProgress'
<1>1. pc' \notin UpOperation \cup DownOperation /\ torn' = "none" /\ data' = <<>>
  BY DEF Goto, UpOperation, DownOperation
<1> QED BY <1>1
    DEF InProgress, TornInv, UpLocal, UpRead, DownLocal, DownWritten, UpOperation, DownOperation

(* The bytes read so far are among those up to the descriptor's WrOff.     *)
LEMMA ReadSoFar ==
  ASSUME RttTypeOK, UpLocal, UpRead, pc \in UpOperation, torn = "none"
  PROVE  Len(data) <= Used(desc.wr, upRing.rd) /\ Len(data) \in Nat
<1>1. /\ desc.wr \in Offsets /\ desc.rd \in Offsets /\ upRing.rd \in Offsets
      /\ data \in Seq(Nat) /\ Len(data) \in Nat
  BY LenProperties DEF RttTypeOK, Ring
<1>2. Used(desc.wr, upRing.rd) = IF upRing.rd <= desc.wr THEN desc.wr - upRing.rd
                                ELSE desc.wr - upRing.rd + Size
  BY <1>1, UsedIs
<1>3. Used(desc.wr, upRing.rd) \in Nat
  BY <1>1, UsedIs, SizeAssumption
<1>4. CASE data = <<>>
  BY <1>1, <1>3, <1>4, EmptySeq
<1>5. CASE data # <<>>
  <2>1. CASE pc = "up_wrap"
    BY <1>5, <2>1 DEF UpLocal
  <2>2. CASE pc = "up_rest"
    <3>1. Len(data) = Size - upRing.rd /\ desc.wr < upRing.rd
      BY <1>5, <2>2 DEF UpRead
    <3> QED BY <1>1, <1>2, <3>1, SizeAssumption DEF Offsets
  <2>3. CASE pc = "up_publish"
    BY <1>1, <2>3 DEF UpRead
  <2> QED BY <2>1, <2>2, <2>3 DEF UpOperation
<1> QED BY <1>4, <1>5

LEMMA InProgressTarget ==
  ASSUME IInv, Target
  PROVE  InProgress'
<1>0. RttTypeOK /\ TornInv /\ UpLocal /\ UpRead /\ DownLocal /\ DownWritten
  BY DEF IInv
<1>c. /\ upRing \in Ring /\ downRing \in Ring
      /\ upRing.wr \in Offsets /\ upRing.rd \in Offsets
      /\ downRing.wr \in Offsets /\ downRing.rd \in Offsets
      /\ desc.wr \in Offsets /\ desc.rd \in Offsets
  BY <1>0 DEF RttTypeOK, Ring
<1>d. UNCHANGED hostVars
  BY ResetIs DEF Target, TargetInitsDescriptors, TargetWritesId, TargetWrites, TargetReads
<1>e. UpLocal' /\ DownLocal'
  BY <1>0, <1>d DEF UpLocal, DownLocal, hostVars, first, Least
<1>1. CASE TargetInitsDescriptors
  <2>1. ~(torn = "none" /\ pc \in UpOperation \cup DownOperation)
    BY <1>0, <1>1 DEF TargetInitsDescriptors, TornInv
  <2>2. ~(torn' = "none" /\ pc' \in UpOperation \cup DownOperation) /\ torn' = torn
    BY <1>1, <1>d, <2>1 DEF TargetInitsDescriptors, hostVars
  <2>3. UpRead' /\ DownWritten'
    BY <2>2 DEF UpRead, DownWritten
  <2>4. downRing'.wr = downRing'.rd
    BY <1>1, <1>c DEF TargetInitsDescriptors, Ring
  <2>5. TornInv'
    BY <1>0, <1>d, <2>2, <2>4 DEF TornInv, hostVars
  <2> QED BY <1>e, <2>3, <2>5 DEF InProgress
<1>2. CASE TargetWritesId
  BY <1>0, <1>e, <1>2
  DEF TargetWritesId, InProgress, TornInv, UpRead, DownWritten, hostVars, first, Least
<1>3. CASE TargetWrites
  <2>1. UNCHANGED <<id, valid, downRing, pc, desc, data, count, pending_input, torn>>
    BY <1>3 DEF TargetWrites, hostVars
  <2>2. TornInv' /\ DownWritten'
    BY <1>0, <2>1 DEF TornInv, DownWritten, first, Least
  <2> DEFINE u == Used(upRing.wr, upRing.rd)
             w == Used(desc.wr, upRing.rd)
  <2>3. /\ upRing'.rd = upRing.rd /\ Used(upRing'.wr, upRing'.rd) = u + 1
        /\ \A k \in 1 .. u : upRing'.cell[Pos(upRing.rd, k)] = upRing.cell[Pos(upRing.rd, k)]
    BY <1>0, <1>3, PushIs
  <2>4. ASSUME pc \in UpOperation, torn = "none"
        PROVE  /\ w \in 1 .. u + 1
               /\ \A k \in 1 .. Len(data) : data[k] = upRing'.cell[Pos(upRing.rd, k)]
    <3>1. w \in 1 .. u /\ \A k \in 1 .. Len(data) : data[k] = upRing.cell[Pos(upRing.rd, k)]
      BY <1>0, <2>4 DEF UpRead
    <3>2. Len(data) <= w /\ Len(data) \in Nat
      BY <1>0, <2>4, ReadSoFar
    <3>a. u \in Nat
      BY <1>c, UsedIs, SizeAssumption
    <3> HIDE DEF u, w
    <3>3. \A k \in 1 .. Len(data) : k \in 1 .. u
      BY <3>1, <3>2, <3>a
    <3>4. w \in 1 .. u + 1
      BY <3>1, <3>a
    <3> QED BY <2>3, <3>1, <3>3, <3>4
  <2> HIDE DEF u
  <2>5. UpRead'
    BY <1>0, <2>1, <2>3, <2>4 DEF UpRead
  <2> QED BY <1>e, <2>2, <2>5 DEF InProgress
<1>4. CASE TargetReads
  <2>1. UNCHANGED <<id, valid, upRing, pc, desc, data, count, pending_input, torn>>
    BY <1>4 DEF TargetReads, hostVars
  <2>2. UpRead'
    BY <1>0, <2>1 DEF UpRead
  <2>3. downRing.wr # downRing.rd
    BY <1>4 DEF TargetReads
  <2>4. TornInv'
    BY <1>0, <2>1, <2>3 DEF TornInv
  <2>5. /\ downRing' = [downRing EXCEPT !.rd = Pos(downRing.rd, 1 + 1)]
        /\ Pos(downRing.rd, 1 + 1) \in Offsets
    <3>1. (downRing.rd + 1) % Size = Pos(downRing.rd, 1 + 1)
      BY <1>c, SizeAssumption DEF Pos, Offsets
    <3>2. 1 + 1 \in 1 .. Size
      BY SizeAssumption
    <3> QED BY <1>4, <1>c, <3>1, <3>2, PosIs DEF TargetReads
  <2>6. /\ downRing'.wr = downRing.wr /\ downRing'.cell = downRing.cell
        /\ downRing'.rd = Pos(downRing.rd, 1 + 1)
    BY <1>c, <2>5 DEF Ring
  <2>7. 1 \in 0 .. Used(downRing.wr, downRing.rd)
    BY <1>c, <2>3, UsedIs, SizeAssumption
  <2>8. Used(downRing.wr, Pos(downRing.rd, 1 + 1)) = Used(downRing.wr, downRing.rd) - 1
    BY <1>c, <2>7, UsedLess
  <2>9. Free(downRing'.wr, downRing'.rd) = Free(downRing.wr, downRing.rd) + 1
    <3>1. Free(downRing.wr, downRing.rd) = Size - 1 - Used(downRing.wr, downRing.rd)
      BY <1>c, UsedIs
    <3>2. Free(downRing.wr, Pos(downRing.rd, 1 + 1))
            = Size - 1 - Used(downRing.wr, Pos(downRing.rd, 1 + 1))
      BY <1>c, <2>5, UsedIs
    <3>3. Used(downRing.wr, downRing.rd) \in Int
      BY <1>c, UsedIs
    <3> QED BY <2>6, <2>8, <3>1, <3>2, <3>3, SizeAssumption
  <2>10. Free(downRing.wr, downRing.rd) \in Int /\ count \in Int
    <3>1. count \in 0 .. Size - 1
      BY <1>0 DEF RttTypeOK
    <3>2. Free(downRing.wr, downRing.rd) = Size - 1 - Used(downRing.wr, downRing.rd)
      BY <1>c, UsedIs
    <3>3. Used(downRing.wr, downRing.rd) \in 0 .. Size - 1
      BY <1>c, UsedIs
    <3> QED BY <3>1, <3>2, <3>3, SizeAssumption
  <2>11. ASSUME count <= Free(downRing.wr, downRing.rd)
         PROVE  count <= Free(downRing'.wr, downRing'.rd)
    BY <2>9, <2>10, <2>11
  <2>12. DownWritten'
    BY <1>0, <2>1, <2>6, <2>11 DEF DownWritten, first, Least
  <2> QED BY <1>e, <2>2, <2>4, <2>12 DEF InProgress
<1>5. CASE TargetResets
  <2>1. downRing'.wr = downRing'.rd
    BY <1>c, <1>5, ResetIs DEF Ring
  <2>2. ~(torn' = "none" /\ pc' \in UpOperation \cup DownOperation)
    BY <1>5, <1>d, ResetIs DEF hostVars
  <2>3. pc \notin UpOperation \cup DownOperation => torn = "none"
    BY <1>0 DEF RttTypeOK, TornInv
  <2>4. UpOperation \cap DownOperation = {}
    BY DEF UpOperation, DownOperation
  <2>5. TornInv'
    BY <1>5, <1>d, <2>1, <2>2, <2>3, <2>4, ResetIs DEF TornInv, hostVars
  <2> QED BY <1>e, <2>2, <2>5 DEF InProgress, UpRead, DownWritten
<1> QED BY <1>1, <1>2, <1>3, <1>4, <1>5 DEF Target

LEMMA InProgressHost ==
  ASSUME IInv, Host
  PROVE  InProgress'
<1>0. RttTypeOK /\ TornInv /\ UpLocal /\ UpRead /\ DownLocal /\ DownWritten
  BY DEF IInv
<1>c. /\ upRing \in Ring /\ downRing \in Ring
      /\ upRing.wr \in Offsets /\ upRing.rd \in Offsets
      /\ downRing.wr \in Offsets /\ downRing.rd \in Offsets
      /\ desc \in [wr : Offsets, rd : Offsets]
      /\ desc.wr \in Offsets /\ desc.rd \in Offsets
  BY <1>0 DEF RttTypeOK, Ring
<1>d. ASSUME pc \notin UpOperation \cup DownOperation
      PROVE  torn = "none" /\ data = <<>>
  BY <1>0, <1>d DEF RttTypeOK, TornInv, UpLocal
<1>1. CASE \E label \in {"up", "up_desc", "input", "down", "down_desc"} : Goto(label)
  BY <1>1, EndedIsBetween
<1>2. CASE Start \/ Replay
  <2>1. pc \notin UpOperation \cup DownOperation /\ pc' \notin UpOperation \cup DownOperation
    BY <1>2 DEF Start, Replay, UpOperation, DownOperation
  <2>2. torn' = "none" /\ data' = <<>>
    BY <1>2, <1>d, <2>1 DEF Start, Replay
  <2> QED BY <2>1, <2>2
      DEF InProgress, TornInv, UpLocal, UpRead, DownLocal, DownWritten, UpOperation,
          DownOperation
<1>3. CASE AccessFails \/ UpRefresh \/ UpPublish \/ ReadTerminal \/ DownRefresh \/ DownPublish
  <2>1. \E label \in {"up", "up_desc", "input", "down", "down_desc"} : Goto(label)
    BY <1>3 DEF AccessFails, UpRefresh, UpPublish, ReadTerminal, DownRefresh, DownPublish, Retry
  <2> QED BY <1>1, <2>1
<1>4. CASE UpDescriptor /\ ~Goto("input")
  <2>1. /\ pc = "up_desc" /\ valid /\ upRing.wr # upRing.rd
        /\ desc' = [wr |-> upRing.wr, rd |-> upRing.rd]
        /\ pc' = IF upRing.wr < upRing.rd THEN "up_wrap" ELSE "up_rest"
        /\ UNCHANGED <<data, count, torn, valid, upRing, downRing>>
    BY <1>4 DEF UpDescriptor, HostSteps, firmwareVars
  <2>2. torn = "none" /\ data = <<>>
    BY <1>d, <2>1 DEF UpOperation, DownOperation
  <2>3. desc'.wr = upRing.wr /\ desc'.rd = upRing.rd
    BY <2>1
  <2>4. pc' \in {"up_wrap", "up_rest"}
    BY <2>1
  <2>5. TornInv'
    BY <2>1, <2>2, <2>4 DEF TornInv, DownOperation
  <2>6. UpLocal'
    BY <1>c, <2>1, <2>2, <2>3, SizeAssumption DEF UpLocal, Offsets
  <2>7. Used(upRing.wr, upRing.rd) \in 1 .. Used(upRing.wr, upRing.rd)
    BY <1>c, <2>1, UsedIs, SizeAssumption
  <2>8. Len(data) = 0
    BY <2>2, EmptySeq
  <2>9. UpRead'
    BY <2>1, <2>2, <2>3, <2>4, <2>7, <2>8 DEF UpRead
  <2>10. DownLocal' /\ DownWritten'
    BY <2>4 DEF DownLocal, DownWritten, DownOperation
  <2> QED BY <2>5, <2>6, <2>9, <2>10 DEF InProgress
<1>5. CASE UpReadWrap
  <2>1. /\ pc = "up_wrap"
        /\ data' = CellsFrom(upRing, desc.rd, Size - desc.rd)
        /\ desc' = [desc EXCEPT !.rd = 0]
        /\ pc' = IF desc.wr > 0 THEN "up_rest" ELSE "up_publish"
        /\ UNCHANGED <<torn, valid, upRing, downRing>>
    BY <1>5 DEF UpReadWrap, HostSteps, firmwareVars
  <2>2. /\ desc'.wr = desc.wr /\ desc'.rd = 0
        /\ pc' \in {"up_rest", "up_publish"}
    BY <1>c, <2>1
  <2>3. desc.wr < desc.rd
    BY <1>0, <2>1 DEF UpLocal
  <2>4. TornInv'
    BY <1>0, <2>1, <2>2 DEF TornInv, UpOperation, DownOperation
  <2>5. UpLocal'
    BY <1>c, <2>1, <2>2 DEF UpLocal, UpOperation
  <2>6. DownLocal' /\ DownWritten'
    BY <2>2 DEF DownLocal, DownWritten, DownOperation
  <2>7. ASSUME torn = "none"
        PROVE  UpRead'
    <3>1. /\ desc.rd = upRing.rd
          /\ Used(desc.wr, upRing.rd) \in 1 .. Used(upRing.wr, upRing.rd)
      BY <1>0, <2>1, <2>7 DEF UpRead, UpOperation
    <3>2. Size - desc.rd \in 0 .. Size - desc.rd
      BY <1>c, SizeAssumption DEF Offsets
    <3>3. /\ Len(data') = Size - upRing.rd
          /\ \A k \in 1 .. Size - upRing.rd : data'[k] = upRing.cell[upRing.rd + k - 1]
      BY <1>c, <2>1, <3>1, <3>2, CellsFromIs
    <3>4. \A k \in 1 .. Size - upRing.rd : upRing.rd + k - 1 = Pos(upRing.rd, k)
      <4> TAKE k \in 1 .. Size - upRing.rd
      <4>1. k \in 1 .. Size /\ upRing.rd + k - 1 < Size
        BY <1>c, SizeAssumption DEF Offsets
      <4> QED BY <1>c, <4>1, PosIs
    <3>5. \A k \in 1 .. Len(data') : data'[k] = upRing.cell[Pos(upRing.rd, k)]
      BY <3>3, <3>4
    <3>6. pc' = "up_rest" => Len(data') = Size - upRing.rd /\ desc.wr < upRing.rd
      BY <2>3, <3>1, <3>3
    <3>7. pc' = "up_publish" => Len(data') = Used(desc.wr, upRing.rd)
      <4>1. Used(desc.wr, upRing.rd) = IF upRing.rd <= desc.wr THEN desc.wr - upRing.rd
                                       ELSE desc.wr - upRing.rd + Size
        BY <1>c, UsedIs
      <4>2. pc' = "up_publish" => ~(desc.wr > 0)
        BY <2>1
      <4> QED BY <1>c, <2>3, <3>1, <3>3, <4>1, <4>2, SizeAssumption DEF Offsets
    <3> QED BY <2>1, <2>2, <3>1, <3>5, <3>6, <3>7 DEF UpRead
  <2>8. UpRead'
    BY <2>1, <2>7 DEF UpRead
  <2> QED BY <2>4, <2>5, <2>6, <2>8 DEF InProgress
<1>6. CASE UpReadRest
  <2> DEFINE n == desc.wr - desc.rd
             more == CellsFrom(upRing, desc.rd, n)
  <2>1. /\ pc = "up_rest" /\ data' = data \o more /\ pc' = "up_publish"
        /\ UNCHANGED <<torn, valid, upRing, downRing, desc>>
    BY <1>6 DEF UpReadRest, HostSteps, firmwareVars
  <2>2. desc.rd < desc.wr
    BY <1>0, <2>1 DEF UpLocal
  <2>3. n \in 0 .. Size - desc.rd /\ n \in Nat
    BY <1>c, <2>2, SizeAssumption DEF Offsets
  <2>4. TornInv'
    BY <1>0, <2>1 DEF TornInv, UpOperation, DownOperation
  <2>5. UpLocal' /\ DownLocal' /\ DownWritten'
    BY <2>1 DEF UpLocal, DownLocal, DownWritten, UpOperation, DownOperation
  <2>6. /\ more \in Seq(Nat) /\ Len(more) = n
        /\ \A k \in 1 .. n : more[k] = upRing.cell[desc.rd + k - 1]
    BY <1>c, <2>3, CellsFromIs
  <2> HIDE DEF more
  <2>7. data \in Seq(Nat) /\ Len(data) \in Nat
    BY <1>0, LenProperties DEF RttTypeOK
  <2>8. /\ Len(data') = Len(data) + n
        /\ \A k \in 1 .. Len(data) + n :
             data'[k] = IF k <= Len(data) THEN data[k] ELSE more[k - Len(data)]
    BY <2>1, <2>6, <2>7, ConcatProperties
  <2>9. ASSUME torn = "none"
        PROVE  UpRead'
    <3>1. /\ Used(desc.wr, upRing.rd) \in 1 .. Used(upRing.wr, upRing.rd)
          /\ \A k \in 1 .. Len(data) : data[k] = upRing.cell[Pos(upRing.rd, k)]
          /\ \/ data = <<>> /\ desc.rd = upRing.rd
             \/ Len(data) = Size - upRing.rd /\ desc.rd = 0 /\ desc.wr < upRing.rd
      BY <1>0, <2>1, <2>9 DEF UpRead, UpOperation
    <3>2. PICK m \in Nat : m = Len(data)
      BY <2>7
    <3>3. \/ m = 0 /\ desc.rd = upRing.rd
          \/ m = Size - upRing.rd /\ desc.rd = 0 /\ desc.wr < upRing.rd
      BY <3>1, <3>2, EmptySeq
    <3>4. Used(desc.wr, upRing.rd) = IF upRing.rd <= desc.wr THEN desc.wr - upRing.rd
                                     ELSE desc.wr - upRing.rd + Size
      BY <1>c, UsedIs
    <3>5. m + n = Used(desc.wr, upRing.rd)
      BY <1>c, <2>2, <3>3, <3>4, SizeAssumption DEF Offsets
    <3>6. \A k \in 1 .. m + n :
            k > m => k - m \in 1 .. n /\ desc.rd + (k - m) - 1 = Pos(upRing.rd, k)
      <4> TAKE k \in 1 .. m + n
      <4> HAVE k > m
      <4>1. k \in 1 .. Size
        BY <1>c, <3>5, UsedIs, SizeAssumption
      <4>2. k - m \in 1 .. n
        BY <2>3, <3>2
      <4>3. Pos(upRing.rd, k) = IF upRing.rd + k - 1 < Size THEN upRing.rd + k - 1
                                ELSE upRing.rd + k - 1 - Size
        BY <1>c, <4>1, PosIs
      <4>4. desc.rd + (k - m) - 1 = Pos(upRing.rd, k)
        BY <1>c, <3>3, <4>1, <4>2, <4>3, SizeAssumption DEF Offsets
      <4> QED BY <4>2, <4>4
    <3>7. \A k \in 1 .. Len(data') : data'[k] = upRing.cell[Pos(upRing.rd, k)]
      <4> TAKE k \in 1 .. Len(data')
      <4>1. k \in 1 .. m + n /\ Len(data) = m
        BY <2>8, <3>2
      <4>2. CASE k <= m
        <5>1. k \in 1 .. m
          BY <2>3, <4>1, <4>2
        <5> QED BY <2>8, <3>1, <4>1, <4>2, <5>1
      <4>3. CASE ~(k <= m)
        <5>1. k > m
          BY <2>3, <4>1, <4>3
        <5>2. k - m \in 1 .. n /\ desc.rd + (k - m) - 1 = Pos(upRing.rd, k)
          BY <3>6, <4>1, <5>1
        <5>3. data'[k] = more[k - m]
          BY <2>8, <4>1, <4>3
        <5> QED BY <2>6, <5>2, <5>3
      <4> QED BY <4>2, <4>3
    <3>8. Len(data') = Used(desc.wr, upRing.rd)
      BY <2>8, <3>2, <3>5
    <3> HIDE DEF n
    <3> QED BY <2>1, <3>1, <3>7, <3>8 DEF UpRead
  <2>10. UpRead'
    BY <2>1, <2>9 DEF UpRead
  <2> QED BY <2>4, <2>5, <2>10 DEF InProgress
<1>7. CASE DownDescriptor /\ ~Goto("up")
  <2> DEFINE room == Free(downRing.wr, downRing.rd)
             n == Least(Len(pending_input), room)
  <2>1. /\ pc = "down_desc" /\ valid /\ n > 0
        /\ desc' = [wr |-> downRing.wr, rd |-> downRing.rd]
        /\ count' = n
        /\ pc' = "down_first"
        /\ UNCHANGED <<data, torn, valid, upRing, downRing, pending_input>>
    BY <1>7 DEF DownDescriptor, HostSteps, firmwareVars
  <2>2. torn = "none" /\ data = <<>>
    BY <1>d, <2>1 DEF UpOperation, DownOperation
  <2>3. desc'.wr = downRing.wr
    BY <2>1
  <2>4. Len(pending_input) \in Nat
    BY <1>0, LenProperties DEF RttTypeOK
  <2>5. room \in Int
    <3>1. room = Size - 1 - Used(downRing.wr, downRing.rd)
      BY <1>c, UsedIs
    <3>2. Used(downRing.wr, downRing.rd) \in 0 .. Size - 1
      BY <1>c, UsedIs
    <3> QED BY <3>1, <3>2, SizeAssumption
  <2> HIDE DEF room
  <2>6. n \in 1 .. Len(pending_input) /\ n <= room
    <3>1. PICK l \in Nat : l = Len(pending_input)
      BY <2>4
    <3>2. n = IF l < room THEN l ELSE room
      BY <3>1 DEF Least
    <3> QED BY <2>1, <2>5, <3>1, <3>2
  <2> HIDE DEF n
  <2>7. TornInv'
    BY <2>1, <2>2 DEF TornInv
  <2>8. UpLocal' /\ UpRead'
    BY <2>1, <2>2 DEF UpLocal, UpRead, UpOperation
  <2>9. DownLocal'
    BY <2>1, <2>6 DEF DownLocal
  <2>10. DownWritten'
    BY <2>1, <2>3, <2>6 DEF DownWritten, room
  <2> QED BY <2>7, <2>8, <2>9, <2>10 DEF InProgress
<1>8. CASE (DownFirst \/ DownSecond) /\ ~Goto("up")
  <2>1. /\ pc \in DownOperation /\ pc \in {"down_first", "down_second"}
        /\ pc' = IF DownFirst /\ count > first THEN "down_second" ELSE "down_publish"
        /\ UNCHANGED <<desc, data, count, torn, valid, upRing, pending_input>>
    BY <1>8 DEF DownFirst, DownSecond, Retry, DownOperation
  <2>2. pc' \in {"down_second", "down_publish"} /\ pc' \in DownOperation
    BY <2>1 DEF DownOperation
  <2>3. downRing'.wr = downRing.wr /\ downRing'.rd = downRing.rd
    BY <1>0, <1>8, FirstStoreIs, SecondStoreIs
  <2>4. /\ first \in 1 .. count /\ desc.wr + first <= Size
        /\ first < count => first = Size - desc.wr
        /\ count \in 1 .. Len(pending_input)
        /\ count \in 1 .. Size - 1
    BY <1>0, <2>1, FirstIs
  <2>5. first' = first
    BY <2>1 DEF first, Least
  <2> HIDE DEF first
  <2>6. TornInv'
    BY <1>0, <2>1, <2>2, <2>3 DEF TornInv, UpOperation, DownOperation
  <2>7. UpLocal' /\ UpRead'
    BY <1>0, <2>1, <2>2 DEF UpLocal, UpRead, UpOperation, DownOperation
  <2>8. DownLocal'
    BY <2>1, <2>4, <2>5 DEF DownLocal
  <2>9. ASSUME torn = "none"
        PROVE  DownWritten'
    <3>1. /\ desc.wr = downRing.wr /\ count <= Free(downRing.wr, downRing.rd)
          /\ \A k \in 1 .. count : pc = "down_second" /\ k <= first
               => downRing.cell[Pos(desc.wr, k)] = pending_input[k]
      BY <1>0, <2>1, <2>9 DEF DownWritten
    <3>2. \A k \in 1 .. count :
            /\ Pos(desc.wr, k) = IF desc.wr + k - 1 < Size THEN desc.wr + k - 1
                                 ELSE desc.wr + k - 1 - Size
            /\ Pos(desc.wr, k) \in Offsets
      <4> TAKE k \in 1 .. count
      <4>1. k \in 1 .. Size
        BY <2>4, SizeAssumption
      <4> QED BY <1>c, <4>1, PosIs
    <3>3. desc.wr \in Int /\ desc.wr >= 0 /\ desc.wr < Size
      BY <1>c, SizeAssumption DEF Offsets
    <3>4. CASE DownFirst
      <4>1. \A c \in Offsets : downRing'.cell[c]
              = IF c \in desc.wr .. desc.wr + first - 1 THEN pending_input[1 + c - desc.wr]
                ELSE downRing.cell[c]
        BY <1>0, <3>4, FirstStoreIs
      <4>2. \A k \in 1 .. first : downRing'.cell[Pos(desc.wr, k)] = pending_input[k]
        <5> TAKE k \in 1 .. first
        <5>1. k \in 1 .. count
          BY <2>4, SizeAssumption
        <5>2. desc.wr + k - 1 < Size
          BY <2>4, <3>3, SizeAssumption
        <5>3. Pos(desc.wr, k) = desc.wr + k - 1 /\ Pos(desc.wr, k) \in Offsets
          BY <3>2, <5>1, <5>2
        <5>4. /\ Pos(desc.wr, k) \in desc.wr .. desc.wr + first - 1
              /\ 1 + Pos(desc.wr, k) - desc.wr = k
          BY <2>4, <3>3, <5>1, <5>3, SizeAssumption
        <5> QED BY <4>1, <5>3, <5>4
      <4>3. pc' = "down_second" \/ count = first
        BY <2>1, <2>4, <3>4, SizeAssumption
      <4>4. \A k \in 1 .. count : pc' = "down_publish" \/ (pc' = "down_second" /\ k <= first)
              => downRing'.cell[Pos(desc.wr, k)] = pending_input[k]
        <5> TAKE k \in 1 .. count
        <5> HAVE pc' = "down_publish" \/ (pc' = "down_second" /\ k <= first)
        <5>1. k \in 1 .. first
          BY <2>4, <4>3, SizeAssumption
        <5> QED BY <4>2, <5>1
      <4> QED BY <2>1, <2>3, <2>5, <3>1, <4>4 DEF DownWritten
    <3>5. CASE DownSecond
      <4>1. \A c \in Offsets : downRing'.cell[c]
              = IF c \in 0 .. count - first - 1 THEN pending_input[first + 1 + c]
                ELSE downRing.cell[c]
        BY <1>0, <3>5, SecondStoreIs
      <4>2. pc = "down_second" /\ first < count /\ first = Size - desc.wr
        BY <1>0, <2>4, <3>5 DEF DownSecond, DownLocal, DownOperation
      <4>3. \A k \in 1 .. count : downRing'.cell[Pos(desc.wr, k)] = pending_input[k]
        <5> TAKE k \in 1 .. count
        <5>1. CASE k <= first
          <6>1. Pos(desc.wr, k) = desc.wr + k - 1 /\ Pos(desc.wr, k) \in Offsets
            <7>1. desc.wr + k - 1 < Size
              BY <2>4, <3>3, <4>2, <5>1, SizeAssumption
            <7> QED BY <3>2, <7>1
          <6>2. ~(Pos(desc.wr, k) \in 0 .. count - first - 1)
            BY SMTT(20), <2>4, <3>3, <4>2, <6>1, SizeAssumption
          <6>3. downRing'.cell[Pos(desc.wr, k)] = downRing.cell[Pos(desc.wr, k)]
            BY <4>1, <6>1, <6>2
          <6> QED BY <3>1, <4>2, <5>1, <6>3
        <5>2. CASE ~(k <= first)
          <6>1. Pos(desc.wr, k) = k - first - 1 /\ Pos(desc.wr, k) \in Offsets
            <7>1. ~(desc.wr + k - 1 < Size) /\ desc.wr + k - 1 - Size = k - first - 1
              BY <2>4, <3>3, <4>2, <5>2, SizeAssumption
            <7> QED BY <3>2, <7>1
          <6>2. Pos(desc.wr, k) \in 0 .. count - first - 1 /\ first + 1 + Pos(desc.wr, k) = k
            BY <2>4, <5>2, <6>1, SizeAssumption
          <6> QED BY <4>1, <6>1, <6>2
        <5> QED BY <5>1, <5>2
      <4> QED BY <2>1, <2>3, <2>5, <3>1, <4>3 DEF DownWritten
    <3> QED BY <1>8, <3>4, <3>5
  <2>10. DownWritten'
    BY <2>1, <2>9 DEF DownWritten
  <2> QED BY <2>6, <2>7, <2>8, <2>10 DEF InProgress
<1> QED BY <1>1, <1>2, <1>3, <1>4, <1>5, <1>6, <1>7, <1>8 DEF Host

LEMMA IInvInductive == IInv /\ [RttNext]_rttVars => IInv'
<1> SUFFICES ASSUME IInv, [RttNext]_rttVars PROVE IInv'
  OBVIOUS
<1>1. RttTypeOK'
  BY TypeStep
<1>2. InProgress'
  <2>1. CASE Target
    BY <2>1, InProgressTarget
  <2>2. CASE Host
    BY <2>2, InProgressHost
  <2>3. CASE UNCHANGED rttVars
    BY <2>3 DEF rttVars, firmwareVars, hostVars, IInv, InProgress, TornInv, UpLocal, UpRead,
                DownLocal, DownWritten, first, Least
  <2> QED BY <2>1, <2>2, <2>3 DEF RttNext
<1> QED BY <1>1, <1>2 DEF IInv, InProgress

LEMMA Invariance == RttSpec => []IInv
BY InitIInv, IInvInductive, PTL DEF RttSpec

(* Every offset stays inside its ring: the firmware and the host index the *)
(* buffers with them (Descriptor, read_up, write_down).                    *)
THEOREM TypeCorrect == RttSpec => []RttTypeOK
<1>1. IInv => RttTypeOK
  BY DEF IInv
<1> QED BY <1>1, Invariance, PTL

-----------------------------------------------------------------------------
(***************************************************************************)
(* Refinement: every step is a step of the two streams.                    *)

LEMMA EmptyContents ==
  ASSUME NEW r \in Ring, r.wr = r.rd
  PROVE  Contents(r) = <<>>
<1>1. r.wr \in Offsets /\ r.rd \in Offsets
  BY DEF Ring
<1>2. Used(r.wr, r.rd) = 0
  BY <1>1, UsedIs
<1>3. Contents(r) \in Seq(Nat) /\ Len(Contents(r)) = 0
  BY <1>2, ContentsIs
<1> QED BY <1>3, EmptySeq

(* A free cell is no cell of a byte in the ring.                           *)
LEMMA FreeCells ==
  ASSUME NEW wr \in Offsets, NEW rd \in Offsets,
         NEW k \in 1 .. Free(wr, rd), NEW j \in 1 .. Used(wr, rd)
  PROVE  Pos(wr, k) # Pos(rd, j)
<1> DEFINE u == Used(wr, rd)
<1>1. u \in 0 .. Size - 1 /\ Free(wr, rd) = Size - 1 - u
  BY UsedIs
<1>2. Pos(rd, u + 1) = wr
  BY EndOfUsed
<1>3. k \in 1 .. Size - 1 - u /\ j \in 1 .. u
  BY <1>1
<1> HIDE DEF u
<1>4. k \in 1 .. Size - u /\ u + k \in 1 .. Size /\ j \in 1 .. Size /\ j # u + k
  BY <1>1, <1>3, SizeAssumption
<1>5. Pos(wr, k) = Pos(rd, u + k)
  BY <1>1, <1>2, <1>4, PosPos
<1> QED BY <1>4, <1>5, PosInjective

(* Bytes already in free cells are published by moving WrOff behind them.  *)
LEMMA ContentsExtend ==
  ASSUME NEW r \in Ring, NEW q \in Ring, NEW n \in 1 .. Free(r.wr, r.rd),
         NEW s \in Seq(Nat), n <= Len(s),
         q.rd = r.rd, q.cell = r.cell, q.wr = Pos(r.wr, n + 1),
         \A k \in 1 .. n : r.cell[Pos(r.wr, k)] = s[k]
  PROVE  Contents(q) = Contents(r) \o SubSeq(s, 1, n)
<1> DEFINE c == Contents(r)
           d == Contents(q)
           u == Used(r.wr, r.rd)
           t == SubSeq(s, 1, n)
<1>1. r.wr \in Offsets /\ r.rd \in Offsets
  BY DEF Ring
<1>2. u \in 0 .. Size - 1 /\ Free(r.wr, r.rd) = Size - 1 - u
  BY <1>1, UsedIs
<1>3. n \in 1 .. Size - 1 - u
  BY <1>2
<1>4. c \in Seq(Nat) /\ Len(c) = u /\ \A k \in 1 .. u : c[k] = r.cell[Pos(r.rd, k)]
  BY ContentsIs
<1>5. Used(q.wr, q.rd) = u + n
  <2>1. n \in 0 .. Size - 1 /\ u + n < Size
    BY <1>2, <1>3, SizeAssumption
  <2> QED BY <1>1, <2>1, UsedMore
<1>6. d \in Seq(Nat) /\ Len(d) = u + n /\ \A k \in 1 .. u + n : d[k] = r.cell[Pos(r.rd, k)]
  BY <1>5, ContentsIs
<1>7. Pos(r.rd, u + 1) = r.wr
  BY <1>1, EndOfUsed
<1>8. t \in Seq(Nat) /\ Len(t) = n /\ \A k \in 1 .. n : t[k] = s[k]
  <2>1. PICK l \in Nat : l = Len(s)
    BY LenProperties
  <2>2. \A k \in 1 .. n : s[k] \in Nat
    BY <1>2, <1>3, <2>1, ElementOfSeq, SizeAssumption
  <2>3. 1 \in Int /\ n \in Int /\ 1 <= n /\ n - 1 + 1 = n
    BY <1>2, <1>3, SizeAssumption
  <2>4. \A k \in 1 .. n : 1 + k - 1 = k
    OBVIOUS
  <2> QED BY <2>2, <2>3, <2>4, SubSeqProperties
<1> HIDE DEF c, d, u, t
<1>9. /\ c \o t \in Seq(Nat) /\ Len(c \o t) = u + n
      /\ \A k \in 1 .. u + n : (c \o t)[k] = IF k <= u THEN c[k] ELSE t[k - u]
  <2>1. c \in Seq(Nat) /\ t \in Seq(Nat)
    BY <1>4, <1>8
  <2>2. /\ c \o t \in Seq(Nat) /\ Len(c \o t) = Len(c) + Len(t)
        /\ \A k \in 1 .. Len(c) + Len(t) :
             (c \o t)[k] = IF k <= Len(c) THEN c[k] ELSE t[k - Len(c)]
    BY <2>1, ConcatProperties
  <2>3. Len(c) = u /\ Len(t) = n
    BY <1>4, <1>8
  <2> QED BY <2>2, <2>3
<1>10. \A k \in 1 .. u + n : d[k] = (c \o t)[k]
  <2> TAKE k \in 1 .. u + n
  <2>1. CASE k <= u
    <3>1. k \in 1 .. u
      BY <1>2, <1>3, <2>1, SizeAssumption
    <3> QED BY <1>4, <1>6, <1>9, <2>1, <3>1
  <2>2. CASE ~(k <= u)
    <3>1. /\ k - u \in 1 .. n /\ k - u \in 1 .. Size - u /\ u + (k - u) = k
      BY <1>2, <1>3, <2>2, SizeAssumption
    <3>2. Pos(r.wr, k - u) = Pos(r.rd, k)
      BY <1>1, <1>2, <1>7, <3>1, PosPos
    <3>3. t[k - u] = s[k - u] /\ r.cell[Pos(r.wr, k - u)] = s[k - u]
      BY <1>8, <3>1
    <3> QED BY <1>6, <1>9, <2>2, <3>2, <3>3
  <2> QED BY <2>1, <2>2
<1>11. d = c \o t
  BY <1>6, <1>9, <1>10, SeqEqual
<1> QED BY <1>11 DEF c, d, t

(* Cells written by write_down before it publishes them hold no byte the   *)
(* target could read.                                                      *)
LEMMA StoreUnseen ==
  ASSUME IInv, DownFirst \/ DownSecond
  PROVE  Contents(downRing') = Contents(downRing)
<1>0. RttTypeOK /\ TornInv /\ DownLocal /\ DownWritten
  BY DEF IInv
<1>1. downRing \in Ring /\ downRing.wr \in Offsets /\ downRing.rd \in Offsets
  BY <1>0 DEF RttTypeOK, Ring
<1>2. /\ downRing' \in Ring
      /\ downRing'.wr = downRing.wr /\ downRing'.rd = downRing.rd
  BY <1>0, FirstStoreIs, SecondStoreIs
<1>3. pc \in DownOperation
  BY DEF DownFirst, DownSecond, DownOperation
<1>4. /\ first \in 1 .. count /\ desc.wr + first <= Size
      /\ first < count => first = Size - desc.wr
      /\ count \in 1 .. Size - 1 /\ desc.wr \in Offsets
  BY <1>0, <1>3, FirstIs
<1>5. CASE torn = "down"
  <2>1. downRing.wr = downRing.rd
    BY <1>0, <1>5 DEF TornInv
  <2>2. Contents(downRing) = <<>> /\ Contents(downRing') = <<>>
    BY <1>1, <1>2, <2>1, EmptyContents
  <2> QED BY <2>2
<1>6. CASE torn # "down"
  <2>1. torn = "none"
    BY <1>0, <1>3, <1>6 DEF RttTypeOK, TornInv, UpOperation, DownOperation
  <2>2. desc.wr = downRing.wr /\ count <= Free(downRing.wr, downRing.rd)
    BY <1>0, <1>3, <2>1 DEF DownWritten
  <2>3. Used(downRing.wr, downRing.rd) \in 0 .. Size - 1
    BY <1>1, UsedIs
  <2>4. \A j \in 1 .. Used(downRing.wr, downRing.rd) : Pos(downRing.rd, j) \in Offsets
    <3> TAKE j \in 1 .. Used(downRing.wr, downRing.rd)
    <3>1. j \in 1 .. Size
      BY <2>3, SizeAssumption
    <3> QED BY <1>1, <3>1, PosIs
  <2> HIDE DEF first
  <2>5. ASSUME NEW c \in Offsets, downRing'.cell[c] # downRing.cell[c]
        PROVE  \E k \in 1 .. count : c = Pos(desc.wr, k)
    <3>a. desc.wr \in Int /\ desc.wr >= 0 /\ desc.wr < Size /\ c \in Int /\ c >= 0 /\ c < Size
      BY <1>4, SizeAssumption DEF Offsets
    <3>1. CASE DownFirst
      <4>1. c \in desc.wr .. desc.wr + first - 1
        BY <1>0, <2>5, <3>1, FirstStoreIs
      <4>2. PICK k \in Int : k = c - desc.wr + 1
        BY <3>a
      <4>3. k \in 1 .. count /\ k \in 1 .. Size /\ desc.wr + k - 1 < Size /\ desc.wr + k - 1 = c
        BY <1>4, <3>a, <4>1, <4>2, SizeAssumption
      <4>4. c = Pos(desc.wr, k)
        BY <1>4, <4>3, PosIs
      <4> QED BY <4>3, <4>4
    <3>2. CASE DownSecond
      <4>1. c \in 0 .. count - first - 1
        BY <1>0, <2>5, <3>2, SecondStoreIs
      <4>2. first < count /\ first = Size - desc.wr
        BY <1>0, <1>4, <3>2 DEF DownSecond, DownLocal, DownOperation
      <4>3. PICK k \in Int : k = first + 1 + c
        BY <1>4, <3>a, SizeAssumption
      <4>4. /\ k \in 1 .. count /\ k \in 1 .. Size
            /\ ~(desc.wr + k - 1 < Size) /\ desc.wr + k - 1 - Size = c
        BY <1>4, <3>a, <4>1, <4>2, <4>3, SizeAssumption
      <4>5. c = Pos(desc.wr, k)
        BY <1>4, <4>4, PosIs
      <4> QED BY <4>4, <4>5
    <3> QED BY <3>1, <3>2
  <2>6. Free(downRing.wr, downRing.rd) = Size - 1 - Used(downRing.wr, downRing.rd)
    BY <1>1, UsedIs
  <2>7. \A k \in 1 .. count : k \in 1 .. Free(downRing.wr, downRing.rd)
    BY <1>4, <2>2, <2>3, <2>6, SizeAssumption
  <2>8. \A j \in 1 .. Used(downRing.wr, downRing.rd) :
          downRing'.cell[Pos(downRing.rd, j)] = downRing.cell[Pos(downRing.rd, j)]
    <3> TAKE j \in 1 .. Used(downRing.wr, downRing.rd)
    <3>1. ASSUME downRing'.cell[Pos(downRing.rd, j)] # downRing.cell[Pos(downRing.rd, j)]
          PROVE  FALSE
      <4>1. PICK k \in 1 .. count : Pos(downRing.rd, j) = Pos(downRing.wr, k)
        BY <2>2, <2>4, <2>5, <3>1
      <4>2. k \in 1 .. Free(downRing.wr, downRing.rd)
        BY <2>7
      <4> QED BY <1>1, <4>1, <4>2, FreeCells
    <3> QED BY <3>1
  <2> QED BY <1>1, <1>2, <2>8, ContentsSame
<1> QED BY <1>5, <1>6

LEMMA RefinementStep ==
  IInv /\ IInv' /\ [RttNext]_rttVars => [Streams!StreamsNext]_(Streams!streamVars)
<1> SUFFICES ASSUME IInv, IInv', [RttNext]_rttVars
             PROVE  Streams!StreamsNext \/ UNCHANGED Streams!streamVars
  OBVIOUS
<1>0. RttTypeOK /\ TornInv /\ UpLocal /\ UpRead /\ DownLocal /\ DownWritten
  BY DEF IInv
<1>c. /\ upRing \in Ring /\ downRing \in Ring
      /\ upRing.wr \in Offsets /\ upRing.rd \in Offsets
      /\ downRing.wr \in Offsets /\ downRing.rd \in Offsets
      /\ desc.wr \in Offsets /\ desc.rd \in Offsets
      /\ torn \in {"none", "up", "down"}
      /\ pending_input \in Seq(Nat)
  BY <1>0 DEF RttTypeOK, Ring
<1>d. upRing' \in Ring /\ downRing' \in Ring /\ pending_input' \in Seq(Nat)
  BY DEF IInv, RttTypeOK
<1> DEFINE up      == Contents(upRing)
           down    == Contents(downRing)
           started == pc \notin {"start", "replay"}
<1>e. up' = Contents(upRing') /\ down' = Contents(downRing')
  BY DEF Contents, Used
<1>f. Len(up') < Size /\ Len(down') < Size
  <2>1. /\ Len(Contents(upRing')) \in 0 .. Size - 1
        /\ Len(Contents(downRing')) \in 0 .. Size - 1
    BY <1>d, ContentsIs
  <2> QED BY <1>e, <2>1, SizeAssumption
<1>g. (upRing' = upRing => up' = up) /\ (downRing' = downRing => down' = down)
  BY <1>e
<1>h. pc \in Accesses \cup UpOperation \cup DownOperation \cup {"input"} => started
  BY DEF Accesses, UpOperation, DownOperation
<1> HIDE DEF up, down, started
<1>i. ASSUME pc \notin UpOperation \cup DownOperation
      PROVE  torn = "none"
  BY <1>0, <1>c, <1>i DEF TornInv
<1>j. ASSUME torn' = "none",
             UNCHANGED <<upRing, downRing, pending_input, printed>>, started, started'
      PROVE  Streams!StreamsNext
  <2>1. Streams!TornEnds
    BY <1>g, <1>j DEF Streams!TornEnds, up, down, started
  <2> QED BY <2>1 DEF Streams!StreamsNext
<1>k. ASSUME NEW label \in {"up", "up_desc", "input", "down", "down_desc"}, Goto(label)
      PROVE  torn' = "none" /\ started'
  BY <1>k DEF Goto, started
<1>l. ASSUME UNCHANGED <<upRing, downRing, pending_input, printed, torn>>, started' = started
      PROVE  UNCHANGED Streams!streamVars
  BY <1>g, <1>l DEF Streams!streamVars, up, down, started
<1>1. CASE TargetInitsDescriptors \/ TargetResets
  <2>1. upRing'.wr = upRing'.rd /\ downRing'.wr = downRing'.rd
    BY <1>c, <1>1, ResetIs DEF TargetInitsDescriptors, Ring
  <2>2. up' = <<>> /\ down' = <<>>
    BY <1>d, <1>e, <2>1, EmptyContents
  <2>3. UNCHANGED hostVars
    BY <1>1, ResetIs DEF TargetInitsDescriptors
  <2>4. torn' \in {torn, "up", "down"}
    BY <1>1, ResetIs DEF TargetInitsDescriptors
  <2>5. Streams!Reset
    BY <2>2, <2>3, <2>4 DEF Streams!Reset, hostVars, up, down, started
  <2> QED BY <2>5 DEF Streams!StreamsNext
<1>2. CASE TargetWritesId \/ UNCHANGED rttVars
  <2>1. UNCHANGED <<upRing, downRing, pending_input, printed, torn, pc>>
    BY <1>2 DEF TargetWritesId, rttVars, firmwareVars, hostVars
  <2> QED BY <1>l, <2>1 DEF started
<1>3. CASE TargetWrites
  <2> DEFINE u == Used(upRing.wr, upRing.rd)
  <2>1. /\ upRing'.rd = upRing.rd /\ Used(upRing'.wr, upRing'.rd) = u + 1
        /\ \A k \in 1 .. u : upRing'.cell[Pos(upRing.rd, k)] = upRing.cell[Pos(upRing.rd, k)]
    BY <1>0, <1>3, PushIs
  <2>2. up = SubSeq(up', 1, Len(up') - 1)
    BY <1>c, <1>d, <1>e, <2>1, ContentsGrow DEF up
  <2>3. up' # <<>>
    <3>1. Len(up') = u + 1
      BY <1>d, <1>e, <2>1, ContentsIs
    <3>2. u \in 0 .. Size - 1
      BY <1>c, UsedIs
    <3> QED BY <3>1, <3>2, EmptySeq, SizeAssumption
  <2>4. UNCHANGED <<downRing, hostVars, torn>>
    BY <1>3 DEF TargetWrites
  <2>5. UNCHANGED <<down, pending_input, printed, torn, started>>
    BY <1>g, <2>4 DEF hostVars, started
  <2>6. Streams!TargetWrites
    BY <1>f, <2>2, <2>3, <2>5
    DEF Streams!TargetWrites, Streams!Fits, Streams!Prefix, up, down, started
  <2> QED BY <2>6 DEF Streams!StreamsNext
<1>4. CASE TargetReads
  <2>1. downRing.wr # downRing.rd
    BY <1>4 DEF TargetReads
  <2>2. /\ downRing' = [downRing EXCEPT !.rd = Pos(downRing.rd, 1 + 1)]
        /\ Pos(downRing.rd, 1 + 1) \in Offsets
    <3>1. (downRing.rd + 1) % Size = Pos(downRing.rd, 1 + 1)
      BY <1>c, SizeAssumption DEF Pos, Offsets
    <3>2. 1 + 1 \in 1 .. Size
      BY SizeAssumption
    <3> QED BY <1>4, <1>c, <3>1, <3>2, PosIs DEF TargetReads
  <2>3. /\ downRing'.wr = downRing.wr /\ downRing'.cell = downRing.cell
        /\ downRing'.rd = Pos(downRing.rd, 1 + 1)
    BY <1>c, <2>2 DEF Ring
  <2>4. Used(downRing.wr, downRing.rd) \in 0 .. Size - 1 /\ Used(downRing.wr, downRing.rd) # 0
    BY <1>c, <2>1, UsedIs
  <2>5. 1 \in 0 .. Used(downRing.wr, downRing.rd)
    BY <2>4, SizeAssumption
  <2>6. down' = SubSeq(down, 1 + 1, Len(down))
    BY <1>c, <1>d, <1>e, <2>3, <2>5, ContentsShrink DEF down
  <2>7. down \in Seq(Nat) /\ down # <<>>
    BY <1>c, <2>4, ContentsIs, EmptySeq DEF down
  <2>8. down' = Tail(down)
    BY <2>6, <2>7, TailIsSubSeq
  <2>9. UNCHANGED <<upRing, hostVars, torn>>
    BY <1>4 DEF TargetReads
  <2>10. UNCHANGED <<up, pending_input, printed, torn, started>>
    BY <1>g, <2>9 DEF hostVars, started
  <2>11. Streams!TargetReads
    BY <2>7, <2>8, <2>10 DEF Streams!TargetReads, up, down, started
  <2> QED BY <2>11 DEF Streams!StreamsNext
<1>5. CASE Start \/ Replay
  <2>1. UNCHANGED <<downRing, pending_input, printed, torn>> /\ ~started
    BY <1>5 DEF Start, Replay, HostSteps, firmwareVars, started
  <2>2. CASE ~started'
    <3>1. UNCHANGED upRing
      BY <1>5, <2>2 DEF Start, Replay, HostSteps, firmwareVars, started
    <3> QED BY <1>l, <2>1, <2>2, <3>1 DEF started
  <2>3. CASE started'
    <3>1. started' = TRUE
      BY <2>3 DEF started
    <3>2. Streams!StartPolling
      BY <1>f, <1>g, <2>1, <3>1 DEF Streams!StartPolling, Streams!Fits, up, down, started
    <3> QED BY <3>2 DEF Streams!StreamsNext
  <2> QED BY <2>2, <2>3
<1>6. CASE \/ AccessFails \/ UpRefresh \/ DownRefresh
           \/ UpDescriptor /\ Goto("input")
           \/ DownDescriptor /\ Goto("up")
  <2>1. PICK label \in {"up", "up_desc", "input", "down", "down_desc"} : Goto(label)
    BY <1>6 DEF AccessFails, UpRefresh, DownRefresh, Retry
  <2>2. UNCHANGED <<upRing, downRing, pending_input, printed>>
    BY <1>6 DEF AccessFails, UpRefresh, DownRefresh, UpDescriptor, DownDescriptor, HostSteps,
                firmwareVars
  <2>3. started
    BY <1>6 DEF AccessFails, UpRefresh, DownRefresh, UpDescriptor, DownDescriptor, Accesses,
                started
  <2> QED BY <1>j, <1>k, <2>1, <2>2, <2>3
<1>7. CASE \/ UpDescriptor /\ ~Goto("input")
           \/ UpReadWrap \/ UpReadRest
           \/ DownDescriptor /\ ~Goto("up")
  <2>1. UNCHANGED <<upRing, downRing, pending_input, printed, torn>>
    BY <1>7 DEF UpDescriptor, UpReadWrap, UpReadRest, DownDescriptor, HostSteps, firmwareVars
  <2>2. started /\ started'
    BY <1>7 DEF UpDescriptor, UpReadWrap, UpReadRest, DownDescriptor, started
  <2> QED BY <1>l, <2>1, <2>2 DEF started
<1>8. CASE UpPublish
  <2>1. /\ pc = "up_publish" /\ pc \in UpOperation
        /\ upRing' = [upRing EXCEPT !.rd = desc.wr]
        /\ printed' \in {printed, data}
        /\ UNCHANGED <<downRing, pending_input>>
    BY <1>8 DEF UpPublish, UpOperation
  <2>2. PICK label \in {"up", "up_desc", "input", "down", "down_desc"} : Goto(label)
    BY <1>8 DEF UpPublish, Retry
  <2>3. torn' = "none" /\ started' /\ started
    BY <1>h, <1>k, <2>1, <2>2
  <2>4. CASE torn = "up"
    <3>1. Streams!TornRead
      BY <1>f, <1>g, <2>1, <2>3, <2>4
      DEF Streams!TornRead, Streams!Fits, up, down, started
    <3> QED BY <3>1 DEF Streams!StreamsNext
  <2>5. CASE torn # "up"
    <3>1. torn = "none"
      BY <1>0, <1>c, <2>1, <2>5 DEF TornInv, UpOperation, DownOperation
    <3> DEFINE w == Used(desc.wr, upRing.rd)
               u == Used(upRing.wr, upRing.rd)
    <3>2. /\ w \in 1 .. u /\ Len(data) = w
          /\ \A k \in 1 .. Len(data) : data[k] = upRing.cell[Pos(upRing.rd, k)]
      BY <1>0, <2>1, <3>1 DEF UpRead
    <3>3. /\ upRing'.wr = upRing.wr /\ upRing'.cell = upRing.cell
          /\ upRing'.rd = Pos(upRing.rd, w + 1)
      <4>1. Pos(upRing.rd, w + 1) = desc.wr
        BY <1>c, EndOfUsed
      <4> QED BY <1>c, <2>1, <4>1 DEF Ring
    <3>4. u \in 0 .. Size - 1
      BY <1>c, UsedIs
    <3>5. w \in 0 .. Used(upRing.wr, upRing.rd) /\ w \in 1 .. u /\ w \in Nat
      BY <3>2, <3>4, SizeAssumption
    <3>6. up' = SubSeq(up, w + 1, Len(up))
      BY <1>c, <1>d, <1>e, <3>3, <3>5, ContentsShrink DEF up
    <3>7. up \in Seq(Nat) /\ Len(up) = u /\ \A k \in 1 .. u : up[k] = upRing.cell[Pos(upRing.rd, k)]
      BY <1>c, ContentsIs DEF up
    <3>8. data \in Seq(Nat)
      BY <1>0 DEF RttTypeOK
    <3> HIDE DEF w, u
    <3>9. data = SubSeq(up, 1, w)
      <4>1. \A k \in 1 .. w : k \in 1 .. u /\ up[k] \in Nat /\ data[k] = up[k]
        <5> TAKE k \in 1 .. w
        <5>1. k \in 1 .. u
          BY <3>4, <3>5, SizeAssumption
        <5> QED BY <3>2, <3>7, <5>1, ElementOfSeq
      <4>2. 1 \in Int /\ w \in Int /\ 1 <= w /\ w - 1 + 1 = w
        BY <3>4, <3>5, SizeAssumption
      <4>3. \A k \in 1 .. w : 1 + k - 1 = k
        OBVIOUS
      <4>4. /\ SubSeq(up, 1, w) \in Seq(Nat) /\ Len(SubSeq(up, 1, w)) = w
            /\ \A k \in 1 .. w : SubSeq(up, 1, w)[k] = up[k]
        BY <4>1, <4>2, <4>3, SubSeqProperties
      <4> QED BY <3>2, <3>8, <4>1, <4>4, SeqEqual
    <3>10. w \in 1 .. Len(up)
      BY <3>5, <3>7
    <3>11. Streams!HostReads
      <4>1. printed' \in {printed, SubSeq(up, 1, w)}
        BY <2>1, <3>9
      <4>2. \E k \in 1 .. Len(up) : up' = SubSeq(up, k + 1, Len(up))
                                  /\ printed' \in {printed, SubSeq(up, 1, k)}
        BY <3>6, <3>10, <4>1
      <4>3. UNCHANGED <<down, pending_input, torn, started>>
        BY <1>g, <2>1, <2>3, <3>1 DEF started
      <4> QED BY <2>3, <2>5, <4>2, <4>3
          DEF Streams!HostReads, Streams!Without, Streams!Prefix, up, down, started
    <3> QED BY <3>11 DEF Streams!StreamsNext
  <2> QED BY <2>4, <2>5
<1>9. CASE ReadTerminal
  <2>1. /\ pc = "input" /\ UNCHANGED <<upRing, downRing, printed>>
    BY <1>9 DEF ReadTerminal, firmwareVars
  <2>2. PICK n \in 0 .. MaxTyped - typed :
          pending_input' = pending_input \o [k \in 1 .. n |-> typed + k]
    BY <1>9 DEF ReadTerminal
  <2> DEFINE more == [k \in 1 .. n |-> typed + k]
  <2>3. n \in Nat /\ more \in Seq(Nat) /\ Len(more) = n
    <3>1. n \in Nat /\ typed \in Nat
      BY <1>0, <2>2, RttBoundsAssumption DEF RttTypeOK
    <3>2. more \in [1 .. n -> Nat]
      BY <3>1
    <3> QED BY <3>1, <3>2, FunctionIsSeq
  <2>4. pending_input' = pending_input \o more
    BY <2>2
  <2> HIDE DEF more
  <2>5. torn = "none" /\ started
    BY <1>h, <1>i, <2>1 DEF UpOperation, DownOperation
  <2>6. torn' = "none" /\ started'
    <3>1. PICK label \in {"up", "up_desc", "input", "down", "down_desc"} : Goto(label)
      BY <1>9 DEF ReadTerminal
    <3> QED BY <1>k, <3>1
  <2>7. CASE n = 0
    <3>1. more = <<>>
      BY <2>3, <2>7, EmptySeq
    <3>2. pending_input' = pending_input
      BY <1>c, <2>4, <3>1, ConcatEmptySeq
    <3> QED BY <1>j, <2>1, <2>5, <2>6, <3>2
  <2>8. CASE n # 0
    <3>1. PICK l \in Nat : l = Len(pending_input)
      BY <1>c, LenProperties
    <3>2. Len(pending_input') = l + n
      BY <1>c, <2>3, <2>4, <3>1, ConcatProperties
    <3>3. n \in 1 .. Len(pending_input') /\ Len(pending_input') - n = l
      BY <2>3, <2>8, <3>1, <3>2
    <3>4. SubSeq(pending_input', 1, l) = pending_input
      <4>1. \A k \in 1 .. l : pending_input'[k] = pending_input[k]
        BY <1>c, <2>3, <2>4, <3>1, ConcatProperties
      <4>2. \A k \in 1 .. l : pending_input[k] \in Nat
        BY <1>c, <3>1, ElementOfSeq
      <4>3. \A k \in 1 .. l : 1 + k - 1 = k
        OBVIOUS
      <4>4. l - 1 + 1 = l /\ (IF 1 <= l THEN l - 1 + 1 ELSE 0) = l /\ 1 \in Int /\ l \in Int
        BY <3>1
      <4>5. /\ SubSeq(pending_input', 1, l) \in Seq(Nat)
            /\ Len(SubSeq(pending_input', 1, l)) = l
            /\ \A k \in 1 .. l : SubSeq(pending_input', 1, l)[k] = pending_input'[k]
        BY <4>1, <4>2, <4>3, <4>4, SubSeqProperties
      <4> QED BY <1>c, <3>1, <4>1, <4>5, SeqEqual
    <3>5. \E k \in 1 .. Len(pending_input') :
            pending_input = SubSeq(pending_input', 1, Len(pending_input') - k)
      BY <3>3, <3>4
    <3>6. UNCHANGED <<up, down, printed, torn, started>>
      BY <1>g, <2>1, <2>5, <2>6 DEF started
    <3>7. Streams!UserTypes
      BY <2>5, <3>5, <3>6 DEF Streams!UserTypes, up, down, started
    <3> QED BY <3>7 DEF Streams!StreamsNext
  <2> QED BY <2>7, <2>8
<1>10. CASE DownFirst \/ DownSecond
  <2>1. /\ pc \in DownOperation
        /\ UNCHANGED <<upRing, pending_input, printed>>
        /\ \/ UNCHANGED torn /\ pc' \in {"down_second", "down_publish"}
           \/ Goto("up")
    BY <1>10 DEF DownFirst, DownSecond, DownOperation, Retry
  <2>2. UNCHANGED <<up, down, pending_input, printed>>
    BY <1>e, <1>g, <1>10, <2>1, StoreUnseen DEF down
  <2>3. started /\ started'
    BY <1>h, <1>k, <2>1 DEF started
  <2>4. CASE UNCHANGED torn
    BY <2>2, <2>3, <2>4 DEF Streams!streamVars, up, down, started
  <2>5. CASE Goto("up")
    <3>1. Streams!TornEnds
      BY <1>k, <2>2, <2>3, <2>5 DEF Streams!TornEnds, up, down, started
    <3> QED BY <3>1 DEF Streams!StreamsNext
  <2> QED BY <2>1, <2>4, <2>5
<1>11. CASE DownPublish
  <2>1. /\ pc = "down_publish" /\ pc \in DownOperation
        /\ downRing' = [downRing EXCEPT !.wr = (desc.wr + count) % Size]
        /\ pending_input' \in {pending_input,
                               SubSeq(pending_input, count + 1, Len(pending_input))}
        /\ UNCHANGED <<upRing, printed>> /\ Goto("up")
    BY <1>11 DEF DownPublish, Retry, DownOperation
  <2>2. /\ count \in 1 .. Len(pending_input) /\ Len(pending_input) \in Nat
        /\ count \in 1 .. Size - 1
    BY <1>0, <2>1, FirstIs
  <2>3. torn' = "none" /\ started /\ started'
    BY <1>h, <1>k, <2>1
  <2>4. CASE torn = "down"
    <3>1. \E k \in 0 .. Len(pending_input) :
            pending_input' = SubSeq(pending_input, k + 1, Len(pending_input))
      <4>1. CASE pending_input' = pending_input
        <5>1. 0 \in 0 .. Len(pending_input) /\ 0 + 1 = 1
          BY <2>2
        <5>2. pending_input' = SubSeq(pending_input, 0 + 1, Len(pending_input))
          BY <1>c, <4>1, <5>1, SubSeqFull
        <5> QED BY <5>1, <5>2
      <4>2. CASE pending_input' # pending_input
        <5>1. count \in 0 .. Len(pending_input)
          BY <2>2
        <5> QED BY <2>1, <4>2, <5>1
      <4> QED BY <4>1, <4>2
    <3>2. Streams!TornWrite
      BY <1>f, <1>g, <2>1, <2>3, <2>4, <3>1
      DEF Streams!TornWrite, Streams!Fits, Streams!Without, up, down, started
    <3> QED BY <3>2 DEF Streams!StreamsNext
  <2>5. CASE torn # "down"
    <3>1. torn = "none"
      BY <1>0, <1>c, <2>1, <2>5 DEF TornInv, UpOperation, DownOperation
    <3>2. /\ desc.wr = downRing.wr /\ count <= Free(downRing.wr, downRing.rd)
          /\ \A k \in 1 .. count : downRing.cell[Pos(desc.wr, k)] = pending_input[k]
      BY <1>0, <2>1, <3>1 DEF DownWritten
    <3>3. /\ (desc.wr + count) % Size = Pos(desc.wr, count + 1)
          /\ Pos(desc.wr, count + 1) \in Offsets
      <4>1. desc.wr + (count + 1) - 1 = desc.wr + count /\ count + 1 \in 1 .. Size
        BY <1>c, <2>2, SizeAssumption DEF Offsets
      <4> QED BY <1>c, <4>1, PosIs DEF Pos
    <3>4. /\ downRing'.wr = Pos(downRing.wr, count + 1)
          /\ downRing'.rd = downRing.rd /\ downRing'.cell = downRing.cell
      BY <1>c, <2>1, <3>2, <3>3 DEF Ring
    <3>5. count \in 1 .. Free(downRing.wr, downRing.rd)
      <4>1. Free(downRing.wr, downRing.rd) = Size - 1 - Used(downRing.wr, downRing.rd)
        BY <1>c, UsedIs
      <4>2. Used(downRing.wr, downRing.rd) \in 0 .. Size - 1
        BY <1>c, UsedIs
      <4> QED BY <2>2, <3>2, <4>1, <4>2, SizeAssumption
    <3>6. count <= Len(pending_input)
      BY <2>2
    <3>7. \A k \in 1 .. count : downRing.cell[Pos(downRing.wr, k)] = pending_input[k]
      BY <3>2
    <3>8. down' = down \o SubSeq(pending_input, 1, count)
      BY <1>c, <1>d, <1>e, <3>4, <3>5, <3>6, <3>7, ContentsExtend DEF down
    <3>9. \E k \in 1 .. Len(pending_input) :
            /\ down' = down \o SubSeq(pending_input, 1, k)
            /\ pending_input' \in {pending_input,
                                   SubSeq(pending_input, k + 1, Len(pending_input))}
      BY <2>1, <2>2, <3>8
    <3>10. UNCHANGED <<up, printed, torn, started>>
      BY <1>g, <2>1, <2>3, <3>1 DEF started
    <3>11. Streams!HostWrites
      BY <1>f, <2>3, <2>5, <3>9, <3>10
      DEF Streams!HostWrites, Streams!Fits, Streams!Prefix, Streams!Without, up, down, started
    <3> QED BY <3>11 DEF Streams!StreamsNext
  <2> QED BY <2>4, <2>5
<1>12. CASE Target
  BY <1>1, <1>2, <1>3, <1>4, <1>12 DEF Target
<1>13. CASE Host
  BY <1>5, <1>6, <1>7, <1>8, <1>9, <1>10, <1>11, <1>13 DEF Host
<1> QED BY <1>2, <1>12, <1>13 DEF RttNext

(* The rings hold the two streams between target and user: output arrives  *)
(* in order and at most once, input in order and at least once, and only   *)
(* a lost answer or a reset costs or repeats anything (RttChannel, run).   *)
THEOREM Implementation == RttSpec => ImplementsStreams
<1>1. RttInit => Streams!StreamsInit
  <2> SUFFICES ASSUME RttInit PROVE Streams!StreamsInit
    OBVIOUS
  <2>1. Blank \in Ring /\ Blank.wr = Blank.rd
    BY SizeAssumption DEF Blank, Ring, Offsets
  <2>2. Contents(Blank) = <<>>
    BY <2>1, EmptyContents
  <2> QED BY <2>2 DEF RttInit, Streams!StreamsInit
<1> QED BY <1>1, RefinementStep, Invariance, PTL
    DEF RttSpec, ImplementsStreams, Streams!StreamsSpec

=============================================================================
