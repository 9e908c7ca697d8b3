---------------------------- MODULE AlgorithmProofs -------------------------
(***************************************************************************)
(* The algorithms that take one input to one result, for any input.        *)
(*                                                                         *)
(* Both decoders, for messages of any length and any split of the bytes    *)
(* into reads: an invariant says that the first buffered byte is that of   *)
(* the next message, and that what was handed out so far are the first     *)
(* messages, in their order, each complete.                                *)
(*                                                                         *)
(* The evaluation of the clock tree, for any number of clocks wired in any *)
(* way: an invariant says that the calls under way are a walk of different *)
(* clocks, and that what is kept of a clock follows from its source.  What *)
(* holds along a chain of clocks is shown by a clock with the least        *)
(* distance for which it would not.                                        *)
(*                                                                         *)
(* The choice of the flash script, for any catalog: the loop of glob_match *)
(* is a function on its places, and says what a pattern means, as of the   *)
(* places where it would not one is the furthest; and ranks are ordered as *)
(* the claims of the scripts on the chip are.                              *)
(***************************************************************************)
EXTENDS DapDecoder, FrameDecoder, ClockTree, FlashChoice, Positions,
        SequenceTheorems, FiniteSetTheorems, WellFoundedInduction, TLAPS

(***************************************************************************)
(* Sequences.                                                              *)

(* Consecutive positions, from a on.                                       *)
Consecutive(s, a) == \A k \in 1 .. Len(s) : s[k] = a + k - 1

LEMMA ConsecutivePositions ==
  ASSUME NEW n \in Nat, NEW a \in Nat
  PROVE  LET s == [k \in 1 .. n |-> a + k - 1] IN
         s \in Seq(Nat) /\ Len(s) = n /\ Consecutive(s, a)
<1> DEFINE s == [k \in 1 .. n |-> a + k - 1]
<1>1. s \in [1 .. n -> Nat]
  OBVIOUS
<1>2. s \in Seq(Nat) /\ Len(s) = n
  BY <1>1
<1> QED BY <1>2 DEF Consecutive

LEMMA ConsecutiveConcat ==
  ASSUME NEW s \in Seq(Nat), NEW t \in Seq(Nat), NEW a \in Nat,
         Consecutive(s, a), Consecutive(t, a + Len(s))
  PROVE  s \o t \in Seq(Nat) /\ Len(s \o t) = Len(s) + Len(t) /\ Consecutive(s \o t, a)
<1>1. PICK m \in Nat : m = Len(s)
  BY LenProperties
<1>2. PICK n \in Nat : n = Len(t)
  BY LenProperties
<1>3. /\ s \o t \in Seq(Nat) /\ Len(s \o t) = m + n
      /\ \A k \in 1 .. m + n : (s \o t)[k] = IF k <= m THEN s[k] ELSE t[k - m]
  BY <1>1, <1>2, ConcatProperties
<1>4. \A k \in 1 .. m : s[k] = a + k - 1
  BY <1>1 DEF Consecutive
<1>5. \A k \in 1 .. n : t[k] = a + m + k - 1
  BY <1>1, <1>2 DEF Consecutive
<1>6. \A k \in 1 .. m + n : (s \o t)[k] = a + k - 1
  <2> TAKE k \in 1 .. m + n
  <2>1. CASE k <= m
    BY <1>3, <1>4, <2>1
  <2>2. CASE ~(k <= m)
    <3>1. k - m \in 1 .. n
      BY <2>2
    <3>2. t[k - m] = a + m + (k - m) - 1
      BY <1>5, <3>1
    <3> QED BY <1>3, <2>2, <3>2
  <2> QED BY <2>1, <2>2
<1> QED BY <1>1, <1>2, <1>3, <1>6 DEF Consecutive

LEMMA ConsecutiveRest ==
  ASSUME NEW s \in Seq(Nat), NEW a \in Nat, Consecutive(s, a), NEW n \in 0 .. Len(s)
  PROVE  LET t == SubSeq(s, n + 1, Len(s)) IN
         t \in Seq(Nat) /\ Len(t) = Len(s) - n /\ Consecutive(t, a + n)
<1>1. PICK m \in Nat : m = Len(s)
  BY LenProperties
<1>2. n \in 0 .. m /\ n \in Nat /\ n <= m
  BY <1>1
<1> DEFINE i == n + 1
           t == SubSeq(s, i, m)
<1>3. \A k \in i .. m : s[k] \in Nat
  BY <1>1, <1>2, ElementOfSeq
<1>4. i \in Int /\ m \in Int /\ m - i + 1 = m - n
  BY <1>2
<1>5. (IF i <= m THEN m - i + 1 ELSE 0) = m - n
  BY <1>2
<1>6. \A k \in 1 .. m - n : i + k - 1 = n + k /\ n + k \in 1 .. m
  BY <1>2
<1> HIDE DEF i
<1>7. /\ t \in Seq(Nat) /\ Len(t) = m - n
      /\ \A k \in 1 .. m - i + 1 : t[k] = s[i + k - 1]
  BY <1>3, <1>4, <1>5, SubSeqProperties
<1>8. \A k \in 1 .. m - n : t[k] = s[n + k]
  BY <1>4, <1>6, <1>7
<1>9. \A k \in 1 .. m - n : t[k] = a + n + k - 1
  <2> TAKE k \in 1 .. m - n
  <2>1. n + k \in 1 .. m /\ t[k] = s[n + k]
    BY <1>6, <1>8
  <2>2. \A j \in 1 .. m : s[j] = a + j - 1
    BY <1>1 DEF Consecutive
  <2>3. s[n + k] = a + (n + k) - 1
    BY <2>1, <2>2
  <2> HIDE DEF t
  <2> QED BY <1>2, <2>1, <2>3
<1> QED BY <1>1, <1>7, <1>9 DEF i, Consecutive

-----------------------------------------------------------------------------
(***************************************************************************)
(* DapDecoder::feed.                                                       *)

Kinds == {"object", "bad_header", "bad_body"}

MessageType == [start : Nat, header : Nat \ {0}, body : Nat, kind : Kinds]

DapType ==
  /\ sent \in Seq(MessageType)
  /\ length \in Nat /\ fed \in 0 .. length
  /\ held \in Seq(Nat)
  /\ step \in {"ready", "parsing", "failed"}
  /\ messages \in Seq(Nat) /\ delivered \in Seq(Nat)

(* Messages follow one another.                                            *)
Begins(i) == IF i <= Len(sent) THEN sent[i].start ELSE length

Layout ==
  /\ \A i \in 1 .. Len(sent) : sent[i].start + MessageEnd(i) = Begins(i + 1)
  /\ \A i \in 1 .. Len(sent) : sent[i].start + MessageEnd(i) <= length
  /\ \A i, j \in 1 .. Len(sent) : i < j => sent[i].start + MessageEnd(i) <= sent[j].start

(* Messages decoded and not lost to an error.                              *)
Decoded == Len(delivered) + (IF step = "parsing" THEN Len(messages) ELSE 0)

(* The buffer begins with the next message.                                *)
BufferInv ==
  step # "failed" =>
    /\ Decoded <= Len(sent)
    /\ Begins(Decoded + 1) + Len(held) = fed
    /\ Consecutive(held, Begins(Decoded + 1))

Fine(i) ==
  /\ sent[i].kind = "object"
  /\ sent[i].header <= MaxHeaderBytes /\ sent[i].body <= MaxMessageBytes

(* The messages decoded are the first ones.                                *)
FirstOnes ==
  /\ Len(delivered) <= Len(sent)
  /\ \A k \in 1 .. Len(delivered) : delivered[k] = k /\ Fine(k)
  /\ step = "parsing" =>
       \A k \in 1 .. Len(messages) :
         messages[k] = Len(delivered) + k /\ Fine(Len(delivered) + k)

(* No complete message waits.                                              *)
NoneWaits ==
  step = "ready" =>
    \/ Len(delivered) = Len(sent)
    \/ fed < sent[Len(delivered) + 1].start + MessageEnd(Len(delivered) + 1)

DapInv == DapType /\ Layout /\ BufferInv /\ FirstOnes /\ NoneWaits /\ FailsForACause

LEMMA DapTypes ==
  ASSUME DapType
  PROVE  /\ Len(sent) \in Nat /\ Len(held) \in Nat
         /\ Len(messages) \in Nat /\ Len(delivered) \in Nat
         /\ Decoded \in Nat /\ fed \in Nat /\ length \in Nat /\ fed <= length
         /\ \A i \in 1 .. Len(sent) :
              /\ sent[i] \in MessageType
              /\ sent[i].start \in Nat /\ sent[i].header \in Nat \ {0} /\ sent[i].body \in Nat
              /\ sent[i].kind \in Kinds
              /\ MessageEnd(i) \in Nat /\ MessageEnd(i) > sent[i].header
<1>1. /\ Len(sent) \in Nat /\ Len(held) \in Nat
      /\ Len(messages) \in Nat /\ Len(delivered) \in Nat
  BY LenProperties DEF DapType
<1>2. Decoded \in Nat
  BY <1>1 DEF Decoded
<1>3. fed \in Nat /\ length \in Nat /\ fed <= length
  BY DEF DapType
<1>4. ASSUME NEW i \in 1 .. Len(sent)
      PROVE  /\ sent[i] \in MessageType
             /\ sent[i].start \in Nat /\ sent[i].header \in Nat \ {0} /\ sent[i].body \in Nat
             /\ sent[i].kind \in Kinds
             /\ MessageEnd(i) \in Nat /\ MessageEnd(i) > sent[i].header
  <2>1. sent[i] \in MessageType
    BY ElementOfSeq DEF DapType
  <2> QED BY <2>1 DEF MessageType, MessageEnd, SEPARATOR_LEN
<1> QED BY <1>1, <1>2, <1>3, <1>4

(* The message the buffer starts with is the next one.                     *)
LEMMA FrontIsNext ==
  ASSUME DapInv, step = "parsing", held # <<>>
  PROVE  /\ Decoded + 1 \in 1 .. Len(sent)
         /\ AtFront = {Decoded + 1}
         /\ held[1] = sent[Decoded + 1].start
         /\ sent[Decoded + 1].start + Len(held) = fed
<1> DEFINE d == Decoded
           b == Begins(d + 1)
           n == Len(sent)
<1>1. DapType /\ Layout /\ BufferInv
  BY DEF DapInv
<1>2. d <= n /\ b + Len(held) = fed /\ Consecutive(held, b)
  BY <1>1 DEF BufferInv
<1>3. n \in Nat /\ d \in Nat /\ fed \in Nat /\ length \in Nat /\ fed <= length
  BY <1>1, DapTypes
<1>4. Len(held) \in Nat \ {0}
  BY <1>1, EmptySeq DEF DapType
<1>5. d < n
  <2>1. SUFFICES ASSUME ~(d < n) PROVE FALSE
    OBVIOUS
  <2> HIDE DEF n, d
  <2>2. ~(d + 1 <= n)
    BY <1>2, <1>3, <2>1
  <2>3. b = length
    BY <2>2 DEF Begins, n, d
  <2> QED BY <1>2, <1>3, <1>4, <2>3
<1>6. d + 1 \in 1 .. n /\ b = sent[d + 1].start
  BY <1>3, <1>5 DEF Begins
<1>7. b \in Nat
  BY <1>1, <1>6, DapTypes
<1>8. held[1] = b
  <2>1. 1 \in 1 .. Len(held)
    BY <1>4
  <2>2. held[1] = b + 1 - 1
    BY <1>2, <2>1 DEF Consecutive
  <2> HIDE DEF b
  <2> QED BY <1>7, <2>2
<1>9. \A i \in 1 .. n : sent[i].start = b => i = d + 1
  <2> SUFFICES ASSUME NEW i \in 1 .. n, sent[i].start = b, i # d + 1 PROVE FALSE
    OBVIOUS
  <2>1. /\ sent[i].start \in Nat /\ MessageEnd(i) \in Nat /\ MessageEnd(i) > 0
        /\ MessageEnd(d + 1) \in Nat /\ MessageEnd(d + 1) > 0
    <3>1. ASSUME NEW k \in 1 .. n
          PROVE  sent[k].start \in Nat /\ MessageEnd(k) \in Nat /\ MessageEnd(k) > 0
      <4>1. /\ sent[k].start \in Nat /\ sent[k].header \in Nat \ {0}
            /\ MessageEnd(k) \in Nat /\ MessageEnd(k) > sent[k].header
        BY <1>1, DapTypes
      <4> QED BY <4>1
    <3> HIDE DEF n, d, b
    <3> QED BY <1>6, <3>1
  <2>2. \/ i < d + 1 /\ sent[i].start + MessageEnd(i) <= sent[d + 1].start
        \/ d + 1 < i /\ sent[d + 1].start + MessageEnd(d + 1) <= sent[i].start
    <3>1. \A j, k \in 1 .. n : j < k => sent[j].start + MessageEnd(j) <= sent[k].start
      BY <1>1 DEF Layout
    <3> HIDE DEF n, d, b
    <3>2. i < d + 1 \/ d + 1 < i
      BY <1>3
    <3> QED BY <1>6, <3>1, <3>2
  <2>3. PICK own \in Nat, other \in Nat : own = MessageEnd(i) /\ other = MessageEnd(d + 1)
    BY <2>1
  <2>4. own > 0 /\ other > 0 /\ sent[i].start = b /\ sent[d + 1].start = b
    BY <1>6, <2>1, <2>3
  <2>5. b + own <= b \/ b + other <= b
    BY <2>2, <2>3, <2>4
  <2> HIDE DEF d, b, n
  <2> QED BY <1>7, <2>4, <2>5
<1>10. AtFront = {d + 1}
  BY <1>6, <1>8, <1>9 DEF AtFront
<1> QED BY <1>2, <1>6, <1>8, <1>10

(***************************************************************************)
(* Steps.                                                                  *)

LEMMA DapInitOk ==
  ASSUME DapDecoderAssumption, DapDecoderInit
  PROVE  DapInv
<1>1. Len(sent) = 0 /\ Len(held) = 0 /\ Len(messages) = 0 /\ Len(delivered) = 0
  BY EmptySeq DEF DapDecoderInit
<1>2. DapType
  BY EmptySeq DEF DapDecoderInit, DapType
<1>3. Layout
  BY <1>1 DEF Layout
<1>4. Decoded = 0 /\ Begins(1) = 0
  BY <1>1 DEF Decoded, Begins, DapDecoderInit
<1>5. BufferInv
  BY <1>1, <1>4 DEF BufferInv, Consecutive, DapDecoderInit
<1>6. FirstOnes /\ NoneWaits /\ FailsForACause
  BY <1>1 DEF FirstOnes, NoneWaits, FailsForACause, DapDecoderInit
<1> QED BY <1>2, <1>3, <1>5, <1>6 DEF DapInv

(* A message more changes nothing of the ones before it.                   *)
LEMMA OneMoreMessage ==
  ASSUME DapDecoderAssumption, DapInv, SendMessage, NEW n \in Nat, n = Len(sent)
  PROVE  /\ sent' \in Seq(MessageType) /\ length' \in Nat /\ length <= length'
         /\ Len(sent') = n + 1
         /\ \A i \in 1 .. n :
              /\ sent'[i] = sent[i] /\ MessageEnd(i)' = MessageEnd(i)
              /\ Fine(i)' = Fine(i)
         /\ \A i \in 1 .. n + 1 : Begins(i)' = Begins(i)
         /\ sent'[n + 1].start = length
         /\ MessageEnd(n + 1)' \in Nat \ {0}
         /\ length + MessageEnd(n + 1)' = length'
<1>2. PICK header \in HeaderLengths, body \in BodyLengths, kind \in Kinds :
        /\ sent' = Append(sent, [start |-> length, header |-> header, body |-> body,
                                 kind |-> kind])
        /\ length' = length + header + SEPARATOR_LEN + body
  BY DEF SendMessage, Kinds
<1> DEFINE m == [start |-> length, header |-> header, body |-> body, kind |-> kind]
<1>3. length \in Nat /\ header \in Nat \ {0} /\ body \in Nat /\ sent \in Seq(MessageType)
  BY DEF DapInv, DapType, DapDecoderAssumption
<1>4. m \in MessageType
  BY <1>3 DEF MessageType
<1>5. /\ sent' \in Seq(MessageType) /\ Len(sent') = n + 1
      /\ \A i \in 1 .. n : sent'[i] = sent[i]
      /\ sent'[n + 1] = m
  BY <1>2, <1>3, <1>4, AppendProperties
<1>6. length' \in Nat /\ length <= length'
  BY <1>2, <1>3 DEF SEPARATOR_LEN
<1>7. \A i \in 1 .. n :
        /\ sent'[i] = sent[i] /\ MessageEnd(i)' = MessageEnd(i)
        /\ Fine(i)' = Fine(i)
  BY <1>5 DEF MessageEnd, Fine
<1>8. sent'[n + 1].start = length
  BY <1>5
<1>9. MessageEnd(n + 1)' = header + SEPARATOR_LEN + body
  BY <1>5 DEF MessageEnd
<1>10. MessageEnd(n + 1)' \in Nat \ {0} /\ length + MessageEnd(n + 1)' = length'
  BY <1>2, <1>3, <1>9 DEF SEPARATOR_LEN
<1>11. \A i \in 1 .. n + 1 : Begins(i)' = Begins(i)
  <2> TAKE i \in 1 .. n + 1
  <2>1. Begins(i)' = (IF i <= n + 1 THEN sent'[i].start ELSE length')
    BY <1>5 DEF Begins
  <2>2. Begins(i) = (IF i <= n THEN sent[i].start ELSE length)
    BY DEF Begins
  <2>3. (i \in 1 .. n /\ i <= n) \/ (i = n + 1 /\ ~(i <= n))
    OBVIOUS
  <2>4. i <= n + 1
    OBVIOUS
  <2> QED BY <1>7, <1>8, <2>1, <2>2, <2>3, <2>4
<1> QED BY <1>5, <1>6, <1>7, <1>8, <1>10, <1>11

LEMMA SendMessageOk ==
  ASSUME DapDecoderAssumption, DapInv, SendMessage
  PROVE  DapInv'
<1>1. PICK n \in Nat : n = Len(sent)
  BY LenProperties DEF DapInv, DapType
<1>2. /\ DapType /\ Layout /\ BufferInv /\ FirstOnes /\ NoneWaits /\ FailsForACause
      /\ UNCHANGED <<fed, held, step, messages, delivered>> /\ step # "parsing"
  BY DEF DapInv, SendMessage
<1>3. /\ sent' \in Seq(MessageType) /\ length' \in Nat /\ length <= length'
      /\ Len(sent') = n + 1
      /\ \A i \in 1 .. n :
           sent'[i] = sent[i] /\ MessageEnd(i)' = MessageEnd(i) /\ Fine(i)' = Fine(i)
      /\ \A i \in 1 .. n + 1 : Begins(i)' = Begins(i)
      /\ sent'[n + 1].start = length
      /\ MessageEnd(n + 1)' \in Nat \ {0}
      /\ length + MessageEnd(n + 1)' = length'
  BY <1>1, OneMoreMessage
<1>4. /\ fed \in Nat /\ length \in Nat /\ fed <= length
      /\ Len(delivered) \in Nat /\ Len(held) \in Nat
      /\ \A i \in 1 .. n : sent[i].start \in Nat /\ MessageEnd(i) \in Nat
  BY <1>1, <1>2, DapTypes
<1>5. DapType'
  BY <1>2, <1>3, <1>4 DEF DapType
<1>6. Layout'
  <2>1. /\ \A i \in 1 .. n : sent[i].start + MessageEnd(i) = Begins(i + 1)
        /\ \A i \in 1 .. n : sent[i].start + MessageEnd(i) <= length
        /\ \A i, j \in 1 .. n : i < j => sent[i].start + MessageEnd(i) <= sent[j].start
    BY <1>1, <1>2 DEF Layout
  <2>2. \A i \in 1 .. n + 1 : i \in 1 .. n \/ i = n + 1
    OBVIOUS
  <2>3. Begins(n + 1 + 1)' = length'
    BY <1>3 DEF Begins
  <2>4. ASSUME NEW i \in 1 .. n + 1
        PROVE  sent'[i].start + MessageEnd(i)' = Begins(i + 1)'
    <3>1. CASE i \in 1 .. n
      <4>1. i + 1 \in 1 .. n + 1
        BY <3>1
      <4> QED BY <1>3, <2>1, <3>1, <4>1
    <3>2. CASE i = n + 1
      BY <1>3, <2>3, <3>2
    <3> QED BY <2>2, <3>1, <3>2
  <2>5. ASSUME NEW i \in 1 .. n + 1
        PROVE  sent'[i].start + MessageEnd(i)' <= length'
    <3>1. CASE i \in 1 .. n
      <4>1. sent[i].start + MessageEnd(i) <= length /\ sent[i].start + MessageEnd(i) \in Nat
        BY <1>4, <2>1, <3>1
      <4>2. sent'[i].start + MessageEnd(i)' = sent[i].start + MessageEnd(i)
        BY <1>3, <3>1
      <4> QED BY <1>3, <1>4, <4>1, <4>2
    <3>2. CASE i = n + 1
      BY <1>3, <3>2
    <3> QED BY <2>2, <3>1, <3>2
  <2>6. ASSUME NEW i \in 1 .. n + 1, NEW j \in 1 .. n + 1, i < j
        PROVE  sent'[i].start + MessageEnd(i)' <= sent'[j].start
    <3>1. i \in 1 .. n
      BY <2>6
    <3>2. CASE j \in 1 .. n
      BY <1>3, <2>1, <2>6, <3>1, <3>2
    <3>3. CASE j = n + 1
      BY <1>3, <2>1, <3>1, <3>3
    <3> QED BY <2>2, <3>2, <3>3
  <2> QED BY <1>3, <2>4, <2>5, <2>6 DEF Layout
<1>7. PICK d \in Nat : d = Len(delivered)
  BY <1>4
<1>8. BufferInv'
  <2>1. Decoded' = d /\ Decoded = d
    BY <1>2, <1>7 DEF Decoded
  <2> SUFFICES ASSUME step # "failed"
               PROVE  /\ d <= n + 1
                      /\ Begins(d + 1)' + Len(held) = fed
                      /\ Consecutive(held, Begins(d + 1)')
    BY <1>2, <1>3, <2>1 DEF BufferInv, Consecutive
  <2>2. d <= n /\ Begins(d + 1) + Len(held) = fed /\ Consecutive(held, Begins(d + 1))
    BY <1>1, <1>2, <2>1 DEF BufferInv
  <2>3. d + 1 \in 1 .. n + 1 /\ d <= n + 1
    BY <2>2
  <2>4. Begins(d + 1)' = Begins(d + 1)
    BY <1>3, <2>3
  <2> QED BY <2>2, <2>3, <2>4
<1>9. FirstOnes'
  <2>1. /\ Len(delivered) <= n
        /\ \A k \in 1 .. Len(delivered) : delivered[k] = k /\ Fine(k)
    BY <1>1, <1>2 DEF FirstOnes
  <2>2. Len(delivered) <= n + 1 /\ \A k \in 1 .. Len(delivered) : k \in 1 .. n
    BY <1>4, <2>1
  <2> QED BY <1>2, <1>3, <2>1, <2>2 DEF FirstOnes
<1>10. NoneWaits'
  <2> SUFFICES ASSUME step = "ready"
               PROVE  d = n + 1 \/ fed < sent'[d + 1].start + MessageEnd(d + 1)'
    BY <1>2, <1>3, <1>7 DEF NoneWaits, MessageEnd
  <2>1. CASE d = n
    <3>1. sent'[d + 1].start = length /\ MessageEnd(d + 1)' \in Nat \ {0}
      BY <1>3, <2>1
    <3> QED BY <1>4, <3>1
  <2>2. CASE d # n
    <3>1. d <= n
      BY <1>1, <1>2, <1>7 DEF FirstOnes
    <3>2. d + 1 \in 1 .. n
      BY <2>2, <3>1
    <3>3. fed < sent[d + 1].start + MessageEnd(d + 1)
      BY <1>1, <1>2, <1>7, <2>2 DEF NoneWaits
    <3>4. sent'[d + 1] = sent[d + 1] /\ MessageEnd(d + 1)' = MessageEnd(d + 1)
      BY <1>3, <3>2
    <3> QED BY <3>3, <3>4
  <2> QED BY <2>1, <2>2
<1>11. FailsForACause'
  <2> SUFFICES ASSUME step = "failed"
               PROVE  \E i \in 1 .. n + 1 : ~Sound(i)' \/ sent'[i].header > MaxHeaderBytes - 3
    BY <1>2, <1>3 DEF FailsForACause
  <2>1. PICK i \in 1 .. n : ~Sound(i) \/ sent[i].header > MaxHeaderBytes - 3
    BY <1>1, <1>2 DEF FailsForACause
  <2>2. i \in 1 .. n + 1 /\ \A j \in 1 .. i : j \in 1 .. n
    OBVIOUS
  <2>3. Sound(i)' = Sound(i) /\ sent'[i] = sent[i]
    BY <1>3, <2>2 DEF Sound
  <2> QED BY <2>1, <2>2, <2>3
<1> QED BY <1>5, <1>6, <1>8, <1>9, <1>10, <1>11 DEF DapInv

LEMMA FeedChunkOk ==
  ASSUME DapDecoderAssumption, DapInv, FeedChunk
  PROVE  DapInv'
<1>1. /\ DapType /\ Layout /\ BufferInv /\ FirstOnes
      /\ UNCHANGED <<sent, length, delivered>>
      /\ step = "ready" /\ step' = "parsing" /\ messages' = <<>>
  BY DEF DapInv, FeedChunk
<1>2. PICK n \in 1 .. Lesser(ReadSize, length - fed) :
        /\ held' = held \o [k \in 1 .. n |-> fed + k - 1]
        /\ fed' = fed + n
  BY DEF FeedChunk
<1>3. /\ fed \in Nat /\ length \in Nat /\ fed <= length
      /\ Len(delivered) \in Nat /\ Len(held) \in Nat /\ held \in Seq(Nat)
  BY <1>1, DapTypes DEF DapType
<1>4. n \in Nat /\ fed + n <= length
  BY <1>2, <1>3 DEF Lesser, DapDecoderAssumption
<1> DEFINE t == [k \in 1 .. n |-> fed + k - 1]
<1>5. t \in Seq(Nat) /\ Len(t) = n /\ Consecutive(t, fed)
  BY <1>3, <1>4, ConsecutivePositions
<1>6. Len(messages') = 0 /\ messages' \in Seq(Nat)
  BY <1>1, EmptySeq
<1> DEFINE d == Len(delivered)
           b == Begins(d + 1)
<1>7. Decoded = d /\ Decoded' = d
  BY <1>1, <1>3, <1>6 DEF Decoded
<1>8. d <= Len(sent) /\ b + Len(held) = fed /\ Consecutive(held, b)
  BY <1>1, <1>7 DEF BufferInv
<1>9. b \in Nat
  <2>1. CASE d + 1 <= Len(sent)
    <3>1. d + 1 \in 1 .. Len(sent)
      BY <1>1, <1>3, <2>1, DapTypes
    <3> QED BY <1>1, <2>1, <3>1, DapTypes DEF Begins
  <2>2. CASE ~(d + 1 <= Len(sent))
    BY <1>3, <2>2 DEF Begins
  <2> QED BY <2>1, <2>2
<1> HIDE DEF t, d, b
<1>10. held' = held \o t
  BY <1>2 DEF t
<1>11. held' \in Seq(Nat) /\ Len(held') = Len(held) + n /\ Consecutive(held', b)
  BY <1>3, <1>5, <1>8, <1>9, <1>10, ConsecutiveConcat
<1>12. DapType'
  BY <1>1, <1>2, <1>3, <1>4, <1>6, <1>11 DEF DapType
<1>13. Layout'
  BY <1>1 DEF Layout, Begins, MessageEnd
<1>14. Begins(d + 1)' = b
  BY <1>1 DEF Begins, b, d
<1>15. b + Len(held') = fed'
  <2>1. PICK h \in Nat : h = Len(held)
    BY <1>3
  <2>2. b + h = fed /\ Len(held') = h + n
    BY <1>8, <1>11, <2>1
  <2>3. b + (h + n) = fed + n
    BY <1>4, <1>9, <2>2
  <2> QED BY <1>2, <2>2, <2>3
<1>16. d' = d
  BY <1>1 DEF d
<1>17. BufferInv'
  BY <1>1, <1>7, <1>8, <1>11, <1>14, <1>15, <1>16 DEF BufferInv, Consecutive
<1>18. FirstOnes' /\ NoneWaits' /\ FailsForACause'
  BY <1>1, <1>6 DEF FirstOnes, NoneWaits, FailsForACause, Fine
<1> QED BY <1>12, <1>13, <1>17, <1>18 DEF DapInv

(* An error is one of the message the buffer starts with.                  *)
LEMMA RefusalHasACause ==
  ASSUME DapDecoderAssumption, DapInv, step = "parsing",
         HeaderRefused \/ (BodyComplete /\ \E i \in AtFront : sent[i].kind = "bad_body")
  PROVE  \E i \in 1 .. Len(sent) : ~Fine(i) \/ sent[i].header > MaxHeaderBytes - 3
<1>1. DapType
  BY DEF DapInv
<1>2. CASE held = <<>>
  <2>1. AtFront = {} /\ Len(held) = 0
    BY <1>2, EmptySeq DEF AtFront
  <2>2. ~SeparatorFound
    BY <2>1 DEF SeparatorFound
  <2>3. MaxHeaderBytes \in Nat
    BY DEF DapDecoderAssumption
  <2>4. ~HeaderTooLarge
    BY <2>1, <2>2, <2>3 DEF HeaderTooLarge
  <2> QED BY <1>2, <2>1, <2>2, <2>4 DEF HeaderRefused
<1>3. CASE held # <<>>
  <2> DEFINE d == Decoded + 1
  <2>1. d \in 1 .. Len(sent) /\ AtFront = {d}
    BY <1>3, FrontIsNext
  <2>2. sent[d].header \in Nat /\ Len(held) \in Nat
    BY <1>1, <2>1, DapTypes
  <2>3. MaxHeaderBytes \in Nat /\ MaxMessageBytes \in Nat
    BY DEF DapDecoderAssumption
  <2> HIDE DEF d
  <2>4. CASE HeaderTooLarge
    <3>1. CASE SeparatorFound
      <4>1. sent[d].header > MaxHeaderBytes
        BY <2>1, <2>4, <3>1 DEF HeaderTooLarge
      <4> QED BY <2>1, <2>2, <2>3, <4>1
    <3>2. CASE ~SeparatorFound
      <4>1. Len(held) > MaxHeaderBytes /\ ~(Len(held) >= sent[d].header + 4)
        BY <2>1, <2>4, <3>2 DEF HeaderTooLarge, SeparatorFound, SEPARATOR_LEN
      <4>2. sent[d].header > MaxHeaderBytes - 3
        BY <2>2, <2>3, <4>1
      <4> QED BY <2>1, <4>2
    <3> QED BY <3>1, <3>2
  <2>5. CASE \E i \in AtFront : sent[i].kind = "bad_header" \/ sent[i].body > MaxMessageBytes
    <3>1. sent[d].kind = "bad_header" \/ sent[d].body > MaxMessageBytes
      BY <2>1, <2>5
    <3>2. sent[d].body \in Nat
      BY <1>1, <2>1, DapTypes
    <3>3. ~Fine(d)
      BY <2>3, <3>1, <3>2 DEF Fine
    <3> QED BY <2>1, <3>3
  <2>6. CASE \E i \in AtFront : sent[i].kind = "bad_body"
    <3>1. ~Fine(d)
      BY <2>1, <2>6 DEF Fine
    <3> QED BY <2>1, <3>1
  <2> QED BY <1>3, <2>1, <2>4, <2>5, <2>6 DEF HeaderRefused
<1> QED BY <1>2, <1>3

LEMMA FeedFailsOk ==
  ASSUME DapDecoderAssumption, DapInv, FeedFails
  PROVE  DapInv'
<1>1. /\ DapType /\ Layout /\ FirstOnes
      /\ UNCHANGED <<sent, length, fed, delivered>>
      /\ step = "parsing" /\ step' = "failed" /\ messages' = <<>>
  BY DEF DapInv, FeedFails
<1>2. HeaderRefused \/ (BodyComplete /\ \E i \in AtFront : sent[i].kind = "bad_body")
  BY DEF FeedFails
<1>3. PICK i \in 1 .. Len(sent) : ~Fine(i) \/ sent[i].header > MaxHeaderBytes - 3
  BY <1>1, <1>2, RefusalHasACause
<1>4. held' \in Seq(Nat)
  <2>1. CASE held' = held
    BY <1>1, <2>1 DEF DapType
  <2>2. CASE ~(held' = held)
    <3>1. PICK j \in AtFront : held' = SubSeq(held, MessageEnd(j) + 1, Len(held))
      BY <2>2 DEF FeedFails
    <3>2. /\ j \in 1 .. Len(sent) /\ Len(held) \in Nat /\ held \in Seq(Nat)
      BY <1>1, <3>1, DapTypes DEF AtFront, DapType
    <3>3. MessageEnd(j) \in Nat
      BY <1>1, <3>2, DapTypes
    <3>4. \A k \in MessageEnd(j) + 1 .. Len(held) : held[k] \in Nat
      <4> TAKE k \in MessageEnd(j) + 1 .. Len(held)
      <4>1. k \in 1 .. Len(held)
        BY <3>2, <3>3
      <4> QED BY <3>2, <4>1, ElementOfSeq
    <3>5. MessageEnd(j) + 1 \in Int /\ Len(held) \in Int
      BY <3>2, <3>3
    <3> QED BY <3>1, <3>4, <3>5, SubSeqProperties
  <2> QED BY <2>1, <2>2
<1>5. messages' \in Seq(Nat)
  BY <1>1, EmptySeq
<1>6. DapType'
  BY <1>1, <1>4, <1>5 DEF DapType
<1>7. Layout'
  BY <1>1 DEF Layout, Begins, MessageEnd
<1>8. i \in Nat /\ i \in 1 .. i
  BY <1>3
<1>9. ~Fine(i) => ~Sound(i)
  BY <1>8 DEF Sound, Fine
<1>10. FailsForACause'
  BY <1>1, <1>3, <1>9 DEF FailsForACause, Sound
<1>11. BufferInv' /\ FirstOnes' /\ NoneWaits'
  BY <1>1 DEF BufferInv, FirstOnes, NoneWaits, Fine
<1> QED BY <1>6, <1>7, <1>10, <1>11 DEF DapInv

LEMMA TakeMessageOk ==
  ASSUME DapDecoderAssumption, DapInv, TakeMessage
  PROVE  DapInv'
<1>1. /\ DapType /\ Layout /\ BufferInv /\ FirstOnes
      /\ UNCHANGED <<sent, length, fed, step, delivered>>
      /\ step = "parsing" /\ ~HeaderRefused /\ SeparatorFound
  BY DEF DapInv, TakeMessage, BodyComplete
<1>2. PICK i \in AtFront :
        /\ sent[i].kind = "object" /\ messages' = Append(messages, i)
        /\ held' = SubSeq(held, MessageEnd(i) + 1, Len(held))
  BY DEF TakeMessage
<1>3. held # <<>> /\ i \in 1 .. Len(sent)
  BY <1>2 DEF AtFront
<1> DEFINE d == Decoded
           n == Len(sent)
<1>4. d + 1 \in 1 .. n /\ i = d + 1 /\ AtFront = {i} /\ sent[i].start + Len(held) = fed
  BY <1>1, <1>2, <1>3, FrontIsNext
<1>5. /\ fed \in Nat /\ held \in Seq(Nat) /\ messages \in Seq(Nat)
      /\ Len(held) \in Nat /\ Len(delivered) \in Nat /\ Len(messages) \in Nat
      /\ sent[i].start \in Nat /\ MessageEnd(i) \in Nat /\ n \in Nat /\ d \in Nat
  BY <1>1, <1>3, DapTypes DEF DapType
<1>6. Len(held) >= MessageEnd(i)
  BY <1>4 DEF TakeMessage, BodyComplete
<1>7. Fine(i)
  <2>1. sent[i].header \in Nat /\ sent[i].body \in Nat
    BY <1>1, <1>3, DapTypes
  <2>2. MaxHeaderBytes \in Nat /\ MaxMessageBytes \in Nat
    BY DEF DapDecoderAssumption
  <2>3. ~(sent[i].header > MaxHeaderBytes) /\ ~(sent[i].body > MaxMessageBytes)
    BY <1>1, <1>2 DEF HeaderRefused, HeaderTooLarge
  <2> QED BY <1>2, <2>1, <2>2, <2>3 DEF Fine
<1>8. d = Len(delivered) + Len(messages)
  BY <1>1 DEF Decoded
<1>9. /\ messages' \in Seq(Nat) /\ Len(messages') = Len(messages) + 1
      /\ \A k \in 1 .. Len(messages) : messages'[k] = messages[k]
      /\ messages'[Len(messages) + 1] = i
  <2>1. i \in Nat
    BY <1>3
  <2> QED BY <1>2, <1>5, <2>1, AppendProperties
<1>10. Consecutive(held, sent[i].start)
  <2>1. Consecutive(held, Begins(d + 1)) /\ d + 1 <= n
    BY <1>1, <1>4 DEF BufferInv
  <2> QED BY <1>4, <2>1 DEF Begins
<1>11. /\ held' \in Seq(Nat) /\ Len(held') = Len(held) - MessageEnd(i)
       /\ Consecutive(held', sent[i].start + MessageEnd(i))
  <2>1. MessageEnd(i) \in 0 .. Len(held)
    BY <1>5, <1>6
  <2> QED BY <1>2, <1>5, <1>10, <2>1, ConsecutiveRest
<1>12. DapType'
  BY <1>1, <1>9, <1>11 DEF DapType
<1>13. Layout'
  BY <1>1 DEF Layout, Begins, MessageEnd
<1>14. Decoded' = d + 1
  <2>1. Decoded' = Len(delivered) + Len(messages')
    BY <1>1 DEF Decoded
  <2> QED BY <1>5, <1>8, <1>9, <2>1
<1>15. BufferInv'
  <2>1. sent[i].start + MessageEnd(i) = Begins(i + 1)
    BY <1>1, <1>3 DEF Layout
  <2>2. Begins(i + 1)' = Begins(i + 1)
    BY <1>1 DEF Begins
  <2>3. Begins(i + 1) + Len(held') = fed
    BY <1>4, <1>5, <1>11, <2>1
  <2>4. i <= n
    BY <1>3
  <2>5. Consecutive(held', Begins(i + 1))
    BY <1>11, <2>1
  <2>6. Decoded' = i
    BY <1>4, <1>14
  <2>7. Begins(Decoded' + 1) = Begins(i + 1)
    BY <2>6
  <2> HIDE DEF n, d
  <2> QED BY <1>1, <2>3, <2>4, <2>5, <2>6, <2>7 DEF BufferInv, Consecutive, Begins, n
<1>16. FirstOnes'
  <2>1. \A k \in 1 .. Len(messages) :
          messages[k] = Len(delivered) + k /\ Fine(Len(delivered) + k)
    BY <1>1 DEF FirstOnes
  <2>2. ASSUME NEW k \in 1 .. Len(messages) + 1
        PROVE  messages'[k] = Len(delivered) + k /\ Fine(Len(delivered) + k)
    <3>1. CASE k \in 1 .. Len(messages)
      BY <1>9, <2>1, <3>1
    <3>2. CASE k = Len(messages) + 1
      <4>1. Len(delivered) + k = i
        BY <1>4, <1>5, <1>8, <3>2
      <4> QED BY <1>7, <1>9, <3>2, <4>1
    <3>3. k \in 1 .. Len(messages) \/ k = Len(messages) + 1
      <4>1. PICK m \in Nat : m = Len(messages)
        BY <1>5
      <4>2. \A j \in 1 .. m + 1 : j \in 1 .. m \/ j = m + 1
        OBVIOUS
      <4> QED BY <4>1, <4>2
    <3> QED BY <3>1, <3>2, <3>3
  <2> QED BY <1>1, <1>9, <2>2 DEF FirstOnes, Fine
<1>17. NoneWaits' /\ FailsForACause'
  BY <1>1 DEF NoneWaits, FailsForACause
<1> QED BY <1>12, <1>13, <1>15, <1>16, <1>17 DEF DapInv

LEMMA FeedReturnsMessagesOk ==
  ASSUME DapDecoderAssumption, DapInv, FeedReturnsMessages
  PROVE  DapInv'
<1>1. /\ DapType /\ Layout /\ BufferInv /\ FirstOnes
      /\ UNCHANGED <<sent, length, fed, held, messages>>
      /\ delivered' = delivered \o messages
      /\ step = "parsing" /\ step' = "ready" /\ ~HeaderRefused /\ ~BodyComplete
  BY DEF DapInv, FeedReturnsMessages
<1>2. PICK l \in Nat, m \in Nat : l = Len(delivered) /\ m = Len(messages)
  BY <1>1, DapTypes
<1>3. delivered \in Seq(Nat) /\ messages \in Seq(Nat)
  BY <1>1 DEF DapType
<1>4. /\ delivered' \in Seq(Nat) /\ Len(delivered') = l + m
      /\ \A k \in 1 .. l + m :
           delivered'[k] = IF k <= l THEN delivered[k] ELSE messages[k - l]
  BY <1>1, <1>2, <1>3, ConcatProperties
<1>5. Decoded = l + m /\ Decoded' = l + m
  BY <1>1, <1>2, <1>4 DEF Decoded
<1>6. DapType'
  BY <1>1, <1>4 DEF DapType
<1>7. Layout'
  BY <1>1 DEF Layout, Begins, MessageEnd
<1>8. l + m <= Len(sent) /\ Begins(l + m + 1) + Len(held) = fed
      /\ Consecutive(held, Begins(l + m + 1))
  BY <1>1, <1>5 DEF BufferInv
<1>9. BufferInv'
  BY <1>1, <1>5, <1>8 DEF BufferInv, Begins, Consecutive
<1>10. FirstOnes'
  <2>1. /\ \A k \in 1 .. l : delivered[k] = k /\ Fine(k)
        /\ \A k \in 1 .. m : messages[k] = l + k /\ Fine(l + k)
    BY <1>1, <1>2 DEF FirstOnes
  <2>2. ASSUME NEW k \in 1 .. l + m
        PROVE  delivered'[k] = k /\ Fine(k)
    <3>1. CASE k <= l
      BY SMTT(20), <1>4, <2>1, <3>1
    <3>2. CASE ~(k <= l)
      <4>1. k - l \in 1 .. m /\ l + (k - l) = k
        BY <3>2
      <4> QED BY <1>4, <2>1, <3>2, <4>1
    <3> QED BY <3>1, <3>2
  <2> QED BY <1>1, <1>4, <1>8, <2>2 DEF FirstOnes, Fine
<1>11. NoneWaits'
  <2> DEFINE d == l + m
             n == Len(sent)
  <2> SUFFICES ASSUME d # n
               PROVE  fed < sent[d + 1].start + MessageEnd(d + 1)
    BY <1>1, <1>4 DEF NoneWaits, MessageEnd
  <2>1. n \in Nat /\ Len(held) \in Nat /\ fed \in Nat
    BY <1>1, DapTypes
  <2>2. d + 1 \in 1 .. n
    BY <1>8, <2>1
  <2>3. /\ sent[d + 1].start \in Nat /\ MessageEnd(d + 1) \in Nat
        /\ sent[d + 1].header \in Nat /\ sent[d + 1].body \in Nat
        /\ MessageEnd(d + 1) > sent[d + 1].header
    BY <1>1, <2>2, DapTypes
  <2>4. sent[d + 1].start + Len(held) = fed
    <3>1. d + 1 <= n
      BY <2>2
    <3> QED BY <1>8, <3>1 DEF Begins
  <2>5. CASE held = <<>>
    <3>1. Len(held) = 0
      BY <2>5, EmptySeq
    <3> HIDE DEF d
    <3> QED BY <2>1, <2>3, <2>4, <3>1
  <2>6. CASE held # <<>>
    <3>1. AtFront = {d + 1}
      BY <1>1, <1>5, <2>6, FrontIsNext
    <3>2. ~(Len(held) >= MessageEnd(d + 1))
      <4>1. CASE SeparatorFound
        BY <1>1, <3>1, <4>1 DEF BodyComplete
      <4>2. CASE ~SeparatorFound
        <5>1. ~(Len(held) >= sent[d + 1].header + SEPARATOR_LEN)
          BY <3>1, <4>2 DEF SeparatorFound
        <5> HIDE DEF d
        <5> QED BY <2>1, <2>3, <5>1 DEF MessageEnd, SEPARATOR_LEN
      <4> QED BY <4>1, <4>2
    <3> HIDE DEF d
    <3> QED BY <2>1, <2>3, <2>4, <3>2
  <2> QED BY <2>5, <2>6
<1>12. FailsForACause'
  BY <1>1 DEF FailsForACause
<1> QED BY <1>6, <1>7, <1>9, <1>10, <1>11, <1>12 DEF DapInv

-----------------------------------------------------------------------------
(***************************************************************************)
(* Theorems.                                                               *)

LEMMA DapInvariant == ASSUME DapDecoderAssumption PROVE DapDecoderSpec => []DapInv
<1>1. DapDecoderInit => DapInv
  BY DapInitOk
<1>2. DapInv /\ [DapDecoderNext]_dapDecoderVars => DapInv'
  <2> SUFFICES ASSUME DapInv, [DapDecoderNext]_dapDecoderVars PROVE DapInv'
    OBVIOUS
  <2>1. CASE SendMessage
    BY <2>1, SendMessageOk
  <2>2. CASE FeedChunk
    BY <2>2, FeedChunkOk
  <2>3. CASE FeedFails
    BY <2>3, FeedFailsOk
  <2>4. CASE TakeMessage
    BY <2>4, TakeMessageOk
  <2>5. CASE FeedReturnsMessages
    BY <2>5, FeedReturnsMessagesOk
  <2>6. CASE UNCHANGED dapDecoderVars
    BY <2>6 DEF dapDecoderVars, DapInv, DapType, Layout, Begins, BufferInv, Decoded,
                Consecutive, FirstOnes, Fine, NoneWaits, MessageEnd, FailsForACause, Sound
  <2> QED BY <2>1, <2>2, <2>3, <2>4, <2>5, <2>6 DEF DapDecoderNext
<1> QED BY <1>1, <1>2, PTL DEF DapDecoderSpec

(* What the adapter proxy is handed are the messages the peer sent, in     *)
(* order, each once and without a gap, none of them malformed or above a   *)
(* limit; when feed returns no complete message waits in the buffer; and   *)
(* feed fails only for a message the peer sent (DapDecoder::feed).         *)
THEOREM MessagesAreDelivered ==
  ASSUME DapDecoderAssumption PROVE DapDecoderSpec => []MessagesDelivered
<1>1. DapInv => MessagesDelivered
  <2> SUFFICES ASSUME DapInv PROVE MessagesDelivered
    OBVIOUS
  <2>1. DapType /\ Layout /\ FirstOnes /\ NoneWaits /\ FailsForACause
    BY DEF DapInv
  <2>2. PICK n \in Nat, l \in Nat : n = Len(sent) /\ l = Len(delivered)
    BY <2>1, DapTypes
  <2>3. l <= n /\ \A k \in 1 .. l : delivered[k] = k /\ Fine(k)
    BY <2>1, <2>2 DEF FirstOnes
  <2>4. MessagesInOrder
    <3>1. \A k \in 1 .. l : \A j \in 1 .. k : j \in 1 .. l
      BY <2>2
    <3> QED BY <2>2, <2>3, <3>1 DEF MessagesInOrder, Sound, Fine
  <2>5. CompleteMessagesDelivered
    <3> SUFFICES ASSUME step = "ready", NEW i \in 1 .. n,
                        sent[i].start + MessageEnd(i) <= fed, ~(i <= l)
                 PROVE  FALSE
      BY <2>2 DEF CompleteMessagesDelivered
    <3>1. l + 1 \in 1 .. n /\ l # n
      BY <2>3
    <3>2. fed < sent[l + 1].start + MessageEnd(l + 1)
      BY <2>1, <2>2, <3>1 DEF NoneWaits
    <3>3. /\ fed \in Nat
          /\ \A k \in 1 .. n : sent[k].start \in Nat /\ MessageEnd(k) \in Nat
      BY <2>1, <2>2, DapTypes
    <3>4. CASE i = l + 1
      BY <3>1, <3>2, <3>3, <3>4
    <3>5. CASE i # l + 1
      <4>1. l + 1 < i
        BY <3>5
      <4>2. sent[l + 1].start + MessageEnd(l + 1) <= sent[i].start
        BY <2>1, <2>2, <3>1, <4>1 DEF Layout
      <4>3. /\ sent[i].start \in Nat /\ MessageEnd(i) \in Nat
            /\ sent[l + 1].start \in Nat /\ MessageEnd(l + 1) \in Nat
        BY <3>1, <3>3
      <4> QED BY <3>2, <3>3, <4>2, <4>3
    <3> QED BY <3>4, <3>5
  <2> QED BY <2>1, <2>4, <2>5 DEF MessagesDelivered
<1>2. DapDecoderSpec => []DapInv
  BY DapInvariant
<1> QED BY <1>1, <1>2, PTL

-----------------------------------------------------------------------------
(***************************************************************************)
(* FrameDecoder::feed.                                                     *)

FrameTypes == {"RCL_RESP", "RCL_NOTIFY", "other"}

Frame == [start : Nat, payload : Nat, type : FrameTypes]

FrameState ==
  /\ frames \in Seq(Frame)
  /\ end \in Nat /\ got \in 0 .. end
  /\ buffer \in Seq(Nat) /\ pending_padding \in Nat
  /\ phase \in {"ready", "parsing", "failed"}
  /\ decoded \in Nat /\ responses \in Seq(Nat)

Starts(i) == IF i <= Len(frames) THEN frames[i].start ELSE end

FrameEnd(i) == frames[i].start + EncodedLength(frames[i].payload)

(* Frames follow one another.                                              *)
FrameLayout ==
  /\ \A i \in 1 .. Len(frames) : FrameEnd(i) = Starts(i + 1)
  /\ \A i \in 1 .. Len(frames) : FrameEnd(i) <= end
  /\ \A i, j \in 1 .. Len(frames) : i < j => FrameEnd(i) <= frames[j].start

(* The buffer begins with the next frame, or is empty and the alignment    *)
(* bytes before that frame are still missing.                              *)
FrameBuffer ==
  /\ decoded <= Len(frames)
  /\ got + pending_padding = Starts(decoded + 1) + Len(buffer)
  /\ pending_padding = 0 \/ Len(buffer) = 0
  /\ Consecutive(buffer, Starts(decoded + 1))

(* The responses are those among the frames decoded.                       *)
ResponseFrames ==
  /\ \A k, l \in 1 .. Len(responses) : k < l => responses[k] < responses[l]
  /\ {responses[k] : k \in 1 .. Len(responses)}
       = {i \in 1 .. decoded : frames[i].type = "RCL_RESP"}

(* No frame whose payload arrived waits.                                   *)
NoFrameWaits ==
  phase = "ready" =>
    \/ decoded = Len(frames)
    \/ got < frames[decoded + 1].start + HEADER_LEN + frames[decoded + 1].payload

FrameInv == FrameState /\ FrameLayout /\ FrameBuffer /\ ResponseFrames /\ NoFrameWaits

(* The bytes the decoder consumes for a message are those the encoder      *)
(* wrote: rounding up agrees with adding the alignment bytes.              *)
LEMMA Alignment ==
  ASSUME NEW n \in Nat
  PROVE  align_eight(n) \in 0 .. 7 /\ n + align_eight(n) = StuffedLength(n)
<1>1. PICK q \in Nat, r \in 0 .. 7 : n = 8 * q + r
  <2>1. n = 8 * (n \div 8) + (n % 8) /\ n % 8 \in 0 .. 7 /\ n \div 8 \in Nat
    OBVIOUS
  <2> QED BY <2>1
<1>2. n % 8 = r
  BY <1>1
<1>3. CASE r = 0
  <2>1. (n + 7) \div 8 = q
    BY <1>1, <1>3
  <2>2. align_eight(n) = 0
    BY <1>2, <1>3 DEF align_eight, ALIGN64
  <2> QED BY <1>1, <1>3, <2>1, <2>2 DEF StuffedLength, ALIGN64
<1>4. CASE r # 0
  <2>1. (n + 7) \div 8 = q + 1
    BY <1>1, <1>4
  <2>2. align_eight(n) = 8 - r
    BY <1>1, <1>2, <1>4 DEF align_eight, ALIGN64
  <2> QED BY <1>1, <1>4, <2>1, <2>2 DEF StuffedLength, ALIGN64
<1> QED BY <1>3, <1>4

LEMMA EncodedLengths ==
  ASSUME NEW p \in Nat
  PROVE  /\ EncodedLength(p) \in Nat /\ EncodedLength(p) >= 8 + p
         /\ EncodedLength(p) = StuffedLength(8 + p)
<1>1. align_eight(8 + p) \in 0 .. 7 /\ 8 + p + align_eight(8 + p) = StuffedLength(8 + p)
  BY Alignment
<1>2. EncodedLength(p) = 8 + p + align_eight(8 + p)
  BY DEF EncodedLength, HEADER_LEN
<1> QED BY <1>1, <1>2

LEMMA FrameTypesOk ==
  ASSUME FrameState
  PROVE  /\ Len(frames) \in Nat /\ Len(buffer) \in Nat /\ Len(responses) \in Nat
         /\ got \in Nat /\ end \in Nat /\ got <= end
         /\ \A i \in 1 .. Len(frames) :
              /\ frames[i].start \in Nat /\ frames[i].payload \in Nat
              /\ frames[i].type \in FrameTypes
              /\ EncodedLength(frames[i].payload) \in Nat
              /\ EncodedLength(frames[i].payload) >= 8 + frames[i].payload
              /\ FrameEnd(i) \in Nat
              /\ FrameEnd(i) >= frames[i].start + 8 + frames[i].payload
<1>1. Len(frames) \in Nat /\ Len(buffer) \in Nat /\ Len(responses) \in Nat
  BY LenProperties DEF FrameState
<1>2. got \in Nat /\ end \in Nat /\ got <= end
  BY DEF FrameState
<1>3. ASSUME NEW i \in 1 .. Len(frames)
      PROVE  /\ frames[i].start \in Nat /\ frames[i].payload \in Nat
             /\ frames[i].type \in FrameTypes
             /\ EncodedLength(frames[i].payload) \in Nat
             /\ EncodedLength(frames[i].payload) >= 8 + frames[i].payload
             /\ FrameEnd(i) \in Nat
             /\ FrameEnd(i) >= frames[i].start + 8 + frames[i].payload
  <2>1. frames[i] \in Frame
    BY ElementOfSeq DEF FrameState
  <2>2. /\ frames[i].start \in Nat /\ frames[i].payload \in Nat
        /\ frames[i].type \in FrameTypes
    BY <2>1 DEF Frame
  <2>3. /\ EncodedLength(frames[i].payload) \in Nat
        /\ EncodedLength(frames[i].payload) >= 8 + frames[i].payload
    BY <2>2, EncodedLengths
  <2> QED BY <2>2, <2>3 DEF FrameEnd
<1> QED BY <1>1, <1>2, <1>3

(* The frame the buffer starts with is the next one.                       *)
LEMMA BufferStartsNext ==
  ASSUME FrameInv, buffer # <<>>
  PROVE  /\ decoded + 1 \in 1 .. Len(frames)
         /\ AtBuffer = decoded + 1
         /\ pending_padding = 0
         /\ got = frames[decoded + 1].start + Len(buffer)
         /\ Consecutive(buffer, frames[decoded + 1].start)
<1> DEFINE d == decoded
           b == Starts(d + 1)
           n == Len(frames)
<1>1. FrameState /\ FrameLayout /\ FrameBuffer
  BY DEF FrameInv
<1>2. d <= n /\ got + pending_padding = b + Len(buffer) /\ Consecutive(buffer, b)
  BY <1>1 DEF FrameBuffer
<1>3. n \in Nat /\ d \in Nat /\ got \in Nat /\ end \in Nat /\ got <= end
  BY <1>1, FrameTypesOk DEF FrameState
<1>4. Len(buffer) \in Nat \ {0}
  BY <1>1, EmptySeq DEF FrameState
<1>5. pending_padding = 0
  BY <1>1, <1>4 DEF FrameBuffer
<1>6. d < n
  <2>1. SUFFICES ASSUME ~(d < n) PROVE FALSE
    OBVIOUS
  <2> HIDE DEF n, d
  <2>2. ~(d + 1 <= n)
    BY <1>2, <1>3, <2>1
  <2>3. b = end
    BY <2>2 DEF Starts, n, d
  <2> QED BY <1>2, <1>3, <1>4, <1>5, <2>3
<1>7. d + 1 \in 1 .. n /\ b = frames[d + 1].start
  BY <1>3, <1>6 DEF Starts
<1>8. b \in Nat
  BY <1>1, <1>7, FrameTypesOk
<1>9. buffer[1] = b
  <2>1. 1 \in 1 .. Len(buffer)
    BY <1>4
  <2>2. buffer[1] = b + 1 - 1
    BY <1>2, <2>1 DEF Consecutive
  <2> HIDE DEF b
  <2> QED BY <1>8, <2>2
<1>10. \A i \in 1 .. n : frames[i].start = b => i = d + 1
  <2> SUFFICES ASSUME NEW i \in 1 .. n, frames[i].start = b, i # d + 1 PROVE FALSE
    OBVIOUS
  <2>1. /\ frames[i].payload \in Nat /\ FrameEnd(i) \in Nat
        /\ FrameEnd(i) >= frames[i].start + 8 + frames[i].payload
        /\ frames[d + 1].payload \in Nat /\ FrameEnd(d + 1) \in Nat
        /\ FrameEnd(d + 1) >= frames[d + 1].start + 8 + frames[d + 1].payload
    BY <1>1, <1>7, FrameTypesOk
  <2>2. \/ i < d + 1 /\ FrameEnd(i) <= frames[d + 1].start
        \/ d + 1 < i /\ FrameEnd(d + 1) <= frames[i].start
    <3>1. \A j, k \in 1 .. n : j < k => FrameEnd(j) <= frames[k].start
      BY <1>1 DEF FrameLayout
    <3> HIDE DEF n, d, b
    <3>2. i < d + 1 \/ d + 1 < i
      BY <1>3
    <3> QED BY <1>7, <3>1, <3>2
  <2>3. PICK own \in Nat, other \in Nat : own = FrameEnd(i) /\ other = FrameEnd(d + 1)
    BY <2>1
  <2>4. frames[i].start = b /\ frames[d + 1].start = b
    BY <1>7
  <2>5. own > b /\ other > b
    <3> HIDE DEF b
    <3> QED BY <1>8, <2>1, <2>3, <2>4
  <2>6. own <= b \/ other <= b
    BY <2>2, <2>3, <2>4
  <2> HIDE DEF d, b, n
  <2> QED BY <1>8, <2>5, <2>6
<1>11. AtBuffer = d + 1
  <2>1. \E i \in 1 .. n : frames[i].start = buffer[1]
    BY <1>7, <1>9
  <2>2. AtBuffer = CHOOSE i \in 1 .. n : frames[i].start = buffer[1]
    BY <2>1 DEF AtBuffer
  <2>3. AtBuffer \in 1 .. n /\ frames[AtBuffer].start = buffer[1]
    BY <2>1, <2>2
  <2> QED BY <1>9, <1>10, <2>3
<1>12. got = b + Len(buffer)
  <2> HIDE DEF b
  <2> QED BY <1>2, <1>3, <1>4, <1>5, <1>8
<1> QED BY <1>2, <1>5, <1>7, <1>11, <1>12

LEMMA FrameInitOk ==
  ASSUME FrameInit
  PROVE  FrameInv
<1>1. Len(frames) = 0 /\ Len(buffer) = 0 /\ Len(responses) = 0
  BY EmptySeq DEF FrameInit
<1>2. FrameState
  BY EmptySeq DEF FrameInit, FrameState
<1>3. FrameLayout
  BY <1>1 DEF FrameLayout
<1>4. Starts(1) = 0
  BY <1>1 DEF Starts, FrameInit
<1>5. FrameBuffer
  BY <1>1, <1>4 DEF FrameBuffer, Consecutive, FrameInit
<1>6. ResponseFrames
  <2>1. {responses[k] : k \in 1 .. Len(responses)} = {}
    BY <1>1
  <2>2. {i \in 1 .. decoded : frames[i].type = "RCL_RESP"} = {}
    BY DEF FrameInit
  <2> QED BY <1>1, <2>1, <2>2 DEF ResponseFrames
<1>7. NoFrameWaits
  BY <1>1 DEF NoFrameWaits, FrameInit
<1> QED BY <1>2, <1>3, <1>5, <1>6, <1>7 DEF FrameInv

(* A frame more changes nothing of the ones before it.                     *)
LEMMA OneMoreFrame ==
  ASSUME DecoderAssumption, FrameInv, Send, NEW n \in Nat, n = Len(frames)
  PROVE  /\ frames' \in Seq(Frame) /\ end' \in Nat /\ end <= end'
         /\ Len(frames') = n + 1
         /\ \A i \in 1 .. n : frames'[i] = frames[i] /\ FrameEnd(i)' = FrameEnd(i)
         /\ \A i \in 1 .. n + 1 : Starts(i)' = Starts(i)
         /\ frames'[n + 1].start = end /\ frames'[n + 1].payload \in Nat
         /\ FrameEnd(n + 1)' = end'
<1>1. PICK payload \in PayloadLengths, type \in FrameTypes :
        /\ frames' = Append(frames, [start |-> end, payload |-> payload, type |-> type])
        /\ end' = end + EncodedLength(payload)
  BY DEF Send, FrameTypes
<1> DEFINE f == [start |-> end, payload |-> payload, type |-> type]
<1>2. end \in Nat /\ payload \in Nat /\ frames \in Seq(Frame)
  BY DEF FrameInv, FrameState, DecoderAssumption
<1>3. f \in Frame
  BY <1>2 DEF Frame
<1>4. EncodedLength(payload) \in Nat
  BY <1>2, EncodedLengths
<1>5. /\ frames' \in Seq(Frame) /\ Len(frames') = n + 1
      /\ \A i \in 1 .. n : frames'[i] = frames[i]
      /\ frames'[n + 1] = f
  BY <1>1, <1>2, <1>3, AppendProperties
<1>6. end' \in Nat /\ end <= end'
  BY <1>1, <1>2, <1>4
<1>7. \A i \in 1 .. n : FrameEnd(i)' = FrameEnd(i)
  BY <1>5 DEF FrameEnd
<1>8. frames'[n + 1].start = end /\ frames'[n + 1].payload = payload
  BY <1>5
<1>9. FrameEnd(n + 1)' = end'
  BY <1>1, <1>8 DEF FrameEnd
<1>10. \A i \in 1 .. n + 1 : Starts(i)' = Starts(i)
  <2> TAKE i \in 1 .. n + 1
  <2>1. Starts(i)' = (IF i <= n + 1 THEN frames'[i].start ELSE end')
    BY <1>5 DEF Starts
  <2>2. Starts(i) = (IF i <= n THEN frames[i].start ELSE end)
    BY DEF Starts
  <2>3. (i \in 1 .. n /\ i <= n) \/ (i = n + 1 /\ ~(i <= n))
    OBVIOUS
  <2>4. i <= n + 1
    OBVIOUS
  <2> QED BY <1>5, <1>8, <2>1, <2>2, <2>3, <2>4
<1> QED BY <1>2, <1>5, <1>6, <1>7, <1>8, <1>9, <1>10

LEMMA SendOk ==
  ASSUME DecoderAssumption, FrameInv, Send
  PROVE  FrameInv'
<1>1. PICK n \in Nat : n = Len(frames)
  BY FrameTypesOk DEF FrameInv
<1>2. /\ FrameState /\ FrameLayout /\ FrameBuffer /\ ResponseFrames /\ NoFrameWaits
      /\ UNCHANGED <<got, buffer, pending_padding, phase, decoded, responses>>
  BY DEF FrameInv, Send
<1>3. /\ frames' \in Seq(Frame) /\ end' \in Nat /\ end <= end'
      /\ Len(frames') = n + 1
      /\ \A i \in 1 .. n : frames'[i] = frames[i] /\ FrameEnd(i)' = FrameEnd(i)
      /\ \A i \in 1 .. n + 1 : Starts(i)' = Starts(i)
      /\ frames'[n + 1].start = end /\ frames'[n + 1].payload \in Nat
      /\ FrameEnd(n + 1)' = end'
  BY <1>1, OneMoreFrame
<1>4. /\ got \in Nat /\ end \in Nat /\ got <= end /\ decoded \in Nat
      /\ \A i \in 1 .. n : FrameEnd(i) \in Nat
  BY <1>1, <1>2, FrameTypesOk DEF FrameState
<1>5. FrameState'
  BY <1>2, <1>3, <1>4 DEF FrameState
<1>6. FrameLayout'
  <2>1. /\ \A i \in 1 .. n : FrameEnd(i) = Starts(i + 1)
        /\ \A i \in 1 .. n : FrameEnd(i) <= end
        /\ \A i, j \in 1 .. n : i < j => FrameEnd(i) <= frames[j].start
    BY <1>1, <1>2 DEF FrameLayout
  <2>2. \A i \in 1 .. n + 1 : i \in 1 .. n \/ i = n + 1
    OBVIOUS
  <2>3. Starts(n + 1 + 1)' = end'
    BY <1>3 DEF Starts
  <2>4. ASSUME NEW i \in 1 .. n + 1
        PROVE  FrameEnd(i)' = Starts(i + 1)'
    <3>1. CASE i \in 1 .. n
      <4>1. i + 1 \in 1 .. n + 1
        BY <3>1
      <4> QED BY <1>3, <2>1, <3>1, <4>1
    <3>2. CASE i = n + 1
      BY <1>3, <2>3, <3>2
    <3> QED BY <2>2, <3>1, <3>2
  <2>5. ASSUME NEW i \in 1 .. n + 1
        PROVE  FrameEnd(i)' <= end'
    <3>1. CASE i \in 1 .. n
      <4>1. FrameEnd(i)' = FrameEnd(i) /\ FrameEnd(i) <= end /\ FrameEnd(i) \in Nat
        BY <1>3, <1>4, <2>1, <3>1
      <4> QED BY <1>3, <1>4, <4>1
    <3>2. CASE i = n + 1
      BY <1>3, <3>2
    <3> QED BY <2>2, <3>1, <3>2
  <2>6. ASSUME NEW i \in 1 .. n + 1, NEW j \in 1 .. n + 1, i < j
        PROVE  FrameEnd(i)' <= frames'[j].start
    <3>1. i \in 1 .. n
      BY <2>6
    <3>2. CASE j \in 1 .. n
      BY <1>3, <2>1, <2>6, <3>1, <3>2
    <3>3. CASE j = n + 1
      BY <1>3, <2>1, <3>1, <3>3
    <3> QED BY <2>2, <3>2, <3>3
  <2> QED BY <1>3, <2>4, <2>5, <2>6 DEF FrameLayout
<1>7. PICK d \in Nat : d = decoded
  BY <1>4
<1>8. d <= n
  BY <1>1, <1>2, <1>7 DEF FrameBuffer
<1>9. FrameBuffer'
  <2>1. d + 1 \in 1 .. n + 1 /\ d <= n + 1
    BY <1>8
  <2>2. Starts(d + 1)' = Starts(d + 1)
    BY <1>3, <2>1
  <2> QED BY <1>2, <1>3, <1>7, <2>1, <2>2 DEF FrameBuffer, Consecutive
<1>10. ResponseFrames'
  <2>1. \A i \in 1 .. d : i \in 1 .. n
    BY <1>8
  <2>2. {i \in 1 .. d : frames'[i].type = "RCL_RESP"}
          = {i \in 1 .. d : frames[i].type = "RCL_RESP"}
    BY <1>3, <2>1
  <2> QED BY <1>2, <1>7, <2>2 DEF ResponseFrames
<1>11. NoFrameWaits'
  <2> SUFFICES ASSUME phase = "ready"
               PROVE  \/ d = n + 1
                      \/ got < frames'[d + 1].start + HEADER_LEN + frames'[d + 1].payload
    BY <1>2, <1>3, <1>7 DEF NoFrameWaits
  <2>1. CASE d = n
    <3>1. frames'[d + 1].start = end /\ frames'[d + 1].payload \in Nat
      BY <1>3, <2>1
    <3> QED BY <1>4, <3>1 DEF HEADER_LEN
  <2>2. CASE d # n
    <3>1. d + 1 \in 1 .. n
      BY <1>8, <2>2
    <3>2. got < frames[d + 1].start + HEADER_LEN + frames[d + 1].payload
      BY <1>1, <1>2, <1>7, <2>2 DEF NoFrameWaits
    <3>3. frames'[d + 1] = frames[d + 1]
      BY <1>3, <3>1
    <3> QED BY <3>2, <3>3
  <2> QED BY <2>1, <2>2
<1> QED BY <1>5, <1>6, <1>9, <1>10, <1>11 DEF FrameInv

LEMMA FeedOk ==
  ASSUME DecoderAssumption, FrameInv, Feed
  PROVE  FrameInv'
<1>1. /\ FrameState /\ FrameLayout /\ FrameBuffer /\ ResponseFrames
      /\ UNCHANGED <<frames, end, decoded, responses>> /\ phase' = "parsing"
  BY DEF FrameInv, Feed
<1>2. PICK n \in 1 .. Smaller(ReceiveSize, end - got) :
        LET skipped == Smaller(pending_padding, n) IN
        /\ pending_padding' = pending_padding - skipped
        /\ buffer' = buffer \o [k \in 1 .. n - skipped |-> got + skipped + k - 1]
        /\ got' = got + n
  BY DEF Feed
<1>3. /\ got \in Nat /\ end \in Nat /\ got <= end /\ Len(buffer) \in Nat
      /\ buffer \in Seq(Nat) /\ pending_padding \in Nat /\ decoded \in Nat
  BY <1>1, FrameTypesOk DEF FrameState
<1>4. n \in Nat /\ got + n <= end
  BY <1>2, <1>3 DEF Smaller, DecoderAssumption
<1> DEFINE s == Smaller(pending_padding, n)
           t == [k \in 1 .. n - s |-> got + s + k - 1]
           b == Starts(decoded + 1)
<1>5. /\ s \in Nat /\ s <= n /\ s <= pending_padding
      /\ s = n \/ s = pending_padding
  BY <1>3, <1>4 DEF Smaller
<1>6. /\ pending_padding' = pending_padding - s /\ buffer' = buffer \o t /\ got' = got + n
  BY <1>2
<1>7. b \in Nat
  <2>1. CASE decoded + 1 <= Len(frames)
    <3>1. decoded + 1 \in 1 .. Len(frames)
      BY <1>1, <1>3, <2>1, FrameTypesOk
    <3> QED BY <1>1, <2>1, <3>1, FrameTypesOk DEF Starts
  <2>2. CASE ~(decoded + 1 <= Len(frames))
    BY <1>3, <2>2 DEF Starts
  <2> QED BY <2>1, <2>2
<1>8. /\ got + pending_padding = b + Len(buffer)
      /\ pending_padding = 0 \/ Len(buffer) = 0
      /\ Consecutive(buffer, b)
  BY <1>1 DEF FrameBuffer
<1> HIDE DEF s
<1>9. PICK m \in Nat : m = n - s
  BY <1>4, <1>5
<1>10. t \in Seq(Nat) /\ Len(t) = m /\ Consecutive(t, got + s)
  BY <1>3, <1>5, <1>9, ConsecutivePositions
<1> HIDE DEF t, b
<1>11. PICK h \in Nat : h = Len(buffer)
  BY <1>3
<1>12. Consecutive(t, b + Len(buffer))
  <2>1. CASE m = 0
    BY <1>10, <2>1 DEF Consecutive
  <2>2. CASE m # 0
    <3>1. s = pending_padding
      BY <1>5, <1>9, <2>2
    <3>2. got + s = b + Len(buffer)
      BY <1>8, <3>1
    <3> QED BY <1>10, <3>2
  <2> QED BY <2>1, <2>2
<1>13. buffer' \in Seq(Nat) /\ Len(buffer') = Len(buffer) + m /\ Consecutive(buffer', b)
  <2>1. /\ buffer \o t \in Seq(Nat) /\ Len(buffer \o t) = Len(buffer) + Len(t)
        /\ Consecutive(buffer \o t, b)
    BY <1>3, <1>7, <1>8, <1>10, <1>12, ConsecutiveConcat
  <2> QED BY <1>6, <1>10, <2>1
<1>14. PICK p \in Nat : p = pending_padding
  BY <1>3
<1>15. pending_padding' = p - s /\ p - s \in Nat
  BY <1>5, <1>6, <1>14
<1>16. got' + pending_padding' = b + Len(buffer')
  <2>1. got + p = b + h
    BY <1>8, <1>11, <1>14
  <2>2. got + n + (p - s) = b + (h + m)
    BY <1>3, <1>4, <1>5, <1>7, <1>9, <1>14, <2>1
  <2> QED BY <1>6, <1>11, <1>13, <1>15, <2>2
<1>17. pending_padding' = 0 \/ Len(buffer') = 0
  <2>1. CASE s = pending_padding
    BY <1>14, <1>15, <2>1
  <2>2. CASE s # pending_padding
    <3>1. s = n /\ m = 0
      BY <1>4, <1>5, <1>9, <2>2
    <3>2. p # 0
      BY <1>5, <1>14, <2>2
    <3>3. h = 0
      BY <1>8, <1>11, <1>14, <3>2
    <3> QED BY <1>11, <1>13, <3>1, <3>3
  <2> QED BY <2>1, <2>2
<1>18. FrameState'
  <2>1. got' \in 0 .. end
    BY <1>3, <1>4, <1>6
  <2>2. pending_padding' \in Nat
    BY <1>15
  <2> QED BY <1>1, <1>13, <2>1, <2>2 DEF FrameState
<1>19. FrameLayout'
  BY <1>1 DEF FrameLayout, Starts, FrameEnd
<1>20. Starts(decoded + 1)' = b
  BY <1>1 DEF Starts, b
<1>21. decoded <= Len(frames)
  BY <1>1 DEF FrameBuffer
<1>22. FrameBuffer'
  BY <1>1, <1>13, <1>16, <1>17, <1>20, <1>21 DEF FrameBuffer, Consecutive
<1>23. ResponseFrames' /\ NoFrameWaits'
  BY <1>1 DEF ResponseFrames, NoFrameWaits
<1> QED BY <1>18, <1>19, <1>22, <1>23 DEF FrameInv

LEMMA TakeFrameOk ==
  ASSUME FrameInv, TakeFrame
  PROVE  FrameInv'
<1>1. /\ FrameState /\ FrameLayout /\ FrameBuffer /\ ResponseFrames
      /\ UNCHANGED <<frames, end, got>> /\ phase = "parsing" /\ ~Incomplete
  BY DEF FrameInv, TakeFrame
<1>2. PICK d \in Nat, n \in Nat, h \in Nat :
        d = decoded /\ n = Len(frames) /\ h = Len(buffer)
  BY <1>1, FrameTypesOk DEF FrameState
<1>3. h >= 8 /\ h >= MessageLength(AtBuffer)
  <2>1. ~(h < 8)
    BY <1>1, <1>2 DEF Incomplete, HEADER_LEN
  <2>2. ~(h < MessageLength(AtBuffer))
    BY <1>1, <1>2, <2>1 DEF Incomplete, HEADER_LEN
  <2>3. AtBuffer = d + 1 /\ d + 1 \in 1 .. n
    <3>1. buffer # <<>>
      BY <1>2, <2>1, EmptySeq
    <3> QED BY <1>2, <3>1, BufferStartsNext
  <2>4. MessageLength(AtBuffer) \in Nat
    <3>1. frames[d + 1].payload \in Nat /\ d + 1 # 0
      BY <1>1, <1>2, <2>3, FrameTypesOk
    <3> QED BY <2>3, <3>1 DEF MessageLength, Header, HEADER_LEN
  <2> QED BY <1>2, <2>1, <2>2, <2>4
<1>4. buffer # <<>>
  BY <1>2, <1>3, EmptySeq
<1>5. /\ d + 1 \in 1 .. n /\ AtBuffer = d + 1 /\ pending_padding = 0
      /\ got = frames[d + 1].start + h
      /\ Consecutive(buffer, frames[d + 1].start)
  BY <1>2, <1>4, BufferStartsNext
<1> DEFINE i == d + 1
<1>6. /\ frames[i].start \in Nat /\ frames[i].payload \in Nat /\ frames[i].type \in FrameTypes
      /\ EncodedLength(frames[i].payload) \in Nat
      /\ EncodedLength(frames[i].payload) >= 8 + frames[i].payload
      /\ got \in Nat /\ end \in Nat /\ got <= end
  BY <1>1, <1>2, <1>5, FrameTypesOk
<1>7. Header(i) = frames[i] /\ MessageLength(i) = 8 + frames[i].payload /\ i # 0 /\ i \in Nat
  BY <1>5 DEF Header, MessageLength, HEADER_LEN
<1>8. Intact(i)
  <2>1. \A k \in 1 .. h : buffer[k] = frames[i].start + k - 1
    BY <1>2, <1>5 DEF Consecutive
  <2>2. MessageLength(i) <= h /\ MessageLength(i) \in Nat
    BY <1>3, <1>5, <1>6, <1>7
  <2>3. \A k \in 1 .. MessageLength(i) : k \in 1 .. h
    BY <2>2
  <2> QED BY <1>7, <2>1, <2>3 DEF Intact
<1> DEFINE e == StuffedLength(MessageLength(i))
           c == Smaller(e, h)
<1>9. e = EncodedLength(frames[i].payload)
  BY <1>6, <1>7, EncodedLengths
<1>10. c \in Nat /\ c <= h /\ c <= e /\ (c = h \/ c = e) /\ e \in Nat
  BY <1>6, <1>9 DEF Smaller
<1>11. /\ pending_padding' = e - c
       /\ buffer' = SubSeq(buffer, c + 1, Len(buffer))
       /\ decoded' = i
       /\ responses' = IF frames[i].type = "RCL_RESP" THEN Append(responses, i) ELSE responses
       /\ phase' = IF frames[i].type = "other" THEN "failed" ELSE "parsing"
  BY <1>2, <1>5, <1>7, <1>8 DEF TakeFrame
<1> HIDE DEF e, c
<1>12. /\ buffer' \in Seq(Nat) /\ Len(buffer') = h - c
       /\ Consecutive(buffer', frames[i].start + c)
  <2>1. buffer \in Seq(Nat) /\ c \in 0 .. Len(buffer)
    BY <1>1, <1>2, <1>10 DEF FrameState
  <2> QED BY <1>2, <1>5, <1>6, <1>11, <2>1, ConsecutiveRest
<1>13. pending_padding' \in Nat
  BY <1>10, <1>11
<1>14. FrameState'
  <2>1. responses' \in Seq(Nat)
    <3>1. responses \in Seq(Nat)
      BY <1>1 DEF FrameState
    <3> QED BY <1>7, <1>11, <3>1, AppendProperties
  <2>2. phase' \in {"ready", "parsing", "failed"} /\ decoded' \in Nat
    BY <1>7, <1>11
  <2> QED BY <1>1, <1>12, <1>13, <2>1, <2>2 DEF FrameState
<1>15. FrameLayout'
  BY <1>1 DEF FrameLayout, Starts, FrameEnd
<1>16. FrameBuffer'
  <2>1. Starts(i + 1) = frames[i].start + e
    BY <1>1, <1>2, <1>5, <1>9 DEF FrameLayout, FrameEnd
  <2>2. Starts(i + 1)' = Starts(i + 1)
    BY <1>1 DEF Starts
  <2>3. got + (e - c) = Starts(i + 1) + (h - c)
    BY <1>5, <1>6, <1>10, <2>1
  <2>4. got' + pending_padding' = Starts(i + 1) + Len(buffer')
    BY <1>1, <1>11, <1>12, <2>3
  <2>5. pending_padding' = 0 \/ Len(buffer') = 0
    BY <1>10, <1>11, <1>12
  <2>6. Consecutive(buffer', Starts(i + 1))
    <3>1. CASE c = e
      BY <1>12, <2>1, <3>1
    <3>2. CASE c = h
      BY <1>12, <3>2 DEF Consecutive
    <3> QED BY <1>10, <3>1, <3>2
  <2>7. i <= Len(frames)
    BY <1>2, <1>5
  <2>8. decoded' = i
    BY <1>11
  <2> HIDE DEF i
  <2> QED BY <1>1, <2>2, <2>4, <2>5, <2>6, <2>7, <2>8 DEF FrameBuffer, Consecutive, Starts
<1>17. ResponseFrames'
  <2>1. /\ \A k, l \in 1 .. Len(responses) : k < l => responses[k] < responses[l]
        /\ {responses[k] : k \in 1 .. Len(responses)}
             = {j \in 1 .. d : frames[j].type = "RCL_RESP"}
    BY <1>1, <1>2 DEF ResponseFrames
  <2>2. \A j \in 1 .. i : j \in 1 .. d \/ j = i
    OBVIOUS
  <2>3. \A j \in 1 .. d : j \in 1 .. i
    OBVIOUS
  <2>4. i \in 1 .. i
    OBVIOUS
  <2>5. CASE frames[i].type # "RCL_RESP"
    <3>1. {j \in 1 .. i : frames[j].type = "RCL_RESP"}
            = {j \in 1 .. d : frames[j].type = "RCL_RESP"}
      BY <2>2, <2>3, <2>5
    <3>2. responses' = responses
      BY <1>11, <2>5
    <3> QED BY <1>1, <1>11, <2>1, <3>1, <3>2 DEF ResponseFrames
  <2>6. CASE frames[i].type = "RCL_RESP"
    <3>1. PICK m \in Nat : m = Len(responses)
      BY <1>1, FrameTypesOk
    <3>2. /\ Len(responses') = m + 1
          /\ \A k \in 1 .. m : responses'[k] = responses[k]
          /\ responses'[m + 1] = i
      <4>1. responses \in Seq(Nat)
        BY <1>1 DEF FrameState
      <4> QED BY <1>7, <1>11, <2>6, <3>1, <4>1, AppendProperties
    <3>3. \A k \in 1 .. m : responses[k] \in 1 .. d /\ responses[k] < i
      <4> TAKE k \in 1 .. m
      <4>1. responses[k] \in {j \in 1 .. d : frames[j].type = "RCL_RESP"}
        BY <2>1, <3>1
      <4> QED BY <4>1
    <3>4. \A k \in 1 .. m + 1 : k \in 1 .. m \/ k = m + 1
      OBVIOUS
    <3>5. ASSUME NEW k \in 1 .. m + 1, NEW l \in 1 .. m + 1, k < l
          PROVE  responses'[k] < responses'[l]
      <4>1. k \in 1 .. m
        BY <3>5
      <4>2. CASE l \in 1 .. m
        BY <2>1, <3>1, <3>2, <3>5, <4>1, <4>2
      <4>3. CASE l = m + 1
        BY <3>2, <3>3, <4>1, <4>3
      <4> QED BY <3>4, <4>2, <4>3
    <3>6. {responses'[k] : k \in 1 .. m + 1}
            = {responses[k] : k \in 1 .. m} \cup {i}
      <4>1. m + 1 \in 1 .. m + 1 /\ \A k \in 1 .. m : k \in 1 .. m + 1
        OBVIOUS
      <4> QED BY <3>2, <3>4, <4>1
    <3>7. {j \in 1 .. i : frames[j].type = "RCL_RESP"}
            = {j \in 1 .. d : frames[j].type = "RCL_RESP"} \cup {i}
      BY <2>2, <2>3, <2>4, <2>6
    <3>8. {responses'[k] : k \in 1 .. m + 1} = {j \in 1 .. i : frames[j].type = "RCL_RESP"}
      BY <2>1, <3>1, <3>6, <3>7
    <3> HIDE DEF i
    <3> QED BY <1>1, <1>11, <3>2, <3>5, <3>8 DEF ResponseFrames
  <2> QED BY <2>5, <2>6
<1>18. NoFrameWaits'
  BY <1>11 DEF NoFrameWaits
<1> QED BY <1>14, <1>15, <1>16, <1>17, <1>18 DEF FrameInv

LEMMA FeedReturnsOk ==
  ASSUME FrameInv, FeedReturns
  PROVE  FrameInv'
<1>1. /\ FrameState /\ FrameLayout /\ FrameBuffer /\ ResponseFrames
      /\ UNCHANGED <<frames, end, got, buffer, pending_padding, decoded, responses>>
      /\ Incomplete /\ phase' = "ready"
  BY DEF FrameInv, FeedReturns
<1>2. FrameState' /\ FrameLayout' /\ FrameBuffer' /\ ResponseFrames'
  <2>1. /\ frames' = frames /\ end' = end /\ got' = got /\ buffer' = buffer
        /\ pending_padding' = pending_padding /\ decoded' = decoded /\ responses' = responses
    BY <1>1
  <2>2. FrameState'
    BY <1>1, <2>1 DEF FrameState
  <2>3. FrameLayout'
    BY <1>1, <2>1 DEF FrameLayout, Starts, FrameEnd
  <2>4. FrameBuffer'
    BY <1>1, <2>1 DEF FrameBuffer, Starts, FrameEnd, Consecutive
  <2>5. ResponseFrames'
    BY <1>1, <2>1 DEF ResponseFrames
  <2> QED BY <2>2, <2>3, <2>4, <2>5
<1>3. NoFrameWaits'
  <2> DEFINE n == Len(frames)
             i == decoded + 1
  <2> SUFFICES ASSUME decoded # n
               PROVE  got < frames[i].start + HEADER_LEN + frames[i].payload
    BY <1>1 DEF NoFrameWaits
  <2>1. /\ n \in Nat /\ Len(buffer) \in Nat /\ got \in Nat
        /\ decoded \in Nat /\ pending_padding \in Nat
    BY <1>1, FrameTypesOk DEF FrameState
  <2>2. decoded <= n /\ got + pending_padding = Starts(i) + Len(buffer)
    BY <1>1 DEF FrameBuffer
  <2>3. i \in 1 .. n
    BY <2>1, <2>2
  <2>4. frames[i].start \in Nat /\ frames[i].payload \in Nat
    BY <1>1, <2>3, FrameTypesOk
  <2>5. got + pending_padding = frames[i].start + Len(buffer)
    <3>1. i <= n
      BY <2>3
    <3> QED BY <2>2, <3>1 DEF Starts
  <2>6. Len(buffer) < 8 + frames[i].payload
    <3>1. CASE Len(buffer) < 8
      BY <2>1, <2>4, <3>1
    <3>2. CASE ~(Len(buffer) < 8)
      <4>1. buffer # <<>>
        BY <3>2, EmptySeq
      <4>2. AtBuffer = i
        BY <4>1, BufferStartsNext
      <4>3. Len(buffer) < MessageLength(i)
        BY <1>1, <3>2, <4>2 DEF Incomplete, HEADER_LEN
      <4>4. i # 0
        BY <2>3
      <4> QED BY <4>3, <4>4 DEF MessageLength, Header, HEADER_LEN
    <3> QED BY <3>1, <3>2
  <2> HIDE DEF i
  <2> QED BY SMTT(20), <2>1, <2>4, <2>5, <2>6 DEF HEADER_LEN
<1> QED BY <1>2, <1>3 DEF FrameInv

LEMMA FrameInvariant == ASSUME DecoderAssumption PROVE FrameSpec => []FrameInv
<1>1. FrameInit => FrameInv
  BY FrameInitOk
<1>2. FrameInv /\ [FrameNext]_frameVars => FrameInv'
  <2> SUFFICES ASSUME FrameInv, [FrameNext]_frameVars PROVE FrameInv'
    OBVIOUS
  <2>1. CASE Send
    BY <2>1, SendOk
  <2>2. CASE Feed
    BY <2>2, FeedOk
  <2>3. CASE TakeFrame
    BY <2>3, TakeFrameOk
  <2>4. CASE FeedReturns
    BY <2>4, FeedReturnsOk
  <2>5. CASE UNCHANGED frameVars
    BY <2>5 DEF frameVars, FrameInv, FrameState, FrameLayout, Starts, FrameEnd, FrameBuffer,
                Consecutive, ResponseFrames, NoFrameWaits
  <2> QED BY <2>1, <2>2, <2>3, <2>4, <2>5 DEF FrameNext
<1> QED BY <1>1, <1>2, PTL DEF FrameSpec

(* The responses handed out are exactly the response frames among those    *)
(* decoded, whole and in order, however the reads split and join them; and *)
(* when feed returns without an error every frame whose payload arrived    *)
(* has been decoded (FrameDecoder::feed).                                  *)
THEOREM ResponsesAreAsSent ==
  ASSUME DecoderAssumption PROVE FrameSpec => []ResponsesAsSent
<1>1. FrameInv => ResponsesAsSent
  <2> SUFFICES ASSUME FrameInv PROVE ResponsesAsSent
    OBVIOUS
  <2>1. FrameState /\ FrameLayout /\ FrameBuffer /\ ResponseFrames /\ NoFrameWaits
    BY DEF FrameInv
  <2>2. PICK n \in Nat, d \in Nat : n = Len(frames) /\ d = decoded
    BY <2>1, FrameTypesOk DEF FrameState
  <2>3. d <= n
    BY <2>1, <2>2 DEF FrameBuffer
  <2>4. ASSUME phase = "ready", NEW i \in 1 .. n,
               frames[i].start + MessageLength(i) <= got, ~(i <= d)
        PROVE  FALSE
    <3>1. d + 1 \in 1 .. n /\ d # n
      BY <2>3, <2>4
    <3>2. got < frames[d + 1].start + 8 + frames[d + 1].payload
      BY <2>1, <2>2, <2>4, <3>1 DEF NoFrameWaits, HEADER_LEN
    <3>3. MessageLength(i) = 8 + frames[i].payload
      BY DEF MessageLength, Header, HEADER_LEN
    <3>4. /\ got \in Nat
          /\ frames[i].start \in Nat /\ frames[i].payload \in Nat
          /\ frames[d + 1].start \in Nat /\ frames[d + 1].payload \in Nat
          /\ FrameEnd(d + 1) \in Nat
          /\ FrameEnd(d + 1) >= frames[d + 1].start + 8 + frames[d + 1].payload
      BY <2>1, <2>2, <3>1, FrameTypesOk
    <3>5. CASE i = d + 1
      BY <2>4, <3>2, <3>3, <3>4, <3>5
    <3>6. CASE i # d + 1
      <4>1. d + 1 < i
        BY <2>4, <3>6
      <4>2. FrameEnd(d + 1) <= frames[i].start
        BY <2>1, <2>2, <3>1, <4>1 DEF FrameLayout
      <4> QED BY <2>4, <3>2, <3>3, <3>4, <4>2
    <3> QED BY <3>5, <3>6
  <2> QED BY <2>1, <2>2, <2>4 DEF ResponsesAsSent, ResponseFrames
<1>2. FrameSpec => []FrameInv
  BY FrameInvariant
<1> QED BY <1>1, <1>2, PTL

(* A set of numbers has a least one: the prefixes 0 .. n of its members    *)
(* are finite sets, which strict inclusion orders well.                    *)
LEMMA EarliestIsIn ==
  ASSUME NEW S \in SUBSET Nat, S # {}
  PROVE  Earliest(S) \in S /\ \A m \in S : Earliest(S) <= m
<1> DEFINE T == {0 .. n : n \in S}
<1>1. T \subseteq FiniteSubsetsOf(Nat) /\ T # {}
  <2>1. \A n \in S : IsFiniteSet(0 .. n) /\ 0 .. n \subseteq Nat
    BY FS_Interval
  <2> QED BY <2>1 DEF FiniteSubsetsOf
<1>2. IsWellFoundedOn(StrictSubsetOrdering(Nat), FiniteSubsetsOf(Nat))
  BY FS_StrictSubsetOrderingWellFounded
<1>3. PICK least \in T : \A t \in T : ~(<<t, least>> \in StrictSubsetOrdering(Nat))
  <2> HIDE DEF T
  <2> QED BY <1>1, <1>2, WFMin
<1>4. PICK x \in S : least = 0 .. x
  BY <1>3
<1>5. ASSUME NEW y \in S PROVE x <= y
  <2>1. ~(0 .. y \subseteq 0 .. x /\ 0 .. y # 0 .. x)
    <3>1. 0 .. y \in SUBSET Nat /\ 0 .. x \in SUBSET Nat /\ 0 .. y \in T
      OBVIOUS
    <3>2. ~(<<0 .. y, 0 .. x>> \in StrictSubsetOrdering(Nat))
      BY <1>3, <1>4, <3>1
    <3> QED BY <3>1, <3>2, Zenon DEF StrictSubsetOrdering
  <2>2. CASE y < x
    <3>1. x \in 0 .. x /\ x \notin 0 .. y /\ 0 .. y \subseteq 0 .. x
      BY <2>2
    <3> QED BY <2>1, <3>1
  <2> QED BY <2>2
<1> QED BY <1>5 DEF Earliest

(***************************************************************************)
(* The clock tree.                                                         *)

(* n clocks, each of which runs from the next one.                         *)
Walk(w, n) ==
  /\ w \in [1 .. n -> Clocks]
  /\ \A k \in 1 .. n - 1 : Follows(w[k], w[k + 1])

(* A clock is n clocks away from one that runs from no other; it runs from *)
(* itself, over others; it is n clocks away from one that is switched off. *)
Rooted(i, n) ==
  \E w \in [1 .. n -> Clocks] :
    Walk(w, n) /\ w[1] = i /\ clocks[w[n]].source.kind # "clock"

LoopOf(i, n) == \E w \in [1 .. n -> Clocks] : Walk(w, n) /\ w[1] = i /\ w[n] = i

Looped(i) == \E n \in Nat : n > 1 /\ LoopOf(i, n)

OffAt(i, n) == \E w \in [1 .. n -> Clocks] : Walk(w, n) /\ w[1] = i /\ SwitchedOff(w[n])

(* What `state` returns.                                                   *)
KnownState(s) == s \in {Off, Unknown, Error} \/ s = Hz(s.hz)

(* The source of a clock that runs from no other.                          *)
OwnSource(source) ==
  IF source.kind = "root" THEN Hz(source.hz) ELSE IF source.kind = "fails" THEN Error ELSE Unknown

ClockType ==
  /\ clocks \in [1 .. NClocks -> [source : ClockSources, gates : Gates]]
  /\ next \in 1 .. NClocks + 1
  /\ DOMAIN done = 1 .. NClocks /\ \A i \in 1 .. NClocks : done[i] = NoAnswer \/ KnownState(done[i])
  /\ done = [i \in 1 .. NClocks |-> done[i]]
  /\ visiting \in Seq(1 .. NClocks)
  /\ answer = NoAnswer \/ KnownState(answer)

(* The calls under way are of different clocks, each of which runs from    *)
(* the next one and is not done.                                           *)
CallsNow ==
  /\ \A k, l \in DOMAIN visiting : visiting[k] = visiting[l] => k = l
  /\ \A k \in 1 .. Len(visiting) - 1 : Follows(visiting[k], visiting[k + 1])
  /\ \A k \in DOMAIN visiting : done[visiting[k]] = NoAnswer

(* An answer is what is known of the clock that the latest call runs from, *)
(* or, if that is one of those under way, the error.                       *)
AnswerNow ==
  answer # NoAnswer =>
    /\ visiting # <<>>
    /\ LET source == clocks[visiting[Len(visiting)]].source
       IN  /\ source.kind = "clock"
           /\ \/ done[source.of] # NoAnswer /\ answer = done[source.of]
              \/ answer = Error /\ \E k \in DOMAIN visiting : visiting[k] = source.of

(* Clocks before the next one are done or under way.                       *)
LoopNow ==
  \A i \in 1 .. NClocks :
    i < next /\ done[i] = NoAnswer => \E k \in DOMAIN visiting : visiting[k] = i

(* What is kept of a clock: what follows from its source; or, if it was    *)
(* the last of a loop to be entered, of a source that is not known.        *)
Settled(i) ==
  LET clock == clocks[i]
  IN  IF clock.source.kind = "clock"
        THEN \/ /\ done[clock.source.of] # NoAnswer
                /\ done[i] = Derive(clock.gates, FromParent(done[clock.source.of]))
             \/ done[i] = Derive(clock.gates, Unknown) /\ Looped(i)
        ELSE done[i] = Derive(clock.gates, OwnSource(clock.source))

(* A frequency comes from a root, and a clock is off for a reason.         *)
Reasons(i) ==
  /\ done[i].state = "hz" => \E n \in Nat : n > 0 /\ Rooted(i, n)
  /\ done[i].state = "off" => \E n \in Nat : n > 0 /\ OffAt(i, n)

ClockInv ==
  /\ ClockType /\ CallsNow /\ AnswerNow /\ LoopNow
  /\ \A i \in 1 .. NClocks : done[i] # NoAnswer => Settled(i) /\ Reasons(i)

(* The four states and none are different.                                 *)
LEMMA StatesDiffer ==
  /\ Off.state = "off" /\ Unknown.state = "unknown" /\ Error.state = "error"
  /\ NoAnswer.state = "none yet" /\ \A f : Hz(f).state = "hz" /\ Hz(f).hz = f
BY DEF Off, Unknown, Error, NoAnswer, Hz

(* derive: what its result says of the clock's gates and of the source.    *)
LEMMA DeriveSays ==
  ASSUME ClocksAssumption, NEW gates, NEW source, KnownState(source)
  PROVE  LET derived == Derive(gates, source)
             runs == /\ gates.enable \notin {0, Fails} /\ gates.mul # Fails
                     /\ gates.div \notin {0, Fails}
         IN  /\ KnownState(derived) /\ derived # NoAnswer
             /\ derived.state = "hz" <=> source.state = "hz" /\ runs
             /\ derived.state = "hz" => derived = Hz((source.hz * gates.mul) \div gates.div)
             /\ derived.state = "off" => gates.enable = 0 \/ gates.div = 0 \/ source = Off
             /\ derived.state = "error" =>
                  gates.enable = Fails \/ gates.mul = Fails \/ gates.div = Fails \/ source = Error
<1> DEFINE derived == Derive(gates, source)
           product == (source.hz * gates.mul) \div gates.div
<1>1. Fails # 0
  BY DEF ClocksAssumption
<1>2. /\ KnownState(Error) /\ KnownState(Off) /\ KnownState(Hz(product))
      /\ Error # NoAnswer /\ Off # NoAnswer /\ Hz(product) # NoAnswer /\ source # NoAnswer
  BY StatesDiffer DEF KnownState
<1>3. /\ Error.state = "error" /\ Off.state = "off" /\ Hz(product).state = "hz"
      /\ source.state = "error" => source = Error
      /\ source.state = "off" => source = Off
      /\ source = Off => source.state = "off"
  BY StatesDiffer DEF KnownState
<1> HIDE DEF product
<1>4. CASE gates.enable = Fails
  <2>1. derived = Error
    BY <1>4 DEF Derive
  <2> QED BY <1>2, <1>3, <1>4, <2>1
<1>5. CASE gates.enable # Fails /\ (gates.enable = 0 \/ source = Off)
  <2>1. derived = Off
    BY <1>5 DEF Derive
  <2> QED BY <1>2, <1>3, <1>5, <2>1
<1>6. CASE gates.enable \notin {0, Fails} /\ source # Off /\ Fails \in {gates.mul, gates.div}
  <2>1. derived = Error
    BY <1>6 DEF Derive
  <2> QED BY <1>2, <1>3, <1>6, <2>1
<1>7. CASE gates.enable \notin {0, Fails} /\ source # Off /\ Fails \notin {gates.mul, gates.div}
  <2>1. CASE gates.div = 0
    <3>1. derived = Off
      BY <1>7, <2>1 DEF Derive
    <3> QED BY <1>2, <1>3, <1>7, <2>1, <3>1
  <2>2. CASE gates.div # 0 /\ source.state = "hz"
    <3>1. derived = Hz(product)
      BY <1>7, <2>2 DEF Derive, product
    <3> QED BY <1>2, <1>3, <1>7, <2>2, <3>1 DEF product
  <2>3. CASE gates.div # 0 /\ source.state # "hz"
    <3>1. derived = source
      BY <1>7, <2>3 DEF Derive
    <3> QED BY <1>2, <1>3, <1>7, <2>3, <3>1
  <2> QED BY <2>1, <2>2, <2>3
<1> QED BY <1>4, <1>5, <1>6, <1>7

(* What a clock takes over is never an error, and a frequency unchanged.   *)
LEMMA TakenOver ==
  ASSUME NEW parent, KnownState(parent)
  PROVE  /\ KnownState(FromParent(parent)) /\ FromParent(parent) # Error
         /\ FromParent(parent).state = "hz" <=> parent.state = "hz"
         /\ FromParent(parent) = Off <=> parent = Off
         /\ parent.state = "hz" => FromParent(parent) = parent
<1>1. parent.state = "error" <=> parent = Error
  BY StatesDiffer DEF KnownState
<1>2. Off # Error /\ Unknown # Error /\ Unknown # Off /\ Unknown.state # "hz" /\ Error.state # "hz"
  BY StatesDiffer
<1>3. KnownState(Unknown)
  BY DEF KnownState
<1> QED BY <1>1, <1>2, <1>3 DEF FromParent

(* A clock that runs from another one is one further from a root or from   *)
(* one that is switched off than that; and so are those it runs from.      *)
LEMMA OneFurther ==
  ASSUME NEW i \in Clocks, NEW j \in Clocks, Follows(i, j), NEW n \in Nat, n > 0
  PROVE  /\ Rooted(j, n) => Rooted(i, n + 1)
         /\ OffAt(j, n) => OffAt(i, n + 1)
<1> DEFINE before(w) == [k \in 1 .. n + 1 |-> IF k = 1 THEN i ELSE w[k - 1]]
<1>1. ASSUME NEW w, Walk(w, n), w[1] = j
      PROVE  /\ before(w) \in [1 .. n + 1 -> Clocks] /\ Walk(before(w), n + 1)
             /\ before(w)[1] = i /\ before(w)[n + 1] = w[n]
  <2>1. \A k \in 1 .. n : w[k] \in Clocks
    BY <1>1 DEF Walk
  <2>2. before(w) \in [1 .. n + 1 -> Clocks]
    <3>1. ASSUME NEW k \in 1 .. n + 1, k # 1 PROVE w[k - 1] \in Clocks
      <4>1. k - 1 \in 1 .. n
        BY <3>1
      <4> QED BY <2>1, <4>1
    <3> QED BY <3>1
  <2>3. before(w)[1] = i /\ before(w)[n + 1] = w[n]
    <3>1. 1 \in 1 .. n + 1 /\ n + 1 \in 1 .. n + 1 /\ n + 1 # 1 /\ (n + 1) - 1 = n
      OBVIOUS
    <3> QED BY <3>1
  <2>4. ASSUME NEW k \in 1 .. (n + 1) - 1 PROVE Follows(before(w)[k], before(w)[k + 1])
    <3>1. /\ k \in 1 .. n + 1 /\ k + 1 \in 1 .. n + 1 /\ k + 1 # 1 /\ (k + 1) - 1 = k
          /\ k \in 1 .. n
      BY <2>4
    <3>2. before(w)[k + 1] = w[k]
      BY <3>1
    <3>3. CASE k = 1
      <4>1. before(w)[k] = i
        BY <3>1, <3>3
      <4> QED BY <1>1, <3>2, <3>3, <4>1
    <3>4. CASE k # 1
      <4>1. k - 1 \in 1 .. n - 1 /\ (k - 1) + 1 = k
        BY <3>1, <3>4
      <4>2. Follows(w[k - 1], w[k])
        BY <1>1, <4>1 DEF Walk
      <4>3. before(w)[k] = w[k - 1]
        BY <3>1, <3>4
      <4> QED BY <3>2, <4>2, <4>3
    <3> QED BY <3>3, <3>4
  <2> HIDE DEF before
  <2> QED BY <2>2, <2>3, <2>4 DEF Walk
<1> HIDE DEF before
<1>2. ASSUME Rooted(j, n) PROVE Rooted(i, n + 1)
  <2>1. PICK w \in [1 .. n -> Clocks] :
          Walk(w, n) /\ w[1] = j /\ clocks[w[n]].source.kind # "clock"
    BY <1>2 DEF Rooted
  <2> QED BY <1>1, <2>1 DEF Rooted
<1>3. ASSUME OffAt(j, n) PROVE OffAt(i, n + 1)
  <2>1. PICK w \in [1 .. n -> Clocks] : Walk(w, n) /\ w[1] = j /\ SwitchedOff(w[n])
    BY <1>3 DEF OffAt
  <2> QED BY <1>1, <2>1 DEF OffAt
<1> QED BY <1>2, <1>3

LEMMA OneNearer ==
  ASSUME NEW i \in Clocks, NEW j \in Clocks, Follows(i, j), NEW n \in Nat, n > 0
  PROVE  /\ Rooted(i, n) => n > 1 /\ Rooted(j, n - 1)
         /\ OffAt(i, n) /\ ~SwitchedOff(i) => n > 1 /\ OffAt(j, n - 1)
         /\ LoopOf(i, n) /\ n > 1 => LoopOf(j, n)
<1> DEFINE after(w) == [k \in 1 .. n - 1 |-> w[k + 1]]
<1>1. ASSUME NEW w, Walk(w, n), w[1] = i, n > 1
      PROVE  /\ after(w) \in [1 .. n - 1 -> Clocks] /\ Walk(after(w), n - 1)
             /\ after(w)[1] = j /\ after(w)[n - 1] = w[n]
  <2>1. \A k \in 1 .. n : w[k] \in Clocks
    BY <1>1 DEF Walk
  <2>2. \A k \in 1 .. n - 1 : k + 1 \in 1 .. n /\ after(w)[k] = w[k + 1]
    OBVIOUS
  <2>3. after(w) \in [1 .. n - 1 -> Clocks]
    BY <2>1, <2>2
  <2>4. after(w)[1] = j
    <3>1. 1 \in 1 .. n - 1 /\ 1 + 1 = 2
      BY <1>1
    <3>2. Follows(w[1], w[2]) /\ after(w)[1] = w[2]
      BY <1>1, <2>2, <3>1 DEF Walk
    <3> QED BY <1>1, <3>2 DEF Follows
  <2>5. after(w)[n - 1] = w[n]
    <3>1. n - 1 \in 1 .. n - 1 /\ (n - 1) + 1 = n
      BY <1>1
    <3> QED BY <2>2, <3>1
  <2>6. ASSUME NEW k \in 1 .. (n - 1) - 1 PROVE Follows(after(w)[k], after(w)[k + 1])
    <3>1. /\ k \in 1 .. n - 1 /\ k + 1 \in 1 .. n - 1 /\ (k + 1) + 1 = k + 2
      BY <2>6
    <3>2. Follows(w[k + 1], w[k + 2])
      BY <1>1, <3>1 DEF Walk
    <3> QED BY <2>2, <3>1, <3>2
  <2> HIDE DEF after
  <2> QED BY <2>3, <2>4, <2>5, <2>6 DEF Walk
<1> HIDE DEF after
<1>2. ASSUME Rooted(i, n) PROVE n > 1 /\ Rooted(j, n - 1)
  <2>1. PICK w \in [1 .. n -> Clocks] :
          Walk(w, n) /\ w[1] = i /\ clocks[w[n]].source.kind # "clock"
    BY <1>2 DEF Rooted
  <2>2. n # 1
    BY <2>1 DEF Follows
  <2>3. n > 1
    BY <2>2
  <2> QED BY <1>1, <2>1, <2>3 DEF Rooted
<1>3. ASSUME OffAt(i, n), ~SwitchedOff(i) PROVE n > 1 /\ OffAt(j, n - 1)
  <2>1. PICK w \in [1 .. n -> Clocks] : Walk(w, n) /\ w[1] = i /\ SwitchedOff(w[n])
    BY <1>3 DEF OffAt
  <2>2. n # 1
    BY <1>3, <2>1
  <2>3. n > 1
    BY <2>2
  <2> QED BY <1>1, <2>1, <2>3 DEF OffAt
<1>4. ASSUME LoopOf(i, n), n > 1 PROVE LoopOf(j, n)
  <2>1. PICK w \in [1 .. n -> Clocks] : Walk(w, n) /\ w[1] = i /\ w[n] = i
    BY <1>4 DEF LoopOf
  <2>2. /\ after(w) \in [1 .. n - 1 -> Clocks] /\ Walk(after(w), n - 1)
        /\ after(w)[1] = j /\ after(w)[n - 1] = i
    BY <1>1, <1>4, <2>1
  <2> DEFINE round == [k \in 1 .. n |-> IF k = n THEN j ELSE after(w)[k]]
  <2>3. round \in [1 .. n -> Clocks]
    <3>1. ASSUME NEW k \in 1 .. n, k # n PROVE after(w)[k] \in Clocks
      <4>1. k \in 1 .. n - 1
        BY <3>1
      <4> QED BY <2>2, <4>1
    <3> QED BY <3>1
  <2>4. round[1] = j /\ round[n] = j
    <3>1. 1 \in 1 .. n /\ n \in 1 .. n /\ 1 # n
      BY <1>4
    <3> QED BY <2>2, <3>1
  <2>5. ASSUME NEW k \in 1 .. n - 1 PROVE Follows(round[k], round[k + 1])
    <3>1. k \in 1 .. n /\ k + 1 \in 1 .. n /\ k # n
      BY <2>5
    <3>2. round[k] = after(w)[k]
      BY <3>1
    <3>3. CASE k = n - 1
      <4>1. k + 1 = n
        BY <3>3
      <4> QED BY <2>2, <3>2, <3>1, <3>3, <4>1
    <3>4. CASE k # n - 1
      <4>1. k \in 1 .. (n - 1) - 1 /\ k + 1 # n
        BY <2>5, <3>4
      <4>2. Follows(after(w)[k], after(w)[k + 1])
        BY <2>2, <4>1 DEF Walk
      <4> QED BY <3>1, <3>2, <4>1, <4>2
    <3> QED BY <3>3, <3>4
  <2> HIDE DEF round
  <2>6. Walk(round, n)
    BY <2>3, <2>5 DEF Walk
  <2> QED BY <2>3, <2>4, <2>6 DEF LoopOf
<1> QED BY <1>2, <1>3, <1>4

(* The clocks are numbered, and each runs from one of them if from any.    *)
LEMMA ClocksAre ==
  ASSUME ClocksAssumption, ClockType
  PROVE  /\ NClocks \in Nat /\ Clocks = 1 .. NClocks /\ Len(clocks) = NClocks
         /\ \A i \in Clocks : clocks[i].source.kind = "clock" => clocks[i].source.of \in Clocks
<1>1. clocks \in [1 .. NClocks -> [source : ClockSources, gates : Gates]] /\ NClocks \in Nat
  BY DEF ClockType, ClocksAssumption
<1>2. Clocks = 1 .. NClocks /\ Len(clocks) = NClocks
  BY <1>1 DEF Clocks
<1>3. ASSUME NEW i \in Clocks, clocks[i].source.kind = "clock"
      PROVE  clocks[i].source.of \in Clocks
  <2>1. clocks[i].source \in ClockSources
    BY <1>1, <1>2
  <2>2. clocks[i].source \in [kind : {"clock"}, of : 1 .. NClocks]
    BY <1>3, <2>1 DEF ClockSources
  <2> QED BY <1>2, <2>2
<1> QED BY <1>1, <1>2, <1>3

(* A clock with a root is on no loop: else the nearest to its root is not. *)
LEMMA RootedIsNoLoop ==
  ASSUME NEW i \in Clocks, NEW n \in Nat, n > 0, Rooted(i, n)
  PROVE  ~Looped(i)
<1> SUFFICES ASSUME Looped(i) PROVE FALSE
  OBVIOUS
<1> DEFINE B == {m \in Nat : m > 0 /\ \E x \in Clocks : Rooted(x, m) /\ Looped(x)}
           m == Earliest(B)
<1>1. n \in B
  OBVIOUS
<1>2. m \in B /\ \A k \in B : m <= k
  <2>1. B \in SUBSET Nat /\ B # {}
    BY <1>1
  <2> HIDE DEF B
  <2> QED BY <2>1, EarliestIsIn
<1> HIDE DEF m
<1>3. m \in Nat /\ m > 0
  BY <1>2
<1>4. PICK x \in Clocks : Rooted(x, m) /\ Looped(x)
  BY <1>2
<1>5. PICK l \in Nat : l > 1 /\ LoopOf(x, l)
  BY <1>4 DEF Looped
<1>6. PICK w \in [1 .. l -> Clocks] : Walk(w, l) /\ w[1] = x
  BY <1>5 DEF LoopOf
<1>7. w[2] \in Clocks /\ Follows(x, w[2])
  <2>1. 2 \in 1 .. l /\ 1 \in 1 .. l - 1 /\ 1 + 1 = 2
    BY <1>5
  <2> QED BY <1>6, <2>1 DEF Walk
<1>8. m > 1 /\ Rooted(w[2], m - 1)
  BY <1>3, <1>4, <1>7, OneNearer
<1>9. Looped(w[2])
  <2>1. LoopOf(w[2], l)
    BY <1>5, <1>7, OneNearer
  <2> QED BY <1>5, <2>1 DEF Looped
<1>10. m - 1 \in Nat /\ m - 1 > 0 /\ ~(m <= m - 1)
  BY <1>3, <1>8
<1>11. m - 1 \in B
  BY <1>7, <1>8, <1>9, <1>10
<1> HIDE DEF B
<1> QED BY <1>2, <1>10, <1>11

IsChain(c, i, n) ==
  /\ Walk(c, n) /\ c[1] = i
  /\ \A k, l \in 1 .. n : c[k] = c[l] => k = l
  /\ clocks[c[n]].source.kind = "clock" => \E k \in 1 .. n : c[k] = clocks[c[n]].source.of

(* The longest walk of different clocks cannot be continued: there are no  *)
(* more of them than clocks.                                               *)
LEMMA ChainExists ==
  ASSUME ClocksAssumption, ClockType, NEW i \in Clocks
  PROVE  \E n \in 1 .. NClocks : \E c \in [1 .. n -> Clocks] : IsChain(c, i, n)
<1> DEFINE Distinct(n) == \E w \in [1 .. n -> Clocks] :
                            /\ Walk(w, n) /\ w[1] = i
                            /\ \A k, l \in 1 .. n : w[k] = w[l] => k = l
           left == {d \in Nat : d < NClocks /\ Distinct(NClocks - d)}
           least == Earliest(left)
<1>1. /\ NClocks \in Nat /\ Clocks = 1 .. NClocks
      /\ \A j \in Clocks : clocks[j].source.kind = "clock" => clocks[j].source.of \in Clocks
  BY ClocksAre
<1>2. Distinct(1)
  <2> DEFINE w == [k \in 1 .. 1 |-> i]
  <2>1. w \in [1 .. 1 -> Clocks] /\ Walk(w, 1) /\ w[1] = i
    BY DEF Walk
  <2>2. \A k, l \in 1 .. 1 : k = l
    OBVIOUS
  <2> QED BY <2>1, <2>2
<1>3. NClocks - 1 \in left
  <2>1. i \in 1 .. NClocks
    BY <1>1
  <2>2. NClocks - 1 \in Nat /\ NClocks - 1 < NClocks /\ NClocks - (NClocks - 1) = 1
    BY <1>1, <2>1
  <2> HIDE DEF Distinct
  <2> QED BY <1>2, <2>2
<1>4. least \in left /\ \A d \in left : least <= d
  <2>1. left \in SUBSET Nat /\ left # {}
    BY <1>3
  <2> HIDE DEF left
  <2> QED BY <2>1, EarliestIsIn
<1> HIDE DEF least
<1>5. PICK n \in 1 .. NClocks : n = NClocks - least /\ Distinct(n)
  <2>1. least \in Nat /\ least < NClocks /\ Distinct(NClocks - least)
    BY <1>4
  <2>2. NClocks - least \in 1 .. NClocks
    BY <1>1, <2>1
  <2> HIDE DEF Distinct
  <2> QED BY <2>1, <2>2
<1>6. ~Distinct(n + 1) \/ n = NClocks
  <2> HIDE DEF Distinct
  <2> SUFFICES ASSUME Distinct(n + 1), n # NClocks PROVE FALSE
    OBVIOUS
  <2>1. least \in Nat
    BY <1>4
  <2>2. least - 1 \in Nat /\ least - 1 < NClocks /\ NClocks - (least - 1) = n + 1
    BY <1>1, <1>5, <2>1
  <2>3. least - 1 \in left
    BY <2>2
  <2>4. ~(least <= least - 1)
    BY <2>1
  <2> HIDE DEF left
  <2> QED BY <1>4, <2>3, <2>4
<1>7. PICK w \in [1 .. n -> Clocks] :
        Walk(w, n) /\ w[1] = i /\ \A k, l \in 1 .. n : w[k] = w[l] => k = l
  BY <1>5
<1>8. n \in 1 .. n /\ w[n] \in Clocks
  BY <1>5, <1>7
<1> SUFFICES ASSUME clocks[w[n]].source.kind = "clock"
             PROVE  \E k \in 1 .. n : w[k] = clocks[w[n]].source.of
  BY <1>7 DEF IsChain
<1> DEFINE of == clocks[w[n]].source.of
           longer == [k \in 1 .. n + 1 |-> IF k = n + 1 THEN of ELSE w[k]]
<1>9. of \in Clocks
  BY <1>1, <1>8
<1> SUFFICES ASSUME \A k \in 1 .. n : w[k] # of PROVE FALSE
  OBVIOUS
<1>10. longer \in [1 .. n + 1 -> Clocks]
  <2>1. ASSUME NEW k \in 1 .. n + 1, k # n + 1 PROVE w[k] \in Clocks
    <3>1. k \in 1 .. n
      BY <2>1
    <3> QED BY <1>7, <3>1
  <2> HIDE DEF of
  <2> QED BY <1>9, <2>1
<1>11. \A k \in 1 .. n : k \in 1 .. n + 1 /\ k # n + 1 /\ longer[k] = w[k]
  OBVIOUS
<1>12. n + 1 \in 1 .. n + 1 /\ longer[n + 1] = of
  OBVIOUS
<1>13. Walk(longer, n + 1) /\ longer[1] = i
  <2>1. ASSUME NEW k \in 1 .. (n + 1) - 1 PROVE Follows(longer[k], longer[k + 1])
    <3>1. k \in 1 .. n
      BY <2>1
    <3>2. CASE k = n
      BY <1>11, <1>12, <3>1, <3>2 DEF Follows
    <3>3. CASE k # n
      <4>1. k \in 1 .. n - 1 /\ k + 1 \in 1 .. n
        BY <3>1, <3>3
      <4>2. Follows(w[k], w[k + 1])
        BY <1>7, <4>1 DEF Walk
      <4> HIDE DEF longer, of
      <4> QED BY <1>11, <3>1, <4>1, <4>2
    <3> QED BY <3>2, <3>3
  <2>2. 1 \in 1 .. n
    BY <1>5
  <2> HIDE DEF longer, of
  <2> QED BY <1>7, <1>10, <1>11, <2>1, <2>2 DEF Walk
<1>14. \A k, l \in 1 .. n + 1 : longer[k] = longer[l] => k = l
  <2> SUFFICES ASSUME NEW k \in 1 .. n + 1, NEW l \in 1 .. n + 1, longer[k] = longer[l]
               PROVE  k = l
    OBVIOUS
  <2>1. (k \in 1 .. n \/ k = n + 1) /\ (l \in 1 .. n \/ l = n + 1)
    OBVIOUS
  <2> HIDE DEF longer, of
  <2> QED BY <1>7, <1>11, <1>12, <2>1
<1> HIDE DEF longer, of
<1>15. Distinct(n + 1)
  BY <1>10, <1>13, <1>14
<1>16. n + 1 <= NClocks
  <2>1. longer \in Injection(1 .. n + 1, 1 .. NClocks)
    <3>1. longer \in [1 .. n + 1 -> 1 .. NClocks] /\ DOMAIN longer = 1 .. n + 1
      BY <1>1, <1>10
    <3> QED BY <1>14, <3>1 DEF Injection, IsInjective
  <2>2. /\ IsFiniteSet(1 .. NClocks) /\ Cardinality(1 .. NClocks) = NClocks
        /\ Cardinality(1 .. n + 1) = n + 1
    <3>1. IsFiniteSet(1 .. NClocks)
          /\ Cardinality(1 .. NClocks) = IF 1 > NClocks THEN 0 ELSE NClocks - 1 + 1
      BY <1>1, FS_Interval
    <3>2. Cardinality(1 .. n + 1) = IF 1 > n + 1 THEN 0 ELSE (n + 1) - 1 + 1
      BY FS_Interval
    <3>3. ~(1 > NClocks) /\ ~(1 > n + 1) /\ NClocks - 1 + 1 = NClocks /\ (n + 1) - 1 + 1 = n + 1
      BY <1>1
    <3> QED BY <3>1, <3>2, <3>3
  <2>3. Cardinality(1 .. n + 1) <= Cardinality(1 .. NClocks)
    BY <2>1, <2>2, FS_Injection
  <2> QED BY <2>2, <2>3
<1> HIDE DEF Distinct
<1> QED BY <1>5, <1>6, <1>15, <1>16

LEMMA ChainIs ==
  ASSUME ClocksAssumption, ClockType, NEW i \in Clocks
  PROVE  \E n \in 1 .. NClocks :
           /\ Chain(i) \in [1 .. n -> Clocks] /\ IsChain(Chain(i), i, n)
           /\ Len(Chain(i)) = n /\ DOMAIN Chain(i) = 1 .. n
<1> DEFINE all == UNION {[1 .. n -> Clocks] : n \in 1 .. Len(clocks)}
           Test(c) ==
             /\ c[1] = i
             /\ \A k \in 1 .. Len(c) - 1 : Follows(c[k], c[k + 1])
             /\ \A k, l \in DOMAIN c : c[k] = c[l] => k = l
             /\ LET source == clocks[c[Len(c)]].source
                IN  source.kind = "clock" => \E k \in DOMAIN c : c[k] = source.of
<1>1. NClocks \in Nat /\ Len(clocks) = NClocks
  BY ClocksAre
<1>2. ASSUME NEW n \in 1 .. NClocks, NEW c \in [1 .. n -> Clocks]
      PROVE  Len(c) = n /\ DOMAIN c = 1 .. n /\ (Test(c) <=> IsChain(c, i, n))
  <2>1. Len(c) = n /\ DOMAIN c = 1 .. n
    BY <1>1
  <2> QED BY <2>1 DEF IsChain, Walk
<1>3. \E c \in all : Test(c)
  <2>1. PICK n \in 1 .. NClocks : \E c \in [1 .. n -> Clocks] : IsChain(c, i, n)
    BY ChainExists
  <2>2. PICK c \in [1 .. n -> Clocks] : IsChain(c, i, n)
    BY <2>1
  <2>3. Test(c)
    BY <1>2, <2>2
  <2>4. c \in all
    BY <1>1, <2>2
  <2> HIDE DEF Test, all
  <2> QED BY <2>3, <2>4
<1>4. Chain(i) = CHOOSE c \in all : Test(c)
  BY DEF Chain
<1>5. Chain(i) \in all /\ Test(Chain(i))
  <2> HIDE DEF Test, all
  <2> QED BY <1>3, <1>4
<1>6. PICK n \in 1 .. NClocks : Chain(i) \in [1 .. n -> Clocks]
  BY <1>1, <1>5
<1> HIDE DEF Test
<1> QED BY <1>2, <1>5, <1>6

(***************************************************************************)
(* The evaluator.                                                          *)

LEMMA ClockInitOk == ClocksAssumption /\ ClockInit => ClockInv
<1> SUFFICES ASSUME ClocksAssumption, ClockInit PROVE ClockInv
  OBVIOUS
<1>1. ClockType
  <2>1. visiting \in Seq(1 .. NClocks) /\ NClocks \in Nat
    BY EmptySeq DEF ClockInit, ClocksAssumption
  <2>2. next \in 1 .. NClocks + 1
    BY <2>1 DEF ClockInit
  <2> QED BY <2>1, <2>2 DEF ClockInit, ClockType
<1>2. DOMAIN visiting = {} /\ Len(visiting) = 0 /\ 1 .. Len(visiting) - 1 = {}
  BY EmptySeq DEF ClockInit
<1>3. CallsNow /\ AnswerNow
  BY <1>2 DEF CallsNow, AnswerNow, ClockInit
<1>4. LoopNow /\ \A i \in 1 .. NClocks : done[i] = NoAnswer
  <2>1. \A i \in 1 .. NClocks : ~(i < next)
    BY DEF ClockInit, ClocksAssumption
  <2> QED BY <2>1 DEF LoopNow, ClockInit
<1> QED BY <1>1, <1>3, <1>4 DEF ClockInv

(* The calls under way, and the latest of them.                            *)
LEMMA CallsAre ==
  ASSUME ClocksAssumption, ClockType
  PROVE  /\ Len(visiting) \in Nat /\ DOMAIN visiting = 1 .. Len(visiting)
         /\ \A k \in 1 .. Len(visiting) : visiting[k] \in Clocks
         /\ visiting # <<>> => Len(visiting) \in 1 .. Len(visiting)
         /\ Len(visiting) = 0 <=> visiting = <<>>
<1>1. visiting \in Seq(1 .. NClocks)
  BY DEF ClockType
<1>2. Len(visiting) \in Nat /\ DOMAIN visiting = 1 .. Len(visiting)
  BY <1>1
<1>3. \A k \in 1 .. Len(visiting) : visiting[k] \in 1 .. NClocks
  BY <1>1, ElementOfSeq
<1>4. Len(visiting) = 0 <=> visiting = <<>>
  BY <1>1, EmptySeq
<1>5. Clocks = 1 .. NClocks
  BY ClocksAre
<1> QED BY <1>2, <1>3, <1>4, <1>5

(* The clocks of a description stay as they are.                           *)
LEMMA WalksStay ==
  ASSUME clocks' = clocks
  PROVE  /\ Clocks' = Clocks
         /\ \A i, n : (Rooted(i, n)' <=> Rooted(i, n)) /\ (OffAt(i, n)' <=> OffAt(i, n))
         /\ \A i : Looped(i)' <=> Looped(i)
<1>1. Clocks' = Clocks
  BY DEF Clocks
<1>2. \A i, j : Follows(i, j)' <=> Follows(i, j)
  BY DEF Follows
<1>3. \A w, n : Walk(w, n)' <=> Walk(w, n)
  BY <1>1, <1>2 DEF Walk
<1>4. \A i, n : /\ Rooted(i, n)' <=> Rooted(i, n)
                /\ OffAt(i, n)' <=> OffAt(i, n)
                /\ LoopOf(i, n)' <=> LoopOf(i, n)
  BY <1>1, <1>3 DEF Rooted, OffAt, LoopOf, SwitchedOff
<1>5. \A i : Looped(i)' <=> Looped(i)
  BY <1>4 DEF Looped
<1> QED BY <1>1, <1>4, <1>5

LEMMA DoneStays ==
  ASSUME UNCHANGED <<clocks, done>>
  PROVE  \A i \in 1 .. NClocks : (Settled(i)' <=> Settled(i)) /\ (Reasons(i)' <=> Reasons(i))
BY WalksStay DEF Settled, Reasons

(* A call of a clock that is not among those under way.                    *)
LEMMA CallOk ==
  ASSUME ClocksAssumption, ClockInv, NEW index \in Clocks, done[index] = NoAnswer,
         \A k \in DOMAIN visiting : visiting[k] # index,
         visiting # <<>> => Follows(visiting[Len(visiting)], index),
         visiting' = Append(visiting, index), answer = NoAnswer,
         UNCHANGED <<clocks, done, answer>>,
         next' \in 1 .. NClocks + 1,
         \A i \in 1 .. NClocks : i < next' => i < next \/ i = index
  PROVE  ClockInv'
<1>1. PICK n \in Nat : n = Len(visiting) /\ DOMAIN visiting = 1 .. n
  BY CallsAre DEF ClockInv
<1>2. /\ ClockType /\ CallsNow /\ LoopNow /\ Clocks = 1 .. NClocks
      /\ visiting \in Seq(1 .. NClocks) /\ index \in 1 .. NClocks
      /\ visiting # <<>> <=> n # 0
  BY <1>1, ClocksAre, CallsAre DEF ClockInv, ClockType
<1>3. /\ visiting' \in Seq(1 .. NClocks) /\ Len(visiting') = n + 1
      /\ \A k \in 1 .. n : visiting'[k] = visiting[k]
      /\ visiting'[n + 1] = index
  BY <1>1, <1>2, AppendProperties
<1>4. DOMAIN visiting' = 1 .. n + 1
  BY <1>3
<1>5. \A k \in 1 .. n + 1 : k \in 1 .. n \/ k = n + 1
  OBVIOUS
<1>6. ClockType'
  BY <1>2, <1>3 DEF ClockType
<1>7. \A i, j : Follows(i, j)' <=> Follows(i, j)
  BY DEF Follows
<1>8. CallsNow'
  <2>1. \A k, l \in DOMAIN visiting' : visiting'[k] = visiting'[l] => k = l
    BY <1>1, <1>2, <1>3, <1>4, <1>5 DEF CallsNow
  <2>2. ASSUME NEW k \in 1 .. Len(visiting') - 1 PROVE Follows(visiting'[k], visiting'[k + 1])
    <3>1. k \in 1 .. n
      BY <1>3, <2>2
    <3>2. CASE k = n
      <4>1. visiting # <<>>
        BY <1>2, <3>1, <3>2
      <4> QED BY <1>1, <1>3, <3>1, <3>2, <4>1
    <3>3. CASE k # n
      <4>1. k \in 1 .. n - 1 /\ k + 1 \in 1 .. n
        BY <3>1, <3>3
      <4> QED BY <1>1, <1>2, <1>3, <3>1, <4>1 DEF CallsNow
    <3> QED BY <3>2, <3>3
  <2>3. \A k \in DOMAIN visiting' : done[visiting'[k]] = NoAnswer
    BY <1>1, <1>2, <1>3, <1>4, <1>5 DEF CallsNow
  <2> QED BY <1>7, <2>1, <2>2, <2>3 DEF CallsNow
<1>9. AnswerNow'
  BY DEF AnswerNow
<1>10. LoopNow'
  <2> SUFFICES ASSUME NEW i \in 1 .. NClocks, i < next', done[i] = NoAnswer
               PROVE  \E k \in DOMAIN visiting' : visiting'[k] = i
    BY DEF LoopNow
  <2>1. CASE i = index
    <3>1. n + 1 \in DOMAIN visiting'
      BY <1>4
    <3> QED BY <1>3, <2>1, <3>1
  <2>2. CASE i # index
    <3>1. PICK k \in DOMAIN visiting : visiting[k] = i
      BY <1>2, <2>2 DEF LoopNow
    <3>2. k \in 1 .. n /\ k \in 1 .. n + 1
      BY <1>1, <3>1
    <3> QED BY <1>3, <1>4, <3>1, <3>2
  <2> QED BY <2>1, <2>2
<1> QED BY <1>6, <1>8, <1>9, <1>10, DoneStays DEF ClockInv

LEMMA EvaluateNextOk ==
  ASSUME ClocksAssumption, ClockInv, EvaluateNext
  PROVE  ClockInv'
<1>1. /\ visiting = <<>> /\ next \in 1 .. NClocks + 1 /\ next <= NClocks /\ next' = next + 1
      /\ answer = NoAnswer /\ UNCHANGED <<clocks, done, answer>> /\ NClocks \in Nat
      /\ visiting' = IF done[next] = NoAnswer THEN <<next>> ELSE <<>>
  <2>1. Len(clocks) = NClocks /\ NClocks \in Nat
    BY ClocksAre DEF ClockInv
  <2>2. answer = NoAnswer
    BY DEF ClockInv, AnswerNow, EvaluateNext
  <2> QED BY <2>1, <2>2 DEF ClockInv, ClockType, EvaluateNext
<1>2. next \in Clocks /\ next' \in 1 .. NClocks + 1
      /\ \A i \in 1 .. NClocks : i < next' => i < next \/ i = next
  <2>1. Clocks = 1 .. NClocks
    BY ClocksAre DEF ClockInv
  <2> QED BY <1>1, <2>1
<1>3. DOMAIN visiting = {}
  BY <1>1, EmptySeq
<1>4. CASE done[next] = NoAnswer
  <2>1. visiting' = Append(visiting, next)
    BY <1>1, <1>4
  <2> QED BY <1>1, <1>2, <1>3, <1>4, <2>1, CallOk
<1>5. CASE done[next] # NoAnswer
  <2>1. visiting' = visiting
    BY <1>1, <1>5
  <2>2. ClockType'
    BY <1>1, <1>2, <2>1 DEF ClockInv, ClockType
  <2>3. CallsNow' /\ AnswerNow'
    BY <1>1, <2>1 DEF ClockInv, CallsNow, AnswerNow, Follows
  <2>4. LoopNow'
    BY <1>1, <1>2, <1>5, <2>1 DEF ClockInv, LoopNow
  <2> QED BY <1>1, <2>2, <2>3, <2>4, DoneStays DEF ClockInv
<1> QED BY <1>4, <1>5

LEMMA EvaluateSourceOk ==
  ASSUME ClocksAssumption, ClockInv, EvaluateSource
  PROVE  ClockInv'
<1> DEFINE top == visiting[Len(visiting)]
           of == clocks[top].source.of
<1>1. /\ visiting # <<>> /\ answer = NoAnswer /\ UNCHANGED <<clocks, next, done>>
      /\ clocks[top].source.kind = "clock" /\ Evaluate(of)
  BY DEF EvaluateSource
<1>2. top \in Clocks /\ of \in Clocks
  BY <1>1, CallsAre, ClocksAre DEF ClockInv
<1>3. Clocks = 1 .. NClocks /\ ClockType /\ CallsNow /\ LoopNow
  BY ClocksAre DEF ClockInv
<1>4. CASE visiting' = visiting /\ (answer' = NoAnswer \/ KnownState(answer')) /\ AnswerNow'
  <2>1. ClockType'
    BY <1>1, <1>3, <1>4 DEF ClockType
  <2>2. CallsNow'
    BY <1>1, <1>3, <1>4 DEF CallsNow, Follows
  <2>3. LoopNow'
    BY <1>1, <1>3, <1>4 DEF LoopNow
  <2> QED BY <1>1, <1>4, <2>1, <2>2, <2>3, DoneStays DEF ClockInv
<1>5. CASE done[of] # NoAnswer
  <2>1. answer' = done[of] /\ visiting' = visiting
    BY <1>1, <1>5 DEF Evaluate
  <2>2. answer' = NoAnswer \/ KnownState(answer')
    BY <1>2, <1>3, <2>1 DEF ClockType
  <2>3. AnswerNow'
    BY <1>1, <1>5, <2>1 DEF AnswerNow
  <2> QED BY <1>4, <2>1, <2>2, <2>3
<1>6. CASE done[of] = NoAnswer /\ \E k \in DOMAIN visiting : visiting[k] = of
  <2>1. answer' = Error /\ visiting' = visiting
    BY <1>1, <1>6 DEF Evaluate
  <2>2. KnownState(answer')
    BY <2>1 DEF KnownState
  <2>3. AnswerNow'
    BY <1>1, <1>6, <2>1 DEF AnswerNow
  <2> QED BY <1>4, <2>1, <2>2, <2>3
<1>7. CASE done[of] = NoAnswer /\ ~\E k \in DOMAIN visiting : visiting[k] = of
  <2>1. visiting' = Append(visiting, of) /\ answer' = answer
    BY <1>1, <1>7 DEF Evaluate
  <2>2. Follows(top, of)
    BY <1>1 DEF Follows
  <2>3. next' \in 1 .. NClocks + 1 /\ \A i \in 1 .. NClocks : i < next' => i < next \/ i = of
    BY <1>1, <1>3 DEF ClockType
  <2> HIDE DEF of
  <2> QED BY <1>1, <1>2, <1>7, <2>1, <2>2, <2>3, CallOk
<1> QED BY <1>5, <1>6, <1>7

(* The latest call, when the clock it runs from is among those under way,  *)
(* is of a clock on a loop.                                                *)
LEMMA LoopIsClosed ==
  ASSUME NEW n \in Nat, n > 0, NEW v \in [1 .. n -> Clocks],
         \A k \in 1 .. n - 1 : Follows(v[k], v[k + 1]),
         NEW l \in 1 .. n, Follows(v[n], v[l])
  PROVE  Looped(v[n])
<1> DEFINE size == n - l + 2
           w == [k \in 1 .. size |-> IF k = 1 THEN v[n] ELSE v[l + k - 2]]
<1>1. size \in Nat /\ size > 1
  OBVIOUS
<1>2. ASSUME NEW k \in 1 .. size, k # 1 PROVE l + k - 2 \in 1 .. n /\ w[k] = v[l + k - 2]
  BY <1>2
<1>3. w[1] = v[n] /\ w[size] = v[n]
  <2>1. 1 \in 1 .. size /\ size \in 1 .. size /\ size # 1 /\ l + size - 2 = n
    BY <1>1
  <2> QED BY <2>1
<1>4. w \in [1 .. size -> Clocks]
  <2>1. n \in 1 .. n
    OBVIOUS
  <2>2. ASSUME NEW k \in 1 .. size PROVE w[k] \in Clocks
    <3>1. CASE k = 1
      BY <1>3, <2>1, <3>1
    <3>2. CASE k # 1
      BY <1>2, <3>2
    <3> QED BY <3>1, <3>2
  <2>3. w = [k \in 1 .. size |-> w[k]]
    OBVIOUS
  <2> HIDE DEF w, size
  <2> QED BY <2>2, <2>3
<1>5. ASSUME NEW k \in 1 .. size - 1 PROVE Follows(w[k], w[k + 1])
  <2>1. k + 1 \in 1 .. size /\ k + 1 # 1 /\ l + (k + 1) - 2 = l + k - 1
    BY <1>1
  <2>2. w[k + 1] = v[l + k - 1]
    BY <1>2, <2>1
  <2>3. CASE k = 1
    <3>1. l + k - 1 = l
      BY <2>3
    <3> HIDE DEF w, size
    <3> QED BY <1>3, <2>2, <2>3, <3>1
  <2>4. CASE k # 1
    <3>1. k \in 1 .. size /\ l + k - 2 \in 1 .. n - 1 /\ (l + k - 2) + 1 = l + k - 1
      BY <2>4
    <3>2. w[k] = v[l + k - 2]
      BY <1>2, <2>4, <3>1
    <3> HIDE DEF w, size
    <3> QED BY <2>2, <3>1, <3>2
  <2> QED BY <2>3, <2>4
<1> HIDE DEF w, size
<1>6. LoopOf(v[n], size)
  BY <1>3, <1>4, <1>5 DEF LoopOf, Walk
<1> QED BY <1>1, <1>6 DEF Looped

(* What a clock is derived from when its call returns.                     *)
LEMMA SourceKnown ==
  ASSUME ClocksAssumption, ClockInv, visiting # <<>>, NEW index, index = visiting[Len(visiting)],
         clocks[index].source.kind = "clock" => answer # NoAnswer
  PROVE  LET source == clocks[index].source IN
         /\ index \in Clocks /\ done[index] = NoAnswer
         /\ KnownState(SourceState(source))
         /\ source.kind # "clock" =>
              /\ SourceState(source) = OwnSource(source) /\ SourceState(source) # Off
              /\ SourceState(source).state = "hz" => Rooted(index, 1)
         /\ source.kind = "clock" =>
              /\ source.of \in Clocks
              /\ \/ /\ done[source.of] # NoAnswer /\ KnownState(done[source.of])
                    /\ SourceState(source) = FromParent(done[source.of])
                 \/ SourceState(source) = Unknown /\ Looped(index)
<1> DEFINE source == clocks[index].source
<1>1. PICK n \in Nat : n = Len(visiting) /\ DOMAIN visiting = 1 .. n
  BY CallsAre DEF ClockInv
<1>2. /\ n \in 1 .. n /\ n > 0 /\ index \in Clocks
      /\ \A k \in 1 .. n : visiting[k] \in Clocks
  <2>1. Len(visiting) \in 1 .. Len(visiting)
    BY CallsAre DEF ClockInv
  <2>2. \A k \in 1 .. Len(visiting) : visiting[k] \in Clocks
    BY CallsAre DEF ClockInv
  <2>3. n \in 1 .. n /\ \A k \in 1 .. n : visiting[k] \in Clocks
    BY <1>1, <2>1, <2>2
  <2> QED BY <1>1, <2>3
<1>3. done[index] = NoAnswer
  BY <1>1, <1>2 DEF ClockInv, CallsNow
<1>4. CASE source.kind # "clock"
  <2>1. SourceState(source) = OwnSource(source)
    BY <1>4 DEF SourceState, OwnSource
  <2>2. KnownState(OwnSource(source)) /\ OwnSource(source) # Off
    BY StatesDiffer DEF OwnSource, KnownState
  <2>3. Rooted(index, 1)
    <3> DEFINE w == [k \in 1 .. 1 |-> index]
    <3>1. w \in [1 .. 1 -> Clocks] /\ w[1] = index /\ Walk(w, 1)
      BY <1>2 DEF Walk
    <3> HIDE DEF w
    <3> QED BY <1>4, <3>1 DEF Rooted
  <2> QED BY <1>2, <1>3, <1>4, <2>1, <2>2, <2>3
<1>5. CASE source.kind = "clock"
  <2>1. answer # NoAnswer /\ KnownState(answer) /\ source.of \in Clocks
    BY <1>2, <1>5, ClocksAre DEF ClockInv, ClockType
  <2>2. SourceState(source) = FromParent(answer) /\ KnownState(FromParent(answer))
    BY <1>5, <2>1, TakenOver DEF SourceState
  <2>3. CASE done[source.of] # NoAnswer /\ answer = done[source.of]
    BY <1>2, <1>3, <1>5, <2>1, <2>2, <2>3
  <2>4. CASE answer = Error /\ \E k \in DOMAIN visiting : visiting[k] = source.of
    <3>1. SourceState(source) = Unknown
      BY <2>2, <2>4, StatesDiffer DEF FromParent
    <3>2. PICK l \in 1 .. n : visiting[l] = source.of
      BY <1>1, <2>4
    <3>3. Follows(visiting[n], visiting[l])
      BY <1>1, <1>5, <3>2 DEF Follows
    <3>4. visiting \in [1 .. n -> Clocks]
      <4>1. visiting = [k \in 1 .. n |-> visiting[k]]
        BY <1>1 DEF ClockInv, ClockType
      <4> QED BY <1>2, <4>1
    <3>5. \A k \in 1 .. n - 1 : Follows(visiting[k], visiting[k + 1])
      BY <1>1 DEF ClockInv, CallsNow
    <3>6. Looped(visiting[n])
      BY <1>2, <3>3, <3>4, <3>5, LoopIsClosed
    <3> QED BY <1>1, <1>2, <1>3, <1>5, <2>1, <2>2, <3>1, <3>6
  <2>5. \/ done[source.of] # NoAnswer /\ answer = done[source.of]
        \/ answer = Error /\ \E k \in DOMAIN visiting : visiting[k] = source.of
    BY <2>1 DEF ClockInv, AnswerNow
  <2> QED BY <2>3, <2>4, <2>5
<1> QED BY <1>4, <1>5

LEMMA EvaluateReturnsOk ==
  ASSUME ClocksAssumption, ClockInv, EvaluateReturns
  PROVE  ClockInv'
<1> DEFINE index == visiting[Len(visiting)]
           clock == clocks[index]
           source == SourceState(clock.source)
           state == Derive(clock.gates, source)
<1>1. PICK n \in Nat : n = Len(visiting) /\ DOMAIN visiting = 1 .. n
  BY CallsAre DEF ClockInv
<1>2. /\ visiting # <<>> /\ (clock.source.kind = "clock" => answer # NoAnswer)
      /\ done' = [done EXCEPT ![index] = state]
      /\ answer' = IF n = 1 THEN NoAnswer ELSE state
      /\ visiting' = SubSeq(visiting, 1, n - 1) /\ UNCHANGED <<clocks, next>>
  BY <1>1 DEF EvaluateReturns
<1>3. /\ n \in 1 .. n /\ n > 0 /\ index = visiting[n]
      /\ \A k \in 1 .. n : visiting[k] \in Clocks
  <2>1. Len(visiting) \in 1 .. Len(visiting)
    BY <1>2, CallsAre DEF ClockInv
  <2>2. \A k \in 1 .. Len(visiting) : visiting[k] \in Clocks
    BY CallsAre DEF ClockInv
  <2>3. n \in 1 .. n /\ \A k \in 1 .. n : visiting[k] \in Clocks
    BY <1>1, <2>1, <2>2
  <2> QED BY <1>1, <2>3
<1>4. /\ ClockType /\ CallsNow /\ AnswerNow /\ LoopNow /\ Clocks = 1 .. NClocks
      /\ \A i \in 1 .. NClocks : done[i] # NoAnswer => Settled(i) /\ Reasons(i)
  BY ClocksAre DEF ClockInv
<1>5. /\ index \in Clocks /\ done[index] = NoAnswer
      /\ KnownState(source)
      /\ clock.source.kind # "clock" =>
           /\ source = OwnSource(clock.source) /\ source # Off
           /\ source.state = "hz" => Rooted(index, 1)
      /\ clock.source.kind = "clock" =>
           /\ clock.source.of \in Clocks
           /\ \/ /\ done[clock.source.of] # NoAnswer /\ KnownState(done[clock.source.of])
                 /\ source = FromParent(done[clock.source.of])
              \/ source = Unknown /\ Looped(index)
  BY <1>2, SourceKnown
<1> HIDE DEF source
<1>6. /\ KnownState(state) /\ state # NoAnswer
      /\ state.state = "hz" => source.state = "hz"
      /\ state.state = "off" => SwitchedOff(index) \/ source = Off
  <2>1. /\ KnownState(state) /\ state # NoAnswer
        /\ state.state = "hz" => source.state = "hz"
        /\ state.state = "off" => clock.gates.enable = 0 \/ clock.gates.div = 0 \/ source = Off
    BY <1>5, DeriveSays
  <2> QED BY <2>1 DEF SwitchedOff
<1>7. /\ DOMAIN done' = 1 .. NClocks /\ done'[index] = state
      /\ \A i \in 1 .. NClocks : i # index => done'[i] = done[i]
      /\ done' = [i \in 1 .. NClocks |-> done'[i]]
  <2> HIDE DEF state, index
  <2> QED BY <1>2, <1>4, <1>5 DEF ClockType
<1> HIDE DEF state, index
<1>8. /\ visiting' \in Seq(1 .. NClocks) /\ Len(visiting') = n - 1 /\ DOMAIN visiting' = 1 .. n - 1
      /\ \A k \in 1 .. n - 1 : visiting'[k] = visiting[k]
  <2>1. visiting \in Seq(1 .. NClocks)
    BY <1>4 DEF ClockType
  <2>2. 1 \in 1 .. n + 1 /\ n - 1 \in 1 - 1 .. n
    BY <1>3
  <2>3. 1 \in 1 .. Len(visiting) + 1 /\ n - 1 \in 1 - 1 .. Len(visiting)
    BY <1>1, <2>2
  <2>4. /\ visiting' \in Seq(1 .. NClocks)
        /\ Len(visiting') = (IF 1 <= n - 1 THEN n - 1 - 1 + 1 ELSE 0)
        /\ \A k \in 1 .. n - 1 - 1 + 1 : visiting'[k] = visiting[1 + k - 1]
    BY <1>2, <2>1, <2>3, SubSeqProperties
  <2>5. Len(visiting') = n - 1
    BY <1>3, <2>4
  <2>6. ASSUME NEW k \in 1 .. n - 1 PROVE visiting'[k] = visiting[k]
    <3>1. k \in 1 .. n - 1 - 1 + 1 /\ 1 + k - 1 = k
      OBVIOUS
    <3> QED BY <2>4, <3>1
  <2> QED BY <2>4, <2>5, <2>6
<1>9. \A k \in 1 .. n - 1 : k \in 1 .. n /\ visiting[k] # index /\ visiting[k] \in 1 .. NClocks
  <2> SUFFICES ASSUME NEW k \in 1 .. n - 1
               PROVE  k \in 1 .. n /\ visiting[k] # index /\ visiting[k] \in 1 .. NClocks
    OBVIOUS
  <2>1. k \in 1 .. n /\ k # n
    OBVIOUS
  <2> QED BY <1>1, <1>3, <1>4, <2>1 DEF CallsNow
<1>10. ClockType'
  <2>1. \A i \in 1 .. NClocks : done'[i] = NoAnswer \/ KnownState(done'[i])
    BY <1>4, <1>6, <1>7 DEF ClockType
  <2>2. answer' = NoAnswer \/ KnownState(answer')
    BY <1>2, <1>6
  <2> QED BY <1>2, <1>4, <1>7, <1>8, <2>1, <2>2 DEF ClockType, KnownState
<1>11. CallsNow'
  <2>1. \A k, l \in DOMAIN visiting' : visiting'[k] = visiting'[l] => k = l
    BY <1>1, <1>4, <1>8, <1>9 DEF CallsNow
  <2>2. ASSUME NEW k \in 1 .. Len(visiting') - 1 PROVE Follows(visiting'[k], visiting'[k + 1])
    <3>1. k \in 1 .. n - 1 /\ k + 1 \in 1 .. n - 1
      BY <1>8, <2>2
    <3> QED BY <1>1, <1>4, <1>8, <3>1 DEF CallsNow
  <2>3. \A k \in DOMAIN visiting' : done'[visiting'[k]] = NoAnswer
    BY <1>1, <1>4, <1>7, <1>8, <1>9 DEF CallsNow
  <2>4. \A i, j : Follows(i, j)' <=> Follows(i, j)
    BY <1>2 DEF Follows
  <2> QED BY <2>1, <2>2, <2>3, <2>4 DEF CallsNow
<1>12. AnswerNow'
  <2> SUFFICES ASSUME n # 1
               PROVE  /\ visiting' # <<>>
                      /\ LET caller == clocks[visiting'[Len(visiting')]].source
                         IN  /\ caller.kind = "clock"
                             /\ done'[caller.of] # NoAnswer /\ answer' = done'[caller.of]
    BY <1>2 DEF AnswerNow
  <2>1. n - 1 \in 1 .. n - 1 /\ (n - 1) + 1 = n /\ n - 1 # 0
    BY <1>3
  <2>2. visiting' # <<>>
    BY <1>8, <2>1, EmptySeq
  <2>3. visiting'[Len(visiting')] = visiting[n - 1]
    BY <1>8, <2>1
  <2>4. Follows(visiting[n - 1], index)
    BY <1>1, <1>3, <1>4, <2>1 DEF CallsNow
  <2> QED BY <1>2, <1>6, <1>7, <2>2, <2>3, <2>4 DEF Follows
<1>13. LoopNow'
  <2> SUFFICES ASSUME NEW i \in 1 .. NClocks, i < next, done'[i] = NoAnswer
               PROVE  \E k \in DOMAIN visiting' : visiting'[k] = i
    BY <1>2 DEF LoopNow
  <2>1. i # index /\ done[i] = NoAnswer
    BY <1>6, <1>7
  <2>2. PICK k \in 1 .. n : visiting[k] = i
    BY <1>1, <1>4, <2>1 DEF LoopNow
  <2>3. k # n
    BY <1>3, <2>1, <2>2
  <2>4. k \in 1 .. n - 1
    BY <2>3
  <2> QED BY <1>8, <2>2, <2>4
<1>14. ASSUME NEW i \in 1 .. NClocks, i # index, done'[i] # NoAnswer
       PROVE  Settled(i)' /\ Reasons(i)'
  <2>1. done'[i] = done[i] /\ Settled(i) /\ Reasons(i)
    BY <1>4, <1>7, <1>14
  <2>2. ASSUME clocks[i].source.kind = "clock", done[clocks[i].source.of] # NoAnswer
        PROVE  done'[clocks[i].source.of] = done[clocks[i].source.of]
    <3>1. clocks[i].source.of \in 1 .. NClocks
      BY <1>4, <2>2, ClocksAre
    <3>2. clocks[i].source.of # index
      BY <1>5, <2>2
    <3> QED BY <1>7, <3>1, <3>2
  <2>3. Settled(i)'
    BY <1>2, <2>1, <2>2, WalksStay DEF Settled
  <2>4. Reasons(i)'
    BY <1>2, <2>1, WalksStay DEF Reasons
  <2> QED BY <2>3, <2>4
<1>15. ASSUME NEW i \in 1 .. NClocks, i = index PROVE Settled(i)'
  <2>1. /\ clocks' = clocks /\ done'[i] = Derive(clocks[i].gates, source)
        /\ clock = clocks[i] /\ i \in Clocks
    BY <1>2, <1>5, <1>7, <1>15 DEF state
  <2> HIDE DEF index, clock
  <2>2. CASE clocks[i].source.kind # "clock"
    <3>1. source = OwnSource(clocks[i].source)
      BY <1>5, <2>1, <2>2
    <3> QED BY <2>1, <2>2, <3>1 DEF Settled
  <2>3. CASE clocks[i].source.kind = "clock"
    <3>1. \/ /\ done[clocks[i].source.of] # NoAnswer /\ clocks[i].source.of \in Clocks
             /\ source = FromParent(done[clocks[i].source.of])
          \/ source = Unknown /\ Looped(i)
      BY <1>5, <1>15, <2>1, <2>3
    <3>2. CASE source = Unknown /\ Looped(i)
      <4>1. Looped(i)'
        BY <2>1, <3>2, WalksStay
      <4> QED BY <2>1, <2>3, <3>2, <4>1 DEF Settled
    <3>3. CASE /\ done[clocks[i].source.of] # NoAnswer /\ clocks[i].source.of \in Clocks
               /\ source = FromParent(done[clocks[i].source.of])
      <4>1. clocks[i].source.of \in 1 .. NClocks /\ clocks[i].source.of # index
        BY <1>4, <1>5, <3>3
      <4>2. done'[clocks[i].source.of] = done[clocks[i].source.of]
        BY <1>7, <4>1
      <4> QED BY <2>1, <2>3, <3>3, <4>2 DEF Settled
    <3> QED BY <3>1, <3>2, <3>3
  <2> QED BY <2>2, <2>3
<1>16. /\ state.state = "hz" => \E k \in Nat : k > 0 /\ Rooted(index, k)
       /\ state.state = "off" => \E k \in Nat : k > 0 /\ OffAt(index, k)
  <2>1. ASSUME clock.source.kind = "clock" PROVE Follows(index, clock.source.of)
    BY <2>1 DEF Follows
  <2>2. ASSUME state.state = "hz" PROVE \E k \in Nat : k > 0 /\ Rooted(index, k)
    <3>1. source.state = "hz"
      BY <1>6, <2>2
    <3>2. CASE clock.source.kind # "clock"
      BY <1>5, <3>1, <3>2
    <3>3. CASE clock.source.kind = "clock"
      <4>1. source # Unknown
        BY <3>1, StatesDiffer
      <4>2. /\ clock.source.of \in Clocks /\ done[clock.source.of] # NoAnswer
            /\ KnownState(done[clock.source.of]) /\ source = FromParent(done[clock.source.of])
        BY <1>5, <3>3, <4>1
      <4>3. done[clock.source.of].state = "hz"
        BY <3>1, <4>2, TakenOver
      <4>4. PICK k \in Nat : k > 0 /\ Rooted(clock.source.of, k)
        BY <1>4, <4>2, <4>3 DEF Reasons
      <4>5. Rooted(index, k + 1)
        BY <1>5, <2>1, <3>3, <4>2, <4>4, OneFurther
      <4>6. k + 1 \in Nat /\ k + 1 > 0
        OBVIOUS
      <4> QED BY <4>5, <4>6
    <3> QED BY <3>2, <3>3
  <2>3. ASSUME state.state = "off" PROVE \E k \in Nat : k > 0 /\ OffAt(index, k)
    <3>1. CASE SwitchedOff(index)
      <4> DEFINE w == [k \in 1 .. 1 |-> index]
      <4>1. w \in [1 .. 1 -> Clocks] /\ w[1] = index /\ Walk(w, 1)
        BY <1>5 DEF Walk
      <4> HIDE DEF w
      <4>2. OffAt(index, 1)
        BY <3>1, <4>1 DEF OffAt
      <4> QED BY <4>2
    <3>2. CASE source = Off
      <4>1. clock.source.kind = "clock" /\ source # Unknown
        BY <1>5, <3>2, StatesDiffer
      <4>2. /\ clock.source.of \in Clocks /\ done[clock.source.of] # NoAnswer
            /\ KnownState(done[clock.source.of]) /\ source = FromParent(done[clock.source.of])
        BY <1>5, <4>1
      <4>3. done[clock.source.of].state = "off"
        BY <3>2, <4>2, TakenOver, StatesDiffer
      <4>4. PICK k \in Nat : k > 0 /\ OffAt(clock.source.of, k)
        BY <1>4, <4>2, <4>3 DEF Reasons
      <4>5. OffAt(index, k + 1)
        BY <1>5, <2>1, <4>1, <4>2, <4>4, OneFurther
      <4>6. k + 1 \in Nat /\ k + 1 > 0
        OBVIOUS
      <4> QED BY <4>5, <4>6
    <3> QED BY <1>6, <2>3, <3>1, <3>2
  <2> QED BY <2>2, <2>3
<1>17. ASSUME NEW i \in 1 .. NClocks, i = index PROVE Reasons(i)'
  <2>1. done'[i] = state
    BY <1>7, <1>17
  <2> HIDE DEF index, clock, state
  <2>2. /\ state.state = "hz" => \E k \in Nat : k > 0 /\ Rooted(i, k)
        /\ state.state = "off" => \E k \in Nat : k > 0 /\ OffAt(i, k)
    BY <1>16, <1>17
  <2>3. \A k : (Rooted(i, k)' <=> Rooted(i, k)) /\ (OffAt(i, k)' <=> OffAt(i, k))
    BY <1>2, WalksStay
  <2> QED BY <2>1, <2>2, <2>3 DEF Reasons
<1>18. \A i \in 1 .. NClocks : done'[i] # NoAnswer => Settled(i)' /\ Reasons(i)'
  BY <1>14, <1>15, <1>17
<1> QED BY <1>2, <1>10, <1>11, <1>12, <1>13, <1>18 DEF ClockInv

LEMMA ClockStepOk == ClocksAssumption /\ ClockInv /\ [ClockNext]_clockVars => ClockInv'
<1> SUFFICES ASSUME ClocksAssumption, ClockInv, [ClockNext]_clockVars PROVE ClockInv'
  OBVIOUS
<1>1. CASE UNCHANGED clockVars
  <2>1. UNCHANGED <<clocks, next, done, visiting, answer>>
    BY <1>1 DEF clockVars
  <2>2. ClockType' /\ CallsNow' /\ AnswerNow' /\ LoopNow'
    BY <2>1 DEF ClockInv, ClockType, CallsNow, AnswerNow, LoopNow, Follows, KnownState
  <2> QED BY <2>1, <2>2, DoneStays DEF ClockInv
<1> QED BY <1>1, EvaluateNextOk, EvaluateSourceOk, EvaluateReturnsOk DEF ClockNext

(* What holds of the last of a range and of each whose successor has it    *)
(* holds of all; and so from the first on.                                 *)
LEMMA FromTheLast ==
  ASSUME NEW n \in Nat, NEW S, n \in S, \A k \in 1 .. n - 1 : k + 1 \in S => k \in S
  PROVE  \A k \in 1 .. n : k \in S
<1> DEFINE B == {d \in Nat : d < n /\ n - d \notin S}
           d == Earliest(B)
<1> SUFFICES ASSUME NEW k \in 1 .. n, k \notin S PROVE FALSE
  OBVIOUS
<1>1. n - k \in Nat /\ n - k < n /\ n - (n - k) = k
  OBVIOUS
<1>2. n - k \in B
  BY <1>1
<1>3. d \in B /\ \A e \in B : d <= e
  <2>1. B \in SUBSET Nat /\ B # {}
    BY <1>2
  <2> HIDE DEF B
  <2> QED BY <2>1, EarliestIsIn
<1> HIDE DEF d
<1>4. d \in Nat /\ d < n /\ n - d \notin S
  BY <1>3
<1>5. d # 0
  BY <1>4
<1>6. /\ d - 1 \in Nat /\ d - 1 < n /\ n - (d - 1) = (n - d) + 1
      /\ n - d \in 1 .. n - 1 /\ ~(d <= d - 1)
  BY <1>4, <1>5
<1>7. (n - d) + 1 \notin S
  BY <1>4, <1>6
<1>8. d - 1 \in B
  BY <1>6, <1>7
<1> HIDE DEF B
<1> QED BY <1>3, <1>6, <1>8

LEMMA FromTheFirst ==
  ASSUME NEW n \in Nat, NEW S, 1 \in S, \A k \in 1 .. n - 1 : k \in S => k + 1 \in S
  PROVE  \A k \in 1 .. n : k \in S
<1> DEFINE B == {k \in 1 .. n : k \notin S}
           k == Earliest(B)
<1> SUFFICES ASSUME B # {} PROVE FALSE
  OBVIOUS
<1>1. k \in B /\ \A e \in B : k <= e
  <2>1. B \in SUBSET Nat
    OBVIOUS
  <2> HIDE DEF B
  <2> QED BY <2>1, EarliestIsIn
<1> HIDE DEF k
<1>2. k \in 1 .. n /\ k \notin S /\ k # 1
  BY <1>1
<1>3. k - 1 \in 1 .. n - 1 /\ (k - 1) + 1 = k /\ k - 1 \in 1 .. n /\ ~(k <= k - 1)
  BY <1>2
<1>4. k - 1 \notin S
  BY <1>2, <1>3
<1>5. k - 1 \in B
  BY <1>3, <1>4
<1> HIDE DEF B
<1> QED BY <1>1, <1>3, <1>5

(* A chain goes on, from each of its clocks that runs from another one.    *)
LEMMA ChainGoesOn ==
  ASSUME NEW n \in Nat, NEW c, NEW i, IsChain(c, i, n), NEW k \in 1 .. n,
         clocks[c[k]].source.kind = "clock"
  PROVE  \E l \in 1 .. n : Follows(c[k], c[l])
<1>1. CASE k = n
  BY <1>1 DEF IsChain, Follows
<1>2. CASE k # n
  <2>1. k \in 1 .. n - 1 /\ k + 1 \in 1 .. n
    BY <1>2
  <2> QED BY <2>1 DEF IsChain, Walk
<1> QED BY <1>1, <1>2

(* If the last clock of a chain runs from another one, no clock of the     *)
(* chain has a root: else one of those nearest to a root would not run on. *)
LEMMA ClosedIsNotRooted ==
  ASSUME NEW n \in Nat, n > 0, NEW c, NEW i, IsChain(c, i, n),
         clocks[c[n]].source.kind = "clock", NEW k \in 1 .. n, NEW m \in Nat, m > 0
  PROVE  ~Rooted(c[k], m)
<1> SUFFICES ASSUME Rooted(c[k], m) PROVE FALSE
  OBVIOUS
<1> DEFINE B == {l \in Nat : l > 0 /\ \E j \in 1 .. n : Rooted(c[j], l)}
           l == Earliest(B)
<1>1. l \in B /\ \A e \in B : l <= e
  <2>1. m \in B
    OBVIOUS
  <2>2. B \in SUBSET Nat /\ B # {}
    BY <2>1
  <2> HIDE DEF B
  <2> QED BY <2>2, EarliestIsIn
<1> HIDE DEF l
<1>2. PICK j \in 1 .. n : Rooted(c[j], l)
  BY <1>1
<1>3. clocks[c[j]].source.kind = "clock"
  <2>1. CASE j = n
    BY <2>1
  <2>2. CASE j # n
    <3>1. j \in 1 .. n - 1
      BY <2>2
    <3> QED BY <3>1 DEF IsChain, Walk, Follows
  <2> QED BY <2>1, <2>2
<1>4. PICK o \in 1 .. n : Follows(c[j], c[o])
  BY <1>3, ChainGoesOn
<1>5. c[j] \in Clocks /\ c[o] \in Clocks
  BY DEF IsChain, Walk
<1>6. l \in Nat /\ l > 0
  BY <1>1
<1>7. l > 1 /\ Rooted(c[o], l - 1)
  BY <1>2, <1>4, <1>5, <1>6, OneNearer
<1>8. l - 1 \in Nat /\ l - 1 > 0 /\ ~(l <= l - 1)
  BY <1>6, <1>7
<1>9. l - 1 \in B
  BY <1>7, <1>8
<1> HIDE DEF B
<1> QED BY <1>1, <1>8, <1>9

(* If the last one does not, each clock of the chain has a root.           *)
LEMMA OpenIsRooted ==
  ASSUME NEW n \in Nat, NEW c, NEW i, IsChain(c, i, n),
         clocks[c[n]].source.kind # "clock", NEW k \in 1 .. n
  PROVE  Rooted(c[k], n - k + 1)
<1> DEFINE size == n - k + 1
           w == [j \in 1 .. size |-> c[k + j - 1]]
<1>1. size \in Nat /\ 1 \in 1 .. size /\ size \in 1 .. size /\ k + size - 1 = n /\ k + 1 - 1 = k
  OBVIOUS
<1>2. ASSUME NEW j \in 1 .. size PROVE k + j - 1 \in 1 .. n
  OBVIOUS
<1>3. w \in [1 .. size -> Clocks]
  BY <1>2 DEF IsChain, Walk
<1>4. ASSUME NEW j \in 1 .. size - 1 PROVE Follows(w[j], w[j + 1])
  <2>1. j \in 1 .. size /\ j + 1 \in 1 .. size /\ k + j - 1 \in 1 .. n - 1
        /\ k + (j + 1) - 1 = (k + j - 1) + 1
    OBVIOUS
  <2>2. Follows(c[k + j - 1], c[(k + j - 1) + 1])
    BY <2>1 DEF IsChain, Walk
  <2> QED BY <2>1, <2>2
<1>5. w[1] = c[k] /\ w[size] = c[n]
  BY <1>1
<1>6. Walk(w, size)
  <2> HIDE DEF w, size
  <2> QED BY <1>3, <1>4 DEF Walk
<1> HIDE DEF w
<1> QED BY <1>3, <1>5, <1>6 DEF Rooted

(* A walk to a clock that is switched off does not leave the chain.        *)
LEMMA OffOnChain ==
  ASSUME NEW n \in Nat, n > 0, NEW c, NEW i, IsChain(c, i, n), NEW m \in Nat, m > 0, OffAt(i, m)
  PROVE  \E k \in 1 .. n : SwitchedOff(c[k])
<1> SUFFICES ASSUME \A k \in 1 .. n : ~SwitchedOff(c[k]) PROVE FALSE
  OBVIOUS
<1> DEFINE B == {l \in Nat : l > 0 /\ \E j \in 1 .. n : OffAt(c[j], l)}
           l == Earliest(B)
<1>1. l \in B /\ \A e \in B : l <= e
  <2>1. 1 \in 1 .. n /\ c[1] = i
    BY DEF IsChain
  <2>2. m \in B
    BY <2>1
  <2>3. B \in SUBSET Nat /\ B # {}
    BY <2>2
  <2> HIDE DEF B
  <2> QED BY <2>3, EarliestIsIn
<1> HIDE DEF l
<1>2. PICK j \in 1 .. n : OffAt(c[j], l)
  BY <1>1
<1>3. l \in Nat /\ l > 0
  BY <1>1
<1>4. clocks[c[j]].source.kind = "clock"
  <2>1. PICK w \in [1 .. l -> Clocks] : Walk(w, l) /\ w[1] = c[j] /\ SwitchedOff(w[l])
    BY <1>2 DEF OffAt
  <2>2. l # 1
    BY <2>1
  <2>3. 1 \in 1 .. l - 1
    BY <1>3, <2>2
  <2> QED BY <2>1, <2>3 DEF Walk, Follows
<1>5. PICK o \in 1 .. n : Follows(c[j], c[o])
  BY <1>4, ChainGoesOn
<1>6. c[j] \in Clocks /\ c[o] \in Clocks
  BY DEF IsChain, Walk
<1>7. l > 1 /\ OffAt(c[o], l - 1)
  BY <1>2, <1>3, <1>5, <1>6, OneNearer
<1>8. l - 1 \in Nat /\ l - 1 > 0 /\ ~(l <= l - 1)
  BY <1>3, <1>7
<1>9. l - 1 \in B
  BY <1>7, <1>8
<1> HIDE DEF B
<1> QED BY <1>1, <1>8, <1>9

(* At the end every clock has been computed.                               *)
LEMMA AllAreDone ==
  ASSUME ClocksAssumption, ClockInv, Finished, NEW i \in Clocks
  PROVE  /\ done[i] # NoAnswer /\ KnownState(done[i]) /\ Settled(i) /\ Reasons(i)
         /\ clocks[i].source.kind = "clock" =>
              clocks[i].source.of \in Clocks /\ KnownState(done[clocks[i].source.of])
<1>1. /\ Clocks = 1 .. NClocks /\ Len(clocks) = NClocks /\ NClocks \in Nat
      /\ clocks[i].source.kind = "clock" => clocks[i].source.of \in Clocks
  BY ClocksAre DEF ClockInv
<1>2. ASSUME NEW j \in 1 .. NClocks PROVE done[j] # NoAnswer /\ KnownState(done[j])
  <2>1. j < next
    <3>1. next > NClocks /\ next \in Nat
      BY <1>1 DEF Finished, ClockInv, ClockType
    <3> QED BY <1>1, <3>1
  <2>2. DOMAIN visiting = {}
    BY DEF Finished
  <2>3. done[j] # NoAnswer
    BY <2>1, <2>2 DEF ClockInv, LoopNow
  <2> QED BY <2>3 DEF ClockInv, ClockType
<1> QED BY <1>1, <1>2 DEF ClockInv

(* The frequency of a clock that has been derived.                         *)
IsDerived(i, gates, source) ==
  /\ done[i].state = "hz" <=> source.state = "hz" /\ Running(i)
  /\ done[i].state = "hz" => done[i].hz = (source.hz * gates.mul) \div gates.div

LEMMA DerivedHz ==
  ASSUME ClocksAssumption, NEW i, NEW gates, NEW source, gates = clocks[i].gates,
         done[i] = Derive(gates, source), KnownState(source)
  PROVE  IsDerived(i, gates, source)
<1> DEFINE runs == /\ gates.enable \notin {0, Fails} /\ gates.mul # Fails
                   /\ gates.div \notin {0, Fails}
           product == (source.hz * gates.mul) \div gates.div
<1>1. PICK derived : derived = Derive(gates, source)
  OBVIOUS
<1>2. /\ derived.state = "hz" <=> source.state = "hz" /\ runs
      /\ derived.state = "hz" => derived = Hz(product)
  BY <1>1, DeriveSays
<1>3. runs <=> Running(i)
  BY DEF Running
<1> HIDE DEF runs, product
<1>4. Hz(product).hz = product
  BY DEF Hz
<1>5. done[i].state = "hz" <=> source.state = "hz" /\ Running(i)
  BY <1>1, <1>2, <1>3
<1>6. done[i].state = "hz" => done[i].hz = product
  BY <1>1, <1>2, <1>4
<1> QED BY <1>5, <1>6 DEF product, IsDerived

(* Off a loop, a clock says what follows from the clock it runs from; it   *)
(* has a frequency if that has one and it runs itself.                     *)
LEMMA OffLoop ==
  ASSUME ClocksAssumption, ClockInv, Finished, NEW i \in Clocks, NEW j \in Clocks,
         Follows(i, j), ~Looped(i)
  PROVE  /\ done[i] = Derive(clocks[i].gates, FromParent(done[j]))
         /\ done[i].state = "hz" <=> done[j].state = "hz" /\ Running(i)
         /\ done[i].state = "hz" =>
              done[i].hz = (done[j].hz * clocks[i].gates.mul) \div clocks[i].gates.div
<1>1. clocks[i].source.kind = "clock" /\ clocks[i].source.of = j
  BY DEF Follows
<1>2. PICK gates, parent : gates = clocks[i].gates /\ parent = done[j]
  OBVIOUS
<1>3. done[i] = Derive(gates, FromParent(parent)) /\ KnownState(parent)
  BY <1>1, <1>2, AllAreDone DEF Settled
<1>4. PICK source : source = FromParent(parent)
  OBVIOUS
<1>5. /\ KnownState(source)
      /\ source.state = "hz" <=> parent.state = "hz"
      /\ parent.state = "hz" => source = parent
  BY <1>3, <1>4, TakenOver
<1>6. IsDerived(i, gates, source)
  BY <1>2, <1>3, <1>4, <1>5, DerivedHz
<1>7. /\ done[i] = Derive(clocks[i].gates, FromParent(done[j]))
      /\ done[i].state = "hz" <=> done[j].state = "hz" /\ Running(i)
  BY <1>2, <1>3, <1>5, <1>6 DEF IsDerived
<1>8. ASSUME done[i].state = "hz"
      PROVE  done[i].hz = (done[j].hz * clocks[i].gates.mul) \div clocks[i].gates.div
  <2>1. source = done[j] /\ gates = clocks[i].gates
    BY <1>2, <1>5, <1>6, <1>8 DEF IsDerived
  <2> QED BY <1>6, <1>8, <2>1 DEF IsDerived
<1> QED BY <1>7, <1>8

(* A clock that runs from no other has a frequency if it is a root that    *)
(* runs.                                                                   *)
LEMMA AtRoot ==
  ASSUME ClocksAssumption, ClockInv, Finished, NEW i \in Clocks,
         clocks[i].source.kind # "clock"
  PROVE  /\ done[i].state = "hz" <=> clocks[i].source.kind = "root" /\ Running(i)
         /\ done[i].state = "hz" =>
              done[i].hz = (clocks[i].source.hz * clocks[i].gates.mul) \div clocks[i].gates.div
<1>1. PICK gates, own : gates = clocks[i].gates /\ own = clocks[i].source
  OBVIOUS
<1>2. PICK source : source = OwnSource(own)
  OBVIOUS
<1>3. done[i] = Derive(gates, source)
  BY <1>1, <1>2, AllAreDone DEF Settled
<1>4. /\ KnownState(source)
      /\ source.state = "hz" <=> own.kind = "root"
      /\ own.kind = "root" => source.hz = own.hz
  BY <1>2, StatesDiffer DEF OwnSource, KnownState
<1>5. IsDerived(i, gates, source)
  BY <1>1, <1>3, <1>4, DerivedHz
<1>6. done[i].state = "hz" <=> clocks[i].source.kind = "root" /\ Running(i)
  BY <1>1, <1>4, <1>5 DEF IsDerived
<1>7. ASSUME done[i].state = "hz"
      PROVE  done[i].hz = (clocks[i].source.hz * clocks[i].gates.mul) \div clocks[i].gates.div
  <2>1. source.hz = clocks[i].source.hz /\ gates = clocks[i].gates
    BY <1>1, <1>4, <1>5, <1>7 DEF IsDerived
  <2> QED BY <1>5, <1>7, <2>1 DEF IsDerived
<1> QED BY <1>6, <1>7

(* The frequencies along a chain, if all of its clocks have one, are those *)
(* that ChainHz computes: each is determined by the next one.              *)
LEMMA ChainHzIs ==
  ASSUME NEW n \in Nat, n > 0, NEW c \in [1 .. n -> Clocks], Len(c) = n,
         NEW h \in [1 .. n -> {done[i].hz : i \in Clocks}],
         \A k \in 1 .. n :
           h[k] = ((IF k = n THEN clocks[c[k]].source.hz ELSE h[k + 1])
                     * clocks[c[k]].gates.mul) \div clocks[c[k]].gates.div
  PROVE  ChainHz(c) = h[1]
<1> DEFINE F(f) == [k \in 1 .. Len(c) |->
                     ((IF k = Len(c) THEN clocks[c[k]].source.hz ELSE f[k + 1])
                       * clocks[c[k]].gates.mul) \div clocks[c[k]].gates.div]
           g == CHOOSE f : f = F(f)
<1>1. ChainHz(c) = g[1]
  BY DEF ChainHz
<1>2. h = F(h)
  BY Zenon
<1>3. g = F(g)
  <2> HIDE DEF F
  <2> QED BY <1>2
<1> HIDE DEF g
<1>4. \A k \in 1 .. n :
        g[k] = ((IF k = n THEN clocks[c[k]].source.hz ELSE g[k + 1])
                  * clocks[c[k]].gates.mul) \div clocks[c[k]].gates.div
  BY <1>3
<1> HIDE DEF F
<1> DEFINE S == {k \in 1 .. n : g[k] = h[k]}
<1>5. n \in S
  <2>1. n \in 1 .. n
    OBVIOUS
  <2> QED BY <1>4, <2>1
<1>6. ASSUME NEW k \in 1 .. n - 1, k + 1 \in S PROVE k \in S
  <2>1. k \in 1 .. n /\ k # n /\ g[k + 1] = h[k + 1]
    BY <1>6
  <2> DEFINE next1 == g[k + 1]
             mul == clocks[c[k]].gates.mul
             div == clocks[c[k]].gates.div
  <2>2. g[k] = (g[k + 1] * mul) \div div /\ h[k] = (h[k + 1] * mul) \div div
    BY <1>4, <2>1
  <2> QED BY <2>1, <2>2
<1> HIDE DEF S
<1>7. \A k \in 1 .. n : k \in S
  BY <1>5, <1>6, FromTheLast
<1>8. 1 \in 1 .. n
  OBVIOUS
<1> QED BY <1>1, <1>7, <1>8 DEF S

(* A clock of a chain with an end has a frequency if the next one has and  *)
(* it runs itself; the last one, if it is a root that runs.                *)
LEMMA AlongChain ==
  ASSUME ClocksAssumption, ClockInv, Finished, NEW n \in Nat, n > 0, NEW c, NEW i,
         c \in [1 .. n -> Clocks], IsChain(c, i, n), clocks[c[n]].source.kind # "clock"
  PROVE  /\ \A k \in 1 .. n - 1 :
              /\ done[c[k]] = Derive(clocks[c[k]].gates, FromParent(done[c[k + 1]]))
              /\ done[c[k]].state = "hz" <=> done[c[k + 1]].state = "hz" /\ Running(c[k])
         /\ done[c[n]].state = "hz" <=> clocks[c[n]].source.kind = "root" /\ Running(c[n])
         /\ \A k \in 1 .. n :
              done[c[k]].state = "hz" =>
                done[c[k]].hz = ((IF k = n THEN clocks[c[k]].source.hz ELSE done[c[k + 1]].hz)
                                  * clocks[c[k]].gates.mul) \div clocks[c[k]].gates.div
<1>1. ASSUME NEW k \in 1 .. n - 1
      PROVE  /\ done[c[k]] = Derive(clocks[c[k]].gates, FromParent(done[c[k + 1]]))
             /\ done[c[k]].state = "hz" <=> done[c[k + 1]].state = "hz" /\ Running(c[k])
             /\ done[c[k]].state = "hz" =>
                  done[c[k]].hz =
                    (done[c[k + 1]].hz * clocks[c[k]].gates.mul) \div clocks[c[k]].gates.div
  <2>1. /\ k \in 1 .. n /\ k + 1 \in 1 .. n /\ n - k + 1 \in Nat /\ n - k + 1 > 0
        /\ c[k] \in Clocks /\ c[k + 1] \in Clocks
    OBVIOUS
  <2>2. Follows(c[k], c[k + 1])
    BY DEF IsChain, Walk
  <2>3. ~Looped(c[k])
    <3>1. Rooted(c[k], n - k + 1)
      BY <2>1, OpenIsRooted
    <3> QED BY <2>1, <3>1, RootedIsNoLoop
  <2> QED BY <2>1, <2>2, <2>3, OffLoop
<1>2. n \in 1 .. n /\ c[n] \in Clocks
  OBVIOUS
<1>3. /\ done[c[n]].state = "hz" <=> clocks[c[n]].source.kind = "root" /\ Running(c[n])
      /\ done[c[n]].state = "hz" =>
           done[c[n]].hz =
             (clocks[c[n]].source.hz * clocks[c[n]].gates.mul) \div clocks[c[n]].gates.div
  BY <1>2, AtRoot
<1>4. ASSUME NEW k \in 1 .. n, done[c[k]].state = "hz"
      PROVE  done[c[k]].hz = ((IF k = n THEN clocks[c[k]].source.hz ELSE done[c[k + 1]].hz)
                               * clocks[c[k]].gates.mul) \div clocks[c[k]].gates.div
  <2>1. CASE k = n
    BY <1>3, <1>4, <2>1
  <2>2. CASE k # n
    <3>1. k \in 1 .. n - 1
      BY <2>2
    <3> QED BY <1>1, <1>4, <2>2, <3>1
  <2> QED BY <2>1, <2>2
<1> QED BY <1>1, <1>3, <1>4

(* A clock has a frequency exactly if its chain ends at a root and all of  *)
(* it runs: then it is the one that ChainHz computes.                      *)
LEMMA ShownHz ==
  ASSUME ClocksAssumption, ClockInv, Finished, NEW n \in Nat, n > 0, NEW c, NEW i \in Clocks,
         c \in [1 .. n -> Clocks], IsChain(c, i, n), Len(c) = n
  PROVE  /\ done[i].state = "hz" <=>
              clocks[c[n]].source.kind = "root" /\ \A k \in 1 .. n : Running(c[k])
         /\ done[i].state = "hz" => done[i].hz = ChainHz(c)
<1> DEFINE S == {k \in 1 .. n : done[c[k]].state = "hz"}
<1>1. c[1] = i /\ 1 \in 1 .. n /\ n \in 1 .. n
  BY DEF IsChain
<1>2. ASSUME done[i].state = "hz"
      PROVE  /\ clocks[c[n]].source.kind = "root" /\ \A k \in 1 .. n : Running(c[k])
             /\ done[i].hz = ChainHz(c)
  <2>1. clocks[c[n]].source.kind # "clock"
    <3>1. PICK m \in Nat : m > 0 /\ Rooted(c[1], m)
      BY <1>1, <1>2, AllAreDone DEF Reasons
    <3> QED BY <1>1, <3>1, ClosedIsNotRooted
  <2>2. \A k \in 1 .. n - 1 :
          done[c[k]].state = "hz" <=> done[c[k + 1]].state = "hz" /\ Running(c[k])
    BY <2>1, AlongChain
  <2>3. done[c[n]].state = "hz" <=> clocks[c[n]].source.kind = "root" /\ Running(c[n])
    BY <2>1, AlongChain
  <2>4. \A k \in 1 .. n : k \in S
    <3>1. 1 \in S
      BY <1>1, <1>2
    <3>2. ASSUME NEW k \in 1 .. n - 1, k \in S PROVE k + 1 \in S
      <4>1. k + 1 \in 1 .. n
        OBVIOUS
      <4> QED BY <2>2, <3>2, <4>1
    <3> HIDE DEF S
    <3> QED BY <3>1, <3>2, FromTheFirst
  <2>5. \A k \in 1 .. n : done[c[k]].state = "hz"
    BY <2>4
  <2>6. ASSUME NEW k \in 1 .. n PROVE Running(c[k])
    <3>1. CASE k = n
      BY <1>1, <2>3, <2>5, <3>1
    <3>2. CASE k # n
      <4>1. k \in 1 .. n - 1
        BY <3>2
      <4> QED BY <2>2, <2>5, <4>1
    <3> QED BY <3>1, <3>2
  <2> DEFINE h == [k \in 1 .. n |-> done[c[k]].hz]
  <2>7. h \in [1 .. n -> {done[j].hz : j \in Clocks}]
    OBVIOUS
  <2>8. ASSUME NEW k \in 1 .. n
        PROVE  h[k] = ((IF k = n THEN clocks[c[k]].source.hz ELSE h[k + 1])
                        * clocks[c[k]].gates.mul) \div clocks[c[k]].gates.div
    <3>1. done[c[k]].hz = ((IF k = n THEN clocks[c[k]].source.hz ELSE done[c[k + 1]].hz)
                            * clocks[c[k]].gates.mul) \div clocks[c[k]].gates.div
      BY <2>1, <2>5, AlongChain
    <3>2. k # n => k + 1 \in 1 .. n
      OBVIOUS
    <3>3. h[k] = done[c[k]].hz /\ (k # n => h[k + 1] = done[c[k + 1]].hz)
      BY <3>2
    <3> HIDE DEF h
    <3> QED BY <3>1, <3>3
  <2>9. h[1] = done[i].hz
    BY <1>1
  <2> HIDE DEF h
  <2>10. ChainHz(c) = h[1]
    BY <2>7, <2>8, ChainHzIs
  <2> QED BY <1>1, <2>3, <2>5, <2>6, <2>9, <2>10
<1>3. ASSUME clocks[c[n]].source.kind = "root", \A k \in 1 .. n : Running(c[k])
      PROVE  done[i].state = "hz"
  <2>1. clocks[c[n]].source.kind # "clock"
    BY <1>3
  <2>2. \A k \in 1 .. n - 1 :
          done[c[k]].state = "hz" <=> done[c[k + 1]].state = "hz" /\ Running(c[k])
    BY <2>1, AlongChain
  <2>3. n \in S
    <3>1. done[c[n]].state = "hz" <=> clocks[c[n]].source.kind = "root" /\ Running(c[n])
      BY <2>1, AlongChain
    <3> QED BY <1>1, <1>3, <3>1
  <2>4. ASSUME NEW k \in 1 .. n - 1, k + 1 \in S PROVE k \in S
    <3>1. k \in 1 .. n
      OBVIOUS
    <3> QED BY <1>3, <2>2, <2>4, <3>1
  <2>5. \A k \in 1 .. n : k \in S
    <3> HIDE DEF S
    <3> QED BY <2>3, <2>4, FromTheLast
  <2> QED BY <1>1, <2>5
<1> QED BY <1>2, <1>3

(* Off and error have their reasons.                                       *)
LEMMA ShownOff ==
  ASSUME ClocksAssumption, ClockInv, Finished, NEW n \in Nat, n > 0, NEW c, NEW i \in Clocks,
         c \in [1 .. n -> Clocks], IsChain(c, i, n), done[i].state = "off"
  PROVE  \E k \in 1 .. n : SwitchedOff(c[k])
<1>1. PICK m \in Nat : m > 0 /\ OffAt(i, m)
  BY AllAreDone DEF Reasons
<1> QED BY <1>1, OffOnChain

LEMMA ShownError ==
  ASSUME ClocksAssumption, ClockInv, Finished, NEW i \in Clocks, done[i].state = "error"
  PROVE  ExpressionFails(i)
<1>1. PICK gates, own : gates = clocks[i].gates /\ own = clocks[i].source
  OBVIOUS
<1>2. PICK source : /\ done[i] = Derive(gates, source) /\ KnownState(source)
                    /\ source = Error => own.kind = "fails"
  <2>1. CASE own.kind = "clock"
    <3>1. \/ done[i] = Derive(gates, FromParent(done[own.of]))
          \/ done[i] = Derive(gates, Unknown)
      BY <1>1, <2>1, AllAreDone DEF Settled
    <3>2. KnownState(FromParent(done[own.of])) /\ FromParent(done[own.of]) # Error
      BY <1>1, <2>1, AllAreDone, TakenOver
    <3>3. KnownState(Unknown) /\ Unknown # Error
      BY StatesDiffer DEF KnownState
    <3> QED BY <3>1, <3>2, <3>3
  <2>2. CASE own.kind # "clock"
    <3>1. done[i] = Derive(gates, OwnSource(own))
      BY <1>1, <2>2, AllAreDone DEF Settled
    <3>2. KnownState(OwnSource(own)) /\ (OwnSource(own) = Error => own.kind = "fails")
      BY StatesDiffer DEF KnownState, OwnSource
    <3> QED BY <3>1, <3>2
  <2> QED BY <2>1, <2>2
<1>3. PICK derived : derived = Derive(gates, source)
  OBVIOUS
<1>4. derived.state = "error" =>
        gates.enable = Fails \/ gates.mul = Fails \/ gates.div = Fails \/ source = Error
  BY <1>2, <1>3, DeriveSays
<1>5. gates.enable = Fails \/ gates.mul = Fails \/ gates.div = Fails \/ own.kind = "fails"
  BY <1>2, <1>3, <1>4
<1> QED BY <1>1, <1>5 DEF ExpressionFails

LEMMA ClocksAreShown == ClocksAssumption /\ ClockInv => ClocksFollowTheirSources
<1> SUFFICES ASSUME ClocksAssumption, ClockInv PROVE ClocksFollowTheirSources
  OBVIOUS
<1>1. \A k, l \in DOMAIN visiting : visiting[k] = visiting[l] => k = l
  BY DEF ClockInv, CallsNow
<1>2. ASSUME Finished, NEW i \in Clocks
      PROVE  LET chain == Chain(i)
                 source == clocks[chain[Len(chain)]].source
             IN  /\ done[i].state = "hz" <=>
                      source.kind = "root" /\ \A k \in DOMAIN chain : Running(chain[k])
                 /\ done[i].state = "hz" => done[i].hz = ChainHz(chain)
                 /\ done[i].state = "off" => \E k \in DOMAIN chain : SwitchedOff(chain[k])
                 /\ done[i].state = "error" => ExpressionFails(i)
                 /\ source.kind # "clock" /\ Len(chain) > 1 =>
                      done[i] = Derive(clocks[i].gates, FromParent(done[chain[2]]))
  <2>1. PICK n \in 1 .. NClocks :
          /\ Chain(i) \in [1 .. n -> Clocks] /\ IsChain(Chain(i), i, n)
          /\ Len(Chain(i)) = n /\ DOMAIN Chain(i) = 1 .. n
    BY ChainIs DEF ClockInv
  <2>2. PICK c : c = Chain(i)
    OBVIOUS
  <2>3. /\ c \in [1 .. n -> Clocks] /\ IsChain(c, i, n) /\ Len(c) = n /\ DOMAIN c = 1 .. n
        /\ n \in Nat /\ n > 0
    BY <2>1, <2>2 DEF ClocksAssumption
  <2>4. /\ done[i].state = "hz" <=>
             clocks[c[n]].source.kind = "root" /\ \A k \in 1 .. n : Running(c[k])
        /\ done[i].state = "hz" => done[i].hz = ChainHz(c)
    BY <1>2, <2>3, ShownHz
  <2>5. done[i].state = "off" => \E k \in 1 .. n : SwitchedOff(c[k])
    BY <1>2, <2>3, ShownOff
  <2>6. done[i].state = "error" => ExpressionFails(i)
    BY <1>2, ShownError
  <2>7. ASSUME clocks[c[n]].source.kind # "clock", n > 1
        PROVE  done[i] = Derive(clocks[i].gates, FromParent(done[c[2]]))
    <3>1. 1 \in 1 .. n - 1 /\ 1 + 1 = 2 /\ c[1] = i
      BY <2>3, <2>7 DEF IsChain
    <3>2. \A k \in 1 .. n - 1 :
            done[c[k]] = Derive(clocks[c[k]].gates, FromParent(done[c[k + 1]]))
      BY <1>2, <2>3, <2>7, AlongChain
    <3> QED BY <3>1, <3>2
  <2> QED BY <2>2, <2>3, <2>4, <2>5, <2>6, <2>7
<1> QED BY <1>1, <1>2 DEF ClocksFollowTheirSources

(* Whatever clocks a description has, however its registers wire them and  *)
(* in whatever order they come, what is shown of a clock follows from the  *)
(* clocks it runs from.  (Evaluator::evaluate, state, derive.)             *)
THEOREM ClocksFollow == ClockSpec => []ClocksFollowTheirSources
<1>1. ClockInit => ClockInv
  BY ClockInitOk, ClocksAssumption
<1>2. ClockInv /\ [ClockNext]_clockVars => ClockInv'
  BY ClockStepOk, ClocksAssumption
<1>3. ClockInv => ClocksFollowTheirSources
  BY ClocksAreShown, ClocksAssumption
<1> QED BY <1>1, <1>2, <1>3, PTL DEF ClockSpec

(***************************************************************************)
(* The choice of the flash script.                                         *)

(* What is left of a pattern from p on fits what is left of a text from t  *)
(* on.                                                                     *)
FitsFrom(pattern, text, p, t) ==
  \E cut \in [p - 1 .. Len(pattern) -> 0 .. Len(text)] :
    /\ cut[p - 1] = t - 1 /\ cut[Len(pattern)] = Len(text)
    /\ \A i \in p .. Len(pattern) :
         \/ pattern[i] = "*" /\ cut[i - 1] <= cut[i]
         \/ /\ cut[i] = cut[i - 1] + 1
            /\ pattern[i] \in {"?", text[cut[i]]}

(* At the end of the pattern, the text is at its end.                      *)
LEMMA FitsAtEnd ==
  ASSUME NEW pattern, NEW text, Len(pattern) \in Nat, Len(text) \in Nat,
         NEW t \in 1 .. Len(text) + 1
  PROVE  FitsFrom(pattern, text, Len(pattern) + 1, t) <=> t = Len(text) + 1
<1> DEFINE n == Len(pattern)
           m == Len(text)
<1>1. (n + 1) - 1 = n /\ n + 1 .. n = {} /\ n \in n .. n
  OBVIOUS
<1>2. ASSUME FitsFrom(pattern, text, n + 1, t) PROVE t = m + 1
  <2>1. PICK cut \in [(n + 1) - 1 .. n -> 0 .. m] : cut[(n + 1) - 1] = t - 1 /\ cut[n] = m
    BY <1>2 DEF FitsFrom
  <2> QED BY <1>1, <2>1
<1>3. ASSUME t = m + 1 PROVE FitsFrom(pattern, text, n + 1, t)
  <2>1. PICK cut : cut = [k \in (n + 1) - 1 .. n |-> m]
    OBVIOUS
  <2>2. cut \in [(n + 1) - 1 .. n -> 0 .. m] /\ cut[(n + 1) - 1] = t - 1 /\ cut[n] = m
    BY <1>1, <1>3, <2>1
  <2>3. \A i \in n + 1 .. n : FALSE
    BY <1>1
  <2> QED BY <2>2, <2>3 DEF FitsFrom
<1> QED BY <1>2, <1>3

(* The first of what is left takes some characters, and the rest fits.     *)
LEMMA FitsOneFurther ==
  ASSUME NEW pattern, NEW text, Len(pattern) \in Nat, Len(text) \in Nat,
         NEW p \in 1 .. Len(pattern), NEW t \in 1 .. Len(text) + 1
  PROVE  FitsFrom(pattern, text, p, t) <=>
           \E u \in 1 .. Len(text) + 1 :
             /\ \/ pattern[p] = "*" /\ t <= u
                \/ u = t + 1 /\ pattern[p] \in {"?", text[t]}
             /\ FitsFrom(pattern, text, p + 1, u)
<1> DEFINE n == Len(pattern)
           m == Len(text)
<1>1. (p + 1) - 1 = p /\ p + 1 .. n \subseteq p .. n /\ p .. n \subseteq p - 1 .. n /\ p \in p .. n
  OBVIOUS
<1>2. ASSUME FitsFrom(pattern, text, p, t)
      PROVE  \E u \in 1 .. m + 1 :
               /\ \/ pattern[p] = "*" /\ t <= u
                  \/ u = t + 1 /\ pattern[p] \in {"?", text[t]}
               /\ FitsFrom(pattern, text, p + 1, u)
  <2>1. PICK cut \in [p - 1 .. n -> 0 .. m] :
          /\ cut[p - 1] = t - 1 /\ cut[n] = m
          /\ \A i \in p .. n :
               \/ pattern[i] = "*" /\ cut[i - 1] <= cut[i]
               \/ /\ cut[i] = cut[i - 1] + 1
                  /\ pattern[i] \in {"?", text[cut[i]]}
    BY <1>2 DEF FitsFrom
  <2>2. cut[p] \in 0 .. m /\ cut[p - 1] \in 0 .. m
    BY <1>1, <2>1
  <2>3. PICK u \in 1 .. m + 1 : u = cut[p] + 1
    BY <2>2
  <2>4. PICK rest : rest = [k \in p .. n |-> cut[k]]
    OBVIOUS
  <2>5. rest \in [(p + 1) - 1 .. n -> 0 .. m]
    BY <1>1, <2>1, <2>4
  <2>6. rest[(p + 1) - 1] = u - 1 /\ rest[n] = m
    BY <1>1, <2>1, <2>3, <2>4, <2>2
  <2>7. ASSUME NEW i \in p + 1 .. n
        PROVE  \/ pattern[i] = "*" /\ rest[i - 1] <= rest[i]
               \/ /\ rest[i] = rest[i - 1] + 1
                  /\ pattern[i] \in {"?", text[rest[i]]}
    <3>1. i \in p .. n /\ i - 1 \in p .. n
      OBVIOUS
    <3>2. rest[i] = cut[i] /\ rest[i - 1] = cut[i - 1]
      BY <2>4, <3>1
    <3> QED BY <2>1, <3>1, <3>2
  <2>8. FitsFrom(pattern, text, p + 1, u)
    BY <2>5, <2>6, <2>7 DEF FitsFrom
  <2>9. \/ pattern[p] = "*" /\ cut[p - 1] <= cut[p]
        \/ /\ cut[p] = cut[p - 1] + 1
           /\ pattern[p] \in {"?", text[cut[p]]}
    BY <1>1, <2>1
  <2>10. cut[p - 1] = t - 1 /\ (cut[p] = cut[p - 1] + 1 => cut[p] = t)
    BY <2>1, <2>2
  <2>11. (cut[p - 1] <= cut[p] => t <= u) /\ (cut[p] = t => u = t + 1)
    BY <2>2, <2>3, <2>10
  <2> QED BY <2>8, <2>9, <2>10, <2>11
<1>3. ASSUME NEW u \in 1 .. m + 1,
             \/ pattern[p] = "*" /\ t <= u
             \/ u = t + 1 /\ pattern[p] \in {"?", text[t]},
             FitsFrom(pattern, text, p + 1, u)
      PROVE  FitsFrom(pattern, text, p, t)
  <2>1. PICK rest \in [(p + 1) - 1 .. n -> 0 .. m] :
          /\ rest[(p + 1) - 1] = u - 1 /\ rest[n] = m
          /\ \A i \in p + 1 .. n :
               \/ pattern[i] = "*" /\ rest[i - 1] <= rest[i]
               \/ /\ rest[i] = rest[i - 1] + 1
                  /\ pattern[i] \in {"?", text[rest[i]]}
    BY <1>3 DEF FitsFrom
  <2>2. PICK cut : cut = [k \in p - 1 .. n |-> IF k = p - 1 THEN t - 1 ELSE rest[k]]
    OBVIOUS
  <2>3. \A k \in p - 1 .. n : k # p - 1 => k \in (p + 1) - 1 .. n
    OBVIOUS
  <2>4. cut \in [p - 1 .. n -> 0 .. m]
    <3>1. t - 1 \in 0 .. m
      OBVIOUS
    <3> QED BY <2>1, <2>2, <2>3, <3>1
  <2>5. /\ p - 1 \in p - 1 .. n /\ n \in p - 1 .. n /\ n # p - 1
        /\ \A i \in p .. n : i \in p - 1 .. n /\ i # p - 1 /\ i - 1 \in p - 1 .. n
    OBVIOUS
  <2>6. cut[p - 1] = t - 1 /\ cut[n] = m
    BY <2>1, <2>2, <2>5
  <2>7. ASSUME NEW i \in p .. n
        PROVE  \/ pattern[i] = "*" /\ cut[i - 1] <= cut[i]
               \/ /\ cut[i] = cut[i - 1] + 1
                  /\ pattern[i] \in {"?", text[cut[i]]}
    <3>1. CASE i = p
      <4>1. cut[i] = rest[p] /\ rest[p] = u - 1 /\ cut[i - 1] = t - 1
        BY <1>1, <2>1, <2>2, <2>5, <3>1
      <4>2. (t <= u => t - 1 <= u - 1) /\ (u = t + 1 => u - 1 = (t - 1) + 1 /\ u - 1 = t)
        OBVIOUS
      <4> QED BY <1>3, <3>1, <4>1, <4>2
    <3>2. CASE i # p
      <4>1. i \in p + 1 .. n /\ i - 1 # p - 1
        BY <3>2
      <4>2. cut[i] = rest[i] /\ cut[i - 1] = rest[i - 1]
        BY <2>2, <2>5, <4>1
      <4> QED BY <2>1, <4>1, <4>2
    <3> QED BY <3>1, <3>2
  <2> QED BY <2>4, <2>6, <2>7 DEF FitsFrom
<1> QED BY <1>2, <1>3

(* A '*' may take any characters; another character takes one.             *)
LEMMA FitsByStar ==
  ASSUME NEW pattern, NEW text, Len(pattern) \in Nat, Len(text) \in Nat,
         \A i \in 1 .. Len(text) : text[i] # "*",
         NEW p \in 1 .. Len(pattern), NEW t \in 1 .. Len(text) + 1
  PROVE  /\ pattern[p] = "*" =>
              (FitsFrom(pattern, text, p, t) <=>
                 \E u \in 1 .. Len(text) + 1 : t <= u /\ FitsFrom(pattern, text, p + 1, u))
         /\ pattern[p] # "*" =>
              (FitsFrom(pattern, text, p, t) <=>
                 /\ t <= Len(text) /\ pattern[p] \in {"?", text[t]}
                 /\ FitsFrom(pattern, text, p + 1, t + 1))
<1>1. FitsFrom(pattern, text, p, t) <=>
        \E u \in 1 .. Len(text) + 1 :
          /\ \/ pattern[p] = "*" /\ t <= u
             \/ u = t + 1 /\ pattern[p] \in {"?", text[t]}
          /\ FitsFrom(pattern, text, p + 1, u)
  BY FitsOneFurther
<1>2. \A u \in 1 .. Len(text) + 1 :
        u = t + 1 <=> t <= Len(text) /\ u = t + 1
  OBVIOUS
<1>3. t <= Len(text) => t + 1 \in 1 .. Len(text) + 1 /\ t \in 1 .. Len(text) /\ t <= t + 1
  OBVIOUS
<1>4. CASE pattern[p] = "*"
  <2>1. pattern[p] # "?"
    BY <1>4
  <2>2. t <= Len(text) => pattern[p] # text[t]
    BY <1>3, <1>4
  <2> QED BY <1>1, <1>2, <1>4, <2>1, <2>2
<1>5. CASE pattern[p] # "*"
  BY <1>1, <1>2, <1>3, <1>5
<1> QED BY <1>4, <1>5

(* A pattern fits a text if all of it fits all of the text.                *)
LEMMA FitsAll ==
  ASSUME NEW T, NEW pattern \in Seq(T), NEW text
  PROVE  Fits(pattern, text) <=> FitsFrom(pattern, text, 1, 1)
<1>1. Len(pattern) \in Nat /\ DOMAIN pattern = 1 .. Len(pattern) /\ 1 - 1 = 0
  OBVIOUS
<1> QED BY <1>1 DEF Fits, FitsFrom

(* At the end of the text, only stars fit.                                 *)
LEMMA OnlyStarsFit ==
  ASSUME NEW T, NEW pattern \in Seq(T), NEW text, Len(text) \in Nat,
         \A i \in 1 .. Len(text) : text[i] # "*",
         NEW p \in 1 .. Len(pattern) + 1
  PROVE  FitsFrom(pattern, text, p, Len(text) + 1) <=>
           \A i \in p .. Len(pattern) : pattern[i] = "*"
<1> DEFINE m == Len(text)
           S == {k \in 1 .. Len(pattern) + 1 :
                   FitsFrom(pattern, text, k, m + 1) <=>
                     \A i \in k .. Len(pattern) : pattern[i] = "*"}
<1>1. PICK n \in Nat : n = Len(pattern)
  OBVIOUS
<1>2. n + 1 \in S
  <2>1. /\ m + 1 \in 1 .. Len(text) + 1 /\ n + 1 .. Len(pattern) = {}
        /\ n + 1 \in 1 .. Len(pattern) + 1
    BY <1>1
  <2> QED BY <1>1, <2>1, FitsAtEnd
<1>3. ASSUME NEW k \in 1 .. (n + 1) - 1, k + 1 \in S PROVE k \in S
  <2>1. /\ k \in 1 .. Len(pattern) /\ k \in 1 .. Len(pattern) + 1 /\ m + 1 \in 1 .. Len(text) + 1
        /\ k \in k .. Len(pattern) /\ k + 1 .. Len(pattern) \subseteq k .. Len(pattern)
        /\ k .. Len(pattern) = {k} \cup (k + 1 .. Len(pattern))
    BY <1>1
  <2>2. FitsFrom(pattern, text, k + 1, m + 1) <=> \A i \in k + 1 .. Len(pattern) : pattern[i] = "*"
    BY <1>3
  <2>3. (\A i \in k .. Len(pattern) : pattern[i] = "*") <=>
          pattern[k] = "*" /\ \A i \in k + 1 .. Len(pattern) : pattern[i] = "*"
    BY <2>1
  <2>4. FitsFrom(pattern, text, k, m + 1) <=>
          pattern[k] = "*" /\ FitsFrom(pattern, text, k + 1, m + 1)
    <3>1. CASE pattern[k] = "*"
      <4>1. FitsFrom(pattern, text, k, m + 1) <=>
              \E u \in 1 .. Len(text) + 1 : m + 1 <= u /\ FitsFrom(pattern, text, k + 1, u)
        BY <1>1, <2>1, <3>1, FitsByStar
      <4>2. \A u \in 1 .. Len(text) + 1 : m + 1 <= u <=> u = m + 1
        OBVIOUS
      <4> QED BY <2>1, <3>1, <4>1, <4>2
    <3>2. CASE pattern[k] # "*"
      <4>1. ~(m + 1 <= m)
        OBVIOUS
      <4> QED BY <1>1, <2>1, <3>2, <4>1, FitsByStar
    <3> QED BY <3>1, <3>2
  <2> QED BY <2>1, <2>2, <2>3, <2>4
<1>4. n + 1 \in Nat
  BY <1>1
<1> HIDE DEF S
<1>5. \A k \in 1 .. n + 1 : k \in S
  BY <1>2, <1>3, <1>4, FromTheLast
<1> QED BY <1>1, <1>5 DEF S

(* Characters that are no stars take one each.                             *)
LEMMA OthersTakeOneEach ==
  ASSUME NEW T, NEW pattern \in Seq(T), NEW text, Len(text) \in Nat,
         \A i \in 1 .. Len(text) : text[i] # "*",
         NEW p \in 1 .. Len(pattern) + 1, NEW t \in 1 .. Len(text) + 1,
         FitsFrom(pattern, text, p, t), NEW k \in Nat, p + k <= Len(pattern) + 1,
         \A i \in p .. (p + k) - 1 : pattern[i] # "*"
  PROVE  t + k <= Len(text) + 1 /\ FitsFrom(pattern, text, p + k, t + k)
<1> DEFINE m == Len(text)
           S == {j \in 1 .. k + 1 : /\ t + (j - 1) <= m + 1
                                    /\ FitsFrom(pattern, text, p + (j - 1), t + (j - 1))}
<1>1. PICK n \in Nat : n = Len(pattern)
  OBVIOUS
<1>2. 1 \in S
  <2>1. 1 \in 1 .. k + 1 /\ t + (1 - 1) = t /\ p + (1 - 1) = p /\ t <= m + 1
    BY <1>1
  <2> QED BY <2>1
<1>3. ASSUME NEW j \in 1 .. (k + 1) - 1, j \in S PROVE j + 1 \in S
  <2>1. /\ j + 1 \in 1 .. k + 1
        /\ p + (j - 1) \in 1 .. Len(pattern) /\ p + (j - 1) \in p .. (p + k) - 1
        /\ (p + (j - 1)) + 1 = p + ((j + 1) - 1) /\ (t + (j - 1)) + 1 = t + ((j + 1) - 1)
    BY <1>1
  <2>2. t + (j - 1) <= m + 1 /\ FitsFrom(pattern, text, p + (j - 1), t + (j - 1))
    BY <1>3
  <2>3. t + (j - 1) \in 1 .. m + 1
    BY <2>2
  <2>4. PICK q \in 1 .. Len(pattern) : q = p + (j - 1)
    BY <2>1
  <2>5. PICK u \in 1 .. m + 1 : u = t + (j - 1)
    BY <2>3
  <2>6. pattern[q] # "*" /\ FitsFrom(pattern, text, q, u)
    BY <2>1, <2>2, <2>4, <2>5
  <2>7. u <= m /\ FitsFrom(pattern, text, q + 1, u + 1)
    BY <1>1, <2>6, FitsByStar
  <2>8. t + ((j + 1) - 1) <= m + 1
    BY <2>1, <2>5, <2>7
  <2> QED BY <2>1, <2>4, <2>5, <2>7, <2>8
<1>4. k + 1 \in Nat /\ k + 1 \in 1 .. k + 1 /\ (k + 1) - 1 = k
  OBVIOUS
<1> HIDE DEF S
<1>5. \A j \in 1 .. k + 1 : j \in S
  BY <1>2, <1>3, <1>4, FromTheFirst
<1>6. k + 1 \in S
  BY <1>4, <1>5
<1> QED BY <1>4, <1>6 DEF S

(* A function that says for each place of a machine, with one next place   *)
(* for each, whether it comes to a place in `good`, if it goes on until it *)
(* is at one in `ends`.                                                    *)
Decides(h, S, onward, ends, good) ==
  /\ h \in [S -> BOOLEAN]
  /\ \A s \in S : h[s] = IF s \in ends THEN s \in good ELSE h[onward[s]]

LEMMA RunsDecide ==
  ASSUME NEW S, NEW onward \in [S -> S], NEW ends, NEW good
  PROVE  \E h : Decides(h, S, onward, ends, good)
<1> DEFINE Run(s, k, run) ==
             /\ run \in [0 .. k -> S] /\ run[0] = s /\ run[k] \in ends \cap good
             /\ \A i \in 0 .. k - 1 : run[i] \notin ends /\ run[i + 1] = onward[run[i]]
           Accepts(s) == \E k \in Nat : \E run : Run(s, k, run)
<1>1. PICK h : h = [s \in S |-> Accepts(s)]
  OBVIOUS
<1>2. ASSUME NEW s \in S, s \in ends PROVE Accepts(s) <=> s \in good
  <2>1. ASSUME Accepts(s) PROVE s \in good
    <3>0. PICK k \in Nat : \E run : Run(s, k, run)
      BY <2>1
    <3>1. PICK run : Run(s, k, run)
      BY <3>0
    <3>2. k = 0
      <4>1. k # 0 => 0 \in 0 .. k - 1
        OBVIOUS
      <4> QED BY <1>2, <3>1, <4>1
    <3> QED BY <3>1, <3>2
  <2>2. ASSUME s \in good PROVE Accepts(s)
    <3>1. PICK run : run = [i \in 0 .. 0 |-> s]
      OBVIOUS
    <3>2. 0 \in Nat /\ 0 .. 0 - 1 = {} /\ 0 \in 0 .. 0
      OBVIOUS
    <3>3. run \in [0 .. 0 -> S] /\ run[0] = s
      BY <3>1, <3>2
    <3>4. Run(s, 0, run)
      BY <1>2, <2>2, <3>2, <3>3
    <3> QED BY <3>2, <3>4
  <2> QED BY <2>1, <2>2
<1>3. ASSUME NEW s \in S, s \notin ends PROVE Accepts(s) <=> Accepts(onward[s])
  <2>1. ASSUME Accepts(s) PROVE Accepts(onward[s])
    <3>0. PICK k \in Nat : \E run : Run(s, k, run)
      BY <2>1
    <3>1. PICK run : Run(s, k, run)
      BY <3>0
    <3>2. k # 0
      BY <1>3, <3>1
    <3>3. PICK r : r = [i \in 0 .. k - 1 |-> run[i + 1]]
      OBVIOUS
    <3>4. /\ k - 1 \in Nat /\ 0 \in 0 .. k - 1 /\ k - 1 \in 0 .. k - 1 /\ (k - 1) + 1 = k
          /\ \A i \in 0 .. k - 1 : i + 1 \in 0 .. k
          /\ \A i \in 0 .. (k - 1) - 1 :
               i \in 0 .. k - 1 /\ i + 1 \in 0 .. k - 1 /\ (i + 1) + 1 \in 0 .. k
      BY <3>2
    <3>5. r \in [0 .. k - 1 -> S]
      BY <3>1, <3>3, <3>4
    <3>6. r[0] = onward[s] /\ r[k - 1] = run[k]
      BY <3>1, <3>3, <3>4
    <3>7. \A i \in 0 .. (k - 1) - 1 : r[i] \notin ends /\ r[i + 1] = onward[r[i]]
      BY <3>1, <3>3, <3>4
    <3>8. Run(onward[s], k - 1, r)
      BY <3>1, <3>5, <3>6, <3>7
    <3> QED BY <3>4, <3>8
  <2>2. ASSUME Accepts(onward[s]) PROVE Accepts(s)
    <3>0. PICK k \in Nat : \E run : Run(onward[s], k, run)
      BY <2>2
    <3>1. PICK run : Run(onward[s], k, run)
      BY <3>0
    <3>2. PICK r : r = [i \in 0 .. k + 1 |-> IF i = 0 THEN s ELSE run[i - 1]]
      OBVIOUS
    <3>3. /\ k + 1 \in Nat /\ 0 \in 0 .. k + 1 /\ k + 1 \in 0 .. k + 1
          /\ k + 1 # 0 /\ (k + 1) - 1 = k
          /\ \A i \in 0 .. k + 1 : i # 0 => i - 1 \in 0 .. k
          /\ \A i \in 0 .. (k + 1) - 1 :
               /\ i \in 0 .. k + 1 /\ i + 1 \in 0 .. k + 1 /\ i + 1 # 0 /\ (i + 1) - 1 = i
               /\ i # 0 => i - 1 \in 0 .. k - 1 /\ (i - 1) + 1 = i
      OBVIOUS
    <3>4. r \in [0 .. k + 1 -> S]
      BY <1>3, <3>1, <3>2, <3>3
    <3>5. r[0] = s /\ r[k + 1] = run[k]
      BY <3>2, <3>3
    <3>6. ASSUME NEW i \in 0 .. (k + 1) - 1 PROVE r[i] \notin ends /\ r[i + 1] = onward[r[i]]
      <4>1. r[i + 1] = run[i]
        BY <3>2, <3>3
      <4>2. CASE i = 0
        BY <1>3, <3>1, <3>5, <4>1, <4>2
      <4>3. CASE i # 0
        <5>1. r[i] = run[i - 1] /\ i - 1 \in 0 .. k - 1 /\ (i - 1) + 1 = i
          BY <3>2, <3>3, <4>3
        <5>2. run[i - 1] \notin ends /\ run[(i - 1) + 1] = onward[run[i - 1]]
          BY <3>1, <5>1
        <5> QED BY <4>1, <5>1, <5>2
      <4> QED BY <4>2, <4>3
    <3>7. Run(s, k + 1, r)
      BY <3>1, <3>4, <3>5, <3>6
    <3> QED BY <3>3, <3>7
  <2> QED BY <2>1, <2>2
<1>4. h \in [S -> BOOLEAN]
  <2>1. \A s \in S : Accepts(s) \in BOOLEAN
    OBVIOUS
  <2> HIDE DEF Accepts
  <2> QED BY <1>1, <2>1
<1> HIDE DEF Accepts
<1>5. ASSUME NEW s \in S PROVE h[s] = IF s \in ends THEN s \in good ELSE h[onward[s]]
  <2>1. /\ h[s] = Accepts(s) /\ onward[s] \in S /\ h[onward[s]] = Accepts(onward[s])
        /\ h[s] \in BOOLEAN /\ h[onward[s]] \in BOOLEAN
    BY <1>1, <1>4
  <2>2. CASE s \in ends
    <3>1. h[s] <=> s \in good
      BY <1>2, <2>1, <2>2
    <3> QED BY <2>1, <2>2, <3>1
  <2>3. CASE s \notin ends
    <3>1. h[s] <=> h[onward[s]]
      BY <1>3, <2>1, <2>3
    <3> QED BY <2>1, <2>3, <3>1
  <2> QED BY <2>2, <2>3
<1> QED BY <1>4, <1>5 DEF Decides

(* glob_match goes from one place to the next; at the end, and where       *)
(* nothing fits, it stays.                                                 *)
GlobTakes(pattern, text, s) == s.p <= Len(pattern) /\ pattern[s.p] \in {"?", text[s.t]}
GlobStars(pattern, s) == s.p <= Len(pattern) /\ pattern[s.p] = "*"
GlobEnds(pattern, text, s) ==
  s.t > Len(text) \/ (~GlobTakes(pattern, text, s) /\ ~GlobStars(pattern, s) /\ s.star = 0)
GlobTaken(s) == GlobAt(s.p + 1, s.t + 1, s.star, s.mark)
GlobStarred(s) == GlobAt(s.p + 1, s.t, s.p, s.t)
GlobBack(s) == GlobAt(s.star + 1, s.mark + 1, s.star, s.mark + 1)
GlobRest(pattern, s) == \A i \in s.p .. Len(pattern) : pattern[i] = "*"
GlobStep(pattern, text, s) ==
  IF GlobEnds(pattern, text, s) THEN s
  ELSE IF GlobTakes(pattern, text, s) THEN GlobTaken(s)
  ELSE IF GlobStars(pattern, s) THEN GlobStarred(s)
  ELSE GlobBack(s)

LEMMA GlobPlaceIs ==
  ASSUME NEW pattern, NEW text, Len(pattern) \in Nat, Len(text) \in Nat,
         NEW s \in GlobPlaces(pattern, text)
  PROVE  /\ s.p \in 1 .. Len(pattern) + 1 /\ s.t \in 1 .. Len(text) + 1
         /\ s.star \in 0 .. Len(pattern) /\ s.mark \in 1 .. Len(text) + 1 /\ s.mark <= s.t
         /\ s = GlobAt(s.p, s.t, s.star, s.mark)
  BY DEF GlobPlaces, GlobAt

LEMMA GlobAtIs ==
  ASSUME NEW pattern, NEW text,
         NEW p \in 1 .. Len(pattern) + 1, NEW t \in 1 .. Len(text) + 1,
         NEW star \in 0 .. Len(pattern), NEW mark \in 1 .. Len(text) + 1, mark <= t
  PROVE  /\ GlobAt(p, t, star, mark) \in GlobPlaces(pattern, text)
         /\ GlobAt(p, t, star, mark).p = p /\ GlobAt(p, t, star, mark).t = t
         /\ GlobAt(p, t, star, mark).star = star /\ GlobAt(p, t, star, mark).mark = mark
  BY DEF GlobPlaces, GlobAt

LEMMA GlobGoesOn ==
  ASSUME NEW pattern, NEW text, Len(pattern) \in Nat, Len(text) \in Nat,
         NEW s \in GlobPlaces(pattern, text), ~GlobEnds(pattern, text, s)
  PROVE  /\ GlobTakes(pattern, text, s) => GlobTaken(s) \in GlobPlaces(pattern, text)
         /\ GlobStars(pattern, s) => GlobStarred(s) \in GlobPlaces(pattern, text)
         /\ GlobBack(s) \in GlobPlaces(pattern, text)
<1>1. PICK p \in 1 .. Len(pattern) + 1, t \in 1 .. Len(text) + 1, star \in 0 .. Len(pattern),
           mark \in 1 .. Len(text) + 1 :
        p = s.p /\ t = s.t /\ star = s.star /\ mark = s.mark /\ mark <= t
  BY GlobPlaceIs
<1>2. t <= Len(text) /\ t \in Nat /\ mark \in Nat
  BY <1>1 DEF GlobEnds
<1>3. /\ t + 1 \in 1 .. Len(text) + 1 /\ mark <= t + 1 /\ t <= t
      /\ star + 1 \in 1 .. Len(pattern) + 1
      /\ mark + 1 \in 1 .. Len(text) + 1 /\ mark + 1 <= mark + 1
      /\ p <= Len(pattern) => p + 1 \in 1 .. Len(pattern) + 1 /\ p \in 0 .. Len(pattern)
  <2>1. PICK n \in Nat, m \in Nat : n = Len(pattern) /\ m = Len(text)
    OBVIOUS
  <2>2. p \in 1 .. n + 1 /\ t \in 1 .. m + 1 /\ star \in 0 .. n /\ mark \in 1 .. m + 1
    BY <2>1
  <2>3. mark <= t /\ t <= m
    BY <1>1, <1>2, <2>1
  <2>4. /\ t + 1 \in 1 .. m + 1 /\ mark <= t + 1 /\ t <= t
        /\ star + 1 \in 1 .. n + 1 /\ mark + 1 \in 1 .. m + 1 /\ mark + 1 <= mark + 1
        /\ p <= n => p + 1 \in 1 .. n + 1 /\ p \in 0 .. n
    BY <2>2, <2>3
  <2> QED BY <2>1, <2>4
<1>4. GlobBack(s) \in GlobPlaces(pattern, text)
  <2>1. GlobAt(star + 1, mark + 1, star, mark + 1) \in GlobPlaces(pattern, text)
    BY <1>3, GlobAtIs
  <2> QED BY <1>1, <2>1 DEF GlobBack
<1>5. CASE p <= Len(pattern)
  <2>1. GlobTaken(s) \in GlobPlaces(pattern, text)
    <3>1. GlobAt(p + 1, t + 1, star, mark) \in GlobPlaces(pattern, text)
      BY <1>1, <1>3, <1>5, GlobAtIs
    <3> QED BY <1>1, <3>1 DEF GlobTaken
  <2>2. GlobStarred(s) \in GlobPlaces(pattern, text)
    <3>1. GlobAt(p + 1, t, p, t) \in GlobPlaces(pattern, text)
      BY <1>3, <1>5, GlobAtIs
    <3> QED BY <1>1, <3>1 DEF GlobStarred
  <2> QED BY <1>4, <2>1, <2>2
<1>6. CASE ~(p <= Len(pattern))
  BY <1>1, <1>4, <1>6 DEF GlobTakes, GlobStars
<1> QED BY <1>5, <1>6

(* The loop of glob_match is a function on the places.                     *)
LEMMA GlobLoops ==
  ASSUME NEW pattern, NEW text, Len(pattern) \in Nat, Len(text) \in Nat
  PROVE  \E g : /\ GlobMatch(pattern, text) = g[GlobAt(1, 1, 0, 1)]
                /\ \A s \in GlobPlaces(pattern, text) :
                     g[s] = IF s.t > Len(text) THEN GlobRest(pattern, s)
                            ELSE IF GlobTakes(pattern, text, s) THEN g[GlobTaken(s)]
                            ELSE IF GlobStars(pattern, s) THEN g[GlobStarred(s)]
                            ELSE s.star > 0 /\ g[GlobBack(s)]
<1>1. PICK S : S = GlobPlaces(pattern, text)
  OBVIOUS
<1> DEFINE F(f) == [s \in GlobPlaces(pattern, text) |->
              IF s.t > Len(text) THEN \A i \in s.p .. Len(pattern) : pattern[i] = "*"
              ELSE IF s.p <= Len(pattern) /\ pattern[s.p] \in {"?", text[s.t]}
                THEN f[GlobAt(s.p + 1, s.t + 1, s.star, s.mark)]
              ELSE IF s.p <= Len(pattern) /\ pattern[s.p] = "*"
                THEN f[GlobAt(s.p + 1, s.t, s.p, s.t)]
              ELSE s.star > 0 /\ f[GlobAt(s.star + 1, s.mark + 1, s.star, s.mark + 1)]]
           g == CHOOSE f : f = F(f)
<1>2. GlobMatch(pattern, text) = g[GlobAt(1, 1, 0, 1)]
  BY DEF GlobMatch
<1> DEFINE G(f) == [s \in S |->
              IF s.t > Len(text) THEN GlobRest(pattern, s)
              ELSE IF GlobTakes(pattern, text, s) THEN f[GlobTaken(s)]
              ELSE IF GlobStars(pattern, s) THEN f[GlobStarred(s)]
              ELSE s.star > 0 /\ f[GlobBack(s)]]
<1>3. ASSUME NEW f PROVE F(f) = G(f)
  BY <1>1, Zenon DEF GlobRest, GlobTakes, GlobStars, GlobTaken, GlobStarred, GlobBack
<1>4. \E h : h = G(h)
  <2>1. PICK onward : onward = [s \in S |-> GlobStep(pattern, text, s)]
    OBVIOUS
  <2>2. onward \in [S -> S]
    <3>1. ASSUME NEW s \in S PROVE GlobStep(pattern, text, s) \in S
      BY <1>1, GlobGoesOn DEF GlobStep
    <3> QED BY <2>1, <3>1
  <2>3. PICK ends : ends = {s \in S : GlobEnds(pattern, text, s)}
    OBVIOUS
  <2>4. PICK good : good = {s \in S : s.t > Len(text) /\ GlobRest(pattern, s)}
    OBVIOUS
  <2>5. PICK h \in [S -> BOOLEAN] : \A s \in S :
          h[s] = IF s \in ends THEN s \in good ELSE h[onward[s]]
    <3>1. \E h : Decides(h, S, onward, ends, good)
      BY <2>2, RunsDecide
    <3> QED BY <3>1 DEF Decides
  <2>6. ASSUME NEW s \in S
        PROVE  h[s] = IF s.t > Len(text) THEN GlobRest(pattern, s)
                      ELSE IF GlobTakes(pattern, text, s) THEN h[GlobTaken(s)]
                      ELSE IF GlobStars(pattern, s) THEN h[GlobStarred(s)]
                      ELSE s.star > 0 /\ h[GlobBack(s)]
    <3>1. h[s] = IF s \in ends THEN s \in good ELSE h[onward[s]]
      BY <2>5
    <3>2. s \in ends <=> GlobEnds(pattern, text, s)
      BY <2>3
    <3>3. s \in good <=> s.t > Len(text) /\ GlobRest(pattern, s)
      BY <2>4
    <3>4. CASE s.t > Len(text)
      <4>1. GlobEnds(pattern, text, s)
        BY <3>4 DEF GlobEnds
      <4>2. h[s] = GlobRest(pattern, s)
        BY <3>1, <3>2, <3>3, <3>4, <4>1 DEF GlobRest
      <4> QED BY <3>4, <4>2
    <3>5. CASE ~(s.t > Len(text)) /\ GlobEnds(pattern, text, s)
      <4>1. ~GlobTakes(pattern, text, s) /\ ~GlobStars(pattern, s) /\ s.star = 0 /\ ~(s.star > 0)
        BY <3>5 DEF GlobEnds
      <4>2. h[s] = FALSE
        BY <3>1, <3>2, <3>3, <3>5
      <4> QED BY <3>5, <4>1, <4>2
    <3>6. CASE ~GlobEnds(pattern, text, s)
      <4>1. ~(s.t > Len(text))
        BY <3>6 DEF GlobEnds
      <4>2. h[s] = h[GlobStep(pattern, text, s)]
        BY <2>1, <3>1, <3>2, <3>6
      <4>3. /\ GlobTakes(pattern, text, s) => h[s] = h[GlobTaken(s)]
            /\ ~GlobTakes(pattern, text, s) /\ GlobStars(pattern, s) => h[s] = h[GlobStarred(s)]
            /\ ~GlobTakes(pattern, text, s) /\ ~GlobStars(pattern, s) => h[s] = h[GlobBack(s)]
        BY <3>6, <4>2 DEF GlobStep
      <4>4. ~GlobTakes(pattern, text, s) /\ ~GlobStars(pattern, s) => s.star > 0
        <5>1. s.star \in 0 .. Len(pattern)
          BY <1>1, GlobPlaceIs
        <5>2. ~GlobTakes(pattern, text, s) /\ ~GlobStars(pattern, s) => s.star # 0
          BY <3>6 DEF GlobEnds
        <5> QED BY <5>1, <5>2
      <4>5. GlobBack(s) \in S
        BY <1>1, <3>6, GlobGoesOn
      <4>6. h[GlobBack(s)] \in BOOLEAN
        BY <2>5, <4>5
      <4> QED BY <4>1, <4>3, <4>4, <4>6
    <3> QED BY <3>4, <3>5, <3>6
  <2>7. h = G(h)
    <3>1. DOMAIN h = S /\ h = [s \in S |-> h[s]]
      BY <2>5
    <3> QED BY <2>6, <3>1, Zenon
  <2> QED BY <2>7
<1>5. g = F(g)
  <2>1. PICK h : h = G(h)
    BY <1>4
  <2>2. h = F(h)
    BY <1>3, <2>1
  <2> HIDE DEF F
  <2> QED BY <2>2
<1> HIDE DEF g
<1>6. g = G(g)
  BY <1>3, <1>5
<1> HIDE DEF F
<1>7. \A s \in S : g[s] = IF s.t > Len(text) THEN GlobRest(pattern, s)
                          ELSE IF GlobTakes(pattern, text, s) THEN g[GlobTaken(s)]
                          ELSE IF GlobStars(pattern, s) THEN g[GlobStarred(s)]
                          ELSE s.star > 0 /\ g[GlobBack(s)]
  BY <1>6, Zenon
<1> QED BY <1>1, <1>2, <1>7

(* At a place that glob_match comes to, the characters since the latest    *)
(* star are no stars, and have taken one each.                             *)
GlobOk(pattern, s) ==
  s.star > 0 =>
    /\ s.star < s.p /\ s.t + s.star + 1 = s.mark + s.p
    /\ \A i \in s.star + 1 .. s.p - 1 : pattern[i] # "*"

(* It comes to a match if the rest fits, or if it fits once the latest     *)
(* star has taken more.                                                    *)
FitsLater(pattern, text, star, mark) ==
  star > 0 /\ \E u \in mark + 1 .. Len(text) + 1 : FitsFrom(pattern, text, star + 1, u)
GlobMeans(pattern, text, s) ==
  FitsFrom(pattern, text, s.p, s.t) \/ FitsLater(pattern, text, s.star, s.mark)

(* What fits once the latest star has taken more fits from p on, later in  *)
(* the text.                                                               *)
LEMMA LaterFromHere ==
  ASSUME NEW T, NEW pattern \in Seq(T), NEW text, Len(text) \in Nat,
         \A i \in 1 .. Len(text) : text[i] # "*",
         NEW s \in GlobPlaces(pattern, text), GlobOk(pattern, s),
         FitsLater(pattern, text, s.star, s.mark)
  PROVE  \E u \in 1 .. Len(text) + 1 : s.t < u /\ FitsFrom(pattern, text, s.p, u)
<1>1. PICK n \in Nat, m \in Nat : n = Len(pattern) /\ m = Len(text)
  OBVIOUS
<1>2. PICK p \in 1 .. n + 1, t \in 1 .. m + 1, star \in 0 .. n, mark \in 1 .. m + 1 :
        p = s.p /\ t = s.t /\ star = s.star /\ mark = s.mark
  BY <1>1, GlobPlaceIs
<1>3. PICK u \in mark + 1 .. m + 1 : FitsFrom(pattern, text, star + 1, u)
  BY <1>1, <1>2 DEF FitsLater
<1>4. /\ star > 0 /\ star < p /\ t + star + 1 = mark + p
      /\ \A i \in star + 1 .. p - 1 : pattern[i] # "*"
  BY <1>2 DEF FitsLater, GlobOk
<1>5. PICK k \in Nat : k = (p - star) - 1
  BY <1>4
<1>6. PICK q \in 1 .. Len(pattern) + 1 : q = star + 1
  BY <1>1, <1>4
<1>7. /\ q + k = p /\ (q + k) - 1 = p - 1 /\ q + k <= Len(pattern) + 1 /\ u \in 1 .. Len(text) + 1
      /\ t < u + k
  BY <1>1, <1>4, <1>5, <1>6
<1>8. \A i \in q .. (q + k) - 1 : pattern[i] # "*"
  BY <1>4, <1>6, <1>7
<1>9. u + k <= Len(text) + 1 /\ FitsFrom(pattern, text, q + k, u + k)
  BY <1>3, <1>6, <1>7, <1>8, OthersTakeOneEach
<1>10. u + k \in 1 .. Len(text) + 1
  BY <1>5, <1>7, <1>9
<1> QED BY <1>2, <1>7, <1>9, <1>10

(* At the end of the text.                                                 *)
LEMMA GlobAtEnd ==
  ASSUME NEW T, NEW pattern \in Seq(T), NEW text, Len(text) \in Nat,
         \A i \in 1 .. Len(text) : text[i] # "*",
         NEW s \in GlobPlaces(pattern, text), GlobOk(pattern, s), s.t > Len(text)
  PROVE  GlobMeans(pattern, text, s) <=> GlobRest(pattern, s)
<1>1. Len(pattern) \in Nat
  OBVIOUS
<1>2. s.t = Len(text) + 1 /\ s.p \in 1 .. Len(pattern) + 1
  BY <1>1, GlobPlaceIs
<1>3. FitsFrom(pattern, text, s.p, s.t) <=> GlobRest(pattern, s)
  BY <1>2, OnlyStarsFit DEF GlobRest
<1>4. ~FitsLater(pattern, text, s.star, s.mark)
  <2>1. \A u \in 1 .. Len(text) + 1 : ~(Len(text) + 1 < u)
    OBVIOUS
  <2> QED BY <1>2, <2>1, LaterFromHere
<1> QED BY <1>3, <1>4 DEF GlobMeans

(* A character that takes one.                                             *)
LEMMA GlobTakesOne ==
  ASSUME NEW T, NEW pattern \in Seq(T), NEW text, Len(text) \in Nat,
         \A i \in 1 .. Len(text) : text[i] # "*",
         NEW s \in GlobPlaces(pattern, text), GlobOk(pattern, s), ~(s.t > Len(text)),
         GlobTakes(pattern, text, s)
  PROVE  /\ GlobOk(pattern, GlobTaken(s))
         /\ GlobMeans(pattern, text, s) <=> GlobMeans(pattern, text, GlobTaken(s))
         /\ GlobTaken(s).mark = s.mark /\ GlobTaken(s).p > s.p
<1>1. PICK n \in Nat, m \in Nat : n = Len(pattern) /\ m = Len(text)
  OBVIOUS
<1>2. PICK p \in 1 .. n + 1, t \in 1 .. m + 1, star \in 0 .. n, mark \in 1 .. m + 1 :
        p = s.p /\ t = s.t /\ star = s.star /\ mark = s.mark
  BY <1>1, GlobPlaceIs
<1>3. p <= n /\ pattern[p] \in {"?", text[t]} /\ t <= m
  BY <1>1, <1>2 DEF GlobTakes
<1>4. pattern[p] # "*"
  <2>1. t \in 1 .. Len(text)
    BY <1>1, <1>3
  <2>2. text[t] # "*"
    BY <2>1
  <2> QED BY <1>3, <2>2
<1>5. PICK r : r = GlobTaken(s)
  OBVIOUS
<1>6. r.p = p + 1 /\ r.t = t + 1 /\ r.star = star /\ r.mark = mark
  BY <1>2, <1>5 DEF GlobTaken, GlobAt
<1>7. GlobOk(pattern, r)
  <2>1. ASSUME star > 0
        PROVE  /\ star < p + 1 /\ (t + 1) + star + 1 = mark + (p + 1)
               /\ \A i \in star + 1 .. (p + 1) - 1 : pattern[i] # "*"
    <3>1. /\ star < p /\ t + star + 1 = mark + p
          /\ \A i \in star + 1 .. p - 1 : pattern[i] # "*"
      BY <1>2, <2>1 DEF GlobOk
    <3>2. \A i \in star + 1 .. (p + 1) - 1 : i \in star + 1 .. p - 1 \/ i = p
      OBVIOUS
    <3> QED BY <1>4, <3>1, <3>2
  <2> QED BY <1>6, <2>1 DEF GlobOk
<1>8. FitsFrom(pattern, text, p, t) <=> FitsFrom(pattern, text, p + 1, t + 1)
  <2>1. p \in 1 .. Len(pattern) /\ t \in 1 .. Len(text) + 1 /\ Len(pattern) \in Nat
    BY <1>1, <1>3
  <2> QED BY <1>1, <1>3, <1>4, <2>1, FitsByStar
<1>9. GlobMeans(pattern, text, s) <=> GlobMeans(pattern, text, r)
  BY <1>2, <1>6, <1>8 DEF GlobMeans
<1>10. p + 1 > p
  OBVIOUS
<1> QED BY <1>2, <1>5, <1>6, <1>7, <1>9, <1>10

(* A star, which takes the place of the one before.                        *)
LEMMA GlobMeetsStar ==
  ASSUME NEW T, NEW pattern \in Seq(T), NEW text, Len(text) \in Nat,
         \A i \in 1 .. Len(text) : text[i] # "*",
         NEW s \in GlobPlaces(pattern, text), GlobOk(pattern, s), GlobStars(pattern, s)
  PROVE  /\ GlobOk(pattern, GlobStarred(s))
         /\ GlobMeans(pattern, text, s) <=> GlobMeans(pattern, text, GlobStarred(s))
         /\ GlobStarred(s).mark >= s.mark /\ GlobStarred(s).p > s.p
<1>1. PICK n \in Nat, m \in Nat : n = Len(pattern) /\ m = Len(text)
  OBVIOUS
<1>2. PICK p \in 1 .. n + 1, t \in 1 .. m + 1, star \in 0 .. n, mark \in 1 .. m + 1 :
        p = s.p /\ t = s.t /\ star = s.star /\ mark = s.mark /\ mark <= t
  BY <1>1, GlobPlaceIs
<1>3. p <= n /\ pattern[p] = "*"
  BY <1>1, <1>2 DEF GlobStars
<1>4. PICK r : r = GlobStarred(s)
  OBVIOUS
<1>5. r.p = p + 1 /\ r.t = t /\ r.star = p /\ r.mark = t
  BY <1>2, <1>4 DEF GlobStarred, GlobAt
<1>6. GlobOk(pattern, r)
  <2>1. p < p + 1 /\ t + p + 1 = t + (p + 1) /\ p + 1 .. (p + 1) - 1 = {}
    OBVIOUS
  <2> QED BY <1>5, <2>1 DEF GlobOk
<1>7. p \in 1 .. Len(pattern) /\ t \in 1 .. Len(text) + 1 /\ Len(pattern) \in Nat
  BY <1>1, <1>3
<1>8. FitsFrom(pattern, text, p, t) <=>
        \E u \in 1 .. Len(text) + 1 : t <= u /\ FitsFrom(pattern, text, p + 1, u)
  BY <1>3, <1>7, FitsByStar
<1>9. GlobMeans(pattern, text, r) <=> FitsFrom(pattern, text, p, t)
  <2>1. GlobMeans(pattern, text, r) <=>
          \/ FitsFrom(pattern, text, p + 1, t)
          \/ \E u \in t + 1 .. Len(text) + 1 : FitsFrom(pattern, text, p + 1, u)
    <3>1. p > 0
      OBVIOUS
    <3> QED BY <1>5, <3>1 DEF GlobMeans, FitsLater
  <2>2. \A u : u \in 1 .. Len(text) + 1 /\ t <= u <=> u = t \/ u \in t + 1 .. Len(text) + 1
    <3>1. \A u : u \in 1 .. m + 1 /\ t <= u <=> u = t \/ u \in t + 1 .. m + 1
      OBVIOUS
    <3> QED BY <1>1, <3>1
  <2> QED BY <1>8, <2>1, <2>2
<1>10. FitsLater(pattern, text, star, mark) => FitsFrom(pattern, text, p, t)
  <2>1. SUFFICES ASSUME FitsLater(pattern, text, star, mark) PROVE FitsFrom(pattern, text, p, t)
    OBVIOUS
  <2>2. PICK u \in 1 .. Len(text) + 1 : t < u /\ FitsFrom(pattern, text, p, u)
    BY <1>2, <2>1, LaterFromHere
  <2>3. PICK v \in 1 .. Len(text) + 1 : u <= v /\ FitsFrom(pattern, text, p + 1, v)
    BY <1>3, <1>7, <2>2, FitsByStar
  <2>4. t <= v
    BY <1>1, <2>2, <2>3
  <2> QED BY <1>8, <2>3, <2>4
<1>11. GlobMeans(pattern, text, s) <=> FitsFrom(pattern, text, p, t)
  BY <1>2, <1>10 DEF GlobMeans
<1>12. p + 1 > p /\ t >= mark
  BY <1>2
<1> QED BY <1>2, <1>4, <1>5, <1>6, <1>9, <1>11, <1>12

(* A mismatch, without a star or with one, which then takes one more.      *)
LEMMA GlobGoesBack ==
  ASSUME NEW T, NEW pattern \in Seq(T), NEW text, Len(text) \in Nat,
         \A i \in 1 .. Len(text) : text[i] # "*",
         NEW s \in GlobPlaces(pattern, text), GlobOk(pattern, s), ~(s.t > Len(text)),
         ~GlobTakes(pattern, text, s), ~GlobStars(pattern, s)
  PROVE  /\ s.star > 0 => /\ GlobOk(pattern, GlobBack(s))
                          /\ GlobMeans(pattern, text, s) <=> GlobMeans(pattern, text, GlobBack(s))
         /\ s.star = 0 => ~GlobMeans(pattern, text, s)
         /\ GlobBack(s).mark > s.mark
<1>1. PICK n \in Nat, m \in Nat : n = Len(pattern) /\ m = Len(text)
  OBVIOUS
<1>2. PICK p \in 1 .. n + 1, t \in 1 .. m + 1, star \in 0 .. n, mark \in 1 .. m + 1 :
        p = s.p /\ t = s.t /\ star = s.star /\ mark = s.mark /\ mark <= t
  BY <1>1, GlobPlaceIs
<1>3. t <= m
  BY <1>1, <1>2
<1>4. ~FitsFrom(pattern, text, p, t)
  <2>1. CASE p = n + 1
    <3>1. t \in 1 .. Len(text) + 1 /\ t # Len(text) + 1
      BY <1>1, <1>3
    <3> QED BY <1>1, <2>1, <3>1, FitsAtEnd
  <2>2. CASE p # n + 1
    <3>1. p \in 1 .. Len(pattern) /\ t \in 1 .. Len(text) + 1 /\ p <= Len(pattern)
      BY <1>1, <2>2
    <3>2. pattern[p] # "*" /\ pattern[p] \notin {"?", text[t]}
      BY <1>2, <3>1 DEF GlobTakes, GlobStars
    <3> QED BY <1>1, <3>1, <3>2, FitsByStar
  <2> QED BY <2>1, <2>2
<1>5. PICK r : r = GlobBack(s)
  OBVIOUS
<1>6. r.p = star + 1 /\ r.t = mark + 1 /\ r.star = star /\ r.mark = mark + 1
  BY <1>2, <1>5 DEF GlobBack, GlobAt
<1>7. GlobOk(pattern, r)
  <2>1. star < star + 1 /\ (mark + 1) + star + 1 = (mark + 1) + (star + 1)
        /\ star + 1 .. (star + 1) - 1 = {}
    OBVIOUS
  <2> QED BY <1>6, <2>1 DEF GlobOk
<1>8. ASSUME star > 0 PROVE GlobMeans(pattern, text, s) <=> GlobMeans(pattern, text, r)
  <2>1. GlobMeans(pattern, text, r) <=>
          \/ FitsFrom(pattern, text, star + 1, mark + 1)
          \/ \E u \in (mark + 1) + 1 .. Len(text) + 1 : FitsFrom(pattern, text, star + 1, u)
    BY <1>6, <1>8 DEF GlobMeans, FitsLater
  <2>2. GlobMeans(pattern, text, s) <=>
          \E u \in mark + 1 .. Len(text) + 1 : FitsFrom(pattern, text, star + 1, u)
    BY <1>2, <1>4, <1>8 DEF GlobMeans, FitsLater
  <2>3. \A u : u \in mark + 1 .. Len(text) + 1 <=>
                 u = mark + 1 \/ u \in (mark + 1) + 1 .. Len(text) + 1
    <3>1. \A u : u \in mark + 1 .. m + 1 <=> u = mark + 1 \/ u \in (mark + 1) + 1 .. m + 1
      BY <1>2, <1>3
    <3> QED BY <1>1, <3>1
  <2> QED BY <2>1, <2>2, <2>3
<1>9. star = 0 => ~GlobMeans(pattern, text, s)
  BY <1>2, <1>4 DEF GlobMeans, FitsLater
<1>10. mark + 1 > mark
  OBVIOUS
<1> QED BY <1>2, <1>5, <1>6, <1>7, <1>8, <1>9, <1>10

(* glob_match says what a pattern means, for texts without stars: of the   *)
(* places where it would not, take one that is furthest.                   *)
LEMMA GlobMatchFits ==
  ASSUME NEW T, NEW pattern \in Seq(T), NEW text, Len(text) \in Nat,
         \A i \in 1 .. Len(text) : text[i] # "*"
  PROVE  GlobMatch(pattern, text) <=> Fits(pattern, text)
<1>1. PICK n \in Nat, m \in Nat : n = Len(pattern) /\ m = Len(text)
  OBVIOUS
<1>2. PICK g :
        /\ GlobMatch(pattern, text) = g[GlobAt(1, 1, 0, 1)]
        /\ \A s \in GlobPlaces(pattern, text) :
             g[s] = IF s.t > Len(text) THEN GlobRest(pattern, s)
                    ELSE IF GlobTakes(pattern, text, s) THEN g[GlobTaken(s)]
                    ELSE IF GlobStars(pattern, s) THEN g[GlobStarred(s)]
                    ELSE s.star > 0 /\ g[GlobBack(s)]
  BY <1>1, GlobLoops
<1> DEFINE Right(s) == g[s] = GlobMeans(pattern, text, s)
           W == {s \in GlobPlaces(pattern, text) : GlobOk(pattern, s) /\ ~Right(s)}
<1>3. ASSUME W # {} PROVE FALSE
  <2> DEFINE B == {(m + 1) - s.mark : s \in W}
             b == Earliest(B)
  <2>1. \A s \in W : s.mark \in 1 .. m + 1 /\ s.p \in 1 .. n + 1 /\ s \in GlobPlaces(pattern, text)
    BY <1>1, GlobPlaceIs
  <2>2. b \in B /\ \A e \in B : b <= e
    <3>1. B \in SUBSET Nat /\ B # {}
      <4> HIDE DEF W
      <4> QED BY <1>3, <2>1
    <3> HIDE DEF B
    <3> QED BY <3>1, EarliestIsIn
  <2> HIDE DEF b
  <2> DEFINE C == {(n + 1) - s.p : s \in {s \in W : (m + 1) - s.mark = b}}
             c == Earliest(C)
  <2>3. c \in C /\ \A e \in C : c <= e
    <3>1. C \in SUBSET Nat /\ C # {}
      <4> HIDE DEF W
      <4> QED BY <2>1, <2>2
    <3> HIDE DEF C
    <3> QED BY <3>1, EarliestIsIn
  <2> HIDE DEF c
  <2>4. PICK s \in W : (m + 1) - s.mark = b /\ (n + 1) - s.p = c
    <3> HIDE DEF W
    <3> QED BY <2>3
  <2>5. s \in GlobPlaces(pattern, text) /\ GlobOk(pattern, s) /\ ~Right(s)
    BY <2>4
  <2>6. ASSUME NEW r \in GlobPlaces(pattern, text), GlobOk(pattern, r),
               r.mark >= s.mark, r.mark > s.mark \/ r.p > s.p
        PROVE  Right(r)
    <3>1. SUFFICES ASSUME r \in W PROVE FALSE
      BY <2>6
    <3> HIDE DEF W
    <3>2. /\ s.mark \in 1 .. m + 1 /\ s.p \in 1 .. n + 1
          /\ r.mark \in 1 .. m + 1 /\ r.p \in 1 .. n + 1
      BY <2>1, <2>4, <3>1
    <3>3. b <= (m + 1) - r.mark
      BY <2>2, <3>1
    <3>4. r.mark = s.mark
      BY <2>4, <2>6, <3>2, <3>3
    <3>5. c <= (n + 1) - r.p
      BY <2>3, <2>4, <3>1, <3>4
    <3> QED BY <2>4, <2>6, <3>2, <3>4, <3>5
  <2>7. g[s] = IF s.t > Len(text) THEN GlobRest(pattern, s)
               ELSE IF GlobTakes(pattern, text, s) THEN g[GlobTaken(s)]
               ELSE IF GlobStars(pattern, s) THEN g[GlobStarred(s)]
               ELSE s.star > 0 /\ g[GlobBack(s)]
    BY <1>2, <2>5
  <2>8. GlobMeans(pattern, text, s) \in BOOLEAN /\ GlobRest(pattern, s) \in BOOLEAN
        /\ \A r : GlobMeans(pattern, text, r) \in BOOLEAN
    BY DEF GlobMeans, GlobRest
  <2>9. CASE s.t > Len(text)
    <3>1. GlobMeans(pattern, text, s) <=> GlobRest(pattern, s)
      BY <1>1, <2>5, <2>9, GlobAtEnd
    <3>2. g[s] = GlobRest(pattern, s)
      BY <2>7, <2>9
    <3> QED BY <2>5, <2>8, <3>1, <3>2
  <2>10. CASE ~(s.t > Len(text)) /\ GlobTakes(pattern, text, s)
    <3>1. /\ GlobOk(pattern, GlobTaken(s))
          /\ GlobMeans(pattern, text, s) <=> GlobMeans(pattern, text, GlobTaken(s))
          /\ GlobTaken(s).mark = s.mark /\ GlobTaken(s).p > s.p
      BY <1>1, <2>5, <2>10, GlobTakesOne
    <3>2. GlobTaken(s) \in GlobPlaces(pattern, text)
      <4>1. ~GlobEnds(pattern, text, s)
        BY <2>10 DEF GlobEnds
      <4> QED BY <1>1, <2>5, <2>10, <4>1, GlobGoesOn
    <3>3. GlobTaken(s).mark >= s.mark
      <4>1. s.mark \in 1 .. m + 1
        BY <1>1, <2>5, GlobPlaceIs
      <4> QED BY <3>1, <4>1
    <3>4. Right(GlobTaken(s))
      BY <2>6, <3>1, <3>2, <3>3
    <3>5. g[s] = g[GlobTaken(s)]
      BY <2>7, <2>10
    <3> QED BY <2>5, <2>8, <3>1, <3>4, <3>5
  <2>11. CASE ~(s.t > Len(text)) /\ ~GlobTakes(pattern, text, s) /\ GlobStars(pattern, s)
    <3>1. /\ GlobOk(pattern, GlobStarred(s))
          /\ GlobMeans(pattern, text, s) <=> GlobMeans(pattern, text, GlobStarred(s))
          /\ GlobStarred(s).mark >= s.mark /\ GlobStarred(s).p > s.p
      BY <1>1, <2>5, <2>11, GlobMeetsStar
    <3>2. GlobStarred(s) \in GlobPlaces(pattern, text)
      <4>1. ~GlobEnds(pattern, text, s)
        BY <2>11 DEF GlobEnds
      <4> QED BY <1>1, <2>5, <2>11, <4>1, GlobGoesOn
    <3>3. Right(GlobStarred(s))
      BY <2>6, <3>1, <3>2
    <3>4. g[s] = g[GlobStarred(s)]
      BY <2>7, <2>11
    <3> QED BY <2>5, <2>8, <3>1, <3>3, <3>4
  <2>12. CASE ~(s.t > Len(text)) /\ ~GlobTakes(pattern, text, s) /\ ~GlobStars(pattern, s)
    <3>1. /\ s.star > 0 => /\ GlobOk(pattern, GlobBack(s))
                           /\ GlobMeans(pattern, text, s) <=> GlobMeans(pattern, text, GlobBack(s))
          /\ s.star = 0 => ~GlobMeans(pattern, text, s)
          /\ GlobBack(s).mark > s.mark
      BY <1>1, <2>5, <2>12, GlobGoesBack
    <3>2. g[s] = (s.star > 0 /\ g[GlobBack(s)])
      BY <2>7, <2>12
    <3>3. s.star \in 0 .. n /\ s.mark \in 1 .. m + 1
      BY <1>1, <2>5, GlobPlaceIs
    <3>4. CASE s.star = 0
      <4>1. ~(s.star > 0)
        BY <3>4
      <4> QED BY <2>5, <2>8, <3>1, <3>2, <3>4, <4>1
    <3>5. CASE s.star > 0
      <4>1. GlobBack(s) \in GlobPlaces(pattern, text)
        <5>1. ~GlobEnds(pattern, text, s)
          BY <2>12, <3>5 DEF GlobEnds
        <5> QED BY <1>1, <2>5, <5>1, GlobGoesOn
      <4>2. GlobBack(s).mark >= s.mark
        <5>1. GlobBack(s).mark \in 1 .. m + 1
          BY <1>1, <4>1, GlobPlaceIs
        <5> QED BY <3>1, <3>3, <5>1
      <4>3. Right(GlobBack(s))
        BY <2>6, <3>1, <3>5, <4>1, <4>2
      <4> QED BY <2>5, <2>8, <3>1, <3>2, <3>5, <4>3
    <3> QED BY <3>3, <3>4, <3>5
  <2> QED BY <2>9, <2>10, <2>11, <2>12
<1>4. PICK start : start = GlobAt(1, 1, 0, 1)
  OBVIOUS
<1>5. /\ start \in GlobPlaces(pattern, text)
      /\ start.p = 1 /\ start.t = 1 /\ start.star = 0 /\ start.mark = 1
  BY <1>1, <1>4 DEF GlobPlaces, GlobAt
<1>6. GlobOk(pattern, start) /\ ~FitsLater(pattern, text, start.star, start.mark)
  BY <1>5 DEF GlobOk, FitsLater
<1>7. Right(start)
  BY <1>3, <1>5, <1>6
<1>8. GlobMeans(pattern, text, start) <=> Fits(pattern, text)
  BY <1>5, <1>6, FitsAll DEF GlobMeans
<1>9. GlobMatch(pattern, text) = GlobMeans(pattern, text, start)
  BY <1>2, <1>4, <1>7
<1> QED BY <1>8, <1>9

(* In a finite set with an order, some member has none above it: the sets  *)
(* of the members above each are ordered well by inclusion.                *)
LEMMA SomeIsHighest ==
  ASSUME NEW S, IsFiniteSet(S), S # {}, NEW R,
         \A x \in S : <<x, x>> \notin R,
         \A x, y, z \in S : <<x, y>> \in R /\ <<y, z>> \in R => <<x, z>> \in R
  PROVE  \E x \in S : \A y \in S : <<x, y>> \notin R
<1> DEFINE Up(x) == {y \in S : <<x, y>> \in R}
           T == {Up(x) : x \in S}
<1>1. T \subseteq FiniteSubsetsOf(S) /\ T # {}
  <2>1. ASSUME NEW x \in S PROVE Up(x) \in SUBSET S /\ IsFiniteSet(Up(x))
    <3>1. PICK U : U = Up(x)
      OBVIOUS
    <3>2. U \in SUBSET S
      BY <3>1
    <3> QED BY <3>1, <3>2, FS_Subset
  <2> HIDE DEF Up
  <2>2. \A t \in T : t \in FiniteSubsetsOf(S)
    BY <2>1 DEF FiniteSubsetsOf
  <2> QED BY <2>2
<1>2. IsWellFoundedOn(StrictSubsetOrdering(S), FiniteSubsetsOf(S))
  BY FS_StrictSubsetOrderingWellFounded
<1>3. PICK least \in T : \A t \in T : ~(<<t, least>> \in StrictSubsetOrdering(S))
  <2> HIDE DEF T
  <2> QED BY <1>1, <1>2, WFMin
<1>4. PICK x \in S : least = Up(x)
  BY <1>3
<1>5. ASSUME NEW y \in S, <<x, y>> \in R PROVE FALSE
  <2>1. Up(y) \subseteq Up(x)
    BY <1>5
  <2>2. y \in Up(x) /\ y \notin Up(y)
    BY <1>5
  <2>3. Up(y) \in T /\ Up(y) \in SUBSET S /\ Up(x) \in SUBSET S
    OBVIOUS
  <2> HIDE DEF T, Up
  <2>4. ~(<<Up(y), Up(x)>> \in StrictSubsetOrdering(S))
    BY <1>3, <1>4, <2>3
  <2>5. ~(Up(y) \subseteq Up(x) /\ Up(y) # Up(x))
    BY <2>3, <2>4, Zenon DEF StrictSubsetOrdering
  <2> QED BY <2>1, <2>2, <2>5
<1> QED BY <1>5

(* How specific a pattern is, and the orders of what is compared.          *)
LEMMA SpecificityIs ==
  ASSUME NEW T, NEW pattern \in Seq(T)
  PROVE  \E exact \in {0, 1}, literal \in Nat : Specificity(pattern) = <<exact, literal>>
<1>1. PICK S : S = {i \in DOMAIN pattern : pattern[i] \notin {"*", "?"}}
  OBVIOUS
<1>2. IsFiniteSet(1 .. Len(pattern)) /\ S \subseteq 1 .. Len(pattern)
  BY <1>1, FS_Interval
<1>3. Cardinality(S) \in Nat
  BY <1>2, FS_Subset, FS_CardinalityType
<1>4. Specificity(pattern) = <<IF Cardinality(S) = Len(pattern) THEN 1 ELSE 0, Cardinality(S)>>
  BY <1>1 DEF Specificity
<1> QED BY <1>3, <1>4

LEMMA BelowPairs ==
  ASSUME NEW a \in Nat, NEW b \in Nat, NEW c \in Nat, NEW d \in Nat
  PROVE  Below(<<a, b>>, <<c, d>>) <=> a < c \/ (a = c /\ b < d)
<1>1. PICK x, y : x = <<a, b>> /\ y = <<c, d>>
  OBVIOUS
<1>2. /\ DOMAIN x = 1 .. 2 /\ x[1] = a /\ x[2] = b /\ y[1] = c /\ y[2] = d
      /\ 1 .. 1 - 1 = {} /\ 1 .. 2 - 1 = {1} /\ 1 .. 2 = {1, 2}
  BY <1>1
<1>3. Below(x, y) <=> x[1] < y[1] \/ (x[1] = y[1] /\ x[2] < y[2])
  BY <1>2 DEF Below
<1> QED BY <1>1, <1>2, <1>3

IsRankOf(rank, a, b, c, d) ==
  /\ a \in Nat /\ b \in Nat /\ c \in Nat /\ d \in Nat
  /\ rank = <<a, b, c, d>>

LEMMA BelowRanks ==
  ASSUME NEW x, NEW a, NEW b, NEW c, NEW d, IsRankOf(x, a, b, c, d),
         NEW y, NEW e, NEW f, NEW g, NEW h, IsRankOf(y, e, f, g, h)
  PROVE  Below(x, y) <=>
           \/ a < e
           \/ a = e /\ b < f
           \/ a = e /\ b = f /\ c < g
           \/ a = e /\ b = f /\ c = g /\ d < h
<1>1. /\ DOMAIN x = {1, 2, 3, 4} /\ x[1] = a /\ x[2] = b /\ x[3] = c /\ x[4] = d
      /\ y[1] = e /\ y[2] = f /\ y[3] = g /\ y[4] = h
      /\ 1 .. 1 - 1 = {} /\ 1 .. 2 - 1 = {1} /\ 1 .. 3 - 1 = {1, 2} /\ 1 .. 4 - 1 = {1, 2, 3}
  BY DEF IsRankOf
<1>2. Below(x, y) <=> \/ x[1] < y[1]
                      \/ x[2] < y[2] /\ x[1] = y[1]
                      \/ x[3] < y[3] /\ x[1] = y[1] /\ x[2] = y[2]
                      \/ x[4] < y[4] /\ x[1] = y[1] /\ x[2] = y[2] /\ x[3] = y[3]
  BY <1>1 DEF Below
<1> QED BY <1>1, <1>2

(* A claim of a script on a chip, in its parts.                            *)
IsClaimOf(claim, library, exact, literal, plain) ==
  /\ library \in BOOLEAN /\ exact \in {0, 1} /\ literal \in Nat /\ plain \in BOOLEAN
  /\ claim = <<library, <<exact, literal>>, plain>>
IsClaim(claim) ==
  \E library, exact, literal, plain : IsClaimOf(claim, library, exact, literal, plain)

LEMMA StrongerIs ==
  ASSUME NEW a, NEW b, NEW l, NEW e, NEW n, NEW p, NEW m, NEW f, NEW o, NEW q,
         IsClaimOf(a, l, e, n, p), IsClaimOf(b, m, f, o, q)
  PROVE  StrongerClaim(a, b) <=>
           \/ l /\ ~m
           \/ l = m /\ (f < e \/ (f = e /\ o < n))
           \/ l = m /\ e = f /\ n = o /\ p /\ ~q
<1>1. a[1] = l /\ a[2] = <<e, n>> /\ a[3] = p /\ b[1] = m /\ b[2] = <<f, o>> /\ b[3] = q
  BY DEF IsClaimOf
<1>2. Below(<<f, o>>, <<e, n>>) <=> f < e \/ (f = e /\ o < n)
  <2>1. f \in Nat /\ o \in Nat /\ e \in Nat /\ n \in Nat
    BY DEF IsClaimOf
  <2> QED BY <2>1, BelowPairs
<1>3. a[2] = b[2] <=> e = f /\ n = o
  BY <1>1
<1> QED BY <1>1, <1>2, <1>3, Zenon DEF StrongerClaim

LEMMA StrongerIsOrder ==
  /\ \A a : IsClaim(a) => ~StrongerClaim(a, a)
  /\ \A a, b, c : IsClaim(a) /\ IsClaim(b) /\ IsClaim(c)
                    /\ StrongerClaim(a, b) /\ StrongerClaim(b, c) => StrongerClaim(a, c)
<1>1. ASSUME NEW a, IsClaim(a) PROVE ~StrongerClaim(a, a)
  <2>1. PICK l, e, n, p : IsClaimOf(a, l, e, n, p)
    BY <1>1 DEF IsClaim
  <2>2. l \in BOOLEAN /\ e \in Nat /\ n \in Nat /\ p \in BOOLEAN
    BY <2>1 DEF IsClaimOf
  <2>3. ~(e < e) /\ ~(n < n)
    BY <2>2
  <2> QED BY <2>1, <2>3, StrongerIs
<1>2. ASSUME NEW a, NEW b, NEW c, IsClaim(a), IsClaim(b), IsClaim(c),
             StrongerClaim(a, b), StrongerClaim(b, c)
      PROVE  StrongerClaim(a, c)
  <2>1. PICK l, e, n, p : IsClaimOf(a, l, e, n, p)
    BY <1>2 DEF IsClaim
  <2>2. PICK m, f, o, q : IsClaimOf(b, m, f, o, q)
    BY <1>2 DEF IsClaim
  <2>3. PICK k, g, i, r : IsClaimOf(c, k, g, i, r)
    BY <1>2 DEF IsClaim
  <2>4. /\ l \in BOOLEAN /\ e \in Nat /\ n \in Nat /\ p \in BOOLEAN
        /\ m \in BOOLEAN /\ f \in Nat /\ o \in Nat /\ q \in BOOLEAN
        /\ k \in BOOLEAN /\ g \in Nat /\ i \in Nat /\ r \in BOOLEAN
    BY <2>1, <2>2, <2>3 DEF IsClaimOf
  <2>5. \/ l /\ ~m
        \/ l = m /\ (f < e \/ (f = e /\ o < n))
        \/ l = m /\ e = f /\ n = o /\ p /\ ~q
    BY <1>2, <2>1, <2>2, StrongerIs
  <2>6. \/ m /\ ~k
        \/ m = k /\ (g < f \/ (g = f /\ i < o))
        \/ m = k /\ f = g /\ o = i /\ q /\ ~r
    BY <1>2, <2>2, <2>3, StrongerIs
  <2>7. \/ l /\ ~k
        \/ l = k /\ (g < e \/ (g = e /\ i < n))
        \/ l = k /\ e = g /\ n = i /\ p /\ ~r
    <3>1. (g < f \/ (g = f /\ i < o)) /\ (f < e \/ (f = e /\ o < n)) => g < e \/ (g = e /\ i < n)
      BY <2>4
    <3> QED BY <2>4, <2>5, <2>6, <3>1
  <2> QED BY <2>1, <2>3, <2>7, StrongerIs
<1> QED BY <1>1, <1>2

(* Scripts of the catalog, and which are about a chip.                     *)
IsScript(s) ==
  /\ \E k \in Nat : s.chips \in [1 .. k -> ChipPatterns] /\ DOMAIN s.chips = 1 .. k
  /\ s.variant \in BOOLEAN /\ s.prepare_only \in BOOLEAN
IsChip(chip) == Len(chip) \in Nat /\ \A i \in 1 .. Len(chip) : chip[i] # "*"
Fitting(s, chip) == {i \in DOMAIN s.chips : Fits(s.chips[i], chip)}

LEMMA ScriptsAre ==
  /\ \A s \in Script : IsScript(s)
  /\ \A chip \in ChipNames : IsChip(chip)
<1>1. ASSUME NEW s \in Script PROVE IsScript(s)
  <2>1. s.chips \in UNION {[1 .. n -> ChipPatterns] : n \in 0 .. MaxPatterns}
        /\ s.variant \in BOOLEAN /\ s.prepare_only \in BOOLEAN
    BY DEF Script
  <2>2. PICK n \in 0 .. MaxPatterns : s.chips \in [1 .. n -> ChipPatterns]
    BY <2>1
  <2>3. n \in Nat /\ DOMAIN s.chips = 1 .. n
    BY <2>2
  <2> QED BY <2>1, <2>2, <2>3 DEF IsScript
<1>2. ASSUME NEW chip \in ChipNames PROVE IsChip(chip)
  <2>1. chip \in Seq(STRING)
    BY CatalogAssumption
  <2>2. Len(chip) \in Nat /\ DOMAIN chip = 1 .. Len(chip)
    BY <2>1
  <2>3. \A i \in DOMAIN chip : chip[i] # "*"
    BY CatalogAssumption
  <2> QED BY <2>2, <2>3 DEF IsChip
<1> QED BY <1>1, <1>2

LEMMA MatchingIs ==
  ASSUME NEW s, IsScript(s), NEW chip, IsChip(chip)
  PROVE  /\ Matching(s, chip) = Fitting(s, chip) /\ IsFiniteSet(Matching(s, chip))
         /\ \A i \in DOMAIN s.chips : i \in Nat /\ s.chips[i] \in Seq(STRING)
<1>1. PICK k \in Nat : s.chips \in [1 .. k -> ChipPatterns] /\ DOMAIN s.chips = 1 .. k
  BY DEF IsScript
<1>2. \A i \in DOMAIN s.chips : i \in Nat /\ s.chips[i] \in Seq(STRING)
  BY <1>1, CatalogAssumption
<1>3. ASSUME NEW i \in DOMAIN s.chips PROVE GlobMatch(s.chips[i], chip) <=> Fits(s.chips[i], chip)
  <2>1. PICK pattern \in Seq(STRING) : pattern = s.chips[i]
    BY <1>2
  <2>2. GlobMatch(pattern, chip) <=> Fits(pattern, chip)
    BY GlobMatchFits DEF IsChip
  <2> QED BY <2>1, <2>2
<1>4. Matching(s, chip) = Fitting(s, chip)
  BY <1>3 DEF Matching, Fitting
<1>5. IsFiniteSet(1 .. k) /\ Matching(s, chip) \subseteq 1 .. k
  BY <1>1, FS_Interval DEF Matching
<1>6. IsFiniteSet(Matching(s, chip))
  BY <1>5, FS_Subset
<1> QED BY <1>2, <1>4, <1>6

(* The best pattern is one that matches, and none that does is more        *)
(* specific.                                                               *)
LEMMA BestPatternIs ==
  ASSUME NEW s, IsScript(s), NEW chip, IsChip(chip), Matching(s, chip) # {}
  PROVE  \E b \in Matching(s, chip) :
           /\ BestPattern(s, chip) = s.chips[b]
           /\ \A j \in Matching(s, chip) :
                ~Below(Specificity(s.chips[b]), Specificity(s.chips[j]))
<1>1. PICK M : M = Matching(s, chip)
  OBVIOUS
<1>2. IsFiniteSet(M) /\ M # {} /\ \A i \in M : i \in Nat /\ s.chips[i] \in Seq(STRING)
  BY <1>1, MatchingIs DEF Matching
<1>3. \A i \in M : \E e \in {0, 1}, n \in Nat : Specificity(s.chips[i]) = <<e, n>>
  BY <1>2, SpecificityIs
<1>4. PICK E : E = [i \in M |-> Specificity(s.chips[i])[1]]
  OBVIOUS
<1>5. PICK L : L = [i \in M |-> Specificity(s.chips[i])[2]]
  OBVIOUS
<1>6. \A i \in M : E[i] \in Nat /\ L[i] \in Nat /\ Specificity(s.chips[i]) = <<E[i], L[i]>>
  <2>1. ASSUME NEW i \in M
        PROVE  E[i] \in Nat /\ L[i] \in Nat /\ Specificity(s.chips[i]) = <<E[i], L[i]>>
    <3>1. PICK e \in {0, 1}, n \in Nat : Specificity(s.chips[i]) = <<e, n>>
      BY <1>3
    <3>2. E[i] = e /\ L[i] = n
      BY <1>4, <1>5, <3>1
    <3> QED BY <3>1, <3>2
  <2> QED BY <2>1
<1>7. \A i, j \in M : Below(Specificity(s.chips[i]), Specificity(s.chips[j])) <=>
                        E[i] < E[j] \/ (E[i] = E[j] /\ L[i] < L[j])
  <2>1. ASSUME NEW i \in M, NEW j \in M
        PROVE  Below(Specificity(s.chips[i]), Specificity(s.chips[j])) <=>
                 E[i] < E[j] \/ (E[i] = E[j] /\ L[i] < L[j])
    <3>1. Below(<<E[i], L[i]>>, <<E[j], L[j]>>) <=> E[i] < E[j] \/ (E[i] = E[j] /\ L[i] < L[j])
      BY <1>6, BelowPairs
    <3> QED BY <1>6, <3>1
  <2> QED BY <2>1
<1>8. \A i, j \in M : Specificity(s.chips[i]) = Specificity(s.chips[j]) <=>
                        E[i] = E[j] /\ L[i] = L[j]
  BY <1>6
<1> DEFINE Less(i, j) == \/ E[i] < E[j]
                         \/ E[i] = E[j] /\ L[i] < L[j]
                         \/ E[i] = E[j] /\ L[i] = L[j] /\ i < j
           Order == {pair \in M \X M : Less(pair[1], pair[2])}
<1>9. PICK R : R = Order
  OBVIOUS
<1>10. \A i, j \in M : <<i, j>> \in R <=> Less(i, j)
  BY <1>9
<1>11. \A i \in M : <<i, i>> \notin R
  <2>1. \A i \in M : ~Less(i, i)
    BY <1>2, <1>6
  <2> HIDE DEF Less
  <2> QED BY <1>10, <2>1
<1>12. \A i, j, k \in M : <<i, j>> \in R /\ <<j, k>> \in R => <<i, k>> \in R
  <2>1. ASSUME NEW i \in M, NEW j \in M, NEW k \in M, Less(i, j), Less(j, k) PROVE Less(i, k)
    <3>1. /\ E[i] \in Nat /\ E[j] \in Nat /\ E[k] \in Nat
          /\ L[i] \in Nat /\ L[j] \in Nat /\ L[k] \in Nat /\ i \in Nat /\ j \in Nat /\ k \in Nat
      BY <1>2, <1>6
    <3> QED BY <2>1, <3>1
  <2> HIDE DEF Less
  <2> QED BY <1>10, <2>1
<1>13. PICK b \in M : \A j \in M : <<b, j>> \notin R
  BY <1>2, <1>11, <1>12, SomeIsHighest
<1> DEFINE IsBest(i) == \A j \in M \ {i} :
             \/ Below(Specificity(s.chips[j]), Specificity(s.chips[i]))
             \/ Specificity(s.chips[j]) = Specificity(s.chips[i]) /\ j < i
<1>14. \A i \in M : IsBest(i) <=> \A j \in M \ {i} : Less(j, i)
  BY <1>7, <1>8
<1>15. \A j \in M \ {b} : Less(j, b)
  <2>1. \A j \in M \ {b} : ~Less(b, j)
    BY <1>10, <1>13
  <2> QED BY <1>2, <1>6, <2>1
<1>16. BestPattern(s, chip) = s.chips[CHOOSE i \in M : IsBest(i)]
  BY <1>1 DEF BestPattern
<1> HIDE DEF IsBest
<1>17. PICK c \in M : c = (CHOOSE i \in M : IsBest(i)) /\ IsBest(c)
  BY <1>14, <1>15
<1>18. \A j \in M : ~Below(Specificity(s.chips[c]), Specificity(s.chips[j]))
  <2>1. \A j \in M \ {c} : Less(j, c)
    BY <1>14, <1>17
  <2>2. \A j \in M : ~(E[c] < E[j] \/ (E[c] = E[j] /\ L[c] < L[j]))
    BY <1>6, <2>1
  <2> QED BY <1>7, <2>2
<1> QED BY <1>1, <1>16, <1>17, <1>18

(* The claim by its best pattern is the strongest of a script.             *)
BestClaim(s, chip) ==
  <<s.source = "library", Specificity(BestPattern(s, chip)), ~s.variant>>
IsContender(s, chip) == s.prepare_only /\ Matching(s, chip) # {}

LEMMA ClaimsAre ==
  ASSUME NEW s, IsScript(s), NEW chip, IsChip(chip)
  PROVE  /\ \A claim \in Claims(s, chip) : IsClaim(claim)
         /\ Claims(s, chip) # {} => IsContender(s, chip)
         /\ IsContender(s, chip) =>
              /\ BestClaim(s, chip) \in Claims(s, chip)
              /\ \A claim \in Claims(s, chip) :
                   claim = BestClaim(s, chip) \/ StrongerClaim(BestClaim(s, chip), claim)
<1>1. Matching(s, chip) = Fitting(s, chip)
      /\ \A i \in DOMAIN s.chips : s.chips[i] \in Seq(STRING)
  BY MatchingIs
<1>2. s.variant \in BOOLEAN /\ s.prepare_only \in BOOLEAN
  BY DEF IsScript
<1> DEFINE ClaimBy(i) == <<s.source = "library", Specificity(s.chips[i]), ~s.variant>>
<1>3. Claims(s, chip) =
        {ClaimBy(i) : i \in {j \in DOMAIN s.chips : s.prepare_only /\ j \in Matching(s, chip)}}
  <2>1. {j \in DOMAIN s.chips : s.prepare_only /\ Fits(s.chips[j], chip)} =
          {j \in DOMAIN s.chips : s.prepare_only /\ j \in Matching(s, chip)}
    BY <1>1 DEF Fitting
  <2> QED BY <2>1, Zenon DEF Claims
<1>4. ASSUME NEW i \in DOMAIN s.chips
      PROVE  \E e \in {0, 1}, n \in Nat :
               /\ Specificity(s.chips[i]) = <<e, n>>
               /\ IsClaimOf(ClaimBy(i), s.source = "library", e, n, ~s.variant)
  <2>1. PICK e \in {0, 1}, n \in Nat : Specificity(s.chips[i]) = <<e, n>>
    BY <1>1, SpecificityIs
  <2>2. (s.source = "library") \in BOOLEAN /\ (~s.variant) \in BOOLEAN
    BY <1>2
  <2>3. ClaimBy(i) = <<s.source = "library", <<e, n>>, ~s.variant>>
    BY <2>1
  <2>4. IsClaimOf(ClaimBy(i), s.source = "library", e, n, ~s.variant)
    BY <2>2, <2>3, Zenon DEF IsClaimOf
  <2> QED BY <2>1, <2>4
<1>5. ASSUME NEW claim \in Claims(s, chip) PROVE IsClaim(claim)
  <2>1. PICK i \in DOMAIN s.chips : claim = ClaimBy(i)
    BY <1>3
  <2> QED BY <1>4, <2>1, Zenon DEF IsClaim
<1>6. ASSUME Claims(s, chip) # {} PROVE IsContender(s, chip)
  BY <1>3, <1>6 DEF IsContender
<1>7. ASSUME IsContender(s, chip)
      PROVE  /\ BestClaim(s, chip) \in Claims(s, chip)
             /\ \A claim \in Claims(s, chip) :
                  claim = BestClaim(s, chip) \/ StrongerClaim(BestClaim(s, chip), claim)
  <2>1. PICK b \in Matching(s, chip) :
          /\ BestPattern(s, chip) = s.chips[b]
          /\ \A j \in Matching(s, chip) :
               ~Below(Specificity(s.chips[b]), Specificity(s.chips[j]))
    BY <1>7, BestPatternIs DEF IsContender
  <2>2. b \in DOMAIN s.chips /\ BestClaim(s, chip) = ClaimBy(b) /\ s.prepare_only
    BY <1>7, <2>1 DEF BestClaim, Matching, IsContender
  <2>3. BestClaim(s, chip) \in Claims(s, chip)
    BY <1>3, <2>1, <2>2
  <2>4. ASSUME NEW claim \in Claims(s, chip)
        PROVE  claim = BestClaim(s, chip) \/ StrongerClaim(BestClaim(s, chip), claim)
    <3>1. PICK j \in Matching(s, chip) : j \in DOMAIN s.chips /\ claim = ClaimBy(j)
      BY <1>3
    <3>2. PICK e \in {0, 1}, n \in Nat :
            /\ Specificity(s.chips[b]) = <<e, n>>
            /\ IsClaimOf(ClaimBy(b), s.source = "library", e, n, ~s.variant)
      BY <1>4, <2>2
    <3>3. PICK f \in {0, 1}, o \in Nat :
            /\ Specificity(s.chips[j]) = <<f, o>>
            /\ IsClaimOf(ClaimBy(j), s.source = "library", f, o, ~s.variant)
      BY <1>4, <3>1
    <3>4. ~(e < f \/ (e = f /\ n < o))
      <4>1. ~Below(<<e, n>>, <<f, o>>)
        BY <2>1, <3>1, <3>2, <3>3
      <4>2. e \in Nat /\ f \in Nat
        OBVIOUS
      <4> QED BY <4>1, <4>2, BelowPairs
    <3>5. (e = f /\ n = o) \/ f < e \/ (f = e /\ o < n)
      BY <3>4
    <3>6. CASE e = f /\ n = o
      BY <2>2, <3>1, <3>2, <3>3, <3>6
    <3>7. CASE f < e \/ (f = e /\ o < n)
      <4>1. StrongerClaim(ClaimBy(b), ClaimBy(j))
        <5> HIDE DEF ClaimBy
        <5> QED BY <3>2, <3>3, <3>7, StrongerIs
      <4> QED BY <2>2, <3>1, <4>1
    <3> QED BY <3>5, <3>6, <3>7
  <2> QED BY <2>3, <2>4
<1> QED BY <1>5, <1>6, <1>7

(* Ranks are ordered as the best claims are.                               *)
LEMMA BestClaimIs ==
  ASSUME NEW s, IsScript(s), NEW chip, IsChip(chip), Matching(s, chip) # {}
  PROVE  \E e \in {0, 1}, n \in Nat :
           /\ Specificity(BestPattern(s, chip)) = <<e, n>>
           /\ IsClaimOf(BestClaim(s, chip), s.source = "library", e, n, ~s.variant)
           /\ Rank(s, chip) = <<IF s.source = "library" THEN 1 ELSE 0, e, n,
                                IF s.variant THEN 0 ELSE 1>>
<1>1. PICK b \in Matching(s, chip) : BestPattern(s, chip) = s.chips[b]
  BY BestPatternIs
<1>2. b \in DOMAIN s.chips
  BY DEF Matching
<1>3. s.chips[b] \in Seq(STRING)
  BY <1>2, MatchingIs
<1>4. PICK e \in {0, 1}, n \in Nat : Specificity(BestPattern(s, chip)) = <<e, n>>
  BY <1>1, <1>3, SpecificityIs
<1>5. (s.source = "library") \in BOOLEAN /\ (~s.variant) \in BOOLEAN
  BY DEF IsScript
<1>6. BestClaim(s, chip) = <<s.source = "library", <<e, n>>, ~s.variant>>
  BY <1>4 DEF BestClaim
<1>7. IsClaimOf(BestClaim(s, chip), s.source = "library", e, n, ~s.variant)
  BY <1>5, <1>6, Zenon DEF IsClaimOf
<1>8. Rank(s, chip) = <<IF s.source = "library" THEN 1 ELSE 0, e, n, IF s.variant THEN 0 ELSE 1>>
  <2>1. PICK pair : pair = Specificity(BestPattern(s, chip))
    OBVIOUS
  <2>2. pair[1] = e /\ pair[2] = n
    BY <1>4, <2>1
  <2> QED BY <2>1, <2>2 DEF Rank
<1> QED BY <1>4, <1>7, <1>8

LEMMA RanksCompare ==
  ASSUME NEW s, IsScript(s), NEW r, IsScript(r), NEW chip, IsChip(chip),
         Matching(s, chip) # {}, Matching(r, chip) # {}
  PROVE  StrongerClaim(BestClaim(s, chip), BestClaim(r, chip)) <=>
           Below(Rank(r, chip), Rank(s, chip))
<1>1. PICK l \in BOOLEAN, p \in BOOLEAN, e \in {0, 1}, n \in Nat :
        /\ l = (s.source = "library") /\ p = ~s.variant
        /\ IsClaimOf(BestClaim(s, chip), l, e, n, p)
        /\ Rank(s, chip) = <<IF l THEN 1 ELSE 0, e, n, IF p THEN 1 ELSE 0>>
  <2>1. PICK e \in {0, 1}, n \in Nat :
          /\ IsClaimOf(BestClaim(s, chip), s.source = "library", e, n, ~s.variant)
          /\ Rank(s, chip) = <<IF s.source = "library" THEN 1 ELSE 0, e, n,
                               IF s.variant THEN 0 ELSE 1>>
    BY BestClaimIs
  <2>2. s.variant \in BOOLEAN
    BY DEF IsScript
  <2>3. (IF s.variant THEN 0 ELSE 1) = (IF ~s.variant THEN 1 ELSE 0)
    BY <2>2
  <2>4. (s.source = "library") \in BOOLEAN /\ (~s.variant) \in BOOLEAN
    BY <2>2
  <2> QED BY ZenonT(30), <2>1, <2>3, <2>4
<1>2. PICK m \in BOOLEAN, q \in BOOLEAN, f \in {0, 1}, o \in Nat :
        /\ m = (r.source = "library") /\ q = ~r.variant
        /\ IsClaimOf(BestClaim(r, chip), m, f, o, q)
        /\ Rank(r, chip) = <<IF m THEN 1 ELSE 0, f, o, IF q THEN 1 ELSE 0>>
  <2>1. PICK f \in {0, 1}, o \in Nat :
          /\ IsClaimOf(BestClaim(r, chip), r.source = "library", f, o, ~r.variant)
          /\ Rank(r, chip) = <<IF r.source = "library" THEN 1 ELSE 0, f, o,
                               IF r.variant THEN 0 ELSE 1>>
    BY BestClaimIs
  <2>2. r.variant \in BOOLEAN
    BY DEF IsScript
  <2>3. (IF r.variant THEN 0 ELSE 1) = (IF ~r.variant THEN 1 ELSE 0)
    BY <2>2
  <2>4. (r.source = "library") \in BOOLEAN /\ (~r.variant) \in BOOLEAN
    BY <2>2
  <2> QED BY ZenonT(30), <2>1, <2>3, <2>4
<1>3. PICK a \in Nat, b \in Nat, c \in Nat, d \in Nat :
        /\ a = (IF l THEN 1 ELSE 0) /\ b = (IF p THEN 1 ELSE 0)
        /\ c = (IF m THEN 1 ELSE 0) /\ d = (IF q THEN 1 ELSE 0)
  OBVIOUS
<1>4. Rank(s, chip) = <<a, e, n, b>> /\ Rank(r, chip) = <<c, f, o, d>>
  BY <1>1, <1>2, <1>3
<1>5. Below(Rank(r, chip), Rank(s, chip)) <=>
        \/ c < a
        \/ c = a /\ f < e
        \/ c = a /\ f = e /\ o < n
        \/ c = a /\ f = e /\ o = n /\ d < b
  <2>1. IsRankOf(Rank(r, chip), c, f, o, d) /\ IsRankOf(Rank(s, chip), a, e, n, b)
    BY <1>4 DEF IsRankOf
  <2> QED BY <2>1, BelowRanks
<1>6. (c < a <=> l /\ ~m) /\ (c = a <=> l = m) /\ (d < b <=> p /\ ~q)
  BY <1>3
<1>7. StrongerClaim(BestClaim(s, chip), BestClaim(r, chip)) <=>
        \/ l /\ ~m
        \/ l = m /\ (f < e \/ (f = e /\ o < n))
        \/ l = m /\ e = f /\ n = o /\ p /\ ~q
  BY <1>1, <1>2, StrongerIs
<1>8. (e = f <=> f = e) /\ (n = o <=> o = n)
  OBVIOUS
<1> QED BY <1>5, <1>6, <1>7, <1>8, Zenon

(* The scripts that hold a strongest claim are those of the best rank.     *)
CatalogOk ==
  \E n \in Nat : scripts \in [1 .. n -> Script] /\ DOMAIN scripts = 1 .. n

Holders(chip) == {i \in DOMAIN scripts : Claims(scripts[i], chip) \cap StrongestClaims(chip) # {}}

LEMMA ForemostHold ==
  ASSUME CatalogOk, NEW chip, IsChip(chip)
  PROVE  Holders(chip) = Foremost(chip)
<1>1. \A i \in DOMAIN scripts : IsScript(scripts[i])
  BY ScriptsAre DEF CatalogOk
<1>2. PICK all : all = UNION {Claims(scripts[i], chip) : i \in DOMAIN scripts}
  OBVIOUS
<1>3. /\ \A claim : claim \in all <=> \E i \in DOMAIN scripts : claim \in Claims(scripts[i], chip)
      /\ StrongestClaims(chip) = {c \in all : ~\E d \in all : StrongerClaim(d, c)}
  BY <1>2 DEF StrongestClaims
<1>4. \A i : i \in Contenders(chip) <=> i \in DOMAIN scripts /\ IsContender(scripts[i], chip)
  BY DEF Contenders, IsContender
<1>5. ASSUME NEW i \in Contenders(chip)
      PROVE  /\ BestClaim(scripts[i], chip) \in Claims(scripts[i], chip)
             /\ BestClaim(scripts[i], chip) \in all /\ IsClaim(BestClaim(scripts[i], chip))
             /\ i \in DOMAIN scripts /\ IsScript(scripts[i]) /\ Matching(scripts[i], chip) # {}
  <2>1. i \in DOMAIN scripts /\ IsScript(scripts[i]) /\ IsContender(scripts[i], chip)
    BY <1>1, <1>4
  <2>2. BestClaim(scripts[i], chip) \in Claims(scripts[i], chip)
    BY <2>1, ClaimsAre
  <2>3. IsClaim(BestClaim(scripts[i], chip))
    BY <2>1, <2>2, ClaimsAre
  <2> QED BY <1>3, <2>1, <2>2, <2>3 DEF IsContender
<1>6. ASSUME NEW i \in DOMAIN scripts, NEW claim \in Claims(scripts[i], chip)
      PROVE  /\ i \in Contenders(chip) /\ claim \in all /\ IsClaim(claim)
             /\ \/ claim = BestClaim(scripts[i], chip)
                \/ StrongerClaim(BestClaim(scripts[i], chip), claim)
  <2>1. IsScript(scripts[i]) /\ Claims(scripts[i], chip) # {}
    BY <1>1
  <2>2. IsContender(scripts[i], chip)
    BY <2>1, ClaimsAre
  <2>3. /\ IsClaim(claim)
        /\ \/ claim = BestClaim(scripts[i], chip)
           \/ StrongerClaim(BestClaim(scripts[i], chip), claim)
    BY <2>1, <2>2, ClaimsAre
  <2> QED BY <1>3, <1>4, <2>2, <2>3
<1>7. ASSUME NEW i \in Contenders(chip), NEW j \in Contenders(chip)
      PROVE  Below(Rank(scripts[i], chip), Rank(scripts[j], chip)) <=>
               StrongerClaim(BestClaim(scripts[j], chip), BestClaim(scripts[i], chip))
  BY <1>5, RanksCompare
<1>8. ASSUME NEW i \in Foremost(chip) PROVE i \in Holders(chip)
  <2>1. i \in Contenders(chip)
        /\ \A j \in Contenders(chip) : ~Below(Rank(scripts[i], chip), Rank(scripts[j], chip))
    BY DEF Foremost
  <2>2. ASSUME NEW d \in all, StrongerClaim(d, BestClaim(scripts[i], chip)) PROVE FALSE
    <3>1. PICK j \in DOMAIN scripts : d \in Claims(scripts[j], chip)
      BY <1>3
    <3>2. /\ j \in Contenders(chip) /\ IsClaim(d)
          /\ d = BestClaim(scripts[j], chip) \/ StrongerClaim(BestClaim(scripts[j], chip), d)
      BY <1>6, <3>1
    <3>3. IsClaim(BestClaim(scripts[j], chip)) /\ IsClaim(BestClaim(scripts[i], chip))
      BY <1>5, <2>1, <3>2
    <3>4. StrongerClaim(BestClaim(scripts[j], chip), BestClaim(scripts[i], chip))
      BY <2>2, <3>2, <3>3, StrongerIsOrder
    <3> QED BY <1>7, <2>1, <3>2, <3>4
  <2>3. BestClaim(scripts[i], chip) \in StrongestClaims(chip)
    BY <1>3, <1>5, <2>1, <2>2
  <2> QED BY <1>5, <2>1, <2>3 DEF Holders
<1>9. ASSUME NEW i \in Holders(chip) PROVE i \in Foremost(chip)
  <2>1. PICK c \in Claims(scripts[i], chip) : c \in StrongestClaims(chip) /\ i \in DOMAIN scripts
    BY DEF Holders
  <2>2. /\ i \in Contenders(chip)
        /\ c = BestClaim(scripts[i], chip) \/ StrongerClaim(BestClaim(scripts[i], chip), c)
    BY <1>6, <2>1
  <2>3. c = BestClaim(scripts[i], chip)
    BY <1>3, <1>5, <2>1, <2>2
  <2>4. ASSUME NEW j \in Contenders(chip)
        PROVE  ~Below(Rank(scripts[i], chip), Rank(scripts[j], chip))
    BY <1>3, <1>5, <1>7, <2>1, <2>2, <2>3
  <2> QED BY <2>2, <2>4 DEF Foremost
<1>10. Foremost(chip) \subseteq Holders(chip) /\ Holders(chip) \subseteq Foremost(chip)
  BY <1>8, <1>9
<1> QED BY <1>10

(* One of the candidates has the best rank.                                *)
LEMMA SomeIsForemost ==
  ASSUME CatalogOk, NEW chip, IsChip(chip), Contenders(chip) # {}
  PROVE  /\ Foremost(chip) # {} /\ IsFiniteSet(Foremost(chip))
         /\ Foremost(chip) \subseteq DOMAIN scripts
<1>1. PICK S : S = Contenders(chip)
  OBVIOUS
<1>2. PICK n \in Nat : DOMAIN scripts = 1 .. n /\ \A i \in 1 .. n : IsScript(scripts[i])
  BY ScriptsAre DEF CatalogOk
<1>3. IsFiniteSet(1 .. n) /\ S \subseteq 1 .. n /\ Foremost(chip) \subseteq S
  BY <1>1, <1>2, FS_Interval DEF Contenders, Foremost
<1>4. IsFiniteSet(S) /\ IsFiniteSet(Foremost(chip)) /\ S # {}
  <2>1. IsFiniteSet(S)
    BY <1>3, FS_Subset
  <2> QED BY <1>1, <1>3, <2>1, FS_Subset
<1>5. \A i \in S : IsScript(scripts[i]) /\ Matching(scripts[i], chip) # {}
                   /\ IsContender(scripts[i], chip)
  BY <1>1, <1>2 DEF Contenders, IsContender
<1>6. \A i \in S : IsClaim(BestClaim(scripts[i], chip))
  BY <1>5, ClaimsAre
<1>7. PICK R : R = {pair \in S \X S : StrongerClaim(BestClaim(scripts[pair[2]], chip),
                                                    BestClaim(scripts[pair[1]], chip))}
  OBVIOUS
<1>8. \A i, j \in S : <<i, j>> \in R <=>
        StrongerClaim(BestClaim(scripts[j], chip), BestClaim(scripts[i], chip))
  BY <1>7
<1>9. \A i \in S : <<i, i>> \notin R
  BY <1>6, <1>8, StrongerIsOrder
<1>10. \A i, j, k \in S : <<i, j>> \in R /\ <<j, k>> \in R => <<i, k>> \in R
  <2>1. ASSUME NEW i \in S, NEW j \in S, NEW k \in S, <<i, j>> \in R, <<j, k>> \in R
        PROVE  <<i, k>> \in R
    <3>1. /\ StrongerClaim(BestClaim(scripts[j], chip), BestClaim(scripts[i], chip))
          /\ StrongerClaim(BestClaim(scripts[k], chip), BestClaim(scripts[j], chip))
      BY <1>8, <2>1
    <3>2. StrongerClaim(BestClaim(scripts[k], chip), BestClaim(scripts[i], chip))
      BY <1>6, <3>1, StrongerIsOrder
    <3> QED BY <1>8, <3>2
  <2> QED BY <2>1
<1>11. PICK best \in S : \A j \in S : <<best, j>> \notin R
  BY <1>4, <1>9, <1>10, SomeIsHighest
<1>12. \A j \in S : ~Below(Rank(scripts[best], chip), Rank(scripts[j], chip))
  BY <1>5, <1>8, <1>11, RanksCompare
<1>13. best \in Foremost(chip)
  BY <1>1, <1>12 DEF Foremost
<1> QED BY <1>2, <1>3, <1>4, <1>13

(* The invariant: what is resolved by chip was chosen from this catalog.   *)
FlashInv ==
  /\ CatalogOk
  /\ \/ resolved.kind \notin {"chosen", "ambiguous", "not_found"}
     \/ \E chip \in ChipNames : resolved = ChooseScript(chip)

LEMMA FlashStart == FlashInit => FlashInv
<1> SUFFICES ASSUME FlashInit PROVE FlashInv
  OBVIOUS
<1>1. CatalogOk
  <2>1. PICK n \in Nat : n = 0
    OBVIOUS
  <2>2. scripts \in [1 .. n -> Script] /\ DOMAIN scripts = 1 .. n
    BY <2>1 DEF FlashInit
  <2> QED BY <2>2 DEF CatalogOk
<1> QED BY <1>1 DEF FlashInit, FlashInv, Unresolved

LEMMA ChoiceStays ==
  ASSUME scripts' = scripts, NEW chip
  PROVE  ChooseScript(chip)' = ChooseScript(chip)
BY DEF ChooseScript, Contenders, Foremost

LEMMA FlashStep == FlashInv /\ [FlashNext]_flashVars => FlashInv'
<1> SUFFICES ASSUME FlashInv, [FlashNext]_flashVars PROVE FlashInv'
  OBVIOUS
<1>1. CASE ReadScript
  <2>1. PICK script \in Script : scripts' = Append(scripts, script)
    BY <1>1 DEF ReadScript
  <2>2. PICK n \in Nat : scripts \in [1 .. n -> Script] /\ DOMAIN scripts = 1 .. n
    BY DEF FlashInv, CatalogOk
  <2>3. scripts \in Seq(Script)
    BY <2>2
  <2>4. scripts' \in Seq(Script)
    BY <2>1, <2>3
  <2>5. Len(scripts') \in Nat /\ scripts' \in [1 .. Len(scripts') -> Script]
        /\ DOMAIN scripts' = 1 .. Len(scripts')
    BY <2>4
  <2>6. CatalogOk'
    BY <2>5 DEF CatalogOk
  <2>7. resolved'.kind = "none"
    BY <1>1 DEF ReadScript, Unresolved
  <2> QED BY <2>6, <2>7 DEF FlashInv
<1>2. CASE ResolveExplicit
  <2>1. scripts' = scripts /\ resolved'.kind = "explicit"
    BY <1>2 DEF ResolveExplicit
  <2>2. CatalogOk'
    BY <2>1 DEF FlashInv, CatalogOk
  <2> QED BY <2>1, <2>2 DEF FlashInv
<1>3. CASE ResolveByChip
  <2>1. scripts' = scripts
    BY <1>3 DEF ResolveByChip
  <2>2. CatalogOk'
    BY <2>1 DEF FlashInv, CatalogOk
  <2>3. PICK chip \in ChipNames \cup {<<>>} :
          \/ resolved' \in {[kind |-> "no_chip"], [kind |-> "unsafe_path"]}
          \/ chip # <<>> /\ resolved' = ChooseScript(chip)
    BY <1>3 DEF ResolveByChip
  <2>4. CASE resolved' \in {[kind |-> "no_chip"], [kind |-> "unsafe_path"]}
    <3>1. resolved'.kind \in {"no_chip", "unsafe_path"}
      BY <2>4
    <3> QED BY <2>2, <3>1 DEF FlashInv
  <2>5. CASE chip # <<>> /\ resolved' = ChooseScript(chip)
    <3>1. chip \in ChipNames /\ resolved' = ChooseScript(chip)'
      BY <2>1, <2>3, <2>5, ChoiceStays
    <3> QED BY <2>2, <3>1 DEF FlashInv
  <2> QED BY <2>3, <2>4, <2>5
<1>4. CASE UNCHANGED flashVars
  <2>1. scripts' = scripts /\ resolved' = resolved
    BY <1>4 DEF flashVars
  <2>2. CatalogOk'
    BY <2>1 DEF FlashInv, CatalogOk
  <2>3. CASE resolved.kind \notin {"chosen", "ambiguous", "not_found"}
    BY <2>1, <2>2, <2>3 DEF FlashInv
  <2>4. CASE \E chip \in ChipNames : resolved = ChooseScript(chip)
    <3>1. PICK chip \in ChipNames : resolved = ChooseScript(chip)
      BY <2>4
    <3>2. resolved' = ChooseScript(chip)'
      BY <2>1, <3>1, ChoiceStays
    <3> QED BY <2>2, <3>2 DEF FlashInv
  <2> QED BY <2>3, <2>4 DEF FlashInv
<1> QED BY <1>1, <1>2, <1>3, <1>4 DEF FlashNext

LEMMA ChosenIsBest == FlashInv => ChoiceIsUniqueBest
<1> SUFFICES ASSUME FlashInv, resolved.kind \in {"chosen", "ambiguous", "not_found"}
             PROVE  ChoiceIsUniqueBest
  BY DEF ChoiceIsUniqueBest
<1>1. PICK chip \in ChipNames : resolved = ChooseScript(chip)
  BY DEF FlashInv
<1>2. IsChip(chip) /\ CatalogOk
  BY ScriptsAre DEF FlashInv
<1>3. resolved.chip = chip
  BY <1>1 DEF ChooseScript
<1>4. PICK holders : holders = Holders(chip)
  OBVIOUS
<1>5. holders = Foremost(chip)
  BY <1>2, <1>4, ForemostHold
<1>6. Contenders(chip) = {} <=> holders = {}
  <2>1. Foremost(chip) \subseteq Contenders(chip)
    BY DEF Foremost
  <2> QED BY <1>2, <1>5, <2>1, SomeIsForemost
<1>7. /\ resolved.kind = "not_found" <=> Contenders(chip) = {}
      /\ resolved.kind = "ambiguous" <=> Contenders(chip) # {} /\ Cardinality(Foremost(chip)) > 1
      /\ resolved.kind = "chosen" =>
           LET best == scripts[CHOOSE k \in Foremost(chip) : TRUE]
           IN  /\ Contenders(chip) # {} /\ resolved.script = best
               /\ resolved.pattern = BestPattern(best, chip)
  BY <1>1 DEF ChooseScript
<1>8. Cardinality({}) = 0
  BY FS_EmptySet
<1>9. resolved.kind = "not_found" <=> holders = {}
  BY <1>6, <1>7
<1>10. resolved.kind = "ambiguous" <=> Cardinality(holders) > 1
  BY <1>5, <1>6, <1>7, <1>8
<1>11. ASSUME resolved.kind = "chosen"
       PROVE  /\ \E i \in holders : scripts[i] = resolved.script
              /\ Fits(resolved.pattern, chip)
              /\ \E c \in StrongestClaims(chip) : c[2] = Specificity(resolved.pattern)
  <2>1. PICK i : i = (CHOOSE k \in Foremost(chip) : TRUE)
    OBVIOUS
  <2>2. /\ Foremost(chip) # {} /\ resolved.script = scripts[i]
        /\ resolved.pattern = BestPattern(scripts[i], chip)
    BY <1>5, <1>6, <1>7, <1>11, <2>1
  <2>3. i \in Foremost(chip) /\ i \in holders
    BY <1>5, <2>1, <2>2
  <2>4. /\ i \in DOMAIN scripts /\ IsScript(scripts[i]) /\ IsContender(scripts[i], chip)
        /\ Matching(scripts[i], chip) # {}
    <3>1. i \in Contenders(chip)
      BY <2>3 DEF Foremost
    <3>2. i \in DOMAIN scripts /\ IsContender(scripts[i], chip) /\ Matching(scripts[i], chip) # {}
      BY <3>1 DEF Contenders, IsContender
    <3> QED BY <1>2, <3>2, ScriptsAre DEF CatalogOk
  <2>5. PICK b \in Matching(scripts[i], chip) : BestPattern(scripts[i], chip) = scripts[i].chips[b]
    BY <1>2, <2>4, BestPatternIs
  <2>6. Fits(resolved.pattern, chip)
    <3>1. b \in Fitting(scripts[i], chip)
      BY <1>2, <2>4, <2>5, MatchingIs
    <3> QED BY <2>2, <2>5, <3>1 DEF Fitting
  <2>7. PICK c \in Claims(scripts[i], chip) : c \in StrongestClaims(chip)
    BY <1>4, <2>3 DEF Holders
  <2>8. c = BestClaim(scripts[i], chip) \/ StrongerClaim(BestClaim(scripts[i], chip), c)
    BY <1>2, <2>4, ClaimsAre
  <2>9. BestClaim(scripts[i], chip) \in UNION {Claims(scripts[k], chip) : k \in DOMAIN scripts}
    <3>1. BestClaim(scripts[i], chip) \in Claims(scripts[i], chip)
      BY <1>2, <2>4, ClaimsAre
    <3> QED BY <2>4, <3>1
  <2>10. c = BestClaim(scripts[i], chip)
    BY <2>7, <2>8, <2>9 DEF StrongestClaims
  <2>11. c[2] = Specificity(resolved.pattern)
    BY <2>2, <2>10 DEF BestClaim
  <2> QED BY <2>2, <2>3, <2>6, <2>7, <2>11
<1>12. holders = {i \in DOMAIN scripts :
                    Claims(scripts[i], resolved.chip) \cap StrongestClaims(resolved.chip) # {}}
  BY <1>3, <1>4 DEF Holders
<1> QED BY <1>3, <1>9, <1>10, <1>11, <1>12 DEF ChoiceIsUniqueBest

(* For any catalog and chip: `flash` runs the script that alone has the    *)
(* strongest claim on the chip, and refuses when two have or none has one. *)
(* The pattern it shows is the one that gave the claim (glob_match,        *)
(* specificity, choose, resolve).                                          *)
THEOREM ChoicesAreBest == FlashSpec => []ChoiceIsUniqueBest
<1>1. FlashInv => ChoiceIsUniqueBest
  BY ChosenIsBest
<1> QED BY FlashStart, FlashStep, <1>1, PTL DEF FlashSpec
=============================================================================
