--------------------------- MODULE RclLinkProofs ---------------------------
(***************************************************************************)
(* The safety of RclLink for every number of message ids and every length  *)
(* of a run.  The inductive invariant says that the answers under way are  *)
(* in the order of their requests: first those the client has decoded,     *)
(* then those on the wire, then those PowerView has yet to give.           *)
(*                                                                         *)
(* And the safety of MemoryApi, for calls of any size: what memory_read    *)
(* has so far and write_memory has put, what the symbol has after the      *)
(* first parameters of its stream, and what functions, practice_state and  *)
(* Address::parse make of an answer or a text.                             *)
(***************************************************************************)
EXTENDS RclLink, MemoryApi, SequenceTheorems, FiniteSetTheorems, WellFoundedInduction, TLAPS

(* The answers of a queue are in order, and between two request numbers.   *)
Ordered(q) ==
  \A i, j \in 1 .. Len(q) :
    i < j /\ IsAnswer(q[i]) /\ IsAnswer(q[j]) => q[i].of < q[j].of

Within(q) ==
  \A i \in 1 .. Len(q) : IsAnswer(q[i]) => accepted < q[i].of /\ q[i].of <= counter

Before(q, r) ==
  \A i \in 1 .. Len(q), j \in 1 .. Len(r) :
    IsAnswer(q[i]) /\ IsAnswer(r[j]) => q[i].of < r[j].of

Unanswered(q) ==
  \A i \in 1 .. Len(q), n \in backlog : IsAnswer(q[i]) => q[i].of < n

StreamInv ==
  /\ Ordered(responses) /\ Ordered(wire) /\ Before(responses, wire)
  /\ Within(responses) /\ Within(wire)
  /\ Unanswered(responses) /\ Unanswered(wire)
  /\ \A n \in backlog : accepted < n /\ n <= counter

(* A call only waits on a connected Debugger.                              *)
WaitingConnected == waiting => stage \in Connected /\ counter > 0

StreamDefs == StreamInv /\ accepted <= counter

LastInv == ForeignAnswerNeedsFullTurn /\ OutOfSyncOnlyAcrossWrap

IInv == RclTypeOK /\ WaitingConnected /\ StreamDefs

-----------------------------------------------------------------------------
(* Integer facts about the id arithmetic (MessageId::current).             *)

(* Multiples of different numbers are at least one step apart.             *)
LEMMA Multiples ==
  ASSUME NEW M \in Nat, NEW a \in Int, NEW b \in Int, a < b
  PROVE  M * a + M <= M * b
<1>1. M * (b - a - 1) >= 0
  OBVIOUS
<1>2. M * (b - a - 1) = M * b - M * a - M
  OBVIOUS
<1> QED BY <1>1, <1>2

(* A number is its quotient and remainder.                                 *)
LEMMA Division ==
  ASSUME NEW n \in Nat, NEW M \in Nat \ {0}
  PROVE  n = M * (n \div M) + (n % M) /\ n \div M \in Nat /\ n % M \in 0 .. M - 1
OBVIOUS

(* A message id is a natural number.                                       *)
LEMMA IdType == ASSUME NEW n \in Nat PROVE IdOf(n) \in Nat
<1>1. n % Modulus \in 0 .. Modulus - 1
  BY Division, ModulusAssumption
<1> QED BY <1>1, ModulusAssumption DEF IdOf

(* Two requests with the same id are equal or a full turn apart.           *)
LEMMA SameId ==
  ASSUME NEW m \in Nat, NEW n \in Nat, m <= n, IdOf(m) = IdOf(n)
  PROVE  m = n \/ n - m >= Modulus
<1> DEFINE a == m \div Modulus
           b == n \div Modulus
           r == n % Modulus
<1>1. /\ a \in Nat /\ b \in Nat /\ r \in 0 .. Modulus - 1
      /\ m = Modulus * a + r /\ n = Modulus * b + r
  BY Division, ModulusAssumption DEF IdOf
<1>2. Modulus \in Nat
  BY ModulusAssumption
<1> HIDE DEF a, b, r
<1>3. CASE a < b
  BY <1>1, <1>2, <1>3, Multiples
<1>4. CASE b < a
  BY <1>1, <1>2, <1>4, Multiples
<1>5. CASE a = b
  BY <1>1, <1>2, <1>5
<1> QED BY <1>1, <1>3, <1>4, <1>5

(* An older request with a larger id was made in an earlier turn.          *)
LEMMA LargerId ==
  ASSUME NEW m \in Nat, NEW n \in Nat, m <= n, IdOf(m) > IdOf(n)
  PROVE  m \div Modulus < n \div Modulus
<1> DEFINE a == m \div Modulus
           b == n \div Modulus
           r == m % Modulus
           s == n % Modulus
<1>1. /\ a \in Nat /\ b \in Nat
      /\ r \in 0 .. Modulus - 1 /\ s \in 0 .. Modulus - 1
      /\ m = Modulus * a + r /\ n = Modulus * b + s /\ r > s
  BY Division, ModulusAssumption DEF IdOf
<1>2. Modulus \in Nat
  BY ModulusAssumption
<1> SUFFICES a < b OBVIOUS
<1> HIDE DEF a, b, r, s
<1>3. CASE b < a
  BY <1>1, <1>2, <1>3, Multiples
<1>4. CASE a = b
  BY <1>1, <1>2, <1>4
<1> QED BY <1>1, <1>3, <1>4

(* What Return does to the invariant's variables.                          *)
LEMMA ReturnType ==
  ASSUME RclTypeOK, NEW n \in Nat, NEW result \in Results, NEW of \in Nat,
         stage \in Connected, Return(n, result, of)
  PROVE  /\ waiting' \in BOOLEAN /\ last' \in Outcome /\ stage' \in Stages
         /\ accepted' \in Nat /\ connects' \in Nat
         /\ result \notin {"answered", "trace32"} => accepted' = accepted
<1>1. NextStage(result) \subseteq Stages
  BY DEF NextStage, AfterAnswer, Stages, Connected
<1> QED BY <1>1 DEF Return, RclTypeOK, Outcome

-----------------------------------------------------------------------------
(* The type of the variables is preserved by every action.                 *)
LEMMA TypeStep ==
  RclTypeOK /\ WaitingConnected /\ [RclNext]_rclVars => RclTypeOK' /\ WaitingConnected'
<1> SUFFICES ASSUME RclTypeOK, WaitingConnected, [RclNext]_rclVars
             PROVE  RclTypeOK' /\ WaitingConnected'
  OBVIOUS
<1> USE DEF WaitingConnected, Connected, Stages, Results
<1>0. ASSUME NEW p \in {"open", "closed"}, FreshLink(p)
      PROVE  /\ responses' \in Seq(Response) /\ wire' \in Seq(Response)
             /\ backlog' \in SUBSET Nat /\ peer' \in {"open", "garbled", "closed"}
  <2>1. <<>> \in Seq(Response)
    OBVIOUS
  <2> QED BY <1>0, <2>1 DEF FreshLink
<1>1. CASE Connect
  <2>1. NoOutcome \in Outcome
    BY DEF NoOutcome, Outcome
  <2> QED BY <1>0, <1>1, <2>1 DEF Connect, RclTypeOK
<1>2. CASE Relink
  BY <1>0, <1>2 DEF Relink, RclTypeOK
<1>3. CASE Transmit
  BY <1>3 DEF Transmit, BeginCall, RclTypeOK
<1>4. CASE TooLarge
  <2>1. counter + 1 \in Nat /\ stage \in Connected
    BY <1>4 DEF TooLarge, RclTypeOK
  <2> QED BY <1>4, <2>1, ReturnType DEF TooLarge, BeginCall, RclTypeOK, linkVars, Return
<1>5. CASE WriteTimeout
  <2>1. counter + 1 \in Nat /\ stage \in Connected
    BY <1>5 DEF WriteTimeout, BeginCall, RclTypeOK
  <2> QED BY <1>5, <2>1, ReturnType DEF WriteTimeout, BeginCall, RclTypeOK, Return
<1>6. CASE WriteFails
  <2>1. counter + 1 \in Nat /\ stage \in Connected
    BY <1>6 DEF WriteFails, BeginCall, RclTypeOK
  <2> QED BY <1>6, <2>1, ReturnType DEF WriteFails, BeginCall, RclTypeOK, linkVars, Return
<1>7. CASE Answer
  <2>1. PICK n \in backlog, status \in {"ok", "error"} :
          wire' = Append(wire, [kind |-> status, of |-> n]) /\ backlog' = backlog \ {n}
    BY <1>7 DEF Answer
  <2>2. [kind |-> status, of |-> n] \in Response
    BY <2>1 DEF RclTypeOK, Response, Answers
  <2> QED BY <1>7, <2>1, <2>2 DEF Answer, RclTypeOK
<1>8. CASE SendNoise
  <2>1. PICK r \in Noise : wire' = Append(wire, r)
    BY <1>8 DEF SendNoise
  <2>2. r \in Response
    BY <2>1 DEF Response
  <2> QED BY <1>8, <2>1, <2>2 DEF SendNoise, RclTypeOK
<1>9. CASE PeerCloses
  BY <1>9 DEF PeerCloses, RclTypeOK
<1>10. CASE Skip
  BY <1>10 DEF Skip, RclTypeOK
<1>11. CASE Take
  <2> DEFINE r == Head(responses)
  <2>1. r \in Response /\ Tail(responses) \in Seq(Response)
    BY <1>11 DEF Take, RclTypeOK
  <2>2. r.of \in Nat /\ TakeResult(r) \in Results /\ counter \in Nat /\ stage \in Connected
    BY <1>11, <2>1 DEF Take, RclTypeOK, Response, Answers, Noise, TakeResult
  <2>3. Return(counter, TakeResult(r), r.of)
    BY <1>11 DEF Take
  <2> HIDE DEF r
  <2>4. /\ waiting' = FALSE /\ last' \in Outcome /\ stage' \in Stages
        /\ accepted' \in Nat /\ connects' \in Nat
    BY ZenonT(30), <2>2, <2>3, ReturnType DEF Return
  <2> QED BY <1>11, <2>1, <2>4 DEF Take, RclTypeOK
<1>12. CASE Poll
  <2>1. PICK k \in 1 .. Len(wire) :
          responses' = SubSeq(wire, 1, k) /\ wire' = SubSeq(wire, k + 1, Len(wire))
    BY <1>12 DEF Poll
  <2> QED BY <1>12, <2>1 DEF Poll, RclTypeOK
<1>13. CASE ReadTimeout
  <2>1. counter \in Nat /\ stage \in Connected
    BY <1>13 DEF ReadTimeout, RclTypeOK
  <2> QED BY <1>13, <2>1, ReturnType DEF ReadTimeout, RclTypeOK, linkVars, Return
<1>14. CASE ReadClosed
  <2>1. counter \in Nat /\ stage \in Connected
    BY <1>14 DEF ReadClosed, RclTypeOK
  <2> QED BY <1>14, <2>1, ReturnType DEF ReadClosed, RclTypeOK, linkVars, Return
<1>15. CASE UNCHANGED rclVars
  BY <1>15 DEF rclVars, linkVars, RclTypeOK
<1> QED
  BY <1>1, <1>2, <1>3, <1>4, <1>5, <1>6, <1>7, <1>8, <1>9, <1>10, <1>11, <1>12,
     <1>13, <1>14, <1>15 DEF RclNext, Receive, Done

(* The elements of a queue are responses, named by natural numbers.        *)
LEMMA QueueNats ==
  ASSUME NEW q \in Seq(Response)
  PROVE  Len(q) \in Nat /\ \A i \in 1 .. Len(q) : q[i] \in Response /\ q[i].of \in Nat
BY DEF Response, Answers, Noise

(* Steps that leave the queues and the accepted answer alone.              *)
LEMMA StreamKept ==
  ASSUME RclTypeOK, StreamDefs, responses' = responses, wire' = wire,
         backlog' \subseteq backlog, accepted' = accepted,
         counter' \in Nat, counter <= counter'
  PROVE  StreamDefs'
<1>1. Within(responses)' /\ Within(wire)'
  BY QueueNats DEF RclTypeOK, StreamDefs, StreamInv, Within
<1>2. /\ Ordered(responses)' /\ Ordered(wire)' /\ Before(responses, wire)'
      /\ Unanswered(responses)' /\ Unanswered(wire)'
  BY DEF StreamDefs, StreamInv, Ordered, Before, Unanswered
<1>3. \A n \in backlog' : accepted' < n /\ n <= counter'
  BY DEF StreamDefs, StreamInv, RclTypeOK
<1>4. accepted' <= counter'
  BY DEF StreamDefs, RclTypeOK
<1> QED BY <1>1, <1>2, <1>3, <1>4 DEF StreamDefs, StreamInv

(* Every step keeps the answers under way in the order of their requests.  *)
LEMMA StreamStep ==
  RclTypeOK /\ WaitingConnected /\ StreamDefs /\ [RclNext]_rclVars => StreamDefs'
<1> SUFFICES ASSUME RclTypeOK, WaitingConnected, StreamDefs, [RclNext]_rclVars
             PROVE  StreamDefs'
  OBVIOUS
<1>0. RclTypeOK'
  BY TypeStep
<1>1. CASE Connect
  <2>1. PICK p \in {"open", "closed"} : FreshLink(p)
    BY <1>1 DEF Connect
  <2> QED
    BY <1>1, <2>1 DEF Connect, FreshLink, StreamDefs, StreamInv, Ordered, Within,
                      Before, Unanswered
<1>2. CASE Relink
  <2>1. PICK p \in {"open", "closed"} : FreshLink(p)
    BY <1>2 DEF Relink
  <2> QED
    BY <1>2, <2>1 DEF Relink, FreshLink, StreamDefs, StreamInv, Ordered, Within,
                      Before, Unanswered
<1>3. CASE Transmit
  <2>1. /\ counter' = counter + 1 /\ accepted' = accepted
        /\ responses' = responses /\ wire' = wire
        /\ backlog' \subseteq backlog \cup {counter + 1}
    BY <1>3 DEF Transmit, BeginCall
  <2>2. /\ Ordered(responses)' /\ Ordered(wire)' /\ Before(responses, wire)'
    BY <2>1 DEF StreamDefs, StreamInv, Ordered, Before
  <2>3. Within(responses)' /\ Within(wire)'
    BY <2>1, QueueNats DEF StreamDefs, StreamInv, Within, RclTypeOK
  <2>4. Unanswered(responses)' /\ Unanswered(wire)'
    <3>1. responses \in Seq(Response) /\ wire \in Seq(Response) /\ counter \in Nat
      BY DEF RclTypeOK
    <3>2. ASSUME NEW q \in Seq(Response), Unanswered(q), Within(q),
                 NEW i \in 1 .. Len(q), NEW n \in backlog', IsAnswer(q[i])
          PROVE  q[i].of < n
      <4>1. q[i].of \in Nat /\ q[i].of <= counter
        BY <3>2, QueueNats DEF Within
      <4>2. CASE n = counter + 1
        BY <4>1, <4>2, <3>1
      <4>3. CASE n \in backlog
        BY <3>2, <4>3 DEF Unanswered
      <4> QED BY <2>1, <4>2, <4>3
    <3>3. /\ Unanswered(responses) /\ Unanswered(wire)
          /\ Within(responses) /\ Within(wire)
      BY DEF StreamDefs, StreamInv
    <3> QED BY <2>1, <3>1, <3>2, <3>3 DEF Unanswered
  <2> QED BY <2>1, <2>2, <2>3, <2>4 DEF StreamDefs, StreamInv, RclTypeOK
<1>4. CASE TooLarge \/ WriteTimeout \/ WriteFails
  BY <1>0, <1>4, StreamKept
     DEF TooLarge, WriteTimeout, WriteFails, BeginCall, Return, linkVars, RclTypeOK
<1>5. CASE Answer
  <2>1. PICK n \in backlog, status \in {"ok", "error"} :
          /\ \A m \in backlog : n <= m
          /\ wire' = Append(wire, [kind |-> status, of |-> n])
          /\ backlog' = backlog \ {n}
    BY <1>5 DEF Answer
  <2>2. /\ counter' = counter /\ accepted' = accepted /\ responses' = responses
    BY <1>5 DEF Answer
  <2>3. /\ Len(wire') = Len(wire) + 1
        /\ \A i \in 1 .. Len(wire) : wire'[i] = wire[i]
        /\ wire'[Len(wire) + 1].of = n
    BY <2>1 DEF RclTypeOK
  <2>4. /\ \A i \in 1 .. Len(wire) : wire[i].of \in Nat
        /\ \A i \in 1 .. Len(responses) : responses[i].of \in Nat
        /\ n \in Nat /\ Len(wire) \in Nat
    BY QueueNats DEF RclTypeOK
  <2>a. Ordered(wire)'
    <3> SUFFICES ASSUME NEW i \in 1 .. Len(wire) + 1, NEW j \in 1 .. Len(wire) + 1, i < j,
                        IsAnswer(wire'[i]), IsAnswer(wire'[j])
                 PROVE  wire'[i].of < wire'[j].of
      BY <2>3 DEF Ordered
    <3>1. i \in 1 .. Len(wire) /\ wire'[i] = wire[i]
      BY <2>3, <2>4
    <3>2. CASE j = Len(wire) + 1
      BY <2>3, <3>1, <3>2 DEF StreamDefs, StreamInv, Unanswered
    <3>3. CASE j \in 1 .. Len(wire)
      BY <2>3, <3>1, <3>3 DEF StreamDefs, StreamInv, Ordered
    <3> QED BY <2>4, <3>2, <3>3
  <2>b. Within(wire)'
    BY <2>2, <2>3, <2>4 DEF StreamDefs, StreamInv, Within
  <2>5. Ordered(wire)' /\ Within(wire)'
    BY <2>a, <2>b
  <2>6. Before(responses, wire)'
    BY <2>2, <2>3, <2>4 DEF StreamDefs, StreamInv, Before, Unanswered
  <2>7. Unanswered(wire)' /\ Unanswered(responses)'
    <3>1. Unanswered(responses)'
      BY <2>1, <2>2 DEF StreamDefs, StreamInv, Unanswered
    <3>2. \A m \in backlog' : n < m
      BY <2>1 DEF RclTypeOK
    <3>3. Unanswered(wire)'
      BY <2>1, <2>3, <2>4, <3>2 DEF StreamDefs, StreamInv, Unanswered
    <3> QED BY <3>1, <3>3
  <2> QED
    BY <2>1, <2>2, <2>5, <2>6, <2>7 DEF StreamDefs, StreamInv, Ordered, Within
<1>6. CASE SendNoise
  <2>1. PICK r \in Noise : wire' = Append(wire, r)
    BY <1>6 DEF SendNoise
  <2>2. /\ counter' = counter /\ accepted' = accepted /\ responses' = responses
        /\ backlog' = backlog
    BY <1>6 DEF SendNoise
  <2>3. /\ Len(wire') = Len(wire) + 1 /\ Len(wire) \in Nat
        /\ \A i \in 1 .. Len(wire) : wire'[i] = wire[i]
        /\ ~IsAnswer(wire'[Len(wire) + 1])
    BY <2>1 DEF RclTypeOK, Noise, IsAnswer
  <2> QED
    BY SMTT(20), <2>2, <2>3 DEF StreamDefs, StreamInv, Ordered, Within, Before, Unanswered
<1>7. CASE PeerCloses
  BY <1>0, <1>7, StreamKept DEF PeerCloses, RclTypeOK
<1>8. ASSUME responses # <<>>, responses' = Tail(responses), wire' = wire,
             backlog' = backlog, counter' = counter
      PROVE  /\ Ordered(responses)' /\ Ordered(wire)' /\ Before(responses, wire)'
             /\ Unanswered(responses)' /\ Unanswered(wire)'
             /\ Len(responses) > 0 /\ Len(responses') = Len(responses) - 1
             /\ \A i \in 1 .. Len(responses') : responses'[i] = responses[i + 1]
  <2>1. /\ Len(responses) > 0 /\ Len(responses) \in Nat
        /\ Len(responses') = Len(responses) - 1
        /\ \A i \in 1 .. Len(responses') : responses'[i] = responses[i + 1]
    BY <1>8 DEF RclTypeOK
  <2> QED
    BY <1>8, <2>1 DEF StreamDefs, StreamInv, Ordered, Before, Unanswered
<1>9. CASE Skip
  <2>1. accepted' = accepted /\ counter' = counter
    BY <1>9 DEF Skip
  <2>2. Within(responses)' /\ Within(wire)'
    BY <1>8, <1>9, <2>1 DEF Skip, StreamDefs, StreamInv, Within, RclTypeOK
  <2> QED
    BY <1>8, <1>9, <2>1, <2>2 DEF Skip, StreamDefs, StreamInv
<1>10. CASE Take
  <2> DEFINE r == responses[1]
  <2>1. /\ counter' = counter /\ wire' = wire /\ backlog' = backlog
        /\ responses' = Tail(responses) /\ responses # <<>>
        /\ Return(counter, TakeResult(r), r.of)
    BY <1>10 DEF Take, RclTypeOK
  <2>2. Len(responses) > 0 /\ Len(responses) \in Nat /\ r \in Response
    BY <2>1 DEF RclTypeOK
  <2>3. CASE TakeResult(r) \in {"answered", "trace32"}
    <3>1. IsAnswer(r)
      BY <2>3 DEF TakeResult
    <3>2. accepted' = r.of
      BY <2>1, <2>3 DEF Return
    <3>3. r.of <= counter /\ r.of \in Nat
      BY <2>2, <3>1 DEF StreamDefs, StreamInv, Within, Response, Answers, Noise
    <3>4. Within(responses)'
      <4>1. /\ Len(responses') = Len(responses) - 1
            /\ \A i \in 1 .. Len(responses') : responses'[i] = responses[i + 1]
        BY <1>8, <2>1
      <4>2. ASSUME NEW i \in 1 .. Len(responses'), IsAnswer(responses'[i])
            PROVE  r.of < responses'[i].of /\ responses'[i].of <= counter
        <5>1. i + 1 \in 1 .. Len(responses) /\ 1 \in 1 .. Len(responses) /\ 1 < i + 1
          BY <2>2, <4>1
        <5>2. responses'[i] = responses[i + 1] /\ IsAnswer(responses[i + 1])
          BY <4>1, <4>2
        <5> QED BY <3>1, <5>1, <5>2 DEF StreamDefs, StreamInv, Within, Ordered
      <4> QED BY <2>1, <3>2, <4>2 DEF Within
    <3>5. Within(wire)'
      <4>1. ASSUME NEW j \in 1 .. Len(wire), IsAnswer(wire[j])
            PROVE  r.of < wire[j].of /\ wire[j].of <= counter
        <5>1. 1 \in 1 .. Len(responses)
          BY <2>2
        <5> QED BY <3>1, <4>1, <5>1 DEF StreamDefs, StreamInv, Within, Before
      <4> QED BY <2>1, <3>2, <4>1 DEF Within
    <3>6. \A n \in backlog' : accepted' < n /\ n <= counter'
      BY <2>1, <2>2, <3>1, <3>2 DEF StreamDefs, StreamInv, Unanswered
    <3> QED
      BY <1>8, <2>1, <3>2, <3>3, <3>4, <3>5, <3>6 DEF StreamDefs, StreamInv
  <2>4. CASE TakeResult(r) \notin {"answered", "trace32"}
    <3>1. accepted' = accepted
      BY <2>1, <2>4 DEF Return
    <3>2. Within(responses)' /\ Within(wire)'
      BY <1>8, <2>1, <3>1 DEF StreamDefs, StreamInv, Within, RclTypeOK
    <3> QED
      BY <1>8, <2>1, <3>1, <3>2 DEF StreamDefs, StreamInv
  <2> QED BY <2>3, <2>4
<1>11. CASE Poll
  <2>1. PICK k \in 1 .. Len(wire) :
          responses' = SubSeq(wire, 1, k) /\ wire' = SubSeq(wire, k + 1, Len(wire))
    BY <1>11 DEF Poll
  <2>2. /\ counter' = counter /\ accepted' = accepted /\ backlog' = backlog
    BY <1>11 DEF Poll
  <2>3. /\ Len(wire) \in Nat /\ Len(responses') = k /\ Len(wire') = Len(wire) - k
        /\ \A i \in 1 .. k : responses'[i] = wire[i]
        /\ \A i \in 1 .. Len(wire) - k : wire'[i] = wire[k + i]
    BY <2>1 DEF RclTypeOK
  <2>4. Ordered(responses)'
    <3> SUFFICES ASSUME NEW i \in 1 .. k, NEW j \in 1 .. k, i < j,
                        IsAnswer(responses'[i]), IsAnswer(responses'[j])
                 PROVE  responses'[i].of < responses'[j].of
      BY <2>3 DEF Ordered
    <3>1. /\ i \in 1 .. Len(wire) /\ j \in 1 .. Len(wire)
          /\ responses'[i] = wire[i] /\ responses'[j] = wire[j]
      BY <2>3
    <3> QED BY <3>1 DEF StreamDefs, StreamInv, Ordered
  <2>5. Ordered(wire)'
    <3> SUFFICES ASSUME NEW i \in 1 .. Len(wire) - k, NEW j \in 1 .. Len(wire) - k, i < j,
                        IsAnswer(wire'[i]), IsAnswer(wire'[j])
                 PROVE  wire'[i].of < wire'[j].of
      BY <2>3 DEF Ordered
    <3>1. /\ k + i \in 1 .. Len(wire) /\ k + j \in 1 .. Len(wire) /\ k + i < k + j
          /\ wire'[i] = wire[k + i] /\ wire'[j] = wire[k + j]
      BY <2>3
    <3> QED BY <3>1 DEF StreamDefs, StreamInv, Ordered
  <2>6. Before(responses, wire)'
    <3> SUFFICES ASSUME NEW i \in 1 .. k, NEW j \in 1 .. Len(wire) - k,
                        IsAnswer(responses'[i]), IsAnswer(wire'[j])
                 PROVE  responses'[i].of < wire'[j].of
      BY <2>3 DEF Before
    <3>1. /\ i \in 1 .. Len(wire) /\ k + j \in 1 .. Len(wire) /\ i < k + j
          /\ responses'[i] = wire[i] /\ wire'[j] = wire[k + j]
      BY <2>3
    <3> QED BY <3>1 DEF StreamDefs, StreamInv, Ordered
  <2>7. Within(responses)' /\ Unanswered(responses)'
    BY <2>2, <2>3 DEF StreamDefs, StreamInv, Within, Unanswered
  <2>8. \A i \in 1 .. Len(wire') : wire'[i] = wire[k + i] /\ k + i \in 1 .. Len(wire)
    BY <2>3
  <2>9. Within(wire)' /\ Unanswered(wire)'
    BY <2>2, <2>8 DEF StreamDefs, StreamInv, Within, Unanswered
  <2> QED
    BY <2>2, <2>4, <2>5, <2>6, <2>7, <2>9 DEF StreamDefs, StreamInv
<1>12. CASE ReadTimeout \/ ReadClosed
  BY <1>0, <1>12, StreamKept DEF ReadTimeout, ReadClosed, Return, linkVars, RclTypeOK
<1>13. CASE UNCHANGED rclVars
  BY <1>0, <1>13, StreamKept DEF rclVars, linkVars, RclTypeOK
<1> QED
  BY <1>1, <1>2, <1>3, <1>4, <1>5, <1>6, <1>7, <1>9, <1>10, <1>11, <1>12, <1>13
     DEF RclNext, Receive, Done

-----------------------------------------------------------------------------
(* What take_response hands to a call, or reports as out of sync.          *)
LEMMA TakeFacts ==
  ASSUME RclTypeOK, WaitingConnected, StreamDefs, Take
  PROVE  LET r == Head(responses) result == TakeResult(r)
         IN /\ Return(counter, result, r.of) /\ r.of \in Nat /\ counter' = counter
            /\ waiting /\ result \in {"answered", "trace32", "protocol", "out_of_sync"}
            /\ result = "protocol" => r.of = 0
            /\ result \in {"answered", "trace32"} =>
                 /\ r.of \in (accepted + 1) .. counter
                 /\ r.of = counter \/ counter - r.of >= Modulus
            /\ result = "out_of_sync" =>
                 /\ r.of \in (accepted + 1) .. counter
                 /\ r.of \div Modulus < counter \div Modulus
<1> DEFINE r == responses[1]
<1>1. /\ r = Head(responses) /\ r \in Response /\ 1 \in 1 .. Len(responses)
      /\ r.of \in Nat /\ counter \in Nat /\ accepted \in Nat
  BY QueueNats DEF Take, RclTypeOK
<1>2. Return(counter, TakeResult(r), r.of) /\ ~TakeSkips(r) /\ counter' = counter /\ waiting
  BY <1>1 DEF Take
<1>3. IsAnswer(r) => r.of \in (accepted + 1) .. counter
  BY <1>1 DEF StreamDefs, StreamInv, Within
<1>4. r.kind \in {"ok", "error", "keepalive", "short"} /\ (r.kind = "short" => r.of = 0)
  BY <1>1 DEF Response, Answers, Noise
<1> HIDE DEF r
<1>5. TakeResult(r) \in {"answered", "trace32", "protocol", "out_of_sync"}
  BY DEF TakeResult
<1>6. ASSUME TakeResult(r) = "protocol" PROVE r.of = 0
  BY <1>4, <1>6 DEF TakeResult
<1>7. ASSUME TakeResult(r) \in {"answered", "trace32"}
      PROVE  IsAnswer(r) /\ (r.of = counter \/ counter - r.of >= Modulus)
  <2>1. IsAnswer(r) /\ IdOf(r.of) = IdOf(counter)
    BY <1>7 DEF TakeResult, expected
  <2> QED BY <1>1, <1>3, <2>1, SameId
<1>8. ASSUME TakeResult(r) = "out_of_sync"
      PROVE  IsAnswer(r) /\ r.of \div Modulus < counter \div Modulus
  <2>1. IsAnswer(r)
    BY <1>2, <1>4, <1>8 DEF TakeResult, TakeSkips, IsAnswer
  <2>2. IdOf(r.of) # IdOf(counter) /\ ~(IdOf(r.of) < IdOf(counter))
    BY <1>2, <1>8, <2>1 DEF TakeResult, TakeSkips, IsAnswer, expected
  <2>3. IdOf(r.of) \in Nat /\ IdOf(counter) \in Nat
    <3>1. r.of \in Nat /\ counter \in Nat
      BY <1>1
    <3> QED BY <3>1, IdType
  <2> QED BY <1>1, <1>3, <2>1, <2>2, <2>3, LargerId
<1> QED BY <1>1, <1>2, <1>3, <1>5, <1>6, <1>7, <1>8

(* No step hands out a foreign answer less than a full turn late, or takes *)
(* a late answer of the same turn for a broken connection.                 *)
LEMMA LastStep ==
  RclTypeOK /\ WaitingConnected /\ StreamDefs /\ LastInv /\ [RclNext]_rclVars => LastInv'
<1> SUFFICES ASSUME RclTypeOK, WaitingConnected, StreamDefs, LastInv, [RclNext]_rclVars
             PROVE  LastInv'
  OBVIOUS
<1> USE DEF LastInv, ForeignAnswerNeedsFullTurn, OutOfSyncOnlyAcrossWrap
<1>1. CASE last' = last
  BY <1>1
<1>2. CASE last' = NoOutcome
  BY <1>2 DEF NoOutcome
<1>3. CASE last'.result \in {"timeout", "closed", "protocol"}
  BY <1>3
<1>4. CASE Take
  <2> DEFINE r == Head(responses)
             result == TakeResult(r)
  <2>1. last' = [call |-> counter, result |-> result, of |-> r.of]
    BY <1>4, TakeFacts DEF Return
  <2>2. /\ result \in {"answered", "trace32"} => r.of = counter \/ counter - r.of >= Modulus
        /\ result = "out_of_sync" => r.of \div Modulus < counter \div Modulus
    BY <1>4, TakeFacts
  <2> HIDE DEF r, result
  <2> QED BY <2>1, <2>2
<1>5. \/ last' = last \/ last' = NoOutcome \/ Take
      \/ last'.result \in {"timeout", "closed", "protocol"}
  BY DEF RclNext, Receive, Done, Connect, Relink, Transmit, TooLarge, WriteTimeout,
         WriteFails, Return, Answer, SendNoise, PeerCloses, Skip, Poll, ReadTimeout,
         ReadClosed, rclVars
<1> QED BY <1>1, <1>2, <1>3, <1>4, <1>5

(* The invariants hold of a Debugger that was just created.                *)
LEMMA Initially == RclInit => RclTypeOK /\ WaitingConnected /\ StreamDefs /\ LastInv
<1> SUFFICES ASSUME RclInit PROVE RclTypeOK /\ WaitingConnected /\ StreamDefs /\ LastInv
  OBVIOUS
<1>1. <<>> \in Seq(Response) /\ NoOutcome \in Outcome
  BY DEF NoOutcome, Outcome, Results
<1>2. RclTypeOK
  BY <1>1 DEF RclInit, RclTypeOK, Stages
<1>3. WaitingConnected /\ StreamDefs
  BY DEF RclInit, WaitingConnected, StreamDefs, StreamInv, Ordered, Within, Before, Unanswered
<1>4. LastInv
  BY DEF RclInit, NoOutcome, LastInv, ForeignAnswerNeedsFullTurn, OutOfSyncOnlyAcrossWrap
<1> QED BY <1>2, <1>3, <1>4

(* Every variable keeps its type, and the answers under way stay in order  *)
(* (MessageId, take_response and the socket reads of Link::receive).       *)
THEOREM Invariance == RclSpec => []IInv
<1>1. RclInit => IInv
  BY Initially DEF IInv
<1>2. IInv /\ [RclNext]_rclVars => IInv'
  BY TypeStep, StreamStep DEF IInv
<1> QED BY <1>1, <1>2, PTL DEF RclSpec

(* Spec => []TypeOK, the type invariant of the runs.                       *)
THEOREM TypeCorrect == RclSpec => []RclTypeOK
<1>1. IInv => RclTypeOK
  BY DEF IInv
<1> QED BY <1>1, Invariance, PTL

(* The latest outcome obeys both rules in every state.                     *)
LEMMA LastInvariance == RclSpec => []LastInv
<1>1. RclInit => LastInv
  BY Initially
<1>2. IInv /\ LastInv /\ [RclNext]_rclVars => LastInv'
  BY LastStep DEF IInv
<1> QED BY <1>1, <1>2, Invariance, PTL DEF RclSpec

(* A call never returns another request's answer unless that answer is a   *)
(* full turn of the message id late (take_response).                       *)
THEOREM OwnAnswer == RclSpec => []ForeignAnswerNeedsFullTurn
<1>1. LastInv => ForeignAnswerNeedsFullTurn
  BY DEF LastInv
<1> QED BY <1>1, LastInvariance, PTL

(* A late answer of the same turn of the message id is always skipped,     *)
(* never reported as a connection out of sync (take_response).             *)
THEOREM LateAnswersSkipped == RclSpec => []OutOfSyncOnlyAcrossWrap
<1>1. LastInv => OutOfSyncOnlyAcrossWrap
  BY DEF LastInv
<1> QED BY <1>1, LastInvariance, PTL

-----------------------------------------------------------------------------
(* Every step of the connection is a step of RclCalls or leaves its        *)
(* variables alone.                                                        *)
LEMMA RefinementStep == IInv /\ [RclNext]_rclVars => [Calls!CallsNext]_(Calls!callVars)
<1> SUFFICES ASSUME IInv, [RclNext]_rclVars
             PROVE  Calls!CallsNext \/ UNCHANGED Calls!callVars
  OBVIOUS
<1> USE DEF Calls!CallsNext, Calls!callVars
<1>1. CASE Connect
  BY <1>1 DEF Connect, Calls!Open, Calls!Nothing, NoOutcome
<1>2. CASE Transmit
  BY <1>2 DEF Transmit, BeginCall, Calls!Begin
<1>3. CASE TooLarge \/ WriteTimeout \/ WriteFails
  <2>1. Calls!Refuse
    BY <1>3 DEF TooLarge, WriteTimeout, WriteFails, BeginCall, Return, Calls!Refuse,
                Calls!Failures, IInv, RclTypeOK
  <2> QED BY <2>1
<1>4. CASE Take
  <2> DEFINE r == Head(responses)
             result == TakeResult(r)
  <2>1. /\ Return(counter, result, r.of) /\ counter' = counter /\ waiting
        /\ result \in {"answered", "trace32", "protocol", "out_of_sync"}
        /\ result = "protocol" => r.of = 0
        /\ result \in {"answered", "trace32"} =>
             /\ r.of \in (accepted + 1) .. counter
             /\ r.of = counter \/ counter - r.of >= Modulus
        /\ result = "out_of_sync" =>
             /\ r.of \in (accepted + 1) .. counter
             /\ r.of \div Modulus < counter \div Modulus
    BY <1>4, TakeFacts DEF IInv
  <2> HIDE DEF r, result
  <2>2. CASE result \in {"answered", "trace32"}
    <3>1. Calls!Succeed
      BY <2>1, <2>2 DEF Return, Calls!Succeed, Calls!Unreturned
    <3> QED BY <3>1
  <2>3. CASE result \in {"protocol", "out_of_sync"}
    <3>1. Calls!Fail
      BY <2>1, <2>3 DEF Return, Calls!Fail, Calls!Unreturned, Calls!Failures
    <3> QED BY <3>1
  <2> QED BY <2>1, <2>2, <2>3
<1>5. CASE ReadTimeout \/ ReadClosed
  <2>1. Calls!Fail
    BY <1>5 DEF ReadTimeout, ReadClosed, Return, Calls!Fail, Calls!Failures
  <2> QED BY <2>1
<1>6. CASE Relink \/ Answer \/ SendNoise \/ PeerCloses \/ Skip \/ Poll \/ UNCHANGED rclVars
  BY <1>6 DEF Relink, Answer, SendNoise, PeerCloses, Skip, Poll, rclVars
<1> QED BY <1>1, <1>2, <1>3, <1>4, <1>5, <1>6 DEF RclNext, Receive, Done

(* The connection implements the abstract calls (Debugger::call).          *)
THEOREM Implementation == RclSpec => ImplementsCalls
<1>1. RclInit => Calls!CallsInit
  BY DEF RclInit, NoOutcome, Calls!CallsInit, Calls!Nothing
<1> QED BY <1>1, RefinementStep, Invariance, PTL DEF RclSpec, ImplementsCalls, Calls!CallsSpec

(***************************************************************************)
(* The calls of the library and what they answer.                          *)

ApiType == apiCall \in ApiCalls /\ apiAt \in {apiCall.op, "ended"}

(* A read has the bytes so far, each as its address held it.               *)
ReadSays ==
  /\ target_bytes \in [AddressRange -> {0, 2}] /\ held \in [AddressRange -> SUBSET {0, 2}]
  /\ \A a \in AddressRange : target_bytes[a] \in held[a]
  /\ moved \in Seq({0, 2}) /\ Len(moved) <= apiCall.length
  /\ \A i \in 1 .. Len(moved) : moved[i] \in held[At(i - 1)]
  /\ apiAt = "ended" /\ Succeeds(apiResult) =>
       apiResult.ok = moved /\ Len(moved) = apiCall.length

(* The beginning of the data, at its addresses.                            *)
Beginning(n) == {[address |-> At(i - 1), byte |-> apiCall.data[i]] : i \in 1 .. n}

(* A write has put the chunks before the next one, and nothing else.       *)
WriteSays ==
  /\ at_item \in Nat \ {0}
  /\ apiAt = "write" => written = Beginning(Smaller(ChunkOffset(at_item), Len(apiCall.data)))
  /\ apiAt = "ended" =>
       \E n \in 0 .. Len(apiCall.data) :
         written = Beginning(n) /\ (Succeeds(apiResult) => n = Len(apiCall.data))

MemoryInv ==
  /\ ApiType
  /\ apiCall.op = "read" => ReadSays
  /\ apiCall.op = "write" => WriteSays

(* A call is no other call, and none that has ended.                       *)
LEMMA CallsOf ==
  ASSUME ApiType
  PROVE  /\ apiCall.op # "ended"
         /\ apiCall.op \in {"read", "write"} => apiCall.address \in Nat
         /\ apiCall.op = "read" => apiCall.length \in 0 .. AddressSpace
         /\ apiCall.op = "write" => apiCall.data \in Seq(Nat)
         /\ apiCall.op = "practice" => apiCall.data \in Seq(0 .. ByteBase - 1)
         /\ apiCall.op = "symbol" => apiCall.stream \in Seq([id : Ids, text : Nat, cut : BOOLEAN])
         /\ apiCall.op = "parse" => apiCall.text \in Seq(Tokens)
BY ApiAssumption DEF ApiType

(* An error is no success.                                                 *)
LEMMA Failing ==
  /\ ~Succeeds(Protocol)
  /\ \A failure \in Failures : \A operation : ~Succeeds(MemoryError(failure, operation))
  /\ \A failure \in Failures : \A operation : ~Succeeds(CallError(failure, operation))
  /\ \A failure, operation : ~Succeeds(Error(failure, operation))
  /\ \A value : Succeeds([ok |-> value]) /\ [ok |-> value].ok = value
<1>1. ASSUME NEW failure, NEW operation PROVE ~Succeeds(Error(failure, operation))
  BY DEF Error, Succeeds
<1> QED BY <1>1 DEF Succeeds, Protocol, MemoryError, CallError

(* A function on the first numbers is a sequence.                          *)
LEMMA SequenceOf ==
  ASSUME NEW S, NEW n \in Nat, NEW s \in [1 .. n -> S]
  PROVE  s \in Seq(S) /\ Len(s) = n
<1>1. s \in Seq(S)
  BY SeqDef
<1>2. Len(s) \in Nat /\ DOMAIN s = 1 .. Len(s)
  BY <1>1, LenProperties
<1> QED BY <1>1, <1>2

(* A part of a sequence.                                                   *)
LEMMA PartOf ==
  ASSUME NEW S, NEW s \in Seq(S), NEW a \in Nat, NEW b \in Nat, a <= b, b <= Len(s)
  PROVE  /\ SubSeq(s, a + 1, b) \in Seq(S) /\ Len(SubSeq(s, a + 1, b)) = b - a
         /\ \A i \in 1 .. b - a : SubSeq(s, a + 1, b)[i] = s[a + i]
<1>1. PICK m \in Int : m = a + 1
  OBVIOUS
<1>2. \A i \in m .. b : s[i] \in S
  BY <1>1, ElementOfSeq
<1>3. /\ SubSeq(s, m, b) \in Seq(S) /\ Len(SubSeq(s, m, b)) = IF m <= b THEN b - m + 1 ELSE 0
      /\ \A i \in 1 .. b - m + 1 : SubSeq(s, m, b)[i] = s[m + i - 1]
  BY <1>2, SubSeqProperties
<1>4. \A i \in 1 .. b - a : m + i - 1 = a + i /\ i \in 1 .. b - m + 1
  BY <1>1
<1>5. Len(SubSeq(s, m, b)) = b - a
  BY <1>1, <1>3
<1> QED BY <1>1, <1>3, <1>4, <1>5

(* The addresses of a call wrap around.                                    *)
LEMMA InRange ==
  ASSUME apiCall.address \in Nat, NEW n \in Nat
  PROVE  At(n) \in AddressRange
<1>1. PICK a \in Nat : a = apiCall.address + n
  OBVIOUS
<1>2. AddressSpace \in Nat \ {0}
  BY ApiAssumption
<1>3. a % AddressSpace \in 0 .. AddressSpace - 1
  BY <1>2
<1> QED BY <1>1, <1>3 DEF At, AddressRange

-----------------------------------------------------------------------------
(* memory_read.                                                            *)
LEMMA ReadBegins ==
  ASSUME ApiInit, apiCall.op = "read" PROVE ReadSays
<1>1. /\ target_bytes = [a \in AddressRange |-> 0] /\ held = [a \in AddressRange |-> {0}]
      /\ moved = <<>> /\ apiCall \in ApiCalls /\ apiAt = "read"
  BY DEF ApiInit
<1>2. apiCall.length \in Nat
  BY <1>1, ApiAssumption
<1>3. moved \in Seq({0, 2}) /\ Len(moved) = 0
  BY <1>1
<1> QED BY <1>1, <1>2, <1>3 DEF ReadSays

LEMMA TargetWritesKept ==
  ASSUME MemoryInv, TargetWrites PROVE MemoryInv'
<1>1. /\ apiAt = "read" /\ UNCHANGED <<apiCall, apiAt, moved, at_item, apiResult, written>>
  BY DEF TargetWrites
<1>2. apiCall.op = "read" /\ ReadSays
  BY <1>1 DEF MemoryInv, ApiType
<1>3. PICK a \in AddressRange :
        /\ target_bytes' = [target_bytes EXCEPT ![a] = 2]
        /\ held' = [held EXCEPT ![a] = @ \cup {2}]
  BY DEF TargetWrites
<1>4. \A b \in AddressRange : held[b] \subseteq held'[b] /\ target_bytes'[b] \in held'[b]
  BY <1>2, <1>3 DEF ReadSays
<1>5. /\ target_bytes' \in [AddressRange -> {0, 2}] /\ held' \in [AddressRange -> SUBSET {0, 2}]
  BY <1>2, <1>3 DEF ReadSays
<1>6. ASSUME NEW i \in 1 .. Len(moved) PROVE moved'[i] \in held'[At(i - 1)']
  <2>1. moved[i] \in held[At(i - 1)] /\ i \in Nat /\ i - 1 \in Nat
    BY <1>2 DEF ReadSays
  <2>2. At(i - 1) \in AddressRange
    BY <1>2, <2>1, InRange, CallsOf DEF MemoryInv
  <2>3. At(i - 1)' = At(i - 1)
    BY <1>1 DEF At
  <2> QED BY <1>1, <1>4, <2>1, <2>2, <2>3
<1>7. ReadSays'
  BY <1>1, <1>2, <1>4, <1>5, <1>6 DEF ReadSays, Succeeds
<1> QED BY <1>1, <1>2, <1>7 DEF MemoryInv, ApiType

LEMMA MemoryReadKept ==
  ASSUME MemoryInv, MemoryRead PROVE MemoryInv'
<1>1. apiAt = "read" /\ UNCHANGED <<apiCall, target_bytes, held>>
  BY DEF MemoryRead
<1>2. apiCall.op = "read" /\ ReadSays /\ apiCall.length \in Nat /\ apiCall.address \in Nat
  BY <1>1, CallsOf DEF MemoryInv, ApiType
<1>3. PICK length \in Nat : length = Len(moved)
  BY <1>2 DEF ReadSays
<1>4. PICK chunk : chunk = Smaller(apiCall.length - length, MaxReadChunk)
  OBVIOUS
<1>5. chunk \in Nat /\ chunk <= apiCall.length - length /\ (chunk = 0 => length = apiCall.length)
  BY <1>2, <1>3, <1>4, ApiAssumption DEF Smaller, ReadSays
<1>6. apiAt' \in {"read", "ended"}
  BY <1>1 DEF MemoryRead, CallEnds
<1>7. CASE moved' = moved /\ ~Succeeds(apiResult')
  <2>1. ReadSays'
    BY <1>1, <1>2, <1>7 DEF ReadSays, Succeeds, At
  <2> QED BY <1>1, <1>2, <1>6, <2>1 DEF MemoryInv, ApiType
<1>8. CASE chunk = 0 /\ apiResult' = [ok |-> moved] /\ moved' = moved
  <2>1. ReadSays'
    BY <1>1, <1>2, <1>3, <1>5, <1>8 DEF ReadSays, Succeeds, At
  <2> QED BY <1>1, <1>2, <1>6, <2>1 DEF MemoryInv, ApiType
<1>9. CASE /\ moved' = moved \o [i \in 1 .. chunk |-> target_bytes[At(length + i - 1)]]
           /\ UNCHANGED <<apiAt, apiResult>>
  <2>1. PICK more : more = [i \in 1 .. chunk |-> target_bytes[At(length + i - 1)]]
    OBVIOUS
  <2>2. ASSUME NEW i \in 1 .. chunk
        PROVE  At(length + i - 1) \in AddressRange /\ more[i] \in {0, 2}
                 /\ more[i] \in held[At(length + i - 1)]
    <3>1. PICK offset \in Nat : offset = length + i - 1
      BY <1>5
    <3>2. At(offset) \in AddressRange
      BY <1>2, InRange
    <3> QED BY <1>2, <2>1, <3>1, <3>2 DEF ReadSays
  <2>3. more \in Seq({0, 2}) /\ Len(more) = chunk
    <3>1. more \in [1 .. chunk -> {0, 2}]
      BY <2>1, <2>2
    <3> QED BY <1>5, <3>1, SequenceOf
  <2>4. /\ moved' \in Seq({0, 2}) /\ Len(moved') = length + chunk
        /\ \A i \in 1 .. length : moved'[i] = moved[i]
        /\ \A i \in length + 1 .. length + chunk : moved'[i] = more[i - length]
    <3>1. moved' = moved \o more /\ moved \in Seq({0, 2})
      BY <1>2, <1>9, <2>1 DEF ReadSays
    <3>2. /\ moved' \in Seq({0, 2}) /\ Len(moved') = length + chunk
          /\ \A i \in 1 .. length + chunk :
               moved'[i] = IF i <= length THEN moved[i] ELSE more[i - length]
      BY <1>3, <2>3, <3>1, ConcatProperties
    <3> QED BY <1>5, <3>2
  <2>5. ASSUME NEW i \in 1 .. Len(moved') PROVE moved'[i] \in held'[At(i - 1)']
    <3>1. At(i - 1)' = At(i - 1) /\ i \in 1 .. length + chunk
      BY <1>1, <2>4 DEF At
    <3>2. CASE i \in 1 .. length
      BY <1>1, <1>2, <1>3, <2>4, <3>1, <3>2 DEF ReadSays
    <3>3. CASE i \in length + 1 .. length + chunk
      <4>1. PICK k \in 1 .. chunk : k = i - length
        BY <1>5, <3>3
      <4>2. length + k - 1 = i - 1
        BY <4>1, <1>5
      <4> QED BY <1>1, <2>2, <2>4, <3>1, <3>3, <4>1, <4>2
    <3> QED BY <1>5, <3>1, <3>2, <3>3
  <2>6. Len(moved') <= apiCall.length
    BY <1>2, <1>3, <1>5, <2>4
  <2>7. /\ target_bytes' \in [AddressRange -> {0, 2}] /\ held' \in [AddressRange -> SUBSET {0, 2}]
        /\ \A a \in AddressRange : target_bytes'[a] \in held'[a]
    BY <1>1, <1>2 DEF ReadSays
  <2>8. apiAt' # "ended"
    BY <1>1, <1>9
  <2>9. ReadSays'
    BY <1>1, <2>4, <2>5, <2>6, <2>7, <2>8 DEF ReadSays
  <2> QED BY <1>1, <1>2, <1>6, <2>9 DEF MemoryInv, ApiType
<1>10. \/ moved' = moved /\ ~Succeeds(apiResult')
       \/ chunk = 0 /\ apiResult' = [ok |-> moved] /\ moved' = moved
       \/ /\ moved' = moved \o [i \in 1 .. chunk |-> target_bytes[At(length + i - 1)]]
          /\ UNCHANGED <<apiAt, apiResult>>
  BY <1>3, <1>4, Failing DEF MemoryRead, CallEnds
<1> QED BY <1>7, <1>8, <1>9, <1>10

-----------------------------------------------------------------------------
(* write_memory.                                                           *)

(* A part of the data behind its beginning makes a longer beginning.       *)
LEMMA Placing ==
  ASSUME apiCall.data \in Seq(Nat), NEW o \in Nat, NEW m \in Nat, o <= m, m <= Len(apiCall.data),
         NEW bytes, Len(bytes) = m - o, DOMAIN bytes = 1 .. m - o,
         \A i \in 1 .. m - o : bytes[i] = apiCall.data[o + i]
  PROVE  Beginning(o) \cup Placed(bytes, o) = Beginning(m)
<1>1. ASSUME NEW w \in Beginning(o) \cup Placed(bytes, o) PROVE w \in Beginning(m)
  <2>1. CASE w \in Beginning(o)
    BY <2>1 DEF Beginning
  <2>2. CASE w \in Placed(bytes, o)
    <3>1. PICK i \in 1 .. m - o : w = [address |-> At(o + i - 1), byte |-> bytes[i]]
      BY <2>2 DEF Placed
    <3>2. PICK k \in 1 .. m : k = o + i
      OBVIOUS
    <3>3. bytes[i] = apiCall.data[k] /\ At(o + i - 1) = At(k - 1)
      <4>1. o + i - 1 = k - 1
        BY <3>2
      <4>2. bytes[i] = apiCall.data[o + i]
        OBVIOUS
      <4> QED BY <3>2, <4>1, <4>2, ZenonT(30)
    <3>4. w = [address |-> At(k - 1), byte |-> apiCall.data[k]]
      BY <3>1, <3>3
    <3> QED BY <3>2, <3>4 DEF Beginning
  <2> QED BY <2>1, <2>2
<1>2. ASSUME NEW w \in Beginning(m) PROVE w \in Beginning(o) \cup Placed(bytes, o)
  <2>1. PICK k \in 1 .. m : w = [address |-> At(k - 1), byte |-> apiCall.data[k]]
    BY <1>2 DEF Beginning
  <2>2. CASE k <= o
    <3>1. k \in 1 .. o
      BY <2>2
    <3>2. w \in Beginning(o)
      BY <2>1, <3>1 DEF Beginning
    <3> QED BY <3>2
  <2>3. CASE ~(k <= o)
    <3>1. PICK i \in 1 .. m - o : i = k - o
      BY <2>3
    <3>2. k = o + i
      BY <3>1
    <3>3. bytes[i] = apiCall.data[k] /\ At(o + i - 1) = At(k - 1)
      <4>1. o + i - 1 = k - 1
        BY <3>2
      <4>2. bytes[i] = apiCall.data[o + i]
        OBVIOUS
      <4> QED BY <3>2, <4>1, <4>2, ZenonT(30)
    <3>4. w = [address |-> At(o + i - 1), byte |-> bytes[i]]
      BY <2>1, <3>3
    <3>5. w \in Placed(bytes, o)
      BY <3>4 DEF Placed
    <3> QED BY <3>5
  <2> QED BY <2>2, <2>3
<1> QED BY <1>1, <1>2

LEMMA WriteBegins ==
  ASSUME ApiInit, apiCall.op = "write" PROVE WriteSays
<1>1. at_item = 1 /\ written = {} /\ apiCall \in ApiCalls /\ apiAt = "write"
  BY DEF ApiInit
<1>2. apiCall.data \in Seq(Nat) /\ MaxWriteChunk \in Nat
  BY <1>1, ApiAssumption
<1>3. ChunkOffset(at_item) = 0 /\ Smaller(0, Len(apiCall.data)) = 0
  BY <1>1, <1>2, LenProperties DEF ChunkOffset, Smaller
<1>4. Beginning(0) = {}
  BY DEF Beginning
<1> QED BY <1>1, <1>3, <1>4 DEF WriteSays

LEMMA WriteMemoryKept ==
  ASSUME MemoryInv, WriteMemory PROVE MemoryInv'
<1>1. apiAt = "write" /\ apiCall' = apiCall
  BY DEF WriteMemory
<1>2. /\ apiCall.op = "write" /\ WriteSays /\ apiCall.data \in Seq(Nat) /\ apiCall.address \in Nat
      /\ MaxWriteChunk \in Nat \ {0}
  BY <1>1, CallsOf, ApiAssumption DEF MemoryInv, ApiType
<1>3. PICK total \in Nat : total = Len(apiCall.data)
  BY <1>2, LenProperties
<1>4. PICK o \in Nat : o = (at_item - 1) * MaxWriteChunk
  <2>1. at_item - 1 \in Nat
    BY <1>2 DEF WriteSays
  <2> QED BY <1>2, <2>1
<1>5. at_item \in Nat /\ (at_item + 1 - 1) * MaxWriteChunk = o + MaxWriteChunk
  <2>1. PICK k \in Nat : at_item = k + 1
    BY <1>2 DEF WriteSays
  <2>2. (k + 1) * MaxWriteChunk = k * MaxWriteChunk + MaxWriteChunk
    BY <1>2
  <2> QED BY <1>2, <1>4, <2>1, <2>2
<1>6. ChunkOffset(at_item) = o
  BY <1>4 DEF ChunkOffset
<1>7. written = Beginning(Smaller(o, total))
  BY <1>1, <1>2, <1>3, <1>6 DEF WriteSays
<1>8. apiAt' \in {"write", "ended"}
  BY <1>1 DEF WriteMemory, CallEnds
<1>9. ASSUME NEW n \in 0 .. total, apiAt' = "ended", written' = Beginning(n), at_item' = at_item,
             Succeeds(apiResult') => n = total
      PROVE  MemoryInv'
  <2>1. Beginning(n)' = Beginning(n)
    BY <1>1 DEF Beginning, At
  <2>2. WriteSays'
    BY <1>1, <1>2, <1>3, <1>5, <1>9, <2>1 DEF WriteSays, Succeeds
  <2> QED BY <1>1, <1>2, <1>9, <2>2 DEF MemoryInv, ApiType
<1>10. CASE o >= total
  <2>1. /\ apiAt' = "ended" /\ written' = written /\ at_item' = at_item
    BY <1>3, <1>4, <1>10 DEF WriteMemory, CallEnds
  <2>2. Smaller(o, total) = total
    BY <1>10 DEF Smaller
  <2> QED BY <1>7, <1>9, <2>1, <2>2
<1>11. CASE o < total
  <2>1. PICK m \in Nat : m = Smaller(o + MaxWriteChunk, total)
    BY <1>2 DEF Smaller
  <2>2. o <= m /\ m <= total
    BY <1>2, <1>11, <2>1 DEF Smaller
  <2>3. PICK chunk : chunk = SubSeq(apiCall.data, o + 1, m)
    OBVIOUS
  <2>4. /\ chunk \in Seq(Nat) /\ Len(chunk) = m - o
        /\ \A i \in 1 .. m - o : chunk[i] = apiCall.data[o + i]
    <3>1. PICK data \in Seq(Nat) : data = apiCall.data /\ m <= Len(data)
      BY <1>2, <1>3, <2>2
    <3>2. chunk = SubSeq(data, o + 1, m)
      BY <2>3, <3>1
    <3>3. /\ chunk \in Seq(Nat) /\ Len(chunk) = m - o
          /\ \A i \in 1 .. m - o : chunk[i] = data[o + i]
      BY <2>2, <3>1, <3>2, PartOf
    <3> QED BY <3>1, <3>3
  <2>5. written = Beginning(o)
    BY <1>7, <1>11 DEF Smaller
  <2>6. ASSUME NEW done \in 0 .. m - o, NEW bytes, bytes = SubSeq(chunk, 1, done)
        PROVE  Beginning(o) \cup Placed(bytes, o) = Beginning(o + done)
    <3>1. /\ bytes \in Seq(Nat) /\ Len(bytes) = done /\ \A i \in 1 .. done : bytes[i] = chunk[i]
      <4>1. /\ SubSeq(chunk, 0 + 1, done) \in Seq(Nat)
            /\ Len(SubSeq(chunk, 0 + 1, done)) = done - 0
            /\ \A i \in 1 .. done - 0 : SubSeq(chunk, 0 + 1, done)[i] = chunk[0 + i]
        BY <2>2, <2>4, PartOf
      <4>2. \A i \in 1 .. done : 0 + i = i
        OBVIOUS
      <4> QED BY <2>6, <4>1, <4>2
    <3>2. ASSUME NEW i \in 1 .. done PROVE bytes[i] = apiCall.data[o + i]
      <4>1. i \in 1 .. m - o
        BY <2>2
      <4>2. bytes[i] = chunk[i]
        BY <3>1
      <4>3. chunk[i] = apiCall.data[o + i]
        BY <2>4, <4>1
      <4> QED BY <4>2, <4>3
    <3>3. PICK k \in Nat : k = o + done
      OBVIOUS
    <3>4. DOMAIN bytes = 1 .. k - o /\ Len(bytes) = k - o /\ k <= Len(apiCall.data) /\ o <= k
      BY <1>3, <2>2, <3>1, <3>3
    <3>5. \A i \in 1 .. k - o : bytes[i] = apiCall.data[o + i]
      BY <3>2, <3>3
    <3> QED BY <1>2, <3>3, <3>4, <3>5, Placing
  <2>7. \/ /\ written' = written \cup Placed(chunk, o)
           /\ at_item' = at_item + 1 /\ UNCHANGED <<apiAt, apiResult>>
        \/ \E failure \in Failures, done \in 0 .. Len(chunk) :
             /\ written' = written \cup Placed(SubSeq(chunk, 1, done), o)
             /\ at_item' = at_item /\ CallEnds(MemoryError(failure, "MemoryWrite"))
    BY <1>3, <1>4, <1>6, <1>11, <2>1, <2>3 DEF WriteMemory
  <2>8. CASE /\ written' = written \cup Placed(chunk, o)
             /\ at_item' = at_item + 1 /\ UNCHANGED <<apiAt, apiResult>>
    <3>1. DOMAIN chunk = 1 .. m - o
      BY <2>4
    <3>2. written' = Beginning(m)
      BY <1>2, <1>3, <2>2, <2>4, <2>5, <2>8, <3>1, Placing
    <3>3. Smaller(ChunkOffset(at_item'), total) = m
      BY <1>5, <2>1, <2>8 DEF ChunkOffset
    <3>4. Beginning(m)' = Beginning(m)
      BY <1>1 DEF Beginning, At
    <3>5. ChunkOffset(at_item)' = ChunkOffset(at_item')
      BY DEF ChunkOffset
    <3>6. WriteSays'
      BY <1>1, <1>3, <1>5, <2>8, <3>2, <3>3, <3>4, <3>5 DEF WriteSays
    <3> QED BY <1>1, <1>2, <1>8, <3>6 DEF MemoryInv, ApiType
  <2>9. CASE \E failure \in Failures, done \in 0 .. Len(chunk) :
               /\ written' = written \cup Placed(SubSeq(chunk, 1, done), o)
               /\ at_item' = at_item /\ CallEnds(MemoryError(failure, "MemoryWrite"))
    <3>1. PICK failure \in Failures, done \in 0 .. m - o :
               /\ written' = written \cup Placed(SubSeq(chunk, 1, done), o)
               /\ at_item' = at_item /\ CallEnds(MemoryError(failure, "MemoryWrite"))
      BY <2>4, <2>9
    <3>2. written' = Beginning(o + done)
      BY <2>5, <2>6, <3>1
    <3>3. apiAt' = "ended" /\ ~Succeeds(apiResult')
      BY <3>1, Failing DEF CallEnds
    <3>4. PICK n \in 0 .. total : n = o + done
      BY <2>2
    <3> QED BY <1>9, <3>1, <3>2, <3>3, <3>4
  <2> QED BY <2>7, <2>8, <2>9
<1> QED BY <1>3, <1>4, <1>10, <1>11

-----------------------------------------------------------------------------
(* The other calls leave memory alone.                                     *)
LEMMA OthersKept ==
  ASSUME MemoryInv,
         \/ ReadStream \/ QuerySymbol \/ CallFunction \/ FunctionsCalled \/ PracticeState
         \/ ParseAddress \/ UNCHANGED apiVars
  PROVE  MemoryInv'
<1>1. CASE UNCHANGED apiVars
  BY <1>1 DEF apiVars, MemoryInv, ApiType, ReadSays, WriteSays, Beginning, At, Succeeds
<1>2. CASE ~UNCHANGED apiVars
  <2>1. /\ apiCall' = apiCall /\ apiAt' \in {apiAt, "ended"}
        /\ apiCall.op \notin {"read", "write"}
    <3>1. apiCall.op # "ended" /\ apiAt \in {apiCall.op, "ended"}
      BY CallsOf DEF MemoryInv, ApiType
    <3>2. CASE ReadStream \/ QuerySymbol
      BY <3>1, <3>2 DEF ReadStream, QuerySymbol, CallEnds
    <3>3. CASE CallFunction
      BY <3>1, <3>3 DEF CallFunction, AsksFunction, Asks, CallEnds
    <3>4. CASE FunctionsCalled
      BY <3>1, <3>4 DEF FunctionsCalled, AsksFunction, Asks, CallEnds
    <3>5. CASE PracticeState \/ ParseAddress
      BY <3>1, <3>5 DEF PracticeState, ParseAddress, CallEnds
    <3> QED BY <1>2, <3>2, <3>3, <3>4, <3>5
  <2> QED BY <2>1 DEF MemoryInv, ApiType
<1> QED BY <1>1, <1>2

LEMMA MemoryInvariance == ApiSpec => []MemoryInv
<1>1. ApiInit => MemoryInv
  BY ReadBegins, WriteBegins DEF ApiInit, MemoryInv, ApiType
<1>2. MemoryInv /\ [ApiNext]_apiVars => MemoryInv'
  BY TargetWritesKept, MemoryReadKept, WriteMemoryKept, OthersKept DEF ApiNext
<1> QED BY <1>1, <1>2, PTL DEF ApiSpec

(* A read that succeeds has the bytes asked for as memory held them, and a *)
(* write puts its data and nothing else, whatever the chunks (memory_read, *)
(* write_memory).                                                          *)
THEOREM MemoryExact == ApiSpec => []MemoryIsExact
<1>1. ASSUME MemoryInv PROVE MemoryIsExact
  <2>1. ApiType
    BY <1>1 DEF MemoryInv
  <2>2. CASE apiCall.op = "read"
    BY <1>1, <2>2 DEF MemoryInv, ReadSays, MemoryIsExact
  <2>3. CASE apiCall.op = "write"
    <3>1. WriteSays /\ apiCall.data \in Seq(Nat) /\ apiAt \in {"write", "ended"}
      BY <1>1, <2>1, <2>3, CallsOf DEF MemoryInv, ApiType
    <3>2. \E n \in 0 .. Len(apiCall.data) :
            written = Beginning(n)
              /\ (apiAt = "ended" /\ Succeeds(apiResult) => n = Len(apiCall.data))
      <4>1. CASE apiAt = "ended"
        BY <3>1, <4>1 DEF WriteSays
      <4>2. CASE apiAt = "write"
        <5>1. at_item - 1 \in Nat /\ MaxWriteChunk \in Nat /\ Len(apiCall.data) \in Nat
          BY <3>1, ApiAssumption, LenProperties DEF WriteSays
        <5>2. ChunkOffset(at_item) \in Nat
          BY <5>1 DEF ChunkOffset
        <5>3. Smaller(ChunkOffset(at_item), Len(apiCall.data)) \in 0 .. Len(apiCall.data)
          BY <5>1, <5>2 DEF Smaller
        <5> QED BY <3>1, <4>2, <5>3 DEF WriteSays
      <4> QED BY <3>1, <4>1, <4>2
    <3> QED BY <2>3, <3>2 DEF MemoryIsExact, Beginning
  <2>4. CASE apiCall.op \notin {"read", "write"}
    BY <2>4 DEF MemoryIsExact
  <2> QED BY <2>2, <2>3, <2>4
<1> QED BY <1>1, MemoryInvariance, PTL

(* A set of places has a first and a last one: the intervals that begin at *)
(* its members are finite sets, which strict inclusion orders well.        *)
LEMMA LastPlace ==
  ASSUME NEW n \in Nat, NEW S \in SUBSET (0 .. n), S # {}
  PROVE  \E x \in S : \A y \in S : y <= x
<1> DEFINE T == {x .. n : x \in S}
<1>1. T \subseteq FiniteSubsetsOf(Nat) /\ T # {}
  <2>1. \A x \in S : IsFiniteSet(x .. n) /\ x .. n \subseteq Nat
    BY FS_Interval
  <2> QED BY <2>1 DEF FiniteSubsetsOf
<1>2. IsWellFoundedOn(StrictSubsetOrdering(Nat), FiniteSubsetsOf(Nat))
  BY FS_StrictSubsetOrderingWellFounded
<1>3. PICK least \in T : \A t \in T : ~(<<t, least>> \in StrictSubsetOrdering(Nat))
  <2> HIDE DEF T
  <2> QED BY <1>1, <1>2, WFMin
<1>4. PICK x \in S : least = x .. n
  BY <1>3
<1>5. ASSUME NEW y \in S PROVE y <= x
  <2>1. ~(y .. n \subseteq x .. n /\ y .. n # x .. n)
    <3>1. y .. n \in SUBSET Nat /\ x .. n \in SUBSET Nat /\ y .. n \in T
      OBVIOUS
    <3>2. ~(<<y .. n, x .. n>> \in StrictSubsetOrdering(Nat))
      BY <1>3, <1>4, <3>1
    <3> QED BY <3>1, <3>2, Zenon DEF StrictSubsetOrdering
  <2>2. CASE x < y
    <3>1. x \in x .. n /\ x \notin y .. n /\ y .. n \subseteq x .. n
      BY <2>2
    <3> QED BY <2>1, <3>1
  <2> QED BY <2>2
<1> QED BY <1>5

LEMMA FirstPlace ==
  ASSUME NEW n \in Nat, NEW S \in SUBSET (0 .. n), S # {}
  PROVE  \E x \in S : \A y \in S : x <= y
<1> DEFINE T == {n - x : x \in S}
<1>1. T \in SUBSET (0 .. n) /\ T # {}
  <2>1. \A x \in S : n - x \in 0 .. n
    OBVIOUS
  <2>2. T \in SUBSET (0 .. n)
    BY <2>1
  <2>3. PICK x : x \in S
    OBVIOUS
  <2>4. n - x \in T
    BY <2>3
  <2> QED BY <2>2, <2>4
<1>2. PICK t \in T : \A u \in T : u <= t
  <2> HIDE DEF T
  <2> QED BY <1>1, LastPlace
<1>3. PICK x \in S : t = n - x
  BY <1>2
<1>4. ASSUME NEW y \in S PROVE x <= y
  <2>1. n - y \in T /\ x \in Int /\ y \in Int
    OBVIOUS
  <2>2. n - y <= n - x
    BY <1>2, <1>3, <2>1
  <2> QED BY <2>1, <2>2
<1> QED BY <1>4

-----------------------------------------------------------------------------
(* Functions, practice_state and Address::parse.                           *)

(* A function that takes each number from the one before.                  *)
Follows(f, n, start, next) ==
  /\ f \in [0 .. n -> Nat] /\ f[0] = start
  /\ \A i \in 1 .. n : f[i] = next[<<i, f[i - 1]>>]

LEMMA Following ==
  ASSUME NEW n \in Nat, NEW start \in Nat, NEW next \in [(1 .. n) \X Nat -> Nat]
  PROVE  \E f : Follows(f, n, start, next)
<1> DEFINE Bad == {m \in 0 .. n : ~\E f : Follows(f, m, start, next)}
<1>1. SUFFICES ASSUME Bad # {} PROVE FALSE
  OBVIOUS
<1>2. PICK m \in Bad : \A k \in Bad : m <= k
  <2>1. Bad \in SUBSET (0 .. n)
    OBVIOUS
  <2> HIDE DEF Bad
  <2> QED BY <1>1, <2>1, FirstPlace
<1>3. CASE m = 0
  <2>1. PICK f : f = [i \in 0 .. 0 |-> start]
    OBVIOUS
  <2>2. Follows(f, 0, start, next)
    BY <2>1 DEF Follows
  <2> QED BY <1>2, <1>3, <2>2
<1>4. CASE m # 0
  <2>1. PICK k \in 0 .. n : m = k + 1 /\ k \notin Bad
    <3>1. m \in 1 .. n
      BY <1>2, <1>4
    <3>2. PICK k \in 0 .. n : m = k + 1
      BY <3>1
    <3>3. ~(m <= k)
      BY <3>2
    <3> QED BY <1>2, <3>2, <3>3
  <2>2. PICK f : Follows(f, k, start, next)
    BY <2>1
  <2>3. PICK new : new = next[<<m, f[k]>>]
    OBVIOUS
  <2>4. m \in 1 .. n /\ f[k] \in Nat /\ new \in Nat
    <3>1. m \in 1 .. n /\ f[k] \in Nat
      BY <1>2, <2>1, <2>2 DEF Follows
    <3> QED BY <2>3, <3>1
  <2>5. PICK g : g = [i \in 0 .. m |-> IF i = m THEN new ELSE f[i]]
    OBVIOUS
  <2>6. ASSUME NEW i \in 0 .. k PROVE g[i] = f[i] /\ f[i] \in Nat
    <3>1. i \in 0 .. m /\ i # m
      BY <2>1
    <3> QED BY <2>2, <2>5, <3>1 DEF Follows
  <2>7. g[m] = new /\ g \in [0 .. m -> Nat]
    <3>1. m \in 0 .. m /\ \A i \in 0 .. m : i = m \/ i \in 0 .. k
      BY <2>1
    <3>2. g[m] = new
      BY <2>5, <3>1
    <3>3. \A i \in 0 .. m : g[i] \in Nat
      BY <2>4, <2>6, <3>1, <3>2
    <3>4. g = [i \in 0 .. m |-> g[i]]
      BY <2>5
    <3> HIDE <2>5
    <3> QED BY <3>2, <3>3, <3>4
  <2>8. ASSUME NEW i \in 1 .. m PROVE g[i] = next[<<i, g[i - 1]>>]
    <3>1. CASE i = m
      <4>1. i - 1 = k /\ k \in 0 .. k
        BY <2>1, <3>1
      <4> QED BY <2>3, <2>6, <2>7, <3>1, <4>1
    <3>2. CASE i # m
      <4>1. i \in 1 .. k /\ i \in 0 .. k /\ i - 1 \in 0 .. k
        BY <2>1, <3>2
      <4> QED BY <2>2, <2>6, <4>1 DEF Follows
    <3> QED BY <3>1, <3>2
  <2>9. g[0] = start
    <3>1. 0 \in 0 .. k
      BY <2>1
    <3> QED BY <2>2, <2>6, <3>1 DEF Follows
  <2>10. Follows(g, m, start, next)
    BY <2>7, <2>8, <2>9 DEF Follows
  <2> QED BY <1>2, <2>10
<1> QED BY <1>3, <1>4

(* What a byte adds to the number behind it.                               *)
Grown(byte, number) == byte + ByteBase * number
Capped(byte, number) ==
  IF number = WordLimit \/ number * ByteBase >= WordLimit THEN WordLimit
  ELSE number * ByteBase + byte

LEMMA Growing ==
  ASSUME NEW byte \in 0 .. ByteBase - 1, NEW number \in Nat
  PROVE  Grown(byte, number) \in Nat /\ Capped(byte, number) \in Nat
<1>1. ByteBase \in Nat /\ WordLimit \in Nat
  BY ApiAssumption
<1>2. PICK product \in Nat : product = ByteBase * number /\ product = number * ByteBase
  BY <1>1
<1> QED BY <1>1, <1>2 DEF Grown, Capped

(* A number that is too large stays too large, and one that is not has     *)
(* room for a byte.                                                        *)
LEMMA CapKept ==
  ASSUME NEW byte \in 0 .. ByteBase - 1, NEW number \in Nat, NEW cap \in Nat,
         cap = IF number >= WordLimit THEN WordLimit ELSE number
  PROVE  Capped(byte, cap) =
           IF Grown(byte, number) >= WordLimit THEN WordLimit ELSE Grown(byte, number)
<1>1. PICK B \in Nat \ {0} : B = ByteBase
  BY ApiAssumption
<1>2. PICK W \in Nat \ {0} : W = WordLimit /\ W % B = 0
  BY <1>1, ApiAssumption
<1>3. PICK w \in Nat : W = B * w
  <2>1. W \div B \in Nat /\ W = B * (W \div B) + (W % B)
    BY <1>1, <1>2
  <2> QED BY <1>2, <2>1
<1>4. CASE number >= W
  <2>1. B * number >= number
    BY <1>1
  <2>2. PICK product \in Nat : product = B * number
    BY <1>1
  <2>3. product + byte >= W /\ byte \in Nat
    BY <1>1, <1>2, <1>4, <2>1, <2>2
  <2> QED BY <1>1, <1>2, <1>4, <2>2, <2>3 DEF Capped, Grown
<1>5. CASE number < W
  <2>1. cap = number
    BY <1>2, <1>5
  <2>2. PICK product \in Nat : product = B * number /\ product = number * B
    BY <1>1
  <2>3. CASE number < w
    <3>1. product + B <= W
      <4>1. number + 1 <= w
        BY <2>3
      <4>2. B * (number + 1) <= B * w
        BY <1>1, <4>1
      <4>3. B * (number + 1) = product + B
        BY <1>1, <2>2
      <4> QED BY <1>3, <4>2, <4>3
    <3>2. product + byte < W /\ product < W /\ number # W /\ byte + product = product + byte
      BY <1>1, <1>2, <1>5, <3>1
    <3> QED BY <1>1, <1>2, <2>1, <2>2, <3>2 DEF Capped, Grown
  <2>4. CASE ~(number < w)
    <3>1. product >= W
      <4>1. w <= number
        BY <2>4
      <4>2. B * w <= B * number
        BY <1>1, <4>1
      <4> QED BY <1>3, <2>2, <4>2
    <3>2. byte + product >= W
      BY <1>1, <1>2, <3>1
    <3> QED BY <1>1, <1>2, <2>1, <2>2, <3>1, <3>2 DEF Capped, Grown
  <2> QED BY <2>3, <2>4
<1> QED BY <1>2, <1>4, <1>5

(* The loop of practice_state reads the bytes from the last one on.        *)
LEMMA FoldedIs ==
  ASSUME NEW bytes, Len(bytes) \in Nat, \A i \in 1 .. Len(bytes) : bytes[i] \in 0 .. ByteBase - 1
  PROVE  \E f : /\ Folded(bytes) = f[Len(bytes)] /\ f[0] = 0
                /\ \A n \in 1 .. Len(bytes) :
                     f[n] = Capped(bytes[Len(bytes) + 1 - n], f[n - 1])
<1> DEFINE F(f) == [n \in 0 .. Len(bytes) |->
              IF n = 0 THEN 0
              ELSE LET high == f[n - 1] IN
                   IF high = WordLimit \/ high * ByteBase >= WordLimit THEN WordLimit
                   ELSE high * ByteBase + bytes[Len(bytes) + 1 - n]]
           value == CHOOSE f : f = F(f)
<1>1. Folded(bytes) = value[Len(bytes)]
  BY DEF Folded
<1> DEFINE G(f) == [n \in 0 .. Len(bytes) |->
              IF n = 0 THEN 0 ELSE Capped(bytes[Len(bytes) + 1 - n], f[n - 1])]
<1>2. ASSUME NEW f PROVE F(f) = G(f)
  BY Zenon DEF Capped
<1>3. \E h : h = G(h)
  <2>1. PICK L \in Nat : L = Len(bytes)
    OBVIOUS
  <2>2. PICK next : next = [p \in (1 .. L) \X Nat |-> Capped(bytes[L + 1 - p[1]], p[2])]
    OBVIOUS
  <2>3. ASSUME NEW i \in 1 .. L, NEW number \in Nat
        PROVE  Capped(bytes[L + 1 - i], number) \in Nat
    <3>1. L + 1 - i \in 1 .. L
      OBVIOUS
    <3>2. bytes[L + 1 - i] \in 0 .. ByteBase - 1
      BY <2>1, <3>1
    <3> QED BY <3>2, Growing
  <2>4. next \in [(1 .. L) \X Nat -> Nat]
    <3>1. \A p \in (1 .. L) \X Nat : p[1] \in 1 .. L /\ p[2] \in Nat
      OBVIOUS
    <3> QED BY <2>2, <2>3, <3>1
  <2>5. PICK h : Follows(h, L, 0, next)
    BY <2>4, Following
  <2>6. ASSUME NEW n \in 0 .. L
        PROVE  h[n] = IF n = 0 THEN 0 ELSE Capped(bytes[L + 1 - n], h[n - 1])
    <3>1. CASE n = 0
      BY <2>5, <3>1 DEF Follows
    <3>2. CASE n # 0
      <4>1. n \in 1 .. L /\ n - 1 \in 0 .. L
        BY <3>2
      <4>2. h[n] = next[<<n, h[n - 1]>>] /\ h[n - 1] \in Nat
        BY <2>5, <4>1 DEF Follows
      <4>3. <<n, h[n - 1]>> \in (1 .. L) \X Nat
        BY <4>1, <4>2
      <4>4. next[<<n, h[n - 1]>>] = Capped(bytes[L + 1 - n], h[n - 1])
        BY <2>2, <4>3
      <4> QED BY <3>2, <4>2, <4>4
    <3> QED BY <3>1, <3>2
  <2>7. DOMAIN h = 0 .. L /\ h = [n \in 0 .. L |-> h[n]]
    BY <2>5 DEF Follows
  <2>8. h = G(h)
    BY <2>1, <2>6, <2>7, Zenon
  <2> QED BY <2>8
<1>4. value = F(value)
  <2>1. PICK h : h = G(h)
    BY <1>3
  <2>2. h = F(h)
    BY <1>2, <2>1
  <2> HIDE DEF F
  <2> QED BY <2>2
<1> HIDE DEF value
<1>5. value = G(value)
  BY <1>2, <1>4
<1> HIDE DEF F
<1>6. \A n \in 0 .. Len(bytes) :
        value[n] = IF n = 0 THEN 0 ELSE Capped(bytes[Len(bytes) + 1 - n], value[n - 1])
  BY <1>5, Zenon
<1>7. value[0] = 0
  BY <1>6
<1>8. ASSUME NEW n \in 1 .. Len(bytes)
      PROVE  value[n] = Capped(bytes[Len(bytes) + 1 - n], value[n - 1])
  <2>1. n \in 0 .. Len(bytes) /\ n # 0
    OBVIOUS
  <2> QED BY <1>6, <2>1
<1> QED BY <1>1, <1>7, <1>8

(* The number from a place on, by that from the next place on.             *)
LEMMA ValueIs ==
  ASSUME NEW bytes, Len(bytes) \in Nat, \A i \in 1 .. Len(bytes) : bytes[i] \in 0 .. ByteBase - 1
  PROVE  /\ ValueFrom(bytes)[Len(bytes) + 1] = 0
         /\ \A i \in 1 .. Len(bytes) :
              ValueFrom(bytes)[i] = Grown(bytes[i], ValueFrom(bytes)[i + 1])
<1> DEFINE F(f) == [i \in 1 .. Len(bytes) + 1 |->
              IF i = Len(bytes) + 1 THEN 0 ELSE bytes[i] + ByteBase * f[i + 1]]
           value == CHOOSE f : f = F(f)
<1>1. ValueFrom(bytes) = value
  BY DEF ValueFrom
<1> DEFINE G(f) == [i \in 1 .. Len(bytes) + 1 |->
              IF i = Len(bytes) + 1 THEN 0 ELSE Grown(bytes[i], f[i + 1])]
<1>2. ASSUME NEW f PROVE F(f) = G(f)
  BY Zenon DEF Grown
<1>3. \E h : h = G(h)
  <2>1. PICK L \in Nat : L = Len(bytes)
    OBVIOUS
  <2>2. PICK next : next = [p \in (1 .. L) \X Nat |-> Grown(bytes[L + 1 - p[1]], p[2])]
    OBVIOUS
  <2>3. ASSUME NEW i \in 1 .. L, NEW number \in Nat
        PROVE  Grown(bytes[L + 1 - i], number) \in Nat
    <3>1. L + 1 - i \in 1 .. L
      OBVIOUS
    <3>2. bytes[L + 1 - i] \in 0 .. ByteBase - 1
      BY <2>1, <3>1
    <3> QED BY <3>2, Growing
  <2>4. next \in [(1 .. L) \X Nat -> Nat]
    <3>1. \A p \in (1 .. L) \X Nat : p[1] \in 1 .. L /\ p[2] \in Nat
      OBVIOUS
    <3> QED BY <2>2, <2>3, <3>1
  <2>5. PICK f : Follows(f, L, 0, next)
    BY <2>4, Following
  <2>6. PICK h : h = [i \in 1 .. L + 1 |-> f[L + 1 - i]]
    OBVIOUS
  <2>7. ASSUME NEW i \in 1 .. L + 1
        PROVE  h[i] = IF i = L + 1 THEN 0 ELSE Grown(bytes[i], h[i + 1])
    <3>1. h[i] = f[L + 1 - i]
      BY <2>6
    <3>2. CASE i = L + 1
      <4>1. L + 1 - i = 0
        BY <3>2
      <4> QED BY <2>5, <3>1, <3>2, <4>1 DEF Follows
    <3>3. CASE i # L + 1
      <4>1. PICK n \in 1 .. L : n = L + 1 - i
        BY <3>3
      <4>2. f[n] = next[<<n, f[n - 1]>>] /\ f[n - 1] \in Nat
        <5>1. n - 1 \in 0 .. L
          BY <4>1
        <5> QED BY <2>5, <5>1 DEF Follows
      <4>3. <<n, f[n - 1]>> \in (1 .. L) \X Nat
        BY <4>1, <4>2
      <4>4. next[<<n, f[n - 1]>>] = Grown(bytes[L + 1 - n], f[n - 1])
        BY <2>2, <4>3
      <4>5. L + 1 - n = i
        BY <4>1
      <4>6. h[i + 1] = f[n - 1]
        <5>1. i + 1 \in 1 .. L + 1 /\ L + 1 - (i + 1) = n - 1
          BY <3>3, <4>1
        <5> QED BY <2>6, <5>1
      <4> QED BY <3>1, <3>3, <4>1, <4>2, <4>4, <4>5, <4>6
    <3> QED BY <3>2, <3>3
  <2>8. DOMAIN h = 1 .. L + 1 /\ h = [i \in 1 .. L + 1 |-> h[i]]
    BY <2>6
  <2>9. h = G(h)
    BY <2>1, <2>7, <2>8, Zenon
  <2> QED BY <2>9
<1>4. value = F(value)
  <2>1. PICK h : h = G(h)
    BY <1>3
  <2>2. h = F(h)
    BY <1>2, <2>1
  <2> HIDE DEF F
  <2> QED BY <2>2
<1> HIDE DEF value
<1>5. value = G(value)
  BY <1>2, <1>4
<1> HIDE DEF F
<1>6. \A i \in 1 .. Len(bytes) + 1 :
        value[i] = IF i = Len(bytes) + 1 THEN 0 ELSE Grown(bytes[i], value[i + 1])
  BY <1>5, Zenon
<1>7. value[Len(bytes) + 1] = 0
  <2>1. Len(bytes) + 1 \in 1 .. Len(bytes) + 1
    OBVIOUS
  <2> QED BY <1>6, <2>1
<1>8. ASSUME NEW i \in 1 .. Len(bytes) PROVE value[i] = Grown(bytes[i], value[i + 1])
  <2>1. i \in 1 .. Len(bytes) + 1 /\ i # Len(bytes) + 1
    OBVIOUS
  <2> QED BY <1>6, <2>1
<1> QED BY <1>1, <1>7, <1>8

(* practice_state finds the number that the bytes spell, if it has room.   *)
LEMMA FoldedIsValue ==
  ASSUME NEW bytes, Len(bytes) \in Nat, \A i \in 1 .. Len(bytes) : bytes[i] \in 0 .. ByteBase - 1
  PROVE  Folded(bytes) =
           IF ValueFrom(bytes)[1] >= WordLimit THEN WordLimit ELSE ValueFrom(bytes)[1]
<1>1. PICK L \in Nat : L = Len(bytes)
  OBVIOUS
<1>2. PICK f : /\ Folded(bytes) = f[L] /\ f[0] = 0
               /\ \A n \in 1 .. L : f[n] = Capped(bytes[L + 1 - n], f[n - 1])
  <2>1. PICK f : /\ Folded(bytes) = f[Len(bytes)] /\ f[0] = 0
                 /\ \A n \in 1 .. Len(bytes) :
                      f[n] = Capped(bytes[Len(bytes) + 1 - n], f[n - 1])
    BY FoldedIs
  <2> QED BY <1>1, <2>1, SMTT(30)
<1>3. PICK g : g = ValueFrom(bytes)
  OBVIOUS
<1>4. g[L + 1] = 0 /\ \A i \in 1 .. L : g[i] = Grown(bytes[i], g[i + 1])
  BY <1>1, <1>3, ValueIs
<1> DEFINE Good(n) ==
      /\ g[L + 1 - n] \in Nat
      /\ f[n] = IF g[L + 1 - n] >= WordLimit THEN WordLimit ELSE g[L + 1 - n]
    Bad == {n \in 0 .. L : ~Good(n)}
<1>5. WordLimit \in Nat \ {0}
  BY ApiAssumption
<1>6. Bad = {}
  <2>1. SUFFICES ASSUME Bad # {} PROVE FALSE
    OBVIOUS
  <2>2. PICK n \in Bad : \A k \in Bad : n <= k
    <3>1. Bad \in SUBSET (0 .. L)
      OBVIOUS
    <3> HIDE DEF Bad
    <3> QED BY <2>1, <3>1, FirstPlace
  <2>3. CASE n = 0
    <3>1. L + 1 - 0 = L + 1
      OBVIOUS
    <3>2. Good(0)
      BY <1>2, <1>4, <1>5, <3>1
    <3> QED BY <2>2, <2>3, <3>2
  <2>4. CASE n # 0
    <3>1. n \in 1 .. L
      BY <2>2, <2>4
    <3>2. PICK k \in 0 .. L : k = n - 1
      BY <3>1
    <3>3. Good(k)
      <4>1. ~(n <= k)
        BY <3>1, <3>2
      <4>2. k \notin Bad
        BY <2>2, <4>1
      <4> HIDE DEF Good
      <4> QED BY <4>2
    <3>4. PICK i \in 1 .. L : i = L + 1 - n
      BY <3>1
    <3>5. i + 1 = L + 1 - k
      BY <3>1, <3>2, <3>4
    <3>6. PICK number \in Nat : number = g[i + 1]
      BY <3>3, <3>5
    <3>7. f[k] = IF number >= WordLimit THEN WordLimit ELSE number
      BY <3>3, <3>5, <3>6
    <3>8. bytes[i] \in 0 .. ByteBase - 1 /\ f[k] \in Nat
      BY <1>1, <1>5, <3>4, <3>7
    <3>9. f[n] = Capped(bytes[i], f[k])
      BY <1>2, <3>1, <3>2, <3>4
    <3>10. g[i] = Grown(bytes[i], number)
      BY <1>4, <3>4, <3>6
    <3>11. g[i] \in Nat
      BY <3>8, <3>10, Growing
    <3>12. Capped(bytes[i], f[k]) =
             IF Grown(bytes[i], number) >= WordLimit THEN WordLimit
             ELSE Grown(bytes[i], number)
      BY <3>7, <3>8, CapKept
    <3>13. Good(n)
      BY <3>4, <3>9, <3>10, <3>11, <3>12
    <3> QED BY <2>2, <3>13
  <2> QED BY <2>3, <2>4
<1>7. Good(L)
  <2>1. L \in 0 .. L
    OBVIOUS
  <2> HIDE DEF Good
  <2> QED BY <1>6, <2>1
<1>8. L + 1 - L = 1
  OBVIOUS
<1> QED BY <1>2, <1>3, <1>7, <1>8

-----------------------------------------------------------------------------
(* Each step belongs to one call.                                          *)
LEMMA StepOf ==
  ASSUME ApiType, ApiNext
  PROVE  /\ apiCall' = apiCall /\ ApiType' /\ apiAt = apiCall.op
         /\ TargetWrites \/ MemoryRead => apiCall.op = "read"
         /\ WriteMemory => apiCall.op = "write"
         /\ ReadStream \/ QuerySymbol => apiCall.op = "symbol"
         /\ CallFunction \/ FunctionsCalled =>
              apiCall.op \in {"version", "idle", "running", "eval"}
         /\ PracticeState => apiCall.op = "practice"
         /\ ParseAddress => apiCall.op = "parse"
<1> DEFINE Steps == /\ TargetWrites \/ MemoryRead => apiAt = "read"
                    /\ WriteMemory => apiAt = "write"
                    /\ ReadStream \/ QuerySymbol => apiAt = "symbol"
                    /\ CallFunction \/ FunctionsCalled =>
                         apiCall.op \in {"version", "idle", "running", "eval"} /\ apiAt = apiCall.op
                    /\ PracticeState => apiAt = "practice"
                    /\ ParseAddress => apiAt = "parse"
<1>1. apiCall.op # "ended" /\ apiAt \in {apiCall.op, "ended"} /\ apiCall \in ApiCalls
  BY CallsOf DEF ApiType
<1>2. Steps
  BY DEF TargetWrites, MemoryRead, WriteMemory, ReadStream, QuerySymbol, CallFunction,
         FunctionsCalled, PracticeState, ParseAddress, AsksFunction, Asks
<1>3. apiCall' = apiCall /\ apiAt' \in {apiAt, "ended"}
  <2>1. CASE TargetWrites \/ MemoryRead
    BY <2>1 DEF TargetWrites, MemoryRead, CallEnds
  <2>2. CASE WriteMemory
    BY <2>2 DEF WriteMemory, CallEnds
  <2>3. CASE ReadStream \/ QuerySymbol
    BY <2>3 DEF ReadStream, QuerySymbol, CallEnds
  <2>4. CASE CallFunction \/ FunctionsCalled
    BY <2>4 DEF CallFunction, FunctionsCalled, CallEnds
  <2>5. CASE PracticeState \/ ParseAddress
    BY <2>5 DEF PracticeState, ParseAddress, CallEnds
  <2> QED BY <2>1, <2>2, <2>3, <2>4, <2>5 DEF ApiNext
<1>4. ApiNext => apiAt \in {"read", "write", "symbol", "practice", "parse", "version", "idle",
                            "running", "eval"}
  BY <1>2 DEF ApiNext
<1>5. apiAt = apiCall.op
  BY <1>1, <1>4
<1> QED BY <1>1, <1>2, <1>3, <1>5 DEF ApiType

Decoded == {Decode(answer) : answer \in FunctionAnswers}

(* A version is accepted on two numbers that are high enough.              *)
VersionSays ==
  /\ moved \in Seq(Decoded) /\ Len(moved) <= 3
  /\ \A i \in 1 .. Len(moved) : i <= 2 => moved[i].value \in Int
  /\ Len(moved) = 3 => moved[1].value >= MinBuild /\ moved[2].value >= MinBase
  /\ apiAt = "ended" /\ Succeeds(apiResult) => Len(moved) = 3

IdleSays == apiAt = "ended" /\ Succeeds(apiResult) => apiResult.ok = 0

PracticeSays ==
  apiAt = "ended" =>
    /\ Succeeds(apiResult) => apiResult.ok = Folded(apiCall.data) /\ apiResult.ok # WordLimit
    /\ apiResult = Protocol => Folded(apiCall.data) = WordLimit

TextIsAddress(text) ==
  /\ "newline" \notin ToSet(text) /\ AfterClass(text) # 1
  /\ IsNumber(SubSeq(text, AfterClass(text) + 1, Len(text)))

ParseSays == apiAt = "ended" => (Succeeds(apiResult) <=> TextIsAddress(apiCall.text))

ValuesInv ==
  /\ ApiType
  /\ apiCall.op = "version" => VersionSays
  /\ apiCall.op = "idle" => IdleSays
  /\ apiCall.op = "practice" => PracticeSays
  /\ apiCall.op = "parse" => ParseSays

(* The number that parse_int makes of digits is a natural number.          *)
LEMMA NumberIsNat ==
  ASSUME NEW digits, Len(digits) \in Nat, NEW base \in Nat
  PROVE  NumberOf(digits, base) \in Nat
<1> DEFINE F(f) == [n \in 0 .. Len(digits) |->
              IF n = 0 THEN 0 ELSE f[n - 1] * base + DigitValue(digits[n])]
           value == CHOOSE f : f = F(f)
<1>1. NumberOf(digits, base) = value[Len(digits)]
  BY DEF NumberOf
<1>2. PICK L \in Nat : L = Len(digits)
  OBVIOUS
<1>3. PICK next : next = [p \in (1 .. L) \X Nat |-> p[2] * base + DigitValue(digits[p[1]])]
  OBVIOUS
<1>4. ASSUME NEW i \in 1 .. L, NEW number \in Nat
      PROVE  number * base + DigitValue(digits[i]) \in Nat
  <2>1. DigitValue(digits[i]) \in Nat
    BY DEF DigitValue
  <2>2. number * base \in Nat
    OBVIOUS
  <2> QED BY <2>1, <2>2
<1>5. next \in [(1 .. L) \X Nat -> Nat]
  <2>1. \A p \in (1 .. L) \X Nat : p[1] \in 1 .. L /\ p[2] \in Nat
    OBVIOUS
  <2> QED BY <1>3, <1>4, <2>1
<1>6. PICK h : Follows(h, L, 0, next)
  BY <1>5, Following
<1>7. ASSUME NEW n \in 0 .. L
      PROVE  h[n] = IF n = 0 THEN 0 ELSE h[n - 1] * base + DigitValue(digits[n])
  <2>1. CASE n = 0
    BY <1>6, <2>1 DEF Follows
  <2>2. CASE n # 0
    <3>1. n \in 1 .. L /\ n - 1 \in 0 .. L
      BY <2>2
    <3>2. h[n] = next[<<n, h[n - 1]>>] /\ h[n - 1] \in Nat
      BY <1>6, <3>1 DEF Follows
    <3>3. <<n, h[n - 1]>> \in (1 .. L) \X Nat
      BY <3>1, <3>2
    <3>4. next[<<n, h[n - 1]>>] = h[n - 1] * base + DigitValue(digits[n])
      BY <1>3, <3>3
    <3> QED BY <2>2, <3>2, <3>4
  <2> QED BY <2>1, <2>2
<1>8. DOMAIN h = 0 .. L /\ h = [n \in 0 .. L |-> h[n]]
  BY <1>6 DEF Follows
<1>9. h = F(h)
  BY <1>2, <1>7, <1>8, Zenon
<1>10. value = F(value)
  <2> HIDE DEF F
  <2> QED BY <1>9
<1> HIDE DEF value
<1>11. \A n \in 0 .. L :
         value[n] = IF n = 0 THEN 0 ELSE value[n - 1] * base + DigitValue(digits[n])
  BY <1>2, <1>10, Zenon
<1> HIDE DEF F
<1> DEFINE Bad == {n \in 0 .. L : value[n] \notin Nat}
<1>12. Bad = {}
  <2>1. SUFFICES ASSUME Bad # {} PROVE FALSE
    OBVIOUS
  <2>2. PICK n \in Bad : \A k \in Bad : n <= k
    <3>1. Bad \in SUBSET (0 .. L)
      OBVIOUS
    <3> HIDE DEF Bad
    <3> QED BY <2>1, <3>1, FirstPlace
  <2>3. CASE n = 0
    BY <1>11, <2>2, <2>3
  <2>4. CASE n # 0
    <3>1. n \in 1 .. L
      BY <2>2, <2>4
    <3>2. PICK k \in 0 .. L : k = n - 1 /\ ~(n <= k)
      BY <3>1
    <3>3. PICK number \in Nat : number = value[k]
      BY <2>2, <3>2
    <3>4. value[n] = number * base + DigitValue(digits[n])
      BY <1>11, <2>4, <3>1, <3>2, <3>3
    <3> QED BY <1>4, <2>2, <3>1, <3>4
  <2> QED BY <2>3, <2>4
<1>13. L \in 0 .. L
  OBVIOUS
<1> QED BY <1>1, <1>2, <1>12, <1>13

(* What comes of a text in each type.                                      *)
LEMMA DecodedIs ==
  ASSUME NEW answer \in FunctionAnswers, answer # Garbled, NEW kind, kind = Kind(answer.type)
  PROVE  /\ kind = "bool" =>
              Decode(answer) \in {[kind |-> "bool", value |-> answer.text],
                                  Error("trace32", "Function")}
         /\ kind = "int" =>
              LET numeral == Numeral(answer.type, answer.text)
                  base == Base(answer.type) IN
              \/ Decode(answer) = Protocol
              \/ /\ IsInteger(numeral, base)
                 /\ Decode(answer) = [kind |-> "int", value |-> IntegerOf(numeral, base)]
         /\ kind \notin {"bool", "int"} =>
              \/ Decode(answer) = Protocol
              \/ \E value : Decode(answer) = [kind |-> kind, value |-> value]
<1>1. CASE kind = "bool"
  BY <1>1, Zenon DEF Decode
<1>2. CASE kind = "int"
  BY <1>2, Zenon DEF Decode
<1>3. CASE kind \in {"float", "times"}
  <2>1. kind \notin {"bool", "int"}
    BY <1>3
  <2>2. PICK numeral : numeral = IF answer.type = 16 THEN answer.text ELSE StripLast(answer.text)
    OBVIOUS
  <2>3. Decode(answer) = IF IsFloat(numeral) THEN [kind |-> kind, value |-> numeral] ELSE Protocol
    BY <1>3, <2>1, <2>2 DEF Decode
  <2> QED BY <2>1, <2>3
<1>4. CASE kind \notin {"bool", "int", "float", "times"}
  <2>1. Decode(answer) = [kind |-> kind, value |-> answer.text]
    BY <1>4 DEF Decode
  <2> QED BY <1>4, <2>1
<1> QED BY <1>1, <1>2, <1>3, <1>4

(* A part of a text is a text.                                             *)
LEMMA TextKept ==
  ASSUME NEW text \in Seq(Characters), NEW from \in 1 .. 3, NEW to \in Int, to <= Len(text)
  PROVE  SubSeq(text, from, to) \in Seq(Characters)
<1>1. Len(text) \in Nat /\ \A i \in from .. to : text[i] \in Characters
  OBVIOUS
<1>2. CASE from <= to
  BY <1>1, <1>2, SubSeqProperties
<1>3. CASE ~(from <= to)
  BY <1>3
<1> QED BY <1>2, <1>3

(* An answer that is taken as an integer is one.                           *)
LEMMA IntegerDecoded ==
  ASSUME NEW answer \in FunctionAnswers, IsValue(Decode(answer)), Decode(answer).kind = "int"
  PROVE  Decode(answer).value \in Int
<1>1. ~IsValue(Protocol) /\ ~IsValue(Error("trace32", "Function"))
  BY DEF IsValue, Protocol, Error
<1>2. answer # Garbled
  BY <1>1 DEF Decode
<1>3. PICK kind : kind = Kind(answer.type)
  OBVIOUS
<1>4. kind = "int"
  BY <1>1, <1>2, <1>3, DecodedIs
<1>5. PICK numeral, base :
        /\ numeral = Numeral(answer.type, answer.text) /\ base = Base(answer.type)
        /\ IsInteger(numeral, base)
        /\ Decode(answer) = [kind |-> "int", value |-> IntegerOf(numeral, base)]
  BY <1>1, <1>2, <1>3, <1>4, DecodedIs
<1>6. base \in Nat
  BY <1>5 DEF Base
<1>7. answer.text \in Seq(Characters)
  BY <1>2, ApiAssumption
<1>8. numeral \in Seq(Characters)
  <2>1. Len(answer.text) \in Nat
    BY <1>7
  <2>2. SubSeq(answer.text, 3, Len(answer.text)) \in Seq(Characters)
    BY <1>7, <2>1, TextKept
  <2>3. SubSeq(answer.text, 1, Len(answer.text) - 1) \in Seq(Characters)
    BY <1>7, <2>1, TextKept
  <2> QED BY <1>5, <1>7, <2>2, <2>3 DEF Numeral, TextFrom, StripLast
<1>9. PICK digits : digits = DigitsIn(numeral, base) /\ Len(digits) \in Nat
  <2>1. Unsigned(numeral) \in Seq(Characters)
    BY <1>8, TextKept DEF Unsigned, TextFrom
  <2>2. DigitsIn(numeral, base) \in Seq(Characters)
    BY <2>1, TextKept DEF DigitsIn, TextFrom
  <2> QED BY <2>2
<1>10. NumberOf(digits, base) \in Nat
  BY <1>6, <1>9, NumberIsNat
<1>11. IntegerOf(numeral, base) \in Int
  BY <1>9, <1>10 DEF IntegerOf
<1> QED BY <1>5, <1>11

LEMMA CallErrors ==
  ASSUME NEW failure \in Failures, NEW operation
  PROVE  CallError(failure, operation) # Protocol /\ ~Succeeds(CallError(failure, operation))
<1>1. PICK kind \in {"trace32", "timeout", "lost"} :
        \E what : CallError(failure, operation) = [error |-> kind, operation |-> what]
  BY DEF CallError, Failures, Error
<1>2. PICK what : CallError(failure, operation) = [error |-> kind, operation |-> what]
  BY <1>1
<1>3. [error |-> kind, operation |-> what].error # Protocol.error
  BY DEF Protocol, Error
<1> QED BY <1>2, <1>3, Failing

LEMMA CallFunctionKept ==
  ASSUME ValuesInv, CallFunction PROVE ValuesInv'
<1>1. /\ ApiType /\ ApiType' /\ apiCall' = apiCall /\ apiAt = apiCall.op
      /\ apiCall.op \in {"version", "idle", "running", "eval"}
  BY StepOf DEF ApiNext, ValuesInv
<1>2. apiCall.op # "ended"
  BY <1>1
<1>3. \/ apiCall.op = "version" /\ TooOld /\ CallEnds(Error("trace32", "Version"))
           /\ moved' = moved
      \/ /\ ~(apiCall.op = "version" /\ TooOld)
         /\ \E answer \in FunctionAnswers :
              LET decoded == Decode(answer)
                  wanted == Asks[apiCall.op][Len(moved) + 1]
              IN  \/ ~IsValue(decoded) /\ CallEnds(decoded) /\ moved' = moved
                  \/ CallEnds(Protocol) /\ moved' = moved
                  \/ /\ IsValue(decoded) /\ wanted \in {decoded.kind, "any"}
                     /\ moved' = Append(moved, decoded) /\ UNCHANGED <<apiAt, apiResult>>
      \/ \E failure \in Failures : CallEnds(CallError(failure, "Function")) /\ moved' = moved
  BY DEF CallFunction
<1>4. ASSUME NEW answer \in FunctionAnswers, ~IsValue(Decode(answer))
      PROVE  ~Succeeds(Decode(answer))
  <2>1. CASE answer = Garbled
    BY <2>1, Failing DEF Decode
  <2>2. CASE answer # Garbled
    <3>1. PICK kind : kind = Kind(answer.type)
      OBVIOUS
    <3>2. \A word, value : IsValue([kind |-> word, value |-> value])
      BY DEF IsValue
    <3>3. Decode(answer) \in {Protocol, Error("trace32", "Function")}
      BY <1>4, <2>2, <3>1, <3>2, DecodedIs
    <3> QED BY <3>3, Failing
  <2> QED BY <2>1, <2>2
<1>5. CASE moved' = moved /\ ~Succeeds(apiResult')
  <2>1. apiCall.op = "version" => VersionSays'
    BY <1>1, <1>5 DEF ValuesInv, VersionSays, Succeeds
  <2>2. apiCall.op = "idle" => IdleSays'
    BY <1>5 DEF IdleSays, Succeeds
  <2> QED BY <1>1, <2>1, <2>2 DEF ValuesInv
<1>6. ASSUME ~(apiCall.op = "version" /\ TooOld), NEW answer \in FunctionAnswers,
             NEW decoded, decoded = Decode(answer), IsValue(decoded),
             Asks[apiCall.op][Len(moved) + 1] \in {decoded.kind, "any"},
             moved' = Append(moved, decoded), UNCHANGED <<apiAt, apiResult>>
      PROVE  ValuesInv'
  <2>1. CASE apiCall.op = "version"
    <3>1. Asks[apiCall.op] = <<"int", "int", "any">> /\ VersionSays
      BY <2>1 DEF Asks, ValuesInv
    <3>2. Len(moved) < 3
      BY <3>1 DEF CallFunction
    <3>3. PICK n \in Nat : n = Len(moved)
      BY <3>1 DEF VersionSays
    <3>4. moved \in Seq(Decoded) /\ decoded \in Decoded
      BY <1>6, <3>1 DEF VersionSays, Decoded
    <3>5. /\ moved' \in Seq(Decoded) /\ Len(moved') = n + 1 /\ moved'[n + 1] = decoded
          /\ \A i \in 1 .. n : moved'[i] = moved[i]
      BY <1>6, <3>3, <3>4, AppendProperties
    <3>6. n + 1 <= 2 => decoded.value \in Int
      <4>1. SUFFICES ASSUME n + 1 <= 2 PROVE decoded.value \in Int
        OBVIOUS
      <4>2. n + 1 \in {1, 2}
        BY <4>1, <3>3
      <4>3. <<"int", "int", "any">>[n + 1] = "int"
        BY <4>2
      <4>4. decoded.kind = "int"
        BY <1>6, <3>1, <3>3, <4>3
      <4> QED BY <1>6, <4>4, IntegerDecoded
    <3>7. \A i \in 1 .. n + 1 : i <= 2 => moved'[i].value \in Int
      BY <3>1, <3>3, <3>5, <3>6 DEF VersionSays
    <3>8. n + 1 = 3 => moved'[1].value >= MinBuild /\ moved'[2].value >= MinBase
      <4>1. SUFFICES ASSUME n + 1 = 3
                     PROVE  moved'[1].value >= MinBuild /\ moved'[2].value >= MinBase
        OBVIOUS
      <4>2. n = 2 /\ moved'[1] = moved[1] /\ moved'[2] = moved[2]
        BY <3>5, <4>1
      <4>3. moved[1].value \in Int /\ moved[2].value \in Int
        BY <3>1, <3>3, <4>2 DEF VersionSays
      <4>4. ~(moved[1].value < MinBuild) /\ ~(moved[2].value < MinBase)
        BY <1>6, <2>1, <3>3, <4>2 DEF TooOld
      <4> QED BY <4>2, <4>3, <4>4, ApiAssumption
    <3>9. apiAt' # "ended"
      BY <1>1, <1>2, <1>6
    <3>10. VersionSays'
      BY <3>2, <3>3, <3>5, <3>7, <3>8, <3>9 DEF VersionSays
    <3> QED BY <1>1, <2>1, <3>10 DEF ValuesInv
  <2>2. CASE apiCall.op # "version"
    BY <1>1, <1>2, <1>6, <2>2 DEF ValuesInv, IdleSays
  <2> QED BY <2>1, <2>2
<1> QED BY <1>3, <1>4, <1>5, <1>6, Failing DEF CallEnds

LEMMA FunctionsCalledKept ==
  ASSUME ValuesInv, FunctionsCalled PROVE ValuesInv'
<1>1. /\ ApiType /\ ApiType' /\ apiCall' = apiCall /\ moved' = moved
      /\ apiCall.op \in {"version", "idle", "running", "eval"}
  BY StepOf DEF ApiNext, ValuesInv, FunctionsCalled
<1>2. CASE apiCall.op = "version"
  <2>1. Asks[apiCall.op] = <<"int", "int", "any">> /\ VersionSays
    BY <1>2 DEF Asks, ValuesInv
  <2>2. Len(moved) = 3
    BY <2>1 DEF FunctionsCalled
  <2>3. VersionSays'
    BY <1>1, <2>1, <2>2 DEF VersionSays
  <2> QED BY <1>1, <1>2, <2>3 DEF ValuesInv
<1>3. CASE apiCall.op = "idle"
  <2>1. Asks[apiCall.op] = <<"int">>
    BY <1>3 DEF Asks
  <2>2. Len(moved) = 1 /\ Last(moved) = moved[1]
    BY <2>1 DEF FunctionsCalled, Last
  <2>3. \/ apiResult' = Error("busy", "none")
        \/ moved[1].value = 0 /\ apiResult' = [ok |-> moved[1].value]
    BY <1>3, <2>2 DEF FunctionsCalled, CallEnds
  <2>4. Succeeds(apiResult') => apiResult'.ok = 0
    BY <2>3, Failing
  <2>5. IdleSays'
    BY <2>4 DEF IdleSays, Succeeds
  <2> QED BY <1>1, <1>3, <2>5 DEF ValuesInv
<1>4. CASE apiCall.op \notin {"version", "idle"}
  BY <1>1, <1>4 DEF ValuesInv
<1> QED BY <1>2, <1>3, <1>4

LEMMA PracticeStateKept ==
  ASSUME ValuesInv, PracticeState PROVE ValuesInv'
<1>1. ApiType' /\ apiCall' = apiCall /\ apiCall.op = "practice"
  BY StepOf DEF ApiNext, ValuesInv
<1>2. PICK number : number = Folded(apiCall.data)
  OBVIOUS
<1>3. Folded(apiCall.data)' = number
  BY <1>1, <1>2 DEF Folded
<1>4. \/ number = WordLimit /\ apiResult' = Protocol
      \/ number # WordLimit /\ apiResult' = [ok |-> number]
      \/ \E failure \in Failures : apiResult' = CallError(failure, "Api")
  BY <1>2 DEF PracticeState, CallEnds
<1>5. ~Succeeds(Protocol) /\ Succeeds([ok |-> number]) /\ [ok |-> number].ok = number
  BY Failing
<1>6. /\ Succeeds(apiResult') => apiResult'.ok = number /\ apiResult'.ok # WordLimit
      /\ apiResult' = Protocol => number = WordLimit
  BY <1>4, <1>5, CallErrors
<1>7. PracticeSays'
  BY <1>3, <1>6 DEF PracticeSays, Succeeds, Protocol, Error
<1> QED BY <1>1, <1>7 DEF ValuesInv

LEMMA ParseAddressKept ==
  ASSUME ValuesInv, ParseAddress PROVE ValuesInv'
<1>1. ApiType' /\ apiCall' = apiCall /\ apiCall.op = "parse"
  BY StepOf DEF ApiNext, ValuesInv
<1>2. PICK text : text = apiCall.text
  OBVIOUS
<1>3. apiResult' = IF TextIsAddress(text)
                     THEN [ok |-> [access |-> SubSeq(text, 1, AfterClass(text) - 1),
                             hex |-> IsHex(SubSeq(text, AfterClass(text) + 1, Len(text))),
                             digits |-> DigitsOf(SubSeq(text, AfterClass(text) + 1, Len(text)))]]
                     ELSE Protocol
  BY <1>2 DEF ParseAddress, CallEnds, TextIsAddress
<1>4. Succeeds(apiResult') <=> TextIsAddress(text)
  BY <1>3, Failing
<1>5. TextIsAddress(apiCall.text)' = TextIsAddress(text)
  BY <1>1, <1>2
<1>6. ParseSays'
  BY <1>4, <1>5 DEF ParseSays, Succeeds
<1> QED BY <1>1, <1>6 DEF ValuesInv

LEMMA ValuesInvariance == ApiSpec => []ValuesInv
<1>1. ApiInit => ValuesInv
  <2> SUFFICES ASSUME ApiInit PROVE ValuesInv
    OBVIOUS
  <2>1. /\ apiCall \in ApiCalls /\ apiAt = apiCall.op /\ moved = <<>>
    BY DEF ApiInit
  <2>2. ApiType /\ apiAt # "ended"
    BY <2>1, CallsOf DEF ApiType
  <2>3. moved \in Seq(Decoded) /\ Len(moved) = 0
    BY <2>1
  <2> QED BY <2>2, <2>3 DEF ValuesInv, VersionSays, IdleSays, PracticeSays, ParseSays
<1>2. ValuesInv /\ [ApiNext]_apiVars => ValuesInv'
  <2> SUFFICES ASSUME ValuesInv, [ApiNext]_apiVars PROVE ValuesInv'
    OBVIOUS
  <2>1. CASE UNCHANGED apiVars
    BY <2>1 DEF apiVars, ValuesInv, ApiType, VersionSays, IdleSays, PracticeSays, ParseSays,
                Succeeds, Protocol, Error, Folded, TextIsAddress
  <2>2. CASE TargetWrites \/ MemoryRead \/ WriteMemory \/ ReadStream \/ QuerySymbol
    <3>1. ApiType' /\ apiCall' = apiCall /\ apiCall.op \in {"read", "write", "symbol"}
      BY <2>2, StepOf DEF ApiNext, ValuesInv
    <3> QED BY <3>1 DEF ValuesInv
  <2> QED BY <2>1, <2>2, CallFunctionKept, FunctionsCalledKept, PracticeStateKept,
             ParseAddressKept DEF ApiNext
<1> QED BY <1>1, <1>2, PTL DEF ApiSpec

(* What is behind the last colon has none.                                 *)
LEMMA AfterClassIs ==
  ASSUME NEW text \in Seq(Tokens)
  PROVE  /\ AfterClass(text) \in 0 .. Len(text)
         /\ AfterClass(text) # 0 => text[AfterClass(text)] = ":"
         /\ \A i \in 1 .. Len(text) : text[i] = ":" => i <= AfterClass(text)
<1>1. Len(text) \in Nat /\ DOMAIN text = 1 .. Len(text)
  BY LenProperties
<1>2. Colons(text) \in SUBSET (0 .. Len(text))
  BY <1>1 DEF Colons
<1>3. CASE Colons(text) = {}
  BY <1>1, <1>3 DEF AfterClass, Colons
<1>4. CASE Colons(text) # {}
  <2>1. \E i \in Colons(text) : \A j \in Colons(text) : j <= i
    BY <1>1, <1>2, <1>4, LastPlace
  <2>2. /\ AfterClass(text) \in Colons(text)
        /\ \A j \in Colons(text) : j <= AfterClass(text)
    BY <1>4, <2>1 DEF AfterClass
  <2> QED BY <1>1, <2>2 DEF Colons
<1> QED BY <1>3, <1>4

(* A number is what is written as one.                                     *)
LEMMA NumberIs ==
  ASSUME NEW number \in Seq(Tokens)
  PROVE  IsNumber(number) <=> WrittenAsNumber(number)
<1>1. Len(number) \in Nat /\ DOMAIN number = 1 .. Len(number)
  BY LenProperties
<1>2. \A i \in 1 .. Len(number) : number[i] \in ToSet(number)
  BY <1>1 DEF ToSet
<1>3. CASE number = <<>>
  <2>1. Len(number) = 0 /\ ~IsHex(number) /\ DigitsOf(number) = <<>>
    BY <1>3 DEF IsHex, DigitsOf
  <2> QED BY <1>3, <2>1 DEF IsNumber, WrittenAsNumber
<1>4. CASE number # <<>> /\ number[1] = "0x"
  <2>1. Head(number) = number[1] /\ Len(number) \in Nat \ {0}
    BY <1>4, EmptySeq
  <2>2. IsHex(number) /\ DigitsOf(number) = Tail(number)
    BY <1>4, <2>1 DEF IsHex, DigitsOf
  <2>3. "0x" \in ToSet(number)
    BY <1>2, <1>4, <2>1
  <2>4. Tail(number) # <<>> <=> Len(number) > 1
    <3>1. PICK rest \in Seq(Tokens) : rest = Tail(number) /\ Len(rest) = Len(number) - 1
      BY <1>4, HeadTailProperties
    <3>2. rest # <<>> <=> Len(rest) # 0
      BY EmptySeq
    <3> QED BY <2>1, <3>1, <3>2
  <2>5. IsNumber(number) <=> Tail(number) # <<>> /\ ToSet(Tail(number)) \subseteq {"0", "7", "a"}
    BY <2>2 DEF IsNumber, Hexadecimal, Decimal
  <2>6. WrittenAsNumber(number) <=>
          Len(number) > 1 /\ ToSet(Tail(number)) \subseteq {"0", "7", "a"}
    BY <1>4, <2>3 DEF WrittenAsNumber
  <2> QED BY <2>4, <2>5, <2>6
<1>5. CASE number # <<>> /\ number[1] # "0x"
  <2>1. Head(number) = number[1] /\ Len(number) \in Nat \ {0}
    BY <1>5, EmptySeq
  <2>2. ~IsHex(number) /\ DigitsOf(number) = number
    BY <1>5, <2>1 DEF IsHex, DigitsOf
  <2>3. number[1] \in ToSet(number)
    BY <1>2, <2>1
  <2>4. Len(number) = 1 => ToSet(number) = {number[1]}
    BY <1>1 DEF ToSet
  <2>5. IsNumber(number) <=>
          /\ ToSet(number) \subseteq {"0", "7"}
          /\ Len(number) > 1 /\ number[1] = "0" => ToSet(number) = {"0"}
    BY <1>5, <2>1, <2>2 DEF IsNumber, Decimal
  <2>6. WrittenAsNumber(number) <=>
          \/ ToSet(number) \subseteq {"0"}
          \/ ToSet(number) \subseteq {"0", "7"} /\ number[1] # "0"
    BY <1>5 DEF WrittenAsNumber
  <2>7. PICK members, first : members = ToSet(number) /\ first = number[1]
    OBVIOUS
  <2>8. first \in members
    BY <2>3, <2>7
  <2>9. CASE Len(number) = 1
    <3>1. members = {first} /\ ~(Len(number) > 1)
      BY <2>4, <2>7, <2>9
    <3> QED BY <2>5, <2>6, <2>7, <3>1
  <2>10. CASE Len(number) > 1
    <3>1. CASE first = "0"
      <4>1. members \subseteq {"0"} <=> members = {"0"}
        BY <2>8, <3>1
      <4>2. IsNumber(number) <=> members = {"0"}
        BY <2>5, <2>7, <2>10, <3>1
      <4>3. WrittenAsNumber(number) <=> members \subseteq {"0"}
        BY <2>6, <2>7, <3>1
      <4> QED BY <4>1, <4>2, <4>3
    <3>2. CASE first # "0"
      <4>1. ~(members \subseteq {"0"})
        BY <2>8, <3>2
      <4>2. IsNumber(number) <=> members \subseteq {"0", "7"}
        BY <2>5, <2>7, <3>2
      <4>3. WrittenAsNumber(number) <=> members \subseteq {"0", "7"}
        BY <2>6, <2>7, <3>2, <4>1
      <4> QED BY <4>2, <4>3
    <3> QED BY <3>1, <3>2
  <2>11. Len(number) = 1 \/ Len(number) > 1
    BY <2>1
  <2> QED BY <2>9, <2>10, <2>11, Zenon
<1> QED BY <1>3, <1>4, <1>5

LEMMA AddressIs ==
  ASSUME NEW text \in Seq(Tokens)
  PROVE  TextIsAddress(text) <=> WrittenAsAddress(text)
<1>1. Len(text) \in Nat
  BY LenProperties
<1>2. PICK c \in 0 .. Len(text) :
        /\ c = AfterClass(text) /\ (c # 0 => text[c] = ":")
        /\ \A i \in 1 .. Len(text) : text[i] = ":" => i <= c
  BY AfterClassIs
<1>3. ASSUME NEW k \in 0 .. Len(text), NEW rest, rest = SubSeq(text, k + 1, Len(text))
      PROVE  /\ rest \in Seq(Tokens) /\ Len(rest) = Len(text) - k
             /\ \A i \in 1 .. Len(text) - k : rest[i] = text[k + i]
  BY <1>1, <1>3, PartOf
<1>4. ASSUME TextIsAddress(text) PROVE WrittenAsAddress(text)
  <2>1. PICK rest : rest = SubSeq(text, c + 1, Len(text))
    OBVIOUS
  <2>2. WrittenAsNumber(rest) /\ "newline" \notin ToSet(text) /\ c # 1
    BY <1>2, <1>3, <1>4, <2>1, NumberIs DEF TextIsAddress
  <2>3. c # 0 => c > 1 /\ text[c] = ":"
    BY <1>2, <2>2
  <2> QED BY <2>1, <2>2, <2>3 DEF WrittenAsAddress
<1>5. ASSUME WrittenAsAddress(text) PROVE TextIsAddress(text)
  <2>1. PICK colon \in 0 .. Len(text) :
          /\ colon # 0 => colon > 1 /\ text[colon] = ":"
          /\ "newline" \notin ToSet(text)
          /\ WrittenAsNumber(SubSeq(text, colon + 1, Len(text)))
    BY <1>5 DEF WrittenAsAddress
  <2>2. PICK rest : rest = SubSeq(text, colon + 1, Len(text))
    OBVIOUS
  <2>3. /\ rest \in Seq(Tokens) /\ Len(rest) = Len(text) - colon
        /\ \A i \in 1 .. Len(text) - colon : rest[i] = text[colon + i]
    BY <1>3, <2>2
  <2>4. colon <= c
    <3>1. CASE colon = 0
      BY <3>1
    <3>2. CASE colon # 0
      BY <1>2, <2>1, <3>2
    <3> QED BY <3>1, <3>2
  <2>5. CASE colon = c
    <3>1. AfterClass(text) # 1 /\ SubSeq(text, AfterClass(text) + 1, Len(text)) = rest
      BY <1>2, <2>1, <2>2, <2>5
    <3>2. IsNumber(rest)
      BY <2>1, <2>2, <2>3, NumberIs
    <3> QED BY <2>1, <3>1, <3>2 DEF TextIsAddress
  <2>6. CASE colon < c
    <3>1. PICK i \in 1 .. Len(rest) : i = c - colon
      BY <1>1, <2>3, <2>6
    <3>2. rest[i] = ":"
      <4>1. colon + i = c /\ i \in 1 .. Len(text) - colon
        BY <2>3, <3>1
      <4> QED BY <1>2, <2>3, <2>6, <4>1
    <3>3. ":" \in ToSet(rest)
      BY <2>3, <3>1, <3>2, LenProperties DEF ToSet
    <3>4. WrittenAsNumber(rest)
      BY <2>1, <2>2
    <3>5. Len(rest) > 1 /\ rest[1] = "0x" /\ ToSet(Tail(rest)) \subseteq {"0", "7", "a"}
      BY <3>3, <3>4 DEF WrittenAsNumber
    <3>6. i # 1
      BY <3>2, <3>5
    <3>7. rest # <<>>
      BY <3>5
    <3>8. /\ Tail(rest) \in Seq(Tokens) /\ Len(Tail(rest)) = Len(rest) - 1
          /\ \A k \in 1 .. Len(Tail(rest)) : Tail(rest)[k] = rest[k + 1]
      BY <2>3, <3>7, HeadTailProperties
    <3>9. PICK k \in 1 .. Len(Tail(rest)) : i = k + 1
      BY <3>1, <3>5, <3>6, <3>8, <2>3
    <3>10. ":" \in ToSet(Tail(rest))
      BY <3>2, <3>8, <3>9, LenProperties DEF ToSet
    <3> QED BY <3>5, <3>10
  <2> QED BY <1>2, <2>4, <2>5, <2>6
<1> QED BY <1>4, <1>5

(* PowerView is accepted or idle only on integers, as parse_int reads      *)
(* them, that say so, the state of the script is the number that is        *)
(* spelled, and an address is a text that is written as one                *)
(* (check_powerview_version, require_practice_idle, practice_state,        *)
(* Address::parse).                                                        *)
THEOREM ValuesWhole == ApiSpec => []ValuesAreWhole
<1>1. ASSUME ValuesInv PROVE ValuesAreWhole
  <2>1. ApiType
    BY <1>1 DEF ValuesInv
  <2>2. SUFFICES ASSUME apiAt = "ended" PROVE ValuesAreWhole
    BY DEF ValuesAreWhole
  <2>3. CASE apiCall.op = "version"
    BY <1>1, <2>2, <2>3 DEF ValuesInv, VersionSays, ValuesAreWhole
  <2>4. CASE apiCall.op = "idle"
    BY <1>1, <2>2, <2>4 DEF ValuesInv, IdleSays, ValuesAreWhole
  <2>5. CASE apiCall.op = "practice"
    <3>1. apiCall.data \in Seq(0 .. ByteBase - 1) /\ PracticeSays
      BY <1>1, <2>1, <2>5, CallsOf DEF ValuesInv
    <3>2. PICK data : data = apiCall.data
      OBVIOUS
    <3>3. Len(data) \in Nat /\ \A i \in 1 .. Len(data) : data[i] \in 0 .. ByteBase - 1
      BY <3>1, <3>2, LenProperties, ElementOfSeq
    <3>4. Folded(data) =
            IF ValueFrom(data)[1] >= WordLimit THEN WordLimit ELSE ValueFrom(data)[1]
      BY <3>3, FoldedIsValue
    <3>5. /\ Succeeds(apiResult) => apiResult.ok = Folded(data) /\ apiResult.ok # WordLimit
          /\ apiResult = Protocol => Folded(data) = WordLimit
      BY <2>2, <3>1, <3>2 DEF PracticeSays
    <3>6. WordLimit >= WordLimit
      BY ApiAssumption
    <3>7. /\ Succeeds(apiResult) => apiResult.ok = ValueFrom(data)[1]
          /\ apiResult = Protocol => ValueFrom(data)[1] >= WordLimit
      BY <3>4, <3>5, <3>6
    <3> QED BY <2>2, <2>5, <3>2, <3>7 DEF ValuesAreWhole
  <2>6. CASE apiCall.op = "parse"
    <3>1. apiCall.text \in Seq(Tokens) /\ ParseSays
      BY <1>1, <2>1, <2>6, CallsOf DEF ValuesInv
    <3>2. Succeeds(apiResult) <=> WrittenAsAddress(apiCall.text)
      BY <2>2, <3>1, AddressIs DEF ParseSays
    <3> QED BY <2>2, <2>6, <3>2 DEF ValuesAreWhole
  <2>7. CASE apiCall.op \notin {"version", "idle", "practice", "parse"}
    BY <2>7 DEF ValuesAreWhole
  <2> QED BY <2>3, <2>4, <2>5, <2>6, <2>7
<1> QED BY <1>1, ValuesInvariance, PTL

-----------------------------------------------------------------------------
(* Symbol::deserialize and Address::deserialize: what the symbol has after *)
(* the first parameters of the stream.                                     *)
SymbolType ==
  [name : Seq(Nat), path : Nat \cup {Nothing}, size : Nat, has_address : BOOLEAN,
   value : Nat \cup {Nothing}, access : Nat \cup {Nothing}, in_address : BOOLEAN]

(* The name at a place, and the parts of it that the stream has up to one. *)
LastName(i, n) == Stream[i].id = "NM" /\ \A j \in i + 1 .. n : Stream[j].id # "NM"
Parts(i, n) == {k \in i .. n : Stream[k].id \in {"NM", "NE"}}
NamedBy(label, i, n) ==
  /\ Len(label) = Cardinality(Parts(i, n))
  /\ \A k \in Parts(i, n) : label[Cardinality(Parts(i, k))] = Stream[k].text
NameIs(label, n) ==
  /\ label = <<>> <=> \A i \in 1 .. n : Stream[i].id # "NM"
  /\ \A i \in 1 .. n : LastName(i, n) => NamedBy(label, i, n)

AddressAt(has_address, found, n) ==
  /\ has_address <=> \E j \in 1 .. n : Stream[j].id = "AD"
  /\ \A j \in 1 .. n :
       Stream[j].id = "AD" /\ (\A i \in j + 1 .. n : Stream[i].id # "AD") =>
         found = Stream[j + 1].text

(* A parameter that was taken is where it belongs.                         *)
Proper(i) ==
  /\ ParameterFits(i) /\ (Stream[i].cut => Stream[i].id = "skip")
  /\ Stream[i].id = "XX" => OfAddress(i)

SymbolRead(sym, p) ==
  /\ p \in 1 .. Len(Stream) + 1 /\ sym \in SymbolType
  /\ sym.in_address <=> OfAddress(p)
  /\ \A i \in 1 .. p - 1 : Proper(i) /\ (Stream[i].id = "AD" => i + 1 < p)
  /\ NameIs(sym.name, p - 1) /\ AddressAt(sym.has_address, sym.value, p - 1)

SymbolSays ==
  /\ SymbolRead(symbol, at_item)
  /\ apiAt = "ended" =>
       /\ Succeeds(apiResult) => Exhausted /\ symbol.has_address /\ apiResult.ok = symbol.value
       /\ apiResult = Protocol => Refused

SymbolInv == ApiType /\ (apiCall.op = "symbol" => SymbolSays)

StreamIs == Stream \in Seq([id : Ids, text : Nat, cut : BOOLEAN])

LEMMA ParametersAre ==
  ASSUME StreamIs
  PROVE  /\ Len(Stream) \in Nat /\ DOMAIN Stream = 1 .. Len(Stream)
         /\ \A i \in 1 .. Len(Stream) :
              Stream[i].id \in Ids /\ Stream[i].text \in Nat /\ Stream[i].cut \in BOOLEAN
<1>1. Len(Stream) \in Nat /\ DOMAIN Stream = 1 .. Len(Stream)
  BY LenProperties DEF StreamIs
<1>2. \A i \in 1 .. Len(Stream) : Stream[i] \in [id : Ids, text : Nat, cut : BOOLEAN]
  BY ElementOfSeq DEF StreamIs
<1> QED BY <1>1, <1>2

(* An address begins at an AD and ends at an XX.                           *)
LEMMA OfAddressNext ==
  ASSUME NEW p \in Nat \ {0}, NEW q, q = p + 1
  PROVE  /\ Stream[p].id = "AD" => OfAddress(q)
         /\ Stream[p].id = "XX" => ~OfAddress(q)
         /\ Stream[p].id \notin {"AD", "XX"} => (OfAddress(q) <=> OfAddress(p))
<1>1. q - 1 = p /\ p \in 1 .. p /\ p + 1 .. p = {}
  OBVIOUS
<1>2. OfAddress(q) <=>
        \E j \in 1 .. p : Stream[j].id = "AD" /\ \A k \in j + 1 .. p : Stream[k].id # "XX"
  BY <1>1 DEF OfAddress
<1>3. ASSUME Stream[p].id = "AD" PROVE OfAddress(q)
  BY <1>1, <1>2, <1>3
<1>4. ASSUME Stream[p].id = "XX" PROVE ~OfAddress(q)
  <2>1. ASSUME NEW j \in 1 .. p, Stream[j].id = "AD" PROVE p \in j + 1 .. p
    BY <1>4, <2>1
  <2> QED BY <1>2, <1>4, <2>1
<1>5. ASSUME Stream[p].id \notin {"AD", "XX"} PROVE OfAddress(q) <=> OfAddress(p)
  <2>1. ASSUME OfAddress(q) PROVE OfAddress(p)
    <3>1. PICK j \in 1 .. p : Stream[j].id = "AD" /\ \A k \in j + 1 .. p : Stream[k].id # "XX"
      BY <1>2, <2>1
    <3>2. j \in 1 .. p - 1
      BY <1>5, <3>1
    <3>3. \A k \in j + 1 .. p - 1 : k \in j + 1 .. p
      OBVIOUS
    <3> QED BY <3>1, <3>2, <3>3 DEF OfAddress
  <2>2. ASSUME OfAddress(p) PROVE OfAddress(q)
    <3>1. PICK j \in 1 .. p - 1 :
            Stream[j].id = "AD" /\ \A k \in j + 1 .. p - 1 : Stream[k].id # "XX"
      BY <2>2 DEF OfAddress
    <3>2. j \in 1 .. p
      OBVIOUS
    <3>3. \A k \in j + 1 .. p : k = p \/ k \in j + 1 .. p - 1
      OBVIOUS
    <3> QED BY <1>2, <1>5, <3>1, <3>2, <3>3
  <2> QED BY <2>1, <2>2
<1> QED BY <1>3, <1>4, <1>5

LEMMA PartsAre ==
  ASSUME NEW i \in Nat, NEW n \in Nat
  PROVE  /\ IsFiniteSet(Parts(i, n)) /\ Cardinality(Parts(i, n)) \in Nat
         /\ \A k \in Parts(i, n) :
              k \in i .. n /\ Cardinality(Parts(i, k)) \in 1 .. Cardinality(Parts(i, n))
<1>1. \A m \in Nat : IsFiniteSet(Parts(i, m))
  <2> SUFFICES ASSUME NEW m \in Nat PROVE IsFiniteSet(Parts(i, m))
    OBVIOUS
  <2>1. IsFiniteSet(i .. m) /\ Parts(i, m) \in SUBSET (i .. m)
    BY FS_Interval DEF Parts
  <2> QED BY <2>1, FS_Subset
<1>2. \A m \in Nat : Cardinality(Parts(i, m)) \in Nat
  BY <1>1, FS_CardinalityType
<1>3. ASSUME NEW k \in Parts(i, n)
      PROVE  k \in i .. n /\ Cardinality(Parts(i, k)) \in 1 .. Cardinality(Parts(i, n))
  <2>1. k \in i .. n /\ k \in Nat
    BY DEF Parts
  <2>2. Parts(i, k) \in SUBSET Parts(i, n)
    BY <2>1 DEF Parts
  <2>3. Cardinality(Parts(i, k)) <= Cardinality(Parts(i, n))
    BY <1>1, <2>2, FS_Subset
  <2>4. k \in Parts(i, k)
    BY <2>1 DEF Parts
  <2>5. Cardinality(Parts(i, k)) # 0
    BY <1>1, <2>1, <2>4, FS_EmptySet
  <2> QED BY <1>2, <2>1, <2>3, <2>5
<1> QED BY <1>1, <1>2, <1>3

(* A parameter that is no part of a name leaves the name as it is.         *)
LEMMA NameOn ==
  ASSUME NEW label, NEW n \in Nat, NEW m, m = n + 1, NameIs(label, n),
         Stream[m].id \notin {"NM", "NE"}
  PROVE  NameIs(label, m)
<1>1. \A i \in 1 .. m : i = m \/ i \in 1 .. n
  OBVIOUS
<1>2. label = <<>> <=> \A i \in 1 .. m : Stream[i].id # "NM"
  <2>1. \A i \in 1 .. n : i \in 1 .. m
    OBVIOUS
  <2> QED BY <1>1, <2>1 DEF NameIs
<1>3. ASSUME NEW i \in 1 .. m, LastName(i, m) PROVE NamedBy(label, i, m)
  <2>1. i \in 1 .. n
    BY <1>1, <1>3 DEF LastName
  <2>2. LastName(i, n)
    <3>1. \A j \in i + 1 .. n : j \in i + 1 .. m
      OBVIOUS
    <3> QED BY <1>3, <3>1 DEF LastName
  <2>3. Parts(i, m) = Parts(i, n)
    <3>1. \A k : k \in i .. m <=> k = m \/ k \in i .. n
      BY <2>1
    <3> QED BY <3>1 DEF Parts
  <2>4. NamedBy(label, i, n)
    BY <2>1, <2>2 DEF NameIs
  <2> QED BY <2>3, <2>4 DEF NamedBy
<1> QED BY <1>2, <1>3 DEF NameIs

(* A new name.                                                             *)
LEMMA NameNew ==
  ASSUME NEW n \in Nat, NEW m, m = n + 1, Stream[m].id = "NM", Stream[m].text \in Nat
  PROVE  NameIs(<<Stream[m].text>>, m)
<1>1. PICK label : label = <<Stream[m].text>>
  OBVIOUS
<1>2. label # <<>> /\ Len(label) = 1 /\ label[1] = Stream[m].text
  BY <1>1
<1>3. m \in 1 .. m
  OBVIOUS
<1>4. ASSUME NEW i \in 1 .. m, LastName(i, m) PROVE NamedBy(label, i, m)
  <2>1. i = m
    <3>1. i # m => m \in i + 1 .. m
      OBVIOUS
    <3> QED BY <1>4, <3>1 DEF LastName
  <2>2. Parts(m, m) = {m}
    <3>1. \A k : k \in m .. m <=> k = m
      OBVIOUS
    <3> QED BY <3>1 DEF Parts
  <2>3. Cardinality({m}) = 1
    BY FS_Singleton
  <2> QED BY <1>2, <2>1, <2>2, <2>3 DEF NamedBy
<1> QED BY <1>1, <1>2, <1>3, <1>4 DEF NameIs

(* An extension of the name.                                               *)
LEMMA NameLonger ==
  ASSUME NEW label \in Seq(Nat), NEW n \in Nat, NEW m, m = n + 1, NameIs(label, n),
         Stream[m].id = "NE", Stream[m].text \in Nat, label # <<>>
  PROVE  NameIs(Append(label, Stream[m].text), m)
<1>1. PICK longer : longer = Append(label, Stream[m].text)
  OBVIOUS
<1>2. /\ longer \in Seq(Nat) /\ longer # <<>> /\ Len(longer) = Len(label) + 1
      /\ longer[Len(label) + 1] = Stream[m].text /\ Len(label) \in Nat
      /\ \A i \in 1 .. Len(label) : longer[i] = label[i]
  BY <1>1, AppendProperties, LenProperties
<1>3. \E i \in 1 .. m : Stream[i].id = "NM"
  <2>1. PICK i \in 1 .. n : Stream[i].id = "NM"
    BY DEF NameIs
  <2>2. i \in 1 .. m
    OBVIOUS
  <2> QED BY <2>1, <2>2
<1>4. ASSUME NEW i \in 1 .. m, LastName(i, m) PROVE NamedBy(longer, i, m)
  <2>1. i \in 1 .. n /\ i \in Nat
    <3>1. i # m
      BY <1>4 DEF LastName
    <3> QED BY <3>1
  <2>2. LastName(i, n)
    <3>1. \A j \in i + 1 .. n : j \in i + 1 .. m
      OBVIOUS
    <3> QED BY <1>4, <3>1 DEF LastName
  <2>3. NamedBy(label, i, n)
    BY <2>1, <2>2 DEF NameIs
  <2>4. Parts(i, m) = Parts(i, n) \cup {m} /\ m \notin Parts(i, n)
    <3>1. \A k : k \in i .. m <=> k = m \/ k \in i .. n
      BY <2>1, SMTT(30)
    <3>2. m \notin i .. n
      BY <2>1
    <3>3. \A k : k \in Parts(i, m) <=> k = m \/ k \in Parts(i, n)
      BY <3>1 DEF Parts
    <3>4. m \notin Parts(i, n)
      BY <3>2 DEF Parts
    <3> QED BY <3>3, <3>4
  <2>5. IsFiniteSet(Parts(i, n))
    BY <2>1, PartsAre
  <2>6. Cardinality(Parts(i, m)) = Len(label) + 1
    <3>1. Cardinality(Parts(i, n) \cup {m}) = Cardinality(Parts(i, n)) + 1
      BY <2>4, <2>5, FS_AddElement
    <3> QED BY <2>3, <2>4, <3>1 DEF NamedBy
  <2>7. ASSUME NEW k \in Parts(i, m) PROVE longer[Cardinality(Parts(i, k))] = Stream[k].text
    <3>1. CASE k = m
      BY <1>2, <2>6, <3>1
    <3>2. CASE k # m
      <4>1. k \in Parts(i, n)
        BY <2>4, <3>2
      <4>2. Cardinality(Parts(i, k)) \in 1 .. Len(label)
        BY <2>1, <2>3, <4>1, PartsAre DEF NamedBy
      <4>3. label[Cardinality(Parts(i, k))] = Stream[k].text
        BY <2>3, <4>1 DEF NamedBy
      <4> QED BY <1>2, <4>2, <4>3
    <3> QED BY <3>1, <3>2
  <2> QED BY <1>2, <2>6, <2>7 DEF NamedBy
<1> QED BY <1>1, <1>2, <1>3, <1>4 DEF NameIs

LEMMA AddressOn ==
  ASSUME NEW has \in BOOLEAN, NEW found, NEW n \in Nat, NEW m, m = n + 1,
         AddressAt(has, found, n), Stream[m].id # "AD"
  PROVE  AddressAt(has, found, m)
<1>1. \A i \in 1 .. m : i = m \/ i \in 1 .. n
  OBVIOUS
<1>2. \A i \in 1 .. n : i \in 1 .. m
  OBVIOUS
<1>3. has <=> \E j \in 1 .. m : Stream[j].id = "AD"
  BY <1>1, <1>2 DEF AddressAt
<1>4. ASSUME NEW j \in 1 .. m, Stream[j].id = "AD", \A i \in j + 1 .. m : Stream[i].id # "AD"
      PROVE  found = Stream[j + 1].text
  <2>1. j \in 1 .. n
    BY <1>1, <1>4
  <2>2. \A i \in j + 1 .. n : i \in j + 1 .. m
    OBVIOUS
  <2>3. \A i \in j + 1 .. n : Stream[i].id # "AD"
    BY <1>4, <2>2
  <2> QED BY <1>4, <2>1, <2>3 DEF AddressAt
<1> QED BY <1>3, <1>4 DEF AddressAt

LEMMA AddressNew ==
  ASSUME NEW n \in Nat, NEW m, m = n + 1, NEW r, r = m + 1, Stream[m].id = "AD",
         Stream[r].id # "AD"
  PROVE  AddressAt(TRUE, Stream[r].text, r)
<1>1. m \in 1 .. r
  OBVIOUS
<1>2. ASSUME NEW j \in 1 .. r, Stream[j].id = "AD", \A i \in j + 1 .. r : Stream[i].id # "AD"
      PROVE  j = m
  <2>1. j # r
    BY <1>2
  <2>2. j # m => m \in j + 1 .. r
    BY <2>1
  <2> QED BY <1>2, <2>2
<1> QED BY <1>1, <1>2 DEF AddressAt

-----------------------------------------------------------------------------
(* The steps of deserialize.                                               *)

(* What holds of the parameters read holds with one more.                  *)
ReadUpTo(p) ==
  \A i \in 1 .. p - 1 : Proper(i) /\ (Stream[i].id = "AD" => i + 1 < p)

LEMMA ReadOn ==
  ASSUME NEW p \in Nat \ {0}, NEW q, q = p + 1, ReadUpTo(p), Proper(p), Stream[p].id # "AD"
  PROVE  ReadUpTo(q)
<1>1. ASSUME NEW i \in 1 .. q - 1 PROVE Proper(i) /\ (Stream[i].id = "AD" => i + 1 < q)
  <2>1. CASE i = p
    BY <2>1
  <2>2. CASE i # p
    <3>1. i \in 1 .. p - 1
      BY <2>2
    <3> QED BY <3>1 DEF ReadUpTo
  <2> QED BY <2>1, <2>2
<1> QED BY <1>1 DEF ReadUpTo

LEMMA SymbolParameterTaken ==
  ASSUME StreamIs, SymbolRead(symbol, at_item), SymbolParameter
  PROVE  SymbolRead(symbol', at_item')
<1>1. PICK p \in 1 .. Len(Stream) + 1 : p = at_item
  BY DEF SymbolRead
<1>2. PICK q : q = p + 1
  OBVIOUS
<1>3. /\ symbol.in_address = FALSE /\ symbol \in SymbolType /\ p \in Nat \ {0}
      /\ p \in 1 .. Len(Stream) /\ Stream[p].id \in {"NM", "NE", "PT", "SZ"}
      /\ Stream[p].cut = FALSE
      /\ Stream[p].text \in Nat /\ q \in 1 .. Len(Stream) + 1
      /\ Stream[p].id = "NE" => symbol.name # <<>>
  BY <1>1, <1>2, ParametersAre
     DEF SymbolParameter, IsParameter, Intact, InStream, SymbolRead, SymbolType
<1>4. /\ ~OfAddress(p) /\ NameIs(symbol.name, p - 1) /\ ReadUpTo(p)
      /\ AddressAt(symbol.has_address, symbol.value, p - 1)
  BY <1>1, <1>3 DEF SymbolRead, ReadUpTo
<1>5. ~OfAddress(q)
  BY <1>2, <1>3, <1>4, OfAddressNext
<1>6. Proper(p)
  <2>1. ~(p > 1 /\ Stream[p - 1].id = "AD")
    <3>1. p > 1 => p - 1 \in 1 .. p - 1 /\ ~(p - 1 + 1 < p)
      BY <1>3
    <3> QED BY <1>4, <3>1 DEF ReadUpTo
  <2>2. Stream[p].id = "NE" => \E j \in 1 .. p - 1 : Stream[j].id = "NM"
    BY <1>3, <1>4 DEF NameIs
  <2> QED BY <1>3, <1>4, <2>1, <2>2 DEF Proper, ParameterFits
<1>7. ReadUpTo(q)
  BY <1>2, <1>3, <1>4, <1>6, ReadOn
<1>8. PICK n \in Nat : n = p - 1
  BY <1>3
<1>9. p = n + 1 /\ q - 1 = p
  BY <1>2, <1>3, <1>8
<1>10. symbol' = TakeParameter(Stream[p].id, Stream[p].text) /\ at_item' = q
  BY <1>1, <1>2 DEF SymbolParameter
<1>11. PICK text \in Nat : text = Stream[p].text
  BY <1>3
<1>12. PICK next : next = symbol'
  OBVIOUS
<1>13. /\ next \in SymbolType /\ next.in_address = FALSE
       /\ next.has_address = symbol.has_address /\ next.value = symbol.value
       /\ Stream[p].id = "NM" => next.name = <<text>>
       /\ Stream[p].id = "NE" => next.name = Append(symbol.name, text)
       /\ Stream[p].id \notin {"NM", "NE"} => next.name = symbol.name
  <2>1. CASE Stream[p].id = "NM"
    <3>1. next = [symbol EXCEPT !.name = <<text>>] /\ <<text>> \in Seq(Nat)
      BY <1>10, <1>11, <1>12, <2>1 DEF TakeParameter
    <3> QED BY <1>3, <2>1, <3>1 DEF SymbolType
  <2>2. CASE Stream[p].id = "NE"
    <3>1. PICK longer \in Seq(Nat) : longer = Append(symbol.name, text)
      BY <1>3, AppendProperties DEF SymbolType
    <3>2. next = [symbol EXCEPT !.name = longer]
      BY <1>10, <1>11, <1>12, <2>2, <3>1 DEF TakeParameter
    <3> QED BY <1>3, <2>2, <3>1, <3>2 DEF SymbolType
  <2>3. CASE Stream[p].id = "PT"
    <3>1. next = [symbol EXCEPT !.path = text]
      BY <1>10, <1>11, <1>12, <2>3 DEF TakeParameter
    <3> QED BY <1>3, <2>3, <3>1 DEF SymbolType
  <2>4. CASE Stream[p].id = "SZ"
    <3>1. next = [symbol EXCEPT !.size = text]
      BY <1>10, <1>11, <1>12, <2>4 DEF TakeParameter
    <3> QED BY <1>3, <2>4, <3>1 DEF SymbolType
  <2> QED BY <1>3, <2>1, <2>2, <2>3, <2>4
<1>14. NameIs(next.name, p)
  <2>1. symbol.name \in Seq(Nat)
    BY <1>3 DEF SymbolType
  <2>2. NameIs(symbol.name, n)
    BY <1>4, <1>8
  <2>3. CASE Stream[p].id = "NM"
    BY <1>9, <1>11, <1>13, <2>3, NameNew
  <2>4. CASE Stream[p].id = "NE"
    BY <1>3, <1>9, <1>11, <1>13, <2>1, <2>2, <2>4, NameLonger
  <2>5. CASE Stream[p].id \notin {"NM", "NE"}
    BY <1>9, <1>13, <2>2, <2>5, NameOn
  <2> QED BY <2>3, <2>4, <2>5
<1>15. AddressAt(next.has_address, next.value, p)
  <2>1. symbol.has_address \in BOOLEAN /\ AddressAt(symbol.has_address, symbol.value, n)
        /\ Stream[p].id # "AD"
    BY <1>3, <1>4, <1>8 DEF SymbolType
  <2> QED BY <1>9, <1>13, <2>1, AddressOn
<1> QED BY <1>3, <1>5, <1>7, <1>9, <1>10, <1>12, <1>13, <1>14, <1>15 DEF SymbolRead, ReadUpTo

LEMMA SymbolAddressTaken ==
  ASSUME StreamIs, SymbolRead(symbol, at_item), SymbolAddress
  PROVE  SymbolRead(symbol', at_item')
<1>1. PICK p \in 1 .. Len(Stream) + 1 : p = at_item
  BY DEF SymbolRead
<1>2. PICK q, r : q = p + 1 /\ r = p + 2
  OBVIOUS
<1>3. /\ symbol.in_address = FALSE /\ symbol \in SymbolType /\ p \in Nat \ {0}
      /\ p \in 1 .. Len(Stream) /\ Stream[p].id = "AD" /\ Stream[p].cut = FALSE
      /\ q \in 1 .. Len(Stream) /\ Stream[q].id \in {"A32", "A64"} /\ Stream[q].cut = FALSE
      /\ Stream[q].text \in Nat /\ q \in Nat \ {0} /\ r = q + 1 /\ r \in 1 .. Len(Stream) + 1
  BY <1>1, <1>2, ParametersAre
     DEF SymbolAddress, IsAddress, Intact, InStream, SymbolRead, SymbolType
<1>4. /\ ~OfAddress(p) /\ NameIs(symbol.name, p - 1) /\ ReadUpTo(p)
  BY <1>1, <1>3 DEF SymbolRead, ReadUpTo
<1>5. OfAddress(q) /\ OfAddress(r)
  BY <1>2, <1>3, OfAddressNext
<1>6. Proper(p)
  <2>1. ~(p > 1 /\ Stream[p - 1].id = "AD")
    <3>1. p > 1 => p - 1 \in 1 .. p - 1 /\ ~(p - 1 + 1 < p)
      BY <1>3
    <3> QED BY <1>4, <3>1 DEF ReadUpTo
  <2> QED BY <1>3, <1>4, <2>1 DEF Proper, ParameterFits
<1>7. Proper(q)
  <2>1. q > 1 /\ Stream[q - 1].id = "AD"
    BY <1>2, <1>3
  <2> QED BY <1>3, <2>1 DEF Proper, ParameterFits
<1>8. ReadUpTo(r)
  <2>1. ASSUME NEW i \in 1 .. r - 1 PROVE Proper(i) /\ (Stream[i].id = "AD" => i + 1 < r)
    <3>1. i = q \/ i = p \/ i \in 1 .. p - 1
      BY <1>2, <1>3
    <3>2. p + 1 < r
      BY <1>2, <1>3
    <3>3. CASE i \in 1 .. p - 1
      <4>1. Proper(i) /\ (Stream[i].id = "AD" => i + 1 < p)
        BY <1>4, <3>3 DEF ReadUpTo
      <4> QED BY <1>2, <1>3, <3>3, <4>1
    <3> QED BY <1>3, <1>6, <1>7, <3>1, <3>2, <3>3
  <2> QED BY <2>1 DEF ReadUpTo
<1>9. PICK n \in Nat : n = p - 1
  BY <1>3
<1>10. p = n + 1 /\ r - 1 = q /\ q = p + 1
  BY <1>2, <1>3, <1>9
<1>11. PICK text \in Nat : text = Stream[q].text
  BY <1>3
<1>12. PICK next : next = symbol'
  OBVIOUS
<1>13. next = [symbol EXCEPT !.has_address = TRUE, !.value = text, !.access = Nothing,
                             !.in_address = TRUE] /\ at_item' = r
  BY <1>1, <1>2, <1>11, <1>12 DEF SymbolAddress
<1>14. /\ next \in SymbolType /\ next.in_address = TRUE /\ next.has_address = TRUE
       /\ next.value = text /\ next.name = symbol.name
  BY <1>3, <1>13 DEF SymbolType
<1>15. NameIs(next.name, q)
  <2>1. NameIs(symbol.name, n) /\ p \in Nat
    BY <1>4, <1>9
  <2>2. NameIs(symbol.name, p)
    BY <1>3, <1>10, <2>1, NameOn
  <2>3. NameIs(symbol.name, q)
    BY <1>3, <1>10, <2>1, <2>2, NameOn
  <2> QED BY <1>14, <2>3
<1>16. AddressAt(TRUE, text, q)
  BY <1>3, <1>10, <1>11, AddressNew
<1> QED BY <1>3, <1>5, <1>8, <1>10, <1>12, <1>13, <1>14, <1>15, <1>16 DEF SymbolRead, ReadUpTo

LEMMA AddressParameterTaken ==
  ASSUME StreamIs, SymbolRead(symbol, at_item), AddressParameter
  PROVE  SymbolRead(symbol', at_item')
<1>1. PICK p \in 1 .. Len(Stream) + 1 : p = at_item
  BY DEF SymbolRead
<1>2. PICK q : q = p + 1
  OBVIOUS
<1>3. /\ symbol.in_address = TRUE /\ symbol \in SymbolType /\ p \in Nat \ {0}
      /\ p \in 1 .. Len(Stream) /\ Stream[p].id \in {"AC", "skip", "XX"}
      /\ Stream[p].cut => Stream[p].id = "skip"
      /\ Stream[p].text \in Nat /\ q \in 1 .. Len(Stream) + 1
  BY <1>1, <1>2, ParametersAre
     DEF AddressParameter, IsAddressParameter, Intact, Skipped, InStream, SymbolRead, SymbolType
<1>4. /\ OfAddress(p) /\ NameIs(symbol.name, p - 1) /\ ReadUpTo(p)
      /\ AddressAt(symbol.has_address, symbol.value, p - 1)
  BY <1>1, <1>3 DEF SymbolRead, ReadUpTo
<1>5. OfAddress(q) <=> Stream[p].id # "XX"
  BY <1>2, <1>3, <1>4, OfAddressNext
<1>6. Proper(p)
  <2>1. ~(p > 1 /\ Stream[p - 1].id = "AD")
    <3>1. p > 1 => p - 1 \in 1 .. p - 1 /\ ~(p - 1 + 1 < p)
      BY <1>3
    <3> QED BY <1>4, <3>1 DEF ReadUpTo
  <2> QED BY <1>3, <1>4, <2>1 DEF Proper, ParameterFits
<1>7. ReadUpTo(q)
  BY <1>2, <1>3, <1>4, <1>6, ReadOn
<1>8. PICK n \in Nat : n = p - 1
  BY <1>3
<1>9. p = n + 1 /\ q - 1 = p
  BY <1>2, <1>3, <1>8
<1>10. symbol' = TakeAddressParameter(Stream[p].id, Stream[p].text) /\ at_item' = q
  BY <1>1, <1>2 DEF AddressParameter
<1>11. PICK text \in Nat : text = Stream[p].text
  BY <1>3
<1>12. PICK next : next = symbol'
  OBVIOUS
<1>13. /\ next \in SymbolType /\ next.in_address = (Stream[p].id # "XX")
       /\ next.has_address = symbol.has_address /\ next.value = symbol.value
       /\ next.name = symbol.name
  <2>1. CASE Stream[p].id = "AC"
    <3>1. next = [symbol EXCEPT !.access = text]
      BY <1>10, <1>11, <1>12, <2>1 DEF TakeAddressParameter
    <3> QED BY <1>3, <2>1, <3>1 DEF SymbolType
  <2>2. CASE Stream[p].id = "skip"
    <3>1. next = symbol
      BY <1>10, <1>12, <2>2 DEF TakeAddressParameter
    <3> QED BY <1>3, <2>2, <3>1
  <2>3. CASE Stream[p].id = "XX"
    <3>1. next = [symbol EXCEPT !.in_address = FALSE]
      BY <1>10, <1>12, <2>3 DEF TakeAddressParameter
    <3> QED BY <1>3, <2>3, <3>1 DEF SymbolType
  <2> QED BY <1>3, <2>1, <2>2, <2>3
<1>14. NameIs(next.name, p)
  BY <1>3, <1>4, <1>8, <1>9, <1>13, NameOn
<1>15. AddressAt(next.has_address, next.value, p)
  <2>1. symbol.has_address \in BOOLEAN /\ AddressAt(symbol.has_address, symbol.value, n)
        /\ Stream[p].id # "AD"
    BY <1>3, <1>4, <1>8 DEF SymbolType
  <2> QED BY <1>9, <1>13, <2>1, AddressOn
<1> QED BY <1>3, <1>5, <1>7, <1>9, <1>10, <1>12, <1>13, <1>14, <1>15 DEF SymbolRead, ReadUpTo

(* What is said of a stream does not change while the call is the same.    *)
LEMMA StreamStays ==
  ASSUME apiCall' = apiCall, NEW sym, NEW p, sym = symbol', p = at_item', SymbolRead(sym, p)
  PROVE  SymbolRead(symbol, at_item)'
<1>1. Stream' = Stream
  BY DEF Stream
<1>2. /\ at_item' \in 1 .. Len(Stream') + 1 /\ symbol' \in SymbolType
      /\ symbol'.in_address <=> OfAddress(at_item')
  BY <1>1 DEF SymbolRead
<1>3. OfAddress(at_item)' <=> OfAddress(at_item')
  BY <1>1 DEF OfAddress
<1>4. ASSUME NEW i \in 1 .. at_item' - 1
      PROVE  Proper(i)' /\ (Stream'[i].id = "AD" => i + 1 < at_item')
  <2>1. Proper(i) /\ (Stream[i].id = "AD" => i + 1 < at_item')
    BY DEF SymbolRead
  <2>2. Proper(i)' <=> Proper(i)
    BY <1>1 DEF Proper, ParameterFits, OfAddress
  <2> QED BY <1>1, <2>1, <2>2
<1>5. NameIs(symbol.name, at_item - 1)'
  <2>1. NameIs(sym.name, p - 1)
    BY DEF SymbolRead
  <2> QED BY <1>1, <2>1, SMTT(30) DEF NameIs, LastName, NamedBy, Parts
<1>6. AddressAt(symbol.has_address, symbol.value, at_item - 1)'
  <2>1. AddressAt(sym.has_address, sym.value, p - 1)
    BY DEF SymbolRead
  <2> QED BY <1>1, <2>1 DEF AddressAt
<1>7. SymbolType' = SymbolType
  BY DEF SymbolType
<1> QED BY <1>2, <1>3, <1>4, <1>5, <1>6, <1>7 DEF SymbolRead

LEMMA QuestionStays ==
  ASSUME apiCall' = apiCall, symbol' = symbol, at_item' = at_item
  PROVE  (Exhausted' <=> Exhausted) /\ (Refused' <=> Refused) /\ Protocol' = Protocol
<1>1. Stream' = Stream
  BY DEF Stream
<1>2. Exhausted' <=> Exhausted
  BY <1>1 DEF Exhausted, Intact, InStream
<1>3. /\ IsParameter' <=> IsParameter
      /\ IsAddress' <=> IsAddress
      /\ IsAddressParameter' <=> IsAddressParameter
  BY <1>1 DEF IsParameter, IsAddress, IsAddressParameter, Intact, Skipped, InStream
<1> QED BY <1>2, <1>3 DEF Refused, Protocol, Error

LEMMA SymbolKept ==
  ASSUME SymbolInv, ApiNext PROVE SymbolInv'
<1>1. apiCall' = apiCall /\ ApiType' /\ ApiType
  BY StepOf DEF SymbolInv
<1>2. SUFFICES ASSUME apiCall.op = "symbol" PROVE SymbolSays'
  BY <1>1 DEF SymbolInv
<1>3. ReadStream \/ QuerySymbol
  BY <1>1, <1>2, StepOf DEF ApiNext
<1>4. SymbolSays /\ StreamIs
  BY <1>1, <1>2, CallsOf DEF SymbolInv, StreamIs, Stream
<1>5. CASE ReadStream
  <2>1. apiAt' # "ended"
    BY <1>5 DEF ReadStream
  <2>2. SymbolRead(symbol', at_item')
    BY <1>4, <1>5, SymbolParameterTaken, SymbolAddressTaken, AddressParameterTaken
       DEF ReadStream, SymbolSays
  <2>3. SymbolRead(symbol, at_item)'
    BY <1>1, <2>2, StreamStays
  <2> QED BY <2>1, <2>3 DEF SymbolSays
<1>6. CASE QuerySymbol
  <2>1. symbol' = symbol /\ at_item' = at_item
    BY <1>6 DEF QuerySymbol
  <2>2. SymbolRead(symbol, at_item)'
    BY <1>1, <1>4, <2>1, StreamStays DEF SymbolSays
  <2>3. (Exhausted' <=> Exhausted) /\ (Refused' <=> Refused) /\ Protocol' = Protocol
    BY <1>1, <2>1, QuestionStays
  <2>4. \/ \E failure \in Failures : apiResult' = CallError(failure, "Api")
        \/ /\ Exhausted
           /\ apiResult' = IF symbol.has_address THEN [ok |-> symbol.value]
                           ELSE Error("trace32", "Symbol")
        \/ Refused /\ apiResult' = Protocol
    BY <1>6 DEF QuerySymbol, CallEnds
  <2>5. Error("trace32", "Symbol") # Protocol
    <3>1. Error("trace32", "Symbol").error # Protocol.error
      BY DEF Error, Protocol
    <3> QED BY <3>1
  <2>6. Succeeds([ok |-> symbol.value]) /\ [ok |-> symbol.value].ok = symbol.value
        /\ ~Succeeds(Protocol) /\ ~Succeeds(Error("trace32", "Symbol"))
    BY Failing
  <2>7. /\ Succeeds(apiResult') => Exhausted /\ symbol.has_address /\ apiResult'.ok = symbol.value
        /\ apiResult' = Protocol => Refused
    BY <2>4, <2>5, <2>6, CallErrors
  <2>8. Succeeds(apiResult)' = Succeeds(apiResult')
    BY DEF Succeeds
  <2> QED BY <2>1, <2>2, <2>3, <2>7, <2>8 DEF SymbolSays
<1> QED BY <1>3, <1>5, <1>6

LEMMA SymbolBegins ==
  ASSUME ApiInit PROVE SymbolInv
<1>1. /\ apiCall \in ApiCalls /\ apiAt = apiCall.op /\ at_item = 1
      /\ symbol = [name |-> <<>>, path |-> Nothing, size |-> 0, has_address |-> FALSE,
                   value |-> Nothing, access |-> Nothing, in_address |-> FALSE]
  BY DEF ApiInit
<1>2. ApiType /\ apiAt # "ended"
  BY <1>1, CallsOf DEF ApiType
<1>3. SUFFICES ASSUME apiCall.op = "symbol" PROVE SymbolRead(symbol, at_item)
  BY <1>2 DEF SymbolInv, SymbolSays
<1>4. StreamIs
  BY <1>2, <1>3, CallsOf DEF StreamIs, Stream
<1>5. Len(Stream) \in Nat
  BY <1>4, ParametersAre
<1>6. symbol \in SymbolType /\ symbol.name = <<>> /\ symbol.in_address = FALSE
        /\ symbol.has_address = FALSE
  BY <1>1 DEF SymbolType
<1>7. ~OfAddress(1)
  BY DEF OfAddress
<1>8. NameIs(<<>>, 0)
  BY DEF NameIs
<1>9. AddressAt(FALSE, symbol.value, 0)
  BY DEF AddressAt
<1>10. PICK p \in Nat : p = at_item
  BY <1>1
<1>11. p - 1 = 0 /\ p \in 1 .. Len(Stream) + 1 /\ 1 .. p - 1 = {}
  BY <1>1, <1>5, <1>10
<1>12. SymbolRead(symbol, p)
  BY <1>1, <1>6, <1>7, <1>8, <1>9, <1>10, <1>11 DEF SymbolRead
<1> QED BY <1>10, <1>12

LEMMA SymbolInvariance == ApiSpec => []SymbolInv
<1>1. ApiInit => SymbolInv
  BY SymbolBegins
<1>2. SymbolInv /\ [ApiNext]_apiVars => SymbolInv'
  <2> SUFFICES ASSUME SymbolInv, [ApiNext]_apiVars PROVE SymbolInv'
    OBVIOUS
  <2>1. CASE UNCHANGED apiVars
    <3>1. /\ apiCall' = apiCall /\ apiAt' = apiAt /\ symbol' = symbol /\ at_item' = at_item
          /\ apiResult' = apiResult
      BY <2>1 DEF apiVars
    <3>2. ApiType'
      BY <3>1 DEF SymbolInv, ApiType
    <3>3. ASSUME SymbolSays PROVE SymbolSays'
      <4>1. SymbolRead(symbol, at_item)'
        BY <3>1, <3>3, StreamStays DEF SymbolSays
      <4>2. Succeeds(apiResult)' <=> Succeeds(apiResult)
        BY <3>1 DEF Succeeds
      <4> QED BY <3>1, <3>3, <4>1, <4>2, QuestionStays DEF SymbolSays
    <3> QED BY <3>1, <3>2, <3>3 DEF SymbolInv
  <2> QED BY <2>1, SymbolKept
<1> QED BY <1>1, <1>2, PTL DEF ApiSpec

-----------------------------------------------------------------------------
(* Where a symbol ends: at its XX, or behind the answer.                   *)
Ends(i) == i \in DOMAIN Stream /\ Stream[i].id = "XX" /\ ~OfAddress(i)

LEMMA StreamEndIs ==
  ASSUME StreamIs
  PROVE  /\ StreamEnd \in 1 .. Len(Stream) + 1
         /\ StreamEnd <= Len(Stream) => Ends(StreamEnd)
         /\ \A i : Ends(i) => StreamEnd <= i
<1> DEFINE ends == {i \in DOMAIN Stream : Stream[i].id = "XX" /\ ~OfAddress(i)}
<1>1. Len(Stream) \in Nat /\ DOMAIN Stream = 1 .. Len(Stream)
  BY ParametersAre
<1>2. \A i : Ends(i) <=> i \in ends
  BY DEF Ends
<1>3. StreamEnd = IF ends = {} THEN Len(Stream) + 1
                  ELSE CHOOSE i \in ends : \A j \in ends : i <= j
  BY DEF StreamEnd
<1>4. ends \in SUBSET (0 .. Len(Stream)) /\ ends \in SUBSET (1 .. Len(Stream))
  BY <1>1
<1> HIDE DEF ends
<1>5. CASE ends = {}
  BY <1>1, <1>2, <1>3, <1>5
<1>6. CASE ends # {}
  <2>1. \E i \in ends : \A j \in ends : i <= j
    BY <1>1, <1>4, <1>6, FirstPlace
  <2>2. StreamEnd \in ends /\ \A j \in ends : StreamEnd <= j
    BY <1>3, <1>6, <2>1
  <2>3. PICK end \in 1 .. Len(Stream) : end = StreamEnd
    BY <1>4, <2>2
  <2>4. Ends(end)
    BY <1>2, <2>2, <2>3
  <2>5. \A i : Ends(i) => end <= i
    BY <1>2, <2>2, <2>3
  <2> QED BY <1>1, <2>3, <2>4, <2>5
<1> QED BY <1>5, <1>6

(* What was read is in front of the end.                                   *)
LEMMA NotBehindEnd ==
  ASSUME StreamIs, NEW p \in 1 .. Len(Stream) + 1, ReadUpTo(p)
  PROVE  p <= StreamEnd
<1>1. SUFFICES ASSUME StreamEnd < p PROVE FALSE
  BY StreamEndIs, ParametersAre
<1>2. StreamEnd \in 1 .. p - 1 /\ StreamEnd <= Len(Stream)
  BY <1>1, StreamEndIs, ParametersAre
<1>3. Ends(StreamEnd)
  BY <1>2, StreamEndIs
<1> QED BY <1>2, <1>3 DEF ReadUpTo, Proper, Ends

(* deserialize ends where the symbol does, and the answer is well formed.  *)
LEMMA ExhaustedIs ==
  ASSUME StreamIs, SymbolRead(symbol, at_item), Exhausted
  PROVE  at_item = StreamEnd /\ Parseable
<1>1. PICK p \in 1 .. Len(Stream) + 1 : p = at_item
  BY DEF SymbolRead
<1>2. ReadUpTo(p) /\ (symbol.in_address <=> OfAddress(p)) /\ Len(Stream) \in Nat
      /\ DOMAIN Stream = 1 .. Len(Stream)
  BY <1>1, ParametersAre DEF SymbolRead, ReadUpTo
<1>3. StreamEnd \in 1 .. Len(Stream) + 1 /\ p <= StreamEnd
  BY <1>2, StreamEndIs, NotBehindEnd
<1>4. p = Len(Stream) + 1 \/ (p \in 1 .. Len(Stream) /\ Ends(p) /\ Stream[p].cut = FALSE)
  BY <1>1, <1>2, ParametersAre DEF Exhausted, InStream, Intact, Ends
<1>5. p = StreamEnd
  <2>1. CASE p = Len(Stream) + 1
    BY <1>2, <1>3, <2>1
  <2>2. CASE Ends(p)
    <3>1. StreamEnd <= p
      BY <2>2, StreamEndIs
    <3> QED BY <1>2, <1>3, <3>1
  <2> QED BY <1>4, <2>1, <2>2
<1>6. ASSUME NEW i \in 1 .. Smaller(StreamEnd, Len(Stream)), Stream[i].cut
      PROVE  Stream[i].id = "skip"
  <2>1. i \in 1 .. Len(Stream) /\ i <= p
    BY <1>2, <1>3, <1>5 DEF Smaller
  <2>2. CASE i = p
    BY <1>2, <1>4, <1>6, <2>1, <2>2
  <2>3. CASE i # p
    <3>1. i \in 1 .. p - 1
      BY <2>1, <2>3
    <3> QED BY <1>2, <1>6, <3>1 DEF ReadUpTo, Proper
  <2> QED BY <2>2, <2>3
<1>7. ASSUME NEW i \in 1 .. StreamEnd - 1
      PROVE  ParameterFits(i) /\ (Stream[i].id = "AD" => InStream(i + 1))
  <2>1. i \in 1 .. p - 1 /\ p - 1 <= Len(Stream)
    BY <1>2, <1>3, <1>5
  <2>2. ParameterFits(i) /\ (Stream[i].id = "AD" => i + 1 < p)
    BY <1>2, <2>1 DEF ReadUpTo, Proper
  <2>3. i + 1 < p => i + 1 \in 1 .. Len(Stream)
    BY <1>2, <2>1
  <2> QED BY <1>2, <2>2, <2>3 DEF InStream
<1> QED BY <1>1, <1>5, <1>6, <1>7 DEF Parseable

(* What deserialize refuses is not well formed.                            *)
LEMMA RefusedIs ==
  ASSUME StreamIs, SymbolRead(symbol, at_item), Refused
  PROVE  ~Parseable
<1>1. SUFFICES ASSUME Parseable PROVE FALSE
  OBVIOUS
<1>2. PICK p \in 1 .. Len(Stream) + 1 : p = at_item
  BY DEF SymbolRead
<1>3. /\ ReadUpTo(p) /\ (symbol.in_address <=> OfAddress(p)) /\ Len(Stream) \in Nat
      /\ DOMAIN Stream = 1 .. Len(Stream) /\ NameIs(symbol.name, p - 1)
  BY <1>2, ParametersAre DEF SymbolRead, ReadUpTo
<1>4. PICK end \in 1 .. Len(Stream) + 1 : end = StreamEnd /\ p <= end
  BY <1>3, StreamEndIs, NotBehindEnd
<1>5. p \in 1 .. Len(Stream)
  BY <1>2, <1>3 DEF Refused, Exhausted, InStream
<1>6. ASSUME NEW i \in 1 .. Len(Stream), i <= end PROVE Stream[i].cut => Stream[i].id = "skip"
  <2>1. i \in 1 .. Smaller(StreamEnd, Len(Stream))
    BY <1>3, <1>4, <1>6 DEF Smaller
  <2> QED BY <1>1, <2>1 DEF Parseable
<1>7. ASSUME NEW i \in 1 .. end - 1
      PROVE  ParameterFits(i) /\ (Stream[i].id = "AD" => i + 1 \in 1 .. Len(Stream))
  BY <1>1, <1>3, <1>4, <1>7 DEF Parseable, InStream
<1>8. ASSUME NEW i \in 1 .. Len(Stream), i = end PROVE Stream[i].id = "XX" /\ ~OfAddress(i)
  BY <1>3, <1>4, <1>8, StreamEndIs DEF Ends
<1>9. Stream[p].cut \in BOOLEAN
  BY <1>5, ParametersAre
<1>10. p # end
  <2>1. SUFFICES ASSUME p = end PROVE FALSE
    OBVIOUS
  <2>2. Stream[p].id = "XX" /\ ~OfAddress(p) /\ ~Stream[p].cut
    BY <1>4, <1>5, <1>6, <1>8, <2>1
  <2>3. Exhausted
    BY <1>2, <1>3, <1>5, <2>2 DEF Exhausted, Intact, InStream
  <2> QED BY <2>3 DEF Refused
<1>11. p \in 1 .. end - 1
  BY <1>3, <1>4, <1>5, <1>10
<1>12. ~(p > 1 /\ Stream[p - 1].id = "AD")
  <2>1. p > 1 => p - 1 \in 1 .. p - 1 /\ ~(p - 1 + 1 < p)
    BY <1>5
  <2> QED BY <1>3, <2>1 DEF ReadUpTo
<1>13. ParameterFits(p) /\ (Stream[p].cut => Stream[p].id = "skip")
  BY <1>4, <1>5, <1>6, <1>7, <1>11
<1>14. CASE OfAddress(p)
  <2>1. Stream[p].id \in {"AC", "skip", "XX"}
    BY <1>12, <1>13, <1>14 DEF ParameterFits
  <2>2. IsAddressParameter
    BY <1>2, <1>3, <1>5, <1>13, <1>14, <2>1 DEF IsAddressParameter, Intact, Skipped, InStream
  <2> QED BY <2>2 DEF Refused
<1>15. CASE ~OfAddress(p)
  <2>1. /\ Stream[p].id \in {"NM", "NE", "PT", "SZ", "AD"}
        /\ Stream[p].id = "NE" => \E j \in 1 .. p - 1 : Stream[j].id = "NM"
    BY <1>12, <1>13, <1>15 DEF ParameterFits
  <2>2. ~Stream[p].cut /\ ~symbol.in_address
    BY <1>3, <1>13, <1>15, <2>1
  <2>3. CASE Stream[p].id # "AD"
    <3>1. Stream[p].id = "NE" => symbol.name # <<>>
      BY <1>3, <2>1 DEF NameIs
    <3>2. IsParameter
      BY <1>2, <1>3, <1>5, <2>1, <2>2, <2>3, <3>1 DEF IsParameter, Intact, InStream
    <3> QED BY <3>2 DEF Refused
  <2>4. CASE Stream[p].id = "AD"
    <3>1. PICK q \in 1 .. Len(Stream) : q = p + 1
      BY <1>7, <1>11, <2>4
    <3>2. OfAddress(q)
      BY <1>5, <2>4, <3>1, OfAddressNext
    <3>3. q \in 1 .. end - 1
      <4>1. q # end
        BY <1>8, <3>1, <3>2
      <4> QED BY <1>11, <3>1, <4>1
    <3>4. q > 1 /\ Stream[q - 1].id = "AD"
      BY <1>5, <2>4, <3>1
    <3>5. Stream[q].id \in {"A32", "A64"}
      BY <1>7, <3>3, <3>4 DEF ParameterFits
    <3>6. ~Stream[q].cut
      BY <1>6, <3>1, <3>3, <3>5
    <3>7. IsAddress
      BY <1>2, <1>3, <1>5, <2>2, <2>4, <3>1, <3>5, <3>6 DEF IsAddress, Intact, InStream
    <3> QED BY <3>7 DEF Refused
  <2> QED BY <2>3, <2>4
<1> QED BY <1>14, <1>15

(* At the end of the symbol, its last address and its last name.           *)
LEMMA SymbolHas ==
  ASSUME StreamIs, SymbolRead(symbol, at_item), at_item = StreamEnd
  PROVE  /\ \A i \in LastOf({"AD"}) : symbol.value = Stream[i + 1].text
         /\ LastOf({"NM"}) = {} <=> symbol.name = <<>>
         /\ \A i \in LastOf({"NM"}) :
              /\ Len(symbol.name) = Cardinality(PartsOfName(Len(Stream)))
              /\ \A k \in PartsOfName(Len(Stream)) :
                   symbol.name[Cardinality(PartsOfName(k))] = Stream[k].text
<1>1. PICK n \in Nat : n = StreamEnd - 1 /\ StreamEnd = n + 1 /\ n <= Len(Stream)
  <2>1. Len(Stream) \in Nat
    BY ParametersAre
  <2>2. StreamEnd \in 1 .. Len(Stream) + 1
    BY StreamEndIs
  <2>3. StreamEnd - 1 \in Nat /\ StreamEnd = (StreamEnd - 1) + 1 /\ StreamEnd - 1 <= Len(Stream)
    BY <2>1, <2>2
  <2> QED BY <2>3
<1>2. NameIs(symbol.name, n) /\ AddressAt(symbol.has_address, symbol.value, n)
      /\ Len(Stream) \in Nat
  BY <1>1, ParametersAre DEF SymbolRead
<1>3. \A ids : LastOf(ids) = {i \in 1 .. n : Stream[i].id \in ids
                                /\ \A j \in i + 1 .. n : Stream[j].id \notin ids}
  BY <1>1 DEF LastOf
<1>4. \A i : i \in LastOf({"NM"}) <=> i \in 1 .. n /\ LastName(i, n)
  BY <1>3 DEF LastName
<1>5. ASSUME NEW i \in LastOf({"AD"}) PROVE symbol.value = Stream[i + 1].text
  <2>1. i \in 1 .. n /\ Stream[i].id = "AD" /\ \A j \in i + 1 .. n : Stream[j].id # "AD"
    BY <1>3
  <2> QED BY <1>2, <2>1 DEF AddressAt
<1>6. LastOf({"NM"}) = {} <=> symbol.name = <<>>
  <2>1. PICK names : names = {i \in 1 .. n : Stream[i].id = "NM"}
    OBVIOUS
  <2>2. CASE names = {}
    <3>1. \A i \in 1 .. n : Stream[i].id # "NM"
      BY <2>1, <2>2
    <3> QED BY <1>2, <1>4, <3>1 DEF NameIs, LastName
  <2>3. CASE names # {}
    <3>1. names \in SUBSET (0 .. n)
      BY <2>1
    <3>2. PICK x \in names : \A y \in names : y <= x
      BY <2>3, <3>1, LastPlace
    <3>3. x \in 1 .. n /\ Stream[x].id = "NM"
      BY <2>1
    <3>4. ASSUME NEW j \in x + 1 .. n PROVE Stream[j].id # "NM"
      <4>1. j \in 1 .. n /\ ~(j <= x)
        BY <3>3
      <4> QED BY <2>1, <3>2, <4>1
    <3>5. x \in LastOf({"NM"})
      BY <1>4, <3>3, <3>4 DEF LastName
    <3>6. symbol.name # <<>>
      BY <1>2, <3>3 DEF NameIs
    <3> QED BY <3>5, <3>6
  <2> QED BY <2>2, <2>3
<1>7. ASSUME NEW i \in LastOf({"NM"})
      PROVE  /\ Len(symbol.name) = Cardinality(PartsOfName(Len(Stream)))
             /\ \A k \in PartsOfName(Len(Stream)) :
                  symbol.name[Cardinality(PartsOfName(k))] = Stream[k].text
  <2>1. i \in 1 .. n /\ LastName(i, n)
    BY <1>4
  <2>2. ASSUME NEW j \in LastOf({"NM"}) PROVE j = i
    <3>1. j \in 1 .. n /\ LastName(j, n)
      BY <1>4
    <3>2. j < i => i \in j + 1 .. n
      BY <2>1, <3>1
    <3>3. i < j => j \in i + 1 .. n
      BY <2>1, <3>1
    <3> QED BY <2>1, <3>1, <3>2, <3>3 DEF LastName
  <2>3. ASSUME NEW m \in Nat, NEW k PROVE k \in PartsOfName(m) <=> k \in Parts(i, m) /\ k <= n
    <3>1. k \in PartsOfName(m) <=>
            k \in 1 .. m /\ k < StreamEnd /\ Stream[k].id \in {"NM", "NE"} /\ k >= i
      BY <2>2 DEF PartsOfName
    <3>2. k \in Parts(i, m) <=> k \in i .. m /\ Stream[k].id \in {"NM", "NE"}
      BY DEF Parts
    <3>3. k \in 1 .. m /\ k >= i <=> k \in i .. m
      BY <2>1
    <3>4. k \in i .. m => (k < StreamEnd <=> k <= n)
      BY <1>1, <2>1
    <3> QED BY <3>1, <3>2, <3>3, <3>4
  <2>4. PartsOfName(Len(Stream)) = Parts(i, n)
    <3>1. \A k : k \in Parts(i, Len(Stream)) /\ k <= n <=> k \in Parts(i, n)
      BY <1>1, <1>2, <2>1 DEF Parts
    <3> QED BY <1>2, <2>3, <3>1
  <2>5. ASSUME NEW k \in Parts(i, n) PROVE PartsOfName(k) = Parts(i, k)
    <3>1. k \in Nat /\ k <= n
      BY <2>1 DEF Parts
    <3>2. \A x : x \in Parts(i, k) => x <= n
      BY <1>1, <2>1, <3>1 DEF Parts
    <3> QED BY <2>3, <3>1, <3>2
  <2>6. NamedBy(symbol.name, i, n)
    BY <1>2, <2>1 DEF NameIs
  <2> QED BY <2>4, <2>5, <2>6 DEF NamedBy
<1> QED BY <1>5, <1>6, <1>7

(* THEOREM: a symbol has the last address and the last name of what came   *)
(* as its answer.  What is cut where it is read, or does not belong there, *)
(* and only that, is refused: an answer that is cut in what is skipped, or *)
(* between parameters, is taken (Symbol::deserialize,                      *)
(* Address::deserialize).                                                  *)
THEOREM SymbolsTaken == ApiSpec => []SymbolsAsTheyCame
<1>1. ASSUME SymbolInv PROVE SymbolsAsTheyCame
  <2>1. SUFFICES ASSUME apiAt = "ended", apiCall.op = "symbol" PROVE SymbolsAsTheyCame
    BY DEF SymbolsAsTheyCame
  <2>2. SymbolSays /\ StreamIs
    BY <1>1, <2>1, CallsOf DEF SymbolInv, StreamIs, Stream
  <2>3. SymbolRead(symbol, at_item)
    BY <2>2 DEF SymbolSays
  <2>4. ASSUME Succeeds(apiResult)
        PROVE  Parseable /\ \A i \in LastOf({"AD"}) : apiResult.ok = Stream[i + 1].text
    <3>1. Exhausted /\ apiResult.ok = symbol.value
      BY <2>1, <2>2, <2>4 DEF SymbolSays
    <3> QED BY <2>2, <2>3, <3>1, ExhaustedIs, SymbolHas
  <2>5. ASSUME apiResult = Protocol PROVE ~Parseable
    BY <2>1, <2>2, <2>3, <2>5, RefusedIs DEF SymbolSays
  <2>6. ASSUME at_item >= StreamEnd PROVE at_item = StreamEnd
    <3>1. at_item \in 1 .. Len(Stream) + 1 /\ ReadUpTo(at_item)
      BY <2>3 DEF SymbolRead, ReadUpTo
    <3>2. at_item <= StreamEnd
      BY <2>2, <3>1, NotBehindEnd
    <3> QED BY <2>2, <2>6, <3>1, <3>2, StreamEndIs, ParametersAre
  <2> QED BY <2>1, <2>2, <2>3, <2>4, <2>5, <2>6, SymbolHas DEF SymbolsAsTheyCame
<1> QED BY <1>1, SymbolInvariance, PTL

-----------------------------------------------------------------------------
(* THEOREM: memory is read and written exactly, a symbol has what is last  *)
(* of the answer that came, and versions, states and addresses are what    *)
(* the texts say (memory_read, memory_write, symbol_address, fnc,          *)
(* practice_state, Address::parse).                                        *)
THEOREM ApiAnswers == ApiSpec => []ApiAnswersFaithfully
<1>1. MemoryIsExact /\ SymbolsAsTheyCame /\ ValuesAreWhole => ApiAnswersFaithfully
  BY DEF ApiAnswersFaithfully
<1> QED BY <1>1, MemoryExact, SymbolsTaken, ValuesWhole, PTL
=============================================================================
