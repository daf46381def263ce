--------------------------- MODULE TransportProofs --------------------------
(***************************************************************************)
(* What holds of Transport and BroadcastableTransport for any links, any   *)
(* threads and any messages, on one thread or on many.  The bound Budget   *)
(* stays: a source sends no more messages than half the range of the       *)
(* sequence numbers, which may start anywhere and wrap around.  First what *)
(* a node accepts (SentInv, AcceptedOnce); then where a message gets to:   *)
(* what its source and the nodes that forward it have done for it          *)
(* (Propagates) and, on one thread, why no newer one overtakes it          *)
(* (ThreadInv), over any links that connect the nodes.                     *)
(***************************************************************************)
EXTENDS Transport, TLAPS

(* The messages of a source are numbered in a row, from any start.         *)
InRow(s) ==
    /\ Len(sent[s]) <= Budget[s]
    /\ \A k \in DOMAIN sent[s] :
         /\ sent[s][k].source = s /\ sent[s][k].number = k
         /\ Sub(mSendSequence[s], sent[s][k].sequence) = Len(sent[s]) + 1 - k
    /\ \A k, l \in DOMAIN sent[s] :
         k <= l => Sub(sent[s][l].sequence, sent[s][k].sequence) = l - k

(* A message that its source has sent.                                     *)
Genuine(x) ==
    x \in Message /\ x.number \in DOMAIN sent[x.source] /\ sent[x.source][x.number] = x

(* Where a message is: on its way to n, with the handler of a channel at   *)
(* n, with a call at n, or received by n.                                  *)
Queued(n, m, x) == \E i \in DOMAIN net[n][m] : net[n][m][i] = x
Handled(n, m, step, x) == rest[n][m].step = step /\ rest[n][m].message = x
Called(n, t, step, x) == call[n][t].step = step /\ call[n][t].message = x
Got(n, x) == \E i \in DOMAIN received[n] : received[n][i] = x

(* n refuses the message k of s, because it has accepted that one or a     *)
(* newer one.                                                              *)
Covers(n, s, k) ==
    \E l \in DOMAIN sent[s] : l >= k /\ mSequences[n][s] = sent[s][l].sequence

(* All messages are genuine, and only the steps that are left are left.    *)
MessagesAreSent ==
    /\ \A n, m \in Node : \A x : Queued(n, m, x) => Genuine(x)
    /\ \A n, m \in Node : rest[n][m] # Idle =>
         /\ rest[n][m].step \in {"forward", "deliver"}
         /\ \A x : x = rest[n][m].message => Genuine(x)
    /\ \A n \in Node, t \in Thread : call[n][t] # Idle =>
         /\ call[n][t].step \in {"send", "deliver"} /\ call[n][t].message.source = n
         /\ \A x : x = call[n][t].message => Genuine(x)
    /\ \A n \in Node : \A x : Got(n, x) => Genuine(x)
    /\ \A n, s \in Node : mSequences[n][s] # NoSequence =>
         \E l \in DOMAIN sent[s] : mSequences[n][s] = sent[s][l].sequence

SentInv == TypeOK /\ (\A s \in Node : InRow(s)) /\ MessagesAreSent

-----------------------------------------------------------------------------
LEMMA AppendFacts ==
  ASSUME NEW S, NEW s \in Seq(S), NEW x \in S
  PROVE  /\ Append(s, x) \in Seq(S) /\ Len(s) \in Nat
         /\ DOMAIN s = 1..Len(s) /\ DOMAIN Append(s, x) = 1..(Len(s) + 1)
         /\ Len(Append(s, x)) = Len(s) + 1
         /\ \A i \in 1..Len(s) : Append(s, x)[i] = s[i] /\ i \in 1..(Len(s) + 1)
         /\ Append(s, x)[Len(s) + 1] = x /\ Len(s) + 1 \in 1..(Len(s) + 1)
         /\ \A i \in 1..(Len(s) + 1) : i \in 1..Len(s) \/ i = Len(s) + 1
  OBVIOUS

LEMMA TailFacts ==
  ASSUME NEW S, NEW s \in Seq(S), s # << >>
  PROVE  /\ Tail(s) \in Seq(S) /\ Head(s) \in S /\ Head(s) = s[1]
         /\ Len(s) \in Nat /\ DOMAIN s = 1..Len(s)
         /\ 1 \in DOMAIN s /\ DOMAIN Tail(s) = 1..(Len(s) - 1)
         /\ \A i \in DOMAIN Tail(s) :
              i \in Nat /\ i >= 1 /\ i + 1 \in DOMAIN s /\ Tail(s)[i] = s[i + 1]
         /\ \A i \in DOMAIN s : i = 1 \/ (i - 1 \in DOMAIN Tail(s) /\ Tail(s)[i - 1] = s[i])
  OBVIOUS

LEMMA RangeFacts ==
  /\ SeqMod \in Nat /\ HalfRange \in Nat /\ 2 * HalfRange <= SeqMod - 1
  /\ \A n \in Node : Budget[n] \in Nat /\ Budget[n] <= HalfRange
<1>1. SeqMod \in Nat /\ HalfRange \in Nat /\ 2 * HalfRange <= SeqMod - 1
  BY SeqModAssumption DEF HalfRange
<1>. QED BY <1>1, TransportAssumption

(* Of two numbers that are less than half the range apart, one is newer.   *)
LEMMA CompareInRow ==
  ASSUME NEW q \in Sequence, NEW r \in Sequence, NEW d \in Nat, d < HalfRange,
         Sub(r, q) = d
  PROVE  /\ compare_sequence(r, q) > 0 <=> d > 0
         /\ ~ compare_sequence(q, r) > 0
         /\ q = r <=> d = 0
<1>1. /\ SeqMod \in Nat /\ HalfRange \in Nat /\ 2 * HalfRange <= SeqMod - 1
      /\ q \in 0 .. SeqMod - 1 /\ r \in 0 .. SeqMod - 1
  BY RangeFacts DEF Sequence
<1>. QED BY <1>1 DEF Sub, compare_sequence

LEMMA IncFacts ==
  ASSUME NEW q \in Sequence
  PROVE  /\ Inc(q) \in Sequence /\ Sub(q, q) = 0
         /\ \A r \in Sequence : Sub(q, r) < SeqMod - 1 => Sub(Inc(q), r) = Sub(q, r) + 1
<1>1. SeqMod \in Nat /\ SeqMod >= 6 /\ Sequence = 0 .. SeqMod - 1
  BY SeqModAssumption DEF Sequence
<1>. QED BY <1>1 DEF Inc, Sub

LEMMA RestFacts ==
  /\ Idle \in Rest /\ Idle.step = "idle"
  /\ \A r \in Rest : r = Idle \/ (r.step \in {"send", "forward", "deliver"}
                                   /\ r.message \in Message /\ r # Idle)
  /\ \A step \in {"send", "forward", "deliver"}, x \in Message :
       /\ Then(step, x) \in Rest /\ Then(step, x) # Idle
       /\ Then(step, x).step = step /\ Then(step, x).message = x
  /\ \A r \in Rest \ {Idle} : r.step # "idle" /\
       [r EXCEPT !.step = "deliver"] = Then("deliver", r.message)
<1>1. ASSUME NEW r \in [step : {"send", "forward", "deliver"}, message : Message]
      PROVE  r.step # "idle" /\ r # Idle /\ [r EXCEPT !.step = "deliver"] = Then("deliver", r.message)
  BY DEF Idle, Then
<1>2. ASSUME NEW step \in {"send", "forward", "deliver"}, NEW x \in Message
      PROVE  /\ Then(step, x) \in [step : {"send", "forward", "deliver"}, message : Message]
             /\ Then(step, x).step = step /\ Then(step, x).message = x
  BY DEF Then
<1>. QED BY <1>1, <1>2 DEF Rest, Idle

-----------------------------------------------------------------------------
LEMMA RowFacts ==
  ASSUME SentInv, NEW s \in Node
  PROVE  /\ sent[s] \in Seq(Message) /\ Len(sent[s]) \in Nat
         /\ DOMAIN sent[s] = 1..Len(sent[s]) /\ Len(sent[s]) <= HalfRange
         /\ \A k \in DOMAIN sent[s] : /\ k \in Nat /\ sent[s][k] \in Message
                                      /\ sent[s][k].sequence \in Sequence
                                      /\ Genuine(sent[s][k])
<1>1. sent[s] \in Seq(Message)
  BY DEF SentInv, TypeOK
<1>2. Len(sent[s]) \in Nat /\ DOMAIN sent[s] = 1..Len(sent[s])
      /\ \A k \in DOMAIN sent[s] : sent[s][k] \in Message
  BY <1>1
<1>3. Len(sent[s]) <= HalfRange
  BY <1>2, RangeFacts DEF SentInv, InRow
<1>4. \A x \in Message : x.sequence \in Sequence
  BY DEF Message
<1>5. \A k \in DOMAIN sent[s] : sent[s][k].source = s /\ sent[s][k].number = k
  BY DEF SentInv, InRow
<1>. QED BY <1>1, <1>2, <1>3, <1>4, <1>5 DEF Genuine

(* The comparison of the sequence numbers of two messages of a source is   *)
(* that of their places in the row.                                        *)
LEMMA CompareSent ==
  ASSUME SentInv, NEW s \in Node, NEW k \in DOMAIN sent[s], NEW l \in DOMAIN sent[s]
  PROVE  /\ compare_sequence(sent[s][k].sequence, sent[s][l].sequence) > 0 <=> k > l
         /\ sent[s][k].sequence = sent[s][l].sequence <=> k = l
<1>1. /\ k \in Nat /\ l \in Nat /\ k >= 1 /\ l >= 1 /\ k <= HalfRange /\ l <= HalfRange
      /\ sent[s][k].sequence \in Sequence /\ sent[s][l].sequence \in Sequence
      /\ HalfRange \in Nat
  BY RowFacts, RangeFacts
<1>2. CASE k <= l
  <2>. DEFINE d == l - k
  <2>1. d \in Nat /\ d < HalfRange /\ (d > 0 <=> l > k) /\ (d = 0 <=> k = l)
    BY <1>1, <1>2
  <2>2. Sub(sent[s][l].sequence, sent[s][k].sequence) = d
    BY <1>2 DEF SentInv, InRow
  <2>. HIDE DEF d
  <2>. QED BY <1>1, <1>2, <2>1, <2>2, CompareInRow
<1>3. CASE l <= k
  <2>. DEFINE d == k - l
  <2>1. d \in Nat /\ d < HalfRange /\ (d > 0 <=> k > l) /\ (d = 0 <=> k = l)
    BY <1>1, <1>3
  <2>2. Sub(sent[s][k].sequence, sent[s][l].sequence) = d
    BY <1>3 DEF SentInv, InRow
  <2>. HIDE DEF d
  <2>. QED BY <1>1, <1>3, <2>1, <2>2, CompareInRow
<1>. QED BY <1>1, <1>2, <1>3

(* checkSequence accepts a message exactly if that one and all newer ones  *)
(* of its source have not been accepted.                                   *)
LEMMA CheckSequenceFacts ==
  ASSUME SentInv, NEW n \in Node, NEW x, Genuine(x)
  PROVE  checkSequence(n, x) <=> ~ Covers(n, x.source, x.number)
<1>. DEFINE s == x.source
            k == x.number
            last == mSequences[n][s]
<1>1. s \in Node /\ k \in DOMAIN sent[s] /\ x.sequence = sent[s][k].sequence
  BY DEF Genuine, Message
<1>2. \A l \in DOMAIN sent[s] : sent[s][l].sequence # NoSequence /\ l \in Nat
  BY <1>1, RowFacts, TransportAssumption
<1>3. CASE last = NoSequence
  BY <1>2, <1>3 DEF checkSequence, Covers
<1>4. CASE last # NoSequence
  <2>1. PICK l \in DOMAIN sent[s] : last = sent[s][l].sequence
    BY <1>1, <1>4 DEF SentInv, MessagesAreSent
  <2>2. checkSequence(n, x) <=> k > l
    BY <1>1, <1>4, <2>1, CompareSent DEF checkSequence
  <2>3. \A j \in DOMAIN sent[s] : last = sent[s][j].sequence <=> j = l
    BY <1>1, <2>1, CompareSent
  <2>4. Covers(n, s, k) <=> l >= k
    BY <2>1, <2>3 DEF Covers
  <2>. QED BY <1>1, <1>2, <2>1, <2>2, <2>4
<1>. QED BY <1>3, <1>4

(* What n refuses once it has accepted x.                                  *)
LEMMA RecordFacts ==
  ASSUME SentInv, NEW n \in Node, NEW x, Genuine(x), checkSequence(n, x),
         Record(n, x), UNCHANGED sent
  PROVE  /\ mSequences' \in [Node -> [Node -> Sequence \cup {NoSequence}]]
         /\ mSequences'[n][x.source] = sent[x.source][x.number].sequence
         /\ \A m, s \in Node : <<m, s>> # <<n, x.source>> =>
              mSequences'[m][s] = mSequences[m][s]
         /\ \A m, s \in Node, k \in Nat : Covers(m, s, k) => Covers(m, s, k)'
         /\ \A m, s \in Node, k \in Nat : <<m, s>> # <<n, x.source>> =>
              (Covers(m, s, k)' <=> Covers(m, s, k))
         /\ \A k \in Nat : Covers(n, x.source, k)' <=> k <= x.number
         /\ \A k \in Nat : Covers(n, x.source, k) => k < x.number
<1>. DEFINE s == x.source
            number == x.number
<1>1. s \in Node /\ number \in DOMAIN sent[s] /\ x.sequence = sent[s][number].sequence
      /\ x.sequence \in Sequence
  BY DEF Genuine, Message
<1>2. mSequences \in [Node -> [Node -> Sequence \cup {NoSequence}]]
  BY DEF SentInv, TypeOK
<1>3. mSequences' = [mSequences EXCEPT ![n][s] = x.sequence]
  BY DEF Record
<1>4. number \in Nat /\ \A l \in DOMAIN sent[s] : l \in Nat
  BY <1>1, RowFacts
<1>5. ~ Covers(n, s, number)
  BY CheckSequenceFacts
<1>. HIDE DEF s, number
<1>6. /\ mSequences' \in [Node -> [Node -> Sequence \cup {NoSequence}]]
      /\ mSequences'[n][s] = sent[s][number].sequence
      /\ \A m, r \in Node : <<m, r>> # <<n, s>> => mSequences'[m][r] = mSequences[m][r]
  BY <1>1, <1>2, <1>3
<1>7. \A m, r \in Node, k \in Nat : <<m, r>> # <<n, s>> => (Covers(m, r, k)' <=> Covers(m, r, k))
  BY <1>6 DEF Covers
<1>8. \A j \in DOMAIN sent[s] : sent[s][number].sequence = sent[s][j].sequence <=> j = number
  BY <1>1, CompareSent
<1>9. \A k \in Nat : Covers(n, s, k)' <=> k <= number
  BY <1>1, <1>4, <1>6, <1>8 DEF Covers
<1>10. \A k \in Nat : Covers(n, s, k) => k < number
  <2>. SUFFICES ASSUME NEW k \in Nat, Covers(n, s, k), k >= number PROVE FALSE
    BY <1>4
  <2>1. PICK l \in DOMAIN sent[s] : l >= k /\ mSequences[n][s] = sent[s][l].sequence
    BY DEF Covers
  <2>2. l >= number
    BY <1>4, <2>1
  <2>. QED BY <1>5, <2>1, <2>2 DEF Covers
<1>11. \A m, r \in Node, k \in Nat : Covers(m, r, k) => Covers(m, r, k)'
  BY <1>4, <1>7, <1>9, <1>10
<1>. QED BY <1>6, <1>7, <1>9, <1>10, <1>11 DEF s, number

-----------------------------------------------------------------------------
(* A new message comes last in the row of its source, and nobody has       *)
(* accepted it.                                                            *)
LEMMA TakeSequenceFacts ==
  ASSUME SentInv, NEW n \in Node, NEW t \in Thread,
         NEW destination \in Node \cup {Everyone}, TakeSequence(n, t, destination),
         NEW y, y = [source |-> n, destination |-> destination,
                     sequence |-> mSendSequence[n], number |-> Len(sent[n]) + 1]
  PROVE  /\ SentInv'
         /\ Genuine(y)' /\ ~ Genuine(y)
         /\ \A x : Genuine(x) => Genuine(x)'
         /\ \A x : Genuine(x)' => Genuine(x) \/ x = y
         /\ \A m, s \in Node, k \in Nat : Covers(m, s, k)' <=> Covers(m, s, k)
         /\ call[n][t] = Idle /\ call'[n][t] = Then("send", y)
         /\ \A m \in Node, u \in Thread :
              <<m, u>> # <<n, t>> => call'[m][u] = call[m][u]
<1>. DEFINE q == mSendSequence[n]
            k1 == Len(sent[n]) + 1
<1>1. TypeOK /\ q \in Sequence /\ sent[n] \in Seq(Message) /\ Len(sent[n]) \in Nat
  BY DEF SentInv, TypeOK
<1>2. y \in Message /\ y.source = n /\ y.sequence = q /\ y.number = k1
  BY <1>1 DEF Message
<1>3. /\ mSendSequence' = [mSendSequence EXCEPT ![n] = Inc(@)]
      /\ sent' = [sent EXCEPT ![n] = Append(@, y)]
      /\ call' = [call EXCEPT ![n][t] = Then("send", y)]
      /\ UNCHANGED <<mSequences, net, rest, received>>
      /\ call[n][t] = Idle /\ Len(sent[n]) < Budget[n]
  BY DEF TakeSequence
<1>4. Append(sent[n], y) \in Seq(Message) /\ Inc(q) \in Sequence
  BY <1>1, <1>2, AppendFacts, IncFacts
<1>5. /\ sent' \in [Node -> Seq(Message)] /\ sent'[n] = Append(sent[n], y)
      /\ \A m \in Node : m # n => sent'[m] = sent[m]
  BY <1>1, <1>3, <1>4 DEF TypeOK
<1>6. /\ mSendSequence' \in [Node -> Sequence] /\ mSendSequence'[n] = Inc(q)
      /\ \A m \in Node : m # n => mSendSequence'[m] = mSendSequence[m]
  BY <1>1, <1>3, <1>4 DEF TypeOK
<1>7. /\ call' \in [Node -> [Thread -> Rest]] /\ call'[n][t] = Then("send", y)
      /\ \A m \in Node, u \in Thread : <<m, u>> # <<n, t>> => call'[m][u] = call[m][u]
  BY <1>1, <1>2, <1>3, RestFacts DEF TypeOK
<1>8. TypeOK'
  BY <1>1, <1>3, <1>5, <1>6, <1>7 DEF TypeOK
<1>9. /\ k1 \in Nat /\ Len(sent'[n]) = k1 /\ k1 <= Budget[n]
      /\ DOMAIN sent[n] = 1..Len(sent[n]) /\ DOMAIN sent'[n] = 1..k1 /\ k1 \in 1..k1
      /\ \A k \in DOMAIN sent[n] : sent'[n][k] = sent[n][k] /\ k \in DOMAIN sent'[n]
      /\ sent'[n][k1] = y
      /\ \A k \in 1..k1 : k \in DOMAIN sent[n] \/ k = k1
  BY <1>1, <1>2, <1>3, <1>5, AppendFacts, RangeFacts
<1>. HIDE DEF q, k1
<1>10. \A k \in DOMAIN sent[n] :
         /\ k \in Nat /\ k >= 1 /\ k < k1 /\ sent[n][k].sequence \in Sequence
         /\ Sub(q, sent[n][k].sequence) = k1 - k
         /\ sent[n][k].sequence # q
  <2>1. k1 = Len(sent[n]) + 1 /\ q = mSendSequence[n]
    BY DEF k1, q
  <2>. SUFFICES ASSUME NEW k \in DOMAIN sent[n]
                PROVE  /\ k \in Nat /\ k >= 1 /\ k < k1 /\ sent[n][k].sequence \in Sequence
                       /\ Sub(q, sent[n][k].sequence) = k1 - k
                       /\ sent[n][k].sequence # q
    OBVIOUS
  <2>2. k \in Nat /\ k >= 1 /\ k < k1 /\ sent[n][k].sequence \in Sequence
    BY <1>1, <1>9, <2>1, RowFacts
  <2>3. Sub(q, sent[n][k].sequence) = k1 - k
    BY <1>1, <2>1 DEF SentInv, InRow
  <2>4. Sub(q, q) = 0
    BY <1>1, IncFacts
  <2>. QED BY <1>9, <2>2, <2>3, <2>4
<1>11. InRow(n)'
  <2>1. \A k \in DOMAIN sent'[n] :
          /\ sent'[n][k].source = n /\ sent'[n][k].number = k
          /\ Sub(Inc(q), sent'[n][k].sequence) = k1 + 1 - k
    <3>. SUFFICES ASSUME NEW k \in 1..k1
                  PROVE  /\ sent'[n][k].source = n /\ sent'[n][k].number = k
                         /\ Sub(Inc(q), sent'[n][k].sequence) = k1 + 1 - k
      BY <1>9
    <3>0. k1 <= HalfRange /\ HalfRange \in Nat /\ 2 * HalfRange <= SeqMod - 1 /\ SeqMod \in Nat
          /\ SeqMod >= 6 /\ Budget[n] \in Nat
      BY <1>9, RangeFacts, SeqModAssumption
    <3>1. CASE k \in DOMAIN sent[n]
      <4>1. sent[n][k].source = n /\ sent[n][k].number = k
        BY <3>1 DEF SentInv, InRow
      <4>2. k1 - k < SeqMod - 1
        BY <1>9, <1>10, <3>0, <3>1
      <4>3. Sub(Inc(q), sent[n][k].sequence) = k1 - k + 1
        BY <1>1, <1>10, <3>1, <4>2, IncFacts
      <4>4. k1 - k + 1 = k1 + 1 - k
        BY <1>9, <1>10, <3>1
      <4>. QED BY <1>9, <3>1, <4>1, <4>3, <4>4
    <3>2. CASE k = k1
      <4>1. Sub(q, q) = 0 /\ 0 < SeqMod - 1
        BY <1>1, <3>0, IncFacts
      <4>2. Sub(Inc(q), q) = 0 + 1
        BY <1>1, <4>1, IncFacts
      <4>3. k1 + 1 - k1 = 1
        BY <1>9
      <4>. QED BY <1>2, <1>9, <3>2, <4>2, <4>3
    <3>. QED BY <1>9, <3>1, <3>2
  <2>2. ASSUME NEW k \in DOMAIN sent'[n], NEW l \in DOMAIN sent'[n], k <= l
        PROVE  Sub(sent'[n][l].sequence, sent'[n][k].sequence) = l - k
    <3>1. CASE l \in DOMAIN sent[n]
      <4>1. k \in DOMAIN sent[n]
        BY <1>9, <1>10, <2>2, <3>1
      <4>2. Sub(sent[n][l].sequence, sent[n][k].sequence) = l - k
        BY <2>2, <3>1, <4>1 DEF SentInv, InRow
      <4>3. sent'[n][l] = sent[n][l] /\ sent'[n][k] = sent[n][k]
        BY <1>9, <3>1, <4>1
      <4>. QED BY <4>2, <4>3
    <3>2. CASE l = k1 /\ k \in DOMAIN sent[n]
      BY <1>2, <1>9, <1>10, <3>2
    <3>3. CASE l = k1 /\ k = k1
      <4>1. Sub(q, q) = 0 /\ k1 - k1 = 0
        BY <1>1, <1>9, IncFacts
      <4>. QED BY <1>2, <1>9, <3>3, <4>1
    <3>. QED BY <1>9, <3>1, <3>2, <3>3
  <2>. QED BY <1>3, <1>6, <1>9, <2>1, <2>2 DEF InRow
<1>12. \A s \in Node : InRow(s)'
  <2>. SUFFICES ASSUME NEW s \in Node, s # n PROVE InRow(s)'
    BY <1>11
  <2>1. sent'[s] = sent[s] /\ mSendSequence'[s] = mSendSequence[s]
    BY <1>5, <1>6
  <2>2. InRow(s)
    BY DEF SentInv
  <2>. QED BY <2>1, <2>2 DEF InRow
<1>13. \A x : Genuine(x) => Genuine(x)'
  <2>. SUFFICES ASSUME NEW x, Genuine(x) PROVE Genuine(x)'
    OBVIOUS
  <2>1. x.source \in Node
    BY DEF Genuine, Message
  <2>. QED BY <1>5, <1>9, <2>1 DEF Genuine
<1>14. Genuine(y)' /\ ~ Genuine(y)
  BY <1>2, <1>9, <1>10 DEF Genuine
<1>15. \A x : Genuine(x)' => Genuine(x) \/ x = y
  <2>. SUFFICES ASSUME NEW x, Genuine(x)' PROVE Genuine(x) \/ x = y
    OBVIOUS
  <2>1. x.source \in Node
    BY DEF Genuine, Message
  <2>. QED BY <1>5, <1>9, <2>1 DEF Genuine
<1>16. MessagesAreSent'
  <2>1. ASSUME NEW m \in Node, NEW s \in Node, mSequences[m][s] # NoSequence
        PROVE  \E l \in DOMAIN sent'[s] : mSequences[m][s] = sent'[s][l].sequence
    <3>1. PICK l \in DOMAIN sent[s] : mSequences[m][s] = sent[s][l].sequence
      BY <2>1 DEF SentInv, MessagesAreSent
    <3>2. l \in DOMAIN sent'[s] /\ sent'[s][l] = sent[s][l]
      BY <1>5, <1>9
    <3>. QED BY <3>1, <3>2
  <2>2. ASSUME NEW m \in Node, NEW u \in Thread, call'[m][u] # Idle
        PROVE  /\ call'[m][u].step \in {"send", "deliver"} /\ call'[m][u].message.source = m
               /\ \A x : x = call'[m][u].message => Genuine(x)'
    <3>1. CASE <<m, u>> = <<n, t>>
      <4>1. call'[m][u] = Then("send", y) /\ m = n
        BY <1>7, <3>1
      <4>2. Then("send", y).step = "send" /\ Then("send", y).message = y
        BY <1>2, RestFacts
      <4>. QED BY <1>2, <1>14, <4>1, <4>2
    <3>2. CASE <<m, u>> # <<n, t>>
      <4>1. call'[m][u] = call[m][u]
        BY <1>7, <3>2
      <4>2. /\ call[m][u].step \in {"send", "deliver"} /\ call[m][u].message.source = m
            /\ \A x : x = call[m][u].message => Genuine(x)
        BY <2>2, <4>1 DEF SentInv, MessagesAreSent
      <4>. QED BY <1>13, <4>1, <4>2
    <3>. QED BY <3>1, <3>2
  <2>3. \A m, o \in Node : \A x : Queued(m, o, x)' => Genuine(x)'
    BY <1>3, <1>13 DEF SentInv, MessagesAreSent, Queued
  <2>4. \A m, o \in Node : rest'[m][o] # Idle =>
          /\ rest'[m][o].step \in {"forward", "deliver"}
          /\ \A x : x = rest'[m][o].message => Genuine(x)'
    BY <1>3, <1>13 DEF SentInv, MessagesAreSent
  <2>5. \A m \in Node : \A x : Got(m, x)' => Genuine(x)'
    BY <1>3, <1>13 DEF SentInv, MessagesAreSent, Got
  <2>. QED BY <1>3, <2>1, <2>2, <2>3, <2>4, <2>5 DEF MessagesAreSent
<1>17. \A m, s \in Node, k \in Nat : Covers(m, s, k)' <=> Covers(m, s, k)
  <2>. SUFFICES ASSUME NEW m \in Node, NEW s \in Node, NEW k \in Nat
                PROVE  Covers(m, s, k)' <=> Covers(m, s, k)
    OBVIOUS
  <2>1. CASE s # n
    BY <1>3, <1>5, <2>1 DEF Covers
  <2>2. CASE s = n
    <3>1. mSequences[m][n] # q
      <4>1. CASE mSequences[m][n] = NoSequence
        BY <1>1, <4>1, TransportAssumption
      <4>2. CASE mSequences[m][n] # NoSequence
        BY <1>10, <4>2 DEF SentInv, MessagesAreSent
      <4>. QED BY <4>1, <4>2
    <3>2. \A l \in 1..k1 : mSequences[m][n] = sent'[n][l].sequence =>
            l \in DOMAIN sent[n] /\ sent'[n][l] = sent[n][l]
      BY <1>2, <1>9, <3>1
    <3>. QED BY <1>3, <1>9, <2>2, <3>2 DEF Covers
  <2>. QED BY <2>1, <2>2
<1>. QED BY <1>3, <1>7, <1>8, <1>12, <1>13, <1>14, <1>15, <1>16, <1>17 DEF SentInv

(* A step that moves one message, and numbers none.                        *)
LEMMA MessagesStay ==
  ASSUME SentInv, TypeOK', UNCHANGED <<mSendSequence, sent>>, NEW x, Genuine(x),
         \A n, m \in Node : \A z : Queued(n, m, z)' => Queued(n, m, z) \/ z = x,
         \A n, m \in Node : rest'[n][m] \in {rest[n][m], Idle, Then("forward", x),
                                             Then("deliver", x)},
         \A n \in Node, t \in Thread :
           \/ call'[n][t] \in {call[n][t], Idle}
           \/ call'[n][t] = Then("deliver", x) /\ x.source = n,
         \A n \in Node : \A z : Got(n, z)' => Got(n, z) \/ z = x,
         \A n, s \in Node : \/ mSequences'[n][s] = mSequences[n][s]
                            \/ s = x.source /\ mSequences'[n][s] = x.sequence
  PROVE  SentInv'
<1>1. \A z : Genuine(z)' <=> Genuine(z)
  BY DEF Genuine
<1>2. \A s \in Node : InRow(s)'
  BY DEF SentInv, InRow
<1>3. x \in Message /\ x.number \in DOMAIN sent[x.source]
      /\ x.sequence = sent[x.source][x.number].sequence
  BY DEF Genuine
<1>4. \A step \in {"forward", "deliver"} :
        Then(step, x).step = step /\ Then(step, x).message = x
  BY <1>3, RestFacts
<1>5. \A n, m \in Node : \A z : Queued(n, m, z)' => Genuine(z)'
  BY <1>1 DEF SentInv, MessagesAreSent
<1>6. \A n \in Node : \A z : Got(n, z)' => Genuine(z)'
  BY <1>1 DEF SentInv, MessagesAreSent
<1>7. ASSUME NEW n \in Node, NEW m \in Node, rest'[n][m] # Idle
      PROVE  /\ rest'[n][m].step \in {"forward", "deliver"}
             /\ \A z : z = rest'[n][m].message => Genuine(z)'
  <2>1. CASE rest'[n][m] = rest[n][m]
    BY <1>1, <1>7, <2>1 DEF SentInv, MessagesAreSent
  <2>2. CASE rest'[n][m] \in {Then("forward", x), Then("deliver", x)}
    BY <1>1, <1>4, <2>2
  <2>. QED BY <1>7, <2>1, <2>2
<1>8. ASSUME NEW n \in Node, NEW t \in Thread, call'[n][t] # Idle
      PROVE  /\ call'[n][t].step \in {"send", "deliver"} /\ call'[n][t].message.source = n
             /\ \A z : z = call'[n][t].message => Genuine(z)'
  <2>1. CASE call'[n][t] = call[n][t]
    BY <1>1, <1>8, <2>1 DEF SentInv, MessagesAreSent
  <2>2. CASE call'[n][t] = Then("deliver", x) /\ x.source = n
    BY <1>1, <1>4, <2>2
  <2>. QED BY <1>8, <2>1, <2>2
<1>9. ASSUME NEW n \in Node, NEW s \in Node, mSequences'[n][s] # NoSequence
      PROVE  \E l \in DOMAIN sent'[s] : mSequences'[n][s] = sent'[s][l].sequence
  <2>1. CASE mSequences'[n][s] = mSequences[n][s]
    BY <1>9, <2>1 DEF SentInv, MessagesAreSent
  <2>2. CASE s = x.source /\ mSequences'[n][s] = x.sequence
    BY <1>3, <2>2
  <2>. QED BY <2>1, <2>2
<1>. QED BY <1>2, <1>5, <1>6, <1>7, <1>8, <1>9 DEF SentInv, MessagesAreSent

(* Routing::broadcast and Routing::route.                                  *)
LEMMA SentFacts ==
  ASSUME TypeOK, NEW n \in Node, NEW from, NEW x \in Message, net' = Sent(n, x, from)
  PROVE  /\ net' \in [Node -> [Node -> Seq(Message)]]
         /\ \A m \in Targets(n, x, from) : m \in Node /\ net'[m][n] = Append(net[m][n], x)
         /\ \A m, o \in Node : ~ (o = n /\ m \in Targets(n, x, from)) =>
              net'[m][o] = net[m][o]
         /\ \A m, o \in Node : \A z :
              Queued(m, o, z)' <=> \/ Queued(m, o, z)
                                   \/ o = n /\ m \in Targets(n, x, from) /\ z = x
<1>1. net \in [Node -> [Node -> Seq(Message)]]
  BY DEF TypeOK
<1>2. \A m, o \in Node : net[m][o] \in Seq(Message) /\ Append(net[m][o], x) \in Seq(Message)
  BY <1>1
<1>3. Targets(n, x, from) \subseteq Node
  BY DEF Targets, Neighbors
<1>4. \A m \in Node : net'[m] = IF m \in Targets(n, x, from)
                                THEN [net[m] EXCEPT ![n] = Append(net[m][n], x)]
                                ELSE net[m]
  BY DEF Sent
<1>5. DOMAIN net' = Node /\ net' = [m \in Node |-> net'[m]]
  BY DEF Sent
<1>6. \A m \in Node : net'[m] \in [Node -> Seq(Message)]
  <2>. SUFFICES ASSUME NEW m \in Node PROVE net'[m] \in [Node -> Seq(Message)]
    OBVIOUS
  <2>. DEFINE row == net[m]
              new == Append(net[m][n], x)
  <2>1. row \in [Node -> Seq(Message)] /\ new \in Seq(Message)
    BY <1>1, <1>2
  <2>2. net'[m] = [row EXCEPT ![n] = new] \/ net'[m] = row
    BY <1>4
  <2>. HIDE DEF row, new
  <2>. QED BY <2>1, <2>2
<1>7. net' \in [Node -> [Node -> Seq(Message)]]
  BY <1>5, <1>6
<1>8. \A m, o \in Node : net'[m][o] = IF o = n /\ m \in Targets(n, x, from)
                                      THEN Append(net[m][o], x) ELSE net[m][o]
  BY <1>1, <1>4
<1>9. ASSUME NEW m \in Node, NEW o \in Node, NEW z
      PROVE  Queued(m, o, z)' <=> \/ Queued(m, o, z)
                                  \/ o = n /\ m \in Targets(n, x, from) /\ z = x
  <2>1. CASE o = n /\ m \in Targets(n, x, from)
    <3>. DEFINE s == net[m][o]
    <3>1. s \in Seq(Message) /\ net'[m][o] = Append(s, x)
      BY <1>2, <1>8, <2>1
    <3>. HIDE DEF s
    <3>2. (\E i \in DOMAIN Append(s, x) : Append(s, x)[i] = z)
            <=> (\E i \in DOMAIN s : s[i] = z) \/ z = x
      BY <3>1, AppendFacts
    <3>. QED BY <2>1, <3>1, <3>2 DEF Queued, s
  <2>2. CASE ~ (o = n /\ m \in Targets(n, x, from))
    BY <1>8, <2>2 DEF Queued
  <2>. QED BY <2>1, <2>2
<1>. QED BY <1>3, <1>7, <1>8, <1>9

(* A message is appended to those that a node has received.                *)
LEMMA ReceivedFacts ==
  ASSUME TypeOK, NEW n \in Node, NEW x \in Message,
         received' = [received EXCEPT ![n] = Append(@, x)]
  PROVE  /\ received' \in [Node -> Seq(Message)]
         /\ received'[n] = Append(received[n], x)
         /\ \A m \in Node : m # n => received'[m] = received[m]
         /\ \A m \in Node : \A z : Got(m, z)' <=> Got(m, z) \/ (m = n /\ z = x)
<1>1. received[n] \in Seq(Message)
  BY DEF TypeOK
<1>2. /\ received' \in [Node -> Seq(Message)]
      /\ received'[n] = Append(received[n], x)
      /\ \A m \in Node : m # n => received'[m] = received[m]
  BY <1>1 DEF TypeOK
<1>. DEFINE s == received[n]
<1>3. \A z : (\E i \in DOMAIN Append(s, x) : Append(s, x)[i] = z)
               <=> (\E i \in DOMAIN s : s[i] = z) \/ z = x
  BY <1>1, AppendFacts
<1>. QED BY <1>2, <1>3 DEF Got

-----------------------------------------------------------------------------
(* What each step does to the places of the message that it moves.         *)
LEMMA SendStep ==
  ASSUME SentInv, NEW n \in Node, NEW t \in Thread, Send(n, t),
         NEW x, x = call[n][t].message
  PROVE  /\ SentInv' /\ Called(n, t, "send", x) /\ Genuine(x) /\ x.source = n
         /\ call[n][t] # Idle /\ call'[n][t] = Idle
         /\ \A m \in Node, u \in Thread :
              <<m, u>> # <<n, t>> => call'[m][u] = call[m][u]
         /\ \A m \in Targets(n, x, n) : m \in Node /\ net'[m][n] = Append(net[m][n], x)
         /\ \A m, o \in Node : ~ (o = n /\ m \in Targets(n, x, n)) =>
              net'[m][o] = net[m][o]
         /\ \A m, o \in Node : \A z :
              Queued(m, o, z)' <=> \/ Queued(m, o, z)
                                   \/ o = n /\ m \in Targets(n, x, n) /\ z = x
         /\ UNCHANGED <<mSendSequence, mSequences, rest, sent, received>>
<1>1. TypeOK /\ call[n][t] \in Rest /\ call[n][t].step = "send"
  BY DEF SentInv, TypeOK, Send
<1>2. call[n][t] # Idle
  BY <1>1, RestFacts
<1>3. Genuine(x) /\ x.source = n /\ x \in Message
  BY <1>2 DEF SentInv, MessagesAreSent, Genuine
<1>4. /\ net' = Sent(n, x, n) /\ call' = [call EXCEPT ![n][t] = Idle]
      /\ UNCHANGED <<mSendSequence, mSequences, rest, sent, received>>
  BY DEF Send
<1>5. /\ call' \in [Node -> [Thread -> Rest]] /\ call'[n][t] = Idle
      /\ \A m \in Node, u \in Thread : <<m, u>> # <<n, t>> => call'[m][u] = call[m][u]
  BY <1>1, <1>4, RestFacts DEF TypeOK
<1>6. /\ net' \in [Node -> [Node -> Seq(Message)]]
      /\ \A m \in Targets(n, x, n) : m \in Node /\ net'[m][n] = Append(net[m][n], x)
      /\ \A m, o \in Node : ~ (o = n /\ m \in Targets(n, x, n)) => net'[m][o] = net[m][o]
      /\ \A m, o \in Node : \A z :
           Queued(m, o, z)' <=> \/ Queued(m, o, z)
                                \/ o = n /\ m \in Targets(n, x, n) /\ z = x
  <2>1. TypeOK /\ x \in Message /\ net' = Sent(n, x, n)
    BY <1>1, <1>3, <1>4
  <2>. QED BY ONLY <2>1, SentFacts
<1>7. TypeOK'
  BY <1>1, <1>4, <1>5, <1>6 DEF TypeOK
<1>8. \A m \in Node : \A z : Got(m, z)' => Got(m, z)
  BY <1>4 DEF Got
<1>9. SentInv'
  <2>1. \A m \in Node, u \in Thread : call'[m][u] \in {call[m][u], Idle}
    BY <1>5
  <2>2. \A m, o \in Node : rest'[m][o] = rest[m][o] /\ mSequences'[m][o] = mSequences[m][o]
    BY <1>4
  <2>3. \A m, o \in Node : \A z : Queued(m, o, z)' => Queued(m, o, z) \/ z = x
    BY <1>6
  <2>. QED BY <1>3, <1>4, <1>7, <1>8, <2>1, <2>2, <2>3, MessagesStay
<1>. QED BY <1>1, <1>2, <1>3, <1>4, <1>5, <1>6, <1>9 DEF Called

LEMMA ForwardStep ==
  ASSUME SentInv, NEW n \in Node, NEW f \in Node, Forward(n, f),
         NEW x, x = rest[n][f].message
  PROVE  /\ SentInv' /\ Handled(n, f, "forward", x) /\ Genuine(x)
         /\ rest[n][f] # Idle /\ rest'[n][f] = Then("deliver", x)
         /\ \A m, o \in Node : <<m, o>> # <<n, f>> => rest'[m][o] = rest[m][o]
         /\ \A m \in Targets(n, x, f) : m \in Node /\ net'[m][n] = Append(net[m][n], x)
         /\ \A m, o \in Node : ~ (o = n /\ m \in Targets(n, x, f)) =>
              net'[m][o] = net[m][o]
         /\ \A m, o \in Node : \A z :
              Queued(m, o, z)' <=> \/ Queued(m, o, z)
                                   \/ o = n /\ m \in Targets(n, x, f) /\ z = x
         /\ UNCHANGED <<mSendSequence, mSequences, call, sent, received>>
<1>1. TypeOK /\ rest[n][f] \in Rest /\ rest[n][f].step = "forward"
  BY DEF SentInv, TypeOK, Forward
<1>2. rest[n][f] # Idle
  BY <1>1, RestFacts
<1>3. Genuine(x) /\ x \in Message
  BY <1>2 DEF SentInv, MessagesAreSent, Genuine
<1>4. /\ net' = Sent(n, x, f) /\ rest' = [rest EXCEPT ![n][f].step = "deliver"]
      /\ UNCHANGED <<mSendSequence, mSequences, call, sent, received>>
  BY DEF Forward
<1>5. [rest[n][f] EXCEPT !.step = "deliver"] = Then("deliver", x)
      /\ Then("deliver", x) \in Rest
  BY <1>1, <1>2, <1>3, RestFacts
<1>6. /\ rest' \in [Node -> [Node -> Rest]] /\ rest'[n][f] = Then("deliver", x)
      /\ \A m, o \in Node : <<m, o>> # <<n, f>> => rest'[m][o] = rest[m][o]
  <2>1. rest' = [rest EXCEPT ![n] = [rest[n] EXCEPT ![f] = Then("deliver", x)]]
    BY <1>1, <1>4, <1>5 DEF TypeOK
  <2>. QED BY <1>1, <1>5, <2>1 DEF TypeOK
<1>7. /\ net' \in [Node -> [Node -> Seq(Message)]]
      /\ \A m \in Targets(n, x, f) : m \in Node /\ net'[m][n] = Append(net[m][n], x)
      /\ \A m, o \in Node : ~ (o = n /\ m \in Targets(n, x, f)) => net'[m][o] = net[m][o]
      /\ \A m, o \in Node : \A z :
           Queued(m, o, z)' <=> \/ Queued(m, o, z)
                                \/ o = n /\ m \in Targets(n, x, f) /\ z = x
  <2>1. net' = Sent(n, x, f)
    BY <1>4
  <2>. QED BY ONLY <1>1, <1>3, <2>1, n \in Node, SentFacts
<1>8. TypeOK'
  BY <1>1, <1>4, <1>6, <1>7 DEF TypeOK
<1>9. \A m \in Node : \A z : Got(m, z)' => Got(m, z)
  BY <1>4 DEF Got
<1>10. SentInv'
  <2>1. \A m, o \in Node : rest'[m][o] \in {rest[m][o], Then("deliver", x)}
    BY <1>6
  <2>2. /\ \A m \in Node, u \in Thread : call'[m][u] = call[m][u]
        /\ \A m, o \in Node : mSequences'[m][o] = mSequences[m][o]
    BY <1>4
  <2>3. \A m, o \in Node : \A z : Queued(m, o, z)' => Queued(m, o, z) \/ z = x
    BY <1>7
  <2>. QED BY <1>3, <1>4, <1>8, <1>9, <2>1, <2>2, <2>3, MessagesStay
<1>. QED BY <1>1, <1>2, <1>3, <1>4, <1>6, <1>7, <1>10 DEF Handled

LEMMA DeliverStep ==
  ASSUME SentInv, NEW n \in Node, NEW f \in Node, Deliver(n, f),
         NEW x, x = rest[n][f].message
  PROVE  /\ SentInv' /\ Handled(n, f, "deliver", x) /\ Genuine(x)
         /\ rest[n][f] # Idle /\ rest'[n][f] = Idle
         /\ \A m, o \in Node : <<m, o>> # <<n, f>> => rest'[m][o] = rest[m][o]
         /\ received'[n] = Append(received[n], x)
         /\ \A m \in Node : m # n => received'[m] = received[m]
         /\ \A m \in Node : \A z : Got(m, z)' <=> Got(m, z) \/ (m = n /\ z = x)
         /\ UNCHANGED <<mSendSequence, mSequences, net, call, sent>>
<1>1. TypeOK /\ rest[n][f] \in Rest /\ rest[n][f].step = "deliver"
  BY DEF SentInv, TypeOK, Deliver
<1>2. rest[n][f] # Idle
  BY <1>1, RestFacts
<1>3. Genuine(x) /\ x \in Message
  BY <1>2 DEF SentInv, MessagesAreSent, Genuine
<1>4. /\ received' = [received EXCEPT ![n] = Append(@, x)]
      /\ rest' = [rest EXCEPT ![n][f] = Idle]
      /\ UNCHANGED <<mSendSequence, mSequences, net, call, sent>>
  BY DEF Deliver
<1>5. /\ rest' \in [Node -> [Node -> Rest]] /\ rest'[n][f] = Idle
      /\ \A m, o \in Node : <<m, o>> # <<n, f>> => rest'[m][o] = rest[m][o]
  BY <1>1, <1>4, RestFacts DEF TypeOK
<1>6. /\ received' \in [Node -> Seq(Message)]
      /\ received'[n] = Append(received[n], x)
      /\ \A m \in Node : m # n => received'[m] = received[m]
      /\ \A m \in Node : \A z : Got(m, z)' <=> Got(m, z) \/ (m = n /\ z = x)
  <2>1. received' = [received EXCEPT ![n] = Append(@, x)]
    BY <1>4
  <2>. QED BY ONLY <1>1, <1>3, <2>1, n \in Node, ReceivedFacts
<1>7. TypeOK'
  BY <1>1, <1>4, <1>5, <1>6 DEF TypeOK
<1>8. \A m, o \in Node : \A z : Queued(m, o, z)' => Queued(m, o, z)
  BY <1>4 DEF Queued
<1>9. SentInv'
  BY <1>3, <1>4, <1>5, <1>6, <1>7, <1>8, MessagesStay
<1>. QED BY <1>1, <1>2, <1>3, <1>4, <1>5, <1>6, <1>9 DEF Handled

LEMMA DeliverToSelfStep ==
  ASSUME SentInv, NEW n \in Node, NEW t \in Thread, DeliverToSelf(n, t),
         NEW x, x = call[n][t].message
  PROVE  /\ SentInv' /\ Called(n, t, "deliver", x) /\ Genuine(x) /\ x.source = n
         /\ call[n][t] # Idle /\ call'[n][t] = Idle
         /\ \A m \in Node, u \in Thread :
              <<m, u>> # <<n, t>> => call'[m][u] = call[m][u]
         /\ received'[n] = Append(received[n], x)
         /\ \A m \in Node : m # n => received'[m] = received[m]
         /\ \A m \in Node : \A z : Got(m, z)' <=> Got(m, z) \/ (m = n /\ z = x)
         /\ UNCHANGED <<mSendSequence, mSequences, net, rest, sent>>
<1>1. TypeOK /\ call[n][t] \in Rest /\ call[n][t].step = "deliver"
  BY DEF SentInv, TypeOK, DeliverToSelf
<1>2. call[n][t] # Idle
  BY <1>1, RestFacts
<1>3. Genuine(x) /\ x.source = n /\ x \in Message
  BY <1>2 DEF SentInv, MessagesAreSent, Genuine
<1>4. /\ received' = [received EXCEPT ![n] = Append(@, x)]
      /\ call' = [call EXCEPT ![n][t] = Idle]
      /\ UNCHANGED <<mSendSequence, mSequences, net, rest, sent>>
  BY DEF DeliverToSelf
<1>5. /\ call' \in [Node -> [Thread -> Rest]] /\ call'[n][t] = Idle
      /\ \A m \in Node, u \in Thread : <<m, u>> # <<n, t>> => call'[m][u] = call[m][u]
  BY <1>1, <1>4, RestFacts DEF TypeOK
<1>6. /\ received' \in [Node -> Seq(Message)]
      /\ received'[n] = Append(received[n], x)
      /\ \A m \in Node : m # n => received'[m] = received[m]
      /\ \A m \in Node : \A z : Got(m, z)' <=> Got(m, z) \/ (m = n /\ z = x)
  BY <1>1, <1>3, <1>4, ReceivedFacts, ZenonT(60)
<1>7. TypeOK'
  BY <1>1, <1>4, <1>5, <1>6 DEF TypeOK
<1>8. \A m, o \in Node : \A z : Queued(m, o, z)' => Queued(m, o, z)
  BY <1>4 DEF Queued
<1>9. SentInv'
  BY <1>3, <1>4, <1>5, <1>6, <1>7, <1>8, MessagesStay
<1>. QED BY <1>1, <1>2, <1>3, <1>4, <1>5, <1>6, <1>9 DEF Called

LEMMA SendToSelfStep ==
  ASSUME SentInv, NEW n \in Node, NEW t \in Thread, SendToSelf(n, t),
         NEW x, x = call[n][t].message
  PROVE  /\ SentInv' /\ Called(n, t, "send", x) /\ Genuine(x) /\ x.source = n
         /\ x.destination = n /\ call[n][t] # Idle
         /\ \/ /\ checkSequence(n, x) /\ Record(n, x) /\ call'[n][t] = Then("deliver", x)
            \/ /\ ~ checkSequence(n, x) /\ UNCHANGED mSequences /\ call'[n][t] = Idle
         /\ \A m \in Node, u \in Thread :
              <<m, u>> # <<n, t>> => call'[m][u] = call[m][u]
         /\ UNCHANGED <<mSendSequence, net, rest, sent, received>>
<1>1. TypeOK /\ call[n][t] \in Rest /\ call[n][t].step = "send"
  BY DEF SentInv, TypeOK, SendToSelf
<1>2. call[n][t] # Idle
  BY <1>1, RestFacts
<1>3. Genuine(x) /\ x.source = n /\ x \in Message
  BY <1>2 DEF SentInv, MessagesAreSent, Genuine
<1>4. /\ \/ /\ checkSequence(n, x) /\ Record(n, x)
            /\ call' = [call EXCEPT ![n][t] = Then("deliver", x)]
         \/ /\ ~ checkSequence(n, x) /\ UNCHANGED mSequences
            /\ call' = [call EXCEPT ![n][t] = Idle]
      /\ x.destination = n
      /\ UNCHANGED <<mSendSequence, net, rest, sent, received>>
  BY DEF SendToSelf
<1>5. Then("deliver", x) \in Rest /\ Idle \in Rest
  BY <1>3, RestFacts
<1>6. /\ call' \in [Node -> [Thread -> Rest]]
      /\ \A m \in Node, u \in Thread : <<m, u>> # <<n, t>> => call'[m][u] = call[m][u]
      /\ checkSequence(n, x) => call'[n][t] = Then("deliver", x)
      /\ ~ checkSequence(n, x) => call'[n][t] = Idle
  <2>1. PICK r \in Rest : /\ call' = [call EXCEPT ![n][t] = r]
                          /\ checkSequence(n, x) => r = Then("deliver", x)
                          /\ ~ checkSequence(n, x) => r = Idle
    BY <1>4, <1>5
  <2>2. /\ call' \in [Node -> [Thread -> Rest]] /\ call'[n][t] = r
        /\ \A m \in Node, u \in Thread : <<m, u>> # <<n, t>> => call'[m][u] = call[m][u]
    BY <1>1, <2>1 DEF TypeOK
  <2>. QED BY <2>1, <2>2
<1>7. /\ mSequences' \in [Node -> [Node -> Sequence \cup {NoSequence}]]
      /\ \A m, s \in Node : \/ mSequences'[m][s] = mSequences[m][s]
                            \/ s = x.source /\ mSequences'[m][s] = x.sequence
  <2>1. CASE ~ checkSequence(n, x)
    BY <1>1, <1>4, <2>1 DEF TypeOK
  <2>2. CASE checkSequence(n, x)
    <3>1. x.sequence = sent[x.source][x.number].sequence
      BY <1>3 DEF Genuine
    <3>2. SentInv /\ Genuine(x) /\ checkSequence(n, x) /\ Record(n, x) /\ UNCHANGED sent
      BY <1>3, <1>4, <2>2
    <3>3. /\ mSequences' \in [Node -> [Node -> Sequence \cup {NoSequence}]]
          /\ mSequences'[n][x.source] = sent[x.source][x.number].sequence
          /\ \A m, s \in Node : <<m, s>> # <<n, x.source>> =>
               mSequences'[m][s] = mSequences[m][s]
      BY ONLY <3>2, RecordFacts
    <3>. QED BY <3>1, <3>3
  <2>. QED BY <2>1, <2>2
<1>8. TypeOK'
  BY <1>1, <1>4, <1>6, <1>7 DEF TypeOK
<1>9. SentInv'
  <2>1. \A m \in Node, u \in Thread : \/ call'[m][u] \in {call[m][u], Idle}
                                      \/ call'[m][u] = Then("deliver", x) /\ x.source = m
    BY <1>3, <1>6
  <2>2. \A m, o \in Node : rest'[m][o] = rest[m][o]
    BY <1>4
  <2>3. /\ \A m, o \in Node : \A z : Queued(m, o, z)' => Queued(m, o, z)
        /\ \A m \in Node : \A z : Got(m, z)' => Got(m, z)
    BY <1>4 DEF Queued, Got
  <2>. QED BY <1>3, <1>4, <1>7, <1>8, <2>1, <2>2, <2>3, MessagesStay
<1>. QED BY <1>1, <1>2, <1>3, <1>4, <1>6, <1>9 DEF Called

LEMMA IncomingStep ==
  ASSUME SentInv, NEW n \in Node, NEW f \in Node, Incoming(n, f),
         NEW x, x = Head(net[n][f])
  PROVE  /\ SentInv' /\ MayStart /\ Genuine(x) /\ Queued(n, f, x)
         /\ net[n][f] \in Seq(Message) /\ net[n][f] # << >>
         /\ net'[n][f] = Tail(net[n][f])
         /\ \A m, o \in Node : <<m, o>> # <<n, f>> => net'[m][o] = net[m][o]
         /\ \A m, o \in Node : \A z : Queued(m, o, z)' => Queued(m, o, z)
         /\ \A m, o \in Node : \A z :
              Queued(m, o, z) => Queued(m, o, z)' \/ (<<m, o>> = <<n, f>> /\ z = x)
         /\ rest[n][f] = Idle
         /\ \/ /\ checkSequence(n, x) /\ Record(n, x)
               /\ rest'[n][f] = Then(IF x.destination = Everyone THEN "forward"
                                     ELSE "deliver", x)
            \/ /\ ~ checkSequence(n, x) /\ UNCHANGED mSequences /\ rest'[n][f] = Idle
         /\ \A m, o \in Node : <<m, o>> # <<n, f>> => rest'[m][o] = rest[m][o]
         /\ UNCHANGED <<mSendSequence, call, sent, received>>
<1>. DEFINE step == IF x.destination = Everyone THEN "forward" ELSE "deliver"
            s == net[n][f]
<1>1. TypeOK /\ s \in Seq(Message) /\ s # << >> /\ rest[n][f] = Idle /\ MayStart
  BY DEF SentInv, TypeOK, Incoming
<1>2. /\ Tail(s) \in Seq(Message) /\ x \in Message /\ x = s[1]
      /\ 1 \in DOMAIN s
      /\ \A i \in DOMAIN Tail(s) : i + 1 \in DOMAIN s /\ Tail(s)[i] = s[i + 1]
      /\ \A i \in DOMAIN s : i = 1 \/ (i - 1 \in DOMAIN Tail(s) /\ Tail(s)[i - 1] = s[i])
  BY <1>1, TailFacts
<1>3. Queued(n, f, x)
  BY <1>2 DEF Queued
<1>4. Genuine(x)
  BY <1>3 DEF SentInv, MessagesAreSent
<1>5. /\ \/ /\ checkSequence(n, x) /\ Record(n, x)
            /\ rest' = [rest EXCEPT ![n][f] = Then(step, x)]
         \/ /\ ~ checkSequence(n, x) /\ UNCHANGED <<mSequences, rest>>
      /\ net' = [net EXCEPT ![n][f] = Tail(s)]
      /\ UNCHANGED <<mSendSequence, call, sent, received>>
  BY DEF Incoming
<1>6. step \in {"forward", "deliver"} /\ Then(step, x) \in Rest
  BY <1>2, RestFacts
<1>. HIDE DEF step
<1>7. /\ net' \in [Node -> [Node -> Seq(Message)]] /\ net'[n][f] = Tail(s)
      /\ \A m, o \in Node : <<m, o>> # <<n, f>> => net'[m][o] = net[m][o]
  BY <1>1, <1>2, <1>5 DEF TypeOK
<1>8. /\ \A m, o \in Node : \A z : Queued(m, o, z)' => Queued(m, o, z)
      /\ \A m, o \in Node : \A z :
           Queued(m, o, z) => Queued(m, o, z)' \/ (<<m, o>> = <<n, f>> /\ z = x)
  <2>. SUFFICES ASSUME NEW m \in Node, NEW o \in Node, NEW z
                PROVE  /\ Queued(m, o, z)' => Queued(m, o, z)
                       /\ Queued(m, o, z) => Queued(m, o, z)' \/ (<<m, o>> = <<n, f>> /\ z = x)
    OBVIOUS
  <2>1. CASE <<m, o>> # <<n, f>>
    BY <1>7, <2>1 DEF Queued
  <2>2. CASE <<m, o>> = <<n, f>>
    <3>1. net[m][o] = s /\ net'[m][o] = Tail(s)
      BY <1>7, <2>2
    <3>. HIDE DEF s
    <3>2. (\E i \in DOMAIN Tail(s) : Tail(s)[i] = z) => (\E i \in DOMAIN s : s[i] = z)
      BY <1>2
    <3>3. ASSUME NEW i \in DOMAIN s, s[i] = z
          PROVE  z = x \/ \E j \in DOMAIN Tail(s) : Tail(s)[j] = z
      BY <1>2, <3>3
    <3>. QED BY <2>2, <3>1, <3>2, <3>3 DEF Queued
  <2>. QED BY <2>1, <2>2
<1>9. /\ rest' \in [Node -> [Node -> Rest]]
      /\ \A m, o \in Node : <<m, o>> # <<n, f>> => rest'[m][o] = rest[m][o]
      /\ checkSequence(n, x) => rest'[n][f] = Then(step, x)
      /\ ~ checkSequence(n, x) => rest'[n][f] = Idle
  <2>1. CASE ~ checkSequence(n, x)
    BY <1>1, <1>5, <2>1 DEF TypeOK
  <2>2. CASE checkSequence(n, x)
    <3>1. rest' = [rest EXCEPT ![n][f] = Then(step, x)]
      BY <1>5, <2>2
    <3>. DEFINE r == Then(step, x)
    <3>2. r \in Rest /\ rest' = [rest EXCEPT ![n][f] = r]
      BY <1>6, <3>1
    <3>. HIDE DEF r
    <3>3. /\ rest' \in [Node -> [Node -> Rest]] /\ rest'[n][f] = r
          /\ \A m, o \in Node : <<m, o>> # <<n, f>> => rest'[m][o] = rest[m][o]
      BY <1>1, <3>2 DEF TypeOK
    <3>. QED BY <2>2, <3>3 DEF r
  <2>. QED BY <2>1, <2>2
<1>10. /\ mSequences' \in [Node -> [Node -> Sequence \cup {NoSequence}]]
       /\ \A m, o \in Node : \/ mSequences'[m][o] = mSequences[m][o]
                             \/ o = x.source /\ mSequences'[m][o] = x.sequence
  <2>1. CASE ~ checkSequence(n, x)
    BY <1>1, <1>5, <2>1 DEF TypeOK
  <2>2. CASE checkSequence(n, x)
    <3>1. x.sequence = sent[x.source][x.number].sequence
      BY <1>4 DEF Genuine
    <3>2. SentInv /\ Genuine(x) /\ checkSequence(n, x) /\ Record(n, x) /\ UNCHANGED sent
      BY <1>4, <1>5, <2>2
    <3>3. /\ mSequences' \in [Node -> [Node -> Sequence \cup {NoSequence}]]
          /\ mSequences'[n][x.source] = sent[x.source][x.number].sequence
          /\ \A m, o \in Node : <<m, o>> # <<n, x.source>> =>
               mSequences'[m][o] = mSequences[m][o]
      BY ONLY <3>2, RecordFacts
    <3>. QED BY <3>1, <3>3
  <2>. QED BY <2>1, <2>2
<1>11. TypeOK'
  BY <1>1, <1>5, <1>7, <1>9, <1>10 DEF TypeOK
<1>12. SentInv'
  <2>1. \A m, o \in Node : rest'[m][o] \in {rest[m][o], Idle, Then("forward", x),
                                            Then("deliver", x)}
    BY <1>6, <1>9
  <2>2. \A m \in Node, u \in Thread : call'[m][u] = call[m][u]
    BY <1>5
  <2>3. \A m \in Node : \A z : Got(m, z)' => Got(m, z)
    BY <1>5 DEF Got
  <2>. QED BY <1>4, <1>5, <1>8, <1>10, <1>11, <2>1, <2>2, <2>3, MessagesStay
<1>. QED BY <1>1, <1>3, <1>4, <1>5, <1>7, <1>8, <1>9, <1>12 DEF step

-----------------------------------------------------------------------------
LEMMA InitSentInv == Init => SentInv
<1>. SUFFICES ASSUME Init PROVE SentInv
  OBVIOUS
<1>1. TypeOK
  BY RestFacts DEF Init, TypeOK
<1>2. \A s \in Node : InRow(s)
  BY RangeFacts DEF Init, InRow
<1>3. MessagesAreSent
  BY DEF Init, MessagesAreSent, Queued, Got
<1>. QED BY <1>1, <1>2, <1>3 DEF SentInv

LEMMA NextCases ==
  ASSUME [Next]_vars
  PROVE  \/ \E n \in Node, t \in Thread :
              \/ \E destination \in Node \cup {Everyone} : TakeSequence(n, t, destination)
              \/ Send(n, t) \/ SendToSelf(n, t) \/ DeliverToSelf(n, t)
         \/ \E n, f \in Node : Incoming(n, f) \/ Forward(n, f) \/ Deliver(n, f)
         \/ UNCHANGED vars
BY DEF Next, Call, Handler, Done

LEMMA NextSentInv == SentInv /\ [Next]_vars => SentInv'
<1>. SUFFICES ASSUME SentInv, [Next]_vars PROVE SentInv'
  OBVIOUS
<1>1. CASE \E n \in Node, t \in Thread, destination \in Node \cup {Everyone} :
             TakeSequence(n, t, destination)
  BY <1>1, TakeSequenceFacts
<1>2. CASE \E n \in Node, t \in Thread : Send(n, t)
  BY <1>2, SendStep
<1>3. CASE \E n \in Node, t \in Thread : SendToSelf(n, t)
  BY <1>3, SendToSelfStep
<1>4. CASE \E n \in Node, t \in Thread : DeliverToSelf(n, t)
  BY <1>4, DeliverToSelfStep
<1>5. CASE \E n, f \in Node : Incoming(n, f)
  BY <1>5, IncomingStep
<1>6. CASE \E n, f \in Node : Forward(n, f)
  BY <1>6, ForwardStep
<1>7. CASE \E n, f \in Node : Deliver(n, f)
  BY <1>7, DeliverStep
<1>8. CASE UNCHANGED vars
  BY <1>8 DEF vars, SentInv, TypeOK, InRow, MessagesAreSent, Genuine, Queued, Got
<1>. QED BY <1>1, <1>2, <1>3, <1>4, <1>5, <1>6, <1>7, <1>8, NextCases

(* The sequence numbers, the messages and what is left of the handlers and *)
(* calls of Transport keep their types, whatever mSendSequence starts with.*)
THEOREM TransportTypeOK == Spec => []TypeOK
<1>1. SentInv => TypeOK
  BY DEF SentInv
<1>. QED BY <1>1, InitSentInv, NextSentInv, PTL DEF Spec

-----------------------------------------------------------------------------
(* n has accepted x: a handler or a call of n is at work on it, or the     *)
(* callback has got it.                                                    *)
InHandler(n, f, x) == rest[n][f] # Idle /\ rest[n][f].message = x
InCall(n, t, x) == Called(n, t, "deliver", x)

Accepted(n, x) ==
    \/ Got(n, x)
    \/ \E f \in Node : InHandler(n, f, x)
    \/ \E t \in Thread : InCall(n, t, x)

(* A message is accepted once, since it is refused afterwards, and what is *)
(* refused is so for an accepted one.                                      *)
AcceptedOnce ==
    \A n \in Node :
      /\ \A x : Accepted(n, x) => Genuine(x) /\ Covers(n, x.source, x.number)
      /\ \A s \in Node, k \in Nat : Covers(n, s, k) =>
           \E x : Accepted(n, x) /\ x.source = s /\ x.number >= k
      /\ \A i, j \in DOMAIN received[n] : i # j => received[n][i] # received[n][j]
      /\ \A f \in Node : \A x : InHandler(n, f, x) =>
           /\ ~ Got(n, x) /\ \A g \in Node \ {f} : ~ InHandler(n, g, x)
           /\ \A t \in Thread : ~ InCall(n, t, x)
      /\ \A t \in Thread : \A x : InCall(n, t, x) =>
           ~ Got(n, x) /\ \A u \in Thread \ {t} : ~ InCall(n, u, x)

(* What a step can do to the accepted messages: nothing, let a handler or  *)
(* a call accept one, or hand one to the callback.                         *)
CoversStay ==
    \A m, s \in Node, k \in Nat : Covers(m, s, k)' <=> Covers(m, s, k)

HandlersStay == \A m, g \in Node : \A z : InHandler(m, g, z)' <=> InHandler(m, g, z)
CallsStay == \A m \in Node, u \in Thread : \A z : InCall(m, u, z)' <=> InCall(m, u, z)

AcceptedStay ==
    CoversStay /\ HandlersStay /\ CallsStay /\ received' = received

Accepts(n, x) ==
    /\ Genuine(x) /\ ~ Covers(n, x.source, x.number)
    /\ \A m, s \in Node, k \in Nat :
         /\ Covers(m, s, k) => Covers(m, s, k)'
         /\ <<m, s>> # <<n, x.source>> => (Covers(m, s, k)' <=> Covers(m, s, k))
    /\ \A k \in Nat : Covers(n, x.source, k)' <=> k <= x.number
    /\ received' = received

HandlerTakes(n, f, x) ==
    /\ Accepts(n, x) /\ rest[n][f] = Idle /\ CallsStay
    /\ \A m, g \in Node : \A z :
         InHandler(m, g, z)' <=> InHandler(m, g, z) \/ (m = n /\ g = f /\ z = x)

CallTakes(n, t, x) ==
    /\ Accepts(n, x) /\ (\A z : ~ InCall(n, t, z)) /\ HandlersStay
    /\ \A m \in Node, u \in Thread : \A z :
         InCall(m, u, z)' <=> InCall(m, u, z) \/ (m = n /\ u = t /\ z = x)

Delivers(n, x) ==
    /\ CoversStay /\ Genuine(x)
    /\ received'[n] = Append(received[n], x)
    /\ \A m \in Node : m # n => received'[m] = received[m]
    /\ \A m \in Node : \A z : Got(m, z)' <=> Got(m, z) \/ (m = n /\ z = x)

HandlerGives(n, f, x) ==
    /\ Delivers(n, x) /\ InHandler(n, f, x) /\ CallsStay
    /\ \A m, g \in Node : \A z :
         InHandler(m, g, z)' <=> InHandler(m, g, z) /\ ~ (m = n /\ g = f)

CallGives(n, t, x) ==
    /\ Delivers(n, x) /\ InCall(n, t, x) /\ HandlersStay
    /\ \A m \in Node, u \in Thread : \A z :
         InCall(m, u, z)' <=> InCall(m, u, z) /\ ~ (m = n /\ u = t)

LEMMA RecordAccepts ==
  ASSUME SentInv, NEW n \in Node, NEW x, Genuine(x), checkSequence(n, x),
         Record(n, x), UNCHANGED <<sent, received>>
  PROVE  Accepts(n, x)
<1>1. ~ Covers(n, x.source, x.number)
  BY CheckSequenceFacts
<1>2. /\ \A m, s \in Node, k \in Nat : Covers(m, s, k) => Covers(m, s, k)'
      /\ \A m, s \in Node, k \in Nat : <<m, s>> # <<n, x.source>> =>
           (Covers(m, s, k)' <=> Covers(m, s, k))
      /\ \A k \in Nat : Covers(n, x.source, k)' <=> k <= x.number
  BY RecordFacts
<1>. QED BY <1>1, <1>2 DEF Accepts

LEMMA AcceptedCases ==
  ASSUME SentInv, [Next]_vars
  PROVE  \/ AcceptedStay
         \/ \E n, f \in Node, x \in Message : HandlerTakes(n, f, x) \/ HandlerGives(n, f, x)
         \/ \E n \in Node, t \in Thread, x \in Message :
              CallTakes(n, t, x) \/ CallGives(n, t, x)
<1>0. \A x : Genuine(x) => x \in Message
  BY DEF Genuine
<1>1. ASSUME NEW n \in Node, NEW t \in Thread, NEW destination \in Node \cup {Everyone},
             TakeSequence(n, t, destination)
      PROVE  AcceptedStay
  <2>. DEFINE y == [source |-> n, destination |-> destination,
                    sequence |-> mSendSequence[n], number |-> Len(sent[n]) + 1]
  <2>1. /\ \A m, s \in Node, k \in Nat : Covers(m, s, k)' <=> Covers(m, s, k)
        /\ call[n][t] = Idle /\ call'[n][t] = Then("send", y)
        /\ \A m \in Node, u \in Thread : <<m, u>> # <<n, t>> => call'[m][u] = call[m][u]
        /\ SentInv'
    BY <1>1, TakeSequenceFacts
  <2>2. UNCHANGED <<rest, received>>
    BY <1>1 DEF TakeSequence
  <2>3. Then("send", y).step # "deliver" /\ Idle.step # "deliver"
    BY RestFacts DEF Then
  <2>. HIDE DEF y
  <2>4. CallsStay
    BY <2>1, <2>3 DEF CallsStay, InCall, Called
  <2>. QED BY <2>1, <2>2, <2>4 DEF AcceptedStay, CoversStay, HandlersStay, InHandler
<1>2. ASSUME NEW n \in Node, NEW t \in Thread, Send(n, t)
      PROVE  AcceptedStay
  <2>. DEFINE x == call[n][t].message
  <2>1. /\ Called(n, t, "send", x) /\ call'[n][t] = Idle
        /\ \A m \in Node, u \in Thread : <<m, u>> # <<n, t>> => call'[m][u] = call[m][u]
        /\ UNCHANGED <<mSequences, rest, sent, received>>
    BY <1>2, SendStep
  <2>2. CallsStay
    BY <2>1, RestFacts DEF CallsStay, InCall, Called
  <2>. QED BY <2>1, <2>2 DEF AcceptedStay, CoversStay, Covers, HandlersStay, InHandler
<1>3. ASSUME NEW n \in Node, NEW t \in Thread, SendToSelf(n, t)
      PROVE  AcceptedStay \/ \E x \in Message : CallTakes(n, t, x)
  <2>1. PICK x : x = call[n][t].message
    OBVIOUS
  <2>2. /\ Called(n, t, "send", x) /\ Genuine(x) /\ x \in Message
        /\ \/ /\ checkSequence(n, x) /\ Record(n, x) /\ call'[n][t] = Then("deliver", x)
           \/ /\ ~ checkSequence(n, x) /\ UNCHANGED mSequences /\ call'[n][t] = Idle
        /\ \A m \in Node, u \in Thread : <<m, u>> # <<n, t>> => call'[m][u] = call[m][u]
        /\ UNCHANGED <<rest, sent, received>>
    BY <1>0, <1>3, <2>1, SendToSelfStep
  <2>3. HandlersStay /\ \A z : ~ InCall(n, t, z)
    BY <2>2 DEF HandlersStay, InHandler, InCall, Called
  <2>4. CASE ~ checkSequence(n, x)
    <3>1. CallsStay
      BY <2>2, <2>3, <2>4, RestFacts DEF CallsStay, InCall, Called
    <3>. QED BY <2>2, <2>3, <2>4, <3>1 DEF AcceptedStay, CoversStay, Covers
  <2>5. CASE checkSequence(n, x)
    <3>1. Accepts(n, x)
      BY <2>2, <2>5, RecordAccepts
    <3>2. Then("deliver", x).step = "deliver" /\ Then("deliver", x).message = x
      BY <2>2, RestFacts
    <3>3. \A m \in Node, u \in Thread : \A z :
            InCall(m, u, z)' <=> InCall(m, u, z) \/ (m = n /\ u = t /\ z = x)
      BY <2>2, <2>3, <2>5, <3>2 DEF InCall, Called
    <3>. QED BY <2>2, <2>3, <3>1, <3>3 DEF CallTakes
  <2>. QED BY <2>4, <2>5
<1>4. ASSUME NEW n \in Node, NEW t \in Thread, DeliverToSelf(n, t)
      PROVE  \E x \in Message : CallGives(n, t, x)
  <2>1. PICK x : x = call[n][t].message
    OBVIOUS
  <2>2. /\ Called(n, t, "deliver", x) /\ Genuine(x) /\ x \in Message /\ call'[n][t] = Idle
        /\ \A m \in Node, u \in Thread : <<m, u>> # <<n, t>> => call'[m][u] = call[m][u]
        /\ received'[n] = Append(received[n], x)
        /\ \A m \in Node : m # n => received'[m] = received[m]
        /\ \A m \in Node : \A z : Got(m, z)' <=> Got(m, z) \/ (m = n /\ z = x)
        /\ UNCHANGED <<mSequences, rest, sent>>
    BY <1>0, <1>4, <2>1, DeliverToSelfStep
  <2>3. Delivers(n, x) /\ HandlersStay
    BY <2>2 DEF Delivers, CoversStay, Covers, HandlersStay, InHandler
  <2>4. \A m \in Node, u \in Thread : \A z :
          InCall(m, u, z)' <=> InCall(m, u, z) /\ ~ (m = n /\ u = t)
    BY <2>2, RestFacts DEF InCall, Called
  <2>. QED BY <2>2, <2>3, <2>4 DEF CallGives, InCall
<1>5. ASSUME NEW n \in Node, NEW f \in Node, Incoming(n, f)
      PROVE  AcceptedStay \/ \E x \in Message : HandlerTakes(n, f, x)
  <2>1. PICK x : x = Head(net[n][f])
    OBVIOUS
  <2>. DEFINE step == IF x.destination = Everyone THEN "forward" ELSE "deliver"
  <2>2. /\ Genuine(x) /\ x \in Message /\ rest[n][f] = Idle
        /\ \/ /\ checkSequence(n, x) /\ Record(n, x) /\ rest'[n][f] = Then(step, x)
           \/ /\ ~ checkSequence(n, x) /\ UNCHANGED mSequences /\ rest'[n][f] = Idle
        /\ \A m, o \in Node : <<m, o>> # <<n, f>> => rest'[m][o] = rest[m][o]
        /\ UNCHANGED <<call, sent, received>>
    BY <1>0, <1>5, <2>1, IncomingStep
  <2>3. Then(step, x) # Idle /\ Then(step, x).message = x
    BY <2>2, RestFacts
  <2>. HIDE DEF step
  <2>4. CallsStay
    BY <2>2 DEF CallsStay, InCall, Called
  <2>5. CASE ~ checkSequence(n, x)
    BY <2>2, <2>4, <2>5
    DEF AcceptedStay, CoversStay, Covers, HandlersStay, InHandler
  <2>6. CASE checkSequence(n, x)
    <3>1. Accepts(n, x)
      BY <2>2, <2>6, RecordAccepts
    <3>2. \A m, g \in Node : \A z :
            InHandler(m, g, z)' <=> InHandler(m, g, z) \/ (m = n /\ g = f /\ z = x)
      BY <2>2, <2>3, <2>6 DEF InHandler
    <3>. QED BY <2>2, <2>4, <3>1, <3>2 DEF HandlerTakes
  <2>. QED BY <2>5, <2>6
<1>6. ASSUME NEW n \in Node, NEW f \in Node, Forward(n, f)
      PROVE  AcceptedStay
  <2>. DEFINE x == rest[n][f].message
  <2>1. /\ Genuine(x) /\ rest[n][f] # Idle /\ rest'[n][f] = Then("deliver", x)
        /\ \A m, o \in Node : <<m, o>> # <<n, f>> => rest'[m][o] = rest[m][o]
        /\ UNCHANGED <<mSequences, call, sent, received>>
    BY <1>6, ForwardStep
  <2>2. Then("deliver", x) # Idle /\ Then("deliver", x).message = x
    BY <1>0, <2>1, RestFacts
  <2>3. HandlersStay
    BY <2>1, <2>2 DEF HandlersStay, InHandler
  <2>. QED BY <2>1, <2>3 DEF AcceptedStay, CoversStay, Covers, CallsStay, InCall, Called
<1>7. ASSUME NEW n \in Node, NEW f \in Node, Deliver(n, f)
      PROVE  \E x \in Message : HandlerGives(n, f, x)
  <2>1. PICK x : x = rest[n][f].message
    OBVIOUS
  <2>2. /\ Handled(n, f, "deliver", x) /\ Genuine(x) /\ x \in Message
        /\ rest[n][f] # Idle /\ rest'[n][f] = Idle
        /\ \A m, o \in Node : <<m, o>> # <<n, f>> => rest'[m][o] = rest[m][o]
        /\ received'[n] = Append(received[n], x)
        /\ \A m \in Node : m # n => received'[m] = received[m]
        /\ \A m \in Node : \A z : Got(m, z)' <=> Got(m, z) \/ (m = n /\ z = x)
        /\ UNCHANGED <<mSequences, call, sent>>
    BY <1>0, <1>7, <2>1, DeliverStep
  <2>3. Delivers(n, x) /\ CallsStay
    BY <2>2 DEF Delivers, CoversStay, Covers, CallsStay, InCall, Called
  <2>4. \A m, g \in Node : \A z :
          InHandler(m, g, z)' <=> InHandler(m, g, z) /\ ~ (m = n /\ g = f)
    BY <2>2 DEF InHandler
  <2>. QED BY <2>2, <2>3, <2>4 DEF HandlerGives, InHandler, Handled
<1>8. CASE UNCHANGED vars
  BY <1>8
  DEF vars, AcceptedStay, CoversStay, Covers, HandlersStay, InHandler, CallsStay, InCall,
      Called
<1>. QED BY <1>1, <1>2, <1>3, <1>4, <1>5, <1>6, <1>7, <1>8, NextCases

LEMMA GenuineStays ==
  ASSUME SentInv, [Next]_vars
  PROVE  \A x : Genuine(x) => Genuine(x)'
<1>1. CASE UNCHANGED sent
  BY <1>1 DEF Genuine
<1>2. CASE \E n \in Node, t \in Thread, destination \in Node \cup {Everyone} :
             TakeSequence(n, t, destination)
  BY <1>2, TakeSequenceFacts
<1>. QED
  BY <1>1, <1>2, NextCases
  DEF Send, SendToSelf, DeliverToSelf, Incoming, Forward, Deliver, vars

LEMMA GenuineFacts ==
  ASSUME NEW x, Genuine(x)
  PROVE  x \in Message /\ x.source \in Node /\ x.number \in Nat
BY DEF Genuine, Message

LEMMA TakenOnce ==
  ASSUME SentInv, AcceptedOnce, \A x : Genuine(x) => Genuine(x)',
         NEW n \in Node, NEW x \in Message, Accepts(n, x),
         \/ \E f \in Node : HandlerTakes(n, f, x)
         \/ \E t \in Thread : CallTakes(n, t, x)
  PROVE  /\ AcceptedOnce'
         /\ \A m \in Node : \A z : Accepted(m, z)' <=> Accepted(m, z) \/ (m = n /\ z = x)
<1>1. /\ Genuine(x) /\ ~ Covers(n, x.source, x.number) /\ received' = received
      /\ \A m, s \in Node, k \in Nat :
           /\ Covers(m, s, k) => Covers(m, s, k)'
           /\ <<m, s>> # <<n, x.source>> => (Covers(m, s, k)' <=> Covers(m, s, k))
      /\ \A k \in Nat : Covers(n, x.source, k)' <=> k <= x.number
  BY DEF Accepts
<1>2. ~ Accepted(n, x) /\ x.source \in Node /\ x.number \in Nat /\ x.number <= x.number
  BY <1>1, GenuineFacts DEF AcceptedOnce
<1>3. ~ Got(n, x) /\ (\A f \in Node : ~ InHandler(n, f, x)) /\ \A t \in Thread : ~ InCall(n, t, x)
  BY <1>2 DEF Accepted
<1>4. \A m \in Node : \A z : Got(m, z)' <=> Got(m, z)
  BY <1>1 DEF Got
<1>5. \A m \in Node : \A z : Accepted(m, z)' <=> Accepted(m, z) \/ (m = n /\ z = x)
  BY <1>4 DEF Accepted, HandlerTakes, CallTakes, HandlersStay, CallsStay
<1>6. ASSUME NEW m \in Node, NEW z, Accepted(m, z)'
      PROVE  Genuine(z)' /\ Covers(m, z.source, z.number)'
  <2>1. CASE m = n /\ z = x
    BY <1>1, <1>2, <2>1
  <2>2. CASE Accepted(m, z)
    <3>1. Genuine(z) /\ Covers(m, z.source, z.number) /\ z.source \in Node /\ z.number \in Nat
      BY <2>2, GenuineFacts DEF AcceptedOnce
    <3>. QED BY <1>1, <3>1
  <2>. QED BY <1>5, <1>6, <2>1, <2>2
<1>7. ASSUME NEW m \in Node, NEW s \in Node, NEW k \in Nat, Covers(m, s, k)'
      PROVE  \E z : Accepted(m, z)' /\ z.source = s /\ z.number >= k
  <2>1. CASE <<m, s>> = <<n, x.source>>
    <3>1. x.number >= k
      BY <1>1, <1>2, <1>7, <2>1
    <3>. QED BY <1>5, <2>1, <3>1
  <2>2. CASE <<m, s>> # <<n, x.source>>
    <3>1. PICK z : Accepted(m, z) /\ z.source = s /\ z.number >= k
      BY <1>1, <1>7, <2>2 DEF AcceptedOnce
    <3>. QED BY <1>5, <3>1
  <2>. QED BY <2>1, <2>2
<1>8. \A m \in Node : \A i, j \in DOMAIN received'[m] :
        i # j => received'[m][i] # received'[m][j]
  BY <1>1 DEF AcceptedOnce
<1>9. \A m, f \in Node : \A z : InHandler(m, f, z)' =>
        /\ ~ Got(m, z)' /\ \A g \in Node \ {f} : ~ InHandler(m, g, z)'
        /\ \A t \in Thread : ~ InCall(m, t, z)'
  <2>1. CASE \E f \in Node : HandlerTakes(n, f, x)
    BY <1>3, <1>4, <2>1 DEF AcceptedOnce, HandlerTakes, CallsStay
  <2>2. CASE \E t \in Thread : CallTakes(n, t, x)
    BY <1>3, <1>4, <2>2 DEF AcceptedOnce, CallTakes, HandlersStay
  <2>. QED BY <2>1, <2>2
<1>10. \A m \in Node, t \in Thread : \A z : InCall(m, t, z)' =>
         ~ Got(m, z)' /\ \A u \in Thread \ {t} : ~ InCall(m, u, z)'
  <2>1. CASE \E f \in Node : HandlerTakes(n, f, x)
    BY <1>4, <2>1 DEF AcceptedOnce, HandlerTakes, CallsStay
  <2>2. CASE \E t \in Thread : CallTakes(n, t, x)
    BY <1>3, <1>4, <2>2 DEF AcceptedOnce, CallTakes
  <2>. QED BY <2>1, <2>2
<1>. QED BY <1>5, <1>6, <1>7, <1>8, <1>9, <1>10 DEF AcceptedOnce

LEMMA GivenOnce ==
  ASSUME SentInv, AcceptedOnce, \A x : Genuine(x) => Genuine(x)',
         NEW n \in Node, NEW x \in Message, Delivers(n, x),
         \/ \E f \in Node : HandlerGives(n, f, x)
         \/ \E t \in Thread : CallGives(n, t, x)
  PROVE  /\ AcceptedOnce'
         /\ \A m \in Node : \A z : Accepted(m, z)' <=> Accepted(m, z)
<1>1. /\ CoversStay /\ received'[n] = Append(received[n], x)
      /\ \A m \in Node : m # n => received'[m] = received[m]
      /\ \A m \in Node : \A z : Got(m, z)' <=> Got(m, z) \/ (m = n /\ z = x)
  BY DEF Delivers
<1>2. ~ Got(n, x)
  BY DEF HandlerGives, CallGives, AcceptedOnce
<1>3. \A m \in Node : \A z : Accepted(m, z)' <=> Accepted(m, z)
  <2>. SUFFICES ASSUME NEW m \in Node, NEW z PROVE Accepted(m, z)' <=> Accepted(m, z)
    OBVIOUS
  <2>0. Got(m, z)' <=> Got(m, z) \/ (m = n /\ z = x)
    BY <1>1
  <2>1. CASE \E f \in Node : HandlerGives(n, f, x)
    <3>1. PICK f \in Node : HandlerGives(n, f, x)
      BY <2>1
    <3>2. /\ InHandler(n, f, x) /\ \A u \in Thread : InCall(m, u, z)' <=> InCall(m, u, z)
          /\ \A g \in Node : InHandler(m, g, z)' <=> InHandler(m, g, z) /\ ~ (m = n /\ g = f)
      BY <3>1 DEF HandlerGives, CallsStay
    <3>3. InHandler(n, f, z) => z = x
      BY <3>2 DEF InHandler
    <3>. QED BY <2>0, <3>2, <3>3 DEF Accepted
  <2>2. CASE \E t \in Thread : CallGives(n, t, x)
    <3>1. PICK t \in Thread : CallGives(n, t, x)
      BY <2>2
    <3>2. /\ InCall(n, t, x) /\ \A g \in Node : InHandler(m, g, z)' <=> InHandler(m, g, z)
          /\ \A u \in Thread : InCall(m, u, z)' <=> InCall(m, u, z) /\ ~ (m = n /\ u = t)
      BY <3>1 DEF CallGives, HandlersStay
    <3>3. InCall(n, t, z) => z = x
      BY <3>2 DEF InCall, Called
    <3>. QED BY <2>0, <3>2, <3>3 DEF Accepted
  <2>. QED BY <2>1, <2>2
<1>4. ASSUME NEW m \in Node, NEW z, Accepted(m, z)'
      PROVE  Genuine(z)' /\ Covers(m, z.source, z.number)'
  <2>1. Genuine(z) /\ Covers(m, z.source, z.number) /\ z.source \in Node /\ z.number \in Nat
    BY <1>3, <1>4, GenuineFacts DEF AcceptedOnce
  <2>. QED BY <1>1, <2>1 DEF CoversStay
<1>5. \A m, s \in Node, k \in Nat : Covers(m, s, k)' =>
        \E z : Accepted(m, z)' /\ z.source = s /\ z.number >= k
  BY <1>1, <1>3 DEF AcceptedOnce, CoversStay
<1>6. ASSUME NEW m \in Node, NEW i \in DOMAIN received'[m], NEW j \in DOMAIN received'[m],
             i # j
      PROVE  received'[m][i] # received'[m][j]
  <2>1. CASE m # n
    BY <1>1, <1>6, <2>1 DEF AcceptedOnce
  <2>2. CASE m = n
    <3>. DEFINE s == received[n]
    <3>1. s \in Seq(Message) /\ received'[m] = Append(s, x)
      BY <1>1, <2>2 DEF SentInv, TypeOK
    <3>2. \A k \in DOMAIN s : s[k] # x
      BY <1>2 DEF Got
    <3>3. \A k, l \in DOMAIN s : k # l => s[k] # s[l]
      BY DEF AcceptedOnce
    <3>. HIDE DEF s
    <3>. QED BY <1>6, <3>1, <3>2, <3>3, AppendFacts
  <2>. QED BY <2>1, <2>2
<1>7. \A m, f \in Node : \A z : InHandler(m, f, z)' =>
        /\ ~ Got(m, z)' /\ \A g \in Node \ {f} : ~ InHandler(m, g, z)'
        /\ \A t \in Thread : ~ InCall(m, t, z)'
  <2>1. CASE \E f \in Node : HandlerGives(n, f, x)
    BY <1>1, <2>1 DEF AcceptedOnce, HandlerGives, CallsStay
  <2>2. CASE \E t \in Thread : CallGives(n, t, x)
    BY <1>1, <2>2 DEF AcceptedOnce, CallGives, HandlersStay
  <2>. QED BY <2>1, <2>2
<1>8. \A m \in Node, t \in Thread : \A z : InCall(m, t, z)' =>
         ~ Got(m, z)' /\ \A u \in Thread \ {t} : ~ InCall(m, u, z)'
  <2>1. CASE \E f \in Node : HandlerGives(n, f, x)
    BY <1>1, <2>1 DEF AcceptedOnce, HandlerGives, CallsStay
  <2>2. CASE \E t \in Thread : CallGives(n, t, x)
    BY <1>1, <2>2 DEF AcceptedOnce, CallGives
  <2>. QED BY <2>1, <2>2
<1>. QED BY <1>3, <1>4, <1>5, <1>6, <1>7, <1>8 DEF AcceptedOnce

LEMMA StayAcceptedOnce ==
  ASSUME AcceptedOnce, \A x : Genuine(x) => Genuine(x)', AcceptedStay
  PROVE  /\ AcceptedOnce'
         /\ \A m \in Node : \A z : Accepted(m, z)' <=> Accepted(m, z)
<1>1. \A m \in Node : \A z : Got(m, z)' <=> Got(m, z)
  BY DEF AcceptedStay, Got
<1>2. \A m \in Node : \A z : Accepted(m, z)' <=> Accepted(m, z)
  BY <1>1 DEF Accepted, AcceptedStay, HandlersStay, CallsStay
<1>3. ASSUME NEW m \in Node, NEW z, Accepted(m, z)'
      PROVE  Genuine(z)' /\ Covers(m, z.source, z.number)'
  <2>1. Genuine(z) /\ Covers(m, z.source, z.number) /\ z.source \in Node /\ z.number \in Nat
    BY <1>2, <1>3, GenuineFacts DEF AcceptedOnce
  <2>. QED BY <2>1 DEF AcceptedStay, CoversStay
<1>4. \A m, s \in Node, k \in Nat : Covers(m, s, k)' =>
        \E z : Accepted(m, z)' /\ z.source = s /\ z.number >= k
  BY <1>2 DEF AcceptedOnce, AcceptedStay, CoversStay
<1>5. received' = received
  BY DEF AcceptedStay
<1>6. \A m \in Node : \A i, j \in DOMAIN received'[m] :
        i # j => received'[m][i] # received'[m][j]
  BY <1>5 DEF AcceptedOnce
<1>. QED
  BY <1>1, <1>2, <1>3, <1>4, <1>6
  DEF AcceptedOnce, AcceptedStay, HandlersStay, CallsStay

LEMMA NextAcceptedOnce ==
  SentInv /\ AcceptedOnce /\ [Next]_vars => AcceptedOnce'
<1>. SUFFICES ASSUME SentInv, AcceptedOnce, [Next]_vars PROVE AcceptedOnce'
  OBVIOUS
<1>1. \A x : Genuine(x) => Genuine(x)'
  BY GenuineStays
<1>2. CASE AcceptedStay
  BY <1>1, <1>2, StayAcceptedOnce
<1>3. CASE \E n, f \in Node, x \in Message : HandlerTakes(n, f, x)
  BY <1>1, <1>3, TakenOnce DEF HandlerTakes
<1>4. CASE \E n, f \in Node, x \in Message : HandlerGives(n, f, x)
  BY <1>1, <1>4, GivenOnce DEF HandlerGives
<1>5. CASE \E n \in Node, t \in Thread, x \in Message : CallTakes(n, t, x)
  BY <1>1, <1>5, TakenOnce DEF CallTakes
<1>6. CASE \E n \in Node, t \in Thread, x \in Message : CallGives(n, t, x)
  BY <1>1, <1>6, GivenOnce DEF CallGives
<1>. QED BY <1>2, <1>3, <1>4, <1>5, <1>6, AcceptedCases

LEMMA InitAcceptedOnce == Init => AcceptedOnce
<1>. SUFFICES ASSUME Init PROVE AcceptedOnce
  OBVIOUS
<1>1. \A n \in Node : \A x : ~ Got(n, x)
  BY DEF Init, Got
<1>2. \A n, f \in Node : \A x : ~ InHandler(n, f, x)
  BY DEF Init, InHandler
<1>3. \A n \in Node, t \in Thread : \A x : ~ InCall(n, t, x)
  BY RestFacts DEF Init, InCall, Called
<1>4. \A n, s \in Node, k \in Nat : ~ Covers(n, s, k)
  BY DEF Init, Covers
<1>5. \A n \in Node : \A i, j \in DOMAIN received[n] : i # j => received[n][i] # received[n][j]
  BY DEF Init
<1>. QED BY <1>1, <1>2, <1>3, <1>4, <1>5 DEF AcceptedOnce, Accepted

(* The callback is never called twice with a message, whatever threads and *)
(* channels the copies come through, and also when the numbers wrap.       *)
THEOREM TransportAtMostOnce == Spec => []AtMostOnce
<1>1. AcceptedOnce => AtMostOnce
  BY DEF AcceptedOnce, AtMostOnce
<1>. QED
  BY <1>1, InitSentInv, NextSentInv, InitAcceptedOnce, NextAcceptedOnce, PTL DEF Spec

-----------------------------------------------------------------------------
(* n drops a copy of x that reaches it now.                                *)
Refuses(n, x) == Covers(n, x.source, x.number)

(* n has sent x to m, which has it before it or need not get it anymore.   *)
OnItsWay(m, n, x) == Queued(m, n, x) \/ Refuses(m, x)

Sending(x) == \E t \in Thread : Called(x.source, t, "send", x)

HasForwarded(n, x) == Got(n, x) \/ \E f \in Node : Handled(n, f, "deliver", x)

(* A copy comes from the source of the message or from a node that has     *)
(* accepted it, so it need not be sent back there.                         *)
CopiesComeFrom ==
    \A n, f \in Node : \A x :
      Queued(n, f, x) \/ InHandler(n, f, x) => f = x.source \/ Refuses(f, x)

SourcesSend ==
    \A x : Genuine(x) /\ ~ Sending(x) =>
      \A m \in Node : IsFor(m, x) /\ m \in Neighbors(x.source) \cup {x.source} =>
        OnItsWay(m, x.source, x)

NodesForward ==
    \A n \in Node : \A x : x.destination = Everyone /\ HasForwarded(n, x) =>
      \A m \in Neighbors(n) \ {x.source} : OnItsWay(m, n, x)

CallsDeliverOwn ==
    \A n \in Node, t \in Thread : \A x : InCall(n, t, x) => x.destination # Everyone

Propagates == CopiesComeFrom /\ SourcesSend /\ NodesForward /\ CallsDeliverOwn

FloodInv == SentInv /\ AcceptedOnce /\ Propagates

-----------------------------------------------------------------------------
LEMMA NeighborFacts ==
  /\ \A n \in Node : Neighbors(n) \subseteq Node /\ n \notin Neighbors(n)
  /\ \A n \in Node : \A m \in Neighbors(n) : n \in Neighbors(m)
  /\ Everyone \notin Node
<1>1. \A n, m \in Node : <<n, m>> \in Link => <<m, n>> \in Link /\ n # m
  <2>. SUFFICES ASSUME NEW n \in Node, NEW m \in Node, <<n, m>> \in Link
                PROVE  <<m, n>> \in Link /\ n # m
    OBVIOUS
  <2>1. \A l \in Link : <<l[2], l[1]>> \in Link /\ l[1] # l[2]
    BY TransportAssumption
  <2>2. <<n, m>>[1] = n /\ <<n, m>>[2] = m
    OBVIOUS
  <2>. QED BY <2>1, <2>2
<1>. QED BY <1>1, TransportAssumption DEF Neighbors

LEMMA RefusesStays ==
  ASSUME SentInv, [Next]_vars, NEW m \in Node, NEW x, Genuine(x), Refuses(m, x)
  PROVE  Refuses(m, x)'
<1>1. x.source \in Node /\ x.number \in Nat
  <2>1. x \in Message
    BY DEF Genuine
  <2>. QED BY <2>1 DEF Message
<1>2. Covers(m, x.source, x.number)
  BY DEF Refuses
<1>. DEFINE s == x.source
            k == x.number
<1>3. s \in Node /\ k \in Nat /\ Covers(m, s, k)
  BY <1>1, <1>2
<1>. HIDE DEF s, k
<1>4. Covers(m, s, k)'
  <2>1. CASE CoversStay
    BY <1>3, <2>1 DEF CoversStay
  <2>2. ASSUME NEW n \in Node, NEW z, Accepts(n, z) PROVE Covers(m, s, k)'
    BY <1>3, <2>2 DEF Accepts
  <2>. QED
    BY <2>1, <2>2, AcceptedCases
    DEF AcceptedStay, HandlerTakes, CallTakes, HandlerGives, CallGives, Delivers
<1>. QED BY <1>4 DEF Refuses, s, k

(* A copy leaves the queue when its receiver accepts or refuses it.        *)
LEMMA OnItsWayStays ==
  ASSUME SentInv, [Next]_vars, NEW m \in Node, NEW n \in Node, NEW x,
         Genuine(x), OnItsWay(m, n, x)
  PROVE  OnItsWay(m, n, x)'
<1>. SUFFICES ASSUME Queued(m, n, x) PROVE OnItsWay(m, n, x)'
  BY RefusesStays DEF OnItsWay
<1>1. CASE UNCHANGED net
  BY <1>1 DEF OnItsWay, Queued
<1>2. CASE \E o \in Node, t \in Thread : Send(o, t)
  BY <1>2, SendStep DEF OnItsWay
<1>3. CASE \E o, f \in Node : Forward(o, f)
  BY <1>3, ForwardStep DEF OnItsWay
<1>4. ASSUME NEW o \in Node, NEW f \in Node, Incoming(o, f)
      PROVE  OnItsWay(m, n, x)'
  <2>1. PICK y : y = Head(net[o][f])
    OBVIOUS
  <2>2. /\ Genuine(y) /\ (Queued(m, n, x)' \/ (<<m, n>> = <<o, f>> /\ x = y))
        /\ \/ checkSequence(o, y) /\ Record(o, y)
           \/ ~ checkSequence(o, y) /\ UNCHANGED mSequences
        /\ UNCHANGED sent
    BY <1>4, <2>1, IncomingStep
  <2>3. CASE m = o /\ x = y /\ checkSequence(o, y)
    <3>1. x.number \in Nat /\ x.number <= x.number
      BY GenuineFacts
    <3>2. \A k \in Nat : Covers(m, x.source, k)' <=> k <= x.number
      BY <2>2, <2>3, RecordFacts
    <3>. QED BY <3>1, <3>2 DEF OnItsWay, Refuses
  <2>4. CASE m = o /\ x = y /\ ~ checkSequence(o, y)
    <3>1. Refuses(m, x)
      BY <2>4, CheckSequenceFacts DEF Refuses
    <3>. QED BY <3>1, RefusesStays DEF OnItsWay
  <2>. QED BY <2>2, <2>3, <2>4 DEF OnItsWay
<1>. QED
  BY <1>1, <1>2, <1>3, <1>4, NextCases
  DEF TakeSequence, SendToSelf, DeliverToSelf, Deliver, vars

-----------------------------------------------------------------------------
LEMMA CopiesComeFromStep ==
  ASSUME FloodInv, [Next]_vars, NEW n \in Node, NEW f \in Node, NEW x,
         Queued(n, f, x)' \/ InHandler(n, f, x)'
  PROVE  /\ Genuine(x)
         /\ Queued(n, f, x) \/ InHandler(n, f, x) \/ f = x.source \/ Refuses(f, x)
<1>. SUFFICES ASSUME ~ Queued(n, f, x), ~ InHandler(n, f, x)
              PROVE  Genuine(x) /\ (f = x.source \/ Refuses(f, x))
  BY DEF FloodInv, SentInv, MessagesAreSent, InHandler
<1>0. SentInv /\ AcceptedOnce
  BY DEF FloodInv
<1>1. CASE UNCHANGED <<net, rest>>
  BY <1>1 DEF Queued, InHandler
<1>2. CASE \E o \in Node, t \in Thread : Send(o, t)
  <2>1. PICK o \in Node, t \in Thread : Send(o, t)
    BY <1>2
  <2>2. PICK y : y = call[o][t].message
    OBVIOUS
  <2>3. /\ Genuine(y) /\ y.source = o /\ UNCHANGED rest
        /\ Queued(n, f, x)' => Queued(n, f, x) \/ (f = o /\ x = y)
    BY <1>0, <2>1, <2>2, SendStep
  <2>. QED BY <2>3 DEF InHandler
<1>3. CASE \E o, g \in Node : Forward(o, g)
  <2>1. PICK o \in Node, g \in Node : Forward(o, g)
    BY <1>3
  <2>2. PICK y : y = rest[o][g].message
    OBVIOUS
  <2>3. /\ Genuine(y) /\ rest[o][g] # Idle /\ rest'[o][g] = Then("deliver", y) /\ y \in Message
        /\ \A m, p \in Node : <<m, p>> # <<o, g>> => rest'[m][p] = rest[m][p]
        /\ Queued(n, f, x)' => Queued(n, f, x) \/ (f = o /\ x = y)
    BY <1>0, <2>1, <2>2, ForwardStep DEF Genuine
  <2>4. ~ InHandler(n, f, x)'
    BY <2>2, <2>3, RestFacts DEF InHandler
  <2>5. Accepted(o, y)
    BY <2>2, <2>3 DEF Accepted, InHandler
  <2>6. Refuses(o, y)
    BY <1>0, <2>5 DEF AcceptedOnce, Refuses
  <2>. QED BY <2>3, <2>4, <2>6
<1>4. CASE \E o, g \in Node : Incoming(o, g)
  <2>1. PICK o \in Node, g \in Node : Incoming(o, g)
    BY <1>4
  <2>2. PICK y : y = Head(net[o][g])
    OBVIOUS
  <2>. DEFINE step == IF y.destination = Everyone THEN "forward" ELSE "deliver"
  <2>3. /\ Genuine(y) /\ y \in Message /\ Queued(o, g, y)
        /\ rest'[o][g] = Then(step, y) \/ rest'[o][g] = Idle
        /\ \A m, p \in Node : <<m, p>> # <<o, g>> => rest'[m][p] = rest[m][p]
        /\ Queued(n, f, x)' => Queued(n, f, x)
    BY <1>0, <2>1, <2>2, IncomingStep DEF Genuine
  <2>4. Then(step, y).message = y
    BY <2>3, RestFacts
  <2>. HIDE DEF step
  <2>. QED BY <2>3, <2>4 DEF InHandler
<1>5. CASE \E o, g \in Node : Deliver(o, g)
  <2>1. PICK o \in Node, g \in Node : Deliver(o, g)
    BY <1>5
  <2>2. /\ rest'[o][g] = Idle /\ UNCHANGED net
        /\ \A m, p \in Node : <<m, p>> # <<o, g>> => rest'[m][p] = rest[m][p]
    BY <1>0, <2>1, DeliverStep
  <2>. QED BY <2>2 DEF InHandler, Queued
<1>. QED
  BY <1>1, <1>2, <1>3, <1>4, <1>5, NextCases, ZenonT(60)
  DEF TakeSequence, SendToSelf, DeliverToSelf, vars

(* Where send or broadcast ends, the message is on its way.                *)
LEMMA SourcesSendStep ==
  ASSUME SentInv, [Next]_vars, NEW x, Genuine(x)', ~ Sending(x)'
  PROVE  /\ Genuine(x)
         /\ \/ ~ Sending(x)
            \/ \A m \in Node : IsFor(m, x) /\ m \in Neighbors(x.source) \cup {x.source} =>
                 OnItsWay(m, x.source, x)'
<1>1. CASE UNCHANGED <<call, sent>>
  BY <1>1 DEF Sending, Called, Genuine
<1>2. CASE \E n \in Node, t \in Thread, destination \in Node \cup {Everyone} :
             TakeSequence(n, t, destination)
  <2>1. PICK n \in Node, t \in Thread, destination \in Node \cup {Everyone} :
          TakeSequence(n, t, destination)
    BY <1>2
  <2>2. PICK y : y = [source |-> n, destination |-> destination,
                      sequence |-> mSendSequence[n], number |-> Len(sent[n]) + 1]
    OBVIOUS
  <2>3. /\ \A z : Genuine(z)' => Genuine(z) \/ z = y
        /\ Genuine(y)' /\ call[n][t] = Idle /\ call'[n][t] = Then("send", y)
        /\ \A m \in Node, u \in Thread : <<m, u>> # <<n, t>> => call'[m][u] = call[m][u]
    BY <2>1, <2>2, TakeSequenceFacts
  <2>4. Then("send", y).step = "send" /\ Then("send", y).message = y
    BY <2>3, RestFacts DEF Genuine
  <2>5. Sending(y)'
    BY <2>2, <2>3, <2>4 DEF Sending, Called
  <2>6. Genuine(x) /\ x.source \in Node
    BY <2>3, <2>5 DEF Genuine, Message
  <2>7. ~ Sending(x)
    <3>. SUFFICES ASSUME NEW u \in Thread, Called(x.source, u, "send", x)
                  PROVE  Called(x.source, u, "send", x)'
      BY DEF Sending
    <3>. QED BY <2>3, <2>6, RestFacts DEF Called
  <2>. QED BY <2>6, <2>7
<1>3. CASE \E n \in Node, t \in Thread : Send(n, t)
  <2>1. PICK n \in Node, t \in Thread : Send(n, t)
    BY <1>3
  <2>2. PICK y : y = call[n][t].message
    OBVIOUS
  <2>3. /\ \A m \in Node, u \in Thread : <<m, u>> # <<n, t>> => call'[m][u] = call[m][u]
        /\ Called(n, t, "send", y) /\ y.source = n /\ UNCHANGED sent
        /\ \A m \in Node :
             Queued(m, n, y)' <=> Queued(m, n, y) \/ m \in Targets(n, y, n)
    BY <2>1, <2>2, SendStep
  <2>4. Genuine(x) /\ x.source \in Node
    BY <2>3 DEF Genuine, Message
  <2>5. CASE x = y
    <3>1. y.destination # n
      BY <2>1, <2>2 DEF Send
    <3>2. \A m \in Node : IsFor(m, x) /\ m \in Neighbors(n) \cup {n} =>
            m \in Targets(n, y, n)
      BY <2>3, <2>5, <3>1 DEF IsFor, Targets
    <3>. QED BY <2>3, <2>4, <2>5, <3>2 DEF OnItsWay
  <2>6. CASE x # y
    BY <2>3, <2>4, <2>6 DEF Sending, Called
  <2>. QED BY <2>5, <2>6
<1>4. CASE \E n \in Node, t \in Thread : SendToSelf(n, t)
  <2>1. PICK n \in Node, t \in Thread : SendToSelf(n, t)
    BY <1>4
  <2>2. PICK y : y = call[n][t].message
    OBVIOUS
  <2>3. /\ \A m \in Node, u \in Thread : <<m, u>> # <<n, t>> => call'[m][u] = call[m][u]
        /\ Called(n, t, "send", y) /\ y.source = n /\ y.destination = n /\ UNCHANGED sent
        /\ Genuine(y)
        /\ \/ checkSequence(n, y) /\ Record(n, y)
           \/ ~ checkSequence(n, y) /\ UNCHANGED mSequences
    BY <2>1, <2>2, SendToSelfStep
  <2>4. Genuine(x) /\ x.source \in Node
    BY <2>3 DEF Genuine, Message
  <2>5. CASE x = y
    <3>1. Refuses(n, x)'
      <4>1. CASE checkSequence(n, y)
        <5>1. y.number \in Nat /\ y.number <= y.number
          BY <2>3, GenuineFacts
        <5>. QED BY <2>3, <2>5, <4>1, <5>1, RecordFacts DEF Refuses
      <4>2. CASE ~ checkSequence(n, y)
        <5>1. Refuses(n, y)
          BY <2>3, <4>2, CheckSequenceFacts DEF Refuses
        <5>. QED BY <2>3, <2>5, <5>1, RefusesStays
      <4>. QED BY <4>1, <4>2
    <3>2. \A m \in Node : IsFor(m, x) => m = n
      BY <2>3, <2>5, NeighborFacts DEF IsFor
    <3>. QED BY <2>3, <2>4, <2>5, <3>1, <3>2 DEF OnItsWay
  <2>6. CASE x # y
    BY <2>3, <2>4, <2>6 DEF Sending, Called
  <2>. QED BY <2>5, <2>6
<1>5. CASE \E n \in Node, t \in Thread : DeliverToSelf(n, t)
  <2>1. PICK n \in Node, t \in Thread : DeliverToSelf(n, t)
    BY <1>5
  <2>2. /\ \A m \in Node, u \in Thread : <<m, u>> # <<n, t>> => call'[m][u] = call[m][u]
        /\ call[n][t].step = "deliver" /\ UNCHANGED sent
    BY <2>1, DeliverToSelfStep DEF DeliverToSelf
  <2>3. Genuine(x) /\ x.source \in Node
    BY <2>2 DEF Genuine, Message
  <2>. QED BY <2>2, <2>3 DEF Sending, Called
<1>. QED
  BY <1>1, <1>2, <1>3, <1>4, <1>5, NextCases DEF Incoming, Forward, Deliver, vars

(* Where a node has forwarded a broadcast, it is on its way.               *)
LEMMA NodesForwardStep ==
  ASSUME FloodInv, [Next]_vars, NEW n \in Node, NEW x, x.destination = Everyone,
         HasForwarded(n, x)'
  PROVE  /\ Genuine(x)
         /\ \/ HasForwarded(n, x)
            \/ \A m \in Neighbors(n) \ {x.source} : OnItsWay(m, n, x)'
<1>0. SentInv /\ AcceptedOnce /\ Propagates
  BY DEF FloodInv
<1>1. HasForwarded(n, x) => Genuine(x)
  <2>1. Got(n, x) => Genuine(x)
    BY <1>0 DEF SentInv, MessagesAreSent
  <2>2. ASSUME NEW f \in Node, Handled(n, f, "deliver", x) PROVE Genuine(x)
    BY <1>0, <2>2, RestFacts DEF SentInv, MessagesAreSent, Handled
  <2>. QED BY <2>1, <2>2 DEF HasForwarded
<1>2. CASE UNCHANGED <<rest, received>>
  BY <1>1, <1>2 DEF HasForwarded, Got, Handled
<1>3. CASE \E o \in Node, t \in Thread : DeliverToSelf(o, t)
  <2>1. PICK o \in Node, t \in Thread : DeliverToSelf(o, t)
    BY <1>3
  <2>2. PICK y : y = call[o][t].message
    OBVIOUS
  <2>3. /\ Called(o, t, "deliver", y) /\ UNCHANGED rest
        /\ \A m \in Node : \A z : Got(m, z)' <=> Got(m, z) \/ (m = o /\ z = y)
    BY <1>0, <2>1, <2>2, DeliverToSelfStep
  <2>4. y.destination # Everyone
    BY <1>0, <2>3 DEF Propagates, CallsDeliverOwn, InCall
  <2>5. HasForwarded(n, x)
    BY <2>3, <2>4 DEF HasForwarded, Handled
  <2>. QED BY <1>1, <2>5
<1>4. CASE \E o, g \in Node : Incoming(o, g)
  <2>1. PICK o \in Node, g \in Node : Incoming(o, g)
    BY <1>4
  <2>2. PICK y : y = Head(net[o][g])
    OBVIOUS
  <2>3. /\ Genuine(y) /\ y \in Message /\ UNCHANGED received
        /\ \/ rest'[o][g] = Then(IF y.destination = Everyone THEN "forward" ELSE "deliver", y)
           \/ rest'[o][g] = Idle
        /\ \A m, p \in Node : <<m, p>> # <<o, g>> => rest'[m][p] = rest[m][p]
    BY <1>0, <2>1, <2>2, IncomingStep DEF Genuine
  <2>4. /\ Then("forward", y).step # "deliver" /\ Idle.step # "deliver"
        /\ Then("deliver", y).message = y
    BY <2>3, RestFacts
  <2>5. ~ Handled(o, g, "deliver", x)'
    <3>1. CASE y.destination = Everyone
      BY <2>3, <2>4, <3>1 DEF Handled
    <3>2. CASE y.destination # Everyone
      BY <2>3, <2>4, <3>2 DEF Handled
    <3>. QED BY <3>1, <3>2
  <2>6. HasForwarded(n, x)
    BY <2>3, <2>5 DEF HasForwarded, Handled, Got
  <2>. QED BY <1>1, <2>6
<1>5. CASE \E o, g \in Node : Forward(o, g)
  <2>1. PICK o \in Node, g \in Node : Forward(o, g)
    BY <1>5
  <2>2. PICK y : y = rest[o][g].message
    OBVIOUS
  <2>3. /\ Genuine(y) /\ rest[o][g] # Idle /\ rest'[o][g] = Then("deliver", y) /\ y \in Message
        /\ \A m, p \in Node : <<m, p>> # <<o, g>> => rest'[m][p] = rest[m][p]
        /\ \A m \in Node : Queued(m, o, y)' <=> Queued(m, o, y) \/ m \in Targets(o, y, g)
        /\ UNCHANGED received
    BY <1>0, <2>1, <2>2, ForwardStep DEF Genuine
  <2>4. CASE n = o /\ x = y
    <3>1. g = x.source \/ Refuses(g, x)
      BY <1>0, <2>2, <2>3, <2>4 DEF Propagates, CopiesComeFrom, InHandler
    <3>2. g = x.source \/ Refuses(g, x)'
      BY <1>0, <2>3, <2>4, <3>1, RefusesStays
    <3>3. \A m \in Neighbors(n) \ {x.source} : m \in Targets(n, x, g) \/ m = g
      BY DEF Targets
    <3>. QED BY <2>3, <2>4, <3>2, <3>3, NeighborFacts DEF OnItsWay
  <2>5. CASE ~ (n = o /\ x = y)
    <3>1. Then("deliver", y).message = y
      BY <2>3, RestFacts
    <3>2. HasForwarded(n, x)
      BY <2>3, <2>5, <3>1 DEF HasForwarded, Handled, Got
    <3>. QED BY <1>1, <3>2
  <2>. QED BY <2>4, <2>5
<1>6. CASE \E o, g \in Node : Deliver(o, g)
  <2>1. PICK o \in Node, g \in Node : Deliver(o, g)
    BY <1>6
  <2>2. PICK y : y = rest[o][g].message
    OBVIOUS
  <2>3. /\ Handled(o, g, "deliver", y) /\ rest'[o][g] = Idle
        /\ \A m, p \in Node : <<m, p>> # <<o, g>> => rest'[m][p] = rest[m][p]
        /\ \A m \in Node : \A z : Got(m, z)' <=> Got(m, z) \/ (m = o /\ z = y)
    BY <1>0, <2>1, <2>2, DeliverStep
  <2>4. HasForwarded(n, x)
    BY <2>3, RestFacts DEF HasForwarded, Handled
  <2>. QED BY <1>1, <2>4
<1>. QED
  BY <1>2, <1>3, <1>4, <1>5, <1>6, NextCases, ZenonT(60) DEF TakeSequence, Send, SendToSelf, vars

LEMMA CallsDeliverOwnStep ==
  ASSUME FloodInv, [Next]_vars, NEW n \in Node, NEW t \in Thread, NEW x,
         InCall(n, t, x)'
  PROVE  x.destination # Everyone
<1>0. SentInv /\ CallsDeliverOwn
  BY DEF FloodInv, Propagates
<1>1. CASE call' = call
  BY <1>0, <1>1 DEF CallsDeliverOwn, InCall, Called
<1>2. CASE \E m \in Node, u \in Thread, destination \in Node \cup {Everyone} :
             TakeSequence(m, u, destination)
  <2>1. PICK m \in Node, u \in Thread, destination \in Node \cup {Everyone} :
          TakeSequence(m, u, destination)
    BY <1>2
  <2>2. PICK y : y = [source |-> m, destination |-> destination,
                      sequence |-> mSendSequence[m], number |-> Len(sent[m]) + 1]
    OBVIOUS
  <2>3. /\ call'[m][u] = Then("send", y)
        /\ \A o \in Node, v \in Thread : <<o, v>> # <<m, u>> => call'[o][v] = call[o][v]
    BY <1>0, <2>1, <2>2, TakeSequenceFacts
  <2>4. Then("send", y).step # "deliver"
    BY DEF Then
  <2>. QED BY <1>0, <2>3, <2>4 DEF CallsDeliverOwn, InCall, Called
<1>3. CASE \E m \in Node, u \in Thread : Send(m, u) \/ DeliverToSelf(m, u)
  <2>1. PICK m \in Node, u \in Thread : /\ call'[m][u] = Idle
          /\ \A o \in Node, v \in Thread : <<o, v>> # <<m, u>> => call'[o][v] = call[o][v]
    BY <1>0, <1>3, SendStep, DeliverToSelfStep
  <2>. QED BY <1>0, <2>1, RestFacts DEF CallsDeliverOwn, InCall, Called
<1>4. CASE \E m \in Node, u \in Thread : SendToSelf(m, u)
  <2>1. PICK m \in Node, u \in Thread : SendToSelf(m, u)
    BY <1>4
  <2>2. PICK y : y = call[m][u].message
    OBVIOUS
  <2>3. /\ y.destination = m /\ y \in Message
        /\ call'[m][u] = Then("deliver", y) \/ call'[m][u] = Idle
        /\ \A o \in Node, v \in Thread : <<o, v>> # <<m, u>> => call'[o][v] = call[o][v]
    BY <1>0, <2>1, <2>2, SendToSelfStep DEF Genuine
  <2>4. Then("deliver", y).message = y /\ Idle.step # "deliver" /\ m # Everyone
    BY <2>3, RestFacts, NeighborFacts
  <2>. QED BY <1>0, <2>3, <2>4 DEF CallsDeliverOwn, InCall, Called
<1>. QED
  BY <1>1, <1>2, <1>3, <1>4, NextCases DEF Incoming, Forward, Deliver, vars

LEMMA NextPropagates == FloodInv /\ [Next]_vars => Propagates'
<1>. SUFFICES ASSUME FloodInv, [Next]_vars PROVE Propagates'
  OBVIOUS
<1>0. SentInv /\ Propagates /\ \A x : Genuine(x) => x.source \in Node
  BY GenuineFacts DEF FloodInv
<1>1. CopiesComeFrom'
  <2>. SUFFICES ASSUME NEW n \in Node, NEW f \in Node, NEW x,
                       Queued(n, f, x)' \/ InHandler(n, f, x)'
                PROVE  f = x.source \/ Refuses(f, x)'
    BY DEF CopiesComeFrom
  <2>1. Genuine(x) /\ (f = x.source \/ Refuses(f, x))
    BY <1>0, CopiesComeFromStep DEF Propagates, CopiesComeFrom
  <2>. QED BY <1>0, <2>1, RefusesStays
<1>2. SourcesSend'
  <2>. SUFFICES ASSUME NEW x, Genuine(x)', ~ Sending(x)', NEW m \in Node, IsFor(m, x),
                       m \in Neighbors(x.source) \cup {x.source}
                PROVE  OnItsWay(m, x.source, x)'
    BY DEF SourcesSend, IsFor, Neighbors
  <2>1. Genuine(x) /\ (OnItsWay(m, x.source, x) \/ OnItsWay(m, x.source, x)')
    BY <1>0, SourcesSendStep DEF Propagates, SourcesSend
  <2>. QED BY <1>0, <2>1, OnItsWayStays
<1>3. NodesForward'
  <2>. SUFFICES ASSUME NEW n \in Node, NEW x, x.destination = Everyone, HasForwarded(n, x)',
                       NEW m \in Neighbors(n) \ {x.source}
                PROVE  OnItsWay(m, n, x)'
    BY DEF NodesForward, Neighbors
  <2>1. Genuine(x) /\ m \in Node /\ (OnItsWay(m, n, x) \/ OnItsWay(m, n, x)')
    BY <1>0, NodesForwardStep, NeighborFacts DEF Propagates, NodesForward
  <2>. QED BY <1>0, <2>1, OnItsWayStays
<1>4. CallsDeliverOwn'
  BY CallsDeliverOwnStep DEF CallsDeliverOwn
<1>. QED BY <1>1, <1>2, <1>3, <1>4 DEF Propagates

LEMMA InitPropagates == Init => Propagates
<1>. SUFFICES ASSUME Init PROVE Propagates
  OBVIOUS
<1>1. \A n \in Node : /\ \A x : ~ Got(n, x)
                      /\ \A f \in Node : \A x : /\ ~ Queued(n, f, x) /\ ~ InHandler(n, f, x)
                                               /\ ~ Handled(n, f, "deliver", x)
                      /\ \A t \in Thread : \A x : ~ InCall(n, t, x)
  BY RestFacts DEF Init, Got, Queued, InHandler, Handled, InCall, Called
<1>2. \A x : ~ Genuine(x)
  <2>. SUFFICES ASSUME NEW x, Genuine(x) PROVE FALSE
    OBVIOUS
  <2>1. x.source \in Node /\ x.number \in DOMAIN sent[x.source]
    BY DEF Genuine, Message
  <2>. QED BY <2>1 DEF Init
<1>. QED
  BY <1>1, <1>2
  DEF Propagates, CopiesComeFrom, SourcesSend, NodesForward, CallsDeliverOwn, HasForwarded

LEMMA FloodSafety == Spec => []FloodInv
BY InitSentInv, NextSentInv, InitAcceptedOnce, NextAcceptedOnce, InitPropagates,
   NextPropagates, PTL DEF Spec, FloodInv

-----------------------------------------------------------------------------
(* At rest, what is on its way has arrived, or a newer message has.        *)
LEMMA QuietFacts ==
  ASSUME FloodInv, Quiet
  PROVE  /\ \A x : ~ Sending(x) \/ ~ Genuine(x)
         /\ \A n \in Node : \A x : Accepted(n, x) => Got(n, x)
         /\ \A m, n \in Node : \A x : ~ Queued(m, n, x)
         /\ \A m \in Node : \A x : Genuine(x) /\ Refuses(m, x) =>
              Got(m, x) \/ Overtaken(m, x.source, x.number)
         /\ \A m \in Node : \A x : Genuine(x) =>
              (Got(m, x) <=> HasReceived(m, x.source, x.number))
<1>0. SentInv /\ AcceptedOnce
  BY DEF FloodInv
<1>1. \A x : ~ Sending(x) \/ ~ Genuine(x)
  BY GenuineFacts, RestFacts DEF Quiet, Sending, Called
<1>2. \A n \in Node : \A x : Accepted(n, x) => Got(n, x)
  BY RestFacts DEF Quiet, Accepted, InHandler, InCall, Called
<1>3. \A m, n \in Node : \A x : ~ Queued(m, n, x)
  BY DEF Quiet, Queued
<1>4. \A m \in Node : \A x : Got(m, x) => Genuine(x)
  BY <1>0 DEF SentInv, MessagesAreSent
<1>5. \A x, y : Genuine(x) /\ Genuine(y) /\ x.source = y.source /\ x.number = y.number => x = y
  BY DEF Genuine
<1>6. ASSUME NEW m \in Node, NEW x, Genuine(x), Refuses(m, x)
      PROVE  Got(m, x) \/ Overtaken(m, x.source, x.number)
  <2>1. x.source \in Node /\ x.number \in Nat
    BY <1>6, GenuineFacts
  <2>2. PICK y : Accepted(m, y) /\ y.source = x.source /\ y.number >= x.number
    BY <1>0, <1>6, <2>1 DEF AcceptedOnce, Refuses
  <2>3. Got(m, y) /\ Genuine(y)
    BY <1>2, <1>4, <2>2
  <2>4. y.number \in Nat
    BY <2>3, GenuineFacts
  <2>5. CASE y.number = x.number
    BY <1>5, <1>6, <2>2, <2>3, <2>5
  <2>6. CASE y.number > x.number
    BY <2>2, <2>3, <2>6 DEF Got, Overtaken
  <2>. QED BY <2>1, <2>2, <2>4, <2>5, <2>6
<1>7. ASSUME NEW m \in Node, NEW x, Genuine(x)
      PROVE  Got(m, x) <=> HasReceived(m, x.source, x.number)
  <2>1. Got(m, x) => HasReceived(m, x.source, x.number)
    BY DEF Got, HasReceived
  <2>2. ASSUME HasReceived(m, x.source, x.number) PROVE Got(m, x)
    <3>1. PICK i \in DOMAIN received[m] :
            received[m][i].source = x.source /\ received[m][i].number = x.number
      BY <2>2 DEF HasReceived
    <3>2. PICK y : y = received[m][i]
      OBVIOUS
    <3>3. Got(m, y) /\ y.source = x.source /\ y.number = x.number
      BY <3>1, <3>2 DEF Got
    <3>. QED BY <1>4, <1>5, <1>7, <3>3
  <2>. QED BY <2>1, <2>2
<1>. QED BY <1>1, <1>2, <1>3, <1>6, <1>7

(* A set that holds the source, and with a node its neighbours, is all.    *)
LEMMA FloodReaches ==
  ASSUME Connected, NEW s \in Node, NEW P \in SUBSET Node,
         \A m \in P \cup {s} : \A o \in Neighbors(m) \ {s} : o \in P
  PROVE  Node \ {s} \subseteq P
<1>. DEFINE S == P \cup {s}
<1>1. S \in SUBSET Node /\ S # {} /\ \A m \in S : Neighbors(m) \subseteq S
  OBVIOUS
<1>. HIDE DEF S
<1>2. S = Node
  BY <1>1 DEF Connected
<1>. QED BY <1>2 DEF S

(* Nothing is lost but to a reordering: a message that did not get to a    *)
(* node it is for was dropped for a newer one of its source, by that node  *)
(* if the source sends to it itself, and otherwise perhaps by one on the   *)
(* way.  Hence the last message of a source gets everywhere.               *)
THEOREM TransportLostOnlyToNewer == Connected => (Spec => []LostOnlyToNewer)
<1>1. ASSUME Connected, FloodInv PROVE LostOnlyToNewer
  <2>. SUFFICES ASSUME Quiet, NEW s \in Node, NEW n \in Node, NEW k \in DOMAIN sent[s],
                       IsFor(n, sent[s][k]), ~ HasReceived(n, s, k)
                PROVE  \E m \in (Node \ {s}) \cup {n} :
                         Overtaken(m, s, k) /\ (n \in Neighbors(s) \cup {s} => m = n)
    BY DEF LostOnlyToNewer
  <2>1. PICK x : x = sent[s][k]
    OBVIOUS
  <2>2. Genuine(x) /\ x.source = s /\ x.number = k /\ ~ Got(n, x) /\ ~ Sending(x)
    <3>1. SentInv
      BY <1>1 DEF FloodInv
    <3>2. Genuine(x) /\ x.source = s /\ x.number = k
      BY <2>1, <3>1, RowFacts DEF SentInv, InRow
    <3>. QED BY <1>1, <3>2, QuietFacts
  <2>3. Propagates
    BY <1>1 DEF FloodInv
  <2>4. \A m \in Node : IsFor(m, x) /\ m \in Neighbors(s) \cup {s} =>
          Got(m, x) \/ Overtaken(m, s, k)
    BY <1>1, <2>2, <2>3, QuietFacts DEF Propagates, SourcesSend, OnItsWay
  <2>5. CASE n \in Neighbors(s) \cup {s}
    BY <2>1, <2>2, <2>4, <2>5
  <2>6. CASE n \notin Neighbors(s) \cup {s}
    <3>1. x.destination = Everyone
      BY <2>1, <2>2, <2>6 DEF IsFor
    <3>2. \A m \in Node : Got(m, x) => \A o \in Neighbors(m) \ {s} :
            Got(o, x) \/ Overtaken(o, s, k)
      BY <1>1, <2>2, <2>3, <3>1, QuietFacts, NeighborFacts
      DEF Propagates, NodesForward, HasForwarded, OnItsWay
    <3>3. \A o \in Neighbors(s) : Got(o, x) \/ Overtaken(o, s, k)
      BY <2>2, <2>4, <3>1, NeighborFacts DEF IsFor
    <3>4. ~ \A o \in Node \ {s} : ~ Overtaken(o, s, k)
      <4>. SUFFICES ASSUME \A o \in Node \ {s} : ~ Overtaken(o, s, k) PROVE FALSE
        OBVIOUS
      <4>. DEFINE P == {m \in Node : Got(m, x)}
      <4>1. \A m \in P \cup {s} : \A o \in Neighbors(m) \ {s} : o \in P
        BY <3>2, <3>3, NeighborFacts
      <4>. P \in SUBSET Node
        OBVIOUS
      <4>. HIDE DEF P
      <4>2. n \in P
        BY <1>1, <2>6, <4>1, FloodReaches
      <4>. QED BY <2>2, <4>2 DEF P
    <3>. QED BY <2>6, <3>4
  <2>. QED BY <2>5, <2>6
<1>. SUFFICES ASSUME Connected PROVE Spec => []LostOnlyToNewer
  OBVIOUS
<1>2. FloodInv => LostOnlyToNewer
  BY <1>1
<1>. QED BY <1>2, FloodSafety, PTL

-----------------------------------------------------------------------------
(* With one thread, one handler or one call at a time is at work.          *)
OneAtWork ==
    /\ \A n, f, m, g \in Node :
         rest[n][f] # Idle /\ rest[m][g] # Idle => n = m /\ f = g
    /\ \A n, m \in Node, t, u \in Thread :
         call[n][t] # Idle /\ call[m][u] # Idle => n = m /\ t = u
    /\ \A n, f, m \in Node, t \in Thread : rest[n][f] = Idle \/ call[m][t] = Idle

(* What has been received of a source is older than what is at work.       *)
OlderReceived ==
    \A n \in Node : \A x :
      (\E f \in Node : InHandler(n, f, x)) \/ (\E t \in Thread : InCall(n, t, x)) =>
        \A i \in DOMAIN received[n] :
          received[n][i].source = x.source => received[n][i].number < x.number

(* An older broadcast of the source, which is for n.                       *)
Before(n, y, x) ==
    /\ Genuine(y) /\ y.destination = Everyone /\ n # y.source
    /\ y.source = x.source /\ y.number < x.number

(* Nothing but what has been accepted is refused, of the broadcasts of the *)
(* other nodes.                                                            *)
Gapless ==
    \A n \in Node : \A y :
      Genuine(y) /\ y.destination = Everyone /\ n # y.source /\ Refuses(n, y) =>
        Accepted(n, y)

(* A broadcast arrives by each channel before what its source sent later.  *)
QueuesInOrder ==
    \A n, m \in Node : \A i \in DOMAIN net[n][m] : \A x, y :
      x = net[n][m][i] /\ Before(n, y, x) =>
        Refuses(n, y) \/ \E j \in DOMAIN net[n][m] : j < i /\ net[n][m][j] = y

ThreadInv == FloodInv /\ OneAtWork /\ OlderReceived /\ InOrder /\ Gapless /\ QueuesInOrder

LEMMA WorkEnds ==
  ASSUME OneAtWork,
         \A m, g \in Node : rest'[m][g] # Idle => rest[m][g] # Idle,
         \A m \in Node, u \in Thread : call'[m][u] # Idle => call[m][u] # Idle
  PROVE  OneAtWork'
BY DEF OneAtWork

LEMMA NextOneAtWork ==
  ASSUME SingleThread, SentInv, OneAtWork, [Next]_vars
  PROVE  OneAtWork'
<1>1. CASE \E n \in Node, t \in Thread, destination \in Node \cup {Everyone} :
             TakeSequence(n, t, destination)
  <2>1. PICK n \in Node, t \in Thread, destination \in Node \cup {Everyone} :
          TakeSequence(n, t, destination)
    BY <1>1
  <2>2. PICK y : y = [source |-> n, destination |-> destination,
                      sequence |-> mSendSequence[n], number |-> Len(sent[n]) + 1]
    OBVIOUS
  <2>3. \A m \in Node, u \in Thread : <<m, u>> # <<n, t>> => call'[m][u] = call[m][u]
    BY <2>1, <2>2, TakeSequenceFacts
  <2>4. MayStart /\ UNCHANGED rest
    BY <2>1 DEF TakeSequence
  <2>. QED BY <2>3, <2>4 DEF MayStart, OneAtWork
<1>2. CASE \E n, f \in Node : Incoming(n, f)
  <2>1. PICK n \in Node, f \in Node : Incoming(n, f)
    BY <1>2
  <2>2. /\ MayStart /\ UNCHANGED call
        /\ \A m, o \in Node : <<m, o>> # <<n, f>> => rest'[m][o] = rest[m][o]
    BY <2>1, IncomingStep
  <2>. QED BY <2>2 DEF MayStart, OneAtWork
<1>3. ASSUME NEW n \in Node, NEW t \in Thread,
             Send(n, t) \/ SendToSelf(n, t) \/ DeliverToSelf(n, t)
      PROVE  OneAtWork'
  <2>1. /\ call[n][t] # Idle /\ UNCHANGED rest
        /\ \A m \in Node, u \in Thread : <<m, u>> # <<n, t>> => call'[m][u] = call[m][u]
    BY <1>3, SendStep, SendToSelfStep, DeliverToSelfStep
  <2>. QED BY <2>1, WorkEnds
<1>4. ASSUME NEW n \in Node, NEW f \in Node, Forward(n, f) \/ Deliver(n, f)
      PROVE  OneAtWork'
  <2>1. /\ rest[n][f] # Idle /\ UNCHANGED call
        /\ \A m, o \in Node : <<m, o>> # <<n, f>> => rest'[m][o] = rest[m][o]
    BY <1>4, ForwardStep, DeliverStep
  <2>. QED BY <2>1, WorkEnds
<1>5. CASE UNCHANGED vars
  BY <1>5 DEF vars, OneAtWork
<1>. QED BY <1>1, <1>2, <1>3, <1>4, <1>5, NextCases

LEMMA CoversDown ==
  ASSUME SentInv, NEW n \in Node, NEW s \in Node, NEW k \in Nat, NEW l \in Nat,
         Covers(n, s, l), k <= l
  PROVE  Covers(n, s, k)
<1>1. PICK j \in DOMAIN sent[s] : j >= l /\ mSequences[n][s] = sent[s][j].sequence
  BY DEF Covers
<1>2. j \in Nat
  BY RowFacts
<1>3. j >= k
  BY <1>1, <1>2
<1>. QED BY <1>1, <1>3 DEF Covers

(* What is accepted is newer than what has been.                           *)
LEMMA AcceptsNewer ==
  ASSUME SentInv, AcceptedOnce, NEW n \in Node, NEW x, Accepts(n, x),
         NEW z, Accepted(n, z), z.source = x.source
  PROVE  z.number < x.number
<1>1. Genuine(z) /\ Covers(n, z.source, z.number) /\ Genuine(x) /\ ~ Covers(n, x.source, x.number)
  BY DEF AcceptedOnce, Accepts
<1>2. x.source \in Node /\ x.number \in Nat /\ z.number \in Nat
  BY <1>1, GenuineFacts
<1>3. ~ x.number <= z.number
  BY <1>1, <1>2, CoversDown
<1>. QED BY <1>2, <1>3

LEMMA WorkFacts ==
  /\ \A n, f \in Node : \A x : InHandler(n, f, x) => rest[n][f] # Idle /\ rest[n][f].message = x
  /\ \A n \in Node, t \in Thread : \A x :
       InCall(n, t, x) => call[n][t] # Idle /\ call[n][t].message = x
BY RestFacts DEF InHandler, InCall, Called

LEMMA NextInOrder ==
  ASSUME SentInv, AcceptedOnce, OneAtWork, OlderReceived, InOrder, [Next]_vars
  PROVE  OlderReceived' /\ InOrder'
<1>1. CASE AcceptedStay
  BY <1>1 DEF AcceptedStay, HandlersStay, CallsStay, OlderReceived, InOrder
<1>2. ASSUME NEW n \in Node, NEW x, Accepts(n, x),
             (\E f \in Node : HandlerTakes(n, f, x)) \/ (\E t \in Thread : CallTakes(n, t, x))
      PROVE  OlderReceived' /\ InOrder'
  <2>1. received' = received
    BY <1>2 DEF Accepts
  <2>2. \A i \in DOMAIN received[n] :
          received[n][i].source = x.source => received[n][i].number < x.number
    BY <1>2, AcceptsNewer DEF Accepted, Got
  <2>3. \A m \in Node : \A z :
          (\E g \in Node : InHandler(m, g, z)') \/ (\E u \in Thread : InCall(m, u, z)') =>
            \/ (\E g \in Node : InHandler(m, g, z)) \/ (\E u \in Thread : InCall(m, u, z))
            \/ m = n /\ z = x
    BY <1>2 DEF HandlerTakes, CallTakes, HandlersStay, CallsStay
  <2>. QED BY <2>1, <2>2, <2>3 DEF OlderReceived, InOrder
<1>3. ASSUME NEW n \in Node, NEW x, Delivers(n, x),
             (\E f \in Node : HandlerGives(n, f, x)) \/ (\E t \in Thread : CallGives(n, t, x))
      PROVE  OlderReceived' /\ InOrder'
  <2>1. /\ Genuine(x) /\ received'[n] = Append(received[n], x)
        /\ \A m \in Node : m # n => received'[m] = received[m]
    BY <1>3 DEF Delivers
  <2>2. (\E f \in Node : InHandler(n, f, x)) \/ (\E t \in Thread : InCall(n, t, x))
    BY <1>3 DEF HandlerGives, CallGives
  <2>3. /\ \A m, g \in Node : \A z : ~ InHandler(m, g, z)'
        /\ \A m \in Node, u \in Thread : \A z : ~ InCall(m, u, z)'
    <3>1. CASE \E f \in Node : HandlerGives(n, f, x)
      BY <3>1, WorkFacts DEF HandlerGives, CallsStay, OneAtWork
    <3>2. CASE \E t \in Thread : CallGives(n, t, x)
      BY <3>2, WorkFacts DEF CallGives, HandlersStay, OneAtWork
    <3>. QED BY <1>3, <3>1, <3>2
  <2>4. OlderReceived'
    BY <2>3 DEF OlderReceived
  <2>5. ASSUME NEW m \in Node, NEW i \in DOMAIN received'[m], NEW j \in DOMAIN received'[m],
               i < j, received'[m][i].source = received'[m][j].source
        PROVE  received'[m][i].number < received'[m][j].number
    <3>1. CASE m # n
      BY <2>1, <2>5, <3>1 DEF InOrder
    <3>2. CASE m = n
      <4>. DEFINE s == received[n]
      <4>1. s \in Seq(Message) /\ x \in Message /\ received'[m] = Append(s, x)
        BY <2>1, <3>2 DEF SentInv, TypeOK, Genuine
      <4>2. \A k \in DOMAIN s : s[k].source = x.source => s[k].number < x.number
        BY <2>2 DEF OlderReceived
      <4>3. \A k, l \in DOMAIN s : k < l /\ s[k].source = s[l].source => s[k].number < s[l].number
        BY DEF InOrder
      <4>. HIDE DEF s
      <4>. QED BY <2>5, <4>1, <4>2, <4>3, AppendFacts
    <3>. QED BY <3>1, <3>2
  <2>6. InOrder'
    BY <2>5 DEF InOrder
  <2>. QED BY <2>4, <2>6
<1>. QED
  BY <1>1, <1>2, <1>3, AcceptedCases DEF HandlerTakes, CallTakes, HandlerGives, CallGives

-----------------------------------------------------------------------------
LEMMA AcceptedStays ==
  ASSUME SentInv, AcceptedOnce, [Next]_vars, NEW n \in Node, NEW x, Accepted(n, x)
  PROVE  Accepted(n, x)'
<1>1. \A z : Genuine(z) => Genuine(z)'
  BY GenuineStays
<1>2. CASE AcceptedStay
  BY <1>1, <1>2, StayAcceptedOnce
<1>3. CASE \E m, f \in Node, z \in Message : HandlerTakes(m, f, z)
  BY <1>1, <1>3, TakenOnce DEF HandlerTakes
<1>4. CASE \E m, f \in Node, z \in Message : HandlerGives(m, f, z)
  BY <1>1, <1>4, GivenOnce DEF HandlerGives
<1>5. CASE \E m \in Node, t \in Thread, z \in Message : CallTakes(m, t, z)
  BY <1>1, <1>5, TakenOnce DEF CallTakes
<1>6. CASE \E m \in Node, t \in Thread, z \in Message : CallGives(m, t, z)
  BY <1>1, <1>6, GivenOnce DEF CallGives
<1>. QED BY <1>2, <1>3, <1>4, <1>5, <1>6, AcceptedCases

(* A new message is newer than all of its source, and nobody refuses it.   *)
LEMMA NewIsNewest ==
  ASSUME SentInv, [Next]_vars, NEW y, Genuine(y)', ~ Genuine(y)
  PROVE  /\ \A n \in Node : ~ Refuses(n, y)'
         /\ \A x : Genuine(x) /\ x.source = y.source => x.number < y.number
<1>1. PICK n \in Node, t \in Thread, destination \in Node \cup {Everyone} :
        TakeSequence(n, t, destination)
  BY NextCases DEF Send, SendToSelf, DeliverToSelf, Incoming, Forward, Deliver, vars, Genuine
<1>2. PICK z : z = [source |-> n, destination |-> destination,
                    sequence |-> mSendSequence[n], number |-> Len(sent[n]) + 1]
  OBVIOUS
<1>3. /\ y = z /\ \A m, s \in Node, k \in Nat : Covers(m, s, k)' <=> Covers(m, s, k)
  BY <1>1, <1>2, TakeSequenceFacts
<1>4. y.source = n /\ y.number = Len(sent[n]) + 1 /\ Len(sent[n]) \in Nat /\ y.number \in Nat
      /\ \A l \in DOMAIN sent[n] : l \in Nat /\ l <= Len(sent[n])
  BY <1>2, <1>3, RowFacts
<1>5. \A m \in Node : ~ Covers(m, n, y.number)
  BY <1>4 DEF Covers
<1>6. \A m \in Node : ~ Refuses(m, y)'
  BY <1>3, <1>4, <1>5 DEF Refuses
<1>7. \A x : Genuine(x) /\ x.source = n => x.number < y.number
  BY <1>4 DEF Genuine
<1>. QED BY <1>4, <1>6, <1>7

(* A broadcast that a node refuses from now on is one that it accepts, as  *)
(* all that the source sent before has arrived.                            *)
LEMMA NextGapless ==
  ASSUME ThreadInv, [Next]_vars
  PROVE  Gapless'
<1>0. SentInv /\ AcceptedOnce /\ Gapless /\ QueuesInOrder
  BY DEF ThreadInv, FloodInv
<1>. SUFFICES ASSUME NEW n \in Node, NEW y, Genuine(y)', y.destination = Everyone,
                     n # y.source, Refuses(n, y)'
              PROVE  Accepted(n, y)'
  BY DEF Gapless
<1>1. Genuine(y) /\ y.source \in Node /\ y.number \in Nat
  BY <1>0, NewIsNewest, GenuineFacts
<1>2. CASE Refuses(n, y)
  BY <1>0, <1>1, <1>2, AcceptedStays DEF Gapless
<1>3. CASE ~ Refuses(n, y)
  <2>1. ~ Covers(n, y.source, y.number) /\ Covers(n, y.source, y.number)'
    BY <1>3 DEF Refuses
  <2>2. ~ \A m, s \in Node, k \in Nat : Covers(m, s, k)' <=> Covers(m, s, k)
    BY <1>1, <2>1
  <2>3. ~ UNCHANGED <<mSequences, sent>>
    BY <2>1 DEF Covers
  <2>4. CASE \E m, f \in Node : Incoming(m, f)
    <3>1. PICK m \in Node, f \in Node : Incoming(m, f)
      BY <2>4
    <3>2. PICK x : x = Head(net[m][f])
      OBVIOUS
    <3>3. /\ Genuine(x) /\ net[m][f] \in Seq(Message) /\ net[m][f] # << >>
          /\ checkSequence(m, x) /\ Record(m, x)
          /\ rest'[m][f] = Then(IF x.destination = Everyone THEN "forward" ELSE "deliver", x)
          /\ UNCHANGED <<sent, received>>
      BY <1>0, <2>3, <3>1, <3>2, IncomingStep
    <3>4. /\ m = n /\ x.source = y.source /\ y.number <= x.number
          /\ x.number \in Nat /\ x \in Message
      <4>1. /\ \A o, s \in Node, k \in Nat : <<o, s>> # <<m, x.source>> =>
                 (Covers(o, s, k)' <=> Covers(o, s, k))
            /\ \A k \in Nat : Covers(m, x.source, k)' <=> k <= x.number
        BY <1>0, <3>3, RecordFacts
      <4>2. <<n, y.source>> = <<m, x.source>>
        BY <1>1, <2>1, <4>1
      <4>. QED BY <1>1, <2>1, <3>3, <4>1, <4>2, GenuineFacts
    <3>5. CASE y.number = x.number
      <4>1. x = y
        BY <1>1, <3>3, <3>4, <3>5 DEF Genuine
      <4>2. /\ Then("forward", x) # Idle /\ Then("forward", x).message = x
            /\ Then("deliver", x) # Idle /\ Then("deliver", x).message = x
        BY <3>4, RestFacts
      <4>3. InHandler(n, f, y)'
        BY <3>3, <3>4, <4>1, <4>2 DEF InHandler
      <4>. QED BY <4>3 DEF Accepted
    <3>6. CASE y.number < x.number
      <4>1. Before(n, y, x)
        BY <1>1, <3>4, <3>6 DEF Before
      <4>2. 1 \in DOMAIN net[n][f] /\ x = net[n][f][1] /\ \A j \in DOMAIN net[n][f] : ~ j < 1
        BY <3>2, <3>3, <3>4, TailFacts
      <4>3. Refuses(n, y)
        BY <1>0, <4>1, <4>2 DEF QueuesInOrder
      <4>. QED BY <1>3, <4>3
    <3>. QED BY <1>1, <3>4, <3>5, <3>6
  <2>5. CASE \E m \in Node, t \in Thread : SendToSelf(m, t)
    <3>1. PICK m \in Node, t \in Thread : SendToSelf(m, t)
      BY <2>5
    <3>2. PICK x : x = call[m][t].message
      OBVIOUS
    <3>3. Genuine(x) /\ x.source = m /\ checkSequence(m, x) /\ Record(m, x) /\ UNCHANGED sent
      BY <1>0, <2>3, <3>1, <3>2, SendToSelfStep
    <3>4. \A o, s \in Node, k \in Nat : <<o, s>> # <<m, m>> =>
            (Covers(o, s, k)' <=> Covers(o, s, k))
      BY <1>0, <3>3, RecordFacts
    <3>. QED BY <1>1, <2>1, <3>4
  <2>6. CASE \E m \in Node, t \in Thread, destination \in Node \cup {Everyone} :
               TakeSequence(m, t, destination)
    BY <1>0, <2>2, <2>6, TakeSequenceFacts
  <2>. QED
    BY <2>3, <2>4, <2>5, <2>6, NextCases DEF Send, DeliverToSelf, Forward, Deliver, vars
<1>. QED BY <1>2, <1>3

(* When a message is sent on to m, the older broadcasts of its source have *)
(* been.                                                                   *)
LEMMA OlderOnTheirWay ==
  ASSUME ThreadInv, NEW n \in Node, NEW from, NEW x,
         \/ from = n /\ x.source = n /\ \E t \in Thread : Called(n, t, "send", x)
         \/ Handled(n, from, "forward", x) /\ from \in Node,
         Genuine(x), NEW m \in Targets(n, x, from), NEW y, Before(m, y, x)
  PROVE  OnItsWay(m, n, y)
<1>1. SentInv /\ AcceptedOnce /\ Propagates /\ OneAtWork /\ Gapless
  BY DEF ThreadInv, FloodInv
<1>2. m \in Neighbors(n) /\ m \in Node
  BY NeighborFacts DEF Targets
<1>3. /\ Genuine(y) /\ y.destination = Everyone /\ m # y.source /\ y.source = x.source
      /\ y.number < x.number /\ x # y /\ y.source \in Node /\ y.number \in Nat /\ x.number \in Nat
  BY GenuineFacts DEF Before
<1>4. CASE n = y.source
  <2>1. ~ Sending(y)
    <3>1. CASE \E t \in Thread : Called(n, t, "send", x)
      BY <1>1, <1>3, <1>4, <3>1, RestFacts DEF Sending, Called, OneAtWork
    <3>2. CASE Handled(n, from, "forward", x) /\ from \in Node
      BY <1>1, <1>4, <3>2, RestFacts DEF Sending, Called, Handled, OneAtWork
    <3>. QED BY <3>1, <3>2
  <2>. QED
    BY <1>1, <1>2, <1>3, <1>4, <2>1 DEF Propagates, SourcesSend, IsFor
<1>5. CASE n # y.source
  <2>1. Handled(n, from, "forward", x) /\ from \in Node
    BY <1>3, <1>5
  <2>2. InHandler(n, from, x)
    BY <2>1, RestFacts DEF Handled, InHandler
  <2>3. Covers(n, y.source, x.number)
    BY <1>1, <1>3, <2>1, <2>2 DEF Accepted, AcceptedOnce
  <2>4. Refuses(n, y)
    BY <1>1, <1>3, <2>3, CoversDown DEF Refuses
  <2>5. Accepted(n, y)
    BY <1>1, <1>3, <1>5, <2>4 DEF Gapless
  <2>6. Got(n, y)
    BY <1>1, <1>3, <2>1, <2>2, <2>5, WorkFacts DEF Accepted, OneAtWork
  <2>. QED
    BY <1>1, <1>2, <1>3, <2>6 DEF Propagates, NodesForward, HasForwarded
<1>. QED BY <1>4, <1>5

LEMMA NextQueuesInOrder ==
  ASSUME ThreadInv, [Next]_vars
  PROVE  QueuesInOrder'
<1>0. FloodInv /\ SentInv /\ QueuesInOrder
  BY DEF ThreadInv, FloodInv
<1>. SUFFICES ASSUME NEW n \in Node, NEW m \in Node, NEW i \in DOMAIN net'[n][m],
                     NEW x, NEW y, x = net'[n][m][i], Before(n, y, x)'
              PROVE  Refuses(n, y)' \/ \E j \in DOMAIN net'[n][m] : j < i /\ net'[n][m][j] = y
  BY DEF QueuesInOrder
<1>1. /\ y.destination = Everyone /\ n # y.source /\ y.source = x.source /\ y.number < x.number
      /\ Genuine(y)'
  BY DEF Before
<1>2. CASE net'[n][m] = net[n][m]
  <2>1. Genuine(x)
    BY <1>0, <1>2 DEF SentInv, MessagesAreSent, Queued
  <2>2. ~ x.number < y.number
    <3>1. Genuine(x)'
      BY <1>0, <2>1, GenuineStays
    <3>2. x.number \in Nat /\ y.number \in Nat
      BY <1>1, <3>1 DEF Genuine, Message
    <3>. QED BY <1>1, <3>2
  <2>3. Genuine(y)
    BY <1>0, <1>1, <2>1, <2>2, NewIsNewest
  <2>4. Before(n, y, x)
    BY <1>1, <2>3 DEF Before
  <2>5. Refuses(n, y) \/ \E j \in DOMAIN net[n][m] : j < i /\ net[n][m][j] = y
    BY <1>0, <1>2, <2>4 DEF QueuesInOrder
  <2>. QED BY <1>0, <1>2, <2>3, <2>5, RefusesStays
<1>3. ASSUME NEW z, NEW from, Genuine(z), n \in Targets(m, z, from), UNCHANGED sent,
             net'[n][m] = Append(net[n][m], z),
             \/ from = m /\ z.source = m /\ \E t \in Thread : Called(m, t, "send", z)
             \/ Handled(m, from, "forward", z) /\ from \in Node
      PROVE  Refuses(n, y)' \/ \E j \in DOMAIN net'[n][m] : j < i /\ net'[n][m][j] = y
  <2>. DEFINE q == net[n][m]
  <2>1. Genuine(y) /\ Before(n, y, x)
    BY <1>1, <1>3 DEF Genuine, Before
  <2>2. q \in Seq(Message) /\ z \in Message /\ net'[n][m] = Append(q, z)
    BY <1>0, <1>3 DEF SentInv, TypeOK, Genuine
  <2>3. CASE i \in DOMAIN q
    <3>1. x = q[i] /\ \A j \in DOMAIN q : j \in DOMAIN net'[n][m] /\ net'[n][m][j] = q[j]
      BY <2>2, <2>3, AppendFacts
    <3>2. Refuses(n, y) \/ \E j \in DOMAIN q : j < i /\ q[j] = y
      BY <1>0, <2>1, <2>3, <3>1 DEF QueuesInOrder
    <3>. QED BY <1>0, <2>1, <3>1, <3>2, RefusesStays
  <2>4. CASE i \notin DOMAIN q
    <3>1. /\ i = Len(q) + 1 /\ x = z /\ Len(q) \in Nat /\ DOMAIN q = 1..Len(q)
          /\ \A j \in DOMAIN q : j \in DOMAIN net'[n][m] /\ net'[n][m][j] = q[j]
      BY <2>2, <2>4, AppendFacts
    <3>2. OnItsWay(n, m, y)
      BY <1>3, <2>1, <3>1, OlderOnTheirWay
    <3>3. CASE Queued(n, m, y)
      <4>1. PICK j \in DOMAIN q : q[j] = y
        BY <3>3 DEF Queued
      <4>2. j < i
        BY <3>1, <4>1
      <4>. QED BY <3>1, <4>1, <4>2
    <3>4. CASE Refuses(n, y)
      BY <1>0, <2>1, <3>4, RefusesStays
    <3>. QED BY <3>2, <3>3, <3>4 DEF OnItsWay
  <2>. QED BY <2>3, <2>4
<1>4. ASSUME NEW o \in Node, NEW f \in Node, Incoming(o, f)
      PROVE  Refuses(n, y)' \/ \E j \in DOMAIN net'[n][m] : j < i /\ net'[n][m][j] = y
  <2>1. PICK z : z = Head(net[o][f])
    OBVIOUS
  <2>2. /\ Genuine(z) /\ net[o][f] \in Seq(Message) /\ net[o][f] # << >>
        /\ net'[o][f] = Tail(net[o][f])
        /\ \A p, r \in Node : <<p, r>> # <<o, f>> => net'[p][r] = net[p][r]
        /\ \A p, r \in Node : \A w :
             Queued(p, r, w) => Queued(p, r, w)' \/ (<<p, r>> = <<o, f>> /\ w = z)
        /\ UNCHANGED sent
    BY <1>0, <1>4, <2>1, IncomingStep
  <2>3. CASE <<n, m>> # <<o, f>>
    BY <1>2, <2>2, <2>3
  <2>4. CASE n = o /\ m = f
    <3>. DEFINE q == net[n][m]
    <3>1. Genuine(y) /\ Before(n, y, x)
      BY <1>1, <2>2 DEF Genuine, Before
    <3>2. q \in Seq(Message) /\ q # << >> /\ net'[n][m] = Tail(q)
      BY <2>2, <2>4
    <3>. HIDE DEF q
    <3>3. /\ i \in Nat /\ i + 1 \in DOMAIN q /\ x = q[i + 1]
          /\ \A j \in DOMAIN q : j \in Nat /\
               (j = 1 \/ (j - 1 \in DOMAIN net'[n][m] /\ net'[n][m][j - 1] = q[j]))
      BY <3>2, TailFacts
    <3>4. Refuses(n, y) \/ \E j \in DOMAIN q : j < i + 1 /\ q[j] = y
      BY <1>0, <3>1, <3>3 DEF QueuesInOrder, q
    <3>5. CASE Refuses(n, y)
      BY <1>0, <3>1, <3>5, RefusesStays
    <3>6. ASSUME NEW j \in DOMAIN q, j < i + 1, q[j] = y
          PROVE  Refuses(n, y)' \/ \E l \in DOMAIN net'[n][m] : l < i /\ net'[n][m][l] = y
      <4>1. CASE j = 1
        <5>1. Queued(n, m, y) /\ y = z
          BY <2>1, <2>2, <2>4, <3>2, <3>6, <4>1, TailFacts DEF Queued, q
        <5>2. CASE checkSequence(o, z)
          <6>1. Record(o, z)
            BY <1>4, <2>1, <5>2 DEF Incoming
          <6>2. \A k \in Nat : Covers(o, z.source, k)' <=> k <= z.number
            BY <1>0, <2>2, <5>2, <6>1, RecordFacts
          <6>3. z.number \in Nat /\ z.number <= z.number
            BY <2>2, GenuineFacts
          <6>. QED BY <2>4, <5>1, <6>2, <6>3 DEF Refuses
        <5>3. CASE ~ checkSequence(o, z)
          <6>1. Refuses(n, y)
            BY <1>0, <2>2, <2>4, <5>1, <5>3, CheckSequenceFacts DEF Refuses
          <6>. QED BY <1>0, <3>1, <6>1, RefusesStays
        <5>. QED BY <5>2, <5>3
      <4>2. CASE j # 1
        <5>1. j - 1 \in DOMAIN net'[n][m] /\ net'[n][m][j - 1] = y /\ j - 1 < i
          BY <3>3, <3>6, <4>2
        <5>. QED BY <5>1
      <4>. QED BY <4>1, <4>2
    <3>. QED BY <3>4, <3>5, <3>6
  <2>. QED BY <2>3, <2>4
<1>5. ASSUME NEW o \in Node, NEW t \in Thread, Send(o, t)
      PROVE  Refuses(n, y)' \/ \E j \in DOMAIN net'[n][m] : j < i /\ net'[n][m][j] = y
  <2>1. PICK z : z = call[o][t].message
    OBVIOUS
  <2>2. /\ Called(o, t, "send", z) /\ Genuine(z) /\ z.source = o /\ UNCHANGED sent
        /\ \A p \in Targets(o, z, o) : net'[p][o] = Append(net[p][o], z)
        /\ \A p, r \in Node : ~ (r = o /\ p \in Targets(o, z, o)) => net'[p][r] = net[p][r]
    BY <1>0, <1>5, <2>1, SendStep
  <2>. QED BY <1>2, <1>3, <2>2, SMTT(60)
<1>6. ASSUME NEW o \in Node, NEW f \in Node, Forward(o, f)
      PROVE  Refuses(n, y)' \/ \E j \in DOMAIN net'[n][m] : j < i /\ net'[n][m][j] = y
  <2>1. PICK z : z = rest[o][f].message
    OBVIOUS
  <2>2. /\ Handled(o, f, "forward", z) /\ Genuine(z) /\ UNCHANGED sent
        /\ \A p \in Targets(o, z, f) : net'[p][o] = Append(net[p][o], z)
        /\ \A p, r \in Node : ~ (r = o /\ p \in Targets(o, z, f)) => net'[p][r] = net[p][r]
    BY <1>0, <1>6, <2>1, ForwardStep
  <2>. QED BY <1>2, <1>3, <2>2
<1>7. CASE UNCHANGED net
  BY <1>2, <1>7
<1>. QED
  BY <1>4, <1>5, <1>6, <1>7, NextCases
  DEF TakeSequence, SendToSelf, DeliverToSelf, Deliver, vars

LEMMA InitThreadInv == Init => ThreadInv
<1>. SUFFICES ASSUME Init PROVE ThreadInv
  OBVIOUS
<1>1. FloodInv
  BY InitSentInv, InitAcceptedOnce, InitPropagates DEF FloodInv
<1>2. OneAtWork
  BY DEF Init, OneAtWork
<1>3. OlderReceived /\ InOrder
  BY DEF Init, OlderReceived, InOrder
<1>4. \A n \in Node : \A y : ~ (Genuine(y) /\ Refuses(n, y))
  BY GenuineFacts DEF Init, Refuses, Covers
<1>5. QueuesInOrder
  BY DEF Init, QueuesInOrder
<1>. QED BY <1>1, <1>2, <1>3, <1>4, <1>5 DEF ThreadInv, Gapless

LEMMA NextThreadInv == SingleThread => (ThreadInv /\ [Next]_vars => ThreadInv')
<1>. SUFFICES ASSUME SingleThread, ThreadInv, [Next]_vars PROVE ThreadInv'
  OBVIOUS
<1>1. FloodInv /\ SentInv /\ AcceptedOnce /\ OneAtWork /\ OlderReceived /\ InOrder
  BY DEF ThreadInv, FloodInv
<1>2. FloodInv'
  BY <1>1, NextSentInv, NextAcceptedOnce, NextPropagates DEF FloodInv
<1>. QED
  BY <1>1, <1>2, NextOneAtWork, NextInOrder, NextGapless, NextQueuesInOrder DEF ThreadInv

(* On one thread, the callback gets the messages of a source in the order  *)
(* of their numbers, which is that of the calls of send and broadcast.     *)
THEOREM TransportInOrder == SingleThread => (Spec => []InOrder)
<1>. SUFFICES ASSUME SingleThread PROVE Spec => []InOrder
  OBVIOUS
<1>1. ThreadInv /\ [Next]_vars => ThreadInv'
  BY NextThreadInv
<1>2. ThreadInv => InOrder
  BY DEF ThreadInv
<1>. QED BY <1>1, <1>2, InitThreadInv, PTL DEF Spec

(* On one thread, a broadcast has got to every other node once the network *)
(* is quiet: checkSequence never drops the only copy of one for a newer    *)
(* message that came another way, whatever cycles the links have.          *)
THEOREM TransportBroadcastsReachEveryone ==
  SingleThread /\ Connected => (Spec => []BroadcastsReachEveryone)
<1>. SUFFICES ASSUME SingleThread, Connected PROVE Spec => []BroadcastsReachEveryone
  OBVIOUS
<1>1. ThreadInv /\ [Next]_vars => ThreadInv'
  BY NextThreadInv
<1>2. ASSUME ThreadInv PROVE BroadcastsReachEveryone
  <2>. SUFFICES ASSUME Quiet, NEW s \in Node, NEW k \in DOMAIN sent[s],
                       sent[s][k].destination = Everyone, NEW n \in Node \ {s}
                PROVE  HasReceived(n, s, k)
    BY DEF BroadcastsReachEveryone
  <2>1. FloodInv /\ SentInv /\ Propagates /\ Gapless
    BY <1>2 DEF ThreadInv, FloodInv
  <2>2. PICK x : x = sent[s][k]
    OBVIOUS
  <2>3. /\ Genuine(x) /\ x.source = s /\ x.number = k /\ x.destination = Everyone
        /\ ~ Sending(x)
    <3>1. Genuine(x) /\ x.source = s /\ x.number = k
      BY <2>1, <2>2, RowFacts DEF SentInv, InRow
    <3>. QED BY <2>1, <2>2, <3>1, QuietFacts
  <2>. DEFINE P == {m \in Node : Got(m, x)}
  <2>4. \A m \in Node \ {s} : Refuses(m, x) => m \in P
    BY <2>1, <2>3, QuietFacts DEF Gapless
  <2>5. \A o \in Neighbors(s) : o \in P
    BY <2>1, <2>3, <2>4, QuietFacts, NeighborFacts DEF Propagates, SourcesSend, OnItsWay, IsFor
  <2>6. \A m \in P : \A o \in Neighbors(m) \ {s} : o \in P
    BY <2>1, <2>3, <2>4, QuietFacts, NeighborFacts
    DEF Propagates, NodesForward, HasForwarded, OnItsWay
  <2>7. P \in SUBSET Node /\ \A m \in P \cup {s} : \A o \in Neighbors(m) \ {s} : o \in P
    BY <2>5, <2>6
  <2>8. Got(n, x)
    <3>. HIDE DEF P
    <3>1. n \in P
      BY <2>7, FloodReaches
    <3>. QED BY <3>1 DEF P
  <2>. QED BY <2>1, <2>3, <2>8, QuietFacts
<1>3. ThreadInv => BroadcastsReachEveryone
  BY <1>2
<1>. QED BY <1>1, <1>3, InitThreadInv, PTL DEF Spec

=============================================================================
