--------------------------- MODULE PeeringProofs ----------------------------
(***************************************************************************)
(* What holds of the peering of two nodes for any bounds on the calls of   *)
(* connect and any set of descriptions that may be lost: the types, the    *)
(* agreement on one offer, as a refinement of OfferAnswer, and the channel *)
(* of the neighbour, which is one that Routing has.                        *)
(*                                                                         *)
(* The negotiation and the data channels have an invariant each, since     *)
(* each is changed without regard to the other: a step changes one of them *)
(* only, or both when it creates a data channel.                           *)
(***************************************************************************)
EXTENDS Peering, TLAPS

(* The contents of a queue, and the orders of the two kinds of it.         *)
In(x, s) == \E i \in DOMAIN s : s[i] = x

OfferIsFirst(s) == \A i \in DOMAIN s : s[i] = "offer" => i = 1

OffersThenAnswers(s) ==
    \A i, j \in DOMAIN s : i < j /\ s[i] = "answer" => s[j] = "answer"

NegotiationTypes ==
    /\ signaling \in [Node -> {"stable", "have-local-offer"}]
    /\ description \in [Node -> {"none"} \cup Description]
    /\ gathering \in [Node -> {"new", "in-progress", "complete"}]
    /\ callbacks \in [Node -> Seq({"gathered"} \cup Description)]
    /\ net \in [Node -> Seq(Description)]
    /\ lost \in SUBSET [from : Node, type : Description]

(* A node without a description has not sent anything.                     *)
NothingBefore ==
    \A n \in Node : description[n] = "none" =>
      /\ signaling[n] = "stable" /\ gathering[n] = "new"
      /\ callbacks[n] = << >> /\ net[Peer(n)] = << >>

(* A node offers once and before it answers, and its answers are sent      *)
(* after its offers, although the callbacks send late what they were       *)
(* called for.                                                             *)
AnswersComeLast ==
    \A n \in Node :
      /\ OfferIsFirst(callbacks[n]) /\ OffersThenAnswers(net[Peer(n)])
      /\ In("answer", callbacks[n]) => description[n] = "answer"
      /\ In("answer", net[Peer(n)]) => description[n] = "answer"
                                       /\ ~ In("offer", callbacks[n])

(* No offer of n is to come any more.                                      *)
NoOfferOf(n) ==
    /\ ~ In("offer", callbacks[n]) /\ ~ In("offer", net[Peer(n)])
    /\ description[n] = "answer"

(* Who has answered did so to the offer that stands, and is not offered    *)
(* to by a node whose offer it has not ignored.                            *)
OneAnswers ==
    LET Smaller == Peer(Larger)
    IN  /\ description[Smaller] = "answer" => description[Larger] = "offer"
        /\ description[Larger] = "answer" =>
             description[Smaller] = "offer" /\ NoOfferOf(Larger)
        /\ description[Larger] = "offer" /\ signaling[Larger] = "stable" =>
             NoOfferOf(Smaller)

NegotiationInv ==
    NegotiationTypes /\ NothingBefore /\ AnswersComeLast /\ OneAnswers

-----------------------------------------------------------------------------
(* There are two nodes.                                                    *)
LEMMA PeerFacts ==
  ASSUME NEW n \in Node
  PROVE  /\ Peer(n) \in Node /\ Peer(n) # n /\ Peer(Peer(n)) = n
         /\ \A m \in Node : m = n \/ m = Peer(n)
         /\ n = Larger \/ n = Peer(Larger)
<1>1. PICK other \in Node : other # Larger /\ Node = {other, Larger}
  BY PeeringAssumption
<1>2. Peer(Larger) = other /\ Peer(other) = Larger
  BY <1>1 DEF Peer
<1>. QED BY <1>1, <1>2

LEMMA AppendFacts ==
  ASSUME NEW S, NEW s \in Seq(S), NEW x \in S
  PROVE  /\ Append(s, x) \in Seq(S) /\ Len(s) \in Nat
         /\ DOMAIN s = 1..Len(s) /\ DOMAIN Append(s, x) = 1..(Len(s) + 1)
         /\ \A i \in 1..Len(s) : Append(s, x)[i] = s[i]
         /\ Append(s, x)[Len(s) + 1] = x
  OBVIOUS

LEMMA TailFacts ==
  ASSUME NEW S, NEW s \in Seq(S), s # << >>
  PROVE  /\ Tail(s) \in Seq(S) /\ Head(s) \in S /\ Head(s) = s[1]
         /\ Len(s) \in Nat /\ DOMAIN s = 1..Len(s)
         /\ 1 \in DOMAIN s /\ DOMAIN Tail(s) = 1..(Len(s) - 1)
         /\ \A i \in DOMAIN Tail(s) : i + 1 \in DOMAIN s /\ Tail(s)[i] = s[i + 1]
  OBVIOUS

(* What a description that is appended to a queue does to its order.       *)
LEMMA QueueAppend ==
  ASSUME NEW S, NEW s \in Seq(S), NEW x \in S
  PROVE  /\ \A y : In(y, Append(s, x)) <=> In(y, s) \/ y = x
         /\ OfferIsFirst(s) /\ x # "offer" => OfferIsFirst(Append(s, x))
         /\ s = << >> => OfferIsFirst(Append(s, x))
         /\ OffersThenAnswers(s) /\ (x = "answer" \/ ~ In("answer", s)) =>
              OffersThenAnswers(Append(s, x))
<1>. DEFINE k == Len(s)
            t == Append(s, x)
<1>1. /\ k \in Nat /\ DOMAIN s = 1..k /\ DOMAIN t = 1..(k + 1)
      /\ \A i \in 1..k : t[i] = s[i]
      /\ t[k + 1] = x
  BY AppendFacts
<1>2. s = << >> => k = 0
  OBVIOUS
<1>. HIDE DEF k, t
<1>3. \A i \in 1..(k + 1) : i = k + 1 \/ i \in 1..k
  BY <1>1
<1>4. \A i \in 1..k : i \in 1..(k + 1) /\ i # k + 1
  BY <1>1
<1>5. k + 1 \in 1..(k + 1)
  BY <1>1
<1>6. \A y : In(y, t) <=> In(y, s) \/ y = x
  BY <1>1, <1>3, <1>4, <1>5 DEF In
<1>7. OfferIsFirst(s) /\ x # "offer" => OfferIsFirst(t)
  BY <1>1, <1>3 DEF OfferIsFirst
<1>8. s = << >> => OfferIsFirst(t)
  BY <1>1, <1>2 DEF OfferIsFirst
<1>9. OffersThenAnswers(s) /\ (x = "answer" \/ ~ In("answer", s)) => OffersThenAnswers(t)
  <2>. SUFFICES ASSUME OffersThenAnswers(s), x = "answer" \/ ~ In("answer", s),
                       NEW i \in 1..(k + 1), NEW j \in 1..(k + 1),
                       i < j, t[i] = "answer"
                PROVE  t[j] = "answer"
    BY <1>1 DEF OffersThenAnswers
  <2>1. i \in 1..k
    BY <1>1
  <2>2. s[i] = "answer"
    BY <1>1, <2>1
  <2>3. CASE j = k + 1
    BY <1>1, <2>1, <2>2, <2>3 DEF In
  <2>4. CASE j \in 1..k
    BY <1>1, <2>1, <2>2, <2>4 DEF OffersThenAnswers
  <2>. QED BY <1>3, <2>3, <2>4
<1>. QED BY <1>6, <1>7, <1>8, <1>9 DEF t

(* What taking the head off a queue does.                                  *)
LEMMA QueueTail ==
  ASSUME NEW S, NEW s \in Seq(S), s # << >>
  PROVE  /\ \A y : In(y, Tail(s)) => In(y, s)
         /\ In(Head(s), s)
         /\ OfferIsFirst(s) => OfferIsFirst(Tail(s)) /\ ~ In("offer", Tail(s))
         /\ OffersThenAnswers(s) => OffersThenAnswers(Tail(s))
         /\ OffersThenAnswers(s) /\ Head(s) = "answer" => ~ In("offer", Tail(s))
<1>. DEFINE k == Len(s)
            t == Tail(s)
<1>1. /\ k \in Nat /\ DOMAIN s = 1..k /\ Head(s) = s[1] /\ 1 \in DOMAIN s
      /\ DOMAIN t = 1..(k - 1)
      /\ \A i \in DOMAIN t : i + 1 \in DOMAIN s /\ t[i] = s[i + 1]
  BY TailFacts
<1>. HIDE DEF k, t
<1>2. \A y : In(y, t) => In(y, s)
  BY <1>1 DEF In
<1>3. In(Head(s), s)
  BY <1>1 DEF In
<1>4. OfferIsFirst(s) => \A i \in DOMAIN t : t[i] # "offer"
  BY <1>1 DEF OfferIsFirst
<1>5. OffersThenAnswers(s) => OffersThenAnswers(t)
  <2>. SUFFICES ASSUME OffersThenAnswers(s), NEW i \in DOMAIN t, NEW j \in DOMAIN t,
                       i < j, t[i] = "answer"
                PROVE  t[j] = "answer"
    BY DEF OffersThenAnswers
  <2>1. i + 1 < j + 1
    BY <1>1
  <2>. QED BY <1>1, <2>1 DEF OffersThenAnswers
<1>6. OffersThenAnswers(s) /\ Head(s) = "answer" => \A i \in DOMAIN t : t[i] = "answer"
  <2>. SUFFICES ASSUME OffersThenAnswers(s), Head(s) = "answer", NEW i \in DOMAIN t
                PROVE  t[i] = "answer"
    OBVIOUS
  <2>1. 1 < i + 1
    BY <1>1
  <2>. QED BY <1>1, <2>1 DEF OffersThenAnswers
<1>7. "answer" # "offer"
  OBVIOUS
<1>. QED BY <1>2, <1>3, <1>4, <1>5, <1>6, <1>7 DEF t, In, OfferIsFirst

-----------------------------------------------------------------------------
(* A callback that sends a description.                                    *)
LEMMA SendFacts ==
  ASSUME NegotiationTypes, NEW n \in Node, NEW type \in Description, Send(n, type)
  PROVE  /\ net' \in [Node -> Seq(Description)]
         /\ lost' \in SUBSET [from : Node, type : Description]
         /\ net'[n] = net[n]
         /\ net'[Peer(n)] \in {net[Peer(n)], Append(net[Peer(n)], type)}
<1>1. Peer(n) \in Node /\ Peer(n) # n
  BY PeerFacts
<1>2. net \in [Node -> Seq(Description)] /\ lost \in SUBSET [from : Node, type : Description]
  BY DEF NegotiationTypes
<1>3. Append(net[Peer(n)], type) \in Seq(Description)
  BY <1>1, <1>2, AppendFacts
<1>4. CASE net' = [net EXCEPT ![Peer(n)] = Append(@, type)] /\ UNCHANGED lost
  BY <1>1, <1>2, <1>3, <1>4
<1>5. CASE lost' = lost \cup {[from |-> n, type |-> type]} /\ UNCHANGED net
  BY <1>1, <1>2, <1>5
<1>. QED BY <1>4, <1>5 DEF Send

(* An offer that is accepted is the one that stands.                       *)
LEMMA AcceptedOfferStands ==
  ASSUME NegotiationInv, NEW n \in Node, net[n] # << >>, Head(net[n]) = "offer",
         ~ Ignores(n, "offer")
  PROVE  /\ description[Peer(n)] = "offer"
         /\ n = Larger => signaling[n] = "stable" /\ ~ In("offer", callbacks[n])
                          /\ ~ In("offer", net[Peer(n)])
<1>. DEFINE p == Peer(n)
<1>1. /\ p \in Node /\ Peer(p) = n /\ Larger \in Node
      /\ \/ n = Larger /\ p = Peer(Larger)
         \/ n = Peer(Larger) /\ p = Larger
  BY PeerFacts, PeeringAssumption
<1>. HIDE DEF p
<1>2. In("offer", net[Peer(p)])
  BY <1>1, QueueTail DEF NegotiationInv, NegotiationTypes
<1>3. description[p] # "none" /\ ~ NoOfferOf(p)
  BY <1>1, <1>2 DEF NegotiationInv, NothingBefore, NoOfferOf
<1>4. /\ description[p] \in {"none", "offer", "answer"}
      /\ description[n] \in {"none", "offer", "answer"}
      /\ signaling[n] \in {"stable", "have-local-offer"}
  BY <1>1 DEF NegotiationInv, NegotiationTypes, Description
<1>5. CASE n = Peer(Larger) /\ p = Larger
  <2>1. description[p] # "answer"
    BY <1>3, <1>5 DEF NegotiationInv, OneAnswers
  <2>2. n # Larger
    BY <1>5, <1>1, PeerFacts
  <2>. QED BY <1>3, <1>4, <2>1, <2>2 DEF p
<1>6. CASE n = Larger /\ p = Peer(Larger)
  <2>1. signaling[n] = "stable"
    BY <1>4, <1>6 DEF Ignores
  <2>2. description[n] # "offer"
    BY <1>3, <1>6, <2>1 DEF NegotiationInv, OneAnswers
  <2>3. description[p] # "answer"
    BY <1>6, <2>2 DEF NegotiationInv, OneAnswers
  <2>4. CASE description[n] = "answer"
    BY <1>3, <1>4, <1>6, <2>1, <2>3, <2>4 DEF p, NegotiationInv, OneAnswers, NoOfferOf
  <2>5. CASE description[n] = "none"
    <3>1. callbacks[n] = << >> /\ net[p] = << >>
      BY <2>5 DEF p, NegotiationInv, NothingBefore
    <3>2. ~ In("offer", callbacks[n]) /\ ~ In("offer", net[p])
      BY <3>1 DEF In
    <3>. QED BY <1>3, <1>4, <2>1, <2>3, <3>2 DEF p
  <2>. QED BY <1>4, <2>2, <2>4, <2>5
<1>. QED BY <1>1, <1>5, <1>6

LEMMA InitNegotiationInv == Init => NegotiationInv
<1>. SUFFICES ASSUME Init PROVE NegotiationInv
  OBVIOUS
<1>1. NegotiationTypes
  BY DEF Init, NegotiationTypes
<1>2. \A n \in Node : /\ Peer(n) \in Node /\ description[n] = "none"
                      /\ signaling[n] = "stable" /\ gathering[n] = "new"
                      /\ callbacks[n] = << >> /\ net[n] = << >>
  BY PeerFacts DEF Init
<1>3. Larger \in Node
  BY PeeringAssumption
<1>4. OfferIsFirst(<< >>) /\ OffersThenAnswers(<< >>)
  BY DEF OfferIsFirst, OffersThenAnswers
<1>5. \A x : ~ In(x, << >>)
  BY DEF In
<1>6. NothingBefore
  BY <1>2 DEF NothingBefore
<1>7. AnswersComeLast
  BY <1>2, <1>4, <1>5 DEF AnswersComeLast
<1>8. OneAnswers
  BY <1>2, <1>3 DEF OneAnswers
<1>. QED BY <1>1, <1>6, <1>7, <1>8 DEF NegotiationInv

(* connect makes an offer, or changes nothing of the negotiation.          *)
Offers(n) ==
    /\ description[n] = "none"
    /\ signaling' = [signaling EXCEPT ![n] = "have-local-offer"]
    /\ SetLocalDescription(n, "offer")

LEMMA ConnectNegotiation ==
  ASSUME NEW n \in Node, Connect(n) \/ Reset(n)
  PROVE  UNCHANGED <<net, lost>> /\ (Offers(n) \/ UNCHANGED negotiation)
BY DEF Connect, Reset, Create, Offers

LEMMA ConnectNegotiationInv ==
  ASSUME NegotiationInv, NEW n \in Node, Connect(n) \/ Reset(n)
  PROVE  NegotiationInv'
<1>. DEFINE p == Peer(n)
<1>1. /\ p \in Node /\ p # n /\ Peer(p) = n /\ Larger \in Node
      /\ \A m \in Node : m = n \/ m = p
      /\ \/ n = Larger /\ p = Peer(Larger)
         \/ n = Peer(Larger) /\ p = Larger
  BY PeerFacts, PeeringAssumption
<1>. HIDE DEF p
<1>2. UNCHANGED <<net, lost>> /\ (Offers(n) \/ UNCHANGED negotiation)
  BY ConnectNegotiation
<1>3. CASE UNCHANGED negotiation
  BY <1>2, <1>3
  DEF negotiation, NegotiationInv, NegotiationTypes, NothingBefore, AnswersComeLast,
      OneAnswers, NoOfferOf
<1>4. CASE /\ description[n] = "none"
           /\ signaling' = [signaling EXCEPT ![n] = "have-local-offer"]
           /\ SetLocalDescription(n, "offer")
  <2>1. NegotiationTypes
    BY DEF NegotiationInv
  <2>2. callbacks[n] = << >> /\ net[p] = << >>
    BY <1>4 DEF p, NegotiationInv, NothingBefore
  <2>3. callbacks[n] \in Seq({"gathered"} \cup Description)
        /\ "offer" \in {"gathered"} \cup Description
    BY <2>1 DEF NegotiationTypes, Description
  <2>4. Append(callbacks[n], "offer") \in Seq({"gathered"} \cup Description)
    BY <2>3, AppendFacts
  <2>5. NegotiationTypes'
    BY <1>2, <1>4, <2>1, <2>4 DEF NegotiationTypes, SetLocalDescription, Description
  <2>6. /\ description'[n] = "offer" /\ description'[p] = description[p]
        /\ signaling'[n] = "have-local-offer" /\ signaling'[p] = signaling[p]
        /\ callbacks'[n] = Append(callbacks[n], "offer") /\ callbacks'[p] = callbacks[p]
        /\ gathering'[p] = gathering[p]
    BY <1>1, <1>4, <2>1 DEF NegotiationTypes, SetLocalDescription
  <2>7. OfferIsFirst(callbacks'[n]) /\ ~ In("answer", callbacks'[n])
    <3>1. ~ In("answer", << >>)
      BY DEF In
    <3>2. In("answer", Append(callbacks[n], "offer"))
            <=> In("answer", callbacks[n]) \/ "answer" = "offer"
      BY ONLY <2>3, QueueAppend
    <3>3. callbacks[n] = << >> => OfferIsFirst(Append(callbacks[n], "offer"))
      BY ONLY <2>3, QueueAppend
    <3>4. "answer" # "offer"
      OBVIOUS
    <3>. QED BY <2>2, <2>6, <3>1, <3>2, <3>3, <3>4
  <2>8. OffersThenAnswers(net[p]) /\ ~ In("answer", net[p])
    BY <2>2 DEF In, OffersThenAnswers
  <2>9. NothingBefore'
    BY <1>1, <1>2, <2>6 DEF NothingBefore, NegotiationInv, p
  <2>10. AnswersComeLast'
    BY <1>1, <1>2, <2>6, <2>7, <2>8 DEF AnswersComeLast, NegotiationInv, p
  <2>11. OneAnswers'
    <3>1. CASE n = Larger /\ p = Peer(Larger)
      BY <1>2, <1>4, <2>6, <3>1 DEF OneAnswers, NegotiationInv
    <3>2. CASE n = Peer(Larger) /\ p = Larger
      BY <1>2, <1>4, <2>6, <3>2 DEF OneAnswers, NoOfferOf, NegotiationInv
    <3>. QED BY <1>1, <3>1, <3>2
  <2>. QED BY <2>5, <2>9, <2>10, <2>11 DEF NegotiationInv
<1>. QED BY <1>2, <1>3, <1>4 DEF Offers

LEMMA GatherNegotiationInv ==
  ASSUME NegotiationInv, NEW n \in Node, Gather(n)
  PROVE  NegotiationInv'
<1>. DEFINE p == Peer(n)
<1>1. /\ p \in Node /\ p # n /\ Peer(p) = n /\ Larger \in Node
      /\ \A m \in Node : m = n \/ m = p
      /\ \/ n = Larger /\ p = Peer(Larger)
         \/ n = Peer(Larger) /\ p = Larger
  BY PeerFacts, PeeringAssumption
<1>. HIDE DEF p
<1>2. UNCHANGED <<signaling, description, net, lost>>
  BY DEF Gather
<1>3. NegotiationTypes
  BY DEF NegotiationInv
<1>4. callbacks[n] \in Seq({"gathered"} \cup Description)
      /\ "gathered" \in {"gathered"} \cup Description
  BY <1>3 DEF NegotiationTypes
<1>5. Append(callbacks[n], "gathered") \in Seq({"gathered"} \cup Description)
  BY <1>4, AppendFacts
<1>6. NegotiationTypes'
  BY <1>2, <1>3, <1>5 DEF NegotiationTypes, Gather
<1>7. /\ callbacks'[n] = Append(callbacks[n], "gathered") /\ callbacks'[p] = callbacks[p]
      /\ gathering[n] = "in-progress" /\ gathering'[p] = gathering[p]
  BY <1>1, <1>3 DEF NegotiationTypes, Gather
<1>8. /\ In("offer", callbacks'[n]) <=> In("offer", callbacks[n])
      /\ In("answer", callbacks'[n]) <=> In("answer", callbacks[n])
      /\ OfferIsFirst(callbacks[n]) => OfferIsFirst(callbacks'[n])
  BY <1>4, <1>7, QueueAppend
<1>9. description[n] # "none"
  BY <1>7 DEF NegotiationInv, NothingBefore
<1>10. NothingBefore'
  BY <1>1, <1>2, <1>7, <1>9 DEF NothingBefore, NegotiationInv, p
<1>11. AnswersComeLast'
  BY <1>1, <1>2, <1>7, <1>8 DEF AnswersComeLast, NegotiationInv, p
<1>12. OneAnswers'
  <2>1. \A m \in Node : NoOfferOf(m)' <=> NoOfferOf(m)
    BY <1>1, <1>2, <1>7, <1>8 DEF NoOfferOf
  <2>. QED BY <1>1, <1>2, <2>1, PeerFacts DEF OneAnswers, NegotiationInv
<1>. QED BY <1>6, <1>10, <1>11, <1>12 DEF NegotiationInv

(* A callback sends an offer before every answer, if it sends one.         *)
LEMMA CallbackNegotiationInv ==
  ASSUME NegotiationInv, NEW n \in Node, Callback(n)
  PROVE  NegotiationInv'
<1>. DEFINE p == Peer(n)
            Cause == {"gathered"} \cup Description
<1>1. /\ p \in Node /\ p # n /\ Peer(p) = n /\ Larger \in Node
      /\ \A m \in Node : m = n \/ m = p
      /\ \/ n = Larger /\ p = Peer(Larger)
         \/ n = Peer(Larger) /\ p = Larger
  BY PeerFacts, PeeringAssumption
<1>. HIDE DEF p
<1>2. UNCHANGED <<signaling, description, gathering>>
  BY DEF Callback
<1>3. NegotiationTypes
  BY DEF NegotiationInv
<1>4. callbacks[n] \in Seq(Cause) /\ callbacks[n] # << >>
  BY <1>3 DEF NegotiationTypes, Callback
<1>. DEFINE cause == Head(callbacks[n])
<1>5. cause \in Cause /\ Tail(callbacks[n]) \in Seq(Cause)
  BY <1>4, TailFacts
<1>6. callbacks'[n] = Tail(callbacks[n]) /\ callbacks'[p] = callbacks[p]
      /\ callbacks' \in [Node -> Seq(Cause)]
  BY <1>1, <1>3, <1>5 DEF NegotiationTypes, Callback
<1>7. /\ In(cause, callbacks[n])
      /\ \A y : In(y, callbacks'[n]) => In(y, callbacks[n])
      /\ OfferIsFirst(callbacks[n]) => OfferIsFirst(callbacks'[n])
                                       /\ ~ In("offer", callbacks'[n])
  BY ONLY <1>4, <1>6, QueueTail
<1>8. description[n] \in Description
  BY <1>3, <1>4 DEF NegotiationInv, NothingBefore, NegotiationTypes
<1>9. \E type \in Description :
        /\ \/ Send(n, type)
           \/ UNCHANGED <<net, lost>>
        /\ type \in {cause, description[n]}
  BY <1>5, <1>8 DEF Callback
<1>. HIDE DEF cause, Cause
<1>10. PICK type \in Description :
         /\ \/ Send(n, type)
            \/ UNCHANGED <<net, lost>>
         /\ type \in {cause, description[n]}
  BY <1>9
<1>11. /\ net' \in [Node -> Seq(Description)]
       /\ lost' \in SUBSET [from : Node, type : Description]
       /\ net'[n] = net[n]
       /\ net'[p] \in {net[p], Append(net[p], type)}
  <2>1. CASE Send(n, type)
    BY <1>3, <2>1, SendFacts DEF p
  <2>2. CASE UNCHANGED <<net, lost>>
    BY <1>3, <2>2 DEF NegotiationTypes
  <2>. QED BY <1>10, <2>1, <2>2
<1>12. type = "answer" => description[n] = "answer"
  BY <1>7, <1>10 DEF NegotiationInv, AnswersComeLast
<1>13. type = "offer" => ~ In("answer", net[p]) /\ ~ NoOfferOf(n)
  BY <1>7, <1>10 DEF NegotiationInv, AnswersComeLast, NoOfferOf, p
<1>14. net[p] \in Seq(Description)
  BY <1>1, <1>3 DEF NegotiationTypes
<1>15. /\ \A y : In(y, net'[p]) => In(y, net[p]) \/ y = type
       /\ OffersThenAnswers(net[p]) /\ (type = "answer" \/ ~ In("answer", net[p]))
            => OffersThenAnswers(net'[p])
  <2>1. /\ \A y : In(y, Append(net[p], type)) <=> In(y, net[p]) \/ y = type
        /\ OffersThenAnswers(net[p]) /\ (type = "answer" \/ ~ In("answer", net[p]))
             => OffersThenAnswers(Append(net[p], type))
    BY ONLY <1>14, type \in Description, QueueAppend
  <2>. QED BY <1>11, <2>1
<1>16. type = "offer" \/ type = "answer"
  BY DEF Description
<1>17. NegotiationTypes'
  BY <1>2, <1>3, <1>6, <1>11 DEF NegotiationTypes, Cause
<1>18. NothingBefore'
  <2>1. description[n] # "none"
    BY <1>8 DEF Description
  <2>. QED BY <1>1, <1>2, <1>6, <1>11, <2>1 DEF NothingBefore, NegotiationInv, p
<1>19. AnswersComeLast'
  <2>1. /\ OfferIsFirst(callbacks'[n]) /\ OffersThenAnswers(net'[p])
        /\ In("answer", callbacks'[n]) => description[n] = "answer"
        /\ In("answer", net'[p]) => description[n] = "answer"
        /\ ~ In("offer", callbacks'[n])
    BY <1>7, <1>12, <1>13, <1>15, <1>16 DEF AnswersComeLast, NegotiationInv, p
  <2>. QED BY <1>1, <1>2, <1>6, <1>11, <2>1 DEF AnswersComeLast, NegotiationInv, p
<1>20. OneAnswers'
  <2>1. NoOfferOf(n) => NoOfferOf(n)'
    BY <1>2, <1>7, <1>13, <1>15, <1>16 DEF NoOfferOf, p
  <2>2. NoOfferOf(p) => NoOfferOf(p)'
    BY <1>1, <1>2, <1>6, <1>11 DEF NoOfferOf
  <2>. QED BY <1>1, <1>2, <2>1, <2>2 DEF OneAnswers, NegotiationInv
<1>. QED BY <1>17, <1>18, <1>19, <1>20 DEF NegotiationInv

(* An offer that is accepted, an answer to the own one, or nothing.        *)
LEMMA ReceiveNegotiationInv ==
  ASSUME NegotiationInv, NEW n \in Node, Receive(n)
  PROVE  NegotiationInv'
<1>. DEFINE p == Peer(n)
            Cause == {"gathered"} \cup Description
<1>1. /\ p \in Node /\ p # n /\ Peer(p) = n /\ Larger \in Node
      /\ \A m \in Node : m = n \/ m = p
      /\ \/ n = Larger /\ p = Peer(Larger)
         \/ n = Peer(Larger) /\ p = Larger
  BY PeerFacts, PeeringAssumption
<1>. HIDE DEF p
<1>2. NegotiationTypes
  BY DEF NegotiationInv
<1>3. net[n] \in Seq(Description) /\ net[n] # << >> /\ lost' = lost
  BY <1>2 DEF NegotiationTypes, Receive
<1>. DEFINE type == Head(net[n])
<1>4. type \in Description /\ Tail(net[n]) \in Seq(Description)
  BY <1>3, TailFacts
<1>5. /\ net' \in [Node -> Seq(Description)]
      /\ net'[n] = Tail(net[n]) /\ net'[p] = net[p]
  BY <1>1, <1>2, <1>4 DEF NegotiationTypes, Receive
<1>6. /\ In(type, net[n])
      /\ \A y : In(y, net'[n]) => In(y, net[n])
      /\ OffersThenAnswers(net[n]) => OffersThenAnswers(net'[n])
      /\ OffersThenAnswers(net[n]) /\ type = "answer" => ~ In("offer", net'[n])
  BY ONLY <1>3, <1>5, QueueTail
<1>7. description[p] # "none"
  BY <1>1, <1>3 DEF NegotiationInv, NothingBefore
<1>8. type = "offer" \/ type = "answer"
  BY <1>4 DEF Description
<1>. HIDE DEF type
<1>9. CASE UNCHANGED negotiation
  <2>1. NegotiationTypes'
    BY <1>2, <1>3, <1>5, <1>9 DEF NegotiationTypes, negotiation
  <2>2. NothingBefore'
    BY <1>1, <1>5, <1>7, <1>9 DEF NothingBefore, NegotiationInv, negotiation, p
  <2>3. AnswersComeLast'
    BY <1>1, <1>5, <1>6, <1>9 DEF AnswersComeLast, NegotiationInv, negotiation, p
  <2>4. \A m \in Node : NoOfferOf(m) => NoOfferOf(m)'
    <3>1. NoOfferOf(n) => NoOfferOf(n)'
      BY <1>5, <1>9 DEF NoOfferOf, negotiation, p
    <3>2. NoOfferOf(p) => NoOfferOf(p)'
      BY <1>1, <1>5, <1>6, <1>9 DEF NoOfferOf, negotiation
    <3>. QED BY <1>1, <3>1, <3>2
  <2>5. OneAnswers'
    BY <1>1, <1>9, <2>4, PeerFacts DEF OneAnswers, NegotiationInv, negotiation
  <2>. QED BY <2>1, <2>2, <2>3, <2>5 DEF NegotiationInv
<1>10. CASE /\ type = "offer" /\ ~ Ignores(n, "offer")
            /\ signaling' = [signaling EXCEPT ![n] = "stable"]
            /\ SetLocalDescription(n, "answer")
  <2>1. /\ description[p] = "offer"
        /\ n = Larger => signaling[n] = "stable" /\ ~ In("offer", callbacks[n])
                         /\ ~ In("offer", net[p])
    BY <1>3, <1>10, AcceptedOfferStands DEF p, type
  <2>2. callbacks[n] \in Seq(Cause) /\ "answer" \in Cause
    BY <1>2 DEF NegotiationTypes, Description
  <2>3. Append(callbacks[n], "answer") \in Seq(Cause)
    BY <2>2, AppendFacts
  <2>4. NegotiationTypes'
    BY <1>2, <1>3, <1>5, <1>10, <2>3 DEF NegotiationTypes, SetLocalDescription, Description
  <2>5. /\ description'[n] = "answer" /\ description'[p] = description[p]
        /\ signaling'[n] = "stable" /\ signaling'[p] = signaling[p]
        /\ callbacks'[n] = Append(callbacks[n], "answer") /\ callbacks'[p] = callbacks[p]
        /\ gathering'[p] = gathering[p]
    BY <1>1, <1>2, <1>10 DEF NegotiationTypes, SetLocalDescription
  <2>6. /\ In("offer", callbacks'[n]) <=> In("offer", callbacks[n]) \/ "offer" = "answer"
        /\ OfferIsFirst(callbacks[n]) /\ "answer" # "offer" => OfferIsFirst(callbacks'[n])
    <3>. HIDE DEF Cause
    <3>. QED BY ONLY <2>2, <2>5, QueueAppend
  <2>7. NothingBefore'
    BY <1>1, <1>5, <2>1, <2>5 DEF NothingBefore
  <2>8. AnswersComeLast'
    BY <1>1, <1>5, <1>6, <2>5, <2>6 DEF AnswersComeLast, NegotiationInv, p
  <2>9. NoOfferOf(p) => NoOfferOf(p)'
    BY <1>1, <1>5, <1>6, <2>5 DEF NoOfferOf
  <2>10. ~ In("offer", callbacks[n]) /\ ~ In("offer", net[p]) => NoOfferOf(n)'
    BY <1>5, <2>5, <2>6 DEF NoOfferOf, p
  <2>11. OneAnswers'
    <3>1. CASE n = Larger /\ p = Peer(Larger)
      BY <2>1, <2>5, <2>10, <3>1 DEF OneAnswers
    <3>2. CASE n = Peer(Larger) /\ p = Larger
      <4>1. signaling[p] = "stable" => NoOfferOf(n)
        BY <2>1, <3>2 DEF OneAnswers, NegotiationInv
      <4>2. NoOfferOf(n) => NoOfferOf(n)'
        BY <2>10 DEF NoOfferOf, p
      <4>. QED BY <2>1, <2>5, <3>2, <4>1, <4>2 DEF OneAnswers
    <3>. QED BY <1>1, <3>1, <3>2
  <2>. QED BY <2>4, <2>7, <2>8, <2>11 DEF NegotiationInv
<1>11. CASE /\ type = "answer"
            /\ signaling' = [signaling EXCEPT ![n] = "stable"]
            /\ UNCHANGED <<description, gathering, callbacks>>
  <2>1. NegotiationTypes'
    BY <1>2, <1>3, <1>5, <1>11 DEF NegotiationTypes
  <2>2. signaling'[n] = "stable" /\ signaling'[p] = signaling[p]
    BY <1>1, <1>2, <1>11 DEF NegotiationTypes
  <2>3. NothingBefore'
    BY <1>1, <1>5, <1>7, <1>11, <2>2 DEF NothingBefore, NegotiationInv, p
  <2>4. AnswersComeLast'
    BY <1>1, <1>5, <1>6, <1>11 DEF AnswersComeLast, NegotiationInv, p
  <2>5. \A m \in Node : NoOfferOf(m) => NoOfferOf(m)'
    <3>1. NoOfferOf(n) => NoOfferOf(n)'
      BY <1>5, <1>11 DEF NoOfferOf, p
    <3>2. NoOfferOf(p) => NoOfferOf(p)'
      BY <1>1, <1>5, <1>6, <1>11 DEF NoOfferOf
    <3>. QED BY <1>1, <3>1, <3>2
  <2>6. NoOfferOf(p)'
    BY <1>1, <1>6, <1>11 DEF NoOfferOf, AnswersComeLast, NegotiationInv
  <2>7. OneAnswers'
    BY <1>1, <1>11, <2>2, <2>5, <2>6, PeerFacts DEF OneAnswers, NegotiationInv
  <2>. QED BY <2>1, <2>3, <2>4, <2>7 DEF NegotiationInv
<1>12. CASE Ignores(n, type) \/ Refuses(n, type)
  BY <1>9, <1>12 DEF Receive, type
<1>13. CASE ~ (Ignores(n, type) \/ Refuses(n, type))
  BY <1>8, <1>10, <1>11, <1>13 DEF Receive, type
<1>. QED BY <1>12, <1>13

(* The other steps of the data channels leave the negotiation alone.       *)
ChannelStep(n) ==
    \/ Close(n) \/ Assign(n) \/ AddNeighbor(n)
    \/ \E x \in Thread : Listen(n, x)
    \/ \E c \in DataChannel : \/ OnDataChannel(n, c) \/ Acknowledge(n, c) \/ Closed(n, c)
                              \/ OnOpen(n, c) \/ OnClosed(n, c)

LEMMA ChannelStepNegotiation ==
  ASSUME NEW n \in Node, ChannelStep(n)
  PROVE  UNCHANGED <<mPeerings, connects, negotiation, net, lost>>
<1>1. CASE Close(n) \/ Assign(n) \/ AddNeighbor(n)
  BY <1>1 DEF negotiation, Close, Assign, AddNeighbor
<1>2. CASE \E x \in Thread : Listen(n, x)
  BY <1>2 DEF negotiation, Listen, Crash
<1>3. CASE \E c \in DataChannel : \/ OnDataChannel(n, c) \/ Acknowledge(n, c)
                                 \/ Closed(n, c) \/ OnOpen(n, c) \/ OnClosed(n, c)
  BY <1>3 DEF negotiation, OnDataChannel, Acknowledge, Closed, OnOpen, OnClosed, Crash
<1>. QED BY <1>1, <1>2, <1>3 DEF ChannelStep

LEMMA NextCases ==
  ASSUME Next
  PROVE  \E n \in Node : \/ Connect(n) \/ Reset(n)
                         \/ Gather(n) \/ Callback(n) \/ Receive(n)
                         \/ ChannelStep(n)
<1>1. CASE \E n \in Node : Update(n) \/ ConnectPeer(n)
  BY <1>1 DEF Update, ConnectPeer
<1>2. CASE \E n \in Node : Late(n) \/ Steps(n)
  BY <1>2 DEF Late, Steps, ChannelStep
<1>. QED BY <1>1, <1>2 DEF Next, Run

LEMMA UnchangedNegotiationInv ==
  ASSUME NegotiationInv, UNCHANGED <<negotiation, net, lost>>
  PROVE  NegotiationInv'
BY DEF negotiation, NegotiationInv, NegotiationTypes, NothingBefore, AnswersComeLast,
       OneAnswers, NoOfferOf

LEMMA NextNegotiationInv == NegotiationInv /\ [Next]_vars => NegotiationInv'
<1>. SUFFICES ASSUME NegotiationInv, [Next]_vars PROVE NegotiationInv'
  OBVIOUS
<1>1. CASE UNCHANGED vars
  BY <1>1, UnchangedNegotiationInv DEF vars
<1>2. CASE Next
  <2>1. PICK n \in Node : \/ Connect(n) \/ Reset(n) \/ Gather(n) \/ Callback(n)
                          \/ Receive(n) \/ ChannelStep(n)
    BY <1>2, NextCases
  <2>2. CASE Connect(n) \/ Reset(n)
    BY <2>2, ConnectNegotiationInv
  <2>3. CASE Gather(n)
    BY <2>3, GatherNegotiationInv
  <2>4. CASE Callback(n)
    BY <2>4, CallbackNegotiationInv
  <2>5. CASE Receive(n)
    BY <2>5, ReceiveNegotiationInv
  <2>6. CASE ChannelStep(n)
    BY <2>6, ChannelStepNegotiation, UnchangedNegotiationInv
  <2>. QED BY <2>1, <2>2, <2>3, <2>4, <2>5, <2>6
<1>. QED BY <1>1, <1>2

(* An offer is accepted if none was before, and other steps accept none.   *)
LEMMA StepAgrees == NegotiationInv /\ [Next]_vars => [Agreement!Next]_Accepted
<1>. SUFFICES ASSUME NegotiationInv, [Next]_vars
              PROVE  Agreement!Next \/ Accepted' = Accepted
  OBVIOUS
<1>1. CASE UNCHANGED description
  BY <1>1 DEF Accepted
<1>2. CASE \E n \in Node : Connect(n) \/ Reset(n)
  <2>1. PICK n \in Node : Offers(n) \/ UNCHANGED negotiation
    BY <1>2, ConnectNegotiation
  <2>2. \A m \in Node : description'[m] = "answer" <=> description[m] = "answer"
    <3>1. CASE Offers(n)
      BY <3>1 DEF Offers, SetLocalDescription, NegotiationInv, NegotiationTypes
    <3>2. CASE UNCHANGED negotiation
      BY <3>2 DEF negotiation
    <3>. QED BY <2>1, <3>1, <3>2
  <2>. QED BY <2>2, PeerFacts DEF Accepted
<1>3. CASE \E n \in Node : Receive(n)
  <2>1. PICK n \in Node : Receive(n)
    BY <1>3
  <2>. DEFINE p == Peer(n)
              type == Head(net[n])
  <2>2. /\ p \in Node /\ p # n /\ Peer(p) = n /\ Peer(n) = p
        /\ \A m \in Node : m = n \/ m = p
    BY PeerFacts
  <2>3. description \in [Node -> {"none"} \cup Description]
    BY DEF NegotiationInv, NegotiationTypes
  <2>4. CASE type = "offer" /\ ~ Ignores(n, "offer") /\ SetLocalDescription(n, "answer")
    <3>1. description[p] = "offer"
      BY <2>1, <2>4, AcceptedOfferStands DEF Receive
    <3>2. description'[n] = "answer" /\ description'[p] = "offer"
      BY <2>2, <2>3, <2>4, <3>1 DEF SetLocalDescription
    <3>. HIDE DEF p, type
    <3>3. Accepted' = {p}
      <4>1. p \in Accepted' /\ n \notin Accepted'
        BY <2>2, <3>2 DEF Accepted
      <4>. QED BY <2>2, <4>1 DEF Accepted
    <3>4. Accepted = IF description[n] = "answer" THEN {p} ELSE {}
      <4>1. n \notin Accepted /\ (p \in Accepted <=> description[n] = "answer")
        BY <2>2, <3>1 DEF Accepted
      <4>. QED BY <2>2, <4>1 DEF Accepted
    <3>. QED BY <2>2, <3>3, <3>4 DEF Agreement!Next, Agreement!Accept
  <2>5. CASE UNCHANGED description
    BY <1>1, <2>5
  <2>6. type = "offer" \/ type # "offer"
    OBVIOUS
  <2>7. CASE Ignores(n, type) \/ Refuses(n, type)
    BY <2>1, <2>5, <2>7 DEF Receive, negotiation
  <2>8. CASE ~ (Ignores(n, type) \/ Refuses(n, type))
    BY <2>1, <2>4, <2>5, <2>8 DEF Receive
  <2>. QED BY <2>7, <2>8
<1>4. CASE Next
  <2>1. PICK n \in Node : \/ Connect(n) \/ Reset(n) \/ Gather(n) \/ Callback(n)
                          \/ Receive(n) \/ ChannelStep(n)
    BY <1>4, NextCases
  <2>2. CASE Gather(n) \/ Callback(n)
    BY <1>1, <2>2 DEF Gather, Callback
  <2>3. CASE ChannelStep(n)
    BY <1>1, <2>3, ChannelStepNegotiation DEF negotiation
  <2>. QED BY <1>2, <1>3, <2>1, <2>2, <2>3
<1>. QED BY <1>1, <1>4 DEF vars, negotiation

(* Whichever way the offers and answers of the two nodes cross, are sent   *)
(* twice or get lost, Peering::receive accepts the offer of one node and   *)
(* never that of the other one afterwards.                                 *)
THEOREM PeeringAgrees == Spec => OneOfferIsAccepted
<1>1. Init => Agreement!Init
  BY PeerFacts DEF Init, Agreement!Init, Accepted
<1>. QED
  BY <1>1, InitNegotiationInv, NextNegotiationInv, StepAgrees, PTL
  DEF Spec, OneOfferIsAccepted, Agreement!Spec

-----------------------------------------------------------------------------
States == {"none", "connecting", "open", "closed"}
Channels == DataChannel \cup {NoChannel}

ChannelTypes ==
    /\ mPeerings \in SUBSET Node
    /\ connects \in [Node -> Nat]
    /\ mDataChannel \in [Node -> Channels]
    /\ mChannels \in [Node -> SUBSET DataChannel]
    /\ neighbor \in [Node -> Channels]
    /\ thread \in [Node -> [Thread -> Frame]]
    /\ crashed \in SUBSET Node
    /\ end \in [Node -> [DataChannel -> States]]
    /\ handlers \in [Node -> SUBSET DataChannel]
    /\ coming \in [Node -> SUBSET (DataChannel \X Which)]

(* A call of connect has a data channel to close, a number for the one     *)
(* that it creates, and that one to assign.                                *)
ConnectOf(n) ==
    /\ At(n, "connect", "close") => mDataChannel[n] \in DataChannel
    /\ At(n, "connect", "close") \/ At(n, "connect", "reset")
         => <<n, connects[n]>> \in DataChannel
    /\ At(n, "connect", "assign") => thread[n]["connect"].channel \in DataChannel

NeighborOf(n) == neighbor[n] \in mChannels[n] \cup {NoChannel}

ChannelInv ==
    ChannelTypes /\ \A n \in Node : ConnectOf(n) /\ NeighborOf(n)

-----------------------------------------------------------------------------
LEMMA ChannelFacts ==
  ASSUME NEW n \in Node, NEW k \in Nat, k < MaxConnects[n]
  PROVE  <<n, k + 1>> \in DataChannel
<1>1. MaxConnects[n] \in Nat
  BY PeeringAssumption
<1>2. k + 1 \in 1..MaxConnects[n]
  BY <1>1
<1>. QED BY <1>2 DEF DataChannel

(* What a thread's next step leaves alone.                                 *)
LEMMA GotoFacts ==
  ASSUME ChannelTypes, NEW n \in Node, NEW x \in Thread, NEW pc, NEW c \in Channels,
         pc \in {"idle", "close", "reset", "assign", "listen", "addNeighbor"},
         Goto(n, x, pc, c)
  PROVE  /\ thread' \in [Node -> [Thread -> Frame]]
         /\ thread'[n][x].pc = pc /\ thread'[n][x].channel = c
         /\ \A y \in Thread \ {x} : thread'[n][y] = thread[n][y]
         /\ \A m \in Node \ {n} : thread'[m] = thread[m]
<1>. DEFINE f == [pc |-> pc, channel |-> c]
<1>1. f \in Frame /\ f.pc = pc /\ f.channel = c
  BY DEF Frame, Channels
<1>2. thread' = [thread EXCEPT ![n][x] = f]
  BY DEF Goto
<1>. HIDE DEF f
<1>3. thread \in [Node -> [Thread -> Frame]]
  BY DEF ChannelTypes
<1>. QED BY <1>1, <1>2, <1>3

LEMMA ReleaseFacts ==
  ASSUME ChannelTypes, NEW n \in Node, NEW ends \in [DataChannel -> States],
         Release(n, ends)
  PROVE  end' \in [Node -> [DataChannel -> States]]
<1>. DEFINE kept == [c \in DataChannel |->
                       IF ends[c] \in {"connecting", "open"} /\ c \notin Referred(n)'
                       THEN "closed" ELSE ends[c]]
<1>1. kept \in [DataChannel -> States]
  BY DEF States
<1>2. end' = [end EXCEPT ![n] = kept]
  BY DEF Release
<1>. HIDE DEF kept
<1>. QED BY <1>1, <1>2 DEF ChannelTypes

LEMMA EndFacts ==
  ASSUME ChannelTypes, NEW n \in Node, NEW c, NEW e \in States
  PROVE  /\ end[n] \in [DataChannel -> States]
         /\ [end[n] EXCEPT ![c] = e] \in [DataChannel -> States]
         /\ [end EXCEPT ![n][c] = e] \in [Node -> [DataChannel -> States]]
BY DEF ChannelTypes

(* A step of one node.                                                     *)
LEMMA StepOfNode ==
  ASSUME ChannelInv, NEW n \in Node, ChannelTypes', ConnectOf(n)', NeighborOf(n)',
         \A m \in Node \ {n} :
           /\ thread'[m] = thread[m] /\ mDataChannel'[m] = mDataChannel[m]
           /\ connects'[m] = connects[m] /\ mChannels'[m] = mChannels[m]
           /\ neighbor'[m] = neighbor[m]
  PROVE  ChannelInv'
<1>1. ASSUME NEW m \in Node, m # n
      PROVE  ConnectOf(m)' /\ NeighborOf(m)'
  BY <1>1 DEF ChannelInv, ConnectOf, NeighborOf, At
<1>. QED BY <1>1 DEF ChannelInv

(* Routing without a channel, or without nothing.                          *)
LEMMA RemoveFacts ==
  ASSUME ChannelInv, NEW n \in Node, NEW c, RemoveChannel(n, c)
  PROVE  /\ mChannels' \in [Node -> SUBSET DataChannel]
         /\ neighbor' \in [Node -> Channels]
         /\ NeighborOf(n)'
         /\ \A m \in Node \ {n} : mChannels'[m] = mChannels[m] /\ neighbor'[m] = neighbor[m]
<1>1. /\ mChannels \in [Node -> SUBSET DataChannel]
      /\ neighbor \in [Node -> Channels]
      /\ neighbor[n] \in mChannels[n] \cup {NoChannel}
  BY DEF ChannelInv, ChannelTypes, NeighborOf
<1>2. /\ mChannels' = [mChannels EXCEPT ![n] = @ \ {c}]
      /\ neighbor' = [neighbor EXCEPT ![n] = IF @ = c THEN NoChannel ELSE @]
  BY DEF RemoveChannel
<1>3. mChannels' \in [Node -> SUBSET DataChannel]
  BY <1>1, <1>2
<1>4. neighbor' \in [Node -> Channels]
  BY <1>1, <1>2 DEF Channels
<1>5. NeighborOf(n)'
  BY <1>1, <1>2 DEF NeighborOf
<1>. QED BY <1>1, <1>2, <1>3, <1>4, <1>5

(* The new data channel is assigned next.                                  *)
LEMMA CreateFacts ==
  ASSUME ChannelTypes, NEW n \in Node, NEW ends \in [DataChannel -> States],
         <<n, connects'[n]>> \in DataChannel, Create(n, ends)
  PROVE  /\ thread' \in [Node -> [Thread -> Frame]]
         /\ end' \in [Node -> [DataChannel -> States]]
         /\ ConnectOf(n)'
         /\ \A m \in Node \ {n} : thread'[m] = thread[m]
<1>. DEFINE new == <<n, connects'[n]>>
<1>1. /\ Goto(n, "connect", "assign", new)
      /\ Release(n, [ends EXCEPT ![new] = "connecting"])
  BY DEF Create
<1>2. new \in DataChannel
  OBVIOUS
<1>. HIDE DEF new
<1>3. /\ thread' \in [Node -> [Thread -> Frame]]
      /\ thread'[n]["connect"].pc = "assign" /\ thread'[n]["connect"].channel = new
      /\ \A m \in Node \ {n} : thread'[m] = thread[m]
  BY <1>1, <1>2, GotoFacts DEF Thread, Channels
<1>4. [ends EXCEPT ![new] = "connecting"] \in [DataChannel -> States]
  BY DEF States
<1>5. end' \in [Node -> [DataChannel -> States]]
  BY <1>1, <1>4, ReleaseFacts
<1>6. ConnectOf(n)'
  BY <1>2, <1>3 DEF ConnectOf, At
<1>. QED BY <1>3, <1>5, <1>6

LEMMA InitChannelInv == Init => ChannelInv
<1>. SUFFICES ASSUME Init PROVE ChannelInv
  OBVIOUS
<1>1. Idle \in Frame /\ Idle.pc = "idle"
  BY DEF Idle, Frame
<1>. HIDE DEF Idle
<1>2. ChannelTypes
  BY <1>1 DEF Init, ChannelTypes, States, Channels
<1>3. \A n \in Node : ConnectOf(n)
  BY <1>1 DEF Init, ConnectOf, At, Thread
<1>4. \A n \in Node : NeighborOf(n)
  BY DEF Init, NeighborOf
<1>. QED BY <1>2, <1>3, <1>4 DEF ChannelInv

LEMMA ConnectChannelInv ==
  ASSUME ChannelInv, NEW n \in Node, Connect(n)
  PROVE  ChannelInv'
<1>1. ChannelTypes /\ ConnectOf(n) /\ NeighborOf(n)
  BY DEF ChannelInv
<1>2. /\ At(n, "connect", "idle") /\ connects[n] < MaxConnects[n]
      /\ connects' = [connects EXCEPT ![n] = @ + 1]
      /\ mPeerings' = mPeerings \cup {n}
      /\ UNCHANGED <<mDataChannel, crashed, handlers, coming>>
  BY DEF Connect
<1>3. /\ connects \in [Node -> Nat] /\ mPeerings \in SUBSET Node
      /\ mDataChannel[n] \in Channels /\ end[n] \in [DataChannel -> States]
  BY <1>1 DEF ChannelTypes
<1>4. /\ connects' \in [Node -> Nat] /\ connects'[n] = connects[n] + 1
      /\ \A m \in Node \ {n} : connects'[m] = connects[m]
  BY <1>2, <1>3
<1>5. <<n, connects'[n]>> \in DataChannel
  BY <1>2, <1>3, <1>4, ChannelFacts
<1>6. CASE mDataChannel[n] = NoChannel
  <2>1. UNCHANGED <<mChannels, neighbor>> /\ Create(n, end[n])
    BY <1>6 DEF Connect, routing
  <2>2. /\ thread' \in [Node -> [Thread -> Frame]]
        /\ end' \in [Node -> [DataChannel -> States]]
        /\ ConnectOf(n)'
        /\ \A m \in Node \ {n} : thread'[m] = thread[m]
    BY <1>1, <1>3, <1>5, <2>1, CreateFacts
  <2>3. ChannelTypes'
    BY <1>1, <1>2, <1>3, <1>4, <2>1, <2>2 DEF ChannelTypes
  <2>4. NeighborOf(n)'
    BY <1>1, <2>1 DEF NeighborOf
  <2>. QED BY <1>2, <1>4, <2>1, <2>2, <2>3, <2>4, StepOfNode
<1>7. CASE mDataChannel[n] # NoChannel
  <2>1. /\ RemoveChannel(n, mDataChannel[n])
        /\ Goto(n, "connect", "close", NoChannel) /\ Release(n, end[n])
    BY <1>7 DEF Connect
  <2>2. /\ mChannels' \in [Node -> SUBSET DataChannel]
        /\ neighbor' \in [Node -> Channels]
        /\ NeighborOf(n)'
        /\ \A m \in Node \ {n} : mChannels'[m] = mChannels[m] /\ neighbor'[m] = neighbor[m]
    BY <2>1, RemoveFacts
  <2>3. /\ thread' \in [Node -> [Thread -> Frame]]
        /\ thread'[n]["connect"].pc = "close"
        /\ \A m \in Node \ {n} : thread'[m] = thread[m]
    BY <1>1, <2>1, GotoFacts DEF Thread, Channels
  <2>4. end' \in [Node -> [DataChannel -> States]]
    BY <1>1, <1>3, <2>1, ReleaseFacts
  <2>5. ChannelTypes'
    BY <1>1, <1>2, <1>3, <1>4, <2>2, <2>3, <2>4 DEF ChannelTypes
  <2>6. ConnectOf(n)'
    BY <1>2, <1>3, <1>5, <1>7, <2>3 DEF ConnectOf, At, Channels
  <2>. QED BY <1>2, <1>4, <2>2, <2>3, <2>5, <2>6, StepOfNode
<1>. QED BY <1>6, <1>7

LEMMA CloseChannelInv ==
  ASSUME ChannelInv, NEW n \in Node, Close(n)
  PROVE  ChannelInv'
<1>1. ChannelTypes /\ ConnectOf(n) /\ NeighborOf(n)
  BY DEF ChannelInv
<1>. DEFINE c == mDataChannel[n]
<1>2. /\ At(n, "connect", "close") /\ Goto(n, "connect", "reset", NoChannel)
      /\ UNCHANGED <<mPeerings, connects, mDataChannel, mChannels, neighbor, crashed,
                     handlers>>
      /\ UNCHANGED <<end, coming>> \/ Shut(n, c)
  BY DEF Close, routing
<1>3. c \in DataChannel /\ <<n, connects[n]>> \in DataChannel
  BY <1>1, <1>2 DEF ConnectOf
<1>. HIDE DEF c
<1>4. /\ thread' \in [Node -> [Thread -> Frame]]
      /\ thread'[n]["connect"].pc = "reset"
      /\ \A m \in Node \ {n} : thread'[m] = thread[m]
  BY <1>1, <1>2, GotoFacts DEF Thread, Channels
<1>5. /\ end' \in [Node -> [DataChannel -> States]]
      /\ coming' \in [Node -> SUBSET (DataChannel \X Which)]
  <2>1. /\ end \in [Node -> [DataChannel -> States]] /\ "closed" \in States
        /\ coming \in [Node -> SUBSET (DataChannel \X Which)] /\ "closed" \in Which
    BY <1>1 DEF ChannelTypes, States, Which
  <2>2. CASE UNCHANGED <<end, coming>>
    BY <2>1, <2>2
  <2>3. CASE Shut(n, c)
    <3>1. end' \in [Node -> [DataChannel -> States]]
      BY <1>1, <2>1, <2>3, EndFacts DEF Shut
    <3>2. <<c, "closed">> \in DataChannel \X Which
      BY <1>3, <2>1
    <3>3. coming' \in [Node -> SUBSET (DataChannel \X Which)]
      BY <2>1, <2>3, <3>2 DEF Shut
    <3>. QED BY <3>1, <3>3
  <2>. QED BY <1>2, <2>2, <2>3
<1>6. ChannelTypes'
  BY <1>1, <1>2, <1>4, <1>5 DEF ChannelTypes
<1>7. ConnectOf(n)' /\ NeighborOf(n)'
  BY <1>1, <1>2, <1>3, <1>4 DEF ConnectOf, NeighborOf, At
<1>. QED BY <1>2, <1>4, <1>6, <1>7, StepOfNode

LEMMA ResetChannelInv ==
  ASSUME ChannelInv, NEW n \in Node, Reset(n)
  PROVE  ChannelInv'
<1>1. ChannelTypes /\ ConnectOf(n) /\ NeighborOf(n)
  BY DEF ChannelInv
<1>2. /\ At(n, "connect", "reset") /\ Create(n, end[n])
      /\ mDataChannel' = [mDataChannel EXCEPT ![n] = NoChannel]
      /\ UNCHANGED <<mPeerings, connects, mChannels, neighbor, crashed, handlers, coming>>
  BY DEF Reset, routing
<1>3. <<n, connects'[n]>> \in DataChannel /\ end[n] \in [DataChannel -> States]
  BY <1>1, <1>2 DEF ConnectOf, ChannelTypes
<1>4. /\ thread' \in [Node -> [Thread -> Frame]]
      /\ end' \in [Node -> [DataChannel -> States]]
      /\ ConnectOf(n)'
      /\ \A m \in Node \ {n} : thread'[m] = thread[m]
  BY <1>1, <1>2, <1>3, CreateFacts
<1>5. /\ mDataChannel' \in [Node -> Channels]
      /\ \A m \in Node \ {n} : mDataChannel'[m] = mDataChannel[m]
  BY <1>1, <1>2 DEF ChannelTypes, Channels
<1>6. ChannelTypes'
  BY <1>1, <1>2, <1>4, <1>5 DEF ChannelTypes
<1>7. NeighborOf(n)'
  BY <1>1, <1>2 DEF NeighborOf
<1>. QED BY <1>2, <1>4, <1>5, <1>6, <1>7, StepOfNode

(* A data channel is assigned, by either thread.                           *)
LEMMA SetDataChannelInv ==
  ASSUME ChannelInv, NEW n \in Node, NEW x \in Thread, NEW c \in DataChannel,
         SetDataChannel(n, x, c), end' \in [Node -> [DataChannel -> States]],
         coming' \in [Node -> SUBSET (DataChannel \X Which)],
         UNCHANGED <<mPeerings, connects, mChannels, neighbor, crashed, handlers>>
  PROVE  ChannelInv'
<1>1. ChannelTypes /\ ConnectOf(n) /\ NeighborOf(n)
  BY DEF ChannelInv
<1>2. mDataChannel' = [mDataChannel EXCEPT ![n] = c] /\ Goto(n, x, "listen", c)
  BY DEF SetDataChannel
<1>3. /\ thread' \in [Node -> [Thread -> Frame]]
      /\ thread'[n][x].pc = "listen"
      /\ \A y \in Thread \ {x} : thread'[n][y] = thread[n][y]
      /\ \A m \in Node \ {n} : thread'[m] = thread[m]
  BY <1>1, <1>2, GotoFacts DEF Channels
<1>4. /\ mDataChannel' \in [Node -> Channels] /\ mDataChannel'[n] = c
      /\ \A m \in Node \ {n} : mDataChannel'[m] = mDataChannel[m]
  BY <1>1, <1>2 DEF ChannelTypes, Channels
<1>5. ChannelTypes'
  BY <1>1, <1>3, <1>4 DEF ChannelTypes
<1>6. ConnectOf(n)'
  <2>1. CASE x = "connect"
    BY <1>3, <2>1 DEF ConnectOf, At
  <2>2. CASE x # "connect"
    BY <1>1, <1>3, <1>4, <2>2 DEF ConnectOf, At, Thread
  <2>. QED BY <2>1, <2>2
<1>7. NeighborOf(n)'
  BY <1>1 DEF NeighborOf
<1>. QED BY <1>3, <1>4, <1>5, <1>6, <1>7, StepOfNode

LEMMA AssignChannelInv ==
  ASSUME ChannelInv, NEW n \in Node, Assign(n)
  PROVE  ChannelInv'
<1>1. ChannelTypes /\ ConnectOf(n)
  BY DEF ChannelInv
<1>. DEFINE c == thread[n]["connect"].channel
<1>2. /\ SetDataChannel(n, "connect", c) /\ Release(n, end[n])
      /\ UNCHANGED <<mPeerings, connects, mChannels, neighbor, crashed, handlers, coming>>
  BY DEF Assign, routing
<1>3. c \in DataChannel
  BY <1>1 DEF ConnectOf, Assign
<1>. HIDE DEF c
<1>4. end' \in [Node -> [DataChannel -> States]]
  BY <1>1, <1>2, ReleaseFacts DEF ChannelTypes
<1>5. coming' \in [Node -> SUBSET (DataChannel \X Which)] /\ "connect" \in Thread
  BY <1>1, <1>2 DEF ChannelTypes, Thread
<1>. QED BY <1>2, <1>3, <1>4, <1>5, SetDataChannelInv

LEMMA OnDataChannelInv ==
  ASSUME ChannelInv, NEW n \in Node, NEW c \in DataChannel, OnDataChannel(n, c)
  PROVE  ChannelInv'
<1>1. ChannelTypes
  BY DEF ChannelInv
<1>. DEFINE ends == [end[n] EXCEPT ![c] = "open"]
<1>2. /\ SetDataChannel(n, "rtc", c) /\ Release(n, ends)
      /\ coming' = [coming EXCEPT ![n] = @ \cup {<<c, "open">>}]
      /\ UNCHANGED <<mPeerings, connects, mChannels, neighbor, crashed, handlers>>
  BY DEF OnDataChannel, routing
<1>3. ends \in [DataChannel -> States]
  BY <1>1, EndFacts DEF States
<1>. HIDE DEF ends
<1>4. end' \in [Node -> [DataChannel -> States]]
  BY <1>1, <1>2, <1>3, ReleaseFacts
<1>5. coming' \in [Node -> SUBSET (DataChannel \X Which)] /\ "rtc" \in Thread
  BY <1>1, <1>2 DEF ChannelTypes, Thread, Which
<1>. QED BY <1>2, <1>4, <1>5, SetDataChannelInv

(* A step of a thread that leaves mDataChannel and Routing alone.          *)
LEMMA OtherStepInv ==
  ASSUME ChannelInv, NEW n \in Node,
         UNCHANGED <<mPeerings, connects, mDataChannel, mChannels, neighbor>>,
         crashed' \in SUBSET Node, thread' \in [Node -> [Thread -> Frame]],
         end' \in [Node -> [DataChannel -> States]],
         handlers' \in [Node -> SUBSET DataChannel],
         coming' \in [Node -> SUBSET (DataChannel \X Which)],
         \A m \in Node : thread'[m]["connect"] = thread[m]["connect"]
                         \/ thread'[m]["connect"].pc = "idle"
  PROVE  ChannelInv'
<1>1. ChannelTypes
  BY DEF ChannelInv
<1>2. ChannelTypes'
  BY <1>1 DEF ChannelTypes
<1>3. \A m \in Node : ConnectOf(m)' /\ NeighborOf(m)'
  BY DEF ChannelInv, ConnectOf, NeighborOf, At
<1>. QED BY <1>2, <1>3 DEF ChannelInv

LEMMA CrashInv ==
  ASSUME ChannelInv, NEW n \in Node, Crash(n)
  PROVE  ChannelInv'
<1>1. ChannelTypes
  BY DEF ChannelInv
<1>2. /\ crashed' = crashed \cup {n}
      /\ UNCHANGED <<mPeerings, connects, mDataChannel, mChannels, neighbor, thread, end,
                     handlers, coming>>
  BY DEF Crash, routing
<1>. QED BY <1>1, <1>2, OtherStepInv DEF ChannelTypes

LEMMA ListenChannelInv ==
  ASSUME ChannelInv, NEW n \in Node, NEW x \in Thread, Listen(n, x)
  PROVE  ChannelInv'
<1>1. ChannelTypes
  BY DEF ChannelInv
<1>2. CASE mDataChannel[n] = NoChannel
  BY <1>2, CrashInv DEF Listen
<1>3. CASE mDataChannel[n] # NoChannel
  <2>1. /\ handlers' = [handlers EXCEPT ![n] = @ \cup {mDataChannel[n]}]
        /\ Goto(n, x, "idle", NoChannel) /\ Release(n, end[n])
        /\ UNCHANGED <<mPeerings, connects, mDataChannel, mChannels, neighbor, crashed,
                       coming>>
    BY <1>3 DEF Listen, routing
  <2>2. /\ thread' \in [Node -> [Thread -> Frame]]
        /\ thread'[n][x].pc = "idle"
        /\ \A y \in Thread \ {x} : thread'[n][y] = thread[n][y]
        /\ \A m \in Node \ {n} : thread'[m] = thread[m]
    BY <1>1, <2>1, GotoFacts DEF Channels
  <2>3. \A m \in Node : thread'[m]["connect"] = thread[m]["connect"]
                        \/ thread'[m]["connect"].pc = "idle"
    BY <2>2 DEF Thread
  <2>4. handlers' \in [Node -> SUBSET DataChannel]
    BY <1>1, <1>3, <2>1 DEF ChannelTypes, Channels
  <2>5. end' \in [Node -> [DataChannel -> States]]
    BY <1>1, <2>1, ReleaseFacts DEF ChannelTypes
  <2>6. crashed' \in SUBSET Node /\ coming' \in [Node -> SUBSET (DataChannel \X Which)]
    BY <1>1, <2>1 DEF ChannelTypes
  <2>. QED BY <2>1, <2>2, <2>3, <2>4, <2>5, <2>6, OtherStepInv
<1>. QED BY <1>2, <1>3

LEMMA RtcChannelInv ==
  ASSUME ChannelInv, NEW n \in Node, NEW c \in DataChannel,
         Acknowledge(n, c) \/ Closed(n, c)
  PROVE  ChannelInv'
<1>1. ChannelTypes
  BY DEF ChannelInv
<1>2. PICK which \in Which, e \in States :
        /\ end' = [end EXCEPT ![n][c] = e]
        /\ coming' = [coming EXCEPT ![n] = @ \cup {<<c, which>>}]
  BY DEF Acknowledge, Closed, Shut, Which, States
<1>3. UNCHANGED <<mPeerings, connects, mDataChannel, mChannels, neighbor, crashed, thread,
                  handlers>>
  BY DEF Acknowledge, Closed, routing
<1>4. end' \in [Node -> [DataChannel -> States]]
  BY <1>1, <1>2, EndFacts
<1>5. coming' \in [Node -> SUBSET (DataChannel \X Which)]
  BY <1>1, <1>2 DEF ChannelTypes
<1>6. /\ crashed' \in SUBSET Node /\ thread' \in [Node -> [Thread -> Frame]]
      /\ handlers' \in [Node -> SUBSET DataChannel]
  BY <1>1, <1>3 DEF ChannelTypes
<1>. QED BY <1>3, <1>4, <1>5, <1>6, OtherStepInv

LEMMA OnOpenInv ==
  ASSUME ChannelInv, NEW n \in Node, NEW c \in DataChannel, OnOpen(n, c)
  PROVE  ChannelInv'
<1>1. ChannelTypes /\ ConnectOf(n) /\ NeighborOf(n)
  BY DEF ChannelInv
<1>2. CASE mDataChannel[n] = NoChannel
  BY <1>2, CrashInv DEF OnOpen
<1>3. CASE mDataChannel[n] # NoChannel
  <2>1. /\ coming' = [coming EXCEPT ![n] = @ \ {<<c, "open">>}]
        /\ mChannels' = [mChannels EXCEPT ![n] = @ \cup {mDataChannel[n]}]
        /\ Goto(n, "rtc", "addNeighbor", NoChannel)
        /\ UNCHANGED <<mPeerings, connects, mDataChannel, neighbor, crashed, end, handlers>>
    BY <1>3 DEF OnOpen
  <2>2. /\ thread' \in [Node -> [Thread -> Frame]]
        /\ \A y \in Thread \ {"rtc"} : thread'[n][y] = thread[n][y]
        /\ \A m \in Node \ {n} : thread'[m] = thread[m]
    BY <1>1, <2>1, GotoFacts DEF Thread, Channels
  <2>3. coming' \in [Node -> SUBSET (DataChannel \X Which)]
    BY <1>1, <2>1 DEF ChannelTypes
  <2>4. /\ mChannels' \in [Node -> SUBSET DataChannel] /\ mChannels[n] \subseteq mChannels'[n]
        /\ \A m \in Node \ {n} : mChannels'[m] = mChannels[m]
    BY <1>1, <1>3, <2>1 DEF ChannelTypes, Channels
  <2>5. ChannelTypes'
    BY <1>1, <2>1, <2>2, <2>3, <2>4 DEF ChannelTypes
  <2>6. ConnectOf(n)'
    BY <1>1, <2>1, <2>2 DEF ConnectOf, At, Thread
  <2>7. NeighborOf(n)'
    BY <1>1, <2>1, <2>4 DEF NeighborOf
  <2>. QED BY <2>1, <2>2, <2>4, <2>5, <2>6, <2>7, StepOfNode
<1>. QED BY <1>2, <1>3

LEMMA OnClosedInv ==
  ASSUME ChannelInv, NEW n \in Node, NEW c \in DataChannel, OnClosed(n, c)
  PROVE  ChannelInv'
<1>1. ChannelTypes /\ ConnectOf(n)
  BY DEF ChannelInv
<1>2. /\ coming' = [coming EXCEPT ![n] = @ \ {<<c, "closed">>}]
      /\ RemoveChannel(n, mDataChannel[n]) /\ Release(n, end[n])
      /\ UNCHANGED <<mPeerings, connects, mDataChannel, crashed, thread, handlers>>
  BY DEF OnClosed
<1>3. /\ mChannels' \in [Node -> SUBSET DataChannel]
      /\ neighbor' \in [Node -> Channels]
      /\ NeighborOf(n)'
      /\ \A m \in Node \ {n} : mChannels'[m] = mChannels[m] /\ neighbor'[m] = neighbor[m]
  BY <1>2, RemoveFacts
<1>4. end' \in [Node -> [DataChannel -> States]]
  BY <1>1, <1>2, ReleaseFacts DEF ChannelTypes
<1>5. coming' \in [Node -> SUBSET (DataChannel \X Which)]
  BY <1>1, <1>2 DEF ChannelTypes
<1>6. ChannelTypes'
  BY <1>1, <1>2, <1>3, <1>4, <1>5 DEF ChannelTypes
<1>7. ConnectOf(n)'
  BY <1>1, <1>2 DEF ConnectOf, At
<1>. QED BY <1>2, <1>3, <1>6, <1>7, StepOfNode

(* addNeighbor tests the channel that it is called with.                   *)
LEMMA AddNeighborInv ==
  ASSUME ChannelInv, NEW n \in Node, AddNeighbor(n)
  PROVE  ChannelInv'
<1>1. ChannelTypes /\ ConnectOf(n) /\ NeighborOf(n)
  BY DEF ChannelInv
<1>2. /\ neighbor' = [neighbor EXCEPT ![n] =
                        IF @ = NoChannel /\ mDataChannel[n] \in mChannels[n]
                        THEN mDataChannel[n] ELSE @]
      /\ Goto(n, "rtc", "idle", NoChannel)
      /\ UNCHANGED <<mPeerings, connects, mDataChannel, mChannels, crashed, end, handlers,
                     coming>>
  BY DEF AddNeighbor
<1>3. /\ thread' \in [Node -> [Thread -> Frame]]
      /\ \A y \in Thread \ {"rtc"} : thread'[n][y] = thread[n][y]
      /\ \A m \in Node \ {n} : thread'[m] = thread[m]
  BY <1>1, <1>2, GotoFacts DEF Thread, Channels
<1>4. /\ neighbor' \in [Node -> Channels]
      /\ neighbor'[n] \in mChannels[n] \cup {NoChannel}
      /\ \A m \in Node \ {n} : neighbor'[m] = neighbor[m]
  BY <1>1, <1>2 DEF ChannelTypes, NeighborOf
<1>5. ChannelTypes'
  BY <1>1, <1>2, <1>3, <1>4 DEF ChannelTypes
<1>6. ConnectOf(n)'
  BY <1>1, <1>2, <1>3 DEF ConnectOf, At, Thread
<1>7. NeighborOf(n)'
  BY <1>2, <1>4 DEF NeighborOf
<1>. QED BY <1>2, <1>3, <1>4, <1>5, <1>6, <1>7, StepOfNode

(* The steps of the negotiation leave the channels alone.                  *)
LEMMA UnchangedChannelInv ==
  ASSUME ChannelInv, UNCHANGED <<connects, channels>>, mPeerings' \in SUBSET Node
  PROVE  ChannelInv'
BY DEF channels, routing, ChannelInv, ChannelTypes, ConnectOf, NeighborOf, At

LEMMA NextChannelInv == ChannelInv /\ [Next]_vars => ChannelInv'
<1>. SUFFICES ASSUME ChannelInv, [Next]_vars PROVE ChannelInv'
  OBVIOUS
<1>1. mPeerings \in SUBSET Node
  BY DEF ChannelInv, ChannelTypes
<1>2. CASE UNCHANGED vars
  BY <1>1, <1>2, UnchangedChannelInv DEF vars
<1>3. CASE Next
  <2>1. PICK n \in Node : \/ Connect(n) \/ Reset(n) \/ Gather(n) \/ Callback(n)
                          \/ Receive(n) \/ ChannelStep(n)
    BY <1>3, NextCases
  <2>2. CASE Connect(n)
    BY <2>2, ConnectChannelInv
  <2>3. CASE Reset(n)
    BY <2>3, ResetChannelInv
  <2>4. CASE Gather(n) \/ Callback(n) \/ Receive(n)
    BY <1>1, <2>4, UnchangedChannelInv DEF Gather, Callback, Receive
  <2>5. CASE ChannelStep(n)
    <3>1. CASE Close(n) \/ Assign(n) \/ AddNeighbor(n)
      BY <3>1, CloseChannelInv, AssignChannelInv, AddNeighborInv
    <3>2. CASE \E x \in Thread : Listen(n, x)
      BY <3>2, ListenChannelInv
    <3>3. CASE \E c \in DataChannel : \/ OnDataChannel(n, c) \/ Acknowledge(n, c)
                                      \/ Closed(n, c) \/ OnOpen(n, c) \/ OnClosed(n, c)
      BY <3>3, OnDataChannelInv, RtcChannelInv, OnOpenInv, OnClosedInv
    <3>. QED BY <2>5, <3>1, <3>2, <3>3 DEF ChannelStep
  <2>. QED BY <2>1, <2>2, <2>3, <2>4, <2>5
<1>. QED BY <1>2, <1>3

-----------------------------------------------------------------------------
(* The variables of Networking and Peering, of what libdatachannel tells   *)
(* them, and of Routing keep their types: Routing never gets a null data   *)
(* channel, and connect always has one to close.                           *)
THEOREM PeeringTypeOK == Spec => []TypeOK
<1>1. NegotiationInv /\ ChannelInv => TypeOK
  BY DEF NegotiationInv, NegotiationTypes, ChannelInv, ChannelTypes, States, Channels,
         TypeOK
<1>. QED
  BY <1>1, InitNegotiationInv, NextNegotiationInv, InitChannelInv, NextChannelInv, PTL
  DEF Spec

(* Whatever connect and the callbacks do to mDataChannel between the two   *)
(* reads of it in onOpen, and whichever channel onClosed removes, messages *)
(* to the neighbour go through a channel that Routing still has.           *)
THEOREM PeeringNeighborUsesChannel == Spec => []NeighborUsesChannel
<1>1. ChannelInv => NeighborUsesChannel
  BY DEF ChannelInv, NeighborOf, NeighborUsesChannel
<1>. QED BY <1>1, InitChannelInv, NextChannelInv, PTL DEF Spec

=============================================================================
