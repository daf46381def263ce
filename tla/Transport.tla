------------------------------ MODULE Transport -----------------------------
(***************************************************************************)
(* Transport and BroadcastableTransport (src/src/impl/transport.cpp,       *)
(* broadcastabletransport.cpp): numbered messages from a node to another   *)
(* one or, flooded, to all of them.                                        *)
(*                                                                         *)
(* The network is at rest otherwise: its nodes are linked in pairs by one  *)
(* open channel each and know each other's states.  A message to a node    *)
(* that is not a neighbour has no route (RouteComputation) and is dropped. *)
(*                                                                         *)
(* The handler of a channel holds a lock in checkSequence and again in     *)
(* Routing::broadcast, and none in between; a caller of send or broadcast  *)
(* takes its number before it sends.  rest and call hold what is left.     *)
(***************************************************************************)
EXTENDS SequenceNumbers, Sequences

CONSTANTS
    Node,           \* node identifiers
    Link,           \* the pairs of neighbours, a symmetric relation
    Thread,         \* threads of the application that call send and broadcast
    Budget,         \* Budget[n]: bound on the messages that n sends
    SingleThread,   \* TRUE: callbacks and calls run on one thread
    Everyone,       \* no destination: a broadcast
    StartSequence,  \* StartSequence[n]: what mSendSequence may start with
    NoSequence      \* no entry in mSequences

ASSUME TransportAssumption ==
    /\ Link \subseteq Node \X Node
    /\ \A l \in Link : <<l[2], l[1]>> \in Link /\ l[1] # l[2]
    /\ Budget \in [Node -> 0..HalfRange]
    /\ StartSequence \in [Node -> SUBSET Sequence]
    /\ SingleThread \in BOOLEAN
    /\ Everyone \notin Node
    /\ NoSequence \notin Sequence

Neighbors(n) == {m \in Node : <<n, m>> \in Link}

(* number counts the messages of a source: it stands for the payload.      *)
Message == [source : Node, destination : Node \cup {Everyone},
            sequence : Sequence, number : Nat]

(* What is left of a handler or of a call.                                 *)
Idle == [step |-> "idle"]
Then(step, message) == [step |-> step, message |-> message]
Rest == {Idle} \cup [step : {"send", "forward", "deliver"}, message : Message]

VARIABLES
    mSendSequence,  \* the next sequence number of a node
    mSequences,     \* mSequences[n][m]: the last one accepted from m
    net,            \* net[n][m]: messages on their way from m to n
    rest,           \* rest[n][m]: of the handler at n for the channel from m
    call,           \* call[n][t]: of the call by thread t at n
    sent,           \* sent[n]: the messages that n has numbered
    received        \* received[n]: what mReceiveCallback was called with

vars == <<mSendSequence, mSequences, net, rest, call, sent, received>>

TypeOK ==
    /\ mSendSequence \in [Node -> Sequence]
    /\ mSequences \in [Node -> [Node -> Sequence \cup {NoSequence}]]
    /\ net \in [Node -> [Node -> Seq(Message)]]
    /\ rest \in [Node -> [Node -> Rest]]
    /\ call \in [Node -> [Thread -> Rest]]
    /\ sent \in [Node -> Seq(Message)]
    /\ received \in [Node -> Seq(Message)]

-----------------------------------------------------------------------------
(* std::atomic<uint32_t> mSendSequence is not given a value, and before    *)
(* C++20 starts out with any: StartSequence[n] = Sequence is the general   *)
(* case.                                                                   *)
Init ==
    /\ mSendSequence \in {f \in [Node -> Sequence] :
                            \A n \in Node : f[n] \in StartSequence[n]}
    /\ mSequences = [n \in Node |-> [m \in Node |-> NoSequence]]
    /\ net = [n \in Node |-> [m \in Node |-> << >>]]
    /\ rest = [n \in Node |-> [m \in Node |-> Idle]]
    /\ call = [n \in Node |-> [t \in Thread |-> Idle]]
    /\ sent = [n \in Node |-> << >>]
    /\ received = [n \in Node |-> << >>]

(* On one thread a handler or a call ends before another starts; what the  *)
(* other nodes could do in between they can do before or after as well.    *)
MayStart ==
    SingleThread => \A n \in Node :
        /\ \A m \in Node : rest[n][m] = Idle
        /\ \A t \in Thread : call[n][t] = Idle

(* send or broadcast: mSendSequence++.                                     *)
TakeSequence(n, t, destination) ==
    LET message == [source |-> n, destination |-> destination,
                    sequence |-> mSendSequence[n], number |-> Len(sent[n]) + 1]
    IN  /\ MayStart /\ call[n][t] = Idle /\ Len(sent[n]) < Budget[n]
        /\ mSendSequence' = [mSendSequence EXCEPT ![n] = Inc(@)]
        /\ sent' = [sent EXCEPT ![n] = Append(@, message)]
        /\ call' = [call EXCEPT ![n][t] = Then("send", message)]
        /\ UNCHANGED <<mSequences, net, rest, received>>

(* Routing::broadcast to all neighbours but one, or Routing::route to a    *)
(* neighbour.                                                              *)
Targets(n, message, from) ==
    IF message.destination = Everyone THEN Neighbors(n) \ {from}
    ELSE Neighbors(n) \cap {message.destination}

Sent(n, message, from) ==
    [m \in Node |-> IF m \in Targets(n, message, from)
                    THEN [net[m] EXCEPT ![n] = Append(@, message)]
                    ELSE net[m]]

Send(n, t) ==
    /\ call[n][t].step = "send" /\ call[n][t].message.destination # n
    /\ net' = Sent(n, call[n][t].message, n)
    /\ call' = [call EXCEPT ![n][t] = Idle]
    /\ UNCHANGED <<mSendSequence, mSequences, rest, sent, received>>

(* checkSequence, which records the sequence that it accepts.              *)
checkSequenceLoose(n, message) ==
    LET last == mSequences[n][message.source]
    IN  last = NoSequence \/ compare_sequence(message.sequence, last) >= 0

checkSequenceUnordered(n, message) ==
    mSequences[n][message.source] # message.sequence

checkSequenceUnwrapped(n, message) ==
    LET last == mSequences[n][message.source]
    IN  last = NoSequence \/ message.sequence > last

checkSequence(n, message) ==
    LET last == mSequences[n][message.source]
    IN  last = NoSequence \/ compare_sequence(message.sequence, last) > 0

Record(n, message) ==
    mSequences' = [mSequences EXCEPT ![n][message.source] = message.sequence]

(* A message to the node itself is handled by the thread that sends it.    *)
SendToSelf(n, t) ==
    LET message == call[n][t].message
    IN  /\ call[n][t].step = "send" /\ message.destination = n
        /\ IF checkSequence(n, message)
           THEN /\ Record(n, message)
                /\ call' = [call EXCEPT ![n][t] = Then("deliver", message)]
           ELSE /\ call' = [call EXCEPT ![n][t] = Idle]
                /\ UNCHANGED mSequences
        /\ UNCHANGED <<mSendSequence, net, rest, sent, received>>

(* incoming: a message that is accepted is forwarded first if it is a      *)
(* broadcast, and then handed to the callback.                             *)
IncomingRetry(n, m) ==
    LET message == Head(net[n][m])
    IN  /\ MayStart /\ rest[n][m] = Idle /\ net[n][m] # << >>
        /\ IF checkSequence(n, message)
           THEN /\ Record(n, message)
                /\ rest' = [rest EXCEPT ![n][m] = Then("forward", message)]
                /\ net' = [net EXCEPT ![n][m] = Tail(@)]
           ELSE /\ net' = [net EXCEPT ![n][m] = Append(Tail(@), message)]
                /\ UNCHANGED <<mSequences, rest>>
        /\ UNCHANGED <<mSendSequence, call, sent, received>>

Incoming(n, m) ==
    LET message == Head(net[n][m])
        step == IF message.destination = Everyone THEN "forward" ELSE "deliver"
    IN  /\ MayStart /\ rest[n][m] = Idle /\ net[n][m] # << >>
        /\ IF checkSequence(n, message)
           THEN /\ Record(n, message)
                /\ rest' = [rest EXCEPT ![n][m] = Then(step, message)]
           ELSE UNCHANGED <<mSequences, rest>>
        /\ net' = [net EXCEPT ![n][m] = Tail(@)]
        /\ UNCHANGED <<mSendSequence, call, sent, received>>

Forward(n, m) ==
    /\ rest[n][m].step = "forward"
    /\ net' = Sent(n, rest[n][m].message, m)
    /\ rest' = [rest EXCEPT ![n][m].step = "deliver"]
    /\ UNCHANGED <<mSendSequence, mSequences, call, sent, received>>

(* mReceiveCallback, Node::receive for the transport of user messages.     *)
Deliver(n, m) ==
    /\ rest[n][m].step = "deliver"
    /\ received' = [received EXCEPT ![n] = Append(@, rest[n][m].message)]
    /\ rest' = [rest EXCEPT ![n][m] = Idle]
    /\ UNCHANGED <<mSendSequence, mSequences, net, call, sent>>

DeliverToSelf(n, t) ==
    /\ call[n][t].step = "deliver"
    /\ received' = [received EXCEPT ![n] = Append(@, call[n][t].message)]
    /\ call' = [call EXCEPT ![n][t] = Idle]
    /\ UNCHANGED <<mSendSequence, mSequences, net, rest, sent>>

Handler(n, m) == Incoming(n, m) \/ Forward(n, m) \/ Deliver(n, m)

Call(n, t) == Send(n, t) \/ SendToSelf(n, t) \/ DeliverToSelf(n, t)

(* All that was sent is handled.                                           *)
Quiet ==
    /\ \A n, m \in Node : net[n][m] = << >> /\ rest[n][m] = Idle
    /\ \A n \in Node, t \in Thread : call[n][t] = Idle

Done ==
    /\ Quiet /\ \A n \in Node : Len(sent[n]) = Budget[n]
    /\ UNCHANGED vars

Next ==
    \/ \E n \in Node, t \in Thread :
         \/ \E destination \in Node \cup {Everyone} :
              TakeSequence(n, t, destination)
         \/ Call(n, t)
    \/ \E n, m \in Node : Handler(n, m)
    \/ Done

Spec == Init /\ [][Next]_vars

(* While something is started or has arrived, some thread runs.            *)
Fairness ==
    WF_vars(\E n \in Node : \/ \E t \in Thread : Call(n, t)
                            \/ \E m \in Node : Handler(n, m))

FairSpec == Spec /\ Fairness

-----------------------------------------------------------------------------
(* The callback of a node is never called twice with a message, whatever   *)
(* ways the copies of a broadcast take, the way back to their source       *)
(* included, and also when the sequence numbers wrap around on the way.    *)
AtMostOnce ==
    \A n \in Node : \A i, j \in DOMAIN received[n] :
      i # j => received[n][i] # received[n][j]

(* With one thread, the callback gets the messages of a source in the      *)
(* order in which they were sent.                                          *)
InOrder ==
    \A n \in Node : \A i, j \in DOMAIN received[n] :
      i < j /\ received[n][i].source = received[n][j].source =>
        received[n][i].number < received[n][j].number

HasReceived(n, s, k) ==
    \E i \in DOMAIN received[n] :
      received[n][i].source = s /\ received[n][i].number = k

(* The links connect all nodes.                                            *)
Connected ==
    \A S \in SUBSET Node :
      S # {} /\ (\A n \in S : Neighbors(n) \subseteq S) => S = Node

(* With one thread, once the network is quiet the callback of every other  *)
(* node has got every broadcast, whatever the source sent before and after *)
(* it: a newer message never overtakes a broadcast, although it may take   *)
(* another way and checkSequence would then drop the older one.            *)
BroadcastsReachEveryone ==
    Quiet => \A s \in Node : \A k \in DOMAIN sent[s] :
      sent[s][k].destination = Everyone =>
        \A n \in Node \ {s} : HasReceived(n, s, k)

(* n is meant to get the message, and the links can bring it.              *)
IsFor(n, message) ==
    \/ message.destination = Everyone /\ n # message.source
    \/ message.destination = n /\ n \in Neighbors(message.source)
    \/ message.destination = n /\ n = message.source

Overtaken(n, s, k) ==
    \E i \in DOMAIN received[n] :
      received[n][i].source = s /\ received[n][i].number > k

(* With any threads, of the application or of the channels, a node that    *)
(* has not got a message that is for it once the network is quiet dropped  *)
(* it for a newer one of the same source that it did get, or, if it is no  *)
(* neighbour of the source, a node on the way may have: messages are lost  *)
(* to a reordering only, and the last one of a source never is.            *)
LostOnlyToNewer ==
    Quiet => \A s, n \in Node : \A k \in DOMAIN sent[s] :
      IsFor(n, sent[s][k]) /\ ~ HasReceived(n, s, k) =>
        \E m \in (Node \ {s}) \cup {n} :
          Overtaken(m, s, k) /\ (n \in Neighbors(s) \cup {s} => m = n)

(* A flood ends: the copies of a broadcast do not go round the cycles of   *)
(* the links for ever, and the network is quiet again and again.           *)
FloodsEnd == []<>Quiet

=============================================================================
