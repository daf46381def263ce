------------------------------ MODULE Peering -------------------------------
(***************************************************************************)
(* The peering between two nodes: Networking (src/src/impl/networking.cpp) *)
(* and Peering (peering.cpp) of each of them, which negotiate a WebRTC     *)
(* connection and open data channels on it.                                *)
(*                                                                         *)
(* The two nodes are linked already, by a WebSocket, and send each other   *)
(* session descriptions over it (Transport keeps them in order).  A        *)
(* description is lost when Transport::send throws because the state of    *)
(* the remote node is not known yet, or when the channel fails.            *)
(*                                                                         *)
(* rtc::PeerConnection and rtc::DataChannel belong to libdatachannel.      *)
(* Taken from how the code uses them: the first data channel makes an      *)
(* offer; an offer that is set is answered at once, and rolls back an own  *)
(* one; the callbacks of a connection run one at a time; a data channel    *)
(* that nobody refers to any more is closed; onOpen and onClosed wait for  *)
(* the function to call, and once a channel is closed they may still come, *)
(* at any time, or never.                                                  *)
(*                                                                         *)
(* Networking::mMutex makes update, connectPeer and receive of a node      *)
(* exclude each other, and not the callbacks: while one thread is in       *)
(* Peering::connect, that of the callbacks reads and replaces              *)
(* Peering::mDataChannel.  A step reads or writes it once, together with   *)
(* what the thread does with the value, on which no other thread's step    *)
(* in between could tell the difference; these are data races, with the    *)
(* outcomes in which each access takes effect as a whole.                  *)
(***************************************************************************)
EXTENDS Integers, Sequences

CONSTANTS
    Node,           \* the two nodes
    Larger,         \* the one with the larger identifier
    MaxConnects,    \* MaxConnects[n]: bound on the calls of connect at n
    MaxCalls,       \* bound on the calls of connect at both
    Losable,        \* the descriptions that may be lost: [from, type]
    Others,         \* Others[n]: peerings of n with other nodes, in mPeerings
    NoChannel       \* nullptr for a data channel

targetPeeringCount == 4

ASSUME PeeringAssumption ==
    /\ Larger \in Node /\ \E n \in Node : n # Larger /\ Node = {n, Larger}
    /\ MaxConnects \in [Node -> Nat] /\ MaxCalls \in Nat
    /\ Losable \subseteq [from : Node, type : {"offer", "answer"}]
    /\ Others \in [Node -> 0..targetPeeringCount]

Peer(n) == CHOOSE m \in Node : m # n

(* A data channel: the node that creates it, and which of its calls of     *)
(* connect does.                                                           *)
DataChannel == UNION {{n} \X (1..MaxConnects[n]) : n \in Node}

ASSUME NoChannelAssumption == NoChannel \notin DataChannel

Description == {"offer", "answer"}

(* A call of connect, and the callbacks of the connection.                 *)
Thread == {"connect", "rtc"}

VARIABLES
    mPeerings,      \* the nodes that have the peering of the two
    connects,       \* calls of Peering::connect so far
    signaling,      \* rtc: the signaling state
    description,    \* rtc: the local description
    gathering,      \* rtc: the gathering state
    callbacks,      \* rtc: callbacks[n]: the ones of n's connection to come
    net,            \* net[n]: descriptions on their way to n
    lost,           \* the descriptions that were lost: [from, type]
    mDataChannel,   \* Peering::mDataChannel
    mChannels,      \* Routing::mChannels, its data channels
    neighbor,       \* Routing::mNeighbors, the entry for the other node
    thread,         \* thread[n][x]: where a thread of n is: [pc, channel]
    crashed,        \* the nodes that have used a null mDataChannel
    end,            \* rtc: end[n][c]: the state of channel c at n
    handlers,       \* rtc: handlers[n]: <<c, which>> of the functions that are set
    coming          \* rtc: coming[n]: <<c, which>> of the ones to be called

negotiation == <<signaling, description, gathering, callbacks>>
routing == <<mChannels, neighbor>>
channels == <<mDataChannel, routing, thread, crashed, end, handlers, coming>>
vars == <<mPeerings, connects, negotiation, net, lost, channels>>

Which == {"open", "closed"}

(* pc names the next step, channel is an argument or a local variable.     *)
Frame == [pc : {"idle", "close", "reset", "assign", "listen", "addNeighbor"},
          channel : DataChannel \cup {NoChannel}]

Idle == [pc |-> "idle", channel |-> NoChannel]

TypeOK ==
    /\ mPeerings \in SUBSET Node
    /\ connects \in [Node -> Nat]
    /\ signaling \in [Node -> {"stable", "have-local-offer"}]
    /\ description \in [Node -> {"none"} \cup Description]
    /\ gathering \in [Node -> {"new", "in-progress", "complete"}]
    /\ callbacks \in [Node -> Seq({"gathered"} \cup Description)]
    /\ net \in [Node -> Seq(Description)]
    /\ lost \in SUBSET [from : Node, type : Description]
    /\ mDataChannel \in [Node -> DataChannel \cup {NoChannel}]
    /\ mChannels \in [Node -> SUBSET DataChannel]
    /\ neighbor \in [Node -> DataChannel \cup {NoChannel}]
    /\ thread \in [Node -> [Thread -> Frame]]
    /\ crashed \in SUBSET Node
    /\ end \in [Node -> [DataChannel -> {"none", "connecting", "open", "closed"}]]
    /\ handlers \in [Node -> SUBSET DataChannel]
    /\ coming \in [Node -> SUBSET (DataChannel \X Which)]

Init ==
    /\ mPeerings = {}
    /\ connects = [n \in Node |-> 0]
    /\ signaling = [n \in Node |-> "stable"]
    /\ description = [n \in Node |-> "none"]
    /\ gathering = [n \in Node |-> "new"]
    /\ callbacks = [n \in Node |-> << >>]
    /\ net = [n \in Node |-> << >>]
    /\ lost = {}
    /\ mDataChannel = [n \in Node |-> NoChannel]
    /\ mChannels = [n \in Node |-> {}]
    /\ neighbor = [n \in Node |-> NoChannel]
    /\ thread = [n \in Node |-> [x \in Thread |-> Idle]]
    /\ crashed = {}
    /\ end = [n \in Node |-> [c \in DataChannel |-> "none"]]
    /\ handlers = [n \in Node |-> {}]
    /\ coming = [n \in Node |-> {}]

-----------------------------------------------------------------------------
At(n, x, pc) == thread[n][x].pc = pc
Goto(n, x, pc, c) == thread' = [thread EXCEPT ![n][x] = [pc |-> pc, channel |-> c]]

(* The data channels that n refers to; the others are closed.              *)
Referred(n) ==
    {mDataChannel[n]} \cup mChannels[n] \cup {thread[n][x].channel : x \in Thread}

Release(n, ends) ==
    end' = [end EXCEPT ![n] = [c \in DataChannel |->
               IF ends[c] \in {"connecting", "open"} /\ c \notin Referred(n)'
               THEN "closed" ELSE ends[c]]]

(* A description is set at n, and candidates are gathered for the first    *)
(* one.                                                                    *)
SetLocalDescription(n, type) ==
    /\ description' = [description EXCEPT ![n] = type]
    /\ callbacks' = [callbacks EXCEPT ![n] = Append(@, type)]
    /\ gathering' = [gathering EXCEPT ![n] = IF @ = "new" THEN "in-progress"
                                             ELSE @]

-----------------------------------------------------------------------------
(* A new data channel, with an offer if there is no description yet;       *)
(* setDataChannel gets it next.                                            *)
Create(n, ends) ==
    LET new == <<n, connects'[n]>>
    IN  /\ Goto(n, "connect", "assign", new)
        /\ Release(n, [ends EXCEPT ![new] = "connecting"])
        /\ IF description[n] = "none"
           THEN /\ signaling' = [signaling EXCEPT ![n] = "have-local-offer"]
                /\ SetLocalDescription(n, "offer")
           ELSE UNCHANGED negotiation

(* Routing::removeChannel.                                                 *)
RemoveChannel(n, c) ==
    /\ mChannels' = [mChannels EXCEPT ![n] = @ \ {c}]
    /\ neighbor' = [neighbor EXCEPT ![n] = IF @ = c THEN NoChannel ELSE @]

(* Peering::connect, on the peering that createPeering returns: disconnect *)
(* takes the data channel from Routing, if there is one.                   *)
Connect(n) ==
    /\ At(n, "connect", "idle") /\ connects[n] < MaxConnects[n]
    /\ connects[n] + connects[Peer(n)] < MaxCalls
    /\ connects' = [connects EXCEPT ![n] = @ + 1]
    /\ mPeerings' = mPeerings \cup {n}
    /\ UNCHANGED <<net, lost, mDataChannel, crashed, handlers, coming>>
    /\ IF mDataChannel[n] = NoChannel
       THEN UNCHANGED routing /\ Create(n, end[n])
       ELSE /\ RemoveChannel(n, mDataChannel[n])
            /\ Goto(n, "connect", "close", NoChannel)
            /\ Release(n, end[n])
            /\ UNCHANGED negotiation

(* Networking::update: a node of the routing table without a peering.      *)
Update(n) ==
    /\ Others[n] < targetPeeringCount /\ n \notin mPeerings
    /\ Connect(n)

(* Networking::connectPeer, called by the application.                     *)
ConnectPeer(n) == Connect(n)

(* rtc: a data channel is closed, and onClosed is to come.                 *)
Shut(n, c) ==
    /\ end' = [end EXCEPT ![n][c] = "closed"]
    /\ coming' = [coming EXCEPT ![n] = @ \cup {<<c, "closed">>}]

(* mDataChannel->close(); only connect makes it null.                      *)
Close(n) ==
    /\ At(n, "connect", "close")
    /\ IF end[n][mDataChannel[n]] = "closed" THEN UNCHANGED <<end, coming>>
       ELSE Shut(n, mDataChannel[n])
    /\ Goto(n, "connect", "reset", NoChannel)
    /\ UNCHANGED <<mPeerings, connects, negotiation, net, lost, mDataChannel,
                   routing, crashed, handlers>>

(* mDataChannel.reset(), and the new data channel.                         *)
Reset(n) ==
    /\ At(n, "connect", "reset")
    /\ mDataChannel' = [mDataChannel EXCEPT ![n] = NoChannel]
    /\ UNCHANGED <<mPeerings, connects, net, lost, routing, crashed, handlers, coming>>
    /\ Create(n, end[n])

(* setDataChannel, of connect or of onDataChannel: the assignment.         *)
SetDataChannel(n, x, c) ==
    /\ mDataChannel' = [mDataChannel EXCEPT ![n] = c]
    /\ Goto(n, x, "listen", c)

Assign(n) ==
    /\ At(n, "connect", "assign")
    /\ SetDataChannel(n, "connect", thread[n]["connect"].channel)
    /\ UNCHANGED <<mPeerings, connects, negotiation, net, lost, routing, crashed,
                   handlers, coming>>
    /\ Release(n, end[n])

(* A null data channel is used.                                            *)
Crash(n) ==
    /\ crashed' = crashed \cup {n}
    /\ UNCHANGED <<mPeerings, connects, negotiation, net, lost, mDataChannel, routing,
                   thread, end, handlers, coming>>

(* The calls of mDataChannel->onOpen and onClosed.                         *)
Listen(n, x) ==
    /\ At(n, x, "listen")
    /\ IF mDataChannel[n] = NoChannel THEN Crash(n)
       ELSE /\ handlers' = [handlers EXCEPT ![n] = @ \cup {mDataChannel[n]}]
            /\ Goto(n, x, "idle", NoChannel)
            /\ UNCHANGED <<mPeerings, connects, negotiation, net, lost, mDataChannel,
                           routing, crashed, coming>>
            /\ Release(n, end[n])

-----------------------------------------------------------------------------
(* sendLocalDescription, whose message may be lost.                        *)
Send(n, type) ==
    \/ net' = [net EXCEPT ![Peer(n)] = Append(@, type)] /\ UNCHANGED lost
    \/ /\ [from |-> n, type |-> type] \in Losable
       /\ lost' = lost \cup {[from |-> n, type |-> type]}
       /\ UNCHANGED net

(* rtc: the candidates of n are gathered.                                  *)
Gather(n) ==
    /\ gathering[n] = "in-progress"
    /\ gathering' = [gathering EXCEPT ![n] = "complete"]
    /\ callbacks' = [callbacks EXCEPT ![n] = Append(@, "gathered")]
    /\ UNCHANGED <<mPeerings, connects, signaling, description, net, lost, channels>>

(* The next callback: onGatheringStateChange sends the local description   *)
(* of the moment, onLocalDescription the one it is called with if the      *)
(* candidates are gathered already.                                        *)
CallbackOnceGathered(n) ==
    /\ At(n, "rtc", "idle") /\ callbacks[n] # << >>
    /\ callbacks' = [callbacks EXCEPT ![n] = Tail(@)]
    /\ IF Head(callbacks[n]) = "gathered" THEN Send(n, description[n])
       ELSE UNCHANGED <<net, lost>>
    /\ UNCHANGED <<mPeerings, connects, signaling, description, gathering, channels>>

Callback(n) ==
    LET cause == Head(callbacks[n])
    IN  /\ At(n, "rtc", "idle") /\ callbacks[n] # << >>
        /\ callbacks' = [callbacks EXCEPT ![n] = Tail(@)]
        /\ \/ cause = "gathered" /\ Send(n, description[n])
           \/ cause # "gathered" /\ gathering[n] = "complete" /\ Send(n, cause)
           \/ cause # "gathered" /\ gathering[n] # "complete" /\ UNCHANGED <<net, lost>>
        /\ UNCHANGED <<mPeerings, connects, signaling, description, gathering,
                       channels>>

(* Peering::receive: the tiebreak.                                         *)
IgnoresNothing(n, type) == FALSE

IgnoresOffers(n, type) == type = "offer" /\ n = Larger

Ignores(n, type) ==
    type = "offer" /\ signaling[n] = "have-local-offer" /\ n = Larger

(* rtc: an answer to no offer is refused with an exception, which the      *)
(* handler of the message catches.                                         *)
Refuses(n, type) == type = "answer" /\ signaling[n] = "stable"

(* Networking::receive, on the peering that createPeering returns; mMutex  *)
(* keeps it out of a call of connect.                                      *)
Receive(n) ==
    LET type == Head(net[n])
    IN  /\ At(n, "connect", "idle") /\ net[n] # << >>
        /\ net' = [net EXCEPT ![n] = Tail(@)]
        /\ mPeerings' = mPeerings \cup {n}
        /\ IF Ignores(n, type) \/ Refuses(n, type) THEN UNCHANGED negotiation
           ELSE /\ signaling' = [signaling EXCEPT ![n] = "stable"]
                /\ IF type = "offer" THEN SetLocalDescription(n, "answer")
                   ELSE UNCHANGED <<description, gathering, callbacks>>
        /\ UNCHANGED <<connects, lost, channels>>

-----------------------------------------------------------------------------
(* rtc: the connection is up.                                              *)
Linked ==
    /\ \A n \in Node : signaling[n] = "stable" /\ description[n] # "none"
    /\ \E n \in Node : description[n] = "answer"

(* onDataChannel, for a data channel that the other node has created: it   *)
(* is set, and onOpen is to come.                                          *)
OnDataChannel(n, c) ==
    /\ At(n, "rtc", "idle") /\ Linked
    /\ c[1] # n /\ end[c[1]][c] = "connecting" /\ end[n][c] = "none"
    /\ coming' = [coming EXCEPT ![n] = @ \cup {<<c, "open">>}]
    /\ SetDataChannel(n, "rtc", c)
    /\ UNCHANGED <<mPeerings, connects, negotiation, net, lost, routing, crashed,
                   handlers>>
    /\ Release(n, [end[n] EXCEPT ![c] = "open"])

(* rtc: the creator learns that its data channel is accepted.              *)
Acknowledge(n, c) ==
    /\ c[1] = n /\ end[n][c] = "connecting" /\ end[Peer(n)][c] # "none"
    /\ end' = [end EXCEPT ![n][c] = "open"]
    /\ coming' = [coming EXCEPT ![n] = @ \cup {<<c, "open">>}]
    /\ UNCHANGED <<mPeerings, connects, negotiation, net, lost, mDataChannel, routing,
                   thread, crashed, handlers>>

(* rtc: the other node has closed a channel, or has stopped.               *)
Closed(n, c) ==
    /\ end[n][c] \in {"connecting", "open"}
    /\ end[Peer(n)][c] = "closed"
    /\ Shut(n, c)
    /\ UNCHANGED <<mPeerings, connects, negotiation, net, lost, mDataChannel, routing,
                   thread, crashed, handlers>>

Comes(n, c, which) ==
    At(n, "rtc", "idle") /\ <<c, which>> \in coming[n] /\ c \in handlers[n]

(* onClosed of c removes mDataChannel, whatever it is by then.             *)
OnClosed(n, c) ==
    /\ Comes(n, c, "closed")
    /\ coming' = [coming EXCEPT ![n] = @ \ {<<c, "closed">>}]
    /\ RemoveChannel(n, mDataChannel[n])
    /\ UNCHANGED <<mPeerings, connects, negotiation, net, lost, mDataChannel, thread,
                   crashed, handlers>>
    /\ Release(n, end[n])

OnOpenUnchecked(n, c) ==
    /\ Comes(n, c, "open")
    /\ coming' = [coming EXCEPT ![n] = @ \ {<<c, "open">>}]
    /\ mChannels' = [mChannels EXCEPT ![n] = @ \cup {mDataChannel[n]}]
    /\ Goto(n, "rtc", "addNeighbor", NoChannel)
    /\ UNCHANGED <<mPeerings, connects, negotiation, net, lost, mDataChannel, neighbor,
                   crashed, end, handlers>>

(* onOpen of c adds mDataChannel, and reads it again for addNeighbor.      *)
OnOpen(n, c) ==
    /\ Comes(n, c, "open")
    /\ IF mDataChannel[n] = NoChannel THEN Crash(n)
       ELSE /\ coming' = [coming EXCEPT ![n] = @ \ {<<c, "open">>}]
            /\ mChannels' = [mChannels EXCEPT ![n] = @ \cup {mDataChannel[n]}]
            /\ Goto(n, "rtc", "addNeighbor", NoChannel)
            /\ UNCHANGED <<mPeerings, connects, negotiation, net, lost, mDataChannel,
                           neighbor, crashed, end, handlers>>

AddNeighborUnchecked(n) ==
    /\ At(n, "rtc", "addNeighbor")
    /\ neighbor' = [neighbor EXCEPT ![n] = IF @ = NoChannel THEN mDataChannel[n] ELSE @]
    /\ Goto(n, "rtc", "idle", NoChannel)
    /\ UNCHANGED <<mPeerings, connects, negotiation, net, lost, mDataChannel, mChannels,
                   crashed, end, handlers, coming>>

(* addNeighbor takes no channel that Routing does not have.                *)
AddNeighbor(n) ==
    /\ At(n, "rtc", "addNeighbor")
    /\ neighbor' = [neighbor EXCEPT ![n] =
                      IF @ = NoChannel /\ mDataChannel[n] \in mChannels[n]
                      THEN mDataChannel[n] ELSE @]
    /\ Goto(n, "rtc", "idle", NoChannel)
    /\ UNCHANGED <<mPeerings, connects, negotiation, net, lost, mDataChannel, mChannels,
                   crashed, end, handlers, coming>>

(* The steps of connect, of the callbacks and of rtc.                      *)
Steps(n) ==
    \/ Close(n) \/ Reset(n) \/ Assign(n)
    \/ \E x \in Thread : Listen(n, x)
    \/ Gather(n) \/ Callback(n) \/ Receive(n)
    \/ \E c \in DataChannel :
          \/ OnDataChannel(n, c) \/ Acknowledge(n, c) \/ Closed(n, c)
          \/ end[n][c] = "open" /\ OnOpen(n, c)
    \/ AddNeighbor(n)

(* The callbacks of a closed data channel.                                 *)
Late(n) ==
    \E c \in DataChannel :
       end[n][c] = "closed" /\ (OnOpen(n, c) \/ OnClosed(n, c))

(* A node that crashes ends it.                                            *)
Run == crashed = {} /\ \E n \in Node : Steps(n)

Next ==
    \/ crashed = {} /\ \E n \in Node : Update(n) \/ ConnectPeer(n) \/ Late(n)
    \/ Run

Spec == Init /\ [][Next]_vars

(* The threads run and the messages arrive.  (Fairness to all the steps    *)
(* together is enough: each of them is taken finitely often.)              *)
Fairness == WF_vars(Run)

FairSpec == Spec /\ Fairness

-----------------------------------------------------------------------------
(* The nodes whose offer the other one has accepted.                       *)
Accepted == {n \in Node : description[Peer(n)] = "answer"}

Agreement == INSTANCE OfferAnswer WITH accepted <- Accepted

(* The tiebreak of Peering::receive (line 62) leaves one offer: whichever  *)
(* way the offers and answers of the two nodes cross, are sent twice or    *)
(* get lost, the offer of one node is accepted and never that of the other *)
(* one afterwards.                                                         *)
OneOfferIsAccepted == Agreement!Spec

(* Whatever connect and the callbacks do to mDataChannel between the two   *)
(* reads of it in onOpen, and whichever channel onClosed removes, messages *)
(* to the neighbour go through a channel that Routing still has.           *)
NeighborUsesChannel ==
    \A n \in Node : neighbor[n] \in mChannels[n] \cup {NoChannel}

(* Once a node has connected, the two agree on a connection in the end if  *)
(* no description is lost; offers of the node with the smaller identifier  *)
(* may even be lost if the other one connects too.  (A node that connects  *)
(* anew may use the null mDataChannel and crash.)                          *)
Negotiates ==
    <>[](\/ crashed # {}
         \/ \E d \in lost : d.type = "answer" \/ d.from = Larger
         \/ lost # {} /\ connects[Larger] = 0
         \/ \A n \in Node : connects[n] = 0
         \/ Linked)

(* A data channel that is the only one ends up being used by both nodes,   *)
(* and neither of them finds a null mDataChannel on the way, also when the *)
(* node that accepts it has four peerings already.                         *)
OneConnectOpens ==
    <>[](\A n \in Node :
           lost = {} /\ connects[n] = 1 /\ connects[Peer(n)] = 0
           => \A m \in Node : mChannels[m] = {<<n, 1>>} /\ neighbor[m] = <<n, 1>>)

=============================================================================
