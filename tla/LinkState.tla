------------------------------ MODULE LinkState -----------------------------
(***************************************************************************)
(* Link-state routing between legio nodes: the Graph and Routing           *)
(* components of every node (src/src/impl/graph.cpp, routing.cpp,          *)
(* routingtable.cpp, state.cpp) and the channels that Networking, Server   *)
(* and Peering open and close between them.                                *)
(*                                                                         *)
(* A node announces itself on its channels with Hello messages; a Hello    *)
(* makes the sender a neighbour; a change of the neighbours is announced   *)
(* with a State message that carries a sequence number and is flooded.     *)
(*                                                                         *)
(* The callbacks of a node run one after another here, as they do on the   *)
(* single thread of a WebAssembly build, and in a native build as long as  *)
(* none of them begins before another one has ended.  (Callbacks that      *)
(* overlap are the subject of GraphThreads: much of what is said here of a *)
(* node is not true of them.)  A callback has up to three steps, between   *)
(* which other nodes go on; rest[n][c] is what remains of the callback     *)
(* that node n runs for channel c.                                         *)
(***************************************************************************)
EXTENDS SequenceNumbers, Sequences

CONSTANTS
    Node,           \* node identifiers
    Chan,           \* channels that are opened in a behaviour
    Dialer,         \* Dialer[c]: the node that opens channel c
    Acceptor,       \* Acceptor[c]: the node at the other end
    DataChannels,   \* the channels of peerings, the others are WebSockets
    Closable,       \* the channels that may fail
    Staged,         \* TRUE: a channel is connected only once the network is at
                    \* rest, a bound on the interleavings that are explored
    MaxStateSequence, \* bound on the states that a node broadcasts
    NoState,        \* a Vertice without state, or no Vertice at all
    NoChan,         \* nullptr for a channel
    NoHop           \* no entry in the routing table

ASSUME LinkStateAssumption ==
    /\ Dialer \in [Chan -> Node]
    /\ Acceptor \in [Chan -> Node]
    /\ \A c \in Chan : Dialer[c] # Acceptor[c]
    /\ DataChannels \subseteq Chan
    /\ Closable \subseteq Chan
    /\ Staged \in BOOLEAN
    /\ MaxStateSequence \in Nat /\ 0 < MaxStateSequence
    /\ MaxStateSequence < HalfRange
    /\ NoChan \notin Chan
    /\ NoHop \notin Node

Ends(c) == {Dialer[c], Acceptor[c]}
Peer(n, c) == IF n = Dialer[c] THEN Acceptor[c] ELSE Dialer[c]

(* A State (state.hpp:31-46).  The ECDH public key of a node is left out:  *)
(* a node keeps its key as long as its identifier, so the two states that  *)
(* updateVertice compares always carry the same one.                       *)
State == [id : Node, sequence : Sequence, neighbors : SUBSET Node]

ASSUME NoStateAssumption == NoState \notin State

Hello(n) == [type |-> "Hello", source |-> n]
StateMessage(s) == [type |-> "State", state |-> s]
Message == {Hello(n) : n \in Node} \cup {StateMessage(s) : s \in State}

(* What is left to do of a callback: nothing, Routing::addNeighbor, the    *)
(* Neighbor event of Graph::notify, or the forwarding of a new State.      *)
Idle == [step |-> "idle"]
AddStep(id) == [step |-> "add", id |-> id]
EventStep == [step |-> "event"]
ForwardStep(message) == [step |-> "forward", message |-> message]
Rest == {Idle, EventStep} \cup {AddStep(id) : id \in Node}
                          \cup {ForwardStep(m) : m \in Message}

VARIABLES
    graph,          \* graph[n]: the Graph of n
    mChannels,      \* Routing::mChannels
    mNeighbors,     \* Routing::mNeighbors, NoChan where there is no entry
    status,         \* of the connection behind a channel
    opened,         \* opened[n]: the channels whose onOpen ran at n
    net,            \* net[n][c]: messages for n in channel c, oldest first
    rest            \* rest[n][c]: see above

vars == <<graph, mChannels, mNeighbors, status, opened, net, rest>>

Graph == [state : [Node -> State \cup {NoState}],   \* Vertice::state
          edges : [Node -> SUBSET Node],            \* keys of Vertice::edges
          mStateSequence : Sequence,
          table : [Node -> Node \cup {NoHop}]]      \* RoutingTable::mNextHops

TypeOK ==
    /\ graph \in [Node -> Graph]
    /\ mChannels \in [Node -> SUBSET Chan]
    /\ mNeighbors \in [Node -> [Node -> Chan \cup {NoChan}]]
    /\ status \in [Chan -> {"unused", "open", "closed"}]
    /\ opened \in [Node -> SUBSET Chan]
    /\ net \in [Node -> [Chan -> Seq(Message)]]
    /\ rest \in [Node -> [Chan -> Rest]]

-----------------------------------------------------------------------------
(* Routing.                                                                *)

neighbors(n) == {m \in Node : mNeighbors[n][m] # NoChan}
hasNeighbor(n, m) == mNeighbors[n][m] # NoChan

(* The channels on which Routing::broadcast sends.                         *)
OpenChannels(n, from) == {c \in mChannels[n] \ {from} : status[c] = "open"}

(* Routing::broadcast: the queues after n sent the message to all its      *)
(* open channels but one.                                                  *)
broadcast(queues, n, message, from) ==
    [m \in Node |-> [c \in Chan |->
        IF c \in OpenChannels(n, from) /\ m = Peer(n, c)
        THEN Append(queues[m][c], message)
        ELSE queues[m][c]]]

(* Routing::findRoute: the channel for messages to a node.                 *)
findRoute(n, remoteId) ==
    IF graph[n].table[remoteId] = NoHop THEN NoChan
    ELSE mNeighbors[n][remoteId]

-----------------------------------------------------------------------------
(* Graph, with g the Graph of node n.                                      *)

(* Routes of up to two hops, as a complete search would publish them.      *)
computeTwoHopTable(n, edges) ==
    [v \in Node |->
        IF v \in edges[n] \ {n} THEN v
        ELSE IF \E m \in edges[n] \ {n} : v \in edges[m] \ {n}
             THEN CHOOSE m \in edges[n] \ {n} : v \in edges[m]
             ELSE NoHop]

(* The routes that the search of RouteComputation publishes.               *)
computeRoutingTable(n, edges) ==
    [v \in Node |-> IF v \in edges[n] \ {n} THEN v ELSE NoHop]

(* updateEdges that leaves the table as it was.                            *)
updateEdgesOnly(n, g, id, ids) == [g EXCEPT !.edges[id] = ids]

updateEdges(n, g, id, ids) ==
    IF g.edges[id] = ids THEN g
    ELSE LET edges == [g.edges EXCEPT ![id] = ids]
         IN  [g EXCEPT !.edges = edges,
                       !.table = computeRoutingTable(n, edges)]

(* Every state but the one that is stored counts as new.                   *)
isDifferent(g, state) == g.state[state.id] # state

isNewUnwrapped(g, state) ==
    \/ g.state[state.id] = NoState
    \/ state.sequence > g.state[state.id].sequence

(* The sequence test at the start of updateVertice.                        *)
isNew(g, state) ==
    \/ g.state[state.id] = NoState
    \/ compare_sequence(state.sequence, g.state[state.id].sequence) > 0

storeState(n, g, state) ==
    updateEdges(n, [g EXCEPT !.state[state.id] = state],
                state.id, state.neighbors)

localState(n, g) ==
    [id |-> n, sequence |-> g.mStateSequence, neighbors |-> neighbors(n)]

(* broadcastState that does not take a sequence number of its own.         *)
broadcastSameSequence(n, g) == storeState(n, g, localState(n, g))

(* The bound: within half of the range no state is so old that it looks    *)
(* new again.                                                              *)
MayBroadcast(g) == g.mStateSequence < MaxStateSequence

(* broadcastState, up to the message that it broadcasts.                   *)
broadcastState(n, g) ==
    LET next == [g EXCEPT !.mStateSequence = Inc(g.mStateSequence)]
    IN  IF isNew(g, localState(n, g))
        THEN storeState(n, next, localState(n, g))
        ELSE next

(* A state that is new is stored; the first state of another node makes    *)
(* the local one be broadcast before.  (A vertex that is created for it    *)
(* gets it before the broadcast, which for another node's comes to the     *)
(* same.)                                                                  *)
updateVertice(n, g, state) ==
    storeState(n, IF g.state[state.id] = NoState THEN broadcastState(n, g)
                                                 ELSE g,
               state)

-----------------------------------------------------------------------------
(* A graph before its constructor has inserted a state, and one that keeps *)
(* the state inserted, of a number that does not wrap around.              *)
EmptyGraph ==
    [state |-> [m \in Node |-> NoState],
     edges |-> [m \in Node |-> {}],
     mStateSequence |-> 0,
     table |-> [m \in Node |-> NoHop]]

InitGraphUnwrapped(n) ==
    [EmptyGraph EXCEPT
        !.state[n] = [id |-> n, sequence |-> EmptyGraph.mStateSequence - 1,
                      neighbors |-> {}]]

(* The constructor inserts a state with number mStateSequence - 1, which   *)
(* is the largest one.  The local node is not known yet: updateVertice     *)
(* stores the state and broadcasts the local one, which replaces it if it  *)
(* counts as newer.  There is no channel to send it on.                    *)
InitGraph(n) ==
    LET first == [id |-> n, sequence |-> Sub(EmptyGraph.mStateSequence, 1),
                  neighbors |-> {}]
        g == broadcastState(n, [EmptyGraph EXCEPT !.state[n] = first])
    IN  updateEdges(n, g, n, g.state[n].neighbors)

Init ==
    /\ mChannels = [n \in Node |-> {}]
    /\ mNeighbors = [n \in Node |-> [m \in Node |-> NoChan]]
    /\ graph = [n \in Node |-> InitGraph(n)]
    /\ status = [c \in Chan |-> "unused"]
    /\ opened = [n \in Node |-> {}]
    /\ net = [n \in Node |-> [c \in Chan |-> << >>]]
    /\ rest = [n \in Node |-> [c \in Chan |-> Idle]]

(* A callback of a node runs to its end before another one starts.         *)
MayStart(n) == \A c \in Chan : rest[n][c] = Idle

(* Hellos that stop with the first neighbour.                              *)
HelloWantedAlone(n) == neighbors(n) = {} /\ OpenChannels(n, NoChan) # {}

(* Graph::update: broadcastHello.  The program does this every 200 ms; the *)
(* Hellos that change nothing are left out: a node sends one while some    *)
(* node at the other end of a channel has neither made it a neighbour nor  *)
(* a Hello of it to read.                                                  *)
HelloWanted(n) ==
    \E c \in OpenChannels(n, NoChan) :
        LET m == Peer(n, c)
        IN  /\ ~ hasNeighbor(m, n)
            /\ \A i \in DOMAIN net[m][c] : net[m][c][i] # Hello(n)
            /\ rest[m][c] # AddStep(n)

Update(n) ==
    /\ MayStart(n)
    /\ net' = IF HelloWanted(n) THEN broadcast(net, n, Hello(n), NoChan)
                                ELSE net
    /\ UNCHANGED <<graph, mChannels, mNeighbors, status, opened, rest>>

(* Nothing is on its way and no callback is due.                           *)
AtRest ==
    \A n \in Node :
      /\ ~ HelloWanted(n)
      /\ \A c \in Chan :
           /\ rest[n][c] = Idle
           /\ c \in mChannels[n] => net[n][c] = << >>
           /\ status[c] # "unused" /\ n \in Ends(c) => c \in opened[n]

(* A WebSocket is established, or the data channel of a peering.           *)
(* Networking::update picks the nodes to peer with from the routing table. *)
Connect(c) ==
    /\ MayStart(Dialer[c]) /\ (Staged => AtRest)
    /\ status[c] = "unused"
    /\ c \in DataChannels => graph[Dialer[c]].table[Acceptor[c]] # NoHop
    /\ status' = [status EXCEPT ![c] = "open"]
    /\ UNCHANGED <<graph, mChannels, mNeighbors, opened, net, rest>>

(* onOpen of a channel: addChannel, then addNeighbor for a data channel.   *)
OnOpen(n, c) ==
    /\ MayStart(n)
    /\ status[c] # "unused" /\ n \in Ends(c) /\ c \notin opened[n]
    /\ opened' = [opened EXCEPT ![n] = @ \cup {c}]
    /\ mChannels' = [mChannels EXCEPT ![n] = @ \cup {c}]
    /\ rest' = IF c \in DataChannels
               THEN [rest EXCEPT ![n][c] = AddStep(Peer(n, c))]
               ELSE rest
    /\ UNCHANGED <<graph, mNeighbors, status, net>>

(* The connection fails: what was sent last may be lost.                   *)
Close(c) ==
    /\ \A n \in Ends(c) : MayStart(n)
    /\ c \in Closable /\ status[c] = "open"
    /\ status' = [status EXCEPT ![c] = "closed"]
    /\ LET d == Dialer[c]
           e == Acceptor[c]
       IN  \E i \in 0 .. Len(net[d][c]), j \in 0 .. Len(net[e][c]) :
             net' = [net EXCEPT ![d][c] = SubSeq(@, 1, i),
                                ![e][c] = SubSeq(@, 1, j)]
    /\ UNCHANGED <<graph, mChannels, mNeighbors, opened, rest>>

(* onClosed of a channel: removeChannel.  Server sets no onClosed on the   *)
(* WebSockets that it accepts, so their channels stay.                     *)
OnClosed(n, c) ==
    /\ MayStart(n)
    /\ status[c] = "closed" /\ c \in mChannels[n]
    /\ c \in DataChannels \/ n = Dialer[c]
    /\ mChannels' = [mChannels EXCEPT ![n] = @ \ {c}]
    /\ mNeighbors' = [mNeighbors EXCEPT ![n] =
                        [m \in Node |-> IF @[m] = c THEN NoChan ELSE @[m]]]
    /\ net' = [net EXCEPT ![n][c] = << >>]
    /\ UNCHANGED <<graph, status, opened, rest>>

(* The onMessage handler of addChannel takes the next message.             *)
CanReceive(n, c, type) ==
    /\ MayStart(n)
    /\ c \in mChannels[n]
    /\ net[n][c] # << >> /\ Head(net[n][c]).type = type

Received(n, c) == [net EXCEPT ![n][c] = Tail(@)]

(* Hello: hasNeighbor, and if it is false addNeighbor is called next.      *)
ReceiveHello(n, c) ==
    /\ CanReceive(n, c, "Hello")
    /\ LET source == Head(net[n][c]).source
       IN  rest' = IF hasNeighbor(n, source) THEN rest
                   ELSE [rest EXCEPT ![n][c] = AddStep(source)]
    /\ net' = Received(n, c)
    /\ UNCHANGED <<graph, mChannels, mNeighbors, status, opened>>

(* insert without the broadcast for the first state of a node.             *)
ReceiveStateSilently(n, c) ==
    /\ CanReceive(n, c, "State")
    /\ LET message == Head(net[n][c])
           g == graph[n]
       IN  IF isNew(g, message.state)
           THEN /\ graph' = [graph EXCEPT ![n] = storeState(n, g, message.state)]
                /\ rest' = [rest EXCEPT ![n][c] = ForwardStep(message)]
           ELSE UNCHANGED <<graph, rest>>
    /\ net' = Received(n, c)
    /\ UNCHANGED <<mChannels, mNeighbors, status, opened>>

(* State: insert, and if the state was new it is forwarded next.           *)
ReceiveState(n, c) ==
    /\ CanReceive(n, c, "State")
    /\ LET message == Head(net[n][c])
           state == message.state
           g == graph[n]
       IN  IF isNew(g, state)
           THEN /\ g.state[state.id] = NoState => MayBroadcast(g)
                /\ graph' = [graph EXCEPT ![n] = updateVertice(n, g, state)]
                /\ net' = IF g.state[state.id] = NoState
                          THEN broadcast(Received(n, c), n,
                                         StateMessage(localState(n, g)), NoChan)
                          ELSE Received(n, c)
                /\ rest' = [rest EXCEPT ![n][c] = ForwardStep(message)]
           ELSE /\ net' = Received(n, c)
                /\ UNCHANGED <<graph, rest>>
    /\ UNCHANGED <<mChannels, mNeighbors, status, opened>>

(* addNeighbor without the event.                                          *)
AddNeighborSilently(n, c) ==
    /\ rest[n][c].step = "add"
    /\ LET id == rest[n][c].id
       IN  mNeighbors' = IF c \in mChannels[n] /\ ~ hasNeighbor(n, id)
                         THEN [mNeighbors EXCEPT ![n][id] = c]
                         ELSE mNeighbors
    /\ rest' = [rest EXCEPT ![n][c] = Idle]
    /\ UNCHANGED <<graph, mChannels, status, opened, net>>

(* addNeighbor, which tests both the channel and the neighbour again.      *)
AddNeighbor(n, c) ==
    /\ rest[n][c].step = "add"
    /\ LET id == rest[n][c].id
       IN  IF c \in mChannels[n] /\ ~ hasNeighbor(n, id)
           THEN /\ mNeighbors' = [mNeighbors EXCEPT ![n][id] = c]
                /\ rest' = [rest EXCEPT ![n][c] = EventStep]
           ELSE /\ rest' = [rest EXCEPT ![n][c] = Idle]
                /\ UNCHANGED mNeighbors
    /\ UNCHANGED <<graph, mChannels, status, opened, net>>

(* The Neighbor event: the edges of the local node are set to the          *)
(* neighbours, and if that changed them the local state is broadcast.      *)
NeighborEvent(n, c) ==
    /\ rest[n][c] = EventStep
    /\ LET g == graph[n]
           h == updateEdges(n, g, n, neighbors(n))
       IN  IF g.edges[n] # neighbors(n)
           THEN /\ MayBroadcast(g)
                /\ graph' = [graph EXCEPT ![n] = broadcastState(n, h)]
                /\ net' = broadcast(net, n, StateMessage(localState(n, h)),
                                    NoChan)
           ELSE UNCHANGED <<graph, net>>
    /\ rest' = [rest EXCEPT ![n][c] = Idle]
    /\ UNCHANGED <<mChannels, mNeighbors, status, opened>>

(* A new State goes to all channels but the one it came from.              *)
Forward(n, c) ==
    /\ rest[n][c].step = "forward"
    /\ net' = broadcast(net, n, rest[n][c].message, c)
    /\ rest' = [rest EXCEPT ![n][c] = Idle]
    /\ UNCHANGED <<graph, mChannels, mNeighbors, status, opened>>

Callback(n, c) ==
    \/ OnOpen(n, c)
    \/ OnClosed(n, c)
    \/ ReceiveHello(n, c)
    \/ ReceiveState(n, c)
    \/ AddNeighbor(n, c)
    \/ NeighborEvent(n, c)
    \/ Forward(n, c)

Next ==
    \/ \E c \in Chan : Connect(c) \/ Close(c)
    \/ \E n \in Node : Update(n)
    \/ \E n \in Node, c \in Chan : Callback(n, c)

Spec == Init /\ [][Next]_vars

(* The main loop calls update again and again, and the threads of the      *)
(* channels run their callbacks to the end.                                *)
Fairness ==
    /\ \A n \in Node : WF_vars(Update(n))
    /\ \A n \in Node, c \in Chan : WF_vars(Callback(n, c))

FairSpec == Spec /\ Fairness

-----------------------------------------------------------------------------
(* The states of nodes that are stored, in flight or about to be forwarded *)
(* somewhere in the network.                                               *)
InFlight(n, c) == {net[n][c][i] : i \in DOMAIN net[n][c]} \cup
                  (IF rest[n][c].step = "forward" THEN {rest[n][c].message}
                                                  ELSE {})
Copies == ({graph[n].state[m] : n \in Node, m \in Node} \ {NoState}) \cup
          {message.state : message \in
              {x \in UNION {InFlight(n, c) : n \in Node, c \in Chan} :
                  x.type = "State"}}

(* A node is the authority on its own state, from the constructor on,      *)
(* whose first state has the largest number there is: whatever order       *)
(* updateVertice gets states in and however they are flooded and lost, no  *)
(* copy of the state of a node is newer than the one that its own graph    *)
(* holds, or equally new and different.                                    *)
OwnStateIsNewest ==
    \A s \in Copies : LET own == graph[s.id].state[s.id]
                      IN  \/ s = own
                          \/ compare_sequence(own.sequence, s.sequence) > 0

(* broadcastState never uses a sequence number for two different states:   *)
(* not when the number was used by an insertion before an event, nor for   *)
(* states that are still on their way or stored by others.                 *)
OneStatePerSequence ==
    LET copies == Copies
    IN  \A s, t \in copies : s.id = t.id /\ s.sequence = t.sequence => s = t

(* The edges of every vertex are the neighbours in its last state, and the *)
(* routing table is the one of the current edges, although updateEdges     *)
(* recomputes it only when it finds a change.                              *)
GraphMatchesStates ==
    \A n \in Node :
      LET g == graph[n]
      IN  /\ \A m \in Node : g.edges[m] = IF g.state[m] = NoState THEN {}
                                          ELSE g.state[m].neighbors
          /\ g.table = computeRoutingTable(n, g.edges)

(* A neighbour of a node is announced in the node's last state, unless the *)
(* Neighbor event that will announce it is still to be handled: no event   *)
(* is lost to a broadcastState that comes first, nor does it matter that   *)
(* updateEdges finds no change for a neighbour that removeChannel took     *)
(* away and a Hello brings back.                                           *)
NeighborsAreAnnounced ==
    \A n \in Node :
      \/ neighbors(n) \subseteq graph[n].state[n].neighbors
      \/ \E c \in Chan : rest[n][c] = EventStep

(* findRoute looks up the channel of the destination and not the one of    *)
(* the next hop; with the tables that computeRoutingTable publishes it     *)
(* returns the channel of the next hop all the same.                       *)
RouteIsNextHop ==
    \A n, m \in Node : graph[n].table[m] # NoHop =>
      findRoute(n, m) = mNeighbors[n][graph[n].table[m]]

Advances(old, new) ==
    old # NoState /\ new # old =>
      new # NoState /\ compare_sequence(new.sequence, old.sequence) > 0

StatesAdvance ==
    \A n, m \in Node : Advances(graph[n].state[m], graph'[n].state[m])

(* A stored state is only ever replaced by one with a newer sequence, in   *)
(* whatever order updateVertice gets the states of a node.                 *)
StatesNeverGoBack == [][StatesAdvance]_vars

(* The nodes that the open channels connect to n.                          *)
Linked(n) == {Peer(n, c) : c \in {d \in Chan : n \in Ends(d) /\ status[d] = "open"}}
Connected(n) == {m \in Node : \A S \in SUBSET Node :
                    n \in S /\ UNION {Linked(v) : v \in S} \subseteq S => m \in S}

(* Unless a channel fails, every node of a connected network ends up with  *)
(* the last state of every other node, although a node that joins is not   *)
(* sent the states that its neighbour already has: the first state of an   *)
(* unknown node makes the others broadcast theirs again.                   *)
Converges ==
    <>[]((\A c \in Chan : status[c] # "closed") =>
           \A n \in Node : \A m \in Connected(n) :
             /\ graph[n].state[m] = graph[m].state[m]
             /\ graph[n].state[m].neighbors = Linked(m))

(* The two nodes at the ends of a channel that stays open end up being     *)
(* neighbours that announce each other, also when other channels between   *)
(* them fail.                                                              *)
LinkedNodesAnnounceEachOther ==
    <>[](\A n \in Node : Linked(n) \subseteq neighbors(n)
                         /\ Linked(n) \subseteq graph[n].state[n].neighbors)

=============================================================================
