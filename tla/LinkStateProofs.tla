--------------------------- MODULE LinkStateProofs --------------------------
(***************************************************************************)
(* Proofs about LinkState, for every set of nodes and channels, every      *)
(* topology, any channel failing.  The callbacks of a node do not overlap, *)
(* and the bound MaxStateSequence stays: a node broadcasts fewer than      *)
(* 2^31 - 1 states.                                                        *)
(***************************************************************************)
EXTENDS LinkState, SequenceTheorems, TLAPS

(* Within the bound the wrapping comparison is the one of numbers.         *)
LEMMA CompareWithinBound ==
  ASSUME NEW s1 \in 0 .. MaxStateSequence, NEW s2 \in 0 .. MaxStateSequence
  PROVE  (compare_sequence(s1, s2) > 0) <=> s1 > s2
<1>1. MaxStateSequence \in Nat /\ SeqMod \in Nat /\ SeqMod >= 6
  BY LinkStateAssumption, SeqModAssumption
<1>2. HalfRange \in Nat /\ 2 * HalfRange <= SeqMod - 1
  BY <1>1 DEF HalfRange
<1>3. MaxStateSequence < HalfRange
  BY LinkStateAssumption
<1>. QED BY <1>1, <1>2, <1>3 DEF compare_sequence, Sub

LEMMA BoundFitsRange ==
  /\ MaxStateSequence \in Nat
  /\ MaxStateSequence + 1 < SeqMod
<1>1. HalfRange \in Nat /\ 2 * HalfRange <= SeqMod - 1
  BY SeqModAssumption DEF HalfRange
<1>. QED BY <1>1, LinkStateAssumption, SeqModAssumption

-----------------------------------------------------------------------------
(* What the operations of Graph do to the record of a node.                *)

EdgesMatch(g, m) ==
    g.edges[m] = IF g.state[m] = NoState THEN {} ELSE g.state[m].neighbors
TableMatches(n, g) == g.table = computeRoutingTable(n, g.edges)

LEMMA TableType ==
  ASSUME NEW n \in Node, NEW edges \in [Node -> SUBSET Node]
  PROVE  computeRoutingTable(n, edges) \in [Node -> Node \cup {NoHop}]
  BY DEF computeRoutingTable

LEMMA UpdateEdgesFacts ==
  ASSUME NEW n \in Node, NEW g \in Graph, TableMatches(n, g),
         NEW id \in Node, NEW ids \in SUBSET Node
  PROVE  LET h == updateEdges(n, g, id, ids)
         IN  /\ h \in Graph
             /\ h.state = g.state
             /\ h.edges = [g.edges EXCEPT ![id] = ids]
             /\ h.mStateSequence = g.mStateSequence
             /\ TableMatches(n, h)
<1>. DEFINE e == [g.edges EXCEPT ![id] = ids]
<1>1. e \in [Node -> SUBSET Node]
  BY DEF Graph
<1>2. computeRoutingTable(n, e) \in [Node -> Node \cup {NoHop}]
  BY <1>1, TableType
<1>3. CASE g.edges[id] = ids
  BY <1>3 DEF updateEdges, Graph
<1>4. CASE g.edges[id] # ids
  <2>1. updateEdges(n, g, id, ids) =
          [g EXCEPT !.edges = e, !.table = computeRoutingTable(n, e)]
    BY <1>4 DEF updateEdges
  <2>. HIDE DEF e
  <2>2. /\ updateEdges(n, g, id, ids) \in Graph
        /\ updateEdges(n, g, id, ids).state = g.state
        /\ updateEdges(n, g, id, ids).edges = e
        /\ updateEdges(n, g, id, ids).mStateSequence = g.mStateSequence
        /\ updateEdges(n, g, id, ids).table = computeRoutingTable(n, e)
    BY <2>1, <1>1, <1>2 DEF Graph
  <2>. QED BY <2>2 DEF e, TableMatches
<1>. QED BY <1>3, <1>4

LEMMA StoreStateFacts ==
  ASSUME NEW n \in Node, NEW g \in Graph, TableMatches(n, g),
         NEW s \in State,
         \A m \in Node : m # s.id => EdgesMatch(g, m)
  PROVE  LET h == storeState(n, g, s)
         IN  /\ h \in Graph
             /\ h.state = [g.state EXCEPT ![s.id] = s]
             /\ h.mStateSequence = g.mStateSequence
             /\ TableMatches(n, h)
             /\ \A m \in Node : EdgesMatch(h, m)
<1>. DEFINE k == [g EXCEPT !.state[s.id] = s]
            h == storeState(n, g, s)
<1>1. s.id \in Node /\ s.neighbors \in SUBSET Node /\ s # NoState
  BY NoStateAssumption DEF State
<1>2. /\ k \in Graph
      /\ k.state = [g.state EXCEPT ![s.id] = s]
      /\ k.edges = g.edges
      /\ k.table = g.table
      /\ k.mStateSequence = g.mStateSequence
  BY <1>1 DEF Graph
<1>3. TableMatches(n, k)
  BY <1>2 DEF TableMatches
<1>4. h = updateEdges(n, k, s.id, s.neighbors)
  BY DEF storeState
<1>. HIDE DEF k, h
<1>5. /\ h \in Graph
      /\ h.state = k.state
      /\ h.edges = [k.edges EXCEPT ![s.id] = s.neighbors]
      /\ h.mStateSequence = k.mStateSequence
      /\ TableMatches(n, h)
  BY <1>1, <1>2, <1>3, <1>4, UpdateEdgesFacts
<1>6. ASSUME NEW m \in Node PROVE EdgesMatch(h, m)
  <2>1. g.state \in [Node -> State \cup {NoState}] /\
        g.edges \in [Node -> SUBSET Node]
    BY DEF Graph
  <2>2. CASE m = s.id
    BY <2>1, <2>2, <1>1, <1>2, <1>5 DEF EdgesMatch
  <2>3. CASE m # s.id
    BY <2>1, <2>3, <1>1, <1>2, <1>5 DEF EdgesMatch
  <2>. QED BY <2>2, <2>3
<1>. QED BY <1>2, <1>5, <1>6 DEF h

(* The local state that a node has stored is the last that it broadcast.   *)
OwnState(n, g) ==
    /\ g.state[n] # NoState
    /\ g.state[n].id = n
    /\ g.mStateSequence = g.state[n].sequence + 1
    /\ g.mStateSequence <= MaxStateSequence

LEMMA LocalStateFacts ==
  ASSUME NEW n \in Node, NEW g \in Graph
  PROVE  /\ localState(n, g) \in State
         /\ localState(n, g).id = n
         /\ localState(n, g).sequence = g.mStateSequence
         /\ localState(n, g).neighbors = neighbors(n)
  BY DEF localState, State, Graph, neighbors

LEMMA BroadcastStateFacts ==
  ASSUME NEW n \in Node, NEW g \in Graph, TableMatches(n, g),
         OwnState(n, g), MayBroadcast(g),
         \A m \in Node : m # n => EdgesMatch(g, m)
  PROVE  LET h == broadcastState(n, g)
         IN  /\ h \in Graph
             /\ h.state = [g.state EXCEPT ![n] = localState(n, g)]
             /\ TableMatches(n, h)
             /\ OwnState(n, h)
             /\ \A m \in Node : EdgesMatch(h, m)
<1>. DEFINE s == localState(n, g)
            k == [g EXCEPT !.mStateSequence = Inc(g.mStateSequence)]
            h == broadcastState(n, g)
<1>1. s \in State /\ s.id = n /\ s.sequence = g.mStateSequence /\ s # NoState
  BY LocalStateFacts, NoStateAssumption
<1>2. /\ g.mStateSequence \in Nat
      /\ g.mStateSequence < MaxStateSequence
      /\ g.state[n].sequence \in 0 .. MaxStateSequence
      /\ g.state[n] \in State
  <2>1. g.state[n] \in State /\ g.mStateSequence \in Sequence
    BY DEF OwnState, Graph
  <2>2. g.state[n].sequence \in Nat
    BY <2>1, SeqModAssumption DEF State, Sequence
  <2>. QED BY <2>1, <2>2, BoundFitsRange, SeqModAssumption
           DEF OwnState, MayBroadcast, Sequence
<1>3. isNew(g, s)
  BY <1>1, <1>2, CompareWithinBound, BoundFitsRange DEF isNew, OwnState
<1>4. /\ Inc(g.mStateSequence) = g.mStateSequence + 1
      /\ g.mStateSequence + 1 \in Sequence
  BY <1>2, BoundFitsRange, SeqModAssumption DEF Inc, Sequence
<1>5. /\ k \in Graph
      /\ k.state = g.state
      /\ k.edges = g.edges
      /\ k.table = g.table
      /\ k.mStateSequence = g.mStateSequence + 1
  BY <1>4 DEF Graph
<1>6. h = storeState(n, k, s)
  BY <1>3 DEF broadcastState
<1>. HIDE DEF k, h, s
<1>7. TableMatches(n, k) /\ \A m \in Node : m # n => EdgesMatch(k, m)
  BY <1>5 DEF TableMatches, EdgesMatch
<1>8. /\ h \in Graph
      /\ h.state = [k.state EXCEPT ![n] = s]
      /\ h.mStateSequence = k.mStateSequence
      /\ TableMatches(n, h)
      /\ \A m \in Node : EdgesMatch(h, m)
  BY <1>1, <1>5, <1>6, <1>7, StoreStateFacts
<1>9. h.state[n] = s
  BY <1>5, <1>8 DEF Graph
<1>10. OwnState(n, h)
  BY <1>1, <1>2, <1>5, <1>8, <1>9, BoundFitsRange DEF OwnState
<1>. QED BY <1>5, <1>8, <1>10 DEF h, s

-----------------------------------------------------------------------------
(* The inductive invariant.                                                *)

(* No state in the network is newer than its owner's, or equally new and   *)
(* different.                                                              *)
NotNewer(s) ==
    LET own == graph[s.id].state[s.id]
    IN  /\ s.sequence <= own.sequence
        /\ s.sequence = own.sequence => s = own

(* The messages that may be in a channel towards n.                        *)
Legit(n, c) ==
    {x \in Message : /\ n \in Ends(c)
                     /\ x.type = "Hello" => x.source = Peer(n, c)
                     /\ x.type = "State" => NotNewer(x.state)}

GraphsOK ==
    \A n \in Node :
      /\ OwnState(n, graph[n])
      /\ TableMatches(n, graph[n])
      /\ \A m \in Node : EdgesMatch(graph[n], m)
      /\ \A m \in Node : graph[n].state[m] # NoState =>
            graph[n].state[m].id = m /\ NotNewer(graph[n].state[m])

MessagesOK == \A n \in Node, c \in Chan : net[n][c] \in Seq(Legit(n, c))

(* A neighbour is linked through a channel of the node that leads to it.   *)
NeighborsUseChannels ==
    \A n, m \in Node : hasNeighbor(n, m) =>
      /\ mNeighbors[n][m] \in mChannels[n]
      /\ n \in Ends(mNeighbors[n][m]) /\ m = Peer(n, mNeighbors[n][m])

ChannelsOK ==
    \A n \in Node : \A c \in mChannels[n] : n \in Ends(c) /\ c \in opened[n]

RestOK ==
    \A n \in Node, c \in Chan :
      /\ c \notin opened[n] => rest[n][c] = Idle
      /\ rest[n][c].step = "add" =>
           n \in Ends(c) /\ rest[n][c].id = Peer(n, c)
      /\ rest[n][c].step = "forward" =>
           rest[n][c].message \in Legit(n, c) /\ rest[n][c].message.type = "State"

LinkInv ==
    /\ TypeOK
    /\ GraphsOK
    /\ MessagesOK
    /\ ChannelsOK
    /\ RestOK
    /\ NeighborsUseChannels
    /\ NeighborsAreAnnounced

-----------------------------------------------------------------------------
(* Facts about the parts of the invariant.                                 *)

LEMMA SeqMonotone ==
  ASSUME NEW S, NEW T, S \subseteq T, NEW q \in Seq(S)
  PROVE  q \in Seq(T)
  OBVIOUS

LEMMA SeqOperations ==
  ASSUME NEW S, NEW q \in Seq(S)
  PROVE  /\ \A x \in S : Append(q, x) \in Seq(S)
         /\ q # << >> => Head(q) \in S /\ Tail(q) \in Seq(S)
  OBVIOUS

LEMMA PrefixType ==
  ASSUME NEW S, NEW q \in Seq(S), NEW i \in 0 .. Len(q), NEW p,
         p = SubSeq(q, 1, i)
  PROVE  p \in Seq(S)
<1>1. \A j \in 1 .. i : q[j] \in S
  OBVIOUS
<1>. QED BY <1>1

LEMMA PeerFacts ==
  ASSUME NEW c \in Chan, NEW n \in Ends(c)
  PROVE  /\ n \in Node
         /\ Peer(n, c) \in Node
         /\ Peer(n, c) \in Ends(c)
         /\ Peer(n, c) # n
         /\ Peer(Peer(n, c), c) = n
  BY LinkStateAssumption DEF Ends, Peer

LEMMA MessageFacts ==
  ASSUME NEW x \in Message
  PROVE  /\ x.type = "Hello" => x.source \in Node /\ x = Hello(x.source)
         /\ x.type = "State" => x.state \in State /\ x = StateMessage(x.state)
         /\ x.type \in {"Hello", "State"}
  BY DEF Message, Hello, StateMessage

LEMMA RestFacts ==
  ASSUME NEW x \in Rest
  PROVE  /\ x.step = "add" => x.id \in Node
         /\ x.step = "forward" => x.message \in Message
  BY DEF Rest, Idle, EventStep, AddStep, ForwardStep

(* Routing::broadcast puts a legitimate message into legitimate queues,    *)
(* with L[m][c] the messages that may be in channel c towards m.           *)
LEMMA BroadcastFacts ==
  ASSUME ChannelsOK, NEW n \in Node, NEW from, NEW message, NEW queues,
         NEW L \in [Node -> [Chan -> SUBSET Message]],
         \A m \in Node, c \in Chan : queues[m][c] \in Seq(L[m][c]),
         \A c \in Chan : n \in Ends(c) => message \in L[Peer(n, c)][c]
  PROVE  /\ broadcast(queues, n, message, from)
              \in [Node -> [Chan -> Seq(Message)]]
         /\ \A m \in Node, c \in Chan :
              broadcast(queues, n, message, from)[m][c] \in Seq(L[m][c])
<1>1. ASSUME NEW m \in Node, NEW c \in Chan
      PROVE  broadcast(queues, n, message, from)[m][c] \in Seq(L[m][c])
  <2>1. broadcast(queues, n, message, from)[m][c] =
          IF c \in OpenChannels(n, from) /\ m = Peer(n, c)
          THEN Append(queues[m][c], message) ELSE queues[m][c]
    BY DEF broadcast
  <2>2. CASE c \in OpenChannels(n, from) /\ m = Peer(n, c)
    <3>1. n \in Ends(c)
      BY <2>2 DEF OpenChannels, ChannelsOK
    <3>2. message \in L[m][c] /\ queues[m][c] \in Seq(L[m][c])
      BY <3>1, <2>2
    <3>3. Append(queues[m][c], message) \in Seq(L[m][c])
      BY <3>2, SeqOperations
    <3>. QED BY <2>1, <2>2, <3>3
  <2>3. CASE ~(c \in OpenChannels(n, from) /\ m = Peer(n, c))
    BY <2>1, <2>3
  <2>. QED BY <2>2, <2>3
<1>2. ASSUME NEW m \in Node, NEW c \in Chan
      PROVE  broadcast(queues, n, message, from)[m][c] \in Seq(Message)
  BY <1>1, SeqMonotone
<1>. QED BY <1>1, <1>2 DEF broadcast

(* A step after which every node has its old state or a newer one of its   *)
(* own leaves every legitimate message legitimate.                         *)
OwnStatesAdvance ==
    \A m \in Node :
      \/ graph'[m].state[m] = graph[m].state[m]
      \/ /\ graph'[m].state[m].sequence \in Nat
         /\ graph'[m].state[m].sequence > graph[m].state[m].sequence

LEMMA OwnSequences ==
  ASSUME TypeOK, GraphsOK, NEW n \in Node
  PROVE  /\ graph[n] \in Graph
         /\ graph[n].state[n] \in State
         /\ graph[n].state[n].sequence \in 0 .. MaxStateSequence - 1
<1>1. graph[n] \in Graph /\ OwnState(n, graph[n])
  BY DEF TypeOK, GraphsOK
<1>2. graph[n].state[n] \in State
  BY <1>1 DEF OwnState, Graph
<1>. QED BY <1>1, <1>2, BoundFitsRange, SeqModAssumption
         DEF OwnState, State, Sequence

LEMMA NotNewerMonotone ==
  ASSUME TypeOK, GraphsOK, OwnStatesAdvance, NEW s \in State, NotNewer(s)
  PROVE  NotNewer(s)'
<1>1. s.id \in Node /\ s.sequence \in Nat
  BY SeqModAssumption DEF State, Sequence
<1>2. graph[s.id].state[s.id].sequence \in Nat
  BY <1>1, OwnSequences, BoundFitsRange
<1>. QED BY <1>1, <1>2 DEF NotNewer, OwnStatesAdvance

LEMMA LegitMonotone ==
  ASSUME TypeOK, GraphsOK, OwnStatesAdvance, NEW n \in Node, NEW c \in Chan
  PROVE  Legit(n, c) \subseteq Legit(n, c)'
  BY NotNewerMonotone, MessageFacts DEF Legit

(* A step that leaves the graphs alone.                                    *)
LEMMA SameGraphs ==
  ASSUME TypeOK, GraphsOK, graph' = graph
  PROVE  /\ GraphsOK'
         /\ \A n \in Node, c \in Chan : Legit(n, c)' = Legit(n, c)
  BY ZenonT(60) DEF GraphsOK, NotNewer, Legit

-----------------------------------------------------------------------------
(* Each action preserves the invariant.                                    *)

LEMMA InitGraphFacts ==
  ASSUME NEW n \in Node, NEW g, neighbors(n) = {}, g = InitGraph(n)
  PROVE  /\ g \in Graph
         /\ OwnState(n, g)
         /\ TableMatches(n, g)
         /\ \A m \in Node : EdgesMatch(g, m)
         /\ \A m \in Node : g.state[m] # NoState => m = n /\ g.state[m].id = m
<1>. DEFINE s == [id |-> n, sequence |-> 0, neighbors |-> {}]
            first == [id |-> n, sequence |-> Sub(0, 1), neighbors |-> {}]
            e == [EmptyGraph EXCEPT !.state[n] = first]
            h == [state |-> [m \in Node |-> IF m = n THEN s ELSE NoState],
                  edges |-> [m \in Node |-> {}],
                  mStateSequence |-> 1,
                  table |-> [m \in Node |-> NoHop]]
<1>1. 0 \in Sequence /\ 1 \in Sequence
  BY SeqModAssumption DEF Sequence
<1>2. s \in State /\ s # NoState
  BY <1>1, NoStateAssumption DEF State
<1>3. s.id = n /\ s.sequence = 0 /\ s.neighbors = {}
  OBVIOUS
<1>4. g = h
  <2>11. InitGraph(n) = updateEdges(n, broadcastState(n, e), n,
                                    broadcastState(n, e).state[n].neighbors)
    <3>1. EmptyGraph.mStateSequence = 0
      BY DEF EmptyGraph
    <3>. QED BY <3>1 DEF InitGraph
  <2>0. first.sequence = Sub(0, 1)
    OBVIOUS
  <2>. HIDE DEF first
  <2>1. e = [state |-> [m \in Node |-> IF m = n THEN first ELSE NoState],
             edges |-> [m \in Node |-> {}],
             mStateSequence |-> 0,
             table |-> [m \in Node |-> NoHop]]
    <3>. DEFINE none == [m \in Node |-> NoState]
                edges == [m \in Node |-> {}]
                table == [m \in Node |-> NoHop]
    <3>1. EmptyGraph = [state |-> none, edges |-> edges, mStateSequence |-> 0,
                        table |-> table]
      BY DEF EmptyGraph
    <3>2. [none EXCEPT ![n] = first] =
            [m \in Node |-> IF m = n THEN first ELSE NoState]
      OBVIOUS
    <3>. HIDE DEF none, edges, table
    <3>3. e = [state |-> [none EXCEPT ![n] = first], edges |-> edges,
               mStateSequence |-> 0, table |-> table]
      BY <3>1
    <3>. QED BY <3>2, <3>3 DEF edges, table
  <2>2. /\ e.state[n] = first /\ e.mStateSequence = 0
        /\ first.sequence = Sub(0, 1)
    BY <2>0, <2>1
  <2>3. localState(n, e) = s
    BY <2>2 DEF localState
  <2>4. isNew(e, s)
    <3>1. compare_sequence(0, Sub(0, 1)) = 1
      <4>1. SeqMod \in Nat /\ SeqMod >= 6
        BY SeqModAssumption
      <4>2. Sub(0, 1) = SeqMod - 1 /\ Sub(0, SeqMod - 1) = 1
        BY ONLY <4>1 DEF Sub
      <4>3. HalfRange > 1
        BY ONLY <4>1 DEF HalfRange
      <4>4. SeqMod - 1 # 0
        BY ONLY <4>1
      <4>. QED BY ONLY <4>2, <4>3, <4>4 DEF compare_sequence
    <3>2. compare_sequence(s.sequence, e.state[s.id].sequence) = 1
      BY <2>2, <3>1
    <3>. QED BY <3>2 DEF isNew
  <2>5. Inc(0) = 1
    BY SeqModAssumption DEF Inc
  <2>6. [[e EXCEPT !.mStateSequence = 1] EXCEPT !.state[n] = s] = h
    <3>. DEFINE known == [m \in Node |-> IF m = n THEN first ELSE NoState]
                edges == [m \in Node |-> {}]
                table == [m \in Node |-> NoHop]
    <3>1. [known EXCEPT ![n] = s] =
            [m \in Node |-> IF m = n THEN s ELSE NoState]
      OBVIOUS
    <3>3. e = [state |-> known, edges |-> edges, mStateSequence |-> 0,
               table |-> table]
      BY <2>1
    <3>. HIDE DEF known, edges, table, e
    <3>. DEFINE k == [e EXCEPT !.mStateSequence = 1]
    <3>2. k = [state |-> known, edges |-> edges, mStateSequence |-> 1,
               table |-> table]
      BY <3>3
    <3>. HIDE DEF k
    <3>4. [k EXCEPT !.state[n] = s] =
            [state |-> [known EXCEPT ![n] = s], edges |-> edges,
             mStateSequence |-> 1, table |-> table]
      BY <3>2
    <3>. QED BY <3>1, <3>4 DEF edges, table, k
  <2>. HIDE DEF e, s
  <2>7. broadcastState(n, e) = storeState(n, [e EXCEPT !.mStateSequence = 1], s)
    BY <2>2, <2>3, <2>4, <2>5 DEF broadcastState
  <2>8. storeState(n, [e EXCEPT !.mStateSequence = 1], s) = updateEdges(n, h, n, {})
    BY <1>3, <2>6 DEF storeState
  <2>9. updateEdges(n, h, n, {}) = h
    BY DEF updateEdges
  <2>10. h.state[n].neighbors = {}
    BY <1>3 DEF h
  <2>. HIDE DEF h
  <2>. QED BY <2>7, <2>8, <2>9, <2>10, <2>11
<1>. HIDE DEF s
<1>5. /\ g.state = [m \in Node |-> IF m = n THEN s ELSE NoState]
      /\ g.edges = [m \in Node |-> {}]
      /\ g.mStateSequence = 1
      /\ g.table = [m \in Node |-> NoHop]
  BY <1>4
<1>6. g \in Graph
  BY <1>1, <1>2, <1>4 DEF Graph
<1>7. OwnState(n, g)
  BY <1>2, <1>3, <1>5, LinkStateAssumption DEF OwnState
<1>8. TableMatches(n, g)
  BY <1>5 DEF TableMatches, computeRoutingTable
<1>9. \A m \in Node : EdgesMatch(g, m)
  BY <1>3, <1>5 DEF EdgesMatch
<1>. QED BY <1>3, <1>5, <1>6, <1>7, <1>8, <1>9

LEMMA InitLinkInv == Init => LinkInv
<1>1. SUFFICES ASSUME Init PROVE LinkInv
  OBVIOUS
<1>2. ASSUME NEW n \in Node
      PROVE  /\ graph[n] \in Graph
             /\ OwnState(n, graph[n])
             /\ TableMatches(n, graph[n])
             /\ \A m \in Node : EdgesMatch(graph[n], m)
             /\ \A m \in Node : graph[n].state[m] # NoState =>
                   m = n /\ graph[n].state[m].id = m
  <2>1. graph[n] = InitGraph(n)
    BY <1>1 DEF Init
  <2>2. neighbors(n) = {}
    BY <1>1 DEF Init, neighbors
  <2>. QED BY <2>1, <2>2, InitGraphFacts
<1>3. TypeOK
  <2>1. graph \in [Node -> Graph]
    BY <1>1, <1>2 DEF Init
  <2>2. Idle \in Rest
    BY DEF Rest
  <2>3. rest \in [Node -> [Chan -> Rest]]
    BY <1>1, <2>2 DEF Init
  <2>4. net \in [Node -> [Chan -> Seq(Message)]]
    BY <1>1 DEF Init
  <2>. QED BY <1>1, <2>1, <2>3, <2>4 DEF Init, TypeOK
<1>4. GraphsOK
  <2>1. ASSUME NEW n \in Node PROVE NotNewer(graph[n].state[n])
    <3>1. graph[n].state[n].id = n
      BY <1>2 DEF OwnState
    <3>2. graph[n].state[n].sequence \in Nat
      BY <1>2, SeqModAssumption DEF OwnState, Graph, State, Sequence
    <3>. QED BY <3>1, <3>2 DEF NotNewer
  <2>. QED BY <1>2, <2>1 DEF GraphsOK
<1>5. MessagesOK
  BY <1>1 DEF Init, MessagesOK
<1>6. ChannelsOK /\ RestOK
  BY <1>1 DEF Init, ChannelsOK, RestOK, Idle
<1>7. NeighborsUseChannels /\ NeighborsAreAnnounced
  BY <1>1 DEF Init, NeighborsUseChannels, NeighborsAreAnnounced, hasNeighbor,
              neighbors
<1>. QED BY <1>3, <1>4, <1>5, <1>6, <1>7 DEF LinkInv

LEMMA ConnectLinkInv ==
  ASSUME LinkInv, NEW c \in Chan, Connect(c)
  PROVE  LinkInv'
<1>. USE DEF LinkInv, Connect
<1>1. TypeOK'
  BY DEF TypeOK
<1>2. GraphsOK' /\ MessagesOK'
  BY SameGraphs DEF MessagesOK
<1>3. ChannelsOK' /\ RestOK'
  BY SameGraphs DEF ChannelsOK, RestOK
<1>4. NeighborsUseChannels' /\ NeighborsAreAnnounced'
  BY DEF NeighborsUseChannels, NeighborsAreAnnounced, hasNeighbor, neighbors
<1>. QED BY <1>1, <1>2, <1>3, <1>4

LEMMA OnOpenLinkInv ==
  ASSUME LinkInv, NEW n \in Node, NEW c \in Chan, OnOpen(n, c)
  PROVE  LinkInv'
<1>. USE DEF LinkInv, OnOpen
<1>1. AddStep(Peer(n, c)) \in Rest
  BY PeerFacts DEF Rest
<1>2. TypeOK'
  BY <1>1 DEF TypeOK
<1>3. GraphsOK' /\ MessagesOK'
  BY SameGraphs DEF MessagesOK
<1>4. ChannelsOK'
  BY DEF ChannelsOK, TypeOK
<1>5. RestOK'
  BY SameGraphs DEF RestOK, TypeOK, AddStep
<1>6. NeighborsUseChannels'
  BY DEF NeighborsUseChannels, hasNeighbor, TypeOK
<1>7. NeighborsAreAnnounced'
  <2>1. rest[n][c] # EventStep
    BY DEF RestOK, Idle, EventStep
  <2>2. \A m \in Node, d \in Chan :
          rest[m][d] = EventStep => rest'[m][d] = EventStep
    BY <2>1 DEF TypeOK
  <2>. QED BY <2>2 DEF NeighborsAreAnnounced, neighbors
<1>. QED BY <1>2, <1>3, <1>4, <1>5, <1>6, <1>7

LEMMA CloseLinkInv ==
  ASSUME LinkInv, NEW c \in Chan, Close(c)
  PROVE  LinkInv'
<1>. USE DEF LinkInv, Close
<1>1. Dialer[c] \in Node /\ Acceptor[c] \in Node /\ Dialer[c] # Acceptor[c]
  BY LinkStateAssumption
<1>2. PICK i \in 0 .. Len(net[Dialer[c]][c]), j \in 0 .. Len(net[Acceptor[c]][c]) :
        net' = [net EXCEPT ![Dialer[c]][c] = SubSeq(@, 1, i),
                           ![Acceptor[c]][c] = SubSeq(@, 1, j)]
  OBVIOUS
<1>3. ASSUME NEW m \in Node, NEW d \in Chan
      PROVE  net'[m][d] \in Seq(Legit(m, d))
  <2>1. net[m][d] \in Seq(Legit(m, d))
    BY DEF MessagesOK
  <2>2. /\ DOMAIN net = Node
        /\ \A u \in Node : DOMAIN net[u] = Chan
    BY DEF TypeOK
  <2>3. CASE d = c /\ m = Dialer[c]
    <3>1. net'[m][d] = SubSeq(net[m][d], 1, i)
      BY ONLY <1>1, <1>2, <2>2, <2>3, c \in Chan
    <3>2. i \in 0 .. Len(net[m][d])
      BY <2>3
    <3>3. SubSeq(net[m][d], 1, i) \in Seq(Legit(m, d))
      BY ONLY <2>1, <3>2, PrefixType
    <3>. QED BY ONLY <3>1, <3>3
  <2>4. CASE d = c /\ m = Acceptor[c]
    <3>1. net'[m][d] = SubSeq(net[m][d], 1, j)
      BY ONLY <1>1, <1>2, <2>2, <2>4, c \in Chan
    <3>2. j \in 0 .. Len(net[m][d])
      BY <2>4
    <3>3. SubSeq(net[m][d], 1, j) \in Seq(Legit(m, d))
      BY ONLY <2>1, <3>2, PrefixType
    <3>. QED BY ONLY <3>1, <3>3
  <2>5. CASE d # c \/ (m # Dialer[c] /\ m # Acceptor[c])
    <3>1. net'[m][d] = net[m][d]
      BY ONLY <1>1, <1>2, <2>2, <2>5, c \in Chan, m \in Node, d \in Chan
    <3>. QED BY ONLY <2>1, <3>1
  <2>. QED BY ONLY <2>3, <2>4, <2>5
<1>4. net' \in [Node -> [Chan -> Seq(Message)]]
  <2>1. \A m \in Node, d \in Chan : net'[m][d] \in Seq(Message)
    BY <1>3, SeqMonotone, ZenonT(60) DEF Legit
  <2>. QED BY <1>1, <1>2, <2>1 DEF TypeOK
<1>5. TypeOK'
  BY <1>4 DEF TypeOK
<1>6. GraphsOK' /\ MessagesOK'
  BY <1>3, SameGraphs DEF MessagesOK
<1>7. ChannelsOK' /\ RestOK'
  BY SameGraphs DEF ChannelsOK, RestOK
<1>8. NeighborsUseChannels' /\ NeighborsAreAnnounced'
  BY DEF NeighborsUseChannels, NeighborsAreAnnounced, hasNeighbor, neighbors
<1>. QED BY <1>5, <1>6, <1>7, <1>8

LEMMA OnClosedLinkInv ==
  ASSUME LinkInv, NEW n \in Node, NEW c \in Chan, OnClosed(n, c)
  PROVE  LinkInv'
<1>. USE DEF LinkInv, OnClosed
<1>1. TypeOK'
  BY DEF TypeOK
<1>2. GraphsOK' /\ MessagesOK'
  BY SameGraphs DEF MessagesOK, TypeOK
<1>3. ChannelsOK' /\ RestOK'
  BY SameGraphs DEF ChannelsOK, RestOK, TypeOK
<1>4. \A m, v \in Node :
        mNeighbors'[m][v] = IF m = n /\ mNeighbors[m][v] = c THEN NoChan
                            ELSE mNeighbors[m][v]
  BY DEF TypeOK
<1>5. NeighborsUseChannels'
  BY <1>4 DEF NeighborsUseChannels, hasNeighbor, TypeOK
<1>6. NeighborsAreAnnounced'
  BY <1>4 DEF NeighborsAreAnnounced, neighbors
<1>. QED BY <1>1, <1>2, <1>3, <1>5, <1>6

(* What may be left of a callback.                                         *)
LEMMA RestMembers ==
  /\ Idle \in Rest /\ EventStep \in Rest
  /\ \A id \in Node : AddStep(id) \in Rest
  /\ \A x \in Message : ForwardStep(x) \in Rest
  BY DEF Rest

(* Callbacks other than the Neighbor event that leave the neighbours and   *)
(* the graph alone.                                                        *)
LEMMA AnnouncedStays ==
  ASSUME NeighborsAreAnnounced, UNCHANGED <<graph, mNeighbors>>,
         \A m \in Node, d \in Chan :
            rest[m][d] = EventStep => rest'[m][d] = EventStep
  PROVE  NeighborsAreAnnounced'
  BY DEF NeighborsAreAnnounced, neighbors

LEMMA UpdateLinkInv ==
  ASSUME LinkInv, NEW n \in Node, Update(n)
  PROVE  LinkInv'
<1>. USE DEF LinkInv, Update
<1>. DEFINE L == [m \in Node |-> [c \in Chan |-> Legit(m, c)]]
<1>1. L \in [Node -> [Chan -> SUBSET Message]]
  BY DEF Legit
<1>2. \A m \in Node, c \in Chan : L[m][c] = Legit(m, c)
  OBVIOUS
<1>. HIDE DEF L
<1>3. ASSUME NEW c \in Chan, n \in Ends(c)
      PROVE  Hello(n) \in L[Peer(n, c)][c]
  BY <1>2, <1>3, PeerFacts DEF Legit, Hello, Message
<1>4. /\ broadcast(net, n, Hello(n), NoChan) \in [Node -> [Chan -> Seq(Message)]]
      /\ \A m \in Node, c \in Chan :
           broadcast(net, n, Hello(n), NoChan)[m][c] \in Seq(L[m][c])
  BY <1>1, <1>2, <1>3, BroadcastFacts DEF MessagesOK
<1>5. TypeOK'
  BY <1>4 DEF TypeOK
<1>6. GraphsOK' /\ MessagesOK'
  <2>1. GraphsOK' /\ \A m \in Node, c \in Chan : Legit(m, c)' = Legit(m, c)
    BY SameGraphs
  <2>2. ASSUME NEW m \in Node, NEW c \in Chan
        PROVE  net'[m][c] \in Seq(Legit(m, c))
    <3>1. CASE net' = net
      BY <3>1 DEF MessagesOK
    <3>2. CASE net' = broadcast(net, n, Hello(n), NoChan)
      BY <3>2, <1>2, <1>4
    <3>. QED BY <3>1, <3>2
  <2>. QED BY <2>1, <2>2 DEF MessagesOK
<1>7. ChannelsOK' /\ RestOK'
  BY SameGraphs DEF ChannelsOK, RestOK
<1>8. NeighborsUseChannels' /\ NeighborsAreAnnounced'
  BY DEF NeighborsUseChannels, NeighborsAreAnnounced, hasNeighbor, neighbors
<1>. QED BY <1>5, <1>6, <1>7, <1>8

(* The message that a handler takes, and the queues without it.            *)
LEMMA ReceivedFacts ==
  ASSUME LinkInv, NEW n \in Node, NEW c \in Chan, NEW type,
         CanReceive(n, c, type)
  PROVE  /\ Head(net[n][c]) \in Legit(n, c)
         /\ Head(net[n][c]).type = type
         /\ Received(n, c) \in [Node -> [Chan -> Seq(Message)]]
         /\ \A m \in Node, d \in Chan : Received(n, c)[m][d] \in Seq(Legit(m, d))
<1>1. net[n][c] \in Seq(Legit(n, c)) /\ net[n][c] # << >>
  BY DEF LinkInv, MessagesOK, CanReceive
<1>2. Head(net[n][c]) \in Legit(n, c) /\ Tail(net[n][c]) \in Seq(Legit(n, c))
  BY <1>1, SeqOperations
<1>3. \A m \in Node, d \in Chan :
        Received(n, c)[m][d] = IF m = n /\ d = c THEN Tail(net[n][c])
                                                 ELSE net[m][d]
  BY DEF Received, LinkInv, TypeOK
<1>4. \A m \in Node, d \in Chan : Received(n, c)[m][d] \in Seq(Legit(m, d))
  BY <1>2, <1>3 DEF LinkInv, MessagesOK
<1>5. Tail(net[n][c]) \in Seq(Message)
  BY <1>2, SeqMonotone DEF Legit
<1>6. Received(n, c) \in [Node -> [Chan -> Seq(Message)]]
  BY <1>5 DEF Received, LinkInv, TypeOK
<1>. QED BY <1>2, <1>4, <1>6 DEF CanReceive

LEMMA ReceiveHelloLinkInv ==
  ASSUME LinkInv, NEW n \in Node, NEW c \in Chan, ReceiveHello(n, c)
  PROVE  LinkInv'
<1>. DEFINE source == Head(net[n][c]).source
<1>1. /\ Head(net[n][c]) \in Legit(n, c)
      /\ Head(net[n][c]).type = "Hello"
      /\ net' \in [Node -> [Chan -> Seq(Message)]]
      /\ \A m \in Node, d \in Chan : net'[m][d] \in Seq(Legit(m, d))
  BY ReceivedFacts DEF ReceiveHello
<1>2. n \in Ends(c) /\ source = Peer(n, c) /\ source \in Node
  BY <1>1, PeerFacts DEF Legit
<1>3. c \in mChannels[n] /\ c \in opened[n] /\ rest[n][c] = Idle
  BY DEF ReceiveHello, CanReceive, MayStart, LinkInv, ChannelsOK
<1>4. /\ rest' \in [Node -> [Chan -> Rest]]
      /\ rest'[n][c] = Idle \/ rest'[n][c] = AddStep(source)
      /\ \A m \in Node, d \in Chan :
           m # n \/ d # c => rest'[m][d] = rest[m][d]
  <2>1. CASE hasNeighbor(n, source)
    BY <1>3, <2>1 DEF ReceiveHello, LinkInv, TypeOK
  <2>2. CASE ~ hasNeighbor(n, source)
    <3>1. rest' = [rest EXCEPT ![n][c] = AddStep(source)]
      BY <2>2 DEF ReceiveHello
    <3>2. AddStep(source) \in Rest
      BY <1>2, RestMembers
    <3>. QED BY <3>1, <3>2 DEF LinkInv, TypeOK
  <2>. QED BY <2>1, <2>2
<1>. HIDE DEF source
<1>5. UNCHANGED <<graph, mChannels, mNeighbors, status, opened>>
  BY DEF ReceiveHello
<1>. USE DEF LinkInv
<1>6. TypeOK'
  BY <1>1, <1>4, <1>5 DEF TypeOK
<1>7. GraphsOK' /\ MessagesOK'
  BY <1>1, <1>5, SameGraphs DEF MessagesOK
<1>8. ChannelsOK'
  BY <1>5 DEF ChannelsOK
<1>9. RestOK'
  BY <1>2, <1>3, <1>4, <1>5, SameGraphs DEF RestOK, AddStep, Idle
<1>10. NeighborsUseChannels'
  BY <1>5 DEF NeighborsUseChannels, hasNeighbor
<1>11. NeighborsAreAnnounced'
  <2>1. \A m \in Node, d \in Chan :
          rest[m][d] = EventStep => rest'[m][d] = EventStep
    BY <1>3, <1>4 DEF Idle, EventStep
  <2>. QED BY <1>5, <2>1, AnnouncedStays
<1>. QED BY <1>6, <1>7, <1>8, <1>9, <1>10, <1>11

LEMMA AddNeighborLinkInv ==
  ASSUME LinkInv, NEW n \in Node, NEW c \in Chan, AddNeighbor(n, c)
  PROVE  LinkInv'
<1>. USE DEF LinkInv
<1>. DEFINE id == rest[n][c].id
            added == c \in mChannels[n] /\ ~ hasNeighbor(n, id)
<1>1. /\ rest[n][c].step = "add"
      /\ UNCHANGED <<graph, mChannels, status, opened, net>>
  BY DEF AddNeighbor
<1>2. /\ mNeighbors' = IF added THEN [mNeighbors EXCEPT ![n][id] = c]
                                ELSE mNeighbors
      /\ rest' = [rest EXCEPT ![n][c] = IF added THEN EventStep ELSE Idle]
  BY DEF AddNeighbor
<1>3. n \in Ends(c) /\ id = Peer(n, c) /\ id \in Node /\ c \in opened[n]
  BY <1>1, PeerFacts DEF RestOK, Idle
<1>. HIDE DEF id
<1>4. /\ rest' \in [Node -> [Chan -> Rest]]
      /\ rest'[n][c] = IF added THEN EventStep ELSE Idle
      /\ \A m \in Node, d \in Chan :
           m # n \/ d # c => rest'[m][d] = rest[m][d]
  <2>1. (IF added THEN EventStep ELSE Idle) \in Rest
    BY RestMembers
  <2>. QED BY <1>2, <2>1 DEF TypeOK
<1>5. /\ mNeighbors' \in [Node -> [Node -> Chan \cup {NoChan}]]
      /\ \A m, v \in Node :
           mNeighbors'[m][v] = IF added /\ m = n /\ v = id THEN c
                               ELSE mNeighbors[m][v]
  <2>1. mNeighbors \in [Node -> [Node -> Chan \cup {NoChan}]]
    BY DEF TypeOK
  <2>. QED BY <1>2, <1>3, <2>1
<1>6. TypeOK'
  BY <1>1, <1>4, <1>5 DEF TypeOK
<1>7. GraphsOK' /\ MessagesOK'
  BY <1>1, SameGraphs DEF MessagesOK
<1>8. ChannelsOK'
  BY <1>1 DEF ChannelsOK
<1>9. RestOK'
  BY <1>1, <1>3, <1>4, SameGraphs DEF RestOK, Idle, EventStep
<1>10. NeighborsUseChannels'
  BY <1>1, <1>3, <1>5 DEF NeighborsUseChannels, hasNeighbor
<1>11. NeighborsAreAnnounced'
  <2>1. CASE added
    <3>1. \A m \in Node : m # n => neighbors(m)' = neighbors(m)
      BY <1>5 DEF neighbors
    <3>2. \A m \in Node, d \in Chan :
            rest[m][d] = EventStep => rest'[m][d] = EventStep
      BY <1>4, <2>1
    <3>. QED BY <1>1, <1>4, <2>1, <3>1, <3>2 DEF NeighborsAreAnnounced
  <2>2. CASE ~ added
    <3>1. \A m \in Node, d \in Chan :
            rest[m][d] = EventStep => rest'[m][d] = EventStep
      BY <1>1, <1>4 DEF EventStep
    <3>. QED BY <1>1, <1>2, <2>2, <3>1, AnnouncedStays
  <2>. QED BY <2>1, <2>2
<1>. QED BY <1>6, <1>7, <1>8, <1>9, <1>10, <1>11

LEMMA ForwardLinkInv ==
  ASSUME LinkInv, NEW n \in Node, NEW c \in Chan, Forward(n, c)
  PROVE  LinkInv'
<1>. USE DEF LinkInv
<1>. DEFINE L == [m \in Node |-> [d \in Chan |-> Legit(m, d)]]
            message == rest[n][c].message
<1>1. L \in [Node -> [Chan -> SUBSET Message]]
  BY DEF Legit
<1>2. \A m \in Node, d \in Chan : L[m][d] = Legit(m, d)
  OBVIOUS
<1>. HIDE DEF L
<1>3. message \in Legit(n, c) /\ message.type = "State" /\ c \in opened[n]
  BY DEF Forward, RestOK, Idle
<1>4. net' = broadcast(net, n, message, c)
  BY DEF Forward
<1>. HIDE DEF message
<1>5. ASSUME NEW d \in Chan, n \in Ends(d)
      PROVE  message \in L[Peer(n, d)][d]
  BY <1>2, <1>3, <1>5, PeerFacts DEF Legit
<1>6. /\ net' \in [Node -> [Chan -> Seq(Message)]]
      /\ \A m \in Node, d \in Chan : net'[m][d] \in Seq(L[m][d])
  BY <1>1, <1>2, <1>4, <1>5, BroadcastFacts DEF MessagesOK
<1>7. /\ rest' = [rest EXCEPT ![n][c] = Idle] /\ rest[n][c].step = "forward"
      /\ UNCHANGED <<graph, mChannels, mNeighbors, status, opened>>
  BY DEF Forward
<1>8. /\ rest' \in [Node -> [Chan -> Rest]]
      /\ rest'[n][c] = Idle
      /\ \A m \in Node, d \in Chan :
           m # n \/ d # c => rest'[m][d] = rest[m][d]
  BY <1>7, RestMembers DEF TypeOK
<1>9. TypeOK'
  BY <1>6, <1>7, <1>8 DEF TypeOK
<1>10. GraphsOK' /\ MessagesOK'
  <2>1. \A m \in Node, d \in Chan : net'[m][d] \in Seq(Legit(m, d))
    BY <1>2, <1>6
  <2>2. graph' = graph
    BY <1>7
  <2>. QED BY <2>1, <2>2, SameGraphs DEF MessagesOK
<1>11. ChannelsOK'
  BY <1>7 DEF ChannelsOK
<1>12. RestOK'
  BY <1>7, <1>8, SameGraphs DEF RestOK, Idle
<1>13. NeighborsUseChannels'
  BY <1>7 DEF NeighborsUseChannels, hasNeighbor
<1>14. NeighborsAreAnnounced'
  <2>1. \A m \in Node, d \in Chan :
          rest[m][d] = EventStep => rest'[m][d] = EventStep
    BY <1>7, <1>8 DEF EventStep
  <2>. QED BY <1>7, <2>1, AnnouncedStays
<1>. QED BY <1>9, <1>10, <1>11, <1>12, <1>13, <1>14

(* A step that replaces the graph of one node by one in which the local    *)
(* state is the old one or the next one, and no other is too new.          *)
GraphStep(n) ==
    /\ graph' \in [Node -> Graph]
    /\ \A m \in Node : m # n => graph'[m] = graph[m]
    /\ OwnState(n, graph'[n])
    /\ TableMatches(n, graph'[n])
    /\ \A m \in Node : EdgesMatch(graph'[n], m)
    /\ \/ graph'[n].state[n] = graph[n].state[n]
       \/ graph'[n].state[n].sequence = graph[n].mStateSequence
    /\ \A m \in Node : m # n /\ graph'[n].state[m] # NoState =>
          graph'[n].state[m].id = m /\ NotNewer(graph'[n].state[m])

LEMMA GraphStepFacts ==
  ASSUME LinkInv, NEW n \in Node, GraphStep(n)
  PROVE  OwnStatesAdvance /\ GraphsOK'
<1>. USE DEF LinkInv
<1>1. OwnStatesAdvance
  <2>1. /\ graph[n].state[n].sequence \in 0 .. MaxStateSequence - 1
        /\ graph[n].mStateSequence = graph[n].state[n].sequence + 1
    BY OwnSequences DEF GraphsOK, OwnState
  <2>. QED BY <2>1, BoundFitsRange DEF OwnStatesAdvance, GraphStep
<1>2. ASSUME NEW v \in Node
      PROVE  /\ OwnState(v, graph'[v])
             /\ TableMatches(v, graph'[v])
             /\ \A m \in Node : EdgesMatch(graph'[v], m)
  BY DEF GraphsOK, GraphStep
<1>3. ASSUME NEW v \in Node, NEW m \in Node, graph'[v].state[m] # NoState
      PROVE  graph'[v].state[m].id = m /\ NotNewer(graph[v].state[m])'
  <2>1. CASE v = n /\ m = n
    <3>1. graph'[n].state[n].id = n /\ graph'[n].state[n].sequence \in Nat
      BY SeqModAssumption DEF GraphStep, OwnState, Graph, State, Sequence
    <3>. QED BY <2>1, <3>1 DEF NotNewer
  <2>2. CASE v # n \/ m # n
    <3>. DEFINE s == graph'[v].state[m]
    <3>1. s.id = m /\ NotNewer(s)
      BY <1>3, <2>2 DEF GraphsOK, GraphStep
    <3>2. s \in State
      <4>1. graph'[v] \in Graph
        BY DEF GraphStep
      <4>. QED BY <1>3, <4>1 DEF Graph
    <3>. HIDE DEF s
    <3>3. s.id \in Node /\ s.sequence \in Nat
      BY <3>2, SeqModAssumption DEF State, Sequence
    <3>4. graph[s.id].state[s.id].sequence \in Nat
      BY <3>3, OwnSequences, BoundFitsRange
    <3>5. /\ s.sequence <= graph'[s.id].state[s.id].sequence
          /\ s.sequence = graph'[s.id].state[s.id].sequence =>
               s = graph'[s.id].state[s.id]
      BY <3>1, <3>3, <3>4, <1>1 DEF NotNewer, OwnStatesAdvance
    <3>. QED BY <3>1, <3>5 DEF NotNewer, s
  <2>. QED BY <2>1, <2>2
<1>. QED BY <1>1, <1>2, <1>3 DEF GraphsOK

(* The message of broadcastState is legitimate once the state is stored.   *)
LEMMA LocalMessageIsLegit ==
  ASSUME NEW n \in Node, NEW s \in State, s.id = n, graph'[n].state[n] = s,
         NEW c \in Chan, n \in Ends(c)
  PROVE  StateMessage(s) \in Legit(Peer(n, c), c)'
<1>1. s.sequence \in Nat
  BY SeqModAssumption DEF State, Sequence
<1>2. NotNewer(s)'
  BY <1>1 DEF NotNewer
<1>3. StateMessage(s) \in Message /\ StateMessage(s).type = "State"
      /\ StateMessage(s).state = s
  BY DEF Message, StateMessage
<1>. QED BY <1>2, <1>3, PeerFacts DEF Legit

(* The local state is broadcast on top of legitimate queues.               *)
LEMMA LocalBroadcast ==
  ASSUME LinkInv, OwnStatesAdvance,
         NEW n \in Node, NEW s \in State, s.id = n, graph'[n].state[n] = s,
         NEW queues,
         \A m \in Node, d \in Chan : queues[m][d] \in Seq(Legit(m, d)),
         net' = broadcast(queues, n, StateMessage(s), NoChan)
  PROVE  /\ net' \in [Node -> [Chan -> Seq(Message)]]
         /\ \A m \in Node, d \in Chan : net'[m][d] \in Seq(Legit(m, d)')
<1>. DEFINE L == [m \in Node |-> [d \in Chan |-> Legit(m, d)']]
<1>1. L \in [Node -> [Chan -> SUBSET Message]]
  BY DEF Legit
<1>2. \A m \in Node, d \in Chan : L[m][d] = Legit(m, d)'
  OBVIOUS
<1>. HIDE DEF L
<1>3. \A m \in Node, d \in Chan : queues[m][d] \in Seq(L[m][d])
  BY <1>2, LegitMonotone, SeqMonotone DEF LinkInv
<1>4. \A c \in Chan : n \in Ends(c) => StateMessage(s) \in L[Peer(n, c)][c]
  BY <1>2, LocalMessageIsLegit, PeerFacts
<1>5. /\ net' \in [Node -> [Chan -> Seq(Message)]]
      /\ \A m \in Node, d \in Chan : net'[m][d] \in Seq(L[m][d])
  BY <1>1, <1>3, <1>4, BroadcastFacts DEF LinkInv
<1>. QED BY <1>2, <1>5

LEMMA NeighborEventLinkInv ==
  ASSUME LinkInv, NEW n \in Node, NEW c \in Chan, NeighborEvent(n, c)
  PROVE  LinkInv'
<1>. USE DEF LinkInv
<1>1. /\ rest[n][c] = EventStep
      /\ rest' = [rest EXCEPT ![n][c] = Idle]
      /\ UNCHANGED <<mChannels, mNeighbors, status, opened>>
  BY DEF NeighborEvent
<1>2. c \in opened[n]
  BY <1>1 DEF RestOK, Idle, EventStep
<1>3. /\ rest' \in [Node -> [Chan -> Rest]]
      /\ rest'[n][c] = Idle
      /\ \A m \in Node, d \in Chan :
           m # n \/ d # c => rest'[m][d] = rest[m][d]
  BY <1>1, RestMembers DEF TypeOK
<1>4. ChannelsOK' /\ NeighborsUseChannels'
  BY <1>1 DEF ChannelsOK, NeighborsUseChannels, hasNeighbor
<1>5. CASE graph[n].edges[n] = neighbors(n)
  <2>1. UNCHANGED <<graph, net>>
    BY <1>5 DEF NeighborEvent
  <2>2. TypeOK'
    BY <1>1, <1>3, <2>1 DEF TypeOK
  <2>3. GraphsOK' /\ MessagesOK'
    BY <2>1, SameGraphs DEF MessagesOK
  <2>4. RestOK'
    BY <1>1, <1>2, <1>3, <2>1, SameGraphs DEF RestOK, Idle
  <2>5. NeighborsAreAnnounced'
    <3>1. neighbors(n) = graph[n].state[n].neighbors
      BY <1>5 DEF GraphsOK, EdgesMatch, OwnState
    <3>. QED BY <1>1, <1>3, <2>1, <3>1 DEF NeighborsAreAnnounced, neighbors
  <2>. QED BY <1>4, <2>2, <2>3, <2>4, <2>5
<1>6. CASE graph[n].edges[n] # neighbors(n)
  <2>. DEFINE g == graph[n]
              k == updateEdges(n, g, n, neighbors(n))
              s == localState(n, k)
              h == broadcastState(n, k)
  <2>1. /\ MayBroadcast(g)
        /\ graph' = [graph EXCEPT ![n] = h]
        /\ net' = broadcast(net, n, StateMessage(s), NoChan)
    BY <1>6 DEF NeighborEvent
  <2>2. /\ g \in Graph /\ OwnState(n, g) /\ TableMatches(n, g)
        /\ \A m \in Node : EdgesMatch(g, m)
        /\ neighbors(n) \in SUBSET Node
    BY DEF TypeOK, GraphsOK, neighbors
  <2>. HIDE DEF g
  <2>3. /\ k \in Graph
        /\ k.state = g.state
        /\ k.edges = [g.edges EXCEPT ![n] = neighbors(n)]
        /\ k.mStateSequence = g.mStateSequence
        /\ TableMatches(n, k)
    BY <2>2, UpdateEdgesFacts
  <2>. HIDE DEF k
  <2>4. OwnState(n, k) /\ MayBroadcast(k)
    BY <2>1, <2>2, <2>3 DEF OwnState, MayBroadcast
  <2>5. \A m \in Node : m # n => EdgesMatch(k, m)
    BY <2>2, <2>3 DEF EdgesMatch, Graph
  <2>6. s \in State /\ s.id = n /\ s.sequence = g.mStateSequence
        /\ s.neighbors = neighbors(n)
    BY <2>3, LocalStateFacts
  <2>7. /\ h \in Graph
        /\ h.state = [g.state EXCEPT ![n] = s]
        /\ TableMatches(n, h)
        /\ OwnState(n, h)
        /\ \A m \in Node : EdgesMatch(h, m)
    BY <2>3, <2>4, <2>5, BroadcastStateFacts
  <2>. HIDE DEF s, h
  <2>8. /\ h.state[n] = s
        /\ \A m \in Node : m # n => h.state[m] = g.state[m]
    BY <2>2, <2>7 DEF Graph
  <2>9. /\ graph' \in [Node -> Graph]
        /\ graph'[n] = h
        /\ \A m \in Node : m # n => graph'[m] = graph[m]
    BY <2>1, <2>7 DEF TypeOK
  <2>10. \A m \in Node : m # n /\ h.state[m] # NoState =>
           h.state[m].id = m /\ NotNewer(h.state[m])
    BY <2>8 DEF GraphsOK, g
  <2>11. h.state[n].sequence = graph[n].mStateSequence
    BY <2>6, <2>8 DEF g
  <2>12. OwnStatesAdvance /\ GraphsOK'
    <3>1. GraphStep(n)
      BY <2>7, <2>9, <2>10, <2>11 DEF GraphStep
    <3>. QED BY <3>1, GraphStepFacts
  <2>13. /\ net' \in [Node -> [Chan -> Seq(Message)]]
         /\ \A m \in Node, d \in Chan : net'[m][d] \in Seq(Legit(m, d)')
    <3>1. \A m \in Node, d \in Chan : net[m][d] \in Seq(Legit(m, d))
      BY DEF MessagesOK
    <3>2. graph'[n].state[n] = s
      BY <2>8, <2>9
    <3>. QED BY <2>1, <2>6, <2>12, <3>1, <3>2, LocalBroadcast
  <2>14. TypeOK'
    BY <1>1, <1>3, <2>9, <2>13 DEF TypeOK
  <2>15. MessagesOK'
    BY <2>13 DEF MessagesOK
  <2>16. RestOK'
    BY <1>1, <1>2, <1>3, <2>12, LegitMonotone DEF RestOK, Idle
  <2>17. NeighborsAreAnnounced'
    BY <1>1, <1>3, <2>6, <2>8, <2>9 DEF NeighborsAreAnnounced, neighbors
  <2>. QED BY <1>4, <2>12, <2>14, <2>15, <2>16, <2>17
<1>. QED BY <1>5, <1>6

(* A state that updateVertice finds new is never one of the local node.    *)
LEMMA NewStateIsForeign ==
  ASSUME LinkInv, NEW n \in Node, NEW s \in State, NotNewer(s),
         isNew(graph[n], s)
  PROVE  s.id # n
<1>1. SUFFICES ASSUME s.id = n PROVE FALSE
  OBVIOUS
<1>. DEFINE own == graph[n].state[n]
<1>2. own # NoState /\ own.sequence \in 0 .. MaxStateSequence - 1
  BY OwnSequences DEF LinkInv, GraphsOK, OwnState
<1>3. s.sequence \in Nat /\ s.sequence <= own.sequence
  BY <1>1, SeqModAssumption DEF NotNewer, State, Sequence
<1>4. s.sequence \in 0 .. MaxStateSequence /\ own.sequence \in 0 .. MaxStateSequence
  BY <1>2, <1>3, BoundFitsRange
<1>5. compare_sequence(s.sequence, own.sequence) > 0
  BY <1>1, <1>2 DEF isNew
<1>. HIDE DEF own
<1>6. s.sequence > own.sequence
  BY <1>4, <1>5, CompareWithinBound
<1>. QED BY <1>2, <1>3, <1>6

LEMMA ReceiveStateLinkInv ==
  ASSUME LinkInv, NEW n \in Node, NEW c \in Chan, ReceiveState(n, c)
  PROVE  LinkInv'
<1>. USE DEF LinkInv
<1>. DEFINE message == Head(net[n][c])
            s == message.state
            g == graph[n]
            queues == Received(n, c)
<1>1. CanReceive(n, c, "State")
  BY DEF ReceiveState
<1>2. /\ message \in Legit(n, c) /\ message.type = "State"
      /\ queues \in [Node -> [Chan -> Seq(Message)]]
      /\ \A m \in Node, d \in Chan : queues[m][d] \in Seq(Legit(m, d))
  BY <1>1, ReceivedFacts
<1>3. s \in State /\ NotNewer(s) /\ message \in Message
  BY <1>2, MessageFacts DEF Legit
<1>4. c \in mChannels[n] /\ c \in opened[n] /\ rest[n][c] = Idle
  BY <1>1 DEF CanReceive, MayStart, ChannelsOK
<1>5. UNCHANGED <<mChannels, mNeighbors, status, opened>>
  BY DEF ReceiveState
<1>6. ChannelsOK' /\ NeighborsUseChannels'
  BY <1>5 DEF ChannelsOK, NeighborsUseChannels, hasNeighbor
<1>7. CASE ~ isNew(g, s)
  <2>1. net' = queues /\ UNCHANGED <<graph, rest>>
    BY <1>7 DEF ReceiveState
  <2>. HIDE DEF queues
  <2>2. TypeOK'
    BY <1>2, <1>5, <2>1 DEF TypeOK
  <2>3. GraphsOK' /\ MessagesOK'
    BY <1>2, <2>1, SameGraphs DEF MessagesOK
  <2>4. RestOK'
    BY <1>5, <2>1, SameGraphs DEF RestOK
  <2>5. NeighborsAreAnnounced'
    BY <1>5, <2>1, AnnouncedStays
  <2>. QED BY <1>6, <2>2, <2>3, <2>4, <2>5
<1>8. CASE isNew(g, s)
  <2>. DEFINE l == localState(n, g)
              k == IF g.state[s.id] = NoState THEN broadcastState(n, g) ELSE g
              h == storeState(n, k, s)
  <2>1. /\ g.state[s.id] = NoState => MayBroadcast(g)
        /\ graph' = [graph EXCEPT ![n] = h]
        /\ net' = IF g.state[s.id] = NoState
                  THEN broadcast(queues, n, StateMessage(l), NoChan)
                  ELSE queues
        /\ rest' = [rest EXCEPT ![n][c] = ForwardStep(message)]
    BY <1>8 DEF ReceiveState, updateVertice
  <2>2. s.id # n /\ s.id \in Node
    BY <1>3, <1>8, NewStateIsForeign DEF State
  <2>3. /\ g \in Graph /\ OwnState(n, g) /\ TableMatches(n, g)
        /\ \A m \in Node : EdgesMatch(g, m)
        /\ \A m \in Node : g.state[m] # NoState =>
              g.state[m].id = m /\ NotNewer(g.state[m])
    BY DEF TypeOK, GraphsOK
  <2>4. /\ l \in State /\ l.id = n /\ l.sequence = g.mStateSequence
        /\ l.neighbors = neighbors(n)
    BY <2>3, LocalStateFacts
  <2>. HIDE DEF message, s, g, queues, l
  <2>5. /\ k \in Graph /\ OwnState(n, k) /\ TableMatches(n, k)
        /\ \A m \in Node : EdgesMatch(k, m)
        /\ k.state = IF g.state[s.id] = NoState
                     THEN [g.state EXCEPT ![n] = l] ELSE g.state
    <3>1. CASE g.state[s.id] = NoState
      BY <2>1, <2>3, <3>1, BroadcastStateFacts DEF l
    <3>2. CASE g.state[s.id] # NoState
      BY <2>3, <3>2
    <3>. QED BY <3>1, <3>2
  <2>. HIDE DEF k
  <2>6. /\ h \in Graph
        /\ h.state = [k.state EXCEPT ![s.id] = s]
        /\ h.mStateSequence = k.mStateSequence
        /\ TableMatches(n, h)
        /\ \A m \in Node : EdgesMatch(h, m)
    BY <1>3, <2>5, StoreStateFacts
  <2>. HIDE DEF h
  <2>7. /\ h.state[s.id] = s
        /\ h.state[n] = IF g.state[s.id] = NoState THEN l ELSE g.state[n]
        /\ \A m \in Node : m # n /\ m # s.id => h.state[m] = g.state[m]
    BY <2>2, <2>3, <2>5, <2>6 DEF Graph
  <2>8. OwnState(n, h)
    BY <2>2, <2>5, <2>6 DEF OwnState, Graph
  <2>9. /\ graph' \in [Node -> Graph]
        /\ graph'[n] = h
        /\ \A m \in Node : m # n => graph'[m] = graph[m]
    BY <2>1, <2>6 DEF TypeOK
  <2>10. OwnStatesAdvance /\ GraphsOK'
    <3>1. \A m \in Node : m # n /\ h.state[m] # NoState =>
            h.state[m].id = m /\ NotNewer(h.state[m])
      BY <1>3, <2>3, <2>7
    <3>2. h.state[n] = graph[n].state[n] \/
          h.state[n].sequence = graph[n].mStateSequence
      BY <2>4, <2>7 DEF g
    <3>3. GraphStep(n)
      BY <2>6, <2>8, <2>9, <3>1, <3>2 DEF GraphStep
    <3>. QED BY <3>3, GraphStepFacts
  <2>11. /\ net' \in [Node -> [Chan -> Seq(Message)]]
         /\ \A m \in Node, d \in Chan : net'[m][d] \in Seq(Legit(m, d)')
    <3>1. CASE g.state[s.id] = NoState
      <4>1. graph'[n].state[n] = l
        BY <2>7, <2>9, <3>1
      <4>2. net' = broadcast(queues, n, StateMessage(l), NoChan)
        BY <2>1, <3>1
      <4>. QED BY <1>2, <2>4, <2>10, <4>1, <4>2, LocalBroadcast
    <3>2. CASE g.state[s.id] # NoState
      <4>1. net' = queues
        BY <2>1, <3>2
      <4>2. ASSUME NEW m \in Node, NEW d \in Chan
            PROVE  net'[m][d] \in Seq(Legit(m, d)')
        <5>1. Legit(m, d) \subseteq Legit(m, d)' /\ net'[m][d] \in Seq(Legit(m, d))
          BY <1>2, <2>10, <4>1, LegitMonotone
        <5>. QED BY <5>1, SeqMonotone
      <4>. QED BY <1>2, <4>1, <4>2
    <3>. QED BY <3>1, <3>2
  <2>12. /\ rest' \in [Node -> [Chan -> Rest]]
         /\ rest'[n][c] = ForwardStep(message)
         /\ \A m \in Node, d \in Chan :
              m # n \/ d # c => rest'[m][d] = rest[m][d]
    <3>1. ForwardStep(message) \in Rest
      BY <1>3, RestMembers
    <3>. QED BY <2>1, <3>1 DEF TypeOK
  <2>13. TypeOK'
    BY <1>5, <2>9, <2>11, <2>12 DEF TypeOK
  <2>14. MessagesOK'
    BY <2>11 DEF MessagesOK
  <2>15. RestOK'
    <3>1. message \in Legit(n, c)'
      BY <1>2, <2>10, LegitMonotone
    <3>2. /\ rest'[n][c].step = "forward" /\ rest'[n][c].message = message
          /\ message.type = "State"
      BY <1>2, <2>12 DEF ForwardStep
    <3>3. ASSUME NEW m \in Node, NEW d \in Chan,
                 rest[m][d].step = "forward"
          PROVE  rest[m][d].message \in Legit(m, d)'
      BY <2>10, <3>3, LegitMonotone DEF RestOK
    <3>. QED BY <1>4, <1>5, <2>12, <3>1, <3>2, <3>3 DEF RestOK
  <2>16. NeighborsAreAnnounced'
    <3>1. \A m \in Node, d \in Chan :
            rest[m][d] = EventStep => rest'[m][d] = EventStep
      BY <1>4, <2>12 DEF Idle, EventStep
    <3>2. \A m \in Node : neighbors(m)' = neighbors(m)
      BY <1>5 DEF neighbors
    <3>3. ASSUME NEW m \in Node
          PROVE  \/ graph'[m].state[m].neighbors = graph[m].state[m].neighbors
                 \/ graph'[m].state[m].neighbors = neighbors(m)
      BY <2>4, <2>7, <2>9 DEF g
    <3>. QED BY <3>1, <3>2, <3>3 DEF NeighborsAreAnnounced
  <2>. QED BY <1>6, <2>10, <2>13, <2>14, <2>15, <2>16
<1>. QED BY <1>7, <1>8

LEMMA NextLinkInv == LinkInv /\ [Next]_vars => LinkInv'
<1>1. SUFFICES ASSUME LinkInv, [Next]_vars PROVE LinkInv'
  OBVIOUS
<1>2. ASSUME NEW c \in Chan, Connect(c) \/ Close(c) PROVE LinkInv'
  BY <1>1, <1>2, ConnectLinkInv, CloseLinkInv
<1>3. ASSUME NEW n \in Node, Update(n) PROVE LinkInv'
  BY <1>1, <1>3, UpdateLinkInv
<1>4. ASSUME NEW n \in Node, NEW c \in Chan, Callback(n, c) PROVE LinkInv'
  BY <1>1, <1>4, OnOpenLinkInv, OnClosedLinkInv, ReceiveHelloLinkInv,
     ReceiveStateLinkInv, AddNeighborLinkInv, NeighborEventLinkInv,
     ForwardLinkInv DEF Callback
<1>5. CASE UNCHANGED vars
  <2>1. TypeOK' /\ GraphsOK' /\ MessagesOK'
    BY <1>1, <1>5, SameGraphs DEF vars, LinkInv, TypeOK, MessagesOK
  <2>2. ChannelsOK' /\ RestOK'
    BY <1>1, <1>5, SameGraphs DEF vars, LinkInv, ChannelsOK, RestOK
  <2>3. NeighborsUseChannels' /\ NeighborsAreAnnounced'
    BY <1>1, <1>5 DEF vars, LinkInv, NeighborsUseChannels,
       NeighborsAreAnnounced, hasNeighbor, neighbors
  <2>. QED BY <2>1, <2>2, <2>3 DEF LinkInv
<1>. QED BY <1>1, <1>2, <1>3, <1>4, <1>5 DEF Next

(* Init and every step keep LinkInv.                                       *)
LEMMA LinkInvHolds == Spec => []LinkInv
  BY InitLinkInv, NextLinkInv, PTL DEF Spec

-----------------------------------------------------------------------------
(* Every action of Graph, Routing and the channels keeps the types.        *)
THEOREM LinkTypeOK == Spec => []TypeOK
<1>1. LinkInv => TypeOK
  BY DEF LinkInv
<1>. QED BY <1>1, LinkInvHolds, PTL

(* All copies of a state are legitimate.                                   *)
LEMMA CopiesAreNotNewer ==
  ASSUME LinkInv, NEW s \in Copies
  PROVE  s \in State /\ NotNewer(s)
<1>1. ASSUME NEW n \in Node, NEW m \in Node, s = graph[n].state[m],
             s # NoState
      PROVE  s \in State /\ NotNewer(s)
  BY <1>1 DEF LinkInv, TypeOK, Graph, GraphsOK
<1>2. ASSUME NEW n \in Node, NEW c \in Chan, NEW x \in InFlight(n, c),
             x.type = "State", s = x.state
      PROVE  s \in State /\ NotNewer(s)
  <2>1. x \in Legit(n, c)
    <3>1. net[n][c] \in Seq(Legit(n, c))
      BY DEF LinkInv, MessagesOK
    <3>2. \A i \in DOMAIN net[n][c] : net[n][c][i] \in Legit(n, c)
      BY <3>1
    <3>. QED BY <3>2 DEF InFlight, LinkInv, RestOK
  <2>. QED BY <1>2, <2>1, MessageFacts DEF Legit
<1>. QED BY <1>1, <1>2 DEF Copies

(* Whatever order callbacks, failures and messages come in, a node of any  *)
(* network becomes the authority on its state with its first broadcast,    *)
(* whose number 0 counts as newer than the one before it, and remains it:  *)
(* updateVertice never finds a copy that comes back to its owner new, and  *)
(* a copy elsewhere is either the owner's or older.                        *)
THEOREM LinkOwnStateIsNewest == Spec => []OwnStateIsNewest
<1>1. ASSUME LinkInv PROVE OwnStateIsNewest
  <2>1. ASSUME NEW s \in Copies PROVE s \in State /\ NotNewer(s)
    BY <1>1, CopiesAreNotNewer
  <2>2. ASSUME NEW s \in Copies
        PROVE  \/ s = graph[s.id].state[s.id]
               \/ compare_sequence(graph[s.id].state[s.id].sequence,
                                   s.sequence) > 0
    <3>. DEFINE own == graph[s.id].state[s.id]
    <3>1. s \in State /\ NotNewer(s)
      BY <2>1
    <3>2. s.id \in Node /\ s.sequence \in Nat
      BY <3>1, SeqModAssumption DEF State, Sequence
    <3>3. own.sequence \in 0 .. MaxStateSequence - 1
      BY <1>1, <3>2, OwnSequences DEF LinkInv
    <3>4. s.sequence <= own.sequence /\ (s.sequence = own.sequence => s = own)
      BY <3>1 DEF NotNewer
    <3>. HIDE DEF own
    <3>5. /\ s.sequence \in 0 .. MaxStateSequence
          /\ own.sequence \in 0 .. MaxStateSequence
      BY <3>2, <3>3, <3>4, BoundFitsRange
    <3>6. s = own \/ own.sequence > s.sequence
      BY <3>2, <3>3, <3>4
    <3>. QED BY <3>5, <3>6, CompareWithinBound DEF own
  <2>. QED BY <2>2 DEF OwnStateIsNewest
<1>. QED BY <1>1, LinkInvHolds, PTL

(* The edges and the routing table of a node always are those of the       *)
(* states it has stored, although updateEdges recomputes the table only on *)
(* a change.                                                               *)
THEOREM LinkGraphMatchesStates == Spec => []GraphMatchesStates
<1>1. LinkInv => GraphMatchesStates
  BY DEF LinkInv, GraphsOK, GraphMatchesStates, EdgesMatch, TableMatches
<1>. QED BY <1>1, LinkInvHolds, PTL

(* No Neighbor event is lost as long as callbacks do not overlap: a        *)
(* neighbour is in the last state that the node broadcast, whatever        *)
(* channels were removed and added meanwhile, or its event is due.         *)
THEOREM LinkNeighborsAreAnnounced == Spec => []NeighborsAreAnnounced
<1>1. LinkInv => NeighborsAreAnnounced
  BY DEF LinkInv
<1>. QED BY <1>1, LinkInvHolds, PTL

(* findRoute, which looks up the destination among the neighbours, returns *)
(* the channel of the next hop, because every table is one-hop.            *)
THEOREM LinkRouteIsNextHop == Spec => []RouteIsNextHop
<1>1. ASSUME LinkInv PROVE RouteIsNextHop
  <2>1. ASSUME NEW n \in Node, NEW m \in Node, graph[n].table[m] # NoHop
        PROVE  graph[n].table[m] = m
    <3>1. graph[n].table = computeRoutingTable(n, graph[n].edges)
      BY <1>1 DEF LinkInv, GraphsOK, TableMatches
    <3>. QED BY <2>1, <3>1 DEF computeRoutingTable
  <2>. QED BY <2>1 DEF RouteIsNextHop, findRoute
<1>. QED BY <1>1, LinkInvHolds, PTL

-----------------------------------------------------------------------------
(* The numbers that broadcastState takes are newer than the last state.    *)
LEMMA NextSequenceIsNewer ==
  ASSUME NEW n \in Node, NEW g \in Graph, OwnState(n, g), MayBroadcast(g)
  PROVE  compare_sequence(g.mStateSequence, g.state[n].sequence) > 0
<1>1. g.state[n] \in State /\ g.mStateSequence \in Sequence
  BY DEF OwnState, Graph
<1>2. g.state[n].sequence \in Nat
  BY <1>1, SeqModAssumption DEF State, Sequence
<1>3. /\ g.mStateSequence \in 0 .. MaxStateSequence
      /\ g.state[n].sequence \in 0 .. MaxStateSequence
      /\ g.mStateSequence > g.state[n].sequence
  BY <1>1, <1>2, BoundFitsRange, SeqModAssumption
  DEF OwnState, MayBroadcast, Sequence
<1>. QED BY <1>3, CompareWithinBound

(* broadcastState replaces the local state by the next one.                *)
LEMMA BroadcastAdvances ==
  ASSUME NEW n \in Node, NEW g \in Graph, TableMatches(n, g),
         OwnState(n, g), MayBroadcast(g),
         \A m \in Node : m # n => EdgesMatch(g, m), NEW m \in Node
  PROVE  /\ Advances(g.state[m], broadcastState(n, g).state[m])
         /\ m # n => broadcastState(n, g).state[m] = g.state[m]
<1>. DEFINE s == localState(n, g)
            h == broadcastState(n, g)
<1>1. s \in State /\ s # NoState /\ s.sequence = g.mStateSequence
  BY LocalStateFacts, NoStateAssumption
<1>2. h.state = [g.state EXCEPT ![n] = s]
  BY BroadcastStateFacts
<1>3. g.state \in [Node -> State \cup {NoState}]
  BY DEF Graph
<1>. HIDE DEF s, h
<1>4. h.state[n] = s /\ (m # n => h.state[m] = g.state[m])
  BY <1>2, <1>3
<1>5. Advances(g.state[m], h.state[m])
  BY <1>1, <1>4, NextSequenceIsNewer DEF Advances
<1>. QED BY <1>4, <1>5 DEF h

LEMMA NeighborEventAdvances ==
  ASSUME LinkInv, NEW n \in Node, NEW c \in Chan, NeighborEvent(n, c)
  PROVE  StatesAdvance
<1>. DEFINE g == graph[n]
            k == updateEdges(n, g, n, neighbors(n))
<1>1. CASE g.edges[n] = neighbors(n)
  <2>1. graph' = graph
    BY <1>1 DEF NeighborEvent
  <2>. QED BY <2>1 DEF StatesAdvance, Advances
<1>2. CASE g.edges[n] # neighbors(n)
  <2>1. MayBroadcast(g) /\ graph' = [graph EXCEPT ![n] = broadcastState(n, k)]
    BY <1>2 DEF NeighborEvent
  <2>2. /\ g \in Graph /\ OwnState(n, g) /\ TableMatches(n, g)
        /\ \A m \in Node : EdgesMatch(g, m)
        /\ neighbors(n) \in SUBSET Node
        /\ graph \in [Node -> Graph]
    BY DEF LinkInv, TypeOK, GraphsOK, neighbors
  <2>. HIDE DEF g
  <2>3. /\ k \in Graph
        /\ k.state = g.state
        /\ k.edges = [g.edges EXCEPT ![n] = neighbors(n)]
        /\ k.mStateSequence = g.mStateSequence
        /\ TableMatches(n, k)
    BY <2>2, UpdateEdgesFacts
  <2>. HIDE DEF k
  <2>4. OwnState(n, k) /\ MayBroadcast(k)
    BY <2>1, <2>2, <2>3 DEF OwnState, MayBroadcast
  <2>5. \A m \in Node : m # n => EdgesMatch(k, m)
    BY <2>2, <2>3 DEF EdgesMatch, Graph
  <2>6. \A m \in Node : Advances(g.state[m], broadcastState(n, k).state[m])
    BY <2>3, <2>4, <2>5, BroadcastAdvances
  <2>7. \A v \in Node : graph'[v] = IF v = n THEN broadcastState(n, k)
                                             ELSE graph[v]
    BY <2>1, <2>2
  <2>. QED BY <2>6, <2>7 DEF StatesAdvance, Advances, g
<1>. QED BY <1>1, <1>2

(* updateVertice stores a state that passed the test of its sequence; the  *)
(* broadcast that comes before changes the local state only, and the first *)
(* state of a node replaces nothing.                                       *)
LEMMA ReceiveStateAdvances ==
  ASSUME LinkInv, NEW n \in Node, NEW c \in Chan, ReceiveState(n, c)
  PROVE  StatesAdvance
<1>. DEFINE message == Head(net[n][c])
            s == message.state
            g == graph[n]
            k == IF g.state[s.id] = NoState THEN broadcastState(n, g) ELSE g
            h == storeState(n, k, s)
<1>1. CASE ~ isNew(g, s)
  <2>1. graph' = graph
    BY <1>1 DEF ReceiveState
  <2>. QED BY <2>1 DEF StatesAdvance, Advances
<1>2. CASE isNew(g, s)
  <2>1. /\ g.state[s.id] = NoState => MayBroadcast(g)
        /\ graph' = [graph EXCEPT ![n] = h]
    BY <1>2 DEF ReceiveState, updateVertice
  <2>2. s \in State
    <3>1. CanReceive(n, c, "State")
      BY DEF ReceiveState
    <3>2. message \in Legit(n, c) /\ message.type = "State"
      BY <3>1, ReceivedFacts
    <3>. QED BY <3>2, MessageFacts DEF Legit
  <2>3. /\ g \in Graph /\ OwnState(n, g) /\ TableMatches(n, g)
        /\ \A m \in Node : EdgesMatch(g, m)
        /\ graph \in [Node -> Graph]
    BY DEF LinkInv, TypeOK, GraphsOK
  <2>4. /\ g.state[s.id] # NoState =>
              compare_sequence(s.sequence, g.state[s.id].sequence) > 0
        /\ s.id \in Node /\ s # NoState
    BY <1>2, <2>2, NoStateAssumption DEF isNew, State
  <2>. HIDE DEF message, s, g
  <2>5. /\ k \in Graph /\ TableMatches(n, k)
        /\ \A m \in Node : EdgesMatch(k, m)
    BY <2>1, <2>3, BroadcastStateFacts
  <2>6. \A m \in Node : Advances(g.state[m], k.state[m])
    <3>1. CASE g.state[s.id] = NoState
      BY <2>1, <2>3, <3>1, BroadcastAdvances
    <3>2. CASE g.state[s.id] # NoState
      BY <3>2 DEF Advances
    <3>. QED BY <3>1, <3>2
  <2>. HIDE DEF k
  <2>7. h.state = [k.state EXCEPT ![s.id] = s]
    BY <2>2, <2>5, StoreStateFacts
  <2>8. k.state \in [Node -> State \cup {NoState}]
    BY <2>5 DEF Graph
  <2>. HIDE DEF h
  <2>9. ASSUME NEW m \in Node PROVE Advances(g.state[m], h.state[m])
    <3>1. CASE m = s.id
      <4>1. h.state[m] = s
        BY <2>7, <2>8, <3>1
      <4>. QED BY <2>4, <3>1, <4>1 DEF Advances
    <3>2. CASE m # s.id
      <4>1. h.state[m] = k.state[m]
        BY <2>7, <2>8, <3>2
      <4>. QED BY <2>6, <4>1
    <3>. QED BY <3>1, <3>2
  <2>10. \A v \in Node : graph'[v] = IF v = n THEN h ELSE graph[v]
    BY <2>1, <2>3
  <2>. QED BY <2>9, <2>10 DEF StatesAdvance, Advances, g
<1>. QED BY <1>1, <1>2

(* No step of a node puts an older state, or another of the same sequence, *)
(* in the place of a stored one, whatever the order in which states arrive *)
(* and whatever is broadcast in between.                                   *)
THEOREM LinkStatesNeverGoBack == Spec => StatesNeverGoBack
<1>1. ASSUME LinkInv, Next PROVE StatesAdvance
  <2>1. ASSUME graph' = graph PROVE StatesAdvance
    BY <2>1 DEF StatesAdvance, Advances
  <2>2. ASSUME NEW c \in Chan, Connect(c) \/ Close(c) PROVE StatesAdvance
    BY <2>1, <2>2 DEF Connect, Close
  <2>3. ASSUME NEW n \in Node, Update(n) PROVE StatesAdvance
    BY <2>1, <2>3 DEF Update
  <2>4. ASSUME NEW n \in Node, NEW c \in Chan, Callback(n, c)
        PROVE  StatesAdvance
    <3>1. CASE ReceiveState(n, c)
      BY <1>1, <3>1, ReceiveStateAdvances
    <3>2. CASE NeighborEvent(n, c)
      BY <1>1, <3>2, NeighborEventAdvances
    <3>3. CASE \/ OnOpen(n, c) \/ OnClosed(n, c) \/ ReceiveHello(n, c)
               \/ AddNeighbor(n, c) \/ Forward(n, c)
      BY <2>1, <3>3 DEF OnOpen, OnClosed, ReceiveHello, AddNeighbor, Forward
    <3>. QED BY <2>4, <3>1, <3>2, <3>3 DEF Callback
  <2>. QED BY <1>1, <2>2, <2>3, <2>4 DEF Next
<1>. QED BY <1>1, LinkInvHolds, PTL DEF Spec, StatesNeverGoBack

-----------------------------------------------------------------------------
(* Every copy of a state comes from a broadcastState.  Within(S) says that *)
(* all copies are among the states S; a step keeps them there, but for the *)
(* one state with the next sequence number of a node.                      *)

Known(S) == {x \in Message : x.type = "State" => x.state \in S}

Within(S) ==
    /\ \A n, m \in Node : graph[n].state[m] # NoState => graph[n].state[m] \in S
    /\ \A n \in Node, c \in Chan : net[n][c] \in Seq(Known(S))
    /\ \A n \in Node, c \in Chan :
         rest[n][c].step = "forward" => rest[n][c].message \in Known(S)

NextState(n, l) ==
    l \in State /\ l.id = n /\ l.sequence = graph[n].mStateSequence

LEMMA CopiesWithin ==
  ASSUME LinkInv, NEW S, S = Copies
  PROVE  Within(S)
<1>1. ASSUME NEW n \in Node, NEW m \in Node, graph[n].state[m] # NoState
      PROVE  graph[n].state[m] \in S
  BY <1>1 DEF Copies
<1>2. ASSUME NEW n \in Node, NEW c \in Chan, NEW x \in InFlight(n, c),
             x \in Message
      PROVE  x \in Known(S)
  BY <1>2 DEF Copies, Known
<1>3. ASSUME NEW n \in Node, NEW c \in Chan PROVE net[n][c] \in Seq(Known(S))
  <2>1. net[n][c] \in Seq(Message)
    BY DEF LinkInv, TypeOK
  <2>2. \A i \in DOMAIN net[n][c] : net[n][c][i] \in Message
                                    /\ net[n][c][i] \in InFlight(n, c)
    BY <2>1 DEF InFlight
  <2>3. \A i \in 1 .. Len(net[n][c]) : net[n][c][i] \in Known(S)
    BY <1>2, <2>1, <2>2
  <2>. QED BY <2>1, <2>3
<1>4. ASSUME NEW n \in Node, NEW c \in Chan, rest[n][c].step = "forward"
      PROVE  rest[n][c].message \in Known(S)
  <2>1. rest[n][c].message \in Message
    BY <1>4, RestFacts DEF LinkInv, TypeOK
  <2>2. rest[n][c].message \in InFlight(n, c)
    BY <1>4 DEF InFlight
  <2>. QED BY <1>2, <2>1, <2>2
<1>. QED BY <1>1, <1>3, <1>4 DEF Within

LEMMA WithinCopies ==
  ASSUME NEW S, Within(S)'
  PROVE  Copies' \subseteq S
<1>1. ASSUME NEW n \in Node, NEW c \in Chan, NEW x \in InFlight(n, c)'
      PROVE  x \in Known(S)
  <2>1. net'[n][c] \in Seq(Known(S))
    BY DEF Within
  <2>2. \A i \in DOMAIN net'[n][c] : net'[n][c][i] \in Known(S)
    BY <2>1
  <2>. QED BY <2>2 DEF InFlight, Within
<1>2. ASSUME NEW n \in Node, NEW m \in Node, graph'[n].state[m] # NoState
      PROVE  graph'[n].state[m] \in S
  BY <1>2 DEF Within
<1>. QED BY <1>1, <1>2 DEF Copies, Known

LEMMA KnownMonotone ==
  ASSUME NEW S, NEW T, S \subseteq T
  PROVE  Known(S) \subseteq Known(T) /\ Seq(Known(S)) \subseteq Seq(Known(T))
<1>1. Known(S) \subseteq Known(T)
  BY DEF Known
<1>. QED BY <1>1, SeqMonotone

(* A broadcast of a message with a known state.                            *)
LEMMA BroadcastWithin ==
  ASSUME ChannelsOK, NEW n \in Node, NEW from, NEW queues, NEW S,
         NEW message \in Known(S),
         \A m \in Node, c \in Chan : queues[m][c] \in Seq(Known(S))
  PROVE  \A m \in Node, c \in Chan :
            broadcast(queues, n, message, from)[m][c] \in Seq(Known(S))
<1>. DEFINE L == [m \in Node |-> [c \in Chan |-> Known(S)]]
<1>1. L \in [Node -> [Chan -> SUBSET Message]]
  BY DEF Known
<1>2. \A m \in Node, c \in Chan : L[m][c] = Known(S)
  OBVIOUS
<1>. HIDE DEF L
<1>3. \A c \in Chan : n \in Ends(c) => message \in L[Peer(n, c)][c]
  BY <1>2, PeerFacts
<1>. QED BY <1>1, <1>2, <1>3, BroadcastFacts

(* The queues without the message that a handler takes.                    *)
LEMMA ReceivedWithin ==
  ASSUME LinkInv, NEW S, Within(S), NEW n \in Node, NEW c \in Chan,
         net[n][c] # << >>
  PROVE  /\ Head(net[n][c]) \in Known(S)
         /\ \A m \in Node, d \in Chan : Received(n, c)[m][d] \in Seq(Known(S))
<1>1. net[n][c] \in Seq(Known(S))
  BY DEF Within
<1>2. Head(net[n][c]) \in Known(S) /\ Tail(net[n][c]) \in Seq(Known(S))
  BY <1>1, SeqOperations
<1>3. \A m \in Node, d \in Chan :
        Received(n, c)[m][d] = IF m = n /\ d = c THEN Tail(net[n][c])
                                                 ELSE net[m][d]
  BY DEF Received, LinkInv, TypeOK
<1>. QED BY <1>2, <1>3 DEF Within

(* The actions that announce no state of their own.                        *)
LEMMA ChannelStepWithin ==
  ASSUME LinkInv, NEW S, Within(S), NEW c \in Chan, Connect(c) \/ Close(c)
  PROVE  Within(S)'
<1>1. UNCHANGED <<graph, rest>>
  BY DEF Connect, Close
<1>2. CASE Connect(c)
  BY <1>1, <1>2 DEF Connect, Within
<1>3. CASE Close(c)
  <2>1. Dialer[c] \in Node /\ Acceptor[c] \in Node /\ Dialer[c] # Acceptor[c]
    BY LinkStateAssumption
  <2>2. PICK i \in 0 .. Len(net[Dialer[c]][c]), j \in 0 .. Len(net[Acceptor[c]][c]) :
          net' = [net EXCEPT ![Dialer[c]][c] = SubSeq(@, 1, i),
                             ![Acceptor[c]][c] = SubSeq(@, 1, j)]
    BY <1>3 DEF Close
  <2>3. ASSUME NEW m \in Node, NEW d \in Chan
        PROVE  net'[m][d] \in Seq(Known(S))
    <3>1. net[m][d] \in Seq(Known(S))
      BY DEF Within
    <3>2. CASE d = c /\ m = Dialer[c]
      <4>1. net'[m][d] = SubSeq(net[m][d], 1, i) /\ i \in 0 .. Len(net[m][d])
        BY <2>1, <2>2, <3>2 DEF LinkInv, TypeOK
      <4>. QED BY <3>1, <4>1, PrefixType
    <3>3. CASE d = c /\ m = Acceptor[c]
      <4>1. net'[m][d] = SubSeq(net[m][d], 1, j) /\ j \in 0 .. Len(net[m][d])
        BY <2>1, <2>2, <3>3 DEF LinkInv, TypeOK
      <4>. QED BY <3>1, <4>1, PrefixType
    <3>4. CASE d # c \/ (m # Dialer[c] /\ m # Acceptor[c])
      BY <2>1, <2>2, <3>1, <3>4 DEF LinkInv, TypeOK
    <3>. QED BY <3>2, <3>3, <3>4
  <2>. QED BY <1>1, <2>3 DEF Within
<1>. QED BY <1>2, <1>3

LEMMA UpdateWithin ==
  ASSUME LinkInv, NEW S, Within(S), NEW n \in Node, Update(n)
  PROVE  Within(S)'
<1>1. Hello(n) \in Known(S)
  BY DEF Known, Message, Hello
<1>2. \A m \in Node, c \in Chan : net[m][c] \in Seq(Known(S))
  BY DEF Within
<1>3. \A m \in Node, c \in Chan :
        broadcast(net, n, Hello(n), NoChan)[m][c] \in Seq(Known(S))
  BY <1>1, <1>2, BroadcastWithin DEF LinkInv
<1>. QED BY <1>2, <1>3 DEF Update, Within

LEMMA CallbackWithin ==
  ASSUME LinkInv, NEW S, Within(S), NEW n \in Node, NEW c \in Chan,
         OnOpen(n, c) \/ OnClosed(n, c) \/ ReceiveHello(n, c)
           \/ AddNeighbor(n, c)
  PROVE  Within(S)'
<1>1. graph' = graph
  BY DEF OnOpen, OnClosed, ReceiveHello, AddNeighbor
<1>2. ASSUME NEW m \in Node, NEW d \in Chan
      PROVE  net'[m][d] \in Seq(Known(S))
  <2>1. net[m][d] \in Seq(Known(S)) /\ << >> \in Seq(Known(S))
    BY DEF Within
  <2>2. CASE OnOpen(n, c) \/ AddNeighbor(n, c)
    BY <2>1, <2>2 DEF OnOpen, AddNeighbor
  <2>3. CASE OnClosed(n, c)
    BY <2>1, <2>3 DEF OnClosed, LinkInv, TypeOK
  <2>4. CASE ReceiveHello(n, c)
    <3>1. net' = Received(n, c) /\ net[n][c] # << >>
      BY <2>4 DEF ReceiveHello, CanReceive
    <3>. QED BY <3>1, ReceivedWithin
  <2>. QED BY <2>2, <2>3, <2>4
<1>3. ASSUME NEW m \in Node, NEW d \in Chan, rest'[m][d].step = "forward"
      PROVE  rest'[m][d] = rest[m][d]
  <2>1. CASE OnClosed(n, c)
    BY <2>1 DEF OnClosed
  <2>2. CASE OnOpen(n, c)
    BY <1>3, <2>2 DEF OnOpen, LinkInv, TypeOK, AddStep
  <2>3. CASE ReceiveHello(n, c)
    BY <1>3, <2>3 DEF ReceiveHello, LinkInv, TypeOK, AddStep
  <2>4. CASE AddNeighbor(n, c)
    <3>1. PICK x \in {EventStep, Idle} : rest' = [rest EXCEPT ![n][c] = x]
      BY <2>4 DEF AddNeighbor
    <3>2. EventStep.step # "forward" /\ Idle.step # "forward"
      BY DEF EventStep, Idle
    <3>3. rest'[m][d] = rest[m][d] \/ rest'[m][d] = x
      BY <3>1 DEF LinkInv, TypeOK
    <3>. QED BY <1>3, <3>2, <3>3
  <2>. QED BY <2>1, <2>2, <2>3, <2>4
<1>. QED BY <1>1, <1>2, <1>3 DEF Within

LEMMA ForwardWithin ==
  ASSUME LinkInv, NEW S, Within(S), NEW n \in Node, NEW c \in Chan,
         Forward(n, c)
  PROVE  Within(S)'
<1>1. rest[n][c].message \in Known(S)
  BY DEF Forward, Within
<1>2. \A m \in Node, d \in Chan : net[m][d] \in Seq(Known(S))
  BY DEF Within
<1>3. \A m \in Node, d \in Chan : net'[m][d] \in Seq(Known(S))
  BY <1>1, <1>2, BroadcastWithin DEF LinkInv, Forward
<1>4. ASSUME NEW m \in Node, NEW d \in Chan, rest'[m][d].step = "forward"
      PROVE  rest'[m][d] = rest[m][d]
  BY <1>4 DEF Forward, LinkInv, TypeOK, Idle
<1>. QED BY <1>3, <1>4 DEF Within, Forward

(* The actions that may announce a new one.                                *)
LEMMA NeighborEventWithin ==
  ASSUME LinkInv, NEW S, Within(S), NEW n \in Node, NEW c \in Chan,
         NeighborEvent(n, c)
  PROVE  Within(S)' \/ \E l : NextState(n, l) /\ Within(S \cup {l})'
<1>. DEFINE g == graph[n]
            k == updateEdges(n, g, n, neighbors(n))
            s == localState(n, k)
            h == broadcastState(n, k)
<1>1. /\ g \in Graph /\ OwnState(n, g) /\ TableMatches(n, g)
      /\ \A m \in Node : EdgesMatch(g, m)
      /\ neighbors(n) \in SUBSET Node
      /\ graph \in [Node -> Graph]
  BY DEF LinkInv, TypeOK, GraphsOK, neighbors
<1>2. ASSUME NEW m \in Node, NEW d \in Chan, rest'[m][d].step = "forward"
      PROVE  rest'[m][d] = rest[m][d]
  BY <1>2 DEF NeighborEvent, LinkInv, TypeOK, Idle
<1>3. CASE g.edges[n] = neighbors(n)
  <2>1. UNCHANGED <<graph, net>>
    BY <1>3 DEF NeighborEvent
  <2>. QED BY <1>2, <2>1 DEF Within
<1>4. CASE g.edges[n] # neighbors(n)
  <2>1. /\ MayBroadcast(g)
        /\ graph' = [graph EXCEPT ![n] = h]
        /\ net' = broadcast(net, n, StateMessage(s), NoChan)
    BY <1>4 DEF NeighborEvent
  <2>2. g = graph[n]
    OBVIOUS
  <2>. HIDE DEF g
  <2>3. /\ k \in Graph
        /\ k.state = g.state
        /\ k.edges = [g.edges EXCEPT ![n] = neighbors(n)]
        /\ k.mStateSequence = g.mStateSequence
        /\ TableMatches(n, k)
    BY <1>1, UpdateEdgesFacts
  <2>. HIDE DEF k
  <2>4. OwnState(n, k) /\ MayBroadcast(k)
    BY <1>1, <2>1, <2>3 DEF OwnState, MayBroadcast
  <2>5. \A m \in Node : m # n => EdgesMatch(k, m)
    BY <1>1, <2>3 DEF EdgesMatch, Graph
  <2>6. s \in State /\ s.id = n /\ s.sequence = g.mStateSequence
    BY <2>3, LocalStateFacts
  <2>7. h.state = [g.state EXCEPT ![n] = s]
    BY <2>3, <2>4, <2>5, BroadcastStateFacts
  <2>. HIDE DEF s, h
  <2>8. PICK l : l = s
    OBVIOUS
  <2>9. PICK T : T = S \cup {l}
    OBVIOUS
  <2>10. Known(S) \subseteq Known(T) /\ Seq(Known(S)) \subseteq Seq(Known(T))
    BY <2>9, KnownMonotone
  <2>11. StateMessage(s) \in Known(T)
    BY <2>6, <2>8, <2>9 DEF Known, Message, StateMessage
  <2>12. \A m \in Node, d \in Chan : net'[m][d] \in Seq(Known(T))
    <3>1. \A m \in Node, d \in Chan : net[m][d] \in Seq(Known(T))
      BY <2>10 DEF Within
    <3>. QED BY <2>1, <2>11, <3>1, BroadcastWithin DEF LinkInv
  <2>13. ASSUME NEW v \in Node, NEW m \in Node, graph'[v].state[m] # NoState
         PROVE  graph'[v].state[m] \in T
    <3>1. \/ graph'[v].state[m] = s
          \/ graph'[v].state[m] = graph[v].state[m]
      <4>1. CASE v = n
        <5>1. graph'[v] = h /\ graph[v] = g
          BY <1>1, <2>1, <2>2, <4>1
        <5>. QED BY <1>1, <2>7, <5>1 DEF Graph
      <4>2. CASE v # n
        BY <1>1, <2>1, <4>2
      <4>. QED BY <4>1, <4>2
    <3>. QED BY <2>8, <2>9, <2>13, <3>1 DEF Within
  <2>14. Within(T)'
    BY <1>2, <2>10, <2>12, <2>13 DEF Within
  <2>15. NextState(n, l)
    BY <2>2, <2>6, <2>8 DEF NextState
  <2>. QED BY <2>9, <2>14, <2>15
<1>. QED BY <1>3, <1>4

LEMMA ReceiveStateWithin ==
  ASSUME LinkInv, NEW S, Within(S), NEW n \in Node, NEW c \in Chan,
         ReceiveState(n, c)
  PROVE  Within(S)' \/ \E l : NextState(n, l) /\ Within(S \cup {l})'
<1>. DEFINE message == Head(net[n][c])
            s == message.state
            g == graph[n]
            queues == Received(n, c)
<1>1. CanReceive(n, c, "State")
  BY DEF ReceiveState
<1>2. /\ message \in Known(S) /\ message.type = "State"
      /\ \A m \in Node, d \in Chan : queues[m][d] \in Seq(Known(S))
  BY <1>1, ReceivedWithin DEF CanReceive
<1>3. s \in State /\ s \in S /\ s.id \in Node
  BY <1>2, MessageFacts DEF Known, State
<1>4. CASE ~ isNew(g, s)
  <2>1. net' = queues /\ UNCHANGED <<graph, rest>>
    BY <1>4 DEF ReceiveState
  <2>. QED BY <1>2, <2>1 DEF Within
<1>5. CASE isNew(g, s)
  <2>. DEFINE l0 == localState(n, g)
              k == IF g.state[s.id] = NoState THEN broadcastState(n, g) ELSE g
              h == storeState(n, k, s)
  <2>1. /\ g.state[s.id] = NoState => MayBroadcast(g)
        /\ graph' = [graph EXCEPT ![n] = h]
        /\ net' = IF g.state[s.id] = NoState
                  THEN broadcast(queues, n, StateMessage(l0), NoChan)
                  ELSE queues
        /\ rest' = [rest EXCEPT ![n][c] = ForwardStep(message)]
    BY <1>5 DEF ReceiveState, updateVertice
  <2>2. /\ g \in Graph /\ OwnState(n, g) /\ TableMatches(n, g)
        /\ \A m \in Node : EdgesMatch(g, m)
        /\ graph \in [Node -> Graph] /\ g = graph[n]
    BY DEF LinkInv, TypeOK, GraphsOK
  <2>3. l0 \in State /\ l0.id = n /\ l0.sequence = g.mStateSequence
    BY <2>2, LocalStateFacts
  <2>. HIDE DEF message, s, g, queues, l0
  <2>4. /\ k \in Graph /\ TableMatches(n, k)
        /\ \A m \in Node : EdgesMatch(k, m)
        /\ k.state = [g.state EXCEPT ![n] = l0] \/ k.state = g.state
    <3>1. CASE g.state[s.id] = NoState
      BY <2>1, <2>2, <3>1, BroadcastStateFacts DEF l0
    <3>2. CASE g.state[s.id] # NoState
      BY <2>2, <3>2
    <3>. QED BY <3>1, <3>2
  <2>. HIDE DEF k
  <2>5. h.state = [k.state EXCEPT ![s.id] = s]
    BY <1>3, <2>4, StoreStateFacts
  <2>. HIDE DEF h
  <2>6. PICK l : l = l0
    OBVIOUS
  <2>7. PICK T : T = S \cup {l}
    OBVIOUS
  <2>8. Known(S) \subseteq Known(T) /\ Seq(Known(S)) \subseteq Seq(Known(T))
    BY <2>7, KnownMonotone
  <2>9. StateMessage(l0) \in Known(T)
    BY <2>3, <2>6, <2>7 DEF Known, Message, StateMessage
  <2>10. \A m \in Node, d \in Chan : net'[m][d] \in Seq(Known(T))
    <3>1. \A m \in Node, d \in Chan : queues[m][d] \in Seq(Known(T))
      BY <1>2, <2>8
    <3>2. CASE g.state[s.id] = NoState
      <4>1. net' = broadcast(queues, n, StateMessage(l0), NoChan)
        BY <2>1, <3>2
      <4>. QED BY <2>9, <3>1, <4>1, BroadcastWithin DEF LinkInv
    <3>3. CASE g.state[s.id] # NoState
      BY <2>1, <3>1, <3>3
    <3>. QED BY <3>2, <3>3
  <2>11. ASSUME NEW v \in Node, NEW m \in Node, graph'[v].state[m] # NoState
         PROVE  graph'[v].state[m] \in T
    <3>1. \/ graph'[v].state[m] = l0
          \/ graph'[v].state[m] = s
          \/ graph'[v].state[m] = graph[v].state[m]
      <4>1. CASE v = n
        <5>1. graph'[v] = h /\ graph[v] = g
          BY <2>1, <2>2, <4>1
        <5>2. g.state \in [Node -> State \cup {NoState}]
          BY <2>2 DEF Graph
        <5>3. h.state[m] = s \/ h.state[m] = k.state[m]
          BY <2>4, <2>5 DEF Graph
        <5>4. k.state[m] = l0 \/ k.state[m] = g.state[m]
          BY <2>4, <5>2
        <5>. QED BY <5>1, <5>3, <5>4
      <4>2. CASE v # n
        BY <2>1, <2>2, <4>2
      <4>. QED BY <4>1, <4>2
    <3>. QED BY <1>3, <2>6, <2>7, <2>11, <3>1 DEF Within
  <2>12. ASSUME NEW m \in Node, NEW d \in Chan, rest'[m][d].step = "forward"
         PROVE  rest'[m][d].message \in Known(T)
    <3>1. \/ rest'[m][d] = rest[m][d]
          \/ rest'[m][d] = ForwardStep(message)
      BY <2>1 DEF LinkInv, TypeOK
    <3>2. ForwardStep(message).message = message
      BY DEF ForwardStep
    <3>. QED BY <1>2, <2>8, <2>12, <3>1, <3>2 DEF Within
  <2>13. Within(T)'
    BY <2>10, <2>11, <2>12 DEF Within
  <2>14. NextState(n, l)
    BY <2>2, <2>3, <2>6 DEF NextState
  <2>. QED BY <2>7, <2>13, <2>14
<1>. QED BY <1>4, <1>5

LEMMA NextWithin ==
  ASSUME LinkInv, Next, NEW S, Within(S)
  PROVE  Within(S)' \/ \E n \in Node : \E l : NextState(n, l)
                                            /\ Within(S \cup {l})'
<1>1. ASSUME NEW c \in Chan, Connect(c) \/ Close(c) PROVE Within(S)'
  BY <1>1, ChannelStepWithin
<1>2. ASSUME NEW n \in Node, Update(n) PROVE Within(S)'
  BY <1>2, UpdateWithin
<1>3. ASSUME NEW n \in Node, NEW c \in Chan, Callback(n, c)
      PROVE  Within(S)' \/ \E l : NextState(n, l) /\ Within(S \cup {l})'
  BY <1>3, CallbackWithin, ForwardWithin, ReceiveStateWithin,
     NeighborEventWithin DEF Callback
<1>. QED BY <1>1, <1>2, <1>3 DEF Next

(* The next sequence number of a node is on no copy yet.                   *)
LEMMA NextStateIsFresh ==
  ASSUME LinkInv, NEW n \in Node, NEW l, NextState(n, l),
         NEW s \in Copies, s.id = l.id
  PROVE  s.sequence # l.sequence
<1>1. s \in State /\ NotNewer(s) /\ s.id = n
  BY CopiesAreNotNewer DEF NextState
<1>. DEFINE own == graph[n].state[n]
<1>2. own.sequence \in 0 .. MaxStateSequence - 1
  BY OwnSequences DEF LinkInv
<1>3. graph[n].mStateSequence = own.sequence + 1
  BY DEF LinkInv, GraphsOK, OwnState
<1>4. s.sequence <= own.sequence
  BY <1>1 DEF NotNewer
<1>5. s.sequence \in Nat
  BY <1>1, SeqModAssumption DEF State, Sequence
<1>6. l.sequence = graph[n].mStateSequence
  BY DEF NextState
<1>. HIDE DEF own
<1>. QED BY <1>2, <1>3, <1>4, <1>5, <1>6, BoundFitsRange

LEMMA InitOneStatePerSequence == Init => OneStatePerSequence
<1>1. SUFFICES ASSUME Init PROVE OneStatePerSequence
  OBVIOUS
<1>2. ASSUME NEW n \in Node, NEW c \in Chan PROVE InFlight(n, c) = {}
  BY <1>1 DEF Init, InFlight, Idle
<1>3. ASSUME NEW s \in Copies
      PROVE  \E n \in Node : s = InitGraph(n).state[n] /\ s.id = n
  <2>1. PICK n \in Node, m \in Node : s = graph[n].state[m] /\ s # NoState
    BY <1>2 DEF Copies
  <2>2. PICK g : g = InitGraph(n)
    OBVIOUS
  <2>3. s = g.state[m]
    BY <1>1, <2>1, <2>2 DEF Init
  <2>4. m = n /\ s.id = n
    <3>1. neighbors(n) = {}
      BY <1>1 DEF Init, neighbors
    <3>2. \A k \in Node : g.state[k] # NoState => k = n /\ g.state[k].id = k
      BY <2>2, <3>1, InitGraphFacts
    <3>3. m = n /\ g.state[m].id = m
      BY ONLY <2>1, <2>3, <3>2
    <3>. QED BY <2>3, <3>3
  <2>. QED BY <2>2, <2>3, <2>4
<1>. QED BY <1>3 DEF OneStatePerSequence

(* A node whose callbacks do not overlap never announces two states under  *)
(* one sequence number, although it announces some in a Neighbor event and *)
(* some in the middle of an insertion: what broadcastState announces next  *)
(* is newer than every copy there is.                                      *)
THEOREM LinkOneStatePerSequence == Spec => []OneStatePerSequence
<1>1. ASSUME LinkInv, OneStatePerSequence, [Next]_vars
      PROVE  OneStatePerSequence'
  <2>1. PICK S : S = Copies
    OBVIOUS
  <2>2. CASE Next
    <3>1. Within(S)
      BY <1>1, <2>1, CopiesWithin
    <3>2. CASE Within(S)'
      <4>1. Copies' \subseteq S
        BY <3>2, WithinCopies
      <4>. QED BY <1>1, <2>1, <4>1 DEF OneStatePerSequence
    <3>3. ASSUME NEW n \in Node, NEW l, NextState(n, l), Within(S \cup {l})'
          PROVE  OneStatePerSequence'
      <4>1. Copies' \subseteq S \cup {l}
        BY <3>3, WithinCopies
      <4>2. \A s \in S : s.id = l.id => s.sequence # l.sequence
        BY <1>1, <2>1, <3>3, NextStateIsFresh
      <4>3. \A s, t \in S : s.id = t.id /\ s.sequence = t.sequence => s = t
        BY <1>1, <2>1 DEF OneStatePerSequence
      <4>. QED BY <4>1, <4>2, <4>3 DEF OneStatePerSequence
    <3>. QED BY <1>1, <2>2, <3>1, <3>2, <3>3, NextWithin
  <2>3. CASE UNCHANGED vars
    <3>1. Copies' = Copies
      BY <2>3 DEF vars, Copies, InFlight
    <3>. QED BY <1>1, <3>1 DEF OneStatePerSequence
  <2>. QED BY <1>1, <2>2, <2>3
<1>. QED BY <1>1, InitOneStatePerSequence, LinkInvHolds, PTL DEF Spec

=============================================================================
