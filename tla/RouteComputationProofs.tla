----------------------- MODULE RouteComputationProofs -----------------------
(***************************************************************************)
(* Proofs about the search of Graph::computeRoutingTable, for every set of *)
(* vertices (finite or not), every graph and every order of the queue.     *)
(***************************************************************************)
EXTENDS RouteComputation, TLAPS

(* Only the neighbours of the local vertex get a next hop, themselves, at  *)
(* distance 1, and the queue holds nothing but them and the local vertex.  *)
HopsAreDirect ==
    /\ \A v \in Node : nextHop[v] # NoNode =>
          v \in edges[Local] /\ v # Local /\ nextHop[v] = v /\ distance[v] = 1
    /\ \A v \in Node : nextHop[v] = NoNode =>
          distance[v] = IF v = Local THEN 0 ELSE -1
    /\ \A q \in queue :
          \/ q = <<0, Local>>
          \/ q = <<1, q[2]>> /\ nextHop[q[2]] = q[2]

(* The local vertex is taken first and only once.                          *)
LocalComesFirst ==
    /\ visited = {} => pc = "top" /\ queue = {<<0, Local>>}
    /\ visited # {} => Local \in visited
    /\ <<0, Local>> \in queue =>
          \/ pc = "top" /\ visited = {}
          \/ pc = "scan" /\ top = <<0, Local>> /\ visited = {Local}
    /\ pc = "scan" => /\ top \in queue
                      /\ left \subseteq edges[top[2]]

(* Once the local vertex is visited, a neighbour without a next hop is one *)
(* that the scan of the local vertex has still to look at.                 *)
HopsAreComplete ==
    visited # {} =>
      \A v \in edges[Local] :
        \/ v = Local
        \/ nextHop[v] = v
        \/ pc = "scan" /\ top = <<0, Local>> /\ v \in left

TableIsPublished == pc = "done" => visited # {} /\ table = nextHop

SearchInv ==
    TypeOK /\ HopsAreDirect /\ LocalComesFirst /\ HopsAreComplete
           /\ TableIsPublished

-----------------------------------------------------------------------------
(* The vertices as computeRoutingTable resets them satisfy the invariant.  *)
LEMMA InitSearchInv == Init => SearchInv
  BY NodeAssumption
  DEF Init, SearchInv, TypeOK, HopsAreDirect, LocalComesFirst,
      HopsAreComplete, TableIsPublished, NoRoutes

(* Taking the top of the queue.                                            *)
LEMMA VisitSearchInv ==
  ASSUME SearchInv, NEW p \in queue, Visit(p)
  PROVE  SearchInv'
<1>1. TypeOK'
  BY DEF SearchInv, TypeOK, Visit, IsTop
<1>2. HopsAreDirect'
  BY DEF SearchInv, HopsAreDirect, Visit
<1>3. p = <<0, Local>> => visited = {}
  BY DEF SearchInv, LocalComesFirst, Visit
<1>4. p # <<0, Local>> => <<0, Local>> \notin queue /\ visited # {}
  <2>1. SUFFICES ASSUME p # <<0, Local>>
                 PROVE  <<0, Local>> \notin queue
    BY <2>1 DEF SearchInv, LocalComesFirst
  <2>2. p = <<1, p[2]>>
    BY <2>1 DEF SearchInv, HopsAreDirect
  <2>3. p[1] = 1
    BY <2>2
  <2>4. ASSUME <<0, Local>> \in queue PROVE FALSE
    BY <2>3, <2>4 DEF Visit, IsTop
  <2>. QED BY <2>4
<1>5. p = <<0, Local>> => p[2] = Local
  OBVIOUS
<1>6. LocalComesFirst'
  <2>1. CASE p = <<0, Local>>
    BY <2>1, <1>3, <1>5 DEF SearchInv, LocalComesFirst, Visit
  <2>2. CASE p # <<0, Local>>
    BY <2>2, <1>4 DEF SearchInv, LocalComesFirst, Visit, TypeOK
  <2>. QED BY <2>1, <2>2
<1>7. HopsAreComplete'
  <2>1. CASE p = <<0, Local>>
    BY <2>1, <1>3, <1>5 DEF HopsAreComplete, Visit
  <2>2. CASE p # <<0, Local>>
    BY <2>2, <1>4 DEF SearchInv, HopsAreComplete, Visit
  <2>. QED BY <2>1, <2>2
<1>8. TableIsPublished'
  BY DEF TableIsPublished, Visit
<1>. QED BY <1>1, <1>2, <1>6, <1>7, <1>8 DEF SearchInv

(* One iteration of the inner loop: it changes something only while the    *)
(* local vertex is scanned.                                                *)
LEMMA ScanSearchInv ==
  ASSUME SearchInv, NEW n \in left, Scan(n)
  PROVE  SearchInv'
<1>. USE DEF SearchInv
<1>1. n \in Node /\ n \in edges[top[2]] /\ top \in queue /\ top[2] \in Node
  BY DEF TypeOK, LocalComesFirst, Scan
<1>2. CASE top = <<0, Local>>
  <2>1. top[1] = 0 /\ top[2] = Local /\ nextHop[Local] = NoNode
    BY <1>2, NodeAssumption DEF HopsAreDirect
  <2>2. visited = {Local}
    BY <1>1, <1>2 DEF LocalComesFirst, Scan
  <2>3. CASE n = Local
    <3>1. UNCHANGED <<nextHop, distance, queue>>
      BY <2>2, <2>3 DEF Scan, Improves
    <3>. QED
      BY <3>1, <2>3, <1>1
      DEF Scan, TypeOK, HopsAreDirect, LocalComesFirst, HopsAreComplete,
          TableIsPublished
  <2>4. CASE n # Local
    <3>1. /\ nextHop' = [nextHop EXCEPT ![n] = n]
          /\ distance' = [distance EXCEPT ![n] = 1]
          /\ queue' = queue \cup {<<1, n>>}
      BY <2>1, <2>2, <2>4 DEF Scan, Improves
    <3>2. TypeOK'
      BY <3>1, <1>1 DEF Scan, TypeOK
    <3>3. HopsAreDirect'
      BY <3>1, <1>1, <2>1, <2>4, NodeAssumption DEF Scan, TypeOK, HopsAreDirect
    <3>4. LocalComesFirst'
      BY <3>1, <1>1, <2>1, <2>2, <2>4 DEF Scan, LocalComesFirst
    <3>5. HopsAreComplete'
      BY <3>1, <1>1, <2>4 DEF Scan, TypeOK, HopsAreComplete
    <3>6. TableIsPublished'
      BY DEF Scan, TableIsPublished
    <3>. QED BY <3>2, <3>3, <3>4, <3>5, <3>6
  <2>. QED BY <2>3, <2>4
<1>3. CASE top # <<0, Local>>
  <2>1. top[1] = 1 /\ nextHop[top[2]] = top[2]
    BY <1>1, <1>3 DEF HopsAreDirect
  <2>2. UNCHANGED <<nextHop, distance, queue>>
    <3>1. distance[n] \in -1 .. 1
      BY <1>1 DEF TypeOK
    <3>2. ~ Improves(n)
      BY <2>1, <1>1, <3>1, NodeAssumption DEF Improves
    <3>. QED BY <3>2 DEF Scan
  <2>. QED
    BY <2>2, <1>1, <1>3
    DEF Scan, TypeOK, HopsAreDirect, LocalComesFirst, HopsAreComplete,
        TableIsPublished
<1>. QED BY <1>2, <1>3

(* The pop at the end of an iteration of the outer loop.                   *)
LEMMA PopSearchInv ==
  ASSUME SearchInv, Pop
  PROVE  SearchInv'
<1>. USE DEF SearchInv
<1>1. visited # {}
  BY DEF LocalComesFirst, Pop
<1>2. TypeOK'
  BY DEF TypeOK, Pop
<1>3. HopsAreDirect'
  BY DEF HopsAreDirect, Pop
<1>4. LocalComesFirst'
  BY <1>1 DEF LocalComesFirst, Pop
<1>5. HopsAreComplete'
  BY DEF HopsAreComplete, Pop
<1>6. TableIsPublished'
  BY DEF TableIsPublished, Pop
<1>. QED BY <1>2, <1>3, <1>4, <1>5, <1>6

(* The end of the loop: the queue is empty, so the local vertex was taken. *)
LEMMA PublishSearchInv ==
  ASSUME SearchInv, Publish
  PROVE  SearchInv'
  BY DEF SearchInv, Publish, TypeOK, HopsAreDirect, LocalComesFirst,
         HopsAreComplete, TableIsPublished

LEMMA NextSearchInv == SearchInv /\ [Next]_vars => SearchInv'
<1>1. SUFFICES ASSUME SearchInv, [Next]_vars PROVE SearchInv'
  OBVIOUS
<1>2. CASE \E p \in queue : Visit(p)
  BY <1>1, <1>2, VisitSearchInv
<1>3. CASE \E n \in left : Scan(n)
  BY <1>1, <1>3, ScanSearchInv
<1>4. CASE Pop
  BY <1>1, <1>4, PopSearchInv
<1>5. CASE Publish
  BY <1>1, <1>5, PublishSearchInv
<1>6. CASE UNCHANGED vars
  BY <1>1, <1>6
  DEF vars, SearchInv, TypeOK, HopsAreDirect, LocalComesFirst,
      HopsAreComplete, TableIsPublished
<1>. QED
  BY <1>1, <1>2, <1>3, <1>4, <1>5, <1>6 DEF Next, Step, Returned

-----------------------------------------------------------------------------
(* The search of computeRoutingTable never leaves its types: no vertex is  *)
(* ever given a distance above 1, and the queue holds no such pair.        *)
THEOREM SearchTypeOK == Spec => []TypeOK
<1>1. SearchInv => TypeOK
  BY DEF SearchInv
<1>. QED BY InitSearchInv, NextSearchInv, <1>1, PTL DEF Spec

(* For every graph, computeRoutingTable publishes the one-hop routes and   *)
(* nothing else: the table of LinkState is this function of the edges.     *)
THEOREM SearchPublishesDirectRoutes == Spec => []PublishesDirectRoutes
<1>1. SearchInv => PublishesDirectRoutes
  <2>1. SUFFICES ASSUME SearchInv, pc = "done"
                 PROVE  table = DirectRoutes
    BY DEF PublishesDirectRoutes
  <2>2. table = nextHop /\ visited # {}
    BY <2>1 DEF SearchInv, TableIsPublished
  <2>3. ASSUME NEW v \in Node
        PROVE  nextHop[v] = IF v \in edges[Local] \ {Local} THEN v ELSE NoNode
    BY <2>1, <2>2, <2>3
    DEF SearchInv, TypeOK, HopsAreDirect, HopsAreComplete
  <2>. QED BY <2>1, <2>2, <2>3 DEF DirectRoutes, SearchInv, TypeOK
<1>. QED BY InitSearchInv, NextSearchInv, <1>1, PTL DEF Spec

=============================================================================
