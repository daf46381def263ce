-------------------------- MODULE RouteComputation --------------------------
(***************************************************************************)
(* Graph::computeRoutingTable (src/src/impl/graph.cpp:215-262): the        *)
(* priority-queue search that turns the graph of known nodes into a        *)
(* routing table, one action per step of its loop.                         *)
(*                                                                         *)
(* The search runs while the graph lock is held, so the edges do not       *)
(* change under it.  What the code leaves open stays open here: the order  *)
(* of equal distances in the queue (they are compared by the address of    *)
(* the vertex) and the order of the edges (an unordered_map).              *)
(***************************************************************************)
EXTENDS Integers

CONSTANTS
    Node,       \* identifiers of the vertices in mVertices
    Local,      \* node()->id(), always one of the vertices
    NoNode      \* nullptr

ASSUME NodeAssumption ==
    /\ Local \in Node
    /\ NoNode \notin Node

VARIABLES
    edges,      \* edges[v]: the keys of Vertice::edges
    nextHop,    \* Vertice::nextHop
    distance,   \* Vertice::distance
    visited,    \* the vertices whose Vertice::visited is set
    queue,      \* the priority queue, a set of <<distance, vertex>>
    top,        \* the pair at queue.top() being processed
    left,       \* the edges of top that the inner loop has still to look at
    table,      \* RoutingTable::mNextHops, NoNode where there is no entry
    pc          \* "top", "scan" (inside the inner loop) or "done"

vars == <<edges, nextHop, distance, visited, queue, top, left, table, pc>>

NoRoutes == [v \in Node |-> NoNode]

(* The pairs are distances of at most one: the search never gets past the  *)
(* neighbours of the local node.  A pair is pushed at most once, so a set  *)
(* stands for the queue.                                                   *)
TypeOK ==
    /\ edges \in [Node -> SUBSET Node]
    /\ nextHop \in [Node -> Node \cup {NoNode}]
    /\ distance \in [Node -> -1 .. 1]
    /\ visited \in SUBSET Node
    /\ queue \in SUBSET ((0 .. 1) \X Node)
    /\ top \in (0 .. 1) \X Node
    /\ left \in SUBSET Node
    /\ table \in [Node -> Node \cup {NoNode}]
    /\ pc \in {"top", "scan", "done"}

-----------------------------------------------------------------------------
(* Any graph over the vertices, with the vertices reset and the local one  *)
(* pushed at distance 0 (graph.cpp:224-236).                               *)
Init ==
    /\ edges \in [Node -> SUBSET Node]
    /\ nextHop = NoRoutes
    /\ distance = [v \in Node |-> IF v = Local THEN 0 ELSE -1]
    /\ visited = {}
    /\ queue = {<<0, Local>>}
    /\ top = <<0, Local>>
    /\ left = {}
    /\ table = NoRoutes
    /\ pc = "top"

(* queue.top() of a min-heap: no queued pair has a smaller distance.       *)
IsTop(p) == p \in queue /\ \A q \in queue : p[1] <= q[1]

(* std::exchange(node->visited, true): the edges of the top vertex are     *)
(* looked at only the first time it comes up.                              *)
Visit(p) ==
    /\ pc = "top" /\ IsTop(p)
    /\ visited' = visited \cup {p[2]}
    /\ top' = p
    /\ left' = IF p[2] \in visited THEN {} ELSE edges[p[2]]
    /\ pc' = "scan"
    /\ UNCHANGED <<edges, nextHop, distance, queue, table>>

(* The same condition with the test on the target instead.                 *)
ImprovesTestingTarget(neighbor) ==
    /\ neighbor \notin visited
    /\ \/ nextHop[neighbor] = NoNode
       \/ top[1] + 1 < distance[neighbor]

(* The condition of graph.cpp:242-244 under which a scanned edge updates   *)
(* its target: it tests the next hop of the vertex being scanned, and the  *)
(* distance of a target not reached yet is -1.                             *)
Improves(neighbor) ==
    /\ neighbor \notin visited
    /\ \/ nextHop[top[2]] = NoNode
       \/ top[1] + 1 < distance[neighbor]

(* One iteration of the inner loop.                                        *)
Scan(neighbor) ==
    /\ pc = "scan" /\ neighbor \in left
    /\ left' = left \ {neighbor}
    /\ IF Improves(neighbor)
       THEN /\ nextHop' = [nextHop EXCEPT ![neighbor] =
                             IF nextHop[top[2]] # NoNode THEN nextHop[top[2]]
                                                         ELSE neighbor]
            /\ distance' = [distance EXCEPT ![neighbor] = top[1] + 1]
            /\ queue' = queue \cup {<<top[1] + 1, neighbor>>}
       ELSE UNCHANGED <<nextHop, distance, queue>>
    /\ UNCHANGED <<edges, visited, top, table, pc>>

(* The end of the inner loop with the pop forgotten.                       *)
PopNothing ==
    /\ pc = "scan" /\ left = {}
    /\ pc' = "top"
    /\ UNCHANGED <<edges, nextHop, distance, visited, queue, top, left, table>>

(* The inner loop is over: queue.pop().                                    *)
Pop ==
    /\ pc = "scan" /\ left = {}
    /\ queue' = queue \ {top}
    /\ pc' = "top"
    /\ UNCHANGED <<edges, nextHop, distance, visited, top, left, table>>

(* A table that is given an entry for the local vertex as well.            *)
PublishWithLocal ==
    /\ pc = "top" /\ queue = {}
    /\ table' = [nextHop EXCEPT ![Local] = Local]
    /\ pc' = "done"
    /\ UNCHANGED <<edges, nextHop, distance, visited, queue, top, left>>

(* The queue is empty: RoutingTable::add for each vertex with a next hop,  *)
(* and the new table goes to Routing::setTable.                            *)
Publish ==
    /\ pc = "top" /\ queue = {}
    /\ table' = nextHop
    /\ pc' = "done"
    /\ UNCHANGED <<edges, nextHop, distance, visited, queue, top, left>>

Step ==
    \/ \E p \in queue : Visit(p)
    \/ \E neighbor \in left : Scan(neighbor)
    \/ Pop
    \/ Publish

(* The caller goes on once the table is published.                         *)
Returned == pc = "done" /\ UNCHANGED vars

Next == Step \/ Returned

Spec == Init /\ [][Next]_vars

(* The loop of one thread that holds the lock runs to its end.             *)
FairSpec == Spec /\ WF_vars(Step)

-----------------------------------------------------------------------------
(* What the published table holds: an entry for each direct edge of the    *)
(* local vertex other than itself, whose next hop is the node itself, and  *)
(* no entry for any other node.                                            *)
DirectRoutes ==
    [v \in Node |-> IF v \in edges[Local] \ {Local} THEN v ELSE NoNode]

(* Whatever order the queue and the edges are taken in, the loop that ends *)
(* at graph.cpp:261 publishes exactly the one-hop routes.                  *)
PublishesDirectRoutes == pc = "done" => table = DirectRoutes

(* The loop of graph.cpp:238-253 ends and a table is published, whatever   *)
(* the graph: cycles, self-loops and unreachable vertices included.        *)
Terminates == <>(pc = "done")

(* The nodes that a path of known edges leads to from the local node: the  *)
(* smallest set with the local node that is closed under the edges.        *)
Closed(S) == Local \in S /\ UNION {edges[v] : v \in S} \subseteq S
Reachable == {v \in Node : \A S \in SUBSET Node : Closed(S) => v \in S}

(* graph.cpp:220 calls the loop a variant of Dijkstra's algorithm "to      *)
(* compute next hops": every node that a path leads to gets a next hop.    *)
ComputesNextHops ==
    pc = "done" => \A v \in Reachable \ {Local} : table[v] # NoNode

=============================================================================
