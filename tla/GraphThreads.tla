---------------------------- MODULE GraphThreads ----------------------------
(***************************************************************************)
(* The threads of one node of a native build in its Graph and its Routing  *)
(* (src/src/impl/graph.cpp, routing.cpp).  The callbacks of a channel come *)
(* one at a time, those of different channels run on concurrent threads,   *)
(* so that a channel stands for its thread here, and any thread may remove *)
(* a channel at any moment.                                                *)
(*                                                                         *)
(* A callback that inserts the first state of another node holds           *)
(* Graph::mMutex while it broadcasts the local state; one that handles a   *)
(* Neighbor event updates the edges of the local vertex and broadcasts the *)
(* local state without it.  Routing has a lock of its own, which its       *)
(* methods hold from beginning to end.                                     *)
(*                                                                         *)
(* Only the local vertex is kept.  Every access to what the threads share  *)
(* is a step: without the lock they are data races, and these are the      *)
(* outcomes in which each access still takes effect as a whole.  The       *)
(* sequence numbers stay far from the wrap of SequenceNumbers.             *)
(***************************************************************************)
EXTENDS Integers, FiniteSets

CONSTANTS
    Chan,           \* the channels, and the threads of their callbacks
    MaxCallbacks,   \* how many threads libdatachannel has for callbacks
    Closable,       \* the channels that may be removed
    Peers,          \* the nodes that become neighbours
    Peer,           \* Peer[c]: the node that channel c leads to
    Stranger,       \* the nodes whose first state arrives
    NoChan          \* no neighbour, or nobody holds mMutex

ASSUME ThreadAssumption == NoChan \notin Chan /\ Peer \in [Chan -> Peers]

VARIABLES
    mChannels,      \* Routing::mChannels
    mNeighbors,     \* Routing::mNeighbors, NoChan where there is no entry
    unknown,        \* strangers with no vertex in the graph
    mMutex,         \* who holds Graph::mMutex
    mStateSequence,
    state,          \* of the local vertex: [sequence, neighbors]
    edges,          \* of the local vertex
    sent,           \* the local states that were broadcast
    frame,          \* frame[t]: what thread t is doing
    overlapped      \* history: two callbacks were at work at a time

routing == <<mChannels, mNeighbors>>
vars == <<mChannels, mNeighbors, unknown, mMutex, mStateSequence, state, edges,
          sent, frame, overlapped>>

LocalState == [sequence : Nat, neighbors : SUBSET Peers]

(* pc names the next step; sequence and ids are those of the local state   *)
(* that broadcastState made, or ids is the set that the handler of the     *)
(* event gave to updateEdges; current, added and removed are the sets of   *)
(* updateEdges.  broadcasting is FALSE in the updateEdges of the event.    *)
Frame == [pc : {"idle", "add", "read", "load", "store", "own", "test", "assign",
                "current", "added", "removed", "erase", "apply", "send", "unlock"},
          broadcasting : BOOLEAN, sequence : Nat, ids : SUBSET Peers,
          current : SUBSET Peers, added : SUBSET Peers, removed : SUBSET Peers]

Reset(pc) == [pc |-> pc, broadcasting |-> FALSE, sequence |-> 0, ids |-> {},
              current |-> {}, added |-> {}, removed |-> {}]

TypeOK ==
    /\ mChannels \in SUBSET Chan
    /\ mNeighbors \in [Peers -> Chan \cup {NoChan}]
    /\ unknown \in SUBSET Stranger
    /\ mMutex \in Chan \cup {NoChan}
    /\ mStateSequence \in Nat
    /\ state \in LocalState
    /\ edges \in SUBSET Peers
    /\ sent \in SUBSET LocalState
    /\ frame \in [Chan -> Frame]
    /\ overlapped \in BOOLEAN

-----------------------------------------------------------------------------
(* The channels are up; the constructor of Graph has broadcast the state   *)
(* with sequence 0.                                                        *)
Init ==
    /\ mChannels = Chan
    /\ mNeighbors = [id \in Peers |-> NoChan]
    /\ unknown = Stranger
    /\ mMutex = NoChan
    /\ mStateSequence = 1
    /\ state = [sequence |-> 0, neighbors |-> {}]
    /\ edges = {}
    /\ sent = {state}
    /\ frame = [t \in Chan |-> Reset("idle")]
    /\ overlapped = FALSE

neighbors == {id \in Peers : mNeighbors[id] # NoChan}

At(t, pc) == frame[t].pc = pc
MayStart == Cardinality({t \in Chan : ~ At(t, "idle")}) < MaxCallbacks
Goto(t, pc) == frame' = [frame EXCEPT ![t].pc = pc]

(* The end of a callback's work: the lock is released if it is held.       *)
Return(t) ==
    frame' = [frame EXCEPT ![t] = Reset(IF mMutex = t THEN "unlock" ELSE "idle")]

(* A Hello from the node at the other end: hasNeighbor, and if it is false *)
(* addNeighbor is called next.  (A Hello of a neighbour changes nothing.)  *)
ReceiveHello(t) ==
    /\ MayStart /\ At(t, "idle") /\ t \in mChannels
    /\ Peer[t] \notin neighbors
    /\ Goto(t, "add")
    /\ UNCHANGED <<routing, unknown, mMutex, mStateSequence, state, edges, sent>>

AddNeighborUnchecked(t) ==
    /\ At(t, "add")
    /\ mNeighbors' = [mNeighbors EXCEPT ![Peer[t]] = t]
    /\ Goto(t, "read")
    /\ UNCHANGED <<mChannels, unknown, mMutex, mStateSequence, state, edges, sent>>

(* addNeighbor, which tests the channel and the neighbour again, and emits *)
(* the Neighbor event once it has released its lock.                       *)
AddNeighbor(t) ==
    /\ At(t, "add")
    /\ IF t \in mChannels /\ Peer[t] \notin neighbors
       THEN /\ mNeighbors' = [mNeighbors EXCEPT ![Peer[t]] = t]
            /\ Goto(t, "read")
       ELSE /\ Return(t)
            /\ UNCHANGED mNeighbors
    /\ UNCHANGED <<mChannels, unknown, mMutex, mStateSequence, state, edges, sent>>

(* removeChannel, on any thread and whatever the callbacks of the channel  *)
(* are doing; it emits no event.                                           *)
RemoveChannel(c) ==
    /\ c \in mChannels \cap Closable
    /\ mChannels' = mChannels \ {c}
    /\ mNeighbors' = [id \in Peers |-> IF mNeighbors[id] = c THEN NoChan
                                                             ELSE mNeighbors[id]]
    /\ UNCHANGED <<unknown, mMutex, mStateSequence, state, edges, sent, frame>>

(* The handler of the event reads the neighbours.                          *)
ReadNeighbors(t) ==
    /\ At(t, "read")
    /\ frame' = [frame EXCEPT ![t].ids = neighbors, ![t].broadcasting = FALSE,
                              ![t].pc = "current"]
    /\ UNCHANGED <<routing, unknown, mMutex, mStateSequence, state, edges, sent>>

(* Graph::insert of a first state: the lock, then broadcastState.          *)
Insert(t, id) ==
    /\ MayStart /\ At(t, "idle") /\ t \in mChannels
    /\ id \in unknown /\ mMutex = NoChan
    /\ mMutex' = t
    /\ unknown' = unknown \ {id}
    /\ Goto(t, "load")
    /\ UNCHANGED <<routing, mStateSequence, state, edges, sent>>

Unlock(t) ==
    /\ At(t, "unlock")
    /\ mMutex' = NoChan
    /\ Goto(t, "idle")
    /\ UNCHANGED <<routing, unknown, mStateSequence, state, edges, sent>>

-----------------------------------------------------------------------------
(* updateEdges.  Its argument is a reference: to a set of the handler's in *)
(* the event, but to the neighbours of the stored state in updateVertice.  *)
Wanted(t) == IF frame[t].broadcasting THEN state.neighbors ELSE frame[t].ids

Current(t) ==
    /\ At(t, "current")
    /\ frame' = [frame EXCEPT ![t].current = edges, ![t].pc = "added"]
    /\ UNCHANGED <<routing, unknown, mMutex, mStateSequence, state, edges, sent>>

Added(t) ==
    /\ At(t, "added")
    /\ frame' = [frame EXCEPT ![t].added = Wanted(t) \ frame[t].current,
                              ![t].pc = "removed"]
    /\ UNCHANGED <<routing, unknown, mMutex, mStateSequence, state, edges, sent>>

(* Without a difference the event is handled; a broadcast goes on.         *)
Removed(t) ==
    LET removed == frame[t].current \ Wanted(t)
    IN  /\ At(t, "removed")
        /\ IF frame[t].added # {} \/ removed # {}
           THEN frame' = [frame EXCEPT ![t].removed = removed, ![t].current = {},
                                       ![t].pc = "erase"]
           ELSE IF frame[t].broadcasting THEN Goto(t, "send") ELSE Return(t)
        /\ UNCHANGED <<routing, unknown, mMutex, mStateSequence, state, edges, sent>>

Erase(t) ==
    /\ At(t, "erase")
    /\ edges' = edges \ frame[t].removed
    /\ frame' = [frame EXCEPT ![t].removed = {}, ![t].pc = "apply"]
    /\ UNCHANGED <<routing, unknown, mMutex, mStateSequence, state, sent>>

(* A handler that does not broadcast what it changed.                      *)
ApplyOnly(t) ==
    /\ At(t, "apply")
    /\ edges' = edges \cup frame[t].added
    /\ IF frame[t].broadcasting THEN Goto(t, "send") ELSE Return(t)
    /\ UNCHANGED <<routing, unknown, mMutex, mStateSequence, state, sent>>

(* After a change the handler of the event calls broadcastState.           *)
Apply(t) ==
    /\ At(t, "apply")
    /\ edges' = edges \cup frame[t].added
    /\ frame' = [frame EXCEPT ![t] =
                    IF frame[t].broadcasting
                    THEN [frame[t] EXCEPT !.added = {}, !.pc = "send"]
                    ELSE Reset("load")]
    /\ UNCHANGED <<routing, unknown, mMutex, mStateSequence, state, sent>>

-----------------------------------------------------------------------------
(* broadcastState: mStateSequence++ is a load and a store.                 *)
LoadSequence(t) ==
    /\ At(t, "load")
    /\ frame' = [frame EXCEPT ![t].sequence = mStateSequence, ![t].pc = "store"]
    /\ UNCHANGED <<routing, unknown, mMutex, mStateSequence, state, edges, sent>>

StoreSequenceBefore(t) ==
    /\ At(t, "store")
    /\ mStateSequence' = frame[t].sequence
    /\ Goto(t, "own")
    /\ UNCHANGED <<routing, unknown, mMutex, state, edges, sent>>

StoreSequence(t) ==
    /\ At(t, "store")
    /\ mStateSequence' = frame[t].sequence + 1
    /\ Goto(t, "own")
    /\ UNCHANGED <<routing, unknown, mMutex, state, edges, sent>>

(* The neighbours of the new local state.                                  *)
MakeState(t) ==
    /\ At(t, "own")
    /\ frame' = [frame EXCEPT ![t].ids = neighbors, ![t].broadcasting = TRUE,
                              ![t].pc = "test"]
    /\ UNCHANGED <<routing, unknown, mMutex, mStateSequence, state, edges, sent>>

Made(t) == [sequence |-> frame[t].sequence, neighbors |-> frame[t].ids]

(* updateVertice: a state that is not newer is not stored, but it is sent. *)
Test(t) ==
    /\ At(t, "test")
    /\ Goto(t, IF frame[t].sequence > state.sequence THEN "assign" ELSE "send")
    /\ UNCHANGED <<routing, unknown, mMutex, mStateSequence, state, edges, sent>>

Assign(t) ==
    /\ At(t, "assign")
    /\ state' = Made(t)
    /\ Goto(t, "current")
    /\ UNCHANGED <<routing, unknown, mMutex, mStateSequence, edges, sent>>

SendState(t) ==
    /\ At(t, "send")
    /\ sent' = sent \cup {Made(t)}
    /\ Return(t)
    /\ UNCHANGED <<routing, unknown, mMutex, mStateSequence, state, edges>>

Work(t) ==
    \/ ReceiveHello(t) \/ AddNeighbor(t) \/ ReadNeighbors(t)
    \/ \E id \in Stranger : Insert(t, id)
    \/ Unlock(t)
    \/ Current(t) \/ Added(t) \/ Removed(t) \/ Erase(t) \/ Apply(t)
    \/ LoadSequence(t) \/ StoreSequence(t) \/ MakeState(t)
    \/ Test(t) \/ Assign(t) \/ SendState(t)

AllIdle == \A t \in Chan : At(t, "idle")
Overlap == \E t, u \in Chan : t # u /\ ~ At(t, "idle") /\ ~ At(u, "idle")

(* All that was to come has come.                                          *)
Done ==
    /\ AllIdle /\ mChannels \cap Closable = {} /\ (unknown = {} \/ mChannels = {})
    /\ \A c \in mChannels : Peer[c] \in neighbors
    /\ UNCHANGED vars

Next ==
    \/ \E t \in Chan : Work(t) /\ overlapped' = (overlapped \/ Overlap')
    \/ \E c \in Chan : RemoveChannel(c) /\ UNCHANGED overlapped
    \/ Done

Spec == Init /\ [][Next]_vars

-----------------------------------------------------------------------------
(* Between the start of updateEdges or updateVertice and their end.        *)
Updating(t) == frame[t].pc \in {"test", "assign", "current", "added", "removed",
                                "erase", "apply"}

(* graph.cpp:143 and 173 require of the callers of updateVertice and       *)
(* updateEdges that mMutex is "uniquely locked": two threads are never in  *)
(* them at a time.                                                         *)
UpdatesAreExclusive ==
    \A t, u \in Chan : Updating(t) /\ Updating(u) => t = u

(* A neighbour is linked through a channel of the node that leads to it,   *)
(* even when removeChannel comes between the hasNeighbor and addNeighbor   *)
(* of a Hello, or another channel's thread adds the neighbour in between.  *)
NeighborsUseChannels ==
    \A id \in neighbors : mNeighbors[id] \in mChannels /\ Peer[mNeighbors[id]] = id

(* A node none of whose channels was removed.                              *)
Steady(id) == \A c \in Chan : Peer[c] = id => c \in mChannels

(* Whatever the threads do to each other's updates, no neighbour is left   *)
(* out of all the broadcasts as long as its own channels stay, whichever   *)
(* others are removed: the updateEdges that finds a neighbour in the edges *)
(* already, and so broadcasts nothing, finds it there because of a thread  *)
(* that broadcasts it.  (A neighbour that was removed and added again may  *)
(* never be broadcast: the thread that put it in the edges may broadcast   *)
(* what it reads in between.)                                              *)
EveryNeighborIsBroadcast ==
    AllIdle => \A id \in neighbors : Steady(id) =>
                   \E s \in sent : id \in s.neighbors

(* As long as no two callbacks have overlapped, wherever other threads     *)
(* removed channels in between, the edges are those of the local state     *)
(* once the callbacks are done, the state is the last one that was         *)
(* broadcast and has all neighbours, and no two broadcasts share a         *)
(* sequence number.  (Callbacks that overlap can break it: the updates are *)
(* unlocked.)                                                              *)
StateIsCurrent ==
    AllIdle /\ ~ overlapped =>
      /\ edges = state.neighbors /\ neighbors \subseteq state.neighbors
      /\ state \in sent /\ mStateSequence = state.sequence + 1
      /\ \A s \in sent : s.sequence <= state.sequence
      /\ \A s, u \in sent : s.sequence = u.sequence => s = u

=============================================================================
