------------------------- MODULE GraphThreadsProofs -------------------------
(***************************************************************************)
(* What holds of a node's Graph and Routing whatever its threads do to     *)
(* each other (GraphThreads), for any number of channels, neighbours and   *)
(* strangers: neighbours use channels of the node, no neighbour whose      *)
(* channels stay is left out of all broadcasts, and what goes wrong with   *)
(* the local state takes two callbacks at a time.                          *)
(***************************************************************************)
EXTENDS GraphThreads, TLAPS

Pc == {"idle", "add", "read", "load", "store", "own", "test", "assign",
       "current", "added", "removed", "erase", "apply", "send", "unlock"}

-----------------------------------------------------------------------------
(* The frame of the thread that takes a step, and those of the others.     *)

Others(t) == \A u \in Chan \ {t} : frame'[u] = frame[u]

(* Only pc changes, or everything but pc is reset.                         *)
SameLocals(t) ==
    /\ frame'[t].broadcasting = frame[t].broadcasting
    /\ frame'[t].sequence = frame[t].sequence
    /\ frame'[t].ids = frame[t].ids /\ frame'[t].current = frame[t].current
    /\ frame'[t].added = frame[t].added /\ frame'[t].removed = frame[t].removed

NoLocals(t) ==
    /\ ~ frame'[t].broadcasting
    /\ frame'[t].ids = {} /\ frame'[t].current = {}
    /\ frame'[t].added = {} /\ frame'[t].removed = {}

LEMMA FrameFacts ==
  ASSUME TypeOK, NEW t \in Chan
  PROVE  /\ frame \in [Chan -> Frame] /\ frame[t] \in Frame
         /\ frame[t].broadcasting \in BOOLEAN /\ frame[t].sequence \in Nat
         /\ frame[t].ids \in SUBSET Peers /\ frame[t].current \in SUBSET Peers
         /\ frame[t].added \in SUBSET Peers /\ frame[t].removed \in SUBSET Peers
         /\ Wanted(t) \in SUBSET Peers /\ neighbors \in SUBSET Peers
         /\ edges \in SUBSET Peers /\ mStateSequence \in Nat
<1>1. /\ frame \in [Chan -> Frame] /\ edges \in SUBSET Peers /\ mStateSequence \in Nat
      /\ state \in LocalState
  BY DEF TypeOK
<1>2. frame[t] \in Frame
  BY <1>1
<1>3. /\ frame[t].broadcasting \in BOOLEAN /\ frame[t].sequence \in Nat
      /\ frame[t].ids \in SUBSET Peers /\ frame[t].current \in SUBSET Peers
      /\ frame[t].added \in SUBSET Peers /\ frame[t].removed \in SUBSET Peers
  BY <1>2 DEF Frame
<1>4. Wanted(t) \in SUBSET Peers
  BY <1>1, <1>3 DEF Wanted, LocalState
<1>5. neighbors \in SUBSET Peers
  BY DEF neighbors
<1>. QED BY <1>1, <1>2, <1>3, <1>4, <1>5

LEMMA GotoFacts ==
  ASSUME TypeOK, NEW t \in Chan, NEW pc \in Pc, Goto(t, pc)
  PROVE  /\ frame' \in [Chan -> Frame] /\ Others(t)
         /\ frame'[t].pc = pc /\ SameLocals(t)
<1>1. frame \in [Chan -> Frame] /\ frame[t] \in Frame
  BY FrameFacts
<1>. DEFINE r == [frame[t] EXCEPT !.pc = pc]
<1>2. /\ r \in Frame /\ r.pc = pc /\ r.broadcasting = frame[t].broadcasting
      /\ r.sequence = frame[t].sequence /\ r.ids = frame[t].ids
      /\ r.current = frame[t].current
      /\ r.added = frame[t].added /\ r.removed = frame[t].removed
  BY <1>1 DEF Frame, Pc
<1>3. frame' = [frame EXCEPT ![t] = r]
  BY <1>1 DEF Goto
<1>. HIDE DEF r
<1>. QED BY <1>1, <1>2, <1>3 DEF Others, SameLocals

LEMMA ResetFacts ==
  ASSUME NEW pc \in Pc, NEW i, i = Reset(pc)
  PROVE  /\ i \in Frame /\ i.pc = pc /\ ~ i.broadcasting /\ i.ids = {}
         /\ i.current = {} /\ i.added = {} /\ i.removed = {}
BY DEF Frame, Pc, Reset

LEMMA ReturnFacts ==
  ASSUME TypeOK, NEW t \in Chan, Return(t)
  PROVE  /\ frame' \in [Chan -> Frame] /\ Others(t)
         /\ frame'[t].pc \in {"idle", "unlock"} /\ NoLocals(t)
<1>1. frame \in [Chan -> Frame]
  BY FrameFacts
<1>2. PICK pc \in {"idle", "unlock"} : frame' = [frame EXCEPT ![t] = Reset(pc)]
  BY DEF Return
<1>3. PICK r : r = Reset(pc)
  OBVIOUS
<1>4. /\ r \in Frame /\ r.pc = pc /\ ~ r.broadcasting /\ r.ids = {}
      /\ r.current = {} /\ r.added = {} /\ r.removed = {}
  <2>1. pc \in Pc
    BY DEF Pc
  <2>. QED BY <1>3, <2>1, ResetFacts
<1>5. frame' = [frame EXCEPT ![t] = r]
  BY <1>2, <1>3
<1>. QED BY <1>1, <1>4, <1>5 DEF Others, NoLocals

LEMMA ReadFacts ==
  ASSUME TypeOK, NEW t \in Chan, ReadNeighbors(t)
  PROVE  /\ frame' \in [Chan -> Frame] /\ Others(t)
         /\ frame'[t].pc = "current"
         /\ ~ frame'[t].broadcasting
         /\ frame'[t].sequence = frame[t].sequence
         /\ frame'[t].ids = neighbors
         /\ frame'[t].current = frame[t].current
         /\ frame'[t].added = frame[t].added
         /\ frame'[t].removed = frame[t].removed
<1>. DEFINE r == [frame[t] EXCEPT !.ids = neighbors, !.broadcasting = FALSE, !.pc = "current"]
<1>1. /\ frame \in [Chan -> Frame] /\ frame[t] \in Frame
      /\ frame[t].current \in SUBSET Peers /\ Wanted(t) \in SUBSET Peers
      /\ neighbors \in SUBSET Peers /\ edges \in SUBSET Peers
      /\ mStateSequence \in Nat
  BY FrameFacts
<1>2. /\ r \in Frame
      /\ r.pc = "current"
      /\ ~ r.broadcasting
      /\ r.sequence = frame[t].sequence
      /\ r.ids = neighbors
      /\ r.current = frame[t].current
      /\ r.added = frame[t].added
      /\ r.removed = frame[t].removed
  BY <1>1 DEF Frame
<1>3. frame' = [frame EXCEPT ![t] = r]
  BY <1>1 DEF ReadNeighbors
<1>. HIDE DEF r
<1>. QED BY <1>1, <1>2, <1>3 DEF Others

LEMMA CurrentFacts ==
  ASSUME TypeOK, NEW t \in Chan, Current(t)
  PROVE  /\ frame' \in [Chan -> Frame] /\ Others(t)
         /\ frame'[t].pc = "added"
         /\ frame'[t].broadcasting = frame[t].broadcasting
         /\ frame'[t].sequence = frame[t].sequence
         /\ frame'[t].ids = frame[t].ids
         /\ frame'[t].current = edges
         /\ frame'[t].added = frame[t].added
         /\ frame'[t].removed = frame[t].removed
<1>. DEFINE r == [frame[t] EXCEPT !.current = edges, !.pc = "added"]
<1>1. /\ frame \in [Chan -> Frame] /\ frame[t] \in Frame
      /\ frame[t].current \in SUBSET Peers /\ Wanted(t) \in SUBSET Peers
      /\ neighbors \in SUBSET Peers /\ edges \in SUBSET Peers
      /\ mStateSequence \in Nat
  BY FrameFacts
<1>2. /\ r \in Frame
      /\ r.pc = "added"
      /\ r.broadcasting = frame[t].broadcasting
      /\ r.sequence = frame[t].sequence
      /\ r.ids = frame[t].ids
      /\ r.current = edges
      /\ r.added = frame[t].added
      /\ r.removed = frame[t].removed
  BY <1>1 DEF Frame
<1>3. frame' = [frame EXCEPT ![t] = r]
  BY <1>1 DEF Current
<1>. HIDE DEF r
<1>. QED BY <1>1, <1>2, <1>3 DEF Others

LEMMA AddedFacts ==
  ASSUME TypeOK, NEW t \in Chan, Added(t)
  PROVE  /\ frame' \in [Chan -> Frame] /\ Others(t)
         /\ frame'[t].pc = "removed"
         /\ frame'[t].broadcasting = frame[t].broadcasting
         /\ frame'[t].sequence = frame[t].sequence
         /\ frame'[t].ids = frame[t].ids
         /\ frame'[t].current = frame[t].current
         /\ frame'[t].added = (Wanted(t) \ frame[t].current)
         /\ frame'[t].removed = frame[t].removed
<1>. DEFINE r == [frame[t] EXCEPT !.added = (Wanted(t) \ frame[t].current), !.pc = "removed"]
<1>1. /\ frame \in [Chan -> Frame] /\ frame[t] \in Frame
      /\ frame[t].current \in SUBSET Peers /\ Wanted(t) \in SUBSET Peers
      /\ neighbors \in SUBSET Peers /\ edges \in SUBSET Peers
      /\ mStateSequence \in Nat
  BY FrameFacts
<1>2. /\ r \in Frame
      /\ r.pc = "removed"
      /\ r.broadcasting = frame[t].broadcasting
      /\ r.sequence = frame[t].sequence
      /\ r.ids = frame[t].ids
      /\ r.current = frame[t].current
      /\ r.added = (Wanted(t) \ frame[t].current)
      /\ r.removed = frame[t].removed
  BY <1>1 DEF Frame
<1>3. frame' = [frame EXCEPT ![t] = r]
  BY <1>1 DEF Added
<1>. HIDE DEF r
<1>. QED BY <1>1, <1>2, <1>3 DEF Others

LEMMA RemovedFacts ==
  ASSUME TypeOK, NEW t \in Chan, Removed(t),
         frame[t].added # {} \/ frame[t].current \ Wanted(t) # {}
  PROVE  /\ frame' \in [Chan -> Frame] /\ Others(t)
         /\ frame'[t].pc = "erase"
         /\ frame'[t].broadcasting = frame[t].broadcasting
         /\ frame'[t].sequence = frame[t].sequence
         /\ frame'[t].ids = frame[t].ids
         /\ frame'[t].current = {}
         /\ frame'[t].added = frame[t].added
         /\ frame'[t].removed = (frame[t].current \ Wanted(t))
<1>. DEFINE r == [frame[t] EXCEPT !.removed = (frame[t].current \ Wanted(t)), !.current = {}, !.pc = "erase"]
<1>1. /\ frame \in [Chan -> Frame] /\ frame[t] \in Frame
      /\ frame[t].current \in SUBSET Peers /\ Wanted(t) \in SUBSET Peers
      /\ neighbors \in SUBSET Peers /\ edges \in SUBSET Peers
      /\ mStateSequence \in Nat
  BY FrameFacts
<1>2. /\ r \in Frame
      /\ r.pc = "erase"
      /\ r.broadcasting = frame[t].broadcasting
      /\ r.sequence = frame[t].sequence
      /\ r.ids = frame[t].ids
      /\ r.current = {}
      /\ r.added = frame[t].added
      /\ r.removed = (frame[t].current \ Wanted(t))
  BY <1>1 DEF Frame
<1>3. frame' = [frame EXCEPT ![t] = r]
  BY <1>1 DEF Removed
<1>. HIDE DEF r
<1>. QED BY <1>1, <1>2, <1>3 DEF Others

LEMMA EraseFacts ==
  ASSUME TypeOK, NEW t \in Chan, Erase(t)
  PROVE  /\ frame' \in [Chan -> Frame] /\ Others(t)
         /\ frame'[t].pc = "apply"
         /\ frame'[t].broadcasting = frame[t].broadcasting
         /\ frame'[t].sequence = frame[t].sequence
         /\ frame'[t].ids = frame[t].ids
         /\ frame'[t].current = frame[t].current
         /\ frame'[t].added = frame[t].added
         /\ frame'[t].removed = {}
<1>. DEFINE r == [frame[t] EXCEPT !.removed = {}, !.pc = "apply"]
<1>1. /\ frame \in [Chan -> Frame] /\ frame[t] \in Frame
      /\ frame[t].current \in SUBSET Peers /\ Wanted(t) \in SUBSET Peers
      /\ neighbors \in SUBSET Peers /\ edges \in SUBSET Peers
      /\ mStateSequence \in Nat
  BY FrameFacts
<1>2. /\ r \in Frame
      /\ r.pc = "apply"
      /\ r.broadcasting = frame[t].broadcasting
      /\ r.sequence = frame[t].sequence
      /\ r.ids = frame[t].ids
      /\ r.current = frame[t].current
      /\ r.added = frame[t].added
      /\ r.removed = {}
  BY <1>1 DEF Frame
<1>3. frame' = [frame EXCEPT ![t] = r]
  BY <1>1 DEF Erase
<1>. HIDE DEF r
<1>. QED BY <1>1, <1>2, <1>3 DEF Others

LEMMA ApplyBroadcastingFacts ==
  ASSUME TypeOK, NEW t \in Chan, Apply(t), frame[t].broadcasting
  PROVE  /\ frame' \in [Chan -> Frame] /\ Others(t)
         /\ frame'[t].pc = "send"
         /\ frame'[t].broadcasting = frame[t].broadcasting
         /\ frame'[t].sequence = frame[t].sequence
         /\ frame'[t].ids = frame[t].ids
         /\ frame'[t].current = frame[t].current
         /\ frame'[t].added = {}
         /\ frame'[t].removed = frame[t].removed
<1>. DEFINE r == [frame[t] EXCEPT !.added = {}, !.pc = "send"]
<1>1. /\ frame \in [Chan -> Frame] /\ frame[t] \in Frame
      /\ frame[t].current \in SUBSET Peers /\ Wanted(t) \in SUBSET Peers
      /\ neighbors \in SUBSET Peers /\ edges \in SUBSET Peers
      /\ mStateSequence \in Nat
  BY FrameFacts
<1>2. /\ r \in Frame
      /\ r.pc = "send"
      /\ r.broadcasting = frame[t].broadcasting
      /\ r.sequence = frame[t].sequence
      /\ r.ids = frame[t].ids
      /\ r.current = frame[t].current
      /\ r.added = {}
      /\ r.removed = frame[t].removed
  BY <1>1 DEF Frame
<1>3. frame' = [frame EXCEPT ![t] = r]
  BY <1>1 DEF Apply
<1>. HIDE DEF r
<1>. QED BY <1>1, <1>2, <1>3 DEF Others

LEMMA ApplyEventFacts ==
  ASSUME TypeOK, NEW t \in Chan, Apply(t), ~ frame[t].broadcasting
  PROVE  /\ frame' \in [Chan -> Frame] /\ Others(t)
         /\ frame'[t].pc = "load" /\ NoLocals(t)
<1>1. frame \in [Chan -> Frame]
  BY FrameFacts
<1>2. PICK r : r = Reset("load")
  OBVIOUS
<1>3. /\ r \in Frame /\ r.pc = "load" /\ ~ r.broadcasting /\ r.ids = {}
      /\ r.current = {} /\ r.added = {} /\ r.removed = {}
  <2>1. "load" \in Pc
    BY DEF Pc
  <2>. QED BY <1>2, <2>1, ResetFacts
<1>4. frame' = [frame EXCEPT ![t] = r]
  BY <1>2 DEF Apply
<1>. QED BY <1>1, <1>3, <1>4 DEF Others, NoLocals

LEMMA LoadFacts ==
  ASSUME TypeOK, NEW t \in Chan, LoadSequence(t)
  PROVE  /\ frame' \in [Chan -> Frame] /\ Others(t)
         /\ frame'[t].pc = "store"
         /\ frame'[t].broadcasting = frame[t].broadcasting
         /\ frame'[t].sequence = mStateSequence
         /\ frame'[t].ids = frame[t].ids
         /\ frame'[t].current = frame[t].current
         /\ frame'[t].added = frame[t].added
         /\ frame'[t].removed = frame[t].removed
<1>. DEFINE r == [frame[t] EXCEPT !.sequence = mStateSequence, !.pc = "store"]
<1>1. /\ frame \in [Chan -> Frame] /\ frame[t] \in Frame
      /\ frame[t].current \in SUBSET Peers /\ Wanted(t) \in SUBSET Peers
      /\ neighbors \in SUBSET Peers /\ edges \in SUBSET Peers
      /\ mStateSequence \in Nat
  BY FrameFacts
<1>2. /\ r \in Frame
      /\ r.pc = "store"
      /\ r.broadcasting = frame[t].broadcasting
      /\ r.sequence = mStateSequence
      /\ r.ids = frame[t].ids
      /\ r.current = frame[t].current
      /\ r.added = frame[t].added
      /\ r.removed = frame[t].removed
  BY <1>1 DEF Frame
<1>3. frame' = [frame EXCEPT ![t] = r]
  BY <1>1 DEF LoadSequence
<1>. HIDE DEF r
<1>. QED BY <1>1, <1>2, <1>3 DEF Others

LEMMA MakeFacts ==
  ASSUME TypeOK, NEW t \in Chan, MakeState(t)
  PROVE  /\ frame' \in [Chan -> Frame] /\ Others(t)
         /\ frame'[t].pc = "test"
         /\ frame'[t].broadcasting
         /\ frame'[t].sequence = frame[t].sequence
         /\ frame'[t].ids = neighbors
         /\ frame'[t].current = frame[t].current
         /\ frame'[t].added = frame[t].added
         /\ frame'[t].removed = frame[t].removed
<1>. DEFINE r == [frame[t] EXCEPT !.ids = neighbors, !.broadcasting = TRUE, !.pc = "test"]
<1>1. /\ frame \in [Chan -> Frame] /\ frame[t] \in Frame
      /\ frame[t].current \in SUBSET Peers /\ Wanted(t) \in SUBSET Peers
      /\ neighbors \in SUBSET Peers /\ edges \in SUBSET Peers
      /\ mStateSequence \in Nat
  BY FrameFacts
<1>2. /\ r \in Frame
      /\ r.pc = "test"
      /\ r.broadcasting
      /\ r.sequence = frame[t].sequence
      /\ r.ids = neighbors
      /\ r.current = frame[t].current
      /\ r.added = frame[t].added
      /\ r.removed = frame[t].removed
  BY <1>1 DEF Frame
<1>3. frame' = [frame EXCEPT ![t] = r]
  BY <1>1 DEF MakeState
<1>. HIDE DEF r
<1>. QED BY <1>1, <1>2, <1>3 DEF Others

(* How a step changes the frame of its thread: only pc, all but pc, or the *)
(* fields that the facts above name.                                       *)
Moves(t) ==
    /\ \/ ReceiveHello(t) /\ frame'[t].pc = "add"
       \/ AddNeighbor(t) /\ frame'[t].pc = "read" /\ t \in mChannels
          /\ Peer[t] \notin neighbors
          /\ mNeighbors' = [mNeighbors EXCEPT ![Peer[t]] = t]
       \/ (\E id \in Stranger : Insert(t, id)) /\ frame'[t].pc = "load"
       \/ Unlock(t) /\ frame'[t].pc = "idle"
       \/ /\ Removed(t) /\ frame'[t].pc = "send" /\ frame[t].broadcasting
          /\ frame[t].added = {} /\ frame[t].current \ Wanted(t) = {}
       \/ StoreSequence(t) /\ frame'[t].pc = "own"
       \/ Test(t) /\ frame'[t].pc = IF frame[t].sequence > state.sequence
                                    THEN "assign" ELSE "send"
       \/ Assign(t) /\ frame'[t].pc = "current"
    /\ SameLocals(t)

Resets(t) ==
    /\ \/ AddNeighbor(t) /\ frame'[t].pc \in {"idle", "unlock"}
          /\ UNCHANGED mNeighbors
       \/ /\ Removed(t) /\ frame'[t].pc \in {"idle", "unlock"}
          /\ ~ frame[t].broadcasting
          /\ frame[t].added = {} /\ frame[t].current \ Wanted(t) = {}
       \/ Apply(t) /\ frame'[t].pc = "load" /\ ~ frame[t].broadcasting
       \/ SendState(t) /\ frame'[t].pc \in {"idle", "unlock"}
    /\ NoLocals(t)

FrameStep(t) ==
    \/ Moves(t) \/ Resets(t)
    \/ ReadNeighbors(t) \/ MakeState(t)
    \/ Current(t) \/ Added(t) \/ Erase(t) \/ LoadSequence(t)
    \/ Removed(t) /\ (frame[t].added # {} \/ frame[t].current \ Wanted(t) # {})
    \/ Apply(t) /\ frame[t].broadcasting

LEMMA WorkFacts ==
  ASSUME TypeOK, NEW t \in Chan, Work(t)
  PROVE  frame' \in [Chan -> Frame] /\ Others(t) /\ FrameStep(t)
<1>1. /\ \A pc \in {"idle", "add", "read", "load", "store", "own", "test", "assign",
                    "current", "send"} : pc \in Pc
      /\ frame[t].broadcasting \in BOOLEAN
  BY FrameFacts DEF Pc
<1>2. CASE ReceiveHello(t)
  BY <1>1, <1>2, GotoFacts DEF ReceiveHello, FrameStep, Moves
<1>3. CASE AddNeighbor(t)
  <2>1. CASE t \in mChannels /\ Peer[t] \notin neighbors
    <3>1. Goto(t, "read") /\ mNeighbors' = [mNeighbors EXCEPT ![Peer[t]] = t]
      BY <1>3, <2>1 DEF AddNeighbor
    <3>. QED BY <1>1, <1>3, <2>1, <3>1, GotoFacts DEF FrameStep, Moves, Resets
  <2>2. CASE ~ (t \in mChannels /\ Peer[t] \notin neighbors)
    <3>1. Return(t) /\ UNCHANGED mNeighbors
      BY <1>3, <2>2 DEF AddNeighbor
    <3>. QED BY <1>3, <3>1, ReturnFacts DEF FrameStep, Moves, Resets
  <2>. QED BY <2>1, <2>2
<1>4. CASE \E id \in Stranger : Insert(t, id)
  <2>1. Goto(t, "load")
    BY <1>4 DEF Insert
  <2>. QED BY <1>1, <1>4, <2>1, GotoFacts DEF FrameStep, Moves, Resets
<1>5. CASE ReadNeighbors(t)
  BY <1>5, ReadFacts DEF FrameStep, Moves, Resets
<1>6. CASE Unlock(t)
  <2>1. Goto(t, "idle")
    BY <1>6 DEF Unlock
  <2>. QED BY <1>1, <1>6, <2>1, GotoFacts DEF FrameStep, Moves, Resets
<1>7. CASE Current(t)
  BY <1>7, CurrentFacts DEF FrameStep, Moves, Resets
<1>8. CASE Added(t)
  BY <1>8, AddedFacts DEF FrameStep, Moves, Resets
<1>9. CASE Removed(t)
  <2>1. CASE frame[t].added # {} \/ frame[t].current \ Wanted(t) # {}
    BY <1>9, <2>1, RemovedFacts DEF FrameStep, Moves, Resets
  <2>2. CASE frame[t].added = {} /\ frame[t].current \ Wanted(t) = {}
    <3>1. CASE frame[t].broadcasting
      <4>1. Goto(t, "send")
        BY <1>9, <2>2, <3>1 DEF Removed
      <4>. QED BY <1>1, <1>9, <2>2, <3>1, <4>1, GotoFacts DEF FrameStep, Moves, Resets
    <3>2. CASE ~ frame[t].broadcasting
      <4>1. Return(t)
        BY <1>9, <2>2, <3>2 DEF Removed
      <4>. QED BY <1>9, <2>2, <3>2, <4>1, ReturnFacts DEF FrameStep, Moves, Resets
    <3>. QED BY <1>1, <3>1, <3>2
  <2>. QED BY <2>1, <2>2
<1>10. CASE Erase(t)
  BY <1>10, EraseFacts DEF FrameStep, Moves, Resets
<1>11. CASE Apply(t)
  <2>1. CASE frame[t].broadcasting
    BY <1>11, <2>1, ApplyBroadcastingFacts DEF FrameStep, Moves, Resets
  <2>2. CASE ~ frame[t].broadcasting
    BY <1>11, <2>2, ApplyEventFacts DEF FrameStep, Moves, Resets
  <2>. QED BY <1>1, <2>1, <2>2
<1>12. CASE LoadSequence(t)
  BY <1>12, LoadFacts DEF FrameStep, Moves, Resets
<1>13. CASE StoreSequence(t)
  <2>1. Goto(t, "own")
    BY <1>13 DEF StoreSequence
  <2>. QED BY <1>1, <1>13, <2>1, GotoFacts DEF FrameStep, Moves, Resets
<1>14. CASE MakeState(t)
  BY <1>14, MakeFacts DEF FrameStep, Moves, Resets
<1>15. CASE Test(t)
  <2>1. Goto(t, IF frame[t].sequence > state.sequence THEN "assign" ELSE "send")
    BY <1>15 DEF Test
  <2>. QED BY <1>1, <1>15, <2>1, GotoFacts DEF FrameStep, Moves, Resets
<1>16. CASE Assign(t)
  <2>1. Goto(t, "current")
    BY <1>16 DEF Assign
  <2>. QED BY <1>1, <1>16, <2>1, GotoFacts DEF FrameStep, Moves, Resets
<1>17. CASE SendState(t)
  <2>1. Return(t)
    BY <1>17 DEF SendState
  <2>. QED BY <1>17, <2>1, ReturnFacts DEF FrameStep, Moves, Resets
<1>. QED
  BY <1>2, <1>3, <1>4, <1>5, <1>6, <1>7, <1>8, <1>9, <1>10, <1>11, <1>12, <1>13, <1>14,
     <1>15, <1>16, <1>17
  DEF Work

LEMMA WorkTypeOK ==
  ASSUME TypeOK, NEW t \in Chan, Work(t)
  PROVE  /\ mChannels' = mChannels /\ mNeighbors' \in [Peers -> Chan \cup {NoChan}]
         /\ unknown' \in SUBSET Stranger
         /\ mMutex' \in Chan \cup {NoChan} /\ mStateSequence' \in Nat
         /\ state' \in LocalState /\ edges' \in SUBSET Peers
         /\ sent' \in SUBSET LocalState
<1>1. /\ mNeighbors \in [Peers -> Chan \cup {NoChan}] /\ unknown \in SUBSET Stranger
      /\ mMutex \in Chan \cup {NoChan} /\ mStateSequence \in Nat
      /\ state \in LocalState /\ edges \in SUBSET Peers /\ sent \in SUBSET LocalState
      /\ frame[t].sequence \in Nat /\ frame[t].ids \in SUBSET Peers
      /\ frame[t].added \in SUBSET Peers
  BY FrameFacts DEF TypeOK
<1>2. Made(t) \in LocalState /\ frame[t].sequence + 1 \in Nat
  BY <1>1 DEF Made, LocalState
<1>3. mNeighbors' \in [Peers -> Chan \cup {NoChan}]
  <2>1. CASE AddNeighbor(t)
    BY <1>1, <2>1 DEF AddNeighbor
  <2>2. CASE ~ AddNeighbor(t)
    BY <1>1, <2>2
    DEF Work, routing, ReceiveHello, ReadNeighbors, Insert, Unlock, Current, Added,
        Removed, Erase, Apply, LoadSequence, StoreSequence, MakeState, Test, Assign,
        SendState
  <2>. QED BY <2>1, <2>2
<1>4. /\ mChannels' = mChannels /\ unknown' \in SUBSET Stranger
      /\ mMutex' \in Chan \cup {NoChan} /\ mStateSequence' \in Nat
  BY <1>1, <1>2
  DEF Work, routing, ReceiveHello, AddNeighbor, ReadNeighbors, Insert, Unlock, Current,
      Added, Removed, Erase, Apply, LoadSequence, StoreSequence, MakeState, Test, Assign,
      SendState
<1>5. state' \in LocalState /\ edges' \in SUBSET Peers /\ sent' \in SUBSET LocalState
  BY <1>1, <1>2
  DEF Work, routing, ReceiveHello, AddNeighbor, ReadNeighbors, Insert, Unlock, Current,
      Added, Removed, Erase, Apply, LoadSequence, StoreSequence, MakeState, Test, Assign,
      SendState
<1>. QED BY <1>3, <1>4, <1>5

LEMMA RemoveFacts ==
  ASSUME TypeOK, NEW c \in Chan, RemoveChannel(c)
  PROVE  /\ mChannels' \in SUBSET Chan /\ mNeighbors' \in [Peers -> Chan \cup {NoChan}]
         /\ c \notin mChannels' /\ mChannels' = mChannels \ {c}
         /\ \A id \in Peers : mNeighbors'[id] = IF mNeighbors[id] = c THEN NoChan
                                                ELSE mNeighbors[id]
         /\ neighbors' \subseteq neighbors
<1>1. mChannels \in SUBSET Chan /\ mNeighbors \in [Peers -> Chan \cup {NoChan}]
  BY DEF TypeOK
<1>2. \A id \in Peers : mNeighbors'[id] = IF mNeighbors[id] = c THEN NoChan
                                          ELSE mNeighbors[id]
  BY DEF RemoveChannel
<1>3. mChannels' = mChannels \ {c}
  BY DEF RemoveChannel
<1>4. mNeighbors' \in [Peers -> Chan \cup {NoChan}]
  BY <1>1 DEF RemoveChannel
<1>5. neighbors' \subseteq neighbors
  BY <1>2 DEF neighbors
<1>. QED BY <1>1, <1>2, <1>3, <1>4, <1>5

LEMMA InitTypeOK == Init => TypeOK
<1>. SUFFICES ASSUME Init PROVE TypeOK
  OBVIOUS
<1>1. Reset("idle") \in Frame
  BY DEF Frame, Reset
<1>2. state \in LocalState /\ sent \in SUBSET LocalState
  BY DEF Init, LocalState
<1>. QED BY <1>1, <1>2 DEF Init, TypeOK

LEMMA NextTypeOK == TypeOK /\ [Next]_vars => TypeOK'
<1>. SUFFICES ASSUME TypeOK, [Next]_vars PROVE TypeOK'
  OBVIOUS
<1>1. ASSUME NEW t \in Chan, Work(t), overlapped' = (overlapped \/ Overlap')
      PROVE  TypeOK'
  <2>1. frame' \in [Chan -> Frame]
    BY <1>1, WorkFacts
  <2>2. overlapped' \in BOOLEAN
    BY <1>1
  <2>3. mChannels' \in SUBSET Chan
    BY <1>1, WorkTypeOK DEF TypeOK
  <2>. QED BY <1>1, <2>1, <2>2, <2>3, WorkTypeOK DEF TypeOK
<1>2. ASSUME NEW c \in Chan, RemoveChannel(c), UNCHANGED overlapped
      PROVE  TypeOK'
  <2>1. /\ mChannels' \in SUBSET Chan /\ mNeighbors' \in [Peers -> Chan \cup {NoChan}]
    BY <1>2, RemoveFacts
  <2>2. UNCHANGED <<unknown, mMutex, mStateSequence, state, edges, sent, frame>>
    BY <1>2 DEF RemoveChannel
  <2>. QED BY <1>2, <2>1, <2>2 DEF TypeOK
<1>3. CASE UNCHANGED vars
  BY <1>3 DEF vars, TypeOK
<1>. QED BY <1>1, <1>2, <1>3 DEF Next, Done

(* Channels, neighbours, the local state, the edges and the frames of the  *)
(* threads in Graph keep their types.                                      *)
THEOREM GraphThreadsTypeOK == Spec => []TypeOK
BY InitTypeOK, NextTypeOK, PTL DEF Spec

-----------------------------------------------------------------------------
(* Neighbours and channels.                                                *)

NewNeighbor(t) ==
    /\ AddNeighbor(t) /\ t \in mChannels /\ Peer[t] \in Peers \ neighbors
    /\ mNeighbors' = [mNeighbors EXCEPT ![Peer[t]] = t]
    /\ neighbors' = neighbors \cup {Peer[t]}

LEMMA WorkNeighbors ==
  ASSUME TypeOK, NEW t \in Chan, Work(t)
  PROVE  \/ UNCHANGED mNeighbors /\ neighbors' = neighbors
         \/ NewNeighbor(t)
<1>1. /\ mNeighbors \in [Peers -> Chan \cup {NoChan}] /\ Peer[t] \in Peers /\ t # NoChan
  BY ThreadAssumption DEF TypeOK
<1>2. UNCHANGED mNeighbors => neighbors' = neighbors
  BY DEF neighbors
<1>3. CASE AddNeighbor(t) /\ t \in mChannels /\ Peer[t] \notin neighbors
  <2>1. mNeighbors' = [mNeighbors EXCEPT ![Peer[t]] = t]
    BY <1>3 DEF AddNeighbor
  <2>2. \A id \in Peers : mNeighbors'[id] = IF id = Peer[t] THEN t ELSE mNeighbors[id]
    BY <1>1, <2>1
  <2>3. neighbors' = neighbors \cup {Peer[t]}
    BY <1>1, <2>2 DEF neighbors
  <2>. QED BY <1>1, <1>3, <2>1, <2>3 DEF NewNeighbor
<1>4. CASE AddNeighbor(t) /\ ~ (t \in mChannels /\ Peer[t] \notin neighbors)
  BY <1>2, <1>4 DEF AddNeighbor
<1>5. CASE ~ AddNeighbor(t)
  BY <1>2, <1>5
  DEF Work, routing, ReceiveHello, ReadNeighbors, Insert, Unlock, Current, Added,
      Removed, Erase, Apply, LoadSequence, StoreSequence, MakeState, Test, Assign,
      SendState
<1>. QED BY <1>3, <1>4, <1>5

LEMMA InitNeighbors == Init => NeighborsUseChannels
BY DEF Init, NeighborsUseChannels, neighbors

LEMMA WorkUsesChannels ==
  ASSUME TypeOK, NeighborsUseChannels, NEW t \in Chan, Work(t)
  PROVE  NeighborsUseChannels'
<1>1. mChannels' = mChannels
  BY WorkTypeOK
<1>2. CASE UNCHANGED mNeighbors /\ neighbors' = neighbors
  BY <1>1, <1>2 DEF NeighborsUseChannels
<1>3. CASE NewNeighbor(t)
  <2>1. mNeighbors \in [Peers -> Chan \cup {NoChan}] /\ neighbors \in SUBSET Peers
    BY DEF TypeOK, neighbors
  <2>. SUFFICES ASSUME NEW id \in neighbors'
                PROVE  mNeighbors'[id] \in mChannels /\ Peer[mNeighbors'[id]] = id
    BY <1>1 DEF NeighborsUseChannels
  <2>2. CASE id = Peer[t]
    BY <1>3, <2>1, <2>2 DEF NewNeighbor
  <2>3. CASE id # Peer[t]
    <3>1. id \in neighbors /\ mNeighbors'[id] = mNeighbors[id]
      BY <1>3, <2>1, <2>3 DEF NewNeighbor
    <3>. QED BY <3>1 DEF NeighborsUseChannels
  <2>. QED BY <2>2, <2>3
<1>. QED BY <1>2, <1>3, WorkNeighbors

LEMMA RemoveUsesChannels ==
  ASSUME TypeOK, NeighborsUseChannels, NEW c \in Chan, RemoveChannel(c)
  PROVE  NeighborsUseChannels'
<1>. SUFFICES ASSUME NEW id \in neighbors'
              PROVE  mNeighbors'[id] \in mChannels' /\ Peer[mNeighbors'[id]] = id
  BY DEF NeighborsUseChannels
<1>1. id \in Peers /\ mNeighbors'[id] # NoChan
  BY DEF neighbors
<1>2. mNeighbors'[id] = mNeighbors[id] /\ mNeighbors[id] # c /\ id \in neighbors
  BY <1>1, RemoveFacts DEF neighbors
<1>. QED BY <1>2, RemoveFacts DEF NeighborsUseChannels

LEMMA NextUsesChannels ==
  TypeOK /\ NeighborsUseChannels /\ [Next]_vars => NeighborsUseChannels'
<1>. SUFFICES ASSUME TypeOK, NeighborsUseChannels, [Next]_vars
              PROVE  NeighborsUseChannels'
  OBVIOUS
<1>1. CASE UNCHANGED vars
  BY <1>1 DEF vars, NeighborsUseChannels, neighbors
<1>. QED BY <1>1, WorkUsesChannels, RemoveUsesChannels DEF Next, Done

(* Whenever channels are removed, and whichever threads add neighbours in  *)
(* between, a neighbour is reached through a channel of the node that      *)
(* leads to it: addNeighbor tests the channel again under its lock.        *)
THEOREM GraphThreadsNeighborsUseChannels == Spec => []NeighborsUseChannels
BY InitTypeOK, NextTypeOK, InitNeighbors, NextUsesChannels, PTL DEF Spec

-----------------------------------------------------------------------------
(* No neighbour whose channels stay is left out of all broadcasts.         *)

FramesBroadcast == \A t \in Chan :
    frame[t].pc \in {"test", "assign", "send"} => frame[t].broadcasting

(* Who knows of a node: the stored state, the edges, a thread.             *)
Known(id) ==
    \/ id \in edges \/ id \in state.neighbors
    \/ \E t \in Chan : id \in frame[t].ids \cup frame[t].current \cup frame[t].added

KnownInv == \A id \in Peers : Steady(id) /\ Known(id) => id \in neighbors

(* t goes on to broadcast a state with the neighbour id.                   *)
WillBroadcast(t, id) ==
    \/ frame[t].pc \in {"load", "store", "own"}
    \/ frame[t].pc \in {"erase", "apply"} /\ ~ frame[t].broadcasting
    \/ frame[t].pc = "removed" /\ ~ frame[t].broadcasting /\ id \in frame[t].added
    \/ /\ frame[t].pc \in {"test", "assign", "current", "added", "removed", "erase",
                           "apply", "send"}
       /\ frame[t].broadcasting /\ id \in frame[t].ids

IsBroadcast(id) == \E s \in sent : id \in s.neighbors
Promised(id) == IsBroadcast(id) \/ \E t \in Chan : WillBroadcast(t, id)

(* t takes id for an edge, or makes it one, without broadcasting it.       *)
Passes(t, id) ==
    \/ id \in frame[t].current
    \/ /\ frame[t].pc \in {"removed", "erase", "apply"} /\ frame[t].broadcasting
       /\ id \in frame[t].added

(* t goes on to compare a set with id to the edges, in an event.           *)
WillCompare(t, id) ==
    \/ frame[t].pc = "read"
    \/ /\ frame[t].pc \in {"current", "added"} /\ ~ frame[t].broadcasting
       /\ id \in frame[t].ids

Reached(id) == id \in edges \/ id \in state.neighbors \/ \E t \in Chan : Passes(t, id)

DueInv == \A id \in neighbors : Steady(id) =>
    /\ Reached(id) => Promised(id)
    /\ Promised(id) \/ \E t \in Chan : WillCompare(t, id)

BroadcastInv ==
    TypeOK /\ NeighborsUseChannels /\ FramesBroadcast /\ KnownInv /\ DueInv

LEMMA WorkSent ==
  ASSUME NEW t \in Chan, Work(t)
  PROVE  sent \subseteq sent'
BY DEF Work, routing, ReceiveHello, AddNeighbor, ReadNeighbors, Insert, Unlock, Current,
       Added, Removed, Erase, Apply, LoadSequence, StoreSequence, MakeState, Test, Assign,
       SendState

LEMMA WorkBroadcasts ==
  ASSUME TypeOK, FramesBroadcast, NEW t \in Chan, Work(t)
  PROVE  FramesBroadcast'
<1>. SUFFICES ASSUME NEW u \in Chan, frame'[u].pc \in {"test", "assign", "send"}
              PROVE  frame'[u].broadcasting
  BY DEF FramesBroadcast
<1>1. CASE u # t
  BY <1>1, WorkFacts DEF Others, FramesBroadcast
<1>2. CASE u = t
  <2>1. CASE Moves(t)
    BY <1>2, <2>1 DEF Moves, SameLocals, FramesBroadcast, Test, At
  <2>2. CASE Resets(t)
    BY <1>2, <2>2 DEF Resets
  <2>3. CASE MakeState(t) \/ (Apply(t) /\ frame[t].broadcasting)
    BY <1>2, <2>3, MakeFacts, ApplyBroadcastingFacts
  <2>4. CASE ReadNeighbors(t) \/ Current(t) \/ Added(t)
    BY <1>2, <2>4, ReadFacts, CurrentFacts, AddedFacts
  <2>5. CASE Erase(t) \/ LoadSequence(t)
    BY <1>2, <2>5, EraseFacts, LoadFacts
  <2>6. CASE Removed(t) /\ (frame[t].added # {} \/ frame[t].current \ Wanted(t) # {})
    BY <1>2, <2>6, RemovedFacts
  <2>. QED BY <2>1, <2>2, <2>3, <2>4, <2>5, <2>6, WorkFacts DEF FrameStep
<1>. QED BY <1>1, <1>2

(* A thread learns of a node from the neighbours, the edges and the state. *)
LEMMA WorkKnown ==
  ASSUME TypeOK, NEW t \in Chan, Work(t), NEW id \in Peers, Known(id)'
  PROVE  Known(id) \/ id \in neighbors
<1>1. CASE \E u \in Chan \ {t} : id \in frame'[u].ids \cup frame'[u].current
                                         \cup frame'[u].added
  BY <1>1, WorkFacts DEF Others, Known
<1>2. CASE id \in frame'[t].ids \cup frame'[t].current \cup frame'[t].added
  <2>1. CASE Moves(t)
    BY <1>2, <2>1 DEF Moves, SameLocals, Known
  <2>2. CASE Resets(t)
    BY <1>2, <2>2 DEF Resets, NoLocals
  <2>3. CASE ReadNeighbors(t) \/ MakeState(t)
    BY <1>2, <2>3, ReadFacts, MakeFacts DEF Known
  <2>4. CASE Added(t)
    BY <1>2, <2>4, AddedFacts DEF Known, Wanted
  <2>5. CASE Current(t) \/ Erase(t) \/ LoadSequence(t)
    BY <1>2, <2>5, CurrentFacts, EraseFacts, LoadFacts DEF Known
  <2>6. CASE Removed(t) /\ (frame[t].added # {} \/ frame[t].current \ Wanted(t) # {})
    BY <1>2, <2>6, RemovedFacts DEF Known
  <2>7. CASE Apply(t) /\ frame[t].broadcasting
    BY <1>2, <2>7, ApplyBroadcastingFacts DEF Known
  <2>. QED BY <2>1, <2>2, <2>3, <2>4, <2>5, <2>6, <2>7, WorkFacts DEF FrameStep
<1>3. CASE id \in edges' \/ id \in state'.neighbors
  <2>1. CASE Assign(t)
    BY <1>3, <2>1 DEF Assign, Made, Known
  <2>2. CASE Apply(t) \/ Erase(t)
    BY <1>3, <2>2 DEF Apply, Erase, Known
  <2>3. UNCHANGED <<edges, state>> \/ Assign(t) \/ Apply(t) \/ Erase(t)
    BY DEF Work, routing, ReceiveHello, AddNeighbor, ReadNeighbors, Insert, Unlock,
           Current, Added, Removed, LoadSequence, StoreSequence, MakeState, Test,
           SendState
  <2>. QED BY <1>3, <2>1, <2>2, <2>3 DEF Known
<1>. QED BY <1>1, <1>2, <1>3 DEF Known

(* The thread that was to broadcast a neighbour still is, or has done it.  *)
LEMMA WorkWillBroadcast ==
  ASSUME TypeOK, FramesBroadcast, NEW t \in Chan, Work(t), NEW id \in neighbors,
         WillBroadcast(t, id)
  PROVE  WillBroadcast(t, id)' \/ IsBroadcast(id)'
<1>1. CASE SendState(t)
  <2>1. id \in Made(t).neighbors /\ Made(t) \in sent'
    BY <1>1 DEF SendState, At, WillBroadcast, Made
  <2>. QED BY <2>1 DEF IsBroadcast
<1>2. CASE Moves(t)
  BY <1>2
  DEF Moves, SameLocals, WillBroadcast, ReceiveHello, AddNeighbor, Insert, Unlock, Removed,
      StoreSequence, Test, Assign, At, FramesBroadcast
<1>3. CASE Resets(t) /\ ~ SendState(t)
  BY <1>3 DEF Resets, WillBroadcast, AddNeighbor, Removed, Apply, At
<1>4. CASE ReadNeighbors(t)
  BY <1>4 DEF ReadNeighbors, At, WillBroadcast
<1>5. CASE MakeState(t)
  BY <1>5, MakeFacts DEF WillBroadcast
<1>6. CASE Current(t) \/ Added(t)
  BY <1>6, CurrentFacts, AddedFacts DEF Current, Added, At, WillBroadcast
<1>7. CASE Erase(t) \/ LoadSequence(t)
  BY <1>7, EraseFacts, LoadFacts DEF Erase, LoadSequence, At, WillBroadcast
<1>8. CASE Removed(t) /\ (frame[t].added # {} \/ frame[t].current \ Wanted(t) # {})
  BY <1>8, RemovedFacts, FrameFacts DEF Removed, At, WillBroadcast
<1>9. CASE Apply(t) /\ frame[t].broadcasting
  <2>1. /\ frame'[t].pc = "send" /\ frame'[t].broadcasting
        /\ frame'[t].ids = frame[t].ids
    BY <1>9, ApplyBroadcastingFacts
  <2>2. At(t, "apply")
    BY <1>9 DEF Apply
  <2>. QED BY <1>9, <2>1, <2>2 DEF At, WillBroadcast
<1>. QED
  BY <1>1, <1>2, <1>3, <1>4, <1>5, <1>6, <1>7, <1>8, <1>9, WorkFacts DEF FrameStep

LEMMA WorkPromised ==
  ASSUME TypeOK, FramesBroadcast, NEW t \in Chan, Work(t), NEW id \in neighbors,
         Promised(id)
  PROVE  Promised(id)'
<1>1. CASE IsBroadcast(id)
  BY <1>1, WorkSent DEF IsBroadcast, Promised
<1>2. CASE \E u \in Chan \ {t} : WillBroadcast(u, id)
  BY <1>2, WorkFacts DEF Others, WillBroadcast, Promised
<1>3. CASE WillBroadcast(t, id)
  BY <1>3, WorkWillBroadcast DEF Promised
<1>. QED BY <1>1, <1>2, <1>3 DEF Promised

(* What the edges, the state and the frames get is promised already.       *)
LEMMA WorkReached ==
  ASSUME TypeOK, FramesBroadcast, NEW t \in Chan, Work(t), NEW id \in Peers,
         Reached(id)'
  PROVE  Reached(id) \/ Promised(id)
<1>1. CASE \E u \in Chan \ {t} : Passes(u, id)'
  BY <1>1, WorkFacts DEF Others, Passes, Reached
<1>2. CASE Passes(t, id)'
  <2>1. CASE Moves(t)
    BY <1>2, <2>1 DEF Moves, SameLocals, Passes, Reached
  <2>2. CASE Resets(t)
    BY <1>2, <2>2 DEF Resets, NoLocals, Passes
  <2>3. CASE ReadNeighbors(t) \/ MakeState(t)
    BY <1>2, <2>3, ReadFacts, MakeFacts DEF Passes, Reached
  <2>4. CASE Added(t)
    BY <1>2, <2>4, AddedFacts DEF Passes, Reached, Wanted
  <2>5. CASE Current(t) \/ Erase(t) \/ LoadSequence(t)
    BY <1>2, <2>5, CurrentFacts, EraseFacts, LoadFacts
    DEF Passes, Reached, Erase, At
  <2>6. CASE Removed(t) /\ (frame[t].added # {} \/ frame[t].current \ Wanted(t) # {})
    BY <1>2, <2>6, RemovedFacts DEF Passes, Reached, Removed, At
  <2>7. CASE Apply(t) /\ frame[t].broadcasting
    BY <1>2, <2>7, ApplyBroadcastingFacts DEF Passes, Reached
  <2>. QED BY <2>1, <2>2, <2>3, <2>4, <2>5, <2>6, <2>7, WorkFacts DEF FrameStep
<1>3. CASE id \in edges' \/ id \in state'.neighbors
  <2>1. CASE Assign(t)
    BY <1>3, <2>1
    DEF Assign, At, Made, Reached, Promised, WillBroadcast, FramesBroadcast
  <2>2. CASE Erase(t)
    BY <1>3, <2>2 DEF Erase, Reached
  <2>3. CASE Apply(t)
    <3>1. frame[t].broadcasting \in BOOLEAN
      BY FrameFacts
    <3>2. At(t, "apply") /\ edges' = edges \cup frame[t].added /\ state' = state
      BY <2>3 DEF Apply
    <3>3. CASE id \in edges \/ id \in state.neighbors
      BY <3>3 DEF Reached
    <3>4. CASE id \in frame[t].added
      BY <3>1, <3>2, <3>4 DEF At, Reached, Passes, Promised, WillBroadcast
    <3>. QED BY <1>3, <3>2, <3>3, <3>4
  <2>4. UNCHANGED <<edges, state>> \/ Assign(t) \/ Apply(t) \/ Erase(t)
    BY DEF Work, routing, ReceiveHello, AddNeighbor, ReadNeighbors, Insert, Unlock,
           Current, Added, Removed, LoadSequence, StoreSequence, MakeState, Test,
           SendState
  <2>. QED BY <1>3, <2>1, <2>2, <2>3, <2>4 DEF Reached
<1>. QED BY <1>1, <1>2, <1>3 DEF Reached

(* A thread that compares finds the neighbour in the edges, or adds it.    *)
LEMMA WorkWillCompare ==
  ASSUME TypeOK, NEW t \in Chan, Work(t), NEW id \in neighbors, WillCompare(t, id)
  PROVE  WillCompare(t, id)' \/ WillBroadcast(t, id)' \/ Reached(id)
<1>1. CASE Moves(t) \/ Resets(t)
  BY <1>1
  DEF Moves, Resets, WillCompare, ReceiveHello, AddNeighbor, Insert, Unlock, Removed,
      StoreSequence, Test, Assign, Apply, SendState, At
<1>2. CASE ReadNeighbors(t)
  BY <1>2, ReadFacts DEF WillCompare
<1>3. CASE Current(t)
  BY <1>3, CurrentFacts DEF Current, At, WillCompare
<1>4. CASE Added(t)
  <2>1. /\ frame'[t].pc = "removed" /\ frame'[t].broadcasting = frame[t].broadcasting
        /\ frame'[t].added = Wanted(t) \ frame[t].current
    BY <1>4, AddedFacts
  <2>2. ~ frame[t].broadcasting /\ id \in frame[t].ids
    BY <1>4 DEF Added, At, WillCompare
  <2>3. id \in Wanted(t)
    BY <2>2 DEF Wanted
  <2>4. CASE id \in frame[t].current
    BY <2>4 DEF Reached, Passes
  <2>5. CASE id \notin frame[t].current
    BY <2>1, <2>2, <2>3, <2>5 DEF WillBroadcast
  <2>. QED BY <2>4, <2>5
<1>5. CASE \/ Erase(t) \/ LoadSequence(t) \/ MakeState(t) \/ Removed(t)
           \/ Apply(t)
  BY <1>5 DEF Erase, LoadSequence, MakeState, Removed, Apply, At, WillCompare
<1>. QED BY <1>1, <1>2, <1>3, <1>4, <1>5, WorkFacts DEF FrameStep

LEMMA WorkDue ==
  ASSUME BroadcastInv, NEW t \in Chan, Work(t)
  PROVE  DueInv'
<1>. SUFFICES ASSUME NEW id \in neighbors', Steady(id)'
              PROVE  /\ Reached(id)' => Promised(id)'
                     /\ Promised(id)' \/ \E u \in Chan : WillCompare(u, id)'
  BY DEF DueInv
<1>1. Steady(id) /\ id \in Peers
  BY WorkTypeOK DEF Steady, BroadcastInv, neighbors
<1>2. CASE id \in neighbors
  <2>1. Promised(id) => Promised(id)'
    BY <1>2, WorkPromised DEF BroadcastInv
  <2>2. Reached(id) => Promised(id)
    BY <1>1, <1>2 DEF BroadcastInv, DueInv
  <2>3. Reached(id)' => Promised(id)'
    BY <1>1, <2>1, <2>2, WorkReached DEF BroadcastInv
  <2>4. Promised(id) \/ \E u \in Chan : WillCompare(u, id)
    BY <1>1, <1>2 DEF BroadcastInv, DueInv
  <2>5. ASSUME NEW u \in Chan \ {t}, WillCompare(u, id)
        PROVE  WillCompare(u, id)'
    BY <2>5, WorkFacts DEF Others, WillCompare, BroadcastInv
  <2>6. CASE WillCompare(t, id)
    <3>1. WillCompare(t, id)' \/ WillBroadcast(t, id)' \/ Reached(id)
      BY <1>2, <2>6, WorkWillCompare DEF BroadcastInv
    <3>. QED BY <2>1, <2>2, <2>3, <3>1 DEF Promised
  <2>. QED BY <2>1, <2>3, <2>4, <2>5, <2>6
<1>3. CASE id \notin neighbors
  <2>1. NewNeighbor(t)
    BY <1>3, WorkNeighbors DEF BroadcastInv
  <2>2. ~ Known(id)
    BY <1>1, <1>3 DEF BroadcastInv, KnownInv
  <2>3. frame'[t].pc = "read" /\ SameLocals(t) /\ UNCHANGED <<edges, state>>
    <3>1. Goto(t, "read") /\ UNCHANGED <<edges, state>>
      BY <2>1 DEF NewNeighbor, AddNeighbor
    <3>. QED BY <3>1, GotoFacts DEF BroadcastInv, Pc
  <2>4. WillCompare(t, id)'
    BY <2>3 DEF WillCompare
  <2>5. ~ Known(id)'
    BY <2>2, <2>3, WorkFacts DEF Known, SameLocals, Others, BroadcastInv
  <2>6. ~ Reached(id)'
    BY <2>5 DEF Known, Reached, Passes
  <2>. QED BY <2>4, <2>6
<1>. QED BY <1>2, <1>3

LEMMA InitBroadcast == Init => BroadcastInv
<1>. SUFFICES ASSUME Init PROVE BroadcastInv
  OBVIOUS
<1>1. \A t \in Chan : frame[t].pc = "idle" /\ frame[t].ids = {} /\ frame[t].current = {}
                      /\ frame[t].added = {}
  BY DEF Init, Reset
<1>2. FramesBroadcast
  BY <1>1 DEF FramesBroadcast
<1>3. KnownInv
  BY <1>1 DEF Init, KnownInv, Known
<1>4. DueInv
  BY DEF Init, DueInv, neighbors
<1>. QED BY <1>2, <1>3, <1>4, InitTypeOK, InitNeighbors DEF BroadcastInv

LEMMA NextBroadcast == BroadcastInv /\ [Next]_vars => BroadcastInv'
<1>. SUFFICES ASSUME BroadcastInv, [Next]_vars PROVE BroadcastInv'
  OBVIOUS
<1>1. TypeOK' /\ NeighborsUseChannels'
  BY NextTypeOK, NextUsesChannels DEF BroadcastInv
<1>2. ASSUME NEW t \in Chan, Work(t)
      PROVE  FramesBroadcast' /\ KnownInv' /\ DueInv'
  <2>1. FramesBroadcast' /\ DueInv'
    BY <1>2, WorkBroadcasts, WorkDue DEF BroadcastInv
  <2>2. neighbors \subseteq neighbors' /\ mChannels' = mChannels
    BY <1>2, WorkNeighbors, WorkTypeOK DEF NewNeighbor, BroadcastInv
  <2>3. KnownInv'
    <3>. SUFFICES ASSUME NEW id \in Peers, Steady(id)', Known(id)'
                  PROVE  id \in neighbors'
      BY DEF KnownInv
    <3>1. Steady(id)
      BY <2>2 DEF Steady
    <3>2. Known(id) \/ id \in neighbors
      BY <1>2, WorkKnown DEF BroadcastInv
    <3>. QED BY <2>2, <3>1, <3>2 DEF KnownInv, BroadcastInv
  <2>. QED BY <2>1, <2>3
<1>3. ASSUME NEW c \in Chan, RemoveChannel(c)
      PROVE  FramesBroadcast' /\ KnownInv' /\ DueInv'
  <2>1. UNCHANGED <<state, edges, sent, frame>>
    BY <1>3 DEF RemoveChannel
  <2>2. \A id \in Peers : Steady(id)' => Steady(id)
    BY <1>3, RemoveFacts DEF Steady, BroadcastInv
  <2>3. neighbors' \subseteq neighbors /\ neighbors \subseteq Peers
    BY <1>3, RemoveFacts DEF neighbors, BroadcastInv
  <2>4. \A id \in neighbors : Steady(id)' => id \in neighbors'
    <3>. SUFFICES ASSUME NEW id \in neighbors, Steady(id)' PROVE id \in neighbors'
      OBVIOUS
    <3>1. Peer[mNeighbors[id]] = id /\ id \in Peers /\ mNeighbors[id] \in Chan
          /\ mNeighbors[id] # NoChan
      BY DEF BroadcastInv, NeighborsUseChannels, neighbors, TypeOK
    <3>2. mNeighbors[id] \in mChannels'
      BY <3>1 DEF Steady
    <3>3. mNeighbors'[id] = mNeighbors[id]
      BY <1>3, <3>1, <3>2, RemoveFacts DEF BroadcastInv
    <3>. QED BY <3>1, <3>3 DEF neighbors
  <2>5. FramesBroadcast'
    BY <2>1 DEF BroadcastInv, FramesBroadcast
  <2>6. KnownInv'
    BY <2>1, <2>2, <2>4 DEF BroadcastInv, KnownInv, Known
  <2>7. DueInv'
    <3>. SUFFICES ASSUME NEW id \in neighbors', Steady(id)'
                  PROVE  /\ Reached(id)' => Promised(id)'
                         /\ Promised(id)' \/ \E u \in Chan : WillCompare(u, id)'
      BY DEF DueInv
    <3>1. id \in neighbors /\ Steady(id)
      BY <2>2, <2>3
    <3>2. (Reached(id)' <=> Reached(id)) /\ (Promised(id)' <=> Promised(id))
      BY <2>1 DEF Reached, Passes, Promised, IsBroadcast, WillBroadcast
    <3>3. \A u \in Chan : WillCompare(u, id)' <=> WillCompare(u, id)
      BY <2>1 DEF WillCompare
    <3>. QED BY <3>1, <3>2, <3>3 DEF BroadcastInv, DueInv
  <2>. QED BY <2>5, <2>6, <2>7
<1>4. CASE UNCHANGED vars
  <2>1. UNCHANGED <<mChannels, mNeighbors, state, edges, sent, frame>>
    BY <1>4 DEF vars
  <2>2. FramesBroadcast' /\ KnownInv'
    BY <2>1 DEF BroadcastInv, FramesBroadcast, KnownInv, Known, Steady, neighbors
  <2>3. neighbors' = neighbors /\ \A id \in Peers : Steady(id)' <=> Steady(id)
    BY <2>1 DEF neighbors, Steady
  <2>4. \A id \in Peers : /\ (Reached(id)' <=> Reached(id))
                          /\ (Promised(id)' <=> Promised(id))
                          /\ \A u \in Chan : WillCompare(u, id)' <=> WillCompare(u, id)
    BY <2>1 DEF Reached, Passes, Promised, IsBroadcast, WillBroadcast, WillCompare
  <2>5. DueInv'
    BY <2>3, <2>4 DEF BroadcastInv, DueInv, neighbors
  <2>. QED BY <1>1, <2>2, <2>5 DEF BroadcastInv
<1>. QED BY <1>1, <1>2, <1>3, <1>4 DEF Next, Done, BroadcastInv

(* Whatever the threads do to each other's updates, and whichever channels *)
(* are removed, a neighbour whose own channels stay has been in a          *)
(* broadcast once the callbacks are done: whoever sees it in the edges and *)
(* so broadcasts nothing sees it there because of a thread that does.      *)
THEOREM GraphThreadsEveryNeighborIsBroadcast == Spec => []EveryNeighborIsBroadcast
<1>1. BroadcastInv => EveryNeighborIsBroadcast
  <2>. SUFFICES ASSUME BroadcastInv, AllIdle, NEW id \in neighbors, Steady(id)
                PROVE  IsBroadcast(id)
    BY DEF EveryNeighborIsBroadcast, IsBroadcast
  <2>1. \A t \in Chan : ~ WillBroadcast(t, id) /\ ~ WillCompare(t, id)
    BY DEF AllIdle, At, WillBroadcast, WillCompare
  <2>. QED BY <2>1 DEF BroadcastInv, DueInv, Promised
<1>. QED BY <1>1, InitBroadcast, NextBroadcast, PTL DEF Spec

-----------------------------------------------------------------------------
(* One callback at a time.                                                 *)

(* No two broadcasts share a number; the stored state is the last of them  *)
(* and the next number follows its.                                        *)
Unique == \A s, u \in sent : s.sequence = u.sequence => s = u

Published ==
    /\ state \in sent /\ mStateSequence = state.sequence + 1 /\ Unique
    /\ \A s \in sent : s.sequence <= state.sequence

Agreed == Published /\ edges = state.neighbors
UpToDate == Agreed /\ neighbors \subseteq state.neighbors

(* t has taken a number that no broadcast has used.                        *)
Taken(t) ==
    /\ mStateSequence = frame[t].sequence + 1 /\ Unique
    /\ \A s \in sent : s.sequence < frame[t].sequence

Stored(t) == Taken(t) /\ neighbors \subseteq frame[t].ids /\ state = Made(t)

(* What holds at each step of the only thread that is at work.             *)
Compares(t) ==
    /\ frame[t].pc \in {"added", "removed"} => frame[t].current = edges
    /\ frame[t].pc = "removed" => frame[t].added = Wanted(t) \ edges

HandlesEvent(t) ==
    /\ frame[t].pc \in {"idle", "add", "unlock"} => UpToDate
    /\ frame[t].pc = "read" => Agreed
    /\ frame[t].pc \in {"current", "added", "removed"} /\ ~ frame[t].broadcasting =>
           Agreed /\ neighbors \subseteq frame[t].ids
    /\ frame[t].pc \in {"erase", "apply"} /\ ~ frame[t].broadcasting => Published

Broadcasts(t) ==
    /\ frame[t].pc \in {"load", "store"} => Published
    /\ frame[t].pc = "store" => frame[t].sequence = mStateSequence
    /\ frame[t].pc \in {"own", "test", "assign"} =>
           Taken(t) /\ state.sequence < frame[t].sequence
    /\ frame[t].pc \in {"test", "assign"} => neighbors \subseteq frame[t].ids

Stores(t) ==
    frame[t].broadcasting =>
      /\ frame[t].pc \in {"current", "added", "removed", "erase", "apply", "send"} =>
             Stored(t)
      /\ frame[t].pc = "erase" => /\ frame[t].added = frame[t].ids \ edges
                                  /\ frame[t].removed = edges \ frame[t].ids
      /\ frame[t].pc = "apply" => edges \cup frame[t].added = frame[t].ids
      /\ frame[t].pc = "send" => edges = frame[t].ids

Proceeds(t) == Compares(t) /\ HandlesEvent(t) /\ Broadcasts(t) /\ Stores(t)
Alone(t) == \A u \in Chan \ {t} : At(u, "idle")

OneByOne ==
    ~ overlapped =>
      /\ ~ Overlap /\ (AllIdle => UpToDate)
      /\ \A t \in Chan : Alone(t) => Proceeds(t)

LEMMA SamePublished ==
  ASSUME UNCHANGED <<mStateSequence, state, sent>>
  PROVE  /\ Published' <=> Published
         /\ edges' = edges => (Agreed' <=> Agreed)
         /\ edges' = edges /\ neighbors' = neighbors => (UpToDate' <=> UpToDate)
         /\ \A t \in Chan : frame'[t].sequence = frame[t].sequence =>
                                (Taken(t)' <=> Taken(t))
         /\ \A t \in Chan :
               frame'[t].sequence = frame[t].sequence /\ frame'[t].ids = frame[t].ids
                 /\ neighbors' = neighbors => (Stored(t)' <=> Stored(t))
<1>1. (Published' <=> Published) /\ (Unique' <=> Unique)
  BY DEF Published, Unique
<1>2. /\ edges' = edges => (Agreed' <=> Agreed)
      /\ edges' = edges /\ neighbors' = neighbors => (UpToDate' <=> UpToDate)
  BY <1>1 DEF Agreed, UpToDate
<1>3. \A t \in Chan : frame'[t].sequence = frame[t].sequence => (Taken(t)' <=> Taken(t))
  BY <1>1 DEF Taken
<1>. QED BY <1>1, <1>2, <1>3 DEF Stored, Made

LEMMA SameRouting ==
  ASSUME UNCHANGED routing
  PROVE  neighbors' = neighbors
BY DEF routing, neighbors

(* A callback starts, adds a neighbour or ends.                            *)
LEMMA EventProceeds ==
  ASSUME BroadcastInv, NEW t \in Chan, Proceeds(t),
         \/ ReceiveHello(t) \/ AddNeighbor(t) \/ ReadNeighbors(t) \/ Unlock(t)
         \/ \E id \in Stranger : Insert(t, id)
  PROVE  Proceeds(t)'
<1>1. TypeOK
  BY DEF BroadcastInv
<1>2. UNCHANGED <<mStateSequence, state, edges, sent>>
  BY DEF ReceiveHello, AddNeighbor, ReadNeighbors, Unlock, Insert
<1>3. (Published' <=> Published) /\ (Agreed' <=> Agreed)
      /\ (neighbors' = neighbors => (UpToDate' <=> UpToDate))
  BY <1>2, SamePublished
<1>4. CASE ReceiveHello(t)
  <2>1. frame'[t].pc = "add"
    BY <1>1, <1>4, GotoFacts DEF ReceiveHello, Pc
  <2>2. neighbors' = neighbors /\ UpToDate
    BY <1>4, SameRouting DEF ReceiveHello, At, Proceeds, HandlesEvent
  <2>. QED BY <1>3, <2>1, <2>2 DEF Proceeds, Compares, HandlesEvent, Broadcasts, Stores
<1>5. CASE AddNeighbor(t)
  <2>1. UpToDate
    BY <1>5 DEF AddNeighbor, At, Proceeds, HandlesEvent
  <2>2. CASE t \in mChannels /\ Peer[t] \notin neighbors
    <3>1. Goto(t, "read")
      BY <1>5, <2>2 DEF AddNeighbor
    <3>2. frame'[t].pc = "read"
      BY <1>1, <3>1, GotoFacts DEF Pc
    <3>. QED BY <1>3, <2>1, <3>2
             DEF UpToDate, Proceeds, Compares, HandlesEvent, Broadcasts, Stores
  <2>3. CASE ~ (t \in mChannels /\ Peer[t] \notin neighbors)
    <3>1. Return(t) /\ mNeighbors' = mNeighbors
      BY <1>5, <2>3 DEF AddNeighbor
    <3>2. frame'[t].pc \in {"idle", "unlock"} /\ ~ frame'[t].broadcasting
      BY <1>1, <3>1, ReturnFacts DEF NoLocals
    <3>3. UpToDate'
      BY <1>3, <2>1, <3>1 DEF neighbors
    <3>. QED BY <3>2, <3>3 DEF Proceeds, Compares, HandlesEvent, Broadcasts, Stores
  <2>. QED BY <2>2, <2>3
<1>6. CASE ReadNeighbors(t)
  <2>1. /\ frame'[t].pc = "current" /\ ~ frame'[t].broadcasting
        /\ frame'[t].ids = neighbors
    BY <1>1, <1>6, ReadFacts
  <2>2. Agreed /\ neighbors' = neighbors
    BY <1>6, SameRouting DEF ReadNeighbors, At, Proceeds, HandlesEvent
  <2>. QED BY <1>3, <2>1, <2>2 DEF Proceeds, Compares, HandlesEvent, Broadcasts, Stores
<1>7. CASE Unlock(t)
  <2>1. frame'[t].pc = "idle"
    BY <1>1, <1>7, GotoFacts DEF Unlock, Pc
  <2>2. UpToDate /\ neighbors' = neighbors
    BY <1>7, SameRouting DEF Unlock, At, Proceeds, HandlesEvent
  <2>. QED BY <1>3, <2>1, <2>2 DEF Proceeds, Compares, HandlesEvent, Broadcasts, Stores
<1>8. CASE \E id \in Stranger : Insert(t, id)
  <2>1. frame'[t].pc = "load"
    BY <1>1, <1>8, GotoFacts DEF Insert, Pc
  <2>2. UpToDate
    BY <1>8 DEF Insert, At, Proceeds, HandlesEvent
  <2>. QED BY <1>3, <2>1, <2>2
           DEF UpToDate, Agreed, Proceeds, Compares, HandlesEvent, Broadcasts, Stores
<1>. QED BY <1>4, <1>5, <1>6, <1>7, <1>8

(* updateEdges makes the edges those that it was given.                    *)
LEMMA EdgesProceed ==
  ASSUME BroadcastInv, NEW t \in Chan, Proceeds(t),
         Current(t) \/ Added(t) \/ Removed(t) \/ Erase(t) \/ Apply(t)
  PROVE  Proceeds(t)'
<1>1. TypeOK /\ frame[t].broadcasting \in BOOLEAN
  BY FrameFacts DEF BroadcastInv
<1>2. UNCHANGED <<mStateSequence, state, sent>> /\ neighbors' = neighbors
  BY SameRouting DEF Current, Added, Removed, Erase, Apply
<1>3. /\ Published' <=> Published
      /\ edges' = edges => (Agreed' <=> Agreed) /\ (UpToDate' <=> UpToDate)
      /\ frame'[t].sequence = frame[t].sequence /\ frame'[t].ids = frame[t].ids
           => (Stored(t)' <=> Stored(t))
  BY <1>2, SamePublished
<1>4. CASE Current(t)
  <2>1. /\ frame'[t].pc = "added" /\ frame'[t].broadcasting = frame[t].broadcasting
        /\ frame'[t].sequence = frame[t].sequence /\ frame'[t].ids = frame[t].ids
        /\ frame'[t].current = edges
    BY <1>1, <1>4, CurrentFacts
  <2>2. frame[t].pc = "current" /\ edges' = edges
    BY <1>4 DEF Current, At
  <2>. QED BY <1>1, <1>2, <1>3, <2>1, <2>2
           DEF Proceeds, Compares, HandlesEvent, Broadcasts, Stores
<1>5. CASE Added(t)
  <2>1. /\ frame'[t].pc = "removed" /\ frame'[t].broadcasting = frame[t].broadcasting
        /\ frame'[t].sequence = frame[t].sequence /\ frame'[t].ids = frame[t].ids
        /\ frame'[t].current = frame[t].current
        /\ frame'[t].added = Wanted(t) \ frame[t].current
    BY <1>1, <1>5, AddedFacts
  <2>2. frame[t].pc = "added" /\ edges' = edges
    BY <1>5 DEF Added, At
  <2>3. Wanted(t)' = Wanted(t)
    BY <1>2, <2>1 DEF Wanted
  <2>. QED BY <1>1, <1>2, <1>3, <2>1, <2>2, <2>3
           DEF Proceeds, Compares, HandlesEvent, Broadcasts, Stores
<1>6. CASE Removed(t)
  <2>1. frame[t].pc = "removed" /\ edges' = edges
    BY <1>6 DEF Removed, At
  <2>2. /\ frame[t].current = edges /\ frame[t].added = Wanted(t) \ edges
        /\ ~ frame[t].broadcasting => Agreed /\ neighbors \subseteq frame[t].ids
                                      /\ Wanted(t) = frame[t].ids
        /\ frame[t].broadcasting => Stored(t) /\ Wanted(t) = frame[t].ids
    BY <2>1 DEF Proceeds, Compares, HandlesEvent, Stores, Wanted, Stored, Made
  <2>3. CASE frame[t].added # {} \/ frame[t].current \ Wanted(t) # {}
    <3>1. /\ frame'[t].pc = "erase" /\ frame'[t].broadcasting = frame[t].broadcasting
          /\ frame'[t].sequence = frame[t].sequence /\ frame'[t].ids = frame[t].ids
          /\ frame'[t].added = frame[t].added
          /\ frame'[t].removed = frame[t].current \ Wanted(t)
      BY <1>1, <1>6, <2>3, RemovedFacts
    <3>. QED BY <1>1, <1>3, <2>1, <2>2, <3>1
             DEF Agreed, Proceeds, Compares, HandlesEvent, Broadcasts, Stores
  <2>4. CASE frame[t].added = {} /\ frame[t].current \ Wanted(t) = {}
    <3>1. edges = frame[t].ids
      BY <1>1, <2>2, <2>4
    <3>2. CASE frame[t].broadcasting
      <4>1. Goto(t, "send")
        BY <1>6, <2>4, <3>2 DEF Removed
      <4>2. frame'[t].pc = "send" /\ SameLocals(t)
        BY <1>1, <4>1, GotoFacts DEF Pc
      <4>3. Stored(t)' /\ edges' = frame'[t].ids
        BY <1>3, <2>1, <2>2, <3>1, <3>2, <4>2 DEF SameLocals
      <4>. QED BY <4>2, <4>3 DEF Proceeds, Compares, HandlesEvent, Broadcasts, Stores
    <3>3. CASE ~ frame[t].broadcasting
      <4>1. Return(t)
        BY <1>6, <2>4, <3>3 DEF Removed
      <4>2. frame'[t].pc \in {"idle", "unlock"} /\ ~ frame'[t].broadcasting
        BY <1>1, <4>1, ReturnFacts DEF NoLocals
      <4>3. UpToDate'
        BY <1>3, <2>1, <2>2, <3>1, <3>3 DEF UpToDate, Agreed
      <4>. QED BY <4>2, <4>3 DEF Proceeds, Compares, HandlesEvent, Broadcasts, Stores
    <3>. QED BY <1>1, <3>2, <3>3
  <2>. QED BY <2>3, <2>4
<1>7. CASE Erase(t)
  <2>1. /\ frame'[t].pc = "apply" /\ frame'[t].broadcasting = frame[t].broadcasting
        /\ frame'[t].sequence = frame[t].sequence /\ frame'[t].ids = frame[t].ids
        /\ frame'[t].added = frame[t].added
    BY <1>1, <1>7, EraseFacts
  <2>2. frame[t].pc = "erase" /\ edges' = edges \ frame[t].removed
    BY <1>7 DEF Erase, At
  <2>3. CASE frame[t].broadcasting
    <3>1. /\ Stored(t) /\ frame[t].added = frame[t].ids \ edges
          /\ frame[t].removed = edges \ frame[t].ids
      BY <2>2, <2>3 DEF Proceeds, Stores
    <3>2. edges' \cup frame[t].added = frame[t].ids
      BY <2>2, <3>1
    <3>3. frame'[t].broadcasting /\ Stored(t)'
      BY <1>3, <2>1, <2>3, <3>1
    <3>. QED BY <2>1, <3>2, <3>3
             DEF Proceeds, Compares, HandlesEvent, Broadcasts, Stores
  <2>4. CASE ~ frame[t].broadcasting
    BY <1>3, <2>1, <2>2, <2>4 DEF Proceeds, Compares, HandlesEvent, Broadcasts, Stores
  <2>. QED BY <1>1, <2>3, <2>4
<1>8. CASE Apply(t)
  <2>1. frame[t].pc = "apply" /\ edges' = edges \cup frame[t].added
    BY <1>8 DEF Apply, At
  <2>2. CASE frame[t].broadcasting
    <3>1. /\ frame'[t].pc = "send" /\ frame'[t].broadcasting = frame[t].broadcasting
          /\ frame'[t].sequence = frame[t].sequence /\ frame'[t].ids = frame[t].ids
      BY <1>1, <1>8, <2>2, ApplyBroadcastingFacts
    <3>2. Stored(t) /\ edges' = frame[t].ids
      BY <2>1, <2>2 DEF Proceeds, Stores
    <3>. QED BY <1>3, <2>2, <3>1, <3>2
             DEF Proceeds, Compares, HandlesEvent, Broadcasts, Stores
  <2>3. CASE ~ frame[t].broadcasting
    <3>1. frame'[t].pc = "load" /\ ~ frame'[t].broadcasting
      BY <1>1, <1>8, <2>3, ApplyEventFacts DEF NoLocals
    <3>2. Published
      BY <2>1, <2>3 DEF Proceeds, HandlesEvent
    <3>. QED BY <1>3, <3>1, <3>2
             DEF Proceeds, Compares, HandlesEvent, Broadcasts, Stores
  <2>. QED BY <1>1, <2>2, <2>3
<1>. QED BY <1>4, <1>5, <1>6, <1>7, <1>8

(* broadcastState takes the next number, and sends the state it stores.    *)
LEMMA StateProceeds ==
  ASSUME BroadcastInv, NEW t \in Chan, Proceeds(t),
         \/ LoadSequence(t) \/ StoreSequence(t) \/ MakeState(t) \/ Test(t) \/ Assign(t)
         \/ SendState(t)
  PROVE  Proceeds(t)'
<1>1. /\ TypeOK /\ frame[t].sequence \in Nat /\ mStateSequence \in Nat
      /\ state.sequence \in Nat /\ \A s \in sent : s.sequence \in Nat
  BY FrameFacts DEF BroadcastInv, TypeOK, LocalState
<1>2. neighbors' = neighbors
  BY SameRouting DEF LoadSequence, StoreSequence, MakeState, Test, Assign, SendState
<1>3. CASE LoadSequence(t)
  <2>1. frame'[t].pc = "store" /\ frame'[t].sequence = mStateSequence
    BY <1>1, <1>3, LoadFacts
  <2>2. frame[t].pc = "load" /\ UNCHANGED <<mStateSequence, state, sent>>
    BY <1>3 DEF LoadSequence, At
  <2>3. Published'
    BY <2>2, SamePublished DEF Proceeds, Broadcasts
  <2>. QED BY <2>1, <2>2, <2>3 DEF Proceeds, Compares, HandlesEvent, Broadcasts, Stores
<1>4. CASE StoreSequence(t)
  <2>1. frame'[t].pc = "own" /\ SameLocals(t)
    BY <1>1, <1>4, GotoFacts DEF StoreSequence, Pc
  <2>2. /\ frame[t].pc = "store" /\ mStateSequence' = frame[t].sequence + 1
        /\ UNCHANGED <<state, sent>>
    BY <1>4 DEF StoreSequence, At
  <2>3. Published /\ frame[t].sequence = mStateSequence
    BY <2>2 DEF Proceeds, Broadcasts
  <2>4. mStateSequence = state.sequence + 1 /\ \A s \in sent : s.sequence <= state.sequence
    BY <2>3 DEF Published
  <2>5. state.sequence < frame[t].sequence /\ \A s \in sent : s.sequence < frame[t].sequence
    BY <1>1, <2>3, <2>4
  <2>6. Unique'
    BY <2>2, <2>3 DEF Published, Unique
  <2>7. Taken(t)' /\ state'.sequence < frame'[t].sequence
    BY <2>1, <2>2, <2>5, <2>6 DEF Taken, SameLocals
  <2>. QED BY <2>1, <2>7 DEF Proceeds, Compares, HandlesEvent, Broadcasts, Stores
<1>5. CASE MakeState(t)
  <2>1. /\ frame'[t].pc = "test" /\ frame'[t].sequence = frame[t].sequence
        /\ frame'[t].ids = neighbors
    BY <1>1, <1>5, MakeFacts
  <2>2. frame[t].pc = "own" /\ UNCHANGED <<mStateSequence, state, sent>>
    BY <1>5 DEF MakeState, At
  <2>3. Taken(t)' /\ state'.sequence < frame'[t].sequence
    BY <2>1, <2>2, SamePublished DEF Proceeds, Broadcasts
  <2>. QED BY <1>2, <2>1, <2>3
           DEF Proceeds, Compares, HandlesEvent, Broadcasts, Stores
<1>6. CASE Test(t)
  <2>1. frame[t].pc = "test" /\ UNCHANGED <<mStateSequence, state, sent>>
    BY <1>6 DEF Test, At
  <2>2. /\ Taken(t) /\ state.sequence < frame[t].sequence
        /\ neighbors \subseteq frame[t].ids
    BY <2>1 DEF Proceeds, Broadcasts
  <2>3. Goto(t, "assign")
    BY <1>1, <1>6, <2>2 DEF Test
  <2>4. frame'[t].pc = "assign" /\ SameLocals(t)
    BY <1>1, <2>3, GotoFacts DEF Pc
  <2>5. Taken(t)'
    BY <2>1, <2>2, <2>4, SamePublished DEF SameLocals
  <2>6. state'.sequence < frame'[t].sequence /\ neighbors' \subseteq frame'[t].ids
    BY <1>2, <2>1, <2>2, <2>4 DEF SameLocals
  <2>. QED BY <2>4, <2>5, <2>6 DEF Proceeds, Compares, HandlesEvent, Broadcasts, Stores
<1>7. CASE Assign(t)
  <2>1. /\ frame[t].pc = "assign" /\ state' = Made(t)
        /\ UNCHANGED <<mStateSequence, sent>>
    BY <1>7 DEF Assign, At
  <2>2. Taken(t) /\ neighbors \subseteq frame[t].ids /\ frame[t].broadcasting
    BY <2>1 DEF Proceeds, Broadcasts, BroadcastInv, FramesBroadcast
  <2>3. frame'[t].pc = "current" /\ SameLocals(t)
    BY <1>1, <1>7, GotoFacts DEF Assign, Pc
  <2>4. Taken(t)'
    BY <2>1, <2>2, <2>3 DEF Taken, Unique, SameLocals
  <2>5. Stored(t)'
    BY <1>2, <2>1, <2>2, <2>3, <2>4 DEF Stored, Made, SameLocals
  <2>6. frame'[t].broadcasting
    BY <2>2, <2>3 DEF SameLocals
  <2>. QED BY <2>3, <2>5, <2>6
           DEF Proceeds, Compares, HandlesEvent, Broadcasts, Stores
<1>8. CASE SendState(t)
  <2>1. /\ frame[t].pc = "send" /\ sent' = sent \cup {Made(t)} /\ Return(t)
        /\ UNCHANGED <<mStateSequence, state, edges>>
    BY <1>8 DEF SendState, At
  <2>2. frame[t].broadcasting
    BY <2>1 DEF BroadcastInv, FramesBroadcast
  <2>3. Taken(t) /\ neighbors \subseteq frame[t].ids /\ state = Made(t)
        /\ edges = frame[t].ids
    BY <2>1, <2>2 DEF Proceeds, Stores, Stored
  <2>4. frame'[t].pc \in {"idle", "unlock"} /\ ~ frame'[t].broadcasting
    BY <1>1, <2>1, ReturnFacts DEF NoLocals
  <2>5. state.sequence = frame[t].sequence /\ state.neighbors = frame[t].ids
    BY <2>3 DEF Made
  <2>6. /\ \A s \in sent : s.sequence < state.sequence
        /\ mStateSequence = state.sequence + 1 /\ Unique
    BY <2>3, <2>5 DEF Taken
  <2>7. sent' = sent \cup {state}
    BY <2>1, <2>3
  <2>8. Unique'
    <3>. SUFFICES ASSUME NEW s \in sent', NEW u \in sent', s.sequence = u.sequence
                  PROVE  s = u
      BY DEF Unique
    <3>1. \A v \in sent : v.sequence # state.sequence
      BY <1>1, <2>6
    <3>. QED BY <2>6, <2>7, <3>1 DEF Unique
  <2>9. \A s \in sent' : s.sequence <= state.sequence
    BY <1>1, <2>6, <2>7
  <2>10. Published'
    BY <2>1, <2>6, <2>7, <2>8, <2>9 DEF Published
  <2>11. UpToDate'
    BY <1>2, <2>1, <2>3, <2>5, <2>10 DEF UpToDate, Agreed
  <2>. QED BY <2>4, <2>11 DEF Proceeds, Compares, HandlesEvent, Broadcasts, Stores
<1>. QED BY <1>3, <1>4, <1>5, <1>6, <1>7, <1>8

LEMMA WorkProceeds ==
  ASSUME BroadcastInv, NEW t \in Chan, Proceeds(t), Work(t)
  PROVE  Proceeds(t)'
BY EventProceeds, EdgesProceed, StateProceeds DEF Work

(* A thread that is idle and takes a step starts a callback.               *)
LEMMA WorkStarts ==
  ASSUME TypeOK, NEW t \in Chan, Work(t), At(t, "idle")
  PROVE  ~ At(t, "idle")'
<1>1. ReceiveHello(t) \/ \E id \in Stranger : Insert(t, id)
  BY DEF Work, AddNeighbor, ReadNeighbors, Unlock, Current, Added, Removed, Erase, Apply,
         LoadSequence, StoreSequence, MakeState, Test, Assign, SendState, At
<1>2. Goto(t, "add") \/ Goto(t, "load")
  BY <1>1 DEF ReceiveHello, Insert
<1>. QED BY <1>2, GotoFacts DEF At, Pc

LEMMA NextOneByOne ==
  BroadcastInv /\ OneByOne /\ [Next]_vars => OneByOne'
<1>. SUFFICES ASSUME BroadcastInv, OneByOne, [Next]_vars, ~ overlapped'
              PROVE  /\ ~ Overlap' /\ (AllIdle' => UpToDate')
                     /\ \A t \in Chan : Alone(t)' => Proceeds(t)'
  BY DEF OneByOne
<1>1. ASSUME NEW t \in Chan, Work(t), overlapped' = (overlapped \/ Overlap')
      PROVE  /\ ~ Overlap' /\ (AllIdle' => UpToDate')
             /\ \A u \in Chan : Alone(u)' => Proceeds(u)'
  <2>1. ~ overlapped /\ ~ Overlap'
    BY <1>1
  <2>2. Others(t)
    BY <1>1, WorkFacts DEF BroadcastInv
  <2>3. Alone(t)
    <3>. SUFFICES ASSUME NEW u \in Chan \ {t}, ~ At(u, "idle") PROVE FALSE
      BY DEF Alone
    <3>1. At(t, "idle")
      BY <2>1 DEF OneByOne, Overlap
    <3>2. ~ At(t, "idle")' /\ ~ At(u, "idle")'
      BY <1>1, <2>2, <3>1, WorkStarts DEF BroadcastInv, Others, At
    <3>. QED BY <2>1, <3>2 DEF Overlap
  <2>4. Proceeds(t)'
    BY <1>1, <2>1, <2>3, WorkProceeds DEF OneByOne
  <2>5. AllIdle' => UpToDate'
    BY <2>4 DEF AllIdle, At, Proceeds, HandlesEvent
  <2>6. ASSUME NEW u \in Chan \ {t}, Alone(u)'
        PROVE  Proceeds(u)'
    <3>1. At(t, "idle")' /\ At(u, "idle")'
      BY <2>2, <2>3, <2>6 DEF Alone, Others, At
    <3>2. UpToDate'
      BY <2>4, <3>1 DEF At, Proceeds, HandlesEvent
    <3>. QED BY <3>1, <3>2
             DEF At, Proceeds, Compares, HandlesEvent, Broadcasts, Stores
  <2>. QED BY <2>1, <2>4, <2>5, <2>6
<1>2. ASSUME UNCHANGED <<mStateSequence, state, edges, sent, frame, overlapped>>,
             neighbors' \subseteq neighbors
      PROVE  /\ ~ Overlap' /\ (AllIdle' => UpToDate')
             /\ \A t \in Chan : Alone(t)' => Proceeds(t)'
  <2>1. ~ overlapped /\ (AllIdle' <=> AllIdle) /\ (Overlap' <=> Overlap)
        /\ \A t \in Chan : Alone(t)' <=> Alone(t)
    BY <1>2 DEF AllIdle, Overlap, Alone, At
  <2>2. /\ (Agreed' <=> Agreed) /\ (Published' <=> Published)
        /\ \A t \in Chan : Taken(t)' <=> Taken(t)
    BY <1>2, SamePublished
  <2>3. UpToDate => UpToDate'
    BY <1>2, <2>2 DEF UpToDate
  <2>4. \A t \in Chan : Stored(t) => Stored(t)'
    BY <1>2, <2>2 DEF Stored, Made
  <2>5. ASSUME NEW t \in Chan, Proceeds(t)
        PROVE  Proceeds(t)'
    <3>1. Compares(t)'
      BY <1>2, <2>5 DEF Proceeds, Compares, Wanted
    <3>2. HandlesEvent(t)'
      BY <1>2, <2>2, <2>3, <2>5 DEF Proceeds, HandlesEvent
    <3>3. Broadcasts(t)'
      BY <1>2, <2>2, <2>5 DEF Proceeds, Broadcasts
    <3>4. Stores(t)'
      BY <1>2, <2>4, <2>5 DEF Proceeds, Stores
    <3>. QED BY <3>1, <3>2, <3>3, <3>4 DEF Proceeds
  <2>. QED BY <2>1, <2>3, <2>5 DEF OneByOne
<1>3. ASSUME NEW c \in Chan, RemoveChannel(c), UNCHANGED overlapped
      PROVE  /\ ~ Overlap' /\ (AllIdle' => UpToDate')
             /\ \A t \in Chan : Alone(t)' => Proceeds(t)'
  <2>1. UNCHANGED <<mStateSequence, state, edges, sent, frame>>
    BY <1>3 DEF RemoveChannel
  <2>2. neighbors' \subseteq neighbors
    BY <1>3, RemoveFacts DEF BroadcastInv
  <2>. QED BY <1>2, <1>3, <2>1, <2>2
<1>4. CASE UNCHANGED vars
  <2>1. UNCHANGED <<mStateSequence, state, edges, sent, frame, overlapped>>
        /\ neighbors' = neighbors
    BY <1>4 DEF vars, neighbors
  <2>. QED BY <1>2, <2>1
<1>. QED BY <1>1, <1>3, <1>4 DEF Next, Done

LEMMA InitOneByOne == Init => OneByOne
<1>. SUFFICES ASSUME Init PROVE OneByOne
  OBVIOUS
<1>1. \A t \in Chan : frame[t].pc = "idle" /\ frame[t].broadcasting = FALSE
  BY DEF Init, Reset
<1>2. ~ Overlap
  BY <1>1 DEF Overlap, At
<1>3. UpToDate
  BY DEF Init, UpToDate, Agreed, Published, Unique, neighbors
<1>4. \A t \in Chan : Proceeds(t)
  BY <1>1, <1>3 DEF Proceeds, Compares, HandlesEvent, Broadcasts, Stores
<1>. QED BY <1>2, <1>3, <1>4 DEF OneByOne

(* As long as one callback has ended before the next one begins, and       *)
(* whenever channels are removed, the callbacks leave edges that are those *)
(* of the local state, a local state that was broadcast, is the newest and *)
(* has all neighbours, and no two broadcasts with one sequence number.     *)
THEOREM GraphThreadsStateIsCurrent == Spec => []StateIsCurrent
<1>1. OneByOne => StateIsCurrent
  BY DEF OneByOne, StateIsCurrent, UpToDate, Agreed, Published, Unique
<1>. QED BY <1>1, InitBroadcast, NextBroadcast, InitOneByOne, NextOneByOne, PTL DEF Spec

=============================================================================
