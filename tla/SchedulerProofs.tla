--------------------------- MODULE SchedulerProofs --------------------------
(***************************************************************************)
(* Proofs about the scheduler, for any threads, any number of tasks and    *)
(* any passing of time.                                                    *)
(***************************************************************************)
EXTENDS Scheduler, FiniteSetTheorems, TLAPS

Scheduled == mTasks \cup Started \cup cancelled

Pending == {u \in Thread : call[u] # NoCall}

(* The calls under way have room within the bound on the tasks.            *)
CallsAreBounded ==
    IsFiniteSet(Pending) /\ mNextTaskNumber + Cardinality(Pending) <= MaxTasks

(* There are as many tasks as numbers were taken, all of them below the    *)
(* next one.                                                               *)
TasksAreNumbered ==
    /\ IsFiniteSet(Scheduled) /\ mNextTaskNumber = Cardinality(Scheduled)
    /\ \A x \in Scheduled : x.number < mNextTaskNumber

(* The tasks that are started are started once, and the sets of tasks that *)
(* wait, were started and were cancelled are disjoint.                     *)
FatesAreDisjoint ==
    /\ \A i, j \in DOMAIN started : i # j => started[i] # started[j]
    /\ mTasks \cap (Started \cup cancelled) = {} /\ Started \cap cancelled = {}
    /\ refused \subseteq Started \cup cancelled

(* The tasks that a thread has enqueued are in the order of the keys of    *)
(* mTasks, and a call of enqueue under way will put its task after them.   *)
EnqueuesAreOrdered ==
    \A t \in Thread :
      /\ call[t] # NoCall /\ call[t].enqueue => call[t].time <= now
      /\ \A i \in DOMAIN enqueued[t] :
           /\ enqueued[t][i] \in Scheduled /\ enqueued[t][i].time <= now
           /\ call[t] # NoCall /\ call[t].enqueue => enqueued[t][i].time <= call[t].time
      /\ \A i, j \in DOMAIN enqueued[t] : i < j => Before(enqueued[t][i], enqueued[t][j])

SchedulerInv ==
    /\ TypeOK /\ CallsAreBounded /\ TasksAreNumbered /\ FatesAreDisjoint
    /\ EnqueuesAreOrdered /\ EnqueuedInOrder

-----------------------------------------------------------------------------
LEMMA AppendFacts ==
  ASSUME NEW S, NEW s \in Seq(S), NEW x \in S
  PROVE  /\ Append(s, x) \in Seq(S)
         /\ DOMAIN s = 1..Len(s) /\ DOMAIN Append(s, x) = 1..(Len(s) + 1)
         /\ Len(s) \in Nat
         /\ \A i \in 1..Len(s) : Append(s, x)[i] = s[i] /\ s[i] \in S
         /\ Append(s, x)[Len(s) + 1] = x
  OBVIOUS

LEMMA InitSchedulerInv == Init => SchedulerInv
<1>. SUFFICES ASSUME Init PROVE SchedulerInv
  OBVIOUS
<1>1. Pending = {} /\ Started = {} /\ Scheduled = {}
  BY DEF Init, Pending, Started, Scheduled
<1>2. IsFiniteSet({}) /\ Cardinality({}) = 0
  BY FS_EmptySet
<1>3. TypeOK
  <2>1. now \in 0..MaxTime /\ mNextTaskNumber \in 0..MaxTasks
    BY SchedulerAssumption DEF Init
  <2>2. looping \in BOOLEAN
    BY DEF Init
  <2>3. started \in Seq(Task) /\ enqueued \in [Thread -> Seq(Task)]
    BY DEF Init
  <2>4. /\ mTasks \in SUBSET Task /\ cancelled \in SUBSET Task
        /\ refused \in SUBSET Task
        /\ call \in [Thread -> Call \cup {NoCall}]
        /\ running \in Task \cup {NoTask}
    BY DEF Init
  <2>. QED BY <2>1, <2>2, <2>3, <2>4 DEF TypeOK
<1>. QED
  BY <1>1, <1>2, <1>3, SchedulerAssumption
  DEF Init, SchedulerInv, CallsAreBounded, TasksAreNumbered, FatesAreDisjoint,
      EnqueuesAreOrdered, EnqueuedInOrder

(* Steps that leave the tasks and the calls alone.                         *)
LEMMA QuietSchedulerInv ==
  ASSUME SchedulerInv, TypeOK', now <= now',
         UNCHANGED <<mTasks, mNextTaskNumber, call, started, cancelled, refused,
                     enqueued>>
  PROVE  SchedulerInv'
<1>1. UNCHANGED <<Pending, Started, Scheduled>>
  BY DEF Pending, Started, Scheduled
<1>2. EnqueuesAreOrdered'
  <2>1. now \in Nat /\ now' \in Nat
    BY SchedulerAssumption DEF SchedulerInv, TypeOK
  <2>2. ASSUME NEW t \in Thread, call[t] # NoCall, call[t].enqueue
        PROVE  call[t].time <= now'
    BY <2>1, <2>2 DEF SchedulerInv, EnqueuesAreOrdered, TypeOK, Call
  <2>3. ASSUME NEW t \in Thread, NEW i \in DOMAIN enqueued[t]
        PROVE  enqueued[t][i].time <= now'
    <3>1. enqueued[t][i] \in Task
      <4>1. enqueued[t] \in Seq(Task)
        BY DEF SchedulerInv, TypeOK
      <4>. HIDE DEF Task
      <4>. QED BY <2>3, <4>1
    <3>2. enqueued[t][i].time \in Nat
      BY <3>1 DEF Task
    <3>3. enqueued[t][i].time <= now
      BY <2>3 DEF SchedulerInv, EnqueuesAreOrdered
    <3>. QED BY <2>1, <3>2, <3>3
  <2>. QED BY <1>1, <2>2, <2>3 DEF SchedulerInv, EnqueuesAreOrdered
<1>. QED
  BY <1>1, <1>2
  DEF SchedulerInv, CallsAreBounded, TasksAreNumbered, FatesAreDisjoint,
      EnqueuedInOrder

LEMMA TickSchedulerInv ==
  ASSUME SchedulerInv, Tick
  PROVE  SchedulerInv'
<1>1. TypeOK' /\ now <= now'
  BY SchedulerAssumption DEF SchedulerInv, TypeOK, Tick
<1>. QED BY <1>1, QuietSchedulerInv DEF Tick

LEMMA LoopSchedulerInv ==
  ASSUME SchedulerInv, Run \/ RunReturns \/ EndTask
  PROVE  SchedulerInv'
<1>1. TypeOK' /\ now <= now'
  <2>1. now' = now /\ now \in 0..MaxTime /\ now \in Nat
    BY SchedulerAssumption
    DEF SchedulerInv, TypeOK, Run, RunReturns, EndTask
  <2>2. looping' \in BOOLEAN
    BY DEF SchedulerInv, TypeOK, Run, RunReturns, EndTask
  <2>3. running' \in Task \cup {NoTask}
    BY DEF SchedulerInv, TypeOK, Run, RunReturns, EndTask
  <2>4. UNCHANGED <<mTasks, mNextTaskNumber, call, started, cancelled, refused,
                    enqueued>>
    BY DEF Run, RunReturns, EndTask
  <2>. QED BY <2>1, <2>2, <2>3, <2>4 DEF SchedulerInv, TypeOK
<1>. QED BY <1>1, QuietSchedulerInv DEF Run, RunReturns, EndTask

(* A call that reads the clock: what it will enqueue is not before what    *)
(* its thread has enqueued.                                                *)
LEMMA BeginSchedulerInv ==
  ASSUME SchedulerInv, NEW t \in Thread, NEW time \in 0..MaxTime,
         NEW enqueue \in BOOLEAN, Begin(t, time, enqueue)
  PROVE  SchedulerInv'
<1>. DEFINE made == [time |-> time, enqueue |-> enqueue]
<1>1. made \in Call /\ made # NoCall /\ made.time = time /\ made.enqueue = enqueue
  BY SchedulerAssumption, NoCallAssumption DEF Call
<1>2. /\ call[t] = NoCall /\ (enqueue => time = now)
      /\ mNextTaskNumber + Cardinality(Pending) < MaxTasks
      /\ call' = [call EXCEPT ![t] = made]
      /\ UNCHANGED <<now, mTasks, mNextTaskNumber, looping, running, started,
                     cancelled, refused, enqueued>>
  BY DEF Begin, MayCall, Pending
<1>. HIDE DEF made
<1>3. TypeOK'
  BY <1>1, <1>2 DEF SchedulerInv, TypeOK
<1>4. Started' = Started /\ Scheduled' = Scheduled
  BY <1>2 DEF Started, Scheduled
<1>5. CallsAreBounded'
  <2>1. t \notin Pending /\ Pending' = Pending \cup {t}
    BY <1>1, <1>2 DEF Pending, SchedulerInv, TypeOK
  <2>2. IsFiniteSet(Pending') /\ Cardinality(Pending') = Cardinality(Pending) + 1
    BY <2>1, FS_AddElement DEF SchedulerInv, CallsAreBounded
  <2>3. Cardinality(Pending) \in Nat /\ mNextTaskNumber \in Nat
    BY FS_CardinalityType, SchedulerAssumption
    DEF SchedulerInv, CallsAreBounded, TypeOK
  <2>. QED BY <1>2, <2>2, <2>3, SchedulerAssumption DEF CallsAreBounded
<1>6. EnqueuesAreOrdered'
  <2>1. \A u \in Thread : call'[u] = IF u = t THEN made ELSE call[u]
    BY <1>2 DEF SchedulerInv, TypeOK
  <2>. QED BY <1>1, <1>2, <1>4, <2>1 DEF SchedulerInv, EnqueuesAreOrdered
<1>. QED
  BY <1>2, <1>3, <1>4, <1>5, <1>6
  DEF SchedulerInv, TasksAreNumbered, FatesAreDisjoint, EnqueuedInOrder

(* A call that gets the lock: its task has a number of its own.            *)
LEMMA ScheduleSchedulerInv ==
  ASSUME SchedulerInv, NEW t \in Thread, Schedule(t)
  PROVE  SchedulerInv'
<1>. DEFINE task == [time |-> call[t].time, number |-> mNextTaskNumber]
<1>1. /\ call[t] \in Call /\ call[t] # NoCall
      /\ mNextTaskNumber' = mNextTaskNumber + 1
      /\ mTasks' = mTasks \cup {task}
      /\ call' = [call EXCEPT ![t] = NoCall]
      /\ enqueued' = [enqueued EXCEPT ![t] = IF call[t].enqueue
                                             THEN Append(@, task) ELSE @]
      /\ UNCHANGED <<now, looping, running, started, cancelled, refused>>
  BY DEF Schedule, SchedulerInv, TypeOK
<1>2. mNextTaskNumber \in Nat /\ now \in Nat /\ enqueued[t] \in Seq(Task)
  BY SchedulerAssumption DEF SchedulerInv, TypeOK
<1>3. task \in Task /\ task.number = mNextTaskNumber /\ task.time = call[t].time
  BY <1>1, <1>2 DEF Task, Call
<1>. HIDE DEF task
<1>4. Scheduled \subseteq Task
  BY DEF SchedulerInv, TypeOK, Scheduled, Started
<1>5. Started' = Started /\ Scheduled' = Scheduled \cup {task}
  BY <1>1 DEF Started, Scheduled
<1>6. task \notin Scheduled
  BY <1>2, <1>3, <1>4 DEF SchedulerInv, TasksAreNumbered, Task
<1>7. CallsAreBounded'
  <2>1. t \in Pending /\ Pending' = Pending \ {t}
    BY <1>1 DEF Pending, SchedulerInv, TypeOK
  <2>2. IsFiniteSet(Pending') /\ Cardinality(Pending') = Cardinality(Pending) - 1
    BY <2>1, FS_RemoveElement DEF SchedulerInv, CallsAreBounded
  <2>3. Cardinality(Pending) \in Nat
    BY FS_CardinalityType DEF SchedulerInv, CallsAreBounded
  <2>. QED
    BY <1>1, <1>2, <2>2, <2>3, SchedulerAssumption DEF SchedulerInv, CallsAreBounded
<1>8. TypeOK'
  <2>1. mNextTaskNumber' \in 0..MaxTasks
    <3>1. IsFiniteSet(Pending') /\ Cardinality(Pending') \in Nat
      BY <1>7, FS_CardinalityType DEF CallsAreBounded
    <3>. QED BY <1>1, <1>2, <1>7, <3>1, SchedulerAssumption DEF CallsAreBounded
  <2>2. enqueued' \in [Thread -> Seq(Task)]
    BY <1>1, <1>2, <1>3, AppendFacts DEF SchedulerInv, TypeOK
  <2>3. call' \in [Thread -> Call \cup {NoCall}]
    BY <1>1 DEF SchedulerInv, TypeOK
  <2>. QED BY <1>1, <1>3, <2>1, <2>2, <2>3 DEF SchedulerInv, TypeOK
<1>9. TasksAreNumbered'
  <2>1. /\ IsFiniteSet(Scheduled')
        /\ Cardinality(Scheduled') = Cardinality(Scheduled) + 1
    BY <1>5, <1>6, FS_AddElement DEF SchedulerInv, TasksAreNumbered
  <2>2. ASSUME NEW x \in Scheduled' PROVE x.number < mNextTaskNumber'
    <3>1. CASE x = task
      BY <1>1, <1>2, <1>3, <3>1
    <3>2. CASE x \in Scheduled
      <4>1. x.number \in Nat /\ x.number < mNextTaskNumber
        BY <1>4, <3>2 DEF SchedulerInv, TasksAreNumbered, Task
      <4>. QED BY <1>1, <1>2, <4>1
    <3>. QED BY <1>5, <3>1, <3>2
  <2>. QED BY <1>1, <2>1, <2>2 DEF SchedulerInv, TasksAreNumbered
<1>10. FatesAreDisjoint'
  <2>1. task \notin Started \cup cancelled
    BY <1>6 DEF Scheduled
  <2>. QED BY <1>1, <1>5, <2>1 DEF SchedulerInv, FatesAreDisjoint
<1>11. ASSUME NEW u \in Thread, ~ (u = t /\ call[t].enqueue)
       PROVE  enqueued'[u] = enqueued[u]
  BY <1>1, <1>11 DEF SchedulerInv, TypeOK
<1>12. ASSUME call[t].enqueue
       PROVE  /\ enqueued'[t] = Append(enqueued[t], task)
              /\ DOMAIN enqueued[t] = 1..Len(enqueued[t])
              /\ DOMAIN enqueued'[t] = 1..(Len(enqueued[t]) + 1)
              /\ Len(enqueued[t]) \in Nat
              /\ \A i \in 1..Len(enqueued[t]) : enqueued'[t][i] = enqueued[t][i]
              /\ enqueued'[t][Len(enqueued[t]) + 1] = task
  <2>1. enqueued'[t] = Append(enqueued[t], task)
    BY <1>1, <1>12 DEF SchedulerInv, TypeOK
  <2>. QED BY <1>2, <1>3, <2>1, AppendFacts
<1>13. EnqueuesAreOrdered'
  <2>. SUFFICES ASSUME NEW u \in Thread
                PROVE  /\ call'[u] # NoCall /\ call'[u].enqueue => call'[u].time <= now'
                       /\ \A i \in DOMAIN enqueued'[u] :
                            /\ enqueued'[u][i] \in Scheduled'
                            /\ enqueued'[u][i].time <= now'
                            /\ call'[u] # NoCall /\ call'[u].enqueue =>
                                 enqueued'[u][i].time <= call'[u].time
                       /\ \A i, j \in DOMAIN enqueued'[u] :
                            i < j => Before(enqueued'[u][i], enqueued'[u][j])
    BY DEF EnqueuesAreOrdered
  <2>1. call'[u] = IF u = t THEN NoCall ELSE call[u]
    BY <1>1 DEF SchedulerInv, TypeOK
  <2>2. CASE ~ (u = t /\ call[t].enqueue)
    BY <1>1, <1>5, <1>11, <2>1, <2>2 DEF SchedulerInv, EnqueuesAreOrdered
  <2>3. CASE u = t /\ call[t].enqueue
    <3>1. task.time <= now /\ task \in Scheduled'
      BY <1>1, <1>3, <1>5, <2>3 DEF SchedulerInv, EnqueuesAreOrdered
    <3>2. ASSUME NEW i \in 1..Len(enqueued[t])
          PROVE  /\ enqueued[t][i] \in Scheduled /\ enqueued[t][i].time <= now
                 /\ Before(enqueued[t][i], task)
      <4>1. /\ enqueued[t][i] \in Scheduled /\ enqueued[t][i].time <= now
            /\ enqueued[t][i].time <= task.time
        BY <1>1, <1>3, <1>12, <2>3 DEF SchedulerInv, EnqueuesAreOrdered
      <4>2. enqueued[t][i].number < task.number
        BY <1>3, <4>1 DEF SchedulerInv, TasksAreNumbered
      <4>3. enqueued[t][i] \in Task
        BY <1>4, <4>1
      <4>. QED BY <1>3, <4>1, <4>2, <4>3 DEF Before, Task
    <3>3. \A i, j \in 1..Len(enqueued[t]) :
            i < j => Before(enqueued[t][i], enqueued[t][j])
      BY <1>12, <2>3 DEF SchedulerInv, EnqueuesAreOrdered
    <3>4. ASSUME NEW i \in DOMAIN enqueued'[t]
          PROVE  enqueued'[t][i] \in Scheduled' /\ enqueued'[t][i].time <= now
      BY <1>5, <1>12, <2>3, <3>1, <3>2
    <3>5. ASSUME NEW i \in DOMAIN enqueued'[t], NEW j \in DOMAIN enqueued'[t], i < j
          PROVE  Before(enqueued'[t][i], enqueued'[t][j])
      <4>1. /\ DOMAIN enqueued'[t] = 1..(Len(enqueued[t]) + 1)
            /\ Len(enqueued[t]) \in Nat
            /\ \A k \in 1..Len(enqueued[t]) : enqueued'[t][k] = enqueued[t][k]
            /\ enqueued'[t][Len(enqueued[t]) + 1] = task
        BY <1>12, <2>3
      <4>2. i \in 1..Len(enqueued[t]) /\ (j \in 1..Len(enqueued[t])
                                         \/ j = Len(enqueued[t]) + 1)
        BY ONLY <4>1, i \in DOMAIN enqueued'[t], j \in DOMAIN enqueued'[t], i < j
      <4>3. CASE j \in 1..Len(enqueued[t])
        BY ONLY <3>3, <4>1, <4>2, <4>3, i < j
      <4>4. CASE j = Len(enqueued[t]) + 1
        BY ONLY <3>2, <4>1, <4>2, <4>4
      <4>. QED BY ONLY <4>2, <4>3, <4>4
    <3>. QED BY <1>1, <2>1, <2>3, <3>4, <3>5
  <2>. QED BY <2>2, <2>3
<1>14. EnqueuedInOrder'
  <2>. SUFFICES ASSUME NEW u \in Thread, NEW i \in DOMAIN enqueued'[u],
                       NEW j \in DOMAIN enqueued'[u], i < j,
                       NEW l \in DOMAIN started, started[l] = enqueued'[u][j]
                PROVE  enqueued'[u][i] \in cancelled \cup {started[k] : k \in 1..(l - 1)}
    BY <1>1 DEF EnqueuedInOrder
  <2>1. CASE ~ (u = t /\ call[t].enqueue)
    BY <1>11, <2>1 DEF SchedulerInv, EnqueuedInOrder
  <2>2. CASE u = t /\ call[t].enqueue
    <3>1. started[l] # task
      BY <1>6 DEF Scheduled, Started
    <3>2. i \in DOMAIN enqueued[t] /\ j \in DOMAIN enqueued[t]
      BY <1>12, <2>2, <3>1
    <3>3. enqueued'[t][i] = enqueued[t][i] /\ enqueued'[t][j] = enqueued[t][j]
      BY <1>12, <2>2, <3>2
    <3>. QED BY <2>2, <3>2, <3>3 DEF SchedulerInv, EnqueuedInOrder
  <2>. QED BY <2>1, <2>2
<1>. QED BY <1>7, <1>8, <1>9, <1>10, <1>13, <1>14 DEF SchedulerInv

(* cancel takes the task out of mTasks or finds it gone.                   *)
LEMMA CancelSchedulerInv ==
  ASSUME SchedulerInv, NEW task \in mTasks \cup Started \cup cancelled, Cancel(task)
  PROVE  SchedulerInv'
<1>1. Pending' = Pending /\ Started' = Started
  BY DEF Cancel, Pending, Started
<1>2. Scheduled' = Scheduled
  BY <1>1 DEF Cancel, Scheduled
<1>3. task \in Task
  BY DEF SchedulerInv, TypeOK, Started
<1>4. TypeOK'
  BY <1>3 DEF SchedulerInv, TypeOK, Cancel
<1>5. FatesAreDisjoint'
  BY <1>1 DEF SchedulerInv, FatesAreDisjoint, Cancel
<1>6. EnqueuesAreOrdered' /\ CallsAreBounded' /\ TasksAreNumbered'
  BY <1>1, <1>2
  DEF SchedulerInv, EnqueuesAreOrdered, CallsAreBounded, TasksAreNumbered, Cancel
<1>7. EnqueuedInOrder'
  BY DEF SchedulerInv, EnqueuedInOrder, Cancel
<1>. QED BY <1>4, <1>5, <1>6, <1>7 DEF SchedulerInv

(* run takes the first task: what its thread enqueued before it has gone.  *)
LEMMA DequeueSchedulerInv ==
  ASSUME SchedulerInv, Dequeue
  PROVE  SchedulerInv'
<1>1. PICK task \in mTasks :
        /\ IsFirst(task)
        /\ mTasks' = mTasks \ {task} /\ running' = task
        /\ started' = Append(started, task)
        /\ UNCHANGED <<now, mNextTaskNumber, call, looping, cancelled, refused, enqueued>>
  BY DEF Dequeue
<1>2. task \in Task /\ started \in Seq(Task)
  BY DEF SchedulerInv, TypeOK
<1>. DEFINE n == Len(started)
<1>3. /\ started' \in Seq(Task) /\ n \in Nat
      /\ DOMAIN started = 1..n /\ DOMAIN started' = 1..(n + 1)
      /\ \A k \in 1..n : started'[k] = started[k]
      /\ started'[n + 1] = task
  BY <1>1, <1>2, AppendFacts
<1>. HIDE DEF n
<1>4. Started' = Started \cup {task}
  <2>1. Started' = {started'[k] : k \in 1..(n + 1)} /\ Started = {started[k] : k \in 1..n}
    BY <1>3 DEF Started
  <2>2. \A k \in 1..(n + 1) : k = n + 1 \/ k \in 1..n
    BY <1>3
  <2>3. n + 1 \in 1..(n + 1) /\ 1..n \subseteq 1..(n + 1)
    BY <1>3
  <2>. QED BY <1>3, <2>1, <2>2, <2>3
<1>5. Scheduled' = Scheduled /\ Pending' = Pending
  BY <1>1, <1>4 DEF Scheduled, Pending
<1>6. TypeOK'
  BY <1>1, <1>2, <1>3 DEF SchedulerInv, TypeOK
<1>7. task \notin Started /\ task \notin cancelled
  BY DEF SchedulerInv, FatesAreDisjoint
<1>8. FatesAreDisjoint'
  <2>1. ASSUME NEW i \in 1..(n + 1), NEW j \in 1..(n + 1), i # j
        PROVE  started'[i] # started'[j]
    <3>1. \A k \in 1..n : started[k] # task
      BY <1>3, <1>7 DEF Started
    <3>2. \A k, m \in 1..n : k # m => started[k] # started[m]
      BY <1>3 DEF SchedulerInv, FatesAreDisjoint
    <3>. QED BY <1>3, <2>1, <3>1, <3>2
  <2>. QED BY <1>1, <1>3, <1>4, <1>7, <2>1 DEF SchedulerInv, FatesAreDisjoint
<1>9. EnqueuesAreOrdered' /\ CallsAreBounded' /\ TasksAreNumbered'
  BY <1>1, <1>5
  DEF SchedulerInv, EnqueuesAreOrdered, CallsAreBounded, TasksAreNumbered
<1>10. EnqueuedInOrder'
  <2>. SUFFICES ASSUME NEW u \in Thread, NEW i \in DOMAIN enqueued[u],
                       NEW j \in DOMAIN enqueued[u], i < j,
                       NEW l \in 1..(n + 1), started'[l] = enqueued[u][j]
                PROVE  enqueued[u][i] \in cancelled \cup {started'[k] : k \in 1..(l - 1)}
    BY <1>1, <1>3 DEF EnqueuedInOrder
  <2>1. CASE l \in 1..n
    <3>1. enqueued[u][i] \in cancelled \cup {started[k] : k \in 1..(l - 1)}
      BY <1>3, <2>1 DEF SchedulerInv, EnqueuedInOrder
    <3>2. \A k \in 1..(l - 1) : started'[k] = started[k]
      BY <1>3, <2>1
    <3>. QED BY <3>1, <3>2
  <2>2. CASE l = n + 1
    <3>. DEFINE x == enqueued[u][i]
    <3>1. x \in Scheduled /\ Before(x, task)
      BY <1>3, <2>2 DEF SchedulerInv, EnqueuesAreOrdered
    <3>2. x \in Task
      BY <3>1 DEF SchedulerInv, TypeOK, Scheduled, Started
    <3>. HIDE DEF x
    <3>3. x \notin mTasks
      <4>1. task \in Task /\ task.time \in Nat /\ task.number \in Nat
        BY DEF SchedulerInv, TypeOK, Task
      <4>2. x.time \in Nat /\ x.number \in Nat
        BY <3>2 DEF Task
      <4>3. x # task /\ ~ Before(task, x)
        BY <3>1, <4>1, <4>2 DEF Before
      <4>4. \A y \in mTasks \ {task} : Before(task, y)
        BY <1>1 DEF IsFirst
      <4>. QED BY <4>3, <4>4
    <3>4. x \in cancelled \cup Started
      BY <3>1, <3>3 DEF Scheduled
    <3>5. Started = {started'[k] : k \in 1..(l - 1)}
      <4>1. 1..(l - 1) = 1..n
        BY <1>3, <2>2
      <4>. QED BY <1>3, <4>1 DEF Started
    <3>. QED BY <3>4, <3>5 DEF x
  <2>. QED BY <1>3, <2>1, <2>2
<1>. QED BY <1>6, <1>8, <1>9, <1>10 DEF SchedulerInv

LEMMA NextSchedulerInv == SchedulerInv /\ [Next]_vars => SchedulerInv'
<1>. SUFFICES ASSUME SchedulerInv, [Next]_vars PROVE SchedulerInv'
  OBVIOUS
<1>1. CASE UNCHANGED vars
  <2>1. TypeOK' /\ now <= now'
    BY <1>1, SchedulerAssumption DEF vars, SchedulerInv, TypeOK
  <2>. QED BY <1>1, <2>1, QuietSchedulerInv DEF vars
<1>2. CASE Next
  <2>1. ASSUME NEW t \in Thread, Schedule(t) PROVE SchedulerInv'
    BY <2>1, ScheduleSchedulerInv
  <2>2. Main \in Thread
    BY SchedulerAssumption
  <2>. QED
    BY <1>2, <2>1, <2>2, TickSchedulerInv, LoopSchedulerInv, BeginSchedulerInv,
       CancelSchedulerInv, DequeueSchedulerInv
    DEF Next, Loop
<1>. QED BY <1>1, <1>2

LEMMA SchedulerInvHolds == Spec => []SchedulerInv
  BY InitSchedulerInv, NextSchedulerInv, PTL DEF Spec

-----------------------------------------------------------------------------
(* Type correctness of Scheduler: in particular the bound on the numbers   *)
(* of the tasks counts the calls under way.                                *)
THEOREM SchedulerTypeOK == Spec => []TypeOK
<1>1. SchedulerInv => TypeOK
  BY DEF SchedulerInv
<1>. QED BY <1>1, SchedulerInvHolds, PTL

(* schedule, cancel and dequeue, in any order on any threads, neither lose *)
(* a task nor give it two fates, and cancel tells the truth about it.      *)
THEOREM SchedulerEveryTaskHasOneFate == Spec => []EveryTaskHasOneFate
<1>1. SchedulerInv => EveryTaskHasOneFate
  BY DEF SchedulerInv, FatesAreDisjoint, TasksAreNumbered, EveryTaskHasOneFate, Scheduled
<1>. QED BY <1>1, SchedulerInvHolds, PTL

(* enqueue keeps the order of a thread's tasks, although it reads the      *)
(* clock before it has the lock.                                           *)
THEOREM SchedulerEnqueuedInOrder == Spec => []EnqueuedInOrder
<1>1. SchedulerInv => EnqueuedInOrder
  BY DEF SchedulerInv
<1>. QED BY <1>1, SchedulerInvHolds, PTL

=============================================================================
