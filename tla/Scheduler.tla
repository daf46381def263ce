----------------------------- MODULE Scheduler ------------------------------
(***************************************************************************)
(* The scheduler of a node (src/src/impl/scheduler.hpp, scheduler.cpp):    *)
(* any thread schedules and cancels tasks, and Node::update runs the ones  *)
(* that are due on the main thread.  A task may schedule others, itself    *)
(* included, and may throw.                                                *)
(*                                                                         *)
(* enqueue and schedule read the clock before the lock is taken.  No       *)
(* component schedules a task in this version: the callers are any.        *)
(*                                                                         *)
(* MaxTasks bounds the tasks.  Tasks that for ever schedule others that    *)
(* are due at once, so that run never returns, appear as one task that     *)
(* does not end: EndTask has no fairness.                                  *)
(***************************************************************************)
EXTENDS Integers, Sequences, FiniteSets

CONSTANTS
    Thread,         \* the threads that schedule tasks
    Main,           \* the one of them that runs the tasks
    MaxTime,        \* bound on the clock
    MaxTasks,       \* bound on the tasks that are scheduled
    NoTask, NoCall  \* nothing to run, no call of schedule under way

ASSUME SchedulerAssumption ==
    Main \in Thread /\ MaxTime \in Nat /\ MaxTasks \in Nat

(* A task is its TaskIdentifier, and these are the keys of mTasks in order.*)
Task == [time : Nat, number : Nat]

BeforeReversed(x, y) ==
    x.time < y.time \/ (x.time = y.time /\ x.number > y.number)

Before(x, y) ==
    x.time < y.time \/ (x.time = y.time /\ x.number < y.number)

ASSUME NoTaskAssumption == NoTask \notin Task

VARIABLES
    now,            \* clock::now()
    mTasks,
    mNextTaskNumber,
    call,           \* call[t]: the arguments of the call of schedule by t
    looping,        \* the main thread is in run
    running,        \* the task that it runs
    started,        \* the tasks that were run, in order
    cancelled,      \* the tasks that cancel has removed
    refused,        \* the tasks that cancel did not find
    enqueued        \* enqueued[t]: the tasks of t's calls of enqueue

vars == <<now, mTasks, mNextTaskNumber, call, looping, running, started,
          cancelled, refused, enqueued>>

Call == [time : Nat, enqueue : BOOLEAN]

ASSUME NoCallAssumption == NoCall \notin Call

TypeOK ==
    /\ now \in 0..MaxTime
    /\ mTasks \in SUBSET Task
    /\ mNextTaskNumber \in 0..MaxTasks
    /\ call \in [Thread -> Call \cup {NoCall}]
    /\ looping \in BOOLEAN
    /\ running \in Task \cup {NoTask}
    /\ started \in Seq(Task)
    /\ cancelled \in SUBSET Task /\ refused \in SUBSET Task
    /\ enqueued \in [Thread -> Seq(Task)]

InitMinusOne ==
    /\ now = 0
    /\ mTasks = {} /\ mNextTaskNumber = -1
    /\ call = [t \in Thread |-> NoCall]
    /\ looping = FALSE /\ running = NoTask
    /\ started = << >> /\ cancelled = {} /\ refused = {}
    /\ enqueued = [t \in Thread |-> << >>]

Init ==
    /\ now = 0
    /\ mTasks = {} /\ mNextTaskNumber = 0
    /\ call = [t \in Thread |-> NoCall]
    /\ looping = FALSE /\ running = NoTask
    /\ started = << >> /\ cancelled = {} /\ refused = {}
    /\ enqueued = [t \in Thread |-> << >>]

-----------------------------------------------------------------------------
Tick ==
    /\ now < MaxTime
    /\ now' = now + 1
    /\ UNCHANGED <<mTasks, mNextTaskNumber, call, looping, running, started,
                   cancelled, refused, enqueued>>

(* The main thread makes calls from the tasks that it runs.                *)
MayCall(t) == call[t] = NoCall /\ (t = Main => running # NoTask)

(* A call of schedule that has its time: now for enqueue, later or sooner  *)
(* for the others.                                                         *)
Begin(t, time, enqueue) ==
    /\ MayCall(t) /\ (enqueue => time = now)
    /\ mNextTaskNumber + Cardinality({u \in Thread : call[u] # NoCall}) < MaxTasks
    /\ call' = [call EXCEPT ![t] = [time |-> time, enqueue |-> enqueue]]
    /\ UNCHANGED <<now, mTasks, mNextTaskNumber, looping, running, started,
                   cancelled, refused, enqueued>>

(* schedule, from the lock on.                                             *)
ScheduleUncounted(t) ==
    LET task == [time |-> call[t].time, number |-> mNextTaskNumber]
    IN  /\ call[t] # NoCall
        /\ mTasks' = mTasks \cup {task}
        /\ call' = [call EXCEPT ![t] = NoCall]
        /\ enqueued' = [enqueued EXCEPT ![t] = IF call[t].enqueue
                                               THEN Append(@, task) ELSE @]
        /\ UNCHANGED <<now, mNextTaskNumber, looping, running, started, cancelled,
                       refused>>

Schedule(t) ==
    LET task == [time |-> call[t].time, number |-> mNextTaskNumber]
    IN  /\ call[t] # NoCall
        /\ mNextTaskNumber' = mNextTaskNumber + 1
        /\ mTasks' = mTasks \cup {task}
        /\ call' = [call EXCEPT ![t] = NoCall]
        /\ enqueued' = [enqueued EXCEPT ![t] = IF call[t].enqueue
                                               THEN Append(@, task) ELSE @]
        /\ UNCHANGED <<now, looping, running, started, cancelled, refused>>

Started == {started[i] : i \in DOMAIN started}

(* cancel, with the identifier that schedule has returned.                 *)
Cancel(task) ==
    /\ task \in mTasks \cup Started \cup cancelled
    /\ IF task \in mTasks
       THEN cancelled' = cancelled \cup {task} /\ UNCHANGED refused
       ELSE refused' = refused \cup {task} /\ UNCHANGED cancelled
    /\ mTasks' = mTasks \ {task}
    /\ UNCHANGED <<now, mNextTaskNumber, call, looping, running, started, enqueued>>

(* Node::update gets to the scheduler.                                     *)
Run ==
    /\ ~looping
    /\ looping' = TRUE
    /\ UNCHANGED <<now, mTasks, mNextTaskNumber, call, running, started, cancelled,
                   refused, enqueued>>

IsFirst(task) == task \in mTasks /\ \A x \in mTasks \ {task} : Before(task, x)

IsDueLate(task) == task.time < now

IsDue(task) == task.time <= now

(* dequeue: the first task if it is due.                                   *)
Dequeue ==
    \E task \in mTasks :
      /\ looping /\ running = NoTask /\ IsFirst(task) /\ IsDue(task)
      /\ mTasks' = mTasks \ {task}
      /\ running' = task
      /\ started' = Append(started, task)
      /\ UNCHANGED <<now, mNextTaskNumber, call, looping, cancelled, refused, enqueued>>

(* run returns: no task is due.                                            *)
RunReturns ==
    /\ looping /\ running = NoTask
    /\ \A task \in mTasks : IsFirst(task) => ~ IsDue(task)
    /\ looping' = FALSE
    /\ UNCHANGED <<now, mTasks, mNextTaskNumber, call, running, started, cancelled,
                   refused, enqueued>>

(* A task returns or throws, which runOne catches.                         *)
EndTask ==
    /\ running # NoTask /\ call[Main] = NoCall
    /\ running' = NoTask
    /\ UNCHANGED <<now, mTasks, mNextTaskNumber, call, looping, started, cancelled,
                   refused, enqueued>>

Loop == Run \/ Dequeue \/ RunReturns \/ Schedule(Main)

Next ==
    \/ Tick \/ Loop \/ EndTask
    \/ \E t \in Thread :
         \/ \E time \in 0..MaxTime, enqueue \in BOOLEAN : Begin(t, time, enqueue)
         \/ Schedule(t)
    \/ \E task \in mTasks \cup Started \cup cancelled : Cancel(task)

Spec == Init /\ [][Next]_vars

(* Time passes, Node::update is called again and again, and calls end.     *)
(* Tasks need not.                                                         *)
Fairness ==
    /\ WF_vars(Tick) /\ WF_vars(Loop)
    /\ \A t \in Thread : WF_vars(Schedule(t))

FairSpec == Spec /\ Fairness

-----------------------------------------------------------------------------
(* A task that was scheduled waits, was run once, or was cancelled, and    *)
(* only one of these: cancel returns true only for a task that is not run, *)
(* and false only for one that was run or cancelled before, in whatever    *)
(* order the threads and run get the lock.                                 *)
EveryTaskHasOneFate ==
    /\ \A i, j \in DOMAIN started : i # j => started[i] # started[j]
    /\ mTasks \cap (Started \cup cancelled) = {} /\ Started \cap cancelled = {}
    /\ mNextTaskNumber = Cardinality(mTasks \cup Started \cup cancelled)
    /\ refused \subseteq Started \cup cancelled

(* The tasks that a thread enqueues are run in the order of its calls,     *)
(* whatever the clock does between a call's reading of it and the lock,    *)
(* and when several calls read the same time: only a cancelled one is      *)
(* passed over.                                                            *)
EnqueuedInOrder ==
    \A t \in Thread : \A i, j \in DOMAIN enqueued[t] :
      i < j => \A l \in DOMAIN started :
        started[l] = enqueued[t][j] =>
          enqueued[t][i] \in cancelled \cup {started[k] : k \in 1..(l - 1)}

(* If run returns again and again, every task is run or cancelled in the   *)
(* end, whatever the other tasks schedule or throw.  The condition is      *)
(* needed: a task that schedules itself anew for a time that has passed is *)
(* always the first one, and those that are due later wait for ever.       *)
TasksRun ==
    []<>(~looping) =>
      \A number \in 0..(MaxTasks - 1) :
        (\E task \in mTasks : task.number = number)
          ~> (\A task \in mTasks : task.number # number)

=============================================================================
