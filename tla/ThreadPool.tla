----------------------------- MODULE ThreadPool -----------------------------
(***************************************************************************)
(* The bounded task queue of Threadpool.cc: workers that take tasks,       *)
(* threads that add them, a mutex and two condition variables.             *)
(*                                                                         *)
(* A critical section is one step; a wait on a condition variable is a     *)
(* place of its own ("notempty", "notfull"), which a signal, a broadcast   *)
(* or a spurious wakeup ends.  A task of Adders may add tasks itself.      *)
(* start() and stop() are called once each.                                *)
(***************************************************************************)
EXTENDS Naturals, Sequences, FiniteSets, Functions

CONSTANTS
    Workers,        \* the threads of the pool
    Callers,        \* the other threads
    Tasks,
    Adders,         \* tasks that call addTask
    NoTask,
    MaxWaits,       \* the constructor's argument
    Garbage         \* what the memory of m_max_waits may hold before it

ASSUME ThreadPoolAssumption ==
    /\ Workers \cap Callers = {}
    /\ IsFiniteSet(Workers)
    /\ IsFiniteSet(Callers)
    /\ Adders \subseteq Tasks
    /\ NoTask \notin Tasks
    /\ MaxWaits \in Nat
    /\ Garbage \subseteq Nat

Threads == Workers \cup Callers

VARIABLES
    m_running,
    m_started,      \* m_threads is not empty
    m_max_waits,
    m_tasks,
    pc,             \* where each thread is
    task,           \* the task a worker has taken, until it returns
    adding,         \* the task a thread is adding
    unposted,       \* tasks nobody has added yet
    begun           \* tasks in the order they were begun

vars == <<m_running, m_started, m_max_waits, m_tasks, pc, task, adding,
          unposted, begun>>

(* isFull, with several threads waiting for the same room: the queue is    *)
(* never longer than m_max_waits.                                          *)
QueueBounded == m_max_waits > 0 => Len(m_tasks) <= m_max_waits

TypeOK ==
    /\ m_running \in BOOLEAN
    /\ m_started \in BOOLEAN
    /\ m_max_waits \in Nat
    /\ m_tasks \in Seq(Tasks)
    /\ QueueBounded
    /\ pc \in [Threads -> {"idle", "add", "notfull", "while", "get",
                           "notempty", "begin", "task", "join", "exit"}]
    /\ task \in [Workers -> Tasks \cup {NoTask}]
    /\ adding \in [Threads -> Tasks \cup {NoTask}]
    /\ unposted \subseteq Tasks
    /\ begun \in Seq(Tasks)

(* The constructor initialises m_max_waits with itself.                    *)
Init ==
    /\ m_running = FALSE
    /\ m_started = FALSE
    /\ m_max_waits \in Garbage
    /\ m_tasks = <<>>
    /\ pc = [t \in Threads |-> "idle"]
    /\ task = [w \in Workers |-> NoTask]
    /\ adding = [t \in Threads |-> NoTask]
    /\ unposted = Tasks
    /\ begun = <<>>

Waiting(p, cond) == {t \in Threads : p[t] = cond}

(* Where threads may be after cond is signalled: one that waits on it, if  *)
(* any does, goes back to its test.                                        *)
Signalled(p, cond, test) ==
    IF Waiting(p, cond) = {} THEN {p}
    ELSE {[p EXCEPT ![t] = test] : t \in Waiting(p, cond)}

(* Mutant of Broadcast: only the workers are woken.                        *)
Broadcast_NotEmpty(p) ==
    [t \in Threads |-> IF p[t] = "notempty" THEN "get" ELSE p[t]]

Broadcast(p) ==
    [t \in Threads |-> IF p[t] = "notempty" THEN "get"
                       ELSE IF p[t] = "notfull" THEN "add" ELSE p[t]]

IsFull == m_max_waits > 0 /\ Len(m_tasks) >= m_max_waits

(* Where a thread is before and after addTask.                             *)
Outside(t) == IF t \in Workers THEN "task" ELSE "idle"

-----------------------------------------------------------------------------
Start ==
    /\ ~m_started
    /\ Workers # {}
    /\ m_running' = TRUE
    /\ m_started' = TRUE
    /\ pc' = [t \in Threads |-> IF t \in Workers THEN "while" ELSE pc[t]]
    /\ UNCHANGED <<m_max_waits, m_tasks, task, adding, unposted, begun>>

(* addTask with no threads runs the task.                                  *)
AddTaskHere(t, k) ==
    /\ ~m_started
    /\ t \in Callers
    /\ k \in unposted
    /\ unposted' = unposted \ {k}
    /\ begun' = Append(begun, k)
    /\ UNCHANGED <<m_running, m_started, m_max_waits, m_tasks, pc, task,
                   adding>>

AddTask(t, k) ==
    /\ m_started
    /\ pc[t] = Outside(t)
    /\ t \in Workers => task[t] \in Adders
    /\ k \in unposted
    /\ unposted' = unposted \ {k}
    /\ adding' = [adding EXCEPT ![t] = k]
    /\ pc' = [pc EXCEPT ![t] = "add"]
    /\ UNCHANGED <<m_running, m_started, m_max_waits, m_tasks, task, begun>>

(* Mutant of WaitForRoom: if for while.                                    *)
WaitForRoom_Once(t) ==
    /\ pc[t] = "add"
    /\ IsFull /\ m_running
    /\ pc' \in {[pc EXCEPT ![t] = "notfull"], [pc EXCEPT ![t] = Outside(t)]}
    /\ IF pc'[t] = "notfull"
           THEN UNCHANGED <<adding, m_tasks>>
           ELSE /\ m_tasks' = Append(m_tasks, adding[t])
                /\ adding' = [adding EXCEPT ![t] = NoTask]
    /\ UNCHANGED <<m_running, m_started, m_max_waits, task, unposted, begun>>

WaitForRoom(t) ==
    /\ pc[t] = "add"
    /\ IsFull /\ m_running
    /\ pc' = [pc EXCEPT ![t] = "notfull"]
    /\ UNCHANGED <<m_running, m_started, m_max_waits, m_tasks, task, adding,
                   unposted, begun>>

(* Mutant of Push: no signal.                                              *)
Push_NoSignal(t) ==
    /\ pc[t] = "add"
    /\ ~IsFull /\ m_running
    /\ m_tasks' = Append(m_tasks, adding[t])
    /\ adding' = [adding EXCEPT ![t] = NoTask]
    /\ pc' = [pc EXCEPT ![t] = Outside(t)]
    /\ UNCHANGED <<m_running, m_started, m_max_waits, task, unposted, begun>>

Push(t) ==
    /\ pc[t] = "add"
    /\ ~IsFull /\ m_running
    /\ m_tasks' = Append(m_tasks, adding[t])
    /\ adding' = [adding EXCEPT ![t] = NoTask]
    /\ pc' \in Signalled([pc EXCEPT ![t] = Outside(t)], "notempty", "get")
    /\ UNCHANGED <<m_running, m_started, m_max_waits, task, unposted, begun>>

(* A stopped pool refuses the task, and says nothing.                      *)
Refuse(t) ==
    /\ pc[t] = "add"
    /\ ~m_running
    /\ adding' = [adding EXCEPT ![t] = NoTask]
    /\ pc' = [pc EXCEPT ![t] = Outside(t)]
    /\ UNCHANGED <<m_running, m_started, m_max_waits, m_tasks, task,
                   unposted, begun>>

-----------------------------------------------------------------------------
(* run() and getTask(): a worker.                                          *)

WhileTest(w) ==
    /\ pc[w] = "while"
    /\ pc' = [pc EXCEPT ![w] = IF m_running THEN "get" ELSE "exit"]
    /\ UNCHANGED <<m_running, m_started, m_max_waits, m_tasks, task, adding,
                   unposted, begun>>

WaitForTask(w) ==
    /\ pc[w] = "get"
    /\ m_tasks = <<>> /\ m_running
    /\ pc' = [pc EXCEPT ![w] = "notempty"]
    /\ UNCHANGED <<m_running, m_started, m_max_waits, m_tasks, task, adding,
                   unposted, begun>>

(* Mutants of Take: no signal; front() without pop_front().                *)
Take_NoSignal(w) ==
    /\ pc[w] = "get"
    /\ m_tasks # <<>>
    /\ task' = [task EXCEPT ![w] = Head(m_tasks)]
    /\ m_tasks' = Tail(m_tasks)
    /\ pc' = [pc EXCEPT ![w] = "begin"]
    /\ UNCHANGED <<m_running, m_started, m_max_waits, adding, unposted, begun>>

Take_NoPop(w) ==
    /\ pc[w] = "get"
    /\ m_tasks # <<>>
    /\ Len(begun) < Cardinality(Tasks) + 1
    /\ task' = [task EXCEPT ![w] = Head(m_tasks)]
    /\ pc' = [pc EXCEPT ![w] = "begin"]
    /\ UNCHANGED <<m_running, m_started, m_max_waits, m_tasks, adding,
                   unposted, begun>>

(* The lock is given up with the task in hand and not begun.               *)
Take(w) ==
    /\ pc[w] = "get"
    /\ m_tasks # <<>>
    /\ task' = [task EXCEPT ![w] = Head(m_tasks)]
    /\ m_tasks' = Tail(m_tasks)
    /\ LET p == [pc EXCEPT ![w] = "begin"] IN
       pc' \in IF m_max_waits > 0 THEN Signalled(p, "notfull", "add") ELSE {p}
    /\ UNCHANGED <<m_running, m_started, m_max_waits, adding, unposted, begun>>

(* The pool was stopped: an empty Task.                                    *)
TakeNothing(w) ==
    /\ pc[w] = "get"
    /\ m_tasks = <<>> /\ ~m_running
    /\ pc' = [pc EXCEPT ![w] = "while"]
    /\ UNCHANGED <<m_running, m_started, m_max_waits, m_tasks, task, adding,
                   unposted, begun>>

Begin(w) ==
    /\ pc[w] = "begin"
    /\ begun' = Append(begun, task[w])
    /\ pc' = [pc EXCEPT ![w] = "task"]
    /\ UNCHANGED <<m_running, m_started, m_max_waits, m_tasks, task, adding,
                   unposted>>

EndTask(w) ==
    /\ pc[w] = "task"
    /\ pc' = [pc EXCEPT ![w] = "while"]
    /\ task' = [task EXCEPT ![w] = NoTask]
    /\ UNCHANGED <<m_running, m_started, m_max_waits, m_tasks, adding,
                   unposted, begun>>

-----------------------------------------------------------------------------
(* stop(): m_running and the broadcasts under the lock, then the joins.    *)

Stop(t) ==
    /\ m_started /\ m_running
    /\ t \in Callers
    /\ pc[t] = "idle"
    /\ m_running' = FALSE
    /\ pc' = Broadcast([pc EXCEPT ![t] = "join"])
    /\ UNCHANGED <<m_started, m_max_waits, m_tasks, task, adding, unposted,
                   begun>>

Join(t) ==
    /\ pc[t] = "join"
    /\ \A w \in Workers : pc[w] = "exit"
    /\ pc' = [pc EXCEPT ![t] = "idle"]
    /\ UNCHANGED <<m_running, m_started, m_max_waits, m_tasks, task, adding,
                   unposted, begun>>

SpuriousWakeup(t) ==
    /\ \/ pc[t] = "notempty" /\ pc' = [pc EXCEPT ![t] = "get"]
       \/ pc[t] = "notfull" /\ pc' = [pc EXCEPT ![t] = "add"]
    /\ UNCHANGED <<m_running, m_started, m_max_waits, m_tasks, task, adding,
                   unposted, begun>>

-----------------------------------------------------------------------------
(* What a thread does without being asked or waiting for a signal.         *)
Step(t) ==
    \/ WaitForRoom(t)
    \/ Push(t)
    \/ Refuse(t)
    \/ t \in Workers /\ WhileTest(t)
    \/ t \in Workers /\ WaitForTask(t)
    \/ t \in Workers /\ Take(t)
    \/ t \in Workers /\ TakeNothing(t)
    \/ t \in Workers /\ Begin(t)
    \/ t \in Workers /\ EndTask(t)
    \/ Join(t)

Next ==
    \/ Start
    \/ \E t \in Threads, k \in Tasks : AddTaskHere(t, k) \/ AddTask(t, k)
    \/ \E t \in Threads : Step(t) \/ Stop(t) \/ SpuriousWakeup(t)

Spec == Init /\ [][Next]_vars

(* Threads are scheduled, a mutex is got in the end, and tasks return.     *)
FairSpec == Spec /\ \A t \in Threads : WF_vars(Step(t))

-----------------------------------------------------------------------------
(* Properties.                                                             *)

(* addTask, getTask and run: tasks are taken in the order they were        *)
(* queued, each by one worker, which begins it once before it takes        *)
(* another; a task is overtaken only by tasks that other workers took      *)
(* after it while it was in its worker's hand; one that is refused is      *)
(* never begun.                                                            *)
InHand == [w \in Workers |-> IF pc[w] = "begin" THEN task[w] ELSE NoTask]

TQ == INSTANCE TaskQueue WITH
        queue <- m_tasks,
        hands <- InHand,
        unposted <- Tasks \ (Range(m_tasks) \cup Range(InHand) \cup Range(begun))

ImplementsTaskQueue == TQ!Spec

(* addTask signals one worker per task: a worker sleeps only while every   *)
(* queued task has another worker that is awake to take it.                *)
TasksAreNoticed ==
    (\E w \in Workers : pc[w] = "notempty")
        => Len(m_tasks) <= Cardinality({w \in Workers : pc[w] = "get"})

(* getTask signals one waiting thread per task taken: while there is room, *)
(* not all threads that want to add are asleep.                            *)
RoomIsNoticed ==
    (\E t \in Threads : pc[t] = "notfull") /\ ~IsFull
        => \E t \in Threads : pc[t] = "add"

(* No signal of either condition variable is lost.                         *)
SignalsArrive == TasksAreNoticed /\ RoomIsNoticed

(* stop() returns, also when workers are asleep, wait for room in the      *)
(* queue or start tasks while it is under way.                             *)
StopReturns == \A t \in Callers : pc[t] = "join" ~> pc[t] = "idle"

(* A queued task is begun, unless the pool is stopped or the workers all   *)
(* wait for room in the queue only they can make.                          *)
QueuedRuns ==
    []<>(\E w \in Workers : pc[w] \notin {"add", "notfull"})
        => \A k \in Tasks :
              k \in Range(m_tasks) ~> k \in Range(begun) \/ ~m_running

=============================================================================
