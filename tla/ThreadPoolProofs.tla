--------------------------- MODULE ThreadPoolProofs ---------------------------
(***************************************************************************)
(* For any finite numbers of workers and other threads, any tasks and any  *)
(* bound on the queue: the bound holds, no signal of either condition      *)
(* variable is lost, and the tasks are taken in the order of the queue and *)
(* begun at most once, each by the worker that took it.                    *)
(***************************************************************************)
EXTENDS ThreadPool, FiniteSetTheorems, TLAPS

Adding(t) == pc[t] \in {"add", "notfull"}

(* Where the threads of each kind can be.                                  *)
PlacesInv ==
    /\ \A t \in Threads : Adding(t) => adding[t] \in Tasks
    /\ \A t \in Threads : pc[t] \in {"notempty", "get"} => t \in Workers
    /\ \A t \in Threads : pc[t] = "notfull" => m_max_waits > 0
    /\ ~m_running => \A t \in Threads : pc[t] \notin {"notempty", "notfull"}
    /\ ~m_started => ~m_running /\ \A t \in Threads : pc[t] = "idle"
    /\ \A w \in Workers : pc[w] = "begin" => task[w] \in Tasks

(* While a thread waits for room, each free place of the queue has a       *)
(* thread that is awake to fill it.                                        *)
RoomInv ==
    (\E t \in Threads : pc[t] = "notfull")
        => m_max_waits - Len(m_tasks)
               <= Cardinality({t \in Threads : pc[t] = "add"})

SignalInv == PlacesInv /\ TasksAreNoticed /\ RoomInv

PoolInv == TypeOK /\ SignalInv

-----------------------------------------------------------------------------
(* Counting the threads at a place.                                        *)

At(S, p, place) == {t \in S : p[t] = place}

LEMMA FiniteThreads == IsFiniteSet(Workers) /\ IsFiniteSet(Threads)
BY ThreadPoolAssumption, FS_Union DEF Threads

LEMMA CountType ==
    ASSUME NEW S, IsFiniteSet(S), NEW p, NEW place
    PROVE  /\ IsFiniteSet(At(S, p, place))
           /\ Cardinality(At(S, p, place)) \in Nat
<1>1. At(S, p, place) \in SUBSET S
  BY DEF At
<1> QED
  BY <1>1, FS_Subset, FS_CardinalityType

(* At least as many threads are at a place that none has left.             *)
LEMMA CountGrows ==
    ASSUME NEW S, IsFiniteSet(S), NEW p, NEW q, NEW place,
           \A t \in S : p[t] = place => q[t] = place
    PROVE  Cardinality(At(S, p, place)) <= Cardinality(At(S, q, place))
<1>1. At(S, p, place) \in SUBSET At(S, q, place)
  BY DEF At
<1> QED
  BY <1>1, CountType, FS_Subset

(* One more when a thread has come and none has left.                      *)
LEMMA CountEnters ==
    ASSUME NEW S, IsFiniteSet(S), NEW p, NEW q, NEW place, NEW u \in S,
           p[u] # place, q[u] = place,
           \A t \in S : p[t] = place => q[t] = place
    PROVE  Cardinality(At(S, p, place)) + 1 <= Cardinality(At(S, q, place))
<1>1. Cardinality(At(S, p, place) \cup {u}) = Cardinality(At(S, p, place)) + 1
  <2>1. u \notin At(S, p, place)
    BY DEF At
  <2> QED
    BY <2>1, CountType, FS_AddElement
<1>2. At(S, p, place) \cup {u} \in SUBSET At(S, q, place)
  BY DEF At
<1> QED
  BY <1>1, <1>2, CountType, FS_Subset

(* At most one fewer when only one thread has left.                        *)
LEMMA CountLeaves ==
    ASSUME NEW S, IsFiniteSet(S), NEW p, NEW q, NEW place, NEW u,
           \A t \in S \ {u} : p[t] = place => q[t] = place
    PROVE  Cardinality(At(S, p, place)) <= Cardinality(At(S, q, place)) + 1
<1>1. At(S, p, place) \in SUBSET (At(S, q, place) \cup {u})
  BY DEF At
<1>2. /\ IsFiniteSet(At(S, q, place) \cup {u})
      /\ Cardinality(At(S, q, place) \cup {u}) <= Cardinality(At(S, q, place)) + 1
  BY CountType, FS_AddElement
<1> QED
  BY <1>1, <1>2, CountType, FS_Subset, FS_CardinalityType

(* No fewer when one has left and another has come.                        *)
LEMMA CountSwaps ==
    ASSUME NEW S, IsFiniteSet(S), NEW p, NEW q, NEW place, NEW u, NEW v \in S,
           p[v] # place, q[v] = place,
           \A t \in S \ {u} : p[t] = place => q[t] = place
    PROVE  Cardinality(At(S, p, place)) <= Cardinality(At(S, q, place))
<1> DEFINE Others == At(S, q, place) \ {v}
<1>1. At(S, p, place) \in SUBSET (Others \cup {u})
  BY DEF At
<1>2. IsFiniteSet(Others) /\ Cardinality(Others) = Cardinality(At(S, q, place)) - 1
  <2>1. v \in At(S, q, place)
    BY DEF At
  <2> QED
    BY <2>1, CountType, FS_RemoveElement
<1> HIDE DEF Others
<1>3. Cardinality(At(S, q, place)) \in Nat
  BY CountType
<1>4. /\ IsFiniteSet(Others \cup {u})
      /\ Cardinality(Others \cup {u}) \in {Cardinality(Others), Cardinality(Others) + 1}
  BY <1>2, FS_AddElement
<1>5. Cardinality(At(S, p, place)) <= Cardinality(Others \cup {u})
  BY <1>1, <1>4, FS_Subset
<1>6. Cardinality(At(S, p, place)) \in Nat
  BY CountType
<1> QED
  BY <1>2, <1>3, <1>4, <1>5, <1>6

-----------------------------------------------------------------------------
(* Types and the bound.                                                    *)

Places == {"idle", "add", "notfull", "while", "get", "notempty", "begin",
           "task", "join", "exit"}

(* A signal wakes one of the threads that wait, if any do.                 *)
LEMMA SignalWakes ==
    ASSUME NEW p, NEW cond, NEW test, NEW q \in Signalled(p, cond, test)
    PROVE  \/ q = p /\ \A t \in Threads : p[t] # cond
           \/ \E u \in Threads : p[u] = cond /\ q = [p EXCEPT ![u] = test]
BY DEF Signalled, Waiting

LEMMA SignalType ==
    ASSUME NEW p \in [Threads -> Places], NEW cond, NEW test \in Places,
           NEW q \in Signalled(p, cond, test)
    PROVE  q \in [Threads -> Places]
BY SignalWakes

LEMMA OutsideType == \A t \in Threads : Outside(t) \in {"task", "idle"}
BY DEF Outside

LEMMA TypeInit == Init => TypeOK
<1> SUFFICES ASSUME Init PROVE TypeOK
  OBVIOUS
<1>1. m_max_waits \in Nat
  BY ThreadPoolAssumption DEF Init
<1>2. m_tasks \in Seq(Tasks) /\ begun \in Seq(Tasks) /\ Len(m_tasks) = 0
  BY DEF Init
<1>3. QueueBounded
  BY <1>1, <1>2 DEF QueueBounded
<1>4. /\ pc \in [Threads -> Places]
      /\ task \in [Workers -> Tasks \cup {NoTask}]
      /\ adding \in [Threads -> Tasks \cup {NoTask}]
  BY DEF Init, Places
<1> QED
  BY <1>1, <1>2, <1>3, <1>4 DEF Init, TypeOK, Places

LEMMA TypeNext == PoolInv /\ [Next]_vars => TypeOK'
<1> SUFFICES ASSUME PoolInv, [Next]_vars
             PROVE  TypeOK'
  OBVIOUS
<1> USE DEF PoolInv
<1>0. /\ TypeOK
      /\ pc \in [Threads -> Places]
      /\ Len(m_tasks) \in Nat
  BY DEF TypeOK, Places
<1>1. CASE Start
  BY <1>1, <1>0 DEF Start, TypeOK, QueueBounded
<1>2. ASSUME NEW t \in Threads, NEW k \in Tasks, AddTaskHere(t, k)
      PROVE  TypeOK'
  BY <1>2, <1>0 DEF AddTaskHere, TypeOK, QueueBounded
<1>3. ASSUME NEW t \in Threads, NEW k \in Tasks, AddTask(t, k)
      PROVE  TypeOK'
  BY <1>3, <1>0 DEF AddTask, TypeOK, QueueBounded
<1>4. ASSUME NEW t \in Threads, WaitForRoom(t)
      PROVE  TypeOK'
  BY <1>4, <1>0 DEF WaitForRoom, TypeOK, QueueBounded
<1>5. ASSUME NEW t \in Threads, Push(t)
      PROVE  TypeOK'
  <2>1. adding[t] \in Tasks
    BY <1>5 DEF Push, SignalInv, PlacesInv, Adding
  <2>2. m_tasks' \in Seq(Tasks) /\ Len(m_tasks') = Len(m_tasks) + 1
    BY <2>1, <1>5, <1>0 DEF Push, TypeOK
  <2>3. QueueBounded'
    BY <2>2, <1>5, <1>0 DEF Push, QueueBounded, IsFull, TypeOK
  <2>4. pc' \in [Threads -> Places]
    <3>1. [pc EXCEPT ![t] = Outside(t)] \in [Threads -> Places]
      BY <1>0, OutsideType DEF Places
    <3> QED
      BY <3>1, <1>5, SignalType DEF Push, Places
  <2> QED
    BY <2>2, <2>3, <2>4, <1>5, <1>0 DEF Push, TypeOK, Places
<1>6. ASSUME NEW t \in Threads, Refuse(t)
      PROVE  TypeOK'
  BY <1>6, <1>0, OutsideType DEF Refuse, TypeOK, QueueBounded
<1>7. ASSUME NEW t \in Workers, WhileTest(t)
      PROVE  TypeOK'
  BY <1>7, <1>0 DEF WhileTest, TypeOK, QueueBounded
<1>8. ASSUME NEW t \in Workers, WaitForTask(t)
      PROVE  TypeOK'
  BY <1>8, <1>0 DEF WaitForTask, TypeOK, QueueBounded
<1>9. ASSUME NEW t \in Workers, Take(t)
      PROVE  TypeOK'
  <2>1. /\ Head(m_tasks) \in Tasks
        /\ m_tasks' \in Seq(Tasks)
        /\ Len(m_tasks') = Len(m_tasks) - 1
    BY <1>9, <1>0 DEF Take, TypeOK
  <2>2. QueueBounded'
    BY <2>1, <1>9, <1>0 DEF Take, TypeOK, QueueBounded
  <2>3. pc' \in [Threads -> Places]
    <3>1. [pc EXCEPT ![t] = "begin"] \in [Threads -> Places]
      BY <1>0 DEF Places
    <3> QED
      BY <3>1, <1>9, SignalType DEF Take, Places
  <2> QED
    BY <2>1, <2>2, <2>3, <1>9, <1>0 DEF Take, TypeOK, Places
<1>10. ASSUME NEW t \in Workers, TakeNothing(t)
       PROVE  TypeOK'
  BY <1>10, <1>0 DEF TakeNothing, TypeOK, QueueBounded
<1>11. ASSUME NEW t \in Workers, EndTask(t)
       PROVE  TypeOK'
  BY <1>11, <1>0 DEF EndTask, TypeOK, QueueBounded
<1>12. ASSUME NEW t \in Threads, Stop(t)
       PROVE  TypeOK'
  BY <1>12, <1>0 DEF Stop, Broadcast, TypeOK, QueueBounded
<1>13. ASSUME NEW t \in Threads, Join(t)
       PROVE  TypeOK'
  BY <1>13, <1>0 DEF Join, TypeOK, QueueBounded
<1>14. ASSUME NEW t \in Threads, SpuriousWakeup(t)
       PROVE  TypeOK'
  BY <1>14, <1>0 DEF SpuriousWakeup, TypeOK, QueueBounded
<1>15. CASE UNCHANGED vars
  BY <1>15 DEF vars, TypeOK, QueueBounded
<1>16. ASSUME NEW t \in Workers, Begin(t)
       PROVE  TypeOK'
  <2>1. task[t] \in Tasks
    BY <1>16, <1>0 DEF Begin, SignalInv, PlacesInv
  <2>2. begun' \in Seq(Tasks)
    BY <2>1, <1>16, <1>0 DEF Begin, TypeOK
  <2> QED
    BY <2>2, <1>16, <1>0 DEF Begin, TypeOK, QueueBounded
<1> QED
  BY <1>1, <1>2, <1>3, <1>4, <1>5, <1>6, <1>7, <1>8, <1>9, <1>10, <1>11,
     <1>12, <1>13, <1>14, <1>15, <1>16
  DEF Next, Step

-----------------------------------------------------------------------------
(* The places, and the signals of both condition variables.                *)

LEMMA PlacesNext == PoolInv /\ [Next]_vars => PlacesInv'
<1> SUFFICES ASSUME PoolInv, [Next]_vars
             PROVE  PlacesInv'
  OBVIOUS
<1>0. /\ TypeOK
      /\ PlacesInv
      /\ Workers \subseteq Threads
      /\ pc \in [Threads -> Places]
      /\ adding \in [Threads -> Tasks \cup {NoTask}]
  BY DEF PoolInv, SignalInv, TypeOK, Threads, Places
<1>1. CASE Start
  BY <1>1, <1>0 DEF Start, PlacesInv, Adding
<1>2. ASSUME NEW t \in Threads, NEW k \in Tasks, AddTaskHere(t, k)
      PROVE  PlacesInv'
  BY <1>2, <1>0 DEF AddTaskHere, PlacesInv, Adding
<1>3. ASSUME NEW t \in Threads, NEW k \in Tasks, AddTask(t, k)
      PROVE  PlacesInv'
  BY <1>3, <1>0 DEF AddTask, PlacesInv, Adding
<1>4. ASSUME NEW t \in Threads, WaitForRoom(t)
      PROVE  PlacesInv'
  BY <1>4, <1>0 DEF WaitForRoom, PlacesInv, Adding, IsFull
<1>5. ASSUME NEW t \in Threads, Push(t)
      PROVE  PlacesInv'
  <2> DEFINE p == [pc EXCEPT ![t] = Outside(t)]
  <2>1. pc' = p \/ \E u \in Threads : p[u] = "notempty" /\ pc' = [p EXCEPT ![u] = "get"]
    <3>1. pc' \in Signalled(p, "notempty", "get")
      BY <1>5 DEF Push
    <3> HIDE DEF p
    <3> QED
      BY <3>1, SignalWakes
  <2>2. /\ m_running /\ m_running'
        /\ UNCHANGED <<m_started, m_max_waits, task>>
        /\ adding' = [adding EXCEPT ![t] = NoTask]
    BY <1>5 DEF Push
  <2>3. CASE pc' = p
    BY <2>2, <2>3, <1>0, OutsideType DEF PlacesInv, Adding
  <2>4. ASSUME NEW u \in Threads, p[u] = "notempty", pc' = [p EXCEPT ![u] = "get"]
        PROVE  PlacesInv'
    <3>1. u # t /\ u \in Workers
      BY <2>4, <1>0, OutsideType DEF PlacesInv
    <3> QED
      BY <3>1, <2>2, <2>4, <1>0, OutsideType DEF PlacesInv, Adding
  <2> QED
    BY <2>1, <2>3, <2>4
<1>6. ASSUME NEW t \in Threads, Refuse(t)
      PROVE  PlacesInv'
  BY <1>6, <1>0, OutsideType DEF Refuse, PlacesInv, Adding
<1>7. ASSUME NEW t \in Workers, WhileTest(t)
      PROVE  PlacesInv'
  BY <1>7, <1>0 DEF WhileTest, PlacesInv, Adding
<1>8. ASSUME NEW t \in Workers, WaitForTask(t)
      PROVE  PlacesInv'
  BY <1>8, <1>0 DEF WaitForTask, PlacesInv, Adding
<1>9. ASSUME NEW t \in Workers, Take(t)
      PROVE  PlacesInv'
  <2> DEFINE p == [pc EXCEPT ![t] = "begin"]
  <2>1. pc' = p \/ \E u \in Threads : p[u] = "notfull" /\ pc' = [p EXCEPT ![u] = "add"]
    <3>1. pc' = p \/ pc' \in Signalled(p, "notfull", "add")
      BY <1>9 DEF Take
    <3> HIDE DEF p
    <3> QED
      BY <3>1, SignalWakes
  <2>2. /\ UNCHANGED <<m_running, m_started, m_max_waits, adding>>
        /\ pc[t] = "get"
        /\ m_started
        /\ task'[t] \in Tasks
        /\ \A w \in Workers \ {t} : task'[w] = task[w]
    BY <1>9, <1>0 DEF Take, TypeOK, PlacesInv
  <2>3. CASE pc' = p
    BY <2>2, <2>3, <1>0 DEF PlacesInv, Adding
  <2>4. ASSUME NEW u \in Threads, p[u] = "notfull", pc' = [p EXCEPT ![u] = "add"]
        PROVE  PlacesInv'
    <3>1. u # t /\ pc[u] = "notfull"
      BY <2>4, <1>0
    <3> QED
      BY <3>1, <2>2, <2>4, <1>0 DEF PlacesInv, Adding
  <2> QED
    BY <2>1, <2>3, <2>4
<1>10. ASSUME NEW t \in Workers, TakeNothing(t)
       PROVE  PlacesInv'
  BY <1>10, <1>0 DEF TakeNothing, PlacesInv, Adding
<1>11. ASSUME NEW t \in Workers, EndTask(t)
       PROVE  PlacesInv'
  BY <1>11, <1>0 DEF EndTask, PlacesInv, Adding
<1>12. ASSUME NEW t \in Threads, Stop(t)
       PROVE  PlacesInv'
  BY <1>12, <1>0 DEF Stop, Broadcast, PlacesInv, Adding
<1>13. ASSUME NEW t \in Threads, Join(t)
       PROVE  PlacesInv'
  BY <1>13, <1>0 DEF Join, PlacesInv, Adding
<1>14. ASSUME NEW t \in Threads, SpuriousWakeup(t)
       PROVE  PlacesInv'
  BY <1>14, <1>0 DEF SpuriousWakeup, PlacesInv, Adding
<1>15. CASE UNCHANGED vars
  BY <1>15, <1>0 DEF vars, PlacesInv, Adding
<1>16. ASSUME NEW t \in Workers, Begin(t)
       PROVE  PlacesInv'
  BY <1>16, <1>0 DEF Begin, PlacesInv, Adding
<1> QED
  BY <1>1, <1>2, <1>3, <1>4, <1>5, <1>6, <1>7, <1>8, <1>9, <1>10, <1>11,
     <1>12, <1>13, <1>14, <1>15, <1>16
  DEF Next, Step

(* A worker that falls or stays asleep leaves no task without another.     *)
LEMMA TasksNext == PoolInv /\ [Next]_vars => TasksAreNoticed'
<1> SUFFICES ASSUME PoolInv, [Next]_vars,
                    \E w \in Workers : pc'[w] = "notempty"
             PROVE  Len(m_tasks') <= Cardinality(At(Workers, pc', "get"))
  BY DEF TasksAreNoticed, At
<1> DEFINE Awake(p) == Cardinality(At(Workers, p, "get"))
           Asleep(p) == \E w \in Workers : p[w] = "notempty"
<1>0. /\ TypeOK
      /\ PlacesInv
      /\ Workers \subseteq Threads
      /\ pc \in [Threads -> Places]
      /\ Len(m_tasks) \in Nat
      /\ Asleep(pc) => Len(m_tasks) <= Awake(pc)
  BY DEF PoolInv, SignalInv, TypeOK, Threads, Places, TasksAreNoticed, At
<1>a. Awake(pc) \in Nat /\ Awake(pc') \in Nat
  BY FiniteThreads, CountType
<1>b. ASSUME Asleep(pc), m_tasks' = m_tasks,
             \A w \in Workers : pc[w] = "get" => pc'[w] = "get"
      PROVE  Len(m_tasks') <= Awake(pc')
  <2>1. Awake(pc) <= Awake(pc')
    BY <1>b, FiniteThreads, CountGrows
  <2> HIDE DEF Awake
  <2> QED
    BY <2>1, <1>b, <1>a, <1>0
<1>1. CASE Start
  <2>1. ~Asleep(pc')
    BY <1>1, <1>0 DEF Start
  <2> QED
    BY <2>1
<1>2. ASSUME NEW t \in Threads, NEW k \in Tasks, AddTaskHere(t, k)
      PROVE  Len(m_tasks') <= Awake(pc')
  BY <1>2, <1>b DEF AddTaskHere
<1>3. ASSUME NEW t \in Threads, NEW k \in Tasks, AddTask(t, k)
      PROVE  Len(m_tasks') <= Awake(pc')
  <2>1. /\ pc[t] # "get" /\ m_tasks' = m_tasks
        /\ pc' = [pc EXCEPT ![t] = "add"]
    BY <1>3, OutsideType DEF AddTask
  <2> HIDE DEF Awake
  <2> QED
    BY <2>1, <1>0, <1>b
<1>4. ASSUME NEW t \in Threads, WaitForRoom(t)
      PROVE  Len(m_tasks') <= Awake(pc')
  <2>1. /\ pc[t] = "add" /\ m_tasks' = m_tasks
        /\ pc' = [pc EXCEPT ![t] = "notfull"]
    BY <1>4 DEF WaitForRoom
  <2> HIDE DEF Awake
  <2> QED
    BY <2>1, <1>0, <1>b
<1>5. ASSUME NEW t \in Threads, Push(t)
      PROVE  Len(m_tasks') <= Awake(pc')
  <2> DEFINE p == [pc EXCEPT ![t] = Outside(t)]
  <2>1. \/ pc' = p /\ \A u \in Threads : p[u] # "notempty"
        \/ \E u \in Threads : p[u] = "notempty" /\ pc' = [p EXCEPT ![u] = "get"]
    <3>1. pc' \in Signalled(p, "notempty", "get")
      BY <1>5 DEF Push
    <3> HIDE DEF p
    <3> QED
      BY <3>1, SignalWakes
  <2>2. PICK u \in Threads : p[u] = "notempty" /\ pc' = [p EXCEPT ![u] = "get"]
    BY <2>1, <1>0
  <2>3. u # t /\ pc[u] = "notempty" /\ u \in Workers
    BY <2>2, <1>0, OutsideType DEF PlacesInv
  <2>4. /\ pc'[u] = "get"
        /\ \A w \in Workers : pc[w] = "get" => pc'[w] = "get"
    BY <2>2, <1>0, <1>5 DEF Push
  <2>5. Awake(pc) + 1 <= Awake(pc')
    BY <2>3, <2>4, FiniteThreads, CountEnters
  <2>6. Len(m_tasks') = Len(m_tasks) + 1
    BY <1>5, <1>0 DEF Push, PlacesInv, Adding, TypeOK
  <2> HIDE DEF Awake, p
  <2> QED
    BY <2>3, <2>5, <2>6, <1>a, <1>0
<1>6. ASSUME NEW t \in Threads, Refuse(t)
      PROVE  Len(m_tasks') <= Awake(pc')
  <2>1. /\ pc[t] = "add" /\ m_tasks' = m_tasks
        /\ pc' = [pc EXCEPT ![t] = Outside(t)]
    BY <1>6 DEF Refuse
  <2> HIDE DEF Awake
  <2> QED
    BY <2>1, <1>0, <1>b, OutsideType
<1>7. ASSUME NEW t \in Workers, WhileTest(t)
      PROVE  Len(m_tasks') <= Awake(pc')
  <2>1. /\ pc[t] = "while" /\ m_tasks' = m_tasks
        /\ pc' \in {[pc EXCEPT ![t] = "get"], [pc EXCEPT ![t] = "exit"]}
    BY <1>7 DEF WhileTest
  <2> HIDE DEF Awake
  <2> QED
    BY <2>1, <1>0, <1>b
<1>8. ASSUME NEW t \in Workers, WaitForTask(t)
      PROVE  Len(m_tasks') <= Awake(pc')
  <2>1. m_tasks' = <<>>
    BY <1>8 DEF WaitForTask
  <2> HIDE DEF Awake
  <2> QED
    BY <2>1, <1>a
<1>9. ASSUME NEW t \in Workers, Take(t)
      PROVE  Len(m_tasks') <= Awake(pc')
  <2> DEFINE p == [pc EXCEPT ![t] = "begin"]
  <2>1. \/ pc' = p
        \/ \E u \in Threads : p[u] = "notfull" /\ pc' = [p EXCEPT ![u] = "add"]
    <3>1. pc' = p \/ pc' \in Signalled(p, "notfull", "add")
      BY <1>9 DEF Take
    <3> HIDE DEF p
    <3> QED
      BY <3>1, SignalWakes
  <2>2. /\ Asleep(pc)
        /\ \A w \in Workers \ {t} : pc[w] = "get" => pc'[w] = "get"
    <3>1. CASE pc' = p
      BY <3>1, <1>0
    <3>2. ASSUME NEW u \in Threads, p[u] = "notfull", pc' = [p EXCEPT ![u] = "add"]
          PROVE  /\ Asleep(pc)
                 /\ \A w \in Workers \ {t} : pc[w] = "get" => pc'[w] = "get"
      BY <3>2, <1>0
    <3> QED
      BY <2>1, <3>1, <3>2
  <2>3. Awake(pc) <= Awake(pc') + 1
    BY <2>2, FiniteThreads, CountLeaves
  <2>4. Len(m_tasks') = Len(m_tasks) - 1
    BY <1>9, <1>0 DEF Take, TypeOK
  <2> HIDE DEF Awake
  <2> QED
    BY <2>2, <2>3, <2>4, <1>a, <1>0
<1>10. ASSUME NEW t \in Workers, TakeNothing(t)
       PROVE  Len(m_tasks') <= Awake(pc')
  <2>1. m_tasks' = <<>>
    BY <1>10 DEF TakeNothing
  <2> HIDE DEF Awake
  <2> QED
    BY <2>1, <1>a
<1>11. ASSUME NEW t \in Workers, EndTask(t)
       PROVE  Len(m_tasks') <= Awake(pc')
  <2>1. /\ pc[t] = "task" /\ m_tasks' = m_tasks
        /\ pc' = [pc EXCEPT ![t] = "while"]
    BY <1>11 DEF EndTask
  <2> HIDE DEF Awake
  <2> QED
    BY <2>1, <1>0, <1>b
<1>12. ASSUME NEW t \in Threads, Stop(t)
       PROVE  Len(m_tasks') <= Awake(pc')
  <2>1. ~Asleep(pc')
    BY <1>12, <1>0 DEF Stop, Broadcast
  <2> QED
    BY <2>1
<1>13. ASSUME NEW t \in Threads, Join(t)
       PROVE  Len(m_tasks') <= Awake(pc')
  <2>1. /\ pc[t] = "join" /\ m_tasks' = m_tasks
        /\ pc' = [pc EXCEPT ![t] = "idle"]
    BY <1>13 DEF Join
  <2> HIDE DEF Awake
  <2> QED
    BY <2>1, <1>0, <1>b
<1>14. ASSUME NEW t \in Threads, SpuriousWakeup(t)
       PROVE  Len(m_tasks') <= Awake(pc')
  <2>1. /\ m_tasks' = m_tasks
        /\ \/ pc[t] = "notempty" /\ pc' = [pc EXCEPT ![t] = "get"]
           \/ pc[t] = "notfull" /\ pc' = [pc EXCEPT ![t] = "add"]
    BY <1>14 DEF SpuriousWakeup
  <2> HIDE DEF Awake
  <2> QED
    BY <2>1, <1>0, <1>b
<1>15. CASE UNCHANGED vars
  BY <1>15, <1>b DEF vars
<1>16. ASSUME NEW t \in Workers, Begin(t)
       PROVE  Len(m_tasks') <= Awake(pc')
  <2>1. /\ pc[t] = "begin" /\ m_tasks' = m_tasks
        /\ pc' = [pc EXCEPT ![t] = "task"]
    BY <1>16 DEF Begin
  <2> HIDE DEF Awake
  <2> QED
    BY <2>1, <1>0, <1>b
<1> QED
  BY <1>1, <1>2, <1>3, <1>4, <1>5, <1>6, <1>7, <1>8, <1>9, <1>10, <1>11,
     <1>12, <1>13, <1>14, <1>15, <1>16
  DEF Next, Step

(* A thread that waits for room leaves no free place without another.      *)
LEMMA RoomNext == PoolInv /\ [Next]_vars => RoomInv'
<1> SUFFICES ASSUME PoolInv, [Next]_vars,
                    \E t \in Threads : pc'[t] = "notfull"
             PROVE  m_max_waits' - Len(m_tasks')
                        <= Cardinality(At(Threads, pc', "add"))
  BY DEF RoomInv, At
<1> DEFINE Awake(p) == Cardinality(At(Threads, p, "add"))
           Asleep(p) == \E t \in Threads : p[t] = "notfull"
           Covered == m_max_waits' - Len(m_tasks') <= Awake(pc')
<1>0. /\ TypeOK
      /\ PlacesInv
      /\ Workers \subseteq Threads
      /\ pc \in [Threads -> Places]
      /\ m_max_waits \in Nat
      /\ Len(m_tasks) \in Nat
      /\ Asleep(pc) => m_max_waits - Len(m_tasks) <= Awake(pc)
  BY DEF PoolInv, SignalInv, TypeOK, Threads, Places, RoomInv, At
<1>a. Awake(pc) \in Nat /\ Awake(pc') \in Nat
  BY FiniteThreads, CountType
<1>b. ASSUME Asleep(pc), m_tasks' = m_tasks, m_max_waits' = m_max_waits,
             \A t \in Threads : pc[t] = "add" => pc'[t] = "add"
      PROVE  Covered
  <2>1. Awake(pc) <= Awake(pc')
    BY <1>b, FiniteThreads, CountGrows
  <2> HIDE DEF Awake
  <2> QED
    BY <2>1, <1>b, <1>a, <1>0
<1>1. CASE Start
  <2>1. ~m_running /\ ~m_started
    BY <1>1, <1>0 DEF Start, PlacesInv
  <2>2. ~Asleep(pc')
    BY <2>1, <1>1, <1>0 DEF Start, PlacesInv
  <2> QED
    BY <2>2
<1>2. ASSUME NEW t \in Threads, NEW k \in Tasks, AddTaskHere(t, k)
      PROVE  Covered
  <2> HIDE DEF Covered
  <2> QED
    BY <1>2, <1>b DEF AddTaskHere
<1>3. ASSUME NEW t \in Threads, NEW k \in Tasks, AddTask(t, k)
      PROVE  Covered
  <2>1. /\ m_tasks' = m_tasks /\ m_max_waits' = m_max_waits
        /\ pc' = [pc EXCEPT ![t] = "add"]
    BY <1>3 DEF AddTask
  <2> HIDE DEF Covered
  <2> QED
    BY <2>1, <1>0, <1>b
<1>4. ASSUME NEW t \in Threads, WaitForRoom(t)
      PROVE  Covered
  <2>1. m_max_waits' - Len(m_tasks') <= 0
    BY <1>4, <1>0 DEF WaitForRoom, IsFull
  <2> HIDE DEF Awake
  <2>2. m_max_waits' \in Nat /\ Len(m_tasks') \in Nat
    BY <1>4, <1>0 DEF WaitForRoom
  <2> QED
    BY <2>1, <2>2, <1>a
<1>5. ASSUME NEW t \in Threads, Push(t)
      PROVE  Covered
  <2> DEFINE p == [pc EXCEPT ![t] = Outside(t)]
  <2>1. \/ pc' = p
        \/ \E u \in Threads : p[u] = "notempty" /\ pc' = [p EXCEPT ![u] = "get"]
    <3>1. pc' \in Signalled(p, "notempty", "get")
      BY <1>5 DEF Push
    <3> HIDE DEF p
    <3> QED
      BY <3>1, SignalWakes
  <2>2. /\ Asleep(pc)
        /\ \A w \in Threads \ {t} : pc[w] = "add" => pc'[w] = "add"
    <3>1. CASE pc' = p
      BY <3>1, <1>0, OutsideType
    <3>2. ASSUME NEW u \in Threads, p[u] = "notempty", pc' = [p EXCEPT ![u] = "get"]
          PROVE  /\ Asleep(pc)
                 /\ \A w \in Threads \ {t} : pc[w] = "add" => pc'[w] = "add"
      BY <3>2, <1>0, OutsideType
    <3> QED
      BY <2>1, <3>1, <3>2
  <2>3. Awake(pc) <= Awake(pc') + 1
    BY <2>2, FiniteThreads, CountLeaves
  <2>4. Len(m_tasks') = Len(m_tasks) + 1 /\ m_max_waits' = m_max_waits
    BY <1>5, <1>0 DEF Push, PlacesInv, Adding, TypeOK
  <2> HIDE DEF Awake
  <2> QED
    BY <2>2, <2>3, <2>4, <1>a, <1>0
<1>6. ASSUME NEW t \in Threads, Refuse(t)
      PROVE  Covered
  <2>1. ~Asleep(pc')
    BY <1>6, <1>0, OutsideType DEF Refuse, PlacesInv
  <2> QED
    BY <2>1
<1>7. ASSUME NEW t \in Workers, WhileTest(t)
      PROVE  Covered
  <2>1. /\ pc[t] = "while" /\ m_tasks' = m_tasks /\ m_max_waits' = m_max_waits
        /\ pc' \in {[pc EXCEPT ![t] = "get"], [pc EXCEPT ![t] = "exit"]}
    BY <1>7 DEF WhileTest
  <2> HIDE DEF Covered
  <2> QED
    BY <2>1, <1>0, <1>b
<1>8. ASSUME NEW t \in Workers, WaitForTask(t)
      PROVE  Covered
  <2>1. /\ pc[t] = "get" /\ m_tasks' = m_tasks /\ m_max_waits' = m_max_waits
        /\ pc' = [pc EXCEPT ![t] = "notempty"]
    BY <1>8 DEF WaitForTask
  <2> HIDE DEF Covered
  <2> QED
    BY <2>1, <1>0, <1>b
<1>9. ASSUME NEW t \in Workers, Take(t)
      PROVE  Covered
  <2> DEFINE p == [pc EXCEPT ![t] = "begin"]
  <2>1. Asleep(p) => \E u \in Threads : p[u] = "notfull" /\ pc' = [p EXCEPT ![u] = "add"]
    <3>1. Asleep(p) => m_max_waits > 0
      BY <1>0 DEF PlacesInv
    <3>2. m_max_waits > 0 => pc' \in Signalled(p, "notfull", "add")
      BY <1>9 DEF Take
    <3> HIDE DEF p
    <3> QED
      BY <3>1, <3>2, SignalWakes
  <2>2. Asleep(p)
    <3>1. pc' = p \/ pc' \in Signalled(p, "notfull", "add")
      BY <1>9 DEF Take
    <3> HIDE DEF p
    <3> QED
      BY <3>1, SignalWakes
  <2>3. PICK u \in Threads : p[u] = "notfull" /\ pc' = [p EXCEPT ![u] = "add"]
    BY <2>1, <2>2
  <2>4. u # t /\ pc[u] = "notfull" /\ pc'[u] = "add" /\ pc[t] = "get"
    BY <2>3, <1>9, <1>0 DEF Take
  <2>5. \A w \in Threads : pc[w] = "add" => pc'[w] = "add"
    BY <2>3, <2>4, <1>0
  <2>6. Awake(pc) + 1 <= Awake(pc')
    BY <2>4, <2>5, FiniteThreads, CountEnters
  <2>7. Len(m_tasks') = Len(m_tasks) - 1 /\ m_max_waits' = m_max_waits
    BY <1>9, <1>0 DEF Take, TypeOK
  <2> HIDE DEF Awake, p
  <2> QED
    BY <2>4, <2>6, <2>7, <1>a, <1>0
<1>10. ASSUME NEW t \in Workers, TakeNothing(t)
       PROVE  Covered
  <2>1. /\ pc[t] = "get" /\ m_tasks' = m_tasks /\ m_max_waits' = m_max_waits
        /\ pc' = [pc EXCEPT ![t] = "while"]
    BY <1>10 DEF TakeNothing
  <2> HIDE DEF Covered
  <2> QED
    BY <2>1, <1>0, <1>b
<1>11. ASSUME NEW t \in Workers, EndTask(t)
       PROVE  Covered
  <2>1. /\ pc[t] = "task" /\ m_tasks' = m_tasks /\ m_max_waits' = m_max_waits
        /\ pc' = [pc EXCEPT ![t] = "while"]
    BY <1>11 DEF EndTask
  <2> HIDE DEF Covered
  <2> QED
    BY <2>1, <1>0, <1>b
<1>12. ASSUME NEW t \in Threads, Stop(t)
       PROVE  Covered
  <2>1. ~Asleep(pc')
    BY <1>12, <1>0 DEF Stop, Broadcast
  <2> QED
    BY <2>1
<1>13. ASSUME NEW t \in Threads, Join(t)
       PROVE  Covered
  <2>1. /\ pc[t] = "join" /\ m_tasks' = m_tasks /\ m_max_waits' = m_max_waits
        /\ pc' = [pc EXCEPT ![t] = "idle"]
    BY <1>13 DEF Join
  <2> HIDE DEF Covered
  <2> QED
    BY <2>1, <1>0, <1>b
<1>14. ASSUME NEW t \in Threads, SpuriousWakeup(t)
       PROVE  Covered
  <2>1. /\ m_tasks' = m_tasks /\ m_max_waits' = m_max_waits
        /\ \/ pc[t] = "notempty" /\ pc' = [pc EXCEPT ![t] = "get"]
           \/ pc[t] = "notfull" /\ pc' = [pc EXCEPT ![t] = "add"]
    BY <1>14 DEF SpuriousWakeup
  <2> HIDE DEF Covered
  <2> QED
    BY <2>1, <1>0, <1>b
<1>15. ASSUME UNCHANGED vars
       PROVE  Covered
  <2> HIDE DEF Covered
  <2> QED
    BY <1>15, <1>b DEF vars
<1>16. ASSUME NEW t \in Workers, Begin(t)
       PROVE  Covered
  <2>1. /\ pc[t] = "begin" /\ m_tasks' = m_tasks /\ m_max_waits' = m_max_waits
        /\ pc' = [pc EXCEPT ![t] = "task"]
    BY <1>16 DEF Begin
  <2> HIDE DEF Covered
  <2> QED
    BY <2>1, <1>0, <1>b
<1> QED
  BY <1>1, <1>2, <1>3, <1>4, <1>5, <1>6, <1>7, <1>8, <1>9, <1>10, <1>11,
     <1>12, <1>13, <1>14, <1>15, <1>16
  DEF Next, Step

LEMMA PoolInitially == Init => PoolInv
<1> SUFFICES ASSUME Init PROVE PoolInv
  OBVIOUS
<1>1. TypeOK
  BY TypeInit
<1>2. \A t \in Threads : pc[t] = "idle"
  BY DEF Init
<1>3. \A w \in Workers : pc[w] = "idle"
  BY <1>2 DEF Threads
<1>4. SignalInv
  BY <1>2, <1>3
  DEF SignalInv, PlacesInv, Adding, TasksAreNoticed, RoomInv, Init
<1> QED
  BY <1>1, <1>4 DEF PoolInv

LEMMA PoolInvariant == Spec => []PoolInv
<1>1. PoolInv /\ [Next]_vars => PoolInv'
  BY TypeNext, PlacesNext, TasksNext, RoomNext DEF PoolInv, SignalInv
<1> QED
  BY <1>1, PoolInitially, PTL DEF Spec

(* The queue never holds more than m_max_waits tasks, however many threads *)
(* wait for the same room: addTask tests again after every wakeup.         *)
THEOREM BoundHolds == Spec => []TypeOK
BY PoolInvariant, PTL DEF PoolInv

(* addTask() and getTask() signal one thread each, and that is enough: no  *)
(* worker sleeps on a task, and no thread on room, that nobody else is     *)
(* about to take.                                                          *)
THEOREM NoSignalLost == Spec => []SignalsArrive
<1>1. PoolInv => SignalsArrive
  <2> SUFFICES ASSUME PoolInv,
                      \E t \in Threads : pc[t] = "notfull", ~IsFull
               PROVE  \E t \in Threads : pc[t] = "add"
    BY DEF SignalsArrive, RoomIsNoticed, PoolInv, SignalInv
  <2> DEFINE n == Cardinality(At(Threads, pc, "add"))
  <2>1. m_max_waits - Len(m_tasks) <= n
    BY DEF PoolInv, SignalInv, RoomInv, At
  <2>2. n \in Nat
    BY FiniteThreads, CountType
  <2>3. m_max_waits > Len(m_tasks)
    BY DEF PoolInv, SignalInv, PlacesInv, IsFull, TypeOK
  <2>4. m_max_waits \in Nat /\ Len(m_tasks) \in Nat
    BY DEF PoolInv, TypeOK
  <2>5. n # 0
    <3> HIDE DEF n
    <3> QED
      BY <2>1, <2>2, <2>3, <2>4
  <2>6. At(Threads, pc, "add") # {}
    BY <2>5, FS_EmptySet
  <2> QED
    BY <2>6 DEF At
<1> QED
  BY <1>1, PoolInvariant, PTL

-----------------------------------------------------------------------------
(* Tasks are taken in their order and begun once.                          *)

(* What workers at the places p have in hand when task is x.               *)
Held(p, x) == {x[w] : w \in {v \in Workers : p[v] = "begin"}}

Queued == Range(m_tasks) \cup Held(pc, task) \cup Range(begun)

LEMMA HandsHeld ==
    ASSUME NEW p, NEW x, NEW A, NEW B
    PROVE  Tasks \ (A \cup Range([w \in Workers |->
                                     IF p[w] = "begin" THEN x[w] ELSE NoTask])
                      \cup B)
               = Tasks \ (A \cup Held(p, x) \cup B)
BY ThreadPoolAssumption DEF Range, Held

(* The tasks TaskQueue takes for not yet accepted.                         *)
LEMMA UnpostedIs ==
    /\ Tasks \ (Range(m_tasks) \cup Range(InHand) \cup Range(begun))
           = Tasks \ Queued
    /\ Tasks \ (Range(m_tasks') \cup Range(InHand') \cup Range(begun'))
           = Tasks \ Queued'
BY HandsHeld DEF InHand, Queued

(* A task nobody has added and one that is being added have never been     *)
(* queued, and no two threads add the same one.                            *)
FreshInv ==
    /\ unposted \cap Queued = {}
    /\ \A t \in Threads : Adding(t) => adding[t] \notin Queued \cup unposted
    /\ \A t, u \in Threads :
          Adding(t) /\ Adding(u) /\ adding[t] = adding[u] => t = u

LEMMA RangeOfAppend ==
    ASSUME NEW S, NEW s \in Seq(S), NEW x \in S
    PROVE  Range(Append(s, x)) = Range(s) \cup {x}
<1> DEFINE r == Append(s, x)
<1>1. /\ DOMAIN s = 1..Len(s)
      /\ DOMAIN r = 1..(Len(s) + 1)
      /\ \A i \in 1..Len(s) : r[i] = s[i]
      /\ r[Len(s) + 1] = x
      /\ Len(s) \in Nat
  OBVIOUS
<1> HIDE DEF r
<1>2. Range(r) \subseteq Range(s) \cup {x}
  BY <1>1 DEF Range
<1>3. Range(s) \subseteq Range(r) /\ x \in Range(r)
  BY <1>1 DEF Range
<1> QED
  BY <1>2, <1>3 DEF r

LEMMA RangeOfTail ==
    ASSUME NEW S, NEW s \in Seq(S), s # <<>>
    PROVE  Range(s) = {Head(s)} \cup Range(Tail(s))
<1> DEFINE r == Tail(s)
<1>1. /\ DOMAIN s = 1..Len(s)
      /\ DOMAIN r = 1..(Len(s) - 1)
      /\ \A i \in 1..(Len(s) - 1) : r[i] = s[i + 1]
      /\ Head(s) = s[1]
      /\ Len(s) \in Nat \ {0}
  OBVIOUS
<1> HIDE DEF r
<1>2. Range(r) \subseteq Range(s) /\ Head(s) \in Range(s)
  BY <1>1 DEF Range
<1>3. ASSUME NEW i \in DOMAIN s
      PROVE  s[i] \in {Head(s)} \cup Range(r)
  <2>1. CASE i = 1
    BY <2>1, <1>1
  <2>2. CASE i # 1
    <3>1. i - 1 \in 1..(Len(s) - 1) /\ (i - 1) + 1 = i
      BY <2>2, <1>1
    <3>2. r[i - 1] = s[i] /\ i - 1 \in DOMAIN r
      BY <3>1, <1>1
    <3> QED
      BY <3>2 DEF Range
  <2> QED
    BY <2>1, <2>2
<1>4. Range(s) \subseteq {Head(s)} \cup Range(r)
  BY <1>3 DEF Range
<1> QED
  BY <1>2, <1>4 DEF r

(* A step that moves no task and starts no addTask().                      *)
LEMMA FreshKept ==
    ASSUME FreshInv, UNCHANGED <<m_tasks, adding, unposted, begun, InHand>>,
           Held(pc', task') = Held(pc, task),
           \A t \in Threads : pc'[t] \in {"add", "notfull"}
                                 => pc[t] \in {"add", "notfull"}
    PROVE  FreshInv' /\ UNCHANGED TQ!vars
BY UnpostedIs DEF FreshInv, Queued, Adding, TQ!vars

(* What is in the workers' hands when none of them comes to or leaves      *)
(* "begin".                                                                *)
LEMMA HandsKept ==
    ASSUME \A w \in Workers : pc'[w] = "begin" <=> pc[w] = "begin",
           \A w \in Workers : pc[w] = "begin" => task'[w] = task[w]
    PROVE  InHand' = InHand /\ Held(pc', task') = Held(pc, task)
<1>1. InHand' = InHand
  BY DEF InHand
<1>2. Held(pc', task') = Held(pc, task)
  BY DEF Held
<1> QED
  BY <1>1, <1>2

LEMMA QueueStep ==
    ASSUME PoolInv, FreshInv, [Next]_vars
    PROVE  FreshInv' /\ [TQ!Next]_(TQ!vars)
<1>0. /\ TypeOK
      /\ PlacesInv
      /\ Workers \subseteq Threads
      /\ pc \in [Threads -> Places]
      /\ m_tasks \in Seq(Tasks) /\ begun \in Seq(Tasks)
      /\ task \in [Workers -> Tasks \cup {NoTask}]
      /\ adding \in [Threads -> Tasks \cup {NoTask}]
      /\ unposted \subseteq Tasks
  BY DEF PoolInv, SignalInv, TypeOK, Threads, Places
<1> DEFINE Done == FreshInv' /\ [TQ!Next]_(TQ!vars)
           Hands(p) == \A w \in Workers : p[w] = "begin" <=> pc[w] = "begin"
<1>a. ASSUME UNCHANGED <<m_tasks, adding, unposted, begun>>,
             Hands(pc'),
             \A w \in Workers : pc[w] = "begin" => task'[w] = task[w],
             \A t \in Threads : pc'[t] \in {"add", "notfull"}
                                   => pc[t] \in {"add", "notfull"}
      PROVE  Done
  BY <1>a, FreshKept, HandsKept
<1>1. ASSUME Start
      PROVE  Done
  <2>1. \A t \in Threads : pc[t] = "idle"
    BY <1>1, <1>0 DEF Start, PlacesInv
  <2>2. /\ UNCHANGED <<m_tasks, adding, unposted, begun, task>>
        /\ pc' = [t \in Threads |-> IF t \in Workers THEN "while" ELSE pc[t]]
    BY <1>1 DEF Start
  <2> HIDE DEF Done
  <2> QED
    BY <2>1, <2>2, <1>0, <1>a
<1>2. ASSUME NEW t \in Threads, NEW k \in Tasks, AddTaskHere(t, k)
      PROVE  Done
  <2>1. /\ k \in unposted /\ unposted' = unposted \ {k}
        /\ begun' = Append(begun, k) /\ UNCHANGED <<m_tasks, adding, pc, task>>
    BY <1>2 DEF AddTaskHere
  <2>2. Range(begun') = Range(begun) \cup {k}
    BY <2>1, <1>0, RangeOfAppend
  <2>3. /\ InHand' = InHand
        /\ Queued' = Queued \cup {k}
    BY <2>1, <2>2, HandsKept DEF Queued
  <2>4. FreshInv'
    BY <2>1, <2>3 DEF FreshInv, Adding
  <2>5. TQ!RunHere(k)
    BY <2>1, <2>3, UnpostedIs DEF TQ!RunHere, FreshInv
  <2> QED
    BY <2>4, <2>5 DEF TQ!Next
<1>3. ASSUME NEW t \in Threads, NEW k \in Tasks, AddTask(t, k)
      PROVE  Done
  <2>1. /\ k \in unposted /\ unposted' = unposted \ {k}
        /\ adding' = [adding EXCEPT ![t] = k]
        /\ pc' = [pc EXCEPT ![t] = "add"]
        /\ pc[t] \in {"task", "idle"}
        /\ UNCHANGED <<m_tasks, begun, task>>
    BY <1>3, OutsideType DEF AddTask
  <2>2. /\ adding'[t] = k
        /\ \A u \in Threads \ {t} : adding'[u] = adding[u] /\ pc'[u] = pc[u]
    BY <2>1, <1>0
  <2>3. \A u \in Threads \ {t} : Adding(u)' <=> Adding(u)
    BY <2>2 DEF Adding
  <2>4. /\ InHand' = InHand
        /\ Queued' = Queued
    <3>1. \A w \in Workers : pc'[w] = "begin" <=> pc[w] = "begin"
      BY <2>1, <1>0
    <3> QED
      BY <3>1, <2>1, HandsKept DEF Queued
  <2>5. FreshInv'
    BY <2>1, <2>2, <2>3, <2>4 DEF FreshInv
  <2>6. UNCHANGED TQ!vars
    BY <2>1, <2>4, UnpostedIs DEF TQ!vars
  <2> QED
    BY <2>5, <2>6
<1>4. ASSUME NEW t \in Threads, WaitForRoom(t)
      PROVE  Done
  <2>1. /\ pc[t] = "add" /\ pc' = [pc EXCEPT ![t] = "notfull"]
        /\ UNCHANGED <<m_tasks, adding, unposted, begun, task>>
    BY <1>4 DEF WaitForRoom
  <2> HIDE DEF Done
  <2> QED
    BY <2>1, <1>0, <1>a
<1>5. ASSUME NEW t \in Threads, Push(t)
      PROVE  Done
  <2> DEFINE p == [pc EXCEPT ![t] = Outside(t)]
             k == adding[t]
  <2>1. /\ pc[t] = "add" /\ k \in Tasks
        /\ m_tasks' = Append(m_tasks, k)
        /\ adding' = [adding EXCEPT ![t] = NoTask]
        /\ UNCHANGED <<unposted, begun, task>>
    BY <1>5, <1>0 DEF Push, PlacesInv, Adding
  <2>2. pc' = p \/ \E u \in Threads : p[u] = "notempty" /\ pc' = [p EXCEPT ![u] = "get"]
    <3>1. pc' \in Signalled(p, "notempty", "get")
      BY <1>5 DEF Push
    <3> HIDE DEF p
    <3> QED
      BY <3>1, SignalWakes
  <2>3. /\ \A u \in Threads : Adding(u)' => Adding(u) /\ u # t
        /\ \A w \in Workers : pc'[w] = "begin" <=> pc[w] = "begin"
    <3>1. /\ \A u \in Threads : p[u] \in {"add", "notfull"} => Adding(u) /\ u # t
          /\ \A w \in Workers : p[w] = "begin" <=> pc[w] = "begin"
      BY <2>1, <1>0, OutsideType DEF Adding
    <3>2. p \in [Threads -> Places]
      BY <1>0, OutsideType DEF Places
    <3> HIDE DEF p
    <3> QED
      BY <2>2, <3>1, <3>2, <1>0 DEF Adding
  <2>4. /\ InHand' = InHand
        /\ Queued' = Queued \cup {k}
    <3>1. Range(m_tasks') = Range(m_tasks) \cup {k}
      BY <2>1, <1>0, RangeOfAppend
    <3> QED
      BY <3>1, <2>1, <2>3, HandsKept DEF Queued
  <2>5. k \notin Queued \cup unposted
    BY <2>1 DEF FreshInv, Adding
  <2>6. \A u \in Threads : Adding(u)' => adding'[u] = adding[u] /\ adding[u] # k
    <3>1. Adding(t)
      BY <2>1 DEF Adding
    <3> QED
      BY <2>1, <2>3, <3>1, <1>0 DEF FreshInv
  <2>7. FreshInv'
    <3> HIDE DEF k
    <3>1. unposted' \cap Queued' = {}
      BY <2>1, <2>4, <2>5 DEF FreshInv
    <3>2. \A u \in Threads : Adding(u)' => adding'[u] \notin Queued' \cup unposted'
      BY <2>1, <2>3, <2>4, <2>6 DEF FreshInv
    <3>3. \A u, v \in Threads :
             Adding(u)' /\ Adding(v)' /\ adding'[u] = adding'[v] => u = v
      BY <2>3, <2>6 DEF FreshInv
    <3> QED
      BY <3>1, <3>2, <3>3 DEF FreshInv
  <2>8. TQ!Post(k)
    <3> HIDE DEF k
    <3> QED
      BY <2>1, <2>4, <2>5, UnpostedIs DEF TQ!Post
  <2> QED
    BY <2>1, <2>7, <2>8 DEF TQ!Next
<1>6. ASSUME NEW t \in Threads, Refuse(t)
      PROVE  Done
  <2>1. /\ adding' = [adding EXCEPT ![t] = NoTask]
        /\ pc[t] = "add" /\ pc' = [pc EXCEPT ![t] = Outside(t)]
        /\ UNCHANGED <<m_tasks, unposted, begun, task>>
    BY <1>6 DEF Refuse
  <2>2. /\ \A u \in Threads : Adding(u)' => Adding(u) /\ adding'[u] = adding[u]
        /\ \A w \in Workers : pc'[w] = "begin" <=> pc[w] = "begin"
    BY <2>1, <1>0, OutsideType DEF Adding
  <2>3. InHand' = InHand /\ Queued' = Queued
    BY <2>1, <2>2, HandsKept DEF Queued
  <2>4. FreshInv'
    BY <2>1, <2>2, <2>3 DEF FreshInv
  <2>5. UNCHANGED TQ!vars
    BY <2>1, <2>3, UnpostedIs DEF TQ!vars
  <2> QED
    BY <2>4, <2>5
<1>7. ASSUME NEW t \in Workers, WhileTest(t)
      PROVE  Done
  <2>1. /\ pc[t] = "while"
        /\ pc' \in {[pc EXCEPT ![t] = "get"], [pc EXCEPT ![t] = "exit"]}
        /\ UNCHANGED <<m_tasks, adding, unposted, begun, task>>
    BY <1>7 DEF WhileTest
  <2> HIDE DEF Done
  <2> QED
    BY <2>1, <1>0, <1>a
<1>8. ASSUME NEW t \in Workers, WaitForTask(t)
      PROVE  Done
  <2>1. /\ pc[t] = "get" /\ pc' = [pc EXCEPT ![t] = "notempty"]
        /\ UNCHANGED <<m_tasks, adding, unposted, begun, task>>
    BY <1>8 DEF WaitForTask
  <2> HIDE DEF Done
  <2> QED
    BY <2>1, <1>0, <1>a
<1>9. ASSUME NEW t \in Workers, Take(t)
      PROVE  Done
  <2> DEFINE p == [pc EXCEPT ![t] = "begin"]
             k == Head(m_tasks)
  <2>1. /\ pc[t] = "get"
        /\ m_tasks # <<>> /\ k \in Tasks
        /\ m_tasks' = Tail(m_tasks)
        /\ task' = [task EXCEPT ![t] = k]
        /\ UNCHANGED <<unposted, adding, begun>>
    BY <1>9, <1>0 DEF Take
  <2>2. pc' = p \/ \E u \in Threads : p[u] = "notfull" /\ pc' = [p EXCEPT ![u] = "add"]
    <3>1. pc' = p \/ pc' \in Signalled(p, "notfull", "add")
      BY <1>9 DEF Take
    <3> HIDE DEF p
    <3> QED
      BY <3>1, SignalWakes
  <2>3. /\ \A u \in Threads : Adding(u)' => Adding(u)
        /\ pc'[t] = "begin"
        /\ \A w \in Workers \ {t} : pc'[w] = "begin" <=> pc[w] = "begin"
    BY <2>1, <2>2, <1>0 DEF Adding
  <2>4. Range(m_tasks) = {k} \cup Range(m_tasks')
    BY <2>1, <1>0, RangeOfTail
  <2> HIDE DEF k, p
  <2>5. /\ task'[t] = k
        /\ \A w \in Workers \ {t} : task'[w] = task[w]
    BY <2>1, <1>0
  <2>6. Held(pc', task') = Held(pc, task) \cup {k}
    BY <2>1, <2>3, <2>5 DEF Held
  <2>7. Queued' = Queued
    BY <2>1, <2>4, <2>6 DEF Queued
  <2>8. FreshInv'
    BY <2>1, <2>3, <2>7 DEF FreshInv
  <2>9. InHand[t] = NoTask /\ InHand' = [InHand EXCEPT ![t] = k]
    BY <2>1, <2>3, <2>5 DEF InHand
  <2>10. TQ!Take(t)
    BY <2>1, <2>7, <2>9, UnpostedIs DEF TQ!Take, k
  <2> QED
    BY <2>8, <2>10 DEF TQ!Next
<1>10. ASSUME NEW t \in Workers, TakeNothing(t)
       PROVE  Done
  <2>1. /\ pc[t] = "get" /\ pc' = [pc EXCEPT ![t] = "while"]
        /\ UNCHANGED <<m_tasks, adding, unposted, begun, task>>
    BY <1>10 DEF TakeNothing
  <2> HIDE DEF Done
  <2> QED
    BY <2>1, <1>0, <1>a
<1>11. ASSUME NEW t \in Workers, EndTask(t)
       PROVE  Done
  <2>1. /\ pc[t] = "task" /\ pc' = [pc EXCEPT ![t] = "while"]
        /\ task' = [task EXCEPT ![t] = NoTask]
        /\ UNCHANGED <<m_tasks, adding, unposted, begun>>
    BY <1>11 DEF EndTask
  <2>2. \A w \in Workers : pc[w] = "begin" => task'[w] = task[w]
    BY <2>1, <1>0
  <2> HIDE DEF Done
  <2> QED
    BY <2>1, <2>2, <1>0, <1>a
<1>12. ASSUME NEW t \in Threads, Stop(t)
       PROVE  Done
  <2>1. /\ pc[t] = "idle"
        /\ pc' = Broadcast([pc EXCEPT ![t] = "join"])
        /\ UNCHANGED <<m_tasks, adding, unposted, begun, task>>
    BY <1>12 DEF Stop
  <2>2. /\ \A u \in Threads : Adding(u)' => Adding(u)
        /\ Hands(pc')
    BY <2>1, <1>0 DEF Broadcast, Adding
  <2> HIDE DEF Done, Hands
  <2> QED
    BY <2>1, <2>2, <1>0, <1>a DEF Adding
<1>13. ASSUME NEW t \in Threads, Join(t)
       PROVE  Done
  <2>1. /\ pc[t] = "join" /\ pc' = [pc EXCEPT ![t] = "idle"]
        /\ UNCHANGED <<m_tasks, adding, unposted, begun, task>>
    BY <1>13 DEF Join
  <2> HIDE DEF Done
  <2> QED
    BY <2>1, <1>0, <1>a
<1>14. ASSUME NEW t \in Threads, SpuriousWakeup(t)
       PROVE  Done
  <2>1. /\ \/ pc[t] = "notempty" /\ pc' = [pc EXCEPT ![t] = "get"]
           \/ pc[t] = "notfull" /\ pc' = [pc EXCEPT ![t] = "add"]
        /\ UNCHANGED <<m_tasks, adding, unposted, begun, task>>
    BY <1>14 DEF SpuriousWakeup
  <2> HIDE DEF Done
  <2> QED
    BY <2>1, <1>0, <1>a
<1>15. ASSUME UNCHANGED vars
       PROVE  Done
  <2> HIDE DEF Done
  <2> QED
    BY <1>15, <1>a DEF vars
<1>16. ASSUME NEW t \in Workers, Begin(t)
       PROVE  Done
  <2> DEFINE k == task[t]
  <2>1. /\ pc[t] = "begin" /\ k \in Tasks
        /\ begun' = Append(begun, k)
        /\ pc' = [pc EXCEPT ![t] = "task"]
        /\ UNCHANGED <<m_tasks, task, adding, unposted>>
    BY <1>16, <1>0 DEF Begin, PlacesInv
  <2>2. Range(begun') = Range(begun) \cup {k}
    BY <2>1, <1>0, RangeOfAppend
  <2>3. /\ \A u \in Threads : Adding(u)' => Adding(u)
        /\ pc'[t] = "task"
        /\ \A w \in Workers \ {t} : pc'[w] = pc[w]
    BY <2>1, <1>0 DEF Adding
  <2>4. Held(pc', task') \cup {k} = Held(pc, task)
    BY <2>1, <2>3 DEF Held
  <2>5. Queued' = Queued
    BY <2>1, <2>2, <2>4 DEF Queued
  <2>6. FreshInv'
    BY <2>1, <2>3, <2>5 DEF FreshInv
  <2>7. InHand[t] = k /\ k # NoTask /\ InHand' = [InHand EXCEPT ![t] = NoTask]
    BY <2>1, <2>3, ThreadPoolAssumption DEF InHand
  <2>8. TQ!Begin(t)
    <3> HIDE DEF k
    <3> QED
      BY <2>1, <2>5, <2>7, UnpostedIs DEF TQ!Begin
  <2> QED
    BY <2>6, <2>8 DEF TQ!Next
<1> QED
  BY <1>1, <1>2, <1>3, <1>4, <1>5, <1>6, <1>7, <1>8, <1>9, <1>10, <1>11,
     <1>12, <1>13, <1>14, <1>15, <1>16
  DEF Next, Step

LEMMA FreshInitially == Init => FreshInv /\ TQ!Init
<1> SUFFICES ASSUME Init PROVE FreshInv /\ TQ!Init
  OBVIOUS
<1>1. Range(m_tasks) = {} /\ Range(begun) = {}
  BY DEF Init, Range
<1>2. /\ \A t \in Threads : ~Adding(t)
      /\ Held(pc, task) = {}
      /\ InHand = [w \in Workers |-> NoTask]
  BY DEF Init, Adding, Held, InHand, Threads
<1> QED
  BY <1>1, <1>2, UnpostedIs DEF FreshInv, Queued, TQ!Init, Init

(* Tasks are taken in the order they were queued, each by one worker,      *)
(* which begins it once before it takes another; tasks that different      *)
(* workers hold may be begun in any order; one that addTask() refuses is   *)
(* never begun.                                                            *)
THEOREM IsTaskQueue == Spec => ImplementsTaskQueue
<1>1. Init => FreshInv /\ TQ!Init
  BY FreshInitially
<1>2. PoolInv /\ FreshInv /\ [Next]_vars => FreshInv' /\ [TQ!Next]_(TQ!vars)
  BY QueueStep
<1> QED
  BY <1>1, <1>2, PoolInvariant, PTL DEF Spec, ImplementsTaskQueue, TQ!Spec

===============================================================================
