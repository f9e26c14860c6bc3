------------------------ MODULE EventLoopThreadProofs ------------------------
(***************************************************************************)
(* Proofs about EventLoopThreadPool and EventLoopThread, for any number of *)
(* I/O loops and their threads.  The pool: its two tables agree with each  *)
(* other and with the connections handed out, a new connection goes to a   *)
(* least loaded loop, and round-robin is even.  Its threads: the pool with *)
(* them is still the pool, so that what is proved of its tables holds      *)
(* while loops start and end, and every pointer to a loop is followed only *)
(* while the loop exists.                                                  *)
(***************************************************************************)
EXTENDS EventLoopThread, TLAPS

-----------------------------------------------------------------------------
(* The pool.                                                               *)

(* A turn of getNextLoop: loops before m_next have been handed out once    *)
(* more than the others in this turn.                                      *)
TurnInv ==
    \A k, l \in Loops :
        /\ k < m_next /\ l < m_next => handed[k] = handed[l]
        /\ k >= m_next /\ l >= m_next => handed[k] = handed[l]
        /\ k < m_next /\ l >= m_next => handed[k] = handed[l] + 1

(* start() finds no connection handed out.                                 *)
BeforeStart ==
    ~m_started => /\ m_connectionCount = {}
                  /\ \A l \in Loops : given[l] = 0

(* With I/O loops the base loop gets no connection.                        *)
BaseInv == Loops # {} => given[Base] = 0

PoolInv ==
    /\ TypeOK
    /\ BaseInv
    /\ CountsAgree
    /\ BeforeStart
    /\ TurnInv

-----------------------------------------------------------------------------
(* Once the pool is started, update() replaces a loop's pair in both       *)
(* tables and leaves the other loops' pairs alone.                         *)
LEMMA UpdateAgrees ==
    ASSUME TypeOK, CountsAgree, m_started,
           NEW loop \in Loops, NEW n \in Int,
           UpdateTables(loop, n)
    PROVE  /\ m_loopInfo' \in [Loops -> Int \X Loops]
           /\ m_connectionCount' = {m_loopInfo'[l] : l \in Loops}
           /\ m_loopInfo'[loop] = <<n, loop>>
           /\ \A l \in Loops \ {loop} : m_loopInfo'[l] = m_loopInfo[l]
<1>1. m_loopInfo[loop] = <<given[loop], loop>>
  BY DEF CountsAgree
<1>2. /\ m_loopInfo' = [m_loopInfo EXCEPT ![loop] = <<n, loop>>]
      /\ m_connectionCount' = (m_connectionCount \ {<<given[loop], loop>>})
                                  \cup {<<n, loop>>}
  BY <1>1 DEF UpdateTables
<1>3. /\ m_loopInfo' \in [Loops -> Int \X Loops]
      /\ m_loopInfo'[loop] = <<n, loop>>
      /\ \A l \in Loops \ {loop} : m_loopInfo'[l] = m_loopInfo[l]
  BY <1>2 DEF TypeOK
<1>4. \A l \in Loops \ {loop} : m_loopInfo[l] # <<given[loop], loop>>
  BY DEF CountsAgree
<1>5. m_connectionCount = {m_loopInfo[l] : l \in Loops}
  BY DEF CountsAgree
<1>6. m_connectionCount' = {m_loopInfo'[l] : l \in Loops}
  <2>1. ASSUME NEW p \in m_connectionCount'
        PROVE  \E l \in Loops : p = m_loopInfo'[l]
    BY <1>2, <1>3, <1>5, <1>1
  <2>2. ASSUME NEW l \in Loops
        PROVE  m_loopInfo'[l] \in m_connectionCount'
    BY <1>2, <1>3, <1>4, <1>5
  <2> QED
    BY <2>1, <2>2
<1> QED
  BY <1>3, <1>6

(* The base loop is not one of the pool's.                                 *)
LEMMA NoBaseLoop == Base \notin Loops
BY PoolAssumption DEF Base, Loops

LEMMA PoolInvInit == Init => PoolInv
<1> SUFFICES ASSUME Init
             PROVE  PoolInv
  OBVIOUS
<1>1. TypeOK
  <2>1. m_loopInfo \in [Loops -> Int \X Loops]
    <3>1. \A l \in Loops : <<0, l>> \in Int \X Loops
      OBVIOUS
    <3> QED
      BY <3>1 DEF Init
  <2>2. given \in [Loops \cup {Base} -> Nat] /\ handed \in [Loops -> Nat]
    BY DEF Init
  <2> QED
    BY <2>1, <2>2 DEF Init, TypeOK
<1>2. CountsAgree /\ BeforeStart /\ BaseInv
  BY DEF Init, CountsAgree, BeforeStart, BaseInv
<1>3. TurnInv
  BY PoolAssumption DEF Init, TurnInv, Loops
<1> QED
  BY <1>1, <1>2, <1>3 DEF PoolInv

(* The calls that move a connection: the count of its loop changes by one, *)
(* in both tables, and with no loop nothing changes.                       *)
LEMMA MoveStep ==
    ASSUME PoolInv, m_started,
           NEW loop \in Loops \cup {Base}, NEW n \in Nat,
           given' = [given EXCEPT ![loop] = n],
           UNCHANGED <<m_started, m_next, handed>>,
           \/ Loops = {} /\ UNCHANGED <<m_loopInfo, m_connectionCount>>
           \/ loop \in Loops /\ UpdateTables(loop, n)
    PROVE  PoolInv'
<1> USE DEF PoolInv
<1>1. given' \in [Loops \cup {Base} -> Nat]
  BY DEF TypeOK
<1>2. BeforeStart' /\ TurnInv'
  BY DEF BeforeStart, TurnInv
<1>3. CASE Loops = {} /\ UNCHANGED <<m_loopInfo, m_connectionCount>>
  BY <1>1, <1>2, <1>3 DEF TypeOK, CountsAgree, BaseInv
<1>4. CASE loop \in Loops /\ UpdateTables(loop, n)
  <2>1. /\ m_loopInfo' \in [Loops -> Int \X Loops]
        /\ m_connectionCount' = {m_loopInfo'[l] : l \in Loops}
        /\ m_loopInfo'[loop] = <<n, loop>>
        /\ \A l \in Loops \ {loop} : m_loopInfo'[l] = m_loopInfo[l]
    BY <1>4, UpdateAgrees
  <2>2. given'[loop] = n /\ \A l \in Loops \ {loop} : given'[l] = given[l]
    BY DEF TypeOK
  <2>3. CountsAgree'
    BY <2>1, <2>2 DEF CountsAgree
  <2>4. m_connectionCount' \subseteq Int \X Loops
    BY <2>1
  <2>5. BaseInv'
    BY <1>4, NoBaseLoop DEF BaseInv, TypeOK
  <2> QED
    BY <1>1, <1>2, <2>1, <2>3, <2>4, <2>5 DEF TypeOK
<1> QED
  BY <1>3, <1>4

LEMMA PoolInvStep == PoolInv /\ [Next]_vars => PoolInv'
<1> SUFFICES ASSUME PoolInv, [Next]_vars
             PROVE  PoolInv'
  OBVIOUS
<1> USE DEF PoolInv
<1>1. CASE Start
  <2>1. /\ m_loopInfo' = [l \in Loops |-> <<0, l>>]
        /\ m_connectionCount' = {<<0, l>> : l \in Loops}
        /\ m_started' = TRUE
        /\ UNCHANGED <<m_next, given, handed>>
        /\ ~m_started
    BY <1>1 DEF Start, StartTables
  <2>2. \A l \in Loops : <<0, l>> \in Int \X Loops
    OBVIOUS
  <2>3. /\ m_loopInfo' \in [Loops -> Int \X Loops]
        /\ \A l \in Loops : m_loopInfo'[l] = <<0, l>>
        /\ m_connectionCount' \subseteq Int \X Loops
    BY <2>1, <2>2
  <2>4. TypeOK'
    BY <2>1, <2>3 DEF TypeOK
  <2>5. CountsAgree'
    BY <2>1, <2>3 DEF CountsAgree, BeforeStart
  <2> QED
    BY <2>1, <2>4, <2>5 DEF BeforeStart, BaseInv, TurnInv
<1>2. CASE GetNextLoopMinConnection
  <2>1. PICK loop \in Loops \cup {Base} :
            TakeMinLoop(loop) /\ given' = [given EXCEPT ![loop] = @ + 1]
    BY <1>2 DEF GetNextLoopMinConnection
  <2>2. m_started /\ UNCHANGED <<m_started, m_next, handed>>
    BY <1>2 DEF GetNextLoopMinConnection
  <2>3. given[loop] + 1 \in Nat /\ given' = [given EXCEPT ![loop] = given[loop] + 1]
    BY <2>1 DEF TypeOK
  <2>4. CASE m_connectionCount = {}
    <3>1. Loops = {}
      BY <2>2, <2>4 DEF CountsAgree
    <3> QED
      BY <2>1, <2>2, <2>3, <2>4, <3>1, MoveStep DEF TakeMinLoop
  <2>5. CASE m_connectionCount # {}
    <3>1. PICK p \in m_connectionCount :
              loop = p[2] /\ UpdateTables(loop, p[1] + 1)
      BY <2>1, <2>5 DEF TakeMinLoop
    <3>2. loop \in Loops /\ p[1] = given[loop]
      BY <2>2, <3>1 DEF CountsAgree
    <3> QED
      BY <2>2, <2>3, <3>1, <3>2, MoveStep
  <2> QED
    BY <2>4, <2>5
<1>3. ASSUME NEW loop \in Loops \cup {Base}, RemoveLoopConnection(loop)
      PROVE  PoolInv'
  <2>1. /\ m_started
        /\ given[loop] > 0
        /\ DropLoop(loop)
        /\ given' = [given EXCEPT ![loop] = given[loop] - 1]
        /\ UNCHANGED <<m_started, m_next, handed>>
    BY <1>3 DEF RemoveLoopConnection
  <2>2. given[loop] - 1 \in Nat
    BY <2>1 DEF TypeOK
  <2>3. CASE m_connectionCount = {}
    <3>1. Loops = {}
      BY <2>1, <2>3 DEF CountsAgree
    <3> QED
      BY <2>1, <2>2, <2>3, <3>1, MoveStep DEF DropLoop
  <2>4. CASE m_connectionCount # {} /\ loop \in Loops
    <3>1. m_loopInfo[loop][1] = given[loop]
      BY <2>4 DEF CountsAgree
    <3> QED
      BY <2>1, <2>2, <2>4, <3>1, MoveStep DEF DropLoop
  <2>5. m_connectionCount # {} => loop # Base
    BY <2>1 DEF CountsAgree, BaseInv
  <2> QED
    BY <2>3, <2>4, <2>5
<1>4. CASE GetNextLoop
  <2>1. /\ m_next \in Loops
        /\ handed' = [handed EXCEPT ![m_next] = handed[m_next] + 1]
        /\ m_next' = IF m_next + 1 >= NumThreads THEN 0 ELSE m_next + 1
        /\ UNCHANGED <<m_started, m_loopInfo, m_connectionCount, given>>
    BY <1>4 DEF GetNextLoop
  <2>2. TypeOK'
    BY <2>1 DEF TypeOK
  <2>3. /\ handed'[m_next] = handed[m_next] + 1
        /\ \A l \in Loops \ {m_next} : handed'[l] = handed[l]
    BY <2>1 DEF TypeOK
  <2>4. \A l \in Loops : l \in Nat /\ l < NumThreads /\ handed[l] \in Nat
    BY PoolAssumption DEF Loops, TypeOK
  <2>5. ASSUME m_next + 1 >= NumThreads
        PROVE  TurnInv'
    <3>1. m_next' = 0 /\ \A l \in Loops : l <= m_next
      BY <2>1, <2>4, <2>5, PoolAssumption
    <3>2. \A l \in Loops \ {m_next} : handed[l] = handed[m_next] + 1
      BY <2>1, <2>4, <3>1 DEF TurnInv
    <3> QED
      BY <2>3, <2>4, <3>1, <3>2 DEF TurnInv
  <2>6. ASSUME m_next + 1 < NumThreads
        PROVE  TurnInv'
    <3>1. m_next' = m_next + 1 /\ m_next \in Nat /\ NumThreads \in Nat
      BY <2>1, <2>4, <2>6, PoolAssumption
    <3>2. ASSUME NEW k \in Loops, NEW l \in Loops
          PROVE  /\ k < m_next' /\ l < m_next' => handed'[k] = handed'[l]
                 /\ k >= m_next' /\ l >= m_next' => handed'[k] = handed'[l]
                 /\ k < m_next' /\ l >= m_next' => handed'[k] = handed'[l] + 1
      <4>1. k < m_next' <=> k < m_next \/ k = m_next
        BY <2>4, <3>1
      <4>2. l < m_next' <=> l < m_next \/ l = m_next
        BY <2>4, <3>1
      <4>3. \A i \in Loops : i < m_next => handed[i] = handed[m_next] + 1
        BY <2>1, <2>4, <3>1 DEF TurnInv
      <4>4. \A i \in Loops : i >= m_next => handed[i] = handed[m_next]
        BY <2>1, <2>4, <3>1 DEF TurnInv
      <4> QED
        BY <2>3, <2>4, <3>1, <4>1, <4>2, <4>3, <4>4
    <3> QED
      BY <3>2 DEF TurnInv
  <2>7. TurnInv'
    BY <2>1, <2>4, <2>5, <2>6, PoolAssumption
  <2> QED
    BY <2>1, <2>2, <2>7 DEF CountsAgree, BeforeStart, BaseInv
<1>5. CASE UNCHANGED vars
  BY <1>5 DEF vars, TypeOK, CountsAgree, BeforeStart, BaseInv, TurnInv
<1> QED
  BY <1>1, <1>2, <1>3, <1>4, <1>5 DEF Next

LEMMA PoolInvariant == Spec => []PoolInv
BY PoolInvInit, PoolInvStep, PTL DEF Spec

(* Every table entry and count has its type, for any number of loops.      *)
THEOREM TypeCorrect == Spec => []TypeOK
<1>1. PoolInv => TypeOK
  BY DEF PoolInv
<1> QED
  BY <1>1, PoolInvariant, PTL

(* The asserts of update() hold: both tables have each loop's entry, with  *)
(* the number of connections that were handed out and not given back.      *)
THEOREM TablesAgree == Spec => []CountsAgree
<1>1. PoolInv => CountsAgree
  BY DEF PoolInv
<1> QED
  BY <1>1, PoolInvariant, PTL

(* getNextLoop is even: no loop gets two turns more than another.          *)
THEOREM TurnsEven == Spec => []RoundRobin
<1>1. PoolInv => RoundRobin
  <2> SUFFICES ASSUME PoolInv, NEW k \in Loops, NEW l \in Loops
               PROVE  handed[k] <= handed[l] + 1
    BY DEF RoundRobin
  <2>1. k \in Nat /\ l \in Nat /\ m_next \in Nat
        /\ handed[k] \in Nat /\ handed[l] \in Nat
    BY PoolAssumption DEF PoolInv, TypeOK, Loops
  <2>2. /\ k < m_next /\ l < m_next => handed[k] = handed[l]
        /\ k >= m_next /\ l >= m_next => handed[k] = handed[l]
        /\ k < m_next /\ l >= m_next => handed[k] = handed[l] + 1
        /\ l < m_next /\ k >= m_next => handed[l] = handed[k] + 1
    BY DEF PoolInv, TurnInv
  <2> QED
    BY <2>1, <2>2
<1> QED
  BY <1>1, PoolInvariant, PTL

(* getNextLoopMinConnection: the first pair of the ordered set belongs to  *)
(* a loop with the fewest connections, because the set agrees with what    *)
(* the caller holds; so a new connection never goes to a busier loop.      *)
THEOREM ChosenIsLeastLoaded == Spec => LeastLoaded
<1> DEFINE Chosen == \A l \in Loops :
              given'[l] > given[l] => \A k \in Loops : given[l] <= given[k]
<1>1. PoolInv /\ [Next]_vars => [Chosen]_vars
  <2> SUFFICES ASSUME PoolInv, Next
               PROVE  Chosen
    OBVIOUS
  <2> SUFFICES ASSUME NEW l \in Loops, given'[l] > given[l], NEW k \in Loops
               PROVE  given[l] <= given[k]
    OBVIOUS
  <2> USE DEF PoolInv
  <2>1. given[l] \in Nat /\ given[k] \in Nat
    BY DEF TypeOK
  <2>2. CASE GetNextLoopMinConnection
    <3>1. PICK loop \in Loops \cup {Base} :
              TakeMinLoop(loop) /\ given' = [given EXCEPT ![loop] = @ + 1]
      BY <2>2 DEF GetNextLoopMinConnection
    <3>2. loop = l
      BY <2>1, <3>1 DEF TypeOK
    <3>3. m_connectionCount = {m_loopInfo[i] : i \in Loops}
      BY <2>2 DEF GetNextLoopMinConnection, CountsAgree
    <3>4. PICK p \in m_connectionCount : IsFirst(p) /\ l = p[2]
      BY <3>1, <3>2, <3>3 DEF TakeMinLoop
    <3>5. p[1] = given[l]
      BY <3>3, <3>4 DEF CountsAgree
    <3>6. <<given[k], k>> \in m_connectionCount
      BY <3>3 DEF CountsAgree
    <3> QED
      BY <2>1, <3>4, <3>5, <3>6 DEF IsFirst
  <2>3. CASE Start \/ GetNextLoop
    BY <2>1, <2>3 DEF Start, GetNextLoop
  <2>4. ASSUME NEW loop \in Loops \cup {Base}, RemoveLoopConnection(loop)
        PROVE  FALSE
    BY <2>1, <2>4 DEF RemoveLoopConnection, TypeOK
  <2> QED
    BY <2>2, <2>3, <2>4 DEF Next
<1> QED
  BY <1>1, PoolInvariant, PTL DEF Spec, LeastLoaded

-----------------------------------------------------------------------------
(* The pool with its threads.                                              *)

Running == {"enter", "looping"}

(* What a thread's place says of its loop.                                 *)
PlaceOK(t) ==
    /\ t.published <=> t.at \in {"enter", "looping", "leaving"}
    /\ t.alive <=> t.at \in {"publish", "enter", "looping", "leaving", "unlock"}
    /\ t.destroyed => t.at = "done"
    /\ t.at \in Running \cup {"publish", "none", "failed", "created", "construct"}
          => ~t.destroyed

Ready(l) == thread[l].at \in Running /\ ~thread[l].m_quit
Absent(l) == thread[l].at = "none" /\ ~thread[l].m_quit
Over(l) == thread[l].at = "done"

(* How far the base thread is says where the others can be.                *)
Progress ==
    /\ base.at \in {"latch", "startLoop", "join"} => base.with \in Loops
    /\ base.at \in {"starting", "latch", "startLoop"} =>
          \A l \in Loops :
             /\ l < base.with => Ready(l)
             /\ l > base.with => Absent(l)
             /\ l = base.with =>
                   /\ ~thread[l].m_quit
                   /\ thread[l].at \notin {"leaving", "unlock", "done"}
                   /\ base.at = "starting" => Absent(l)
    /\ base.at = "running" => \A l \in Loops : Ready(l)
    /\ base.at \in {"ending", "join"} =>
          \A l \in Loops :
             /\ l < base.with => Over(l)
             /\ l > base.with => Ready(l)
             /\ l = base.with /\ base.at = "ending" => Ready(l)
             /\ l = base.with /\ base.at = "join" =>
                   thread[l].at \in Running \cup {"leaving", "unlock", "done"}
    /\ base.at = "ended" => \A l \in Loops : Over(l)

TInv ==
    /\ ThreadTypes
    /\ \A l \in Loops : PlaceOK(thread[l])
    /\ Progress

-----------------------------------------------------------------------------
(* Whatever the threads do, the pool's variables change as in the pool.    *)
THEOREM ThreadsImplementPool == ThreadsSpec => Spec
<1>1. ThreadsInit => Init
  BY DEF ThreadsInit
<1>2. [ThreadsNext]_threadVars => [Next]_vars
  BY DEF ThreadsNext, threadVars, BaseStep, ThreadStep, ThreadStart, LatchWait,
         StartLoop, PoolStarted, DestroyThread, Join, PoolCall, DestroyPool,
         CountDown, Construct, Publish, EnterLoop, LeaveLoop, Withdraw,
         ThreadEnds, Moves, Next
<1> QED
  BY <1>1, <1>2, PTL DEF ThreadsSpec, Spec

-----------------------------------------------------------------------------
LEMMA TInit == ThreadsInit => TInv
<1> SUFFICES ASSUME ThreadsInit PROVE TInv
  OBVIOUS
<1>1. base = [at |-> "starting", with |-> 0, asleep |-> FALSE]
  BY DEF ThreadsInit
<1>2. thread = [l \in Loops |-> [at |-> "none", latch |-> 1, published |-> FALSE,
                                 alive |-> FALSE, m_quit |-> FALSE,
                                 destroyed |-> FALSE]]
  BY DEF ThreadsInit
<1>3. ThreadTypes
  BY <1>1, <1>2, PoolAssumption DEF ThreadTypes
<1>4. \A l \in Loops : PlaceOK(thread[l])
  BY <1>2 DEF PlaceOK, Running
<1>5. Progress
  BY <1>1, <1>2, PoolAssumption DEF Progress, Absent, Loops
<1> QED
  BY <1>3, <1>4, <1>5 DEF TInv

(* A step of l's own thread.                                               *)
LEMMA ThreadMoves ==
    ASSUME TInv, NEW l \in Loops, NEW from, NEW to,
           Moves(l, from, to), to \in [at : {"none", "failed", "created",
                 "construct", "publish", "enter", "looping", "leaving",
                 "unlock", "done"},
              latch : {0, 1}, published : BOOLEAN, alive : BOOLEAN,
              m_quit : BOOLEAN, destroyed : BOOLEAN],
           PlaceOK(to),
           base'.at = base.at, base'.with = base.with,
           base' \in [at : {"starting", "latch", "startLoop", "running",
                            "ending", "join", "ended"},
                      with : 0 .. NumThreads, asleep : BOOLEAN],
           \/ from \in {"created", "construct", "publish"}
                 /\ to.at \in {"construct", "publish", "enter"}
                 /\ to.m_quit = thread[l].m_quit
           \/ from = "enter" /\ to.at = "looping" /\ ~to.m_quit
           \/ from \in {"looping", "leaving", "unlock"}
                 /\ to.at \in {"leaving", "unlock", "done"}
                 /\ (from = "looping" => thread[l].m_quit)
    PROVE  TInv'
<1>1. /\ thread[l].at = from
      /\ thread' = [thread EXCEPT ![l] = to]
      /\ thread'[l] = to
      /\ \A k \in Loops \ {l} : thread'[k] = thread[k]
  BY DEF Moves, TInv, ThreadTypes
<1>2. ThreadTypes'
  BY <1>1 DEF TInv, ThreadTypes
<1>3. \A k \in Loops : PlaceOK(thread'[k])
  BY <1>1 DEF TInv
<1>4. Progress'
  <2>1. base.at \in {"starting", "latch", "startLoop"} =>
          \A k \in Loops :
             /\ k < base.with => Ready(k)'
             /\ k > base.with => Absent(k)'
             /\ k = base.with =>
                   /\ ~thread'[k].m_quit
                   /\ thread'[k].at \notin {"leaving", "unlock", "done"}
                   /\ base.at = "starting" => Absent(k)'
    BY <1>1 DEF TInv, Progress, Ready, Absent, Running
  <2>2. base.at = "running" => \A k \in Loops : Ready(k)'
    BY <1>1 DEF TInv, Progress, Ready, Running
  <2>3. base.at \in {"ending", "join"} =>
          \A k \in Loops :
             /\ k < base.with => Over(k)'
             /\ k > base.with => Ready(k)'
             /\ k = base.with /\ base.at = "ending" => Ready(k)'
             /\ k = base.with /\ base.at = "join" =>
                   thread'[k].at \in Running \cup {"leaving", "unlock", "done"}
    BY <1>1 DEF TInv, Progress, Ready, Over, Running
  <2>4. base.at = "ended" => \A k \in Loops : Over(k)'
    BY <1>1 DEF TInv, Progress, Over
  <2>5. base.at \in {"latch", "startLoop", "join"} => base.with \in Loops
    BY DEF TInv, Progress
  <2> QED
    BY <2>1, <2>2, <2>3, <2>4, <2>5 DEF Progress, Ready, Absent, Over
<1> QED
  BY <1>2, <1>3, <1>4 DEF TInv

LEMMA ThreadStepKeeps ==
    ASSUME TInv, NEW l \in Loops, ThreadStep(l)
    PROVE  TInv'
<1> DEFINE T == [at : {"none", "failed", "created", "construct", "publish",
                       "enter", "looping", "leaving", "unlock", "done"},
                 latch : {0, 1}, published : BOOLEAN, alive : BOOLEAN,
                 m_quit : BOOLEAN, destroyed : BOOLEAN]
           B == [at : {"starting", "latch", "startLoop", "running", "ending",
                       "join", "ended"},
                 with : 0 .. NumThreads, asleep : BOOLEAN]
<1>1. thread[l] \in T /\ base \in B /\ PlaceOK(thread[l])
  BY DEF TInv, ThreadTypes
<1>2. /\ base' \in B
      /\ base'.at = base.at
      /\ base'.with = base.with
  BY <1>1 DEF ThreadStep, CountDown, Construct, Publish, EnterLoop, LeaveLoop,
              Withdraw, ThreadEnds, Wakes
<1>3. CASE CountDown(l)
  <2> DEFINE to == [thread[l] EXCEPT !.at = "construct", !.latch = 0]
  <2>1. Moves(l, "created", to) /\ thread[l].at = "created"
    BY <1>3 DEF CountDown, Moves
  <2>2. to \in T /\ PlaceOK(to) /\ to.at = "construct" /\ to.m_quit = thread[l].m_quit
    BY <1>1, <2>1 DEF PlaceOK, Running
  <2> HIDE DEF to
  <2> QED
    BY <1>2, <2>1, <2>2, ThreadMoves
<1>4. CASE Construct(l)
  <2> DEFINE to == [thread[l] EXCEPT !.at = "publish", !.alive = TRUE]
  <2>1. Moves(l, "construct", to) /\ thread[l].at = "construct"
    BY <1>4 DEF Construct, Moves
  <2>2. to \in T /\ PlaceOK(to) /\ to.at = "publish" /\ to.m_quit = thread[l].m_quit
    BY <1>1, <2>1 DEF PlaceOK, Running
  <2> HIDE DEF to
  <2> QED
    BY <1>2, <2>1, <2>2, ThreadMoves
<1>5. CASE Publish(l)
  <2> DEFINE to == [thread[l] EXCEPT !.at = "enter", !.published = TRUE]
  <2>1. Moves(l, "publish", to) /\ thread[l].at = "publish"
    BY <1>5 DEF Publish, Moves
  <2>2. to \in T /\ PlaceOK(to) /\ to.at = "enter" /\ to.m_quit = thread[l].m_quit
    BY <1>1, <2>1 DEF PlaceOK, Running
  <2> HIDE DEF to
  <2> QED
    BY <1>2, <2>1, <2>2, ThreadMoves
<1>6. CASE EnterLoop(l)
  <2> DEFINE to == [thread[l] EXCEPT !.at = "looping", !.m_quit = FALSE]
  <2>1. Moves(l, "enter", to) /\ thread[l].at = "enter"
    BY <1>6 DEF EnterLoop, Moves
  <2>2. to \in T /\ PlaceOK(to) /\ to.at = "looping" /\ ~to.m_quit
    BY <1>1, <2>1 DEF PlaceOK, Running
  <2> HIDE DEF to
  <2> QED
    BY <1>2, <2>1, <2>2, ThreadMoves
<1>7. CASE LeaveLoop(l)
  <2> DEFINE to == [thread[l] EXCEPT !.at = "leaving"]
  <2>1. Moves(l, "looping", to) /\ thread[l].at = "looping" /\ thread[l].m_quit
    BY <1>7 DEF LeaveLoop, Moves
  <2>2. to \in T /\ PlaceOK(to) /\ to.at = "leaving"
    BY <1>1, <2>1 DEF PlaceOK, Running
  <2> HIDE DEF to
  <2> QED
    BY <1>2, <2>1, <2>2, ThreadMoves
<1>8. CASE Withdraw(l)
  <2> DEFINE to == [thread[l] EXCEPT !.at = "unlock", !.published = FALSE]
  <2>1. Moves(l, "leaving", to) /\ thread[l].at = "leaving"
    BY <1>8 DEF Withdraw, Moves
  <2>2. to \in T /\ PlaceOK(to) /\ to.at = "unlock"
    BY <1>1, <2>1 DEF PlaceOK, Running
  <2> HIDE DEF to
  <2> QED
    BY <1>2, <2>1, <2>2, ThreadMoves
<1>9. CASE ThreadEnds(l)
  <2> DEFINE to == [thread[l] EXCEPT !.at = "done", !.alive = FALSE]
  <2>1. Moves(l, "unlock", to) /\ thread[l].at = "unlock"
    BY <1>9 DEF ThreadEnds, Moves
  <2>2. to \in T /\ PlaceOK(to) /\ to.at = "done"
    BY <1>1, <2>1 DEF PlaceOK, Running
  <2> HIDE DEF to
  <2> QED
    BY <1>2, <2>1, <2>2, ThreadMoves
<1> QED
  BY <1>3, <1>4, <1>5, <1>6, <1>7, <1>8, <1>9 DEF ThreadStep

-----------------------------------------------------------------------------
(* A step of the base thread.                                              *)
LEMMA BaseStepKeeps ==
    ASSUME TInv, BaseStep \/ PoolCall \/ DestroyPool
    PROVE  TInv'
<1>0. /\ ThreadTypes /\ (\A l \in Loops : PlaceOK(thread[l])) /\ Progress
      /\ NumThreads \in Nat
  BY PoolAssumption DEF TInv
<1>1. CASE ThreadStart
  <2>1. /\ base.at = "starting" /\ base.with \in Loops
        /\ base'.with = base.with
        /\ \/ /\ thread' = [thread EXCEPT ![base.with].at = "created"]
              /\ base'.at = "latch"
           \/ /\ thread' = [thread EXCEPT ![base.with].at = "failed"]
              /\ base'.at = "startLoop"
    BY <1>0, <1>1 DEF ThreadStart, BaseGoes, ThreadTypes
  <2>2. ThreadTypes'
    BY <1>0, <1>1 DEF ThreadStart, BaseGoes, ThreadTypes
  <2>3. \A l \in Loops : PlaceOK(thread'[l])
    BY <1>0, <2>1 DEF ThreadTypes, PlaceOK, Running, Progress, Absent
  <2>4. Progress'
    BY <1>0, <2>1 DEF ThreadTypes, Progress, Ready, Absent
  <2> QED
    BY <2>2, <2>3, <2>4 DEF TInv
<1>2. CASE LatchWait
  <2>1. /\ base.at = "latch" /\ base'.at \in {"latch", "startLoop"}
        /\ base'.with = base.with /\ thread' = thread
    BY <1>0, <1>2 DEF LatchWait, BaseGoes, ThreadTypes
  <2>2. ThreadTypes'
    BY <1>0, <1>2 DEF LatchWait, BaseGoes, ThreadTypes
  <2>3. Progress'
    BY <1>0, <2>1 DEF Progress, Ready, Absent
  <2> QED
    BY <1>0, <2>1, <2>2, <2>3 DEF TInv
<1>3. CASE StartLoop
  <2>1. /\ base.at = "startLoop" /\ base.with \in Loops /\ thread' = thread
        /\ \/ base'.at = "startLoop" /\ base'.with = base.with
           \/ /\ thread[base.with].published
              /\ base'.at = "starting" /\ base'.with = base.with + 1
    BY <1>0, <1>3 DEF StartLoop, Current, ThreadTypes, Progress
  <2>2. ThreadTypes'
    <3>1. base.with + 1 \in 0 .. NumThreads
      BY <1>0, <2>1 DEF Loops
    <3> QED
      BY <1>0, <1>3, <3>1 DEF StartLoop, ThreadTypes
  <2>3. Progress'
    <3>1. CASE base'.at = "startLoop" /\ base'.with = base.with
      BY <1>0, <2>1, <3>1 DEF Progress, Ready, Absent
    <3>2. CASE /\ thread[base.with].published
               /\ base'.at = "starting" /\ base'.with = base.with + 1
      <4>1. Ready(base.with)
        BY <1>0, <2>1, <3>2 DEF Progress, Ready, PlaceOK, Running
      <4>2. \A l \in Loops :
               /\ l < base.with + 1 <=> l < base.with \/ l = base.with
               /\ l > base.with + 1 => l > base.with
               /\ l = base.with + 1 => l > base.with
        BY <2>1 DEF Loops
      <4>3. \A l \in Loops :
               /\ l < base'.with => Ready(l)
               /\ l >= base'.with => Absent(l)
        BY <1>0, <2>1, <3>2, <4>1, <4>2 DEF Progress, Loops
      <4> QED
        BY <2>1, <3>2, <4>2, <4>3 DEF Progress, Ready, Absent, Loops
    <3> QED
      BY <2>1, <3>1, <3>2
  <2> QED
    BY <1>0, <2>1, <2>2, <2>3 DEF TInv
<1>4. CASE PoolStarted
  <2>1. /\ base.at = "starting" /\ base.with = NumThreads
        /\ base'.at = "running" /\ base'.with = base.with /\ thread' = thread
    BY <1>0, <1>4 DEF PoolStarted, BaseGoes, ThreadTypes
  <2>2. ThreadTypes'
    BY <1>0, <1>4 DEF PoolStarted, BaseGoes, ThreadTypes
  <2>3. Progress'
    BY <1>0, <2>1 DEF Progress, Ready, Loops
  <2> QED
    BY <1>0, <2>1, <2>2, <2>3 DEF TInv
<1>5. CASE DestroyThread
  <2>1. base.at = "ending" /\ base.with \in 0 .. NumThreads
    BY <1>0, <1>5 DEF DestroyThread, ThreadTypes
  <2>3. CASE base.with = NumThreads
    <3>1. thread' = thread /\ base'.at = "ended"
      BY <1>0, <1>5, <2>3 DEF DestroyThread, BaseGoes, ThreadTypes
    <3>3. ThreadTypes'
      BY <1>0, <1>5, <2>3, <3>1 DEF DestroyThread, BaseGoes, ThreadTypes
    <3>2. Progress'
      BY <1>0, <2>1, <2>3, <3>1 DEF Progress, Over, Loops
    <3> QED
      BY <1>0, <3>1, <3>2, <3>3 DEF TInv
  <2>4. CASE base.with # NumThreads
    <3>1. base.with \in Loops
      BY <1>0, <2>1, <2>4 DEF Loops
    <3>2. Ready(base.with) /\ Current.published
      BY <1>0, <2>1, <3>1 DEF Progress, Ready, PlaceOK, Running, Current
    <3>3. /\ thread' = [thread EXCEPT ![base.with].m_quit = TRUE]
          /\ base'.at = "join" /\ base'.with = base.with
      BY <1>0, <1>5, <2>4, <3>2 DEF DestroyThread, BaseGoes, ThreadTypes
    <3>4. \A l \in Loops : PlaceOK(thread'[l])
      BY <1>0, <3>1, <3>3 DEF PlaceOK, ThreadTypes
    <3>5. Progress'
      BY <1>0, <2>1, <3>1, <3>2, <3>3 DEF Progress, Ready, Over, ThreadTypes
    <3>6. ThreadTypes'
      BY <1>0, <1>5, <2>4, <3>1, <3>2, <3>3
         DEF DestroyThread, BaseGoes, ThreadTypes
    <3> QED
      BY <3>4, <3>5, <3>6 DEF TInv
  <2> QED
    BY <2>3, <2>4
<1>6. CASE Join
  <2>1. /\ base.at = "join" /\ base.with \in Loops
        /\ thread[base.with].at = "done"
        /\ thread' = [thread EXCEPT ![base.with].destroyed = TRUE]
        /\ base'.at = "ending" /\ base'.with = base.with + 1
    BY <1>0, <1>6 DEF Join, Current, Destroyed, Progress, ThreadTypes
  <2>2. ThreadTypes'
    <3>1. base.with + 1 \in 0 .. NumThreads
      BY <1>0, <2>1 DEF Loops
    <3>2. base' = [[base EXCEPT !.at = "ending"] EXCEPT !.with = base.with + 1]
      BY <1>0, <1>6 DEF Join, ThreadTypes
    <3>3. base' \in [at : {"starting", "latch", "startLoop", "running", "ending",
                          "join", "ended"}, with : 0 .. NumThreads, asleep : BOOLEAN]
      BY <1>0, <3>1, <3>2 DEF ThreadTypes
    <3> QED
      BY <1>0, <2>1, <3>3 DEF ThreadTypes
  <2>3. \A l \in Loops : PlaceOK(thread'[l])
    BY <1>0, <2>1 DEF PlaceOK, Running, ThreadTypes
  <2>4. Progress'
    BY <1>0, <2>1 DEF Progress, Ready, Over, ThreadTypes, Loops
  <2> QED
    BY <2>2, <2>3, <2>4 DEF TInv
<1>7. CASE PoolCall
  BY <1>0, <1>7 DEF PoolCall, TInv, ThreadTypes, Progress, Ready, Absent, Over
<1>8. CASE DestroyPool
  <2>1. /\ base.at = "running" /\ thread' = thread
        /\ base'.at = "ending" /\ base'.with = 0
    BY <1>0, <1>8 DEF DestroyPool, ThreadTypes
  <2>2. ThreadTypes'
    <3>1. 0 \in 0 .. NumThreads
      BY <1>0
    <3>2. base' = [[base EXCEPT !.at = "ending"] EXCEPT !.with = 0]
      BY <1>8 DEF DestroyPool
    <3>3. base' \in [at : {"starting", "latch", "startLoop", "running", "ending",
                          "join", "ended"}, with : 0 .. NumThreads, asleep : BOOLEAN]
      BY <1>0, <3>1, <3>2 DEF ThreadTypes
    <3> QED
      BY <1>0, <2>1, <3>3 DEF ThreadTypes
  <2>3. Progress'
    BY <1>0, <2>1 DEF Progress, Ready, Loops
  <2> QED
    BY <1>0, <2>1, <2>2, <2>3 DEF TInv
<1> QED
  BY <1>1, <1>2, <1>3, <1>4, <1>5, <1>6, <1>7, <1>8 DEF BaseStep

LEMMA TInvariant == ThreadsSpec => []TInv
<1>1. ThreadsInit => TInv
  BY TInit
<1>2. TInv /\ [ThreadsNext]_threadVars => TInv'
  <2> SUFFICES ASSUME TInv, [ThreadsNext]_threadVars PROVE TInv'
    OBVIOUS
  <2>1. CASE UNCHANGED threadVars
    BY <2>1 DEF threadVars, TInv, ThreadTypes, Progress, Ready, Absent, Over
  <2> QED
    BY <2>1, BaseStepKeeps, ThreadStepKeeps DEF ThreadsNext
<1> QED
  BY <1>1, <1>2, PTL DEF ThreadsSpec

-----------------------------------------------------------------------------
(* Every state of the threads and of the pool's tables has its type.       *)
THEOREM ThreadsTypeCorrect == ThreadsSpec => []ThreadsTypeOK
<1>1. TInv => ThreadTypes
  BY DEF TInv
<1> QED
  BY <1>1, TInvariant, ThreadsImplementPool, TypeCorrect, PTL DEF ThreadsTypeOK

(* ~EventLoopThread() joins the thread: no pointer to a loop is followed   *)
(* after the loop is gone, and no destroyed EventLoopThread is touched.    *)
THEOREM LoopsOutlivePointers == ThreadsSpec => []PointersLive
<1>1. TInv => PointersLive
  BY DEF TInv, PointersLive, PlaceOK, Progress, Ready, Running
<1> QED
  BY <1>1, TInvariant, PTL

(* update()'s tables agree with the connections, with the threads running. *)
THEOREM TablesAgreeWithThreads == ThreadsSpec => []CountsAgree
BY ThreadsImplementPool, TablesAgree, PTL

(* getNextLoopMinConnection() with the threads running.                    *)
THEOREM LeastLoadedWithThreads == ThreadsSpec => LeastLoaded
BY ThreadsImplementPool, ChosenIsLeastLoaded

=============================================================================
