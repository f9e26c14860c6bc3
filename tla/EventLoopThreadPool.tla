------------------------ MODULE EventLoopThreadPool -------------------------
(***************************************************************************)
(* The choice of an I/O loop for a connection (net/EventLoopThreadPool.cc) *)
(* and the caller's part in it.  The pool keeps the number of connections  *)
(* of each loop twice: per loop, in m_loopInfo, and as a set of pairs      *)
(* ordered by count, m_connectionCount, whose first element is the next    *)
(* loop.  All calls are made on the base loop's thread.                    *)
(*                                                                         *)
(* given and handed are the caller's view, which the pool does not see:    *)
(* the connections it holds on each loop, and how often getNextLoop gave   *)
(* it each loop.  MaxConns and MaxCalls bound them.                        *)
(***************************************************************************)
EXTENDS Integers

CONSTANTS NumThreads, MaxConns, MaxCalls

ASSUME PoolAssumption ==
    /\ NumThreads \in Nat
    /\ MaxConns \in Nat
    /\ MaxCalls \in Nat

VARIABLES
    m_started,
    m_next,
    m_loopInfo,         \* loop -> <<count, index>>
    m_connectionCount,  \* {<<count, index>>}, ordered lexicographically
    given,
    handed

vars == <<m_started, m_next, m_loopInfo, m_connectionCount, given, handed>>

Base == -1                      \* m_baseLoop
Loops == 0 .. NumThreads - 1    \* m_loops, a loop being its index

TypeOK ==
    /\ m_started \in BOOLEAN
    /\ m_next \in Nat
    /\ m_loopInfo \in [Loops -> Int \X Loops]
    /\ m_connectionCount \subseteq Int \X Loops
    /\ given \in [Loops \cup {Base} -> Nat]
    /\ handed \in [Loops -> Nat]

(* m_loopInfo is empty until start(), and nothing reads it before.         *)
Init ==
    /\ m_started = FALSE
    /\ m_next = 0
    /\ m_loopInfo = [l \in Loops |-> <<0, l>>]
    /\ m_connectionCount = {}
    /\ given = [l \in Loops \cup {Base} |-> 0]
    /\ handed = [l \in Loops |-> 0]

-----------------------------------------------------------------------------
(* The pool's operations on its two tables.                                *)

(* Mutant of StartTables: i <= m_threadNums for i < m_threadNums.          *)
StartTables_OffByOne ==
    /\ ~m_started
    /\ m_started' = TRUE
    /\ m_connectionCount' = {<<0, l>> : l \in 0 .. NumThreads}
    /\ m_loopInfo' = [l \in Loops |-> <<0, l>>]

StartTables ==
    /\ ~m_started
    /\ m_started' = TRUE
    /\ m_connectionCount' = {<<0, l>> : l \in Loops}
    /\ m_loopInfo' = [l \in Loops |-> <<0, l>>]

(* Mutant of UpdateTables: the old entry stays in m_connectionCount.       *)
UpdateTables_NoErase(loop, newCnt) ==
    LET idx == m_loopInfo[loop][2] IN
    /\ m_connectionCount' = m_connectionCount \cup {<<newCnt, idx>>}
    /\ m_loopInfo' = [m_loopInfo EXCEPT ![loop] = <<newCnt, idx>>]

(* update()                                                                *)
UpdateTables(loop, newCnt) ==
    LET idx == m_loopInfo[loop][2] IN
    /\ m_connectionCount' = (m_connectionCount \ {m_loopInfo[loop]})
                                \cup {<<newCnt, idx>>}
    /\ m_loopInfo' = [m_loopInfo EXCEPT ![loop] = <<newCnt, idx>>]

(* p is at m_connectionCount.begin()                                       *)
IsFirst(p) ==
    /\ p \in m_connectionCount
    /\ \A q \in m_connectionCount :
          p[1] < q[1] \/ (p[1] = q[1] /\ p[2] <= q[2])

(* Mutant of TakeMinLoop: rbegin() for begin().                            *)
TakeMinLoop_Last(loop) ==
    IF m_connectionCount = {}
    THEN loop = Base /\ UNCHANGED <<m_loopInfo, m_connectionCount>>
    ELSE \E p \in m_connectionCount :
            /\ \A q \in m_connectionCount :
                  q[1] < p[1] \/ (p[1] = q[1] /\ q[2] <= p[2])
            /\ loop = p[2]
            /\ UpdateTables(loop, p[1] + 1)

(* getNextLoopMinConnection() returns loop.                                *)
TakeMinLoop(loop) ==
    IF m_connectionCount = {}
    THEN loop = Base /\ UNCHANGED <<m_loopInfo, m_connectionCount>>
    ELSE \E p \in m_connectionCount :
            /\ IsFirst(p)
            /\ loop = p[2]
            /\ UpdateTables(loop, p[1] + 1)

(* removeLoopConnection(loop)                                              *)
DropLoop(loop) ==
    IF m_connectionCount = {}
        THEN UNCHANGED <<m_loopInfo, m_connectionCount>>
        ELSE UpdateTables(loop, m_loopInfo[loop][1] - 1)

-----------------------------------------------------------------------------
(* The calls, with what the caller makes of them.                          *)

Start ==
    /\ StartTables
    /\ UNCHANGED <<m_next, given, handed>>

GetNextLoopMinConnection ==
    /\ m_started
    /\ \E loop \in Loops \cup {Base} :
          /\ given[loop] < MaxConns
          /\ TakeMinLoop(loop)
          /\ given' = [given EXCEPT ![loop] = @ + 1]
    /\ UNCHANGED <<m_started, m_next, handed>>

RemoveLoopConnection(loop) ==
    /\ m_started
    /\ given[loop] > 0
    /\ DropLoop(loop)
    /\ given' = [given EXCEPT ![loop] = @ - 1]
    /\ UNCHANGED <<m_started, m_next, handed>>

(* getNextLoop(), round-robin; with no thread it returns the base loop and *)
(* changes nothing.                                                        *)
GetNextLoop ==
    /\ m_started
    /\ m_next \in Loops
    /\ handed[m_next] < MaxCalls
    /\ handed' = [handed EXCEPT ![m_next] = @ + 1]
    /\ m_next' = IF m_next + 1 >= NumThreads THEN 0 ELSE m_next + 1
    /\ UNCHANGED <<m_started, m_loopInfo, m_connectionCount, given>>

Next ==
    \/ Start
    \/ GetNextLoopMinConnection
    \/ \E loop \in Loops \cup {Base} : RemoveLoopConnection(loop)
    \/ GetNextLoop

Spec == Init /\ [][Next]_vars

-----------------------------------------------------------------------------
(* Properties.                                                             *)

(* update()'s asserts: after any history of additions and removals the two *)
(* tables describe each loop by the same pair, once, and that pair carries *)
(* the number of connections the caller really has there.                  *)
CountsAgree ==
    /\ \A l \in Loops : m_loopInfo[l] = <<given[l], l>>
    /\ m_started => m_connectionCount = {m_loopInfo[l] : l \in Loops}

(* getNextLoopMinConnection: a connection is never put on a loop that has  *)
(* more connections than another one.                                      *)
LeastLoaded ==
    [][\A l \in Loops :
          given'[l] > given[l] => \A k \in Loops : given[l] <= given[k]]_vars

(* getNextLoop: however it is mixed with the other calls, no loop is ever  *)
(* handed out two times more than another.                                 *)
RoundRobin ==
    \A k, l \in Loops : handed[k] <= handed[l] + 1

=============================================================================
