--------------------------- MODULE EventLoopThread ---------------------------
(***************************************************************************)
(* The threads of the loop pool and the pool's life on the base thread     *)
(* (net/EventLoopThread.cc, Thread.cc, Latch.cc, and start() and the       *)
(* destructor of EventLoopThreadPool).  A loop is a local variable of its  *)
(* thread: the pool has a pointer to it from when the thread published it  *)
(* until the thread withdraws it, which it does when the loop was quit.    *)
(*                                                                         *)
(* A condition variable's wait tests and falls asleep under the mutex, in  *)
(* one step, and a signal wakes the sleeper to test again.                 *)
(***************************************************************************)
EXTENDS EventLoopThreadPool

VARIABLES
    base,   \* the base thread: where it is, with which thread, asleep or not
    thread  \* loop -> its EventLoopThread and thread:
            \*   at: where the thread is; latch: the count of m_lacth;
            \*   published: m_loop # NULL; alive: the EventLoop exists;
            \*   m_quit: of the EventLoop; destroyed: the EventLoopThread is

threadVars == <<vars, base, thread>>

ThreadTypes ==
    /\ base \in [at : {"starting", "latch", "startLoop", "running", "ending",
                       "join", "ended"},
                 with : 0 .. NumThreads, asleep : BOOLEAN]
    /\ thread \in [Loops ->
          [at : {"none", "failed", "created", "construct", "publish", "enter",
                 "looping", "leaving", "unlock", "done"},
           latch : {0, 1}, published : BOOLEAN, alive : BOOLEAN,
           m_quit : BOOLEAN, destroyed : BOOLEAN]]

ThreadsTypeOK == TypeOK /\ ThreadTypes

ThreadsInit ==
    /\ Init
    /\ base = [at |-> "starting", with |-> 0, asleep |-> FALSE]
    /\ thread = [l \in Loops |-> [at |-> "none", latch |-> 1, published |-> FALSE,
                                  alive |-> FALSE, m_quit |-> FALSE,
                                  destroyed |-> FALSE]]

-----------------------------------------------------------------------------
(* The base thread, in start().                                            *)

Current == thread[base.with]
BaseGoes(at) == base' = [base EXCEPT !.at = at]

(* Thread::start(): pthread_create(), which may fail.                      *)
ThreadStart ==
    /\ base.at = "starting"
    /\ base.with \in Loops
    /\ \/ /\ thread' = [thread EXCEPT ![base.with].at = "created"]
          /\ BaseGoes("latch")
       \/ /\ thread' = [thread EXCEPT ![base.with].at = "failed"]
          /\ BaseGoes("startLoop")
    /\ UNCHANGED vars

(* CountDownLatch::wait()                                                  *)
LatchWait ==
    /\ base.at = "latch"
    /\ ~base.asleep
    /\ IF Current.latch > 0 THEN base' = [base EXCEPT !.asleep = TRUE]
                            ELSE BaseGoes("startLoop")
    /\ UNCHANGED <<vars, thread>>

(* EventLoopThread::startLoop(), waiting for m_loop.                       *)
StartLoop ==
    /\ base.at = "startLoop"
    /\ ~base.asleep
    /\ base' = IF ~Current.published THEN [base EXCEPT !.asleep = TRUE]
               ELSE [base EXCEPT !.at = "starting", !.with = @ + 1]
    /\ UNCHANGED <<vars, thread>>

(* start() returns.  Nobody reads the tables before it does, so that they  *)
(* are filled here in one step and not in one per thread.                  *)
PoolStarted ==
    /\ base.at = "starting"
    /\ base.with = NumThreads
    /\ Start
    /\ BaseGoes("running")
    /\ UNCHANGED thread

(* The pool's other calls.                                                 *)
PoolCall ==
    /\ base.at = "running"
    /\ \/ GetNextLoopMinConnection
       \/ \E loop \in Loops \cup {Base} : RemoveLoopConnection(loop)
       \/ GetNextLoop
    /\ UNCHANGED <<base, thread>>

-----------------------------------------------------------------------------
(* The base thread, in the destructors of the pool and of m_threads.       *)

Destroyed(l) == [thread EXCEPT ![l].destroyed = TRUE]

DestroyPool ==
    /\ base.at = "running"
    /\ base' = [base EXCEPT !.at = "ending", !.with = 0]
    /\ UNCHANGED <<vars, thread>>

(* Mutant of DestroyThread: quit() without join().                         *)
DestroyThread_NoJoin ==
    /\ base.at = "ending"
    /\ IF base.with = NumThreads THEN BaseGoes("ended") /\ UNCHANGED thread
       ELSE /\ thread' = [thread EXCEPT ![base.with].m_quit = TRUE,
                                        ![base.with].destroyed = TRUE]
            /\ base' = [base EXCEPT !.with = @ + 1]
    /\ UNCHANGED vars

(* EventLoopThread::~EventLoopThread(), to m_thread.join().  Without a     *)
(* loop it does not wait, and Thread::~Thread() detaches the thread.       *)
DestroyThread ==
    /\ base.at = "ending"
    /\ IF base.with = NumThreads THEN BaseGoes("ended") /\ UNCHANGED thread
       ELSE IF Current.published
       THEN /\ thread' = [thread EXCEPT ![base.with].m_quit = TRUE]
            /\ BaseGoes("join")
       ELSE /\ thread' = Destroyed(base.with)
            /\ base' = [base EXCEPT !.with = @ + 1]
    /\ UNCHANGED vars

(* Thread::join() returns.                                                 *)
Join ==
    /\ base.at = "join"
    /\ Current.at = "done"
    /\ thread' = Destroyed(base.with)
    /\ base' = [base EXCEPT !.at = "ending", !.with = @ + 1]
    /\ UNCHANGED vars

-----------------------------------------------------------------------------
(* A loop's thread.                                                        *)

Moves(l, from, to) ==
    /\ thread[l].at = from
    /\ thread' = [thread EXCEPT ![l] = to]
    /\ UNCHANGED vars

(* l's thread signals what the base thread waits for.                      *)
Wakes(l, at) ==
    base' = IF base.at = at /\ base.with = l THEN [base EXCEPT !.asleep = FALSE]
                                             ELSE base

(* Mutant of CountDown: the last count does not broadcast.                 *)
CountDown_Silent(l) ==
    /\ Moves(l, "created", [thread[l] EXCEPT !.at = "construct", !.latch = 0])
    /\ UNCHANGED base

(* ThreadData::runInThread(), CountDownLatch::countDown()                  *)
CountDown(l) ==
    /\ Moves(l, "created", [thread[l] EXCEPT !.at = "construct", !.latch = 0])
    /\ Wakes(l, "latch")

(* createLoopInThread(): the loop's constructor and m_initCallback.        *)
Construct(l) ==
    /\ Moves(l, "construct", [thread[l] EXCEPT !.at = "publish", !.alive = TRUE])
    /\ UNCHANGED base

Publish(l) ==
    /\ Moves(l, "publish", [thread[l] EXCEPT !.at = "enter", !.published = TRUE])
    /\ Wakes(l, "startLoop")

(* EventLoop::loop() begins: whatever quit() said before is forgotten.     *)
EnterLoop(l) ==
    /\ Moves(l, "enter", [thread[l] EXCEPT !.at = "looping", !.m_quit = FALSE])
    /\ UNCHANGED base

(* A round of loop() that finds m_quit: wait() returns after kPollTimeMs   *)
(* at the latest.                                                          *)
LeaveLoop(l) ==
    /\ thread[l].m_quit
    /\ Moves(l, "looping", [thread[l] EXCEPT !.at = "leaving"])
    /\ UNCHANGED base

(* m_loop = NULL under the mutex, which is released when the function ends *)
(* and before the loop is destroyed.                                       *)
Withdraw(l) ==
    /\ Moves(l, "leaving", [thread[l] EXCEPT !.at = "unlock", !.published = FALSE])
    /\ UNCHANGED base

ThreadEnds(l) ==
    /\ Moves(l, "unlock", [thread[l] EXCEPT !.at = "done", !.alive = FALSE])
    /\ UNCHANGED base

-----------------------------------------------------------------------------
BaseStep ==
    ThreadStart \/ LatchWait \/ StartLoop \/ PoolStarted \/ DestroyThread \/ Join

ThreadStep(l) ==
    \/ CountDown(l) \/ Construct(l) \/ Publish(l) \/ EnterLoop(l)
    \/ LeaveLoop(l) \/ Withdraw(l) \/ ThreadEnds(l)

ThreadsNext ==
    \/ BaseStep
    \/ PoolCall
    \/ DestroyPool
    \/ \E l \in Loops : ThreadStep(l)

(* Each thread is scheduled; nothing makes the base thread call the pool   *)
(* or destroy it.                                                          *)
ThreadsSpec ==
    /\ ThreadsInit
    /\ [][ThreadsNext]_threadVars
    /\ WF_threadVars(BaseStep)
    /\ \A l \in Loops : WF_threadVars(ThreadStep(l))

-----------------------------------------------------------------------------
(* Properties.                                                             *)

(* A pointer to a loop that somebody can follow points to a loop: the      *)
(* pool's, from start() to the destructor, and m_loop.  And no thread is   *)
(* left that would still touch the m_mutex or m_loop of a destroyed        *)
(* EventLoopThread: the join in its destructor waits for the last of them. *)
PointersLive ==
    \A l \in Loops :
       /\ base.at = "running" => thread[l].alive
       /\ thread[l].published => thread[l].alive
       /\ thread[l].destroyed => thread[l].at \in {"none", "done"}

(* start() comes back with every loop unless a thread could not be         *)
(* created, and the destructor is not kept waiting by a loop that was quit *)
(* when it was already in loop().                                          *)
StartsAndEnds ==
    /\ base.at = "starting" ~>
          \/ base.at = "running"
          \/ \E l \in Loops : thread[l].at = "failed"
    /\ \A l \in Loops :
          (/\ base.at = "join"
           /\ base.with = l
           /\ thread[l].at = "looping"
           /\ thread[l].m_quit) ~> thread[l].destroyed

(* tests/test_eventloopthread.cc starts a loop and returns at once, which  *)
(* destroys the EventLoopThread: the destructor comes to an end.           *)
DestructorReturns == base.at = "ending" ~> base.at = "ended"

=============================================================================
