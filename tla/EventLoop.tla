----------------------------- MODULE EventLoop ------------------------------
(***************************************************************************)
(* One EventLoop (net/Eventloop.cc) and the threads that post to it.       *)
(*                                                                         *)
(* The loop's own thread runs the iteration of EventLoop::loop() step by   *)
(* step; any other thread may push a functor under m_mutex and, in a       *)
(* second step, write the eventfd that ends epoll_wait, or set m_quit.     *)
(* What is in question is the hand-over: the loop decides without the lock *)
(* whether there is anything to run, runs a batch it swapped out, and may  *)
(* then sleep, while functors keep arriving from other threads, from event *)
(* callbacks, and from the functors it is running.                         *)
(*                                                                         *)
(* A functor is a value of Funcs and is handed over at most once, which    *)
(* bounds the model.  I/O channels are the environment's: a poll may       *)
(* report any of them.                                                     *)
(***************************************************************************)
EXTENDS Naturals, Sequences, Functions

CONSTANTS
    Threads,        \* threads other than the loop's own
    Funcs,          \* functors
    OutsideFuncs,   \* those the loop's own thread queues while not in loop()
    NoFunc,         \* no functor
    IoChannels,     \* channels other than the wakeup channel
    WakeupChannel   \* m_wakeupChannel

ASSUME LoopAssumption ==
    /\ OutsideFuncs \subseteq Funcs
    /\ NoFunc \notin Funcs
    /\ WakeupChannel \notin IoChannels

VARIABLES
    pc,                     \* where the loop's thread is
    m_quit,
    m_pendingFuncs,
    m_callingPendingFuncs,
    m_activeChannels,
    wakeupfd,               \* the counter of the eventfd m_wakeupfd
    todo,                   \* active channels the iteration has yet to handle
    funcs,                  \* local of doPendingFunctors: what is left of it
    posting,                \* posting[t]: pushed by t, which has yet to wake
    unposted,               \* functors nobody has handed over
    ran                     \* functors in the order they were invoked

vars == <<pc, m_quit, m_pendingFuncs, m_callingPendingFuncs, m_activeChannels,
          wakeupfd, todo, funcs, posting, unposted, ran>>

PCs == {"outside", "while", "poll", "events", "callback", "pending", "swap",
        "run", "functor", "aborted"}

TypeOK ==
    /\ pc \in PCs
    /\ m_quit \in BOOLEAN
    /\ m_pendingFuncs \in Seq(Funcs)
    /\ m_callingPendingFuncs \in BOOLEAN
    /\ m_activeChannels \subseteq IoChannels \cup {WakeupChannel}
    /\ wakeupfd \in Nat
    /\ todo \subseteq IoChannels \cup {WakeupChannel}
    /\ funcs \in Seq(Funcs)
    /\ posting \in [Threads -> Funcs \cup {NoFunc}]
    /\ unposted \subseteq Funcs
    /\ ran \in Seq(Funcs)

Init ==
    /\ pc = "outside"
    /\ m_quit = FALSE
    /\ m_pendingFuncs = <<>>
    /\ m_callingPendingFuncs = FALSE
    /\ m_activeChannels = {}
    /\ wakeupfd = 0
    /\ todo = {}
    /\ funcs = <<>>
    /\ posting = [t \in Threads |-> NoFunc]
    /\ unposted = Funcs
    /\ ran = <<>>

-----------------------------------------------------------------------------
(* Threads other than the loop's own.                                      *)

(* Mutant of Post: cb is moved from before it is pushed.                   *)
Post_Moved(t, f) ==
    /\ posting[t] = NoFunc
    /\ f \in unposted \ OutsideFuncs
    /\ unposted' = unposted \ {f}
    /\ m_pendingFuncs' = Append(m_pendingFuncs, NoFunc)
    /\ posting' = [posting EXCEPT ![t] = f]
    /\ UNCHANGED <<pc, m_quit, m_callingPendingFuncs, m_activeChannels,
                   wakeupfd, todo, funcs, ran>>

(* queueInLoop (and runInLoop, which calls it): the push under m_mutex.    *)
Post(t, f) ==
    /\ posting[t] = NoFunc
    /\ f \in unposted \ OutsideFuncs
    /\ unposted' = unposted \ {f}
    /\ m_pendingFuncs' = Append(m_pendingFuncs, f)
    /\ posting' = [posting EXCEPT ![t] = f]
    /\ UNCHANGED <<pc, m_quit, m_callingPendingFuncs, m_activeChannels,
                   wakeupfd, todo, funcs, ran>>

(* The rest of queueInLoop: not in the loop's thread, so wakeup().         *)
Wake(t) ==
    /\ posting[t] # NoFunc
    /\ wakeupfd' = wakeupfd + 1
    /\ posting' = [posting EXCEPT ![t] = NoFunc]
    /\ UNCHANGED <<pc, m_quit, m_pendingFuncs, m_callingPendingFuncs,
                   m_activeChannels, todo, funcs, unposted, ran>>

(* quit(), by any thread; it does not wake the loop.                       *)
Quit ==
    /\ ~m_quit
    /\ m_quit' = TRUE
    /\ UNCHANGED <<pc, m_pendingFuncs, m_callingPendingFuncs,
                   m_activeChannels, wakeupfd, todo, funcs, posting,
                   unposted, ran>>

(* Mutant of QueueInLoopOwn: functors do not wake the loop they run on.    *)
QueueInLoopOwn_NoWake(f) ==
    /\ \/ pc = "outside" /\ f \in OutsideFuncs
       \/ pc \in {"callback", "functor"} /\ f \notin OutsideFuncs
    /\ f \in unposted
    /\ unposted' = unposted \ {f}
    /\ m_pendingFuncs' = Append(m_pendingFuncs, f)
    /\ UNCHANGED <<pc, m_quit, m_callingPendingFuncs, m_activeChannels, todo,
                   wakeupfd, funcs, posting, ran>>

-----------------------------------------------------------------------------
(* Calls made on the loop's own thread: outside loop(), from an event      *)
(* callback, or from a functor.                                            *)

QueueInLoopOwn(f) ==
    /\ \/ pc = "outside" /\ f \in OutsideFuncs
       \/ pc \in {"callback", "functor"} /\ f \notin OutsideFuncs
    /\ f \in unposted
    /\ unposted' = unposted \ {f}
    /\ m_pendingFuncs' = Append(m_pendingFuncs, f)
    /\ wakeupfd' = IF m_callingPendingFuncs THEN wakeupfd + 1 ELSE wakeupfd
    /\ UNCHANGED <<pc, m_quit, m_callingPendingFuncs, m_activeChannels, todo,
                   funcs, posting, ran>>

RunInLoopOwn(f) ==
    /\ pc \in {"outside", "callback", "functor"}
    /\ f \in unposted
    /\ unposted' = unposted \ {f}
    /\ ran' = Append(ran, f)
    /\ UNCHANGED <<pc, m_quit, m_pendingFuncs, m_callingPendingFuncs,
                   m_activeChannels, wakeupfd, todo, funcs, posting>>

-----------------------------------------------------------------------------
(* EventLoop::loop().                                                      *)

(* Mutant of WhileTest: while(true).                                       *)
WhileTest_Forever ==
    /\ pc = "while"
    /\ pc' = "poll"
    /\ UNCHANGED <<m_quit, m_pendingFuncs, m_callingPendingFuncs,
                   m_activeChannels, wakeupfd, todo, funcs, posting,
                   unposted, ran>>

Enter ==
    /\ pc = "outside"
    /\ pc' = "while"
    /\ m_quit' = FALSE
    /\ UNCHANGED <<m_pendingFuncs, m_callingPendingFuncs, m_activeChannels,
                   wakeupfd, todo, funcs, posting, unposted, ran>>

WhileTest ==
    /\ pc = "while"
    /\ pc' = IF m_quit THEN "outside" ELSE "poll"
    /\ UNCHANGED <<m_quit, m_pendingFuncs, m_callingPendingFuncs,
                   m_activeChannels, wakeupfd, todo, funcs, posting,
                   unposted, ran>>

(* Mutant of Report: m_activeChannels is not cleared before the poll.      *)
Report_NoClear(ready) ==
    /\ pc = "poll"
    /\ pc' = "events"
    /\ m_activeChannels' = m_activeChannels \cup ready
    /\ todo' = m_activeChannels'
    /\ UNCHANGED <<m_quit, m_pendingFuncs, m_callingPendingFuncs, wakeupfd,
                   funcs, posting, unposted, ran>>

(* m_activeChannels is cleared and filled with what epoll_wait reports.    *)
Report(ready) ==
    /\ pc = "poll"
    /\ pc' = "events"
    /\ m_activeChannels' = ready
    /\ todo' = m_activeChannels'
    /\ UNCHANGED <<m_quit, m_pendingFuncs, m_callingPendingFuncs, wakeupfd,
                   funcs, posting, unposted, ran>>

PollWoken ==
    /\ wakeupfd > 0
    /\ \E io \in SUBSET IoChannels : Report(io \cup {WakeupChannel})

PollIo ==
    /\ wakeupfd = 0
    /\ \E io \in SUBSET IoChannels \ {{}} : Report(io)

(* kPollTimeMs has passed and no channel is ready.                         *)
PollTimeout ==
    /\ wakeupfd = 0
    /\ Report({})

(* EventLoop::handleRead: reads the eventfd, which resets it; a read of an *)
(* eventfd at 0 fails with EAGAIN and the loop aborts.                     *)
HandleWakeup ==
    /\ pc = "events"
    /\ WakeupChannel \in todo
    /\ todo' = todo \ {WakeupChannel}
    /\ pc' = IF wakeupfd = 0 THEN "aborted" ELSE "events"
    /\ wakeupfd' = 0
    /\ UNCHANGED <<m_quit, m_pendingFuncs, m_callingPendingFuncs,
                   m_activeChannels, funcs, posting, unposted, ran>>

HandleIo ==
    /\ pc = "events"
    /\ \E c \in todo \ {WakeupChannel} : todo' = todo \ {c}
    /\ pc' = "callback"
    /\ UNCHANGED <<m_quit, m_pendingFuncs, m_callingPendingFuncs, wakeupfd,
                   m_activeChannels, funcs, posting, unposted, ran>>

EndCallback ==
    /\ pc = "callback"
    /\ pc' = "events"
    /\ UNCHANGED <<m_quit, m_pendingFuncs, m_callingPendingFuncs,
                   m_activeChannels, wakeupfd, todo, funcs, posting,
                   unposted, ran>>

EndEvents ==
    /\ pc = "events"
    /\ todo = {}
    /\ pc' = "pending"
    /\ UNCHANGED <<m_quit, m_pendingFuncs, m_callingPendingFuncs,
                   m_activeChannels, wakeupfd, todo, funcs, posting,
                   unposted, ran>>

-----------------------------------------------------------------------------
(* EventLoop::doPendingFunctors().                                         *)

(* m_pendingFuncs.empty() is read without m_mutex, a data race: the loop   *)
(* may miss a push whose thread has not come to its wakeup() yet, and sees *)
(* every other one.                                                        *)
MaySeeEmpty ==
    Range(m_pendingFuncs) \subseteq {posting[t] : t \in Threads}

CheckEmpty ==
    /\ pc = "pending"
    /\ MaySeeEmpty
    /\ pc' = "while"
    /\ UNCHANGED <<m_quit, m_pendingFuncs, m_callingPendingFuncs,
                   m_activeChannels, wakeupfd, todo, funcs, posting,
                   unposted, ran>>

(* Mutant of Swap: the batch is copied and m_pendingFuncs kept.            *)
Swap_Copy ==
    /\ pc = "swap"
    /\ pc' = "run"
    /\ funcs' = m_pendingFuncs
    /\ UNCHANGED <<m_quit, m_pendingFuncs, m_callingPendingFuncs, wakeupfd,
                   m_activeChannels, todo, posting, unposted, ran>>

CheckNonEmpty ==
    /\ pc = "pending"
    /\ m_pendingFuncs # <<>>
    /\ pc' = "swap"
    /\ m_callingPendingFuncs' = TRUE
    /\ UNCHANGED <<m_quit, m_pendingFuncs, m_activeChannels, wakeupfd, todo,
                   funcs, posting, unposted, ran>>

Swap ==
    /\ pc = "swap"
    /\ pc' = "run"
    /\ funcs' = m_pendingFuncs
    /\ m_pendingFuncs' = funcs
    /\ UNCHANGED <<m_quit, m_callingPendingFuncs, m_activeChannels, wakeupfd,
                   todo, posting, unposted, ran>>

RunFunctor ==
    /\ pc = "run"
    /\ funcs # <<>>
    /\ pc' = "functor"
    /\ ran' = Append(ran, Head(funcs))
    /\ funcs' = Tail(funcs)
    /\ UNCHANGED <<m_quit, m_pendingFuncs, m_callingPendingFuncs,
                   m_activeChannels, wakeupfd, todo, posting, unposted>>

EndFunctor ==
    /\ pc = "functor"
    /\ pc' = "run"
    /\ UNCHANGED <<m_quit, m_pendingFuncs, m_callingPendingFuncs,
                   m_activeChannels, wakeupfd, todo, funcs, posting,
                   unposted, ran>>

EndBatch ==
    /\ pc = "run"
    /\ funcs = <<>>
    /\ pc' = "while"
    /\ m_callingPendingFuncs' = FALSE
    /\ UNCHANGED <<m_quit, m_pendingFuncs, m_activeChannels, wakeupfd, todo,
                   funcs, posting, unposted, ran>>

-----------------------------------------------------------------------------
(* What the loop's thread does without waiting for time or for I/O.        *)
LoopStep ==
    \/ WhileTest
    \/ PollWoken
    \/ HandleWakeup
    \/ HandleIo
    \/ EndCallback
    \/ EndEvents
    \/ CheckEmpty
    \/ CheckNonEmpty
    \/ Swap
    \/ RunFunctor
    \/ EndFunctor
    \/ EndBatch

Next ==
    \/ \E t \in Threads, f \in Funcs : Post(t, f)
    \/ \E t \in Threads : Wake(t)
    \/ Quit
    \/ \E f \in Funcs : QueueInLoopOwn(f)
    \/ \E f \in Funcs : RunInLoopOwn(f)
    \/ Enter
    \/ PollIo
    \/ PollTimeout
    \/ LoopStep

Spec == Init /\ [][Next]_vars

(* Threads are scheduled and callbacks return.  Time need not pass: only   *)
(* what is stated under TimeoutExpires leans on the poll's timeout.        *)
Fairness ==
    /\ WF_vars(LoopStep)
    /\ \A t \in Threads : WF_vars(Wake(t))

FairSpec == Spec /\ Fairness

(* epoll_wait returns after kPollTimeMs.                                   *)
TimeoutExpires == WF_vars(PollTimeout)

-----------------------------------------------------------------------------
(* Properties.                                                             *)

WakeupUnderWay == wakeupfd > 0 \/ \E t \in Threads : posting[t] # NoFunc

(* queueInLoop and doPendingFunctors: the loop is never asleep in          *)
(* epoll_wait over a queued functor unless its eventfd is readable or the  *)
(* thread that pushed is still on its way to wakeup(), whichever of the    *)
(* four places the functor was queued from and however the push, the       *)
(* unlocked test, the swap and the flag interleave.  Functors queued on    *)
(* the loop's own thread outside loop() are excepted: nothing wakes the    *)
(* loop for them.                                                          *)
NoLostWakeup ==
    pc = "poll" /\ ~ Range(m_pendingFuncs) \subseteq OutsideFuncs
        => WakeupUnderWay

(* EventLoop::handleRead never finds the eventfd at 0 and aborts: writes   *)
(* that coalesce are read once, and no report of the wakeup channel is     *)
(* left over from an earlier poll.                                         *)
NoWakeupAbort == pc # "aborted"

(* The two vectors, the batch in hand and the flag together are a FIFO     *)
(* queue: every functor runs at most once and in posting order.            *)
FQ == INSTANCE FunctorQueue WITH queue <- funcs \o m_pendingFuncs

ImplementsFunctorQueue == FQ!Spec

(* A functor queued from another thread, a callback or a functor runs      *)
(* without the poll's timeout having to expire, unless loop() is left.     *)
QueuedRunsPromptly ==
    \A f \in Funcs \ OutsideFuncs :
        f \in Range(m_pendingFuncs) ~> f \in Range(ran) \/ pc = "outside"

(* With the timeout, those queued outside loop() run as well once it is    *)
(* entered.                                                                *)
QueuedRuns ==
    TimeoutExpires => \A f \in Funcs :
        f \in Range(m_pendingFuncs) ~> f \in Range(ran) \/ pc = "outside"

(* quit() ends a running loop(): it does not wake the loop, so this too    *)
(* takes the timeout.                                                      *)
QuitLeaves ==
    TimeoutExpires => (m_quit /\ pc # "outside" ~> pc = "outside")

(* What wakeup() does not bring about, the poll's timeout does.            *)
TimeoutSuffices == QueuedRuns /\ QuitLeaves

=============================================================================
