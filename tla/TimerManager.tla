---------------------------- MODULE TimerManager ----------------------------
(***************************************************************************)
(* The timers of one EventLoop (net/Timer.cc): two tables of the waiting   *)
(* timers, one timerfd set for the earliest of them, and the iteration of  *)
(* the loop in which the timerfd's channel and the calls to addTimer and   *)
(* cancel take their turns.                                                *)
(*                                                                         *)
(* A timer is its m_id: the index of its m_expire in `expire`.  The clock  *)
(* counts units of which Second make a second; the minimum of 100 ms that  *)
(* resetTimerfd sets is less than a unit.                                  *)
(***************************************************************************)
EXTENDS Integers, Sequences, FiniteSets, SequencesExt

CONSTANTS
    Second,         \* units in a second
    Delays,         \* how far ahead timers are set, in units
    MaxTimers,      \* bound: timers made
    MaxTime,        \* bound: the clock
    MaxPosted,      \* bound: functors queued at a time
    Off             \* the timerfd is not armed

ASSUME TimerAssumption ==
    /\ Second \in Nat \ {0}
    /\ Delays \subseteq Nat
    /\ MaxTimers \in Nat /\ MaxTime \in Nat /\ MaxPosted \in Nat
    /\ Off \notin Int

VARIABLES
    now,
    expire,         \* m_expire of each timer made
    m_timers, m_table,
    deadline,       \* when the timerfd expires
    ticks,          \* the timerfd is readable
    pc,             \* where the loop's thread is
    timerReady,     \* the timerfd's channel is still to be handled
    ioReady,        \* another channel's callback may run in this iteration
    expired,        \* what is left to run of m_expired_timers
    adding,         \* timers other threads have made and not yet queued
    posted, funcs,  \* m_pendingFuncs and the batch swapped out of it
    cancelled,      \* timers cancelInloop has found
    ran,            \* timers in the order they were run
    failed          \* an assertion has failed

vars == <<now, expire, m_timers, m_table, deadline, ticks, pc, timerReady,
          ioReady, expired, adding, posted, funcs, cancelled, ran, failed>>

clockVars == <<deadline, ticks>>
tableVars == <<m_timers, m_table, cancelled, failed>>
iterVars == <<pc, timerReady, ioReady, expired, funcs>>

Ids == DOMAIN expire

(* What another thread queues: addTimerInloop or cancelInloop of a timer.  *)
Calls == [op : {"add", "cancel"}, timer : Nat \ {0}]

TypeOK ==
    /\ now \in Nat
    /\ expire \in Seq(Nat)
    /\ m_timers \subseteq Ids
    /\ m_table \subseteq Ids
    /\ deadline \in Nat \cup {Off}
    /\ ticks \in BOOLEAN
    /\ pc \in {"outside", "poll", "events", "expired", "callback", "pending",
               "undefined"}
    /\ timerReady \in BOOLEAN
    /\ ioReady \in BOOLEAN
    /\ expired \in Seq(Ids)
    /\ adding \subseteq Ids
    /\ posted \in Seq(Calls)
    /\ funcs \in Seq(Calls)
    /\ cancelled \subseteq Ids
    /\ ran \in Seq(Ids)
    /\ failed \in BOOLEAN

Init ==
    /\ now = 0
    /\ expire = <<>>
    /\ m_timers = {}
    /\ m_table = {}
    /\ deadline = Off
    /\ ticks = FALSE
    /\ pc = "outside"
    /\ timerReady = FALSE
    /\ ioReady = FALSE
    /\ expired = <<>>
    /\ adding = {}
    /\ posted = <<>>
    /\ funcs = <<>>
    /\ cancelled = {}
    /\ ran = <<>>
    /\ failed = FALSE

-----------------------------------------------------------------------------
(* The order of m_timers, and the timerfd.                                 *)

(* Timer::Comparator                                                       *)
Before(t, u) == expire[t] < expire[u] \/ (expire[t] = expire[u] /\ t < u)

First(timers) == CHOOSE t \in timers : \A u \in timers \ {t} : Before(t, u)

(* Mutant of ResetTimerfd: an interval in the past is passed on.           *)
ResetTimerfd_NoMinimum(e) ==
    /\ deadline' = e - ((e - now) % Second)
    /\ ticks' = FALSE

(* The milliseconds beyond whole seconds are handed to the kernel as       *)
(* microseconds: of the interval, the whole seconds remain and less than a *)
(* millisecond.  Setting a timerfd clears its expirations.                 *)
ResetTimerfd(e) ==
    /\ deadline' = IF e <= now THEN now
                               ELSE e - ((e - now) % Second)
    /\ ticks' = FALSE

CloseClock ==
    /\ deadline' = Off
    /\ ticks' = FALSE

-----------------------------------------------------------------------------
(* The two operations on the tables, on the loop's thread.                 *)

(* Mutant of IsAddHead: the comparison is turned round.                    *)
IsAddHead_Later(e) == m_timers = {} \/ e > expire[First(m_timers)]

IsAddHead(e) == m_timers = {} \/ e < expire[First(m_timers)]

AddTimerInloop(t, e) ==
    /\ IF IsAddHead(e) THEN ResetTimerfd(e) ELSE UNCHANGED clockVars
    /\ m_timers' = m_timers \cup {t}
    /\ m_table' = m_table \cup {t}
    /\ UNCHANGED <<cancelled, failed>>

(* Mutant of Erased: the head of m_timers is erased, not the target.       *)
Erased_Head(t) == First(m_timers)

(* The element of m_timers that cancelInloop erases.                       *)
Erased(t) == t

CancelInloop(t) ==
    IF t \notin m_table
    THEN UNCHANGED <<tableVars, clockVars>>
    ELSE /\ m_timers' = m_timers \ {Erased(t)}
         /\ m_table' = m_table \ {t}
         /\ cancelled' = cancelled \cup {t}
         /\ failed' = (t \notin m_timers
                         \/ Cardinality(m_timers') # Cardinality(m_table'))
         /\ IF t = First(m_timers)
            THEN IF m_timers' = {}
                 THEN CloseClock
                 ELSE ResetTimerfd(expire[First(m_timers')])
            ELSE UNCHANGED clockVars

-----------------------------------------------------------------------------
(* Calls made on the loop's thread, which run at once: before loop(), in   *)
(* the callback of another channel, of a timer, and in a functor.          *)

InCallback ==
    /\ ~failed
    /\ \/ pc \in {"outside", "callback", "pending"}
       \/ pc = "events" /\ ioReady

(* The constructor gives out the ids; runAfter has set m_expire.           *)
Make(d) ==
    /\ Len(expire) < MaxTimers
    /\ now + d <= MaxTime
    /\ expire' = Append(expire, now + d)

AddTimer(d) ==
    /\ InCallback
    /\ Make(d)
    /\ AddTimerInloop(Len(expire) + 1, now + d)
    /\ UNCHANGED <<now, iterVars, adding, posted, ran>>

Cancel(t) ==
    /\ InCallback
    /\ t \in Ids \ adding
    /\ CancelInloop(t)
    /\ UNCHANGED <<now, expire, iterVars, adding, posted, ran>>

-----------------------------------------------------------------------------
(* Calls made on other threads, which are queued.                          *)

MakeElsewhere(d) ==
    /\ ~failed
    /\ Make(d)
    /\ adding' = adding \cup {Len(expire) + 1}
    /\ UNCHANGED <<now, tableVars, clockVars, iterVars, posted, ran>>

Queue(op, t) == posted' = Append(posted, [op |-> op, timer |-> t])

QueueAdd(t) ==
    /\ ~failed
    /\ t \in adding
    /\ adding' = adding \ {t}
    /\ Queue("add", t)
    /\ UNCHANGED <<now, expire, tableVars, clockVars, iterVars, ran>>

QueueCancel(t) ==
    /\ ~failed
    /\ Len(posted) < MaxPosted
    /\ t \in Ids \ adding
    /\ Queue("cancel", t)
    /\ UNCHANGED <<now, expire, tableVars, clockVars, iterVars, adding, ran>>

-----------------------------------------------------------------------------
(* Time and the kernel's timer.                                            *)

Tick ==
    /\ now < MaxTime
    /\ now' = now + 1
    /\ UNCHANGED <<expire, tableVars, clockVars, iterVars, adding, posted,
                   ran>>

Expire ==
    /\ deadline # Off
    /\ deadline <= now
    /\ deadline' = Off
    /\ ticks' = TRUE
    /\ UNCHANGED <<now, expire, tableVars, iterVars, adding, posted, ran>>

-----------------------------------------------------------------------------
(* The iteration of the loop.                                              *)

Enter ==
    /\ pc = "outside"
    /\ pc' = "poll"
    /\ UNCHANGED <<now, expire, tableVars, clockVars, timerReady, ioReady,
                   expired, adding, posted, funcs, ran>>

(* epoll_wait returns: the timerfd, other channels, a wakeup, a timeout.   *)
Poll(io) ==
    /\ ~failed
    /\ pc = "poll"
    /\ pc' = "events"
    /\ timerReady' = ticks
    /\ ioReady' = io
    /\ UNCHANGED <<now, expire, tableVars, clockVars, expired, adding,
                   posted, funcs, ran>>

(* fillExpired: what is due, or the first timer if nothing is.             *)
Taken ==
    LET due == {t \in m_timers : expire[t] <= now}
    IN  IF due = {} THEN {First(m_timers)} ELSE due

(* The order of m_timers, as a vector.                                     *)
InOrder(timers) ==
    CHOOSE s \in [1 .. Cardinality(timers) -> timers] :
       \A i, j \in DOMAIN s : i < j => Before(s[i], s[j])

(* Mutants of FillExpired: the timerfd is not set again; the batch is      *)
(* filled from its end.                                                    *)
FillExpired_NoReset ==
    /\ m_timers' = m_timers \ Taken
    /\ m_table' = m_table \ Taken
    /\ expired' = InOrder(Taken)
    /\ ticks' = FALSE
    /\ UNCHANGED deadline

FillExpired_Reversed ==
    /\ m_timers' = m_timers \ Taken
    /\ m_table' = m_table \ Taken
    /\ expired' = Reverse(InOrder(Taken))
    /\ IF m_timers' = {} THEN CloseClock
                         ELSE ResetTimerfd(expire[First(m_timers')])

FillExpired ==
    /\ m_timers' = m_timers \ Taken
    /\ m_table' = m_table \ Taken
    /\ expired' = InOrder(Taken)
    /\ IF m_timers' = {} THEN CloseClock
                         ELSE ResetTimerfd(expire[First(m_timers')])

(* handleRead, the callback of the timerfd's channel.  The read may find   *)
(* nothing if an earlier callback has set the timerfd: handleRead goes on. *)
HandleRead ==
    /\ ~failed
    /\ pc = "events"
    /\ timerReady
    /\ m_timers # {}
    /\ timerReady' = FALSE
    /\ pc' = "expired"
    /\ FillExpired
    /\ UNCHANGED <<now, expire, cancelled, failed, ioReady, adding, posted,
                   funcs, ran>>

(* An earlier callback has cancelled the last timer: fillExpired           *)
(* dereferences the end of m_timers.                                       *)
HandleReadEmpty ==
    /\ ~failed
    /\ pc = "events"
    /\ timerReady
    /\ m_timers = {}
    /\ pc' = "undefined"
    /\ UNCHANGED <<now, expire, tableVars, clockVars, timerReady, ioReady,
                   expired, adding, posted, funcs, ran>>

Run ==
    /\ pc = "expired"
    /\ expired # <<>>
    /\ pc' = "callback"
    /\ ran' = Append(ran, Head(expired))
    /\ expired' = Tail(expired)
    /\ UNCHANGED <<now, expire, tableVars, clockVars, timerReady, ioReady,
                   adding, posted, funcs>>

EndCallback ==
    /\ ~failed
    /\ pc = "callback"
    /\ pc' = "expired"
    /\ UNCHANGED <<now, expire, tableVars, clockVars, timerReady, ioReady,
                   expired, adding, posted, funcs, ran>>

EndRead ==
    /\ pc = "expired"
    /\ expired = <<>>
    /\ pc' = "events"
    /\ UNCHANGED <<now, expire, tableVars, clockVars, timerReady, ioReady,
                   expired, adding, posted, funcs, ran>>

(* doPendingFunctors swaps the batch out and runs it.                      *)
EndEvents ==
    /\ ~failed
    /\ pc = "events"
    /\ ~timerReady
    /\ pc' = "pending"
    /\ ioReady' = FALSE
    /\ funcs' = posted
    /\ posted' = <<>>
    /\ UNCHANGED <<now, expire, tableVars, clockVars, timerReady, expired,
                   adding, ran>>

RunFunctor ==
    /\ ~failed
    /\ pc = "pending"
    /\ funcs # <<>>
    /\ funcs' = Tail(funcs)
    /\ LET c == Head(funcs)
       IN  IF c.op = "add" THEN AddTimerInloop(c.timer, expire[c.timer])
                           ELSE CancelInloop(c.timer)
    /\ UNCHANGED <<now, expire, pc, timerReady, ioReady, expired, adding,
                   posted, ran>>

EndPending ==
    /\ ~failed
    /\ pc = "pending"
    /\ funcs = <<>>
    /\ pc' = "poll"
    /\ UNCHANGED <<now, expire, tableVars, clockVars, timerReady, ioReady,
                   expired, adding, posted, funcs, ran>>

-----------------------------------------------------------------------------
LoopStep ==
    \/ Poll(FALSE)
    \/ HandleRead
    \/ HandleReadEmpty
    \/ Run
    \/ EndCallback
    \/ EndRead
    \/ EndEvents
    \/ RunFunctor
    \/ EndPending

Next ==
    \/ \E d \in Delays : AddTimer(d) \/ MakeElsewhere(d)
    \/ \E t \in Ids : Cancel(t) \/ QueueAdd(t) \/ QueueCancel(t)
    \/ Tick
    \/ Expire
    \/ Enter
    \/ Poll(TRUE)
    \/ LoopStep

Spec == Init /\ [][Next]_vars

(* The loop runs, time passes, the kernel delivers expirations and a       *)
(* thread inside addTimer() goes on.                                       *)
Fairness ==
    /\ WF_vars(Enter)
    /\ WF_vars(LoopStep)
    /\ WF_vars(Tick)
    /\ WF_vars(Expire)
    /\ WF_vars(\E t \in Ids : QueueAdd(t))

FairSpec == Spec /\ Fairness

-----------------------------------------------------------------------------
(* Properties.                                                             *)

(* addTimerInloop, cancelInloop, fillExpired: outside handleRead the       *)
(* timerfd is set exactly when timers wait, and never for later than the   *)
(* earliest of them, or than now if that is overdue.                       *)
ClockFollowsTimers ==
    IF m_timers = {}
    THEN deadline = Off /\ ~ticks
    ELSE LET first == expire[First(m_timers)]
         IN  ticks \/ (deadline # Off
                         /\ deadline <= IF first > now THEN first ELSE now)

(* cancelInloop, fillExpired: the two tables name the same timers, so that *)
(* the assertions of cancelInloop hold; a timer it has found never runs,   *)
(* and no timer runs twice.                                                *)
CancelIsFinal ==
    /\ ~failed
    /\ m_timers = m_table
    /\ IsInjective(ran)
    /\ \A t \in cancelled : ~Contains(ran, t)

(* fillExpired, Comparator: when a timer runs, none that has yet to run    *)
(* comes before it, in m_timers or in the batch.                           *)
RunsInOrder ==
    [][ran' # ran =>
         \A t \in m_timers' \cup ToSet(expired') : Before(Last(ran'), t)]_vars

(* Every timer made runs or is cancelled, unless handleRead comes upon an  *)
(* empty m_timers.                                                         *)
EveryTimerRuns ==
    \A t \in 1..MaxTimers :
        t \in Ids ~> Contains(ran, t) \/ t \in cancelled \/ pc = "undefined"

(* Timer.h, m_expire, "the time at which the callback is called": no       *)
(* callback runs before its time.                                          *)
NeverEarly == [][ran' # ran => expire[Last(ran')] <= now]_vars

=============================================================================
