-------------------------- MODULE EventLoopProofs ---------------------------
(***************************************************************************)
(* For any number of threads, functors and channels: the loop never sleeps *)
(* over a queued functor, never aborts in handleRead, and implements the   *)
(* FIFO queue of FunctorQueue.                                             *)
(***************************************************************************)
EXTENDS EventLoop, SequenceTheorems, TLAPS

(* m_callingPendingFuncs is set exactly while a batch is swapped out and   *)
(* run, which is what queueInLoop takes it for.                            *)
FlagInv == m_callingPendingFuncs <=> pc \in {"swap", "run", "functor"}

(* The local vector of doPendingFunctors is empty outside the run.         *)
BatchInv == pc \notin {"run", "functor"} => funcs = <<>>

(* A report of the wakeup channel not handled yet is still true.           *)
ReportInv == WakeupChannel \in todo => wakeupfd > 0

(* Wherever the loop is, a queued functor is covered: by the eventfd, by   *)
(* the thread that pushed it, or because the loop has yet to swap.         *)
CoverInv ==
    ~ Range(m_pendingFuncs) \subseteq OutsideFuncs
        => WakeupUnderWay \/ pc \in {"events", "callback", "pending", "swap"}

LoopInv ==
    /\ TypeOK
    /\ FlagInv
    /\ BatchInv
    /\ ReportInv
    /\ CoverInv
    /\ NoWakeupAbort

-----------------------------------------------------------------------------
(* The functors in a vector after a push_back.                             *)
LEMMA RangeAppend ==
    ASSUME NEW S, NEW s \in Seq(S), NEW x \in S
    PROVE  Range(Append(s, x)) = Range(s) \cup {x}
<1> DEFINE t == Append(s, x)
<1>1. /\ DOMAIN s = 1..Len(s)
      /\ DOMAIN t = 1..(Len(s) + 1)
      /\ \A i \in 1..Len(s) : t[i] = s[i]
      /\ t[Len(s) + 1] = x
      /\ Len(s) \in Nat
  OBVIOUS
<1> HIDE DEF t
<1>2. \A i \in DOMAIN t : t[i] \in Range(s) \cup {x}
  BY <1>1 DEF Range
<1>3. \A i \in DOMAIN s : s[i] \in Range(t)
  BY <1>1 DEF Range
<1>4. x \in Range(t)
  BY <1>1 DEF Range
<1> QED
  BY <1>2, <1>3, <1>4 DEF Range, t

(* A push never makes the loop unaware of a functor it was aware of.       *)
LEMMA NotOutside ==
    ASSUME NEW s \in Seq(Funcs), NEW f \in OutsideFuncs,
           ~ Range(Append(s, f)) \subseteq OutsideFuncs
    PROVE  ~ Range(s) \subseteq OutsideFuncs
<1>1. f \in Funcs
  BY LoopAssumption
<1> QED
  BY <1>1, RangeAppend

(* Every action of the loop and of the posting threads keeps the types.    *)
LEMMA TypeStep == TypeOK /\ [Next]_vars => TypeOK'
<1> SUFFICES ASSUME TypeOK, [Next]_vars
             PROVE  TypeOK'
  OBVIOUS
<1> USE DEF TypeOK, PCs
<1>1. ASSUME NEW t \in Threads, NEW f \in Funcs, Post(t, f)
      PROVE  TypeOK'
  BY <1>1 DEF Post
<1>2. ASSUME NEW t \in Threads, Wake(t)
      PROVE  TypeOK'
  BY <1>2 DEF Wake
<1>3. CASE Quit
  BY <1>3 DEF Quit
<1>4. ASSUME NEW f \in Funcs, QueueInLoopOwn(f)
      PROVE  TypeOK'
  BY <1>4 DEF QueueInLoopOwn
<1>5. ASSUME NEW f \in Funcs, RunInLoopOwn(f)
      PROVE  TypeOK'
  BY <1>5 DEF RunInLoopOwn
<1>6. CASE Enter
  BY <1>6 DEF Enter
<1>7. ASSUME NEW ready, ready \subseteq IoChannels \cup {WakeupChannel},
             Report(ready)
      PROVE  TypeOK'
  BY <1>7 DEF Report
<1>8. CASE PollIo
  BY <1>7, <1>8 DEF PollIo
<1>9. CASE PollTimeout
  BY <1>7, <1>9 DEF PollTimeout
<1>10. CASE PollWoken
  BY <1>7, <1>10 DEF PollWoken
<1>11. CASE WhileTest
  BY <1>11 DEF WhileTest
<1>12. CASE HandleWakeup
  BY <1>12 DEF HandleWakeup
<1>13. CASE HandleIo
  BY <1>13 DEF HandleIo
<1>14. CASE EndCallback
  BY <1>14 DEF EndCallback
<1>15. CASE EndEvents
  BY <1>15 DEF EndEvents
<1>16. CASE CheckEmpty
  BY <1>16 DEF CheckEmpty
<1>17. CASE CheckNonEmpty
  BY <1>17 DEF CheckNonEmpty
<1>18. CASE Swap
  BY <1>18 DEF Swap
<1>19. CASE RunFunctor
  <2>1. funcs \in Seq(Funcs) /\ funcs # <<>>
    BY <1>19 DEF RunFunctor
  <2>2. Head(funcs) \in Funcs /\ Tail(funcs) \in Seq(Funcs)
    BY <2>1
  <2> QED
    BY <1>19, <2>2 DEF RunFunctor
<1>20. CASE EndFunctor
  BY <1>20 DEF EndFunctor
<1>21. CASE EndBatch
  BY <1>21 DEF EndBatch
<1>22. CASE UNCHANGED vars
  BY <1>22 DEF vars
<1> QED
  BY <1>1, <1>2, <1>3, <1>4, <1>5, <1>6, <1>8, <1>9, <1>10, <1>11, <1>12,
     <1>13, <1>14, <1>15, <1>16, <1>17, <1>18, <1>19, <1>20, <1>21, <1>22
  DEF Next, LoopStep

(* The vectors, the flag, the counter and the threads hold values of their *)
(* types whatever the interleaving; in particular the batch in hand and    *)
(* m_pendingFuncs only ever hold functors.                                 *)
THEOREM TypeCorrect == Spec => []TypeOK
<1>1. Init => TypeOK
  <2> SUFFICES ASSUME Init
               PROVE  TypeOK
    OBVIOUS
  <2>1. <<>> \in Seq(Funcs)
    OBVIOUS
  <2>2. [t \in Threads |-> NoFunc] \in [Threads -> Funcs \cup {NoFunc}]
    OBVIOUS
  <2> QED
    BY <2>1, <2>2 DEF Init, TypeOK, PCs
<1> QED
  BY <1>1, TypeStep, PTL DEF Spec

-----------------------------------------------------------------------------
(* The inductive invariant: one step per action; the conjuncts an action   *)
(* leaves alone follow from the variables it leaves alone.                 *)
LEMMA LoopInvInit == Init => LoopInv
<1> SUFFICES ASSUME Init
             PROVE  LoopInv
  OBVIOUS
<1>1. TypeOK
  <2>1. <<>> \in Seq(Funcs)
    OBVIOUS
  <2>2. [t \in Threads |-> NoFunc] \in [Threads -> Funcs \cup {NoFunc}]
    OBVIOUS
  <2> QED
    BY <2>1, <2>2 DEF Init, TypeOK, PCs
<1>2. Range(m_pendingFuncs) = {}
  BY DEF Init, Range
<1> QED
  BY <1>1, <1>2 DEF Init, LoopInv, FlagInv, BatchInv, ReportInv, CoverInv,
     NoWakeupAbort

LEMMA LoopInvStep == LoopInv /\ [Next]_vars => LoopInv'
<1> SUFFICES ASSUME LoopInv, [Next]_vars
             PROVE  LoopInv'
  OBVIOUS
<1> USE DEF LoopInv
<1>0. TypeOK'
  BY TypeStep
<1>1. ASSUME NEW t \in Threads, NEW f \in Funcs, Post(t, f)
      PROVE  LoopInv'
  <2>1. FlagInv' /\ BatchInv' /\ ReportInv' /\ NoWakeupAbort'
    BY <1>1 DEF Post, FlagInv, BatchInv, ReportInv, NoWakeupAbort
  <2>2. posting'[t] = f /\ f # NoFunc
    BY <1>1, LoopAssumption DEF Post, TypeOK
  <2>3. WakeupUnderWay'
    BY <2>2 DEF WakeupUnderWay
  <2>4. CoverInv'
    BY <2>3 DEF CoverInv
  <2> QED
    BY <1>0, <2>1, <2>4
<1>2. ASSUME NEW t \in Threads, Wake(t)
      PROVE  LoopInv'
  <2>1. wakeupfd' > 0
    BY <1>2 DEF Wake, TypeOK
  <2> QED
    BY <1>0, <1>2, <2>1 DEF Wake, FlagInv, BatchInv, ReportInv, CoverInv,
       WakeupUnderWay, NoWakeupAbort
<1>3. CASE Quit
  BY <1>0, <1>3 DEF Quit, FlagInv, BatchInv, ReportInv, CoverInv,
     WakeupUnderWay, NoWakeupAbort
<1>4. ASSUME NEW f \in Funcs, QueueInLoopOwn(f)
      PROVE  LoopInv'
  <2>1. FlagInv' /\ BatchInv' /\ NoWakeupAbort'
    BY <1>4 DEF QueueInLoopOwn, FlagInv, BatchInv, NoWakeupAbort
  <2>2. ReportInv'
    BY <1>4 DEF QueueInLoopOwn, ReportInv, TypeOK
  <2>3. CASE pc = "outside"
    <3>1. f \in OutsideFuncs /\ m_pendingFuncs' = Append(m_pendingFuncs, f)
      BY <1>4, <2>3 DEF QueueInLoopOwn
    <3>2. ~ Range(m_pendingFuncs') \subseteq OutsideFuncs
            => ~ Range(m_pendingFuncs) \subseteq OutsideFuncs
      BY <3>1, NotOutside DEF TypeOK
    <3>3. wakeupfd > 0 => wakeupfd' > 0
      BY <1>4 DEF QueueInLoopOwn, TypeOK
    <3>4. UNCHANGED <<pc, posting>>
      BY <1>4 DEF QueueInLoopOwn
    <3>5. WakeupUnderWay => WakeupUnderWay'
      BY <3>3, <3>4 DEF WakeupUnderWay
    <3>6. CoverInv'
      BY <3>2, <3>4, <3>5 DEF CoverInv
    <3> QED
      BY <1>0, <2>1, <2>2, <3>6
  <2>4. CASE pc = "callback"
    BY <1>0, <1>4, <2>1, <2>2, <2>4 DEF QueueInLoopOwn, CoverInv
  <2>5. CASE pc = "functor"
    <3>1. wakeupfd' > 0
      BY <1>4, <2>5 DEF QueueInLoopOwn, FlagInv, TypeOK
    <3> QED
      BY <1>0, <2>1, <2>2, <3>1 DEF CoverInv, WakeupUnderWay
  <2> QED
    BY <1>4, <2>3, <2>4, <2>5 DEF QueueInLoopOwn
<1>5. ASSUME NEW f \in Funcs, RunInLoopOwn(f)
      PROVE  LoopInv'
  BY <1>0, <1>5 DEF RunInLoopOwn, FlagInv, BatchInv, ReportInv, CoverInv,
     WakeupUnderWay, NoWakeupAbort
<1>6. CASE Enter
  BY <1>0, <1>6 DEF Enter, FlagInv, BatchInv, ReportInv, CoverInv,
     WakeupUnderWay, NoWakeupAbort
<1>7. ASSUME NEW ready, Report(ready), WakeupChannel \in ready => wakeupfd > 0
      PROVE  LoopInv'
  BY <1>0, <1>7 DEF Report, FlagInv, BatchInv, ReportInv, CoverInv,
     NoWakeupAbort
<1>8. CASE PollIo
  BY <1>7, <1>8, LoopAssumption DEF PollIo
<1>9. CASE PollTimeout
  BY <1>7, <1>9 DEF PollTimeout
<1>10. CASE PollWoken
  BY <1>7, <1>10 DEF PollWoken
<1>11. CASE WhileTest
  BY <1>0, <1>11 DEF WhileTest, FlagInv, BatchInv, ReportInv, CoverInv,
     WakeupUnderWay, NoWakeupAbort
<1>12. CASE HandleWakeup
  BY <1>0, <1>12 DEF HandleWakeup, FlagInv, BatchInv, ReportInv, CoverInv,
     NoWakeupAbort
<1>13. CASE HandleIo
  BY <1>0, <1>13 DEF HandleIo, FlagInv, BatchInv, ReportInv, CoverInv,
     NoWakeupAbort
<1>14. CASE EndCallback
  BY <1>0, <1>14 DEF EndCallback, FlagInv, BatchInv, ReportInv, CoverInv,
     NoWakeupAbort
<1>15. CASE EndEvents
  BY <1>0, <1>15 DEF EndEvents, FlagInv, BatchInv, ReportInv, CoverInv,
     NoWakeupAbort
<1>16. CASE CheckEmpty
  <2>1. ASSUME ~ Range(m_pendingFuncs) \subseteq OutsideFuncs
        PROVE  WakeupUnderWay
    <3>1. PICK f \in Range(m_pendingFuncs) : f \notin OutsideFuncs
      BY <2>1
    <3>2. f \in Funcs
      BY DEF Range, TypeOK
    <3>3. PICK t \in Threads : posting[t] = f
      BY <1>16 DEF CheckEmpty, MaySeeEmpty
    <3> QED
      BY <3>2, <3>3, LoopAssumption DEF WakeupUnderWay
  <2> QED
    BY <1>0, <1>16, <2>1 DEF CheckEmpty, FlagInv, BatchInv, ReportInv,
       CoverInv, WakeupUnderWay, NoWakeupAbort
<1>17. CASE CheckNonEmpty
  BY <1>0, <1>17 DEF CheckNonEmpty, FlagInv, BatchInv, ReportInv, CoverInv,
     NoWakeupAbort
<1>18. CASE Swap
  <2>1. m_pendingFuncs' = <<>>
    BY <1>18 DEF Swap, BatchInv
  <2>2. Range(m_pendingFuncs)' = {}
    BY <2>1 DEF Range
  <2> QED
    BY <1>0, <1>18, <2>2 DEF Swap, FlagInv, BatchInv, ReportInv, CoverInv,
       NoWakeupAbort
<1>19. CASE RunFunctor
  BY <1>0, <1>19 DEF RunFunctor, FlagInv, BatchInv, ReportInv, CoverInv,
     WakeupUnderWay, NoWakeupAbort
<1>20. CASE EndFunctor
  BY <1>0, <1>20 DEF EndFunctor, FlagInv, BatchInv, ReportInv, CoverInv,
     WakeupUnderWay, NoWakeupAbort
<1>21. CASE EndBatch
  BY <1>0, <1>21 DEF EndBatch, FlagInv, BatchInv, ReportInv, CoverInv,
     WakeupUnderWay, NoWakeupAbort
<1>22. CASE UNCHANGED vars
  BY <1>0, <1>22 DEF vars, FlagInv, BatchInv, ReportInv, CoverInv,
     WakeupUnderWay, NoWakeupAbort
<1> QED
  BY <1>1, <1>2, <1>3, <1>4, <1>5, <1>6, <1>8, <1>9, <1>10, <1>11, <1>12,
     <1>13, <1>14, <1>15, <1>16, <1>17, <1>18, <1>19, <1>20, <1>21, <1>22
  DEF Next, LoopStep

LEMMA LoopInvariant == Spec => []LoopInv
BY LoopInvInit, LoopInvStep, PTL DEF Spec

(* queueInLoop and doPendingFunctors lose no wakeup: with any number of    *)
(* posting threads, an event loop in epoll_wait with a functor queued      *)
(* while it ran has its eventfd readable or about to be written.           *)
THEOREM NeverSleepsOverWork == Spec => []NoLostWakeup
<1>1. LoopInv => NoLostWakeup
  BY DEF LoopInv, CoverInv, NoLostWakeup
<1> QED
  BY <1>1, LoopInvariant, PTL

(* EventLoop::handleRead always finds the eventfd readable.                *)
THEOREM NeverAborts == Spec => []NoWakeupAbort
<1>1. LoopInv => NoWakeupAbort
  BY DEF LoopInv
<1> QED
  BY <1>1, LoopInvariant, PTL

-----------------------------------------------------------------------------
(* Concatenation, for the batch in hand followed by m_pendingFuncs.        *)
LEMMA ConcatAppend ==
    ASSUME NEW S, NEW s \in Seq(S), NEW t \in Seq(S), NEW x \in S
    PROVE  s \o Append(t, x) = Append(s \o t, x)
OBVIOUS

LEMMA ConcatHeadTail ==
    ASSUME NEW S, NEW s \in Seq(S), NEW t \in Seq(S), s # <<>>
    PROVE  /\ s \o t # <<>>
           /\ Head(s \o t) = Head(s)
           /\ Tail(s \o t) = Tail(s) \o t
OBVIOUS

(* Each step of the loop or of a poster is a step of the FIFO queue or     *)
(* leaves it alone: a push is a Post, the call of a functor of the batch a *)
(* Dispatch, and the swap moves functors between the two vectors without   *)
(* changing their order.                                                   *)
LEMMA QueueStep == LoopInv /\ [Next]_vars => [FQ!Next]_(FQ!vars)
<1> SUFFICES ASSUME LoopInv, [Next]_vars
             PROVE  FQ!Next \/ UNCHANGED FQ!vars
  OBVIOUS
<1> USE DEF LoopInv
<1>1. /\ m_pendingFuncs \in Seq(Funcs)
      /\ funcs \in Seq(Funcs)
  BY DEF TypeOK
<1>2. ASSUME NEW f \in Funcs, f \in unposted,
             unposted' = unposted \ {f},
             m_pendingFuncs' = Append(m_pendingFuncs, f),
             UNCHANGED <<funcs, ran>>
      PROVE  FQ!Next
  <2>1. (funcs \o m_pendingFuncs)' = Append(funcs \o m_pendingFuncs, f)
    BY <1>1, <1>2, ConcatAppend
  <2>2. FQ!Post(f)
    BY <1>2, <2>1 DEF FQ!Post
  <2> QED
    BY <2>2 DEF FQ!Next
<1>3. ASSUME UNCHANGED <<funcs, m_pendingFuncs, unposted, ran>>
      PROVE  UNCHANGED FQ!vars
  BY <1>3 DEF FQ!vars
<1>4. ASSUME NEW t \in Threads, NEW f \in Funcs, Post(t, f)
      PROVE  FQ!Next
  BY <1>2, <1>4 DEF Post
<1>5. ASSUME NEW t \in Threads, Wake(t)
      PROVE  UNCHANGED FQ!vars
  BY <1>3, <1>5 DEF Wake
<1>6. ASSUME NEW f \in Funcs, QueueInLoopOwn(f)
      PROVE  FQ!Next
  BY <1>2, <1>6 DEF QueueInLoopOwn
<1>7. ASSUME NEW f \in Funcs, RunInLoopOwn(f)
      PROVE  FQ!Next
  <2>1. FQ!RunHere(f)
    BY <1>7 DEF RunInLoopOwn, FQ!RunHere
  <2> QED
    BY <2>1 DEF FQ!Next
<1>8. CASE Swap
  <2>1. funcs = <<>> /\ funcs' = m_pendingFuncs /\ m_pendingFuncs' = <<>>
    BY <1>8 DEF Swap, BatchInv
  <2>2. (funcs \o m_pendingFuncs)' = funcs \o m_pendingFuncs
    BY <1>1, <2>1
  <2> QED
    BY <1>8, <2>2 DEF Swap, FQ!vars
<1>9. CASE RunFunctor
  <2>1. funcs # <<>> /\ funcs' = Tail(funcs) /\ ran' = Append(ran, Head(funcs))
        /\ UNCHANGED <<m_pendingFuncs, unposted>>
    BY <1>9 DEF RunFunctor
  <2>2. /\ funcs \o m_pendingFuncs # <<>>
        /\ Head(funcs \o m_pendingFuncs) = Head(funcs)
        /\ (funcs \o m_pendingFuncs)' = Tail(funcs \o m_pendingFuncs)
    BY <1>1, <2>1, ConcatHeadTail
  <2>3. FQ!Dispatch
    BY <2>1, <2>2 DEF FQ!Dispatch
  <2> QED
    BY <2>3 DEF FQ!Next
<1>10. CASE \/ Quit \/ Enter \/ PollIo \/ PollTimeout \/ WhileTest
            \/ PollWoken \/ HandleWakeup \/ HandleIo \/ EndCallback
            \/ EndEvents \/ CheckEmpty \/ CheckNonEmpty \/ EndFunctor
            \/ EndBatch
  BY <1>3, <1>10 DEF Quit, Enter, PollIo, PollTimeout, WhileTest, PollWoken,
     Report, HandleWakeup, HandleIo, EndCallback, EndEvents, CheckEmpty,
     CheckNonEmpty, EndFunctor, EndBatch
<1>11. CASE UNCHANGED vars
  BY <1>3, <1>11 DEF vars
<1> QED
  BY <1>4, <1>5, <1>6, <1>7, <1>8, <1>9, <1>10, <1>11 DEF Next, LoopStep

(* The EventLoop implements the FIFO queue: functors posted from any       *)
(* thread run on the loop in posting order and never twice.                *)
THEOREM Refinement == Spec => ImplementsFunctorQueue
<1>1. Init => FQ!Init
  BY DEF Init, FQ!Init
<1> QED
  BY <1>1, LoopInvariant, QueueStep, PTL
  DEF Spec, ImplementsFunctorQueue, FQ!Spec

=============================================================================
