---------------------------- MODULE AsyncLogging ----------------------------
(***************************************************************************)
(* The double buffering of Asynclogging.cc: threads append lines to a      *)
(* front buffer under m_mutex, one thread swaps the full buffers out and   *)
(* writes them to m_os.  Four buffers circulate by unique_ptr; more are    *)
(* made when the writer falls behind.                                      *)
(*                                                                         *)
(* A buffer is the sequence of the lines in it, NoBuffer a null pointer.   *)
(* append() is one critical section, so the threads that call it need no   *)
(* names.  A line is a value of Lines and appended at most once.           *)
(***************************************************************************)
EXTENDS Naturals, Sequences, SequencesExt

CONSTANTS
    Lines,
    LongLines,      \* lines no empty buffer has room for
    Capacity,       \* lines a buffer takes
    NoBuffer

ASSUME LoggingAssumption ==
    /\ LongLines \subseteq Lines
    /\ Capacity \in Nat \ {0}
    /\ NoBuffer \notin Seq(Lines)

VARIABLES
    m_running,
    m_curBuffer, m_nextBuffer, m_buffers,
    newBuffer1, newBuffer2, buffersToWrite,     \* locals of threadFunc
    pc,             \* where the writing thread is
    m_os,           \* lines written
    appended,       \* lines append() has taken, in order
    failed          \* an assertion has failed

vars == <<m_running, m_curBuffer, m_nextBuffer, m_buffers, newBuffer1,
          newBuffer2, buffersToWrite, pc, m_os, appended, failed>>

frontVars == <<m_curBuffer, m_nextBuffer, m_buffers, appended>>
writerVars == <<newBuffer1, newBuffer2, buffersToWrite, m_os>>

Buffers == Seq(Lines)

TypeOK ==
    /\ m_running \in BOOLEAN
    /\ m_curBuffer \in Buffers
    /\ m_nextBuffer \in Buffers \cup {NoBuffer}
    /\ m_buffers \in Seq(Buffers)
    /\ newBuffer1 \in Buffers \cup {NoBuffer}
    /\ newBuffer2 \in Buffers \cup {NoBuffer}
    /\ buffersToWrite \in Seq(Buffers)
    /\ pc \in {"unstarted", "while", "lock", "wait", "swap", "write", "exit"}
    /\ m_os \in Seq(Lines)
    /\ appended \in Seq(Lines)
    /\ failed \in BOOLEAN

Init ==
    /\ m_running = FALSE
    /\ m_curBuffer = <<>>
    /\ m_nextBuffer = <<>>
    /\ m_buffers = <<>>
    /\ newBuffer1 = <<>>
    /\ newBuffer2 = <<>>
    /\ buffersToWrite = <<>>
    /\ pc = "unstarted"
    /\ m_os = <<>>
    /\ appended = <<>>
    /\ failed = FALSE

-----------------------------------------------------------------------------
(* FixedBuffer: a line goes in whole or not at all.                        *)

HasRoom(b, l) == l \notin LongLines /\ Len(b) < Capacity

Put(b, l) == IF HasRoom(b, l) THEN Append(b, l) ELSE b

(* m_cond.sigal() ends a wait, if there is one.                            *)
SignalWriter == pc' = IF pc = "wait" THEN "swap" ELSE pc

-----------------------------------------------------------------------------
(* append()                                                                *)

AppendHere(l) ==
    /\ ~failed
    /\ l \in Lines \ Range(appended)
    /\ HasRoom(m_curBuffer, l)
    /\ m_curBuffer' = Append(m_curBuffer, l)
    /\ appended' = Append(appended, l)
    /\ UNCHANGED <<m_running, m_nextBuffer, m_buffers, writerVars, pc,
                   failed>>

(* Mutant of AppendNext: the writer is not signalled.                      *)
AppendNext_NoSignal(l) ==
    /\ ~failed
    /\ l \in Lines \ Range(appended)
    /\ ~HasRoom(m_curBuffer, l)
    /\ m_buffers' = Append(m_buffers, m_curBuffer)
    /\ m_curBuffer' = Put(IF m_nextBuffer = NoBuffer THEN <<>>
                                                     ELSE m_nextBuffer, l)
    /\ m_nextBuffer' = NoBuffer
    /\ appended' = Append(appended, l)
    /\ UNCHANGED <<m_running, writerVars, pc, failed>>

(* The full buffer is kept for the writer; the spare, or a new buffer,     *)
(* takes its place.                                                        *)
AppendNext(l) ==
    /\ ~failed
    /\ l \in Lines \ Range(appended)
    /\ ~HasRoom(m_curBuffer, l)
    /\ m_buffers' = Append(m_buffers, m_curBuffer)
    /\ m_curBuffer' = Put(IF m_nextBuffer = NoBuffer THEN <<>>
                                                     ELSE m_nextBuffer, l)
    /\ m_nextBuffer' = NoBuffer
    /\ appended' = Append(appended, l)
    /\ SignalWriter
    /\ UNCHANGED <<m_running, writerVars, failed>>

-----------------------------------------------------------------------------
(* start() returns when threadFunc has counted the latch down.             *)
Start ==
    /\ pc = "unstarted"
    /\ m_running' = TRUE
    /\ pc' = "while"
    /\ UNCHANGED <<frontVars, writerVars, failed>>

(* stop(), also from the destructor, up to the join.                       *)
Stop ==
    /\ m_running
    /\ m_running' = FALSE
    /\ SignalWriter
    /\ UNCHANGED <<frontVars, writerVars, failed>>

-----------------------------------------------------------------------------
(* threadFunc()                                                            *)

(* Mutant of WhileTest: m_running is not looked at.                        *)
WhileTest_Forever ==
    /\ ~failed
    /\ pc = "while"
    /\ pc' = "lock"
    /\ failed' = ~(newBuffer1 = <<>> /\ newBuffer2 = <<>>
                      /\ buffersToWrite = <<>>)
    /\ UNCHANGED <<m_running, frontVars, writerVars>>

WhileTest ==
    /\ ~failed
    /\ pc = "while"
    /\ pc' = IF m_running THEN "lock" ELSE "exit"
    /\ failed' = (m_running /\ ~(newBuffer1 = <<>> /\ newBuffer2 = <<>>
                                   /\ buffersToWrite = <<>>))
    /\ UNCHANGED <<m_running, frontVars, writerVars>>

WaitForLines ==
    /\ ~failed
    /\ pc = "lock"
    /\ m_buffers = <<>>
    /\ pc' = "wait"
    /\ UNCHANGED <<m_running, frontVars, writerVars, failed>>

(* m_flushInterval has passed, or the wait ends for no reason.             *)
EndWait ==
    /\ ~failed
    /\ pc = "wait"
    /\ pc' = "swap"
    /\ UNCHANGED <<m_running, frontVars, writerVars, failed>>

(* Mutants of Swap: the front buffer is pushed back but stays in front;    *)
(* newBuffer1 is moved into the spare's place first.                       *)
Swap_Copy ==
    /\ ~failed
    /\ pc = "swap" \/ (pc = "lock" /\ m_buffers # <<>>)
    /\ pc' = "write"
    /\ buffersToWrite' = Append(m_buffers, m_curBuffer)
    /\ m_buffers' = buffersToWrite
    /\ newBuffer1' = NoBuffer
    /\ m_nextBuffer' = IF m_nextBuffer = NoBuffer THEN newBuffer2
                                                  ELSE m_nextBuffer
    /\ newBuffer2' = IF m_nextBuffer = NoBuffer THEN NoBuffer ELSE newBuffer2
    /\ UNCHANGED <<m_running, m_curBuffer, m_os, appended, failed>>

Swap_Null ==
    /\ ~failed
    /\ pc = "swap" \/ (pc = "lock" /\ m_buffers # <<>>)
    /\ pc' = "write"
    /\ buffersToWrite' = Append(m_buffers, m_curBuffer)
    /\ m_buffers' = buffersToWrite
    /\ m_nextBuffer' = IF m_nextBuffer = NoBuffer THEN newBuffer1
                                                  ELSE m_nextBuffer
    /\ m_curBuffer' = IF m_nextBuffer = NoBuffer THEN NoBuffer
                                                 ELSE newBuffer1
    /\ newBuffer1' = NoBuffer
    /\ UNCHANGED <<m_running, newBuffer2, m_os, appended, failed>>

(* The front buffer joins the full ones, which are swapped out; the writer *)
(* gives its own empty buffers for it and for a missing spare.             *)
Swap ==
    /\ ~failed
    /\ pc = "swap" \/ (pc = "lock" /\ m_buffers # <<>>)
    /\ pc' = "write"
    /\ buffersToWrite' = Append(m_buffers, m_curBuffer)
    /\ m_buffers' = buffersToWrite
    /\ m_curBuffer' = newBuffer1
    /\ newBuffer1' = NoBuffer
    /\ m_nextBuffer' = IF m_nextBuffer = NoBuffer THEN newBuffer2
                                                  ELSE m_nextBuffer
    /\ newBuffer2' = IF m_nextBuffer = NoBuffer THEN NoBuffer ELSE newBuffer2
    /\ UNCHANGED <<m_running, m_os, appended, failed>>

(* How many of the buffers written are needed to refill the writer's own.  *)
Missing == (IF newBuffer1 = NoBuffer THEN 1 ELSE 0)
         + (IF newBuffer2 = NoBuffer THEN 1 ELSE 0)

Min2(n) == IF n < 2 THEN n ELSE 2

(* Mutant of Write: the buffers taken back are not reset.                  *)
Write_NoReset ==
    /\ ~failed
    /\ pc = "write"
    /\ failed' = (Min2(Len(buffersToWrite)) < Missing)
    /\ pc' = "while"
    /\ newBuffer1' = buffersToWrite[Min2(Len(buffersToWrite))]
    /\ newBuffer2' = IF newBuffer2 = NoBuffer THEN buffersToWrite[1]
                                              ELSE newBuffer2
    /\ buffersToWrite' = <<>>
    /\ m_os' = m_os \o FlattenSeq(buffersToWrite)
    /\ UNCHANGED <<m_running, frontVars>>

(* All buffers are written; the last two are reset for further use, and    *)
(* an assertion fails if they are not enough.                              *)
Write ==
    /\ ~failed
    /\ pc = "write"
    /\ failed' = (Min2(Len(buffersToWrite)) < Missing)
    /\ pc' = "while"
    /\ newBuffer1' = <<>>
    /\ newBuffer2' = <<>>
    /\ buffersToWrite' = <<>>
    /\ m_os' = m_os \o FlattenSeq(buffersToWrite)
    /\ UNCHANGED <<m_running, frontVars>>

-----------------------------------------------------------------------------
WriterStep ==
    \/ WhileTest
    \/ WaitForLines
    \/ Swap
    \/ Write

Next ==
    \/ \E l \in Lines : AppendHere(l) \/ AppendNext(l)
    \/ Start
    \/ Stop
    \/ EndWait
    \/ WriterStep

Spec == Init /\ [][Next]_vars

(* The writer is scheduled; that its wait ends by itself is assumed only   *)
(* under FlushIntervalPasses.                                              *)
FairSpec == Spec /\ WF_vars(WriterStep)

FlushIntervalPasses == WF_vars(EndWait)

-----------------------------------------------------------------------------
(* Properties.                                                             *)

(* The assertions of threadFunc: whenever it comes round it has two empty  *)
(* buffers again, whatever the other threads took meanwhile.               *)
NoFailure == ~failed

(* append, the swap and the reuse of buffers: the lines written, those in  *)
(* the writer's hands, the full buffers and the front buffer together are  *)
(* the lines appended, in order, none lost and none twice, except lines    *)
(* longer than a buffer, which FixedBuffer::append drops.                  *)
LinesConserved ==
    m_os \o FlattenSeq(buffersToWrite \o m_buffers \o <<m_curBuffer>>)
        = FlattenSeq([i \in DOMAIN appended |->
                         IF appended[i] \in LongLines THEN <<>>
                                                      ELSE <<appended[i]>>])

(* append: a full buffer is swapped out without the flush interval having  *)
(* to pass, unless the logging is stopped.                                 *)
FullBuffersPrompt ==
    m_buffers # <<>> /\ m_running ~> m_buffers = <<>> \/ ~m_running

(* threadFunc: every line reaches m_os in the end, unless the logging is   *)
(* stopped.                                                                *)
LinesWritten ==
    FlushIntervalPasses =>
        \A l \in Lines \ LongLines :
            l \in Range(appended) /\ m_running
                ~> l \in Range(m_os) \/ ~m_running

(* Whatever is appended reaches m_os: full buffers by the signal, the rest *)
(* by the flush interval.                                                  *)
LinesReachStream == FullBuffersPrompt /\ LinesWritten

(* stop: the writing thread ends, though the signal is sent without the    *)
(* mutex and may come when the thread is not waiting yet.                  *)
StopReturns ==
    FlushIntervalPasses => (pc # "unstarted" /\ ~m_running ~> pc = "exit")

=============================================================================
