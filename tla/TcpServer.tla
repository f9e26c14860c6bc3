----------------------------- MODULE TcpServer ------------------------------
(***************************************************************************)
(* A TcpServer at work: the base loop that accepts and keeps               *)
(* m_connections, the I/O loops that own the connections, and the threads  *)
(* of the application (net/TcpServer.cc, Connection.cc, Channel.cc,        *)
(* Poller.cc, Acceptor.cc, and Eventloop.cc as far as the order of events  *)
(* and functors goes).                                                     *)
(*                                                                         *)
(* A loop polls, handles the channels that were ready when it polled, then *)
(* runs the functors queued up to then.  That a loop with a queued functor *)
(* does not stay in epoll_wait is what module EventLoop is about.  What a  *)
(* loop does between two calls of application code is one step; m_state,   *)
(* which application threads read and write without a lock, changes under  *)
(* it between its steps, and they check, set and queue in three steps.     *)
(*                                                                         *)
(* Connections are numbered in the order of their names (m_connId).  The   *)
(* descriptor of a connection is not reused here: RegisteredAlive says     *)
(* what its reuse takes.  A failed assertion or an exception nobody        *)
(* catches ends the process and sets failed.                               *)
(***************************************************************************)
EXTENDS Integers, Sequences, FiniteSets

CONSTANTS
    NumThreads,     \* setThreadNum
    NumConns,       \* bound on the connections clients make
    Delays,         \* what m_delay > 0 may be
    CallbackOps,    \* what the callbacks may call on their connection
    ThreadOps,      \* what application threads may call on it
    Users,          \* application threads other than the loops'
    NoCall,
    MsgLen,         \* units of data in a message
    SndBuf,         \* units that fit into a socket's send buffer
    MaxSends,       \* bound on the messages sent on a connection
    MaxCalls,       \* bound on forceClose and the calls by threads
    Resetters       \* the connections whose peer may reset them

Ops == {"send", "shutdown", "forceClose"}
Conns == 1 .. NumConns

ASSUME ServerAssumption ==
    /\ NumThreads \in Nat
    /\ NumConns \in Nat \ {0}
    /\ Delays \subseteq BOOLEAN
    /\ CallbackOps \subseteq Ops
    /\ ThreadOps \subseteq Ops
    /\ MsgLen \in Nat \ {0}
    /\ SndBuf \in Nat \ {0}
    /\ MaxSends \in Nat
    /\ MaxCalls \in Nat
    /\ Resetters \subseteq Conns

Base == -1
IoLoops == 0 .. NumThreads - 1
AllLoops == IoLoops \cup {Base}

VARIABLES
    \* TcpServer (m_delay for m_delay > 0) and its thread pool
    m_delay, m_started, m_connId, m_connections, m_loopInfo, m_connectionCount,
    \* TcpConnection and its channel; channels is the keys of m_channels
    loop, m_state, m_timer, events, index, channels,
    \* the socket: m_outputBuffer, what was written, what the peer has not
    \* taken of it, and whether the write half is shut
    out, wire, inflight, wrShut,
    \* the peer: data on its way, its FIN, its RST
    rx, fin, reset,
    \* the loops: where each is, the connection whose callback it is in,
    \* the channels to handle with what was reported of them, the functors
    at, cur, active, revents, pend, batch, held,
    \* application threads: connections they keep, calls they are in
    refs, call, calls,
    \* what happened: messages accepted by sendInLoop, calls that closed,
    \* connection callbacks, the end
    sent, asked, ups, downs, failed

serverVars == <<m_delay, m_started, m_connId, m_connections, m_loopInfo,
                m_connectionCount, loop>>
dataVars == <<out, wire, inflight, wrShut, sent>>
historyVars == <<asked, ups, downs, failed>>
stateVars == <<m_state, m_timer>>
chanVars == <<events, index, channels>>
peerVars == <<rx, fin, reset>>
userVars == <<refs, call, calls>>
eventVars == <<active, revents>>
queueVars == <<pend, batch, held>>
loopVars == <<at, cur, eventVars, queueVars>>

vars == <<serverVars, stateVars, chanVars, dataVars, peerVars, loopVars,
          userVars, historyVars>>

Functors == {"connectEstablished", "connectDestroyed", "sendInLoop",
             "shutdownInLoop", "forceCloseInLoop", "removeConnectionInLoop"}

TypeOK ==
    /\ m_delay \in BOOLEAN
    /\ m_started \in BOOLEAN
    /\ m_connId \in 0 .. NumConns
    /\ m_connections \subseteq Conns
    /\ m_loopInfo \in [IoLoops -> Int \X IoLoops]
    /\ m_connectionCount \subseteq Int \X IoLoops
    /\ loop \in [Conns -> AllLoops]
    /\ m_state \in [Conns -> {"none", "kConnecting", "kConnected",
                              "kDisconnecting", "kDisconnected"}]
    /\ m_timer \in [Conns -> {"none", "armed", "fired"}]
    /\ events \in [Conns -> SUBSET {"IN", "OUT"}]
    /\ index \in [Conns -> {"kNew", "kAdded", "kDeleted"}]
    /\ channels \subseteq Conns
    /\ out \in [Conns -> Seq(Nat)]
    /\ wire \in [Conns -> Seq(Nat)]
    /\ inflight \in [Conns -> 0 .. SndBuf]
    /\ wrShut \in [Conns -> BOOLEAN]
    /\ rx \in [Conns -> BOOLEAN]
    /\ fin \in [Conns -> BOOLEAN]
    /\ reset \in [Conns -> BOOLEAN]
    /\ at \in [AllLoops -> {"poll", "events", "onMessage", "write",
                            "functors", "onConnection"}]
    /\ cur \in [AllLoops -> Conns]
    /\ active \in [AllLoops -> SUBSET Conns]
    /\ revents \in [Conns -> SUBSET {"IN", "OUT", "HUP"}]
    /\ pend \in [AllLoops -> Seq(Functors \X Conns)]
    /\ batch \in [AllLoops -> Seq(Functors \X Conns)]
    /\ held \in [AllLoops -> SUBSET Conns]
    /\ refs \subseteq Conns
    /\ call \in [Users -> {NoCall} \cup (ThreadOps \X Conns \X {"checked", "set"})]
    /\ calls \in 0 .. MaxCalls
    /\ sent \in [Conns -> Nat]
    /\ asked \in [Conns -> SUBSET {"shutdown", "forceClose"}]
    /\ ups \in [Conns -> 0 .. 1]
    /\ downs \in [Conns -> 0 .. 1]
    /\ failed \in {"", "n == 1", "isNoneEvent()", "m_channels.count(fd)",
                   "m_state", "readv", "freed"}

Init ==
    /\ m_delay \in Delays
    /\ m_started = FALSE
    /\ m_connId = 0
    /\ m_connections = {}
    /\ m_loopInfo = [l \in IoLoops |-> <<0, l>>]
    /\ m_connectionCount = {}
    /\ loop = [c \in Conns |-> Base]
    /\ m_state = [c \in Conns |-> "none"]
    /\ m_timer = [c \in Conns |-> "none"]
    /\ events = [c \in Conns |-> {}]
    /\ index = [c \in Conns |-> "kNew"]
    /\ channels = {}
    /\ out = [c \in Conns |-> <<>>]
    /\ wire = [c \in Conns |-> <<>>]
    /\ inflight = [c \in Conns |-> 0]
    /\ wrShut = [c \in Conns |-> FALSE]
    /\ rx = [c \in Conns |-> FALSE]
    /\ fin = [c \in Conns |-> FALSE]
    /\ reset = [c \in Conns |-> FALSE]
    /\ at = [l \in AllLoops |-> "poll"]
    /\ cur = [l \in AllLoops |-> 1]
    /\ active = [l \in AllLoops |-> {}]
    /\ revents = [c \in Conns |-> {}]
    /\ pend = [l \in AllLoops |-> <<>>]
    /\ batch = [l \in AllLoops |-> <<>>]
    /\ held = [l \in AllLoops |-> {}]
    /\ refs = {}
    /\ call = [u \in Users |-> NoCall]
    /\ calls = 0
    /\ sent = [c \in Conns |-> 0]
    /\ asked = [c \in Conns |-> {}]
    /\ ups = [c \in Conns |-> 0]
    /\ downs = [c \in Conns |-> 0]
    /\ failed = ""

(* The thread pool, on the server's tables.  The connections the server    *)
(* holds on each loop are those in its map.                                *)
Pool == INSTANCE EventLoopThreadPool WITH
            MaxConns <- NumConns,
            MaxCalls <- 0,
            m_next <- 0,
            handed <- [l \in IoLoops |-> 0],
            given <- [l \in AllLoops |->
                        Cardinality({c \in m_connections : loop[c] = l})]

-----------------------------------------------------------------------------
(* Lifetimes.  A connection lives while a shared_ptr to it does: in the    *)
(* map, in a functor queued or in the batch being run (which doPending-    *)
(* Functors keeps until its end) - these are the server's own - or in an   *)
(* application thread.                                                     *)

InQueue(c, q) == \E i \in DOMAIN q : q[i][2] = c

Kept(c) ==
    \/ c \in m_connections
    \/ \E l \in AllLoops : InQueue(c, pend[l]) \/ c \in held[l]

Alive(c) == Kept(c) \/ c \in refs

ProcessUp == failed = ""

(* The end of the process.                                                 *)
Fail(why) ==
    /\ failed' = why
    /\ UNCHANGED <<serverVars, stateVars, chanVars, dataVars, peerVars,
                   loopVars, userVars, asked, ups, downs>>

(* Channel::update and Poller::updateChannel: a channel that was removed   *)
(* from epoll is added again whatever its mask; one that is there is       *)
(* removed when its mask becomes empty.                                    *)
SetEvents(c, e) ==
    /\ events' = [events EXCEPT ![c] = e]
    /\ index' = [index EXCEPT ![c] =
                    IF @ = "kAdded" /\ e = {} THEN "kDeleted" ELSE "kAdded"]
    /\ channels' = channels \cup {c}

(* What write(2) takes of len units.                                       *)
Accepted(c, len) ==
    IF wrShut[c] \/ reset[c] THEN 0
    ELSE IF len < SndBuf - inflight[c] THEN len ELSE SndBuf - inflight[c]

Message(k) == [i \in 1 .. MsgLen |-> (k - 1) * MsgLen + i]

(* Mutant of WritesDirectly: writes even when m_outputBuffer has data.     *)
WritesDirectly_Always(c) == TRUE

WritesDirectly(c) == "OUT" \notin events[c] /\ out[c] = <<>>

(* TcpConnection::sendInLoop                                               *)
SendInLoop(c) ==
    LET msg == Message(sent[c] + 1)
        n == IF WritesDirectly(c) THEN Accepted(c, MsgLen) ELSE 0
    IN  /\ sent' = [sent EXCEPT ![c] = @ + 1]
        /\ wire' = [wire EXCEPT ![c] = @ \o SubSeq(msg, 1, n)]
        /\ inflight' = [inflight EXCEPT ![c] = @ + n]
        /\ out' = [out EXCEPT ![c] = @ \o SubSeq(msg, n + 1, MsgLen)]
        /\ IF n < MsgLen /\ "OUT" \notin events[c]
               THEN SetEvents(c, events[c] \cup {"OUT"})
               ELSE UNCHANGED chanVars

(* TcpConnection::shutdownInLoop                                           *)
ShutdownInLoop(c) ==
    wrShut' = [wrShut EXCEPT ![c] = @ \/ "OUT" \notin events[c]]

(* Mutant of UncountConnection: the thread pool is not told.               *)
UncountConnection_Not(c) == UNCHANGED <<m_loopInfo, m_connectionCount>>

UncountConnection(c) == Pool!DropLoop(loop[c])

(* TcpServer::removeConnectionInLoop, once c has been erased; q is the     *)
(* queues before it.                                                       *)
RemoveConnectionInLoop(c) ==
    /\ m_connections' = m_connections \ {c}
    /\ UncountConnection(c)
    /\ pend' = [pend EXCEPT ![loop[c]] = Append(@, <<"connectDestroyed", c>>)]
    /\ UNCHANGED <<m_delay, m_started, m_connId, loop>>

(* Mutant of HandleClose: the channel stays registered.                    *)
HandleClose_NoDisable(c) ==
    /\ IF loop[c] = Base
           THEN RemoveConnectionInLoop(c)
           ELSE /\ pend' = [pend EXCEPT ![Base] =
                               Append(@, <<"removeConnectionInLoop", c>>)]
                /\ UNCHANGED serverVars
    /\ UNCHANGED chanVars

(* TcpConnection::handleClose with the server's close callback, which runs *)
(* removeConnectionInLoop at once on the base loop and queues it to the    *)
(* base loop from an I/O loop.                                             *)
HandleClose(c) ==
    /\ SetEvents(c, {})
    /\ IF loop[c] = Base
           THEN RemoveConnectionInLoop(c)
           ELSE /\ pend' = [pend EXCEPT ![Base] =
                               Append(@, <<"removeConnectionInLoop", c>>)]
                /\ UNCHANGED serverVars

Closable(c) == m_state[c] \in {"kConnected", "kDisconnecting"}

(* The assertions handleClose runs into.                                   *)
CloseFailure(c) ==
    IF ~Closable(c) THEN "m_state"
    ELSE IF loop[c] = Base /\ c \notin m_connections THEN "n == 1"
    ELSE ""

-----------------------------------------------------------------------------
(* The base loop: start, and the acceptor's channel.                       *)

(* TcpServer::start, before the base loop's loop().                        *)
Start ==
    /\ ProcessUp
    /\ Pool!StartTables
    /\ UNCHANGED <<m_delay, m_connId, m_connections, loop, stateVars,
                   chanVars, dataVars, peerVars, loopVars, userVars, historyVars>>

(* TcpConnection::connectEstablished up to the connection callback.        *)
ConnectEstablished(l, c) ==
    /\ m_state' = [m_state EXCEPT ![c] = "kConnected"]
    /\ SetEvents(c, events[c] \cup {"IN"})
    /\ ups' = [ups EXCEPT ![c] = @ + 1]
    /\ at' = [at EXCEPT ![l] = "onConnection"]
    /\ cur' = [cur EXCEPT ![l] = c]

(* A new connection for an I/O loop.                                       *)
QueueEstablished(l, c) ==
    /\ m_state' = [m_state EXCEPT ![c] = "kConnecting"]
    /\ pend' = [pend EXCEPT ![l] = Append(@, <<"connectEstablished", c>>)]
    /\ UNCHANGED <<chanVars, at, cur, ups>>

(* Acceptor::handleRead and TcpServer::newConnection: the next connection  *)
(* goes to the pool's choice of loop and is established there, at once if  *)
(* that is the base loop.                                                  *)
NewConnection ==
    /\ ProcessUp
    /\ m_started
    /\ at[Base] = "events"
    /\ m_connId < NumConns
    /\ m_connId' = m_connId + 1
    /\ m_connections' = m_connections \cup {m_connId'}
    /\ \E l \in AllLoops :
          /\ Pool!TakeMinLoop(l)
          /\ loop' = [loop EXCEPT ![m_connId'] = l]
          /\ IF l = Base
                THEN ConnectEstablished(l, m_connId') /\ UNCHANGED pend
                ELSE QueueEstablished(l, m_connId')
    /\ UNCHANGED <<m_delay, m_started, m_timer, dataVars, peerVars,
                   eventVars, batch, held, userVars, asked, downs, failed>>

-----------------------------------------------------------------------------
(* A loop's iteration.                                                     *)

(* What epoll reports of c: level-triggered, EPOLLHUP whatever the mask.   *)
Ready(c) ==
    (IF "IN" \in events[c] /\ (rx[c] \/ fin[c] \/ reset[c])
         THEN {"IN"} ELSE {})
    \cup (IF /\ "OUT" \in events[c]
             /\ inflight[c] < SndBuf \/ wrShut[c] \/ reset[c]
          THEN {"OUT"} ELSE {})
    \cup (IF (fin[c] /\ wrShut[c]) \/ reset[c] THEN {"HUP"} ELSE {})

ReadyOn(l) ==
    {c \in channels : /\ loop[c] = l
                      /\ index[c] = "kAdded"
                      /\ Alive(c)
                      /\ Ready(c) # {}}

Poll(l) ==
    /\ ProcessUp
    /\ at[l] = "poll"
    /\ \/ ReadyOn(l) # {}
       \/ pend[l] # <<>>
       \/ \E c \in Conns : loop[c] = l /\ m_timer[c] = "armed"
       \/ l = Base /\ m_started /\ m_connId < NumConns
    /\ at' = [at EXCEPT ![l] = "events"]
    /\ active' = [active EXCEPT ![l] = ReadyOn(l)]
    /\ revents' = [c \in Conns |->
                     IF c \in ReadyOn(l) THEN Ready(c) ELSE revents[c]]
    /\ UNCHANGED <<serverVars, stateVars, chanVars, dataVars, peerVars, cur,
                   queueVars, userVars, historyVars>>

(* Channel::handleEvent for c.                                             *)
Handling(l, c) == at[l] = "events" /\ c \in active[l]

Handled(l, c) ==
    /\ active' = [active EXCEPT ![l] = @ \ {c}]
    /\ revents' = [revents EXCEPT ![c] = {}]

(* What readv(2) may return: data that came before the end or the reset;   *)
(* end of file, also after a reset whose error an earlier write(2) took    *)
(* (the data of a write that failed is still in m_outputBuffer); or        *)
(* ECONNRESET.                                                             *)
Readable(c) == "IN" \in revents[c]
ClosedByPeer(c) ==
    IF Readable(c) THEN ~rx[c] /\ (fin[c] \/ (reset[c] /\ out[c] # <<>>))
                   ELSE "HUP" \in revents[c]

(* The poller's raw pointer to a channel whose connection is gone.         *)
HandleFreed(l) ==
    /\ ProcessUp
    /\ \E c \in Conns : Handling(l, c) /\ ~Alive(c) /\ Fail("freed")

(* readv(2) fails with ECONNRESET, and socket::Readv throws.               *)
HandleReset(l) ==
    /\ ProcessUp
    /\ \E c \in Conns :
           /\ Handling(l, c) /\ Alive(c)
           /\ Readable(c) /\ reset[c]
           /\ Fail("readv")

(* Mutant of UpdateTimer: the timer is cancelled and not set again.        *)
UpdateTimer_NoRearm(c) ==
    /\ m_timer' = [m_timer EXCEPT ![c] = IF @ = "none" THEN @ ELSE "fired"]
    /\ UNCHANGED m_state

(* TcpConnection::updateTimer: cancel and, if the connection is not down,  *)
(* forceCloseAfter.  A cancelled timer is as good as fired.                *)
UpdateTimer(c) ==
    IF m_timer[c] = "none" THEN UNCHANGED stateVars
    ELSE IF Closable(c)
         THEN /\ m_state' = [m_state EXCEPT ![c] = "kDisconnecting"]
              /\ m_timer' = [m_timer EXCEPT ![c] = "armed"]
         ELSE /\ m_timer' = [m_timer EXCEPT ![c] = "fired"]
              /\ UNCHANGED m_state

(* handleRead with data, up to the message callback.                       *)
HandleData(l) ==
    /\ ProcessUp
    /\ \E c \in Conns :
           /\ Handling(l, c) /\ Alive(c)
           /\ Readable(c) /\ rx[c]
           /\ rx' = [rx EXCEPT ![c] = FALSE]
           /\ at' = [at EXCEPT ![l] = "onMessage"]
           /\ cur' = [cur EXCEPT ![l] = c]
           /\ UpdateTimer(c)
           /\ UNCHANGED <<serverVars, chanVars, dataVars, fin, reset,
                          eventVars, queueVars, userVars, historyVars>>

(* handleClose: from handleRead at end of file, or for EPOLLHUP.           *)
HandleEnd(l) ==
    /\ ProcessUp
    /\ \E c \in Conns :
           /\ Handling(l, c) /\ Alive(c)
           /\ ClosedByPeer(c)
           /\ IF CloseFailure(c) # ""
              THEN Fail(CloseFailure(c))
              ELSE /\ HandleClose(c)
                   /\ Handled(l, c)
                   /\ UNCHANGED <<stateVars, dataVars, peerVars, at, cur,
                                  batch, held, userVars, historyVars>>

(* Mutant of ShutsAfterWrite: the FIN is forgotten.                        *)
ShutsAfterWrite_Never(c) == FALSE

(* handleWrite calls shutdownInLoop once the data is written.              *)
ShutsAfterWrite(c) == m_state[c] = "kDisconnecting"

(* Channel::handleEvent goes on to handleWrite if the mask, not the        *)
(* report, has EPOLLOUT: after a message callback and after no callback.   *)
HandleWrite(l) ==
    /\ ProcessUp
    /\ \E c \in Conns :
           /\ \/ at[l] = "write" /\ cur[l] = c
              \/ Handling(l, c) /\ Alive(c) /\ revents[c] = {"OUT"}
           /\ LET n == IF "OUT" \in events[c] THEN Accepted(c, Len(out[c])) ELSE 0
                  drained == n > 0 /\ n = Len(out[c])
              IN  /\ wire' = [wire EXCEPT ![c] = @ \o SubSeq(out[c], 1, n)]
                  /\ inflight' = [inflight EXCEPT ![c] = @ + n]
                  /\ out' = [out EXCEPT ![c] = SubSeq(@, n + 1, Len(@))]
                  /\ IF drained THEN SetEvents(c, events[c] \ {"OUT"})
                                ELSE UNCHANGED chanVars
                  /\ wrShut' = [wrShut EXCEPT ![c] =
                        @ \/ (drained /\ ShutsAfterWrite(c))]
           /\ Handled(l, c)
           /\ at' = [at EXCEPT ![l] = "events"]
           /\ UNCHANGED <<serverVars, stateVars, sent, peerVars, cur,
                          queueVars, userVars, historyVars>>

(* The connection's timer: forceClose through a weak_ptr.                  *)
TimerFires(l) ==
    /\ ProcessUp
    /\ at[l] = "events"
    /\ \E c \in Conns :
          /\ loop[c] = l /\ m_timer[c] = "armed"
          /\ m_timer' = [m_timer EXCEPT ![c] = "fired"]
          /\ IF Alive(c) /\ Closable(c)
                THEN /\ m_state' = [m_state EXCEPT ![c] = "kDisconnecting"]
                     /\ pend' = [pend EXCEPT ![l] =
                                    Append(@, <<"forceCloseInLoop", c>>)]
                ELSE UNCHANGED <<m_state, pend>>
    /\ UNCHANGED <<serverVars, chanVars, dataVars, peerVars, at, cur,
                   eventVars, batch, held, userVars, historyVars>>

(* doPendingFunctors: what is queued is swapped out and kept to the end.   *)
EndEvents(l) ==
    /\ ProcessUp
    /\ at[l] = "events"
    /\ active[l] = {}
    /\ at' = [at EXCEPT ![l] = IF pend[l] = <<>> THEN "poll" ELSE "functors"]
    /\ batch' = [batch EXCEPT ![l] = pend[l]]
    /\ held' = [held EXCEPT ![l] = {pend[l][i][2] : i \in DOMAIN pend[l]}]
    /\ pend' = [pend EXCEPT ![l] = <<>>]
    /\ UNCHANGED <<serverVars, stateVars, chanVars, dataVars, peerVars, cur,
                   eventVars, userVars, historyVars>>

EndBatch(l) ==
    /\ ProcessUp
    /\ at[l] = "functors"
    /\ batch[l] = <<>>
    /\ at' = [at EXCEPT ![l] = "poll"]
    /\ held' = [held EXCEPT ![l] = {}]
    /\ UNCHANGED <<serverVars, stateVars, chanVars, dataVars, peerVars, cur,
                   eventVars, pend, batch, userVars, historyVars>>

-----------------------------------------------------------------------------
(* The functors.                                                           *)

(* The functor of the batch that runs next is op on c.                     *)
Running(l, op, c) ==
    /\ at[l] = "functors"
    /\ batch[l] # <<>>
    /\ Head(batch[l]) = <<op, c>>

(* Mutant of Pop: the functor stays in the batch.                          *)
Pop_Keep(l) == UNCHANGED batch

Pop(l) == batch' = [batch EXCEPT ![l] = Tail(@)]

RunEstablished(l) ==
    /\ ProcessUp
    /\ \E c \in Conns :
           /\ Running(l, "connectEstablished", c)
           /\ ConnectEstablished(l, c)
           /\ Pop(l)
           /\ UNCHANGED <<serverVars, m_timer, dataVars, peerVars, eventVars,
                          pend, held, userVars, asked, downs, failed>>

(* Mutant of IsUp: tests for kDisconnecting instead.                       *)
IsUp_Disconnecting(c) == m_state[c] = "kDisconnecting"

(* Only a connection nobody has asked to close is still kConnected in      *)
(* connectDestroyed, and gets the second connection callback.              *)
IsUp(c) == m_state[c] = "kConnected"

(* Mutant of RemoveChannel: the channel is removed only while kConnected.  *)
RemoveChannel_IfUp(c) ==
    IF IsUp(c)
        THEN /\ events' = [events EXCEPT ![c] = {}]
             /\ index' = [index EXCEPT ![c] = "kNew"]
             /\ channels' = channels \ {c}
        ELSE UNCHANGED chanVars

(* disableAll (if up) and Poller::removeChannel                            *)
RemoveChannel(c) ==
    /\ events' = [events EXCEPT ![c] = {}]
    /\ index' = [index EXCEPT ![c] = "kNew"]
    /\ channels' = channels \ {c}

(* TcpConnection::connectDestroyed                                         *)
RunDestroyed(l) ==
    /\ ProcessUp
    /\ \E c \in Conns :
        /\ Running(l, "connectDestroyed", c)
        /\ IF ~IsUp(c) /\ events[c] # {} THEN Fail("isNoneEvent()")
           ELSE IF c \notin channels THEN Fail("m_channels.count(fd)")
           ELSE /\ IF IsUp(c)
                      THEN /\ m_state' = [m_state EXCEPT ![c] = "kDisconnected"]
                           /\ downs' = [downs EXCEPT ![c] = @ + 1]
                      ELSE UNCHANGED <<m_state, downs>>
                /\ RemoveChannel(c)
                /\ Pop(l)
                /\ UNCHANGED <<serverVars, m_timer, dataVars, peerVars, at,
                               cur, eventVars, pend, held, userVars, asked,
                               ups, failed>>

RunSend(l) ==
    /\ ProcessUp
    /\ \E c \in Conns :
           /\ Running(l, "sendInLoop", c)
           /\ SendInLoop(c)
           /\ Pop(l)
           /\ UNCHANGED <<serverVars, stateVars, wrShut, peerVars, at, cur,
                          eventVars, pend, held, userVars, historyVars>>

RunShutdown(l) ==
    /\ ProcessUp
    /\ \E c \in Conns :
           /\ Running(l, "shutdownInLoop", c)
           /\ ShutdownInLoop(c)
           /\ Pop(l)
           /\ UNCHANGED <<serverVars, stateVars, chanVars, out, wire,
                          inflight, sent, peerVars, at, cur, eventVars, pend,
                          held, userVars, historyVars>>

RunForceClose(l) ==
    /\ ProcessUp
    /\ \E c \in Conns :
           /\ Running(l, "forceCloseInLoop", c)
           /\ IF Closable(c) /\ CloseFailure(c) # ""
              THEN Fail(CloseFailure(c))
              ELSE /\ IF Closable(c) THEN HandleClose(c)
                                     ELSE UNCHANGED <<serverVars, chanVars, pend>>
                   /\ Pop(l)
                   /\ UNCHANGED <<stateVars, dataVars, peerVars, at, cur,
                                  eventVars, held, userVars, historyVars>>

RunRemove(l) ==
    /\ ProcessUp
    /\ \E c \in Conns :
           /\ Running(l, "removeConnectionInLoop", c)
           /\ IF c \notin m_connections
              THEN Fail("n == 1")
              ELSE /\ RemoveConnectionInLoop(c)
                   /\ Pop(l)
                   /\ UNCHANGED <<stateVars, chanVars, dataVars, peerVars,
                                  at, cur, eventVars, held, userVars,
                                  historyVars>>

-----------------------------------------------------------------------------
(* The application's callbacks, on the loop's thread.                      *)

InCallback(l) == at[l] \in {"onConnection", "onMessage"}

(* A send on a connection that is not kConnected does nothing.             *)
CallbackSend(l) ==
    /\ ProcessUp
    /\ InCallback(l)
    /\ "send" \in CallbackOps
    /\ sent[cur[l]] < MaxSends
    /\ m_state[cur[l]] = "kConnected"
    /\ SendInLoop(cur[l])
    /\ UNCHANGED <<serverVars, stateVars, wrShut, peerVars, loopVars,
                   userVars, historyVars>>

CallbackShutdown(l) ==
    /\ ProcessUp
    /\ InCallback(l)
    /\ "shutdown" \in CallbackOps
    /\ m_state[cur[l]] = "kConnected"
    /\ m_state' = [m_state EXCEPT ![cur[l]] = "kDisconnecting"]
    /\ asked' = [asked EXCEPT ![cur[l]] = @ \cup {"shutdown"}]
    /\ ShutdownInLoop(cur[l])
    /\ UNCHANGED <<serverVars, m_timer, chanVars, out, wire, inflight, sent,
                   peerVars, loopVars, userVars, ups, downs, failed>>

CallbackForceClose(l) ==
    /\ ProcessUp
    /\ InCallback(l)
    /\ "forceClose" \in CallbackOps
    /\ calls < MaxCalls
    /\ calls' = calls + 1
    /\ Closable(cur[l])
    /\ m_state' = [m_state EXCEPT ![cur[l]] = "kDisconnecting"]
    /\ asked' = [asked EXCEPT ![cur[l]] = @ \cup {"forceClose"}]
    /\ pend' = [pend EXCEPT ![l] = Append(@, <<"forceCloseInLoop", cur[l]>>)]
    /\ UNCHANGED <<serverVars, m_timer, chanVars, dataVars, peerVars, at,
                   cur, eventVars, batch, held, refs, call, ups, downs,
                   failed>>

(* The connection callback hands the TcpConnectionPtr to another thread.   *)
CallbackShare(l) ==
    /\ ProcessUp
    /\ at[l] = "onConnection"
    /\ Users # {}
    /\ cur[l] \notin refs
    /\ refs' = refs \cup {cur[l]}
    /\ UNCHANGED <<serverVars, stateVars, chanVars, dataVars, peerVars,
                   loopVars, call, calls, historyVars>>

(* The rest of connectEstablished: with a delay, forceCloseAfter makes the *)
(* connection kDisconnecting there and then.                               *)
EndOnConnection(l) ==
    /\ ProcessUp
    /\ at[l] = "onConnection"
    /\ at' = [at EXCEPT ![l] = IF l = Base THEN "events" ELSE "functors"]
    /\ IF m_delay /\ Closable(cur[l])
          THEN /\ m_state' = [m_state EXCEPT ![cur[l]] = "kDisconnecting"]
               /\ m_timer' = [m_timer EXCEPT ![cur[l]] = "armed"]
          ELSE UNCHANGED stateVars
    /\ UNCHANGED <<serverVars, chanVars, dataVars, peerVars, cur, eventVars,
                   queueVars, userVars, historyVars>>

EndOnMessage(l) ==
    /\ ProcessUp
    /\ at[l] = "onMessage"
    /\ at' = [at EXCEPT ![l] = "write"]
    /\ UNCHANGED <<serverVars, stateVars, chanVars, dataVars, peerVars, cur,
                   eventVars, queueVars, userVars, historyVars>>

-----------------------------------------------------------------------------
(* Other threads of the application: a call reads m_state, for shutdown    *)
(* and forceClose sets it, and queues the rest to the connection's loop.   *)

UserChecks(u, op, c) ==
    /\ ProcessUp
    /\ call[u] = NoCall
    /\ calls < MaxCalls
    /\ c \in refs
    /\ m_state[c] = "kConnected" \/ (op = "forceClose" /\ Closable(c))
    /\ calls' = calls + 1
    /\ call' = [call EXCEPT ![u] = <<op, c, IF op = "send" THEN "set" ELSE "checked">>]
    /\ UNCHANGED <<serverVars, stateVars, chanVars, dataVars, peerVars,
                   loopVars, refs, historyVars>>

UserSets(u) ==
    /\ ProcessUp
    /\ call[u] # NoCall
    /\ call[u][3] = "checked"
    /\ m_state' = [m_state EXCEPT ![call[u][2]] = "kDisconnecting"]
    /\ asked' = [asked EXCEPT ![call[u][2]] = @ \cup {call[u][1]}]
    /\ call' = [call EXCEPT ![u] = <<@[1], @[2], "set">>]
    /\ UNCHANGED <<serverVars, m_timer, chanVars, dataVars, peerVars,
                   loopVars, refs, calls, ups, downs, failed>>

Functor(op) ==
    CASE op = "send" -> "sendInLoop"
      [] op = "shutdown" -> "shutdownInLoop"
      [] op = "forceClose" -> "forceCloseInLoop"

UserQueues(u) ==
    /\ ProcessUp
    /\ call[u] # NoCall
    /\ call[u][3] = "set"
    /\ pend' = [pend EXCEPT ![loop[call[u][2]]] =
                   Append(@, <<Functor(call[u][1]), call[u][2]>>)]
    /\ call' = [call EXCEPT ![u] = NoCall]
    /\ UNCHANGED <<serverVars, stateVars, chanVars, dataVars, peerVars, at,
                   cur, eventVars, batch, held, refs, calls, historyVars>>

UserDrops(c) ==
    /\ ProcessUp
    /\ c \in refs
    /\ \A u \in Users : call[u] # NoCall => call[u][2] # c
    /\ refs' = refs \ {c}
    /\ UNCHANGED <<serverVars, stateVars, chanVars, dataVars, peerVars,
                   loopVars, call, calls, historyVars>>

-----------------------------------------------------------------------------
(* The peer, while the server has the socket open.                         *)

Open(c) == m_state[c] # "none" /\ Alive(c)

PeerSends(c) ==
    /\ ProcessUp
    /\ Open(c) /\ ~rx[c] /\ ~fin[c] /\ ~reset[c]
    /\ rx' = [rx EXCEPT ![c] = TRUE]
    /\ UNCHANGED <<serverVars, stateVars, chanVars, dataVars, fin, reset,
                   loopVars, userVars, historyVars>>

PeerReads(c) ==
    /\ ProcessUp
    /\ Open(c) /\ ~reset[c] /\ inflight[c] > 0
    /\ inflight' = [inflight EXCEPT ![c] = @ - 1]
    /\ UNCHANGED <<serverVars, stateVars, chanVars, out, wire, wrShut, sent,
                   peerVars, loopVars, userVars, historyVars>>

PeerCloses(c) ==
    /\ ProcessUp
    /\ Open(c) /\ ~fin[c] /\ ~reset[c]
    /\ fin' = [fin EXCEPT ![c] = TRUE]
    /\ UNCHANGED <<serverVars, stateVars, chanVars, dataVars, rx, reset,
                   loopVars, userVars, historyVars>>

PeerResets(c) ==
    /\ ProcessUp
    /\ c \in Resetters
    /\ Open(c) /\ ~reset[c]
    /\ reset' = [reset EXCEPT ![c] = TRUE]
    /\ UNCHANGED <<serverVars, stateVars, chanVars, dataVars, rx, fin,
                   loopVars, userVars, historyVars>>

-----------------------------------------------------------------------------
(* What a loop's thread does with what it has: everything but to accept    *)
(* and to let a timer expire, and the calls the application chooses.       *)
LoopStep(l) ==
    \/ Poll(l)
    \/ HandleFreed(l)
    \/ HandleReset(l)
    \/ HandleData(l)
    \/ HandleEnd(l)
    \/ HandleWrite(l)
    \/ EndEvents(l)
    \/ EndBatch(l)
    \/ RunEstablished(l)
    \/ RunDestroyed(l)
    \/ RunSend(l)
    \/ RunShutdown(l)
    \/ RunForceClose(l)
    \/ RunRemove(l)
    \/ EndOnConnection(l)
    \/ EndOnMessage(l)

CallbackStep(l) ==
    \/ CallbackSend(l)
    \/ CallbackShutdown(l)
    \/ CallbackForceClose(l)
    \/ CallbackShare(l)

UserStep(u) ==
    \/ \E op \in ThreadOps, c \in Conns : UserChecks(u, op, c)
    \/ UserSets(u)
    \/ UserQueues(u)

PeerStep(c) ==
    \/ PeerSends(c)
    \/ PeerReads(c)
    \/ PeerCloses(c)
    \/ PeerResets(c)

Next ==
    \/ Start
    \/ NewConnection
    \/ \E l \in AllLoops : LoopStep(l) \/ CallbackStep(l) \/ TimerFires(l)
    \/ \E u \in Users : UserStep(u)
    \/ \E c \in Conns : UserDrops(c) \/ PeerStep(c)

Spec == Init /\ [][Next]_vars

(* Threads are scheduled, callbacks return, application threads finish the *)
(* calls they are in, a timer that is armed expires however often the loop *)
(* turns before, and the peer takes data that has arrived.                 *)
Fairness ==
    /\ \A l \in AllLoops : WF_vars(LoopStep(l))
    /\ \A l \in AllLoops : SF_vars(TimerFires(l))
    /\ \A u \in Users : WF_vars(UserSets(u) \/ UserQueues(u))
    /\ \A c \in Conns : WF_vars(PeerReads(c))

FairSpec == Spec /\ Fairness

-----------------------------------------------------------------------------
(* Properties.                                                             *)

(* No assertion of the server fails and nothing is thrown on a loop's      *)
(* thread, whatever clients do short of a reset, when there is no delay    *)
(* and the application only sends and shuts down from its callbacks, as    *)
(* HttpServer::onMessage does.                                             *)
NoFailure ==
    failed # "" => m_delay \/ calls > 0 \/ \E c \in Conns : reset[c]

(* TcpConnection::sendInLoop and handleWrite, with partial writes in       *)
(* either: what was written to the socket and what is in m_outputBuffer    *)
(* is together what was sent, in order, with nothing lost or repeated.     *)
BytesInOrder ==
    \A c \in Conns :
        wire[c] \o out[c] = [i \in 1 .. sent[c] * MsgLen |-> i]

(* shutdown, shutdownInLoop and handleWrite: on a connection that has not  *)
(* been closed (handleClose clears its mask and gives its data up), the    *)
(* write half is shut only when all data send() has taken is written.      *)
FinAfterData ==
    \A c \in Conns :
       wrShut'[c] /\ ~wrShut[c] /\ "IN" \in events[c] => out'[c] = <<>>

(* The byte stream a peer receives: the data sent, in order and whole, and *)
(* the end of the stream after it.                                         *)
StreamInOrder == [][BytesInOrder' /\ FinAfterData]_vars

(* Poller::m_channels holds raw pointers keyed by descriptor: each of them *)
(* is the channel of a live connection. (One that is not leaves its        *)
(* descriptor in the map, for the next connection accepted on it to find.) *)
RegisteredAlive == channels \subseteq {c \in Conns : Alive(c)}

(* What the server promises about each connection, in module               *)
(* ConnectionLife.                                                         *)
Life == INSTANCE ConnectionLife WITH
            life <- [c \in Conns |->
                        IF ups[c] = 0 THEN "new"
                        ELSE IF ~Alive(c) THEN "freed"
                        ELSE IF downs[c] = 1 THEN "down" ELSE "up"],
            callback <- [c \in Conns |->
                            IF \E l \in AllLoops : InCallback(l) /\ cur[l] = c
                                THEN at[CHOOSE l \in AllLoops :
                                            InCallback(l) /\ cur[l] = c]
                                ELSE "none"],
            asked <- {c \in Conns : asked[c] # {}}

(* newConnection, connectEstablished, handleRead, handleClose,             *)
(* connectDestroyed and the functors that carry them between the loops:    *)
(* the callbacks of a connection come in order and never overlap, its      *)
(* second connection callback is left out only if the application asked to *)
(* close it, and a FIN is sent only then.                                  *)
ImplementsConnectionLife == Life!Spec

(* assert(n == 1) in removeConnectionInLoop: a connection is removed once. *)
RemovedOnce == failed # "n == 1"

(* The server calls the pool as it must be called: with the base loop's    *)
(* map, every removal is of a connection the pool counts on that loop.     *)
ImplementsPool == Pool!Spec

(* handleRead, handleClose, removeConnection, connectDestroyed: the server *)
(* lets go of the connection of a peer that closed, which frees it unless  *)
(* an application thread still keeps it, or the process has failed         *)
(* (NoFailure says when it may).                                           *)
Reaped == \A c \in Conns : fin[c] ~> ~Kept(c) \/ failed # ""

(* shutdown: the peer gets its FIN, after the data, or the connection is   *)
(* gone first.                                                             *)
ShutdownCompletes ==
    \A c \in Conns :
        "shutdown" \in asked[c] ~> wrShut[c] \/ ~Kept(c) \/ failed # ""

(* connectEstablished and updateTimer with a delay: a connection whose     *)
(* peer keeps silent is closed and let go.                                 *)
IdleClosed ==
    \A c \in Conns :
        m_delay /\ ups[c] = 1 ~> ~Kept(c) \/ rx[c] \/ failed # ""

(* No connection is kept for ever once its peer closed it or, with a       *)
(* delay, fell silent.                                                     *)
LetGo == Reaped /\ IdleClosed

=============================================================================
