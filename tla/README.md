# Verification of vserver

TLA+ models of vserver, a reactor-style network library in C++
(`src/vserver/vserver`), the TLC runs that check them and the proofs of what
matters most. `PROJECT.json` maps every definition to the lines it models and
lists components, runs, mutants, findings, hazards and theorems; this file
explains them.

1. [The system](#the-system)
2. [Modules](#modules)
3. [Runs and what they show](#runs-and-what-they-show)
4. [Bounds](#bounds)
5. [Fairness](#fairness)
6. [Proofs](#proofs)
7. [Disagreements found](#disagreements-found)
8. [What is not modelled](#what-is-not-modelled)
9. [What could follow](#what-could-follow)

## The system

A server has one *base loop*, which accepts, and `m_threadNum` *I/O loops*,
each an `EventLoop` on a thread of its own that owns the connections given to
it. A loop repeats: wait in epoll, call the handler of every ready channel, run
the functors queued to it. Threads talk to a loop only by queueing a functor and
writing its eventfd; almost everything else runs on one loop's thread. An HTTP
server sits on top of the connections; a task pool and an asynchronous log writer
stand beside the reactor.

| Component | State | Operations | Talks to | What is hard | What makes it correct |
| --- | --- | --- | --- | --- | --- |
| `EventLoop` (net/Eventloop) | `m_pendingFuncs`, `m_callingPendingFuncs`, `m_quit`, active channels, eventfd | `loop`, `queueInLoop`, `runInLoop`, `quit`, `wakeup` | every thread | pushes race with an unlocked emptiness test and with sleep; functors that queue functors | no functor slept over; each runs once, in order; `quit` ends the loop |
| `EventLoopThread`, `Thread`, `CountDownLatch` | `m_loop`, the latch, the thread's place | `start`, `startLoop`, the thread's function, destructors | loop, pool | the loop lives on its thread's stack; two handshakes at the start, a join at the end; `quit` before `loop()` | no pointer outlives its loop; start returns; the destructor ends |
| `EventLoopThreadPool` | loops, `m_next`, a count table by loop and one ordered by count | `start`, `getNextLoop`, `getNextLoopMinConnection`, `removeLoopConnection` | server, loop threads | two tables that must agree | agreement; least loaded; even turns |
| `Poller`, `Channel` | map fd to `Channel*`, a mask and an index per channel | `updateChannel`, `removeChannel`, `handleEvent` | loop, connection | raw pointers; a mask changed after it was meant to be final | only channels of live connections registered; empty mask at removal |
| `TcpConnection`, `TcpServer` | `m_state`, output buffer, timer id; `m_connections` | accept, read, write, close, `send`, `shutdown`, `forceClose`, idle timer | loops, pool, timers, application | several ways to close, spread over functors of two loops; `m_state` read and written without a lock; partial writes; lifetime by `shared_ptr` | data once and in order; FIN after data; closed once; callbacks paired; freed |
| `Acceptor`, `Socket` | listening fd | `listen`, `handleRead` | base loop | errors throw on the loop's thread | - |
| `TimerManager` (net/Timer) | `m_timers`, `m_table`, timerfd, the expired batch | `addTimer`, `cancel`, `handleRead` | loop, connection | the timerfd must follow the head of the set; changes between report and handler; unit conversion | tables agree; timerfd set for the earliest; order; cancelled stays out; each runs |
| `Buffer` | a vector and two indexes | `append`, `retrieve*`, `readOnece`, `readAll`, `makeSpace` | connection | bytes moved over freed space; one read into two pieces; signed against unsigned | contents are those of a queue; nothing outside the vector |
| `HttpServer`, `HttpRequest`, `HttpResponse` | a parser per message callback | `parse`, `onMessage`, `dump` | connection | requests cut by TCP; members without an initial value; who ends the connection | a request means what its client meant, as far as it was read; clients can tell where responses end |
| `ThreadPool` | task deque, bound, `m_running`, two condition variables | `start`, `addTask`, `getTask`, `stop` | worker threads | one signal per event, many waiters; stop with everybody asleep | no lost signal; bound; taken once and in order, begun once; stop returns |
| `AsyncLogging` | four circulating buffers, full ones, `m_running` | `append`, `start`, `stop`, `threadFunc` | log writers | buffers moved between threads; signal outside the wait | no line lost, doubled or reordered; the writer never lacks a buffer |
| `Log`, `Address`, `Utils`, `Singleton` | formatters, wrappers | - | - | - | - |

## Modules

Four modules are abstract promises, each refined by the detailed ones:

- `FunctorQueue`: a queue of functors, each handed over once and run at most
  once, first in first out (or at once, for `runInLoop` on the loop's own thread).
  `EventLoop` implements it.
- `TaskQueue`: tasks are *taken* first in first out, each by one worker, which
  begins it once before it takes another. Nothing is promised of the order in which
  different workers begin what they hold. `ThreadPool` implements it.
- `ConnectionLife`: what the application sees of a connection. The connection
  callback comes first, messages one at a time, the second connection callback
  after them; freed only after that unless the application asked for the
  close; a FIN only if it asked. `TcpServer` implements it.
- `ByteQueue`: a queue of bytes. `Buffer` implements it.

`EventLoop` is one loop with the threads that post to it, one action per
step that another thread may come between: the push (under `m_mutex`) and the
wakeup are two actions of a posting thread; `loop()` is split at the while test,
the poll, each handler, the unlocked test of `m_pendingFuncs`, the swap, and each
functor. The unlocked `empty()` is a data race in C++; its outcome is
nondeterministic as far as it can be: the loop may miss a push whose thread has
not come to its wakeup yet (`MaySeeEmpty`). `OutsideFuncs` are functors the
loop's own thread queues before or after `loop()`.

`EventLoopThreadPool` is the pool's arithmetic: both tables and both ways of
choosing. `given` and `handed` record what was handed out, so that the tables
can be compared with it. A call is one step, since the pool is used on the base
loop only. `EventLoopThread` extends it with the threads: a place per thread
(latch, constructor, `m_loop` published, `loop()`, withdrawn, ended), one for the
base thread in `start()` and the destructors, and the three ways they wait for
each other. `Thread::start` may fail, and `EnterLoop` resets `m_quit` as
`loop()` does.

`TcpServer` composes the base loop, the I/O loops, their connections and
channels, the pool's tables (with `EventLoopThreadPool` instantiated on them as
`Pool`), the sockets, the peers and the application. Per loop there are a place
(`at`), the channels still to handle (`active`, `revents`), the functors pending
and in the batch. What a loop does between two calls of application code is one
step; a functor queued on another loop, a callback and everything another
thread does come in between. Application threads test `m_state`, set it and
queue in three steps, because the code does so without a lock. `Kept` says
which `shared_ptr`s the server has (map, queued functors, the batch, which
`doPendingFunctors` keeps until its end); a connection with none, and none of
the application's (`refs`), is gone. A failed assertion or an uncaught
exception sets `failed` and ends the process.

`TimerManager` is the timers of one loop. The clock counts units of which
`Second` make a second; `ResetTimerfd` reproduces the conversion of the code
(milliseconds beyond whole seconds reach the kernel as microseconds). Timers
come from callbacks and functors on the loop's thread, which take effect at once,
and from other threads, which make the timer (its id and time) and queue its
insertion in two steps. `HandleRead` is one step up to the callbacks; each
callback may add and cancel. `HandleReadEmpty` is the dereference of the end of
an empty set, which has no defined outcome and ends the behaviour.

`Buffer` is the vector (`mem`, a function from its indexes), its size and the
two indexes, with every member that changes them; a call is a step, as a buffer
belongs to one loop. Every `assert` of Buffer.h is part of `ok`. `readOnece`
scatters into the vector and the array on the stack and appends the second part,
and `readAll` repeats it until the kernel has nothing. `peak`, the most that ever
had to fit, is there to bound the vector's size.

`HttpRequest` is the parser, a recursive function over *symbols*: a separator, or
a run of characters it treats alike (a method is two symbols, so that it can be
cut in two). Members that no constructor initialises start `Unset`. `HttpServer`
is one connection: a client writes requests, TCP cuts their bytes anywhere,
`onMessage` gives each piece to a new parser, the application answers and may
overrule the server's wish to close. `WellFormed` says which requests a client may
write for the parser to understand them; TLC evaluates it on each request of the run,
and the theorems suppose it of all.

`ThreadPool` has one step per critical section and a place per wait; a signal
moves one waiting thread, chosen arbitrarily, back to its test, and waits may
end spuriously. A worker takes a task in `getTask`'s critical section (`Take`) and
begins it in a step of its own (`Begin`), since `run` calls it after the lock is
given up: a task taken later by another worker may begin first. `Init` lets `m_max_waits` be anything in `Garbage`, because the
constructor initialises it with itself.

`AsyncLogging` has the four buffers as values that move as the `unique_ptr`s
do. `NoBuffer` is a moved-from pointer. Lines are values, a buffer takes
`Capacity` of them, and `LongLines` fit into none.

`MCEventLoop`, `MCTcpServer`, `MCHttpServer`, `MCThreadPool` and
`MCAsyncLogging` give the sets for TLC; `EventLoopThread`, `TimerManager` and
`Buffer` are checked directly. The modules named `...Proofs` hold the theorems of
the module they are named after.

Operators with a `_Suffix` are deliberately wrong forms of the operator they are
named after, one per property, and each makes TLC report that property: they
show that the property says something about the code.

## Runs and what they show

| Run | Question |
| --- | --- |
| `loop` | Can any interleaving of pushes, wakeups, polls and batches leave the loop asleep over a functor, abort it in `handleRead`, run a functor twice or out of order? Do functors run without leaning on the 10 s timeout, and does `quit()` end the loop with it? |
| `pool` | With each loop on its own thread: can a pointer outlive its loop, or a thread its `EventLoopThread`; do the two tables agree after any history, is the chosen loop a least loaded one, does `start()` come back, and the destructor with a loop that is in `loop()`? |
| `server_http` | Used as `HttpServer` uses it (send and shutdown from callbacks, no delay), does every connection live as `ConnectionLife` promises; can an assertion fail or a channel outlive its connection? Does the server call the pool as the pool requires? |
| `server_calls` | With every call from another thread too, a delay or none, and partial writes: is the stream whole, in order and before the FIN; does a shutdown end in the FIN; does the server let go of connections whose peer closes or keeps silent? |
| `timer` | Do tables and timerfd follow each other, do timers run in order and at most once, is a cancelled timer out for good, and does every timer run? |
| `buffer` | Does the buffer stay a byte queue through growing, moving and reading in two pieces; do the assertions hold and the indexes stay inside the vector? |
| `http` | For every way TCP may cut two requests: is a request read whole understood; is one that was cut behind its first line or its head, or has another behind it, understood that far; can the client tell where each response ends? |
| `threadpool` | Is a signal ever lost, the bound exceeded, a task taken twice or out of order, or begun by another worker than took it, or twice; does `stop()` return? |
| `asynclogging` | Is a line lost, doubled or reordered; can the writer run out of buffers; does every line reach the stream, a full buffer without waiting for the flush interval; does `stop()` return? |
| `server_double_close`, `timer_early`, `loopthread_quit_lost` | Each refutes one statement of the repository: see [Disagreements found](#disagreements-found). |

All but the last three pass. Deadlock is checked where the system never stops
(`loop`, `buffer`). The other configurations turn it off because their systems do
stop: a server's clients have all come and gone or the process has failed, the
loop threads, the task pool and the log writer are stopped, the timers' process
has run into undefined behaviour, the client has sent all its requests.

## Bounds

- `loop`: two posting threads, three functors (one of them queued outside
  `loop()`), one I/O channel. Two threads are needed for one push to be covered
  by another's wakeup; three functors for one to be in the batch, one pending and
  one on its way. Each functor is handed over once, which bounds the run.
- `pool`: three loops, so that one may be starting, one looping and one not yet
  made; three connections each and two round-robin calls. Evenness of the turns is
  proved for all numbers and not checked here.
- `server_http`: two I/O loops and two connections, so that connections meet on
  one loop or not; `MsgLen = 2` over `SndBuf = 1` makes every write partial at
  first. One message per connection; one of the two may be reset (`Resetters`), at any
  time. That both are is left out for the size of the run: a reset ends the process or,
  where `readv` says end of file, closes its own connection.
- `server_calls`: one I/O loop and one connection, since no two connections share
  state but the pool's tables; one message from callbacks and one call from a thread
  (`MaxSends`, `MaxCalls`), so that two messages may be in one buffer, or a
  message and a shutdown, or a message and a forced close.
- `timer`: three timers (two in one batch and one waiting), set now or one
  second ahead, over a second of half-second units, one functor posted at a time
  besides the additions.
- `buffer`: two byte values; a vector that starts with one prepended byte and two
  free ones, a stack array of two, calls of up to four bytes, up to five readable:
  a read fits the vector, spills into the array or fills both, and an append fits,
  moves the bytes or grows the vector.
- `http`: nine requests (both methods, three versions, with and without
  parameters, headers and a body, a repeated and an empty value), two sent, three
  reads: a request cut in two and followed by another, or two in one read.
- `threadpool`: two workers, two other threads, four tasks of which one adds tasks
  itself, a queue of one or without bound.
- `asynclogging`: five lines, one of them too long, buffers of one line: the
  writer can fall four buffers behind, one more than it has ever to give back.

## Fairness

- A loop, a worker, the writing thread, the base thread or a starting thread that
  can take a step takes one in the end (weak fairness of the thread's steps):
  threads are scheduled, a mutex is got in the end, and callbacks and tasks return.
- A thread that has pushed a functor comes to its wakeup; an application thread
  that is inside a call finishes it. No thread has to *begin* a call.
- Time is not assumed in `loop`: only `TimeoutSuffices` leans on epoll's timeout
  and says so in its premise `TimeoutExpires`. In the same way the second half of
  `LinesReachStream` and `StopReturns` of `AsyncLogging` name `FlushIntervalPasses`.
- `EventLoopThread`: `LeaveLoop` is a fair step of a loop's thread, since `wait()`
  comes back after `kPollTimeMs` at the latest.
- `TcpServer`: `SF(TimerFires)`, since a timer that is armed expires however often
  the loop turns in the meantime; the peer takes data that has arrived.
- `TimerManager`: the clock advances, the kernel delivers an expiration.
- `QueuedRuns` of `ThreadPool` supposes that the workers are not for ever all
  inside `addTask`: tasks that add to a full queue can block everybody.

## Proofs

`tlapm` proves, for every value of the constants:

- `EventLoopProofs`: `TypeCorrect`, `NeverSleepsOverWork` (`NoLostWakeup`),
  `NeverAborts` (`NoWakeupAbort`), `Refinement` (`ImplementsFunctorQueue`).
- `EventLoopThreadProofs`: of the pool alone, `TypeCorrect`, `TablesAgree`,
  `ChosenIsLeastLoaded` and `TurnsEven` (no loop is handed out two times more than
  another); of the pool with its threads, `ThreadsImplementPool` (`ThreadsSpec => Spec`), by which
  the pool's theorems carry over to the pool with threads: `ThreadsTypeCorrect`,
  `TablesAgreeWithThreads`, `LeastLoadedWithThreads`; and `LoopsOutlivePointers`
  (`PointersLive`).
- `BufferProofs`: `BoundsHold`, `NeverFails`, `IsByteQueue` (`ImplementsByteQueue`).
- `ThreadPoolProofs`: `BoundHolds`, `NoSignalLost` (`SignalsArrive`),
  `IsTaskQueue` (`ImplementsTaskQueue`).
- `AsyncLoggingProofs`: `TypeCorrect`, `BuffersSuffice` (`NoFailure`), `LinesKept`
  (`LinesConserved`).
- `TimerManagerProofs`: `TypeCorrect`, `ClockIsSet` (`ClockFollowsTimers`),
  `CancelledStaysOut` (`CancelIsFinal`), `RunInOrder` (`RunsInOrder`).
- `TcpServerProofs`: `TypeCorrect`, `PeersGetStreams` (`StreamInOrder`),
  `ServerDoesNotFail` (`NoFailure`), `ServerUsesPool` (`ImplementsPool`), and from it,
  with the pool's theorems, `ServerTablesAgree`: the asserts of `update()` hold in the
  server. Under a hypothesis on the calls (see below), `RegisteredChannelsLive`
  (`RegisteredAlive`) and `ServerKeepsConnectionLife` (`ImplementsConnectionLife`).
- `HttpServerProofs`: `Understands` (`AlignedUnderstood`), `UnderstandsHead`
  (`HeadUnderstood`), `ResponsesEnd` (`ResponsesDelimited`).

The assumptions are the named ones of the modules, as weak as the code allows:
sizes, delays and bounds are naturals, sets of threads are finite where they are
counted, and `NoFunc`, `NoTask`, `NoBuffer`, `Off` and the wakeup channel are
distinct from the values they stand beside. `HttpAssumption` says besides that the
requests are well formed. The bounds (`MaxTimers`, `MaxReadable`
and so on) are constants too, so that the theorems hold for every bound.

*EventLoop.* `NoLostWakeup` speaks of the poll only and is not inductive. The
invariant `LoopInv` says what is true everywhere: a queued functor is covered by
the eventfd, by the thread that pushed it, or by the place of the loop, which has
yet to come to its swap (`CoverInv`). `CheckEmpty`, which may leave without a
swap, is the critical step: it may overlook only pushes whose threads are still on
their way to the wakeup. For a functor that queues a functor one needs that
`m_callingPendingFuncs` is set exactly while the batch runs (`FlagInv`). For the
abort one needs that a report of the wakeup channel that is yet to be handled is
still true (`ReportInv`): only the loop reads the eventfd. The refinement maps
`queue` to `funcs \o m_pendingFuncs`; the swap is a stutter because the batch is
empty before (`BatchInv`).

*EventLoopThreadPool.* `CountsAgree` is inductive together with the types, `BaseInv`
(with I/O loops the base loop gets no connection) and `BeforeStart`. That the first
pair of the ordered set is a least loaded loop then follows, because the set holds
exactly one pair for each loop. Evenness follows from `TurnInv`: in a turn the
loops before `m_next` have been chosen once more than the others.

*EventLoopThread.* The invariant `TInv` relates each thread's place to its loop
(`PlaceOK`) and the base thread's place to all the others (`Progress`): while it
starts the threads, those before `with` run a loop that nobody has quit and those
after it do not exist; while it ends them, those before are over and those after
still run. A loop can only leave `loop()` when it was quit, and it is quit only
behind the pool's life, so that a pointer handed out stays good.

*Buffer.* `IInv` says that the object is sound (`kCheapPrepend <= m_pRead <=
m_pWrite <= size`), that every `assert` held, and that the vector is no larger than
it began or than twice the most that had to fit (`SizeBounded`). One lemma for each
member says what it does to the readable bytes; the refinement puts them together.
The subtle one is `ReadvAppends`: whether the bytes fit the vector or go to the
array first, they end up behind what was there.

*ThreadPool.* `SignalsArrive` is about sleepers; the inductive form `PoolInv` counts.
While a worker sleeps, there are no more tasks than workers awake to take them
(`TasksAreNoticed`), and while a thread waits for room, no more free places than
threads awake to fill them (`RoomInv`); `m_running` and the places of the threads
(`PlacesInv`) settle the rest. The steps use lemmas on how the number of threads at
a place changes when one thread moves, or two. The refinement adds `FreshInv`: no two
threads add one task, and one that is added is not queued, held or begun.
The abstract `hands` are what the workers hold between `Take` and `Begin` (`InHand`).

*AsyncLogging.* A spare that is missing was used up by a full buffer (`SpareInv`), and
what the writer gives away in a swap comes back among the buffers it swaps out
(`GivenInv`): so it has two whenever it is done writing (`AtRest`). That no line is lost
(`LinesInv`) needs of the rest only that a spare buffer is empty (`SpareEmpty`). The
lines of the buffers are a `FlattenSeq`, which the library defines by recursion;
`FlattenSeq(s \o t)` and `FlattenSeq` of one more buffer come from a least
counterexample, since induction on an operator is out of reach. `append`, the swap and
each write then move lines between `m_os`, the buffers and the front one without changing
what they are together.

*TimerManager.* That any set of timers can be sorted, and in one way only, is proved
first (`SortedExists`, `SortedIsOnto`), so that the batch is what `InOrder` says it
is. `TimerInv` then follows each timer from its making to its end: it is still to be
queued, queued once, in the tables, in the batch, run, or cancelled, and in one of
these only (`FreshInv`, `OnceInv`), which is why no timer comes back after its cancel.
`OrderInv` holds the batch before all that waits; it survives additions because
callbacks run only when what is left of the batch is due, and a new timer is not
before now and has the highest id. For the clock, every change of the head of
`m_timers` is followed by a new setting, and a timer behind the head needs none.

*TcpServer.* What was written and what is in `m_outputBuffer` is the stream sent
(`BytesInOrder`): a message that is written directly finds the buffer empty, any other
goes behind it. That the FIN comes after the data needs `Flushed`: a connection that
reads and does not wait for the socket has written everything, since
`shutdownInLoop` looks at the mask only. `Flushed` would break if a connection were
established with data in its buffer, so that the invariant has to know that nothing is
sent before `connectEstablished` and that this runs once: of all the functors of
all loops one at most is the connection's `connectEstablished`, and none is its
`sendInLoop` before (`QueuesOK`, `UpBeforeUse`, `SendsUp`). The lemmas on the queues
say what pushing, popping and swapping do to that, whatever the loop. For the pool,
`MapInv` is enough: a connection is counted down only when it leaves `m_connections`,
and numbers are not given twice.

Four further theorems rest on `FlowInv`, which says where each functor of a connection
may be queued and from when on (`PlacedInv`), that a loop handles only channels that
are registered and its own (`LoopOK`), that a connection has nothing before it is
established (`Fresh`), and that a thread calls only what it has a reference to
(`CallOK`). `TypeOK` counts the callbacks of a connection, so that it needs all of
this: it says that each of the two runs at most once.

- `RegisteredAlive` (`RegInv`): a registered channel is in `m_connections`, or the
  functor that removes it is queued (`Leaving`). The hypothesis is that no other thread
  sends: a `sendInLoop` that runs behind `connectDestroyed` registers the channel of a
  destroyed connection again, and the property is then false.
- `NoFailure` (`CalmInv`): while nobody resets, delays or calls, only the peer's FIN
  closes a connection, so that a registered channel can still be closed, and of
  `removeConnectionInLoop` and `connectDestroyed` one at most is queued, and once.
  `NoFailure` names these exceptions itself, and the theorem has no hypothesis.
- `ImplementsConnectionLife` (`LifeInv`): an established connection is in the map, on
  its way to `connectDestroyed`, closed, or asked to close; it reads only while the
  server holds it, and `m_state` says whether it was asked. The refinement reads life,
  callback and requests off the server's state, and each handler is one step of
  `ConnectionLife` for its connection and none for the others. The hypothesis is that
  there is no delay and other threads only send. With a delay or with threads that
  close, `m_state` becomes `kDisconnecting` outside any callback, and the idle timer can
  close a connection a second time (`server_double_close`).

*HttpServer.* Every response but the last has a length, and what the last says agrees
with `m_state` (`RepliesInv`). `AlignedUnderstood` and `HeadUnderstood` need that what is
unread is what the requests that are still asked say, one after the other (`AskInv`,
`Says`), and that `parse` understands a well-formed request that is the whole message
(`RequestRead`), and of one that the message only begins with the line and the head, if
they are there (`PieceRead`). These are proved along the text: `At` says that a text stands at a place of the message, `Stands` what the
parser is behind so many symbols, and `Knows` what it has read by then. There is a lemma for
each part (method, path, a parameter, version, a header, the end of the headers, the
body), and parameters and headers are read one after the other by induction on their
number, with `AsMap` of a longer list from that of a shorter (`MapMore`): of a key that
is repeated the parser keeps the first value. What the parser has read must then last for
the rest of the piece, whatever that holds: once it is behind the first line, no round sets
the method, the version, the path or a parameter again (`KnowsLine`, `RoundKeepsLine`), and
once it is behind the blank line none sets a header (`KnowsHead`, `RoundKeepsHead`), since no
round goes back to a state that does.

Only model-checked: all liveness properties, which are out of the prover's reach. They
are `QueuedRunsPromptly` and `TimeoutSuffices` of `EventLoop`, `StartsAndEnds`, `LetGo`
and `ShutdownCompletes` of `TcpServer`, `EveryTimerRuns`, `QueuedRuns` and `StopReturns`
of `ThreadPool`, and `LinesReachStream` and `StopReturns` of `AsyncLogging`. Every safety
property that a passing run checks is proved, two of them under the hypotheses above.

## Disagreements found

- `server_double_close`: `handleClose` leaves `m_state` and the idle timer as they
  are, so a timer that fires before `connectDestroyed` has run closes the
  connection again and `assert(n == 1)` in `removeConnectionInLoop` fails.
- `timer_early`: an interval loses what is beyond its whole seconds, and
  `fillExpired` takes the first timer even if it is not due, so that a callback
  runs up to a second early.
- `loopthread_quit_lost`: `~EventLoopThread` calls `quit()` as soon as `m_loop` is
  set, but `loop()` begins with `m_quit = false`: a destructor that comes in between
  joins a thread that never ends.

Seen in the models and not stated as runs:

- a `send()` of another thread that passes the test of `m_state` and runs behind the
  close enables writing again on a channel that `connectDestroyed` removes:
  `assert(isNoneEvent())` fails, or the poller keeps a channel that was freed (`NoFailure`
  and the theorem about `RegisteredAlive` are stated without such calls, and
  `server_http` has none);
- with a delay a connection is `kDisconnecting` from `connectEstablished` on, and
  `send()` drops everything;
- the constructor of `ThreadPool` initialises `m_max_waits` with itself and ignores
  its argument: what bound the pool has, or none, depends on the memory (`Garbage`);
- a `pthread_create` that fails leaves `startLoop` waiting for a loop that never
  comes (`StartsAndEnds` excepts it);
- a request that arrives in two reads is answered twice and two that arrive in one
  are answered once, since each message callback makes a new parser
  (`AlignedUnderstood` is stated for reads that are one whole request, `HeadUnderstood`
  for any that begin with one);
- a request that is cut before the end of its version is answered too, and
  HttpServer.cc:46 decides whether that closes the connection on an `m_version` nobody
  wrote (`OnMessage` lets it be anything; `HeadUnderstood` speaks of the reads that have
  the whole first line). No document says that such a read is not answered;
- a `Content-Length` that is not a number makes `stoi` throw (the models' clients send
  none);
- an application that calls `setCloseConnection` on its response is overruled by
  `onMessage`, which looks at the request only (`ResponsesDelimited` excepts it);
- a functor queued on the loop's own thread before `loop()` waits for epoll's timeout,
  since nothing wakes the loop (`TimeoutSuffices`);
- a reset by the peer makes `Readv` throw and ends the process (`NoFailure` excepts it),
  unless the data that came before it is read first or an earlier `write` took the error
  and `readv` says end of file (`ClosedByPeer`, which allows that of any connection with
  data left to write, whether that `write` was tried or not);
- cancelling the last timer in a callback that precedes the timerfd's handler leads to
  `*m_timers.end()` (`HandleReadEmpty`); a cancel of a timer whose insertion is still
  queued is lost;
- tasks that add tasks to a full pool can block all its workers (premise of
  `QueuedRuns`).

## What is not modelled

- The reuse of file descriptors: `RegisteredAlive` shows that no stale channel is
  left in the poller's map, which is what reuse would need.
- Errors of `accept`, `bind`, `epoll_ctl` and `timerfd_settime`, and steps of the
  wall clock (`GetCurrentTimeMS` is not monotonic, the timerfd is).
- Repeating timers: no code calls `Timer::restart`, and `EventLoop` offers no
  interval.
- The contents of messages in `TcpServer`, which counts pieces of them; `Buffer` and
  `HttpServer` look at contents, each by itself.
- Running out of memory and the overflow of indexes in `Buffer`: sizes are naturals.
- The setters and status texts of `HttpResponse`, which are the application's.
- `Semaphore`, which has no user; `Poller` and `Channel` apart from the mask, index and
  registration of the channels above.
- `Log`: formatting, levels and appenders. It has a mutex around its appender and no
  state that other components depend on; only the text of the log hangs on it.
- `Address`, `Utils`, `Singleton`: conversions and wrappers.
- The server's own destruction, with connections still open: no program of the
  repository quits a loop that a server runs on.

## What could follow

1. `ImplementsConnectionLife` under a weaker hypothesis: threads that call `shutdown`, with
   the requests of the abstract module made outside callbacks.
2. `StreamInOrder` composed with `Buffer`: the messages of `out` as the bytes of one.
3. `TcpServer` with the life of `EventLoopThread` beneath it: a server destroyed while
   its loops run.
