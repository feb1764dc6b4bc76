# LightAgent Gateway: TLA+ models, checks and proofs

LightAgent Gateway is a C++ HTTP server: edge-triggered epoll, one event loop
per thread, non-blocking sockets, timers, an asynchronous logger, and a small
HTTP/1 application on top. This directory models its concurrent core in TLA+,
checks the models with TLC and proves the main invariants with TLAPS. All paths
below are relative to the repository.

## 1. Inventory

| Component | State it keeps | Operations | What makes it correct |
|---|---|---|---|
| `EventLoop` (EventLoop.cpp) | `pendingFunctors_` under `mutex_`, `callingPendingFunctors_`, `quit_`, the eventfd `wakeupFd_` | `loop`, `queueInLoop`, `runInLoop`, `quit`, `wakeup`, `handleRead`, `doPendingFunctors` | it never sleeps on work; callbacks run once, in order; `quit()` ends it |
| `Epoll` (Epoll.cpp) | the epoll set, `fd2chan_`, `fd2http_`, the timers | `epoll_add/mod/del`, `poll`, `getEventsRequest`, `handleExpired` | no readiness is lost; the tables never mix up two users of a descriptor |
| `Channel` (Channel.h) | `events_`, `revents_`, `lastEvents_`, a weak holder | `handleEvents`, `EqualAndUpdateLastEvents` | handlers run in the right order and only on live objects |
| `HttpData` (HttpData.cpp) | `inBuffer_`, `outBuffer_`, `state_`, `connectionState_`, `error_`, `nowReadPos_`, keep-alive | `newEvent`, `handleRead`, `handleWrite`, `handleConn`, `handleError`, `handleClose` | each request is answered once and in order, responses reach the peer whole, a connection ends |
| HTTP parser (HttpData.cpp) | `state_`, `hState_`, positions in `inBuffer_` | `parseURI`, `parseHeaders`, body length | the result does not depend on how the text is cut into segments |
| `Timer` (Timer.cpp) | a priority queue of `TimerNode`s, times modulo 10000 s | `addTimer`, `clearReq`, `handleExpiredEvent`, `~TimerNode` | an expired timer closes its own connection and no other |
| `Server` (Server.cpp) | the listening socket | `start`, `handNewConn`, `handThisConn` | every accepted connection reaches a loop, and none waits in the backlog unnoticed |
| `EventLoopThread`, `EventLoopThreadPool` | `loop_`, a mutex and a condition; the round-robin index | `startLoop`, `threadFunc`, destruction | the loop exists when `startLoop` returns; destruction returns |
| `AsyncLogging` (base/) | `currentBuffer_`, `nextBuffer_`, `buffers_` under `mutex_`; two spare buffers and a batch of the logger thread; `running_` | `append`, `start`, `stop`, `threadFunc` | lines are written in order and once; buffers are not shared; `stop` returns |
| `LogFile`, `FileUtil` (base/) | a stdio stream and a counter | `append`, `flush` | what is handed over gets to the file |
| `Logging`, `LogStream` (base/) | one line being formatted, a `pthread_once` | `once_init`, `output` | the logger is started before the first line |
| `Thread`, `CountDownLatch`, `Condition`, `MutexLock` (base/) | pthread objects | the usual | as used above |
| `LightAgentGateway` | two atomic counters | `handle`, `health`, `metrics`, `chat` | routes answer as documented; counters agree |
| `ThreadPool` | a ring of tasks under a mutex and a condition; `shutdown`, `started` (the server does not use it) | `create`, `add`, `destroy`, `free`, the workers | tasks run once, in order; nobody sleeps through one; a graceful shutdown loses none and returns |
| `Util`, `Main`, MIME types, tests, build files | - | - | - |

### How they interact

The main loop owns the listening socket. `handNewConn` accepts until EAGAIN,
builds an `HttpData` per connection and hands `HttpData::newEvent` to one of the
loops with `queueInLoop` (shared queue, mutex, then a write to that loop's
eventfd). From then on only that loop's thread touches the connection: `poll`
returns Channels, `handleEvents` calls `handleRead`, `handleWrite` and always
`handleConn`, which links a new timer and re-arms the one-shot descriptor, or
closes. After the Channels come the queued callbacks, then the expired timers,
whose nodes hold the connection and close it in their destructor. Every part may
log a line, which goes into the logger's shared buffers; the logger thread swaps
them out and writes them.

### What is hard

* the eventfd handshake: a store under a lock, a write after it, a read of the
  counter before the queue is taken;
* edge triggering and one-shot registration: an event not consumed at the right
  moment never comes again;
* pipelined requests, partial writes, a peer that half closes or resets between
  any two system calls;
* descriptor numbers that the kernel reuses for a connection of another loop
  while tables, timers and a batch of raw Channel pointers may still name the
  old one;
* the logger's buffers, reused without a lock; a stop whose notify is lost;
* start and stop of the loops' threads; a clock that wraps around.

PROJECT.json lists every such point under `hazards`, at its line, with the
properties that cover it or the reason why none does.

## 2. Modules

| Module | Models | Run |
|---|---|---|
| `TaskQueue` | a FIFO of callbacks, each run once: what an EventLoop promises, and the thread pool | (refined by `EventLoop` and `ThreadPool`) |
| `EventLoop` | one loop, the threads that hand it callbacks or quit it, and the eventfd | `event_loop` |
| `EventLoopProofs` | proofs about `EventLoop` | |
| `HttpConnection`, `MCHttpConnection` | one connection: HttpData, Channel, its epoll registration, the kernel's socket, the peer | `http_connection`, `http_half_closed`, `http_hello` |
| `HttpConnectionProofs` | proofs about `HttpConnection` | |
| `HttpParser`, `MCHttpParser` | the text of the requests of a connection, read in pieces, and the gateway's routes | `http_parser` |
| `HttpParserProofs` | proofs about `HttpParser` | |
| `ConnTable`, `MCConnTable` | the acceptor, several loops, their tables, timers, batches, and who keeps an HttpData alive | `conn_table` |
| `ConnTableProofs` | proofs about `ConnTable` | |
| `Deadlines` | what the timers of a loop promise: only what is due is closed | (refined by `Timer`) |
| `Timer`, `MCTimer` | the queue of TimerNodes of one loop under a clock that starts again | `timer`, `timer_wrap` |
| `TimerProofs` | proofs about `Timer` | |
| `Server` | the start of the loops' threads, the acceptor with its backlog and descriptors, the end of the threads | `server` |
| `ServerProofs` | proofs about `Server` | |
| `ThreadPool` | the ring of tasks, its workers, and clients that add tasks and shut it down | `thread_pool` |
| `ThreadPoolProofs` | proofs about `ThreadPool` | |
| `LogPipe` | what the logger promises: a pipe that may lose the middle of a long backlog | (refined by `AsyncLoggingPipe`) |
| `AsyncLogging` | `append`, `start`, `stop` and `threadFunc` | `async_drop` |
| `AsyncLoggingPipe` | where a line is on its way to the file; the refinement of `LogPipe` | `async_logging` |
| `AsyncLoggingProofs` | proofs about `AsyncLogging` and `AsyncLoggingPipe` | |

Several models look at one connection, each from its own side. `Server` follows
it from the kernel's backlog to the loop it is handed to. `EventLoop` says how a
callback such as `newEvent` reaches the loop, and takes "a handler" as a step in
which client code may queue callbacks or quit. `ConnTable` takes a handler as one
of its four endings and follows lifetimes over several loops. `HttpConnection`
takes lifetimes as given and follows the bytes, with a request as a few whole
tokens and a timer that may expire at any time; `HttpParser` takes the requests
apart into words and separators, `Timer` says when a timer expires.

### EventLoop

`pc` is the place of the loop thread in `loop()`: `poll`, `dispatch` (the ready
Channels), `run` (`doPendingFunctors`), `test` (the while condition), with
`handler` and `functor` where client code runs. The critical sections of `mutex_`
are single steps. A thread's `queueInLoop` is two: the store, `QueueInLoop(t, f)`,
and the write, `Wakeup(t)`; `quit()` likewise. The eventfd has the number it holds
and its place on epoll's ready list, which is what edge triggering is about:
`Poll` takes it off the list, only a write puts it back. All other descriptors
are one source, `io`. `runInLoop` is either a plain call or `queueInLoop`;
`addToPoller` and its like belong to the connection's models.

### HttpConnection

The handlers are cut at their system calls, so that the peer and the kernel can
act between any two. A request is a line, headers and perhaps a body, each a
token that arrives whole, in any grouping; a response is `ResponseSize` chunks;
the socket takes `SendBuffer` of them. The kinds of request stand for the
branches of the code: `get` and `post` (answered), `hello` (the branch that
assigns `outBuffer_`), `missing` (404), `form` (a POST that is not an API call),
`nolength`, `badline`, `badheader`. `interest` and `ready` are the kernel's side
of a one-shot edge-triggered registration, `lastEvents` the server's copy that
decides whether `epoll_mod` makes its call. A timer is armed or not: `Expire` may
happen in any iteration of the loop.

### ConnTable

`live` are the HttpData objects that exist. `Held` says who has a `shared_ptr`:
the acceptor's local, a queued `newEvent`, `fd2http_`, a live TimerNode. Every
step that drops references ends with `Release`, which destroys what nobody holds
and frees its descriptor, for any later `Accept` of any loop. Failing
`EPOLL_CTL_ADD`/`MOD` calls drop the entry of `fd2chan_`, as the code does.

### HttpParser

The text of a request is a sequence of words and single separators, and a read
may end between any two of them, in the middle of the headers included. `Scan` is
the loop of `parseHeaders` byte by byte, with its locals and with `hState_`, which
is all that is left of it when the text ends too early. `ParseURI`, `RecvBody` and
`Analysis` are the other states of `handleRead`, with the routes of
`LightAgentGateway::handle`. What the sender meant (`AsSent`) is computed from the
request and not from its text. The limit of 255 bytes on a header's value is left
out, and so is the formatting of the answer: an answer is the path it is for, its
status, whether it has a content, keep-alive, and the body that reached the gateway.
`WellFormed` says what a peer may send: words that are no separators and no method's
name, headers with different names, and a content-length, if there is one, that is the
length of the body.

### Timer

`phase` is the place of the loop: `poll`, `dispatch` (handlers and callbacks),
`conn` (inside `handleConn`, which has detached the timer), `expire`. `clock` is
what the code computes from gettimeofday; `base` adds up the periods that are
over, so that `base + clock` is real time, which only the properties know. Time
passes between any two steps. The heap is the set of its nodes with `Top` a node
of least `expiredTime_`, since nothing changes a node's time while it is queued.
Three lengths of timers are used: 2000 ms, 300000 ms and half of that.

### Server

`main` is the main thread: `create`, `latch`, `cond` and `wait` are the steps of
starting one `EventLoopThread` (`cond` tests `loop_` under the mutex, `wait` is in the
condition variable until `Publish` notifies it or it returns for no reason),
`register` to `accept` are `Server::start` and the
accept loop, `destroy`, `wakeup`, `join` are `~EventLoopThread`. `thread` is where
each loop's thread is, from `pthread_create` to its end. `backlog`, `watched` and
`ready` are the kernel's side of the listening socket. `accept` returns the lowest
free descriptor, as POSIX has it, or fails when `limit` of them are used; numbers
from `MaxFds` on are refused. `fcntl` may fail, `pthread_create` may fail.
`woken` only rises: what a wakeup does to a loop is `EventLoop`'s business.

### ThreadPool

A critical section of the pool's mutex is one step. `locked` says that the mutex
was left locked by a thread that is gone: by a second `threadpool_destroy`, which
finds `shutdown` set and jumps over the unlock, and by `threadpool_free`, which
locks the mutex it is about to destroy. `worker` is `lock`, `wait` (in
`pthread_cond_wait`), `run` or `exited`; a wait may end for no reason. Any
non-empty set of workers may have been created.

### AsyncLogging

`append()` is one critical section and so one step, in the three forms the code
has. The logger thread is cut at its lock, its wait, and each write of a buffer.
Buffers have identities and contents, so that reusing one too early would show.
A line is its number in the order of the calls. All lines have one length, a
buffer takes `Capacity` of them. The logger's `running_` is read without a lock,
and `stop()` does not take the mutex, exactly as in the code.

## 3. Runs

| Run | Question | Bounds |
|---|---|---|
| `event_loop` | can the loop sleep on a callback or a quit; do callbacks run once, in order; does every one run, does quit end the loop, with no traffic at all | 2 threads, 3 callbacks, client code on the loop thread: enough for a store before, during and after a batch with the write of another thread in between |
| `http_connection` | answers in order and whole, no readiness lost, no input forgotten, no connection without a timer; is every whole request answered, is output written in the end | 3 requests of 7 kinds, responses of 2 chunks in a socket of 2: pipelining, full socket, two answers in `outBuffer_` |
| `http_half_closed` | (violated) is a half-closed connection closed | 1 request, a response larger than the socket |
| `http_hello` | (violated) does a queued response stay queued | 2 requests, a response larger than the socket |
| `conn_table` | dangling handlers, stale table entries and timers, forgotten connections | 3 connections, 2 descriptors, 2 loops: every reuse, by the same loop and the other one |
| `timer` | do timers only close what is due; is what is due gone after `handleExpiredEvent` | 2 connections, 4 nodes, timers of 1, 2 and 4 ticks, a clock of 5, 11 ticks: nodes marked as deleted beside live ones, timers across the wrap, two wraps |
| `timer_wrap` | (violated) does a deleted node leave the queue by its own time | as above, 3 nodes, 9 ticks |
| `server` | do connections go to loops that exist; is one left in the backlog unnoticed; is each served or refused; does destruction end | 2 threads, 3 connections, MAXFDS 3, limits of 2 and 4 descriptors: both threads' turns and the first again, a refused descriptor, a process without any |
| `thread_pool` | can workers sleep on work; order and loss of tasks; does `threadpool_destroy` return | 3 workers, 4 tasks in a ring of 2, 2 clients: two wraps, a full ring, a worker overtaken by another, a second shutdown |
| `http_parser` | are requests parsed as meant, and each answer to its own request, however they arrive; does the parser ever wait for what it has | every sequence of up to 2 of 8 requests, cut anywhere |
| `async_logging` | order, loss and delay of lines; sharing of buffers; assertions; stop | 9 lines, 2 per buffer, batches cut above 3: `nextBuffer_` used up, limit exceeded, both spares refilled |
| `async_drop` | (violated) are all appended lines written while the logger runs | 4 lines, 1 per buffer, batches cut above 2 |

`Capacity`, `DropAbove`, `ResponseSize` and `SendBuffer` stand for 4 MB, 25, and
sizes in bytes: what matters is which side of the limit one is on. `MaxLines`,
`MaxRequests`, `MaxTime`, `Buffers`, `Functors`, `Tasks` and `Conns` bound the length
of a behaviour.
The runs switch the deadlock check off because every model may legitimately stop:
the loop, the logger or the pool has quit, a connection is closed, the bounded input
is used up. In `Server` and `ThreadPool` waiting for ever is a real outcome: what must
not wait is said by their liveness properties.

Properties that are not self-evident:

* `NoLostWakeup`: a loop in `epoll_wait` with a queued callback, or told to quit,
  has its eventfd reported or a thread about to write to it. It rests on three
  decisions in three functions: the condition in `queueInLoop`, the drain before
  the swap, the wakeup in `quit()`.
* `ImplementsTaskQueue`: the batch being run followed by `pendingFunctors_` is the
  abstract queue. A callback queued by a callback waits for the next batch
  (`BatchOnlyShrinks`).
* `ResponsesIntact`: as long as nothing has failed, what the peer has, what is in
  flight and `outBuffer_` are together exactly the responses due; whatever happens,
  the peer gets a beginning of them. An error page is written past `outBuffer_` and so
  may take the place of what was still due there; there is at most one, and nothing
  follows it. Only peers that never ask for `/hello` are meant (see disagreement 2).
* `NoLostEdge`: a waiting connection watches something, for output alone while
  some is pending, and is on the ready list if the condition already holds.
* `OpenMeansTimed`: only the timer ends a connection whose peer was reset, because
  `handleEvents` returns before `handleConn` on EPOLLHUP or EPOLLERR.
* `NoDanglingHandler`, `TablesConsistent`, `TimersKnown`, `NothingForgotten`: the
  four sides of descriptor reuse.
* `ParsedAsSent`: up to the first request whose headers a read has cut, every answer
  is the one its request means, whatever else was cut, and none is refused but those
  that nothing answers. After it every answer is still to its own request (`AnswerTo`:
  path, status, content, as long a body), provided that the peer only sends what the
  parser understands; keep-alive and the words of the body may have been misread.
  `NeverWaitsInVain` makes no difference between cut and uncut requests.
* `ImplementsDeadlines`: through every wrap of the clock and whatever nodes are left
  in the queue, a connection is closed by a timer only when the whole timeout of its
  last arming has passed. `ExpiredAreGone` is the other direction, which holds only for
  nodes of the current period of the clock (see disagreement 4). It does not say that
  `handleExpired` is ever called: without traffic it is not.
* `LoopsExist` rests on the handshake alone: `latch_`, `mutex_` and `cond_` across two
  threads and three classes. `NothingStranded` is what an edge-triggered listening
  socket needs, and names the two failures after which it does not hold.
* `EveryConnectionServed`, `DestructionEnds`: liveness with its exceptions spelt out: a
  thread that could not be created makes `startLoop` wait for ever, and a `quit()`
  before `loop()` is forgotten by it. The first needs the start to end: each loop's
  thread notifies once, which `startLoop` must not miss, whether it waits already or not.
* `NoSleepOnWork`: one `pthread_cond_signal` per task, which a worker that was not
  asleep may overtake; still, while anybody sleeps, each task in the ring has a worker
  of its own on the way to the mutex. `GracefulRunsAll` relates the end of a shutdown to all that was
  ever accepted. `DestroyReturns` has the exception of the lock left behind.
* `ImplementsLogPipe`: lines get into the file in order and once, and only a
  backlog of more than `DropAbove` buffers loses any, never its oldest two.
* `NoLineWaits`, `StopFinishes`: a lost notify is made good by the timeout.

### Disagreements with the repository's own statements

1. `http_half_closed`: with output pending when the peer closes its side,
   `handleConn` (HttpData.cpp:336-338) sets `events_` but neither re-arms epoll nor
   keeps a timer; the comment at HttpData.cpp:205 wants the connection treated as
   closed. The connection stays for ever.
2. `http_hello`: `/hello` assigns `outBuffer_` (HttpData.cpp:630), which discards the
   rest of the response before it.
3. `async_drop`: a batch of more than 25 buffers loses all but two, silently,
   where base/Log的设计.txt:10 has them written.
4. `timer_wrap`: Timer.cpp:60-63 says that a node marked as deleted leaves the queue
   when it times out at the latest. One that was made shortly before the clock starts
   again has an `expiredTime_` of 10 000 000 or more, which the clock, always below that,
   never reaches: it is never over by its own time, and stays in the queue behind every
   node with a smaller one. (Nor does such a timer ever close the connection it is for.)

### What the parser makes of unusual text

Not disagreements with a document, but worth knowing; `HttpParser` shows each:

* headers cut by a read are scanned again with `hState_` where it was and the
  positions forgotten: the request is refused, or a header is stored under no key, or
  the last CR LF is left in front of the body. `torn` marks these in `ParsedAsSent`;
* a request without headers, or whose last header has no value, is not understood
  and waits for more (`Understood`);
* a header without a blank after the colon is refused;
* `GET /?x=1` asks for a file with an empty name, not for `index.html` (HttpData.cpp:388-392):
  404;
* `GET` anywhere in the request line is taken for the method before `POST` and `HEAD`;
* a `HEAD` for `/favicon.ico` or `/hello` gets the content too;
* `/api/chat/stream` and `/api/rag/query`, which README.md section 4 lists, are not
  among the gateway's routes: 404.

## 4. Fairness

* The loop thread and the logger thread are scheduled (weak fairness of their
  steps); a thread that has stored its callback reaches its write. That is what
  the operating system's scheduler gives. Handlers and callbacks are assumed to
  return.
* `Server`: the main thread and the loops' threads are scheduled, and a loop looks at
  `quit_` and at its callbacks after a wakeup (`event_loop` shows that it does).
  Connections need not arrive nor close, and `quit_` is only certain to be seen by a
  loop that has been woken (`WF` of `woken[i] /\ LeaveLoop(i)`).
* `ThreadPool`: workers and clients inside the pool are scheduled, a free mutex is
  got in the end, tasks return. Nobody has to add a task or shut the pool down.
* The network delivers what has been written (`PeerReceives`).
* The logger's waits end because they are timed (`waitForSeconds`), so `Swap` is
  enabled in a wait whether or not anybody notifies.
* Nobody has to queue, quit, send, close, log or stop. In particular `Expire` is
  never fair: an idle loop does not look at its timers, since `Epoll::poll` only
  returns with events (Epoll.cpp:82-89).

## 5. Proofs

All theorems hold for every value of the constants under the named assumptions of
the modules (`ConnectionAssumption`, `NoneAssumption`, `LoggingAssumption`,
`TimerAssumption`, `ServerAssumption`, `PoolAssumption`, `ParserAssumption`; `EventLoop` has
none). Every invariant, every action property and every refinement of the runs that pass
is proved.

* **EventLoopProofs.** `NoWakeupLost`: `NoLostWakeup` alone is not inductive, since it
  speaks of `poll` only. `IInv` adds `QueuedIsAnnounced`: from the swap round to
  `epoll_wait` a non-empty `pendingFunctors_` comes with a pending wakeup. It may be
  broken between `epoll_wait` and the swap, where the drain happens, which is why the
  drain must come first. `BatchShrinks` and `LoopIsTaskQueue` (the safety refinement)
  use `BatchOnlyInRun`: the batch is empty outside `doPendingFunctors`.
* **ConnTableProofs.** The four properties are proved from one invariant. `TableInv`
  adds that descriptors of live objects are distinct, that queued and timed
  connections are live, and that a timer's connection is in the table. `BatchInTable`
  and `BatchInHandle` say that a batch is in the table and that callbacks and timers
  find it empty: this is what makes raw Channel pointers safe. Handling one
  connection of a batch closes that one only (lemma `Closing`).
* **HttpConnectionProofs.** `IInv` has three groups of conjuncts.
  - *Input.* `Unread` is what is in `inBuffer_` and in the socket. `InStream` says that
    from the token at which the parser is (`Expected`, a function of `state_` and the
    request) to the one the peer will send next (`ToSend`) each token is followed by its
    successor (`After`), so that the parser never sees anything but the continuation of
    what it has. `OneByOne` ties the request being parsed to the number answered, which
    gives `AnsweredInOrder`; `UsedUp` says where `inBuffer_` is empty, which gives
    `NothingUnparsed`. They only hold while the parser still takes tokens (`Parsing`).
  - *epoll.* `NoLostEdge` speaks of a waiting connection. `Watching` is what the handlers
    between two waits keep true: `interest` agrees with `lastEvents_` unless the one-shot
    registration has fired, `OUT` alone is watched only on the way through the write
    handler, and an event that becomes true meanwhile puts the descriptor on the ready
    list. `OpenMeansTimed` needs nothing else.
  - *Output.* `Delivered` extends `ResponsesIntact` to what is in flight. Lemma
    `WritenMoves` says what `writen` does with a full socket and a reset one; the
    handlers' proofs rest on it alone.
* **AsyncLoggingProofs.** `AssertionsNeverFail` and `NoBufferShared` rest on
  `BatchByPhase` (where the logger thread has its spares, and that a batch from which
  both must be refilled has two buffers), on `ReserveEmpty`, and on `NextUsedUp`:
  `nextBuffer_` is only used up together with a buffer left in `buffers_`, so whenever
  `Swap` gives away both spares the batch has two. `LoggerIsPipe` is the refinement of
  `LogPipe`. It needs `PipeInv`: a buffer is only left behind when it is full, and the
  one after it then has a line, so that a batch of more than `DropAbove` buffers is a
  backlog of more than `DropAbove * Capacity` lines and its first two buffers are
  exactly the `Kept` lines. `Swap`, `Open` and `Recycle` are stutters: lemma
  `BacklogSame`, because the buffers they reset are shared with nothing that holds
  lines.
* **TimerProofs.** `TimersAreDeadlines` needs `TimersLinked`: a connection's node is
  queued, unmarked and holds it, and a node that holds a connection is that
  connection's (`Linked`, `HeldIsLinked`). Then what `handleExpiredEvent` pops is either
  marked and closes nothing, or is the node whose deadline the mapping shows, and
  `PastBase` (no node is of a later period than the clock's) turns "not valid" into
  "due". One lemma for each of `addTimer`, `clearReq` and `~TimerNode` serves both the
  invariant and the refinement.
* **ServerProofs.** `HandedToLoops` rests on `StartedInOrder` (threads before `idx` have a
  loop, threads after it do not exist), `PublishedExist` (`loop_` points at a loop) and
  `NobodyQuits`. `NoneStranded` is nearly inductive; it needs `Watching` during the accept
  loop and `BacklogWaits`, so that a leaked connection stays leaked. `TypeCorrect` needs
  that a non-empty set of numbers has a least element (`LeastElement`).
* **ThreadPoolProofs.** The arithmetic of the ring is in `AtValue`, `AtNext`, `AtDistinct`;
  `RingHolds` says that the `count` slots from `head` on hold tasks and `tail` follows
  them. `NobodySleeps` follows the workers on their way to the mutex (`ReadyMoves`): a task
  is only added together with a signal, and only one of them takes it. `PoolIsTaskQueue`
  maps the ring to the abstract queue. `GracefulLosesNone` needs `NoneLost` (an accepted task is in the ring, in hand or executed), `LeaveEmpty` (workers
  leave a graceful shutdown when the ring is empty, and nothing is added to it any
  more) and `FreedLast`; `TypeCorrect` needs `StartedCounts`, which counts the workers that
  have not left.

* **HttpParserProofs.** Both theorems speak of any number of requests from any menu of
  well-formed ones (`ParserAssumption`), with any cut into reads.
  - *The text.* `Before`, `HeadersAt` and `BodyAt` are the positions of a request, of its
    headers and of its body in the text of all (`TextOfSplit`, `Positions`), and the
    lemmas on layout say which token is where. `Scan`, a recursive function over the
    buffer, is one `HeaderStep` for each byte (`ScanFunction`).
  - *Common ground.* `Base` says that nothing is lost or read twice: `inBuffer_` and what
    has not been read are consecutive parts of the text sent (`InOrder`), so that `Taken`
    says where in it the parser is. It also says what holds between the stages
    (`Stages`), and that `torn` has every request that a read has cut (`Cuts`).
  - *`RequestsParsed`.* `ParsedAsSent` speaks of answers and refusals only. For requests
    whose headers no read has cut, `Exact` adds where the parser is in one and what it has stored of it (`Expected`): at
    the start of its line, at the LF before its headers, at its body, with exactly its
    headers. A scan finds all of the headers (`HeadersScanned`) or only the LF before
    them (`NothingScanned`), since no read has cut them. For all others `InTurn`, a part
    of the invariant of the next theorem, says that each answer is to its own request.
  - *`RequestsAnswered`.* A cut in the headers makes the next scan start over in the
    middle of a line, in a state that belongs elsewhere. `Between` lists where a scan may
    start in which state, `Place` where it may be in the middle, and `ScanLocated` says
    that it refuses, ends at the body or at the CR LF before it, or keeps something
    from the beginning of a line, and then it has not seen the last byte. So an
    answered request leaves at most two tokens in front of the next, which `parseURI`
    refuses or skips (`EndOfText`, `LocatedParseURI`): that is `Located`. What it skips
    changes neither the method nor the name it finds in the line (`LineParsed`). Names that
    were stored from a wrong position consist of no word or of several, hence the
    only content-length is the sender's (`LengthsOf`), and the body ends where it should.
    That each request is `Understood` is needed: without headers, or with a last header
    that has no value, the text of one ends in the middle of a scan.
* **Sequences.** `FlattenSeq` is a recursive function, and the library's induction theorems
  are out of the provers' reach. `InductionOverSet` is induction with a *set* of numbers
  instead of a predicate; it follows from `LeastElement`, and that from the library's
  well-founded order on finite sets. With it `FlattenAppend` and `FlattenConcat` say what
  `FlattenSeq` computes. These are lemmas, no results about the system. Each module of proofs that needs such lemmas begins with its own.

Only model-checked: all liveness (`EveryFunctorRuns`, `QuitStops`, `EveryRequestAnswered`,
`OutputDrains`, `EveryConnectionServed`, `DestructionEnds`, `DestroyReturns`, `NoLineWaits`,
`StopFinishes`), which is out of TLAPS's reach. `NeverWaitsInVain` is as near as an invariant
comes to liveness: that an answer is due now, not that one comes.

## 6. Not modelled

* Memory, file mapping, MIME types, the text of responses and of log lines, the
  limit of 255 bytes on the value of a header.
* The composition of `HttpParser` with `HttpConnection`: the first has no peer that
  resets and no output, the second no text. What passes between them is a request
  that is complete, refused or waits for more.
* The gateway's two counters (`metrics` loads them one after the other while other
  loops count) and the text of its answers.
* The race of `~EventLoopThread`, which reads `loop_` without the mutex
  (EventLoopThread.cpp:15-17), with a loop that ends by itself: nothing in the server
  makes one end by itself.
* `Main`, tests, build files; `Thread`'s names and identifiers.
* Failing system calls other than those named (a full log disk, `eventfd` errors,
  pthread calls other than `pthread_create`).

## 7. Plan

Done: `EventLoop` with `TaskQueue`, `HttpConnection`, `ConnTable`, `AsyncLogging` with
`LogPipe`, `Timer` with `Deadlines`, `Server`, `ThreadPool`, `HttpParser`, and the proofs
of section 5.

Left: the gateway's counters under concurrent loops, of which the repository promises
nothing; the composition of `HttpParser` with `HttpConnection` (section 6).
