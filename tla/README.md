# RPX in TLA+

RPX is a small HTTP server and reverse proxy in C++, built on a reactor: one
`EventLoop` per thread around epoll, in the manner of muduo. This directory holds
TLA+ models of its core, TLC configurations that check them on small instances,
and proofs, checked by TLAPS, of what holds for any number of threads, tasks,
channels, descriptors, timers and connections. The HTTP layer on top of it is modelled
and model-checked too, and the safety of its parser and of its server is proved.

Paths below are those of the repository, without the leading `src/`; the modules
name the methods of the code in the comment before each action.

## Inventory

| Component | State | Operations | Module |
| --- | --- | --- | --- |
| `EventLoop` (`core/EventLoop.hpp`) | `running`, `_callingPendingTasks`, `_pendingTask` under `_mutex`, the eventfd | `loop`, `queueInLoop`, `runInLoop`, `quit`, wake-up, destruction | `EventLoop`, promised by `TaskExecutor` |
| `Channel`, `Poller` (same file) | `_interests`, `_addedInLoop`, `poller_cb.state`, `_activeChannels`; the kernel's table | set and unset interests, `remove`, `poll`, `handleEvent` | `Poller` |
| `TimerQueue` (same file) | `_timers`, `_activeTimers`, `_cancelingTimers`, the timerfd | `addTimer`, `cancel`, `handleRead` | `TimerQueue` |
| `TcpConnection` | `_state`, the callbacks, `_writeBuffer`, its channel and socket | `connectEstablished`, `write`, `shutdown`, `forceClose`, `handleRead`, `handleWrite`, `handleClose`, `connectDestroyed` | `TcpConnection`, promised by `ConnectionLife` |
| `TcpServer` with `EventLoopThreadPool` | `_connections` by descriptor, the io loops, `_cnt` | accept, close over two loops, destruction | `TcpServer` |
| `Acceptor` | listening socket, `_idleFd` | `listen`, `handleRead` | `Acceptor`, in `ServerLife`; what becomes of a connection, `TcpServer` |
| `Connector`, `TcpClient` | `_state`, `_running`, retry delay, `_channel`; `_connection` | start, stop, retry, reconnect | `Connector`; with a live connection, `ProxyHandler` |
| `ThreadPool` | queue, `running`, three conditions | `addTask`, `take`, `stop`, `waitTaskClear` | `ThreadPool` |
| `EventLoopThreadPool`, `CountDownLatch` | `_loops`, the latch's count | construction, `eventloopTask`, `stopAllTask`; `wait`, `countDown` | `LoopPool`, over `ThreadPool`; with the acceptor, `ServerLife` |
| `StreamBuffer` | four pointers into one block | `readFd`, `append`, `popFront`, `upResize`, `alignLeft` | `StreamBuffer`, promised by `ByteQueue` |
| `HttpServer`, `HttpContext` | the user data of a connection, the callbacks of a context | `initConnection`, `handleMessage`, `writeCompleteCallback`, `deleteConnection`, `sendError` | `HttpServer` |
| `HttpParser` | two accumulation buffers, the message, over llhttp | `advance` and its callbacks | `HttpParser` |
| `HttpRouter`, `StaticHandler` | routes; a file being sent | `handleRequest`, `match`; `operator()`, `sendMore` | `HttpServer` |
| `ProxyHandler` | a client upstream, as user data of the context | `operator()`, its close callbacks | `ProxyHandler` |
| `HttpClient` | a context, as `HttpServer` has | as `HttpServer` | not modelled: unused |
| `Socket`, `InetAddress`, `Utils`, `Time`, `HttpDefinition`, llhttp | none of their own, or vendored | system calls, tables | not modelled |

How the parts interact. A thread hands work to a loop only through
`queueInLoop()`/`runInLoop()`; on the loop's thread epoll hands a `Channel*` to
`handleEvent()`, which calls back into `TimerQueue`, `Acceptor`, `Connector` or
`TcpConnection`; those call the program's callbacks, which call back into
`write()`, `shutdown()` and `forceClose()`, change interests, add timers and queue
tasks. A connection is shared by pointer between the server's map on the base
loop, closures in the queues of two loops, and the program. `HttpServer` gives each
connection a context as its user data; the context has the parser, whose callback leads
to the router and a handler; a handler writes at once, sends a file from one
write-complete callback to the next, or makes a `TcpClient` on the same loop.

What is hard. Wake-ups raced by other threads; the swap of the task vector; raw
pointers in epoll and in `_activeChannels` against objects deleted by tasks and
descriptors that are reused, or run out; callbacks that change the timers or the connection
they are called from; the several ways a connection closes at once; the map keyed
by a descriptor another loop has yet to close; destructors that race with tasks; texts
cut by any read; contexts, connections and clients that hold each other, by pointer or
only by address.
Nothing is persisted, so there is no recovery after a crash to model. `hazards`
in `PROJECT.json` lists these at their lines, with the properties aimed at each.

What makes each component correct:

- loop: every queued task runs once, in order, and `quit()` stops it;
- poller: epoll is never called wrongly, and never returns a dead channel;
- acceptor: never out of reach at the limit of descriptors, and closes only its own;
- timers: not early, not after cancelling, not never;
- connection: callbacks in order, closed and released once, EPOLLOUT watched exactly
  while bytes wait, and reported in vain only when a reset or a `shutdown()` explains it;
- client: one attempt at a time, no socket forgotten, `stop()` stops;
- pool: no signal is lost, and `stop()` joins;
- server: the map holds what is open, erases what closed and nothing else;
- parser: a message is delivered as it was sent, and left alone then;
- HTTP server: the context is there at every cast, a file is sent whole and ends, and
  the end of a connection frees all it had, as long as no write() waits for good;
- proxy: nobody calls a client that is gone, and the two connections end together, as far
  as timers and writes of the loop come back.

## The modules

**EventLoop.** The owner's program counter follows `loop()`: test `running`,
`epoll_wait`, handle each active channel, swap, execute. `queueInLoop()` from another
thread is two steps (push under the mutex, then write the eventfd), `quit()` too
(store, then write). The owner's calls from a handler or a task are one step each,
with the test of `_callingPendingTasks` the code makes. The tasks are closures
submitted at most once; `done` records the order in which they began.

**TaskExecutor** is the loop's promise: one queue, serial execution, FIFO,
`stopped`. The refinement maps its queue to what is left of the swapped vector
followed by `_pendingTask`, so the swap is a stutter.

**Poller.** Channels are objects with a life, descriptors are opened for a channel,
closed and handed out again by the kernel. `ApplyInterest` picks `EPOLL_CTL_ADD`,
`MOD` or `DEL` from `poller_cb.state`, and each of the three has the kernel's own
condition for failing. The callers' discipline (remove before close, delete in a
task, or in a handler when the channel had been out of the loop at the last
`epoll_wait`) is that of `Connector`, `TcpConnection` and their owners.

**TimerQueue.** `_timers`, `_activeTimers` and the local vectors of `handleRead()`
as sets; a tick of the clock, the timerfd's expiration and the loop interleave with
additions and cancellations from handlers, tasks and timer callbacks.
`consumeTimerfd()` aborts on an empty read, as in the code.

**TcpConnection.** One connection: the channel's callbacks of one event in order,
the tasks of the connection in the loop's two vectors, user code that runs inside
a callback and may write, shut down or force the close before it returns (also
from another channel's handler), another thread inside `forceClose()`, a socket of
`SockCap` bytes, and a peer that reads, sends, half-closes or resets when it likes.
The write buffer is its length. `OfClient` tells the two owners apart, and one run covers both:
`TcpClient`'s socket is non-blocking and its connection is established inside a
handler; `TcpServer`'s socket blocks, because `accept()` does not pass
`O_NONBLOCK` on, and its connection is established by a task. `Alive` says whether
some `shared_ptr` is left; closures of an iteration are destroyed together when the
local vector is.

**ConnectionLife** is what the program may rely on: connect first, close last, each
once, the rest between; `HttpServer` casts the connection's user data on the
strength of it.

**TcpServer.** Base loop, io loops and several connections. A connection is that of
`TcpConnection` without its bytes; the io loops are those of `EventLoop` without
their wake-ups (nothing is lost there, by the theorems below); of the base loop only
the order of its tasks is kept, which is what `TaskExecutor` promises. The
destructor is a second specification, `TeardownSpec`.

**Connector.** A `TcpClient`, its `Connector` and the connections it makes one after
another; the loop is that of `TcpConnection`, a connection is one without its data.
`Connect` is `connect()` with its three outcomes, on a socket of its own;
`SucceedsIf` joins `handleWrite()` and `newConnection()`, `HandleClose` the
connection's and the client's. `Restart` is a step of its own, as another thread may
be inside `stopConnect()` between the client's test of `_running` and the
connector's store. `ConnectorAlive` says whether some `shared_ptr` is left: start's and the
channel's closures hold only `this`, those of `stop()` and of the retry timer share.
The program starts once, stops or deletes the client once, and deletes it on the
loop's thread, when it has no connection and no task of one is pending.

**ThreadPool.** What a thread does under `qMutex` up to a wait or the unlock is one
step; a thread that waits on a condition is in a state of its own (`notEmpty`,
`notFull`, `isEmpty`), and notified, or awake for no reason, it is back where it tests
the condition. `waitTaskClear()` tests with an `if`, so awake it is out. The queue is its
length. Callers are out of the pool before it is destroyed, as the repository's one
owner is.

**LoopPool** extends `ThreadPool` with the one object that owns one: the constructor
adds a task for each thread, each task publishes its loop, counts the latch down and
enters the loop; the constructor waits for the latch, which is on its stack with the
callback. A loop is where its thread is with it. The destructor quits the loops in order,
then `~ThreadPool()` joins. The steps of `ThreadPool` are used as they are, with
the variables of this module beside them.

**Acceptor.** `handleRead()` step by step at `EMFILE`: every `accept()`, `close()` and
`open()` is a step, as the io threads open and close descriptors of the same table
between them. The kernel gives the lowest free number, so that the number the acceptor
has just closed is the first another thread gets, and `accept()` wants a free number even
for an empty backlog. `raced` notes that another thread opened a descriptor in the window.

**ServerLife** composes `LoopPool` and an instance of `Acceptor` as the members of a
`TcpServer`: acceptor and pool are constructed, peers are listened to once `start()` was
called, the destructor begins outside `handleRead()` and ends the pool before the acceptor.
The base loop's thread is the pool's builder; the other threads of `Acceptor` are the
pool's, and open and close descriptors while they are in their loops.

**StreamBuffer.** A block of memory as a function from offsets to bytes, with the four
pointers as offsets; memory nobody wrote is `Junk`, and popped bytes stay where they are
until they are overwritten. `readv()` delivers any bytes that fit in the room and the
buffer on the stack (`ExtraBuf`); a read of nothing is the end of the stream, and a read
that fails changes nothing. `append()` has the four cases of the code: in place, after
`alignLeft()`, in a longer block, and in a longer block that is too short for where the
contents begin. Of what that last one writes behind its block nothing can be said: the
model records it in `overran` and stops. **ByteQueue** is what the two sides of a
connection rely on; so that it can say *which* bytes a call adds, the model keeps what
the last call was given in a history variable, `given`.

**HttpParser.** llhttp is external: it reports what was sent, in order, each text in
pieces cut anywhere, and says when a text is complete. A text is two pieces. The actions
are the callbacks; the variables are the two buffers and every message there was, as a
handler may still hold an old one. Requests and responses differ in their first line only.
`swap()` is modelled on both of its sides: what the message had goes into the buffer.

**HttpServer.** One accepted connection on its io loop, with `HttpContext`, the routes of
`rpx.cpp` and `StaticHandler`. The parser hands over any number of requests per read. A
`write()` on the blocking socket is taken whole, or fails after a reset or a shutdown;
each one that is taken queues a task, which is what drives `sendMore()`. A handler is one
step, at its end; `WriteBlocks` says that it has begun and waits for the peer (`stuck`: the
io loop does nothing else), `WriteReturns` is the rest of it. A file is a
sequence of full blocks and a last one that is not, and carries the stream's `good()`.
`overlapped` notes that a request came while a file was under way, or after a shutdown.

**ProxyHandler.** Who holds whom: the connection and its context, and for each proxied
request a `TcpClient` with its `Connector` and connection, all on one loop. `ContextHeld`,
`ClientHeld` and the like ask for the pointers from outside a cycle; between two steps a
client that is not held is destroyed (`Destruct`). The retries of the clients, and of other
connections of the loop (request 0, one at a time), are timers in the order of their expiry
behind one timerfd: `TimersExpire` takes those that are due out, `Retry` runs the next of
them, and the timerfd is armed again only by a timer that comes first (`AddTimer`), as in
`TimerQueue`. The bytes from upstream are left out but for one thing: their `write()` to the
client's socket, which blocks, may hold the loop up (`WriteBlocks`). What a closure or a
callback holds only by address is looked at when it runs: `dangling` says that it was gone,
and the model stops there. The handler's close callback lets the client hold itself.

Most modules also hold definitions marked *Fault*: an operation as a plausible
mistake would have it. They are used by no specification; with one in the place of
the operation it names, the property listed with it in `PROJECT.json` is violated,
which shows that the property says something about the code.

## Runs

| Run | Instance | Shows |
| --- | --- | --- |
| `event_loop` | 2 callers, 2 tasks; 4,850 states | `NoLostWakeup`, refinement of `TaskExecutor` with its fairness, `QuitExits` |
| `poller` | 3 channels, 2 descriptors, symmetric | `CtlSucceeds`, `KernelAgrees`, `PointersLive` |
| `timer_queue` | 2 timers, clock to 3, intervals 1 and 2; 131,940 states | `NoUseAfterFree`, `CancelledIsGone`, `NeverArmedLate`, `LoneTimerRuns` |
| `tcp_connection` | both owners, socket of 1 byte, 3 bytes written; 267,312 states | `NoUseAfterFree`, `AssertionsHold`, `InterestsExact`, refinement of `ConnectionLife`, `Released` |
| `connector` | 3 sockets, 1 start, 1 stop or deletion, reconnecting; 3,055 states | `SocketsAccounted` (with `OneAttempt`, `ChannelFound`), `ConnectorOutlives`, `KeepsTrying`, `StopOnLoopStops` |
| `server` | 2 connections, 2 descriptors, 2 io loops; 82,089 states | `ErasesOwn`, `NoUseAfterFree`, `DeletedClean`, `DescriptorReturned` |
| `thread_pool` | 2 pool threads, 2 callers of 2 calls each, a queue of 2; 2,293 states | `NobodyStranded`, `CallsReturn` |
| `server_life` | 2 loops, 3 descriptors, 3 peers; 170,520 states | `LoopsReady`, `StartsAndStops`, `SpareIsOwn`, `Answered` |
| `stream_buffer` | block of 3 bytes growing to 7, head room of 1, reads and appends of up to 4 bytes of 2 values; 10,255 states | `InBounds`, refinement of `ByteQueue` |
| `http_parser` | 2 messages of up to 2 headers or trailers; 91,541 states | `DeliveredAsSent`, `MessageKept` |
| `http_server` | 3 requests, files of up to 2 blocks and a part, 3 header writes; 162,336 states | `WholeFile`, `CastsFind`, `FileEnds`, `ContextReleased` |
| `proxy_handler` | 3 requests, one after the other or together, with another connection's timer; 43,845 states | `NoDangling`, `EndsTogether`, `ContextReleased` |

All of them pass. Type invariants (`TypeOK`) are in no run of their own: those of
`EventLoop`, `Poller`, `TimerQueue`, `TcpConnection`, `Connector`, `TcpServer`, `ThreadPool`,
`LoopPool`, `StreamBuffer`, `HttpParser`, `HttpServer` and `ProxyHandler` are proved, alone or
as a part of an inductive invariant.

Why the bounds are enough for the cases the properties are about:

- `EventLoop`: two callers make the races of push and wake-up with the swap and
  with each other; two tasks make the order visible, and one may queue the other.
  `quit()` is called once (`QuitBound`). The proofs remove the bounds for safety.
- `Poller`: a descriptor can be closed and reused by a second channel while a
  third is handled. The proofs remove the bound.
- `TimerQueue`: two timers are a first one and one that waits behind it, or one
  that cancels the other; time 3 lets a repeating timer run three times. An address
  is used once.
- `TcpConnection`: a socket of one byte is full after one; three bytes written are
  one that is sent, one that is buffered and one that comes behind it. `guest`
  (another channel's handler) runs at most once in an iteration.
- `Connector`: three sockets are one of a connection that is not yet released, one
  that is connecting and one that is tried next; refusals, losses and reconnections
  are not bounded. The proofs remove the bound of the sockets.
- `Acceptor`, in `ServerLife`: of three descriptors one is the spare; the other two are
  connections, or another thread's. Three peers are two that fill the table and one that
  finds it full, or three that do. Opens and closes of the others are not bounded.
- `ThreadPool`: two callers wait for room at the same time once the queue of two is
  full, and two threads take. The proof removes the bounds for safety. `CallsReturn`
  depends on `MaxAdds`: with callers that never stop calling, one may always find its
  place taken, since the mutex is not fair.
- `ServerLife`: one of two threads has counted the latch down while the other is before its
  task or in it, and the destructor quits one loop while the other has returned or not.
- `HttpParser`: two names and two headers make a repetition or a difference; a text of
  two pieces is cut or not; empty values and bodies leave a buffer alone; the second
  message meets what the first left behind.
- `HttpServer`: the code writes a header in 14 or 11 pieces. With three, write-complete
  tasks of the header and of the blocks mix, and there are more of them than a short file
  needs, fewer than a long one; a file that ends with a whole block needs two of the
  header's (`HeaderAssumption`). Three requests are one before, one during and one after a
  file.
- `ProxyHandler`: the second request is the one that replaces a client; a third replaces
  that. One timer of another connection at a time, in any place, is enough to come before
  each of theirs. The proof removes the bound of the requests.
- `StreamBuffer`: in a block of three bytes there is a part popped, a part left and a
  part free; a call of four bytes fills any of them and makes the block longer, which
  happens more than once before `MaxCap`. Two values of a byte show an exchange or a
  loss. The proofs remove the bounds.
- `TcpServer`: two connections on one descriptor after the other, or on two at
  the same time, on the same or on different loops; a connection object is used
  once. The proofs remove the bounds for safety.

Deadlock is checked in `Poller`, `TcpConnection`, `Connector` and `TcpServer`. It is
switched off where the program stops: a loop that has been destroyed, a `TimerQueue` that
has called `abort()`, an acceptor or a server that has been torn down, a pool that has been
joined, a buffer that was overrun, a peer that sends no more requests, a client that is
gone.

## Fairness

Only what the scheduler gives is assumed: the loop's thread runs as long as it has
something to do, with one weak fairness over all of its steps; `epoll_wait` returns
when a watched descriptor is ready; a thread inside `queueInLoop()`, `quit()`,
`forceClose()`, `stopConnect()` or the pool's functions, that does not wait for a
condition, gets out; the program's callbacks return; a clock ticks. Nothing is assumed of
the peer (it need not read, send or close), of the calls the program chooses to make, or of
unrelated I/O. `EINTR` may interrupt `epoll_wait` at will.

Two things need more care.

*A `write()` on an accepted socket* blocks, so that it returns only if the peer reads or
resets. None of it is assumed. `TcpConnection`, `HttpServer` and `ProxyHandler` have a state
in which the loop is inside such a write (`stuck`); the only fairness of its return is
`HttpServer`'s, after a reset. `Released`, `FileEnds`, `EndsTogether` and `ProxyHandler`'s
`ContextReleased` except behaviours that stay in it for good. Writes to *other* connections
of the same loop are among the callbacks that return, in these modules and in `TcpServer`,
whose `DescriptorReturned` depends on that; `TcpServerBlocks.cfg` and `HttpServerUnread.cfg`
show what happens when they do not.

*A timer* expires while the timerfd is armed for it, also when other events keep the loop
busy: strong fairness, in `Connector` of the one timer there is, as its client is alone on the
loop; in `ProxyHandler` of the timerfd, and not of each retry. The timerfd is not always armed
while a timer waits (`TimerQueueUnarmed.cfg`), and in `ProxyHandler`, where several retries
share it, a retry may be left behind: `EndsTogether` excepts one that is (`Stranded`), and
`ProxyRetryStranded.cfg` shows that it happens. `KeepsTrying` of `Connector` counts a retry
that waits as trying, and says nothing of when it runs.

## Where code and statement part

Found while modelling. Each has a configuration with the property named here, which TLC
finds violated (`tlc -config X.cfg Module`, with `-continue` for the three that have two);
the listed runs check what remains true.

- `TimerQueueUnarmed.cfg` (`TimerQueue`, `TimersRun`): `handleRead()` arms the timerfd again
  only when a repeating timer becomes the earliest: timers that wait behind one that runs
  once are never run (`core/EventLoop.hpp:680`). `LoneTimerRuns` is what remains true.
- `TimerQueueAbort.cfg` (`NeverAborts`): a timer added by an earlier handler of the same
  iteration clears the expiration `handleRead()` is about to read, and the read aborts
  (`core/EventLoop.hpp:339`).
- `ProxyRetryStranded.cfg` (`ProxyHandler`, `RetriesEnd`): the same for the retries of clients
  on one loop, as of two proxied requests or two connections: the one that waits behind
  another never runs, so that its attempt neither goes on nor ends, also after the connection
  downstream has (`core/EventLoop.hpp:680`, `core/Connector.hpp:181`). `EndsTogether` is
  what remains true.
- `AcceptorSpareLost.cfg` (`Acceptor`, `AnsweredAfterRace`): a thread that opens a descriptor
  while the spare one is given up keeps it; `open()` then fails, and at every later
  `EMFILE` the acceptor closes -1 and the loop spins on its readable socket
  (`core/Acceptor.hpp:65`). One that comes free later is accepted into, and does not
  bring the spare one back unless it comes free within `handleRead()`. `Answered` is what
  remains true.
- `TcpServerTeardown.cfg` (`TcpServer`, `DeletedDisconnected`): `~TcpServer()` queues
  `connectDestroyed()` and tells the loops to quit: a loop that is executing its tasks
  exits without running it (`core/TcpServer.hpp:38`), against the assertion of
  `~TcpConnection()`.
- `ProxyKeptAlive.cfg` (`ProxyHandler`, `NoDanglingKeptAlive`): a second proxied request on
  a kept-alive connection replaces the context's only pointer to the first client
  (`http/ProxyHandler.hpp:54`), which is destroyed with its connection open; the
  connection's close callback then uses it (`core/TcpClient.hpp:133`).
- `ProxySelfReference.cfg` (`SelfReferenceEnds`): "Hold a reference of itself until
  closeCallback()" (`http/ProxyHandler.hpp:62`), which does not come when the connection
  upstream has ended first, or was never made: the client is never freed.
- `HttpServerPipelined.cfg` (`HttpServer`, `WholeFilePipelined`): a request that comes while
  a file is being sent takes over the context's one write-complete callback, or shuts
  the connection down (`http/StaticHandler.hpp:58`, `http/HttpContext.hpp:132`): the file
  is cut short.
- `HttpParserRepeatedName.cfg` (`HttpParser`, `BuffersClear`): "Now _currentBuffer and
  _currentBuffer1 are all clear" (`http/HttpParser.hpp:207`) is not so when a header's
  name is repeated: the next header's value begins with the old one's.
- Trailers, seen in `HttpParser` without a property of their own: `on_header_field()`
  appends the name of a trailer to the buffer that holds the body, so that the body
  becomes part of a header's name and is lost (`http/HttpParser.hpp:185`).
- `StreamBufferOverrun.cfg` (`StreamBuffer`): when `append()` needs a longer block while
  the contents begin behind the head room, the new length is reckoned from the head
  room (`core/StreamBuffer.hpp:95`), but `upResize()` keeps the contents where they
  were (`core/StreamBuffer.hpp:56`): the copy ends behind the block. A write buffer of
  which a part was sent is in that state when a large `write()` comes.
- `TcpLosesBytes.cfg` (`TcpConnection`, `StreamIntact`): `write()` behind buffered bytes
  uses `written` without a value (`core/TcpConnection.hpp:102`).
- `EventLoopQuitRace.cfg` (`EventLoop`): `quit()` stores `running = false` and then writes
  the eventfd; the owner may have returned from `loop()` and destroyed the object in
  between (`core/EventLoop.hpp:497`).
- `ConnectorStops.cfg` (`Connector`, `StopStops`): a `stopConnect()` of another thread, which
  "can be called in any thread", comes between the client's test of `_running` and
  `restart()`, and is undone (`core/TcpClient.hpp:163`).
- `ConnectorStops.cfg` (`ChannelFound`): `stop()` leaves `_state` CONNECTING, and a second
  one, as that of `~TcpClient()` after `stopConnect()`, dereferences the channel that the
  first one reset (`core/Connector.hpp:56`).
- `ConnectorStartAgain.cfg`: a second `start()` while an attempt or a retry is pending
  connects twice, and the channel in the loop is overwritten
  (`core/Connector.hpp:40`).
- `TcpServerBlocks.cfg` (`TcpConnection`): accepted sockets block, as `accept()` does not
  pass `O_NONBLOCK` on, so `write()` holds up the io loop until the peer reads
  (`core/Acceptor.hpp:59`), against "Non-blocking socket" in the README.
- `HttpServerUnread.cfg` (`HttpServer`, `FileEndsUnread`): so a file that is being sent to a
  peer that stays and does not read ends neither in a shutdown nor in a close, and keeps the
  io loop in `write()` (`http/StaticHandler.hpp:68`, `core/TcpConnection.hpp:80`). `FileEnds`
  is what remains true.
- `TcpShutdownSpins.cfg` (`TcpConnection`, `SpinEnds`): `shutdown()` does not wait for the
  write buffer (`core/TcpConnection.hpp:124`). With bytes left in it, on a client's socket,
  every later write fails with EPIPE; `handleWrite()` then calls the error callback, which
  nobody sets, and keeps bytes and interest (`core/TcpConnection.hpp:256`): the bytes never
  leave, and the loop spins for as long as the peer leaves the connection open. An accepted
  socket has nothing in its buffer then. `InterestsExact` is what remains true.
- `ThreadPoolWait.cfg` (`ThreadPool`): `waitTaskClear()`, which is not among those of whom
  `NobodyStranded` says that they do not wait on a stopped pool, does not return when the
  pool is stopped with tasks in the queue (`core/ThreadPool.hpp:66`); nothing calls it.
- `PollerDestructor.cfg` (module `Poller`): `~TimerQueue()` does nothing, so every
  `EventLoop` that is destroyed deletes a channel that is in the loop
  (`core/EventLoop.hpp:296`), against the assertion of `~Channel()`.
- `EventLoopEarlyQueue.cfg` (`EventLoop`): a task the owner queues before `loop()` may
  never run, since `_callingPendingTasks` is read uninitialised
  (`core/EventLoop.hpp:567`). The listed runs and the theorem set this aside with
  `OwnerQueuesBeforeLoop = FALSE`: `rpx.cpp` queues nothing before `loop()`.
- `TcpLosesBytes.cfg` (`TcpConnection`, `EofLosesNothing`): end of file from a peer that
  still reads drops what `write()` had accepted (`core/TcpConnection.hpp:245`).
- `TcpServerTeardown.cfg` (`TcpServer`, `RemoveAssertion`): the destructor's
  `connectDestroyed()` after a `forceClose()` whose own task is still to come finds
  interests, and `remove()` asserts there are none (`core/TcpConnection.hpp:226`).

## Proofs

**EventLoop_proofs.** `TypeCorrect` is inductive as it stands. `NoWakeupIsLost`
(`NoLostWakeup` and `NoLostQuit`) is not: from a state where the owner is about to
swap, one must know that a task queued during the drain raised a wake-up, and that
depends on the flag being up. `InductiveInv` adds `FlagUpWhileDraining` (the flag is
up while tasks run, so the owner too writes the eventfd) and `PendingCovered` (from
the swap to the next `epoll_wait` a pending task always has a wake-up on its way). It
is assumed that the owner queues nothing before `loop()`. `LoopIsExecutor` proves
`SafeSpec => Executor!SafeSpec`, from types and three lemmas on concatenation: a push is
a push on the whole queue, a swapped task begun is its head, the swap changes
nothing.

The same module has the proofs of `Poller`, which is in the same file of the code.
`PollerInvariant` proves `PollerInv`, whose named parts are the
three properties the run checks and why they hold: `Ownership` (what the kernel has
is the channel the descriptor was opened for, and that channel is in the loop) and
`Lifetime` (a channel in the loop is live and its descriptor open; in the task phase
nothing is active; what is handled was in the loop at the last `epoll_wait`). One
lemma per call, one step per part. `EpollCtlNeverFails`, `KernelHasTheMasks` and
`NoDanglingChannel` follow.

**TcpServer_proofs.** `ServerInvariant` proves `InductiveInv` for a server that is up,
with any connections, descriptors and io loops. That the erasing task, which has
nothing but a descriptor, erases the right connection (`ErasesOwn`) depends on the
descriptor not being accepted again while the map has the connection, which depends on
`OpenIsMapped` and on `Mapping` (an entry is under its connection's own descriptor, an
erasing task is for a connection that closed and keeps it). That nothing in use is deleted
depends on `DestroyPending` (a closed connection still in its loop has
`connectDestroyed()` before it, in a task that holds it), on `EstablishOnce` (no
connection is opened again after it closed), `Made` and `Phases`. What the loop's two
vectors do is said once, by `TasksMove` (at most one task taken, at most one appended),
and the parts that speak of tasks are shown to be kept by any such move; then there is
one lemma per action. `EraseIsOwn`, `OpenStaysMapped`, `UseIsOfTheLiving` and
`DeletedIsClean` follow. The destructor is not covered: with it the last two fail
(`TcpServerTeardown.cfg`).

**ThreadPool_proofs.** `PoolInvariant` proves `InductiveInv`, for any finite sets of threads
and any bound of the queue. `NobodyStranded` is almost inductive as it stands, as it says
of each condition what `notify_one()` relies on: a task pushed while a thread waits has
a thread woken for it, and a thread on its way that finds the queue empty leaves none
behind; likewise for room. Only `BlockedByBound` is added (nobody waits for room
without a bound). The lemmas count the threads on their way: `WorkerWoken` and
`AdderWoken` say what one notification changes, then there is one lemma per action.
`PoolTypes` and `NoSignalIsLost` follow.

The module goes on to the pool of loops and the server that owns it. `LoopPoolInvariant`
adds to `InductiveInv` that the tasks in the queue are those of loops (`TasksAreLoops`: so
that a task that is taken has a loop), that the latch counts the loops that have not come so
far (`LatchExact`), and that a loop returns only when it was told (`Orderly`). A latch at 0
then means, by the cardinality of the loops counted, that every loop was published and
counted: `LoopsAreReady`. `ServerLoopsAreReady` says the same in `ServerLife`, whose other
steps leave the pool alone. `ServerSpareIsOwn` proves the acceptor's invariant in that
composition, step by step through `handleRead()` at `EMFILE`, where a number that is handed out
is the lowest free one.

**TimerQueue_proofs.** The three invariants the run checks are inductive together with
`CallExact` (`handleRead()` has its local vector only while it runs) and `CancelNoted` (a
timer that has expired and was cancelled is in `_cancelingTimers`, which is why it is not
started again). `TimersLive`, `CancelHolds` and `ArmedInTime` follow. `NeverArmedLate`
speaks also of the time inside `handleRead()`, when callbacks add timers: without that it
is not inductive.

**TcpConnection_proofs.** `InductiveInv` divides a connection's life in the stages the
program knows (`Stages`): `NotYetEstablished`, then `Connected` or `Disconnected`, then
`Destroyed`. What is hard is that tasks in the loop's two vectors are executed while others
are queued: `DestroyAhead` says that from `handleClose()` on exactly one task ahead of the
loop destroys the connection, with none but those of `forceClose()` behind it;
`Disconnected`, that a channel registered again by what was left of an event is removed
before the loop polls. `WriteBlocks` and `PhaseExact` tell where a `write()` may wait and
where the vectors are. That EPOLLOUT is reported in vain (`InVain`) only after a reset or,
on a client's socket, a shutdown needs `BufferOnlyAfterReset`, which is a part of the
property. `NothingDangles`, `NoAssertionFails` and `InterestsAreExact` follow, for both
owners, any socket and any number of bytes; `ConnectionLives` proves `SafeSpec =>
Life!SafeSpec`.

The same module has the proofs of `StreamBuffer`, whose buffers a connection is the owner of.
`BufferInv` is `InBounds` with the types of the pointers: it
is inductive, and the argument is in what the calls copy. `CopiedBytes` says what a copy
changes, `BetweenIsSeq` that the contents are a sequence of bytes; each action's lemma
shows that the step keeps the invariant and either `Puts` s behind the contents or
`Takes` n bytes from their front, in terms of memory. `PutsIsPut` and `TakesIsTake` turn
that into the two steps of `ByteQueue`, and `BufferIsQueue` proves `BufferSpec => Queue!Spec`
for every size, head room and alphabet.

**Connector_proofs.** The theorems are for any sockets, with or without reconnection, under
the hypothesis `CalledOnce`: the program calls `start()` at most once, and stops or deletes
the client at most once; what `ProxyHandler` does with a client, which it stops and then
lets go of, is in that module. The hypothesis is needed. A second `start()` makes a second
attempt (`ConnectorStartAgain.cfg`) and a second `stop()` looks for a channel that is gone
(`ConnectorStops.cfg`). Reconnections are not calls of `start()`, and are not bounded.
`ConnectorInvariant` proves `InductiveInv`. Its parts say that what may lead to a connection
excludes everything else that may (`Attempts`: a start in the queue, a retry, a channel in
the loop, a restart, a connection), each with the state and the sockets it goes with
(`Held`); which tasks stand before which in the rest of the batch and the queue (`Once`,
`Before`, `FollowedBy`, `ClosesLast`: a channel's deletion comes before the next attempt
puts a new one in its place); what is still to come until the one `stop()` is executed
(`NotStopped`); and that after the deletion of the client the task of its `stop()`, which
owns the connector, has every other task that needs it before it or in the same iteration
(`Gone`). The lemmas about queues say what one task pushed, or the first one taken, changes
of all these; then there is one lemma per action. `NoSocketForgotten`, `ConnectorIsFound`
and `ConnectorGetsOn` follow. `StoppedGetsNothing` proves the action property
`NothingAfterStop`, the safety half of `StopOnLoopStops`; it needs `StopHolds` besides, that
nothing sets the connector running again after a stop on the loop's thread.

**ProxyHandler_proofs.** `ClientIsFound` proves `NoDangling` for any number of requests.
Its inductive invariant says of every request that one that has not come left nothing
(`NotStarted`), and, until a second request replaces the first: that the client is the
user data of the context and keeps its callbacks until the connection upstream is gone
(`ClientStays`), so that whoever finds that connection or an attempt finds the client; that the
tasks of an attempt and of a connection come once and in their order (`TasksOnce`); and that
there is one `stop()` for an attempt under way, that of the context's close callback
(`StoppedOnce`). After a second request the property does not hold
(`ProxyKeptAlive.cfg`). None of it depends on the timers, whose types are a theorem of their own
(`WaitsAreTyped`).

**Http_proofs.** Of the parser, `ParserTypes` proves `TypeOK`, for any texts and any
`MaxHeaders` and `MaxMessages`. Beside the types it says that between the two ends
of a message there is a message to write into, and that while a field is read its header
is the last of those sent. The lemma to note is `HeaderSwap`: whatever the map of headers
holds, what `swap()` leaves in the second buffer is a text. `DeliveredIsKept` follows, as a
callback writes into the last message only, and that one is not delivered while it is
being collected. `DeliveredWhole` needs `CollectedSoFar`: the buffer and what is left to
report are the text being read (`LineSoFar`, `BodySoFar`, `HeadersSoFar`), the map is that
of the headers before it (`ValuesSoFar`), and between texts a buffer is empty
(`BuffersBetween`) as long as no name was repeated and no trailer came.

Of the server, `ServerInvariant` proves `ServerInv`, whose parts are `TasksInOrder` (which
tasks may be queued in which state of the connection; the task that destroys it is queued
once, and only when it is closed) and `FilesInOrder` (what is unread of the file under way
and what was sent make it up, only its last block is short, and the callback is there until
the file is at its end). `ContextIsFound` follows from the first, the action property by one
step per kind of cast; `FilesGoWhole` from the second. Of the bounds only `HeaderWrites` is
assumed anything of, that it is a natural number.

Only model-checked: everything under fairness (`QuitExits`, `CallsReturn`, `StopOnLoopStops`,
`LoneTimerRuns`, `Answered`, `Released`, `DescriptorReturned`, `FileEnds`, `EndsTogether`,
`ContextReleased`, `StartsAndStops`, the liveness of the refinements), which is out of the
prover's reach. Every invariant that a run checks, and every action property, is proved.

## Plan

Done: every component of the inventory that has a module. What is left, in this order:

1. `TcpConnection` over `StreamBuffer`, instead of over the length of its buffers;
   `shutdown()` and `forceClose()` of a client from another thread.
2. Details left out so far: two clocks and a step of the wall clock, reuse of a
   `Timer`'s address, `cancel()` from another thread, `shutdown()` from another thread,
   which holds only `this`.

## Not modelled, and why

System call wrappers, address parsing, status tables and logging keep no state a
property could be about. llhttp is vendored and is a binary. The growth of epoll's
event array, the wording of errors and the contents of messages are data no
property distinguishes. `zlog` and DNS are external. `HttpClient` is `HttpServer`'s
callbacks over a `TcpClient`, and nothing uses it; regular-expression routes are not
used by `rpx.cpp`. How a path becomes a file's name is text; whether a file is there is
a choice. Nothing is persisted, so there is no restart to model.
