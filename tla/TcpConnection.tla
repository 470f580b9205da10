--------------------------- MODULE TcpConnection ----------------------------
(***************************************************************************)
(* core/TcpConnection.hpp: one connection on its loop, from the task that  *)
(* establishes it to the release of its descriptor, with the program that  *)
(* uses it, another thread, its socket and its peer.                       *)
(*                                                                         *)
(* The loop is that of EventLoop.tla, seen by one connection: epoll_wait   *)
(* (phase "wait"), the callbacks of the connection's channel in the order  *)
(* of Channel::handleEventGuarded() ("dispatch"), the swapped tasks        *)
(* ("tasks").  The registration is that of Poller.tla.  A program that is  *)
(* called back may write, shut down or force the close before it returns;  *)
(* it may also do so from a handler of some other channel of the loop, at  *)
(* most once in an iteration here (guest).  Bytes are counted.             *)
(*                                                                         *)
(* Left out: the error callback (nothing in the repository sets one), and  *)
(* the close callback of the channel: it needs EPOLLHUP without EPOLLIN,   *)
(* which a TCP socket does not report while the mask has EPOLLIN, and by   *)
(* InterestsExact it always has.                                           *)
(***************************************************************************)
EXTENDS Naturals, Sequences, SequencesExt

CONSTANTS
  OfClient,      \* the cases that are checked: TcpClient's, TcpServer's, both
  SockCap,       \* bytes the socket takes before the peer reads
  MaxWrite       \* bound: bytes the program writes in all

ASSUME OfClientIsBool == OfClient \subseteq BOOLEAN
ASSUME SockCapAssumption == SockCap \in Nat \ {0}
ASSUME MaxWriteAssumption == MaxWrite \in Nat

VARIABLES
  ofClient,    \* the connection is TcpClient's, and not TcpServer's
  phase,       \* where the loop is
  todo,        \* callbacks of the channel left in this handleEvent()
  queue,       \* the loop's pending tasks, those of this connection
  batch,       \* the swapped vector; destroyed at the end of the iteration
  pos,         \* the next task of batch
  cb,          \* the code of the program that runs on the loop, or "none"
  guest,       \* another channel's handler may still run in this iteration
  foreign,     \* the other thread, inside forceClose() or not
  state,       \* _state
  callbacks,   \* _messageCallback and _writeCompleteCallback are set
  interests,   \* of the channel
  registered,  \* the poller's state is CHAN_SET
  added,       \* the channel's _addedInLoop
  wbuf,        \* bytes in _writeBuffer
  intact,      \* every byte put in _writeBuffer came from the caller's data
  stuck,       \* bytes left of a write() that blocks, on a blocking socket
  partial,     \* ... and it has written some bytes
  sockOut,     \* bytes in the socket the peer has not read
  shutWr,      \* shutdown(SHUT_WR) was called
  peer,        \* "open", "fin" (sends no more), "reset"
  sockErr,     \* the reset was not reported by a system call yet
  inbox,       \* the socket has bytes to read
  owned,       \* TcpServer or TcpClient holds its pointer
  used,        \* the program holds a pointer
  told,        \* history: the stage of the connection the program knows
  budget       \* bound: bytes the program may still write

loop  == <<phase, todo, batch, pos, guest>>
chan  == <<interests, registered, added>>
out   == <<wbuf, intact, stuck, partial, sockOut, budget>>
sock  == <<shutWr, peer, sockErr, inbox>>
refs  == <<owned, used>>
vars  == <<loop, queue, cb, foreign, state, callbacks, chan, out, sock, refs,
           ofClient, told>>

Tasks == {"establish", "forceClose", "writeComplete", "destroy"}
UserCode == {"connect", "message", "writeComplete", "close", "guest"}

\* Values of the variables; the callbacks are dropped when, and only when, the
\* connection is DISCONNECTED.
TypeOK ==
  /\ ofClient \in BOOLEAN
  /\ phase \in {"wait", "dispatch", "tasks"}
  /\ todo \in {<<>>, <<"establish">>, <<"read">>, <<"write">>,
              <<"read", "write">>}
  /\ queue \in Seq(Tasks)
  /\ batch \in Seq(Tasks)
  /\ pos \in 1..(Len(batch) + 1)
  /\ cb \in UserCode \cup {"none"}
  /\ guest \in BOOLEAN
  /\ foreign \in {"idle", "queueing"}
  /\ state \in {"CONNECTING", "ESTABLISHED", "DISCONNECTING", "DISCONNECTED"}
  /\ callbacks \in BOOLEAN
  /\ interests \in SUBSET {"in", "out"}
  /\ registered \in BOOLEAN
  /\ added \in BOOLEAN
  /\ wbuf \in 0..MaxWrite
  /\ intact \in BOOLEAN
  /\ stuck \in 0..MaxWrite
  /\ partial \in BOOLEAN
  /\ sockOut \in 0..SockCap
  /\ shutWr \in BOOLEAN
  /\ peer \in {"open", "fin", "reset"}
  /\ sockErr \in BOOLEAN
  /\ inbox \in BOOLEAN
  /\ owned \in BOOLEAN
  /\ used \in BOOLEAN
  /\ told \in {"new", "open", "closed"}
  /\ budget \in 0..MaxWrite
  /\ callbacks <=> state # "DISCONNECTED"

\* The owner made the connection and set its callbacks.  TcpServer queued the
\* task that establishes it; TcpClient, inside the handler of Connector's
\* channel, is about to do it on the spot.
Init ==
  /\ ofClient \in OfClient
  /\ \/ ofClient /\ phase = "dispatch" /\ todo = <<"establish">> /\ queue = <<>>
     \/ ~ofClient /\ phase = "wait" /\ todo = <<>> /\ queue = <<"establish">>
  /\ batch = <<>>
  /\ pos = 1
  /\ cb = "none"
  /\ guest = FALSE
  /\ foreign = "idle"
  /\ state = "CONNECTING"
  /\ callbacks = TRUE
  /\ interests = {}
  /\ registered = FALSE
  /\ added = FALSE
  /\ wbuf = 0
  /\ intact = TRUE
  /\ stuck = 0
  /\ partial = FALSE
  /\ sockOut = 0
  /\ shutWr = FALSE
  /\ peer = "open"
  /\ sockErr = FALSE
  /\ inbox = FALSE
  /\ owned = TRUE
  /\ used = FALSE
  /\ told = "new"
  /\ budget = MaxWrite

-----------------------------------------------------------------------------
(* References and the channel. *)

\* The tasks whose closure holds a shared_ptr.  The write-complete task holds
\* only `this'.
Holding == {"establish", "forceClose", "destroy"}

\* Some shared_ptr to the connection is left; without one it is deleted.
Alive ==
  \/ owned \/ used \/ cb # "none" \/ foreign = "queueing"
  \/ \E t \in ToSet(batch) \cup ToSet(queue) : t \in Holding

\* Channel::applyInterest(), as Poller's ApplyInterest.
ApplyInterest(new) ==
  /\ interests' = new
  /\ registered' = (registered => new # {})
  /\ added' = TRUE

\* The loop executes nothing of the program at this moment.
LoopFree == cb = "none"

AtTask(t) ==
  /\ phase = "tasks" /\ LoopFree
  /\ pos \in DOMAIN batch
  /\ batch[pos] = t

\* O_NONBLOCK: Connector's sockets have it, accepted ones not.
NonBlocking == ofClient

Min2(a, b) == IF a < b THEN a ELSE b
Room == SockCap - sockOut

\* A write() on the socket is refused with an error other than EWOULDBLOCK.
WriteFails == shutWr \/ peer = "reset"

-----------------------------------------------------------------------------
(* Closing. *)

\* Fault: a second call closes a second time.
HandleCloseUnguarded ==
  /\ state' = "DISCONNECTED"
  /\ ApplyInterest({})
  /\ callbacks' = FALSE
  /\ queue' = Append(queue, "destroy")
  /\ owned' = (owned /\ ~ofClient)

\* compareExchange(), compare2Exchange(): one step, under _stateLock.
Exchange(from, to) == state \in from /\ state' = to
Closing == {"ESTABLISHED", "DISCONNECTING"}

\* handleClose(), with the close callback that TcpServer and TcpClient set: it
\* queues connectDestroyed() and the program's close callback.  TcpClient also
\* drops its pointer; TcpServer does so on its own loop (OwnerReleases).
HandleClose ==
  \/ /\ Exchange(Closing, "DISCONNECTED")
     /\ ApplyInterest({})
     /\ callbacks' = FALSE
     /\ queue' = Append(queue, "destroy")
     /\ owned' = (owned /\ ~ofClient)
  \/ /\ state \notin Closing
     /\ UNCHANGED <<state, chan, callbacks, queue, owned>>

-----------------------------------------------------------------------------
(* The loop: epoll_wait and the callbacks of the channel. *)

ReadReady == registered /\ "in" \in interests /\ (inbox \/ peer # "open")
WriteReady == registered /\ "out" \in interests /\ (Room > 0 \/ WriteFails)

\* epoll_wait returns, for this connection or for anything else of the loop.
Poll ==
  /\ phase = "wait"
  /\ phase' = "dispatch"
  /\ todo' = (IF ReadReady THEN <<"read">> ELSE <<>>)
               \o (IF WriteReady THEN <<"write">> ELSE <<>>)
  /\ guest' = TRUE
  /\ UNCHANGED <<batch, pos, queue, cb, foreign, state, callbacks, chan, out,
                 sock, refs, ofClient, told>>

\* The next callback of handleEventGuarded() begins.
AtCallback(name) ==
  /\ phase = "dispatch" /\ LoopFree
  /\ todo # <<>> /\ Head(todo) = name
  /\ todo' = Tail(todo)
  /\ UNCHANGED <<phase, batch, pos, guest>>

\* handleRead(): bytes, for the message callback.
ReadMessage ==
  /\ AtCallback("read")
  /\ inbox
  /\ inbox' = FALSE
  /\ cb' = IF callbacks THEN "message" ELSE "none"
  /\ UNCHANGED <<queue, foreign, state, callbacks, chan, out, shutWr, peer,
                 sockErr, refs, ofClient, told>>

\* handleRead(): the reset is reported once, as an error.  handleError() only
\* tells the program; the next read is an end of file.
ReadError ==
  /\ AtCallback("read")
  /\ ~inbox /\ sockErr
  /\ sockErr' = FALSE
  /\ UNCHANGED <<queue, cb, foreign, state, callbacks, chan, out, shutWr, peer,
                 inbox, refs, ofClient, told>>

\* Fault: the end of the stream is only reported, as an error is.
ReadEofReported ==
  /\ AtCallback("read")
  /\ ~inbox /\ ~sockErr
  /\ UNCHANGED <<queue, state, callbacks, chan, cb, foreign, out, sock, refs,
                 ofClient, told>>

\* handleRead(): end of file.
ReadEof ==
  /\ AtCallback("read")
  /\ ~inbox /\ ~sockErr
  /\ HandleClose
  /\ UNCHANGED <<cb, foreign, out, sock, used, ofClient, told>>

\* Fault: the write interest stays when the buffer is empty.
HandleWriteKeepsInterest ==
  /\ AtCallback("write")
  /\ \/ /\ WriteFails
        /\ sockErr' = FALSE
        /\ UNCHANGED <<wbuf, sockOut, queue>>
     \/ /\ ~WriteFails
        /\ wbuf' = wbuf - Min2(wbuf, Room)
        /\ sockOut' = sockOut + Min2(wbuf, Room)
        /\ queue' = IF wbuf' = 0 /\ callbacks
                    THEN Append(queue, "writeComplete") ELSE queue
        /\ UNCHANGED sockErr
  /\ UNCHANGED <<chan, cb, foreign, state, callbacks, intact, stuck, partial,
                 budget, shutWr, peer, inbox, refs, ofClient, told>>

\* handleWrite(): the socket takes what it has room for, also on a blocking
\* socket, whose buffer is used only after a reset.  An emptied buffer drops
\* the write interest and announces that all was written.
HandleWrite ==
  /\ AtCallback("write")
  /\ \/ /\ WriteFails
        /\ sockErr' = FALSE
        /\ UNCHANGED <<wbuf, sockOut, chan, queue>>
     \/ /\ ~WriteFails
        /\ wbuf' = wbuf - Min2(wbuf, Room)
        /\ sockOut' = sockOut + Min2(wbuf, Room)
        /\ IF wbuf' = 0
           THEN /\ ApplyInterest(interests \ {"out"})
                /\ queue' = IF callbacks THEN Append(queue, "writeComplete")
                                         ELSE queue
           ELSE UNCHANGED <<chan, queue>>
        /\ UNCHANGED sockErr
  /\ UNCHANGED <<cb, foreign, state, callbacks, intact, stuck, partial, budget,
                 shutWr, peer, inbox, refs, ofClient, told>>

\* The channel is handled; loop() swaps the pending tasks out.
Swap ==
  /\ phase = "dispatch" /\ LoopFree
  /\ todo = <<>>
  /\ phase' = "tasks"
  /\ batch' = queue
  /\ queue' = <<>>
  /\ pos' = 1
  /\ UNCHANGED <<todo, guest, cb, foreign, state, callbacks, chan, out, sock,
                 refs, ofClient, told>>

\* All tasks are executed: the vector and its closures are destroyed.
EndIteration ==
  /\ phase = "tasks" /\ LoopFree
  /\ pos \notin DOMAIN batch
  /\ phase' = "wait"
  /\ batch' = <<>>
  /\ pos' = 1
  /\ guest' = FALSE
  /\ UNCHANGED <<todo, queue, cb, foreign, state, callbacks, chan, out, sock,
                 refs, ofClient, told>>

-----------------------------------------------------------------------------
(* The tasks. *)

TakeTask(t) ==
  /\ AtTask(t)
  /\ pos' = pos + 1
  /\ UNCHANGED <<phase, todo, batch, guest>>

\* connectEstablished() and the connect callback, in which the program may keep
\* a pointer.
Establish ==
  /\ TakeTask("establish") \/ AtCallback("establish")
  /\ state' = "ESTABLISHED"
  /\ ApplyInterest(interests \cup {"in"})
  /\ cb' = "connect"
  /\ told' = "open"
  /\ used' \in BOOLEAN
  /\ UNCHANGED <<queue, foreign, callbacks, out, sock, owned, ofClient>>

\* The task of forceClose().
RunForceClose ==
  /\ TakeTask("forceClose")
  /\ HandleClose
  /\ UNCHANGED <<cb, foreign, out, sock, used, ofClient, told>>

\* The task of a completed write; it tests the callback again.
RunWriteComplete ==
  /\ TakeTask("writeComplete")
  /\ cb' = IF callbacks THEN "writeComplete" ELSE "none"
  /\ UNCHANGED <<queue, foreign, state, callbacks, chan, out, sock, refs, ofClient, told>>

\* connectDestroyed() after handleClose(): the state is DISCONNECTED already and
\* the channel is removed.  Then the program's close callback.
RunDestroy ==
  /\ TakeTask("destroy")
  /\ registered' = FALSE
  /\ added' = FALSE
  /\ cb' = "close"
  /\ told' = "closed"
  /\ UNCHANGED <<queue, foreign, state, callbacks, interests, out, sock, refs, ofClient>>

-----------------------------------------------------------------------------
(* The program, on the loop. *)

\* Code of the program runs on the loop's thread and is not inside write().
Running == cb # "none" /\ stuck = 0

Return ==
  /\ Running
  /\ cb' = "none"
  /\ UNCHANGED <<loop, queue, foreign, state, callbacks, chan, out, sock, refs,
                 ofClient, told>>

\* A handler of another channel that has a pointer to the connection.
BeginGuest ==
  /\ phase # "wait" /\ LoopFree
  /\ guest /\ used
  /\ guest' = FALSE
  /\ cb' = "guest"
  /\ UNCHANGED <<phase, todo, batch, pos, queue, foreign, state, callbacks, chan,
                 out, sock, refs, ofClient, told>>

\* Fault: a closing connection too asks for EPOLLOUT.
BufferIgnoresClose(n) ==
  /\ wbuf' = wbuf + n
  /\ ApplyInterest(interests \cup {"out"})

\* The end of write(): n bytes go to _writeBuffer, and unless the connection is
\* closing the channel asks for EPOLLOUT.  Another thread may force the close
\* between the test and the call; that is as if it came after both.
Buffer(n) ==
  /\ wbuf' = wbuf + n
  /\ IF state \notin {"DISCONNECTING", "DISCONNECTED"} /\ "out" \notin interests
     THEN ApplyInterest(interests \cup {"out"})
     ELSE UNCHANGED chan

\* Fault: the task is queued whether the callback is set or not.
AnnounceAlways ==
  queue' = Append(queue, "writeComplete")

\* All was written at once: the program is told by a task.
Announce ==
  queue' = IF callbacks THEN Append(queue, "writeComplete") ELSE queue

\* write() with nothing buffered: straight to the socket.
WriteDirect(len) ==
  /\ "out" \notin interests /\ wbuf = 0
  /\ \/ /\ WriteFails
        /\ sockErr' = FALSE
        /\ UNCHANGED <<wbuf, stuck, partial, sockOut, chan, queue>>
     \/ /\ ~WriteFails /\ len <= Room
        /\ sockOut' = sockOut + len
        /\ Announce
        /\ UNCHANGED <<wbuf, stuck, partial, chan, sockErr>>
     \/ /\ ~WriteFails /\ len > Room /\ NonBlocking
        /\ sockOut' = SockCap
        /\ Buffer(len - Room)
        /\ UNCHANGED <<stuck, partial, sockErr, queue>>
     \/ /\ ~WriteFails /\ len > Room /\ ~NonBlocking
        /\ sockOut' = SockCap
        /\ stuck' = len - Room
        /\ partial' = (Room > 0)
        /\ UNCHANGED <<wbuf, chan, sockErr, queue>>
  /\ UNCHANGED intact

\* write() behind buffered bytes.  `written' is never assigned on this path, and
\* the bytes are taken from data + written.
WriteBehind(len) ==
  /\ "out" \in interests \/ wbuf > 0
  /\ Buffer(len)
  /\ intact' \in {intact, FALSE}
  /\ UNCHANGED <<stuck, partial, sockOut, sockErr, queue>>

Write ==
  /\ Running
  /\ \E len \in 1..budget :
       /\ budget' = budget - len
       /\ WriteDirect(len) \/ WriteBehind(len)
  /\ UNCHANGED <<loop, cb, foreign, state, callbacks, shutWr, peer, inbox, refs,
                 ofClient, told>>

\* A blocked write() goes on when the peer has read ...
WriteGoesOn ==
  /\ stuck > 0 /\ ~WriteFails /\ Room > 0
  /\ stuck' = stuck - Min2(stuck, Room)
  /\ sockOut' = sockOut + Min2(stuck, Room)
  /\ partial' = (stuck' > 0)
  /\ IF stuck' = 0 THEN Announce ELSE UNCHANGED queue
  /\ UNCHANGED <<loop, cb, foreign, state, callbacks, chan, wbuf, intact, budget,
                 sock, refs, ofClient, told>>

\* ... and fails when the peer resets: with what it has written, or with -1.
WriteBreaks ==
  /\ stuck > 0 /\ WriteFails
  /\ stuck' = 0
  /\ partial' = FALSE
  /\ \/ partial /\ Buffer(stuck) /\ UNCHANGED sockErr
     \/ ~partial /\ sockErr' = FALSE /\ UNCHANGED <<wbuf, chan>>
  /\ UNCHANGED <<loop, queue, cb, foreign, state, callbacks, intact, sockOut,
                 budget, shutWr, peer, inbox, refs, ofClient, told>>

\* shutdown(), on the loop's thread: at once, whatever is buffered.
Shutdown ==
  /\ Running
  /\ ~shutWr
  /\ shutWr' = TRUE
  /\ UNCHANGED <<loop, queue, cb, foreign, state, callbacks, chan, out, peer,
                 sockErr, inbox, refs, ofClient, told>>

\* forceClose() on the loop's thread.
ForceClose ==
  /\ Running
  /\ Exchange({"ESTABLISHED"}, "DISCONNECTING")
  /\ queue' = Append(queue, "forceClose")
  /\ UNCHANGED <<loop, cb, foreign, callbacks, chan, out, sock, refs, ofClient, told>>

-----------------------------------------------------------------------------
(* Elsewhere. *)

\* forceClose() on another thread: the exchange under the lock ...
ForeignForceClose ==
  /\ foreign = "idle" /\ used
  /\ Exchange({"ESTABLISHED"}, "DISCONNECTING")
  /\ foreign' = "queueing"
  /\ UNCHANGED <<loop, queue, cb, callbacks, chan, out, sock, refs, ofClient, told>>

\* ... and queueInLoop().
ForeignQueue ==
  /\ foreign = "queueing"
  /\ foreign' = "idle"
  /\ queue' = Append(queue, "forceClose")
  /\ UNCHANGED <<loop, cb, state, callbacks, chan, out, sock, refs, ofClient, told>>

\* TcpServer erases its pointer, in a task of its own loop.
OwnerReleases ==
  /\ ~ofClient /\ owned /\ state = "DISCONNECTED"
  /\ owned' = FALSE
  /\ UNCHANGED <<loop, queue, cb, foreign, state, callbacks, chan, out, sock,
                 used, ofClient, told>>

\* The program drops its pointer, at the earliest in the close callback.
DropPointer ==
  /\ used /\ told = "closed"
  /\ used' = FALSE
  /\ UNCHANGED <<loop, queue, cb, foreign, state, callbacks, chan, out, sock,
                 owned, ofClient, told>>

\* The peer sends, stops sending, resets, reads, as long as the socket exists.
Peer ==
  /\ Alive
  /\ \/ peer = "open" /\ inbox' = TRUE /\ UNCHANGED <<peer, sockErr, sockOut>>
     \/ peer = "open" /\ peer' = "fin" /\ UNCHANGED <<inbox, sockErr, sockOut>>
     \/ /\ peer # "reset" /\ peer' = "reset" /\ sockErr' = TRUE
        /\ UNCHANGED <<inbox, sockOut>>
     \/ /\ peer # "reset" /\ sockOut > 0 /\ sockOut' = sockOut - 1
        /\ UNCHANGED <<inbox, peer, sockErr>>
  /\ UNCHANGED <<loop, queue, cb, foreign, state, callbacks, chan, wbuf, intact,
                 stuck, partial, budget, shutWr, refs, ofClient, told>>

Loop ==
  \/ ReadMessage \/ ReadError \/ ReadEof \/ HandleWrite
  \/ Swap \/ Establish \/ RunForceClose \/ RunWriteComplete \/ RunDestroy
  \/ EndIteration
  \/ Return \/ WriteGoesOn \/ WriteBreaks

Next ==
  \/ Loop \/ Poll
  \/ BeginGuest \/ Write \/ Shutdown \/ ForceClose
  \/ ForeignForceClose \/ ForeignQueue \/ OwnerReleases \/ DropPointer
  \/ Peer

SafeSpec == Init /\ [][Next]_vars

\* epoll_wait returns for a ready channel and for a queued task.
Wakes == ReadReady \/ WriteReady \/ queue # <<>>

\* The loop's thread runs, the program's callbacks return, a thread inside
\* forceClose() gets out of it, the owner's loop runs the erasing task.  Of the
\* peer nothing is assumed: it need not read, send or close.
Fairness ==
  /\ WF_vars(Loop \/ (Wakes /\ Poll))
  /\ WF_vars(ForeignQueue)
  /\ WF_vars(OwnerReleases)

Spec == SafeSpec /\ Fairness

-----------------------------------------------------------------------------
(* Properties. *)

\* The callbacks of a channel, and the tasks that hold only `this', find the
\* connection they belong to: the locked weak pointer of Channel::handleEvent()
\* is gone before the first callback runs, and the task of a completed write
\* holds no pointer at all.
NoUseAfterFree ==
  todo # <<>> \/ (\E i \in DOMAIN batch : i >= pos) \/ queue # <<>> => Alive

\* The assertions of the code: what is deleted was closed and taken out of the
\* loop (~TcpConnection(), ~Channel()), and connectDestroyed() finds the channel
\* without interests (remove()), whatever was written, read or closed since
\* handleClose().
AssertionsHold ==
  /\ ~Alive => state = "DISCONNECTED" /\ ~added /\ ~registered
  /\ AtTask("destroy") => interests = {} /\ state = "DISCONNECTED"

\* An accepted socket blocks, so its connection buffers nothing before a reset:
\* shutdown(), which StaticHandler calls when it has written its file, then
\* cuts nothing off.
BufferOnlyAfterReset == ~NonBlocking /\ wbuf > 0 => peer = "reset"

\* epoll_wait returns for a writable socket, and handleWrite() can only fail.
InVain == WriteReady /\ WriteFails

\* While the loop is in epoll_wait, an established connection watches for
\* EPOLLOUT exactly when it has bytes buffered, and a registered one for
\* EPOLLIN: the end of the stream, or a reset, always reaches handleRead().
\* EPOLLOUT is reported in vain only after a reset, which handleRead() will
\* find, or after shutdown() on a client's socket; an accepted one has nothing
\* in its buffer that shutdown() could cut off.  It is no promise that what is
\* buffered is sent: see SpinEnds and EofLosesNothing.
InterestsExact ==
  /\ phase = "wait" =>
       /\ state = "ESTABLISHED" => ("out" \in interests <=> wbuf > 0)
       /\ registered => "in" \in interests
  /\ InVain => peer = "reset" \/ (NonBlocking /\ shutWr)
  /\ BufferOnlyAfterReset

\* The program sees the life ConnectionLife describes, and a connection whose
\* peer went away, or that was told to close, is reported closed.
Life == INSTANCE ConnectionLife WITH
          stage <- told,
          calls <- IF cb = "guest" THEN "none" ELSE cb,
          ending <- peer # "open" \/ state \in {"DISCONNECTING", "DISCONNECTED"},
          blocked <- stuck > 0
ImplementsLife == Life!Spec

\* The descriptor of a connection that ended is closed, unless the program keeps
\* a pointer, or is inside a write() that blocks.
Released == (peer # "open") ~> (~Alive \/ used \/ stuck > 0)

\* What does not hold of an accepted, blocking socket: the loop always comes back
\* to epoll_wait and its other connections.
LoopComesBack == []<>(phase = "wait")

\* What does not hold of a client's socket: a loop that is woken in vain is not
\* so for good.  shutdown() with bytes in the buffer makes every write fail,
\* handleWrite() keeps the bytes and the interest, and the loop spins for as long
\* as the peer leaves the connection open.
SpinEnds == []<>~InVain

\* What the peer receives is what the program wrote.
StreamIntact == intact

\* "the peer has nothing more to send us; we can safely close the connection":
\* nothing that write() accepted is thrown away by it.
EofLosesNothing == [][ReadEof => wbuf = 0]_vars

-----------------------------------------------------------------------------
(* Why the invariants hold: what every step preserves. *)

\* The tasks of s from its place first on are all of the kinds in T.
Only(s, first, T) == \A i \in first..Len(s) : s[i] \in T

\* One of them destroys the connection.  Its successors come from forceClose()
\* alone: handleClose() took the callbacks away when it queued that task.
DestroyIn(s, first) ==
  \E i \in first..Len(s) :
    /\ s[i] = "destroy"
    /\ \A j \in first..(i - 1) : s[j] \in {"forceClose", "writeComplete"}
    /\ Only(s, i + 1, {"forceClose"})

\* Exactly one task ahead of the loop destroys the connection.
DestroyAhead ==
  \/ DestroyIn(batch, pos) /\ Only(queue, 1, {"forceClose"})
  \/ Only(batch, pos, {"forceClose", "writeComplete"}) /\ DestroyIn(queue, 1)

\* Before it is established the connection has that one task, or TcpClient is
\* about to do it; nothing else has begun.
NotYetEstablished ==
  /\ state = "CONNECTING"
  /\ owned /\ ~used /\ cb = "none" /\ foreign = "idle"
  /\ interests = {} /\ ~registered /\ ~added /\ wbuf = 0
  /\ \/ todo = <<"establish">> /\ batch = <<>> /\ queue = <<>>
     \/ todo = <<>> /\ batch = <<>> /\ queue = <<"establish">>
     \/ todo = <<>> /\ batch = <<"establish">> /\ pos = 1 /\ queue = <<>>

\* From then to handleClose() it listens, is held by its owner, and watches for
\* EPOLLOUT while it buffers; a closing one may buffer without.
Connected ==
  /\ state \in {"ESTABLISHED", "DISCONNECTING"}
  /\ owned /\ registered /\ "in" \in interests
  /\ state = "ESTABLISHED" /\ wbuf > 0 => "out" \in interests
  /\ "out" \in interests => wbuf > 0
  /\ todo # <<"establish">>
  /\ Only(batch, pos, {"forceClose", "writeComplete"})
  /\ Only(queue, 1, {"forceClose", "writeComplete"})

\* handleClose() ran and the program does not know.  What is left of the event
\* may register the channel again, without interests; the task that removes it is
\* executed before the loop polls.
Disconnected ==
  /\ state = "DISCONNECTED"
  /\ interests = {}
  /\ todo # <<"establish">>
  /\ DestroyAhead
  /\ todo # <<>> => DestroyIn(queue, 1)
  /\ registered => \/ phase = "dispatch" /\ DestroyIn(queue, 1)
                   \/ phase = "tasks" /\ DestroyIn(batch, pos)

\* connectDestroyed() ran: nothing but forceClose() is ahead.
Destroyed ==
  /\ state = "DISCONNECTED"
  /\ interests = {} /\ ~registered /\ ~added
  /\ todo = <<>>
  /\ Only(batch, pos, {"forceClose"})
  /\ Only(queue, 1, {"forceClose"})

\* A write() that blocks was called by the program, before shutdown(), on a
\* blocking socket; and the bytes are those of the budget.
WriteBlocks ==
  /\ stuck > 0 => cb # "none" /\ ~shutWr /\ ~NonBlocking
  /\ wbuf + stuck + budget <= MaxWrite

\* The callbacks of the channel are called in "dispatch", the vector is there in
\* "tasks".
PhaseExact ==
  /\ phase # "dispatch" => todo = <<>>
  /\ phase # "tasks" => batch = <<>>

\* The three stages of a connection, as the program knows them.
Stages ==
  /\ told = "new" => NotYetEstablished
  /\ told = "open" => Connected \/ Disconnected
  /\ told = "closed" => Destroyed

InductiveInv ==
  /\ TypeOK
  /\ Stages
  /\ WriteBlocks /\ PhaseExact /\ BufferOnlyAfterReset
=============================================================================
