------------------------------ MODULE Connector ------------------------------
(***************************************************************************)
(* core/Connector.hpp and core/TcpClient.hpp: one TcpClient, the Connector *)
(* it shares with closures, and the connections it makes one after another. *)
(*                                                                         *)
(* The loop is that of TcpConnection.tla: an iteration handles what        *)
(* epoll_wait returned, swaps the pending tasks, executes them, and        *)
(* destroys their closures together at its end.  A connection is that of   *)
(* TcpConnection.tla without its data.  The program calls the client from  *)
(* handlers and tasks of the loop, and stopConnect() from any thread.      *)
(*                                                                         *)
(* Left out: the delay of a retry, which only says when its timer expires. *)
(***************************************************************************)
EXTENDS Naturals, Sequences, SequencesExt

CONSTANTS
  Sock,        \* the sockets; a closed one is used again
  NoSock,      \* no socket
  Reconnect,   \* enableReconnect() was called
  MaxStarts,   \* bound: calls of start()
  MaxStops     \* bound: calls of Connector::stop()

ASSUME NoSockAssumption == NoSock \notin Sock
ASSUME NamesAssumption == (Sock \cup {NoSock}) \cap {"connector", "timer"} = {}
ASSUME ParameterAssumption ==
  Reconnect \in BOOLEAN /\ MaxStarts \in Nat /\ MaxStops \in Nat

VARIABLES
  clientRunning,   \* TcpClient::_running
  connection,      \* TcpClient::_connection, as its socket
  running,         \* Connector::_running
  state,           \* Connector::_state
  channel,         \* Connector::_channel, as its socket
  inLoop,          \* that channel is registered, for EPOLLOUT
  timers,          \* pending timers of retry()
  sock,            \* whose the sockets are
  connState,       \* _state of the TcpConnection of a socket
  phase,           \* where the loop is
  active,          \* _activeChannels not handled yet
  queue,           \* its pending tasks
  batch, pos,      \* its swapped tasks, and which is next
  restarting,      \* TcpClient::handleClose() is about to call restart()
  other,           \* where another thread is in stopConnect()
  client,          \* the TcpClient is not deleted
  starts, stops,   \* calls of start() and stop()
  stopped,         \* who called stopConnect(), until start() (history)
  gaveUp           \* connect() met an error that is not retried (history)

connector == <<running, state, channel, inLoop, timers>>
tcp  == <<connection, connState>>
loop == <<phase, active, batch, pos>>
user == <<clientRunning, client, starts, stops, stopped>>
vars == <<connector, tcp, sock, loop, queue, restarting, other, user, gaveUp>>

TaskOf == [kind : {"start", "stop", "reset", "close", "destroy"},
           sock : Sock \cup {NoSock}]
OpenState == {"ESTABLISHED", "DISCONNECTING"}

\* Values of the variables; a socket that was handed over has a connection.
TypeOK ==
  /\ clientRunning \in BOOLEAN /\ running \in BOOLEAN
  /\ connection \in Sock \cup {NoSock}
  /\ state \in {"DISCONNECTED", "CONNECTING", "RETRYING", "CONNECTED"}
  /\ channel \in Sock \cup {NoSock}
  /\ inLoop \in BOOLEAN
  /\ timers \in Nat
  /\ sock \in [Sock -> {"closed", "connecting", "handed"}]
  /\ connState \in [Sock -> OpenState \cup {"none", "DISCONNECTED"}]
  /\ phase \in {"wait", "dispatch", "tasks"}
  /\ active \subseteq {"connector", "timer"} \cup Sock
  /\ queue \in Seq(TaskOf) /\ batch \in Seq(TaskOf)
  /\ pos \in 1..(Len(batch) + 1)
  /\ restarting \in BOOLEAN
  /\ other \in {"idle", "clientStopped", "stopped"}
  /\ client \in BOOLEAN
  /\ starts \in 0..MaxStarts /\ stops \in 0..MaxStops
  /\ stopped \in {"no", "loop", "other"}
  /\ gaveUp \in BOOLEAN
  /\ \A s \in Sock : sock[s] = "handed" <=> connState[s] # "none"

\* TcpClient::TcpClient().
Init ==
  /\ clientRunning = FALSE /\ running = FALSE
  /\ connection = NoSock
  /\ state = "DISCONNECTED"
  /\ channel = NoSock /\ inLoop = FALSE
  /\ timers = 0
  /\ sock = [s \in Sock |-> "closed"]
  /\ connState = [s \in Sock |-> "none"]
  /\ phase = "wait" /\ active = {}
  /\ queue = <<>> /\ batch = <<>> /\ pos = 1
  /\ restarting = FALSE
  /\ other = "idle"
  /\ client = TRUE
  /\ starts = 0 /\ stops = 0 /\ stopped = "no"
  /\ gaveUp = FALSE

-----------------------------------------------------------------------------
(* Tasks and pointers. *)

Task(kind, s) == [kind |-> kind, sock |-> s]
Push(kind, s) == queue' = Append(queue, Task(kind, s))

\* The tasks that have yet to run, and the closures that are not destroyed.
ToDo == SubSeq(batch, pos, Len(batch)) \o queue
Closures == ToSet(batch) \cup ToSet(queue)
Pending(kind) == \E t \in ToSet(ToDo) : t.kind = kind

\* Fault: the task of stop() holds only `this'.
ConnectorAliveWithoutStop == client \/ timers > 0

\* Some shared_ptr to the Connector is left: the client's, that of the closure
\* of a stop(), that of a retry timer.
ConnectorAlive ==
  client \/ timers > 0 \/ \E t \in Closures : t.kind = "stop"

-----------------------------------------------------------------------------
(* Connector. *)

\* retry(), once the socket is closed: the timers, with n left beside its own.
Retried(n) == IF running' THEN n + 1 ELSE n

\* connect(), on a new socket: under way, refused, or an error that is not
\* retried.  n timers are left beside those of a retry.
\* The old channel, if any, is deleted; the new socket's name is not its, which
\* its descriptor's number may be.
Connect(n) ==
  \/ \E s \in Sock :
       /\ sock[s] = "closed" /\ s # channel
       /\ sock' = [sock EXCEPT ![s] = "connecting"]
       /\ state' = "CONNECTING"
       /\ channel' = s /\ inLoop' = TRUE
       /\ timers' = n
       /\ UNCHANGED gaveUp
  \/ /\ timers' = Retried(n)
     /\ UNCHANGED <<sock, state, channel, inLoop, gaveUp>>
  \/ /\ gaveUp' = TRUE
     /\ timers' = n
     /\ UNCHANGED <<sock, state, channel, inLoop>>

\* The loop handles something epoll_wait returned.
Handles(a) ==
  /\ phase = "dispatch" /\ ~restarting
  /\ a \in active
  /\ active' = active \ {a}
  /\ UNCHANGED <<phase, batch, pos>>

\* unregisterChannel() and what follows it.
Ends(new, owner) ==
  /\ state' = new
  /\ inLoop' = FALSE
  /\ sock' = [sock EXCEPT ![channel] = owner]

\* handleError(), or handleWrite() that finds an error or itself as its peer:
\* retry() leaves n timers.
FailsLeaving(n) ==
  /\ Handles("connector")
  /\ state = "CONNECTING"
  /\ Ends("RETRYING", "closed")
  /\ UNCHANGED running
  /\ timers' = n
  /\ UNCHANGED <<channel, tcp, queue, restarting, other, user, gaveUp>>

\* Fault: no retry().
FailsGivesUp == FailsLeaving(timers)

Fails == FailsLeaving(Retried(timers))

\* handleWrite() that finds the socket connected, and newConnection(): the
\* socket is handed over, or closed when it is not wanted any more.
SucceedsIf(wanted) ==
  /\ Handles("connector")
  /\ state = "CONNECTING"
  /\ Push("reset", NoSock)
  /\ \/ /\ wanted
        /\ Ends("CONNECTED", "handed")
        /\ connection' = channel
        /\ connState' = [connState EXCEPT ![channel] = "ESTABLISHED"]
     \/ /\ ~wanted
        /\ Ends("CONNECTED", "closed")
        /\ UNCHANGED tcp
  /\ UNCHANGED <<running, channel, timers, restarting, other, user, gaveUp>>

\* Fault: _running is not looked at.
SucceedsAlways == SucceedsIf(TRUE)

Succeeds == SucceedsIf(running)

\* The timer of retry().
Expires ==
  /\ Handles("timer")
  /\ UNCHANGED running
  /\ \/ running /\ Connect(timers - 1)
     \/ /\ ~running
        /\ timers' = timers - 1
        /\ UNCHANGED <<sock, state, channel, inLoop, gaveUp>>
  /\ UNCHANGED <<tcp, queue, restarting, other, user>>

-----------------------------------------------------------------------------
(* The connection. *)

\* TcpConnection::handleClose() and, as its close callback,
\* TcpClient::handleClose() up to restart().
HandleClose(s) ==
  \/ /\ connState[s] \in OpenState
     /\ connState' = [connState EXCEPT ![s] = "DISCONNECTED"]
     /\ connection' = NoSock
     /\ Push("destroy", s)
     /\ restarting' = (Reconnect /\ clientRunning)
  \/ /\ connState[s] \notin OpenState
     /\ UNCHANGED <<tcp, queue, restarting>>

ReadEof(s) ==
  /\ Handles(s)
  /\ HandleClose(s)
  /\ UNCHANGED <<connector, sock, other, user, gaveUp>>

\* restart().
Restart ==
  /\ restarting
  /\ restarting' = FALSE
  /\ running' = TRUE
  /\ Connect(timers)
  /\ UNCHANGED <<tcp, loop, queue, other, user>>

-----------------------------------------------------------------------------
(* The loop. *)

\* epoll_wait returns, for some of what is ready or for something else.
Poll ==
  /\ phase = "wait"
  /\ phase' = "dispatch"
  /\ active' \in SUBSET ({a \in {"connector"} : inLoop} \cup
                         {a \in {"timer"} : timers > 0} \cup
                         {s \in Sock : connState[s] \in OpenState})
  /\ UNCHANGED <<connector, tcp, sock, queue, batch, pos, restarting, other, user,
                 gaveUp>>

Swap ==
  /\ phase = "dispatch" /\ ~restarting /\ active = {}
  /\ phase' = "tasks"
  /\ batch' = queue /\ queue' = <<>> /\ pos' = 1
  /\ UNCHANGED <<connector, tcp, sock, active, restarting, other, user, gaveUp>>

AtTask(kind) ==
  /\ phase = "tasks" /\ ~restarting
  /\ pos \in DOMAIN batch /\ batch[pos].kind = kind

Runs(kind) ==
  /\ AtTask(kind)
  /\ pos' = pos + 1
  /\ UNCHANGED <<phase, active, batch>>

\* The task of start().
RunStart ==
  /\ Runs("start")
  /\ UNCHANGED running
  /\ \/ running /\ Connect(timers)
     \/ ~running /\ UNCHANGED <<sock, state, channel, inLoop, timers, gaveUp>>
  /\ UNCHANGED <<tcp, queue, restarting, other, user>>

\* The task of stop(): whether it ends an attempt, and whose the socket is then.
StopTask(ends, owner) ==
  /\ Runs("stop")
  /\ \/ /\ ends
        /\ Ends(state, owner)
        /\ channel' = NoSock
     \/ /\ ~ends
        /\ channel' = IF state = "RETRYING" THEN NoSock ELSE channel
        /\ UNCHANGED <<sock, state, inLoop>>
  /\ UNCHANGED <<running, timers, tcp, queue, restarting, other, user, gaveUp>>

\* Faults: the socket is not closed; an attempt under way is left to itself.
RunStopKeepsSocket == StopTask(state = "CONNECTING", "connecting")
RunStopLate        == StopTask(FALSE, "closed")

RunStop == StopTask(state = "CONNECTING", "closed")

\* The task of handleWrite(): "avoid reset in the middle of a loop".
RunReset ==
  /\ Runs("reset")
  /\ channel' = NoSock
  /\ UNCHANGED <<running, state, inLoop, timers, tcp, sock, queue, restarting,
                 other, user, gaveUp>>

\* The task of forceClose().
RunClose ==
  /\ Runs("close")
  /\ HandleClose(batch[pos].sock)
  /\ UNCHANGED <<connector, sock, other, user, gaveUp>>

\* The task of TcpClient::handleClose().
RunDestroy ==
  /\ Runs("destroy")
  /\ UNCHANGED <<connector, tcp, sock, queue, restarting, other, user, gaveUp>>

\* The closures of the iteration are destroyed, and with the last of them a
\* connection, which closes its socket.
EndIteration ==
  /\ phase = "tasks" /\ ~restarting /\ pos = Len(batch) + 1
  /\ phase' = "wait"
  /\ batch' = <<>> /\ pos' = 1
  /\ LET gone == {s \in Sock : /\ connState[s] = "DISCONNECTED"
                               /\ \A t \in ToSet(queue) : t.sock # s}
     IN /\ sock' = [s \in Sock |-> IF s \in gone THEN "closed" ELSE sock[s]]
        /\ connState' = [s \in Sock |-> IF s \in gone THEN "none" ELSE connState[s]]
  /\ UNCHANGED <<connector, connection, active, queue, restarting, other, user,
                 gaveUp>>

-----------------------------------------------------------------------------
(* The program. *)

\* A handler or a task of the program runs, on the loop's thread.
InCallback == phase \in {"dispatch", "tasks"} /\ ~restarting

\* start().
Start ==
  /\ InCallback /\ client /\ starts < MaxStarts
  /\ starts' = starts + 1 /\ stopped' = "no"
  /\ clientRunning' = TRUE /\ running' = TRUE
  /\ Push("start", NoSock)
  /\ UNCHANGED <<state, channel, inLoop, timers, tcp, sock, loop, restarting,
                 other, client, stops, gaveUp>>

\* stopConnect(), on the loop's thread.
StopConnect ==
  /\ InCallback /\ client /\ stops < MaxStops /\ other = "idle"
  /\ stops' = stops + 1 /\ stopped' = "loop"
  /\ clientRunning' = FALSE /\ running' = FALSE
  /\ Push("stop", NoSock)
  /\ UNCHANGED <<state, channel, inLoop, timers, tcp, sock, loop, restarting,
                 other, client, starts, gaveUp>>

\* stopConnect(), on another thread: the two stores and queueInLoop().
OtherStopsClient ==
  /\ client /\ stops < MaxStops /\ starts > 0 /\ other = "idle"
  /\ other' = "clientStopped"
  /\ stops' = stops + 1
  /\ clientRunning' = FALSE
  /\ UNCHANGED <<connector, tcp, sock, loop, queue, restarting, client, starts,
                 stopped, gaveUp>>

OtherStops ==
  /\ other = "clientStopped"
  /\ other' = "stopped"
  /\ running' = FALSE
  /\ UNCHANGED <<state, channel, inLoop, timers, tcp, sock, loop, queue,
                 restarting, user, gaveUp>>

OtherQueues ==
  /\ other = "stopped"
  /\ other' = "idle"
  /\ stopped' = "other"
  /\ Push("stop", NoSock)
  /\ UNCHANGED <<connector, tcp, sock, loop, restarting, clientRunning, client,
                 starts, stops, gaveUp>>

\* forceClose(), on the loop's thread.
ForceClose ==
  /\ InCallback /\ client
  /\ connection # NoSock /\ connState[connection] = "ESTABLISHED"
  /\ clientRunning' = FALSE
  /\ connState' = [connState EXCEPT ![connection] = "DISCONNECTING"]
  /\ Push("close", connection)
  /\ UNCHANGED <<connector, connection, sock, loop, restarting, other, client,
                 starts, stops, stopped, gaveUp>>

\* forceClose() that finds nothing to close, or shutdown(): the peer may answer
\* it with the end of its side, which it may send without it.
Shutdown ==
  /\ InCallback /\ client
  /\ clientRunning' = FALSE
  /\ UNCHANGED <<connector, tcp, sock, loop, queue, restarting, other, client,
                 starts, stops, stopped, gaveUp>>

\* ~TcpClient(), on the loop's thread, without a connection and with no task of
\* one that still calls back: it stops the connector.
Delete ==
  /\ InCallback /\ client /\ stops < MaxStops /\ other = "idle"
  /\ connection = NoSock /\ ~Pending("destroy")
  /\ client' = FALSE
  /\ stops' = stops + 1 /\ stopped' = "loop"
  /\ running' = FALSE
  /\ Push("stop", NoSock)
  /\ UNCHANGED <<state, channel, inLoop, timers, tcp, sock, loop, restarting,
                 other, clientRunning, starts, gaveUp>>

Loop ==
  \/ Fails \/ Succeeds \/ Expires \/ Restart
  \/ \E s \in Sock : ReadEof(s)
  \/ Swap \/ RunStart \/ RunStop \/ RunReset \/ RunClose \/ RunDestroy
  \/ EndIteration

Next ==
  \/ Loop \/ Poll
  \/ Start \/ StopConnect \/ ForceClose \/ Shutdown \/ Delete
  \/ OtherStopsClient \/ OtherStops \/ OtherQueues

SafeSpec == Init /\ [][Next]_vars

\* The loop's thread runs; epoll_wait returns for a queued task, and with the
\* timer when it has expired; a thread inside stopConnect() gets out of it.  The timer
\* is the loop's only one, as this client is alone on it: with others it need not
\* expire (LoneTimerRuns of TimerQueue; RetriesEnd of ProxyHandler).
Fairness ==
  /\ WF_vars(Loop \/ (queue # <<>> /\ Poll))
  /\ SF_vars(Poll /\ "timer" \in active')
  /\ WF_vars(OtherStops) /\ WF_vars(OtherQueues)

Spec == SafeSpec /\ Fairness

-----------------------------------------------------------------------------
(* Properties. *)

\* One attempt at a time, whatever is refused, stopped, lost and connected
\* again: a pending start, a retry timer, a socket that is connecting, or a
\* connection.  Two would overwrite each other's channel.
OneAttempt ==
  LET Count(b) == IF b THEN 1 ELSE 0
  IN Count(Pending("start")) + timers + Count(inLoop) + Count(connection # NoSock) <= 1

\* The callbacks and the task of stop() find the channel they take out of the
\* loop, which unregisterChannel() takes for granted.
ChannelFound ==
  /\ "connector" \in active => state = "CONNECTING" /\ inLoop
  /\ AtTask("stop") /\ state = "CONNECTING" => inLoop

\* Every path from one attempt to the next, whatever is refused, stopped, lost
\* and connected again, makes one attempt at a time, and each socket is closed,
\* or handed over, once, and not forgotten.
SocketsAccounted ==
  /\ OneAttempt /\ ChannelFound
  /\ \A s \in Sock : sock[s] = "connecting" <=> inLoop /\ channel = s
  /\ inLoop => channel # NoSock

\* The closures and callbacks that hold only `this' find the connector, and it is
\* deleted without a channel, as ~Connector() asserts.
ConnectorOutlives ==
  ConnectorAlive \/ (channel = NoSock /\ ~inLoop /\ ~Pending("start") /\ ~Pending("reset"))

\* A connector that runs gets on: there is an attempt, a retry that waits for its
\* timer, or a connection, until an error that is not retried or a connection that is
\* not to be made again.
KeepsTrying ==
  clientRunning /\ running /\ ~gaveUp =>
    \/ Pending("start") \/ timers > 0 \/ inLoop
    \/ state = "CONNECTED" /\ (Reconnect => connection # NoSock \/ restarting)

\* After stopConnect() or the deletion of the client on the loop's thread no
\* connection is handed over, until start().
NothingAfterStop ==
  [][stopped = "loop" /\ connection' # connection => connection' = NoSock]_vars

\* Nor does the attempt that was under way go on: socket and timer are gone, and a
\* deleted client's connector is deleted.
StopOnLoopStops ==
  /\ NothingAfterStop
  /\ stopped = "loop" ~> \/ ~inLoop /\ timers = 0 /\ (client \/ ~ConnectorAlive)
                         \/ stopped = "no"

\* stop() "can be called in any thread": on another thread, too, it stops.
StopStops ==
  [][stopped # "no" /\ connection' # connection => connection' = NoSock]_vars

-----------------------------------------------------------------------------
(* Why the invariants hold when start() and stop() are called once: what every   *)
(* step preserves.                                                              *)

\* Orders of the tasks in a queue s.
Places(s, kind) == {i \in DOMAIN s : s[i].kind = kind}
Once(s, kind) == \A i, j \in Places(s, kind) : i = j
Before(s, first, then) == \A i \in Places(s, first), j \in Places(s, then) : i < j
FollowedBy(s, first, then) == \A i \in Places(s, first) : \E j \in Places(s, then) : i < j
ClosesLast(s, which) ==
  \A i \in Places(s, "close"), j \in Places(s, "reset") : s[i].sock = which => j < i

\* An attempt excludes another; a socket that is connecting is the channel's.
Attempts ==
  /\ timers \in {0, 1}
  /\ Pending("start") => timers = 0 /\ ~inLoop /\ connection = NoSock
  /\ timers = 1 => ~inLoop /\ connection = NoSock
  /\ inLoop => connection = NoSock /\ channel # NoSock /\ state = "CONNECTING"
  /\ \A s \in Sock : sock[s] = "connecting" <=> inLoop /\ channel = s

\* Before the task of start() there is no attempt, and no trace of one.
NotStarted ==
  /\ Once(ToDo, "start")
  /\ starts = 0 => ~Pending("start") /\ ~running /\ ~clientRunning
  /\ starts = 0 \/ Pending("start") =>
       /\ state = "DISCONNECTED" /\ channel = NoSock /\ ~Pending("reset")
       /\ ~inLoop /\ timers = 0 /\ connection = NoSock /\ ~restarting

\* The task of stop() comes once.  Up to it a connector in CONNECTING has a channel
\* in the loop; a client that runs nevertheless was started after it was stopped.
StopToCome == stops = 0 \/ other # "idle" \/ Pending("stop")
NotStopped ==
  /\ Once(ToDo, "stop")
  /\ stops = 0 \/ other # "idle" => ~Pending("stop")
  /\ other # "idle" => stops > 0 /\ starts > 0 /\ ~clientRunning
  /\ StopToCome /\ state = "CONNECTING" => inLoop
  /\ client /\ clientRunning => running
  /\ clientRunning /\ running => FollowedBy(ToDo, "stop", "start")

\* The channel is let go of before another one is made.
Held ==
  /\ channel # NoSock => inLoop \/ state = "RETRYING" \/ Pending("reset")
  /\ Pending("reset") => /\ ~inLoop /\ timers = 0 /\ state = "CONNECTED"
                         /\ connection \notin active
  /\ ClosesLast(ToDo, connection)
  /\ restarting => /\ ~Pending("start") /\ ~Pending("reset")
                   /\ ~inLoop /\ timers = 0 /\ connection = NoSock

\* The client's connection is the one that is open, and a socket is not closed
\* before the tasks for it are executed.
Connected ==
  /\ \A s \in Sock : connState[s] \in OpenState <=> connection = s
  /\ \A t \in ToSet(ToDo) :
       t.kind \in {"close", "destroy"} => t.sock \in Sock /\ sock[t.sock] = "handed"

\* What epoll_wait returned is still there when it is handled.
LoopExact ==
  /\ phase # "tasks" => batch = <<>> /\ pos = 1
  /\ phase # "dispatch" => active = {} /\ \A t \in ToSet(queue) : t.kind # "reset"
  /\ "connector" \in active => inLoop
  /\ "timer" \in active => timers > 0
  /\ \A s \in Sock : s \in active => sock[s] = "handed"

\* A deleted client's connector has stopped, and after the task of stop() it has
\* nothing but what the same iteration takes away.
Gone ==
  ~client =>
    /\ ~running /\ connection = NoSock /\ ~restarting /\ stops > 0 /\ other = "idle"
    /\ Before(ToDo, "start", "stop")
    /\ ~Pending("stop") =>
         /\ ~inLoop /\ ~Pending("start")
         /\ channel # NoSock => Pending("reset")
         /\ Pending("reset") => phase = "tasks" /\ \E t \in ToSet(batch) : t.kind = "stop"

\* Nothing sets the connector running again after a stop() on the loop's thread: not
\* handleClose(), which runs on that thread too.
StopHolds == stopped = "loop" => ~running /\ ~restarting /\ ~(client /\ clientRunning)

InductiveInv ==
  /\ TypeOK /\ KeepsTrying
  /\ Attempts /\ NotStarted /\ NotStopped /\ Held /\ Connected /\ LoopExact /\ Gone
=============================================================================
