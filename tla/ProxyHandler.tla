---------------------------- MODULE ProxyHandler -----------------------------
(***************************************************************************)
(* http/ProxyHandler.hpp on one connection of the HttpServer: the shared    *)
(* pointers among the connection, its context and, for each request, the    *)
(* TcpClient, its Connector and its connection upstream, all on one loop.   *)
(*                                                                         *)
(* The parts are those of TcpConnection, Connector and HttpServer without   *)
(* what their modules check.  The bytes that go through, and the 502 for a  *)
(* host that is not found, change no pointer and are left out, but a write  *)
(* downstream may hold the loop up.  An object is freed with the last       *)
(* pointer to it; the fields of one that is freed are those its destructor  *)
(* leaves.  The model ends at a dangling pointer.                           *)
(***************************************************************************)
EXTENDS Naturals, Sequences, SequencesExt

CONSTANT MaxRequests   \* bound: proxied requests of the connection

ASSUME RequestsAssumption == MaxRequests \in Nat

Request == 1..MaxRequests

VARIABLES
  phase,       \* of the loop: polling, reading the connection, running tasks
  handled,     \* whose events it is done with in this iteration
  tasks,       \* its tasks, each with its request or 0
  left,        \* tasks of the batch it runs
  stuck,       \* it is inside a write() that waits for the client to read
  down,        \* state of the connection
  inMap,       \* the map of the TcpServer has it
  hasContext,  \* its user data is the context
  msgCb,       \* the callback of the context's parser, which holds the context
  closeCb,     \* the close callback of the context, which holds the context
  userData,    \* the request whose client is the context's user data, or 0
  live,        \* the TcpClient is constructed and not destroyed
  cbs,         \* its message and close callbacks hold the context, itself, nothing
  connection,  \* its _connection is set
  running,     \* _running of its Connector
  attempt,     \* where the Connector is
  up,          \* state of the connection upstream
  upMsgCb,     \* that connection's copy of the message callback
  timers,      \* the loop's timers by expiry: each with its request, 0 if of others
  expired,     \* those that handleRead() of the TimerQueue has still to run
  armed,       \* the timerfd is armed
  replaced,    \* a second request has come (history)
  dangling     \* a freed client, or a deleted channel, was used

loop == <<phase, handled, tasks, left, stuck>>
server == <<down, inMap, hasContext, msgCb, closeCb, userData>>
client == <<live, cbs, connection, running, attempt>>
upstream == <<up, upMsgCb>>
wheel == <<timers, expired, armed>>
vars == <<loop, server, client, upstream, wheel, replaced, dangling>>

Init ==
  /\ phase = "poll" /\ handled = {} /\ tasks = <<>> /\ left = 0 /\ stuck = FALSE
  /\ down = "established" /\ inMap = TRUE /\ hasContext = TRUE
  /\ msgCb = TRUE /\ closeCb = FALSE /\ userData = 0
  /\ live = [r \in Request |-> FALSE] /\ cbs = [r \in Request |-> "none"]
  /\ connection = [r \in Request |-> FALSE]
  /\ running = [r \in Request |-> FALSE] /\ attempt = [r \in Request |-> "none"]
  /\ up = [r \in Request |-> "none"] /\ upMsgCb = [r \in Request |-> FALSE]
  /\ timers = <<>> /\ expired = <<>> /\ armed = FALSE
  /\ replaced = FALSE /\ dangling = FALSE

-----------------------------------------------------------------------------
(* Who is held.  The pointers within a cycle keep it, so only those that do   *)
(* not come from the object itself are asked for.                             *)

ContextHeld ==
  \/ hasContext \/ msgCb \/ closeCb
  \/ \E r \in Request : cbs[r] = "ctx" \/ upMsgCb[r]

ClientHeld(r) == (ContextHeld /\ userData = r) \/ cbs[r] = "self"

ConnectorHeld(r) == live[r] \/ <<"stop", r>> \in ToSet(tasks)

ConnectionHeld ==
  inMap \/ ContextHeld \/ \E t \in ToSet(tasks) : t[1] \in {"close", "destroy"} /\ t[2] = 0

Open(state) == state \in {"established", "disconnecting"}

-----------------------------------------------------------------------------
(* The loop. *)

\* It is not held up, and between two steps every client that is not held has been
\* destroyed.
Goes == ~dangling /\ ~stuck /\ \A r \in Request : live[r] => ClientHeld(r)

\* The loop is at the next event, with no handler under way.
AtEvent == Goes /\ phase = "poll" /\ expired = <<>>

StartBatch ==
  /\ AtEvent /\ tasks # <<>>
  /\ phase' = "tasks" /\ left' = Len(tasks)
  /\ UNCHANGED <<handled, tasks, stuck, server, client, upstream, replaced, wheel,
                 dangling>>

\* An iteration ends, with tasks or without.
EndBatch ==
  /\ Goes
  /\ \/ phase = "tasks" /\ left = 0
     \/ AtEvent /\ tasks = <<>> /\ handled # {}
  /\ phase' = "poll" /\ handled' = {}
  /\ UNCHANGED <<tasks, left, stuck, server, client, upstream, replaced, wheel, dangling>>

\* Done with the connection's input.
EndRead ==
  /\ Goes /\ phase = "read"
  /\ phase' = "poll"
  /\ UNCHANGED <<handled, tasks, left, stuck, server, client, upstream, replaced, wheel,
                 dangling>>

\* An event, which queues tasks and leaves these as handled too.
Event(source, more, others) ==
  /\ AtEvent /\ source \notin handled
  /\ handled' = handled \cup {source} \cup others
  /\ tasks' = tasks \o more
  /\ UNCHANGED <<phase, left, stuck>>

Run(task, more) ==
  /\ Goes /\ phase = "tasks" /\ left > 0 /\ Head(tasks) = task
  /\ tasks' = Tail(tasks) \o more /\ left' = left - 1
  /\ UNCHANGED <<phase, handled, stuck>>

-----------------------------------------------------------------------------
(* ProxyHandler::operator() and TcpClient. *)

Proxy(r) ==
  /\ Goes /\ Open(down)
  /\ phase = "read" \/ (AtEvent /\ <<"down", 0>> \notin handled)
  /\ ~live[r] /\ attempt[r] = "none" /\ \A q \in 1..(r - 1) : attempt[q] # "none"
  /\ phase' = "read" /\ handled' = handled \cup {<<"down", 0>>}
  /\ live' = [live EXCEPT ![r] = TRUE] /\ cbs' = [cbs EXCEPT ![r] = "ctx"]
  /\ running' = [running EXCEPT ![r] = TRUE]
  /\ attempt' = [attempt EXCEPT ![r] = "starting"]
  /\ userData' = r /\ closeCb' = TRUE
  /\ replaced' = (r > 1)
  /\ tasks' = Append(tasks, <<"start", r>>)
  /\ UNCHANGED <<left, stuck, down, inMap, hasContext, msgCb, connection, upstream, wheel,
                 dangling>>

\* ~TcpClient(), as soon as nothing holds the client: without a connection it
\* stops the connector, and leaves one it has to itself but for forceClose().
\* Its callbacks go with it.
Destruct(r) ==
  /\ ~dangling /\ live[r] /\ ~ClientHeld(r)
  /\ live' = [live EXCEPT ![r] = FALSE]
  /\ cbs' = [cbs EXCEPT ![r] = "none"]
  /\ connection' = [connection EXCEPT ![r] = FALSE]
  /\ \/ /\ connection[r] /\ up[r] = "established"
        /\ up' = [up EXCEPT ![r] = "disconnecting"]
        /\ tasks' = Append(tasks, <<"close", r>>)
        /\ UNCHANGED running
     \/ /\ connection[r] /\ up[r] # "established"
        /\ UNCHANGED <<up, tasks, running>>
     \/ /\ ~connection[r]
        /\ running' = [running EXCEPT ![r] = FALSE]
        /\ tasks' = Append(tasks, <<"stop", r>>)
        /\ UNCHANGED up
  /\ UNCHANGED <<phase, handled, left, stuck, server, attempt, upMsgCb, replaced, wheel,
                 dangling>>

-----------------------------------------------------------------------------
(* Connector. *)

\* A timer is added: the timerfd is armed for it when it comes before the others.
AddTimer(r) ==
  \E i \in 1..(Len(timers) + 1) :
    timers' = InsertAt(timers, i, r) /\ armed' = (armed \/ i = 1)

\* retry().
TryAgain(r) ==
  /\ running[r]
  /\ attempt' = [attempt EXCEPT ![r] = "retrying"]
  /\ AddTimer(r)

GiveUp(r) ==
  /\ attempt' = [attempt EXCEPT ![r] = "ended"]
  /\ UNCHANGED <<timers, armed>>

\* connect(), if it runs: under way, refused and to be tried again, or given up.
Connect(r) ==
  \/ /\ running[r]
     /\ attempt' = [attempt EXCEPT ![r] = "connecting"]
     /\ UNCHANGED <<timers, armed>>
  \/ TryAgain(r)
  \/ GiveUp(r)

Start(r) ==
  /\ Run(<<"start", r>>, <<>>)
  /\ Connect(r)
  /\ dangling' = ~ConnectorHeld(r)
  /\ UNCHANGED <<server, live, cbs, connection, running, upstream, expired, replaced>>

\* TimerQueue::handleRead(): the timers that are due, one or more, are taken out and
\* run.  It does not arm the timerfd for those it leaves.
TimersExpire ==
  /\ armed
  /\ Event(<<"timer", 0>>, <<>>, {})
  /\ \E n \in 1..Len(timers) :
       /\ expired' = SubSeq(timers, 1, n)
       /\ timers' = SubSeq(timers, n + 1, Len(timers))
  /\ armed' = FALSE
  /\ UNCHANGED <<server, client, upstream, replaced, dangling>>

\* The next of them: that of an attempt that retries ...
Retry(r) ==
  /\ Goes /\ expired # <<>> /\ Head(expired) = r
  /\ attempt[r] = "retrying"
  /\ expired' = Tail(expired)
  /\ Connect(r)
  /\ UNCHANGED <<loop, server, live, cbs, connection, running, upstream, replaced, dangling>>

\* ... or of another connection of the loop, which has one at a time here.
OtherRetries ==
  /\ Goes /\ expired # <<>> /\ Head(expired) = 0
  /\ expired' = Tail(expired)
  /\ UNCHANGED <<loop, server, client, upstream, timers, armed, replaced, dangling>>

OtherFails ==
  /\ AtEvent /\ 0 \notin ToSet(timers)
  /\ AddTimer(0)
  /\ UNCHANGED <<loop, server, client, upstream, expired, replaced, dangling>>

\* handleError(), or handleWrite() that finds one.
Fail(r) ==
  /\ attempt[r] = "connecting"
  /\ Event(<<"attempt", r>>, <<>>, {})
  /\ TryAgain(r) \/ (~running[r] /\ GiveUp(r))
  /\ UNCHANGED <<server, live, cbs, connection, running, upstream, expired, replaced,
                 dangling>>

\* handleWrite() and TcpClient::newConnection(), or close(); the channel is deleted
\* by a task.
Succeed(r) ==
  /\ attempt[r] = "connecting"
  /\ Event(<<"attempt", r>>, <<<<"reset", r>>>>, {<<"up", r>>})
  /\ attempt' = [attempt EXCEPT ![r] = "ended"]
  /\ \/ /\ running[r] /\ live[r]
        /\ connection' = [connection EXCEPT ![r] = TRUE]
        /\ up' = [up EXCEPT ![r] = "established"]
        /\ upMsgCb' = [upMsgCb EXCEPT ![r] = cbs[r] = "ctx"]
        /\ UNCHANGED dangling
     \/ /\ ~(running[r] /\ live[r])
        /\ dangling' = running[r]
        /\ UNCHANGED <<connection, upstream>>
  /\ UNCHANGED <<server, live, cbs, running, replaced, wheel>>

ResetChannel(r) ==
  /\ Run(<<"reset", r>>, <<>>)
  /\ dangling' = ~ConnectorHeld(r)
  /\ UNCHANGED <<server, client, upstream, replaced, wheel>>

\* The task of stop().  It leaves CONNECTING, so that another one would look for
\* the channel again.
StopTask(r) ==
  /\ Run(<<"stop", r>>, <<>>)
  /\ attempt' = [attempt EXCEPT ![r] = IF @ = "connecting" THEN "stopped" ELSE @]
  /\ dangling' = (attempt[r] = "stopped")
  /\ UNCHANGED <<server, live, cbs, connection, running, upstream, replaced, wheel>>

-----------------------------------------------------------------------------
(* The connection upstream. *)

\* TcpConnection::handleClose(), which drops the message callback and then calls
\* TcpClient::handleClose().
HandleCloseUp(r) ==
  /\ up' = [up EXCEPT ![r] = "disconnected"]
  /\ upMsgCb' = [upMsgCb EXCEPT ![r] = FALSE]
  /\ connection' = [connection EXCEPT ![r] = FALSE]
  /\ UNCHANGED <<server, live, cbs, running, attempt, replaced, wheel>>
  /\ dangling' = ~(live[r] /\ ClientHeld(r)')

UpEnds(r) ==
  /\ Open(up[r])
  /\ Event(<<"up", r>>, <<<<"destroy", r>>>>, {})
  /\ HandleCloseUp(r)

CloseUp(r) ==
  /\ r # 0
  /\ \/ /\ Open(up[r])
        /\ Run(<<"close", r>>, <<<<"destroy", r>>>>)
        /\ HandleCloseUp(r)
     \/ /\ ~Open(up[r])
        /\ Run(<<"close", r>>, <<>>)
        /\ UNCHANGED <<server, client, upstream, replaced, wheel, dangling>>

\* The client's message callback passes on what came, also when the connection
\* downstream has been closed.  That one's socket blocks: write() may wait for a peer
\* to read.
WriteBlocks(r) ==
  /\ AtEvent /\ upMsgCb[r] /\ Open(up[r]) /\ <<"up", r>> \notin handled
  /\ handled' = handled \cup {<<"up", r>>} /\ stuck' = TRUE
  /\ UNCHANGED <<phase, tasks, left, server, client, upstream, replaced, wheel, dangling>>

WriteReturns ==
  /\ stuck /\ stuck' = FALSE
  /\ UNCHANGED <<phase, handled, tasks, left, server, client, upstream, replaced, wheel,
                 dangling>>

\* Fault: the end upstream is not passed on.
ForceCloseNothing == UNCHANGED down /\ Run(Head(tasks), <<>>)

\* HttpContext::forceClose().
ForceCloseDown ==
  IF down = "established"
  THEN down' = "disconnecting" /\ Run(Head(tasks), <<<<"close", 0>>>>)
  ELSE UNCHANGED down /\ Run(Head(tasks), <<>>)

\* The task of TcpClient::handleClose(), with the client's close callback: it
\* closes the connection downstream, or lets go of the client.
DestroyUp(r) ==
  /\ tasks # <<>> /\ Head(tasks) = <<"destroy", r>>
  /\ \/ /\ live[r] /\ cbs[r] = "ctx"
        /\ ForceCloseDown
        /\ UNCHANGED <<cbs, dangling>>
     \/ /\ ~(live[r] /\ cbs[r] = "ctx")
        /\ Run(Head(tasks), <<>>)
        /\ cbs' = [cbs EXCEPT ![r] = "none"]
        /\ dangling' = ~live[r]
        /\ UNCHANGED down
  /\ up' = [up EXCEPT ![r] = "gone"]
  /\ UNCHANGED <<inMap, hasContext, msgCb, closeCb, userData, live, connection, running,
                 attempt, upMsgCb, replaced, wheel>>

-----------------------------------------------------------------------------
(* The connection downstream. *)

\* TcpConnection::handleClose() and TcpServer::handleClose(), at the end of the
\* input and for forceClose().
DownEnds ==
  /\ Open(down)
  /\ Event(<<"down", 0>>, <<<<"destroy", 0>>>>, {})
  /\ down' = "disconnected"
  /\ UNCHANGED <<inMap, hasContext, msgCb, closeCb, userData, client, upstream, replaced, wheel,
                 dangling>>

CloseDown ==
  /\ \/ /\ Open(down)
        /\ Run(<<"close", 0>>, <<<<"destroy", 0>>>>)
     \/ /\ ~Open(down)
        /\ Run(<<"close", 0>>, <<>>)
  /\ down' = "disconnected"
  /\ UNCHANGED <<inMap, hasContext, msgCb, closeCb, userData, client, upstream, replaced, wheel,
                 dangling>>

\* The task of the base loop.
Erase ==
  /\ down = "disconnected" /\ inMap
  /\ inMap' = FALSE
  /\ UNCHANGED <<loop, down, hasContext, msgCb, closeCb, userData, client, upstream,
                 replaced, wheel, dangling>>

\* What the close callback leaves the client's callbacks to hold; by faults,
\* nothing ("to avoid nullptr"), or what they held.
HoldNothing == "none"
HoldContext == "ctx"
HoldItself == "self"

\* ProxyHandler's close callback of the context, if it is set: stopConnect(), the
\* callbacks, forceClose().
CloseClient(r) ==
  /\ running' = [running EXCEPT ![r] = FALSE]
  /\ cbs' = [cbs EXCEPT ![r] = HoldItself]
  /\ \/ /\ connection[r] /\ up[r] = "established"
        /\ up' = [up EXCEPT ![r] = "disconnecting"]
        /\ Run(<<"destroy", 0>>, <<<<"stop", r>>, <<"close", r>>>>)
     \/ /\ ~(connection[r] /\ up[r] = "established")
        /\ UNCHANGED up
        /\ Run(<<"destroy", 0>>, <<<<"stop", r>>>>)

\* The task of TcpServer::handleClose(), with HttpServer::deleteConnection().
DestroyDown ==
  /\ \/ closeCb /\ CloseClient(userData)
     \/ /\ ~closeCb
        /\ Run(<<"destroy", 0>>, <<>>)
        /\ UNCHANGED <<running, cbs, up>>
  /\ msgCb' = FALSE /\ closeCb' = FALSE /\ hasContext' = FALSE
  /\ UNCHANGED <<down, inMap, userData, live, connection, attempt, upMsgCb, replaced, wheel,
                 dangling>>

-----------------------------------------------------------------------------

LoopStep ==
  \/ StartBatch \/ EndBatch \/ EndRead
  \/ CloseDown \/ DestroyDown \/ OtherRetries
  \/ \E r \in Request :
       \/ Destruct(r) \/ Start(r) \/ ResetChannel(r) \/ StopTask(r)
       \/ CloseUp(r) \/ DestroyUp(r) \/ Retry(r)

Next ==
  \/ LoopStep \/ TimersExpire \/ OtherFails \/ DownEnds \/ Erase \/ WriteReturns
  \/ \E r \in Request : Proxy(r) \/ Fail(r) \/ Succeed(r) \/ UpEnds(r) \/ WriteBlocks(r)

\* The threads of both loops go on, what other connections call returns, and a
\* timerfd that is armed expires, also among other events.  The peers owe
\* nothing: a write() that waits for one of them need not return.
Fairness ==
  /\ WF_vars(LoopStep) /\ WF_vars(Erase)
  /\ SF_vars(TimersExpire)

Spec == Init /\ [][Next]_vars /\ Fairness

-----------------------------------------------------------------------------
(* Properties. *)

\* The callbacks and tasks that hold a client or a connector by its address find it,
\* and a stop task finds its channel: the close callback of the context has the client
\* hold itself.
\* Not so when a second request takes the place of a client with a connection.
NoDangling == dangling => replaced

\* A retry waits and the timerfd is not armed: an earlier timer of the loop expired
\* and left it so (see RetriesEnd).
Stranded(r) == phase = "poll" /\ r \in ToSet(timers) /\ ~armed

\* The two connections end together: with the one downstream goes every attempt
\* and connection upstream, but a retry that is stranded, with the one upstream that
\* downstream, unless a write() waits for a peer that never reads again.
EndsTogether ==
  /\ down = "disconnected" ~>
       dangling \/ []stuck \/ \A r \in Request :
         /\ attempt[r] \in {"none", "ended", "stopped"} \/ Stranded(r)
         /\ up[r] \in {"none", "gone"}
  /\ \A r \in Request : up[r] = "disconnected" ~> down = "disconnected" \/ replaced

\* After the end, the context and the connection are freed: the client's callbacks
\* let go of the context, and the connection upstream does when it closes, with the
\* same exception.
ContextReleased ==
  down = "disconnected" ~> dangling \/ []stuck \/ (~ContextHeld /\ ~ConnectionHeld)

\* What does not hold.  A second request on a kept-alive connection leaves the
\* first client's connection with a dangling pointer.
NoDanglingKeptAlive == ~dangling

\* What does not hold.  Every retry ends after the connection has: of two timers on one
\* loop, of this connection or of others, the later one may never run.
RetriesEnd ==
  down = "disconnected" ~> dangling \/ []stuck \/ \A r \in Request : attempt[r] # "retrying"

\* "Hold a reference of itself until closeCallback()": there may be none to come.
SelfReferenceEnds ==
  down = "disconnected" ~> dangling \/ []stuck \/ \A r \in Request : ~live[r]
-----------------------------------------------------------------------------
(* Why NoDangling holds: an invariant that every step keeps. *)

Kind == {"start", "reset", "stop", "close", "destroy"}
Task == Kind \X (Request \cup {0})

TypeOK ==
  /\ phase \in {"poll", "read", "tasks"}
  /\ tasks \in Seq(Task) /\ left \in 0..Len(tasks)
  /\ down \in {"established", "disconnecting", "disconnected"}
  /\ {inMap, hasContext, msgCb, closeCb, replaced, dangling} \subseteq BOOLEAN
  /\ userData \in Request \cup {0} /\ (closeCb => userData # 0)
  /\ live \in [Request -> BOOLEAN] /\ cbs \in [Request -> {"ctx", "self", "none"}]
  /\ {connection, running, upMsgCb} \subseteq [Request -> BOOLEAN]
  /\ attempt \in [Request -> {"none", "starting", "connecting", "retrying", "ended",
                              "stopped"}]
  /\ up \in [Request -> {"none", "established", "disconnecting", "disconnected", "gone"}]

\* The timers and the write() that waits, on which nothing of this depends.
WaitsOK ==
  /\ timers \in Seq(Request \cup {0}) /\ expired \in Seq(Request \cup {0})
  /\ armed \in BOOLEAN /\ (armed => timers # <<>>)
  /\ stuck \in BOOLEAN

Places(queue, task) == {i \in DOMAIN queue : queue[i] = task}
Has(queue, task) == Places(queue, task) # {}
Once(queue, task) == \A i, j \in Places(queue, task) : i = j
Before(queue, first, second) ==
  \A i \in Places(queue, first), j \in Places(queue, second) : i < j

\* A request that has not come has left nothing, and the first has come first.
NotStarted ==
  /\ \A r \in Request : attempt[r] = "none" =>
       /\ ~live[r] /\ cbs[r] = "none" /\ up[r] = "none" /\ userData # r
       /\ \A kind \in Kind : ~Has(tasks, <<kind, r>>)
  /\ \A r \in Request : replaced \/ attempt[r] # "none" => attempt[1] # "none"

\* A client that has not been replaced is the user data of the context; it lives,
\* with its callbacks, until the connection upstream is gone.
ClientStays ==
  \A r \in Request :
    /\ attempt[r] # "none" => r = 1
    /\ live[r] => userData = r
    /\ attempt[r] # "none" /\ (~live[r] \/ cbs[r] = "none") => up[r] = "gone"

\* A connection upstream is that of an attempt that has ended, and each task of one
\* comes once: the channel is deleted before the connection is destroyed.
TasksOnce ==
  \A r \in Request :
    /\ up[r] # "none" => attempt[r] = "ended"
    /\ Has(tasks, <<"start", r>>) => attempt[r] = "starting"
    /\ Once(tasks, <<"start", r>>)
    /\ Has(tasks, <<"destroy", r>>) => up[r] = "disconnected"
    /\ Once(tasks, <<"destroy", r>>)
    /\ Before(tasks, <<"reset", r>>, <<"destroy", r>>)
    /\ up[r] = "gone" => ~Has(tasks, <<"reset", r>>)

\* An attempt under way is stopped once, by the close callback of the context.
StoppedOnce ==
  /\ \A r \in Request :
       /\ attempt[r] = "stopped" => ~Has(tasks, <<"stop", r>>)
       /\ attempt[r] # "ended" => Once(tasks, <<"stop", r>>)
  /\ closeCb =>
       \/ attempt[userData] = "ended"
       \/ attempt[userData] # "stopped" /\ ~Has(tasks, <<"stop", userData>>)

InductiveInv ==
  /\ TypeOK /\ NotStarted
  /\ ~replaced => ~dangling /\ ClientStays /\ TasksOnce /\ StoppedOnce
=============================================================================
