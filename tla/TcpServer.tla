------------------------------ MODULE TcpServer ------------------------------
(***************************************************************************)
(* core/TcpServer.hpp over several loops: the base loop accepts, keeps the  *)
(* map of connections by descriptor and erases from it; every connection   *)
(* lives on one of the io loops of EventLoopThreadPool.                    *)
(*                                                                         *)
(* A connection is shared: the map, the closures of tasks and the program  *)
(* hold pointers, and its descriptor is closed, and may be accepted again, *)
(* when the last of them goes.  The closures of an iteration go together,  *)
(* at its end.                                                             *)
(*                                                                         *)
(* The loops are those of EventLoop.tla.  Of the base loop only the order  *)
(* of its tasks matters, which TaskExecutor promises.  A connection is that *)
(* of TcpConnection.tla without its data: what it reads is a message or    *)
(* the end of the stream.                                                  *)
(***************************************************************************)
EXTENDS Naturals, Sequences, SequencesExt

CONSTANTS
  Conn,       \* the TcpConnection objects
  Fd,         \* the descriptors accept() may return
  NumLoops,   \* threadCount
  NoConn,     \* no connection
  NoFd        \* not accepted yet

ASSUME NumLoopsAssumption == NumLoops \in Nat \ {0}
ASSUME NoneAssumption == NoConn \notin Conn /\ NoFd \notin Fd

IoLoop == 1..NumLoops

VARIABLES
  cnt,          \* _cnt of the EventLoopThreadPool: the next loop
  connections,  \* _connections
  baseQueue,    \* tasks of the base loop; of: whose closing queued it (history)
  fdOf,         \* fd() of a connection
  loopOf,       \* its _loop
  state,        \* its _state; "none" before it is made
  listening,    \* its channel has interests
  inLoop,       \* its channel is added to its loop
  kept,         \* connections the program holds a pointer to
  forcing,      \* ... for which a thread is inside forceClose()
  phase,        \* where each io loop is
  active,       \* its _activeChannels not handled yet
  queue,        \* its pending tasks
  batch,        \* its swapped tasks, what is left to execute
  held,         \* connections the closures of the swapped tasks hold
  running,      \* `running' of each io loop
  server        \* "up", or how far ~TcpServer() is

base == <<cnt, connections, baseQueue>>
conn == <<fdOf, loopOf, state, listening, inLoop>>
io   == <<phase, active, queue, batch, held>>
vars == <<base, conn, kept, forcing, io, running, server>>

TaskOf == [kind : {"establish", "close", "destroy"}, conn : Conn]
EraseOf == [fd : Fd, of : Conn]
States == {"none", "CONNECTING", "ESTABLISHED", "DISCONNECTING", "DISCONNECTED"}

\* What an io loop has to execute: the swapped tasks, then the pending ones.
ToDo(l) == batch[l] \o queue[l]

\* Values of the variables; the tasks of a connection are given to its own loop.
TypeOK ==
  /\ cnt \in IoLoop
  /\ connections \in [Fd -> Conn \cup {NoConn}]
  /\ baseQueue \in Seq(EraseOf)
  /\ fdOf \in [Conn -> Fd \cup {NoFd}]
  /\ loopOf \in [Conn -> IoLoop]
  /\ state \in [Conn -> States]
  /\ listening \in [Conn -> BOOLEAN]
  /\ inLoop \in [Conn -> BOOLEAN]
  /\ kept \in SUBSET Conn
  /\ forcing \in SUBSET Conn
  /\ phase \in [IoLoop -> {"wait", "dispatch", "tasks", "exited"}]
  /\ active \in [IoLoop -> SUBSET Conn]
  /\ queue \in [IoLoop -> Seq(TaskOf)]
  /\ batch \in [IoLoop -> Seq(TaskOf)]
  /\ held \in [IoLoop -> SUBSET Conn]
  /\ running \in [IoLoop -> BOOLEAN]
  /\ server \in {"up", "clearing", "stopping"}
  /\ \A l \in IoLoop : \A i \in DOMAIN ToDo(l) : loopOf[ToDo(l)[i].conn] = l

\* The server listens, the pool's threads are in loop().
Init ==
  /\ cnt = 1
  /\ connections = [f \in Fd |-> NoConn]
  /\ baseQueue = <<>>
  /\ fdOf = [c \in Conn |-> NoFd]
  /\ loopOf = [c \in Conn |-> 1]
  /\ state = [c \in Conn |-> "none"]
  /\ listening = [c \in Conn |-> FALSE]
  /\ inLoop = [c \in Conn |-> FALSE]
  /\ kept = {}
  /\ forcing = {}
  /\ phase = [l \in IoLoop |-> "wait"]
  /\ active = [l \in IoLoop |-> {}]
  /\ queue = [l \in IoLoop |-> <<>>]
  /\ batch = [l \in IoLoop |-> <<>>]
  /\ held = [l \in IoLoop |-> {}]
  /\ running = [l \in IoLoop |-> TRUE]
  /\ server = "up"

-----------------------------------------------------------------------------
(* Pointers. *)

HeldByTask(c) ==
  \E l \in IoLoop : c \in held[l] \/ \E t \in ToSet(queue[l]) : t.conn = c

\* Some shared_ptr to the connection is left.
Alive(c) ==
  \/ \E f \in Fd : connections[f] = c
  \/ c \in kept \cup forcing
  \/ HeldByTask(c)

\* The connection was made, and deleted.
Deleted(c) == state[c] # "none" /\ ~Alive(c)

\* ~Socket() closes the descriptor of a connection that is deleted.
Open(f) == \E c \in Conn : fdOf[c] = f /\ Alive(c)

Push(l, kind, c) ==
  queue' = [queue EXCEPT ![l] = Append(@, [kind |-> kind, conn |-> c])]

-----------------------------------------------------------------------------
(* The base loop. *)

\* getNextLoop(): the loops take turns.
NextLoop == cnt' = IF cnt = NumLoops THEN 1 ELSE cnt + 1

\* Acceptor::handleRead(), one connection, and handleNewConnection() with
\* getNextLoop().  unordered_map::insert() leaves an entry that exists.
Accept(c, f) ==
  /\ server = "up"
  /\ state[c] = "none"
  /\ ~Open(f)
  /\ state' = [state EXCEPT ![c] = "CONNECTING"]
  /\ fdOf' = [fdOf EXCEPT ![c] = f]
  /\ loopOf' = [loopOf EXCEPT ![c] = cnt]
  /\ NextLoop
  /\ connections' = [connections EXCEPT ![f] = IF @ = NoConn THEN c ELSE @]
  /\ Push(cnt, "establish", c)
  /\ UNCHANGED <<baseQueue, listening, inLoop, kept, forcing, phase, active,
                 batch, held, running, server>>

\* The erasing task of handleClose().
Erase ==
  /\ server = "up"
  /\ baseQueue # <<>>
  /\ baseQueue' = Tail(baseQueue)
  /\ connections' = [connections EXCEPT ![Head(baseQueue).fd] = NoConn]
  /\ UNCHANGED <<cnt, conn, kept, forcing, io, running, server>>

-----------------------------------------------------------------------------
(* An io loop. *)

\* epoll_wait returns, for some of the connections that are registered, for a
\* task, or for anything else of the loop.
Poll(l) ==
  /\ phase[l] = "wait"
  /\ phase' = [phase EXCEPT ![l] = "dispatch"]
  /\ \E ready \in SUBSET {c \in Conn : loopOf[c] = l /\ inLoop[c] /\ listening[c]} :
       active' = [active EXCEPT ![l] = ready]
  /\ UNCHANGED <<base, conn, kept, forcing, queue, batch, held, running, server>>

\* Fault: the guard against a second call is left out.
HandleCloseUnguarded(c) ==
  /\ state' = [state EXCEPT ![c] = "DISCONNECTED"]
  /\ listening' = [listening EXCEPT ![c] = FALSE]
  /\ baseQueue' = Append(baseQueue, [fd |-> fdOf[c], of |-> c])
  /\ Push(loopOf[c], "destroy", c)

\* Fault: the server forgets connectDestroyed().
HandleCloseWithoutDestroy(c) ==
  \/ /\ state[c] \in {"ESTABLISHED", "DISCONNECTING"}
     /\ state' = [state EXCEPT ![c] = "DISCONNECTED"]
     /\ listening' = [listening EXCEPT ![c] = FALSE]
     /\ baseQueue' = Append(baseQueue, [fd |-> fdOf[c], of |-> c])
     /\ UNCHANGED queue
  \/ /\ state[c] \notin {"ESTABLISHED", "DISCONNECTING"}
     /\ UNCHANGED <<state, listening, baseQueue, queue>>

\* Fault: the server forgets to erase.
HandleCloseWithoutErase(c) ==
  \/ /\ state[c] \in {"ESTABLISHED", "DISCONNECTING"}
     /\ state' = [state EXCEPT ![c] = "DISCONNECTED"]
     /\ listening' = [listening EXCEPT ![c] = FALSE]
     /\ Push(loopOf[c], "destroy", c)
     /\ UNCHANGED baseQueue
  \/ /\ state[c] \notin {"ESTABLISHED", "DISCONNECTING"}
     /\ UNCHANGED <<state, listening, baseQueue, queue>>

\* TcpConnection::handleClose() and, as its close callback,
\* TcpServer::handleClose(): the base loop erases, the io loop destroys.
HandleClose(c) ==
  \/ /\ state[c] \in {"ESTABLISHED", "DISCONNECTING"}
     /\ state' = [state EXCEPT ![c] = "DISCONNECTED"]
     /\ listening' = [listening EXCEPT ![c] = FALSE]
     /\ baseQueue' = Append(baseQueue, [fd |-> fdOf[c], of |-> c])
     /\ Push(loopOf[c], "destroy", c)
  \/ /\ state[c] \notin {"ESTABLISHED", "DISCONNECTING"}
     /\ UNCHANGED <<state, listening, baseQueue, queue>>

AtEvent(l, c) ==
  /\ phase[l] = "dispatch"
  /\ c \in active[l]
  /\ active' = [active EXCEPT ![l] = @ \ {c}]
  /\ UNCHANGED <<phase, batch, held>>

\* handleEvent() of a connection: a message, for the program ...
ReadMessage(l, c) ==
  /\ AtEvent(l, c)
  /\ UNCHANGED <<base, conn, kept, forcing, queue, running, server>>

\* ... or the end of the stream.
ReadEof(l, c) ==
  /\ AtEvent(l, c)
  /\ HandleClose(c)
  /\ UNCHANGED <<cnt, connections, fdOf, loopOf, inLoop, kept, forcing, running,
                 server>>

\* All channels are handled; the tasks are swapped out.
Swap(l) ==
  /\ phase[l] = "dispatch"
  /\ active[l] = {}
  /\ phase' = [phase EXCEPT ![l] = "tasks"]
  /\ batch' = [batch EXCEPT ![l] = queue[l]]
  /\ held' = [held EXCEPT ![l] = {t.conn : t \in ToSet(queue[l])}]
  /\ queue' = [queue EXCEPT ![l] = <<>>]
  /\ UNCHANGED <<base, conn, kept, forcing, active, running, server>>

AtTask(l, kind, c) ==
  /\ phase[l] = "tasks"
  /\ batch[l] # <<>>
  /\ Head(batch[l]) = [kind |-> kind, conn |-> c]

TakeTask(l, kind, c) ==
  /\ AtTask(l, kind, c)
  /\ batch' = [batch EXCEPT ![l] = Tail(@)]
  /\ UNCHANGED <<phase, active, held>>

\* connectEstablished() and the connect callback, in which the program may keep
\* a pointer.
Establish(l, c) ==
  /\ TakeTask(l, "establish", c)
  /\ state' = [state EXCEPT ![c] = "ESTABLISHED"]
  /\ listening' = [listening EXCEPT ![c] = TRUE]
  /\ inLoop' = [inLoop EXCEPT ![c] = TRUE]
  /\ kept' \in {kept, kept \cup {c}}
  /\ UNCHANGED <<base, fdOf, loopOf, forcing, queue, running, server>>

\* The task of forceClose().
RunForceClose(l, c) ==
  /\ TakeTask(l, "close", c)
  /\ HandleClose(c)
  /\ UNCHANGED <<cnt, connections, fdOf, loopOf, inLoop, kept, forcing, running,
                 server>>

\* connectDestroyed(), as its assertions pass, and the close callback.
Destroy(l, c) ==
  /\ TakeTask(l, "destroy", c)
  /\ state' = [state EXCEPT ![c] = IF @ = "ESTABLISHED" THEN "DISCONNECTED"
                                                        ELSE @]
  /\ listening' = [listening EXCEPT ![c] = @ /\ state[c] # "ESTABLISHED"]
  /\ inLoop' = [inLoop EXCEPT ![c] = FALSE]
  /\ UNCHANGED <<base, fdOf, loopOf, kept, forcing, queue, running, server>>

\* The iteration ends and its closures are destroyed.  A loop that was told to
\* quit returns, and with the EventLoop go the closures of its pending tasks.
EndIteration(l) ==
  /\ phase[l] = "tasks"
  /\ batch[l] = <<>>
  /\ held' = [held EXCEPT ![l] = {}]
  /\ \/ /\ running[l]
        /\ phase' = [phase EXCEPT ![l] = "wait"]
        /\ UNCHANGED queue
     \/ /\ ~running[l]
        /\ phase' = [phase EXCEPT ![l] = "exited"]
        /\ queue' = [queue EXCEPT ![l] = <<>>]
  /\ UNCHANGED <<base, conn, kept, forcing, active, batch, running, server>>

-----------------------------------------------------------------------------
(* The program. *)

\* Fault: forceClose() has the pointer erased at once.
ForceCloseErases(c) ==
  /\ c \in kept
  /\ state[c] = "ESTABLISHED"
  /\ state' = [state EXCEPT ![c] = "DISCONNECTING"]
  /\ forcing' = forcing \cup {c}
  /\ connections' = [connections EXCEPT ![fdOf[c]] = NoConn]
  /\ UNCHANGED <<cnt, baseQueue, fdOf, loopOf, listening, inLoop, kept, io,
                 running, server>>

\* forceClose(), on any thread: the exchange under the lock ...
ForceClose(c) ==
  /\ c \in kept
  /\ state[c] = "ESTABLISHED"
  /\ state' = [state EXCEPT ![c] = "DISCONNECTING"]
  /\ forcing' = forcing \cup {c}
  /\ UNCHANGED <<base, fdOf, loopOf, listening, inLoop, kept, io, running,
                 server>>

\* ... and queueInLoop(), on a loop that still exists.
ForceCloseQueues(c) ==
  /\ c \in forcing
  /\ phase[loopOf[c]] # "exited"
  /\ forcing' = forcing \ {c}
  /\ Push(loopOf[c], "close", c)
  /\ UNCHANGED <<base, conn, kept, phase, active, batch, held, running, server>>

DropPointer(c) ==
  /\ c \in kept
  /\ kept' = kept \ {c}
  /\ UNCHANGED <<base, conn, forcing, io, running, server>>

IoStep(l) ==
  \/ \E c \in Conn : \/ ReadMessage(l, c) \/ ReadEof(l, c)
                     \/ Establish(l, c) \/ RunForceClose(l, c) \/ Destroy(l, c)
  \/ Swap(l) \/ EndIteration(l)

Next ==
  \/ \E c \in Conn : \/ \E f \in Fd : Accept(c, f)
                     \/ ForceClose(c) \/ ForceCloseQueues(c) \/ DropPointer(c)
  \/ Erase
  \/ \E l \in IoLoop : Poll(l) \/ IoStep(l)

SafeSpec == Init /\ [][Next]_vars

\* The threads of the loops run, epoll_wait returns for a queued task, and a
\* thread inside forceClose() gets out of it.  Nothing is assumed of the peers.
Fairness ==
  /\ WF_vars(Erase)
  /\ \A l \in IoLoop : WF_vars(IoStep(l) \/ (queue[l] # <<>> /\ Poll(l)))
  /\ \A c \in Conn : WF_vars(ForceCloseQueues(c))

Spec == SafeSpec /\ Fairness

-----------------------------------------------------------------------------
(* ~TcpServer(), on the base loop's thread. *)

BeginDestructor ==
  /\ server = "up"
  /\ server' = "clearing"
  /\ UNCHANGED <<base, conn, kept, forcing, io, running>>

\* One connection of the map: connectDestroyed() is given to its loop.
ClearConnection(c) ==
  /\ server = "clearing"
  /\ \E f \in Fd : /\ connections[f] = c
                   /\ connections' = [connections EXCEPT ![f] = NoConn]
  /\ Push(loopOf[c], "destroy", c)
  /\ UNCHANGED <<cnt, baseQueue, conn, kept, forcing, phase, active, batch, held,
                 running, server>>

\* ~EventLoopThreadPool(): quit(), loop after loop; then the threads are joined.
QuitLoop(l) ==
  /\ server \in {"clearing", "stopping"}
  /\ \A f \in Fd : connections[f] = NoConn
  /\ running[l] /\ \A k \in 1..(l - 1) : ~running[k]
  /\ server' = "stopping"
  /\ running' = [running EXCEPT ![l] = FALSE]
  /\ UNCHANGED <<base, conn, kept, forcing, io>>

Destructor ==
  \/ BeginDestructor
  \/ \E c \in Conn : ClearConnection(c)
  \/ \E l \in IoLoop : QuitLoop(l)

\* The same server, when it is destroyed while it has connections.
TeardownSpec == Init /\ [][Next \/ Destructor]_vars

-----------------------------------------------------------------------------
(* Properties. *)

\* The base loop erases by descriptor, a while after the connection closed: it
\* always erases that very connection, never one that was accepted since on
\* the same descriptor, and erases it once.
ErasesOwn ==
  /\ \A i \in DOMAIN baseQueue : connections[baseQueue[i].fd] = baseQueue[i].of
  /\ IsInjective(baseQueue)

\* A connection that is not closed is in the map under its own descriptor, so
\* that it lives, and insert() never finds its key taken.
OpenIsMapped ==
  \A c \in Conn :
    state[c] \in {"CONNECTING", "ESTABLISHED", "DISCONNECTING"}
      => connections[fdOf[c]] = c

\* No loop handles, or executes a task of, a connection that another thread has
\* deleted: neither base loop nor program drops the last pointer too early.
NoUseAfterFree ==
  \A l \in IoLoop :
    /\ \A c \in active[l] : Alive(c)
    /\ \A t \in ToSet(batch[l]) : Alive(t.conn)

\* A connection is deleted, on whatever thread, only when it is DISCONNECTED and
\* out of its loop: the assertions of ~TcpConnection() and ~Channel().
DeletedClean ==
  \A c \in Conn : Deleted(c) => state[c] = "DISCONNECTED" /\ ~inLoop[c]

\* Why.  A connection that is not made yet has no descriptor, no tasks and no
\* caller.
Made ==
  \A c \in Conn :
    IF state[c] = "none"
    THEN /\ c \notin forcing
         /\ \A l \in IoLoop : \A i \in DOMAIN ToDo(l) : ToDo(l)[i].conn # c
    ELSE fdOf[c] \in Fd

\* The map has a connection under its own descriptor; an erasing task is for a
\* connection that closed and keeps that descriptor.
Mapping ==
  /\ \A f \in Fd : connections[f] # NoConn =>
       fdOf[connections[f]] = f /\ state[connections[f]] # "none"
  /\ \A i \in DOMAIN baseQueue :
       /\ fdOf[baseQueue[i].of] = baseQueue[i].fd
       /\ state[baseQueue[i].of] = "DISCONNECTED"

\* A connection is established once, and not after it closed.
EstablishOnce ==
  \A l \in IoLoop : \A i \in DOMAIN ToDo(l) : ToDo(l)[i].kind = "establish" =>
    /\ state[ToDo(l)[i].conn] = "CONNECTING"
    /\ \A j \in DOMAIN ToDo(l) : ToDo(l)[j] = ToDo(l)[i] => j = i

\* A closed connection that is still in its loop has connectDestroyed() before
\* it, in a task that holds it.
DestroyPending ==
  \A c \in Conn : inLoop[c] =>
    /\ state[c] \in {"ESTABLISHED", "DISCONNECTING", "DISCONNECTED"}
    /\ state[c] = "DISCONNECTED" =>
         \E i \in DOMAIN ToDo(loopOf[c]) :
           ToDo(loopOf[c])[i] = [kind |-> "destroy", conn |-> c]

\* The vectors of loop() are empty outside the phase that works on them; what is
\* active is in the loop, and a swapped task's closure is held to the end.
Phases ==
  \A l \in IoLoop :
    /\ running[l] /\ phase[l] # "exited"
    /\ phase[l] # "dispatch" => active[l] = {}
    /\ phase[l] # "tasks" => batch[l] = <<>>
    /\ \A c \in active[l] : loopOf[c] = l /\ inLoop[c]
    /\ \A i \in DOMAIN batch[l] : batch[l][i].conn \in held[l]

InductiveInv ==
  /\ TypeOK /\ ErasesOwn /\ OpenIsMapped
  /\ Made /\ Mapping /\ EstablishOnce /\ DestroyPending /\ Phases

\* A connection that closes or is closed gives its descriptor back, unless the
\* program keeps a pointer to it.
DescriptorReturned ==
  \A c \in Conn :
    state[c] \in {"DISCONNECTING", "DISCONNECTED"} ~> (Deleted(c) \/ c \in kept)

\* remove() asserts hasNoneInterest(), and connectDestroyed() says that it "can
\* be called without handleClose()".
RemoveAssertion ==
  \A l \in IoLoop, c \in Conn :
    AtTask(l, "destroy", c) /\ state[c] # "ESTABLISHED" => ~listening[c]

\* assert(_state == DISCONNECTED) in ~TcpConnection().
DeletedDisconnected == \A c \in Conn : Deleted(c) => state[c] = "DISCONNECTED"
=============================================================================
