------------------------------- MODULE Poller -------------------------------
(***************************************************************************)
(* core/EventLoop.hpp: Channel and EventLoop::Poller, the registration of  *)
(* descriptors with epoll.                                                 *)
(*                                                                         *)
(* A Channel is an object that watches one descriptor.  It keeps the mask  *)
(* it wants (_interests), whether it was ever applied (_addedInLoop) and   *)
(* what the poller believes the kernel knows (poller_cb.state); the kernel *)
(* keeps, per open descriptor, a mask and the pointer of a Channel.  All   *)
(* calls come from the loop's thread, between two epoll_waits: from inside *)
(* a channel's handler or from a task.                                     *)
(*                                                                         *)
(* The callers are those of the repository (TcpConnection, Connector,      *)
(* Acceptor, TimerQueue, EventLoop itself), reduced to the discipline they *)
(* share: interests change in any order; remove() needs an empty mask; a   *)
(* descriptor is closed after remove(); a Channel is deleted after         *)
(* remove(), in a task ("or the connection may be destructed in the middle *)
(* of a loop", TcpClient.hpp) or, by the timer with which Connector tries  *)
(* again, in a handler of a later iteration.                               *)
(***************************************************************************)
EXTENDS Naturals, FiniteSets

CONSTANTS
  Channel,     \* the channel objects; each address is used once
  Fd,          \* descriptors; the kernel hands a closed one out again
  NoChannel,   \* no channel
  TimerChannel \* the channel of the EventLoop's TimerQueue, for DestroyLoop

ASSUME NoChannelAssumption == NoChannel \notin Channel

VARIABLES
  status,     \* of each object: not constructed, constructed, deleted
  fdOf,       \* _fd
  interests,  \* _interests
  added,      \* _addedInLoop
  pollState,  \* poller_cb.state
  owner,      \* the channel a descriptor was opened for, while it is open
  entry,      \* kernel: the pointer registered with a descriptor
  mask,       \* kernel: the events it is registered for
  phase,      \* where loop() is
  activeChannels,  \* those not handled yet
  handling,   \* the channel whose handleEvent() is running
  settled,    \* channels that were out of the loop at the last epoll_wait
  ctlFailed   \* some epoll_ctl returned an error: exit(-1)

object     == <<status, fdOf, interests, added, pollState>>
kernel     == <<owner, entry, mask, ctlFailed>>
where      == <<phase, activeChannels, handling, settled>>
pollerVars == <<object, kernel, where>>

Interest == {"in", "out"}
Masks == SUBSET Interest

\* Values of the variables; the channel's own flag and the poller's state say
\* the same of whether the channel is in the loop.
PollerTypeOK ==
  /\ status \in [Channel -> {"none", "live", "deleted"}]
  /\ fdOf \in [Channel -> Fd]
  /\ interests \in [Channel -> Masks]
  /\ added \in [Channel -> BOOLEAN]
  /\ pollState \in [Channel -> {"UNSET", "SET", "DELET"}]
  /\ owner \in [Fd -> Channel \cup {NoChannel}]
  /\ entry \in [Fd -> Channel \cup {NoChannel}]
  /\ mask \in [Fd -> Masks]
  /\ phase \in {"dispatch", "tasks"}
  /\ activeChannels \in SUBSET Channel
  /\ handling \in Channel \cup {NoChannel}
  /\ settled \in SUBSET Channel
  /\ ctlFailed \in BOOLEAN
  /\ \A c \in Channel : added[c] <=> pollState[c] # "UNSET"

\* Nothing is open yet, and the thread is about to set up its channels.
PollerInit ==
  /\ status = [c \in Channel |-> "none"]
  /\ fdOf \in [Channel -> Fd]
  /\ interests = [c \in Channel |-> {}]
  /\ added = [c \in Channel |-> FALSE]
  /\ pollState = [c \in Channel |-> "UNSET"]
  /\ owner = [f \in Fd |-> NoChannel]
  /\ entry = [f \in Fd |-> NoChannel]
  /\ mask = [f \in Fd |-> {}]
  /\ phase = "tasks"
  /\ activeChannels = {}
  /\ handling = NoChannel
  /\ settled = Channel
  /\ ctlFailed = FALSE

-----------------------------------------------------------------------------
(* epoll_ctl: ADD fails on a registered descriptor, MOD and DEL on one that *)
(* is not registered; the mask of ADD and MOD is that of the caller.        *)

CtlAdd(c, m) ==
  /\ ctlFailed' = (ctlFailed \/ entry[fdOf[c]] # NoChannel)
  /\ entry' = [entry EXCEPT ![fdOf[c]] = c]
  /\ mask' = [mask EXCEPT ![fdOf[c]] = m]

CtlMod(c, m) ==
  /\ ctlFailed' = (ctlFailed \/ entry[fdOf[c]] = NoChannel)
  /\ mask' = [mask EXCEPT ![fdOf[c]] = m]
  /\ UNCHANGED entry

CtlDel(c) ==
  /\ ctlFailed' = (ctlFailed \/ entry[fdOf[c]] = NoChannel)
  /\ entry' = [entry EXCEPT ![fdOf[c]] = NoChannel]
  /\ mask' = [mask EXCEPT ![fdOf[c]] = {}]

-----------------------------------------------------------------------------
(* The calls of the loop's thread. *)

\* The thread runs code of the program: a handler, or a task.
InCode == handling # NoChannel \/ phase = "tasks"

\* A channel that may be called: constructed, its descriptor still open.
Usable(c) == InCode /\ status[c] = "live" /\ owner[fdOf[c]] = c

\* A descriptor is opened and a Channel constructed for it.
Construct(c, f) ==
  /\ InCode
  /\ status[c] = "none"
  /\ owner[f] = NoChannel
  /\ status' = [status EXCEPT ![c] = "live"]
  /\ fdOf' = [fdOf EXCEPT ![c] = f]
  /\ owner' = [owner EXCEPT ![f] = c]
  /\ UNCHANGED <<interests, added, pollState, entry, mask, ctlFailed, where>>

\* Fault: the poller forgets that it deleted the descriptor from epoll.
ApplyInterestKeepsSet(c, new) ==
  /\ interests' = [interests EXCEPT ![c] = new]
  /\ added' = [added EXCEPT ![c] = TRUE]
  /\ pollState' = [pollState EXCEPT ![c] = "SET"]
  /\ \/ pollState[c] # "SET" /\ CtlAdd(c, new)
     \/ pollState[c] = "SET" /\ new = {} /\ CtlDel(c)
     \/ pollState[c] = "SET" /\ new # {} /\ CtlMod(c, new)
  /\ UNCHANGED <<status, fdOf, owner, where>>

\* Fault: a second change of the mask does not reach the kernel.
ApplyInterestOnce(c, new) ==
  /\ interests' = [interests EXCEPT ![c] = new]
  /\ added' = [added EXCEPT ![c] = TRUE]
  /\ \/ /\ pollState[c] # "SET"
        /\ pollState' = [pollState EXCEPT ![c] = "SET"]
        /\ CtlAdd(c, new)
     \/ /\ pollState[c] = "SET" /\ new = {}
        /\ pollState' = [pollState EXCEPT ![c] = "DELET"]
        /\ CtlDel(c)
     \/ /\ pollState[c] = "SET" /\ new # {}
        /\ UNCHANGED <<pollState, entry, mask, ctlFailed>>
  /\ UNCHANGED <<status, fdOf, owner, where>>

\* applyInterest() and Poller::addOrUpdateChannel().  A channel that is not in
\* the kernel is added even with an empty mask: the second of two unset calls
\* registers the descriptor again, for EPOLLERR and EPOLLHUP only.
ApplyInterest(c, new) ==
  /\ interests' = [interests EXCEPT ![c] = new]
  /\ added' = [added EXCEPT ![c] = TRUE]
  /\ \/ /\ pollState[c] # "SET"
        /\ pollState' = [pollState EXCEPT ![c] = "SET"]
        /\ CtlAdd(c, new)
     \/ /\ pollState[c] = "SET" /\ new = {}
        /\ pollState' = [pollState EXCEPT ![c] = "DELET"]
        /\ CtlDel(c)
     \/ /\ pollState[c] = "SET" /\ new # {}
        /\ CtlMod(c, new)
        /\ UNCHANGED pollState
  /\ UNCHANGED <<status, fdOf, owner, where>>

SetInterest(c, i) == Usable(c) /\ ApplyInterest(c, interests[c] \cup {i})

UnsetInterest(c, i) == Usable(c) /\ ApplyInterest(c, interests[c] \ {i})

UnsetAllInterest(c) == Usable(c) /\ ApplyInterest(c, {})

\* removeChannel()
RemoveChannel(c) ==
  /\ pollState' = [pollState EXCEPT ![c] = "UNSET"]
  /\ \/ pollState[c] = "SET" /\ CtlDel(c)
     \/ pollState[c] # "SET" /\ UNCHANGED <<entry, mask, ctlFailed>>

\* remove(), under its assertion hasNoneInterest().
Remove(c) ==
  /\ Usable(c)
  /\ interests[c] = {}
  /\ added' = [added EXCEPT ![c] = FALSE]
  /\ RemoveChannel(c)
  /\ UNCHANGED <<status, fdOf, interests, owner, where>>

\* The descriptor is closed; Connector does so before it deletes the channel.
\* The kernel drops what is registered for a descriptor that is closed.
CloseFd(c) ==
  /\ Usable(c)
  /\ ~added[c]
  /\ owner' = [owner EXCEPT ![fdOf[c]] = NoChannel]
  /\ entry' = [entry EXCEPT ![fdOf[c]] = NoChannel]
  /\ mask' = [mask EXCEPT ![fdOf[c]] = {}]
  /\ UNCHANGED <<ctlFailed, object, where>>

\* Fault: a channel is deleted from inside a handler.
DeleteInHandler(c) ==
  /\ InCode
  /\ handling # c
  /\ status[c] = "live"
  /\ ~added[c]
  /\ status' = [status EXCEPT ![c] = "deleted"]
  /\ UNCHANGED <<fdOf, interests, added, pollState, kernel, where>>

\* ~Channel(), in a task or in a handler of a later iteration.
Delete(c) ==
  /\ phase = "tasks" \/ (handling # NoChannel /\ c \in settled)
  /\ status[c] = "live"
  /\ ~added[c]
  /\ status' = [status EXCEPT ![c] = "deleted"]
  /\ UNCHANGED <<fdOf, interests, added, pollState, kernel, where>>

-----------------------------------------------------------------------------
(* loop() *)

\* epoll_wait returns: any set of the registered channels, for EPOLLERR and
\* EPOLLHUP are reported with any mask; none, when it is interrupted.
EpollWait ==
  /\ phase = "tasks"
  /\ activeChannels' \in SUBSET {entry[f] : f \in {g \in Fd : entry[g] # NoChannel}}
  /\ settled' = {c \in Channel : ~added[c]}
  /\ phase' = "dispatch"
  /\ UNCHANGED <<handling, object, kernel>>

\* Channel::handleEvent() of an active channel begins ...
BeginHandleEvent(c) ==
  /\ handling = NoChannel
  /\ c \in activeChannels
  /\ activeChannels' = activeChannels \ {c}
  /\ handling' = c
  /\ UNCHANGED <<phase, settled, object, kernel>>

\* ... and returns.
EndHandleEvent ==
  /\ handling # NoChannel
  /\ handling' = NoChannel
  /\ UNCHANGED <<phase, activeChannels, settled, object, kernel>>

\* All active channels are handled: loop() goes on to the tasks.
EndDispatch ==
  /\ phase = "dispatch"
  /\ activeChannels = {}
  /\ handling = NoChannel
  /\ phase' = "tasks"
  /\ UNCHANGED <<activeChannels, handling, settled, object, kernel>>

Loop ==
  \/ \E c \in Channel : BeginHandleEvent(c)
  \/ EpollWait \/ EndHandleEvent \/ EndDispatch

PollerNext ==
  \/ \E c \in Channel :
       \/ \E f \in Fd : Construct(c, f)
       \/ \E i \in Interest : SetInterest(c, i) \/ UnsetInterest(c, i)
       \/ UnsetAllInterest(c) \/ Remove(c) \/ CloseFd(c) \/ Delete(c)
  \/ Loop

PollerSpec == PollerInit /\ [][PollerNext]_pollerVars

\* ~EventLoop() removes the channel of the eventfd and then destroys its
\* members: ~TimerQueue() is empty, so the timer's channel goes as it is.
DestroyLoop ==
  /\ phase = "tasks"
  /\ status[TimerChannel] = "live"
  /\ status' = [status EXCEPT ![TimerChannel] = "deleted"]
  /\ UNCHANGED <<fdOf, interests, added, pollState, kernel, where>>

\* The same program, when the EventLoop is destroyed at its end.
DestructorSpec == PollerInit /\ [][PollerNext \/ DestroyLoop]_pollerVars

-----------------------------------------------------------------------------
(* Properties. *)

\* No epoll_ctl ever fails, so epollCtl() never ends the process: whatever the
\* order of the calls, poller_cb.state tells ADD, MOD and DEL apart.
CtlSucceeds == ~ctlFailed

\* While a channel's descriptor is open, the kernel has exactly what the
\* channel asked for: the mask is _interests, and a descriptor the poller
\* calls SET is registered with the channel itself.
KernelAgrees ==
  \A c \in Channel : status[c] = "live" /\ owner[fdOf[c]] = c =>
    /\ entry[fdOf[c]] = (IF pollState[c] = "SET" THEN c ELSE NoChannel)
    /\ mask[fdOf[c]] = interests[c]

\* epoll_wait and loop() only hand out pointers of objects that exist: neither
\* the kernel nor _activeChannels keeps a deleted channel, also when its
\* descriptor has been closed and handed out again.
PointersLive ==
  /\ \A f \in Fd : entry[f] # NoChannel => status[entry[f]] = "live"
  /\ \A c \in activeChannels \cup ({handling} \ {NoChannel}) : status[c] = "live"

\* Why.  A descriptor that is not open has nothing registered; what is
\* registered is the channel the descriptor was opened for, and that channel
\* is in the loop.
Ownership ==
  /\ \A f \in Fd : owner[f] = NoChannel => entry[f] = NoChannel /\ mask[f] = {}
  /\ \A f \in Fd : owner[f] # NoChannel =>
       fdOf[owner[f]] = f /\ status[owner[f]] # "none"
  /\ \A f \in Fd : entry[f] # NoChannel =>
       entry[f] = owner[f] /\ added[entry[f]]

\* A channel in the loop exists and its descriptor is open; no handler runs,
\* and none waits to, while the tasks are executed; what is handled was in the
\* loop at the last epoll_wait.
Lifetime ==
  /\ \A c \in Channel : added[c] => status[c] = "live" /\ owner[fdOf[c]] = c
  /\ \A c \in Channel : status[c] = "none" => interests[c] = {}
  /\ phase = "tasks" => activeChannels = {} /\ handling = NoChannel
  /\ \A c \in settled : c \notin activeChannels /\ handling # c

PollerInv ==
  /\ PollerTypeOK /\ Ownership /\ Lifetime
  /\ CtlSucceeds /\ KernelAgrees /\ PointersLive

\* "The channel cannot be destroyed while it is still in the loop": the second
\* assertion of ~Channel().
DeletedNotInLoop == \A c \in Channel : status[c] = "deleted" => ~added[c]
=============================================================================
