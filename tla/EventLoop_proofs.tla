-------------------------- MODULE EventLoop_proofs ---------------------------
(***************************************************************************)
(* Theorems about what is in core/EventLoop.hpp.  EventLoop, for any        *)
(* threads and any tasks: the types, that no wake-up and no quit() is lost, *)
(* and that every step of the loop is a step of the serial executor.       *)
(* Poller, for any channels and any descriptors: whatever legal calls the   *)
(* loop's thread makes, no epoll_ctl fails, the kernel has the masks the    *)
(* channels asked for, and every pointer that epoll_wait or the list of     *)
(* active channels holds is a live object.                                 *)
(***************************************************************************)
EXTENDS EventLoop, Poller, TLAPS

(***************************************************************************)
(* Three facts about concatenation: the queue of the executor is what is   *)
(* left of the swapped vector followed by the pending vector.              *)
(***************************************************************************)

\* A push on the pending vector is a push on the whole queue.
LEMMA AppendRight ==
  ASSUME NEW S, NEW s \in Seq(S), NEW q \in Seq(S), NEW e \in S
  PROVE  s \o Append(q, e) = Append(s \o q, e)
OBVIOUS

\* Beginning a swapped task takes the head of the whole queue.
LEMMA TailLeft ==
  ASSUME NEW S, NEW s \in Seq(S), NEW q \in Seq(S), s # <<>>
  PROVE  /\ s \o q # <<>>
         /\ Head(s \o q) = Head(s)
         /\ Tail(s \o q) = Tail(s) \o q
OBVIOUS

\* The swap leaves the whole queue as it is.
LEMMA EmptySides ==
  ASSUME NEW S, NEW q \in Seq(S)
  PROVE  <<>> \o q = q \o <<>>
OBVIOUS

-----------------------------------------------------------------------------

\* Every variable keeps its type, and the local vector of loop() is empty
\* outside the loop over it.
THEOREM TypeCorrect == SafeSpec => []TypeOK
<1>1. Init => TypeOK
  <2> SUFFICES ASSUME Init PROVE TypeOK
    OBVIOUS
  <2>1. caller \in [Caller -> {"idle", "mustWake"}]
    BY DEF Init
  <2>2. active \in SUBSET Channels /\ fresh \in SUBSET Task
    BY DEF Init
  <2>3. pendingTask \in Seq(Task) /\ tasks \in Seq(Task) /\ done \in Seq(Task)
    BY DEF Init
  <2> QED
    BY <2>1, <2>2, <2>3 DEF Init, TypeOK, PC
<1>2. TypeOK /\ [Next]_vars => TypeOK'
  <2> SUFFICES ASSUME TypeOK, [Next]_vars PROVE TypeOK'
    OBVIOUS
  <2> USE DEF TypeOK, PC, Channels
  <2>1. CASE EnterLoop \/ TestRunning \/ Poll \/ PollInterrupted
    BY <2>1 DEF EnterLoop, TestRunning, Poll, PollInterrupted, Ready
  <2>2. CASE WakeupRead
    BY <2>2 DEF WakeupRead
  <2>3. CASE BeginHandler \/ EndHandler \/ Destroy
    BY <2>3 DEF BeginHandler, EndHandler, Destroy
  <2>4. CASE OwnerQuit
    BY <2>4 DEF OwnerQuit
  <2>5. CASE Swap
    BY <2>5 DEF Swap
  <2>6. CASE BeginTask
    BY <2>6 DEF BeginTask
  <2>7. CASE EndTask \/ EndIteration
    BY <2>7 DEF EndTask, EndIteration
  <2>8. ASSUME NEW t \in Task, OwnerQueueInLoop(t)
        PROVE TypeOK'
    BY <2>8 DEF OwnerQueueInLoop, InCallback
  <2>9. ASSUME NEW t \in Task, OwnerRunInLoop(t)
        PROVE TypeOK'
    BY <2>9 DEF OwnerRunInLoop, InCallback
  <2>10. ASSUME NEW c \in Caller, NEW t \in Task, CallerPush(c, t)
        PROVE TypeOK'
    BY <2>10 DEF CallerPush
  <2>11. ASSUME NEW c \in Caller, CallerQuit(c)
        PROVE TypeOK'
    BY <2>11 DEF CallerQuit
  <2>12. ASSUME NEW c \in Caller, CallerWake(c)
         PROVE TypeOK'
    BY <2>12 DEF CallerWake
  <2>13. CASE IoEvent
    BY <2>13 DEF IoEvent
  <2>14. CASE UNCHANGED vars
    BY <2>14 DEF vars
  <2> QED
    BY <2>1, <2>2, <2>3, <2>4, <2>5, <2>6, <2>7, <2>8, <2>9, <2>10, <2>11,
       <2>12, <2>13, <2>14 DEF Next, Owner
<1> QED
  BY <1>1, <1>2, PTL DEF SafeSpec

-----------------------------------------------------------------------------

\* A thread that is about to wake the loop keeps the wake-up pending while it
\* is not the eventfd itself that is read.
LEMMA WakeKeepsPending ==
  ASSUME TypeOK, NEW c \in Caller, CallerWake(c), pc # "destroyed"
  PROVE  WakeupPending'
BY DEF TypeOK, CallerWake, WakeupPending

\* No step from the invariant leaves it, unless the owner queues before loop().
LEMMA InductiveStep ==
  ASSUME ~OwnerQueuesBeforeLoop, InductiveInv, TypeOK', [Next]_vars
  PROVE  InductiveInv'
<1> USE DEF InductiveInv, FlagUpWhileDraining, PendingCovered, NoLostQuit
<1>1. CASE EnterLoop \/ TestRunning \/ EndTask \/ EndIteration
  BY <1>1 DEF EnterLoop, TestRunning, EndTask, EndIteration, WakeupPending,
              TypeOK, PC
<1>2. CASE Poll \/ PollInterrupted \/ WakeupRead \/ BeginHandler \/ EndHandler
             \/ Destroy
  BY <1>2 DEF Poll, PollInterrupted, WakeupRead, BeginHandler, EndHandler,
              Destroy
<1>3. CASE Swap
  BY <1>3 DEF Swap
<1>4. CASE BeginTask
  BY <1>4 DEF BeginTask, WakeupPending
<1>5. ASSUME NEW t \in Task, OwnerQueueInLoop(t)
      PROVE InductiveInv'
  <2>1. pc = "task" => wakeupFd' > 0
    BY <1>5 DEF OwnerQueueInLoop, TypeOK
  <2> QED
    BY <1>5, <2>1 DEF OwnerQueueInLoop, InCallback, WakeupPending
<1>6. CASE OwnerQuit \/ \E t \in Task : OwnerRunInLoop(t)
  BY <1>6 DEF OwnerQuit, OwnerRunInLoop, InCallback, WakeupPending
<1>7. ASSUME NEW c \in Caller, NEW t \in Task, CallerPush(c, t)
      PROVE InductiveInv'
  <2>1. WakeupPending'
    BY <1>7 DEF CallerPush, WakeupPending, TypeOK
  <2> QED
    BY <1>7, <2>1 DEF CallerPush
<1>8. ASSUME NEW c \in Caller, CallerQuit(c)
      PROVE InductiveInv'
  <2>1. WakeupPending'
    BY <1>8 DEF CallerQuit, WakeupPending, TypeOK
  <2> QED
    BY <1>8, <2>1 DEF CallerQuit
<1>9. ASSUME NEW c \in Caller, CallerWake(c)
      PROVE InductiveInv'
  BY <1>9, WakeKeepsPending DEF CallerWake
<1>10. CASE IoEvent
  BY <1>10 DEF IoEvent, WakeupPending
<1>11. CASE UNCHANGED vars
  BY <1>11 DEF vars, WakeupPending
<1> QED
  BY <1>1, <1>2, <1>3, <1>4, <1>5, <1>6, <1>7, <1>8, <1>9, <1>10, <1>11
  DEF Next, Owner

\* If the owner queues nothing before it calls loop(), the loop never blocks in
\* epoll_wait on a pending task, nor after quit(), without a wake-up on its way.
THEOREM NoWakeupIsLost ==
  ASSUME ~OwnerQueuesBeforeLoop
  PROVE  SafeSpec => [](NoLostWakeup /\ NoLostQuit)
<1>1. Init /\ TypeOK => InductiveInv
  BY DEF Init, InductiveInv, FlagUpWhileDraining, PendingCovered, NoLostQuit
<1>2. InductiveInv /\ TypeOK' /\ [Next]_vars => InductiveInv'
  BY InductiveStep
<1>3. InductiveInv => NoLostWakeup /\ NoLostQuit
  BY DEF InductiveInv, PendingCovered, NoLostWakeup
<1> QED
  BY <1>1, <1>2, <1>3, TypeCorrect, PTL DEF SafeSpec

-----------------------------------------------------------------------------

\* Every step of the loop and its threads is a step of the serial executor or
\* changes nothing it can see.
LEMMA ExecutorStep ==
  ASSUME TypeOK, [Next]_vars
  PROVE  [Executor!Next]_(Executor!vars)
<1> USE DEF Executor!vars, TypeOK
<1>1. CASE EnterLoop \/ TestRunning \/ EndTask \/ EndIteration
  BY <1>1 DEF EnterLoop, TestRunning, EndTask, EndIteration
<1>2. CASE Poll \/ PollInterrupted \/ WakeupRead \/ BeginHandler \/ EndHandler
             \/ Destroy
  BY <1>2 DEF Poll, PollInterrupted, WakeupRead, BeginHandler, EndHandler,
              Destroy
<1>3. CASE Swap
  <2>1. tasks = <<>>
    BY <1>3 DEF Swap
  <2>2. (tasks \o pendingTask)' = tasks \o pendingTask
    BY <1>3, <2>1, EmptySides DEF Swap
  <2> QED
    BY <1>3, <2>2 DEF Swap
<1>4. CASE BeginTask
  <2>1. Executor!RunHead
    BY <1>4, TailLeft DEF BeginTask, Executor!RunHead
  <2> QED
    BY <2>1 DEF Executor!Next
<1>5. ASSUME NEW t \in Task, OwnerQueueInLoop(t)
      PROVE Executor!Submit(t)
  BY <1>5, AppendRight DEF OwnerQueueInLoop, Executor!Submit
<1>6. ASSUME NEW t \in Task, OwnerRunInLoop(t)
      PROVE Executor!RunInline(t)
  BY <1>6 DEF OwnerRunInLoop, Executor!RunInline
<1>7. ASSUME NEW c \in Caller, NEW t \in Task, CallerPush(c, t)
      PROVE Executor!Submit(t)
  BY <1>7, AppendRight DEF CallerPush, Executor!Submit
<1>8. ASSUME OwnerQuit \/ \E c \in Caller : CallerQuit(c)
      PROVE Executor!Stop
  BY <1>8 DEF OwnerQuit, CallerQuit, Executor!Stop
<1>9. CASE IoEvent \/ \E c \in Caller : CallerWake(c)
  BY <1>9 DEF IoEvent, CallerWake
<1>10. CASE UNCHANGED vars
  BY <1>10 DEF vars
<1> QED
  BY <1>1, <1>2, <1>3, <1>4, <1>5, <1>6, <1>7, <1>8, <1>9, <1>10
  DEF Next, Owner, Executor!Next

\* Whatever the threads do, the loop behaves as a serial executor: the tasks
\* begun are the tasks queued, each once and in their order.
THEOREM LoopIsExecutor == SafeSpec => Executor!SafeSpec
<1>1. Init => Executor!Init
  BY EmptySides DEF Init, Executor!Init
<1>2. TypeOK /\ [Next]_vars => [Executor!Next]_(Executor!vars)
  BY ExecutorStep
<1> QED
  BY <1>1, <1>2, TypeCorrect, PTL DEF SafeSpec, Executor!SafeSpec

-----------------------------------------------------------------------------
(* Poller. *)

\* The flags of the objects fit the kernel's table initially.
LEMMA InitInductive == PollerInit => PollerInv
<1> SUFFICES ASSUME PollerInit PROVE PollerInv
  OBVIOUS
<1> USE NoChannelAssumption DEF PollerInit
<1>1. PollerTypeOK
  BY DEF PollerTypeOK, Masks
<1>2. Ownership /\ CtlSucceeds /\ KernelAgrees /\ PointersLive
  BY DEF Ownership, CtlSucceeds, KernelAgrees, PointersLive
<1>3. Lifetime
  BY DEF Lifetime
<1> QED
  BY <1>1, <1>2, <1>3 DEF PollerInv

-----------------------------------------------------------------------------
(* One lemma per call. *)

\* A new channel starts unregistered, on a descriptor nothing is registered
\* for.
LEMMA ConstructStep ==
  ASSUME PollerInv, NEW c \in Channel, NEW f \in Fd, Construct(c, f)
  PROVE  PollerInv'
<1> USE NoChannelAssumption DEF PollerInv, Construct, kernel, where
<1>1. PollerTypeOK'
  BY DEF PollerTypeOK, Interest, Masks
<1>2. Ownership'
  BY DEF PollerTypeOK, Ownership, Lifetime
<1>3. Lifetime'
  BY DEF PollerTypeOK, Ownership, Lifetime, InCode
<1>4. CtlSucceeds'
  BY DEF CtlSucceeds
<1>5. KernelAgrees'
  <2> SUFFICES ASSUME NEW d \in Channel,
                      status'[d] = "live" /\ owner'[fdOf'[d]] = d
               PROVE  /\ entry'[fdOf'[d]]
                           = (IF pollState'[d] = "SET" THEN d ELSE NoChannel)
                      /\ mask'[fdOf'[d]] = interests'[d]
    BY DEF KernelAgrees
  <2>1. CASE d = c
    <3>1. pollState[c] = "UNSET" /\ interests[c] = {}
      BY DEF PollerTypeOK, Lifetime
    <3>2. entry[f] = NoChannel /\ mask[f] = {}
      BY DEF Ownership
    <3>3. fdOf'[c] = f
      BY DEF PollerTypeOK
    <3> QED
      BY <2>1, <3>1, <3>2, <3>3
  <2>2. CASE d # c
    <3>1. fdOf'[d] = fdOf[d] /\ status[d] = "live" /\ owner[fdOf[d]] = d
      BY <2>2 DEF PollerTypeOK
    <3> QED
      BY <3>1 DEF KernelAgrees
  <2> QED
    BY <2>1, <2>2
<1>6. PointersLive'
  BY DEF PollerTypeOK, Ownership, Lifetime, PointersLive
<1> QED
  BY <1>1, <1>2, <1>3, <1>4, <1>5, <1>6

\* The three epoll_ctl operations of applyInterest(): poller_cb.state picks the
\* one that the kernel's table allows.
LEMMA ApplyInterestStep ==
  ASSUME PollerInv, NEW c \in Channel, NEW new \in Masks, Usable(c),
         ApplyInterest(c, new)
  PROVE  PollerInv'
<1> USE NoChannelAssumption DEF PollerInv, ApplyInterest, Usable, where,
        CtlAdd, CtlMod, CtlDel
<1>1. PollerTypeOK'
  <2>1. fdOf[c] \in Fd /\ {} \in Masks
    BY DEF PollerTypeOK, Masks
  <2>2. entry' \in [Fd -> Channel \cup {NoChannel}] /\ mask' \in [Fd -> Masks]
    <3>1. /\ entry \in [Fd -> Channel \cup {NoChannel}]
          /\ mask \in [Fd -> Masks]
      BY DEF PollerTypeOK
    <3>2. CASE CtlAdd(c, new)
      BY <2>1, <3>1, <3>2
    <3>3. CASE CtlDel(c)
      BY <2>1, <3>1, <3>3
    <3>4. CASE CtlMod(c, new)
      BY <2>1, <3>1, <3>4
    <3> QED
      BY <3>2, <3>3, <3>4
  <2>3. /\ pollState' \in [Channel -> {"UNSET", "SET", "DELET"}]
        /\ interests' \in [Channel -> Masks]
        /\ added' \in [Channel -> BOOLEAN]
        /\ \A d \in Channel : added'[d] <=> pollState'[d] # "UNSET"
    BY DEF PollerTypeOK
  <2>4. ctlFailed' \in BOOLEAN
    OBVIOUS
  <2> QED
    BY <2>2, <2>3, <2>4 DEF PollerTypeOK
<1>2. Ownership'
  BY DEF PollerTypeOK, Ownership, Lifetime, KernelAgrees
<1>3. Lifetime'
  BY DEF PollerTypeOK, Lifetime
<1>4. CtlSucceeds'
  BY DEF PollerTypeOK, CtlSucceeds, KernelAgrees
<1>5. KernelAgrees'
  <2> SUFFICES ASSUME NEW d \in Channel,
                      status[d] = "live" /\ owner[fdOf[d]] = d
               PROVE  /\ entry'[fdOf[d]]
                           = (IF pollState'[d] = "SET" THEN d ELSE NoChannel)
                      /\ mask'[fdOf[d]] = interests'[d]
    BY DEF KernelAgrees
  <2>1. CASE d = c
    <3>1. fdOf[c] \in Fd /\ interests'[c] = new
      BY DEF PollerTypeOK
    <3>2. CASE pollState[c] # "SET" /\ CtlAdd(c, new)
               /\ pollState' = [pollState EXCEPT ![c] = "SET"]
      BY <2>1, <3>1, <3>2 DEF PollerTypeOK
    <3>3. CASE new = {} /\ CtlDel(c)
               /\ pollState' = [pollState EXCEPT ![c] = "DELET"]
      BY <2>1, <3>1, <3>3 DEF PollerTypeOK
    <3>4. CASE pollState[c] = "SET" /\ CtlMod(c, new) /\ UNCHANGED pollState
      BY <2>1, <3>1, <3>4 DEF PollerTypeOK, KernelAgrees
    <3> QED
      BY <3>2, <3>3, <3>4
  <2>2. CASE d # c
    <3>1. fdOf[d] # fdOf[c]
      BY <2>2
    <3> QED
      BY <2>2, <3>1 DEF PollerTypeOK, KernelAgrees
  <2> QED
    BY <2>1, <2>2
<1>6. PointersLive'
  BY DEF PollerTypeOK, Ownership, Lifetime, PointersLive
<1> QED
  BY <1>1, <1>2, <1>3, <1>4, <1>5, <1>6

\* remove() leaves neither a mask nor an entry for the descriptor.
LEMMA RemoveStep ==
  ASSUME PollerInv, NEW c \in Channel, Remove(c)
  PROVE  PollerInv'
<1> USE NoChannelAssumption
    DEF PollerInv, Remove, RemoveChannel, Usable, where, CtlDel
<1>1. PollerTypeOK'
  BY DEF PollerTypeOK, Masks, Interest
<1>2. Ownership'
  BY DEF PollerTypeOK, Ownership, Lifetime, KernelAgrees
<1>3. Lifetime'
  BY DEF PollerTypeOK, Lifetime
<1>4. CtlSucceeds'
  BY DEF PollerTypeOK, CtlSucceeds, KernelAgrees
<1>5. KernelAgrees'
  <2> SUFFICES ASSUME NEW d \in Channel,
                      status[d] = "live" /\ owner[fdOf[d]] = d
               PROVE  /\ entry'[fdOf[d]]
                           = (IF pollState'[d] = "SET" THEN d ELSE NoChannel)
                      /\ mask'[fdOf[d]] = interests'[d]
    BY DEF KernelAgrees
  <2>1. CASE d = c
    BY <2>1 DEF PollerTypeOK, KernelAgrees
  <2>2. CASE d # c
    <3>1. fdOf[d] # fdOf[c]
      BY <2>2
    <3> QED
      BY <2>2, <3>1 DEF PollerTypeOK, KernelAgrees
  <2> QED
    BY <2>1, <2>2
<1>6. PointersLive'
  BY DEF PollerTypeOK, Ownership, Lifetime, PointersLive
<1> QED
  BY <1>1, <1>2, <1>3, <1>4, <1>5, <1>6

\* A descriptor is closed when its channel is out of the loop, so what the
\* kernel drops with it was empty.
LEMMA CloseFdStep ==
  ASSUME PollerInv, NEW c \in Channel, CloseFd(c)
  PROVE  PollerInv'
<1> USE NoChannelAssumption DEF PollerInv, CloseFd, Usable, object, where
<1>1. PollerTypeOK'
  BY DEF PollerTypeOK, Masks, Interest
<1>2. Ownership'
  BY DEF PollerTypeOK, Ownership
<1>3. Lifetime'
  BY DEF PollerTypeOK, Ownership, Lifetime
<1>4. CtlSucceeds'
  BY DEF CtlSucceeds
<1>5. KernelAgrees'
  BY DEF PollerTypeOK, Ownership, KernelAgrees
<1>6. PointersLive'
  BY DEF PollerTypeOK, PointersLive
<1> QED
  BY <1>1, <1>2, <1>3, <1>4, <1>5, <1>6

\* A channel deleted in a task, out of the loop, is in no table and no list.
LEMMA DeleteStep ==
  ASSUME PollerInv, NEW c \in Channel, Delete(c)
  PROVE  PollerInv'
<1> USE NoChannelAssumption DEF PollerInv, Delete, kernel, where
<1>1. PollerTypeOK'
  BY DEF PollerTypeOK
<1>2. Ownership'
  BY DEF PollerTypeOK, Ownership
<1>3. Lifetime'
  BY DEF PollerTypeOK, Lifetime
<1>4. CtlSucceeds' /\ KernelAgrees'
  BY DEF PollerTypeOK, CtlSucceeds, KernelAgrees
<1>5. PointersLive'
  BY DEF PollerTypeOK, Ownership, Lifetime, PointersLive
<1> QED
  BY <1>1, <1>2, <1>3, <1>4, <1>5

\* The loop's own steps move pointers and change no object.
LEMMA LoopStep ==
  ASSUME PollerInv, Loop
  PROVE  PollerInv'
<1> USE NoChannelAssumption
    DEF PollerInv, PollerTypeOK, Ownership, Lifetime, CtlSucceeds, KernelAgrees,
        PointersLive, object, kernel
<1>1. ASSUME NEW c \in Channel, BeginHandleEvent(c) PROVE PollerInv'
  BY <1>1 DEF BeginHandleEvent
<1>2. CASE EpollWait
  BY <1>2 DEF EpollWait
<1>3. CASE EndHandleEvent
  BY <1>3 DEF EndHandleEvent
<1>4. CASE EndDispatch
  BY <1>4 DEF EndDispatch
<1> QED
  BY <1>1, <1>2, <1>3, <1>4 DEF Loop

-----------------------------------------------------------------------------

\* The inductive invariant holds in every state: the flags of the objects and
\* the table of the kernel stay in step through any calls.
THEOREM PollerInvariant == PollerSpec => []PollerInv
<1>1. PollerInv /\ [PollerNext]_pollerVars => PollerInv'
  <2> SUFFICES ASSUME PollerInv, [PollerNext]_pollerVars PROVE PollerInv'
    OBVIOUS
  <2>1. ASSUME NEW c \in Channel, NEW i \in Interest,
               SetInterest(c, i) \/ UnsetInterest(c, i) \/ UnsetAllInterest(c)
        PROVE PollerInv'
    <3>1. interests[c] \in Masks
      BY DEF PollerInv, PollerTypeOK
    <3>2. /\ interests[c] \cup {i} \in Masks
          /\ interests[c] \ {i} \in Masks
          /\ {} \in Masks
      BY <3>1 DEF Masks
    <3> QED
      BY <2>1, <3>2, ApplyInterestStep
      DEF SetInterest, UnsetInterest, UnsetAllInterest
  <2>2. CASE UNCHANGED pollerVars
    BY <2>2 DEF pollerVars, object, kernel, where, PollerInv, PollerTypeOK,
                Ownership, Lifetime, CtlSucceeds, KernelAgrees, PointersLive
  <2>3. "in" \in Interest
    BY DEF Interest
  <2> QED
    BY <2>1, <2>2, <2>3, ConstructStep, RemoveStep, CloseFdStep, DeleteStep,
       LoopStep
    DEF PollerNext
<1> QED
  BY <1>1, InitInductive, PTL DEF PollerSpec

\* No epoll_ctl fails: the process never ends in epollCtl().
THEOREM EpollCtlNeverFails == PollerSpec => []CtlSucceeds
<1>1. PollerInv => CtlSucceeds
  BY DEF PollerInv
<1> QED
  BY <1>1, PollerInvariant, PTL

\* The kernel watches an open descriptor for what its channel asked for.
THEOREM KernelHasTheMasks == PollerSpec => []KernelAgrees
<1>1. PollerInv => KernelAgrees
  BY DEF PollerInv
<1> QED
  BY <1>1, PollerInvariant, PTL

\* No pointer of the kernel or of the active list outlives its channel.
THEOREM NoDanglingChannel == PollerSpec => []PointersLive
<1>1. PollerInv => PointersLive
  BY DEF PollerInv
<1> QED
  BY <1>1, PollerInvariant, PTL
=============================================================================
