----------------------------- MODULE EventLoop ------------------------------
(***************************************************************************)
(* core/EventLoop.hpp: one EventLoop, the thread that owns it and the other *)
(* threads that hand it tasks.                                             *)
(*                                                                         *)
(* The owner runs loop(): epoll_wait, handle the active channels, swap the *)
(* vector of pending tasks out under the mutex, execute the swapped tasks. *)
(* The other threads call queueInLoop() (runInLoop() from another thread   *)
(* is the same call) and quit(); each is two steps, because the mutex is   *)
(* released (or, in quit(), was never taken) before the eventfd is written. *)
(*                                                                         *)
(* `running' is a plain bool read and written by several threads.  The     *)
(* load in loop() follows a system call and the store in quit() precedes   *)
(* one, so the outcomes of the race are the interleavings below.           *)
(* `_callingPendingTasks' has no initialiser: Init gives it any value.     *)
(***************************************************************************)
EXTENDS Naturals, Sequences

CONSTANTS
  Caller,                 \* the threads other than the owner
  Task,                   \* the closures; each is submitted at most once
  OwnerQueuesBeforeLoop   \* does the owner call queueInLoop() before loop()?

ASSUME OwnerQueuesBeforeLoopIsBool == OwnerQueuesBeforeLoop \in BOOLEAN

VARIABLES
  pc,                   \* where the owner is
  running,
  callingPendingTasks,
  pendingTask,          \* _pendingTask, under _mutex
  tasks,                \* the local vector of loop(), what is left of it
  active,               \* _activeChannels not handled yet in this iteration
  wakeupFd,             \* the counter of the eventfd
  ioReady,              \* some other channel of the loop is ready
  caller,               \* where each other thread is
  fresh,                \* tasks not submitted yet
  done                  \* tasks begun, in order (history)

vars == <<pc, running, callingPendingTasks, pendingTask, tasks, active,
          wakeupFd, ioReady, caller, fresh, done>>

PC == {"ready", "test", "poll", "dispatch", "handler", "drain", "task",
       "exited", "destroyed"}
Channels == {"wakeup", "io"}

\* The owner is inside a callback: a channel's handler or a queued task.
InCallback == pc \in {"handler", "task"}

\* Values of the variables.  The local vector of loop() holds tasks only
\* while they are being executed: an iteration executes all that it swapped.
TypeOK ==
  /\ pc \in PC
  /\ running \in BOOLEAN
  /\ callingPendingTasks \in BOOLEAN
  /\ pendingTask \in Seq(Task)
  /\ tasks \in Seq(Task)
  /\ active \in SUBSET Channels
  /\ wakeupFd \in Nat
  /\ ioReady \in BOOLEAN
  /\ caller \in [Caller -> {"idle", "mustWake"}]
  /\ fresh \in SUBSET Task
  /\ done \in Seq(Task)
  /\ tasks # <<>> => pc \in {"drain", "task"}

\* The object is constructed and loop() not yet called.
Init ==
  /\ pc = "ready"
  /\ running = TRUE
  /\ callingPendingTasks \in BOOLEAN
  /\ pendingTask = <<>>
  /\ tasks = <<>>
  /\ active = {}
  /\ wakeupFd = 0
  /\ ioReady = FALSE
  /\ caller = [c \in Caller |-> "idle"]
  /\ fresh = Task
  /\ done = <<>>

-----------------------------------------------------------------------------
(* The owner: loop(). *)

\* Fault: loop() arms `running' again, so that a quit() before it is forgotten.
EnterLoopRearms ==
  /\ pc = "ready"
  /\ pc' = "test"
  /\ running' = TRUE
  /\ UNCHANGED <<callingPendingTasks, pendingTask, tasks, active,
                 wakeupFd, ioReady, caller, fresh, done>>

EnterLoop ==
  /\ pc = "ready"
  /\ pc' = "test"
  /\ UNCHANGED <<running, callingPendingTasks, pendingTask, tasks, active,
                 wakeupFd, ioReady, caller, fresh, done>>

TestRunning ==
  /\ pc = "test"
  /\ pc' = IF running THEN "poll" ELSE "exited"
  /\ UNCHANGED <<running, callingPendingTasks, pendingTask, tasks, active,
                 wakeupFd, ioReady, caller, fresh, done>>

Ready == {ch \in Channels : \/ ch = "wakeup" /\ wakeupFd > 0
                            \/ ch = "io" /\ ioReady}

\* epoll_wait() without timeout returns once some channel is ready.
Poll ==
  /\ pc = "poll"
  /\ Ready # {}
  /\ active' = Ready
  /\ pc' = "dispatch"
  /\ UNCHANGED <<running, callingPendingTasks, pendingTask, tasks, wakeupFd,
                 ioReady, caller, fresh, done>>

\* ... or when a signal arrives (EINTR), with no channel.
PollInterrupted ==
  /\ pc = "poll"
  /\ active' = {}
  /\ pc' = "dispatch"
  /\ UNCHANGED <<running, callingPendingTasks, pendingTask, tasks, wakeupFd,
                 ioReady, caller, fresh, done>>

\* wakeupRead(): reading an eventfd sets its counter to zero.
WakeupRead ==
  /\ pc = "dispatch"
  /\ "wakeup" \in active
  /\ wakeupFd' = 0
  /\ active' = active \ {"wakeup"}
  /\ UNCHANGED <<pc, running, callingPendingTasks, pendingTask, tasks, ioReady,
                 caller, fresh, done>>

\* Channel::handleEvent() of another channel, up to the callback.
BeginHandler ==
  /\ pc = "dispatch"
  /\ "io" \in active
  /\ active' = active \ {"io"}
  /\ ioReady' = FALSE
  /\ pc' = "handler"
  /\ UNCHANGED <<running, callingPendingTasks, pendingTask, tasks, wakeupFd,
                 caller, fresh, done>>

EndHandler ==
  /\ pc = "handler"
  /\ pc' = "dispatch"
  /\ UNCHANGED <<running, callingPendingTasks, pendingTask, tasks, active,
                 wakeupFd, ioReady, caller, fresh, done>>

\* Fault: the flag is not raised, a task that queues a task wakes nobody.
SwapWithoutFlag ==
  /\ pc = "dispatch"
  /\ active = {}
  /\ callingPendingTasks' = FALSE
  /\ tasks' = pendingTask
  /\ pendingTask' = <<>>
  /\ pc' = "drain"
  /\ UNCHANGED <<running, active, wakeupFd, ioReady, caller, fresh, done>>

\* Fault: the pending tasks are copied and not swapped.
SwapCopies ==
  /\ pc = "dispatch"
  /\ active = {}
  /\ callingPendingTasks' = TRUE
  /\ tasks' = pendingTask
  /\ pc' = "drain"
  /\ UNCHANGED <<running, pendingTask, active, wakeupFd, ioReady, caller,
                 fresh, done>>

\* tasks.swap(_pendingTask) under the mutex, with the flag set before it.
Swap ==
  /\ pc = "dispatch"
  /\ active = {}
  /\ callingPendingTasks' = TRUE
  /\ tasks' = pendingTask
  /\ pendingTask' = <<>>
  /\ pc' = "drain"
  /\ UNCHANGED <<running, active, wakeupFd, ioReady, caller, fresh, done>>

BeginTask ==
  /\ pc = "drain"
  /\ tasks # <<>>
  /\ tasks' = Tail(tasks)
  /\ done' = Append(done, Head(tasks))
  /\ pc' = "task"
  /\ UNCHANGED <<running, callingPendingTasks, pendingTask, active, wakeupFd,
                 ioReady, caller, fresh>>

EndTask ==
  /\ pc = "task"
  /\ pc' = "drain"
  /\ UNCHANGED <<running, callingPendingTasks, pendingTask, tasks, active,
                 wakeupFd, ioReady, caller, fresh, done>>

EndIteration ==
  /\ pc = "drain"
  /\ tasks = <<>>
  /\ callingPendingTasks' = TRUE
  /\ pc' = "test"
  /\ UNCHANGED <<running, pendingTask, tasks, active, wakeupFd, ioReady,
                 caller, fresh, done>>

\* The scope that holds the EventLoop ends: for a pool thread, right after
\* loop() returns (EventLoopThreadPool::eventloopTask()).
Destroy ==
  /\ pc = "exited"
  /\ pc' = "destroyed"
  /\ UNCHANGED <<running, callingPendingTasks, pendingTask, tasks, active,
                 wakeupFd, ioReady, caller, fresh, done>>

-----------------------------------------------------------------------------
(* What the owner calls from a callback, or before loop(). *)

\* queueInLoop() on the owner.  Between the push and the test of the flag
\* nobody else can see a difference, so this is one step.
OwnerQueueInLoop(t) ==
  /\ InCallback \/ (pc = "ready" /\ OwnerQueuesBeforeLoop)
  /\ t \in fresh
  /\ fresh' = fresh \ {t}
  /\ pendingTask' = Append(pendingTask, t)
  /\ wakeupFd' = IF callingPendingTasks THEN wakeupFd + 1 ELSE wakeupFd
  /\ UNCHANGED <<pc, running, callingPendingTasks, tasks, active, ioReady,
                 caller, done>>

\* runInLoop() on the owner executes the closure on the spot.
OwnerRunInLoop(t) ==
  /\ InCallback \/ pc = "ready"
  /\ t \in fresh
  /\ fresh' = fresh \ {t}
  /\ done' = Append(done, t)
  /\ UNCHANGED <<pc, running, callingPendingTasks, pendingTask, tasks, active,
                 wakeupFd, ioReady, caller>>

\* quit() on the owner writes no wake-up: the loop is not in epoll_wait.
OwnerQuit ==
  /\ InCallback \/ pc = "ready"
  /\ running' = FALSE
  /\ UNCHANGED <<pc, callingPendingTasks, pendingTask, tasks, active, wakeupFd,
                 ioReady, caller, fresh, done>>

Owner ==
  \/ EnterLoop \/ TestRunning \/ Poll \/ PollInterrupted
  \/ WakeupRead \/ BeginHandler \/ EndHandler
  \/ Swap \/ BeginTask \/ EndTask \/ EndIteration
  \/ OwnerQuit \/ Destroy
  \/ \E t \in Task : OwnerQueueInLoop(t) \/ OwnerRunInLoop(t)

-----------------------------------------------------------------------------
(* The other threads.  They begin no call once the loop is destroyed. *)

\* queueInLoop(), the part under the mutex.
CallerPush(c, t) ==
  /\ caller[c] = "idle"
  /\ pc # "destroyed"
  /\ t \in fresh
  /\ fresh' = fresh \ {t}
  /\ pendingTask' = Append(pendingTask, t)
  /\ caller' = [caller EXCEPT ![c] = "mustWake"]
  /\ UNCHANGED <<pc, running, callingPendingTasks, tasks, active, wakeupFd,
                 ioReady, done>>

\* Bound: quit() is called by another thread only while `running' holds; a
\* repeated call would only add one more wake-up.
QuitBound == running

\* quit(), the store.
CallerQuit(c) ==
  /\ caller[c] = "idle"
  /\ pc # "destroyed"
  /\ QuitBound
  /\ running' = FALSE
  /\ caller' = [caller EXCEPT ![c] = "mustWake"]
  /\ UNCHANGED <<pc, callingPendingTasks, pendingTask, tasks, active, wakeupFd,
                 ioReady, fresh, done>>

\* wakeupWakeup(), the second step of both calls.  On a destroyed loop the
\* write goes to a closed descriptor of a dead object and wakes nobody.
CallerWake(c) ==
  /\ caller[c] = "mustWake"
  /\ caller' = [caller EXCEPT ![c] = "idle"]
  /\ wakeupFd' = IF pc = "destroyed" THEN wakeupFd ELSE wakeupFd + 1
  /\ UNCHANGED <<pc, running, callingPendingTasks, pendingTask, tasks, active,
                 ioReady, fresh, done>>

\* The kernel: some channel other than the eventfd becomes ready.
IoEvent ==
  /\ ~ioReady
  /\ pc # "destroyed"
  /\ ioReady' = TRUE
  /\ UNCHANGED <<pc, running, callingPendingTasks, pendingTask, tasks, active,
                 wakeupFd, caller, fresh, done>>

Next ==
  \/ Owner
  \/ \E c \in Caller : \/ \E t \in Task : CallerPush(c, t)
                       \/ CallerQuit(c)
                       \/ CallerWake(c)
  \/ IoEvent

SafeSpec == Init /\ [][Next]_vars

\* The owner's thread is scheduled and its callbacks return; a thread that is
\* inside queueInLoop() or quit() is scheduled until it returns.  Nothing is
\* assumed of the calls the threads choose to make, of signals or of I/O.
Fairness ==
  /\ WF_vars(EnterLoop \/ TestRunning \/ Poll \/ WakeupRead \/ BeginHandler
               \/ EndHandler \/ Swap \/ BeginTask \/ EndTask \/ EndIteration)
  /\ \A c \in Caller : WF_vars(CallerWake(c))

Spec == SafeSpec /\ Fairness

-----------------------------------------------------------------------------
(* Properties. *)

\* A wake-up is on its way: the eventfd is readable or a thread is about to
\* write it.
WakeupPending == wakeupFd > 0 \/ \E c \in Caller : caller[c] = "mustWake"

\* The loop never blocks in epoll_wait on a task nobody will wake it for:
\* the flag test in queueInLoop() and the order read-eventfd, swap, execute
\* in loop() together lose no wake-up.
NoLostWakeup == pc = "poll" /\ pendingTask # <<>> => WakeupPending

\* The same for quit(): a loop told to stop is not left in epoll_wait.
NoLostQuit == pc = "poll" /\ ~running => WakeupPending

\* Why: the flag is up while tasks run, so the owner too writes the eventfd for
\* a task queued by a task; and from the swap to the next epoll_wait a pending
\* task is always covered by a wake-up.  Before the swap none is needed.
FlagUpWhileDraining == pc \in {"drain", "task"} => callingPendingTasks
PendingCovered ==
  pendingTask # <<>> /\ pc \in {"ready", "test", "poll", "drain", "task"}
    => WakeupPending
InductiveInv == TypeOK /\ FlagUpWhileDraining /\ PendingCovered /\ NoLostQuit

\* The loop is the serial executor of TaskExecutor: what is left of the
\* swapped vector, then the pending vector, is one FIFO queue; no task is
\* lost, repeated or overtaken, whatever the interleaving of push, swap and
\* wake-up, and no queued task waits forever while the loop runs.
Executor == INSTANCE TaskExecutor WITH queue <- tasks \o pendingTask,
                                       stopped <- ~running
ImplementsExecutor == Executor!Spec

\* A task handed to queueInLoop() is begun, unless quit() is called.
QueuedTaskRuns ==
  \A t \in Task :
    (\E i \in DOMAIN pendingTask : pendingTask[i] = t)
      ~> (~running \/ \E i \in DOMAIN done : done[i] = t)

\* After quit(), from whatever thread and even before loop(), loop() returns.
QuitExits == ~running ~> pc \in {"exited", "destroyed"}

\* A thread inside queueInLoop() or quit() still has a loop to wake: the
\* write in wakeupWakeup() succeeds, as its assert(n == sizeof one) says.
LoopOutlivesCallers ==
  \A c \in Caller : caller[c] = "mustWake" => pc # "destroyed"
=============================================================================
