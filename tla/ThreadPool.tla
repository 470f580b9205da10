----------------------------- MODULE ThreadPool -----------------------------
(***************************************************************************)
(* core/ThreadPool.hpp: the threads of a pool, those that call addTask(),  *)
(* one in waitTaskClear(), and the owner, whose stop() (or destructor)     *)
(* joins the pool's threads.                                               *)
(*                                                                         *)
(* What a thread does under qMutex up to a wait or the unlock is one step. *)
(* A thread that waits on a condition is in a state of its own; notified,  *)
(* or awake for no reason, it is where it tests the condition again.  The  *)
(* queue is its length, and a task returns.                                *)
(***************************************************************************)
EXTENDS Naturals, FiniteSets

CONSTANTS
  Worker,         \* the pool's threads
  Adder,          \* the threads that call addTask()
  MaxQueueSize,   \* maxQueueSize; 0 is no limit
  MaxAdds         \* bound: calls of each of them

ASSUME ThreadsAssumption == IsFiniteSet(Worker) /\ IsFiniteSet(Adder)
ASSUME SizesAssumption == MaxQueueSize \in Nat /\ MaxAdds \in Nat

VARIABLES
  running,
  size,     \* taskQueue.size()
  worker,   \* where each thread of the pool is
  adder,    \* where each thread that adds is
  adds,     \* how often it has called addTask()
  clear,    \* where the thread that calls waitTaskClear() is
  owner     \* where the owner is

vars == <<running, size, worker, adder, adds, clear, owner>>

Taking  == {w \in Worker : worker[w] = "take"}
Idle    == {w \in Worker : worker[w] = "notEmpty"}
Adding  == {a \in Adder : adder[a] = "add"}
Blocked == {a \in Adder : adder[a] = "notFull"}

\* Values of the variables; a bounded queue never holds more than its bound.
TypeOK ==
  /\ running \in BOOLEAN
  /\ size \in Nat
  /\ MaxQueueSize > 0 => size <= MaxQueueSize
  /\ worker \in [Worker -> {"test", "take", "notEmpty", "task", "exited"}]
  /\ adder \in [Adder -> {"out", "add", "notFull"}]
  /\ adds \in [Adder -> 0..MaxAdds]
  /\ clear \in {"out", "isEmpty"}
  /\ owner \in {"using", "joining", "joined"}

\* ThreadPool::ThreadPool() starts the threads at runInThread().
Init ==
  /\ running = TRUE
  /\ size = 0
  /\ worker = [w \in Worker |-> "test"]
  /\ adder = [a \in Adder |-> "out"]
  /\ adds = [a \in Adder |-> 0]
  /\ clear = "out"
  /\ owner = "using"

-----------------------------------------------------------------------------
(* Conditions.  Each says what becomes of the threads that wait on one.    *)

\* notEmpty.notify_one()
NotifyNotEmpty ==
  \/ Idle = {} /\ UNCHANGED worker
  \/ \E w \in Idle : worker' = [worker EXCEPT ![w] = "take"]

\* notFull.notify_one()
NotifyNotFull ==
  \/ Blocked = {} /\ UNCHANGED adder
  \/ \E a \in Blocked : adder' = [adder EXCEPT ![a] = "add"]

\* A wait may return without a notification.
WakeSpuriously ==
  /\ \/ /\ \E w \in Idle : worker' = [worker EXCEPT ![w] = "take"]
        /\ UNCHANGED <<adder, clear>>
     \/ /\ \E a \in Blocked : adder' = [adder EXCEPT ![a] = "add"]
        /\ UNCHANGED <<worker, clear>>
     \/ /\ clear = "isEmpty" /\ clear' = "out"
        /\ UNCHANGED <<worker, adder>>
  /\ UNCHANGED <<running, size, adds, owner>>

-----------------------------------------------------------------------------
(* The threads of the pool. *)

\* while (running), without the mutex.
TestRunning(w) ==
  /\ worker[w] = "test"
  /\ worker' = [worker EXCEPT ![w] = IF running THEN "take" ELSE "exited"]
  /\ UNCHANGED <<running, size, adder, adds, clear, owner>>

\* take() waits for a task.
AwaitTask(w) ==
  /\ worker[w] = "take"
  /\ size = 0 /\ running
  /\ worker' = [worker EXCEPT ![w] = "notEmpty"]
  /\ UNCHANGED <<running, size, adder, adds, clear, owner>>

\* take() has a task, also when the pool is being stopped: whether it signals
\* that there is room, and that the queue is empty.
TakeSignalling(w, room, empty) ==
  /\ worker[w] = "take"
  /\ size > 0
  /\ size' = size - 1
  /\ worker' = [worker EXCEPT ![w] = "task"]
  /\ \/ room /\ NotifyNotFull
     \/ ~room /\ UNCHANGED adder
  /\ clear' = IF empty THEN "out" ELSE clear
  /\ UNCHANGED <<running, adds, owner>>

\* Faults: room is signalled only by who finds the queue full; isEmpty is not
\* signalled.
TakeOfFullQueue(w) == TakeSignalling(w, size = MaxQueueSize, size = 1)
TakeInSilence(w)   == TakeSignalling(w, MaxQueueSize > 0, FALSE)

Take(w) == TakeSignalling(w, MaxQueueSize > 0, size = 1)

\* take() of a stopped pool has none.
TakeNothing(w) ==
  /\ worker[w] = "take"
  /\ size = 0 /\ ~running
  /\ worker' = [worker EXCEPT ![w] = "test"]
  /\ UNCHANGED <<running, size, adder, adds, clear, owner>>

\* The task returns.
EndTask(w) ==
  /\ worker[w] = "task"
  /\ worker' = [worker EXCEPT ![w] = "test"]
  /\ UNCHANGED <<running, size, adder, adds, clear, owner>>

RunInThread(w) ==
  TestRunning(w) \/ AwaitTask(w) \/ Take(w) \/ TakeNothing(w) \/ EndTask(w)

-----------------------------------------------------------------------------
(* addTask(), waitTaskClear() and stop(). *)

IsFull == MaxQueueSize > 0 /\ size >= MaxQueueSize

\* Nobody calls a pool that is being destroyed.
CallAddTask(a) ==
  /\ adder[a] = "out" /\ owner = "using" /\ adds[a] < MaxAdds
  /\ adder' = [adder EXCEPT ![a] = "add"]
  /\ adds' = [adds EXCEPT ![a] = @ + 1]
  /\ UNCHANGED <<running, size, worker, clear, owner>>

AwaitRoom(a) ==
  /\ adder[a] = "add"
  /\ IsFull /\ running
  /\ adder' = [adder EXCEPT ![a] = "notFull"]
  /\ UNCHANGED <<running, size, worker, adds, clear, owner>>

Push(a) ==
  /\ adder[a] = "add"
  /\ ~IsFull /\ running
  /\ adder' = [adder EXCEPT ![a] = "out"]
  /\ size' = size + 1
  /\ NotifyNotEmpty
  /\ UNCHANGED <<running, adds, clear, owner>>

\* The pool is stopped: the task is dropped.
Refuse(a) ==
  /\ adder[a] = "add"
  /\ ~running
  /\ adder' = [adder EXCEPT ![a] = "out"]
  /\ UNCHANGED <<running, size, worker, adds, clear, owner>>

AddTask(a) == AwaitRoom(a) \/ Push(a) \/ Refuse(a)

\* waitTaskClear() that has to wait; it tests nothing when it is awake.
WaitTaskClear ==
  /\ clear = "out" /\ owner = "using"
  /\ size > 0
  /\ clear' = "isEmpty"
  /\ UNCHANGED <<running, size, worker, adder, adds, owner>>

\* stop(), or the destructor, up to the joins.
Stop ==
  /\ owner = "using"
  /\ owner' = "joining"
  /\ running' = FALSE
  /\ worker' = [w \in Worker |-> IF w \in Idle THEN "take" ELSE worker[w]]
  /\ adder' = [a \in Adder |-> IF a \in Blocked THEN "add" ELSE adder[a]]
  /\ UNCHANGED <<size, adds, clear>>

Join ==
  /\ owner = "joining"
  /\ \A w \in Worker : worker[w] = "exited"
  /\ owner' = "joined"
  /\ UNCHANGED <<running, size, worker, adder, adds, clear>>

Next ==
  \/ \E w \in Worker : RunInThread(w)
  \/ \E a \in Adder : CallAddTask(a) \/ AddTask(a)
  \/ WakeSpuriously \/ WaitTaskClear \/ Stop \/ Join

SafeSpec == Init /\ [][Next]_vars

\* Every thread that can run does, and tasks return; nobody has to call, or to
\* wake for no reason.
Fairness ==
  /\ \A w \in Worker : WF_vars(RunInThread(w))
  /\ \A a \in Adder : WF_vars(AddTask(a))
  /\ WF_vars(Join)

Spec == SafeSpec /\ Fairness

-----------------------------------------------------------------------------
(* Properties. *)

\* No signal is lost, though notify_one() wakes one thread that may find the
\* condition gone: while a thread waits for a task, each task in the queue has a
\* thread on its way to it; while one waits for room, so has each free place; no
\* thread of the pool and no addTask() waits on a stopped pool, and waitTaskClear()
\* does not wait for an empty queue to become empty.  On a stopped pool it may wait for
\* good while the queue is not empty (ThreadPoolWait.cfg).
NobodyStranded ==
  /\ Idle # {} => size <= Cardinality(Taking)
  /\ Blocked # {} => MaxQueueSize <= size + Cardinality(Adding)
  /\ ~running => Idle = {} /\ Blocked = {}
  /\ clear = "isEmpty" => size > 0

\* Why: a queue without a bound keeps nobody waiting.
BlockedByBound == Blocked # {} => MaxQueueSize > 0
InductiveInv == TypeOK /\ NobodyStranded /\ BlockedByBound

\* Every call returns: addTask(), also on a full queue and on a pool that is
\* stopped; waitTaskClear(), unless the pool is stopped; and stop(), with the
\* threads joined wherever it found them.
CallsReturn ==
  /\ \A a \in Adder : adder[a] # "out" ~> adder[a] = "out"
  /\ clear = "isEmpty" ~> clear = "out" \/ ~running
  /\ ~running ~> owner = "joined"

\* waitTaskClear() returns: it does not when the pool is stopped with tasks in
\* the queue, as nobody then takes them.
WaitReturns == clear = "isEmpty" ~> clear = "out"
=============================================================================
