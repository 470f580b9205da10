------------------------------- MODULE LoopPool ------------------------------
(***************************************************************************)
(* core/EventLoopThreadPool.hpp on top of ThreadPool: the constructor gives *)
(* each thread of its pool an event loop and waits for them on a            *)
(* CountDownLatch of its own stack; the destructor stops the loops, and the *)
(* pool's destructor joins the threads.  A loop is where its thread is with *)
(* it; what it does, and quit() in two steps, is in EventLoop.              *)
(* getNextLoop() is in TcpServer.                                          *)
(***************************************************************************)
EXTENDS ThreadPool

VARIABLES
  job,      \* per thread of the pool: the loop its task has, or 0
  loops,    \* per loop: none, published in _loops, counted, returned, gone
  told,     \* the loops quit() was called for
  count,    \* of the latch
  builder   \* where the thread is that has the EventLoopThreadPool

loopVars == <<job, loops, told, count, builder>>
poolVars == <<job, loops, told, count, builder, vars>>

NumThreads == Cardinality(Worker)
Loop == 1..NumThreads

\* The pool has no bound, and this object is all that adds to it.
ASSUME PoolAssumption ==
  Cardinality(Adder) = 1 /\ MaxAdds = Cardinality(Worker) /\ MaxQueueSize = 0

\* Fault: the latch counts one thread less.
LatchCountShort == NumThreads - 1
LatchCount == NumThreads

PoolInit ==
  /\ Init
  /\ job = [w \in Worker |-> 0]
  /\ loops = [i \in Loop |-> "none"]
  /\ told = {}
  /\ count = LatchCount
  /\ builder = "adding"

-----------------------------------------------------------------------------
(* The constructor. *)

AddLoop(a) ==
  /\ builder = "adding"
  /\ CallAddTask(a) \/ AddTask(a)
  /\ UNCHANGED loopVars

AddedAll ==
  /\ builder = "adding"
  /\ \A a \in Adder : adds[a] = NumThreads /\ adder[a] = "out"
  /\ builder' = "waiting"
  /\ UNCHANGED <<job, loops, told, count, vars>>

\* CountDownLatch::wait(), which sleeps and may wake for no reason.
Wait ==
  /\ \/ builder = "waiting" /\ builder' = IF count > 0 THEN "asleep" ELSE "ready"
     \/ builder = "asleep" /\ builder' = "waiting"
  /\ UNCHANGED <<job, loops, told, count, vars>>

-----------------------------------------------------------------------------
(* A thread of the pool, in and out of eventloopTask(). *)

\* How many loops the constructor has added.
PushedBy(a) == adds[a] - (IF adder[a] = "out" THEN 0 ELSE 1)

\* The tasks are taken in their order.
TakeLoop(w) ==
  /\ Take(w)
  /\ \E a \in Adder : job' = [job EXCEPT ![w] = PushedBy(a) - size + 1]
  /\ UNCHANGED <<loops, told, count, builder>>

Publish(w) ==
  /\ job[w] # 0 /\ loops[job[w]] = "none"
  /\ loops' = [loops EXCEPT ![job[w]] = "published"]
  /\ UNCHANGED <<job, told, count, builder, vars>>

\* notify_all() of the latch; by a fault it looks at the count before it is less.
NotifyLate == IF count = 0 /\ builder = "asleep" THEN "waiting" ELSE builder
Notify == IF count = 1 /\ builder = "asleep" THEN "waiting" ELSE builder

\* countDown(), after the user's callback.
CountDown(w) ==
  /\ job[w] # 0 /\ loops[job[w]] = "published"
  /\ loops' = [loops EXCEPT ![job[w]] = "counted"]
  /\ count' = count - 1
  /\ builder' = Notify
  /\ UNCHANGED <<job, told, vars>>

\* loop() returns, and the loop is destroyed.
LoopReturns(w) ==
  /\ job[w] \in told /\ loops[job[w]] = "counted"
  /\ loops' = [loops EXCEPT ![job[w]] = "gone"]
  /\ UNCHANGED <<job, told, count, builder, vars>>

EndLoopTask(w) ==
  /\ job[w] # 0 /\ loops[job[w]] = "gone"
  /\ EndTask(w)
  /\ job' = [job EXCEPT ![w] = 0]
  /\ UNCHANGED <<loops, told, count, builder>>

LoopThread(w) ==
  \/ TakeLoop(w) \/ Publish(w) \/ CountDown(w) \/ LoopReturns(w) \/ EndLoopTask(w)
  \/ (TestRunning(w) \/ AwaitTask(w) \/ TakeNothing(w)) /\ UNCHANGED loopVars

-----------------------------------------------------------------------------
(* The destructor. *)

BeginDestructor ==
  /\ builder = "ready"
  /\ builder' = "quitting"
  /\ UNCHANGED <<job, loops, told, count, vars>>

\* stopAllTask() tells them in order.
Quit(i) ==
  /\ builder = "quitting" /\ i \notin told /\ told = 1..(i - 1)
  /\ told' = told \cup {i}
  /\ UNCHANGED <<job, loops, count, builder, vars>>

\* Then the members go, with ~ThreadPool().
StopPool ==
  /\ \/ builder = "quitting" /\ told = Loop /\ Stop
     \/ Join
  /\ UNCHANGED loopVars

PoolNext ==
  \/ \E a \in Adder : AddLoop(a)
  \/ AddedAll \/ Wait
  \/ \E w \in Worker : LoopThread(w)
  \/ BeginDestructor \/ \E i \in Loop : Quit(i)
  \/ StopPool
  \/ WakeSpuriously /\ UNCHANGED loopVars

\* Threads go on; nobody wakes for no reason, nobody has to call the destructor.
PoolFairness ==
  /\ WF_poolVars(\E a \in Adder : AddLoop(a))
  /\ WF_poolVars(AddedAll) /\ WF_poolVars(Wait /\ builder = "waiting")
  /\ \A w \in Worker : WF_poolVars(LoopThread(w))
  /\ WF_poolVars(\E i \in Loop : Quit(i)) /\ WF_poolVars(StopPool)

PoolSpec == PoolInit /\ [][PoolNext]_poolVars /\ PoolFairness

-----------------------------------------------------------------------------
(* Properties. *)

\* Once the constructor has returned every loop is there for getNextLoop(), and no
\* thread is still to use the latch or the callback, which are gone with the
\* constructor's frame; the loops stay until each is told to quit.
LoopsReady ==
  builder \in {"ready", "quitting"} =>
    \A i \in Loop : loops[i] = "counted" \/ (loops[i] = "gone" /\ i \in told)

\* Why: the tasks that were pushed are loops, a job is one of them, and the latch
\* counts the loops that have not come so far.
LoopTypes ==
  /\ job \in [Worker -> Loop \cup {0}]
  /\ loops \in [Loop -> {"none", "published", "counted", "gone"}]
  /\ told \in SUBSET Loop
  /\ count \in Nat
  /\ builder \in {"adding", "waiting", "asleep", "ready", "quitting"}
Counted == {i \in Loop : loops[i] \in {"counted", "gone"}}
TasksAreLoops == \A a \in Adder : size <= PushedBy(a)
LatchExact ==
  /\ count + Cardinality(Counted) = NumThreads
  /\ builder \in {"ready", "quitting"} => count = 0
Orderly ==
  /\ builder # "quitting" => running
  /\ \A i \in Loop : loops[i] = "gone" => i \in told
PoolInv == InductiveInv /\ LoopTypes /\ TasksAreLoops /\ LatchExact /\ Orderly

\* The constructor returns; so does the destructor, which joins threads that are
\* inside loop().
StartsAndStops ==
  /\ <>(builder = "ready")
  /\ builder = "quitting" ~> owner = "joined"
=============================================================================
