---------------------------- MODULE TaskExecutor ----------------------------
(***************************************************************************)
(* What an EventLoop (core/EventLoop.hpp) promises to the threads that     *)
(* hand it tasks: a serial executor.  Tasks given to queueInLoop() wait in *)
(* one queue and are executed one at a time, each exactly once, in the     *)
(* order in which they were queued; a task that the loop's own thread      *)
(* gives to runInLoop() is executed on the spot.  Unless somebody asks the *)
(* loop to stop, every queued task is eventually executed; once stopped,   *)
(* the loop may leave tasks in the queue.                                  *)
(*                                                                         *)
(* EventLoop.tla implements this specification without ever showing how:   *)
(* no mutex, eventfd, epoll or phase of the loop appears here.             *)
(***************************************************************************)
EXTENDS Sequences

CONSTANT Task     \* the closures; each is submitted at most once

VARIABLES fresh,    \* tasks not submitted yet
          queue,    \* tasks queued and not begun
          done,     \* tasks begun, in the order in which they began
          stopped   \* quit() has been called

vars == <<fresh, queue, done, stopped>>

TypeOK ==
  /\ fresh \in SUBSET Task
  /\ queue \in Seq(Task)
  /\ done \in Seq(Task)
  /\ stopped \in BOOLEAN

Init ==
  /\ fresh = Task
  /\ queue = <<>>
  /\ done = <<>>
  /\ stopped = FALSE

\* A thread queues a task.
Submit(t) ==
  /\ t \in fresh
  /\ fresh' = fresh \ {t}
  /\ queue' = Append(queue, t)
  /\ UNCHANGED <<done, stopped>>

\* The loop's own thread executes a task without queueing it.
RunInline(t) ==
  /\ t \in fresh
  /\ fresh' = fresh \ {t}
  /\ done' = Append(done, t)
  /\ UNCHANGED <<queue, stopped>>

\* The executor begins the oldest queued task.
RunHead ==
  /\ queue # <<>>
  /\ queue' = Tail(queue)
  /\ done' = Append(done, Head(queue))
  /\ UNCHANGED <<fresh, stopped>>

\* Somebody calls quit().
Stop ==
  /\ stopped' = TRUE
  /\ UNCHANGED <<fresh, queue, done>>

Next ==
  \/ \E t \in Task : Submit(t) \/ RunInline(t)
  \/ RunHead
  \/ Stop

SafeSpec == Init /\ [][Next]_vars

\* As long as nobody stops the executor, it does not sit on a queued task.
Spec == SafeSpec /\ WF_vars(~stopped /\ RunHead)
=============================================================================
