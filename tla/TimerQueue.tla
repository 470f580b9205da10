----------------------------- MODULE TimerQueue ------------------------------
(***************************************************************************)
(* core/EventLoop.hpp: TimerQueue, the timers of one EventLoop behind one   *)
(* timerfd.                                                                *)
(*                                                                         *)
(* Everything runs on the loop's thread: the timerfd's channel calls        *)
(* handleRead(), which runs the callbacks of the expired timers; callbacks, *)
(* handlers of other channels and tasks add and cancel timers (another     *)
(* thread's addTimer() is a task too, with a time that may have passed).   *)
(* Time passes in ticks; the clock of Time::now() and that of the timerfd  *)
(* run together.  The least period of resetTimerfd(), 100 us, is less than *)
(* a tick.                                                                 *)
(***************************************************************************)
EXTENDS Integers, FiniteSets, FiniteSetsExt

CONSTANTS
  Timer,       \* the Timer objects; each address is used once
  MaxTime,     \* bound: the clock stops here
  Interval,    \* intervals of repeating timers
  NoTimer      \* no timer

ASSUME MaxTimeAssumption == MaxTime \in Nat
ASSUME IntervalAssumption == Interval \subseteq 1..MaxTime
ASSUME NoTimerAssumption == NoTimer \notin Timer

VARIABLES
  now,           \* Time::now()
  pc,            \* where the loop is; "calling": in handleRead()
  timerActive,   \* the timerfd's channel is in _activeChannels, not handled yet
  deadline,      \* when the timerfd expires, or Never
  expiredFd,     \* the timerfd is readable
  object,        \* each Timer: not made, made, deleted
  when,          \* its _when
  interval,      \* its _interval, 0 for once
  timers,        \* _timers: pairs of a time and a timer
  activeTimers,  \* _activeTimers
  expired,       \* the local vector of handleRead()
  toRun,         \* what of it has not been run
  current,       \* the timer whose callback runs
  readAt,        \* the local `now' of handleRead()
  canceling,     \* _cancelingTimers
  cancelled,     \* timers cancel() was called for (history)
  aborted        \* consumeTimerfd() called abort()

clock == <<now, deadline, expiredFd>>
where == <<pc, timerActive>>
data  == <<object, when, interval, timers, activeTimers>>
call  == <<expired, toRun, current, readAt, canceling>>
vars  == <<clock, where, data, call, cancelled, aborted>>

Never == -1
Moment == 0..(2 * MaxTime)

\* Values of the variables; _timers and _activeTimers hold the same timers,
\* each once and under its own time.
TypeOK ==
  /\ now \in 0..MaxTime
  /\ pc \in {"poll", "dispatch", "calling", "tasks"}
  /\ timerActive \in BOOLEAN
  /\ deadline \in Moment \cup {Never}
  /\ expiredFd \in BOOLEAN
  /\ object \in [Timer -> {"none", "live", "deleted"}]
  /\ when \in [Timer -> Moment]
  /\ interval \in [Timer -> Interval \cup {0}]
  /\ activeTimers \in SUBSET Timer
  /\ expired \in SUBSET Timer
  /\ toRun \in SUBSET expired
  /\ current \in Timer \cup {NoTimer}
  /\ readAt \in 0..MaxTime
  /\ canceling \in SUBSET Timer
  /\ cancelled \in SUBSET Timer
  /\ aborted \in BOOLEAN
  /\ timers = {<<when[t], t>> : t \in activeTimers}

Init ==
  /\ now = 0
  /\ pc = "poll"
  /\ timerActive = FALSE
  /\ deadline = Never
  /\ expiredFd = FALSE
  /\ object = [t \in Timer |-> "none"]
  /\ when = [t \in Timer |-> 0]
  /\ interval = [t \in Timer |-> 0]
  /\ timers = {}
  /\ activeTimers = {}
  /\ expired = {}
  /\ toRun = {}
  /\ current = NoTimer
  /\ readAt = 0
  /\ canceling = {}
  /\ cancelled = {}
  /\ aborted = FALSE

-----------------------------------------------------------------------------
(* The timerfd. *)

\* The earliest time of a non-empty map.
First(map) == Min({e[1] : e \in map})

\* resetTimerfd(): timerfd_settime() also forgets an expiration nobody has read.
ResetTimerfd(at) ==
  /\ deadline' = Max({at, now})
  /\ expiredFd' = FALSE

TimerfdExpires ==
  /\ deadline # Never /\ deadline <= now
  /\ deadline' = Never
  /\ expiredFd' = TRUE
  /\ UNCHANGED <<now, where, data, call, cancelled, aborted>>

Tick ==
  /\ now < MaxTime
  /\ now' = now + 1
  /\ UNCHANGED <<deadline, expiredFd, where, data, call, cancelled, aborted>>

-----------------------------------------------------------------------------
(* What callbacks, handlers and tasks call. *)

InCode == ~aborted /\ (pc \in {"dispatch", "tasks"} \/ current # NoTimer)

\* insert(), for a set of timers one after the other: does the earliest time
\* change?
EarliestChanged(new, map) == new # {} /\ (map = {} \/ First(new) < First(map))

\* The constructor of Timer.
NewTimer(t, at, every) ==
  /\ object[t] = "none"
  /\ object' = [object EXCEPT ![t] = "live"]
  /\ when' = [when EXCEPT ![t] = at]
  /\ interval' = [interval EXCEPT ![t] = every]

\* Fault: only the first timer of an empty queue arms the timerfd.
AddTimerArmsOnce(t, at, every) ==
  /\ InCode
  /\ NewTimer(t, at, every)
  /\ timers' = timers \cup {<<at, t>>}
  /\ activeTimers' = activeTimers \cup {t}
  /\ IF timers = {} /\ deadline = Never THEN ResetTimerfd(at)
     ELSE UNCHANGED <<deadline, expiredFd>>
  /\ UNCHANGED <<now, where, call, cancelled, aborted>>

\* addTimer() and addTimerInLoop().
AddTimer(t, at, every) ==
  /\ InCode
  /\ NewTimer(t, at, every)
  /\ timers' = timers \cup {<<at, t>>}
  /\ activeTimers' = activeTimers \cup {t}
  /\ IF EarliestChanged({<<at, t>>}, timers) THEN ResetTimerfd(at)
     ELSE UNCHANGED <<deadline, expiredFd>>
  /\ UNCHANGED <<now, where, call, cancelled, aborted>>

\* runAt() and runAfter(); the time may have passed.
RunAt(t, at) == AddTimer(t, at, 0)

\* runEvery(): a repeating timer starts now.
RunEvery(t, every) == AddTimer(t, now, every)

\* Fault: a timer that has expired is deleted too.
CancelDeletesExpired(t) ==
  /\ InCode
  /\ object[t] # "none"
  /\ cancelled' = cancelled \cup {t}
  /\ timers' = timers \ {<<when[t], t>>}
  /\ activeTimers' = activeTimers \ {t}
  /\ object' = [object EXCEPT ![t] = "deleted"]
  /\ UNCHANGED <<clock, where, when, interval, call, aborted>>

\* Fault: a timer that cancels itself is not noted.
CancelIgnoresExpired(t) ==
  /\ InCode
  /\ object[t] # "none"
  /\ cancelled' = cancelled \cup {t}
  /\ \/ /\ t \in activeTimers
        /\ timers' = timers \ {<<when[t], t>>}
        /\ activeTimers' = activeTimers \ {t}
        /\ object' = [object EXCEPT ![t] = "deleted"]
     \/ /\ t \notin activeTimers
        /\ UNCHANGED <<timers, activeTimers, object>>
  /\ UNCHANGED <<clock, where, when, interval, call, aborted>>

\* cancel() and cancelInLoop(), with a pointer that may have been deleted.  The
\* timerfd stays armed.
Cancel(t) ==
  /\ InCode
  /\ object[t] # "none"
  /\ cancelled' = cancelled \cup {t}
  /\ \/ /\ t \in activeTimers
        /\ timers' = timers \ {<<when[t], t>>}
        /\ activeTimers' = activeTimers \ {t}
        /\ object' = [object EXCEPT ![t] = "deleted"]
        /\ UNCHANGED canceling
     \/ /\ t \notin activeTimers
        /\ canceling' = IF pc = "calling" THEN canceling \cup {t} ELSE canceling
        /\ UNCHANGED <<timers, activeTimers, object>>
  /\ UNCHANGED <<clock, where, when, interval, expired, toRun, current, readAt,
                 aborted>>

-----------------------------------------------------------------------------
(* The loop. *)

\* epoll_wait returns for the timerfd or for anything else.
Poll ==
  /\ pc = "poll"
  /\ pc' = "dispatch"
  /\ timerActive' = expiredFd
  /\ UNCHANGED <<clock, data, call, cancelled, aborted>>

\* consumeTimerfd(): without an expiration the read fails.
ConsumeTimerfd ==
  /\ aborted' = ~expiredFd
  /\ expiredFd' = FALSE

\* handleRead(), up to the callbacks.
BeginHandleRead ==
  /\ pc = "dispatch" /\ ~aborted
  /\ timerActive
  /\ timerActive' = FALSE
  /\ ConsumeTimerfd
  /\ \/ aborted' /\ UNCHANGED <<pc, data, call>>
     \/ /\ ~aborted'
        /\ readAt' = now
        /\ expired' = {t \in activeTimers : when[t] <= now}
        /\ toRun' = expired'
        /\ timers' = {e \in timers : e[1] > now}
        /\ activeTimers' = activeTimers \ expired'
        /\ canceling' = {}
        /\ pc' = "calling"
        /\ UNCHANGED <<object, when, interval, current>>
  /\ UNCHANGED <<now, deadline, cancelled>>

\* The callback of the next expired timer, in the order of their times.
Run(t) ==
  /\ pc = "calling" /\ current = NoTimer
  /\ t \in toRun
  /\ \A u \in toRun : when[t] <= when[u]
  /\ toRun' = toRun \ {t}
  /\ current' = t
  /\ UNCHANGED <<clock, where, data, expired, readAt, canceling, cancelled,
                 aborted>>

CallbackReturns ==
  /\ current # NoTimer
  /\ current' = NoTimer
  /\ UNCHANGED <<clock, where, data, expired, toRun, readAt, canceling,
                 cancelled, aborted>>

\* isRepeat() and restart(): the timers that start again, and when.
Again == {t \in expired \ canceling : interval[t] > 0}
Restarted(t) == readAt + interval[t]

\* Fault: the timerfd is not armed for the timers that start again.
EndHandleReadUnarmed ==
  /\ pc = "calling" /\ current = NoTimer /\ toRun = {}
  /\ LET new == {<<Restarted(t), t>> : t \in Again}
     IN /\ object' = [t \in Timer |-> IF t \in expired \ Again THEN "deleted"
                                                               ELSE object[t]]
        /\ when' = [t \in Timer |-> IF t \in Again THEN Restarted(t) ELSE when[t]]
        /\ timers' = timers \cup new
        /\ activeTimers' = activeTimers \cup Again
  /\ expired' = {}
  /\ pc' = "dispatch"
  /\ UNCHANGED <<clock, timerActive, interval, toRun, current, readAt, canceling,
                 cancelled, aborted>>

\* The end of handleRead(): what repeats and was not cancelled starts again, the
\* rest is deleted; the timerfd is armed when that brought a new earliest time.
EndHandleRead ==
  /\ pc = "calling" /\ current = NoTimer /\ toRun = {}
  /\ LET new == {<<Restarted(t), t>> : t \in Again}
     IN /\ object' = [t \in Timer |-> IF t \in expired \ Again THEN "deleted"
                                                               ELSE object[t]]
        /\ when' = [t \in Timer |-> IF t \in Again THEN Restarted(t) ELSE when[t]]
        /\ timers' = timers \cup new
        /\ activeTimers' = activeTimers \cup Again
        /\ IF EarliestChanged(new, timers) THEN ResetTimerfd(First(timers'))
           ELSE UNCHANGED <<deadline, expiredFd>>
  /\ expired' = {}
  /\ pc' = "dispatch"
  /\ UNCHANGED <<now, timerActive, interval, toRun, current, readAt, canceling,
                 cancelled, aborted>>

\* The other channels are handled; the tasks run; the loop waits again.
EndDispatch ==
  /\ pc = "dispatch" /\ ~timerActive /\ ~aborted
  /\ pc' = "tasks"
  /\ UNCHANGED <<clock, timerActive, data, call, cancelled, aborted>>

EndTasks ==
  /\ pc = "tasks"
  /\ pc' = "poll"
  /\ UNCHANGED <<clock, timerActive, data, call, cancelled, aborted>>

LoopStep ==
  \/ BeginHandleRead \/ CallbackReturns \/ EndHandleRead
  \/ EndDispatch \/ EndTasks
  \/ \E t \in Timer : Run(t)

Next ==
  \/ \E t \in Timer :
       \/ \E at \in 0..MaxTime : RunAt(t, at)
       \/ \E every \in Interval : RunEvery(t, every)
       \/ Cancel(t)
  \/ Poll \/ LoopStep
  \/ TimerfdExpires \/ Tick

SafeSpec == Init /\ [][Next]_vars

\* Time passes, the timerfd expires when it should, epoll_wait returns when it
\* has, and the loop's thread runs.
Fairness ==
  /\ WF_vars(LoopStep \/ (expiredFd /\ Poll))
  /\ WF_vars(TimerfdExpires)
  /\ WF_vars(Tick)

Spec == SafeSpec /\ Fairness

-----------------------------------------------------------------------------
(* Properties. *)

\* The pointers handleRead() works on, and those of the two containers, are live
\* whatever the callbacks cancel; and outside handleRead() every Timer that was
\* made is waiting or deleted, so that none leaks and none is deleted twice.
NoUseAfterFree ==
  /\ \A t \in expired \cup activeTimers : object[t] = "live"
  /\ expired \cap activeTimers = {}
  /\ \A t \in Timer : object[t] = "live" => t \in expired \cup activeTimers

\* A cancelled timer does not wait again, whoever cancels it: another callback
\* of the same handleRead(), its own callback, or code elsewhere.
CancelledIsGone == cancelled \cap activeTimers = {}

\* The timer that is due first among those that wait is never one the timerfd
\* will be late for: when a timerfd is armed, it is for the earliest time or for
\* an earlier one, also while handleRead() runs callbacks that add timers.
NeverArmedLate ==
  timers # {} /\ deadline # Never
    => deadline <= Max({First(timers), now})

\* A timer that waits is run, or cancelled, when its time has come.
DueRuns(t) ==
  (t \in activeTimers /\ when[t] <= MaxTime) ~> (t \notin activeTimers \/ aborted)

\* Every timer runs: the retry of Connector, for one.
TimersRun == \A t \in Timer : DueRuns(t)

\* A timer that never shares the queue with another runs, and runs again for as
\* long as it repeats, whenever it is cancelled or not.
LoneTimerRuns ==
  \A t \in Timer :
    [](\A u \in Timer \ {t} : object[u] = "none") => DueRuns(t)

\* handleRead() always finds an expiration to read: consumeTimerfd() never
\* aborts the process.
NeverAborts == ~aborted

-----------------------------------------------------------------------------
(* Why the invariants hold: what every step preserves. *)

\* handleRead() has its local vector, and runs callbacks, only while it runs.
CallExact == pc # "calling" => expired = {} /\ current = NoTimer

\* What is cancelled was made; if it has expired, it is noted.
CancelNoted ==
  /\ \A t \in cancelled : object[t] # "none"
  /\ cancelled \cap expired \subseteq canceling

InductiveInv ==
  /\ TypeOK
  /\ NoUseAfterFree /\ CancelledIsGone /\ NeverArmedLate
  /\ CallExact /\ CancelNoted
=============================================================================
