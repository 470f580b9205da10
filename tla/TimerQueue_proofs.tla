------------------------- MODULE TimerQueue_proofs --------------------------
(***************************************************************************)
(* Theorems about TimerQueue, for any timers, intervals and length of time: *)
(* handleRead() works on timers that are there, none leaks, a cancelled one *)
(* does not start again, and an armed timerfd is not late.                  *)
(***************************************************************************)
EXTENDS TimerQueue, WellFoundedInduction, TLAPS

\* A set of times has an earliest one.
LEMMA Earliest ==
  ASSUME NEW S \in SUBSET Nat, S # {}
  PROVE  Min(S) \in S /\ \A x \in S : Min(S) <= x
<1> DEFINE R == OpToRel(<, Nat)
<1>1. \A x, y \in Nat : y < x => <<y, x>> \in R
  BY DEF OpToRel
<1>2. IsWellFoundedOn(R, Nat)
  BY NatLessThanWellFounded
<1> HIDE DEF R
<1>3. PICK x \in S : \A y \in S : ~(<<y, x>> \in R)
  BY <1>2, WFMin
<1>4. \A y \in S : x \in Nat /\ y \in Nat /\ ~(y < x)
  BY <1>1, <1>3
<1>5. \A y \in S : x <= y
  BY <1>4
<1> QED
  BY <1>5 DEF Min

\* The later of two times.
LEMMA Later ==
  ASSUME NEW a \in Nat, NEW b \in Nat
  PROVE  /\ Max({a, b}) \in {a, b}
         /\ Max({a, b}) >= a /\ Max({a, b}) >= b
<1>1. \E x \in {a, b} : \A y \in {a, b} : x >= y
  OBVIOUS
<1> QED
  BY <1>1 DEF Max

\* Later times, later moment.
LEMMA LaterGrows ==
  ASSUME NEW a \in Nat, NEW b \in Nat, NEW c \in Nat, NEW d \in Nat,
         a <= c, b <= d
  PROVE  Max({a, b}) <= Max({c, d})
BY Later

\* The earliest time of a map, of a part of it and of two of them.
LEMMA FirstOf ==
  ASSUME NEW map, \A e \in map : e[1] \in Nat, map # {}
  PROVE  /\ First(map) \in Nat
         /\ \E e \in map : First(map) = e[1]
         /\ \A e \in map : First(map) <= e[1]
<1> DEFINE S == {e[1] : e \in map}
<1>1. S \in SUBSET Nat /\ S # {}
  OBVIOUS
<1>2. Min(S) \in S /\ \A x \in S : Min(S) <= x
  BY <1>1, Earliest
<1>3. First(map) = Min(S)
  BY DEF First
<1> QED
  BY <1>1, <1>2, <1>3

LEMMA FirstOfPart ==
  ASSUME NEW map, NEW part, part \subseteq map, \A e \in map : e[1] \in Nat,
         part # {}
  PROVE  First(map) <= First(part)
BY FirstOf

LEMMA FirstOfBoth ==
  ASSUME NEW map, NEW new, \A e \in map \cup new : e[1] \in Nat, new # {}
  PROVE  /\ EarliestChanged(new, map) => First(map \cup new) = First(new)
         /\ ~EarliestChanged(new, map) => First(map \cup new) = First(map)
<1>1. /\ First(new) \in Nat
      /\ \E e \in new : First(new) = e[1]
      /\ \A e \in new : First(new) <= e[1]
  BY FirstOf
<1>2. map # {} => /\ First(map) \in Nat
                  /\ \E e \in map : First(map) = e[1]
                  /\ \A e \in map : First(map) <= e[1]
  BY FirstOf
<1>3. /\ First(map \cup new) \in Nat
      /\ \E e \in map \cup new : First(map \cup new) = e[1]
      /\ \A e \in map \cup new : First(map \cup new) <= e[1]
  BY FirstOf
<1>4. ASSUME EarliestChanged(new, map)
      PROVE  First(map \cup new) = First(new)
  <2>1. \A e \in map \cup new : First(new) <= e[1]
    BY <1>1, <1>2, <1>4 DEF EarliestChanged
  <2>2. First(new) <= First(map \cup new)
    BY <1>3, <2>1
  <2>3. First(map \cup new) <= First(new)
    BY <1>1, <1>3
  <2> QED
    BY <1>1, <1>3, <2>2, <2>3
<1>5. ASSUME ~EarliestChanged(new, map)
      PROVE  First(map \cup new) = First(map)
  <2>1. map # {} /\ First(map) <= First(new)
    BY <1>1, <1>2, <1>5 DEF EarliestChanged
  <2>2. \A e \in map \cup new : First(map) <= e[1]
    BY <1>1, <1>2, <2>1
  <2>3. First(map) <= First(map \cup new)
    BY <1>3, <2>2
  <2>4. First(map \cup new) <= First(map)
    BY <1>2, <1>3, <2>1
  <2> QED
    BY <1>2, <1>3, <2>1, <2>3, <2>4
<1> QED
  BY <1>4, <1>5

\* The times in _timers are moments.
LEMMA TimesAreMoments ==
  /\ TypeOK => \A e \in timers : e[1] \in Nat
  /\ TypeOK' => \A e \in timers' : e[1] \in Nat
<1>1. Moment \subseteq Nat
  BY MaxTimeAssumption DEF Moment
<1>2. ASSUME NEW f \in [Timer -> Moment], NEW T \in SUBSET Timer
      PROVE  \A e \in {<<f[t], t>> : t \in T} : e[1] \in Nat
  <2>1. \A t \in T : f[t] \in Nat /\ <<f[t], t>>[1] = f[t]
    BY <1>1
  <2> QED
    BY <2>1
<1>3. TypeOK => /\ when \in [Timer -> Moment] /\ activeTimers \in SUBSET Timer
                /\ timers = {<<when[t], t>> : t \in activeTimers}
  BY DEF TypeOK
<1>4. TypeOK' => /\ when' \in [Timer -> Moment] /\ activeTimers' \in SUBSET Timer
                 /\ timers' = {<<when'[t], t>> : t \in activeTimers'}
  BY DEF TypeOK
<1> QED
  BY <1>2, <1>3, <1>4

-----------------------------------------------------------------------------
(* The initial state, and the actions. *)

LEMMA InitInv == Init => InductiveInv
<1> SUFFICES ASSUME Init PROVE InductiveInv
  OBVIOUS
<1>1. 0 \in 0..MaxTime /\ 0 \in Moment
  BY MaxTimeAssumption DEF Moment
<1>2. TypeOK
  BY <1>1 DEF Init, TypeOK
<1> QED
  BY <1>2
  DEF Init, InductiveInv, NoUseAfterFree, CancelledIsGone, NeverArmedLate, CallExact,
      CancelNoted, Never

\* A timer that is made waits, and the timerfd is armed for it if it is the first.
LEMMA AddTimerInv ==
  ASSUME InductiveInv, NEW t \in Timer, NEW at \in 0..MaxTime,
         NEW every \in Interval \cup {0}, AddTimer(t, at, every)
  PROVE  InductiveInv'
<1> USE DEF InductiveInv
<1>1. /\ object[t] = "none" /\ object' = [object EXCEPT ![t] = "live"]
      /\ when' = [when EXCEPT ![t] = at]
      /\ interval' = [interval EXCEPT ![t] = every]
      /\ timers' = timers \cup {<<at, t>>} /\ activeTimers' = activeTimers \cup {t}
      /\ \/ /\ EarliestChanged({<<at, t>>}, timers)
            /\ deadline' = Max({at, now}) /\ expiredFd' = FALSE
         \/ /\ ~EarliestChanged({<<at, t>>}, timers)
            /\ UNCHANGED <<deadline, expiredFd>>
      /\ UNCHANGED <<now, pc, timerActive, expired, toRun, current, readAt,
                     canceling, cancelled, aborted>>
  BY DEF AddTimer, NewTimer, ResetTimerfd, where, call
<1>2. t \notin activeTimers /\ t \notin expired /\ t \notin cancelled
  BY <1>1 DEF NoUseAfterFree, CancelNoted
<1>3. at \in Nat /\ now \in Nat /\ at \in Moment
      /\ \A m \in Moment : m \in Nat
  BY MaxTimeAssumption DEF TypeOK, Moment
<1>4. deadline' \in Moment \cup {Never}
  <2>1. Max({at, now}) \in Moment
    BY <1>3, Later, MaxTimeAssumption DEF TypeOK, Moment
  <2> QED
    BY <1>1, <2>1 DEF TypeOK
<1>5. timers' = {<<when'[u], u>> : u \in activeTimers'}
  <2>1. \A u \in activeTimers : when'[u] = when[u]
    BY <1>1, <1>2 DEF TypeOK
  <2>2. when'[t] = at
    BY <1>1 DEF TypeOK
  <2> QED
    BY <1>1, <2>1, <2>2 DEF TypeOK
<1>6. TypeOK'
  BY <1>1, <1>3, <1>4, <1>5 DEF TypeOK
<1>7. NoUseAfterFree'
  BY <1>1, <1>2 DEF NoUseAfterFree, TypeOK
<1>8. (CancelledIsGone /\ CallExact /\ CancelNoted)'
  BY <1>1, <1>2 DEF CancelledIsGone, CallExact, CancelNoted, TypeOK
<1>9. NeverArmedLate'
  <2> DEFINE new == {<<at, t>>}
  <2>1. new # {} /\ \A e \in timers \cup new : e[1] \in Nat
    BY <1>3, TimesAreMoments
  <2>2. First(new) = at
    <3>1. \A e \in new : e[1] = at
      OBVIOUS
    <3> QED
      BY <2>1, <3>1, FirstOf
  <2>3. /\ EarliestChanged(new, timers) => First(timers') = at
        /\ ~EarliestChanged(new, timers) => First(timers') = First(timers)
    BY <1>1, <2>1, <2>2, FirstOfBoth
  <2>4. CASE EarliestChanged(new, timers)
    <3>1. First(timers') = at /\ now' = now /\ deadline' = Max({at, now})
      BY <1>1, <2>3, <2>4
    <3>2. Max({at, now}) \in Nat
      BY <1>3, Later
    <3>3. deadline' <= Max({First(timers'), now'})
      BY <3>1, <3>2
    <3> QED
      BY <3>3 DEF NeverArmedLate
  <2>5. CASE ~EarliestChanged(new, timers)
    <3>1. timers # {}
      BY <2>1, <2>5 DEF EarliestChanged
    <3> QED
      BY <1>1, <2>3, <2>5, <3>1 DEF NeverArmedLate
  <2> QED
    BY <2>4, <2>5
<1> QED
  BY <1>6, <1>7, <1>8, <1>9

\* A timerfd is not late for fewer timers, nor at a later time.
LEMMA FewerArmed ==
  ASSUME TypeOK, TypeOK', NeverArmedLate, timers' \subseteq timers,
         deadline' = deadline, now' = now \/ now' = now + 1
  PROVE  NeverArmedLate'
<1> SUFFICES ASSUME timers' # {}, deadline # Never
             PROVE  deadline <= Max({First(timers'), now'})
  BY DEF NeverArmedLate
<1>1. timers # {}
  OBVIOUS
<1>2. /\ First(timers) \in Nat /\ First(timers') \in Nat
      /\ First(timers) <= First(timers')
  BY <1>1, TimesAreMoments, FirstOf, FirstOfPart
<1>3. now \in Nat /\ now' \in Nat /\ deadline \in Nat
  BY MaxTimeAssumption DEF TypeOK, Moment
<1>4. Max({First(timers), now}) <= Max({First(timers'), now'})
  BY <1>2, <1>3, LaterGrows
<1>5. Max({First(timers), now}) \in Nat /\ Max({First(timers'), now'}) \in Nat
  BY <1>2, <1>3, Later
<1>6. deadline <= Max({First(timers), now})
  BY <1>1 DEF NeverArmedLate
<1> QED
  BY <1>3, <1>4, <1>5, <1>6

\* cancel() takes a waiting timer out, and notes any other.
LEMMA CancelInv ==
  ASSUME InductiveInv, NEW t \in Timer, Cancel(t)
  PROVE  InductiveInv'
<1> USE DEF InductiveInv
<1>1. /\ InCode /\ object[t] # "none" /\ cancelled' = cancelled \cup {t}
      /\ UNCHANGED <<now, deadline, expiredFd, pc, timerActive, when, interval,
                     expired, toRun, current, readAt, aborted>>
  BY DEF Cancel, clock, where
<1>2. CASE /\ t \in activeTimers
           /\ timers' = timers \ {<<when[t], t>>}
           /\ activeTimers' = activeTimers \ {t}
           /\ object' = [object EXCEPT ![t] = "deleted"]
           /\ UNCHANGED canceling
  <2>1. timers' = {<<when'[u], u>> : u \in activeTimers'}
    BY <1>1, <1>2 DEF TypeOK
  <2>2. TypeOK'
    BY <1>1, <1>2, <2>1 DEF TypeOK
  <2>3. t \notin expired
    BY <1>2 DEF NoUseAfterFree
  <2>4. NoUseAfterFree'
    BY <1>1, <1>2, <2>3 DEF NoUseAfterFree, TypeOK
  <2>5. (CancelledIsGone /\ CallExact /\ CancelNoted)'
    BY <1>1, <1>2, <2>3 DEF CancelledIsGone, CallExact, CancelNoted, TypeOK
  <2>6. NeverArmedLate'
    BY <1>1, <1>2, <2>2, FewerArmed DEF TypeOK
  <2> QED
    BY <2>2, <2>4, <2>5, <2>6
<1>3. CASE /\ t \notin activeTimers
           /\ canceling' = IF pc = "calling" THEN canceling \cup {t} ELSE canceling
           /\ UNCHANGED <<timers, activeTimers, object>>
  <2>1. TypeOK'
    BY <1>1, <1>3 DEF TypeOK
  <2>2. (NoUseAfterFree /\ NeverArmedLate)'
    BY <1>1, <1>3 DEF NoUseAfterFree, NeverArmedLate
  <2>3. (CancelledIsGone /\ CallExact /\ CancelNoted)'
    BY <1>1, <1>3 DEF CancelledIsGone, CallExact, CancelNoted
  <2> QED
    BY <2>1, <2>2, <2>3
<1> QED
  BY <1>2, <1>3 DEF Cancel

\* handleRead() takes the expired timers out of the two containers.
LEMMA BeginHandleReadInv == InductiveInv /\ BeginHandleRead => InductiveInv'
<1> SUFFICES ASSUME InductiveInv, BeginHandleRead PROVE InductiveInv'
  OBVIOUS
<1> USE DEF InductiveInv
<1>1. /\ pc = "dispatch" /\ timerActive' = FALSE
      /\ aborted' = ~expiredFd /\ expiredFd' = FALSE
      /\ UNCHANGED <<now, deadline, cancelled>>
  BY DEF BeginHandleRead, ConsumeTimerfd
<1>2. expired = {} /\ current = NoTimer
  BY <1>1 DEF CallExact
<1>3. CASE aborted' /\ UNCHANGED <<pc, data, call>>
  <2>1. UNCHANGED <<pc, object, when, interval, timers, activeTimers, expired, toRun,
                    current, readAt, canceling>>
    BY <1>3 DEF data, call
  <2>2. TypeOK'
    BY <1>1, <2>1 DEF TypeOK
  <2> QED
    BY <1>1, <2>1, <2>2
    DEF NoUseAfterFree, CancelledIsGone, NeverArmedLate, CallExact, CancelNoted
<1>4. CASE /\ ~aborted' /\ readAt' = now
           /\ expired' = {t \in activeTimers : when[t] <= now}
           /\ toRun' = expired'
           /\ timers' = {e \in timers : e[1] > now}
           /\ activeTimers' = activeTimers \ expired'
           /\ canceling' = {}
           /\ pc' = "calling"
           /\ UNCHANGED <<object, when, interval, current>>
  <2>1. timers' = {<<when'[u], u>> : u \in activeTimers'}
    <3>1. \A t \in activeTimers : when[t] \in Int /\ now \in Int
      BY MaxTimeAssumption DEF TypeOK, Moment
    <3>2. \A t \in activeTimers : t \in activeTimers' <=> when[t] > now
      BY <1>4, <3>1
    <3> QED
      BY <1>4, <3>2 DEF TypeOK
  <2>2. TypeOK'
    BY <1>1, <1>4, <2>1 DEF TypeOK
  <2>3. expired' \cup activeTimers' = activeTimers /\ expired' \cap activeTimers' = {}
    BY <1>4
  <2>4. NoUseAfterFree'
    BY <1>2, <1>4, <2>3 DEF NoUseAfterFree
  <2>5. (CancelledIsGone /\ CallExact /\ CancelNoted)'
    BY <1>1, <1>4, <2>3 DEF CancelledIsGone, CallExact, CancelNoted
  <2>6. NeverArmedLate'
    BY <1>1, <1>4, <2>2, FewerArmed DEF TypeOK
  <2> QED
    BY <2>2, <2>4, <2>5, <2>6
<1> QED
  BY <1>3, <1>4 DEF BeginHandleRead

\* The end of handleRead() starts again what repeats, and deletes the rest.
LEMMA EndHandleReadInv == InductiveInv /\ EndHandleRead => InductiveInv'
<1> SUFFICES ASSUME InductiveInv, EndHandleRead PROVE InductiveInv'
  OBVIOUS
<1> USE DEF InductiveInv
<1> DEFINE new == {<<Restarted(t), t>> : t \in Again}
<1>1. /\ pc = "calling" /\ current = NoTimer /\ toRun = {}
      /\ object' = [t \in Timer |-> IF t \in expired \ Again THEN "deleted"
                                                             ELSE object[t]]
      /\ when' = [t \in Timer |-> IF t \in Again THEN Restarted(t) ELSE when[t]]
      /\ timers' = timers \cup new
      /\ activeTimers' = activeTimers \cup Again
      /\ expired' = {} /\ pc' = "dispatch"
      /\ UNCHANGED <<now, timerActive, interval, toRun, current, readAt, canceling,
                     cancelled, aborted>>
  BY DEF EndHandleRead
<1>2. \/ /\ EarliestChanged(new, timers)
         /\ deadline' = Max({First(timers'), now}) /\ expiredFd' = FALSE
      \/ ~EarliestChanged(new, timers) /\ UNCHANGED <<deadline, expiredFd>>
  BY DEF EndHandleRead, ResetTimerfd
<1>3. Again \subseteq expired /\ Again \cap activeTimers = {} /\ Again \subseteq Timer
      /\ Again \cap canceling = {}
  BY DEF Again, NoUseAfterFree, TypeOK
<1>4. \A t \in Again : Restarted(t) \in Moment
  <2>1. ASSUME NEW t \in Again PROVE Restarted(t) \in Moment
    <3>1. interval[t] \in 0..MaxTime /\ readAt \in 0..MaxTime
      <4>1. t \in Timer
        BY <1>3
      <4>2. interval[t] \in Interval \cup {0} /\ readAt \in 0..MaxTime
        BY <4>1 DEF TypeOK
      <4>3. Interval \subseteq 0..MaxTime /\ 0 \in 0..MaxTime
        BY IntervalAssumption, MaxTimeAssumption
      <4> QED
        BY <4>2, <4>3
    <3> QED
      BY <3>1, MaxTimeAssumption DEF Restarted, Moment
  <2> QED
    BY <2>1
<1>5. when' \in [Timer -> Moment]
  BY <1>1, <1>4 DEF TypeOK
<1>6. timers' = {<<when'[u], u>> : u \in activeTimers'}
  <2>1. \A u \in Again : when'[u] = Restarted(u)
    BY <1>1, <1>3
  <2>2. \A u \in activeTimers : when'[u] = when[u]
    BY <1>1, <1>3 DEF TypeOK
  <2>3. timers = {<<when'[u], u>> : u \in activeTimers}
    BY <2>2 DEF TypeOK
  <2>4. new = {<<when'[u], u>> : u \in Again}
    BY <2>1
  <2> QED
    BY <1>1, <2>3, <2>4
<1>7. \A e \in timers \cup new : e[1] \in Nat
  <2>1. \A m \in Moment : m \in Nat
    BY MaxTimeAssumption DEF Moment
  <2>2. \A e \in new : e[1] \in Nat
    BY <1>4, <2>1
  <2> QED
    BY <2>2, TimesAreMoments
<1>8. timers' # {} => First(timers') \in Moment
  <2>1. ASSUME timers' # {} PROVE \E e \in timers' : First(timers') = e[1]
    BY <1>1, <1>7, <2>1, FirstOf
  <2>2. \A e \in timers' : e[1] \in Moment
    BY <1>1, <1>3, <1>5, <1>6 DEF TypeOK
  <2> QED
    BY <2>1, <2>2
<1>9. deadline' \in Moment \cup {Never}
  <2>1. CASE EarliestChanged(new, timers)
    <3>1. First(timers') \in Moment
      BY <1>1, <1>8, <2>1 DEF EarliestChanged
    <3>2. now \in Moment /\ \A m \in Moment : m \in Nat
      BY MaxTimeAssumption DEF TypeOK, Moment
    <3>3. Max({First(timers'), now}) \in Moment
      BY <3>1, <3>2, Later
    <3> QED
      BY <1>2, <2>1, <3>3
  <2>2. CASE ~EarliestChanged(new, timers)
    BY <1>2, <2>2 DEF TypeOK
  <2> QED
    BY <2>1, <2>2
<1>10. TypeOK'
  <2>1. object' \in [Timer -> {"none", "live", "deleted"}]
    BY <1>1 DEF TypeOK
  <2>2. expiredFd' \in BOOLEAN
    BY <1>2 DEF TypeOK
  <2> HIDE DEF new
  <2> QED
    BY <1>1, <1>3, <1>5, <1>6, <1>9, <2>1, <2>2 DEF TypeOK
<1>11. NoUseAfterFree'
  <2>1. \A t \in activeTimers' : object'[t] = "live"
    BY <1>1, <1>3 DEF NoUseAfterFree, TypeOK
  <2>2. \A t \in Timer : object'[t] = "live" => t \in activeTimers'
    BY <1>1, <1>3 DEF NoUseAfterFree, TypeOK
  <2> QED
    BY <1>1, <2>1, <2>2 DEF NoUseAfterFree
<1>12. (CancelledIsGone /\ CallExact /\ CancelNoted)'
  <2>1. CancelledIsGone'
    BY <1>1, <1>3 DEF CancelledIsGone, CancelNoted
  <2>2. \A t \in Timer : object[t] # "none" => object'[t] # "none"
    BY <1>1
  <2> QED
    BY <1>1, <2>1, <2>2 DEF CallExact, CancelNoted, TypeOK
<1>13. NeverArmedLate'
  <2> HIDE DEF new
  <2>1. CASE EarliestChanged(new, timers)
    <3>1. now \in Nat /\ \A m \in Moment : m \in Nat
      BY MaxTimeAssumption DEF TypeOK, Moment
    <3>2. ASSUME timers' # {}
          PROVE  deadline' <= Max({First(timers'), now'})
      <4>1. Max({First(timers'), now}) \in Nat
        BY <1>8, <3>1, <3>2, Later
      <4> QED
        BY <1>1, <1>2, <2>1, <4>1
    <3> QED
      BY <3>2 DEF NeverArmedLate
  <2>2. CASE ~EarliestChanged(new, timers)
    <3>1. CASE new = {}
      BY <1>1, <1>2, <2>2, <3>1 DEF NeverArmedLate
    <3>2. CASE new # {}
      <4>1. timers # {} /\ First(timers') = First(timers)
        BY <1>1, <1>7, <2>2, <3>2, FirstOfBoth DEF EarliestChanged
      <4> QED
        BY <1>1, <1>2, <2>2, <4>1 DEF NeverArmedLate
    <3> QED
      BY <3>1, <3>2
  <2> QED
    BY <2>1, <2>2
<1> QED
  BY <1>10, <1>11, <1>12, <1>13

\* What leaves the timers, their times and the timerfd as they are, or forgets
\* a deadline, or lets time pass.
LEMMA OtherInv ==
  ASSUME InductiveInv,
         \/ Poll \/ CallbackReturns \/ EndDispatch \/ EndTasks \/ TimerfdExpires
         \/ Tick \/ (\E t \in Timer : Run(t)) \/ UNCHANGED vars
  PROVE  InductiveInv'
<1> USE DEF InductiveInv
<1>1. /\ UNCHANGED <<data, expired, readAt, canceling, cancelled, aborted>>
      /\ timerActive' \in BOOLEAN /\ expiredFd' \in BOOLEAN
      /\ toRun' \subseteq toRun /\ current' \in Timer \cup {NoTimer}
      /\ current' # current => pc = "calling" \/ current' = NoTimer
      /\ pc' # pc => pc # "calling"
      /\ pc' \in {pc, "poll", "dispatch", "tasks"}
      /\ deadline' \in {deadline, Never}
      /\ now' = now \/ (now' = now + 1 /\ now < MaxTime)
  BY DEF Poll, CallbackReturns, EndDispatch, EndTasks, TimerfdExpires, Tick, Run,
         vars, clock, where, data, call, TypeOK
<1>2. UNCHANGED <<object, when, interval, timers, activeTimers>>
  BY <1>1 DEF data
<1>3. now' \in 0..MaxTime
  BY <1>1, MaxTimeAssumption DEF TypeOK
<1>4. TypeOK'
  BY <1>1, <1>2, <1>3 DEF TypeOK
<1>5. (NoUseAfterFree /\ CancelledIsGone /\ CancelNoted)'
  BY <1>1, <1>2 DEF NoUseAfterFree, CancelledIsGone, CancelNoted
<1>6. CallExact'
  BY <1>1 DEF CallExact, TypeOK
<1>7. NeverArmedLate'
  <2>1. CASE deadline' = deadline
    BY <1>1, <1>2, <1>4, <2>1, FewerArmed
  <2>2. CASE deadline' = Never
    BY <2>2 DEF NeverArmedLate
  <2> QED
    BY <1>1, <2>1, <2>2
<1> QED
  BY <1>4, <1>5, <1>6, <1>7

LEMMA InductiveStep == InductiveInv /\ [Next]_vars => InductiveInv'
<1> SUFFICES ASSUME InductiveInv, [Next]_vars PROVE InductiveInv'
  OBVIOUS
<1>1. ASSUME NEW t \in Timer, NEW at \in 0..MaxTime, RunAt(t, at)
      PROVE  InductiveInv'
  BY <1>1, AddTimerInv DEF RunAt
<1>2. ASSUME NEW t \in Timer, NEW every \in Interval, RunEvery(t, every)
      PROVE  InductiveInv'
  BY <1>2, AddTimerInv DEF RunEvery, InductiveInv, TypeOK
<1>3. ASSUME NEW t \in Timer, Cancel(t)
      PROVE  InductiveInv'
  BY <1>3, CancelInv
<1> QED
  BY <1>1, <1>2, <1>3, BeginHandleReadInv, EndHandleReadInv, OtherInv
  DEF Next, LoopStep

LEMMA Invariance == SafeSpec => []InductiveInv
BY InitInv, InductiveStep, PTL DEF SafeSpec

-----------------------------------------------------------------------------
(* The theorems. *)

\* Types, and that the two containers hold the same timers, each under its time.
THEOREM TypeCorrect == SafeSpec => []TypeOK
<1>1. InductiveInv => TypeOK
  BY DEF InductiveInv
<1> QED
  BY <1>1, Invariance, PTL

\* Whatever the callbacks add and cancel, handleRead() and the containers hold
\* live timers, each in one place, and every live timer is held.
THEOREM TimersLive == SafeSpec => []NoUseAfterFree
<1>1. InductiveInv => NoUseAfterFree
  BY DEF InductiveInv
<1> QED
  BY <1>1, Invariance, PTL

\* A cancelled timer never waits again: one that has expired is noted until
\* handleRead() decides what starts again.
THEOREM CancelHolds == SafeSpec => []CancelledIsGone
<1>1. InductiveInv => CancelledIsGone
  BY DEF InductiveInv
<1> QED
  BY <1>1, Invariance, PTL

\* An armed timerfd is never armed for later than the first timer that waits.
THEOREM ArmedInTime == SafeSpec => []NeverArmedLate
<1>1. InductiveInv => NeverArmedLate
  BY DEF InductiveInv
<1> QED
  BY <1>1, Invariance, PTL
=============================================================================
