-------------------------- MODULE TcpServer_proofs ---------------------------
(***************************************************************************)
(* Theorems about TcpServer, for any connections, descriptors and io loops: *)
(* the base loop erases the connection that closed and no other, what is    *)
(* open is in the map, and no thread deletes what another still uses.       *)
(***************************************************************************)
EXTENDS TcpServer, TLAPS

(***************************************************************************)
(* The tasks of a loop as one sequence: a push appends to it, a task that   *)
(* is taken leaves its tail, the swap leaves it as it is.                   *)
(***************************************************************************)

\* An appended sequence, index by index.
LEMMA AppendIndex ==
  ASSUME NEW S, NEW s \in Seq(S), NEW e \in S
  PROVE  /\ Append(s, e) \in Seq(S)
         /\ DOMAIN Append(s, e) = DOMAIN s \cup {Len(s) + 1}
         /\ Append(s, e)[Len(s) + 1] = e
         /\ \A i \in DOMAIN s : Append(s, e)[i] = s[i] /\ i # Len(s) + 1
OBVIOUS

\* The tail of a sequence, index by index.
LEMMA TailIndex ==
  ASSUME NEW S, NEW s \in Seq(S), s # <<>>
  PROVE  /\ Tail(s) \in Seq(S)
         /\ \A i \in DOMAIN Tail(s) : i + 1 \in DOMAIN s /\ Tail(s)[i] = s[i + 1]
                                      /\ i + 1 # 1
         /\ \A i \in DOMAIN s : i # 1 => i - 1 \in DOMAIN Tail(s)
                                         /\ Tail(s)[i - 1] = s[i]
         /\ 1 \in DOMAIN s /\ s[1] = Head(s)
OBVIOUS

\* What is in a concatenation is on one of its sides, and the other way round.
LEMMA ConcatIndex ==
  ASSUME NEW S, NEW s \in Seq(S), NEW q \in Seq(S)
  PROVE  /\ s \o q \in Seq(S)
         /\ \A i \in DOMAIN (s \o q) :
              \/ i \in DOMAIN s /\ (s \o q)[i] = s[i]
              \/ i - Len(s) \in DOMAIN q /\ (s \o q)[i] = q[i - Len(s)]
         /\ \A i \in DOMAIN s : i \in DOMAIN (s \o q) /\ (s \o q)[i] = s[i]
OBVIOUS

\* A push on the pending vector is a push on the whole queue.
LEMMA AppendRight ==
  ASSUME NEW S, NEW s \in Seq(S), NEW q \in Seq(S), NEW e \in S
  PROVE  s \o Append(q, e) = Append(s \o q, e)
OBVIOUS

\* Beginning a swapped task takes the head of the whole queue.
LEMMA TailLeft ==
  ASSUME NEW S, NEW s \in Seq(S), NEW q \in Seq(S), s # <<>>
  PROVE  /\ s \o q # <<>>
         /\ Head(s \o q) = Head(s)
         /\ Tail(s) \o q = Tail(s \o q)
OBVIOUS

\* The swap leaves the whole queue as it is.
LEMMA EmptySides ==
  ASSUME NEW S, NEW q \in Seq(S)
  PROVE  <<>> \o q = q /\ q \o <<>> = q
OBVIOUS

\* The tasks of every loop form a sequence of tasks.
LEMMA ToDoType ==
  ASSUME TypeOK, NEW l \in IoLoop
  PROVE  ToDo(l) \in Seq(TaskOf)
BY ConcatIndex DEF TypeOK, ToDo

\* One of them is a task, for a connection of that loop.
LEMMA TaskType ==
  ASSUME TypeOK, NEW l \in IoLoop, NEW i \in DOMAIN ToDo(l)
  PROVE  ToDo(l)[i] \in TaskOf /\ ToDo(l)[i].conn \in Conn
         /\ loopOf[ToDo(l)[i].conn] = l
<1>1. ToDo(l)[i] \in TaskOf
  BY ToDoType
<1> QED
  BY <1>1 DEF TaskOf, TypeOK

\* So is an erasing task, for a connection and a descriptor.
LEMMA EraseType ==
  ASSUME TypeOK, NEW i \in DOMAIN baseQueue
  PROVE  baseQueue[i] \in EraseOf
         /\ baseQueue[i].fd \in Fd /\ baseQueue[i].of \in Conn
<1>1. baseQueue \in Seq(EraseOf)
  BY DEF TypeOK
<1>2. baseQueue[i] \in EraseOf
  BY <1>1
<1> QED
  BY <1>2 DEF EraseOf

\* What Push() does to the tasks of every loop.
LEMMA PushToDo ==
  ASSUME TypeOK, NEW l \in IoLoop, NEW c \in Conn,
         NEW k \in {"establish", "close", "destroy"},
         Push(l, k, c), UNCHANGED batch
  PROVE  /\ queue' \in [IoLoop -> Seq(TaskOf)]
         /\ ToDo(l)' = Append(ToDo(l), [kind |-> k, conn |-> c])
         /\ \A m \in IoLoop : m # l => ToDo(m)' = ToDo(m)
<1> DEFINE e == [kind |-> k, conn |-> c]
<1>1. e \in TaskOf
  BY DEF TaskOf
<1>2. queue[l] \in Seq(TaskOf) /\ batch[l] \in Seq(TaskOf)
  BY DEF TypeOK
<1>3. Append(queue[l], e) \in Seq(TaskOf)
  BY <1>1, <1>2, AppendIndex
<1>4. queue' = [queue EXCEPT ![l] = Append(queue[l], e)]
  BY DEF Push
<1>5. queue' \in [IoLoop -> Seq(TaskOf)]
  BY <1>3, <1>4 DEF TypeOK
<1>6. queue'[l] = Append(queue[l], e)
  BY <1>4 DEF TypeOK
<1>7. ToDo(l)' = Append(ToDo(l), e)
  <2> HIDE DEF e
  <2>0. batch' = batch
    OBVIOUS
  <2>1. ToDo(l)' = batch[l] \o Append(queue[l], e)
    BY <1>6, <2>0, Zenon DEF ToDo
  <2>2. batch[l] \o Append(queue[l], e) = Append(batch[l] \o queue[l], e)
    <3>1. \A s, q \in Seq(TaskOf) : \A x \in TaskOf :
            s \o Append(q, x) = Append(s \o q, x)
      BY AppendRight
    <3> QED
      BY <3>1, <1>1, <1>2, Zenon
  <2> QED
    BY <2>1, <2>2 DEF ToDo
<1>8. \A m \in IoLoop : m # l => ToDo(m)' = ToDo(m)
  BY <1>4 DEF TypeOK, ToDo
<1> QED
  BY <1>5, <1>7, <1>8

\* What TakeTask() does to them.
LEMMA TakeToDo ==
  ASSUME TypeOK, NEW l \in IoLoop, NEW c \in Conn, NEW k,
         TakeTask(l, k, c)
  PROVE  /\ batch' \in [IoLoop -> Seq(TaskOf)]
         /\ batch[l] # <<>>
         /\ batch'[l] = Tail(batch[l])
         /\ \A m \in IoLoop : m # l => batch'[m] = batch[m]
         /\ ToDo(l) # <<>>
         /\ ToDo(l)[1] = [kind |-> k, conn |-> c]
         /\ UNCHANGED queue => /\ ToDo(l)' = Tail(ToDo(l))
                               /\ \A m \in IoLoop : m # l => ToDo(m)' = ToDo(m)
<1>1. queue[l] \in Seq(TaskOf) /\ batch[l] \in Seq(TaskOf)
  BY DEF TypeOK
<1>2. batch[l] # <<>> /\ Head(batch[l]) = [kind |-> k, conn |-> c]
  BY DEF TakeTask, AtTask
<1>3. batch' = [batch EXCEPT ![l] = Tail(batch[l])]
  BY DEF TakeTask
<1>4. batch' \in [IoLoop -> Seq(TaskOf)]
  BY <1>1, <1>2, <1>3, TailIndex DEF TypeOK
<1>5. batch'[l] = Tail(batch[l]) /\ \A m \in IoLoop : m # l => batch'[m] = batch[m]
  BY <1>3 DEF TypeOK
<1>6. ToDo(l) # <<>> /\ Head(ToDo(l)) = Head(batch[l])
  BY <1>1, <1>2, TailLeft DEF ToDo
<1>7. ToDo(l)[1] = [kind |-> k, conn |-> c]
  BY <1>2, <1>6, ToDoType, TailIndex
<1>8. ASSUME UNCHANGED queue
      PROVE  /\ ToDo(l)' = Tail(ToDo(l))
             /\ \A m \in IoLoop : m # l => ToDo(m)' = ToDo(m)
  BY <1>1, <1>2, <1>5, <1>8, TailLeft DEF ToDo
<1> QED
  BY <1>2, <1>4, <1>5, <1>6, <1>7, <1>8

(***************************************************************************)
(* All this in one form.  t is what becomes of the tasks s of a loop when   *)
(* the first `taken' (none or one) of them are taken and those of `new'     *)
(* (none or one) are appended.                                             *)
(***************************************************************************)
Moves(t, s, taken, new) ==
  /\ \A i \in DOMAIN t :
       \/ i + taken \in DOMAIN s /\ t[i] = s[i + taken]
       \/ i + taken = Len(s) + 1 /\ t[i] \in new
  /\ \A i \in DOMAIN s :
       i > taken => i - taken \in DOMAIN t /\ t[i - taken] = s[i]
  /\ \A e \in new : \E i \in DOMAIN t : t[i] = e

\* The tasks of loop l move so, those of the others not at all.
TasksMove(l, taken, new) ==
  /\ \A m \in IoLoop : ToDo(m)' \in Seq(TaskOf)
  /\ \A m \in IoLoop : m # l => ToDo(m)' = ToDo(m)
  /\ Moves(ToDo(l)', ToDo(l), taken, new)
  /\ taken = 1 => ToDo(l) # <<>>

\* Nothing moves in a loop that is left alone.
LEMMA NothingMoves ==
  ASSUME NEW S, NEW s \in Seq(S)
  PROVE  Moves(s, s, 0, {})
BY DEF Moves

\* An append.
LEMMA AppendMoves ==
  ASSUME NEW S, NEW s \in Seq(S), NEW e \in S
  PROVE  Moves(Append(s, e), s, 0, {e})
BY AppendIndex DEF Moves

\* A tail.
LEMMA TailMoves ==
  ASSUME NEW S, NEW s \in Seq(S), s # <<>>
  PROVE  Moves(Tail(s), s, 1, {})
BY TailIndex DEF Moves

\* A tail with something appended to it.
LEMMA TailAppendMoves ==
  ASSUME NEW S, NEW s \in Seq(S), s # <<>>, NEW e \in S
  PROVE  Moves(Append(Tail(s), e), s, 1, {e})
<1>1. Tail(s) \in Seq(S) /\ Len(Tail(s)) = Len(s) - 1
  OBVIOUS
<1> QED
  BY <1>1, TailIndex, AppendIndex DEF Moves

\* A connection that is being established is still, and only then has a task
\* for it: none is added, and the one that is executed is taken.
LEMMA EstablishKept ==
  ASSUME TypeOK, EstablishOnce, NEW l \in IoLoop, NEW taken \in {0, 1}, NEW new,
         TasksMove(l, taken, new),
         \A e \in new : e.kind # "establish",
         \A d \in Conn : state[d] = "CONNECTING" =>
           \/ state'[d] = "CONNECTING"
           \/ taken = 1 /\ ToDo(l)[1] = [kind |-> "establish", conn |-> d]
  PROVE  EstablishOnce'
<1> USE DEF TasksMove
<1> SUFFICES ASSUME NEW m \in IoLoop, NEW i \in DOMAIN (ToDo(m)'),
                    ToDo(m)'[i].kind = "establish"
             PROVE  /\ state'[ToDo(m)'[i].conn] = "CONNECTING"
                    /\ \A j \in DOMAIN (ToDo(m)') :
                         ToDo(m)'[j] = ToDo(m)'[i] => j = i
  BY DEF EstablishOnce
<1>1. CASE m = l
  <2>1. i + taken \in DOMAIN ToDo(l) /\ ToDo(l)'[i] = ToDo(l)[i + taken]
    BY <1>1 DEF Moves
  <2> DEFINE d == ToDo(l)[i + taken].conn
  <2>2. d \in Conn /\ state[d] = "CONNECTING"
        /\ \A j \in DOMAIN ToDo(l) : ToDo(l)[j] = ToDo(l)[i + taken] => j = i + taken
    BY <1>1, <2>1, TaskType DEF EstablishOnce
  <2>3. ToDo(l) \in Seq(TaskOf) /\ ToDo(l)[i + taken] \in TaskOf
    BY <2>1, ToDoType, TaskType
  <2>4. i \in Nat \ {0}
    <3>1. ToDo(l)' \in Seq(TaskOf) /\ i \in DOMAIN (ToDo(l)')
      BY <1>1
    <3> QED
      BY <3>1
  <2>5. ToDo(l)[i + taken] = [kind |-> "establish", conn |-> d]
    BY <1>1, <2>1, <2>3 DEF TaskOf
  <2>6. state'[d] = "CONNECTING"
    <3>1. ASSUME taken = 1, ToDo(l)[1] = ToDo(l)[i + taken] PROVE FALSE
      <4>1. 1 \in DOMAIN ToDo(l)
        BY <2>3, <3>1
      <4> QED
        BY <2>2, <2>4, <3>1, <4>1
    <3> QED
      BY <2>2, <2>5, <3>1
  <2>7. \A j \in DOMAIN (ToDo(l)') : ToDo(l)'[j] = ToDo(l)'[i] => j = i
    <3> SUFFICES ASSUME NEW j \in DOMAIN (ToDo(l)'), ToDo(l)'[j] = ToDo(l)'[i]
                 PROVE  j = i
      OBVIOUS
    <3>1. j + taken \in DOMAIN ToDo(l) /\ ToDo(l)'[j] = ToDo(l)[j + taken]
      BY <1>1, <2>1 DEF Moves
    <3>2. j \in Nat
      <4>1. ToDo(l)' \in Seq(TaskOf)
        BY <1>1
      <4> QED
        BY <4>1
    <3> QED
      BY <2>1, <2>2, <2>4, <3>1, <3>2
  <2> QED
    BY <1>1, <2>1, <2>6, <2>7
<1>2. CASE m # l
  <2> DEFINE d == ToDo(m)[i].conn
  <2>1. ToDo(m)' = ToDo(m)
    BY <1>2
  <2>2. d \in Conn /\ loopOf[d] = m /\ state[d] = "CONNECTING"
    BY <2>1, TaskType DEF EstablishOnce
  <2>3. ASSUME taken = 1, ToDo(l)[1] = [kind |-> "establish", conn |-> d]
        PROVE  FALSE
    <3>1. 1 \in DOMAIN ToDo(l)
      BY <2>3, ToDoType
    <3>2. loopOf[ToDo(l)[1].conn] = l
      BY <3>1, TaskType
    <3> QED
      BY <1>2, <2>2, <2>3, <3>2
  <2>4. state'[d] = "CONNECTING"
    BY <2>2, <2>3
  <2> QED
    BY <2>1, <2>4 DEF EstablishOnce
<1> QED
  BY <1>1, <1>2

\* Every task was there before or is new.
LEMMA TaskOrigin ==
  ASSUME TypeOK, NEW l \in IoLoop, NEW taken \in {0, 1}, NEW new,
         TasksMove(l, taken, new), NEW m \in IoLoop, NEW i \in DOMAIN (ToDo(m)')
  PROVE  \/ \E j \in DOMAIN ToDo(m) : ToDo(m)'[i] = ToDo(m)[j]
         \/ m = l /\ ToDo(m)'[i] \in new
<1>1. CASE m = l
  BY <1>1 DEF TasksMove, Moves
<1>2. CASE m # l
  BY <1>2 DEF TasksMove
<1> QED
  BY <1>1, <1>2

\* A task that is not the one taken stays.
LEMMA TaskStays ==
  ASSUME TypeOK, NEW l \in IoLoop, NEW taken \in {0, 1}, NEW new,
         TasksMove(l, taken, new), NEW m \in IoLoop, NEW i \in DOMAIN ToDo(m),
         m = l /\ taken = 1 => ToDo(m)[i] # ToDo(m)[1]
  PROVE  \E j \in DOMAIN (ToDo(m)') : ToDo(m)'[j] = ToDo(m)[i]
<1>1. CASE m = l
  <2>1. i \in Nat \ {0}
    BY ToDoType
  <2>2. i > taken
    BY <1>1, <2>1
  <2> QED
    BY <1>1, <2>2 DEF TasksMove, Moves
<1>2. CASE m # l
  BY <1>2 DEF TasksMove
<1> QED
  BY <1>1, <1>2

\* The conjunct of TypeOK about tasks, when the loops of the connections stay.
LEMMA TasksOnTheirLoop ==
  ASSUME TypeOK, NEW l \in IoLoop, NEW taken \in {0, 1}, NEW new,
         TasksMove(l, taken, new), UNCHANGED loopOf,
         \A e \in new : loopOf[e.conn] = l
  PROVE  \A m \in IoLoop : \A i \in DOMAIN (ToDo(m)') :
           loopOf'[ToDo(m)'[i].conn] = m
<1> TAKE m \in IoLoop
<1> TAKE i \in DOMAIN (ToDo(m)')
<1>1. CASE \E j \in DOMAIN ToDo(m) : ToDo(m)'[i] = ToDo(m)[j]
  BY <1>1, TaskType
<1>2. CASE m = l /\ ToDo(m)'[i] \in new
  BY <1>2
<1> QED
  BY <1>1, <1>2, TaskOrigin

\* A connection that is not made yet stays without tasks.
LEMMA MadeKept ==
  ASSUME TypeOK, Made, NEW l \in IoLoop, NEW taken \in {0, 1}, NEW new,
         TasksMove(l, taken, new), UNCHANGED fdOf,
         \A e \in new : state'[e.conn] # "none",
         \A d \in Conn : state'[d] = "none" => state[d] = "none" /\ d \notin forcing',
         \A d \in Conn : state[d] = "none" => state'[d] = "none"
  PROVE  Made'
<1> SUFFICES ASSUME NEW d \in Conn
             PROVE  IF state'[d] = "none"
                    THEN /\ d \notin forcing'
                         /\ \A m \in IoLoop : \A i \in DOMAIN (ToDo(m)') :
                              ToDo(m)'[i].conn # d
                    ELSE fdOf'[d] \in Fd
  BY DEF Made
<1>1. CASE state'[d] = "none"
  <2> SUFFICES ASSUME NEW m \in IoLoop, NEW i \in DOMAIN (ToDo(m)')
               PROVE  ToDo(m)'[i].conn # d
    BY <1>1
  <2>1. CASE \E j \in DOMAIN ToDo(m) : ToDo(m)'[i] = ToDo(m)[j]
    BY <1>1, <2>1 DEF Made
  <2>2. CASE ToDo(m)'[i] \in new
    BY <1>1, <2>2
  <2> QED
    BY <2>1, <2>2, TaskOrigin
<1>2. CASE state'[d] # "none"
  BY <1>2 DEF Made
<1> QED
  BY <1>1, <1>2

\* connectDestroyed() stays ahead of a closed connection that is in its loop.
LEMMA DestroyKept ==
  ASSUME TypeOK, DestroyPending, NEW l \in IoLoop, NEW taken \in {0, 1}, NEW new,
         TasksMove(l, taken, new), UNCHANGED loopOf,
         \A d \in Conn : inLoop'[d] =>
           /\ state'[d] \in {"ESTABLISHED", "DISCONNECTING", "DISCONNECTED"}
           /\ state'[d] = "DISCONNECTED" =>
                \/ /\ inLoop[d] /\ state[d] = "DISCONNECTED"
                   /\ taken = 1 => ToDo(l)[1] # [kind |-> "destroy", conn |-> d]
                \/ loopOf[d] = l /\ [kind |-> "destroy", conn |-> d] \in new
  PROVE  DestroyPending'
<1> SUFFICES ASSUME NEW d \in Conn, inLoop'[d], state'[d] = "DISCONNECTED"
             PROVE  \E i \in DOMAIN (ToDo(loopOf[d])') :
                      ToDo(loopOf[d])'[i] = [kind |-> "destroy", conn |-> d]
  BY DEF DestroyPending
<1> DEFINE e == [kind |-> "destroy", conn |-> d]
<1>1. CASE /\ inLoop[d] /\ state[d] = "DISCONNECTED"
           /\ taken = 1 => ToDo(l)[1] # e
  <2>1. PICK i \in DOMAIN ToDo(loopOf[d]) : ToDo(loopOf[d])[i] = e
    BY <1>1 DEF DestroyPending
  <2>2. loopOf[d] \in IoLoop
    BY DEF TypeOK
  <2> HIDE DEF e
  <2>3. \E j \in DOMAIN (ToDo(loopOf[d])') : ToDo(loopOf[d])'[j] = e
    BY <1>1, <2>1, <2>2, TaskStays
  <2> QED
    BY <2>3 DEF e
<1>2. CASE loopOf[d] = l /\ e \in new
  BY <1>2 DEF TasksMove, Moves
<1> QED
  BY <1>1, <1>2

\* Push() appends a task.
LEMMA PushMoves ==
  ASSUME TypeOK, NEW l \in IoLoop, NEW c \in Conn,
         NEW k \in {"establish", "close", "destroy"},
         Push(l, k, c), UNCHANGED batch
  PROVE  /\ queue' \in [IoLoop -> Seq(TaskOf)]
         /\ TasksMove(l, 0, {[kind |-> k, conn |-> c]})
<1> DEFINE e == [kind |-> k, conn |-> c]
<1>1. e \in TaskOf
  BY DEF TaskOf
<1>2. /\ queue' \in [IoLoop -> Seq(TaskOf)]
      /\ ToDo(l)' = Append(ToDo(l), e)
      /\ \A m \in IoLoop : m # l => ToDo(m)' = ToDo(m)
  BY PushToDo
<1> HIDE DEF e
<1>3. \A m \in IoLoop : ToDo(m) \in Seq(TaskOf)
  BY ToDoType
<1>4. Append(ToDo(l), e) \in Seq(TaskOf)
  BY <1>1, <1>3, AppendIndex
<1>5. Moves(Append(ToDo(l), e), ToDo(l), 0, {e})
  BY <1>1, <1>3, AppendMoves
<1>6. TasksMove(l, 0, {e})
  <2>1. Moves(ToDo(l)', ToDo(l), 0, {e})
    BY <1>2, <1>5, Zenon
  <2>2. \A m \in IoLoop : ToDo(m)' \in Seq(TaskOf)
    BY <1>2, <1>3, <1>4
  <2> QED
    BY <1>2, <2>1, <2>2 DEF TasksMove
<1> QED
  BY <1>2, <1>6 DEF e

\* A task that is executed is taken.
LEMMA TakeMoves ==
  ASSUME TypeOK, NEW l \in IoLoop, NEW c \in Conn, NEW k,
         TakeTask(l, k, c), UNCHANGED queue
  PROVE  TasksMove(l, 1, {})
<1>1. /\ ToDo(l) # <<>> /\ ToDo(l)' = Tail(ToDo(l))
      /\ \A m \in IoLoop : m # l => ToDo(m)' = ToDo(m)
  BY TakeToDo
<1>2. \A m \in IoLoop : ToDo(m) \in Seq(TaskOf)
  BY ToDoType
<1>3. Tail(ToDo(l)) \in Seq(TaskOf) /\ Moves(Tail(ToDo(l)), ToDo(l), 1, {})
  BY <1>1, <1>2, TailIndex, TailMoves
<1> QED
  BY <1>1, <1>2, <1>3 DEF TasksMove

\* A task that is executed may append another one.
LEMMA TakePushMoves ==
  ASSUME TypeOK, NEW l \in IoLoop, NEW c \in Conn, NEW j,
         NEW k \in {"establish", "close", "destroy"},
         TakeTask(l, j, c), Push(l, k, c)
  PROVE  /\ queue' \in [IoLoop -> Seq(TaskOf)]
         /\ TasksMove(l, 1, {[kind |-> k, conn |-> c]})
<1> DEFINE e == [kind |-> k, conn |-> c]
<1>1. e \in TaskOf
  BY DEF TaskOf
<1>2. /\ queue[l] \in Seq(TaskOf) /\ batch[l] \in Seq(TaskOf)
      /\ Append(queue[l], e) \in Seq(TaskOf)
  <2>1. queue[l] \in Seq(TaskOf) /\ batch[l] \in Seq(TaskOf)
    BY DEF TypeOK
  <2> QED
    BY <1>1, <2>1, AppendIndex
<1>3. queue' = [queue EXCEPT ![l] = Append(queue[l], e)]
  BY DEF Push
<1> HIDE DEF e
<1>4. /\ queue' \in [IoLoop -> Seq(TaskOf)] /\ queue'[l] = Append(queue[l], e)
      /\ \A m \in IoLoop : m # l => queue'[m] = queue[m]
  BY <1>2, <1>3 DEF TypeOK
<1>5. /\ batch[l] # <<>> /\ batch'[l] = Tail(batch[l]) /\ ToDo(l) # <<>>
      /\ \A m \in IoLoop : m # l => batch'[m] = batch[m]
  BY TakeToDo
<1>6. \A m \in IoLoop : m # l => ToDo(m)' = ToDo(m)
  BY <1>4, <1>5 DEF ToDo
<1>7. \A m \in IoLoop : ToDo(m) \in Seq(TaskOf)
  BY ToDoType
<1>8. ToDo(l)' = Append(Tail(ToDo(l)), e)
  <2>1. ToDo(l)' = Tail(batch[l]) \o Append(queue[l], e)
    BY <1>4, <1>5, Zenon DEF ToDo
  <2>2. Tail(batch[l]) \in Seq(TaskOf)
    BY <1>2, <1>5, TailIndex
  <2>3. \A s, q \in Seq(TaskOf) : \A x \in TaskOf :
          s \o Append(q, x) = Append(s \o q, x)
    BY AppendRight
  <2>4. Tail(batch[l]) \o Append(queue[l], e) = Append(Tail(batch[l]) \o queue[l], e)
    BY <1>1, <1>2, <2>2, <2>3, Zenon
  <2>5. \A s, q \in Seq(TaskOf) : s # <<>> => Tail(s) \o q = Tail(s \o q)
    BY TailLeft
  <2>6. Tail(batch[l]) \o queue[l] = Tail(ToDo(l))
    BY <1>2, <1>5, <2>5, Zenon DEF ToDo
  <2> QED
    BY <2>1, <2>4, <2>6, Zenon
<1>9. Tail(ToDo(l)) \in Seq(TaskOf)
  BY <1>5, <1>7, TailIndex
<1>10. Append(Tail(ToDo(l)), e) \in Seq(TaskOf)
  BY <1>1, <1>9, AppendIndex
<1>11. Moves(Append(Tail(ToDo(l)), e), ToDo(l), 1, {e})
  BY <1>1, <1>5, <1>7, TailAppendMoves
<1>12. TasksMove(l, 1, {e})
  BY <1>5, <1>6, <1>7, <1>8, <1>10, <1>11 DEF TasksMove
<1> QED
  BY <1>4, <1>12 DEF e

\* Nothing moves when the vectors stay, nor when they are swapped.
LEMMA StillMoves ==
  ASSUME TypeOK, NEW l \in IoLoop, \A m \in IoLoop : ToDo(m)' = ToDo(m)
  PROVE  TasksMove(l, 0, {})
<1>1. \A m \in IoLoop : ToDo(m) \in Seq(TaskOf)
  BY ToDoType
<1> QED
  BY <1>1, NothingMoves DEF TasksMove

-----------------------------------------------------------------------------
(* One lemma per action. *)

\* The server starts without connections.
LEMMA InitInductive == Init => InductiveInv
<1> SUFFICES ASSUME Init PROVE InductiveInv
  OBVIOUS
<1> USE NumLoopsAssumption, NoneAssumption DEF Init
<1>1. \A l \in IoLoop : ToDo(l) = <<>>
  BY EmptySides DEF ToDo
<1>2. TypeOK
  BY <1>1 DEF TypeOK, IoLoop, States
<1>3. ErasesOwn /\ OpenIsMapped
  BY DEF ErasesOwn, OpenIsMapped, IsInjective
<1>4. Made /\ Mapping /\ EstablishOnce /\ DestroyPending
  BY <1>1 DEF Made, Mapping, EstablishOnce, DestroyPending
<1>5. Phases
  BY DEF Phases
<1> QED
  BY <1>2, <1>3, <1>4, <1>5 DEF InductiveInv

\* Neither a thread that enters forceClose() nor a pointer that is dropped
\* changes what is in the map or in a loop.
LEMMA ForceCloseStep ==
  ASSUME InductiveInv, NEW c \in Conn, ForceClose(c) \/ DropPointer(c)
  PROVE  InductiveInv'
<1> USE DEF InductiveInv
<1>1. \A l \in IoLoop : ToDo(l)' = ToDo(l)
  BY DEF ForceClose, DropPointer, io, ToDo
<1>2. /\ UNCHANGED <<base, fdOf, loopOf, listening, inLoop, io, running, server>>
      /\ kept' \in SUBSET Conn /\ forcing' \in SUBSET Conn
      /\ \A d \in Conn : state[d] = "none" => (d \in forcing' <=> d \in forcing)
  BY DEF ForceClose, DropPointer, conn, TypeOK
<1>3. state' \in [Conn -> States]
      /\ \A d \in Conn : \/ state'[d] = state[d]
                         \/ state[d] = "ESTABLISHED" /\ state'[d] = "DISCONNECTING"
  BY DEF ForceClose, DropPointer, conn, TypeOK, States
<1>4. TypeOK'
  BY <1>1, <1>2, <1>3 DEF TypeOK, base, io
<1>5. ErasesOwn' /\ OpenIsMapped'
  BY <1>2, <1>3 DEF ErasesOwn, OpenIsMapped, base
<1>6. Made'
  BY <1>1, <1>2, <1>3 DEF Made
<1>7. Mapping'
  BY <1>2, <1>3, EraseType DEF TypeOK, Mapping, base
<1>8. EstablishOnce'
  BY <1>1, <1>3, TaskType DEF EstablishOnce
<1>9. DestroyPending'
  BY <1>1, <1>2, <1>3 DEF TypeOK, DestroyPending
<1>10. Phases'
  BY <1>2 DEF Phases, io
<1> QED
  BY <1>4, <1>5, <1>6, <1>7, <1>8, <1>9, <1>10

\* The erasing task erases the connection that queued it: no other task of the
\* base loop is for the same descriptor, and the connection is closed.
LEMMA EraseStep ==
  ASSUME InductiveInv, Erase
  PROVE  InductiveInv'
<1> USE DEF InductiveInv
<1> DEFINE h == Head(baseQueue)
<1>1. /\ baseQueue # <<>> /\ baseQueue' = Tail(baseQueue)
      /\ connections' = [connections EXCEPT ![h.fd] = NoConn]
      /\ UNCHANGED <<cnt, fdOf, loopOf, state, listening, inLoop, kept, forcing,
                     phase, active, queue, batch, held, running, server>>
  BY DEF Erase, conn, io
<1>2. baseQueue \in Seq(EraseOf)
  BY DEF TypeOK
<1>3. /\ baseQueue' \in Seq(EraseOf)
      /\ \A i \in DOMAIN baseQueue' :
           i + 1 \in DOMAIN baseQueue /\ baseQueue'[i] = baseQueue[i + 1] /\ i + 1 # 1
      /\ 1 \in DOMAIN baseQueue /\ baseQueue[1] = h
  BY <1>1, <1>2, TailIndex
<1>4. /\ h \in EraseOf /\ h.fd \in Fd /\ h.of \in Conn
      /\ connections[h.fd] = h.of /\ state[h.of] = "DISCONNECTED"
  BY <1>3, EraseType DEF ErasesOwn, Mapping
<1>5. \A l \in IoLoop : ToDo(l)' = ToDo(l)
  BY <1>1 DEF ToDo
<1> HIDE DEF h
<1>6. connections' \in [Fd -> Conn \cup {NoConn}]
      /\ connections'[h.fd] = NoConn
      /\ \A f \in Fd : f # h.fd => connections'[f] = connections[f]
  BY <1>1, <1>4 DEF TypeOK
<1>7. TypeOK'
  BY <1>1, <1>3, <1>5, <1>6 DEF TypeOK
<1>8. ErasesOwn'
  <2>1. \A i \in DOMAIN baseQueue : i # 1 => baseQueue[i].fd # h.fd
    <3> SUFFICES ASSUME NEW i \in DOMAIN baseQueue, i # 1, baseQueue[i].fd = h.fd
                 PROVE  FALSE
      OBVIOUS
    <3>1. baseQueue[i].of = h.of
      BY <1>4 DEF ErasesOwn
    <3>2. baseQueue[i] = h
      BY <1>4, <3>1, EraseType DEF EraseOf
    <3> QED
      BY <1>3, <3>2 DEF ErasesOwn, IsInjective
  <2>2. \A i \in DOMAIN baseQueue' : connections'[baseQueue'[i].fd] = baseQueue'[i].of
    BY <1>3, <1>6, <2>1, EraseType DEF ErasesOwn
  <2>3. \A i \in DOMAIN baseQueue' : i \in Int
    BY <1>3
  <2>4. IsInjective(baseQueue')
    BY <1>3, <2>3 DEF ErasesOwn, IsInjective
  <2> QED
    BY <2>2, <2>4 DEF ErasesOwn
<1>9. OpenIsMapped'
  <2> SUFFICES ASSUME NEW c \in Conn,
                      state[c] \in {"CONNECTING", "ESTABLISHED", "DISCONNECTING"}
               PROVE  connections'[fdOf[c]] = c
    BY <1>1 DEF OpenIsMapped
  <2>1. connections[fdOf[c]] = c /\ fdOf[c] \in Fd
    BY DEF OpenIsMapped, Made
  <2>2. fdOf[c] # h.fd
    BY <1>4, <2>1
  <2> QED
    BY <1>6, <2>1, <2>2
<1>10. Mapping'
  BY <1>1, <1>3, <1>6 DEF Mapping
<1>11. Made' /\ EstablishOnce' /\ DestroyPending'
  BY <1>1, <1>5 DEF TypeOK, Made, EstablishOnce, DestroyPending
<1>12. Phases'
  BY <1>1 DEF Phases
<1> QED
  BY <1>7, <1>8, <1>9, <1>10, <1>11, <1>12

\* A step of an io loop that touches neither connection nor task.
LEMMA QuietStep ==
  ASSUME InductiveInv, UNCHANGED <<base, conn, kept, forcing, running, server>>,
         phase' \in [IoLoop -> {"wait", "dispatch", "tasks", "exited"}],
         active' \in [IoLoop -> SUBSET Conn],
         queue' \in [IoLoop -> Seq(TaskOf)],
         batch' \in [IoLoop -> Seq(TaskOf)],
         held' \in [IoLoop -> SUBSET Conn],
         \A l \in IoLoop : ToDo(l)' = ToDo(l),
         Phases'
  PROVE  InductiveInv'
<1> USE DEF InductiveInv, base, conn
<1>1. TypeOK'
  BY DEF TypeOK
<1>2. ErasesOwn' /\ OpenIsMapped' /\ Mapping'
  BY DEF ErasesOwn, OpenIsMapped, Mapping
<1>3. Made' /\ EstablishOnce' /\ DestroyPending'
  BY DEF TypeOK, Made, EstablishOnce, DestroyPending
<1> QED
  BY <1>1, <1>2, <1>3

\* epoll_wait hands out registered connections only; a message changes nothing.
LEMMA PollStep ==
  ASSUME InductiveInv, NEW l \in IoLoop,
         Poll(l) \/ \E c \in Conn : ReadMessage(l, c)
  PROVE  InductiveInv'
<1> USE DEF InductiveInv
<1>1. /\ UNCHANGED <<base, conn, kept, forcing, queue, batch, held, running, server>>
      /\ phase' \in [IoLoop -> {"wait", "dispatch", "tasks", "exited"}]
      /\ active' \in [IoLoop -> SUBSET Conn]
      /\ phase'[l] = "dispatch"
      /\ \A c \in active'[l] : loopOf[c] = l /\ inLoop[c]
      /\ \A m \in IoLoop : m # l => phase'[m] = phase[m] /\ active'[m] = active[m]
      /\ phase[l] # "tasks"
  <2>1. CASE Poll(l)
    BY <2>1 DEF Poll, TypeOK
  <2>2. ASSUME NEW c \in Conn, ReadMessage(l, c) PROVE <1>1!:
    BY <2>2 DEF ReadMessage, AtEvent, TypeOK, Phases
  <2> QED
    BY <2>1, <2>2
<1>2. \A m \in IoLoop : ToDo(m)' = ToDo(m)
  BY <1>1 DEF ToDo
<1>3. Phases'
  BY <1>1 DEF Phases, conn
<1> QED
  BY <1>1, <1>2, <1>3, QuietStep DEF TypeOK

\* The swap moves the pending tasks to the swapped ones, whose closures hold
\* their connections.
LEMMA SwapStep ==
  ASSUME InductiveInv, NEW l \in IoLoop, Swap(l)
  PROVE  InductiveInv'
<1> USE DEF InductiveInv
<1>1. /\ UNCHANGED <<base, conn, kept, forcing, running, server>>
      /\ phase[l] = "dispatch" /\ active[l] = {} /\ batch[l] = <<>>
      /\ phase' = [phase EXCEPT ![l] = "tasks"]
      /\ batch' = [batch EXCEPT ![l] = queue[l]]
      /\ held' = [held EXCEPT ![l] = {t.conn : t \in ToSet(queue[l])}]
      /\ queue' = [queue EXCEPT ![l] = <<>>]
      /\ UNCHANGED active
  BY DEF Swap, Phases
<1>2. queue[l] \in Seq(TaskOf) /\ \A t \in ToSet(queue[l]) : t.conn \in Conn
  <2>1. queue[l] \in Seq(TaskOf)
    BY DEF TypeOK
  <2>2. \A t \in ToSet(queue[l]) : t \in TaskOf
    BY <2>1 DEF ToSet
  <2> QED
    BY <2>1, <2>2 DEF TaskOf
<1>3. /\ phase' \in [IoLoop -> {"wait", "dispatch", "tasks", "exited"}]
      /\ active' \in [IoLoop -> SUBSET Conn]
      /\ held' \in [IoLoop -> SUBSET Conn]
  BY <1>1, <1>2 DEF TypeOK
<1>4. batch' \in [IoLoop -> Seq(TaskOf)] /\ queue' \in [IoLoop -> Seq(TaskOf)]
  BY <1>1, <1>2 DEF TypeOK
<1>5. \A m \in IoLoop : ToDo(m)' = ToDo(m)
  <2>1. ToDo(l)' = queue[l] \o <<>> /\ ToDo(l) = <<>> \o queue[l]
    BY <1>1 DEF TypeOK, ToDo
  <2>2. ToDo(l)' = ToDo(l)
    BY <1>2, <2>1, EmptySides
  <2>3. \A m \in IoLoop : m # l => ToDo(m)' = ToDo(m)
    BY <1>1 DEF TypeOK, ToDo
  <2> QED
    BY <2>2, <2>3
<1>6. Phases'
  <2>1. \A i \in DOMAIN batch'[l] : batch'[l][i].conn \in held'[l]
    BY <1>1 DEF TypeOK, ToSet
  <2>2. /\ phase'[l] = "tasks" /\ active'[l] = {} /\ running'[l]
        /\ UNCHANGED <<loopOf, inLoop>>
    BY <1>1 DEF TypeOK, Phases, conn
  <2>3. \A m \in IoLoop : m # l =>
          UNCHANGED <<phase[m], active[m], batch[m], held[m], running[m]>>
    BY <1>1 DEF TypeOK
  <2> QED
    BY <2>1, <2>2, <2>3 DEF Phases
<1> QED
  BY <1>1, <1>3, <1>4, <1>5, <1>6, QuietStep

\* The end of an iteration leaves nothing of the swapped tasks.
LEMMA EndIterationStep ==
  ASSUME InductiveInv, NEW l \in IoLoop, EndIteration(l)
  PROVE  InductiveInv'
<1> USE DEF InductiveInv
<1>1. /\ UNCHANGED <<base, conn, kept, forcing, running, server, active, batch, queue>>
      /\ phase[l] = "tasks" /\ batch[l] = <<>>
      /\ phase' = [phase EXCEPT ![l] = "wait"]
      /\ held' = [held EXCEPT ![l] = {}]
  BY DEF EndIteration, Phases
<1>2. \A m \in IoLoop : ToDo(m)' = ToDo(m)
  BY <1>1 DEF ToDo
<1>3. Phases'
  BY <1>1 DEF TypeOK, Phases, conn
<1> QED
  BY <1>1, <1>2, <1>3, QuietStep DEF TypeOK

\* accept() returns a descriptor that no connection has, so the map has no entry
\* for it, and nothing is left to erase under it.
LEMMA AcceptStep ==
  ASSUME InductiveInv, NEW c \in Conn, NEW f \in Fd, Accept(c, f)
  PROVE  InductiveInv'
<1> USE DEF InductiveInv
<1> DEFINE e == [kind |-> "establish", conn |-> c]
<1>0. PICK b \in IoLoop : b = cnt
  BY DEF TypeOK
<1>1. /\ state[c] = "none" /\ ~Open(f)
      /\ state' = [state EXCEPT ![c] = "CONNECTING"]
      /\ fdOf' = [fdOf EXCEPT ![c] = f]
      /\ loopOf' = [loopOf EXCEPT ![c] = b]
      /\ connections' = [connections EXCEPT ![f] = IF @ = NoConn THEN c ELSE @]
      /\ Push(b, "establish", c)
      /\ UNCHANGED <<baseQueue, listening, inLoop, kept, forcing, phase, active,
                     batch, held, running, server>>
  BY <1>0 DEF Accept, NextLoop, TypeOK
<1>2. cnt' \in IoLoop
  <2>1. cnt' = IF cnt = NumLoops THEN 1 ELSE cnt + 1
    BY DEF Accept, NextLoop
  <2> QED
    BY <1>0, <2>1, NumLoopsAssumption DEF IoLoop
<1>3. queue' \in [IoLoop -> Seq(TaskOf)] /\ TasksMove(b, 0, {e})
  BY <1>1, PushMoves
<1>4. connections[f] = NoConn
  <2> SUFFICES ASSUME connections[f] # NoConn PROVE FALSE
    OBVIOUS
  <2>1. connections[f] \in Conn /\ fdOf[connections[f]] = f
    BY DEF TypeOK, Mapping
  <2>2. Alive(connections[f])
    BY DEF Alive
  <2> QED
    BY <1>1, <2>1, <2>2 DEF Open
<1>5. /\ connections' \in [Fd -> Conn \cup {NoConn}] /\ connections'[f] = c
      /\ \A g \in Fd : g # f => connections'[g] = connections[g]
  BY <1>1, <1>4 DEF TypeOK
<1>6. /\ state' \in [Conn -> States] /\ state'[c] = "CONNECTING"
      /\ fdOf' \in [Conn -> Fd \cup {NoFd}] /\ fdOf'[c] = f
      /\ loopOf' \in [Conn -> IoLoop] /\ loopOf'[c] = b
      /\ \A d \in Conn : d # c => /\ state'[d] = state[d]
                                  /\ fdOf'[d] = fdOf[d]
                                  /\ loopOf'[d] = loopOf[d]
  BY <1>1 DEF TypeOK, States
<1>7. c \notin forcing /\ ~inLoop[c]
      /\ \A l \in IoLoop : \A i \in DOMAIN ToDo(l) : ToDo(l)[i].conn # c
  BY <1>1 DEF Made, DestroyPending
<1>8. \A m \in IoLoop : \A i \in DOMAIN (ToDo(m)') :
        \/ \E j \in DOMAIN ToDo(m) : ToDo(m)'[i] = ToDo(m)[j]
        \/ m = b /\ ToDo(m)'[i] = e
  BY <1>1, <1>3, TaskOrigin
<1>9. TypeOK'
  <2>1. \A m \in IoLoop : \A i \in DOMAIN (ToDo(m)') : loopOf'[ToDo(m)'[i].conn] = m
    BY <1>6, <1>7, <1>8, TaskType
  <2> QED
    BY <1>1, <1>2, <1>3, <1>5, <1>6, <2>1 DEF TypeOK
<1>10. \A i \in DOMAIN baseQueue : baseQueue[i].fd # f /\ baseQueue[i].of # c
  BY <1>1, <1>4, EraseType, NoneAssumption DEF ErasesOwn, Mapping
<1>11. ErasesOwn'
  BY <1>1, <1>5, <1>10, EraseType DEF ErasesOwn
<1>12. OpenIsMapped'
  <2> SUFFICES ASSUME NEW d \in Conn, d # c,
                      state[d] \in {"CONNECTING", "ESTABLISHED", "DISCONNECTING"}
               PROVE  connections'[fdOf[d]] = d
    BY <1>5, <1>6 DEF OpenIsMapped
  <2>1. connections[fdOf[d]] = d /\ fdOf[d] \in Fd
    BY DEF OpenIsMapped, Made
  <2>2. fdOf[d] # f
    BY <1>4, <2>1, NoneAssumption
  <2> QED
    BY <1>5, <2>1, <2>2
<1>13. Made'
  <2> SUFFICES ASSUME NEW d \in Conn, d # c
               PROVE  IF state[d] = "none"
                      THEN /\ d \notin forcing
                           /\ \A m \in IoLoop : \A i \in DOMAIN (ToDo(m)') :
                                ToDo(m)'[i].conn # d
                      ELSE fdOf[d] \in Fd
    BY <1>1, <1>6 DEF Made
  <2> QED
    BY <1>8 DEF Made
<1>14. Mapping'
  <2>1. \A g \in Fd : connections'[g] # NoConn =>
          fdOf'[connections'[g]] = g /\ state'[connections'[g]] # "none"
    <3> SUFFICES ASSUME NEW g \in Fd, g # f, connections[g] # NoConn
                 PROVE  /\ fdOf'[connections[g]] = g
                        /\ state'[connections[g]] # "none"
      BY <1>5, <1>6
    <3>1. connections[g] \in Conn
      BY DEF TypeOK
    <3>2. fdOf[connections[g]] = g /\ state[connections[g]] # "none"
      BY DEF Mapping
    <3> QED
      BY <1>1, <1>6, <3>1, <3>2
  <2>2. \A i \in DOMAIN baseQueue' :
          /\ fdOf'[baseQueue'[i].of] = baseQueue'[i].fd
          /\ state'[baseQueue'[i].of] = "DISCONNECTED"
    BY <1>1, <1>6, <1>10, EraseType DEF Mapping
  <2> QED
    BY <2>1, <2>2 DEF Mapping
<1>15. EstablishOnce'
  <2>0. ToDo(b)' = Append(ToDo(b), e)
        /\ \A m \in IoLoop : m # b => ToDo(m)' = ToDo(m)
    BY <1>1, PushToDo
  <2>1. e \in TaskOf
    BY DEF TaskOf
  <2> HIDE DEF e
  <2>2. ToDo(b) \in Seq(TaskOf)
    BY <1>1, ToDoType
  <2>3. \A i \in DOMAIN (ToDo(b)') :
          \/ i \in DOMAIN ToDo(b) /\ ToDo(b)'[i] = ToDo(b)[i]
          \/ i = Len(ToDo(b)) + 1 /\ ToDo(b)'[i] = e
    <3>1. \A s \in Seq(TaskOf) : \A i \in DOMAIN Append(s, e) :
            \/ i \in DOMAIN s /\ Append(s, e)[i] = s[i]
            \/ i = Len(s) + 1 /\ Append(s, e)[i] = e
      BY <2>1, AppendIndex
    <3> QED
      BY <2>0, <2>2, <3>1, Zenon
  <2>4. \A m \in IoLoop : \A i \in DOMAIN ToDo(m) : ToDo(m)[i] # e
    BY <1>7 DEF e
  <2>5. \A m \in IoLoop : \A i \in DOMAIN ToDo(m) :
          state'[ToDo(m)[i].conn] = state[ToDo(m)[i].conn]
    BY <1>6, <1>7, TaskType
  <2>6. e.conn = c /\ e.kind = "establish"
    BY DEF e
  <2>7. ASSUME NEW m \in IoLoop, NEW i \in DOMAIN (ToDo(m)'),
               ToDo(m)'[i].kind = "establish"
        PROVE  /\ state'[ToDo(m)'[i].conn] = "CONNECTING"
               /\ \A j \in DOMAIN (ToDo(m)') : ToDo(m)'[j] = ToDo(m)'[i] => j = i
    <3>1. CASE m # b
      <4>1. ToDo(m)' = ToDo(m)
        BY <2>0, <3>1
      <4> QED
        BY <2>5, <2>7, <4>1 DEF EstablishOnce
    <3>2. CASE m = b /\ ToDo(b)'[i] = e
      BY <1>6, <2>3, <2>4, <2>6, <3>2
    <3>3. CASE m = b /\ ToDo(b)'[i] # e
      <4>1. i \in DOMAIN ToDo(b) /\ ToDo(b)'[i] = ToDo(b)[i]
        BY <2>3, <2>7, <3>3
      <4>2. /\ state[ToDo(b)[i].conn] = "CONNECTING"
            /\ \A j \in DOMAIN ToDo(b) : ToDo(b)[j] = ToDo(b)[i] => j = i
        BY <2>7, <3>3, <4>1 DEF EstablishOnce
      <4> QED
        BY <2>3, <2>5, <3>3, <4>1, <4>2
    <3> QED
      BY <3>1, <3>2, <3>3
  <2> QED
    BY <2>7 DEF EstablishOnce
<1>16. DestroyPending'
  <2>1. \A d \in Conn : inLoop[d] => d # c
    BY <1>7
  <2>2. \A d \in Conn : inLoop'[d] =>
          state'[d] \in {"ESTABLISHED", "DISCONNECTING", "DISCONNECTED"}
    BY <1>1, <1>6, <2>1 DEF DestroyPending
  <2>3. ASSUME NEW d \in Conn, inLoop'[d], state'[d] = "DISCONNECTED"
        PROVE  \E i \in DOMAIN (ToDo(loopOf[d])') :
                 (ToDo(loopOf[d])')[i] = [kind |-> "destroy", conn |-> d]
    <3> DEFINE g == [kind |-> "destroy", conn |-> d]
    <3>1. PICK m \in IoLoop : m = loopOf[d]
      BY DEF TypeOK
    <3>2. inLoop[d] /\ d # c /\ loopOf'[d] = m /\ state[d] = "DISCONNECTED"
      BY <1>1, <1>6, <2>1, <2>3, <3>1
    <3>3. PICK i \in DOMAIN ToDo(m) : ToDo(m)[i] = g
      BY <3>1, <3>2 DEF DestroyPending
    <3> HIDE DEF g
    <3>4. \E j \in DOMAIN (ToDo(m)') : (ToDo(m)')[j] = g
      BY <1>3, <3>3, TaskStays
    <3> QED
      BY <3>2, <3>4 DEF g
  <2> QED
    BY <2>2, <2>3 DEF DestroyPending
<1>17. Phases'
  <2>1. \A l \in IoLoop : \A d \in active[l] : d # c /\ d \in Conn
    BY <1>7 DEF Phases, TypeOK
  <2> QED
    BY <1>1, <1>6, <2>1 DEF Phases
<1> QED
  BY <1>9, <1>11, <1>12, <1>13, <1>14, <1>15, <1>16, <1>17

\* queueInLoop() of forceClose() appends to the tasks of the connection's loop.
LEMMA ForceCloseQueuesStep ==
  ASSUME InductiveInv, NEW c \in Conn, ForceCloseQueues(c)
  PROVE  InductiveInv'
<1> USE DEF InductiveInv
<1> DEFINE e == [kind |-> "close", conn |-> c]
<1>0. PICK l \in IoLoop : l = loopOf[c]
  BY DEF TypeOK
<1>1. /\ c \in forcing /\ forcing' = forcing \ {c}
      /\ Push(l, "close", c)
      /\ UNCHANGED <<cnt, connections, baseQueue, fdOf, loopOf, state, listening,
                     inLoop, kept, phase, active, batch, held, running, server>>
  BY <1>0 DEF ForceCloseQueues, base, conn
<1>2. state[c] # "none"
  BY <1>1 DEF Made
<1>3. queue' \in [IoLoop -> Seq(TaskOf)] /\ TasksMove(l, 0, {e})
  BY <1>1, PushMoves
<1>4. TypeOK'
  <2>1. \A m \in IoLoop : \A i \in DOMAIN (ToDo(m)') : loopOf'[ToDo(m)'[i].conn] = m
    <3>1. \A x \in {e} : loopOf[x.conn] = l
      BY <1>0
    <3> QED
      BY <1>1, <1>3, <3>1, TasksOnTheirLoop
  <2> QED
    BY <1>1, <1>3, <2>1 DEF TypeOK
<1>5. ErasesOwn' /\ OpenIsMapped' /\ Mapping'
  BY <1>1 DEF ErasesOwn, OpenIsMapped, Mapping
<1>6. Made'
  <2>1. \A x \in {e} : state'[x.conn] # "none"
    BY <1>1, <1>2
  <2>2. \A d \in Conn : state'[d] = "none" => state[d] = "none" /\ d \notin forcing'
    BY <1>1 DEF Made
  <2> QED
    BY <1>1, <1>3, <2>1, <2>2, MadeKept
<1>7. EstablishOnce'
  <2>1. \A x \in {e} : x.kind # "establish"
    OBVIOUS
  <2> QED
    BY <1>1, <1>3, <2>1, EstablishKept
<1>8. DestroyPending'
  <2>1. \A d \in Conn : inLoop'[d] =>
          /\ state'[d] \in {"ESTABLISHED", "DISCONNECTING", "DISCONNECTED"}
          /\ state'[d] = "DISCONNECTED" => inLoop[d] /\ state[d] = "DISCONNECTED"
    BY <1>1 DEF DestroyPending
  <2> HIDE DEF e
  <2> QED
    BY <1>1, <1>3, <2>1, DestroyKept
<1>9. Phases'
  BY <1>1 DEF Phases
<1> QED
  BY <1>4, <1>5, <1>6, <1>7, <1>8, <1>9

\* handleClose(), from an event (taken = 0) or from the task of forceClose()
\* (taken = 1): a connection that was open leaves an erasing task, its first, and
\* connectDestroyed() to its own loop.
LEMMA CloseStep ==
  ASSUME InductiveInv, NEW l \in IoLoop, NEW c \in Conn, loopOf[c] = l,
         HandleClose(c),
         UNCHANGED <<cnt, connections, fdOf, loopOf, inLoop, kept, forcing, running,
                     server>>,
         phase' \in [IoLoop -> {"wait", "dispatch", "tasks", "exited"}],
         active' \in [IoLoop -> SUBSET Conn],
         queue' \in [IoLoop -> Seq(TaskOf)],
         batch' \in [IoLoop -> Seq(TaskOf)],
         held' \in [IoLoop -> SUBSET Conn],
         Phases',
         NEW taken \in {0, 1}, NEW new, TasksMove(l, taken, new),
         taken = 1 => ToDo(l)[1] = [kind |-> "close", conn |-> c],
         state[c] \in {"ESTABLISHED", "DISCONNECTING"} =>
           new = {[kind |-> "destroy", conn |-> c]},
         state[c] \notin {"ESTABLISHED", "DISCONNECTING"} => new = {}
  PROVE  InductiveInv'
<1> USE DEF InductiveInv
<1> DEFINE closing == state[c] \in {"ESTABLISHED", "DISCONNECTING"}
<1>1. /\ state' \in [Conn -> States] /\ listening' \in [Conn -> BOOLEAN]
      /\ \A d \in Conn : d # c \/ ~closing => state'[d] = state[d]
      /\ closing => state'[c] = "DISCONNECTED"
  <2>1. state \in [Conn -> States] /\ listening \in [Conn -> BOOLEAN]
    BY DEF TypeOK
  <2>2. CASE closing
    <3>1. /\ state' = [state EXCEPT ![c] = "DISCONNECTED"]
          /\ listening' = [listening EXCEPT ![c] = FALSE]
      BY <2>2 DEF HandleClose
    <3> QED
      BY <2>1, <2>2, <3>1 DEF States
  <2>3. CASE ~closing
    <3>1. UNCHANGED <<state, listening>>
      BY <2>3 DEF HandleClose
    <3> QED
      BY <2>1, <2>3, <3>1
  <2> QED
    BY <2>2, <2>3
<1>2. \A x \in new : closing /\ x = [kind |-> "destroy", conn |-> c]
  OBVIOUS
<1>3. baseQueue' \in Seq(EraseOf) /\ ErasesOwn' /\ Mapping'
  <2>1. CASE ~closing
    <3>1. UNCHANGED <<state, baseQueue>>
      BY <2>1 DEF HandleClose
    <3> QED
      BY <3>1 DEF TypeOK, ErasesOwn, Mapping
  <2>2. CASE closing
    <3>1. PICK f \in Fd : f = fdOf[c] /\ connections[f] = c
      BY <2>2 DEF OpenIsMapped, Made
    <3> DEFINE x == [fd |-> f, of |-> c]
    <3>2. baseQueue' = Append(baseQueue, x)
      BY <2>2, <3>1 DEF HandleClose
    <3>3. x \in EraseOf /\ x.fd = f /\ x.of = c
      BY DEF EraseOf
    <3> HIDE DEF x
    <3>4. baseQueue \in Seq(EraseOf)
      BY DEF TypeOK
    <3>5. \A i \in DOMAIN baseQueue :
            /\ baseQueue[i].of # c /\ baseQueue[i] # x
            /\ state'[baseQueue[i].of] = "DISCONNECTED"
      BY <1>1, <2>2, <3>3, EraseType DEF Mapping
    <3>6. /\ baseQueue' \in Seq(EraseOf)
          /\ \A i \in DOMAIN baseQueue' :
               \/ i \in DOMAIN baseQueue /\ baseQueue'[i] = baseQueue[i]
               \/ i = Len(baseQueue) + 1 /\ baseQueue'[i] = x
      BY <3>2, <3>3, <3>4, AppendIndex
    <3>7. ErasesOwn'
      <4>1. \A i \in DOMAIN baseQueue' : connections'[baseQueue'[i].fd] = baseQueue'[i].of
        BY <3>1, <3>3, <3>6 DEF ErasesOwn
      <4>2. IsInjective(baseQueue')
        BY <3>5, <3>6 DEF ErasesOwn, IsInjective
      <4> QED
        BY <4>1, <4>2 DEF ErasesOwn
    <3>8. \A i \in DOMAIN baseQueue' :
            /\ fdOf'[baseQueue'[i].of] = baseQueue'[i].fd
            /\ state'[baseQueue'[i].of] = "DISCONNECTED"
      <4> TAKE i \in DOMAIN baseQueue'
      <4>1. CASE i \in DOMAIN baseQueue /\ baseQueue'[i] = baseQueue[i]
        BY <3>5, <4>1 DEF Mapping
      <4>2. CASE baseQueue'[i] = x
        BY <1>1, <2>2, <3>1, <3>3, <4>2
      <4> QED
        BY <3>6, <4>1, <4>2
    <3>9. \A g \in Fd : connections[g] # NoConn => state'[connections[g]] # "none"
      BY <1>1, <2>2 DEF TypeOK, Mapping
    <3> QED
      BY <3>6, <3>7, <3>8, <3>9 DEF Mapping
  <2> QED
    BY <2>1, <2>2
<1>4. TypeOK'
  <2>1. \A m \in IoLoop : \A i \in DOMAIN (ToDo(m)') : loopOf'[ToDo(m)'[i].conn] = m
    <3>1. \A x \in new : loopOf[x.conn] = l
      BY <1>2
    <3> QED
      BY <3>1, TasksOnTheirLoop
  <2> QED
    BY <1>1, <1>3, <2>1 DEF TypeOK
<1>5. OpenIsMapped'
  BY <1>1 DEF OpenIsMapped
<1>6. Made'
  <2>1. \A x \in new : state'[x.conn] # "none"
    BY <1>1, <1>2
  <2>2. \A d \in Conn : /\ state'[d] = "none" => state[d] = "none" /\ d \notin forcing'
                        /\ state[d] = "none" => state'[d] = "none"
    BY <1>1 DEF Made
  <2> QED
    BY <2>1, <2>2, MadeKept
<1>7. EstablishOnce'
  <2>1. \A x \in new : x.kind # "establish"
    BY <1>2
  <2>2. \A d \in Conn : state[d] = "CONNECTING" => state'[d] = "CONNECTING"
    BY <1>1
  <2> QED
    BY <2>1, <2>2, EstablishKept
<1>8. DestroyPending'
  <2>1. \A d \in Conn : inLoop'[d] =>
          state'[d] \in {"ESTABLISHED", "DISCONNECTING", "DISCONNECTED"}
    BY <1>1 DEF DestroyPending
  <2>2. \A d \in Conn : inLoop'[d] /\ state'[d] = "DISCONNECTED" =>
          \/ /\ inLoop[d] /\ state[d] = "DISCONNECTED"
             /\ taken = 1 => ToDo(l)[1] # [kind |-> "destroy", conn |-> d]
          \/ loopOf[d] = l /\ [kind |-> "destroy", conn |-> d] \in new
    BY <1>1
  <2> QED
    BY <2>1, <2>2, DestroyKept
<1> QED
  BY <1>3, <1>4, <1>5, <1>6, <1>7, <1>8

\* The end of the stream is handled for a connection of the loop.
LEMMA ReadEofStep ==
  ASSUME InductiveInv, NEW l \in IoLoop, NEW c \in Conn, ReadEof(l, c)
  PROVE  InductiveInv'
<1> USE DEF InductiveInv
<1>1. /\ phase[l] = "dispatch" /\ c \in active[l]
      /\ active' = [active EXCEPT ![l] = @ \ {c}]
      /\ HandleClose(c)
      /\ UNCHANGED <<phase, batch, held, cnt, connections, fdOf, loopOf, inLoop,
                     kept, forcing, running, server>>
  BY DEF ReadEof, AtEvent
<1>2. loopOf[c] = l
  BY <1>1 DEF Phases
<1>3. Phases'
  BY <1>1 DEF TypeOK, Phases
<1>4. /\ phase' \in [IoLoop -> {"wait", "dispatch", "tasks", "exited"}]
      /\ active' \in [IoLoop -> SUBSET Conn]
      /\ batch' \in [IoLoop -> Seq(TaskOf)]
      /\ held' \in [IoLoop -> SUBSET Conn]
  BY <1>1 DEF TypeOK
<1>5. PICK new : /\ state[c] \in {"ESTABLISHED", "DISCONNECTING"} =>
                      new = {[kind |-> "destroy", conn |-> c]}
                 /\ state[c] \notin {"ESTABLISHED", "DISCONNECTING"} => new = {}
  OBVIOUS
<1>6. queue' \in [IoLoop -> Seq(TaskOf)] /\ TasksMove(l, 0, new)
  <2>1. CASE state[c] \in {"ESTABLISHED", "DISCONNECTING"}
    <3>1. Push(l, "destroy", c)
      BY <1>1, <1>2, <2>1 DEF HandleClose
    <3> QED
      BY <1>1, <1>5, <2>1, <3>1, PushMoves
  <2>2. CASE state[c] \notin {"ESTABLISHED", "DISCONNECTING"}
    <3>1. UNCHANGED queue
      BY <1>1, <2>2 DEF HandleClose
    <3>2. TasksMove(l, 0, {})
      BY <1>1, <3>1, StillMoves DEF ToDo
    <3>3. queue' \in [IoLoop -> Seq(TaskOf)]
      BY <3>1 DEF TypeOK
    <3> QED
      BY <1>5, <2>2, <3>2, <3>3
  <2> QED
    BY <2>1, <2>2
<1>7. 0 \in {0, 1} /\ (0 = 1 => ToDo(l)[1] = [kind |-> "close", conn |-> c])
  OBVIOUS
<1> QED
  BY <1>1, <1>2, <1>3, <1>4, <1>5, <1>6, <1>7, CloseStep

\* A task that is taken is for a connection of its loop; the vectors keep their
\* phases.
LEMMA TakePhases ==
  ASSUME InductiveInv, NEW l \in IoLoop, NEW c \in Conn, NEW k,
         TakeTask(l, k, c), UNCHANGED <<loopOf, running>>,
         \A d \in Conn : inLoop[d] /\ d # c => inLoop'[d]
  PROVE  /\ loopOf[c] = l /\ 1 \in DOMAIN ToDo(l)
         /\ UNCHANGED <<phase, active, held>>
         /\ Phases'
<1> USE DEF InductiveInv
<1>1. 1 \in DOMAIN ToDo(l) /\ loopOf[c] = l
  <2>1. ToDo(l) # <<>> /\ ToDo(l)[1] = [kind |-> k, conn |-> c]
    BY TakeToDo
  <2>2. 1 \in DOMAIN ToDo(l)
    BY <2>1, ToDoType
  <2>3. ToDo(l)[1].conn = c
    BY <2>1
  <2> QED
    BY <2>2, <2>3, TaskType
<1>2. UNCHANGED <<phase, active, held>> /\ phase[l] = "tasks"
  BY DEF TakeTask, AtTask
<1>3. \A i \in DOMAIN batch'[l] : batch'[l][i].conn \in held[l]
  <2>1. batch[l] \in Seq(TaskOf) /\ batch[l] # <<>> /\ batch'[l] = Tail(batch[l])
    BY TakeToDo DEF TypeOK
  <2> QED
    BY <2>1, TailIndex DEF Phases
<1>4. \A m \in IoLoop : \A d \in active[m] : d \in Conn /\ d # c
  <2>1. active \in [IoLoop -> SUBSET Conn]
    BY DEF TypeOK
  <2> QED
    BY <1>1, <1>2, <2>1 DEF Phases
<1>5. Phases'
  <2>1. \A m \in IoLoop : m # l => batch'[m] = batch[m]
    BY TakeToDo
  <2> QED
    BY <1>2, <1>3, <1>4, <2>1 DEF Phases
<1> QED
  BY <1>1, <1>2, <1>5

\* So is the task of forceClose().
LEMMA RunForceCloseStep ==
  ASSUME InductiveInv, NEW l \in IoLoop, NEW c \in Conn, RunForceClose(l, c)
  PROVE  InductiveInv'
<1> USE DEF InductiveInv
<1>1. /\ TakeTask(l, "close", c) /\ HandleClose(c)
      /\ UNCHANGED <<cnt, connections, fdOf, loopOf, inLoop, kept, forcing,
                     running, server>>
  BY DEF RunForceClose
<1>2. /\ loopOf[c] = l /\ Phases'
      /\ UNCHANGED <<phase, active, held>>
  BY <1>1, TakePhases
<1>3. /\ batch' \in [IoLoop -> Seq(TaskOf)]
      /\ ToDo(l)[1] = [kind |-> "close", conn |-> c]
  BY <1>1, TakeToDo
<1>4. /\ phase' \in [IoLoop -> {"wait", "dispatch", "tasks", "exited"}]
      /\ active' \in [IoLoop -> SUBSET Conn]
      /\ held' \in [IoLoop -> SUBSET Conn]
  BY <1>2 DEF TypeOK
<1>5. PICK new : /\ state[c] \in {"ESTABLISHED", "DISCONNECTING"} =>
                      new = {[kind |-> "destroy", conn |-> c]}
                 /\ state[c] \notin {"ESTABLISHED", "DISCONNECTING"} => new = {}
  OBVIOUS
<1>6. queue' \in [IoLoop -> Seq(TaskOf)] /\ TasksMove(l, 1, new)
  <2>1. CASE state[c] \in {"ESTABLISHED", "DISCONNECTING"}
    <3>1. Push(l, "destroy", c)
      BY <1>1, <1>2, <2>1 DEF HandleClose
    <3> QED
      BY <1>1, <1>5, <2>1, <3>1, TakePushMoves
  <2>2. CASE state[c] \notin {"ESTABLISHED", "DISCONNECTING"}
    <3>1. UNCHANGED queue
      BY <1>1, <2>2 DEF HandleClose
    <3>2. TasksMove(l, 1, {})
      BY <1>1, <3>1, TakeMoves
    <3>3. queue' \in [IoLoop -> Seq(TaskOf)]
      BY <3>1 DEF TypeOK
    <3> QED
      BY <1>5, <2>2, <3>2, <3>3
  <2> QED
    BY <2>1, <2>2
<1> QED
  BY <1>1, <1>2, <1>3, <1>4, <1>5, <1>6, CloseStep

\* connectEstablished() finds the connection CONNECTING: its task is the only one.
LEMMA EstablishStep ==
  ASSUME InductiveInv, NEW l \in IoLoop, NEW c \in Conn, Establish(l, c)
  PROVE  InductiveInv'
<1> USE DEF InductiveInv
<1> DEFINE e == [kind |-> "establish", conn |-> c]
<1>1. /\ TakeTask(l, "establish", c)
      /\ state' = [state EXCEPT ![c] = "ESTABLISHED"]
      /\ listening' = [listening EXCEPT ![c] = TRUE]
      /\ inLoop' = [inLoop EXCEPT ![c] = TRUE]
      /\ kept' \in {kept, kept \cup {c}}
      /\ UNCHANGED <<cnt, connections, baseQueue, fdOf, loopOf, forcing, queue,
                     running, server>>
  BY DEF Establish, base
<1>2. /\ state' \in [Conn -> States] /\ listening' \in [Conn -> BOOLEAN]
      /\ inLoop' \in [Conn -> BOOLEAN] /\ kept' \in SUBSET Conn
      /\ state'[c] = "ESTABLISHED"
      /\ \A d \in Conn : d # c => state'[d] = state[d] /\ inLoop'[d] = inLoop[d]
  BY <1>1 DEF TypeOK, States
<1>3. /\ loopOf[c] = l /\ 1 \in DOMAIN ToDo(l) /\ Phases'
      /\ UNCHANGED <<phase, active, held>>
  BY <1>1, <1>2, TakePhases
<1>4. batch' \in [IoLoop -> Seq(TaskOf)] /\ ToDo(l)[1] = e
  BY <1>1, TakeToDo
<1>5. TasksMove(l, 1, {})
  BY <1>1, TakeMoves
<1>6. state[c] = "CONNECTING"
  BY <1>3, <1>4 DEF EstablishOnce
<1>7. TypeOK'
  <2>1. \A m \in IoLoop : \A i \in DOMAIN (ToDo(m)') : loopOf'[ToDo(m)'[i].conn] = m
    BY <1>1, <1>5, TasksOnTheirLoop
  <2> QED
    BY <1>1, <1>2, <1>3, <1>4, <2>1 DEF TypeOK
<1>8. ErasesOwn'
  BY <1>1 DEF ErasesOwn
<1>9. OpenIsMapped'
  BY <1>1, <1>2, <1>6 DEF OpenIsMapped
<1>10. Made'
  <2>1. \A d \in Conn : /\ state'[d] = "none" => state[d] = "none" /\ d \notin forcing'
                        /\ state[d] = "none" => state'[d] = "none"
    BY <1>1, <1>2, <1>6 DEF Made
  <2> QED
    BY <1>1, <1>5, <2>1, MadeKept
<1>11. Mapping'
  <2>1. \A f \in Fd : connections[f] # NoConn => state'[connections[f]] # "none"
    BY <1>2 DEF TypeOK, Mapping
  <2>2. \A i \in DOMAIN baseQueue : state'[baseQueue[i].of] = "DISCONNECTED"
    BY <1>2, <1>6, EraseType DEF Mapping
  <2> QED
    BY <1>1, <2>1, <2>2 DEF Mapping
<1>12. EstablishOnce'
  <2>1. \A d \in Conn : state[d] = "CONNECTING" =>
          state'[d] = "CONNECTING" \/ ToDo(l)[1] = [kind |-> "establish", conn |-> d]
    BY <1>2, <1>4
  <2> QED
    BY <1>5, <2>1, EstablishKept
<1>13. DestroyPending'
  <2>1. \A d \in Conn : inLoop'[d] =>
          /\ state'[d] \in {"ESTABLISHED", "DISCONNECTING", "DISCONNECTED"}
          /\ state'[d] = "DISCONNECTED" =>
               inLoop[d] /\ state[d] = "DISCONNECTED"
    BY <1>2 DEF DestroyPending
  <2>2. \A d \in Conn : ToDo(l)[1] # [kind |-> "destroy", conn |-> d]
    BY <1>4
  <2> QED
    BY <1>1, <1>5, <2>1, <2>2, DestroyKept
<1> QED
  BY <1>3, <1>7, <1>8, <1>9, <1>10, <1>11, <1>12, <1>13

\* connectDestroyed() takes the connection out of its loop: it is the one whose
\* task the step takes, and no other loses its task.
LEMMA DestroyStep ==
  ASSUME InductiveInv, NEW l \in IoLoop, NEW c \in Conn, Destroy(l, c)
  PROVE  InductiveInv'
<1> USE DEF InductiveInv
<1> DEFINE e == [kind |-> "destroy", conn |-> c]
<1>1. /\ TakeTask(l, "destroy", c)
      /\ state' = [state EXCEPT ![c] = IF @ = "ESTABLISHED" THEN "DISCONNECTED"
                                                            ELSE @]
      /\ listening' = [listening EXCEPT ![c] = @ /\ state[c] # "ESTABLISHED"]
      /\ inLoop' = [inLoop EXCEPT ![c] = FALSE]
      /\ UNCHANGED <<cnt, connections, baseQueue, fdOf, loopOf, kept, forcing,
                     queue, running, server>>
  BY DEF Destroy, base
<1>2. /\ inLoop' \in [Conn -> BOOLEAN] /\ ~inLoop'[c]
      /\ \A d \in Conn : d # c => inLoop'[d] = inLoop[d]
  BY <1>1 DEF TypeOK
<1>3. listening' \in [Conn -> BOOLEAN]
  BY <1>1 DEF TypeOK
<1>4. /\ state' \in [Conn -> States]
      /\ \A d \in Conn :
           \/ state'[d] = state[d]
           \/ d = c /\ state[d] = "ESTABLISHED" /\ state'[d] = "DISCONNECTED"
  BY <1>1 DEF TypeOK, States
<1>5. /\ loopOf[c] = l /\ Phases'
      /\ UNCHANGED <<phase, active, held>>
  BY <1>1, <1>2, TakePhases
<1>6. batch' \in [IoLoop -> Seq(TaskOf)] /\ ToDo(l)[1] = e
  BY <1>1, TakeToDo
<1>7. TasksMove(l, 1, {})
  BY <1>1, TakeMoves
<1>8. TypeOK'
  <2>1. \A m \in IoLoop : \A i \in DOMAIN (ToDo(m)') : loopOf'[ToDo(m)'[i].conn] = m
    BY <1>1, <1>7, TasksOnTheirLoop
  <2> QED
    BY <1>1, <1>2, <1>3, <1>4, <1>5, <1>6, <2>1 DEF TypeOK
<1>9. ErasesOwn'
  BY <1>1 DEF ErasesOwn
<1>10. OpenIsMapped'
  BY <1>1, <1>4 DEF OpenIsMapped
<1>11. Made'
  <2>1. \A d \in Conn : /\ state'[d] = "none" => state[d] = "none" /\ d \notin forcing'
                        /\ state[d] = "none" => state'[d] = "none"
    BY <1>1, <1>4 DEF Made
  <2> QED
    BY <1>1, <1>7, <2>1, MadeKept
<1>12. Mapping'
  <2>1. \A f \in Fd : connections[f] # NoConn => state'[connections[f]] # "none"
    BY <1>4 DEF TypeOK, Mapping
  <2>2. \A i \in DOMAIN baseQueue : state'[baseQueue[i].of] = "DISCONNECTED"
    BY <1>4, EraseType DEF Mapping
  <2> QED
    BY <1>1, <2>1, <2>2 DEF Mapping
<1>13. EstablishOnce'
  <2>1. \A d \in Conn : state[d] = "CONNECTING" => state'[d] = "CONNECTING"
    BY <1>4
  <2> QED
    BY <1>7, <2>1, EstablishKept
<1>14. DestroyPending'
  <2>1. \A d \in Conn : inLoop'[d] => d # c /\ inLoop[d] /\ state'[d] = state[d]
    BY <1>2, <1>4
  <2>2. \A d \in Conn : inLoop'[d] =>
          /\ state'[d] \in {"ESTABLISHED", "DISCONNECTING", "DISCONNECTED"}
          /\ state'[d] = "DISCONNECTED" =>
               inLoop[d] /\ state[d] = "DISCONNECTED"
    BY <2>1 DEF DestroyPending
  <2>3. \A d \in Conn : d # c => ToDo(l)[1] # [kind |-> "destroy", conn |-> d]
    BY <1>6
  <2> QED
    BY <1>1, <1>7, <2>1, <2>2, <2>3, DestroyKept
<1> QED
  BY <1>5, <1>8, <1>9, <1>10, <1>11, <1>12, <1>13, <1>14

-----------------------------------------------------------------------------
(* The theorems. *)

\* Every step of the server keeps the invariant.
LEMMA NextInductive == InductiveInv /\ [Next]_vars => InductiveInv'
<1> SUFFICES ASSUME InductiveInv, [Next]_vars PROVE InductiveInv'
  OBVIOUS
<1>1. ASSUME NEW c \in Conn, NEW f \in Fd, Accept(c, f) PROVE InductiveInv'
  BY <1>1, AcceptStep
<1>2. ASSUME NEW c \in Conn, ForceClose(c) \/ DropPointer(c) PROVE InductiveInv'
  BY <1>2, ForceCloseStep
<1>3. ASSUME NEW c \in Conn, ForceCloseQueues(c) PROVE InductiveInv'
  BY <1>3, ForceCloseQueuesStep
<1>4. CASE Erase
  BY <1>4, EraseStep
<1>5. ASSUME NEW l \in IoLoop, Poll(l) PROVE InductiveInv'
  BY <1>5, PollStep
<1>6. ASSUME NEW l \in IoLoop, IoStep(l) PROVE InductiveInv'
  BY <1>6, PollStep, ReadEofStep, EstablishStep, RunForceCloseStep, DestroyStep,
     SwapStep, EndIterationStep DEF IoStep
<1>7. CASE UNCHANGED vars
  <2>1. UNCHANGED <<base, conn, kept, forcing, running, server, phase, active,
                    queue, batch, held>>
    BY <1>7 DEF vars, io
  <2>2. (\A l \in IoLoop : ToDo(l)' = ToDo(l)) /\ Phases'
    BY <2>1 DEF InductiveInv, ToDo, Phases, conn
  <2> QED
    BY <2>1, <2>2, QuietStep DEF InductiveInv, TypeOK
<1> QED
  BY <1>1, <1>2, <1>3, <1>4, <1>5, <1>6, <1>7 DEF Next

\* The invariant of the server while it is up, from which the properties follow.
THEOREM ServerInvariant == SafeSpec => []InductiveInv
<1> QED
  BY InitInductive, NextInductive, PTL DEF SafeSpec

\* The values of the variables.
THEOREM ServerTypes == SafeSpec => []TypeOK
<1>1. InductiveInv => TypeOK
  BY DEF InductiveInv
<1> QED
  BY <1>1, ServerInvariant, PTL

\* The base loop erases the connection that closed, and once, however many
\* connections were accepted since; a descriptor in use is never accepted again.
THEOREM EraseIsOwn == SafeSpec => []ErasesOwn
<1>1. InductiveInv => ErasesOwn
  BY DEF InductiveInv
<1> QED
  BY <1>1, ServerInvariant, PTL

\* Whatever is not closed is in the map, under its own descriptor.
THEOREM OpenStaysMapped == SafeSpec => []OpenIsMapped
<1>1. InductiveInv => OpenIsMapped
  BY DEF InductiveInv
<1> QED
  BY <1>1, ServerInvariant, PTL

\* A pointer is left to whatever is in a loop or has a task there.
LEMMA InLoopAlive ==
  ASSUME InductiveInv, NEW c \in Conn, inLoop[c]
  PROVE  Alive(c)
<1> USE DEF InductiveInv
<1>1. CASE state[c] \in {"ESTABLISHED", "DISCONNECTING"}
  <2>1. connections[fdOf[c]] = c /\ fdOf[c] \in Fd
    BY <1>1 DEF OpenIsMapped, Made
  <2> QED
    BY <2>1 DEF Alive
<1>2. CASE state[c] = "DISCONNECTED"
  <2>1. PICK l \in IoLoop : l = loopOf[c]
    BY DEF TypeOK
  <2>2. PICK i \in DOMAIN ToDo(l) : ToDo(l)[i] = [kind |-> "destroy", conn |-> c]
    BY <1>2, <2>1 DEF DestroyPending
  <2>3. ToDo(l)[i].conn = c
    BY <2>2
  <2>4. batch[l] \in Seq(TaskOf) /\ queue[l] \in Seq(TaskOf)
    BY DEF TypeOK
  <2>5. \/ i \in DOMAIN batch[l] /\ ToDo(l)[i] = batch[l][i]
        \/ i - Len(batch[l]) \in DOMAIN queue[l]
           /\ ToDo(l)[i] = queue[l][i - Len(batch[l])]
    <3>1. \A s, q \in Seq(TaskOf) : \A k \in DOMAIN (s \o q) :
            \/ k \in DOMAIN s /\ (s \o q)[k] = s[k]
            \/ k - Len(s) \in DOMAIN q /\ (s \o q)[k] = q[k - Len(s)]
      BY ConcatIndex
    <3>2. i \in DOMAIN (batch[l] \o queue[l])
      BY DEF ToDo
    <3> QED
      BY <2>4, <3>1, <3>2, Zenon DEF ToDo
  <2>6. CASE i \in DOMAIN batch[l] /\ ToDo(l)[i] = batch[l][i]
    BY <2>3, <2>6 DEF Phases, Alive, HeldByTask
  <2>7. ASSUME NEW j \in DOMAIN queue[l], ToDo(l)[i] = queue[l][j] PROVE Alive(c)
    BY <2>3, <2>7 DEF ToSet, Alive, HeldByTask
  <2> QED
    BY <2>5, <2>6, <2>7
<1> QED
  BY <1>1, <1>2 DEF DestroyPending

\* No loop handles an event, or executes a task, of a deleted connection.
THEOREM UseIsOfTheLiving == SafeSpec => []NoUseAfterFree
<1>1. ASSUME InductiveInv PROVE NoUseAfterFree
  <2>1. \A l \in IoLoop : \A c \in active[l] : c \in Conn /\ inLoop[c]
    BY <1>1 DEF InductiveInv, TypeOK, Phases
  <2>2. \A l \in IoLoop : \A t \in ToSet(batch[l]) : t.conn \in held[l]
    BY <1>1 DEF InductiveInv, Phases, ToSet
  <2> QED
    BY <1>1, <2>1, <2>2, InLoopAlive DEF NoUseAfterFree, Alive, HeldByTask
<1> QED
  BY <1>1, ServerInvariant, PTL

\* The assertions of ~TcpConnection() and ~Channel() hold while the server is up.
THEOREM DeletedIsClean == SafeSpec => []DeletedClean
<1>1. ASSUME InductiveInv PROVE DeletedClean
  <2> SUFFICES ASSUME NEW c \in Conn, Deleted(c)
               PROVE  state[c] = "DISCONNECTED" /\ ~inLoop[c]
    BY DEF DeletedClean
  <2>1. state[c] # "none" /\ ~Alive(c)
    BY DEF Deleted
  <2>2. state[c] \in States /\ fdOf[c] \in Fd
    BY <1>1, <2>1 DEF InductiveInv, TypeOK, Made
  <2>3. connections[fdOf[c]] # c
    BY <2>1, <2>2 DEF Alive
  <2>4. state[c] = "DISCONNECTED"
    BY <1>1, <2>1, <2>2, <2>3 DEF InductiveInv, OpenIsMapped, States
  <2> QED
    BY <1>1, <2>1, <2>4, InLoopAlive
<1> QED
  BY <1>1, ServerInvariant, PTL
=============================================================================
