------------------------- MODULE ProxyHandler_proofs --------------------------
(***************************************************************************)
(* Theorem about ProxyHandler, for any number of requests on the           *)
(* connection: the callbacks and tasks that hold a client or a connector   *)
(* by its address find it, until a second request replaces a client.       *)
(***************************************************************************)
EXTENDS ProxyHandler, SequenceTheorems, TLAPS

-----------------------------------------------------------------------------
(* Queues of tasks. *)

\* A queue without some of the tasks of another, in its order.
Fewer(u, s) ==
  /\ \A k : Has(u, k) => Has(s, k)
  /\ \A k : Once(s, k) => Once(u, k)
  /\ \A a, b : Before(s, a, b) => Before(u, a, b)

\* A queue with a task more than another, at its end.
More(u, s, t) ==
  /\ \A k : Has(u, k) <=> Has(s, k) \/ k = t
  /\ \A k : Once(s, k) /\ (k = t => ~Has(s, k)) => Once(u, k)
  /\ \A a, b : a # t /\ Before(s, a, b) => Before(u, a, b)

LEMMA Pushed ==
  ASSUME NEW s \in Seq(Task), NEW t \in Task, NEW u, u = Append(s, t)
  PROVE  u \in Seq(Task) /\ Len(u) = Len(s) + 1 /\ More(u, s, t)
<1>1. /\ u \in Seq(Task) /\ Len(s) \in Nat /\ Len(u) = Len(s) + 1
      /\ DOMAIN s = 1..Len(s) /\ DOMAIN u = 1..(Len(s) + 1)
      /\ \A i \in 1..Len(s) : u[i] = s[i]
      /\ u[Len(s) + 1] = t
  BY AppendProperties, LenProperties
<1>2. PICK n \in Nat : n = Len(s)
  BY <1>1
<1>3. \A i \in 1..n : i < n + 1 /\ i # n + 1
  OBVIOUS
<1>4. \A k : Places(s, k) \subseteq 1..n
  BY <1>1, <1>2 DEF Places
<1>5. DOMAIN u = 1..n \cup {n + 1}
  BY <1>1, <1>2
<1>6. ASSUME NEW k
      PROVE  Places(u, k) = Places(s, k) \cup (IF k = t THEN {n + 1} ELSE {})
  BY <1>1, <1>2, <1>3, <1>5 DEF Places
<1>7. \A k : Has(u, k) <=> Has(s, k) \/ k = t
  BY <1>6 DEF Has
<1>8. ASSUME NEW k, Once(s, k), k = t => ~Has(s, k) PROVE Once(u, k)
  BY <1>6, <1>8 DEF Once, Has
<1>9. ASSUME NEW a, NEW b, a # t, Before(s, a, b) PROVE Before(u, a, b)
  BY <1>3, <1>4, <1>6, <1>9 DEF Before
<1> QED  BY <1>1, <1>7, <1>8, <1>9 DEF More

LEMMA Taken ==
  ASSUME NEW s \in Seq(Task), s # <<>>, NEW u, u = Tail(s)
  PROVE  /\ u \in Seq(Task) /\ Len(u) = Len(s) - 1 /\ Head(s) \in Task
         /\ Fewer(u, s)
         /\ Has(s, Head(s))
         /\ Once(s, Head(s)) => ~Has(u, Head(s))
         /\ \A a : Before(s, a, Head(s)) => ~Has(s, a)
<1>1. /\ u \in Seq(Task) /\ Len(s) \in Nat \ {0} /\ Len(u) = Len(s) - 1
      /\ DOMAIN s = 1..Len(s) /\ DOMAIN u = 1..(Len(s) - 1)
      /\ \A i \in 1..(Len(s) - 1) : u[i] = s[i + 1]
      /\ Head(s) = s[1] /\ Head(s) \in Task
  BY HeadTailProperties, LenProperties, EmptySeq
<1>2. PICK n \in Nat : n = Len(s) - 1 /\ n + 1 = Len(s)
  <2>1. Len(s) - 1 \in Nat /\ (Len(s) - 1) + 1 = Len(s)
    BY <1>1
  <2> QED  BY <2>1
<1>3. /\ 1 \in 1..(n + 1)
      /\ \A i \in 1..n : i + 1 \in 1..(n + 1) /\ i + 1 # 1
      /\ \A i, j \in 1..n : (i + 1 < j + 1 => i < j) /\ (i + 1 = j + 1 => i = j)
      /\ \A i \in 1..(n + 1) : ~(i < 1)
  OBVIOUS
<1>4. \A k : /\ Places(s, k) \subseteq 1..(n + 1) /\ Places(u, k) \subseteq 1..n
             /\ \A i \in Places(u, k) : i + 1 \in Places(s, k)
             /\ 1 \in Places(s, k) <=> k = Head(s)
  BY <1>1, <1>2, <1>3 DEF Places
<1>5. \A k : Has(u, k) => Has(s, k)
  BY <1>4 DEF Has
<1>6. ASSUME NEW k, Once(s, k) PROVE Once(u, k)
  BY <1>3, <1>4, <1>6 DEF Once
<1>7. ASSUME NEW a, NEW b, Before(s, a, b) PROVE Before(u, a, b)
  BY <1>3, <1>4, <1>7 DEF Before
<1>8. Once(s, Head(s)) => ~Has(u, Head(s))
  BY <1>3, <1>4 DEF Once, Has
<1>9. \A a : Before(s, a, Head(s)) => ~Has(s, a)
  BY <1>3, <1>4 DEF Before, Has
<1> QED  BY <1>1, <1>4, <1>5, <1>6, <1>7, <1>8, <1>9 DEF Fewer, Has

\* What a task or an event queues, after the tasks that are left.
LEMMA Queued ==
  ASSUME NEW s \in Seq(Task), NEW t \in Task, NEW t2 \in Task
  PROVE  /\ s \o <<>> = s
         /\ s \o <<t>> = Append(s, t)
         /\ s \o <<t, t2>> = Append(Append(s, t), t2)
OBVIOUS

LEMMA TaskNames ==
  /\ \A kind \in Kind, r \in Request \cup {0} : <<kind, r>> \in Task
  /\ \A k1, k2, r1, r2 : <<k1, r1>> = <<k2, r2>> => k1 = k2 /\ r1 = r2
BY DEF Task

\* The requests.
LEMMA Requests ==
  /\ 0 \notin Request
  /\ \A r \in Request : 1 \in Request /\ r \in Nat /\ (r # 1 => r > 1)
  /\ \A r \in Request : r > 1 => 1 \in 1..(r - 1)
BY RequestsAssumption DEF Request

\* A task is taken: what is left of the queue, and how long the batch is.
LEMMA TakesTask ==
  ASSUME TypeOK, NEW task, NEW more, Run(task, more)
  PROVE  /\ ~dangling /\ tasks # <<>> /\ Head(tasks) = task /\ task \in Task
         /\ tasks' = Tail(tasks) \o more
         /\ Tail(tasks) \in Seq(Task) /\ Fewer(Tail(tasks), tasks)
         /\ Has(tasks, task)
         /\ Once(tasks, task) => ~Has(Tail(tasks), task)
         /\ \A a : Before(tasks, a, task) => ~Has(tasks, a)
         /\ left' \in 0..Len(Tail(tasks))
<1>1. /\ tasks \in Seq(Task) /\ left \in 0..Len(tasks) /\ left > 0
      /\ ~dangling /\ Head(tasks) = task /\ tasks' = Tail(tasks) \o more
      /\ left' = left - 1
  BY DEF TypeOK, Run, Goes
<1>2. tasks # <<>>
  BY <1>1, EmptySeq
<1>3. left' \in 0..(Len(tasks) - 1)
  BY <1>1, LenProperties
<1> QED  BY <1>1, <1>2, <1>3, Taken

\* A task is taken and queues nothing.
LEMMA RunsTask ==
  ASSUME TypeOK, NEW task, Run(task, <<>>)
  PROVE  /\ ~dangling /\ tasks # <<>> /\ Head(tasks) = task /\ task \in Task
         /\ tasks' \in Seq(Task) /\ left' \in 0..Len(tasks')
         /\ Fewer(tasks', tasks)
         /\ Has(tasks, task)
         /\ Once(tasks, task) => ~Has(tasks', task)
         /\ \A a : Before(tasks, a, task) => ~Has(tasks, a)
<1>1. tasks' = Tail(tasks)
  BY TakesTask, TaskNames, Queued
<1> QED  BY <1>1, TakesTask

\* A task is taken and queues one.
LEMMA RunsTaskPushes ==
  ASSUME TypeOK, NEW task, NEW t \in Task, Run(task, <<t>>)
  PROVE  /\ ~dangling /\ tasks # <<>> /\ Head(tasks) = task /\ task \in Task
         /\ tasks' \in Seq(Task) /\ left' \in 0..Len(tasks')
         /\ \A k : Has(tasks', k) => Has(tasks, k) \/ k = t
         /\ \A k : Once(tasks, k) /\ (k = t => ~Has(tasks, k)) => Once(tasks', k)
         /\ \A a, b : a # t /\ Before(tasks, a, b) => Before(tasks', a, b)
<1>1. tasks' = Append(Tail(tasks), t)
  <2>1. Tail(tasks) \in Seq(Task) /\ tasks' = Tail(tasks) \o <<t>>
    BY TakesTask
  <2> QED  BY <2>1, Queued
<1>2. PICK u \in Seq(Task) : u = Tail(tasks)
  BY TakesTask
<1>3. tasks' \in Seq(Task) /\ Len(tasks') = Len(u) + 1 /\ More(tasks', u, t)
  BY <1>1, <1>2, Pushed
<1>4. left' \in 0..Len(tasks')
  BY <1>2, <1>3, TakesTask, LenProperties
<1>5. Fewer(u, tasks)
  BY <1>2, TakesTask
<1> QED  BY <1>3, <1>4, <1>5, TakesTask DEF Fewer, More

\* An event queues nothing, or one task.
LEMMA Happens ==
  ASSUME TypeOK, NEW source, NEW others
  PROVE  /\ Event(source, <<>>, others) =>
              ~dangling /\ tasks' = tasks /\ phase' = phase /\ left' = left
         /\ \A t \in Task : Event(source, <<t>>, others) =>
              ~dangling /\ tasks' = Append(tasks, t) /\ phase' = phase /\ left' = left
<1>1. tasks \in Seq(Task)
  BY DEF TypeOK
<1> QED  BY <1>1, Queued, TaskNames DEF Event, AtEvent, Goes

LEMMA Grows ==
  ASSUME TypeOK, NEW t \in Task, tasks' = Append(tasks, t), left' = left
  PROVE  tasks' \in Seq(Task) /\ left' \in 0..Len(tasks') /\ More(tasks', tasks, t)
<1>1. tasks \in Seq(Task) /\ left \in 0..Len(tasks) /\ Len(tasks) \in Nat
  BY LenProperties DEF TypeOK
<1>2. tasks' \in Seq(Task) /\ Len(tasks') = Len(tasks) + 1 /\ More(tasks', tasks, t)
  BY <1>1, Pushed
<1> QED  BY <1>1, <1>2

-----------------------------------------------------------------------------
(* One lemma per action. *)

\* The queue and the pointers stay.
LEMMA LoopTurns ==
  ASSUME InductiveInv,
         \/ StartBatch \/ EndBatch \/ EndRead
         \/ TimersExpire \/ OtherRetries \/ OtherFails
         \/ WriteReturns \/ \E r \in Request : WriteBlocks(r)
  PROVE  InductiveInv'
<1>1. left' \in 0..Len(tasks)
  <2>1. left \in 0..Len(tasks) /\ Len(tasks) \in 0..Len(tasks)
    BY LenProperties DEF InductiveInv, TypeOK
  <2>2. left' \in {left, Len(tasks)}
    BY DEF StartBatch, EndBatch, EndRead, TimersExpire, OtherRetries, OtherFails, Event,
           loop, WriteReturns, WriteBlocks
  <2> QED  BY <2>1, <2>2
<1>2. phase' \in {"poll", "read", "tasks"}
  BY DEF StartBatch, EndBatch, EndRead, TimersExpire, OtherRetries, OtherFails, Event,
         loop, WriteReturns, WriteBlocks, InductiveInv, TypeOK
<1>3. UNCHANGED <<tasks, server, client, upstream, replaced, dangling>>
  <2>1. CASE StartBatch \/ EndBatch \/ EndRead \/ OtherRetries \/ OtherFails
    BY <2>1 DEF StartBatch, EndBatch, EndRead, OtherRetries, OtherFails, loop
  <2>2. CASE TimersExpire
    BY <2>2, Happens DEF TimersExpire, InductiveInv
  <2>3. CASE WriteReturns \/ \E r \in Request : WriteBlocks(r)
    BY <2>3 DEF WriteReturns, WriteBlocks
  <2> QED  BY <2>1, <2>2, <2>3
<1> QED
  BY <1>1, <1>2, <1>3 DEF InductiveInv, TypeOK, NotStarted, ClientStays, TasksOnce,
     StoppedOnce, server, client, upstream

LEMMA DownEndsInv ==
  ASSUME InductiveInv, DownEnds \/ CloseDown \/ Erase
  PROVE  InductiveInv'
<1>1. /\ UNCHANGED <<hasContext, msgCb, closeCb, userData, client, upstream, replaced,
                     dangling>>
      /\ down' \in {"established", "disconnecting", "disconnected"}
      /\ inMap' \in BOOLEAN
  BY DEF DownEnds, CloseDown, Erase, InductiveInv, TypeOK
<1>2. <<"destroy", 0>> \in Task
  BY TaskNames DEF Kind
<1>3. /\ tasks' \in Seq(Task) /\ left' \in 0..Len(tasks')
      /\ \A k : Has(tasks', k) => Has(tasks, k) \/ k = <<"destroy", 0>>
      /\ \A k : Once(tasks, k) /\ k # <<"destroy", 0>> => Once(tasks', k)
      /\ \A a, b : a # <<"destroy", 0>> /\ Before(tasks, a, b) => Before(tasks', a, b)
  <2>1. CASE DownEnds
    BY <1>2, <2>1, Happens, Grows DEF DownEnds, InductiveInv, More
  <2>2. CASE CloseDown
    BY <1>2, <2>2, RunsTask, RunsTaskPushes DEF CloseDown, InductiveInv, Fewer
  <2>3. CASE Erase
    BY <2>3 DEF Erase, loop, InductiveInv, TypeOK
  <2> QED  BY <2>1, <2>2, <2>3
<1>4. phase' \in {"poll", "read", "tasks"}
  BY DEF InductiveInv, TypeOK, DownEnds, CloseDown, Erase, loop, Event, Run
<1>5. /\ \A kind \in Kind, r \in Request :
           Has(tasks', <<kind, r>>) => Has(tasks, <<kind, r>>)
      /\ \A kind \in Kind, r \in Request :
           Once(tasks, <<kind, r>>) => Once(tasks', <<kind, r>>)
      /\ \A r \in Request :
           Before(tasks, <<"reset", r>>, <<"destroy", r>>)
             => Before(tasks', <<"reset", r>>, <<"destroy", r>>)
  BY <1>3, TaskNames, Requests
<1>6. TypeOK'
  BY <1>1, <1>3, <1>4 DEF InductiveInv, TypeOK, client, upstream
<1>7. NotStarted'
  BY <1>1, <1>5 DEF InductiveInv, NotStarted, client, upstream
<1>8. ASSUME ~replaced' PROVE ClientStays' /\ TasksOnce' /\ StoppedOnce' /\ ~dangling'
  <2>1. ClientStays'
    BY <1>1, <1>8 DEF InductiveInv, ClientStays, client, upstream
  <2>2. TasksOnce'
    BY <1>1, <1>5, <1>8 DEF InductiveInv, TasksOnce, client, upstream, Kind
  <2>3. StoppedOnce'
    BY <1>1, <1>5, <1>8 DEF InductiveInv, TypeOK, StoppedOnce, client, upstream, Kind
  <2> QED  BY <1>1, <1>8, <2>1, <2>2, <2>3 DEF InductiveInv
<1> QED  BY <1>6, <1>7, <1>8 DEF InductiveInv

\* ProxyHandler::operator(): nothing of the request was there before.
LEMMA ProxyInv ==
  ASSUME InductiveInv, NEW r \in Request, Proxy(r)
  PROVE  InductiveInv'
<1>1. /\ <<"start", r>> \in Task
      /\ tasks' = Append(tasks, <<"start", r>>) /\ left' = left
      /\ attempt[r] = "none"
  BY TaskNames DEF Proxy, Kind
<1>2. /\ tasks' \in Seq(Task) /\ left' \in 0..Len(tasks')
      /\ \A k : Has(tasks', k) <=> Has(tasks, k) \/ k = <<"start", r>>
      /\ \A k : Once(tasks, k) /\ (k = <<"start", r>> => ~Has(tasks, k)) => Once(tasks', k)
      /\ \A a, b : a # <<"start", r>> /\ Before(tasks, a, b) => Before(tasks', a, b)
  BY <1>1, Grows DEF InductiveInv, More
<1>3. TypeOK'
  BY <1>2, Requests DEF InductiveInv, TypeOK, Proxy, upstream
<1>4. NotStarted'
  <2>1. \A q \in Request : attempt'[q] = "none" => attempt[q] = "none" /\ q # r
    BY DEF InductiveInv, TypeOK, Proxy
  <2>2. \A q \in Request : attempt'[q] = "none" =>
          /\ ~live'[q] /\ cbs'[q] = "none" /\ up'[q] = "none" /\ userData' # q
    BY <2>1 DEF InductiveInv, TypeOK, NotStarted, Proxy, upstream
  <2>3. \A q \in Request : attempt'[q] = "none" =>
          \A kind \in Kind : ~Has(tasks', <<kind, q>>)
    BY <1>2, <2>1, TaskNames DEF InductiveInv, NotStarted
  <2>4. attempt'[1] # "none"
    BY Requests DEF InductiveInv, TypeOK, Proxy
  <2> QED  BY <2>2, <2>3, <2>4 DEF NotStarted
<1>5. ASSUME ~replaced' PROVE ClientStays' /\ TasksOnce' /\ StoppedOnce' /\ ~dangling'
  <2>1. r = 1 /\ ~replaced /\ \A q \in Request : q # r => attempt[q] = "none"
    BY <1>1, <1>5, Requests DEF InductiveInv, NotStarted, ClientStays, Proxy
  <2>2. \A q \in Request : q # r => ~live[q] /\ attempt'[q] = "none" /\ ~live'[q]
    BY <2>1 DEF InductiveInv, TypeOK, NotStarted, Proxy
  <2>3. ClientStays'
    BY <2>1, <2>2 DEF InductiveInv, TypeOK, ClientStays, Proxy
  <2>4. ASSUME NEW kind \in Kind PROVE ~Has(tasks, <<kind, r>>)
    BY <1>1 DEF InductiveInv, NotStarted
  <2>5. up' = up /\ up[r] = "none" /\ attempt'[r] = "starting"
    BY <1>1 DEF InductiveInv, TypeOK, NotStarted, Proxy, upstream
  <2>6. \A q \in Request : q # r => attempt'[q] = attempt[q]
    BY DEF InductiveInv, TypeOK, Proxy
  <2>7. TasksOnce'
    BY <1>2, <2>1, <2>4, <2>5, <2>6, TaskNames DEF InductiveInv, TasksOnce, Kind
  <2>8. StoppedOnce'
    <3>1. userData' = r
      BY DEF Proxy
    <3>2. ~Has(tasks', <<"stop", r>>)
      BY <1>2, <2>4, TaskNames DEF Kind
    <3>3. ASSUME NEW q \in Request
          PROVE  /\ attempt'[q] = "stopped" => ~Has(tasks', <<"stop", q>>)
                 /\ attempt'[q] # "ended" => Once(tasks', <<"stop", q>>)
      <4>1. attempt[q] = "none" /\ attempt'[q] # "stopped"
        BY <1>1, <2>1, <2>2, <2>5
      <4>2. <<"stop", q>> # <<"start", r>> /\ Once(tasks, <<"stop", q>>)
        BY <2>1, <4>1, TaskNames DEF InductiveInv, StoppedOnce
      <4> QED  BY <1>2, <4>1, <4>2
    <3> QED  BY <2>5, <3>1, <3>2, <3>3 DEF StoppedOnce
  <2> QED  BY <2>1, <2>3, <2>7, <2>8 DEF InductiveInv, Proxy
<1> QED  BY <1>3, <1>4, <1>5 DEF InductiveInv

\* ~TcpClient(): the client has lost its callbacks with the connection upstream.
LEMMA DestructInv ==
  ASSUME InductiveInv, NEW r \in Request, Destruct(r)
  PROVE  InductiveInv'
<1>1. /\ ~dangling /\ live[r] /\ cbs[r] # "self"
      /\ userData = r => cbs[r] # "ctx"
      /\ attempt[r] # "none"
  BY DEF Destruct, ClientHeld, ContextHeld, InductiveInv, NotStarted
<1>2. PICK t \in {<<"stop", r>>, <<"close", r>>} :
        tasks' = tasks \/ tasks' = Append(tasks, t)
  BY DEF Destruct
<1>3. t \in Task /\ left' = left
  BY TaskNames DEF Kind, Destruct
<1>4. /\ tasks' \in Seq(Task) /\ left' \in 0..Len(tasks')
      /\ \A k : Has(tasks', k) => Has(tasks, k) \/ k = t
      /\ \A k : Once(tasks, k) /\ k # t => Once(tasks', k)
      /\ \A a, b : a # t /\ Before(tasks, a, b) => Before(tasks', a, b)
  <2>1. CASE tasks' = tasks
    BY <1>3, <2>1 DEF InductiveInv, TypeOK
  <2>2. CASE tasks' = Append(tasks, t)
    BY <1>3, <2>2, Grows DEF InductiveInv, More
  <2> QED  BY <1>2, <2>1, <2>2
<1>5. TypeOK'
  <2>1. running' \in [Request -> BOOLEAN]
    BY DEF InductiveInv, TypeOK, Destruct
  <2>2. up' \in [Request -> {"none", "established", "disconnecting", "disconnected", "gone"}]
    BY DEF InductiveInv, TypeOK, Destruct
  <2> QED  BY <1>4, <2>1, <2>2 DEF InductiveInv, TypeOK, Destruct, server
<1>6. NotStarted'
  <2>1. \A q \in Request : attempt'[q] = "none" => attempt[q] = "none" /\ q # r
    BY <1>1 DEF Destruct
  <2>2. \A q \in Request : q # r => live'[q] = live[q] /\ cbs'[q] = cbs[q] /\ up'[q] = up[q]
    BY DEF Destruct, InductiveInv, TypeOK
  <2>3. \A q \in Request : q # r => \A kind \in Kind :
          Has(tasks', <<kind, q>>) => Has(tasks, <<kind, q>>)
    BY <1>4, TaskNames
  <2> QED  BY <2>1, <2>2, <2>3 DEF InductiveInv, NotStarted, Destruct, server
<1>7. ASSUME ~replaced' PROVE ClientStays' /\ TasksOnce' /\ StoppedOnce' /\ ~dangling'
  <2>1. ~replaced
    BY <1>7 DEF Destruct
  <2>2. up[r] = "gone" /\ attempt[r] = "ended"
    BY <1>1, <2>1 DEF InductiveInv, TypeOK, ClientStays, TasksOnce
  <2>3. up' = up /\ attempt' = attempt /\ userData' = userData /\ closeCb' = closeCb
    BY <2>2 DEF Destruct, server
  <2>4. ClientStays'
    BY <2>1, <2>2, <2>3 DEF InductiveInv, TypeOK, ClientStays, Destruct
  <2>5. \A kind \in Kind, q \in Request :
          kind \notin {"stop", "close"} \/ q # r => t # <<kind, q>>
    BY TaskNames
  <2>6. TasksOnce'
    BY <1>4, <2>1, <2>3, <2>5 DEF InductiveInv, TasksOnce, Kind
  <2>7. StoppedOnce'
    BY <1>4, <2>1, <2>2, <2>3, <2>5 DEF InductiveInv, TypeOK, StoppedOnce, Kind
  <2> QED  BY <1>1, <2>4, <2>6, <2>7 DEF Destruct
<1> QED  BY <1>5, <1>6, <1>7 DEF InductiveInv

\* The timers and what is left of those that expired are of requests or of others,
\* and the timerfd is armed only while there are some.
LEMMA TimerAdded ==
  ASSUME WaitsOK, NEW r \in Request \cup {0}, AddTimer(r)
  PROVE  /\ timers' \in Seq(Request \cup {0}) /\ timers' # <<>>
         /\ armed' \in BOOLEAN
<1>1. PICK i \in 1..(Len(timers) + 1) :
        timers' = InsertAt(timers, i, r) /\ armed' = (armed \/ i = 1)
  BY DEF AddTimer
<1> DEFINE S == Request \cup {0}
<1>2. timers \in Seq(S) /\ Len(timers) \in Nat /\ armed \in BOOLEAN
  BY LenProperties DEF WaitsOK
<1>3. SubSeq(timers, 1, i - 1) \in Seq(S) /\ SubSeq(timers, i, Len(timers)) \in Seq(S)
  BY <1>2
<1>4. <<r>> \in Seq(S) /\ Len(<<r>>) = 1
  OBVIOUS
<1> HIDE DEF S
<1>5. /\ timers' = (SubSeq(timers, 1, i - 1) \o <<r>>) \o SubSeq(timers, i, Len(timers))
  BY <1>1 DEF InsertAt
<1>6. /\ SubSeq(timers, 1, i - 1) \o <<r>> \in Seq(S)
      /\ Len(SubSeq(timers, 1, i - 1) \o <<r>>) = Len(SubSeq(timers, 1, i - 1)) + 1
  BY <1>3, <1>4, ConcatProperties
<1>7. /\ timers' \in Seq(S)
      /\ Len(timers') = Len(SubSeq(timers, 1, i - 1)) + 1 + Len(SubSeq(timers, i, Len(timers)))
  BY <1>3, <1>5, <1>6, ConcatProperties
<1>8. timers' # <<>>
  <2>1. \A m, n \in Nat : m + 1 + n # 0
    OBVIOUS
  <2>2. Len(timers') # 0
    <3>1. PICK m \in Nat : m = Len(SubSeq(timers, 1, i - 1))
      BY <1>3, LenProperties
    <3>2. PICK n \in Nat : n = Len(SubSeq(timers, i, Len(timers)))
      BY <1>3, LenProperties
    <3>3. Len(timers') = m + 1 + n
      BY <1>7, <3>1, <3>2
    <3> QED  BY <2>1, <3>3
  <2> QED  BY <2>2, EmptySeq
<1> QED  BY <1>1, <1>2, <1>7, <1>8 DEF S

LEMMA WaitsStep ==
  ASSUME WaitsOK, [Next]_vars
  PROVE  WaitsOK'
<1>0. stuck' \in BOOLEAN
  <2>1. CASE UNCHANGED loop
    BY <2>1 DEF WaitsOK, loop
  <2>2. CASE \/ StartBatch \/ EndBatch \/ EndRead \/ WriteReturns
             \/ \E r \in Request : Destruct(r) \/ Proxy(r) \/ WriteBlocks(r)
    BY <2>2 DEF WaitsOK, StartBatch, EndBatch, EndRead, WriteReturns, Destruct, Proxy,
       WriteBlocks
  <2>3. CASE \E source, more, others : Event(source, more, others)
    BY <2>3 DEF WaitsOK, Event
  <2>4. CASE \E task, more : Run(task, more)
    BY <2>4 DEF WaitsOK, Run
  <2>5. CASE \/ CloseDown \/ DestroyDown \/ DownEnds \/ TimersExpire
             \/ \E r \in Request : \/ Start(r) \/ ResetChannel(r) \/ StopTask(r)
                                  \/ CloseUp(r) \/ DestroyUp(r)
    BY <2>3, <2>4, <2>5 DEF CloseDown, DestroyDown, DownEnds, TimersExpire, Start,
       ResetChannel, StopTask, CloseUp, DestroyUp, CloseClient, ForceCloseDown
  <2>6. CASE \E r \in Request : Fail(r) \/ Succeed(r) \/ UpEnds(r)
    BY <2>3, <2>6 DEF Fail, Succeed, UpEnds
  <2>7. CASE \/ Erase \/ OtherRetries \/ OtherFails \/ UNCHANGED vars
             \/ \E r \in Request : Retry(r)
    BY <2>1, <2>7 DEF Erase, OtherRetries, OtherFails, Retry, vars
  <2> QED  BY <2>2, <2>5, <2>6, <2>7 DEF Next, LoopStep
<1>1. ASSUME UNCHANGED wheel
      PROVE  WaitsOK'
  BY <1>0, <1>1 DEF WaitsOK, wheel
<1>2. ASSUME NEW r \in Request \cup {0}, AddTimer(r) \/ UNCHANGED <<timers, armed>>,
             expired' = expired \/ (expired # <<>> /\ expired' = Tail(expired))
      PROVE  WaitsOK'
  <2>1. /\ timers' \in Seq(Request \cup {0}) /\ armed' \in BOOLEAN
        /\ armed' => timers' # <<>>
    BY <1>2, TimerAdded DEF WaitsOK
  <2>2. expired' \in Seq(Request \cup {0})
    BY <1>2 DEF WaitsOK
  <2> QED  BY <1>0, <2>1, <2>2 DEF WaitsOK
<1>3. ASSUME TimersExpire
      PROVE  WaitsOK'
  <2>1. PICK n \in 1..Len(timers) :
          /\ expired' = SubSeq(timers, 1, n)
          /\ timers' = SubSeq(timers, n + 1, Len(timers))
    BY <1>3 DEF TimersExpire
  <2>2. timers \in Seq(Request \cup {0}) /\ Len(timers) \in Nat
    BY LenProperties DEF WaitsOK
  <2>3. expired' \in Seq(Request \cup {0}) /\ timers' \in Seq(Request \cup {0})
    BY <2>1, <2>2
  <2> QED  BY <1>0, <1>3, <2>3 DEF TimersExpire, WaitsOK
<1>4. ASSUME OtherRetries \/ OtherFails \/ \E r \in Request : Start(r) \/ Retry(r) \/ Fail(r)
      PROVE  WaitsOK'
  <2>1. PICK r \in Request \cup {0} : AddTimer(r) \/ UNCHANGED <<timers, armed>>
    BY <1>4 DEF OtherRetries, OtherFails, Start, Retry, Fail, Connect, TryAgain, GiveUp
  <2>2. expired' = expired \/ (expired # <<>> /\ expired' = Tail(expired))
    BY <1>4 DEF OtherRetries, OtherFails, Start, Retry, Fail
  <2> QED  BY <1>2, <2>1, <2>2
<1>5. CASE UNCHANGED vars
  BY <1>1, <1>5 DEF vars
<1>6. CASE \/ StartBatch \/ EndBatch \/ EndRead \/ CloseDown \/ DestroyDown \/ DownEnds
           \/ Erase \/ WriteReturns
  BY <1>1, <1>6
  DEF WriteReturns, StartBatch, EndBatch, EndRead, CloseDown, DestroyDown, DownEnds, Erase
<1>7. ASSUME NEW r \in Request,
             \/ Destruct(r) \/ ResetChannel(r) \/ StopTask(r)
             \/ CloseUp(r) \/ DestroyUp(r) \/ Proxy(r) \/ Succeed(r) \/ UpEnds(r)
             \/ WriteBlocks(r)
      PROVE  WaitsOK'
  BY <1>1, <1>7
  DEF Destruct, ResetChannel, StopTask, CloseUp, DestroyUp, Proxy, Succeed, UpEnds,
      HandleCloseUp, WriteBlocks
<1> QED  BY <1>3, <1>4, <1>5, <1>6, <1>7 DEF Next, LoopStep

-----------------------------------------------------------------------------
(* Connector. *)

Moves == {"starting", "connecting", "retrying", "ended", "stopped"}
Upstream == {"none", "established", "disconnecting", "disconnected", "gone"}

\* What a step of the connector of a client that was not replaced does: it finds
\* both, an attempt that has ended stays so, and a connection comes with its end.
MovesOn(r, a, new) ==
  /\ ~dangling'
  /\ new = up[r] \/ (up[r] = "none" /\ new = "established" /\ a = "ended")
  /\ attempt[r] = "ended" => a = "ended"
  /\ Has(tasks', <<"start", r>>) => a = "starting"
  /\ Has(tasks', <<"reset", r>>) => new # "gone"
  /\ a = "stopped" /\ attempt[r] # "stopped" => ~closeCb /\ ~Has(tasks', <<"stop", r>>)
  /\ \A q \in Request : Before(tasks, <<"reset", q>>, <<"destroy", q>>)
                        => Before(tasks', <<"reset", q>>, <<"destroy", q>>)

LEMMA AttemptMoves ==
  ASSUME InductiveInv, NEW r \in Request, NEW a \in Moves, NEW new \in Upstream,
         attempt[r] # "none", attempt' = [attempt EXCEPT ![r] = a],
         up' = [up EXCEPT ![r] = new],
         connection' \in [Request -> BOOLEAN], upMsgCb' \in [Request -> BOOLEAN],
         dangling' \in BOOLEAN, UNCHANGED <<server, live, cbs, running, replaced>>,
         phase' \in {"poll", "read", "tasks"},
         tasks' \in Seq(Task), left' \in 0..Len(tasks'),
         \A k : Has(tasks', k) => Has(tasks, k) \/ k = <<"reset", r>>,
         \A k : Once(tasks, k) /\ k # <<"reset", r>> => Once(tasks', k),
         ~replaced => MovesOn(r, a, new)
  PROVE  InductiveInv'
<1>1. TypeOK'
  BY DEF InductiveInv, TypeOK, Moves, Upstream, server
<1>2. /\ attempt'[r] = a /\ up'[r] = new /\ a # "none"
      /\ \A q \in Request : q # r => attempt'[q] = attempt[q] /\ up'[q] = up[q]
  BY DEF InductiveInv, TypeOK, Moves
<1>3. \A kind \in Kind, q \in Request : q # r \/ kind # "reset" =>
        /\ Has(tasks', <<kind, q>>) => Has(tasks, <<kind, q>>)
        /\ Once(tasks, <<kind, q>>) => Once(tasks', <<kind, q>>)
  BY TaskNames
<1>4. NotStarted'
  BY <1>2, <1>3, Requests DEF InductiveInv, NotStarted, server
<1>5. ASSUME ~replaced' PROVE ClientStays' /\ TasksOnce' /\ StoppedOnce' /\ ~dangling'
  <2>1. MovesOn(r, a, new) /\ ClientStays /\ TasksOnce /\ StoppedOnce
    BY <1>5 DEF InductiveInv
  <2>2. ClientStays'
    BY <1>2, <2>1 DEF ClientStays, MovesOn, server
  <2>3. ASSUME NEW q \in Request
        PROVE  /\ up'[q] # "none" => attempt'[q] = "ended"
               /\ Has(tasks', <<"start", q>>) => attempt'[q] = "starting"
               /\ Once(tasks', <<"start", q>>)
               /\ Has(tasks', <<"destroy", q>>) => up'[q] = "disconnected"
               /\ Once(tasks', <<"destroy", q>>)
               /\ Before(tasks', <<"reset", q>>, <<"destroy", q>>)
               /\ up'[q] = "gone" => ~Has(tasks', <<"reset", q>>)
    <3>1. CASE q = r
      BY <1>2, <1>3, <2>1, <3>1 DEF TasksOnce, MovesOn, Kind
    <3>2. CASE q # r
      BY <1>2, <1>3, <2>1, <3>2 DEF TasksOnce, MovesOn, Kind
    <3> QED  BY <3>1, <3>2
  <2>4. TasksOnce'
    BY <2>3 DEF TasksOnce
  <2>5. StoppedOnce'
    <3>1. \A q \in Request : /\ Has(tasks', <<"stop", q>>) => Has(tasks, <<"stop", q>>)
                             /\ Once(tasks, <<"stop", q>>) => Once(tasks', <<"stop", q>>)
      BY <1>3 DEF Kind
    <3>2. closeCb => userData \in Request
      BY DEF InductiveInv, TypeOK
    <3> QED  BY <1>2, <2>1, <3>1, <3>2 DEF StoppedOnce, MovesOn, server
  <2> QED  BY <2>1, <2>2, <2>4, <2>5 DEF MovesOn
<1> QED  BY <1>1, <1>4, <1>5 DEF InductiveInv

\* The attempt is made, with the client there, and nothing else starts it.
LEMMA StartInv ==
  ASSUME InductiveInv, NEW r \in Request, Start(r)
  PROVE  InductiveInv'
<1>1. /\ tasks' \in Seq(Task) /\ left' \in 0..Len(tasks') /\ Fewer(tasks', tasks)
      /\ Has(tasks, <<"start", r>>)
      /\ Once(tasks, <<"start", r>>) => ~Has(tasks', <<"start", r>>)
  BY RunsTask DEF InductiveInv, Start
<1>2. PICK a \in {"connecting", "retrying", "ended"} : attempt' = [attempt EXCEPT ![r] = a]
  BY DEF Start, Connect, TryAgain, GiveUp
<1>3. attempt[r] # "none" /\ up[r] \in Upstream
  BY <1>1 DEF InductiveInv, TypeOK, NotStarted, Kind, Upstream
<1>4. ASSUME ~replaced PROVE MovesOn(r, a, up[r])
  <2>1. attempt[r] = "starting" /\ up[r] = "none"
    BY <1>1, <1>4 DEF InductiveInv, TypeOK, TasksOnce
  <2>2. live[r]
    BY <1>4, <2>1 DEF InductiveInv, ClientStays
  <2>3. ~dangling' /\ ~Has(tasks', <<"start", r>>)
    BY <1>1, <1>4, <2>2 DEF InductiveInv, TasksOnce, Start, ConnectorHeld
  <2> QED  BY <1>1, <2>1, <2>3 DEF MovesOn, Fewer
<1>5. /\ phase' = phase /\ dangling' \in BOOLEAN /\ up' = [up EXCEPT ![r] = up[r]]
      /\ UNCHANGED <<server, live, cbs, connection, running, upMsgCb, replaced>>
  BY DEF InductiveInv, TypeOK, Start, Run, upstream
<1>6. /\ connection' \in [Request -> BOOLEAN] /\ upMsgCb' \in [Request -> BOOLEAN]
      /\ phase' \in {"poll", "read", "tasks"} /\ a \in Moves
  BY <1>5 DEF InductiveInv, TypeOK, Moves
<1> QED  BY <1>1, <1>2, <1>3, <1>4, <1>5, <1>6, AttemptMoves DEF Fewer

\* The attempt is made again, or fails.
LEMMA RetryInv ==
  ASSUME InductiveInv, NEW r \in Request, Retry(r) \/ Fail(r)
  PROVE  InductiveInv'
<1>1. tasks' = tasks /\ left' = left /\ phase' = phase /\ ~dangling
  BY Happens DEF InductiveInv, Retry, Fail, Goes, loop
<1>2. PICK a \in {"connecting", "retrying", "ended"} : attempt' = [attempt EXCEPT ![r] = a]
  BY DEF Retry, Fail, Connect, TryAgain, GiveUp
<1>3. attempt[r] \in {"connecting", "retrying"} /\ up[r] \in Upstream
  BY DEF InductiveInv, TypeOK, Upstream, Retry, Fail
<1>4. /\ up' = [up EXCEPT ![r] = up[r]] /\ dangling' = dangling
      /\ UNCHANGED <<server, live, cbs, connection, running, upMsgCb, replaced>>
  BY DEF InductiveInv, TypeOK, Retry, Fail, upstream
<1>5. ASSUME ~replaced PROVE MovesOn(r, a, up[r])
  BY <1>1, <1>3, <1>4, <1>5 DEF InductiveInv, TasksOnce, MovesOn
<1>6. /\ connection' \in [Request -> BOOLEAN] /\ upMsgCb' \in [Request -> BOOLEAN]
      /\ phase' \in {"poll", "read", "tasks"} /\ a \in Moves /\ dangling' \in BOOLEAN
      /\ tasks' \in Seq(Task) /\ left' \in 0..Len(tasks')
  BY <1>1, <1>4 DEF InductiveInv, TypeOK, Moves
<1> QED  BY <1>1, <1>2, <1>3, <1>4, <1>5, <1>6, AttemptMoves

\* The attempt ends, and the client has its connection; its channel will be deleted.
LEMMA SucceedInv ==
  ASSUME InductiveInv, NEW r \in Request, Succeed(r)
  PROVE  InductiveInv'
<1>1. <<"reset", r>> \in Task
  BY TaskNames DEF Kind
<1>2. tasks' = Append(tasks, <<"reset", r>>) /\ left' = left /\ phase' = phase
  BY <1>1, Happens DEF InductiveInv, Succeed
<1>3. /\ tasks' \in Seq(Task) /\ left' \in 0..Len(tasks')
      /\ \A k : Has(tasks', k) <=> Has(tasks, k) \/ k = <<"reset", r>>
      /\ \A k : Once(tasks, k) /\ k # <<"reset", r>> => Once(tasks', k)
  BY <1>1, <1>2, Grows DEF InductiveInv, More
<1>4. attempt[r] = "connecting" /\ attempt' = [attempt EXCEPT ![r] = "ended"]
  BY DEF Succeed
<1>5. PICK new \in Upstream : /\ up' = [up EXCEPT ![r] = new]
                              /\ new = up[r] \/ new = "established"
  <2>1. CASE up' = [up EXCEPT ![r] = "established"]
    BY <2>1 DEF Upstream
  <2>2. CASE up' = up
    BY <2>2 DEF InductiveInv, TypeOK, Upstream
  <2> QED  BY <2>1, <2>2 DEF Succeed, upstream
<1>6. ASSUME ~replaced PROVE MovesOn(r, "ended", new)
  <2>1. up[r] = "none" /\ live[r]
    BY <1>4, <1>6 DEF InductiveInv, TypeOK, ClientStays, TasksOnce
  <2>2. ~dangling'
    BY <1>6, <2>1 DEF InductiveInv, Succeed
  <2>3. ~Has(tasks', <<"start", r>>) /\ ~Has(tasks, <<"destroy", r>>)
    BY <1>3, <1>4, <1>6, <2>1, TaskNames DEF InductiveInv, TasksOnce
  <2>4. ASSUME NEW q \in Request, Before(tasks, <<"reset", q>>, <<"destroy", q>>)
        PROVE  Before(tasks', <<"reset", q>>, <<"destroy", q>>)
    <3>1. CASE q = r
      <4>1. ~Has(tasks', <<"destroy", q>>)
        BY <1>3, <2>3, <3>1, TaskNames
      <4> QED  BY <4>1 DEF Before, Has
    <3>2. CASE q # r
      BY <1>1, <1>2, <2>4, <3>2, Grows, TaskNames DEF InductiveInv, More
    <3> QED  BY <3>1, <3>2
  <2> QED  BY <1>5, <2>1, <2>2, <2>3, <2>4 DEF MovesOn
<1>7. /\ connection' \in [Request -> BOOLEAN] /\ upMsgCb' \in [Request -> BOOLEAN]
      /\ phase' \in {"poll", "read", "tasks"} /\ dangling' \in BOOLEAN
      /\ UNCHANGED <<server, live, cbs, running, replaced>>
  BY <1>2 DEF InductiveInv, TypeOK, Succeed, upstream
<1> QED  BY <1>3, <1>4, <1>5, <1>6, <1>7, AttemptMoves DEF Moves

\* The channel is deleted, or the attempt stopped, with the connector there.
LEMMA ResetChannelInv ==
  ASSUME InductiveInv, NEW r \in Request, ResetChannel(r)
  PROVE  InductiveInv'
<1>1. /\ tasks' \in Seq(Task) /\ left' \in 0..Len(tasks') /\ Fewer(tasks', tasks)
      /\ Has(tasks, <<"reset", r>>)
  BY RunsTask DEF InductiveInv, ResetChannel
<1>2. attempt[r] # "none" /\ up[r] \in Upstream /\ attempt[r] \in Moves
  BY <1>1 DEF InductiveInv, TypeOK, NotStarted, Kind, Upstream, Moves
<1>3. ASSUME ~replaced PROVE MovesOn(r, attempt[r], up[r])
  <2>1. live[r]
    BY <1>1, <1>2, <1>3 DEF InductiveInv, ClientStays, TasksOnce
  <2> QED
    BY <1>1, <1>3, <2>1 DEF InductiveInv, TasksOnce, MovesOn, Fewer, ResetChannel,
       ConnectorHeld
<1>4. /\ phase' = phase /\ dangling' \in BOOLEAN /\ up' = [up EXCEPT ![r] = up[r]]
      /\ attempt' = [attempt EXCEPT ![r] = attempt[r]]
      /\ UNCHANGED <<server, live, cbs, connection, running, upMsgCb, replaced>>
  BY DEF InductiveInv, TypeOK, ResetChannel, Run, client, upstream
<1>5. /\ connection' \in [Request -> BOOLEAN] /\ upMsgCb' \in [Request -> BOOLEAN]
      /\ phase' \in {"poll", "read", "tasks"}
  BY <1>4 DEF InductiveInv, TypeOK
<1> QED  BY <1>1, <1>2, <1>3, <1>4, <1>5, AttemptMoves DEF Fewer

LEMMA StopTaskInv ==
  ASSUME InductiveInv, NEW r \in Request, StopTask(r)
  PROVE  InductiveInv'
<1>1. /\ tasks' \in Seq(Task) /\ left' \in 0..Len(tasks') /\ Fewer(tasks', tasks)
      /\ Has(tasks, <<"stop", r>>)
      /\ Once(tasks, <<"stop", r>>) => ~Has(tasks', <<"stop", r>>)
  BY RunsTask DEF InductiveInv, StopTask
<1>2. attempt[r] # "none" /\ up[r] \in Upstream /\ attempt[r] \in Moves
  BY <1>1 DEF InductiveInv, TypeOK, NotStarted, Kind, Upstream, Moves
<1>3. PICK a \in Moves : /\ attempt' = [attempt EXCEPT ![r] = a]
                         /\ a = IF attempt[r] = "connecting" THEN "stopped" ELSE attempt[r]
  BY <1>2 DEF InductiveInv, TypeOK, StopTask, Moves
<1>4. ASSUME ~replaced PROVE MovesOn(r, a, up[r])
  <2>1. attempt[r] # "stopped"
    BY <1>1, <1>4 DEF InductiveInv, StoppedOnce
  <2>2. ASSUME attempt[r] = "connecting" PROVE ~closeCb /\ ~Has(tasks', <<"stop", r>>)
    <3>1. closeCb => userData = r
      BY <1>4, <2>2, Requests DEF InductiveInv, TypeOK, NotStarted, ClientStays
    <3> QED  BY <1>1, <1>4, <2>2, <3>1 DEF InductiveInv, StoppedOnce
  <2>3. ~dangling' /\ (Has(tasks', <<"start", r>>) => a = "starting")
    BY <1>1, <1>3, <1>4, <2>1 DEF InductiveInv, TasksOnce, StopTask, Fewer
  <2>4. Has(tasks', <<"reset", r>>) => up[r] # "gone"
    BY <1>1, <1>4 DEF InductiveInv, TasksOnce, Fewer
  <2> QED  BY <1>1, <1>3, <2>1, <2>2, <2>3, <2>4 DEF MovesOn, Fewer
<1>5. /\ phase' = phase /\ dangling' \in BOOLEAN /\ up' = [up EXCEPT ![r] = up[r]]
      /\ UNCHANGED <<server, live, cbs, connection, running, upMsgCb, replaced>>
  BY DEF InductiveInv, TypeOK, StopTask, Run, upstream
<1>6. /\ connection' \in [Request -> BOOLEAN] /\ upMsgCb' \in [Request -> BOOLEAN]
      /\ phase' \in {"poll", "read", "tasks"}
  BY <1>5 DEF InductiveInv, TypeOK
<1> QED  BY <1>1, <1>2, <1>3, <1>4, <1>5, <1>6, AttemptMoves DEF Fewer

-----------------------------------------------------------------------------
(* The two connections. *)

\* The connection upstream closes, and the client is there to hear of it.
LEMMA HandleCloseUpInv ==
  ASSUME InductiveInv, NEW r \in Request, ~dangling, Open(up[r]), HandleCloseUp(r),
         phase' \in {"poll", "read", "tasks"},
         tasks' \in Seq(Task), left' \in 0..Len(tasks'),
         \A k : Has(tasks', k) => Has(tasks, k) \/ k = <<"destroy", r>>,
         \A k : Once(tasks, k) /\ (k = <<"destroy", r>> => ~Has(tasks, k)) => Once(tasks', k),
         \A a, b : a # <<"destroy", r>> /\ Before(tasks, a, b) => Before(tasks', a, b)
  PROVE  InductiveInv'
<1>1. TypeOK'
  BY DEF InductiveInv, TypeOK, HandleCloseUp, server
<1>2. attempt[r] # "none"
  BY DEF InductiveInv, NotStarted, Open
<1>3. \A kind \in Kind, q \in Request : q # r \/ kind # "destroy" =>
        /\ Has(tasks', <<kind, q>>) => Has(tasks, <<kind, q>>)
        /\ Once(tasks, <<kind, q>>) => Once(tasks', <<kind, q>>)
  BY TaskNames
<1>4. /\ up'[r] = "disconnected" /\ \A q \in Request : q # r => up'[q] = up[q]
      /\ UNCHANGED <<userData, closeCb, live, cbs, attempt, replaced>>
  BY DEF InductiveInv, TypeOK, HandleCloseUp, server
<1>5. NotStarted'
  BY <1>2, <1>3, <1>4 DEF InductiveInv, NotStarted
<1>6. ASSUME ~replaced' PROVE ClientStays' /\ TasksOnce' /\ StoppedOnce' /\ ~dangling'
  <2>1. ClientStays /\ TasksOnce /\ StoppedOnce
    BY <1>4, <1>6 DEF InductiveInv
  <2>2. live[r] /\ cbs[r] # "none" /\ userData = r
    BY <1>2, <2>1 DEF ClientStays, Open
  <2>3. ClientStays'
    BY <1>4, <2>1, <2>2 DEF ClientStays
  <2>4. ~Has(tasks, <<"destroy", r>>)
    BY <2>1 DEF TasksOnce, Open
  <2>5. ASSUME NEW q \in Request
        PROVE  /\ up'[q] # "none" => attempt'[q] = "ended"
               /\ Has(tasks', <<"start", q>>) => attempt'[q] = "starting"
               /\ Once(tasks', <<"start", q>>)
               /\ Has(tasks', <<"destroy", q>>) => up'[q] = "disconnected"
               /\ Once(tasks', <<"destroy", q>>)
               /\ Before(tasks', <<"reset", q>>, <<"destroy", q>>)
               /\ up'[q] = "gone" => ~Has(tasks', <<"reset", q>>)
    <3>1. <<"reset", q>> # <<"destroy", r>>
      BY TaskNames
    <3>2. Before(tasks', <<"reset", q>>, <<"destroy", q>>)
      BY <2>1, <3>1 DEF TasksOnce
    <3>3. CASE q = r
      BY <1>3, <1>4, <2>1, <2>4, <3>2, <3>3 DEF TasksOnce, Open, Kind
    <3>4. CASE q # r
      BY <1>3, <1>4, <2>1, <3>2, <3>4 DEF TasksOnce, Kind
    <3> QED  BY <3>3, <3>4
  <2>6. TasksOnce'
    BY <2>5 DEF TasksOnce
  <2>7. StoppedOnce'
    BY <1>3, <1>4, <2>1 DEF InductiveInv, TypeOK, StoppedOnce, Kind
  <2>8. ~dangling'
    <3>1. ClientHeld(r)'
      BY <1>4, <2>2 DEF InductiveInv, TypeOK, ClientHeld, ContextHeld
    <3> QED  BY <2>2, <3>1 DEF HandleCloseUp
  <2> QED  BY <2>3, <2>6, <2>7, <2>8
<1> QED  BY <1>1, <1>5, <1>6 DEF InductiveInv

LEMMA UpEndsInv ==
  ASSUME InductiveInv, NEW r \in Request, UpEnds(r)
  PROVE  InductiveInv'
<1>1. <<"destroy", r>> \in Task
  BY TaskNames DEF Kind
<1>2. ~dangling /\ tasks' = Append(tasks, <<"destroy", r>>) /\ left' = left /\ phase' = phase
  BY <1>1, Happens DEF InductiveInv, UpEnds
<1>3. phase' \in {"poll", "read", "tasks"} /\ Open(up[r]) /\ HandleCloseUp(r)
  BY <1>2 DEF InductiveInv, TypeOK, UpEnds
<1> QED  BY <1>1, <1>2, <1>3, Grows, HandleCloseUpInv DEF InductiveInv, More

\* The task of forceClose(); of a connection that has closed meanwhile, it does nothing.
LEMMA CloseUpInv ==
  ASSUME InductiveInv, NEW r \in Request, CloseUp(r)
  PROVE  InductiveInv'
<1>1. <<"destroy", r>> \in Task
  BY TaskNames DEF Kind
<1>2. phase' = phase
  BY DEF CloseUp, Run
<1>3. CASE Open(up[r]) /\ Run(<<"close", r>>, <<<<"destroy", r>>>>) /\ HandleCloseUp(r)
  <2>1. phase' \in {"poll", "read", "tasks"}
    BY <1>2 DEF InductiveInv, TypeOK
  <2> QED  BY <1>1, <1>3, <2>1, RunsTaskPushes, HandleCloseUpInv DEF InductiveInv
<1>4. CASE /\ Run(<<"close", r>>, <<>>)
           /\ UNCHANGED <<server, client, upstream, replaced, dangling>>
  <2>1. tasks' \in Seq(Task) /\ left' \in 0..Len(tasks') /\ Fewer(tasks', tasks)
    BY <1>4, RunsTask DEF InductiveInv
  <2> QED
    BY <1>2, <1>4, <2>1 DEF InductiveInv, TypeOK, NotStarted, ClientStays, TasksOnce,
       StoppedOnce, Fewer, server, client, upstream
<1> QED  BY <1>3, <1>4 DEF CloseUp

\* The task of the connection upstream finds the client; its channel is deleted, and
\* no other task destroys the connection.
LEMMA DestroyUpInv ==
  ASSUME InductiveInv, NEW r \in Request, DestroyUp(r)
  PROVE  InductiveInv'
<1>1. Head(tasks) = <<"destroy", r>> /\ <<"close", 0>> \in Task
  BY TaskNames DEF DestroyUp, Kind
<1>2. PICK more \in {<<>>, <<<<"close", 0>>>>} : Run(<<"destroy", r>>, more)
  BY <1>1 DEF DestroyUp, ForceCloseDown
<1>3. /\ ~dangling /\ Has(tasks, <<"destroy", r>>)
      /\ \A a : Before(tasks, a, <<"destroy", r>>) => ~Has(tasks, a)
      /\ Once(tasks, <<"destroy", r>>) => ~Has(Tail(tasks), <<"destroy", r>>)
      /\ tasks' = Tail(tasks) \o more /\ Fewer(Tail(tasks), tasks)
      /\ Tail(tasks) \in Seq(Task) /\ left' \in 0..Len(Tail(tasks))
  BY <1>2, TakesTask DEF InductiveInv
<1>4. PICK u \in Seq(Task) : u = Tail(tasks)
  BY <1>3
<1>5. /\ tasks' \in Seq(Task) /\ left' \in 0..Len(tasks')
      /\ \A k : Has(tasks', k) => Has(u, k) \/ k = <<"close", 0>>
      /\ \A k : Once(u, k) /\ k # <<"close", 0>> => Once(tasks', k)
      /\ \A a, b : a # <<"close", 0>> /\ Before(u, a, b) => Before(tasks', a, b)
  <2>1. CASE more = <<>>
    <3>1. tasks' = u
      BY <1>1, <1>3, <1>4, <2>1, Queued
    <3> QED  BY <1>3, <1>4, <3>1
  <2>2. CASE more = <<<<"close", 0>>>>
    <3>1. tasks' = Append(u, <<"close", 0>>)
      BY <1>1, <1>3, <1>4, <2>2, Queued
    <3>2. /\ tasks' \in Seq(Task) /\ Len(tasks') = Len(u) + 1
          /\ More(tasks', u, <<"close", 0>>)
      BY <1>1, <1>4, <3>1, Pushed
    <3>3. left' \in 0..Len(tasks')
      BY <1>3, <1>4, <3>2, LenProperties
    <3> QED  BY <3>2, <3>3 DEF More
  <2> QED  BY <1>2, <2>1, <2>2
<1>6. /\ \A kind \in Kind, q \in Request :
           /\ Has(tasks', <<kind, q>>) => Has(tasks, <<kind, q>>)
           /\ Once(tasks, <<kind, q>>) => Once(tasks', <<kind, q>>)
      /\ \A q \in Request :
           Before(tasks, <<"reset", q>>, <<"destroy", q>>)
             => Before(tasks', <<"reset", q>>, <<"destroy", q>>)
      /\ Once(tasks, <<"destroy", r>>) => ~Has(tasks', <<"destroy", r>>)
  BY <1>3, <1>4, <1>5, TaskNames, Requests DEF Fewer
<1>7. attempt[r] # "none"
  BY <1>3 DEF InductiveInv, NotStarted, Kind
<1>8. /\ up' = [up EXCEPT ![r] = "gone"]
      /\ cbs' = cbs \/ cbs' = [cbs EXCEPT ![r] = "none"]
      /\ UNCHANGED <<phase, inMap, hasContext, msgCb, closeCb, userData, live, connection,
                     running, attempt, upMsgCb, replaced>>
      /\ down' = down \/ down' = "disconnecting"
      /\ dangling' \in BOOLEAN
  BY <1>3 DEF InductiveInv, TypeOK, DestroyUp, ForceCloseDown, Run
<1>9. TypeOK'
  BY <1>5, <1>8 DEF InductiveInv, TypeOK
<1>10. /\ up'[r] = "gone"
       /\ \A q \in Request : q # r => up'[q] = up[q] /\ cbs'[q] = cbs[q]
  BY <1>8 DEF InductiveInv, TypeOK
<1>11. NotStarted'
  BY <1>6, <1>7, <1>8, <1>10 DEF InductiveInv, NotStarted
<1>12. ASSUME ~replaced' PROVE ClientStays' /\ TasksOnce' /\ StoppedOnce' /\ ~dangling'
  <2>1. ClientStays /\ TasksOnce /\ StoppedOnce
    BY <1>8, <1>12 DEF InductiveInv
  <2>2. live[r] /\ attempt[r] = "ended"
    BY <1>3, <1>7, <2>1 DEF ClientStays, TasksOnce
  <2>3. ClientStays'
    BY <1>8, <1>10, <2>1 DEF ClientStays
  <2>4. ~Has(tasks, <<"reset", r>>)
    BY <1>3, <2>1 DEF TasksOnce
  <2>5. TasksOnce'
    BY <1>6, <1>8, <1>10, <2>1, <2>2, <2>4 DEF TasksOnce, Kind
  <2>6. StoppedOnce'
    BY <1>6, <1>8, <2>1 DEF InductiveInv, TypeOK, StoppedOnce, Kind
  <2>7. ~dangling'
    BY <1>3, <2>2 DEF DestroyUp
  <2> QED  BY <2>3, <2>5, <2>6, <2>7
<1> QED  BY <1>9, <1>11, <1>12 DEF InductiveInv

\* HttpServer::deleteConnection(): the close callback stops the attempt, and has the
\* client hold itself.
LEMMA CloseClientInv ==
  ASSUME InductiveInv, closeCb, CloseClient(userData), DestroyDown
  PROVE  InductiveInv'
<1> DEFINE r == userData
<1>1. r \in Request /\ attempt[r] # "none"
  BY DEF InductiveInv, TypeOK, NotStarted
<1>2. /\ <<"stop", r>> \in Task /\ <<"close", r>> \in Task
      /\ \A kind \in Kind, q \in Request :
           kind \notin {"stop", "close"} \/ q # r =>
             <<kind, q>> # <<"stop", r>> /\ <<kind, q>> # <<"close", r>>
      /\ <<"stop", r>> # <<"close", r>>
  BY <1>1, TaskNames DEF Kind
<1>3. PICK more \in {<<<<"stop", r>>>>, <<<<"stop", r>>, <<"close", r>>>>} :
        Run(<<"destroy", 0>>, more)
  BY DEF CloseClient
<1>4. /\ ~dangling /\ tasks' = Tail(tasks) \o more /\ Fewer(Tail(tasks), tasks)
      /\ Tail(tasks) \in Seq(Task) /\ left' \in 0..Len(Tail(tasks))
  BY <1>3, TakesTask DEF InductiveInv
<1>5. PICK u \in Seq(Task) : u = Tail(tasks)
  BY <1>4
<1>6. PICK v \in Seq(Task) : v = Append(u, <<"stop", r>>)
  BY <1>2, AppendProperties
<1>7. Len(v) = Len(u) + 1 /\ Len(u) \in Nat /\ More(v, u, <<"stop", r>>)
  <2>1. v = Append(u, <<"stop", r>>) /\ <<"stop", r>> \in Task /\ Len(u) \in Nat
    BY <1>2, <1>5, <1>6, LenProperties
  <2> HIDE DEF r
  <2> QED  BY <1>5, <2>1, Pushed
<1>8. /\ tasks' \in Seq(Task) /\ left' \in 0..Len(tasks')
      /\ \A k : Has(tasks', k) => Has(v, k) \/ k = <<"close", r>>
      /\ \A k : Once(v, k) /\ k # <<"close", r>> => Once(tasks', k)
      /\ \A a, b : a # <<"close", r>> /\ Before(v, a, b) => Before(tasks', a, b)
  <2>1. CASE more = <<<<"stop", r>>>>
    <3>1. tasks' = v
      BY <1>2, <1>4, <1>5, <1>6, <2>1, Queued
    <3>2. left' \in 0..Len(v)
      BY <1>4, <1>5, <1>7
    <3> QED  BY <3>1, <3>2
  <2>2. CASE more = <<<<"stop", r>>, <<"close", r>>>>
    <3>1. tasks' = Append(v, <<"close", r>>)
      BY <1>2, <1>4, <1>5, <1>6, <2>2, Queued
    <3>2. /\ tasks' \in Seq(Task) /\ Len(tasks') = Len(v) + 1
          /\ More(tasks', v, <<"close", r>>)
      BY <1>2, <1>6, <3>1, Pushed
    <3>3. left' \in 0..Len(tasks')
      BY <1>4, <1>5, <1>7, <3>2
    <3> QED  BY <3>2, <3>3 DEF More
  <2> QED  BY <1>3, <2>1, <2>2
<1>9. /\ \A kind \in Kind, q \in Request : kind \notin {"stop", "close"} \/ q # r =>
           /\ Has(tasks', <<kind, q>>) => Has(tasks, <<kind, q>>)
           /\ Once(tasks, <<kind, q>>) => Once(tasks', <<kind, q>>)
      /\ \A q \in Request :
           Before(tasks, <<"reset", q>>, <<"destroy", q>>)
             => Before(tasks', <<"reset", q>>, <<"destroy", q>>)
      /\ ~Has(tasks, <<"stop", r>>) => Once(tasks', <<"stop", r>>)
  <2>1. \A k : Has(u, k) => Has(tasks, k)
    BY <1>4, <1>5 DEF Fewer
  <2>2. \A k : Once(tasks, k) => Once(u, k)
    BY <1>4, <1>5 DEF Fewer
  <2>3. \A a, b : Before(tasks, a, b) => Before(u, a, b)
    BY <1>4, <1>5 DEF Fewer
  <2>4. ~Has(tasks, <<"stop", r>>) => Once(u, <<"stop", r>>)
    BY <2>1 DEF Has, Once
  <2>5. \A q \in Request : <<"reset", q>> # <<"stop", r>> /\ <<"reset", q>> # <<"close", r>>
    BY <1>2 DEF Kind
  <2> QED  BY <1>2, <1>7, <1>8, <2>1, <2>2, <2>3, <2>4, <2>5 DEF More
<1> HIDE DEF r
<1>10. /\ cbs' = [cbs EXCEPT ![r] = "self"] /\ running' = [running EXCEPT ![r] = FALSE]
       /\ \/ up' = up
          \/ up[r] = "established" /\ up' = [up EXCEPT ![r] = "disconnecting"]
       /\ UNCHANGED <<phase, down, inMap, userData, live, connection, attempt, upMsgCb,
                      replaced, dangling>>
       /\ msgCb' = FALSE /\ closeCb' = FALSE /\ hasContext' = FALSE
  BY <1>3 DEF CloseClient, DestroyDown, HoldItself, Run, r
<1>11. TypeOK'
  BY <1>1, <1>8, <1>10 DEF InductiveInv, TypeOK
<1>12. /\ cbs'[r] = "self"
       /\ up'[r] = up[r] \/ (up[r] = "established" /\ up'[r] = "disconnecting")
       /\ \A q \in Request : q # r => up'[q] = up[q] /\ cbs'[q] = cbs[q]
  BY <1>1, <1>10 DEF InductiveInv, TypeOK
<1>13. NotStarted'
  <2>1. \A q \in Request : attempt'[q] = "none" => attempt[q] = "none" /\ q # r
    BY <1>1, <1>10
  <2> QED  BY <1>9, <1>10, <1>12, <2>1 DEF InductiveInv, NotStarted
<1>14. ASSUME ~replaced' PROVE ClientStays' /\ TasksOnce' /\ StoppedOnce' /\ ~dangling'
  <2>1. ClientStays /\ TasksOnce /\ StoppedOnce
    BY <1>10, <1>14 DEF InductiveInv
  <2>2. ClientStays'
    BY <1>10, <1>12, <2>1 DEF ClientStays
  <2>3. ASSUME NEW q \in Request
        PROVE  /\ up'[q] # "none" => attempt'[q] = "ended"
               /\ Has(tasks', <<"start", q>>) => attempt'[q] = "starting"
               /\ Once(tasks', <<"start", q>>)
               /\ Has(tasks', <<"destroy", q>>) => up'[q] = "disconnected"
               /\ Once(tasks', <<"destroy", q>>)
               /\ Before(tasks', <<"reset", q>>, <<"destroy", q>>)
               /\ up'[q] = "gone" => ~Has(tasks', <<"reset", q>>)
    BY <1>9, <1>10, <1>12, <2>1 DEF TasksOnce, Kind
  <2>4. TasksOnce'
    BY <2>3 DEF TasksOnce
  <2>5. ASSUME NEW q \in Request
        PROVE  /\ attempt'[q] = "stopped" => ~Has(tasks', <<"stop", q>>)
               /\ attempt'[q] # "ended" => Once(tasks', <<"stop", q>>)
    <3>1. CASE q = r
      BY <1>9, <1>10, <2>1, <3>1 DEF StoppedOnce, r
    <3>2. CASE q # r
      BY <1>9, <1>10, <2>1, <3>2 DEF StoppedOnce, Kind
    <3> QED  BY <3>1, <3>2
  <2>6. StoppedOnce'
    BY <1>10, <2>5 DEF StoppedOnce
  <2> QED  BY <1>4, <1>10, <2>2, <2>4, <2>6
<1> QED  BY <1>11, <1>13, <1>14 DEF InductiveInv

\* The task of TcpServer::handleClose().
LEMMA DestroyDownInv ==
  ASSUME InductiveInv, DestroyDown
  PROVE  InductiveInv'
<1>1. CASE closeCb /\ CloseClient(userData)
  BY <1>1, CloseClientInv
<1>2. CASE ~closeCb /\ Run(<<"destroy", 0>>, <<>>) /\ UNCHANGED <<running, cbs, up>>
  <2>1. tasks' \in Seq(Task) /\ left' \in 0..Len(tasks') /\ Fewer(tasks', tasks)
    BY <1>2, RunsTask DEF InductiveInv
  <2>2. /\ UNCHANGED <<phase, down, inMap, userData, live, connection, running, cbs, up,
                       attempt, upMsgCb, replaced, dangling>>
        /\ msgCb' = FALSE /\ closeCb' = FALSE /\ hasContext' = FALSE
    BY <1>2 DEF DestroyDown, Run
  <2> QED
    BY <2>1, <2>2 DEF InductiveInv, TypeOK, NotStarted, ClientStays, TasksOnce, StoppedOnce,
       Fewer
<1> QED  BY <1>1, <1>2 DEF DestroyDown

-----------------------------------------------------------------------------

LEMMA InitInv == Init => InductiveInv
<1> SUFFICES ASSUME Init PROVE InductiveInv
  OBVIOUS
<1>1. tasks \in Seq(Task) /\ \A k : ~Has(tasks, k)
  BY EmptySeq DEF Init, Has, Places
<1>2. \A k : Places(tasks, k) = {}
  BY <1>1 DEF Has
<1>3. TypeOK
  <2>1. left \in 0..Len(tasks)
    BY EmptySeq DEF Init
  <2> QED  BY <1>1, <2>1 DEF Init, TypeOK
<1>4. NotStarted /\ ClientStays
  BY <1>1, Requests DEF Init, NotStarted, ClientStays
<1>5. TasksOnce /\ StoppedOnce
  BY <1>1, <1>2 DEF Init, TasksOnce, StoppedOnce, Once, Before
<1> QED  BY <1>3, <1>4, <1>5 DEF Init, InductiveInv

LEMMA StepInv ==
  ASSUME InductiveInv, [Next]_vars
  PROVE  InductiveInv'
<1>1. CASE UNCHANGED vars
  BY <1>1 DEF vars, loop, server, client, upstream, InductiveInv, TypeOK, NotStarted,
     ClientStays, TasksOnce, StoppedOnce
<1>2. CASE LoopStep
  BY <1>2, LoopTurns, DownEndsInv, DestroyDownInv, DestructInv, StartInv, ResetChannelInv,
     StopTaskInv, CloseUpInv, DestroyUpInv, RetryInv DEF LoopStep
<1>3. CASE TimersExpire \/ OtherFails \/ DownEnds \/ Erase \/ WriteReturns
  BY <1>3, LoopTurns, DownEndsInv
<1>4. ASSUME NEW r \in Request, Proxy(r) \/ Fail(r) \/ Succeed(r) \/ UpEnds(r) \/ WriteBlocks(r)
      PROVE  InductiveInv'
  BY <1>4, LoopTurns, ProxyInv, RetryInv, SucceedInv, UpEndsInv
<1> QED  BY <1>1, <1>2, <1>3, <1>4 DEF Next

\* The timers are well formed, for any number of requests: the timerfd is armed only
\* while one waits.
THEOREM WaitsAreTyped == Spec => []WaitsOK
<1>1. ASSUME Init PROVE WaitsOK
  <2>1. timers = <<>> /\ expired = <<>> /\ armed = FALSE /\ stuck = FALSE
    BY <1>1 DEF Init
  <2>2. timers \in Seq(Request \cup {0}) /\ expired \in Seq(Request \cup {0})
    BY <2>1
  <2> QED  BY <2>1, <2>2 DEF WaitsOK
<1> QED  BY <1>1, WaitsStep, PTL DEF Spec

\* Until a second request takes the place of a client, every callback and task that
\* holds the client or its connector by its address finds it, and every stop task
\* finds the channel of the attempt.
THEOREM ClientIsFound == Spec => []NoDangling
<1>1. InductiveInv => NoDangling
  BY DEF InductiveInv, NoDangling, TypeOK
<1> QED  BY <1>1, InitInv, StepInv, PTL DEF Spec
=============================================================================
