-------------------------- MODULE Connector_proofs ---------------------------
(***************************************************************************)
(* Theorems about Connector, for any sockets and whether the client makes  *)
(* lost connections again or not, when start() and stop() are called once: *)
(* one attempt at a time, no socket forgotten, what holds only `this'      *)
(* finds the connector, and one that runs gets on.                         *)
(***************************************************************************)
EXTENDS Connector, SequenceTheorems, TLAPS

\* The program calls start() once, and stops or deletes the client once: a second
\* call of either breaks the properties.
CalledOnce == MaxStarts \in {0, 1} /\ MaxStops \in {0, 1}

-----------------------------------------------------------------------------
(* Queues of tasks: a task is pushed, and the first is taken. *)

Has(s, kind) == \E t \in ToSet(s) : t.kind = kind

LEMMA HasPlace ==
  ASSUME NEW s
  PROVE  \A kind : Has(s, kind) <=> Places(s, kind) # {}
BY DEF Has, Places, ToSet

LEMMA Pushed ==
  ASSUME NEW s \in Seq(TaskOf), NEW t \in TaskOf, NEW u, u = Append(s, t)
  PROVE  /\ u \in Seq(TaskOf)
         /\ ToSet(u) = ToSet(s) \cup {t}
         /\ \A k : Has(u, k) <=> Has(s, k) \/ k = t.kind
         /\ \A k : Once(s, k) /\ (k = t.kind => ~Has(s, k)) => Once(u, k)
         /\ \A a : a # t.kind => FollowedBy(u, a, t.kind)
         /\ \A a, b : a # t.kind /\ FollowedBy(s, a, b) => FollowedBy(u, a, b)
         /\ \A a, b : a # t.kind /\ Before(s, a, b) => Before(u, a, b)
         /\ \A c : ClosesLast(s, c) /\ t.kind # "reset" => ClosesLast(u, c)
<1>1. /\ u \in Seq(TaskOf) /\ Len(s) \in Nat
      /\ DOMAIN s = 1..Len(s) /\ DOMAIN u = 1..(Len(s) + 1)
      /\ \A i \in 1..Len(s) : u[i] = s[i]
      /\ u[Len(s) + 1] = t
  BY AppendProperties, LenProperties
<1>2. PICK n \in Nat : n = Len(s)
  BY <1>1
<1>3. /\ DOMAIN s = 1..n /\ DOMAIN u = 1..n \cup {n + 1}
      /\ \A i \in 1..n : u[i] = s[i]
      /\ u[n + 1] = t
  BY <1>1, <1>2
<1>4. \A i \in 1..n : i < n + 1 /\ ~(n + 1 < i) /\ i # n + 1
  OBVIOUS
<1>5. ToSet(u) = ToSet(s) \cup {t}
  BY <1>3, <1>4 DEF ToSet
<1>6. ASSUME NEW k
      PROVE  Places(u, k) = Places(s, k) \cup (IF k = t.kind THEN {n + 1} ELSE {})
  BY <1>3, <1>4 DEF Places
<1>7. \A k : Places(s, k) \subseteq 1..n
  BY <1>3 DEF Places
<1>8. \A k : Has(u, k) <=> Has(s, k) \/ k = t.kind
  BY <1>5 DEF Has
<1>9. ASSUME NEW k, Once(s, k), k = t.kind => ~Has(s, k) PROVE Once(u, k)
  BY <1>6, <1>9, HasPlace DEF Once
<1>10. \A a : a # t.kind => FollowedBy(u, a, t.kind)
  BY <1>4, <1>6, <1>7 DEF FollowedBy
<1>11. ASSUME NEW a, NEW b, a # t.kind, FollowedBy(s, a, b) PROVE FollowedBy(u, a, b)
  BY <1>6, <1>11 DEF FollowedBy
<1>12. ASSUME NEW a, NEW b, a # t.kind, Before(s, a, b) PROVE Before(u, a, b)
  BY <1>4, <1>6, <1>7, <1>12 DEF Before
<1>13. ASSUME NEW c, ClosesLast(s, c), t.kind # "reset" PROVE ClosesLast(u, c)
  <2> SUFFICES ASSUME NEW i \in Places(u, "close"), NEW j \in Places(u, "reset"),
                      u[i].sock = c
               PROVE  j < i
    BY DEF ClosesLast
  <2>1. j \in Places(s, "reset") /\ j \in 1..n
    BY <1>6, <1>7, <1>13
  <2>2. CASE i \in Places(s, "close")
    BY <1>3, <1>7, <1>13, <2>1, <2>2 DEF ClosesLast
  <2>3. CASE i = n + 1
    BY <1>4, <2>1, <2>3
  <2> QED  BY <1>6, <2>2, <2>3
<1> QED  BY <1>1, <1>5, <1>8, <1>9, <1>10, <1>11, <1>12, <1>13

LEMMA Taken ==
  ASSUME NEW s \in Seq(TaskOf), s # <<>>, NEW h, h = Head(s), NEW u, u = Tail(s)
  PROVE  /\ u \in Seq(TaskOf) /\ h \in TaskOf
         /\ h \in ToSet(s) /\ ToSet(u) \subseteq ToSet(s)
         /\ Has(s, h.kind)
         /\ \A k : Has(u, k) => Has(s, k)
         /\ \A k : k # h.kind /\ Has(s, k) => Has(u, k)
         /\ Once(s, h.kind) => ~Has(u, h.kind)
         /\ \A k : Once(s, k) => Once(u, k)
         /\ \A a, b : FollowedBy(s, a, b) => FollowedBy(u, a, b)
         /\ \A a, b : Before(s, a, b) => Before(u, a, b)
         /\ \A a : Before(s, a, h.kind) => ~Has(s, a)
         /\ \A a : FollowedBy(s, a, h.kind) /\ Once(s, h.kind) => ~Has(s, a)
         /\ \A b : FollowedBy(s, h.kind, b) => Has(u, b)
         /\ \A c : ClosesLast(s, c) => ClosesLast(u, c)
         /\ \A c : ClosesLast(s, c) /\ h.kind = "close" /\ h.sock = c => ~Has(s, "reset")
<1>1. /\ u \in Seq(TaskOf) /\ Len(s) \in Nat \ {0} /\ Len(u) = Len(s) - 1
      /\ DOMAIN s = 1..Len(s) /\ DOMAIN u = 1..(Len(s) - 1)
      /\ \A i \in 1..(Len(s) - 1) : u[i] = s[i + 1]
      /\ h = s[1]
  BY HeadTailProperties, LenProperties, EmptySeq
<1>2. PICK n \in Nat : n = Len(s) - 1 /\ n + 1 = Len(s)
  <2>1. Len(s) - 1 \in Nat /\ (Len(s) - 1) + 1 = Len(s)
    BY <1>1
  <2> QED  BY <2>1
<1>3. /\ DOMAIN s = 1..(n + 1) /\ DOMAIN u = 1..n
      /\ \A i \in 1..n : u[i] = s[i + 1]
      /\ h = s[1]
  BY <1>1, <1>2
<1>4. /\ 1 \in 1..(n + 1)
      /\ \A i \in 1..n : i + 1 \in 1..(n + 1) /\ i + 1 # 1
      /\ \A i \in 1..(n + 1) : i # 1 => \E j \in 1..n : i = j + 1
      /\ \A i, j \in 1..n : (i + 1 < j + 1 => i < j) /\ (i + 1 = j + 1 => i = j)
      /\ \A i \in 1..(n + 1) : ~(i < 1)
      /\ \A i \in 1..(n + 1) : i # 1 => 1 < i
  <2>1. \A i \in 1..(n + 1) : i # 1 => i - 1 \in 1..n /\ i = (i - 1) + 1
    OBVIOUS
  <2>2. \A i \in 1..(n + 1) : i # 1 => \E j \in 1..n : i = j + 1
    BY <2>1
  <2> QED  BY <2>2
<1>5. h \in TaskOf /\ h \in ToSet(s) /\ ToSet(u) \subseteq ToSet(s)
  <2>1. h \in TaskOf
    BY HeadTailProperties
  <2> QED  BY <1>3, <1>4, <2>1 DEF ToSet
<1>6. /\ 1 \in Places(s, h.kind)
      /\ \A k : /\ Places(s, k) \subseteq 1..(n + 1) /\ Places(u, k) \subseteq 1..n
                /\ \A i \in 1..n : i \in Places(u, k) <=> i + 1 \in Places(s, k)
                /\ 1 \in Places(s, k) <=> k = h.kind
  BY <1>3, <1>4 DEF Places
<1>7. Has(s, h.kind) /\ \A k : Has(u, k) => Has(s, k)
  BY <1>5 DEF Has
<1>8. ASSUME NEW k, Has(s, k), k # h.kind PROVE Has(u, k)
  <2>1. PICK i \in Places(s, k) : i # 1
    BY <1>6, <1>8, HasPlace
  <2>2. PICK j \in 1..n : i = j + 1
    BY <1>4, <1>6, <2>1
  <2>3. j \in Places(u, k)
    BY <1>6, <2>1, <2>2
  <2> QED  BY <2>3, HasPlace
<1>9. ASSUME Once(s, h.kind) PROVE ~Has(u, h.kind)
  <2> SUFFICES ASSUME NEW i \in Places(u, h.kind) PROVE FALSE
    BY HasPlace
  <2>1. i \in 1..n /\ i + 1 \in Places(s, h.kind)
    BY <1>6
  <2> QED  BY <1>4, <1>6, <1>9, <2>1 DEF Once
<1>10. ASSUME NEW k, Once(s, k) PROVE Once(u, k)
  BY <1>4, <1>6, <1>10 DEF Once
<1>11. ASSUME NEW a, NEW b, FollowedBy(s, a, b) PROVE FollowedBy(u, a, b)
  <2> SUFFICES ASSUME NEW i \in Places(u, a) PROVE \E j \in Places(u, b) : i < j
    BY DEF FollowedBy
  <2>1. i \in 1..n /\ i + 1 \in Places(s, a)
    BY <1>6
  <2>2. PICK j \in Places(s, b) : i + 1 < j
    BY <1>11, <2>1 DEF FollowedBy
  <2>3. j \in 1..(n + 1) /\ j # 1
    BY <1>4, <1>6, <2>1, <2>2
  <2>4. PICK m \in 1..n : j = m + 1
    BY <1>4, <2>3
  <2> QED  BY <1>4, <1>6, <2>1, <2>2, <2>4
<1>12. ASSUME NEW a, NEW b, Before(s, a, b) PROVE Before(u, a, b)
  <2> SUFFICES ASSUME NEW i \in Places(u, a), NEW j \in Places(u, b) PROVE i < j
    BY DEF Before
  <2>1. i \in 1..n /\ i + 1 \in Places(s, a) /\ j \in 1..n /\ j + 1 \in Places(s, b)
    BY <1>6
  <2>2. i + 1 < j + 1
    BY <1>12, <2>1 DEF Before
  <2> QED  BY <1>4, <2>1, <2>2
<1>13. ASSUME NEW a, Before(s, a, h.kind) PROVE ~Has(s, a)
  BY <1>4, <1>6, <1>13, HasPlace DEF Before
<1>14. ASSUME NEW a, FollowedBy(s, a, h.kind), Once(s, h.kind) PROVE ~Has(s, a)
  <2> SUFFICES ASSUME NEW i \in Places(s, a) PROVE FALSE
    BY HasPlace
  <2>1. PICK j \in Places(s, h.kind) : i < j
    BY <1>14 DEF FollowedBy
  <2>2. j = 1
    BY <1>6, <1>14 DEF Once
  <2> QED  BY <1>4, <1>6, <2>1, <2>2
<1>15. ASSUME NEW b, FollowedBy(s, h.kind, b) PROVE Has(u, b)
  <2>1. PICK j \in Places(s, b) : 1 < j
    BY <1>6, <1>15 DEF FollowedBy
  <2>2. j # 1 /\ j \in 1..(n + 1)
    BY <1>6, <2>1
  <2>3. PICK m \in 1..n : j = m + 1
    BY <1>4, <2>2
  <2>4. m \in Places(u, b)
    BY <1>6, <2>1, <2>3
  <2> QED  BY <2>4, HasPlace
<1>16. ASSUME NEW c, ClosesLast(s, c) PROVE ClosesLast(u, c)
  <2> SUFFICES ASSUME NEW i \in Places(u, "close"), NEW j \in Places(u, "reset"),
                      u[i].sock = c
               PROVE  j < i
    BY DEF ClosesLast
  <2>1. /\ i \in 1..n /\ i + 1 \in Places(s, "close") /\ s[i + 1].sock = c
        /\ j \in 1..n /\ j + 1 \in Places(s, "reset")
    BY <1>3, <1>6
  <2>2. j + 1 < i + 1
    BY <1>16, <2>1 DEF ClosesLast
  <2> QED  BY <1>4, <2>1, <2>2
<1>17. ASSUME NEW c, ClosesLast(s, c), h.kind = "close", h.sock = c
       PROVE  ~Has(s, "reset")
  <2> SUFFICES ASSUME NEW j \in Places(s, "reset") PROVE FALSE
    BY HasPlace
  <2>1. 1 \in Places(s, "close") /\ s[1].sock = c
    BY <1>3, <1>6, <1>17
  <2>2. j < 1
    BY <1>17, <2>1 DEF ClosesLast
  <2> QED  BY <1>4, <1>6, <2>2
<1> QED  BY <1>1, <1>5, <1>7, <1>8, <1>9, <1>10, <1>11, <1>12, <1>13, <1>14, <1>15,
            <1>16, <1>17

\* Without a task to close a socket, nothing closes it too early.
LEMMA NoneCloses ==
  ASSUME NEW s, NEW c, \A t \in ToSet(s) : t.kind = "close" => t.sock # c
  PROVE  ClosesLast(s, c)
BY DEF ClosesLast, Places, ToSet

-----------------------------------------------------------------------------
(* The tasks to do. *)

LEMMA PendingIsHas == \A k : (Pending(k) <=> Has(ToDo, k)) /\ (Pending(k)' <=> Has(ToDo', k))
BY DEF Pending, Has

LEMMA PutInFront ==
  ASSUME NEW h \in Seq(TaskOf), Len(h) = 1, NEW r \in Seq(TaskOf)
  PROVE  h \o r # <<>> /\ Head(h \o r) = h[1] /\ Tail(h \o r) = r
<1>1. PICK z \in Seq(TaskOf) : z = h \o r
  BY ConcatProperties
<1>2. /\ Len(r) \in Nat /\ Len(z) = 1 + Len(r)
      /\ \A i \in 1..(1 + Len(r)) : z[i] = IF i <= 1 THEN h[i] ELSE r[i - 1]
  BY <1>1, ConcatProperties, LenProperties
<1>3. z # <<>>
  BY <1>2, EmptySeq
<1>4. /\ Tail(z) \in Seq(TaskOf) /\ Len(Tail(z)) = Len(r)
      /\ \A i \in 1..Len(r) : Tail(z)[i] = z[i + 1]
  BY <1>2, <1>3, HeadTailProperties
<1>5. \A i \in 1..Len(r) : z[i + 1] = r[i]
  <2> SUFFICES ASSUME NEW i \in 1..Len(r) PROVE z[i + 1] = r[i]
    OBVIOUS
  <2>1. i + 1 \in 1..(1 + Len(r)) /\ ~(i + 1 <= 1) /\ i + 1 - 1 = i
    BY <1>2
  <2> QED  BY <1>2, <2>1
<1>6. Tail(z) = r
  BY <1>4, <1>5, SeqEqual
<1>7. Head(z) = h[1]
  BY <1>2, <1>3
<1> QED  BY <1>1, <1>3, <1>6, <1>7

LEMMA ToDoIsQueue ==
  ASSUME TypeOK
  PROVE  /\ SubSeq(batch, pos, Len(batch)) \in Seq(TaskOf)
         /\ ToDo \in Seq(TaskOf)
         /\ ToSet(ToDo) \subseteq Closures
<1>1. /\ batch \in Seq(TaskOf) /\ queue \in Seq(TaskOf) /\ pos \in 1..(Len(batch) + 1)
      /\ Len(batch) \in Nat /\ Len(queue) \in Nat
      /\ DOMAIN batch = 1..Len(batch) /\ DOMAIN queue = 1..Len(queue)
  BY LenProperties DEF TypeOK
<1>2. \A i \in pos..Len(batch) : batch[i] \in TaskOf
  BY <1>1
<1> DEFINE rest == SubSeq(batch, pos, Len(batch))
           left == Len(batch) - pos + 1
<1>3. left \in Nat
  BY <1>1
<1>4. /\ rest \in Seq(TaskOf) /\ Len(rest) = left
      /\ \A i \in 1..left : rest[i] = batch[pos + i - 1]
  BY <1>1, <1>2, SubSeqProperties
<1>5. \A i \in 1..left : pos + i - 1 \in 1..Len(batch)
  BY <1>1
<1> HIDE DEF rest, left
<1>6. /\ rest \o queue \in Seq(TaskOf) /\ Len(rest \o queue) = left + Len(queue)
      /\ \A i \in 1..(left + Len(queue)) :
           (rest \o queue)[i] = IF i <= left THEN rest[i] ELSE queue[i - left]
  BY <1>1, <1>4, ConcatProperties
<1>7. ASSUME NEW t \in ToSet(rest \o queue) PROVE t \in Closures
  <2>1. PICK i \in 1..(left + Len(queue)) : t = (rest \o queue)[i]
    BY <1>6, LenProperties DEF ToSet
  <2>2. i \in 1..left \/ (~(i <= left) /\ i - left \in 1..Len(queue))
    BY <1>1, <1>3, <2>1
  <2>3. CASE i \in 1..left
    <3>1. i <= left
      BY <1>3, <2>3
    <3>2. t = batch[pos + i - 1] /\ pos + i - 1 \in DOMAIN batch
      BY <1>1, <1>4, <1>5, <1>6, <2>1, <2>3, <3>1
    <3> QED  BY <3>2 DEF Closures, ToSet
  <2>4. CASE ~(i <= left) /\ i - left \in 1..Len(queue)
    <3>1. t = queue[i - left] /\ i - left \in DOMAIN queue
      BY <1>1, <1>3, <1>6, <2>1, <2>4
    <3> QED  BY <3>1 DEF Closures, ToSet
  <2> QED  BY <2>2, <2>3, <2>4
<1> QED  BY <1>4, <1>6, <1>7 DEF ToDo, rest

\* A task is pushed.
LEMMA PushesToDo ==
  ASSUME TypeOK, NEW t \in TaskOf, queue' = Append(queue, t), UNCHANGED <<batch, pos>>
  PROVE  /\ queue' \in Seq(TaskOf) /\ ToSet(queue') = ToSet(queue) \cup {t}
         /\ ToDo' = Append(ToDo, t)
<1> DEFINE rest == SubSeq(batch, pos, Len(batch))
<1>1. /\ rest \in Seq(TaskOf) /\ queue \in Seq(TaskOf) /\ <<t>> \in Seq(TaskOf)
      /\ rest \o queue \in Seq(TaskOf)
  BY ToDoIsQueue DEF TypeOK, ToDo
<1>2. ToDo' = rest \o Append(queue, t) /\ ToDo = rest \o queue
  BY DEF ToDo
<1> HIDE DEF rest
<1>3. rest \o Append(queue, t) = Append(rest \o queue, t)
  BY <1>1, AppendIsConcat, ConcatAssociative
<1> QED  BY <1>1, <1>2, <1>3, Pushed

\* The next task is taken, and one may be pushed.
LEMMA FirstToDo ==
  ASSUME TypeOK, pos \in DOMAIN batch
  PROVE  /\ ToDo # <<>> /\ Head(ToDo) = batch[pos]
         /\ SubSeq(batch, pos + 1, Len(batch)) \in Seq(TaskOf)
         /\ Tail(ToDo) = SubSeq(batch, pos + 1, Len(batch)) \o queue
<1>1. /\ batch \in Seq(TaskOf) /\ queue \in Seq(TaskOf) /\ Len(batch) \in Nat
      /\ pos \in 1..Len(batch)
      /\ Len(batch) \in pos..Len(batch) /\ batch[pos] \in TaskOf
  BY LenProperties DEF TypeOK
<1> DEFINE head == <<batch[pos]>>
           rest == SubSeq(batch, pos + 1, Len(batch))
<1>2. /\ head \in Seq(TaskOf) /\ Len(head) = 1 /\ head[1] = batch[pos]
  BY <1>1
<1>3. rest \in Seq(TaskOf)
  <2>1. \A i \in (pos + 1)..Len(batch) : batch[i] \in TaskOf
    BY <1>1
  <2> QED  BY <1>1, <2>1, SubSeqProperties
<1>4. SubSeq(batch, pos, Len(batch)) = head \o rest
  BY <1>1, SubSeqRecursiveFirst
<1>5. ToDo = (head \o rest) \o queue
  BY <1>4 DEF ToDo
<1> HIDE DEF head, rest
<1>6. rest \o queue \in Seq(TaskOf)
  BY <1>1, <1>3, ConcatProperties
<1>7. ToDo = head \o (rest \o queue)
  <2>1. head \in Seq(TaskOf) /\ rest \in Seq(TaskOf) /\ queue \in Seq(TaskOf)
    BY <1>1, <1>2, <1>3
  <2>2. (head \o rest) \o queue = head \o (rest \o queue)
    BY <2>1, ConcatAssociative
  <2> QED  BY <1>5, <2>2
<1>8. ToDo # <<>> /\ Head(ToDo) = batch[pos] /\ Tail(ToDo) = rest \o queue
  BY <1>2, <1>6, <1>7, PutInFront
<1> QED  BY <1>3, <1>8 DEF rest

LEMMA TakesToDo ==
  ASSUME TypeOK, pos \in DOMAIN batch, pos' = pos + 1, batch' = batch
  PROVE  /\ pos' \in 1..(Len(batch') + 1)
         /\ ToDo # <<>> /\ Head(ToDo) = batch[pos]
         /\ queue' = queue => ToDo' = Tail(ToDo)
         /\ \A t \in TaskOf : queue' = Append(queue, t) => ToDo' = Append(Tail(ToDo), t)
<1> DEFINE rest == SubSeq(batch, pos + 1, Len(batch))
<1>1. ToDo # <<>> /\ Head(ToDo) = batch[pos] /\ Tail(ToDo) = rest \o queue
  BY FirstToDo
<1>2. rest \in Seq(TaskOf) /\ queue \in Seq(TaskOf)
  BY FirstToDo DEF TypeOK
<1>3. pos + 1 \in 1..(Len(batch) + 1)
  BY LenProperties DEF TypeOK
<1>4. ToDo' = rest \o queue'
  BY DEF ToDo
<1> HIDE DEF rest
<1>5. ASSUME NEW t \in TaskOf, queue' = Append(queue, t)
      PROVE  ToDo' = Append(Tail(ToDo), t)
  <2>1. <<t>> \in Seq(TaskOf) /\ rest \o queue \in Seq(TaskOf)
    BY <1>2, ConcatProperties
  <2>2. rest \o Append(queue, t) = Append(rest \o queue, t)
    BY <1>2, <2>1, AppendIsConcat, ConcatAssociative
  <2> QED  BY <1>1, <1>4, <1>5, <2>2
<1> QED  BY <1>1, <1>3, <1>4, <1>5

\* The vectors are swapped, and a vector that was executed is dropped.
LEMMA SwapsToDo ==
  ASSUME TypeOK,
         \/ /\ batch = <<>> /\ pos = 1
            /\ batch' = queue /\ queue' = <<>> /\ pos' = 1
         \/ /\ pos = Len(batch) + 1
            /\ batch' = <<>> /\ pos' = 1 /\ queue' = queue
  PROVE  /\ batch' \in Seq(TaskOf) /\ queue' \in Seq(TaskOf)
         /\ pos' \in 1..(Len(batch') + 1)
         /\ ToDo' = ToDo /\ ToDo = queue
<1>1. /\ batch \in Seq(TaskOf) /\ queue \in Seq(TaskOf)
      /\ Len(batch) \in Nat /\ Len(queue) \in Nat /\ pos \in Int
      /\ <<>> \in Seq(TaskOf) /\ Len(<<>>) = 0
      /\ 1 \in 1..(Len(queue) + 1) /\ 1 \in 1..(Len(<<>>) + 1)
  BY LenProperties, EmptySeq DEF TypeOK
<1>2. pos > Len(batch)
  BY <1>1
<1>3. ToDo = queue
  BY <1>1, <1>2, SubSeqEmpty, ConcatEmptySeq DEF ToDo
<1>4. CASE batch' = queue /\ queue' = <<>> /\ pos' = 1
  BY <1>1, <1>3, <1>4, SubSeqFull, ConcatEmptySeq DEF ToDo
<1>5. CASE batch' = <<>> /\ pos' = 1 /\ queue' = queue
  <2>1. SubSeq(<<>>, 1, 0) = <<>>
    BY SubSeqEmpty
  <2> QED  BY <1>1, <1>3, <1>5, <2>1, ConcatEmptySeq DEF ToDo
<1> QED  BY <1>4, <1>5

\* What is pending, and in which order, once a task was pushed or taken.
Pushes(kind, s) ==
  /\ queue' \in Seq(TaskOf)
  /\ \A t \in ToSet(queue') : t \in ToSet(queue) \/ t.kind = kind
  /\ \A t \in ToSet(ToDo') : t \in ToSet(ToDo) \/ (t.kind = kind /\ t.sock = s)
  /\ \A k : Pending(k)' <=> Pending(k) \/ k = kind
  /\ \A k : Once(ToDo, k) /\ (k = kind => ~Pending(k)) => Once(ToDo', k)
  /\ \A a : a # kind => FollowedBy(ToDo', a, kind)
  /\ \A a, b : a # kind /\ FollowedBy(ToDo, a, b) => FollowedBy(ToDo', a, b)
  /\ \A a, b : a # kind /\ Before(ToDo, a, b) => Before(ToDo', a, b)
  /\ \A c : ClosesLast(ToDo, c) /\ kind # "reset" => ClosesLast(ToDo', c)

Takes(kind) ==
  /\ pos' \in 1..(Len(batch') + 1)
  /\ batch[pos] \in ToSet(batch) /\ ToSet(ToDo') \subseteq ToSet(ToDo)
  /\ Pending(kind) /\ \A k : Pending(k)' => Pending(k)
  /\ \A k : k # kind /\ Pending(k) => Pending(k)'
  /\ Once(ToDo, kind) => ~Pending(kind)'
  /\ \A k : Once(ToDo, k) => Once(ToDo', k)
  /\ \A a, b : FollowedBy(ToDo, a, b) => FollowedBy(ToDo', a, b)
  /\ \A a : FollowedBy(ToDo, a, kind) /\ Once(ToDo, kind) => ~Pending(a)
  /\ \A a : FollowedBy(ToDo, kind, a) => Pending(a)'
  /\ \A a, b : Before(ToDo, a, b) => Before(ToDo', a, b)
  /\ \A a : Before(ToDo, a, kind) => ~Pending(a)
  /\ \A c : ClosesLast(ToDo, c) => ClosesLast(ToDo', c)

LEMMA PushesTask ==
  ASSUME TypeOK, NEW kind \in {"start", "stop", "reset", "close", "destroy"},
         NEW s \in Sock \cup {NoSock}, Push(kind, s), UNCHANGED <<batch, pos>>
  PROVE  Pushes(kind, s)
<1>1. Task(kind, s) \in TaskOf /\ Task(kind, s).kind = kind /\ Task(kind, s).sock = s
  BY DEF Task, TaskOf
<1>2. queue' = Append(queue, Task(kind, s))
  BY DEF Push
<1>3. PICK t \in TaskOf : t = Task(kind, s) /\ t.kind = kind
  BY <1>1
<1>4. /\ ToDo \in Seq(TaskOf) /\ ToDo' = Append(ToDo, t)
      /\ queue' \in Seq(TaskOf) /\ ToSet(queue') = ToSet(queue) \cup {t}
  BY <1>2, <1>3, ToDoIsQueue, PushesToDo
<1>5. /\ ToSet(ToDo') = ToSet(ToDo) \cup {t}
      /\ \A k : Has(ToDo', k) <=> Has(ToDo, k) \/ k = kind
      /\ \A k : Once(ToDo, k) /\ (k = kind => ~Has(ToDo, k)) => Once(ToDo', k)
  BY <1>3, <1>4, Pushed
<1>6. /\ \A a : a # kind => FollowedBy(ToDo', a, kind)
      /\ \A a, b : a # kind /\ FollowedBy(ToDo, a, b) => FollowedBy(ToDo', a, b)
      /\ \A a, b : a # kind /\ Before(ToDo, a, b) => Before(ToDo', a, b)
      /\ \A c : ClosesLast(ToDo, c) /\ kind # "reset" => ClosesLast(ToDo', c)
  <2>1. /\ \A a : a # t.kind => FollowedBy(ToDo', a, t.kind)
        /\ \A a, b : a # t.kind /\ FollowedBy(ToDo, a, b) => FollowedBy(ToDo', a, b)
    BY <1>4, Pushed
  <2>2. \A a, b : a # t.kind /\ Before(ToDo, a, b) => Before(ToDo', a, b)
    BY <1>4, Pushed
  <2>3. \A c : ClosesLast(ToDo, c) /\ t.kind # "reset" => ClosesLast(ToDo', c)
    BY <1>4, Pushed
  <2> QED  BY <1>3, <2>1, <2>2, <2>3
<1>7. /\ \A k : Pending(k)' <=> Pending(k) \/ k = kind
      /\ \A k : Once(ToDo, k) /\ (k = kind => ~Pending(k)) => Once(ToDo', k)
  BY <1>5, PendingIsHas
<1> QED  BY <1>1, <1>3, <1>4, <1>5, <1>6, <1>7 DEF Pushes

LEMMA TakesTask ==
  ASSUME TypeOK, NEW kind, AtTask(kind), pos' = pos + 1, UNCHANGED <<batch, queue>>
  PROVE  Takes(kind)
<1>1. pos \in DOMAIN batch /\ batch[pos].kind = kind
  BY DEF AtTask
<1>2. batch[pos] \in ToSet(batch)
  BY <1>1 DEF ToSet
<1>3. PICK h : h = batch[pos]
  OBVIOUS
<1>4. /\ ToDo \in Seq(TaskOf) /\ ToDo # <<>> /\ Head(ToDo) = h /\ ToDo' = Tail(ToDo)
      /\ pos' \in 1..(Len(batch') + 1)
  BY <1>1, <1>3, ToDoIsQueue, TakesToDo
<1>5. h.kind = kind
  BY <1>1, <1>3
<1>6. /\ ToSet(ToDo') \subseteq ToSet(ToDo)
      /\ Pending(kind) /\ \A k : Pending(k)' => Pending(k)
      /\ \A k : k # kind /\ Pending(k) => Pending(k)'
      /\ Once(ToDo, kind) => ~Pending(kind)'
      /\ \A k : Once(ToDo, k) => Once(ToDo', k)
  BY <1>4, <1>5, Taken, PendingIsHas
<1>7. /\ \A a, b : FollowedBy(ToDo, a, b) => FollowedBy(ToDo', a, b)
      /\ \A a : FollowedBy(ToDo, a, kind) /\ Once(ToDo, kind) => ~Pending(a)
      /\ \A a : FollowedBy(ToDo, kind, a) => Pending(a)'
  BY <1>4, <1>5, Taken, PendingIsHas
<1>8. /\ \A a, b : Before(ToDo, a, b) => Before(ToDo', a, b)
      /\ \A a : Before(ToDo, a, kind) => ~Pending(a)
      /\ \A c : ClosesLast(ToDo, c) => ClosesLast(ToDo', c)
  BY <1>4, <1>5, Taken, PendingIsHas
<1> QED  BY <1>2, <1>4, <1>6, <1>7, <1>8 DEF Takes

LEMMA SameTasks ==
  ASSUME ToDo' = ToDo
  PROVE  \A k : Pending(k)' <=> Pending(k)
BY PendingIsHas

LEMMA NothingMoves ==
  ASSUME UNCHANGED <<batch, pos, queue>>
  PROVE  ToDo' = ToDo /\ \A k : Pending(k)' <=> Pending(k)
<1>1. ToDo' = ToDo
  BY DEF ToDo
<1> QED  BY <1>1, SameTasks

-----------------------------------------------------------------------------
(* What an attempt and a connection exclude. *)

LEMMA Trying ==
  ASSUME InductiveInv, inLoop
  PROVE  /\ channel \in Sock /\ sock[channel] = "connecting" /\ connState[channel] = "none"
         /\ channel \notin active /\ state = "CONNECTING"
         /\ \A t \in ToSet(ToDo) : t.kind \in {"close", "destroy"} => t.sock # channel
         /\ timers = 0 /\ connection = NoSock /\ starts # 0 /\ ~restarting
         /\ ~Pending("start") /\ ~Pending("reset")
<1> USE DEF InductiveInv
<1>1. /\ channel \in Sock /\ sock[channel] = "connecting" /\ state = "CONNECTING"
      /\ timers = 0 /\ connection = NoSock
  BY DEF TypeOK, Attempts
<1>2. starts # 0 /\ ~restarting /\ ~Pending("start") /\ ~Pending("reset")
  BY DEF NotStarted, Held
<1>3. connState[channel] = "none"
  BY <1>1 DEF TypeOK
<1>4. channel \notin active
  BY <1>1 DEF LoopExact
<1>5. \A t \in ToSet(ToDo) : t.kind \in {"close", "destroy"} => t.sock # channel
  BY <1>1 DEF Connected
<1> QED  BY <1>1, <1>2, <1>3, <1>4, <1>5

LEMMA Connecting ==
  ASSUME InductiveInv, connection # NoSock
  PROVE  /\ connection \in Sock /\ sock[connection] = "handed"
         /\ connState[connection] \in OpenState
         /\ ~inLoop /\ timers = 0 /\ ~Pending("start") /\ starts # 0 /\ ~restarting
<1> USE DEF InductiveInv
<1>1. connection \in Sock /\ connState[connection] \in OpenState
  BY DEF TypeOK, Connected
<1>2. sock[connection] = "handed"
  BY <1>1 DEF TypeOK, OpenState
<1> QED  BY <1>1, <1>2 DEF Attempts, NotStarted, Held

\* connect(), without an attempt under way.
TriesOnce ==
  /\ sock' \in [Sock -> {"closed", "connecting", "handed"}]
  /\ state' \in {"DISCONNECTED", "CONNECTING", "RETRYING", "CONNECTED"}
  /\ channel' \in Sock \cup {NoSock} /\ inLoop' \in BOOLEAN
  /\ timers' \in {0, 1} /\ gaveUp' \in BOOLEAN
  /\ gaveUp' \/ timers' = 1 \/ inLoop'
  /\ timers' = 1 => ~inLoop'
  /\ inLoop' => channel' # NoSock /\ state' = "CONNECTING"
  /\ ~inLoop' => channel' = channel /\ state' = state
  /\ \A s \in Sock : /\ sock'[s] = "connecting" <=> inLoop' /\ channel' = s
                     /\ sock'[s] = "handed" <=> sock[s] = "handed"

LEMMA ConnectTries ==
  ASSUME TypeOK, Attempts, ~inLoop, running' = TRUE, Connect(0)
  PROVE  TriesOnce
<1> USE DEF TriesOnce
<1>1. \A s \in Sock : sock[s] # "connecting"
  BY DEF Attempts
<1>2. ASSUME NEW s \in Sock, sock[s] = "closed",
             sock' = [sock EXCEPT ![s] = "connecting"],
             state' = "CONNECTING" /\ channel' = s /\ inLoop' = TRUE,
             timers' = 0, gaveUp' = gaveUp
      PROVE  /\ sock' \in [Sock -> {"closed", "connecting", "handed"}]
             /\ \A z \in Sock : /\ sock'[z] = "connecting" <=> z = s
                                /\ sock'[z] = "handed" <=> sock[z] = "handed"
             /\ s # NoSock
  BY <1>1, <1>2, NoSockAssumption DEF TypeOK
<1>3. CASE /\ timers' = 1
           /\ UNCHANGED <<sock, state, channel, inLoop, gaveUp>>
  BY <1>1, <1>3 DEF TypeOK
<1>4. CASE /\ gaveUp' = TRUE
           /\ timers' = 0
           /\ UNCHANGED <<sock, state, channel, inLoop>>
  BY <1>1, <1>4 DEF TypeOK
<1>5. \/ \E s \in Sock : /\ sock[s] = "closed"
                         /\ sock' = [sock EXCEPT ![s] = "connecting"]
                         /\ state' = "CONNECTING" /\ channel' = s /\ inLoop' = TRUE
                         /\ timers' = 0 /\ gaveUp' = gaveUp
      \/ /\ timers' = 1
         /\ UNCHANGED <<sock, state, channel, inLoop, gaveUp>>
      \/ /\ gaveUp' = TRUE
         /\ timers' = 0
         /\ UNCHANGED <<sock, state, channel, inLoop>>
  <2>1. 0 + 1 = 1
    OBVIOUS
  <2> QED  BY <2>1 DEF Connect, Retried
<1>6. CASE \E s \in Sock : /\ sock[s] = "closed"
                          /\ sock' = [sock EXCEPT ![s] = "connecting"]
                          /\ state' = "CONNECTING" /\ channel' = s /\ inLoop' = TRUE
                          /\ timers' = 0 /\ gaveUp' = gaveUp
  <2>1. PICK s \in Sock : /\ sock[s] = "closed"
                          /\ sock' = [sock EXCEPT ![s] = "connecting"]
                          /\ state' = "CONNECTING" /\ channel' = s /\ inLoop' = TRUE
                          /\ timers' = 0 /\ gaveUp' = gaveUp
    BY <1>6
  <2>2. /\ sock' \in [Sock -> {"closed", "connecting", "handed"}]
        /\ \A z \in Sock : /\ sock'[z] = "connecting" <=> z = s
                           /\ sock'[z] = "handed" <=> sock[z] = "handed"
        /\ s # NoSock
    BY <1>2, <2>1
  <2>3. \A z \in Sock : /\ sock'[z] = "connecting" <=> inLoop' /\ channel' = z
                        /\ sock'[z] = "handed" <=> sock[z] = "handed"
    BY <2>1, <2>2
  <2> QED  BY <2>1, <2>2, <2>3 DEF TypeOK
<1> QED  BY <1>3, <1>4, <1>5, <1>6

LEMMA QueueOnly ==
  ASSUME TypeOK, batch = <<>>, pos = 1
  PROVE  ToDo = queue
<1>1. SubSeq(<<>>, 1, 0) = <<>>
  BY SubSeqEmpty
<1>2. queue \in Seq(TaskOf) /\ Len(<<>>) = 0
  BY EmptySeq DEF TypeOK
<1> QED  BY <1>1, <1>2, ConcatEmptySeq DEF ToDo

\* The task of handleWrite() does not wait for the loop.
LEMMA NothingWaits ==
  ASSUME TypeOK, LoopExact, phase = "wait"
  PROVE  ToDo = queue /\ ~Pending("reset")
<1>1. batch = <<>> /\ pos = 1 /\ \A t \in ToSet(queue) : t.kind # "reset"
  BY DEF LoopExact
<1>2. ToDo = queue
  BY <1>1, QueueOnly
<1> QED  BY <1>1, <1>2 DEF Pending


\* Without a task to reset the channel, nothing is closed too early.
LEMMA NoReset ==
  ASSUME ~Pending("reset")'
  PROVE  \A c : ClosesLast(ToDo', c)
<1>1. Places(ToDo', "reset") = {}
  BY PendingIsHas, HasPlace
<1> QED  BY <1>1 DEF ClosesLast

LEMMA TaskToClose ==
  ASSUME InductiveInv, AtTask("close")
  PROVE  batch[pos] \in ToSet(ToDo) /\ batch[pos].sock \in Sock
<1> USE DEF InductiveInv
<1>1. pos \in DOMAIN batch /\ batch[pos].kind = "close"
  BY DEF AtTask
<1>2. ToDo \in Seq(TaskOf) /\ ToDo # <<>> /\ Head(ToDo) = batch[pos]
  BY <1>1, ToDoIsQueue, FirstToDo
<1>3. batch[pos] \in ToSet(ToDo)
  BY <1>2, Taken
<1> QED  BY <1>1, <1>3 DEF Connected

\* The task of forceClose() is taken, and one to destroy the connection is pushed.
LEMMA ClosesTask ==
  ASSUME TypeOK, AtTask("close"), pos' = pos + 1, UNCHANGED batch,
         NEW s \in Sock \cup {NoSock}, Push("destroy", s)
  PROVE  /\ batch[pos] \in ToSet(ToDo)
         /\ \A c : ClosesLast(ToDo, c) /\ batch[pos].sock = c => ~Pending("reset")
         /\ pos' \in 1..(Len(batch') + 1)
         /\ queue' \in Seq(TaskOf)
         /\ \A t \in ToSet(queue') : t \in ToSet(queue) \/ t.kind = "destroy"
         /\ \A t \in ToSet(ToDo') : t \in ToSet(ToDo) \/ (t.kind = "destroy" /\ t.sock = s)
         /\ \A k : Pending(k)' => Pending(k) \/ k = "destroy"
         /\ \A k : k # "close" /\ Pending(k) => Pending(k)'
         /\ \A k : k # "destroy" /\ Once(ToDo, k) => Once(ToDo', k)
         /\ \A a, b : a # "destroy" /\ FollowedBy(ToDo, a, b) => FollowedBy(ToDo', a, b)
         /\ \A a, b : a # "destroy" /\ Before(ToDo, a, b) => Before(ToDo', a, b)
<1>1. pos \in DOMAIN batch /\ batch[pos].kind = "close"
  BY DEF AtTask
<1>2. Task("destroy", s) \in TaskOf
  BY DEF Task, TaskOf
<1>3. PICK t \in TaskOf : t = Task("destroy", s) /\ t.kind = "destroy" /\ t.sock = s
  BY <1>2 DEF Task
<1>4. queue' = Append(queue, t) /\ queue \in Seq(TaskOf)
  BY <1>3 DEF Push, TypeOK
<1>5. PICK h : h = batch[pos] /\ h.kind = "close"
  BY <1>1
<1>6. /\ ToDo \in Seq(TaskOf) /\ ToDo # <<>> /\ Head(ToDo) = h
      /\ ToDo' = Append(Tail(ToDo), t)
      /\ pos' \in 1..(Len(batch') + 1)
  BY <1>1, <1>4, <1>5, ToDoIsQueue, TakesToDo
<1>7. PICK m : m = Tail(ToDo)
  OBVIOUS
<1>8. /\ m \in Seq(TaskOf) /\ h \in ToSet(ToDo) /\ ToSet(m) \subseteq ToSet(ToDo)
      /\ \A k : Has(m, k) => Has(ToDo, k)
      /\ \A k : k # "close" /\ Has(ToDo, k) => Has(m, k)
      /\ \A k : Once(ToDo, k) => Once(m, k)
  BY <1>5, <1>6, <1>7, Taken
<1>9. /\ \A a, b : FollowedBy(ToDo, a, b) => FollowedBy(m, a, b)
      /\ \A a, b : Before(ToDo, a, b) => Before(m, a, b)
  BY <1>5, <1>6, <1>7, Taken
<1>10. \A c : ClosesLast(ToDo, c) /\ h.sock = c => ~Has(ToDo, "reset")
  BY <1>5, <1>6, <1>7, Taken
<1>11. /\ ToSet(ToDo') = ToSet(m) \cup {t}
       /\ \A k : Has(ToDo', k) <=> Has(m, k) \/ k = t.kind
       /\ \A k : Once(m, k) /\ (k = t.kind => ~Has(m, k)) => Once(ToDo', k)
  BY <1>6, <1>7, <1>8, Pushed
<1>12. \A a, b : a # t.kind /\ FollowedBy(m, a, b) => FollowedBy(ToDo', a, b)
  BY <1>6, <1>7, <1>8, Pushed
<1>13. \A a, b : a # t.kind /\ Before(m, a, b) => Before(ToDo', a, b)
  BY <1>6, <1>7, <1>8, Pushed
<1>14. queue' \in Seq(TaskOf) /\ ToSet(queue') = ToSet(queue) \cup {t}
  BY <1>4, Pushed
<1>15. \A k : /\ Pending(k)' => Pending(k) \/ k = "destroy"
              /\ k # "close" /\ Pending(k) => Pending(k)'
              /\ k # "destroy" /\ Once(ToDo, k) => Once(ToDo', k)
  BY <1>3, <1>8, <1>11, PendingIsHas
<1>16. \A a, b : a # "destroy" /\ FollowedBy(ToDo, a, b) => FollowedBy(ToDo', a, b)
  BY <1>3, <1>9, <1>12
<1>17. \A a, b : a # "destroy" /\ Before(ToDo, a, b) => Before(ToDo', a, b)
  BY <1>3, <1>9, <1>13
<1>18. \A c : ClosesLast(ToDo, c) /\ batch[pos].sock = c => ~Pending("reset")
  BY <1>5, <1>10, PendingIsHas
<1> QED  BY <1>3, <1>5, <1>6, <1>8, <1>11, <1>14, <1>15, <1>16, <1>17, <1>18

LEMMA BeforeNone ==
  ASSUME TypeOK, Push("stop", NoSock), UNCHANGED <<batch, pos>>, ~Pending("stop")
  PROVE  Before(ToDo', "start", "stop")
<1>1. Before(ToDo, "start", "stop")
  BY PendingIsHas, HasPlace DEF Before
<1> QED  BY <1>1, PushesTask DEF Pushes

LEMMA StopIsPending ==
  ASSUME TypeOK, AtTask("stop")
  PROVE  Pending("stop")
<1>1. pos \in DOMAIN batch /\ batch[pos].kind = "stop"
  BY DEF AtTask
<1>2. batch[pos] \in ToSet(ToDo)
  BY <1>1, ToDoIsQueue, FirstToDo, Taken
<1> QED  BY <1>1, <1>2 DEF Pending

LEMMA SameTypes ==
  ASSUME TypeOK, active' \subseteq active,
         clientRunning' \in BOOLEAN, running' \in BOOLEAN,
         other' \in {"idle", "clientStopped", "stopped"},
         UNCHANGED <<state, channel, inLoop, timers, tcp, sock, phase, batch, pos, queue,
                     restarting, client, starts, stops, stopped, gaveUp>>
  PROVE  TypeOK'
<1>1. batch' = batch /\ pos' = pos /\ queue' = queue /\ sock' = sock /\ connState' = connState
  BY DEF tcp
<1>2. /\ pos' \in 1..(Len(batch') + 1) /\ queue' \in Seq(TaskOf) /\ batch' \in Seq(TaskOf)
      /\ \A s \in Sock : sock'[s] = "handed" <=> connState'[s] # "none"
  BY <1>1 DEF TypeOK
<1>3. /\ sock' \in [Sock -> {"closed", "connecting", "handed"}]
      /\ connState' \in [Sock -> OpenState \cup {"none", "DISCONNECTED"}]
  BY <1>1 DEF TypeOK
<1>4. /\ clientRunning' \in BOOLEAN /\ running' \in BOOLEAN /\ inLoop' \in BOOLEAN
      /\ restarting' \in BOOLEAN /\ client' \in BOOLEAN /\ gaveUp' \in BOOLEAN
      /\ state' \in {"DISCONNECTED", "CONNECTING", "RETRYING", "CONNECTED"}
      /\ phase' \in {"wait", "dispatch", "tasks"}
      /\ other' \in {"idle", "clientStopped", "stopped"}
      /\ stopped' \in {"no", "loop", "other"}
  BY DEF TypeOK
<1>5. /\ connection' \in Sock \cup {NoSock} /\ channel' \in Sock \cup {NoSock}
      /\ active' \subseteq {"connector", "timer"} \cup Sock
      /\ timers' \in Nat /\ starts' \in 0..MaxStarts /\ stops' \in 0..MaxStops
  BY DEF TypeOK, tcp
<1> QED  BY <1>2, <1>3, <1>4, <1>5 DEF TypeOK

-----------------------------------------------------------------------------
(* The attempts. *)

\* An attempt fails.
LEMMA FailsInv ==
  ASSUME InductiveInv, Fails
  PROVE  InductiveInv'
<1> USE DEF InductiveInv
<1>1. /\ phase = "dispatch" /\ "connector" \in active /\ active' = active \ {"connector"}
      /\ state' = "RETRYING" /\ inLoop' = FALSE
      /\ sock' = [sock EXCEPT ![channel] = "closed"]
      /\ running' = running /\ timers' = (IF running THEN timers + 1 ELSE timers)
      /\ UNCHANGED <<channel, connection, connState, phase, batch, pos, queue,
                     restarting, other, clientRunning, client, starts, stops, stopped,
                     gaveUp>>
  BY DEF Fails, FailsLeaving, Handles, Ends, Retried, tcp, user
<1>2. ToDo' = ToDo /\ \A k : Pending(k)' <=> Pending(k)
  BY <1>1, NothingMoves
<1>3. inLoop
  BY <1>1 DEF LoopExact
<1>4. /\ channel \in Sock /\ sock[channel] = "connecting" /\ connState[channel] = "none"
      /\ channel \notin active /\ timers = 0 /\ connection = NoSock /\ starts # 0
      /\ ~Pending("start") /\ ~Pending("reset") /\ ~restarting
      /\ \A t \in ToSet(ToDo) : t.kind \in {"close", "destroy"} => t.sock # channel
  BY <1>3, Trying
<1>5. timers' = (IF running THEN 1 ELSE 0)
  BY <1>1, <1>4
<1>6. /\ sock' \in [Sock -> {"closed", "connecting", "handed"}]
      /\ \A s \in Sock : sock'[s] = IF s = channel THEN "closed" ELSE sock[s]
  BY <1>1, <1>4 DEF TypeOK
<1>7. TypeOK'
  <2>1. timers' \in Nat /\ \A s \in Sock : sock'[s] = "handed" <=> connState'[s] # "none"
    BY <1>1, <1>2, <1>3, <1>4, <1>5, <1>6 DEF TypeOK
  <2> QED  BY <1>1, <1>2, <1>3, <1>4, <1>5, <1>6, <2>1 DEF TypeOK
<1>8. KeepsTrying'
  BY <1>1, <1>4 DEF KeepsTrying
<1>9. Attempts'
  BY <1>1, <1>2, <1>3, <1>6 DEF Attempts
<1>10. NotStarted'
  BY <1>1, <1>2, <1>3 DEF NotStarted
<1>11. NotStopped'
  BY <1>1, <1>2 DEF NotStopped, StopToCome
<1>12. Held'
  BY <1>1, <1>2, <1>3 DEF Held
<1>13. Connected'
  BY <1>1, <1>2, <1>4 DEF Connected
<1>14. LoopExact'
  BY <1>1, <1>4 DEF LoopExact
<1>15. Gone'
  BY <1>1, <1>2 DEF Gone
<1> QED  BY <1>7, <1>8, <1>9, <1>10, <1>11, <1>12, <1>13, <1>14, <1>15

\* The loop waits, and epoll_wait returns.
LEMMA PollInv ==
  ASSUME InductiveInv, Poll
  PROVE  InductiveInv'
<1> USE DEF InductiveInv
<1>1. /\ phase = "wait" /\ phase' = "dispatch"
      /\ active' \in SUBSET ({a \in {"connector"} : inLoop} \cup
                             {a \in {"timer"} : timers > 0} \cup
                             {s \in Sock : connState[s] \in OpenState})
      /\ UNCHANGED <<running, state, channel, inLoop, timers, connection, connState,
                     sock, batch, pos, queue, restarting, other, clientRunning, client,
                     starts, stops, stopped, gaveUp>>
  BY DEF Poll, connector, tcp, user
<1>2. ToDo' = ToDo /\ \A k : Pending(k)' <=> Pending(k)
  BY <1>1, NothingMoves
<1>3. /\ active' \subseteq {"connector", "timer"} \cup Sock
      /\ "connector" \in active' => inLoop
      /\ "timer" \in active' => timers > 0
      /\ \A s \in Sock : s \in active' => connState[s] \in OpenState
  BY <1>1, NamesAssumption
<1>4. ~Pending("reset")
  BY <1>1, NothingWaits
<1>5. TypeOK'
  BY <1>1 DEF TypeOK
<1>6. KeepsTrying'
  BY <1>1, <1>2 DEF KeepsTrying
<1>7. Attempts'
  BY <1>1, <1>2 DEF Attempts
<1>8. NotStarted'
  BY <1>1, <1>2 DEF NotStarted
<1>9. NotStopped'
  BY <1>1, <1>2 DEF NotStopped, StopToCome
<1>10. Held'
  BY <1>1, <1>2, <1>4 DEF Held
<1>11. Connected'
  BY <1>1, <1>2 DEF Connected
<1>12. LoopExact'
  BY <1>1, <1>3 DEF LoopExact, TypeOK, OpenState
<1>13. Gone'
  BY <1>1, <1>2 DEF Gone
<1> QED  BY <1>5, <1>6, <1>7, <1>8, <1>9, <1>10, <1>11, <1>12, <1>13

\* restart(), after the connection that was lost.
LEMMA RestartInv ==
  ASSUME InductiveInv, Restart
  PROVE  InductiveInv'
<1> USE DEF InductiveInv, TriesOnce
<1>1. /\ restarting /\ restarting' = FALSE /\ running' = TRUE /\ Connect(timers)
      /\ UNCHANGED <<connection, connState, phase, active, batch, pos, queue, other,
                     clientRunning, client, starts, stops, stopped>>
  BY DEF Restart, tcp, loop, user
<1>2. ToDo' = ToDo /\ \A k : Pending(k)' <=> Pending(k)
  BY <1>1, NothingMoves
<1>3. /\ ~Pending("start") /\ ~Pending("reset") /\ ~inLoop /\ timers = 0
      /\ connection = NoSock /\ starts # 0 /\ client
  BY <1>1 DEF Held, NotStarted, Gone
<1>4. TriesOnce
  BY <1>1, <1>3, ConnectTries
<1>5. TypeOK'
  <2>1. timers' \in Nat /\ \A s \in Sock : sock'[s] = "handed" <=> connState'[s] # "none"
    BY <1>1, <1>4 DEF TypeOK
  <2> QED  BY <1>1, <1>4, <2>1 DEF TypeOK
<1>6. KeepsTrying'
  BY <1>4 DEF KeepsTrying
<1>7. Attempts'
  BY <1>1, <1>2, <1>3, <1>4 DEF Attempts
<1>8. NotStarted'
  BY <1>1, <1>2 DEF NotStarted
<1>9. NotStopped'
  BY <1>1, <1>2, <1>3, <1>4 DEF NotStopped, StopToCome
<1>10. Held'
  BY <1>1, <1>2, <1>4 DEF Held
<1>11. Connected'
  BY <1>1, <1>2, <1>4 DEF Connected
<1>12. LoopExact'
  BY <1>1, <1>3, <1>4 DEF LoopExact
<1>13. Gone'
  BY <1>1 DEF Gone
<1> QED  BY <1>5, <1>6, <1>7, <1>8, <1>9, <1>10, <1>11, <1>12, <1>13

\* The timer of retry() expires while the connector runs.
LEMMA ExpiresRunningInv ==
  ASSUME InductiveInv, Expires, running
  PROVE  InductiveInv'
<1> USE DEF InductiveInv, TriesOnce
<1>1. /\ phase = "dispatch" /\ "timer" \in active /\ active' = active \ {"timer"} /\ ~restarting
      /\ running /\ running' = running /\ Connect(timers - 1)
      /\ UNCHANGED <<connection, connState, phase, batch, pos, queue, restarting, other,
                     clientRunning, client, starts, stops, stopped>>
  BY DEF Expires, Handles, tcp, user
<1>2. ToDo' = ToDo /\ \A k : Pending(k)' <=> Pending(k)
  BY <1>1, NothingMoves
<1>3. timers = 1 /\ ~inLoop
  BY <1>1 DEF LoopExact, Attempts
<1>4. /\ ~Pending("start") /\ ~Pending("reset")
      /\ connection = NoSock /\ starts # 0 /\ client
  BY <1>1, <1>3 DEF Attempts, Held, NotStarted, Gone
<1>5. timers - 1 = 0
  BY <1>3
<1>6. TriesOnce
  BY <1>1, <1>3, <1>5, ConnectTries
<1>7. TypeOK'
  <2>1. timers' \in Nat /\ \A s \in Sock : sock'[s] = "handed" <=> connState'[s] # "none"
    BY <1>1, <1>2, <1>3, <1>4, <1>5, <1>6 DEF TypeOK
  <2> QED  BY <1>1, <1>2, <1>3, <1>4, <1>5, <1>6, <2>1 DEF TypeOK
<1>8. KeepsTrying'
  BY <1>6 DEF KeepsTrying
<1>9. Attempts'
  BY <1>1, <1>2, <1>3, <1>6 DEF Attempts
<1>10. NotStarted'
  BY <1>1, <1>2, <1>3 DEF NotStarted
<1>11. NotStopped'
  BY <1>1, <1>2, <1>3, <1>6 DEF NotStopped, StopToCome
<1>12. Held'
  BY <1>1, <1>2, <1>3, <1>6 DEF Held
<1>13. Connected'
  BY <1>1, <1>2, <1>6 DEF Connected
<1>14. LoopExact'
  BY <1>1, <1>3, <1>6 DEF LoopExact
<1>15. Gone'
  BY <1>1 DEF Gone
<1> QED  BY <1>7, <1>8, <1>9, <1>10, <1>11, <1>12, <1>13, <1>14, <1>15

\* The timer of retry() expires after stop().
LEMMA ExpiresStoppedInv ==
  ASSUME InductiveInv, Expires, ~running
  PROVE  InductiveInv'
<1> USE DEF InductiveInv
<1>1. /\ phase = "dispatch" /\ "timer" \in active /\ active' = active \ {"timer"}
      /\ running' = running /\ timers' = timers - 1
      /\ UNCHANGED <<sock, state, channel, inLoop, gaveUp, connection, connState, phase,
                     batch, pos, queue, restarting, other, clientRunning, client,
                     starts, stops, stopped>>
  BY DEF Expires, Handles, tcp, user
<1>2. ToDo' = ToDo /\ \A k : Pending(k)' <=> Pending(k)
  BY <1>1, NothingMoves
<1>3. timers = 1
  BY <1>1 DEF LoopExact, Attempts
<1>4. timers' = 0
  BY <1>1, <1>3
<1>5. TypeOK'
  BY <1>1, <1>3 DEF TypeOK
<1>6. KeepsTrying'
  BY <1>1 DEF KeepsTrying
<1>7. Attempts'
  BY <1>1, <1>3 DEF Attempts
<1>8. NotStarted'
  BY <1>1, <1>2, <1>3 DEF NotStarted
<1>9. NotStopped'
  BY <1>1, <1>2 DEF NotStopped, StopToCome
<1>10. Held'
  BY <1>1, <1>2, <1>3 DEF Held
<1>11. Connected'
  BY <1>1, <1>2 DEF Connected
<1>12. LoopExact'
  BY <1>1 DEF LoopExact
<1>13. Gone'
  BY <1>1, <1>2 DEF Gone
<1> QED  BY <1>5, <1>6, <1>7, <1>8, <1>9, <1>10, <1>11, <1>12, <1>13

-----------------------------------------------------------------------------
(* The tasks. *)

\* The task of start() while the connector runs.
LEMMA RunStartRunningInv ==
  ASSUME InductiveInv, RunStart, running
  PROVE  InductiveInv'
<1> USE DEF InductiveInv, Takes, TriesOnce
<1>1. /\ AtTask("start") /\ pos' = pos + 1 /\ phase = "tasks" /\ ~restarting
      /\ running /\ running' = running /\ Connect(timers)
      /\ UNCHANGED <<connection, connState, phase, active, batch, queue, restarting,
                     other, clientRunning, client, starts, stops, stopped>>
  BY DEF RunStart, Runs, AtTask, tcp, user
<1>2. Takes("start")
  BY <1>1, TakesTask DEF AtTask
<1>3. /\ timers = 0 /\ ~inLoop /\ ~Pending("reset") /\ connection = NoSock /\ starts # 0
      /\ client /\ ~Pending("start")'
  BY <1>1, <1>2 DEF Attempts, NotStarted, Gone
<1>4. clientRunning => ~Pending("stop")
  BY <1>1, <1>2 DEF NotStopped, NotStarted
<1>5. TriesOnce
  BY <1>1, <1>3, ConnectTries
<1>6. TypeOK'
  <2>1. timers' \in Nat /\ \A s \in Sock : sock'[s] = "handed" <=> connState'[s] # "none"
    BY <1>1, <1>2, <1>3, <1>4, <1>5 DEF TypeOK
  <2> QED  BY <1>1, <1>2, <1>3, <1>4, <1>5, <2>1 DEF TypeOK
<1>7. KeepsTrying'
  BY <1>5 DEF KeepsTrying
<1>8. Attempts'
  BY <1>1, <1>3, <1>5 DEF Attempts
<1>9. NotStarted'
  BY <1>1, <1>2 DEF NotStarted
<1>10. NotStopped'
  BY <1>1, <1>2, <1>3, <1>5 DEF NotStopped, StopToCome
<1>11. Held'
  BY <1>1, <1>2, <1>3, <1>5 DEF Held
<1>12. Connected'
  BY <1>1, <1>2, <1>5 DEF Connected
<1>13. LoopExact'
  BY <1>1 DEF LoopExact
<1>14. Gone'
  BY <1>1 DEF Gone
<1> QED  BY <1>6, <1>7, <1>8, <1>9, <1>10, <1>11, <1>12, <1>13, <1>14

\* The task of start() after stop().
LEMMA RunStartStoppedInv ==
  ASSUME InductiveInv, RunStart, ~running
  PROVE  InductiveInv'
<1> USE DEF InductiveInv, Takes
<1>1. /\ AtTask("start") /\ pos' = pos + 1 /\ phase = "tasks" /\ ~restarting
      /\ running' = running
      /\ UNCHANGED <<sock, state, channel, inLoop, timers, gaveUp, connection,
                     connState, phase, active, batch, queue, restarting, other,
                     clientRunning, client, starts, stops, stopped>>
  BY DEF RunStart, Runs, AtTask, tcp, user
<1>2. Takes("start")
  BY <1>1, TakesTask DEF AtTask
<1>3. TypeOK'
  BY <1>1, <1>2 DEF TypeOK
<1>4. KeepsTrying'
  BY <1>1 DEF KeepsTrying
<1>5. Attempts'
  BY <1>1, <1>2 DEF Attempts
<1>6. NotStarted'
  BY <1>1, <1>2 DEF NotStarted
<1>7. NotStopped'
  BY <1>1, <1>2 DEF NotStopped, StopToCome
<1>8. Held'
  BY <1>1, <1>2 DEF Held
<1>9. Connected'
  BY <1>1, <1>2 DEF Connected
<1>10. LoopExact'
  BY <1>1 DEF LoopExact
<1>11. Gone'
  BY <1>1, <1>2 DEF Gone
<1> QED  BY <1>3, <1>4, <1>5, <1>6, <1>7, <1>8, <1>9, <1>10, <1>11

\* The task of stop().
LEMMA RunStopInv ==
  ASSUME InductiveInv, RunStop
  PROVE  InductiveInv'
<1> USE DEF InductiveInv, Takes, TriesOnce
<1>1. /\ AtTask("stop") /\ pos' = pos + 1 /\ phase = "tasks" /\ ~restarting
      /\ \/ /\ state = "CONNECTING"
            /\ state' = state /\ inLoop' = FALSE /\ channel' = NoSock
            /\ sock' = [sock EXCEPT ![channel] = "closed"]
         \/ /\ state # "CONNECTING"
            /\ channel' = IF state = "RETRYING" THEN NoSock ELSE channel
            /\ UNCHANGED <<sock, state, inLoop>>
      /\ UNCHANGED <<running, timers, gaveUp, connection, connState, phase, active,
                     batch, queue, restarting, other, clientRunning, client, starts,
                     stops, stopped>>
  BY DEF RunStop, StopTask, Runs, Ends, AtTask, tcp, user
<1>2. Takes("stop")
  BY <1>1, TakesTask DEF AtTask
<1>3. active = {} /\ ~Pending("stop")' /\ stops # 0 /\ other = "idle"
  BY <1>1, <1>2 DEF LoopExact, NotStopped
<1>4. ~client => ~Pending("start")
  BY <1>2 DEF Gone
<1>5. clientRunning /\ running => Pending("start")'
  BY <1>2 DEF NotStopped
<1>6. Pending("start") => state = "DISCONNECTED" 
  BY <1>2 DEF NotStarted
<1>7. state = "CONNECTING" => inLoop
  BY <1>2 DEF NotStopped, StopToCome
<1>8. inLoop => /\ channel \in Sock /\ sock[channel] = "connecting" /\ connState[channel] = "none"
                /\ timers = 0 /\ connection = NoSock /\ state = "CONNECTING"
                /\ ~Pending("start") /\ ~Pending("reset") /\ starts # 0
                /\ \A t \in ToSet(ToDo) : t.kind \in {"close", "destroy"} => t.sock # channel
  BY Trying
<1>9. /\ sock' \in [Sock -> {"closed", "connecting", "handed"}]
      /\ \A s \in Sock : sock'[s] = IF inLoop /\ s = channel THEN "closed" ELSE sock[s]
  BY <1>1, <1>7, <1>8 DEF TypeOK
<1>10. /\ state' = state /\ inLoop' = FALSE /\ channel' \in {channel, NoSock}
      /\ channel' # NoSock => ~inLoop /\ state # "RETRYING"
  BY <1>1, <1>7, <1>8
<1>11. \E t \in ToSet(batch) : t.kind = "stop"
  BY <1>1, <1>2 DEF AtTask
<1>12. TypeOK'
  BY <1>1, <1>2, <1>7, <1>8 DEF TypeOK
<1>13. KeepsTrying'
  BY <1>1, <1>5 DEF KeepsTrying
<1>14. Attempts'
  BY <1>1, <1>2, <1>9 DEF Attempts
<1>15. NotStarted'
  BY <1>1, <1>2 DEF NotStarted
<1>16. NotStopped'
  BY <1>1, <1>2 DEF NotStopped, StopToCome
<1>17. Held'
  BY <1>1, <1>2 DEF Held
<1>18. Connected'
  BY <1>1, <1>2, <1>8, <1>9 DEF Connected
<1>19. LoopExact'
  BY <1>1 DEF LoopExact
<1>20. Gone'
  BY <1>1, <1>2, <1>8, <1>11 DEF Gone, Held
<1> QED  BY <1>12, <1>13, <1>14, <1>15, <1>16, <1>17, <1>18, <1>19, <1>20

\* The task of handleWrite().
LEMMA RunResetInv ==
  ASSUME InductiveInv, RunReset
  PROVE  InductiveInv'
<1> USE DEF InductiveInv, Takes
<1>1. /\ AtTask("reset") /\ pos' = pos + 1 /\ phase = "tasks" /\ ~restarting
      /\ channel' = NoSock
      /\ UNCHANGED <<running, state, inLoop, sock, timers, gaveUp, connection,
                     connState, phase, active, batch, queue, restarting, other,
                     clientRunning, client, starts, stops, stopped>>
  BY DEF RunReset, Runs, AtTask, tcp, user
<1>2. Takes("reset")
  BY <1>1, TakesTask DEF AtTask
<1>3. ~inLoop
  BY <1>2 DEF Held
<1>4. TypeOK'
  BY <1>1, <1>2 DEF TypeOK
<1>5. KeepsTrying'
  BY <1>1, <1>2 DEF KeepsTrying
<1>6. Attempts'
  BY <1>1, <1>2, <1>3 DEF Attempts
<1>7. NotStarted'
  BY <1>1, <1>2 DEF NotStarted
<1>8. NotStopped'
  BY <1>1, <1>2 DEF NotStopped, StopToCome
<1>9. Held'
  BY <1>1, <1>2 DEF Held
<1>10. Connected'
  BY <1>1, <1>2 DEF Connected
<1>11. LoopExact'
  BY <1>1 DEF LoopExact
<1>12. Gone'
  BY <1>1, <1>2 DEF Gone
<1> QED  BY <1>4, <1>5, <1>6, <1>7, <1>8, <1>9, <1>10, <1>11, <1>12

\* The task of TcpClient::handleClose().
LEMMA RunDestroyInv ==
  ASSUME InductiveInv, RunDestroy
  PROVE  InductiveInv'
<1> USE DEF InductiveInv, Takes
<1>1. /\ AtTask("destroy") /\ pos' = pos + 1 /\ phase = "tasks" /\ ~restarting
      /\ UNCHANGED <<running, channel, state, inLoop, sock, timers, gaveUp, connection,
                     connState, phase, active, batch, queue, restarting, other,
                     clientRunning, client, starts, stops, stopped>>
  BY DEF RunDestroy, Runs, AtTask, connector, tcp, user
<1>2. Takes("destroy")
  BY <1>1, TakesTask DEF AtTask
<1>3. TypeOK'
  BY <1>1, <1>2 DEF TypeOK
<1>4. KeepsTrying'
  BY <1>1, <1>2 DEF KeepsTrying
<1>5. Attempts'
  BY <1>1, <1>2 DEF Attempts
<1>6. NotStarted'
  BY <1>1, <1>2 DEF NotStarted
<1>7. NotStopped'
  BY <1>1, <1>2 DEF NotStopped, StopToCome
<1>8. Held'
  BY <1>1, <1>2 DEF Held
<1>9. Connected'
  BY <1>1, <1>2 DEF Connected
<1>10. LoopExact'
  BY <1>1 DEF LoopExact
<1>11. Gone'
  BY <1>1, <1>2 DEF Gone
<1> QED  BY <1>3, <1>4, <1>5, <1>6, <1>7, <1>8, <1>9, <1>10, <1>11

\* The socket is connected: it is handed over, or closed when the connector stopped.
LEMMA SucceedsInv ==
  ASSUME InductiveInv, Succeeds
  PROVE  InductiveInv'
<1> USE DEF InductiveInv, Pushes, TriesOnce
<1>1. /\ phase = "dispatch" /\ "connector" \in active /\ active' = active \ {"connector"}
      /\ Push("reset", NoSock)
      /\ state' = "CONNECTED" /\ inLoop' = FALSE
      /\ \/ /\ running
            /\ sock' = [sock EXCEPT ![channel] = "handed"]
            /\ connection' = channel
            /\ connState' = [connState EXCEPT ![channel] = "ESTABLISHED"]
         \/ /\ ~running
            /\ sock' = [sock EXCEPT ![channel] = "closed"]
            /\ UNCHANGED <<connection, connState>>
      /\ UNCHANGED <<running, channel, timers, phase, batch, pos, restarting, other,
                     clientRunning, client, starts, stops, stopped, gaveUp>>
  BY DEF Succeeds, SucceedsIf, Handles, Ends, tcp, user
<1>2. Pushes("reset", NoSock)
  BY <1>1, PushesTask DEF TypeOK
<1>3. inLoop
  BY <1>1 DEF LoopExact
<1>4. /\ channel \in Sock /\ sock[channel] = "connecting" /\ connState[channel] = "none"
      /\ channel \notin active /\ timers = 0 /\ connection = NoSock /\ starts # 0
      /\ ~Pending("start") /\ ~Pending("reset") /\ ~restarting
      /\ \A t \in ToSet(ToDo) : t.kind \in {"close", "destroy"} => t.sock # channel
  BY <1>3, Trying
<1>5. /\ connection' \in {channel, NoSock} /\ (running => connection' = channel /\ channel # NoSock)
      /\ sock' \in [Sock -> {"closed", "connecting", "handed"}]
      /\ connState' \in [Sock -> OpenState \cup {"none", "DISCONNECTED"}]
      /\ \A s \in Sock : /\ s # channel => sock'[s] = sock[s] /\ connState'[s] = connState[s]
                         /\ s # channel => s # connection'
                         /\ s = channel => /\ sock'[s] # "connecting"
                                           /\ sock'[s] = "handed" <=> connState'[s] # "none"
                                           /\ connState'[s] \in OpenState <=> connection' = s
  BY <1>1, <1>4, NoSockAssumption DEF TypeOK, OpenState
<1>6. NoSock \notin active
  BY NoSockAssumption, NamesAssumption DEF TypeOK
<1>7. connection' \notin active'
  BY <1>1, <1>4, <1>5, <1>6
<1>8. \A t \in ToSet(ToDo') : t.kind = "close" => t.sock # connection'
  BY <1>2, <1>4, <1>5, NoSockAssumption DEF Connected
<1>9. ClosesLast(ToDo', connection')
  BY <1>8, NoneCloses
<1>10. \A s \in Sock : sock'[s] = "handed" <=> connState'[s] # "none"
  BY <1>4, <1>5 DEF TypeOK
<1>11. \A s \in Sock : connState'[s] \in OpenState <=> connection' = s
  BY <1>4, <1>5, NoSockAssumption DEF Connected
<1>12. TypeOK'
  BY <1>1, <1>2, <1>5, <1>10 DEF TypeOK
<1>13. KeepsTrying'
  BY <1>1, <1>5 DEF KeepsTrying
<1>14. Attempts'
  BY <1>1, <1>2, <1>3, <1>5 DEF Attempts
<1>15. NotStarted'
  BY <1>1, <1>2, <1>3 DEF NotStarted
<1>16. NotStopped'
  BY <1>1, <1>2 DEF NotStopped, StopToCome
<1>17. Held'
  BY <1>1, <1>2, <1>4, <1>6, <1>9 DEF Held
<1>18. Connected'
  BY <1>2, <1>4, <1>5, <1>11 DEF Connected
<1>19. LoopExact'
  BY <1>1, <1>4, <1>5 DEF LoopExact
<1>20. Gone'
  BY <1>1, <1>2, <1>3 DEF Gone
<1> QED  BY <1>12, <1>13, <1>14, <1>15, <1>16, <1>17, <1>18, <1>19, <1>20

-----------------------------------------------------------------------------
(* The connection. *)

\* A connection is lost: TcpClient::handleClose() up to restart(), with a task to
\* destroy it pushed.
LEMMA LosesConnection ==
  ASSUME InductiveInv, NEW s \in Sock, connState[s] \in OpenState
  PROVE  /\ s = connection /\ connection # NoSock /\ sock[s] = "handed" /\ starts # 0
         /\ ~inLoop /\ timers = 0 /\ ~Pending("start") /\ ~restarting /\ client
         /\ clientRunning /\ running /\ ~gaveUp => state = "CONNECTED"
<1> USE DEF InductiveInv
<1>1. s = connection /\ connection # NoSock
  BY NoSockAssumption DEF Connected
<1>2. /\ sock[s] = "handed" /\ starts # 0
      /\ ~inLoop /\ timers = 0 /\ ~Pending("start") /\ ~restarting
  BY <1>1, Connecting
<1>3. client
  BY <1>1 DEF Gone
<1> QED  BY <1>1, <1>2, <1>3 DEF KeepsTrying

\* A connection that is open reads the end of the stream.
LEMMA ReadEofOpenInv ==
  ASSUME InductiveInv, NEW s \in Sock, ReadEof(s), connState[s] \in OpenState
  PROVE  InductiveInv'
<1> USE DEF InductiveInv, Pushes, TriesOnce
<1>1. /\ phase = "dispatch" /\ s \in active /\ active' = active \ {s}
      /\ connState[s] \in OpenState
      /\ connState' = [connState EXCEPT ![s] = "DISCONNECTED"]
      /\ connection' = NoSock /\ Push("destroy", s)
      /\ restarting' = (Reconnect /\ clientRunning)
      /\ UNCHANGED <<running, state, channel, inLoop, timers, sock, phase, batch, pos,
                     other, clientRunning, client, starts, stops, stopped, gaveUp>>
  BY DEF ReadEof, HandleClose, Handles, connector, user
<1>2. Pushes("destroy", s)
  BY <1>1, PushesTask DEF TypeOK
<1>3. /\ s = connection /\ connection # NoSock /\ sock[s] = "handed" /\ starts # 0
      /\ ~inLoop /\ timers = 0 /\ ~Pending("start") /\ ~restarting /\ client
      /\ clientRunning /\ running /\ ~gaveUp => state = "CONNECTED"
  BY <1>1, LosesConnection
<1>4. /\ connState' \in [Sock -> OpenState \cup {"none", "DISCONNECTED"}]
      /\ \A z \in Sock : connState'[z] = IF z = s THEN "DISCONNECTED" ELSE connState[z]
      /\ \A z \in Sock : /\ sock[z] = "handed" <=> connState'[z] # "none"
                         /\ connState'[z] \notin OpenState
  BY <1>1, <1>3 DEF TypeOK, Connected, OpenState
<1>5. ~Pending("reset") /\ NoSock \notin Sock
  BY <1>1, <1>3, NoSockAssumption DEF Held
<1>6. ClosesLast(ToDo', connection')
  BY <1>2, <1>5, NoReset
<1>7. TypeOK'
  BY <1>1, <1>2, <1>3 DEF TypeOK
<1>8. KeepsTrying'
  BY <1>1, <1>2 DEF KeepsTrying
<1>9. Attempts'
  BY <1>1, <1>2 DEF Attempts
<1>10. NotStarted'
  BY <1>1, <1>2, <1>3 DEF NotStarted
<1>11. NotStopped'
  BY <1>1, <1>2 DEF NotStopped, StopToCome
<1>12. Held'
  BY <1>1, <1>2, <1>3, <1>6 DEF Held
<1>13. Connected'
  BY <1>1, <1>2, <1>4, <1>5 DEF Connected
<1>14. LoopExact'
  BY <1>1 DEF LoopExact
<1>15. Gone'
  BY <1>1, <1>3 DEF Gone
<1> QED  BY <1>7, <1>8, <1>9, <1>10, <1>11, <1>12, <1>13, <1>14, <1>15

\* A handler of a connection that was closed does nothing.
LEMMA ReadEofClosedInv ==
  ASSUME InductiveInv, NEW s \in Sock, ReadEof(s), connState[s] \notin OpenState
  PROVE  InductiveInv'
<1> USE DEF InductiveInv, TriesOnce
<1>1. /\ phase = "dispatch" /\ active' = active \ {s}
      /\ UNCHANGED <<running, state, channel, inLoop, timers, connection, connState,
                     sock, phase, batch, pos, queue, restarting, other, clientRunning,
                     client, starts, stops, stopped, gaveUp>>
  BY DEF ReadEof, HandleClose, Handles, connector, tcp, user
<1>2. ToDo' = ToDo /\ \A k : Pending(k)' <=> Pending(k)
  BY <1>1, NothingMoves
<1>3. active' \subseteq active
  BY <1>1
<1>4. batch' = batch /\ queue' = queue /\ pos' = pos
  BY <1>1
<1>5. TypeOK'
  BY <1>1, SameTypes DEF TypeOK, tcp
<1>6. KeepsTrying'
  BY <1>1, <1>2 DEF KeepsTrying
<1>7. Attempts'
  BY <1>1, <1>2 DEF Attempts
<1>8. NotStarted'
  BY <1>1, <1>2 DEF NotStarted
<1>9. NotStopped'
  BY <1>1, <1>2 DEF NotStopped, StopToCome
<1>10. Held'
  BY <1>1, <1>2 DEF Held
<1>11. Connected'
  BY <1>1, <1>2 DEF Connected
<1>12. LoopExact'
  BY <1>1 DEF LoopExact
<1>13. Gone'
  BY <1>1, <1>2 DEF Gone
<1> QED  BY <1>5, <1>6, <1>7, <1>8, <1>9, <1>10, <1>11, <1>12, <1>13

\* The task of forceClose() for a connection that was closed.
LEMMA RunCloseClosedInv ==
  ASSUME InductiveInv, RunClose, connState[batch[pos].sock] \notin OpenState
  PROVE  InductiveInv'
<1> USE DEF InductiveInv, Takes
<1>1. /\ AtTask("close") /\ pos' = pos + 1 /\ phase = "tasks"
      /\ UNCHANGED <<running, state, channel, inLoop, timers, connection, connState,
                     sock, phase, active, batch, queue, restarting, other,
                     clientRunning, client, starts, stops, stopped, gaveUp>>
  BY DEF RunClose, HandleClose, Runs, AtTask, connector, tcp, user
<1>2. Takes("close")
  BY <1>1, TakesTask DEF AtTask
<1>3. TypeOK'
  BY <1>1, <1>2 DEF TypeOK
<1>4. KeepsTrying'
  BY <1>1, <1>2 DEF KeepsTrying
<1>5. Attempts'
  BY <1>1, <1>2 DEF Attempts
<1>6. NotStarted'
  BY <1>1, <1>2 DEF NotStarted
<1>7. NotStopped'
  BY <1>1, <1>2 DEF NotStopped, StopToCome
<1>8. Held'
  BY <1>1, <1>2 DEF Held
<1>9. Connected'
  BY <1>1, <1>2 DEF Connected
<1>10. LoopExact'
  BY <1>1 DEF LoopExact
<1>11. Gone'
  BY <1>1, <1>2 DEF Gone
<1> QED  BY <1>3, <1>4, <1>5, <1>6, <1>7, <1>8, <1>9, <1>10, <1>11

\* The task of forceClose().
LEMMA RunCloseOpenInv ==
  ASSUME InductiveInv, NEW s, s = batch[pos].sock, RunClose, connState[s] \in OpenState
  PROVE  InductiveInv'
<1> USE DEF InductiveInv, TriesOnce
<1>1. /\ AtTask("close") /\ pos' = pos + 1 /\ phase = "tasks"
      /\ s = batch[pos].sock /\ connState[s] \in OpenState
      /\ connState' = [connState EXCEPT ![s] = "DISCONNECTED"]
      /\ connection' = NoSock /\ Push("destroy", s)
      /\ restarting' = (Reconnect /\ clientRunning)
      /\ UNCHANGED <<running, state, channel, inLoop, timers, sock, phase, active,
                     batch, other, clientRunning, client, starts, stops, stopped,
                     gaveUp>>
  BY DEF RunClose, HandleClose, Runs, AtTask, connector, user
<1>2. s \in Sock
  BY <1>1, TaskToClose
<1>3. /\ s = connection /\ connection # NoSock /\ sock[s] = "handed" /\ starts # 0
      /\ ~inLoop /\ timers = 0 /\ ~Pending("start") /\ ~restarting /\ client
      /\ clientRunning /\ running /\ ~gaveUp => state = "CONNECTED"
  BY <1>1, <1>2, LosesConnection
<1>4. /\ connState' \in [Sock -> OpenState \cup {"none", "DISCONNECTED"}]
      /\ \A z \in Sock : connState'[z] = IF z = s THEN "DISCONNECTED" ELSE connState[z]
      /\ \A z \in Sock : /\ sock[z] = "handed" <=> connState'[z] # "none"
                         /\ connState'[z] \notin OpenState
  BY <1>1, <1>2, <1>3 DEF TypeOK, Connected, OpenState
<1>5. /\ batch[pos] \in ToSet(ToDo)
      /\ \A c : ClosesLast(ToDo, c) /\ batch[pos].sock = c => ~Pending("reset")
      /\ pos' \in 1..(Len(batch') + 1)
      /\ queue' \in Seq(TaskOf) /\ \A t \in ToSet(queue') : t \in ToSet(queue) \/ t.kind = "destroy"
      /\ \A t \in ToSet(ToDo') : t \in ToSet(ToDo) \/ (t.kind = "destroy" /\ t.sock = s)
      /\ \A k : Pending(k)' => Pending(k) \/ k = "destroy"
      /\ \A k : k # "close" /\ Pending(k) => Pending(k)'
      /\ \A k : k # "destroy" /\ Once(ToDo, k) => Once(ToDo', k)
      /\ \A a, b : a # "destroy" /\ FollowedBy(ToDo, a, b) => FollowedBy(ToDo', a, b)
      /\ \A a, b : a # "destroy" /\ Before(ToDo, a, b) => Before(ToDo', a, b)
  BY <1>1, <1>2, ClosesTask DEF AtTask
<1>6. ~Pending("reset") /\ NoSock \notin Sock /\ NoSock \notin active
  BY <1>1, <1>3, <1>5, NoSockAssumption, NamesAssumption DEF Held, TypeOK
<1>7. ClosesLast(ToDo', connection')
  BY <1>5, <1>6, NoReset
<1>8. TypeOK'
  BY <1>1, <1>3, <1>5 DEF TypeOK
<1>9. KeepsTrying'
  BY <1>1, <1>3 DEF KeepsTrying
<1>10. Attempts'
  BY <1>1, <1>3 DEF Attempts
<1>11. NotStarted'
  BY <1>1, <1>3, <1>5 DEF NotStarted
<1>12. NotStopped'
  BY <1>1, <1>5 DEF NotStopped, StopToCome
<1>13. Held'
  BY <1>1, <1>3, <1>5, <1>7 DEF Held
<1>14. Connected'
  BY <1>1, <1>4, <1>5, <1>6 DEF Connected
<1>15. LoopExact'
  BY <1>1, <1>5 DEF LoopExact
<1>16. Gone'
  BY <1>1, <1>3 DEF Gone
<1> QED  BY <1>8, <1>9, <1>10, <1>11, <1>12, <1>13, <1>14, <1>15, <1>16

-----------------------------------------------------------------------------
(* The loop. *)

\* The pending tasks are swapped.
LEMMA SwapInv ==
  ASSUME InductiveInv, Swap
  PROVE  InductiveInv'
<1> USE DEF InductiveInv
<1>1. /\ phase = "dispatch" /\ active = {} /\ phase' = "tasks"
      /\ batch' = queue /\ queue' = <<>> /\ pos' = 1
      /\ UNCHANGED <<running, state, channel, inLoop, timers, connection, connState,
                     sock, active, restarting, other, clientRunning, client, starts,
                     stops, stopped, gaveUp>>
  BY DEF Swap, connector, tcp, user
<1>2. /\ batch' \in Seq(TaskOf) /\ queue' \in Seq(TaskOf) /\ pos' \in 1..(Len(batch') + 1)
      /\ ToDo' = ToDo /\ ToDo = queue /\ \A k : Pending(k)' <=> Pending(k)
  BY <1>1, SwapsToDo, SameTasks DEF LoopExact
<1>3. \A t \in ToSet(queue') : FALSE
  BY <1>1 DEF ToSet
<1>4. TypeOK'
  BY <1>1 DEF TypeOK
<1>5. KeepsTrying'
  BY <1>1, <1>2 DEF KeepsTrying
<1>6. Attempts'
  BY <1>1, <1>2 DEF Attempts
<1>7. NotStarted'
  BY <1>1, <1>2 DEF NotStarted
<1>8. NotStopped'
  BY <1>1, <1>2 DEF NotStopped, StopToCome
<1>9. Held'
  BY <1>1, <1>2 DEF Held
<1>10. Connected'
  BY <1>1, <1>2 DEF Connected
<1>11. LoopExact'
  BY <1>1, <1>3 DEF LoopExact
<1>12. Gone'
  BY <1>1, <1>2 DEF Gone
<1> QED  BY <1>4, <1>5, <1>6, <1>7, <1>8, <1>9, <1>10, <1>11, <1>12

\* The closures are destroyed, and with the last of them a connection.
LEMMA EndIterationInv ==
  ASSUME InductiveInv, EndIteration
  PROVE  InductiveInv'
<1> USE DEF InductiveInv, TriesOnce
<1>1. /\ phase = "tasks" /\ pos = Len(batch) + 1 /\ ~restarting /\ phase' = "wait"
      /\ batch' = <<>> /\ pos' = 1 /\ queue' = queue
      /\ \E gone \in SUBSET Sock :
            /\ \A s \in gone : connState[s] = "DISCONNECTED" /\ \A t \in ToSet(queue) : t.sock # s
            /\ sock' = [s \in Sock |-> IF s \in gone THEN "closed" ELSE sock[s]]
            /\ connState' = [s \in Sock |-> IF s \in gone THEN "none" ELSE connState[s]]
      /\ UNCHANGED <<running, state, channel, inLoop, timers, connection, active,
                     restarting, other, clientRunning, client, starts, stops, stopped,
                     gaveUp>>
  BY DEF EndIteration, connector, user
<1>2. /\ batch' \in Seq(TaskOf) /\ queue' \in Seq(TaskOf) /\ pos' \in 1..(Len(batch') + 1)
      /\ ToDo' = ToDo /\ ToDo = queue /\ \A k : Pending(k)' <=> Pending(k)
  BY <1>1, SwapsToDo, SameTasks DEF LoopExact
<1>3. /\ active = {} /\ ~Pending("reset") /\ \A t \in ToSet(queue) : t.kind # "reset"
  BY <1>1, <1>2 DEF LoopExact, Pending
<1>4. /\ sock' \in [Sock -> {"closed", "connecting", "handed"}]
      /\ connState' \in [Sock -> OpenState \cup {"none", "DISCONNECTED"}]
      /\ \A s \in Sock : /\ sock'[s] = "connecting" <=> sock[s] = "connecting"
                         /\ sock'[s] = "handed" <=> connState'[s] # "none"
                         /\ connState'[s] \in OpenState <=> connState[s] \in OpenState
                         /\ sock'[s] # sock[s] => \A t \in ToSet(queue) : t.sock # s
  BY <1>1 DEF TypeOK, OpenState
<1>5. TypeOK'
  BY <1>1 DEF TypeOK
<1>6. KeepsTrying'
  BY <1>1, <1>2 DEF KeepsTrying
<1>7. Attempts'
  BY <1>1, <1>2, <1>4 DEF Attempts
<1>8. NotStarted'
  BY <1>1, <1>2 DEF NotStarted
<1>9. NotStopped'
  BY <1>1, <1>2 DEF NotStopped, StopToCome
<1>10. Held'
  BY <1>1, <1>2 DEF Held
<1>11. Connected'
  BY <1>1, <1>2, <1>4 DEF Connected
<1>12. LoopExact'
  BY <1>1 DEF LoopExact
<1>13. Gone'
  BY <1>1, <1>2, <1>3 DEF Gone
<1> QED  BY <1>5, <1>6, <1>7, <1>8, <1>9, <1>10, <1>11, <1>12, <1>13

-----------------------------------------------------------------------------
(* The program. *)

\* start() is called.
LEMMA StartInv ==
  ASSUME InductiveInv, CalledOnce, Start
  PROVE  InductiveInv'
<1> USE DEF InductiveInv, Pushes, TriesOnce
<1>1. /\ starts < MaxStarts /\ starts' = starts + 1 /\ stopped' = "no"
      /\ client /\ clientRunning' = TRUE /\ running' = TRUE
      /\ Push("start", NoSock)
      /\ UNCHANGED <<state, channel, inLoop, timers, connection, connState, sock, phase,
                     active, batch, pos, restarting, other, client, stops, gaveUp>>
  BY DEF Start, tcp, loop
<1>2. Pushes("start", NoSock)
  BY <1>1, PushesTask DEF TypeOK
<1>3. starts = 0 /\ starts' = 1 /\ starts' \in 0..MaxStarts
  BY <1>1, ParameterAssumption DEF CalledOnce, TypeOK
<1>4. /\ state = "DISCONNECTED" /\ channel = NoSock /\ ~Pending("reset") /\ ~Pending("start")
      /\ ~inLoop /\ timers = 0 /\ connection = NoSock /\ ~restarting /\ other = "idle"
  BY <1>3 DEF NotStarted, NotStopped
<1>5. TypeOK'
  BY <1>1, <1>2, <1>3 DEF TypeOK
<1>6. KeepsTrying'
  BY <1>2 DEF KeepsTrying
<1>7. Attempts'
  BY <1>1, <1>4 DEF Attempts
<1>8. NotStarted'
  BY <1>1, <1>2, <1>3 DEF NotStarted
<1>9. NotStopped'
  BY <1>1, <1>2, <1>3 DEF NotStopped, StopToCome
<1>10. Held'
  BY <1>1, <1>2, <1>4 DEF Held
<1>11. Connected'
  BY <1>1, <1>2 DEF Connected
<1>12. LoopExact'
  BY <1>1, <1>2 DEF LoopExact
<1>13. Gone'
  BY <1>1 DEF Gone
<1> QED  BY <1>5, <1>6, <1>7, <1>8, <1>9, <1>10, <1>11, <1>12, <1>13

\* stopConnect() is called on the loop's thread.
LEMMA StopConnectInv ==
  ASSUME InductiveInv, CalledOnce, StopConnect
  PROVE  InductiveInv'
<1> USE DEF InductiveInv, Pushes
<1>1. /\ stops < MaxStops /\ stops' = stops + 1 /\ stopped' = "loop"
      /\ client /\ other = "idle" /\ clientRunning' = FALSE /\ running' = FALSE
      /\ Push("stop", NoSock)
      /\ UNCHANGED <<state, channel, inLoop, timers, connection, connState, sock, phase,
                     active, batch, pos, restarting, other, client, starts, gaveUp>>
  BY DEF StopConnect, tcp, loop
<1>2. Pushes("stop", NoSock)
  BY <1>1, PushesTask DEF TypeOK
<1>3. stops = 0 /\ stops' = 1 /\ stops' \in 0..MaxStops
  BY <1>1, ParameterAssumption DEF CalledOnce, TypeOK
<1>4. ~Pending("stop")
  BY <1>3 DEF NotStopped
<1>5. TypeOK'
  BY <1>1, <1>2, <1>3 DEF TypeOK
<1>6. KeepsTrying'
  BY <1>1 DEF KeepsTrying
<1>7. Attempts'
  BY <1>1, <1>2 DEF Attempts
<1>8. NotStarted'
  BY <1>1, <1>2 DEF NotStarted
<1>9. NotStopped'
  BY <1>1, <1>2, <1>3 DEF NotStopped, StopToCome
<1>10. Held'
  BY <1>1, <1>2 DEF Held
<1>11. Connected'
  BY <1>1, <1>2 DEF Connected
<1>12. LoopExact'
  BY <1>1, <1>2 DEF LoopExact
<1>13. Gone'
  BY <1>1 DEF Gone
<1> QED  BY <1>5, <1>6, <1>7, <1>8, <1>9, <1>10, <1>11, <1>12, <1>13

\* The TcpClient is deleted.
LEMMA DeleteInv ==
  ASSUME InductiveInv, CalledOnce, Delete
  PROVE  InductiveInv'
<1> USE DEF InductiveInv, Pushes
<1>1. /\ stops < MaxStops /\ stops' = stops + 1 /\ stopped' = "loop"
      /\ client /\ other = "idle" /\ connection = NoSock /\ ~restarting
      /\ client' = FALSE /\ running' = FALSE
      /\ Push("stop", NoSock)
      /\ UNCHANGED <<state, channel, inLoop, timers, connection, connState, sock, phase,
                     active, batch, pos, restarting, other, clientRunning, starts,
                     gaveUp>>
  BY DEF Delete, InCallback, tcp, loop
<1>2. Pushes("stop", NoSock)
  BY <1>1, PushesTask DEF TypeOK
<1>3. stops = 0 /\ stops' = 1 /\ stops' \in 0..MaxStops
  BY <1>1, ParameterAssumption DEF CalledOnce, TypeOK
<1>4. ~Pending("stop")
  BY <1>3 DEF NotStopped
<1>5. Before(ToDo', "start", "stop")
  BY <1>1, <1>4, BeforeNone
<1>6. TypeOK'
  BY <1>1, <1>2, <1>3 DEF TypeOK
<1>7. KeepsTrying'
  BY <1>1 DEF KeepsTrying
<1>8. Attempts'
  BY <1>1, <1>2 DEF Attempts
<1>9. NotStarted'
  BY <1>1, <1>2 DEF NotStarted
<1>10. NotStopped'
  BY <1>1, <1>2, <1>3 DEF NotStopped, StopToCome
<1>11. Held'
  BY <1>1, <1>2 DEF Held
<1>12. Connected'
  BY <1>1, <1>2 DEF Connected
<1>13. LoopExact'
  BY <1>1, <1>2 DEF LoopExact
<1>14. Gone'
  BY <1>1, <1>2, <1>3, <1>5 DEF Gone
<1> QED  BY <1>6, <1>7, <1>8, <1>9, <1>10, <1>11, <1>12, <1>13, <1>14

\* stopConnect() is called on another thread: the first store.
LEMMA OtherStopsClientInv ==
  ASSUME InductiveInv, CalledOnce, OtherStopsClient
  PROVE  InductiveInv'
<1> USE DEF InductiveInv
<1>1. /\ stops < MaxStops /\ stops' = stops + 1 /\ client /\ starts > 0
      /\ other = "idle" /\ other' = "clientStopped" /\ clientRunning' = FALSE
      /\ UNCHANGED <<running, state, channel, inLoop, timers, connection, connState,
                     sock, phase, active, batch, pos, queue, restarting, client, starts,
                     stopped, gaveUp>>
  BY DEF OtherStopsClient, connector, tcp, loop
<1>2. ToDo' = ToDo /\ \A k : Pending(k)' <=> Pending(k)
  BY <1>1, NothingMoves
<1>3. stops = 0 /\ stops' = 1 /\ stops' \in 0..MaxStops
  BY <1>1, ParameterAssumption DEF CalledOnce, TypeOK
<1>4. TypeOK'
  BY <1>1, <1>3 DEF TypeOK
<1>5. KeepsTrying'
  BY <1>1 DEF KeepsTrying
<1>6. Attempts'
  BY <1>1, <1>2 DEF Attempts
<1>7. NotStarted'
  BY <1>1, <1>2 DEF NotStarted
<1>8. NotStopped'
  BY <1>1, <1>2, <1>3 DEF NotStopped, StopToCome
<1>9. Held'
  BY <1>1, <1>2 DEF Held
<1>10. Connected'
  BY <1>1, <1>2 DEF Connected
<1>11. LoopExact'
  BY <1>1 DEF LoopExact
<1>12. Gone'
  BY <1>1 DEF Gone
<1> QED  BY <1>4, <1>5, <1>6, <1>7, <1>8, <1>9, <1>10, <1>11, <1>12

\* The second store.
LEMMA OtherStopsInv ==
  ASSUME InductiveInv, OtherStops
  PROVE  InductiveInv'
<1> USE DEF InductiveInv, TriesOnce
<1>1. /\ other = "clientStopped" /\ other' = "stopped" /\ running' = FALSE
      /\ UNCHANGED <<state, channel, inLoop, timers, connection, connState, sock, phase,
                     active, batch, pos, queue, restarting, clientRunning, client,
                     starts, stops, stopped, gaveUp>>
  BY DEF OtherStops, tcp, loop, user
<1>2. ToDo' = ToDo /\ \A k : Pending(k)' <=> Pending(k)
  BY <1>1, NothingMoves
<1>3. TypeOK'
  BY <1>1, SameTypes DEF TypeOK, tcp
<1>4. KeepsTrying'
  BY <1>1 DEF KeepsTrying
<1>5. Attempts'
  BY <1>1, <1>2 DEF Attempts
<1>6. NotStarted'
  BY <1>1, <1>2 DEF NotStarted
<1>7. NotStopped'
  BY <1>1, <1>2 DEF NotStopped, StopToCome
<1>8. Held'
  BY <1>1, <1>2 DEF Held
<1>9. Connected'
  BY <1>1, <1>2 DEF Connected
<1>10. LoopExact'
  BY <1>1 DEF LoopExact
<1>11. Gone'
  BY <1>1 DEF Gone
<1> QED  BY <1>3, <1>4, <1>5, <1>6, <1>7, <1>8, <1>9, <1>10, <1>11

\* The task is queued.
LEMMA OtherQueuesInv ==
  ASSUME InductiveInv, OtherQueues
  PROVE  InductiveInv'
<1> USE DEF InductiveInv, Pushes
<1>1. /\ other = "stopped" /\ other' = "idle" /\ stopped' = "other"
      /\ Push("stop", NoSock)
      /\ UNCHANGED <<running, state, channel, inLoop, timers, connection, connState,
                     sock, phase, active, batch, pos, restarting, clientRunning, client,
                     starts, stops, gaveUp>>
  BY DEF OtherQueues, connector, tcp, loop
<1>2. Pushes("stop", NoSock)
  BY <1>1, PushesTask DEF TypeOK
<1>3. client
  BY <1>1 DEF Gone
<1>4. stops > 0 /\ starts > 0 /\ ~clientRunning /\ ~Pending("stop")
  BY <1>1 DEF NotStopped
<1>5. TypeOK'
  BY <1>1, <1>2 DEF TypeOK
<1>6. KeepsTrying'
  BY <1>1, <1>2 DEF KeepsTrying
<1>7. Attempts'
  BY <1>1, <1>2 DEF Attempts
<1>8. NotStarted'
  BY <1>1, <1>2 DEF NotStarted
<1>9. NotStopped'
  BY <1>1, <1>2 DEF NotStopped, StopToCome
<1>10. Held'
  BY <1>1, <1>2 DEF Held
<1>11. Connected'
  BY <1>1, <1>2 DEF Connected
<1>12. LoopExact'
  BY <1>1, <1>2 DEF LoopExact
<1>13. Gone'
  BY <1>1 DEF Gone
<1> QED  BY <1>5, <1>6, <1>7, <1>8, <1>9, <1>10, <1>11, <1>12, <1>13

\* forceClose() is called.
LEMMA ForceCloseInv ==
  ASSUME InductiveInv, ForceClose
  PROVE  InductiveInv'
<1> USE DEF InductiveInv, Pushes, TriesOnce
<1>1. /\ client /\ clientRunning' = FALSE
      /\ connection # NoSock /\ connState[connection] = "ESTABLISHED"
      /\ connState' = [connState EXCEPT ![connection] = "DISCONNECTING"]
      /\ Push("close", connection)
      /\ UNCHANGED <<running, state, channel, inLoop, timers, connection, sock, phase,
                     active, batch, pos, restarting, other, client, starts, stops,
                     stopped, gaveUp>>
  BY DEF ForceClose, connector, loop
<1>2. Pushes("close", connection)
  BY <1>1, PushesTask DEF TypeOK
<1>3. /\ connection \in Sock /\ sock[connection] = "handed"
      /\ ~inLoop /\ timers = 0 /\ ~Pending("start") /\ starts # 0 /\ ~restarting
  BY <1>1, Connecting
<1>4. /\ connState' \in [Sock -> OpenState \cup {"none", "DISCONNECTED"}]
      /\ \A s \in Sock : /\ connState'[s] \in OpenState <=> connState[s] \in OpenState
                         /\ connState'[s] # "none" <=> connState[s] # "none"
  BY <1>1, <1>3 DEF TypeOK, OpenState
<1>5. TypeOK'
  BY <1>1, <1>2, <1>3, <1>4 DEF TypeOK
<1>6. KeepsTrying'
  BY <1>1 DEF KeepsTrying
<1>7. Attempts'
  BY <1>1, <1>2 DEF Attempts
<1>8. NotStarted'
  BY <1>1, <1>2 DEF NotStarted
<1>9. NotStopped'
  BY <1>1, <1>2 DEF NotStopped, StopToCome
<1>10. Held'
  BY <1>1, <1>2 DEF Held
<1>11. Connected'
  BY <1>1, <1>2, <1>3, <1>4 DEF Connected
<1>12. LoopExact'
  BY <1>1, <1>2 DEF LoopExact
<1>13. Gone'
  BY <1>1 DEF Gone
<1> QED  BY <1>5, <1>6, <1>7, <1>8, <1>9, <1>10, <1>11, <1>12, <1>13

\* forceClose() finds nothing to close, or shutdown() is called.
LEMMA ShutdownInv ==
  ASSUME InductiveInv, Shutdown
  PROVE  InductiveInv'
<1> USE DEF InductiveInv, TriesOnce
<1>1. /\ client /\ clientRunning' = FALSE
      /\ UNCHANGED <<running, state, channel, inLoop, timers, connection, connState,
                     sock, phase, active, batch, pos, queue, restarting, other, client,
                     starts, stops, stopped, gaveUp>>
  BY DEF Shutdown, connector, tcp, loop
<1>2. ToDo' = ToDo /\ \A k : Pending(k)' <=> Pending(k)
  BY <1>1, NothingMoves
<1>3. TypeOK'
  BY <1>1, SameTypes DEF TypeOK, tcp
<1>4. KeepsTrying'
  BY <1>1 DEF KeepsTrying
<1>5. Attempts'
  BY <1>1, <1>2 DEF Attempts
<1>6. NotStarted'
  BY <1>1, <1>2 DEF NotStarted
<1>7. NotStopped'
  BY <1>1, <1>2 DEF NotStopped, StopToCome
<1>8. Held'
  BY <1>1, <1>2 DEF Held
<1>9. Connected'
  BY <1>1, <1>2 DEF Connected
<1>10. LoopExact'
  BY <1>1 DEF LoopExact
<1>11. Gone'
  BY <1>1 DEF Gone
<1> QED  BY <1>3, <1>4, <1>5, <1>6, <1>7, <1>8, <1>9, <1>10, <1>11

-----------------------------------------------------------------------------
(* The theorems. *)

\* Nothing happens.
LEMMA StutterInv ==
  ASSUME InductiveInv, UNCHANGED vars
  PROVE  InductiveInv'
<1> USE DEF InductiveInv
<1>1. /\ UNCHANGED <<running, state, channel, inLoop, timers, connection, connState,
                     sock, phase, active, batch, pos, queue, restarting, other,
                     clientRunning, client, starts, stops, stopped, gaveUp>>
  BY DEF vars, connector, tcp, loop, user
<1>2. ToDo' = ToDo /\ \A k : Pending(k)' <=> Pending(k)
  BY <1>1, NothingMoves
<1>3. TypeOK'
  BY <1>1 DEF TypeOK
<1>4. KeepsTrying'
  BY <1>1, <1>2 DEF KeepsTrying
<1>5. Attempts'
  BY <1>1, <1>2 DEF Attempts
<1>6. NotStarted'
  BY <1>1, <1>2 DEF NotStarted
<1>7. NotStopped'
  BY <1>1, <1>2 DEF NotStopped, StopToCome
<1>8. Held'
  BY <1>1, <1>2 DEF Held
<1>9. Connected'
  BY <1>1, <1>2 DEF Connected
<1>10. LoopExact'
  BY <1>1 DEF LoopExact
<1>11. Gone'
  BY <1>1, <1>2 DEF Gone
<1> QED  BY <1>3, <1>4, <1>5, <1>6, <1>7, <1>8, <1>9, <1>10, <1>11

LEMMA InitInv == Init => InductiveInv
<1> SUFFICES ASSUME Init PROVE InductiveInv
  OBVIOUS
<1>1. /\ queue = <<>> /\ batch = <<>> /\ pos = 1 /\ active = {}
      /\ \A s \in Sock : connState[s] = "none" /\ sock[s] = "closed"
  BY DEF Init
<1>2. /\ <<>> \in Seq(TaskOf) /\ Len(<<>>) = 0 /\ 1 \in 1..(0 + 1)
      /\ 0 \in 0..MaxStarts /\ 0 \in 0..MaxStops
  BY EmptySeq, ParameterAssumption
<1>3. TypeOK
  BY <1>2 DEF Init, TypeOK
<1>4. ToDo = <<>>
  BY <1>1, <1>3, QueueOnly
<1>5. ToSet(ToDo) = {} /\ ToSet(queue) = {}
  BY <1>1, <1>4 DEF ToSet
<1>6. /\ \A k : ~Pending(k) /\ Once(ToDo, k)
      /\ \A a, b : FollowedBy(ToDo, a, b) /\ Before(ToDo, a, b)
      /\ \A c : ClosesLast(ToDo, c)
  BY <1>4, <1>5 DEF Pending, Once, FollowedBy, Before, ClosesLast, Places
<1>7. KeepsTrying /\ Attempts
  BY <1>1, <1>6 DEF Init, KeepsTrying, Attempts
<1>8. NotStarted /\ NotStopped
  BY <1>6 DEF Init, NotStarted, NotStopped, StopToCome
<1>9. Held /\ Connected /\ LoopExact /\ Gone
  BY <1>1, <1>5, <1>6, NoSockAssumption DEF Init, Held, Connected, LoopExact, Gone, OpenState
<1> QED  BY <1>3, <1>7, <1>8, <1>9 DEF InductiveInv

LEMMA StepInv ==
  ASSUME CalledOnce, InductiveInv, [Next]_vars
  PROVE  InductiveInv'
<1>1. CASE Loop
  <2>1. CASE Fails
    BY <2>1, FailsInv
  <2>2. CASE Succeeds
    BY <2>2, SucceedsInv
  <2>3. CASE Expires
    BY <2>3, ExpiresRunningInv, ExpiresStoppedInv
  <2>4. CASE Restart
    BY <2>4, RestartInv
  <2>5. CASE \E s \in Sock : ReadEof(s)
    BY <2>5, ReadEofOpenInv, ReadEofClosedInv
  <2>6. CASE Swap
    BY <2>6, SwapInv
  <2>7. CASE RunStart
    BY <2>7, RunStartRunningInv, RunStartStoppedInv
  <2>8. CASE RunStop
    BY <2>8, RunStopInv
  <2>9. CASE RunReset
    BY <2>9, RunResetInv
  <2>10. CASE RunClose
    BY <2>10, RunCloseOpenInv, RunCloseClosedInv
  <2>11. CASE RunDestroy
    BY <2>11, RunDestroyInv
  <2>12. CASE EndIteration
    BY <2>12, EndIterationInv
  <2> QED
    BY <1>1, <2>1, <2>2, <2>3, <2>4, <2>5, <2>6, <2>7, <2>8, <2>9, <2>10, <2>11, <2>12
    DEF Loop
<1>2. CASE Poll \/ Start \/ StopConnect \/ ForceClose \/ Shutdown \/ Delete
  BY <1>2, PollInv, StartInv, StopConnectInv, ForceCloseInv, ShutdownInv, DeleteInv
<1>3. CASE OtherStopsClient \/ OtherStops \/ OtherQueues
  BY <1>3, OtherStopsClientInv, OtherStopsInv, OtherQueuesInv
<1>4. CASE UNCHANGED vars
  BY <1>4, StutterInv
<1> QED  BY <1>1, <1>2, <1>3, <1>4 DEF Next

\* Every reachable state satisfies the inductive invariant, TypeOK with it.
THEOREM ConnectorInvariant ==
  ASSUME CalledOnce
  PROVE  SafeSpec => []InductiveInv
<1>1. Init => InductiveInv
  BY InitInv
<1>2. InductiveInv /\ [Next]_vars => InductiveInv'
  BY StepInv
<1> QED  BY <1>1, <1>2, PTL DEF SafeSpec

\* One attempt at a time, its channel is found by what it calls back, and every
\* socket is its, handed over or closed: however connect() fails, whatever is
\* stopped, lost and connected again (Connector.hpp, TcpClient::handleClose()).
THEOREM NoSocketForgotten ==
  ASSUME CalledOnce
  PROVE  SafeSpec => []SocketsAccounted
<1>1. InductiveInv => SocketsAccounted
  <2> SUFFICES ASSUME InductiveInv PROVE SocketsAccounted
    OBVIOUS
  <2> USE DEF InductiveInv
  <2>1. OneAttempt
    <3>1. /\ timers \in {0, 1}
          /\ Pending("start") => timers = 0 /\ ~inLoop /\ connection = NoSock
          /\ timers = 1 => ~inLoop /\ connection = NoSock
          /\ inLoop => connection = NoSock
      BY DEF Attempts
    <3> QED  BY <3>1 DEF OneAttempt
  <2>2. "connector" \in active => state = "CONNECTING" /\ inLoop
    BY DEF LoopExact, Attempts
  <2>3. AtTask("stop") /\ state = "CONNECTING" => inLoop
    <3> SUFFICES ASSUME AtTask("stop"), state = "CONNECTING" PROVE inLoop
      OBVIOUS
    <3>1. Pending("stop")
      BY StopIsPending
    <3> QED  BY <3>1 DEF NotStopped, StopToCome
  <2> QED  BY <2>1, <2>2, <2>3 DEF SocketsAccounted, ChannelFound, Attempts
<1> QED  BY <1>1, ConnectorInvariant, PTL

\* The callbacks of the channel and the tasks of start() and handleWrite(), which
\* hold only `this', find the connector, and ~Connector() finds no channel: the
\* task of the stop() of ~TcpClient() keeps it for long enough.
THEOREM ConnectorIsFound ==
  ASSUME CalledOnce
  PROVE  SafeSpec => []ConnectorOutlives
<1>1. InductiveInv => ConnectorOutlives
  <2> SUFFICES ASSUME InductiveInv, ~ConnectorAlive
               PROVE  channel = NoSock /\ ~inLoop /\ ~Pending("start") /\ ~Pending("reset")
    BY DEF ConnectorOutlives
  <2> USE DEF InductiveInv
  <2>1. ~client /\ \A t \in Closures : t.kind # "stop"
    BY DEF ConnectorAlive
  <2>2. ~Pending("stop") /\ \A t \in ToSet(batch) : t.kind # "stop"
    BY <2>1, ToDoIsQueue DEF Pending, Closures
  <2> QED  BY <2>1, <2>2 DEF Gone
<1> QED  BY <1>1, ConnectorInvariant, PTL

\* While the client and its connector run, there is an attempt, a retry to come or a
\* connection, unless connect() met an error that it does not retry.
THEOREM ConnectorGetsOn ==
  ASSUME CalledOnce
  PROVE  SafeSpec => []KeepsTrying
<1>1. InductiveInv => KeepsTrying
  BY DEF InductiveInv
<1> QED  BY <1>1, ConnectorInvariant, PTL

-----------------------------------------------------------------------------

\* What stopped on the loop's thread stays so until start(): the one who would call
\* restart(), a client that loses its connection, reads _running after it was cleared.
LEMMA StopHoldsStep ==
  ASSUME InductiveInv, StopHolds, [Next]_vars
  PROVE  StopHolds'
<1> USE DEF StopHolds, connector, user
<1>1. ASSUME NEW s \in Sock, HandleClose(s),
             UNCHANGED <<running, clientRunning, client, stopped>>
      PROVE  StopHolds'
  <2>1. connState[s] \in OpenState => client
    BY LosesConnection
  <2> QED  BY <1>1, <2>1 DEF HandleClose
<1>2. CASE Loop
  <2>1. CASE Fails \/ Succeeds \/ Expires \/ Restart
    BY <2>1 DEF Fails, FailsLeaving, Succeeds, SucceedsIf, Expires, Restart
  <2>2. CASE \E s \in Sock : ReadEof(s)
    BY <1>1, <2>2 DEF ReadEof
  <2>3. CASE RunClose
    <3>1. batch[pos].sock \in Sock
      BY <2>3, TaskToClose DEF RunClose, Runs
    <3> QED  BY <1>1, <2>3, <3>1 DEF RunClose
  <2>4. CASE Swap \/ RunStart \/ RunStop \/ RunReset \/ RunDestroy \/ EndIteration
    BY <2>4 DEF Swap, RunStart, RunStop, StopTask, RunReset, RunDestroy, EndIteration
  <2> QED  BY <1>2, <2>1, <2>2, <2>3, <2>4 DEF Loop
<1>3. CASE Poll \/ ForceClose \/ Shutdown
  BY <1>3 DEF Poll, ForceClose, Shutdown
<1>4. CASE Start \/ StopConnect \/ Delete
  BY <1>4 DEF Start, StopConnect, Delete, InCallback
<1>5. CASE OtherStopsClient \/ OtherStops \/ OtherQueues
  BY <1>5 DEF OtherStopsClient, OtherStops, OtherQueues
<1>6. CASE UNCHANGED vars
  BY <1>6 DEF vars
<1> QED  BY <1>2, <1>3, <1>4, <1>5, <1>6 DEF Next

\* After stopConnect() or the deletion of the client on the loop's thread no
\* connection is handed over until start(), which no race of handleClose() with
\* that thread can undo: stop() and handleClose() are on the same one.
THEOREM StoppedGetsNothing ==
  ASSUME CalledOnce
  PROVE  SafeSpec => NothingAfterStop
<1>1. Init => StopHolds
  BY DEF Init, StopHolds
<1>2. InductiveInv /\ StopHolds /\ [Next]_vars => StopHolds'
  BY StopHoldsStep
<1>3. ASSUME StopHolds, [Next]_vars, stopped = "loop", connection' # connection
      PROVE  connection' = NoSock
  <2>1. ~running
    BY <1>3 DEF StopHolds
  <2>2. CASE Loop
    BY <1>3, <2>1, <2>2 DEF Loop, Fails, FailsLeaving, Succeeds, SucceedsIf, Expires, Restart,
       ReadEof, RunClose, HandleClose, Swap, RunStart, RunStop, StopTask, RunReset, RunDestroy,
       EndIteration, tcp
  <2>3. CASE ~Loop
    BY <1>3, <2>3 DEF Next, Poll, Start, StopConnect, Delete, ForceClose, Shutdown,
       OtherStopsClient, OtherStops, OtherQueues, tcp, vars
  <2> QED  BY <2>2, <2>3
<1>4. StopHolds /\ [Next]_vars
        => [stopped = "loop" /\ connection' # connection => connection' = NoSock]_vars
  BY <1>3
<1> QED  BY <1>1, <1>2, <1>4, ConnectorInvariant, PTL DEF SafeSpec, NothingAfterStop
=============================================================================
