------------------------ MODULE TcpConnection_proofs ------------------------
(***************************************************************************)
(* Theorems about TcpConnection, for any socket, any number of bytes and   *)
(* both owners: what runs on the loop finds the connection, the assertions *)
(* of the code hold, its interests are exact, and the program sees the     *)
(* life of ConnectionLife.                                                 *)
(*                                                                         *)
(* And about its StreamBuffers, for any size, any head room and any bytes: *)
(* the contents stay in their block, and the buffer is a queue.            *)
(***************************************************************************)
EXTENDS TcpConnection, StreamBuffer, SequenceTheorems, TLAPS

(***************************************************************************)
(* The tasks ahead, when one is pushed and when one is taken.              *)
(***************************************************************************)

\* A push keeps the kinds, when it is of one of them.
LEMMA OnlyPush ==
  ASSUME NEW s \in Seq(Tasks), NEW t \in Tasks, NEW first \in Nat \ {0}, NEW T,
         Only(s, first, T), t \in T
  PROVE  Only(Append(s, t), first, T)
<1>1. /\ Len(Append(s, t)) = Len(s) + 1
      /\ \A i \in 1..Len(s) : Append(s, t)[i] = s[i]
      /\ Append(s, t)[Len(s) + 1] = t
  BY AppendProperties
<1>2. Len(s) \in Nat  BY LenProperties
<1> SUFFICES ASSUME NEW i \in first..(Len(s) + 1) PROVE Append(s, t)[i] \in T
  BY <1>1 DEF Only
<1>3. CASE i = Len(s) + 1  BY <1>1, <1>3
<1>4. CASE i # Len(s) + 1
  <2>1. i \in first..Len(s) /\ i >= first  BY <1>2, <1>4
  <2>2. s[i] \in T  BY <2>1 DEF Only
  <2>3. first > 0 => i \in 1..Len(s)  BY <2>1, <1>2
  <2> QED  BY <2>2, <2>3, <1>1
<1> QED  BY <1>3, <1>4

\* What is destroyed may be told to close: nothing comes of it.
LEMMA DestroyInPush ==
  ASSUME NEW s \in Seq(Tasks), NEW first \in Nat \ {0}, DestroyIn(s, first)
  PROVE  DestroyIn(Append(s, "forceClose"), first)
<1> PICK i \in first..Len(s) :
      /\ s[i] = "destroy"
      /\ \A j \in first..(i - 1) : s[j] \in {"forceClose", "writeComplete"}
      /\ Only(s, i + 1, {"forceClose"})
  BY DEF DestroyIn
<1>1. "forceClose" \in Tasks  BY DEF Tasks
<1>2. Only(Append(s, "forceClose"), i + 1, {"forceClose"})
  BY <1>1, OnlyPush
<1>3. /\ Len(Append(s, "forceClose")) = Len(s) + 1
      /\ \A j \in 1..Len(s) : Append(s, "forceClose")[j] = s[j]
  BY <1>1, AppendProperties
<1>4. Len(s) \in Nat  BY LenProperties
<1> QED  BY <1>2, <1>3, <1>4 DEF DestroyIn

\* handleClose() pushes the task that destroys.
LEMMA DestroyPushed ==
  ASSUME NEW s \in Seq(Tasks), NEW first \in Nat \ {0}, first <= Len(s) + 1,
         Only(s, first, {"forceClose", "writeComplete"})
  PROVE  DestroyIn(Append(s, "destroy"), first)
<1>1. "destroy" \in Tasks  BY DEF Tasks
<1>2. /\ Len(Append(s, "destroy")) = Len(s) + 1
      /\ \A j \in 1..Len(s) : Append(s, "destroy")[j] = s[j]
      /\ Append(s, "destroy")[Len(s) + 1] = "destroy"
  BY <1>1, AppendProperties
<1>3. Len(s) \in Nat  BY LenProperties
<1>4. Only(Append(s, "destroy"), Len(s) + 2, {"forceClose"})
  BY <1>2, <1>3 DEF Only
<1> QED  BY <1>2, <1>3, <1>4 DEF DestroyIn, Only

\* The loop takes the next task.
LEMMA OnlyTaken ==
  ASSUME NEW s \in Seq(Tasks), NEW first \in Nat \ {0}, NEW T,
         Only(s, first, T)
  PROVE  Only(s, first + 1, T)
BY LenProperties DEF Only

LEMMA DestroyInTaken ==
  ASSUME NEW s \in Seq(Tasks), NEW first \in Nat \ {0}, DestroyIn(s, first)
  PROVE  /\ s[first] # "destroy" =>
              /\ DestroyIn(s, first + 1)
              /\ s[first] \in {"forceClose", "writeComplete"}
         /\ s[first] = "destroy" => Only(s, first + 1, {"forceClose"})
<1> PICK i \in first..Len(s) :
      /\ s[i] = "destroy"
      /\ \A j \in first..(i - 1) : s[j] \in {"forceClose", "writeComplete"}
      /\ Only(s, i + 1, {"forceClose"})
  BY DEF DestroyIn
<1>1. Len(s) \in Nat  BY LenProperties
<1>2. CASE i = first
  BY <1>2
<1>3. CASE i # first
  <2>1. s[first] \in {"forceClose", "writeComplete"}
    BY <1>1, <1>3
  <2>2. i \in (first + 1)..Len(s) /\ \A j \in (first + 1)..(i - 1) : j \in first..(i - 1)
    BY <1>1, <1>3
  <2> QED  BY <2>1, <2>2 DEF DestroyIn
<1> QED  BY <1>2, <1>3

\* The task at the front is of the kinds.
LEMMA OnlyFirst ==
  ASSUME NEW s \in Seq(Tasks), NEW first \in Nat \ {0}, NEW T,
         Only(s, first, T), first \in DOMAIN s
  PROVE  s[first] \in T
BY LenProperties DEF Only

\* Behind the last task there is none.
LEMMA NoneBehind ==
  ASSUME NEW s \in Seq(Tasks), NEW first \in Nat \ {0}, first \notin DOMAIN s,
         first <= Len(s) + 1
  PROVE  ~DestroyIn(s, first) /\ \A T : Only(s, first, T)
BY LenProperties DEF Only, DestroyIn

LEMMA NoneInEmpty ==
  \A first \in Nat \ {0} : ~DestroyIn(<<>>, first) /\ \A T : Only(<<>>, first, T)
BY DEF Only, DestroyIn

LEMMA DestroyInNotOnly ==
  ASSUME NEW s \in Seq(Tasks), NEW first \in Nat \ {0}, NEW T, "destroy" \notin T
  PROVE  ~(DestroyIn(s, first) /\ Only(s, first, T))
BY DEF Only, DestroyIn

-----------------------------------------------------------------------------
(* The initial state, and the actions. *)

\* The types in three parts.
LoopType ==
  /\ phase \in {"wait", "dispatch", "tasks"}
  /\ todo \in {<<>>, <<"establish">>, <<"read">>, <<"write">>,
              <<"read", "write">>}
  /\ queue \in Seq(Tasks)
  /\ batch \in Seq(Tasks)
  /\ pos \in 1..(Len(batch) + 1)
  /\ guest \in BOOLEAN

StateType ==
  /\ ofClient \in BOOLEAN
  /\ cb \in UserCode \cup {"none"}
  /\ foreign \in {"idle", "queueing"}
  /\ state \in {"CONNECTING", "ESTABLISHED", "DISCONNECTING", "DISCONNECTED"}
  /\ callbacks \in BOOLEAN
  /\ interests \in SUBSET {"in", "out"}
  /\ registered \in BOOLEAN
  /\ added \in BOOLEAN
  /\ owned \in BOOLEAN
  /\ used \in BOOLEAN
  /\ told \in {"new", "open", "closed"}
  /\ callbacks <=> state # "DISCONNECTED"

SocketType ==
  /\ wbuf \in 0..MaxWrite
  /\ intact \in BOOLEAN
  /\ stuck \in 0..MaxWrite
  /\ partial \in BOOLEAN
  /\ sockOut \in 0..SockCap
  /\ shutWr \in BOOLEAN
  /\ peer \in {"open", "fin", "reset"}
  /\ sockErr \in BOOLEAN
  /\ inbox \in BOOLEAN
  /\ budget \in 0..MaxWrite

LEMMA TypeParts ==
  /\ TypeOK <=> LoopType /\ StateType /\ SocketType
  /\ TypeOK' <=> LoopType' /\ StateType' /\ SocketType'
BY DEF TypeOK, LoopType, StateType, SocketType

\* The callback that begins leaves the ones behind it.
LEMMA CallbackTaken ==
  ASSUME LoopType, NEW name, AtCallback(name)
  PROVE  /\ \/ todo = <<name>> /\ todo' = <<>>
            \/ todo = <<"read", "write">> /\ name = "read" /\ todo' = <<"write">>
         /\ phase = "dispatch" /\ cb = "none"
         /\ phase' = phase /\ batch' = batch /\ pos' = pos /\ guest' = guest
<1>1. todo \in {<<"establish">>, <<"read">>, <<"write">>, <<"read", "write">>}
  BY DEF LoopType, AtCallback
<1>2. \A a : Head(<<a>>) = a /\ Tail(<<a>>) = <<>>
  OBVIOUS
<1>3. Head(<<"read", "write">>) = "read" /\ Tail(<<"read", "write">>) = <<"write">>
  OBVIOUS
<1>4. CASE todo = <<"read", "write">>
  BY <1>3, <1>4 DEF AtCallback, LoopFree
<1>5. CASE todo # <<"read", "write">>
  <2> PICK a : todo = <<a>>  BY <1>1, <1>5
  <2> QED  BY <1>2 DEF AtCallback, LoopFree
<1> QED  BY <1>4, <1>5

\* The channel is called back about reads and writes while the connection is
\* open, as far as the program knows.
LEMMA CallbackOpen ==
  ASSUME InductiveInv, NEW name \in {"read", "write"}, AtCallback(name)
  PROVE  /\ todo' \in {<<>>, <<"write">>}
         /\ todo # <<>> /\ todo' # <<"establish">>
         /\ told = "open" /\ phase = "dispatch" /\ cb = "none"
         /\ phase' = phase /\ batch' = batch /\ pos' = pos /\ guest' = guest
         /\ Connected \/ (Disconnected /\ DestroyIn(queue, 1))
<1>1. /\ todo \in {<<"read">>, <<"write">>, <<"read", "write">>}
      /\ todo' \in {<<>>, <<"write">>}
      /\ phase = "dispatch" /\ cb = "none"
      /\ phase' = phase /\ batch' = batch /\ pos' = pos /\ guest' = guest
  BY CallbackTaken, TypeParts DEF InductiveInv
<1>2. /\ <<"read">> \notin {<<>>, <<"establish">>}
      /\ <<"write">> \notin {<<>>, <<"establish">>}
      /\ <<"read", "write">> \notin {<<>>, <<"establish">>}
      /\ <<>> # <<"establish">>
  OBVIOUS
<1>3. todo # <<>> /\ todo # <<"establish">> /\ todo' # <<"establish">>
  BY <1>1, <1>2
<1>4. told = "open"
  BY <1>3 DEF InductiveInv, Stages, NotYetEstablished, Destroyed, TypeOK
<1> QED
  BY <1>1, <1>3, <1>4 DEF InductiveInv, Stages, Disconnected

\* The task that is taken, before the connection is established or after.
LEMMA TaskTaken ==
  ASSUME InductiveInv, NEW t \in {"forceClose", "writeComplete", "destroy"},
         TakeTask(t)
  PROVE  /\ phase = "tasks" /\ cb = "none" /\ todo = <<>>
         /\ pos' = pos + 1 /\ pos' \in 1..(Len(batch) + 1)
         /\ phase' = phase /\ todo' = todo /\ batch' = batch /\ guest' = guest
         /\ told # "new"
         /\ Connected =>
              t # "destroy" /\ Only(batch, pos', {"forceClose", "writeComplete"})
         /\ Disconnected /\ t # "destroy" =>
              \/ /\ DestroyIn(batch, pos') /\ DestroyIn(batch, pos)
                 /\ Only(queue, 1, {"forceClose"})
              \/ /\ Only(batch, pos', {"forceClose", "writeComplete"})
                 /\ DestroyIn(queue, 1) /\ ~DestroyIn(batch, pos)
         /\ Disconnected /\ t = "destroy" =>
              Only(batch, pos', {"forceClose"}) /\ Only(queue, 1, {"forceClose"})
         /\ Destroyed => t = "forceClose" /\ Only(batch, pos', {"forceClose"})
<1> USE DEF InductiveInv
<1>1. /\ phase = "tasks" /\ cb = "none" /\ todo = <<>>
      /\ pos \in DOMAIN batch /\ batch[pos] = t /\ pos' = pos + 1
      /\ phase' = phase /\ todo' = todo /\ batch' = batch /\ guest' = guest
  BY DEF TakeTask, AtTask, LoopFree, PhaseExact
<1>2. /\ batch \in Seq(Tasks) /\ pos \in Nat \ {0} /\ Len(batch) \in Nat
      /\ pos \in 1..Len(batch)
  BY <1>1, TypeParts DEF LoopType
<1>3. told # "new"
  <2>1. /\ <<"establish">>[1] = "establish" /\ DOMAIN <<>> = {}
        /\ <<"establish">> # <<>>
    OBVIOUS
  <2> QED
    BY <1>1, <2>1 DEF Stages, NotYetEstablished
<1>4. \A T : Only(batch, pos, T) => t \in T /\ Only(batch, pos', T)
  BY <1>1, <1>2, OnlyFirst, OnlyTaken
<1>5. DestroyIn(batch, pos) =>
        IF t = "destroy" THEN Only(batch, pos', {"forceClose"})
                         ELSE DestroyIn(batch, pos')
  BY <1>1, <1>2, DestroyInTaken
<1>6. ~(DestroyIn(batch, pos) /\ Only(batch, pos, {"forceClose", "writeComplete"}))
  BY <1>2, DestroyInNotOnly
<1>7. Connected =>
        t # "destroy" /\ Only(batch, pos', {"forceClose", "writeComplete"})
  BY <1>4 DEF Connected
<1>8. Destroyed => t = "forceClose" /\ Only(batch, pos', {"forceClose"})
  BY <1>4 DEF Destroyed
<1>9. Disconnected => DestroyAhead
  BY DEF Disconnected
<1> QED
  BY <1>1, <1>2, <1>3, <1>4, <1>5, <1>6, <1>7, <1>8, <1>9 DEF DestroyAhead

LEMMA InitInv == Init => InductiveInv
<1> SUFFICES ASSUME Init PROVE InductiveInv  OBVIOUS
<1>1. <<>> \in Seq(Tasks) /\ <<"establish">> \in Seq(Tasks) /\ Len(<<>>) = 0
  BY DEF Tasks
<1>2. ofClient \in BOOLEAN  BY OfClientIsBool DEF Init
<1>3. queue \in Seq(Tasks)
  <2>1. queue = <<>> \/ queue = <<"establish">>  BY DEF Init
  <2> QED  BY <1>1, <2>1
<1>4. batch \in Seq(Tasks) /\ pos \in 1..(Len(batch) + 1)
  <2>1. batch = <<>> /\ pos = 1  BY DEF Init
  <2> QED  BY <1>1, <2>1
<1>5. todo = <<>> \/ todo = <<"establish">>  BY DEF Init
<1>6. LoopType  BY <1>3, <1>4, <1>5 DEF Init, LoopType
<1>7. StateType  BY <1>2 DEF Init, StateType
<1>8. SocketType
  <2>1. 0 \in 0..MaxWrite /\ MaxWrite \in 0..MaxWrite /\ 0 \in 0..SockCap
    BY SockCapAssumption, MaxWriteAssumption
  <2> QED  BY <2>1 DEF Init, SocketType
<1>9. NotYetEstablished  BY DEF Init, NotYetEstablished
<1> QED
  BY <1>6, <1>7, <1>8, <1>9, TypeParts, MaxWriteAssumption
  DEF Init, InductiveInv, Stages, WriteBlocks, PhaseExact, BufferOnlyAfterReset

\* What leaves the tasks, the buffer and the channel as they are.
LEMMA QuietInv ==
  ASSUME InductiveInv,
         Return \/ BeginGuest \/ Shutdown \/ OwnerReleases \/ DropPointer \/ Peer
  PROVE  InductiveInv'
<1>1. UNCHANGED <<phase, todo, batch, pos, queue, foreign, state, callbacks,
                  interests, registered, added, wbuf, intact, stuck, partial,
                  budget, ofClient, told>>
  BY DEF Return, BeginGuest, Shutdown, OwnerReleases, DropPointer, Peer, loop, chan,
         out, sock, refs
<1>2. /\ cb' \in {cb, "none", "guest"} /\ guest' \in {guest, FALSE}
      /\ owned' \in {owned, FALSE} /\ used' \in {used, FALSE}
      /\ shutWr' \in {shutWr, TRUE} /\ peer' \in {peer, "fin", "reset"}
      /\ sockErr' \in {sockErr, TRUE} /\ inbox' \in {inbox, TRUE}
      /\ sockOut' = sockOut \/ (sockOut > 0 /\ sockOut' = sockOut - 1)
  BY DEF Return, BeginGuest, Shutdown, OwnerReleases, DropPointer, Peer, loop, chan,
         out, sock, refs
<1>3. /\ owned' # owned => state = "DISCONNECTED"
      /\ cb' # cb => stuck = 0 /\ (cb # "none" \/ used)
      /\ shutWr' # shutWr => stuck = 0
      /\ used' # used => told = "closed"
      /\ peer' # peer => peer # "reset"
  <2>1. stuck \in Nat /\ (stuck > 0 => cb # "none")
    BY DEF InductiveInv, WriteBlocks, TypeOK
  <2> QED
    BY <2>1 DEF Return, BeginGuest, Shutdown, OwnerReleases, DropPointer, Peer, loop,
                Running, LoopFree, chan, out, sock, refs
<1>4. LoopType'
  BY <1>1, <1>2, TypeParts DEF LoopType, InductiveInv
<1>5. StateType'
  <2>1. StateType
    BY TypeParts DEF InductiveInv
  <2>2. (callbacks <=> state # "DISCONNECTED")'
    BY <1>1, <2>1 DEF StateType
  <2>3. cb' \in UserCode \cup {"none"}
    BY <1>2, <2>1 DEF StateType, UserCode
  <2>4. owned' \in BOOLEAN /\ used' \in BOOLEAN
    BY <1>2, <2>1 DEF StateType
  <2> QED
    BY <1>1, <2>1, <2>2, <2>3, <2>4 DEF StateType
<1>6. SocketType'
  <2>1. sockOut' \in 0..SockCap
    BY <1>2, TypeParts, SockCapAssumption DEF SocketType, InductiveInv
  <2> QED
    BY <1>1, <1>2, <2>1, TypeParts DEF SocketType, InductiveInv
<1>7. Stages'
  BY <1>1, <1>2, <1>3
  DEF InductiveInv, TypeOK, Stages, NotYetEstablished, Connected, Disconnected,
      Destroyed, DestroyAhead
<1>8. (WriteBlocks /\ PhaseExact /\ BufferOnlyAfterReset)'
  BY <1>1, <1>2, <1>3
  DEF InductiveInv, TypeOK, WriteBlocks, PhaseExact, BufferOnlyAfterReset, NonBlocking
<1> QED
  BY <1>4, <1>5, <1>6, <1>7, <1>8, TypeParts DEF InductiveInv

\* handleRead(): bytes for the program, or an error.
LEMMA ReadInv == InductiveInv /\ (ReadMessage \/ ReadError) => InductiveInv'
<1> SUFFICES ASSUME InductiveInv, ReadMessage \/ ReadError PROVE InductiveInv'
  OBVIOUS
<1> USE DEF InductiveInv, chan, out, sock, refs
<1>1. AtCallback("read")
  BY DEF ReadMessage, ReadError
<1>2. /\ todo' \in {<<>>, <<"write">>}
      /\ todo # <<>> /\ todo' # <<"establish">>
      /\ told = "open" /\ phase = "dispatch" /\ cb = "none"
      /\ phase' = phase /\ batch' = batch /\ pos' = pos /\ guest' = guest
      /\ Connected \/ (Disconnected /\ DestroyIn(queue, 1))
  BY <1>1, CallbackOpen
<1> USE <1>2 DEF ReadMessage, ReadError
<1>3. LoopType'
  BY TypeParts DEF LoopType
<1>4. StateType'
  BY TypeParts DEF StateType, UserCode
<1>5. SocketType'
  BY TypeParts DEF SocketType
<1>6. Stages'
  BY DEF TypeOK, Stages, Connected, Disconnected, DestroyAhead
<1>7. (WriteBlocks /\ PhaseExact /\ BufferOnlyAfterReset)'
  BY DEF TypeOK, WriteBlocks, PhaseExact, BufferOnlyAfterReset, NonBlocking
<1> QED
  BY <1>3, <1>4, <1>5, <1>6, <1>7, TypeParts

\* handleClose() of an open connection queues the task that destroys it.
LEMMA HandleCloseStages ==
  ASSUME InductiveInv, HandleClose, told = "open", told' = told, Connected,
         phase' = phase, batch' = batch, todo' # <<"establish">>,
         Only(batch, pos', {"forceClose", "writeComplete"})
  PROVE  /\ Disconnected'
         /\ queue' \in Seq(Tasks) /\ state' = "DISCONNECTED" /\ callbacks' = FALSE
         /\ interests' = {} /\ registered' = FALSE /\ added' \in BOOLEAN
         /\ owned' \in {owned, FALSE}
<1>1. /\ state' = "DISCONNECTED" /\ interests' = {} /\ registered' = FALSE
      /\ added' = TRUE /\ callbacks' = FALSE /\ queue' = Append(queue, "destroy")
      /\ owned' = (owned /\ ~ofClient)
  BY DEF HandleClose, Exchange, ApplyInterest, Closing, Connected
<1>2. queue \in Seq(Tasks) /\ "destroy" \in Tasks
  BY DEF InductiveInv, TypeOK, Tasks
<1>3. queue' \in Seq(Tasks)
  BY <1>1, <1>2, AppendProperties
<1>4. DestroyIn(queue', 1)
  <2>1. Only(queue, 1, {"forceClose", "writeComplete"})
    BY DEF Connected
  <2>2. Len(queue) \in Nat
    BY <1>2, LenProperties
  <2> QED
    BY <1>1, <1>2, <2>1, <2>2, DestroyPushed
<1>5. Disconnected'
  BY <1>1, <1>4 DEF Disconnected, DestroyAhead
<1> QED
  BY <1>1, <1>3, <1>5

\* On one that is closed it does nothing.
LEMMA HandleCloseAgain ==
  ASSUME HandleClose, Disconnected \/ Destroyed
  PROVE  UNCHANGED <<state, chan, callbacks, queue, owned>>
BY DEF HandleClose, Exchange, Closing, Disconnected, Destroyed

\* handleRead(): end of file.
LEMMA ReadEofInv == InductiveInv /\ ReadEof => InductiveInv'
<1> SUFFICES ASSUME InductiveInv, ReadEof PROVE InductiveInv'
  OBVIOUS
<1>1. /\ AtCallback("read") /\ HandleClose
      /\ UNCHANGED <<cb, foreign, wbuf, intact, stuck, partial, sockOut, budget,
                     shutWr, peer, sockErr, inbox, used, ofClient, told>>
  BY DEF ReadEof, out, sock
<1>2. /\ todo' \in {<<>>, <<"write">>}
      /\ todo # <<>> /\ todo' # <<"establish">>
      /\ told = "open" /\ phase = "dispatch" /\ cb = "none"
      /\ phase' = phase /\ batch' = batch /\ pos' = pos /\ guest' = guest
      /\ Connected \/ (Disconnected /\ DestroyIn(queue, 1))
  BY <1>1, CallbackOpen
<1>3. CASE Connected
  <2>1. Only(batch, pos', {"forceClose", "writeComplete"})
    BY <1>2, <1>3 DEF Connected
  <2>2. /\ Disconnected'
        /\ queue' \in Seq(Tasks) /\ state' = "DISCONNECTED" /\ callbacks' = FALSE
        /\ interests' = {} /\ registered' = FALSE /\ added' \in BOOLEAN
        /\ owned' \in {owned, FALSE}
    BY <1>1, <1>2, <1>3, <2>1, HandleCloseStages
  <2>3. LoopType'
    BY <1>2, <2>2, TypeParts DEF LoopType, InductiveInv
  <2>4. StateType'
    BY <1>1, <2>2, TypeParts DEF StateType, InductiveInv
  <2>5. SocketType'
    BY <1>1, TypeParts DEF SocketType, InductiveInv
  <2>6. Stages'
    BY <1>1, <1>2, <2>2 DEF Stages
  <2>7. (WriteBlocks /\ PhaseExact /\ BufferOnlyAfterReset)'
    BY <1>1, <1>2
    DEF InductiveInv, WriteBlocks, PhaseExact, BufferOnlyAfterReset, NonBlocking
  <2> QED
    BY <2>3, <2>4, <2>5, <2>6, <2>7, TypeParts DEF InductiveInv
<1>4. CASE Disconnected /\ DestroyIn(queue, 1)
  <2>1. UNCHANGED <<state, interests, registered, added, callbacks, queue, owned>>
    BY <1>1, <1>4, HandleCloseAgain DEF chan
  <2>3. LoopType'
    BY <1>2, <2>1, TypeParts DEF LoopType, InductiveInv
  <2>4. StateType'
    BY <1>1, <2>1, TypeParts DEF StateType, InductiveInv
  <2>5. SocketType'
    BY <1>1, TypeParts DEF SocketType, InductiveInv
  <2>6. Disconnected'
    BY <1>1, <1>2, <1>4, <2>1 DEF Disconnected, DestroyAhead
  <2>7. (WriteBlocks /\ PhaseExact /\ BufferOnlyAfterReset)'
    BY <1>1, <1>2, <2>1
    DEF InductiveInv, WriteBlocks, PhaseExact, BufferOnlyAfterReset, NonBlocking
  <2> QED
    BY <1>1, <1>2, <2>3, <2>4, <2>5, <2>6, <2>7, TypeParts DEF InductiveInv, Stages
<1> QED
  BY <1>2, <1>3, <1>4

\* The task of forceClose().
LEMMA RunForceCloseInv == InductiveInv /\ RunForceClose => InductiveInv'
<1> SUFFICES ASSUME InductiveInv, RunForceClose PROVE InductiveInv'
  OBVIOUS
<1>1. /\ TakeTask("forceClose") /\ HandleClose
      /\ UNCHANGED <<cb, foreign, wbuf, intact, stuck, partial, sockOut, budget,
                     shutWr, peer, sockErr, inbox, used, ofClient, told>>
  BY DEF RunForceClose, out, sock
<1>2. /\ phase = "tasks" /\ cb = "none" /\ todo = <<>>
      /\ pos' \in 1..(Len(batch) + 1)
      /\ phase' = phase /\ todo' = todo /\ batch' = batch /\ guest' = guest
      /\ told # "new"
  BY <1>1, TaskTaken
<1>3. todo' # <<"establish">>
  BY <1>2
<1>4. CASE told = "open" /\ Connected
  <2>1. Only(batch, pos', {"forceClose", "writeComplete"})
    BY <1>1, <1>4, TaskTaken
  <2>2. /\ Disconnected'
        /\ queue' \in Seq(Tasks) /\ state' = "DISCONNECTED" /\ callbacks' = FALSE
        /\ interests' = {} /\ registered' = FALSE /\ added' \in BOOLEAN
        /\ owned' \in {owned, FALSE}
    BY <1>1, <1>2, <1>3, <1>4, <2>1, HandleCloseStages
  <2>3. LoopType'
    BY <1>2, <2>2, TypeParts DEF LoopType, InductiveInv
  <2>4. StateType'
    BY <1>1, <2>2, TypeParts DEF StateType, InductiveInv
  <2>5. SocketType'
    BY <1>1, TypeParts DEF SocketType, InductiveInv
  <2>6. Stages'
    BY <1>1, <1>4, <2>2 DEF Stages
  <2>7. (WriteBlocks /\ PhaseExact /\ BufferOnlyAfterReset)'
    BY <1>1, <1>2
    DEF InductiveInv, WriteBlocks, PhaseExact, BufferOnlyAfterReset, NonBlocking
  <2> QED
    BY <2>3, <2>4, <2>5, <2>6, <2>7, TypeParts DEF InductiveInv
<1>5. CASE (told = "open" /\ Disconnected) \/ (told = "closed" /\ Destroyed)
  <2>1. UNCHANGED <<state, interests, registered, added, callbacks, queue, owned>>
    BY <1>1, <1>5, HandleCloseAgain DEF chan
  <2>3. LoopType'
    BY <1>2, <2>1, TypeParts DEF LoopType, InductiveInv
  <2>4. StateType'
    BY <1>1, <2>1, TypeParts DEF StateType, InductiveInv
  <2>5. SocketType'
    BY <1>1, TypeParts DEF SocketType, InductiveInv
  <2>6. ASSUME told = "open", Disconnected
        PROVE  Stages'
    <3>1. \/ DestroyIn(batch, pos') /\ Only(queue, 1, {"forceClose"})
          \/ /\ Only(batch, pos', {"forceClose", "writeComplete"})
             /\ DestroyIn(queue, 1) /\ ~DestroyIn(batch, pos)
      BY <1>1, <2>6, TaskTaken
    <3>2. Disconnected'
      BY <1>2, <1>3, <2>1, <2>6, <3>1 DEF Disconnected, DestroyAhead
    <3> QED
      BY <1>1, <2>6, <3>2 DEF Stages
  <2>7. ASSUME told = "closed", Destroyed
        PROVE  Stages'
    <3>1. Only(batch, pos', {"forceClose"})
      BY <1>1, <2>7, TaskTaken
    <3>2. Destroyed'
      BY <1>2, <2>1, <2>7, <3>1 DEF Destroyed
    <3> QED
      BY <1>1, <2>7, <3>2 DEF Stages
  <2>8. (WriteBlocks /\ PhaseExact /\ BufferOnlyAfterReset)'
    BY <1>1, <1>2, <2>1
    DEF InductiveInv, WriteBlocks, PhaseExact, BufferOnlyAfterReset, NonBlocking
  <2> QED
    BY <1>5, <2>3, <2>4, <2>5, <2>6, <2>7, <2>8, TypeParts DEF InductiveInv
<1> QED
  BY <1>2, <1>4, <1>5, TypeParts DEF InductiveInv, Stages, StateType

\* The task of a completed write.
LEMMA RunWriteCompleteInv == InductiveInv /\ RunWriteComplete => InductiveInv'
<1> SUFFICES ASSUME InductiveInv, RunWriteComplete PROVE InductiveInv'
  OBVIOUS
<1>1. /\ TakeTask("writeComplete")
      /\ cb' \in {"writeComplete", "none"}
      /\ UNCHANGED <<queue, foreign, state, callbacks, interests, registered, added,
                     wbuf, intact, stuck, partial, sockOut, budget, shutWr, peer,
                     sockErr, inbox, owned, used, ofClient, told>>
  BY DEF RunWriteComplete, chan, out, sock, refs
<1>2. /\ phase = "tasks" /\ cb = "none" /\ todo = <<>>
      /\ pos' \in 1..(Len(batch) + 1)
      /\ phase' = phase /\ todo' = todo /\ batch' = batch /\ guest' = guest
      /\ told # "new" /\ ~Destroyed
  BY <1>1, TaskTaken
<1>3. told = "open" /\ (Connected \/ Disconnected)
  BY <1>2, TypeParts DEF InductiveInv, Stages, StateType
<1>4. LoopType'
  BY <1>1, <1>2, TypeParts DEF LoopType, InductiveInv
<1>5. StateType'
  BY <1>1, TypeParts DEF StateType, UserCode, InductiveInv
<1>6. SocketType'
  BY <1>1, TypeParts DEF SocketType, InductiveInv
<1>7. CASE Connected
  <2>1. Only(batch, pos', {"forceClose", "writeComplete"})
    BY <1>1, <1>7, TaskTaken
  <2>2. Connected'
    BY <1>1, <1>2, <1>7, <2>1 DEF Connected
  <2> QED
    BY <1>1, <1>3, <2>2, <1>4, <1>5, <1>6, <1>2, TypeParts
    DEF InductiveInv, Stages, WriteBlocks, PhaseExact, BufferOnlyAfterReset,
        NonBlocking, SocketType
<1>8. CASE Disconnected
  <2>1. \/ DestroyIn(batch, pos') /\ Only(queue, 1, {"forceClose"})
        \/ /\ Only(batch, pos', {"forceClose", "writeComplete"})
           /\ DestroyIn(queue, 1) /\ ~DestroyIn(batch, pos)
    BY <1>1, <1>8, TaskTaken
  <2>2. Disconnected'
    BY <1>1, <1>2, <1>8, <2>1 DEF Disconnected, DestroyAhead
  <2> QED
    BY <1>1, <1>3, <2>2, <1>4, <1>5, <1>6, <1>2, TypeParts
    DEF InductiveInv, Stages, WriteBlocks, PhaseExact, BufferOnlyAfterReset,
        NonBlocking, SocketType
<1> QED
  BY <1>3, <1>7, <1>8

\* connectDestroyed(), once and after handleClose().
LEMMA RunDestroyInv ==
  InductiveInv /\ RunDestroy => InductiveInv' /\ told = "open" /\ Disconnected
<1> SUFFICES ASSUME InductiveInv, RunDestroy
             PROVE  InductiveInv' /\ told = "open" /\ Disconnected
  OBVIOUS
<1>1. /\ TakeTask("destroy")
      /\ registered' = FALSE /\ added' = FALSE
      /\ cb' = "close" /\ told' = "closed"
      /\ UNCHANGED <<queue, foreign, state, callbacks, interests, wbuf, intact,
                     stuck, partial, sockOut, budget, shutWr, peer, sockErr, inbox,
                     owned, used, ofClient>>
  BY DEF RunDestroy, out, sock, refs
<1>2. /\ phase = "tasks" /\ cb = "none" /\ todo = <<>>
      /\ pos' \in 1..(Len(batch) + 1)
      /\ phase' = phase /\ todo' = todo /\ batch' = batch /\ guest' = guest
      /\ told # "new" /\ ~Destroyed /\ ~Connected
  BY <1>1, TaskTaken
<1>3. told = "open" /\ Disconnected
  BY <1>2, TypeParts DEF InductiveInv, Stages, StateType
<1>4. Only(batch, pos', {"forceClose"}) /\ Only(queue, 1, {"forceClose"})
  BY <1>1, <1>3, TaskTaken
<1>5. LoopType'
  BY <1>1, <1>2, TypeParts DEF LoopType, InductiveInv
<1>6. StateType'
  BY <1>1, TypeParts DEF StateType, UserCode, InductiveInv
<1>7. SocketType'
  BY <1>1, TypeParts DEF SocketType, InductiveInv
<1>8. Stages'
  BY <1>1, <1>2, <1>3, <1>4 DEF Stages, Disconnected, Destroyed
<1>9. (WriteBlocks /\ PhaseExact /\ BufferOnlyAfterReset)'
  BY <1>1, <1>2
  DEF InductiveInv, WriteBlocks, PhaseExact, BufferOnlyAfterReset, NonBlocking
<1> QED
  BY <1>3, <1>5, <1>6, <1>7, <1>8, <1>9, TypeParts DEF InductiveInv

-----------------------------------------------------------------------------
(* The loop. *)

\* epoll_wait: a channel is ready that is registered and has interests.
LEMMA PollInv == InductiveInv /\ Poll => InductiveInv'
<1> SUFFICES ASSUME InductiveInv, Poll PROVE InductiveInv'
  OBVIOUS
<1>1. /\ phase = "wait" /\ phase' = "dispatch" /\ guest' = TRUE
      /\ UNCHANGED <<batch, pos, queue, cb, foreign, state, callbacks, interests,
                     registered, added, wbuf, intact, stuck, partial, sockOut,
                     budget, shutWr, peer, sockErr, inbox, owned, used, ofClient,
                     told>>
  BY DEF Poll, chan, out, sock, refs
<1>2. todo' \in {<<>>, <<"read">>, <<"write">>, <<"read", "write">>}
  <2> DEFINE Name == {"read", "write"}
  <2>1. /\ <<"read">> \in Seq(Name) /\ <<"write">> \in Seq(Name)
        /\ <<>> \in Seq(Name) /\ <<"read", "write">> \in Seq(Name)
    OBVIOUS
  <2>2. \A s \in Seq(Name) : s \o <<>> = s /\ <<>> \o s = s
    BY ConcatEmptySeq
  <2>3. <<"read">> \o <<"write">> = <<"read", "write">>
    <3>1. Append(<<"read">>, "write") = <<"read">> \o <<"write">>
      BY <2>1, AppendIsConcat
    <3>2. Append(<<"read">>, "write") = <<"read", "write">>
      <4>1. /\ Len(<<"read">>) = 1 /\ <<"read">>[1] = "read"
            /\ Len(<<"read", "write">>) = 2
            /\ <<"read", "write">>[1] = "read" /\ <<"read", "write">>[2] = "write"
        OBVIOUS
      <4>2. /\ Len(Append(<<"read">>, "write")) = 2
            /\ Append(<<"read">>, "write")[1] = "read"
            /\ Append(<<"read">>, "write")[2] = "write"
            /\ Append(<<"read">>, "write") \in Seq(Name)
        BY <2>1, <4>1, AppendProperties
      <4>3. \A i \in 1..2 : i = 1 \/ i = 2
        OBVIOUS
      <4> QED
        BY <2>1, <4>1, <4>2, <4>3, SeqEqual
    <3> QED
      BY <3>1, <3>2
  <2> HIDE DEF Name
  <2> QED
    BY <2>1, <2>2, <2>3 DEF Poll
<1>3. todo = <<>> /\ batch = <<>>
  BY <1>1 DEF InductiveInv, PhaseExact
<1>4. ~registered => todo' = <<>>
  BY DEF Poll, ReadReady, WriteReady
<1>5. /\ <<"read">> # <<"establish">> /\ <<"write">> # <<"establish">>
      /\ <<"read", "write">> # <<"establish">> /\ <<>> # <<"establish">>
  OBVIOUS
<1>6. todo' # <<"establish">>
  BY <1>2, <1>5
<1>7. LoopType'
  BY <1>1, <1>2, TypeParts DEF LoopType, InductiveInv
<1>8. StateType'
  BY <1>1, TypeParts DEF StateType, InductiveInv
<1>9. SocketType'
  BY <1>1, TypeParts DEF SocketType, InductiveInv
<1>10. told = "new" => NotYetEstablished'
  BY <1>1, <1>3, <1>4, <1>5 DEF InductiveInv, Stages, NotYetEstablished
<1>11. told = "open" => Connected' \/ Disconnected'
  BY <1>1, <1>3, <1>4, <1>6
  DEF InductiveInv, Stages, Connected, Disconnected, DestroyAhead
<1>12. told = "closed" => Destroyed'
  BY <1>1, <1>3, <1>4 DEF InductiveInv, Stages, Destroyed
<1>13. (WriteBlocks /\ PhaseExact /\ BufferOnlyAfterReset)'
  BY <1>1, <1>3
  DEF InductiveInv, WriteBlocks, PhaseExact, BufferOnlyAfterReset, NonBlocking
<1> QED
  BY <1>1, <1>7, <1>8, <1>9, <1>10, <1>11, <1>12, <1>13, TypeParts
  DEF InductiveInv, Stages

\* The pending tasks become those of the iteration.
LEMMA SwapInv == InductiveInv /\ Swap => InductiveInv'
<1> SUFFICES ASSUME InductiveInv, Swap PROVE InductiveInv'
  OBVIOUS
<1>1. /\ phase = "dispatch" /\ phase' = "tasks" /\ todo = <<>> /\ cb = "none"
      /\ batch' = queue /\ queue' = <<>> /\ pos' = 1
      /\ UNCHANGED <<todo, guest, cb, foreign, state, callbacks, interests,
                     registered, added, wbuf, intact, stuck, partial, sockOut,
                     budget, shutWr, peer, sockErr, inbox, owned, used, ofClient,
                     told>>
  BY DEF Swap, LoopFree, chan, out, sock, refs
<1>2. batch = <<>>
  BY <1>1 DEF InductiveInv, PhaseExact
<1>3. queue \in Seq(Tasks) /\ <<>> \in Seq(Tasks) /\ Len(queue) \in Nat
      /\ pos \in Nat \ {0}
  BY TypeParts DEF LoopType, InductiveInv
<1>4. ~DestroyIn(batch, pos) /\ \A T : Only(<<>>, 1, T)
  BY <1>2, <1>3, NoneInEmpty
<1>5. LoopType'
  BY <1>1, <1>3, TypeParts DEF LoopType, InductiveInv
<1>6. StateType'
  BY <1>1, TypeParts DEF StateType, InductiveInv
<1>7. SocketType'
  BY <1>1, TypeParts DEF SocketType, InductiveInv
<1>8. told = "new" => NotYetEstablished'
  <2>1. <<>> # <<"establish">>
    OBVIOUS
  <2> QED
    BY <1>1, <1>2, <2>1 DEF InductiveInv, Stages, NotYetEstablished
<1>9. told = "open" => Connected' \/ Disconnected'
  BY <1>1, <1>4 DEF InductiveInv, Stages, Connected, Disconnected, DestroyAhead
<1>10. told = "closed" => Destroyed'
  BY <1>1, <1>4 DEF InductiveInv, Stages, Destroyed
<1>11. (WriteBlocks /\ PhaseExact /\ BufferOnlyAfterReset)'
  BY <1>1
  DEF InductiveInv, WriteBlocks, PhaseExact, BufferOnlyAfterReset, NonBlocking
<1> QED
  BY <1>1, <1>5, <1>6, <1>7, <1>8, <1>9, <1>10, <1>11, TypeParts
  DEF InductiveInv, Stages

\* Every task of the iteration was executed.
LEMMA EndIterationInv == InductiveInv /\ EndIteration => InductiveInv'
<1> SUFFICES ASSUME InductiveInv, EndIteration PROVE InductiveInv'
  OBVIOUS
<1>1. /\ phase = "tasks" /\ phase' = "wait" /\ cb = "none"
      /\ pos \notin DOMAIN batch /\ batch' = <<>> /\ pos' = 1 /\ guest' = FALSE
      /\ UNCHANGED <<todo, queue, cb, foreign, state, callbacks, interests,
                     registered, added, wbuf, intact, stuck, partial, sockOut,
                     budget, shutWr, peer, sockErr, inbox, owned, used, ofClient,
                     told>>
  BY DEF EndIteration, LoopFree, chan, out, sock, refs
<1>2. todo = <<>>
  BY <1>1 DEF InductiveInv, PhaseExact
<1>3. batch \in Seq(Tasks) /\ pos \in Nat \ {0} /\ pos <= Len(batch) + 1
      /\ <<>> \in Seq(Tasks) /\ Len(<<>>) = 0
  BY TypeParts DEF LoopType, InductiveInv
<1>4. ~DestroyIn(batch, pos) /\ \A T : Only(<<>>, 1, T)
  BY <1>1, <1>3, NoneBehind, NoneInEmpty
<1>5. LoopType'
  <2>1. pos' \in 1..(Len(batch') + 1) /\ batch' \in Seq(Tasks)
    BY <1>1, <1>3
  <2> QED
    BY <1>1, <2>1, TypeParts DEF LoopType, InductiveInv
<1>6. StateType'
  BY <1>1, TypeParts DEF StateType, InductiveInv
<1>7. SocketType'
  BY <1>1, TypeParts DEF SocketType, InductiveInv
<1>8. told = "new" => NotYetEstablished'
  <2>1. <<>> # <<"establish">> /\ 1 \in DOMAIN <<"establish">>
    OBVIOUS
  <2> QED
    BY <1>1, <1>2, <2>1 DEF InductiveInv, Stages, NotYetEstablished
<1>9. told = "open" => Connected' \/ Disconnected'
  BY <1>1, <1>2, <1>4 DEF InductiveInv, Stages, Connected, Disconnected, DestroyAhead
<1>10. told = "closed" => Destroyed'
  BY <1>1, <1>4 DEF InductiveInv, Stages, Destroyed
<1>11. (WriteBlocks /\ PhaseExact /\ BufferOnlyAfterReset)'
  BY <1>1, <1>2
  DEF InductiveInv, WriteBlocks, PhaseExact, BufferOnlyAfterReset, NonBlocking
<1> QED
  BY <1>1, <1>5, <1>6, <1>7, <1>8, <1>9, <1>10, <1>11, TypeParts
  DEF InductiveInv, Stages

\* connectEstablished(), from either place.
LEMMA EstablishInv ==
  InductiveInv /\ Establish => InductiveInv' /\ told = "new" /\ cb = "none"
<1> SUFFICES ASSUME InductiveInv, Establish
             PROVE  InductiveInv' /\ told = "new" /\ cb = "none"
  OBVIOUS
<1>1. /\ state' = "ESTABLISHED" /\ interests' = interests \cup {"in"}
      /\ registered' = (registered => interests' # {}) /\ added' = TRUE
      /\ cb' = "connect" /\ told' = "open" /\ used' \in BOOLEAN
      /\ UNCHANGED <<queue, foreign, callbacks, wbuf, intact, stuck, partial,
                     sockOut, budget, shutWr, peer, sockErr, inbox, owned, ofClient>>
  BY DEF Establish, ApplyInterest, out, sock
<1>2. batch \in Seq(Tasks) /\ pos \in Nat \ {0} /\ Len(batch) \in Nat
  BY TypeParts DEF LoopType, InductiveInv
<1>3. /\ <<"establish">> # <<>> /\ 1 \notin DOMAIN <<>>
      /\ \A i \in Nat \ {0, 1} : \A T : Only(<<"establish">>, i, T)
  <2>1. Len(<<"establish">>) = 1
    OBVIOUS
  <2> QED
    BY <2>1 DEF Only
<1>4. /\ told = "new" /\ cb = "none" /\ todo' = <<>> /\ queue = <<>>
      /\ phase' = phase /\ batch' = batch /\ guest' = guest
      /\ phase # "wait" /\ pos' \in 1..(Len(batch) + 1)
      /\ phase = "tasks" \/ batch = <<>>
      /\ \A T : Only(batch, pos', T)
  <2>1. CASE TakeTask("establish")
    <3>1. /\ phase = "tasks" /\ cb = "none" /\ todo = <<>>
          /\ pos \in DOMAIN batch /\ batch[pos] = "establish" /\ pos' = pos + 1
          /\ phase' = phase /\ todo' = todo /\ batch' = batch /\ guest' = guest
      BY <2>1 DEF TakeTask, AtTask, LoopFree, PhaseExact, InductiveInv
    <3>2. pos' \in 1..(Len(batch) + 1)
      BY <1>2, <3>1, TypeParts DEF LoopType, InductiveInv
    <3>3. \A T : Only(batch, pos, T) => "establish" \in T
      BY <1>2, <3>1, OnlyFirst
    <3>4. ~DestroyIn(batch, pos)
      BY <1>2, <3>1, DestroyInTaken
    <3>5. told = "new"
      BY <3>3, <3>4, TypeParts
      DEF InductiveInv, Stages, Connected, Disconnected, Destroyed, DestroyAhead,
          StateType
    <3>6. batch = <<"establish">> /\ pos = 1 /\ queue = <<>>
      BY <1>3, <3>1, <3>5 DEF InductiveInv, Stages, NotYetEstablished
    <3> QED
      BY <1>3, <3>1, <3>2, <3>5, <3>6
  <2>2. CASE AtCallback("establish")
    <3>1. /\ todo = <<"establish">> /\ todo' = <<>>
          /\ phase = "dispatch" /\ cb = "none"
          /\ phase' = phase /\ batch' = batch /\ pos' = pos /\ guest' = guest
      BY <2>2, CallbackTaken, TypeParts DEF InductiveInv
    <3>2. told = "new"
      BY <1>3, <3>1, TypeParts
      DEF InductiveInv, Stages, Connected, Disconnected, Destroyed, StateType
    <3>3. batch = <<>> /\ queue = <<>>
      BY <1>3, <3>1, <3>2 DEF InductiveInv, Stages, NotYetEstablished
    <3>4. \A T : Only(batch, pos', T)
      BY <1>2, <3>1, <3>3, NoneInEmpty
    <3> QED
      BY <1>2, <3>1, <3>2, <3>3, <3>4, TypeParts DEF InductiveInv, LoopType
  <2> QED
    BY <2>1, <2>2 DEF Establish
<1>5. NotYetEstablished
  BY <1>4 DEF InductiveInv, Stages
<1>6. LoopType'
  BY <1>1, <1>4, TypeParts DEF LoopType, InductiveInv
<1>7. StateType'
  BY <1>1, <1>5, TypeParts DEF StateType, UserCode, InductiveInv, NotYetEstablished
<1>8. SocketType'
  BY <1>1, TypeParts DEF SocketType, InductiveInv
<1>9. Connected'
  <2>1. <<>> # <<"establish">> /\ \A T : Only(<<>>, 1, T)
    BY <1>3, NoneInEmpty
  <2>2. wbuf = 0
    BY <1>5 DEF NotYetEstablished
  <2>3. interests' = {"in"} /\ registered' = TRUE /\ owned' = TRUE
    BY <1>1, <1>5, TypeParts DEF NotYetEstablished, InductiveInv, StateType
  <2>4. Only(batch', pos', {"forceClose", "writeComplete"})
        /\ Only(queue', 1, {"forceClose", "writeComplete"})
        /\ todo' # <<"establish">>
    BY <1>1, <1>4, <2>1
  <2>5. wbuf' = 0 /\ state' = "ESTABLISHED"
    BY <1>1, <2>2
  <2> QED
    BY <2>3, <2>4, <2>5 DEF Connected
<1>10. (WriteBlocks /\ PhaseExact /\ BufferOnlyAfterReset)'
  BY <1>1, <1>4
  DEF InductiveInv, WriteBlocks, PhaseExact, BufferOnlyAfterReset, NonBlocking
<1> QED
  BY <1>1, <1>4, <1>6, <1>7, <1>8, <1>9, <1>10, TypeParts DEF InductiveInv, Stages

-----------------------------------------------------------------------------
(* What is written. *)

\* The task of a completed write is pushed while the callbacks are there, which
\* is before handleClose().
LEMMA Announced ==
  ASSUME InductiveInv, told # "new",
         queue' = IF callbacks THEN Append(queue, "writeComplete") ELSE queue
  PROVE  /\ queue' \in Seq(Tasks)
         /\ Connected => Only(queue', 1, {"forceClose", "writeComplete"})
         /\ ~Connected => queue' = queue
<1>1. queue \in Seq(Tasks) /\ "writeComplete" \in Tasks
  BY TypeParts DEF InductiveInv, LoopType, Tasks
<1>2. CASE Connected
  <2>1. Only(queue, 1, {"forceClose", "writeComplete"})
    BY <1>2 DEF Connected
  <2>2. Append(queue, "writeComplete") \in Seq(Tasks)
    BY <1>1, AppendProperties
  <2> QED
    BY <1>1, <1>2, <2>1, <2>2, OnlyPush
<1>3. CASE ~Connected
  <2>1. state = "DISCONNECTED"
    BY <1>3, TypeParts
    DEF InductiveInv, Stages, Disconnected, Destroyed, StateType
  <2> QED
    BY <1>1, <1>3, <2>1, TypeParts DEF InductiveInv, StateType
<1> QED
  BY <1>2, <1>3

\* Bytes that are buffered are watched for, unless the connection is closing.
LEMMA Buffered ==
  ASSUME InductiveInv, told # "new", NEW n, Buffer(n)
  PROVE  /\ wbuf' = wbuf + n
         /\ interests' \in SUBSET {"in", "out"}
         /\ registered' \in BOOLEAN /\ added' \in BOOLEAN
         /\ Connected => /\ registered' /\ "in" \in interests'
                         /\ state = "ESTABLISHED" => "out" \in interests'
         /\ ~Connected => UNCHANGED chan
<1> USE DEF InductiveInv
<1>1. StateType
  BY TypeParts
<1>2. ~Connected => state = "DISCONNECTED"
  BY <1>1 DEF Stages, Disconnected, Destroyed, StateType
<1>3. CASE /\ state \notin {"DISCONNECTING", "DISCONNECTED"} /\ "out" \notin interests
           /\ ApplyInterest(interests \cup {"out"})
  <2>1. interests' = interests \cup {"out"} /\ interests' # {} /\ added' = TRUE
        /\ registered' = TRUE
    BY <1>1, <1>3 DEF ApplyInterest, StateType
  <2> QED
    BY <1>1, <1>2, <1>3, <2>1 DEF Buffer, StateType, Connected
<1>4. CASE /\ state \in {"DISCONNECTING", "DISCONNECTED"} \/ "out" \in interests
           /\ UNCHANGED chan
  BY <1>1, <1>4 DEF Buffer, StateType, Connected, chan
<1> QED
  BY <1>3, <1>4 DEF Buffer

\* Of what a write() may do, the stages see the interests and the tasks.
LEMMA OutputStages ==
  ASSUME InductiveInv, told # "new",
         UNCHANGED <<phase, todo, batch, pos, state, owned, told>>,
         Connected => /\ Only(queue', 1, {"forceClose", "writeComplete"})
                      /\ registered' /\ "in" \in interests'
                      /\ state = "ESTABLISHED" /\ wbuf' > 0 => "out" \in interests'
                      /\ "out" \in interests' => wbuf' > 0,
         ~Connected => UNCHANGED <<queue, chan>>
  PROVE  Stages'
<1>1. CASE Connected
  BY <1>1, TypeParts
  DEF InductiveInv, Stages, StateType, Connected, Destroyed
<1>2. CASE told = "open" /\ ~Connected /\ Disconnected
  BY <1>2 DEF Stages, Disconnected, DestroyAhead, chan
<1>3. CASE told = "closed" /\ ~Connected /\ Destroyed
  BY <1>3 DEF Stages, Destroyed, chan
<1> QED
  BY <1>1, <1>2, <1>3, TypeParts DEF InductiveInv, Stages, StateType

\* What is called back knows the connection.
LEMMA CalledBack == InductiveInv /\ cb # "none" => told # "new"
BY DEF InductiveInv, Stages, NotYetEstablished

\* What the socket takes of n bytes leaves no more than n, and fits.
LEMMA SocketTakes ==
  ASSUME SocketType, NEW n \in 0..MaxWrite
  PROVE  /\ n - Min2(n, Room) \in 0..n
         /\ n - Min2(n, Room) \in 0..MaxWrite
         /\ sockOut + Min2(n, Room) \in 0..SockCap
         /\ Room \in 0..SockCap
BY SockCapAssumption, MaxWriteAssumption DEF SocketType, Min2, Room

\* Bytes that leave a part of the budget leave the sum.
LEMMA LessBytes ==
  ASSUME NEW a \in Nat, NEW b \in Nat, NEW c \in Nat, NEW d \in Nat, a <= b,
         b + c + d <= MaxWrite
  PROVE  a + c + d <= MaxWrite
BY MaxWriteAssumption

\* Bytes that go to the buffer are taken from what was left to write.
LEMMA BufferedFits ==
  ASSUME NEW a \in Nat, NEW b \in Nat, NEW c \in Nat, NEW d \in Nat, a <= b + c,
         b + c + d <= MaxWrite
  PROVE  a \in 0..MaxWrite /\ a + 0 + d <= MaxWrite
BY MaxWriteAssumption

\* handleWrite().
LEMMA HandleWriteInv == InductiveInv /\ HandleWrite => InductiveInv'
<1> SUFFICES ASSUME InductiveInv, HandleWrite PROVE InductiveInv'
  OBVIOUS
<1>1. /\ AtCallback("write")
      /\ UNCHANGED <<cb, foreign, state, callbacks, intact, stuck, partial, budget,
                     shutWr, peer, inbox, owned, used, ofClient, told>>
      /\ sockErr' \in {sockErr, FALSE}
      /\ \/ UNCHANGED <<wbuf, sockOut, interests, registered, added, queue>>
         \/ /\ wbuf' = wbuf - Min2(wbuf, Room) /\ sockOut' = sockOut + Min2(wbuf, Room)
            /\ \/ /\ wbuf' = 0
                  /\ ApplyInterest(interests \ {"out"})
                  /\ queue' = IF callbacks THEN Append(queue, "writeComplete")
                                           ELSE queue
               \/ wbuf' # 0 /\ UNCHANGED <<interests, registered, added, queue>>
  BY DEF HandleWrite, chan, refs
<1>2. /\ todo' \in {<<>>, <<"write">>}
      /\ todo # <<>> /\ todo' # <<"establish">>
      /\ told = "open" /\ phase = "dispatch" /\ cb = "none"
      /\ phase' = phase /\ batch' = batch /\ pos' = pos /\ guest' = guest
      /\ Connected \/ (Disconnected /\ DestroyIn(queue, 1))
  BY <1>1, CallbackOpen
<1>3. LoopType /\ StateType /\ SocketType
  BY TypeParts DEF InductiveInv
<1>4. wbuf' \in 0..wbuf /\ wbuf' \in 0..MaxWrite /\ sockOut' \in 0..SockCap
  <2>1. wbuf \in 0..MaxWrite /\ sockOut \in 0..SockCap /\ wbuf \in 0..wbuf
    BY <1>3, MaxWriteAssumption DEF SocketType
  <2>2. /\ wbuf - Min2(wbuf, Room) \in 0..wbuf
        /\ wbuf - Min2(wbuf, Room) \in 0..MaxWrite
        /\ sockOut + Min2(wbuf, Room) \in 0..SockCap
    BY <1>3, <2>1, SocketTakes
  <2> QED
    BY <1>1, <2>1, <2>2
<1>5. SocketType'
  BY <1>1, <1>3, <1>4 DEF SocketType
<1>6. (WriteBlocks /\ PhaseExact /\ BufferOnlyAfterReset)'
  <2>1. wbuf' + stuck + budget <= MaxWrite /\ (wbuf' > 0 => wbuf > 0)
    <3>1. /\ wbuf \in Nat /\ stuck \in Nat /\ budget \in Nat /\ wbuf' \in Nat
          /\ wbuf' <= wbuf
      BY <1>3, <1>4, MaxWriteAssumption DEF SocketType
    <3>2. wbuf + stuck + budget <= MaxWrite
      BY DEF InductiveInv, WriteBlocks
    <3>3. wbuf' + stuck + budget <= MaxWrite
      BY <3>1, <3>2, LessBytes
    <3> QED
      BY <3>1, <3>3
  <2> QED
    BY <1>1, <1>2, <2>1
    DEF InductiveInv, WriteBlocks, PhaseExact, BufferOnlyAfterReset, NonBlocking
<1>7. CASE UNCHANGED <<interests, registered, added, queue>> /\ (wbuf' = wbuf \/ wbuf' # 0)
  <2>1. LoopType'
    BY <1>2, <1>3, <1>7 DEF LoopType
  <2>2. StateType'
    BY <1>1, <1>3, <1>7 DEF StateType
  <2>3. wbuf > 0 <=> wbuf' > 0
    BY <1>3, <1>4, <1>7 DEF SocketType
  <2>4. Connected => Connected'
    BY <1>1, <1>2, <1>7, <2>3 DEF Connected
  <2>5. Disconnected /\ DestroyIn(queue, 1) => Disconnected'
    BY <1>1, <1>2, <1>7 DEF Disconnected, DestroyAhead
  <2> QED
    BY <1>1, <1>2, <1>5, <1>6, <2>1, <2>2, <2>4, <2>5, TypeParts
    DEF InductiveInv, Stages
<1>8. CASE /\ wbuf' = 0
           /\ ApplyInterest(interests \ {"out"})
           /\ queue' = IF callbacks THEN Append(queue, "writeComplete") ELSE queue
  <2>1. /\ queue' \in Seq(Tasks)
        /\ Connected => Only(queue', 1, {"forceClose", "writeComplete"})
        /\ ~Connected => queue' = queue
    BY <1>2, <1>8, Announced
  <2>2. /\ interests' = interests \ {"out"} /\ added' = TRUE
        /\ registered' = (registered => interests' # {})
    BY <1>8 DEF ApplyInterest
  <2>3. LoopType'
    BY <1>2, <1>3, <2>1 DEF LoopType
  <2>4. StateType'
    BY <1>1, <1>3, <2>2 DEF StateType
  <2>5. Connected => Connected'
    <3>1. Connected => "in" \in interests' /\ "out" \notin interests'
      BY <2>2 DEF Connected
    <3>2. Connected => registered'
      BY <2>2, <3>1
    <3>3. ~(wbuf' > 0)
      BY <1>8
    <3> QED
      BY <1>1, <1>2, <2>1, <3>1, <3>2, <3>3 DEF Connected
  <2>6. ~Connected => Disconnected'
    <3>1. ~Connected => interests' = {}
      BY <1>2, <2>2 DEF Disconnected
    <3> QED
      BY <1>1, <1>2, <2>1, <3>1 DEF Disconnected, DestroyAhead
  <2> QED
    BY <1>1, <1>2, <1>5, <1>6, <2>3, <2>4, <2>5, <2>6, TypeParts
    DEF InductiveInv, Stages
<1> QED
  BY <1>1, <1>7, <1>8

\* write(), that returns or that blocks.
LEMMA WriteInv == InductiveInv /\ Write => InductiveInv'
<1> SUFFICES ASSUME InductiveInv, Write PROVE InductiveInv'
  OBVIOUS
<1> PICK len \in 1..budget :
      budget' = budget - len /\ (WriteDirect(len) \/ WriteBehind(len))
  BY DEF Write
<1>1. /\ cb # "none" /\ stuck = 0
      /\ UNCHANGED <<phase, todo, batch, pos, guest, cb, foreign, state, callbacks,
                     shutWr, peer, inbox, owned, used, ofClient, told>>
  BY DEF Write, Running, loop, refs
<1>2. told # "new"
  BY <1>1, CalledBack
<1>3. LoopType /\ StateType /\ SocketType
  BY TypeParts DEF InductiveInv
<1>4. /\ len \in Nat \ {0} /\ len <= budget /\ budget \in Nat /\ wbuf \in Nat
      /\ Room \in Nat /\ budget' = budget - len /\ budget' \in 0..MaxWrite
      /\ wbuf + budget <= MaxWrite
  <2>1. Room \in Nat
    BY <1>3, SockCapAssumption DEF SocketType, Room
  <2>2. budget \in 0..MaxWrite /\ wbuf \in 0..MaxWrite
    BY <1>3 DEF SocketType
  <2>3. wbuf + 0 + budget <= MaxWrite
    BY <1>1 DEF InductiveInv, WriteBlocks
  <2> QED
    BY <2>1, <2>2, <2>3, MaxWriteAssumption
\* Nothing is buffered.
<1>5. ASSUME UNCHANGED <<wbuf, interests, registered, added>>,
             stuck' = 0 \/ (/\ stuck' = len - Room /\ len > Room
                            /\ ~WriteFails /\ ~NonBlocking),
             queue' \in {queue, IF callbacks THEN Append(queue, "writeComplete")
                                             ELSE queue},
             partial' \in BOOLEAN, intact' = intact, sockErr' \in {sockErr, FALSE},
             sockOut' \in 0..SockCap
      PROVE  InductiveInv'
  <2>1. /\ queue' \in Seq(Tasks)
        /\ Connected => Only(queue', 1, {"forceClose", "writeComplete"})
        /\ ~Connected => queue' = queue
    <3>1. CASE queue' = queue
      BY <1>3, <3>1 DEF LoopType, Connected
    <3>2. CASE queue' = IF callbacks THEN Append(queue, "writeComplete") ELSE queue
      BY <1>2, <3>2, Announced
    <3> QED
      BY <1>5, <3>1, <3>2
  <2>2. /\ stuck' \in 0..MaxWrite
        /\ wbuf' + stuck' + budget' <= MaxWrite
    <3>1. CASE stuck' = 0
      BY <1>4, <1>5, <3>1, MaxWriteAssumption
    <3>2. CASE stuck' = len - Room /\ len > Room
      BY <1>4, <1>5, <3>2, MaxWriteAssumption
    <3> QED
      BY <1>5, <3>1, <3>2
  <2>3. Stages'
    BY <1>1, <1>2, <1>5, <2>1, OutputStages DEF Connected, chan
  <2>4. LoopType'
    BY <1>1, <1>3, <2>1 DEF LoopType
  <2>5. StateType'
    BY <1>1, <1>3, <1>5 DEF StateType
  <2>6. SocketType'
    BY <1>1, <1>3, <1>4, <1>5, <2>2 DEF SocketType
  <2>7. (WriteBlocks /\ PhaseExact /\ BufferOnlyAfterReset)'
    BY <1>1, <1>5, <2>2
    DEF InductiveInv, WriteBlocks, PhaseExact, BufferOnlyAfterReset, NonBlocking,
        WriteFails
  <2> QED
    BY <2>3, <2>4, <2>5, <2>6, <2>7, TypeParts DEF InductiveInv
\* Some or all of the bytes are.
<1>6. ASSUME NEW n \in 1..len, Buffer(n), stuck' = stuck, partial' = partial,
             queue' = queue, intact' \in BOOLEAN, sockErr' = sockErr,
             sockOut' \in 0..SockCap,
             NonBlocking \/ "out" \in interests \/ wbuf > 0
      PROVE  InductiveInv'
  <2>1. /\ wbuf' = wbuf + n
        /\ interests' \in SUBSET {"in", "out"}
        /\ registered' \in BOOLEAN /\ added' \in BOOLEAN
        /\ Connected => /\ registered' /\ "in" \in interests'
                        /\ state = "ESTABLISHED" => "out" \in interests'
        /\ ~Connected => UNCHANGED chan
    BY <1>2, <1>6, Buffered
  <2>2. /\ wbuf' \in 0..MaxWrite /\ wbuf' > 0
        /\ wbuf' + stuck + budget' <= MaxWrite
    BY <1>1, <1>4, <2>1, MaxWriteAssumption
  <2>3. Stages'
    <3>1. Connected => Only(queue', 1, {"forceClose", "writeComplete"})
      BY <1>6 DEF Connected
    <3> QED
      BY <1>1, <1>2, <1>6, <2>1, <2>2, <3>1, OutputStages
  <2>4. LoopType'
    BY <1>1, <1>3, <1>6 DEF LoopType
  <2>5. StateType'
    BY <1>1, <1>3, <2>1 DEF StateType
  <2>6. SocketType'
    BY <1>1, <1>3, <1>4, <1>6, <2>2 DEF SocketType
  <2>7. NonBlocking \/ wbuf > 0
    <3>1. "out" \in interests => wbuf > 0
      BY <1>2, <1>3 DEF InductiveInv, Stages, StateType, Connected, Disconnected,
                        Destroyed
    <3> QED
      BY <1>6, <3>1
  <2>8. (WriteBlocks /\ PhaseExact /\ BufferOnlyAfterReset)'
    BY <1>1, <1>6, <2>2, <2>7
    DEF InductiveInv, WriteBlocks, PhaseExact, BufferOnlyAfterReset, NonBlocking
  <2> QED
    BY <2>3, <2>4, <2>5, <2>6, <2>8, TypeParts DEF InductiveInv
<1>7. SockCap \in 0..SockCap /\ sockOut \in 0..SockCap /\ len \in 1..len
  BY <1>3, <1>4, SockCapAssumption DEF SocketType
<1>8. CASE WriteDirect(len)
  <2>1. CASE /\ WriteFails /\ sockErr' = FALSE
             /\ UNCHANGED <<wbuf, stuck, partial, sockOut, chan, queue>>
    BY <1>1, <1>3, <1>5, <1>7, <1>8, <2>1 DEF WriteDirect, chan, SocketType
  <2>2. CASE ~WriteFails /\ len <= Room /\ Announce /\ sockOut' = sockOut + len
             /\ UNCHANGED <<wbuf, stuck, partial, chan, sockErr>>
    <3>1. sockOut' \in 0..SockCap
      BY <1>4, <1>7, <2>2, SockCapAssumption DEF Room
    <3> QED
      BY <1>1, <1>3, <1>5, <1>8, <2>2, <3>1 DEF WriteDirect, Announce, chan, SocketType
  <2>3. CASE /\ ~WriteFails /\ len > Room /\ NonBlocking
             /\ sockOut' = SockCap
             /\ Buffer(len - Room)
             /\ UNCHANGED <<stuck, partial, sockErr, queue>>
    <3>1. len - Room \in 1..len
      BY <1>4, <2>3
    <3> QED
      BY <1>3, <1>6, <1>7, <1>8, <2>3, <3>1 DEF WriteDirect, SocketType
  <2>4. CASE /\ ~WriteFails /\ len > Room /\ ~NonBlocking
             /\ sockOut' = SockCap
             /\ stuck' = len - Room
             /\ partial' = (Room > 0)
             /\ UNCHANGED <<wbuf, chan, sockErr, queue>>
    BY <1>5, <1>7, <1>8, <2>4 DEF WriteDirect, chan
  <2> QED
    BY <1>8, <2>1, <2>2, <2>3, <2>4 DEF WriteDirect
<1>9. CASE WriteBehind(len)
  BY <1>3, <1>6, <1>7, <1>9 DEF WriteBehind, SocketType
<1> QED
  BY <1>8, <1>9

\* A write() that blocks goes on.
LEMMA WriteGoesOnInv == InductiveInv /\ WriteGoesOn => InductiveInv'
<1> SUFFICES ASSUME InductiveInv, WriteGoesOn PROVE InductiveInv'
  OBVIOUS
<1>1. /\ stuck > 0 /\ stuck' = stuck - Min2(stuck, Room)
      /\ sockOut' = sockOut + Min2(stuck, Room) /\ partial' = (stuck' > 0)
      /\ queue' = queue \/ queue' = IF callbacks THEN Append(queue, "writeComplete")
                                                 ELSE queue
      /\ UNCHANGED <<phase, todo, batch, pos, guest, cb, foreign, state, callbacks,
                     interests, registered, added, wbuf, intact, budget, shutWr,
                     peer, sockErr, inbox, owned, used, ofClient, told>>
  BY DEF WriteGoesOn, Announce, loop, chan, sock, refs
<1>2. told # "new"
  BY <1>1, CalledBack DEF InductiveInv, WriteBlocks
<1>3. LoopType /\ StateType /\ SocketType
  BY TypeParts DEF InductiveInv
<1>4. stuck' \in 0..MaxWrite /\ stuck' \in 0..stuck /\ sockOut' \in 0..SockCap
  <2>1. stuck \in 0..MaxWrite
    BY <1>3 DEF SocketType
  <2> QED
    BY <1>1, <1>3, <2>1, SocketTakes
<1>5. /\ queue' \in Seq(Tasks)
      /\ Connected => Only(queue', 1, {"forceClose", "writeComplete"})
      /\ ~Connected => queue' = queue
  <2>1. CASE queue' = queue
    BY <1>3, <2>1 DEF LoopType, Connected
  <2>2. CASE queue' = IF callbacks THEN Append(queue, "writeComplete") ELSE queue
    BY <1>2, <2>2, Announced
  <2> QED
    BY <1>1, <2>1, <2>2
<1>6. LoopType'
  BY <1>1, <1>3, <1>5 DEF LoopType
<1>7. StateType'
  BY <1>1, <1>3 DEF StateType
<1>8. SocketType'
  BY <1>1, <1>3, <1>4 DEF SocketType
<1>9. Stages'
  BY <1>1, <1>2, <1>5, OutputStages DEF Connected, chan
<1>10. (WriteBlocks /\ PhaseExact /\ BufferOnlyAfterReset)'
  <2>1. wbuf + stuck' + budget <= MaxWrite
    <3>1. /\ wbuf \in Nat /\ stuck \in Nat /\ budget \in Nat /\ stuck' \in Nat
          /\ stuck' <= stuck
      BY <1>3, <1>4, MaxWriteAssumption DEF SocketType
    <3>2. stuck + wbuf + budget <= MaxWrite
      BY <3>1 DEF InductiveInv, WriteBlocks
    <3>3. stuck' + wbuf + budget <= MaxWrite
      BY <3>1, <3>2, LessBytes
    <3> QED
      BY <3>1, <3>3
  <2> QED
    BY <1>1, <2>1
    DEF InductiveInv, WriteBlocks, PhaseExact, BufferOnlyAfterReset, NonBlocking
<1> QED
  BY <1>6, <1>7, <1>8, <1>9, <1>10, TypeParts DEF InductiveInv

\* A reset ends it, and what it has not written is buffered or lost.
LEMMA WriteBreaksInv == InductiveInv /\ WriteBreaks => InductiveInv'
<1> SUFFICES ASSUME InductiveInv, WriteBreaks PROVE InductiveInv'
  OBVIOUS
<1>1. /\ stuck > 0 /\ stuck' = 0 /\ partial' = FALSE /\ WriteFails
      /\ sockErr' \in {sockErr, FALSE}
      /\ Buffer(stuck) \/ UNCHANGED <<wbuf, chan>>
      /\ UNCHANGED <<phase, todo, batch, pos, guest, queue, cb, foreign, state,
                     callbacks, intact, sockOut, budget, shutWr, peer, inbox, owned,
                     used, ofClient, told>>
  BY DEF WriteBreaks, loop, refs
<1>2. told # "new" /\ peer = "reset"
  BY <1>1, CalledBack DEF InductiveInv, WriteBlocks, WriteFails
<1>3. LoopType /\ StateType /\ SocketType
  BY TypeParts DEF InductiveInv
<1>4. /\ interests' \in SUBSET {"in", "out"}
      /\ registered' \in BOOLEAN /\ added' \in BOOLEAN
      /\ Connected => /\ registered' /\ "in" \in interests'
                      /\ state = "ESTABLISHED" /\ wbuf' > 0 => "out" \in interests'
      /\ ~Connected => UNCHANGED chan
  <2>1. CASE Buffer(stuck)
    BY <1>2, <2>1, Buffered
  <2>2. CASE UNCHANGED <<wbuf, chan>>
    BY <1>3, <2>2 DEF chan, Connected, StateType
  <2> QED
    BY <1>1, <2>1, <2>2
<1>5. /\ wbuf' \in Nat /\ wbuf' <= wbuf + stuck /\ wbuf' >= wbuf
      /\ wbuf \in Nat /\ stuck \in Nat /\ budget \in Nat
      /\ wbuf' > 0 \/ UNCHANGED <<wbuf, chan>>
  <2>1. wbuf \in Nat /\ stuck \in Nat /\ budget \in Nat
    BY <1>3, MaxWriteAssumption DEF SocketType
  <2>2. CASE Buffer(stuck)
    BY <1>1, <1>2, <2>1, <2>2, Buffered
  <2>3. CASE UNCHANGED <<wbuf, chan>>
    BY <2>1, <2>3
  <2> QED
    BY <1>1, <2>1, <2>2, <2>3
<1>6. Connected => ("out" \in interests' => wbuf' > 0)
  BY <1>5 DEF Connected, chan
<1>7. wbuf' \in 0..MaxWrite /\ wbuf' + stuck' + budget' <= MaxWrite
  <2>1. wbuf + stuck + budget <= MaxWrite
    BY DEF InductiveInv, WriteBlocks
  <2>2. wbuf' \in 0..MaxWrite /\ wbuf' + 0 + budget <= MaxWrite
    BY <1>5, <2>1, BufferedFits
  <2>3. stuck' = 0 /\ budget' = budget
    BY <1>1
  <2> QED
    BY <2>2, <2>3
<1>8. LoopType'
  BY <1>1, <1>3 DEF LoopType
<1>9. StateType'
  BY <1>1, <1>3, <1>4 DEF StateType
<1>10. SocketType'
  <2>1. stuck' \in 0..MaxWrite
    BY <1>1, MaxWriteAssumption
  <2>2. sockErr' \in BOOLEAN
    BY <1>1, <1>3 DEF SocketType
  <2> QED
    BY <1>1, <1>3, <1>7, <2>1, <2>2 DEF SocketType
<1>11. Stages'
  <2>1. Connected => Only(queue', 1, {"forceClose", "writeComplete"})
    BY <1>1 DEF Connected
  <2> QED
    BY <1>1, <1>2, <1>4, <1>6, <2>1, OutputStages
<1>12. (WriteBlocks /\ PhaseExact /\ BufferOnlyAfterReset)'
  BY <1>1, <1>2, <1>7
  DEF InductiveInv, WriteBlocks, PhaseExact, BufferOnlyAfterReset
<1> QED
  BY <1>8, <1>9, <1>10, <1>11, <1>12, TypeParts DEF InductiveInv

-----------------------------------------------------------------------------
(* forceClose(). *)

\* The exchange, on either thread.
LEMMA ToldToClose ==
  ASSUME InductiveInv, Exchange({"ESTABLISHED"}, "DISCONNECTING"), told' = told,
         UNCHANGED <<todo, batch, pos, wbuf, owned, interests, registered>>,
         queue' \in {queue, Append(queue, "forceClose")}
  PROVE  /\ Stages' /\ queue' \in Seq(Tasks)
         /\ told = "open" /\ Connected
<1>1. told = "open" /\ Connected
  BY TypeParts
  DEF InductiveInv, Stages, StateType, Exchange, NotYetEstablished, Disconnected,
      Destroyed
<1>2. queue \in Seq(Tasks) /\ "forceClose" \in Tasks
  BY TypeParts DEF InductiveInv, LoopType, Tasks
<1>3. /\ Append(queue, "forceClose") \in Seq(Tasks)
      /\ Only(Append(queue, "forceClose"), 1, {"forceClose", "writeComplete"})
  <2>1. Only(queue, 1, {"forceClose", "writeComplete"})
    BY <1>1 DEF Connected
  <2> QED
    BY <1>2, <2>1, AppendProperties, OnlyPush
<1>4. state' = "DISCONNECTING"
  BY DEF Exchange
<1>5. Connected'
  BY <1>1, <1>3, <1>4 DEF Connected
<1> QED
  BY <1>1, <1>2, <1>3, <1>5 DEF Stages

LEMMA ForceCloseInv ==
  InductiveInv /\ (ForceClose \/ ForeignForceClose) => InductiveInv' /\ told = "open"
<1> SUFFICES ASSUME InductiveInv, ForceClose \/ ForeignForceClose
             PROVE  InductiveInv' /\ told = "open"
  OBVIOUS
<1>1. /\ Exchange({"ESTABLISHED"}, "DISCONNECTING")
      /\ foreign' \in {foreign, "queueing"}
      /\ queue' \in {queue, Append(queue, "forceClose")}
      /\ UNCHANGED <<phase, todo, batch, pos, guest, cb, callbacks, interests,
                     registered, added, wbuf, intact, stuck, partial, sockOut,
                     budget, shutWr, peer, sockErr, inbox, owned, used, ofClient,
                     told>>
  BY DEF ForceClose, ForeignForceClose, loop, chan, out, sock, refs
<1>2. Stages' /\ queue' \in Seq(Tasks) /\ told = "open" /\ Connected
  BY <1>1, ToldToClose
<1>3. state = "ESTABLISHED" /\ state' = "DISCONNECTING"
  BY <1>1 DEF Exchange
<1>4. LoopType'
  BY <1>1, <1>2, TypeParts DEF LoopType, InductiveInv
<1>5. StateType'
  BY <1>1, <1>3, TypeParts DEF StateType, InductiveInv
<1>6. SocketType'
  BY <1>1, TypeParts DEF SocketType, InductiveInv
<1>7. (WriteBlocks /\ PhaseExact /\ BufferOnlyAfterReset)'
  BY <1>1
  DEF InductiveInv, WriteBlocks, PhaseExact, BufferOnlyAfterReset, NonBlocking
<1> QED
  BY <1>2, <1>4, <1>5, <1>6, <1>7, TypeParts DEF InductiveInv

\* The task of another thread's call arrives, perhaps after all is over.
LEMMA ForeignQueueInv == InductiveInv /\ ForeignQueue => InductiveInv'
<1> SUFFICES ASSUME InductiveInv, ForeignQueue PROVE InductiveInv'
  OBVIOUS
<1>1. /\ foreign = "queueing" /\ foreign' = "idle"
      /\ queue' = Append(queue, "forceClose")
      /\ UNCHANGED <<phase, todo, batch, pos, guest, cb, state, callbacks, interests,
                     registered, added, wbuf, intact, stuck, partial, sockOut,
                     budget, shutWr, peer, sockErr, inbox, owned, used, ofClient,
                     told>>
  BY DEF ForeignQueue, loop, chan, out, sock, refs
<1>2. told # "new"
  BY <1>1 DEF InductiveInv, Stages, NotYetEstablished
<1>3. queue \in Seq(Tasks) /\ "forceClose" \in Tasks
  BY TypeParts DEF InductiveInv, LoopType, Tasks
<1>4. /\ queue' \in Seq(Tasks)
      /\ \A T : Only(queue, 1, T) /\ "forceClose" \in T => Only(queue', 1, T)
      /\ DestroyIn(queue, 1) => DestroyIn(queue', 1)
  BY <1>1, <1>3, AppendProperties, OnlyPush, DestroyInPush
<1>5. LoopType'
  BY <1>1, <1>4, TypeParts DEF LoopType, InductiveInv
<1>6. StateType'
  BY <1>1, TypeParts DEF StateType, InductiveInv
<1>7. SocketType'
  BY <1>1, TypeParts DEF SocketType, InductiveInv
<1>8. Connected => Connected'
  BY <1>1, <1>4 DEF Connected
<1>9. Disconnected => Disconnected'
  BY <1>1, <1>4 DEF Disconnected, DestroyAhead
<1>10. Destroyed => Destroyed'
  BY <1>1, <1>4 DEF Destroyed
<1>11. (WriteBlocks /\ PhaseExact /\ BufferOnlyAfterReset)'
  BY <1>1
  DEF InductiveInv, WriteBlocks, PhaseExact, BufferOnlyAfterReset, NonBlocking
<1> QED
  BY <1>1, <1>2, <1>5, <1>6, <1>7, <1>8, <1>9, <1>10, <1>11, TypeParts
  DEF InductiveInv, Stages

-----------------------------------------------------------------------------
(* The theorems. *)

LEMMA InductiveStep == InductiveInv /\ [Next]_vars => InductiveInv'
<1> SUFFICES ASSUME InductiveInv, [Next]_vars PROVE InductiveInv'
  OBVIOUS
<1>1. CASE Next
  BY <1>1, QuietInv, ReadInv, ReadEofInv, HandleWriteInv, SwapInv, EstablishInv,
     RunForceCloseInv, RunWriteCompleteInv, RunDestroyInv, EndIterationInv,
     WriteGoesOnInv, WriteBreaksInv, PollInv, WriteInv, ForceCloseInv,
     ForeignQueueInv
  DEF Next, Loop
<1>2. CASE UNCHANGED vars
  BY <1>2
  DEF vars, loop, chan, out, sock, refs, InductiveInv, TypeOK, Stages,
      NotYetEstablished, Connected, Disconnected, Destroyed, DestroyAhead,
      WriteBlocks, PhaseExact, BufferOnlyAfterReset, NonBlocking
<1> QED
  BY <1>1, <1>2

LEMMA Invariance == SafeSpec => []InductiveInv
BY InitInv, InductiveStep, PTL DEF SafeSpec

\* Types, for any socket, any number of bytes and both owners.
THEOREM TypeCorrect == SafeSpec => []TypeOK
<1>1. InductiveInv => TypeOK
  BY DEF InductiveInv
<1> QED
  BY <1>1, Invariance, PTL

\* A task that holds a pointer, executed or not, keeps the connection.
LEMMA TaskHolds ==
  ASSUME NEW s \in {batch, queue}, NEW i \in DOMAIN s, s[i] \in Holding
  PROVE  Alive
<1>1. s[i] \in ToSet(s)
  BY DEF ToSet
<1>2. s[i] \in ToSet(batch) \cup ToSet(queue)
  BY <1>1
<1> QED
  BY <1>2 DEF Alive

\* It is gone only after connectDestroyed().
LEMMA GoneLast ==
  ASSUME InductiveInv, ~Alive
  PROVE  Destroyed
<1>1. LoopType /\ StateType
  BY TypeParts DEF InductiveInv
<1>2. ~owned
  BY DEF Alive
<1>3. told = "closed" \/ (told = "open" /\ Disconnected)
  BY <1>1, <1>2 DEF InductiveInv, Stages, StateType, NotYetEstablished, Connected
<1>4. ~DestroyAhead
  <2>1. ASSUME NEW s \in {batch, queue}, NEW first \in Nat \ {0}
        PROVE  ~DestroyIn(s, first)
    <3>1. s \in Seq(Tasks)
      BY <1>1 DEF LoopType
    <3>2. \A i \in DOMAIN s : s[i] # "destroy"
      BY TaskHolds DEF Holding
    <3> QED
      BY <3>1, <3>2, LenProperties DEF DestroyIn
  <2>2. pos \in Nat \ {0}
    BY <1>1 DEF LoopType
  <2> QED
    BY <2>1, <2>2 DEF DestroyAhead
<1> QED
  BY <1>3, <1>4 DEF Disconnected, InductiveInv, Stages

\* The callbacks of the channel and the tasks find the connection: the tasks
\* ahead of the loop hold it until connectDestroyed(), and after that one those of
\* forceClose() do.
THEOREM NothingDangles == SafeSpec => []NoUseAfterFree
<1>1. InductiveInv => NoUseAfterFree
  <2> SUFFICES ASSUME InductiveInv, ~Alive
               PROVE  /\ todo = <<>> /\ queue = <<>>
                      /\ \A i \in DOMAIN batch : ~(i >= pos)
    BY DEF NoUseAfterFree
  <2>1. Destroyed
    BY GoneLast
  <2>2. queue \in Seq(Tasks) /\ batch \in Seq(Tasks) /\ pos \in Nat \ {0}
    BY TypeParts DEF InductiveInv, LoopType
  <2>3. queue = <<>>
    <3>1. SUFFICES ASSUME queue # <<>> PROVE FALSE
      OBVIOUS
    <3>2. 1 \in DOMAIN queue
      BY <2>2, <3>1, EmptySeq, LenProperties
    <3>3. queue[1] = "forceClose"
      BY <2>1, <2>2, <3>2, OnlyFirst DEF Destroyed
    <3> QED
      BY <3>2, <3>3, TaskHolds DEF Holding
  <2>4. ASSUME NEW i \in DOMAIN batch, i >= pos PROVE FALSE
    <3>1. batch[i] = "forceClose"
      BY <2>1, <2>2, <2>4, LenProperties DEF Destroyed, Only
    <3> QED
      BY <3>1, TaskHolds DEF Holding
  <2> QED
    BY <2>1, <2>3, <2>4 DEF Destroyed
<1> QED
  BY <1>1, Invariance, PTL

\* The assertions of ~TcpConnection(), ~Channel() and remove(): there is one task
\* that destroys, nothing is watched for after handleClose(), and the connection
\* is gone only when that task was executed.
THEOREM NoAssertionFails == SafeSpec => []AssertionsHold
<1>1. InductiveInv => AssertionsHold
  <2>1. ASSUME InductiveInv, ~Alive
        PROVE  state = "DISCONNECTED" /\ ~added /\ ~registered
    BY <2>1, GoneLast DEF Destroyed
  <2>2. ASSUME InductiveInv, AtTask("destroy")
        PROVE  interests = {} /\ state = "DISCONNECTED"
    <3>1. LoopType /\ StateType
      BY <2>2, TypeParts DEF InductiveInv
    <3>2. pos \in DOMAIN batch /\ batch[pos] = "destroy"
      BY <2>2 DEF AtTask
    <3>3. ~Connected
      BY <3>1, <3>2, OnlyFirst DEF Connected, LoopType
    <3>4. told # "new"
      <4>1. /\ <<"establish">>[1] = "establish" /\ DOMAIN <<>> = {}
            /\ <<"establish">> # <<>>
        OBVIOUS
      <4> QED
        BY <2>2, <3>2, <4>1 DEF InductiveInv, Stages, NotYetEstablished
    <3> QED
      BY <2>2, <3>1, <3>3, <3>4
      DEF InductiveInv, Stages, StateType, Disconnected, Destroyed
  <2> QED
    BY <2>1, <2>2 DEF AssertionsHold
<1> QED
  BY <1>1, Invariance, PTL

\* In epoll_wait an established connection watches for EPOLLOUT exactly when it
\* has bytes buffered and a registered one for EPOLLIN, and EPOLLOUT is reported
\* in vain only after a reset or after shutdown() on a client's socket.
THEOREM InterestsAreExact == SafeSpec => []InterestsExact
<1>1. InductiveInv => InterestsExact
  <2> SUFFICES ASSUME InductiveInv PROVE InterestsExact
    OBVIOUS
  <2>1. StateType /\ BufferOnlyAfterReset
    BY TypeParts DEF InductiveInv
  <2>2. state = "ESTABLISHED" => ("out" \in interests <=> wbuf > 0)
    BY <2>1
    DEF InductiveInv, Stages, StateType, NotYetEstablished, Connected, Disconnected,
        Destroyed
  <2>3. phase = "wait" /\ registered => "in" \in interests
    BY <2>1
    DEF InductiveInv, Stages, StateType, NotYetEstablished, Connected, Disconnected,
        Destroyed
  <2>4. "out" \in interests => wbuf > 0
    BY <2>1
    DEF InductiveInv, Stages, StateType, NotYetEstablished, Connected, Disconnected,
        Destroyed
  <2>5. InVain => peer = "reset" \/ (NonBlocking /\ shutWr)
    BY <2>1, <2>4 DEF InVain, WriteReady, WriteFails, BufferOnlyAfterReset
  <2> QED
    BY <2>1, <2>2, <2>3, <2>5 DEF InterestsExact
<1> QED
  BY <1>1, Invariance, PTL

-----------------------------------------------------------------------------

\* Every step is one of the life that the program sees, or changes nothing of it.
LEMMA LifeStep ==
  ASSUME InductiveInv, [Next]_vars
  PROVE  [Life!Next]_(Life!vars)
<1> DEFINE calls == IF cb = "guest" THEN "none" ELSE cb
           ending == peer # "open" \/ state \in {"DISCONNECTING", "DISCONNECTED"}
<1>1. StateType /\ peer \in {"open", "fin", "reset"}
  BY TypeParts DEF InductiveInv, SocketType
\* The end comes nearer, and is never taken back.
<1>2. ASSUME UNCHANGED <<told, calls>>, ending => ending'
      PROVE  [Life!Next]_(Life!vars)
  BY <1>2 DEF Life!Next, Life!End, Life!vars
<1>3. CASE Return
  BY <1>1, <1>3 DEF Return, sock, Life!Next, Life!Return, Life!vars
<1>4. CASE ReadMessage \/ RunWriteComplete
  <2>1. told = "open" /\ cb = "none"
    <3>1. CASE ReadMessage
      BY <3>1, CallbackOpen DEF ReadMessage
    <3>2. CASE RunWriteComplete
      <4>1. cb = "none" /\ told # "new" /\ ~Destroyed
        BY <3>2, TaskTaken DEF RunWriteComplete
      <4> QED
        BY <1>1, <4>1 DEF InductiveInv, Stages, StateType
    <3> QED
      BY <1>4, <3>1, <3>2
  <2>2. /\ cb' \in {"message", "writeComplete", "none"}
        /\ UNCHANGED <<told, state, peer>>
    BY <1>4 DEF ReadMessage, RunWriteComplete, sock
  <2> QED
    BY <2>1, <2>2 DEF Life!Next, Life!Inform, Life!vars
<1>5. CASE Establish
  <2>1. told = "new" /\ cb = "none" /\ state = "CONNECTING"
    BY <1>5, EstablishInv DEF InductiveInv, Stages, NotYetEstablished
  <2>2. cb' = "connect" /\ told' = "open" /\ state' = "ESTABLISHED" /\ peer' = peer
    BY <1>5 DEF Establish, sock
  <2> QED
    BY <2>1, <2>2 DEF Life!Next, Life!Connect, Life!vars
<1>6. CASE RunDestroy
  <2>1. told = "open" /\ Disconnected /\ cb = "none"
    BY <1>6, RunDestroyInv DEF RunDestroy, TakeTask, AtTask, LoopFree
  <2>2. cb' = "close" /\ told' = "closed" /\ state' = state /\ peer' = peer
    BY <1>6 DEF RunDestroy, sock
  <2> QED
    BY <2>1, <2>2 DEF Disconnected, Life!Next, Life!Close, Life!vars
<1>7. CASE ReadEof \/ RunForceClose
  BY <1>2, <1>7 DEF ReadEof, RunForceClose, HandleClose, Exchange, sock
<1>8. CASE ForceClose \/ ForeignForceClose
  BY <1>2, <1>8 DEF ForceClose, ForeignForceClose, Exchange, sock
<1>9. CASE Peer
  BY <1>2, <1>9 DEF Peer
<1>10. CASE BeginGuest
  BY <1>2, <1>10 DEF BeginGuest, LoopFree, sock
<1>11. CASE \/ ReadError \/ HandleWrite \/ Swap \/ EndIteration \/ WriteGoesOn
            \/ WriteBreaks \/ Poll \/ Write \/ Shutdown \/ ForeignQueue
            \/ OwnerReleases \/ DropPointer \/ UNCHANGED vars
  <2>1. UNCHANGED <<told, cb, state, peer>>
    BY <1>11
    DEF ReadError, HandleWrite, Swap, EndIteration, WriteGoesOn, WriteBreaks, Poll,
        Write, Shutdown, ForeignQueue, OwnerReleases, DropPointer, vars, sock
  <2> QED
    BY <1>2, <2>1
<1> QED
  BY <1>3, <1>4, <1>5, <1>6, <1>7, <1>8, <1>9, <1>10, <1>11 DEF Next, Loop

\* The program is called back as ConnectionLife promises, the connect callback
\* first and once, the close callback last and once and only at the end.
THEOREM ConnectionLives == SafeSpec => Life!SafeSpec
<1>1. Init => Life!Init
  BY DEF Init, Life!Init
<1>2. InductiveInv /\ [Next]_vars => [Life!Next]_(Life!vars)
  BY LifeStep
<1> QED
  BY <1>1, <1>2, Invariance, PTL DEF SafeSpec, Life!SafeSpec

-----------------------------------------------------------------------------
(* The buffers of a connection. *)

\* InBounds with the types it needs.
BufferInv ==
  /\ cap \in Nat /\ head \in Nat /\ tail \in Nat
  /\ InBounds

\* A step that puts s behind the contents, and one that takes n bytes away.
Puts(s) ==
  /\ tail' - head' = tail - head + Len(s)
  /\ \A i \in 0..(tail - head - 1) : memory'[head' + i] = memory[head + i]
  /\ \A i \in 1..Len(s) : memory'[head' + (tail - head) + i - 1] = s[i]

Takes(n) ==
  /\ tail' - head' = tail - head - n
  /\ \A i \in 0..(tail - head - n - 1) :
       memory'[head' + i] = memory[head + n + i]

-----------------------------------------------------------------------------
(* Sequences of bytes. *)

LEMMA ChunkIsSeq ==
  ASSUME NEW s \in Chunk
  PROVE  s \in Seq(Byte) /\ Len(s) \in Nat /\ \A i \in 1..Len(s) : s[i] \in Byte
<1>1. PICK k \in 0..MaxChunk : s \in [1..k -> Byte]  BY DEF Chunk
<1>2. k \in Nat  BY BoundAssumption
<1>3. s \in Seq(Byte)  BY <1>1, <1>2, SeqDef
<1> QED  BY <1>3, LenProperties, ElementOfSeq

\* What a block shows between two pointers.
LEMMA BetweenIsSeq ==
  ASSUME NEW block, NEW from \in Nat, NEW to \in Nat, from <= to,
         \A i \in from..(to - 1) : block[i] \in Byte
  PROVE  /\ Between(block, from, to) \in Seq(Byte)
         /\ Len(Between(block, from, to)) = to - from
         /\ \A i \in 1..(to - from) :
              Between(block, from, to)[i] = block[from + i - 1]
<1> DEFINE q == Between(block, from, to)
<1>1. \A i \in 1..(to - from) : from + i - 1 \in from..(to - 1)  OBVIOUS
<1>2. q \in [1..(to - from) -> Byte]  BY <1>1 DEF Between
<1>3. q \in Seq(Byte)  BY <1>2, SeqDef
<1>4. DOMAIN q = 1..(to - from)  BY DEF Between
<1>5. Len(q) = to - from  BY <1>3, <1>4, LenProperties
<1>6. \A i \in 1..(to - from) : q[i] = block[from + i - 1]  BY DEF Between
<1> QED  BY <1>3, <1>5, <1>6

\* Copying, and moving to a longer block.
LEMMA CopiedBytes ==
  ASSUME NEW s \in Seq(Byte), NEW n \in Nat, NEW block, NEW at \in Nat,
         DOMAIN block = 0..(n - 1), at + Len(s) <= n
  PROVE  /\ DOMAIN Copied(s, block, at) = 0..(n - 1)
         /\ \A i \in 0..(n - 1) :
              Copied(s, block, at)[i] =
                IF at <= i /\ i < at + Len(s) THEN s[i - at + 1] ELSE block[i]
         /\ \A i \in at..(at + Len(s) - 1) : Copied(s, block, at)[i] \in Byte
<1>1. Len(s) \in Nat  BY LenProperties
<1>2. /\ DOMAIN Copied(s, block, at) = 0..(n - 1)
      /\ \A i \in 0..(n - 1) :
           Copied(s, block, at)[i] =
             IF at <= i /\ i < at + Len(s) THEN s[i - at + 1] ELSE block[i]
  BY DEF Copied
<1>3. ASSUME NEW i \in at..(at + Len(s) - 1)
      PROVE  Copied(s, block, at)[i] \in Byte
  <2>1. i \in 0..(n - 1) /\ i - at + 1 \in 1..Len(s)  BY <1>1
  <2>2. s[i - at + 1] \in Byte  BY <2>1, ElementOfSeq
  <2> QED  BY <1>1, <1>2, <2>1, <2>2
<1> QED  BY <1>2, <1>3

-----------------------------------------------------------------------------
(* The initial state, and one lemma per action. *)

LEMMA BufferBegins == BufferInit => BufferInv
BY SizeAssumption DEF BufferInit, BufferInv, InBounds

\* A read that fits in the room behind the contents.
LEMMA ReadFits ==
  ASSUME BufferInv, NEW s \in Seq(Byte), Len(s) <= cap - tail,
         memory' = Copied(s, memory, tail), tail' = tail + Len(s),
         UNCHANGED <<cap, head>>
  PROVE  BufferInv' /\ Puts(s)
<1>1. Len(s) \in Nat  BY LenProperties
<1>2. /\ DOMAIN memory' = 0..(cap - 1)
      /\ \A i \in 0..(cap - 1) :
           memory'[i] = IF tail <= i /\ i < tail + Len(s) THEN s[i - tail + 1]
                                                         ELSE memory[i]
      /\ \A i \in tail..(tail + Len(s) - 1) : memory'[i] \in Byte
  BY <1>1, CopiedBytes DEF BufferInv, InBounds
<1>3. \A i \in head..(tail - 1) : memory'[i] = memory[i]
  BY <1>2, SizeAssumption DEF BufferInv, InBounds
<1>4. \A i \in head..(tail' - 1) : memory'[i] \in Byte
  BY <1>1, <1>2, <1>3 DEF BufferInv, InBounds
<1>5. BufferInv'
  BY <1>1, <1>2, <1>4, SizeAssumption DEF BufferInv, InBounds
<1>6. Puts(s)
  <2>1. \A i \in 0..(tail - head - 1) : memory'[head' + i] = memory[head + i]
    <3>1. head \in Nat /\ tail \in Nat
      BY DEF BufferInv
    <3>2. \A i \in 0..(tail - head - 1) : head + i \in head..(tail - 1)
      BY <3>1
    <3> QED  BY <1>3, <3>2
  <2>2. ASSUME NEW i \in 1..Len(s)
        PROVE  memory'[head' + (tail - head) + i - 1] = s[i]
    <3>1. PICK j \in 0..(cap - 1) : j = tail + i - 1
      BY <1>1 DEF BufferInv, InBounds
    <3>2. tail <= j /\ j < tail + Len(s) /\ j - tail + 1 = i
          /\ head' + (tail - head) + i - 1 = j
      BY <1>1, <3>1 DEF BufferInv
    <3>3. memory'[j] = s[j - tail + 1]  BY <1>2, <3>2
    <3> QED  BY <3>2, <3>3
  <2>3. tail' - head' = tail - head + Len(s)  BY <1>1 DEF BufferInv
  <2> QED  BY <2>1, <2>2, <2>3 DEF Puts
<1> QED  BY <1>5, <1>6

\* A read that needs a longer block: what came first is part of what upResize()
\* moves, the rest is copied behind it.
LEMMA ReadGrows ==
  ASSUME BufferInv, NEW s \in Seq(Byte), Len(s) > cap - tail,
         cap' = tail + Len(s), tail' = cap', head' = head,
         memory' = Copied(SubSeq(s, cap - tail + 1, Len(s)),
                          Resized(Copied(SubSeq(s, 1, cap - tail), memory, tail),
                                  head, cap, cap'), cap)
  PROVE  BufferInv' /\ Puts(s)
<1>1. Len(s) \in Nat /\ \A i \in 1..Len(s) : s[i] \in Byte
  BY LenProperties, ElementOfSeq
<1>2. /\ cap \in Nat /\ head \in Nat /\ tail \in Nat /\ cap' \in Nat
      /\ head <= tail /\ tail <= cap /\ cap <= cap'
      /\ DOMAIN memory = 0..(cap - 1)
      /\ \A i \in head..(tail - 1) : memory[i] \in Byte
  BY <1>1 DEF BufferInv, InBounds
<1>3. PICK room \in Nat : room = cap - tail  BY <1>2
<1>4. tail + room = cap /\ room < Len(s) /\ cap' = cap + (Len(s) - room)
  BY <1>1, <1>2, <1>3
<1>5. PICK one : one = SubSeq(s, 1, room)  OBVIOUS
<1>6. PICK two : two = SubSeq(s, room + 1, Len(s))  OBVIOUS
<1>7. one \in Seq(Byte) /\ Len(one) = room /\ \A i \in 1..room : one[i] = s[i]
  <2>1. \A i \in 1..room : s[i] \in Byte  BY <1>1, <1>4
  <2>2. /\ one \in Seq(Byte) /\ Len(one) = IF 1 <= room THEN room - 1 + 1 ELSE 0
        /\ \A i \in 1..(room - 1 + 1) : one[i] = s[1 + i - 1]
    BY <1>5, <2>1, SubSeqProperties
  <2>3. \A i \in Int : 1 + i - 1 = i  OBVIOUS
  <2> QED  BY <2>2, <2>3
<1>8. /\ two \in Seq(Byte) /\ Len(two) = Len(s) - room
      /\ \A i \in 1..(Len(s) - room) : two[i] = s[room + i]
  <2>1. \A i \in (room + 1)..Len(s) : s[i] \in Byte  BY <1>1
  <2>2. /\ two \in Seq(Byte)
        /\ Len(two) = IF room + 1 <= Len(s) THEN Len(s) - (room + 1) + 1 ELSE 0
        /\ \A i \in 1..(Len(s) - (room + 1) + 1) : two[i] = s[room + 1 + i - 1]
    BY <1>1, <1>6, <2>1, SubSeqProperties
  <2>3. room + 1 <= Len(s) /\ Len(s) - (room + 1) + 1 = Len(s) - room  BY <1>1, <1>4
  <2>4. \A i \in Int : room + 1 + i - 1 = room + i  OBVIOUS
  <2> QED  BY <2>2, <2>3, <2>4
<1>9. PICK n \in Nat : n = cap'  BY <1>2
<1>10. PICK first : first = Copied(one, memory, tail)  OBVIOUS
<1>11. PICK longer : longer = Resized(first, head, cap, n)  OBVIOUS
<1>12. memory' = Copied(two, longer, cap)
  BY <1>3, <1>5, <1>6, <1>9, <1>10, <1>11
<1>13. cap + Len(two) = n /\ cap <= n  BY <1>2, <1>4, <1>8, <1>9
<1>14. /\ \A i \in 0..(cap - 1) :
            first[i] = IF tail <= i /\ i < tail + Len(one) THEN one[i - tail + 1]
                                                           ELSE memory[i]
       /\ \A i \in tail..(tail + Len(one) - 1) : first[i] \in Byte
  <2>1. tail + Len(one) <= cap  BY <1>2, <1>4, <1>7
  <2>2. tail \in Nat /\ cap \in Nat /\ DOMAIN memory = 0..(cap - 1)  BY <1>2
  <2>3. one \in Seq(Byte)  BY <1>7
  <2> QED  BY ONLY <1>10, <2>1, <2>2, <2>3, CopiedBytes
<1>15. /\ DOMAIN longer = 0..(n - 1)
       /\ \A i \in 0..(n - 1) :
            longer[i] = IF head <= i /\ i < cap THEN first[i] ELSE Junk
  BY ONLY <1>11 DEF Resized
<1>16. PICK block : block = memory'  OBVIOUS
<1>17. /\ DOMAIN block = 0..(n - 1)
       /\ \A i \in 0..(n - 1) :
            block[i] = IF cap <= i /\ i < cap + Len(two) THEN two[i - cap + 1]
                                                         ELSE longer[i]
       /\ \A i \in cap..(cap + Len(two) - 1) : block[i] \in Byte
  <2>1. cap + Len(two) <= n  BY <1>13
  <2>2. cap \in Nat /\ n \in Nat  BY <1>2
  <2>3. two \in Seq(Byte)  BY <1>8
  <2>4. DOMAIN longer = 0..(n - 1)  BY <1>15
  <2>5. block = Copied(two, longer, cap)  BY <1>12, <1>16
  <2> QED  BY ONLY <2>1, <2>2, <2>3, <2>4, <2>5, CopiedBytes
<1>18. \A i \in head..(cap - 1) : block[i] = first[i]
  <2>1. ASSUME NEW i \in head..(cap - 1) PROVE block[i] = first[i]
    <3>1. i \in 0..(n - 1) /\ head <= i /\ i < cap  BY <1>2, <1>13
    <3>2. longer[i] = first[i]  BY <1>15, <3>1
    <3>3. block[i] = longer[i]  BY <1>2, <1>17, <3>1
    <3> QED  BY <3>2, <3>3
  <2> QED  BY <2>1
<1>19. \A i \in head..(tail - 1) : block[i] = memory[i]
  <2>1. ASSUME NEW i \in head..(tail - 1) PROVE block[i] = memory[i]
    <3>1. i \in head..(cap - 1) /\ i \in 0..(cap - 1) /\ ~(tail <= i)
      BY <1>2
    <3>2. first[i] = memory[i]  BY <1>14, <3>1
    <3> QED  BY <1>18, <3>1, <3>2
  <2> QED  BY <2>1
<1>20. \A i \in head..(n - 1) : block[i] \in Byte
  <2>1. ASSUME NEW i \in head..(n - 1) PROVE block[i] \in Byte
    <3>1. CASE i < tail
      <4>1. i \in head..(tail - 1)  BY <1>2, <3>1
      <4> QED  BY <1>2, <1>19, <4>1
    <3>2. CASE tail <= i /\ i < cap
      <4>1. i \in tail..(tail + Len(one) - 1) /\ i \in head..(cap - 1)
        BY <1>2, <1>4, <1>7, <3>2
      <4> QED  BY <1>14, <1>18, <4>1
    <3>3. CASE cap <= i
      <4>1. i \in cap..(cap + Len(two) - 1)  BY <1>2, <1>13, <3>3
      <4> QED  BY <1>17, <4>1
    <3> QED  BY <1>2, <3>1, <3>2, <3>3
  <2> QED  BY <2>1
<1>21. BufferInv'
  <2>1. DOMAIN memory' = 0..(cap' - 1) /\ \A i \in head'..(tail' - 1) : memory'[i] \in Byte
    BY <1>9, <1>16, <1>17, <1>20
  <2>2. HeadRoom <= head' /\ head' <= tail' /\ tail' <= cap'
    BY <1>2, SizeAssumption DEF BufferInv, InBounds
  <2>3. cap' \in Nat /\ head' \in Nat /\ tail' \in Nat  BY <1>2
  <2> QED  BY <2>1, <2>2, <2>3 DEF BufferInv, InBounds
<1>22. Puts(s)
  <2>1. \A i \in 0..(tail - head - 1) : memory'[head' + i] = memory[head + i]
    <3>1. \A i \in 0..(tail - head - 1) : head + i \in head..(tail - 1)  BY <1>2
    <3> QED  BY <1>16, <1>19, <3>1
  <2>2. tail' - head' = tail - head + Len(s)  BY <1>1, <1>2
  <2>3. ASSUME NEW i \in 1..Len(s)
        PROVE  block[head + (tail - head) + i - 1] = s[i]
    <3>1. PICK j \in tail..(n - 1) : j = tail + i - 1
      <4>1. i \in Nat /\ i > 0 /\ i <= Len(s) /\ Len(s) \in Nat
        BY <1>1
      <4>2. n = tail + Len(s) /\ tail \in Nat
        BY <1>2, <1>4, <1>9, <4>1
      <4>3. tail + i - 1 \in tail..(n - 1)
        BY <4>1, <4>2
      <4> QED  BY <4>3
    <3>2. head + (tail - head) + i - 1 = j  BY <1>2, <3>1
    <3>3. CASE j < cap
      <4>1. j \in head..(cap - 1) /\ j \in 0..(cap - 1) /\ tail <= j
            /\ j < tail + Len(one) /\ j - tail + 1 = i /\ i \in 1..room
        BY <1>2, <1>4, <1>7, <3>1, <3>3
      <4>2. first[j] = one[j - tail + 1]  BY <1>14, <4>1
      <4>3. block[j] = first[j]  BY <1>18, <4>1
      <4> QED  BY <1>7, <3>2, <4>1, <4>2, <4>3
    <3>4. CASE cap <= j
      <4>1. PICK k \in 1..(Len(s) - room) : k = j - cap + 1
        BY <1>1, <1>2, <1>4, <1>9, <3>1, <3>4
      <4>2. room + k = i  BY <1>2, <1>4, <3>1, <4>1
      <4>3. j \in 0..(n - 1) /\ cap <= j /\ j < cap + Len(two)
        BY <1>2, <1>13, <3>1, <3>4
      <4>4. block[j] = two[j - cap + 1]  BY <1>17, <4>3
      <4>5. two[k] = s[room + k]  BY <1>8, <4>1
      <4> QED  BY <3>2, <4>1, <4>2, <4>4, <4>5
    <3> QED  BY <1>2, <3>1, <3>3, <3>4
  <2>4. \A i \in 1..Len(s) : memory'[head' + (tail - head) + i - 1] = s[i]
    BY <1>16, <2>3
  <2> QED  BY <2>1, <2>2, <2>4 DEF Puts
<1> QED  BY <1>21, <1>22

LEMMA ReadFdStep ==
  ASSUME BufferInv, NEW s \in Chunk, ReadFd(s)
  PROVE  BufferInv' /\ Puts(s)
<1>1. s \in Seq(Byte) /\ Len(s) \in Nat  BY ChunkIsSeq
<1>2. CASE Len(s) <= cap - tail
  BY <1>1, <1>2, ReadFits DEF ReadFd, BufferInv
<1>3. CASE Len(s) > cap - tail
  <2>1. Len(SubSeq(s, cap - tail + 1, Len(s))) = Len(s) - (cap - tail)
    <3>1. \A i \in (cap - tail + 1)..Len(s) : s[i] \in Byte
      BY <1>1, ChunkIsSeq DEF BufferInv, InBounds
    <3> QED  BY <1>1, <1>3, <3>1, SubSeqProperties DEF BufferInv
  <2>2. cap' = tail + Len(s)
    BY <1>1, <1>3, <2>1 DEF ReadFd, BufferInv
  <2>3. /\ tail' = cap' /\ head' = head
        /\ memory' = Copied(SubSeq(s, cap - tail + 1, Len(s)),
                            Resized(Copied(SubSeq(s, 1, cap - tail), memory, tail),
                                    head, cap, cap'), cap)
    BY <1>1, <1>3 DEF ReadFd, BufferInv
  <2> QED  BY <1>1, <1>3, <2>2, <2>3, ReadGrows
<1> QED  BY <1>1, <1>2, <1>3 DEF BufferInv

LEMMA AppendInPlaceStep ==
  ASSUME BufferInv, NEW s \in Chunk, AppendInPlace(s)
  PROVE  BufferInv' /\ Puts(s)
<1>1. s \in Seq(Byte) /\ Len(s) \in Nat  BY ChunkIsSeq
<1>2. Len(s) <= cap - tail
  BY <1>1, SizeAssumption DEF AppendInPlace, Grows, EndRoom, Slack, BufferInv, InBounds
<1> QED  BY <1>1, <1>2, ReadFits DEF AppendInPlace

\* The contents move to HeadRoom before the new bytes are put behind them.
LEMMA AppendAlignedStep ==
  ASSUME BufferInv, NEW s \in Chunk, AppendAligned(s)
  PROVE  BufferInv' /\ Puts(s)
<1> DEFINE size  == tail - head
           first == Aligned
<1>1. s \in Seq(Byte) /\ Len(s) \in Nat  BY ChunkIsSeq
<1>2. /\ cap \in Nat /\ head \in Nat /\ tail \in Nat /\ size \in Nat
      /\ HeadRoom \in Nat /\ HeadRoom < head /\ tail <= cap
      /\ HeadRoom + size + Len(s) <= cap
  BY <1>1, SizeAssumption DEF AppendAligned, Grows, EndRoom, Slack, BufferInv, InBounds
<1>3. /\ Contents \in Seq(Byte) /\ Len(Contents) = size
      /\ \A i \in 1..size : Contents[i] = memory[head + i - 1]
  BY <1>2, BetweenIsSeq DEF Contents, BufferInv, InBounds
<1>4. /\ DOMAIN first = 0..(cap - 1)
      /\ \A i \in 0..(cap - 1) :
           first[i] = IF HeadRoom <= i /\ i < HeadRoom + size
                      THEN Contents[i - HeadRoom + 1] ELSE memory[i]
      /\ \A i \in HeadRoom..(HeadRoom + size - 1) : first[i] \in Byte
  <2> HIDE DEF size
  <2>1. DOMAIN memory = 0..(cap - 1)  BY DEF BufferInv, InBounds
  <2>2. HeadRoom + Len(Contents) <= cap  BY <1>1, <1>2, <1>3
  <2> QED  BY <1>2, <1>3, <2>1, <2>2, CopiedBytes DEF Aligned
<1> HIDE DEF first
<1>5. /\ DOMAIN memory' = 0..(cap - 1)
      /\ \A i \in 0..(cap - 1) :
           memory'[i] = IF HeadRoom + size <= i /\ i < HeadRoom + size + Len(s)
                        THEN s[i - (HeadRoom + size) + 1] ELSE first[i]
      /\ \A i \in (HeadRoom + size)..(HeadRoom + size + Len(s) - 1) :
           memory'[i] \in Byte
  <2>1. memory' = Copied(s, first, HeadRoom + size)  BY DEF AppendAligned, first
  <2>2. HeadRoom + size \in Nat  BY <1>2
  <2> HIDE DEF size
  <2> QED  BY <1>1, <1>2, <1>4, <2>1, <2>2, CopiedBytes
<1>6. head' = HeadRoom /\ tail' = HeadRoom + size + Len(s) /\ cap' = cap
  BY DEF AppendAligned
<1>7. \A i \in 0..(size - 1) : memory'[HeadRoom + i] = first[HeadRoom + i]
  <2> HIDE DEF size
  <2> QED  BY <1>1, <1>2, <1>5
<1>8. \A i \in 0..(size - 1) : memory'[HeadRoom + i] = memory[head + i]
  <2>1. ASSUME NEW i \in 0..(size - 1)
        PROVE  memory'[HeadRoom + i] = memory[head + i]
    <3> HIDE DEF size
    <3>1. HeadRoom + i \in 0..(cap - 1) /\ HeadRoom <= HeadRoom + i
          /\ HeadRoom + i < HeadRoom + size
      BY <1>1, <1>2
    <3>2. first[HeadRoom + i] = Contents[i + 1]
      <4> DEFINE j == HeadRoom + i
      <4>1. j \in 0..(cap - 1) /\ HeadRoom <= j /\ j < HeadRoom + size
        BY <3>1
      <4>2. j - HeadRoom + 1 = i + 1  BY <1>2
      <4>3. HeadRoom + i = j  OBVIOUS
      <4> HIDE DEF j
      <4>4. first[j] = Contents[j - HeadRoom + 1]  BY <1>4, <4>1
      <4> QED  BY <4>2, <4>3, <4>4
    <3>3. i + 1 \in 1..size /\ head + (i + 1) - 1 = head + i
      BY <1>2
    <3> QED  BY <1>3, <1>7, <3>2, <3>3
  <2> QED  BY <2>1
<1>9. \A i \in HeadRoom..(tail' - 1) : memory'[i] \in Byte
  <2>1. ASSUME NEW i \in HeadRoom..(tail' - 1), i < HeadRoom + size
        PROVE  memory'[i] \in Byte
    <3>1. i - HeadRoom \in 0..(size - 1) /\ HeadRoom + (i - HeadRoom) = i
          /\ i \in HeadRoom..(HeadRoom + size - 1)
      BY <1>2, <1>6, <2>1
    <3> QED  BY <1>4, <1>7, <3>1
  <2>2. ASSUME NEW i \in HeadRoom..(tail' - 1), i >= HeadRoom + size
        PROVE  memory'[i] \in Byte
    BY <1>1, <1>2, <1>5, <1>6, <2>2
  <2> QED  BY <1>1, <1>2, <1>6, <2>1, <2>2
<1>10. BufferInv'
  BY <1>1, <1>2, <1>5, <1>6, <1>9 DEF BufferInv, InBounds
<1>11. Puts(s)
  <2>1. \A i \in 0..(size - 1) : memory'[head' + i] = memory[head + i]
    BY <1>6, <1>8
  <2>2. tail' - head' = size + Len(s)  BY <1>1, <1>2, <1>6
  <2>3. ASSUME NEW i \in 1..Len(s)
        PROVE  memory'[HeadRoom + size + i - 1] = s[i]
    <3> HIDE DEF size
    <3>1. PICK j \in 0..(cap - 1) : j = HeadRoom + size + i - 1  BY <1>1, <1>2
    <3>2. HeadRoom + size <= j /\ j < HeadRoom + size + Len(s)
          /\ j - (HeadRoom + size) + 1 = i
      BY <1>1, <1>2, <3>1
    <3>3. memory'[j] = s[j - (HeadRoom + size) + 1]  BY <1>5, <3>2
    <3> QED  BY <3>1, <3>2, <3>3
  <2> QED  BY <1>6, <2>1, <2>2, <2>3 DEF Puts
<1> QED  BY <1>10, <1>11

\* The new block is long enough, because the contents begin at HeadRoom.
LEMMA AppendGrownStep ==
  ASSUME BufferInv, NEW s \in Chunk, AppendGrown(s)
  PROVE  BufferInv' /\ Puts(s)
<1> DEFINE longer == Resized(memory, head, tail, cap')
<1>1. s \in Seq(Byte) /\ Len(s) \in Nat  BY ChunkIsSeq
<1>2. /\ cap \in Nat /\ head \in Nat /\ tail \in Nat
      /\ head = HeadRoom /\ head <= tail /\ head' = head
      /\ cap' = tail + Len(s) /\ tail' = cap' /\ cap' \in Nat
  BY <1>1, SizeAssumption
     DEF AppendGrown, Grows, EndRoom, Slack, Overruns, BufferInv, InBounds
<1>3. /\ DOMAIN longer = 0..(cap' - 1)
      /\ \A i \in 0..(cap' - 1) :
           longer[i] = IF head <= i /\ i < tail THEN memory[i] ELSE Junk
  BY DEF Resized
<1> HIDE DEF longer
<1>4. /\ DOMAIN memory' = 0..(cap' - 1)
      /\ \A i \in 0..(cap' - 1) :
           memory'[i] = IF tail <= i /\ i < tail + Len(s) THEN s[i - tail + 1]
                                                         ELSE longer[i]
      /\ \A i \in tail..(tail + Len(s) - 1) : memory'[i] \in Byte
  <2>1. memory' = Copied(s, longer, tail)  BY DEF AppendGrown, longer
  <2>2. tail + Len(s) <= cap' /\ tail \in Nat /\ cap' \in Nat  BY <1>1, <1>2
  <2>3. DOMAIN longer = 0..(cap' - 1)  BY <1>3
  <2> DEFINE copy == Copied(s, longer, tail)
  <2>4. /\ DOMAIN copy = 0..(cap' - 1)
        /\ \A i \in 0..(cap' - 1) :
             copy[i] = IF tail <= i /\ i < tail + Len(s) THEN s[i - tail + 1]
                                                       ELSE longer[i]
        /\ \A i \in tail..(tail + Len(s) - 1) : copy[i] \in Byte
    BY ONLY <1>1, <2>2, <2>3, CopiedBytes
  <2> QED  BY <2>1, <2>4
<1>5. \A i \in head..(tail - 1) : memory'[i] = memory[i]
  BY <1>1, <1>2, <1>3, <1>4
<1>6. \A i \in head..(tail' - 1) : memory'[i] \in Byte
  BY <1>1, <1>2, <1>4, <1>5 DEF BufferInv, InBounds
<1>7. BufferInv'  BY <1>1, <1>2, <1>4, <1>6 DEF BufferInv, InBounds
<1>8. Puts(s)
  <2>1. \A i \in 0..(tail - head - 1) : memory'[head' + i] = memory[head + i]
    BY <1>2, <1>5
  <2>2. tail' - head' = tail - head + Len(s)  BY <1>1, <1>2
  <2>3. ASSUME NEW i \in 1..Len(s)
        PROVE  memory'[head' + (tail - head) + i - 1] = s[i]
    <3>1. PICK j \in 0..(cap' - 1) : j = tail + i - 1  BY <1>1, <1>2
    <3>2. tail <= j /\ j < tail + Len(s) /\ j - tail + 1 = i
          /\ head' + (tail - head) + i - 1 = j
      BY <1>1, <1>2, <3>1
    <3>3. memory'[j] = s[j - tail + 1]  BY <1>4, <3>2
    <3> QED  BY <3>2, <3>3
  <2> QED  BY <2>1, <2>2, <2>3 DEF Puts
<1> QED  BY <1>7, <1>8

LEMMA AppendOverrunStep ==
  ASSUME BufferInv, NEW s \in Chunk, AppendOverrun(s)
  PROVE  BufferInv' /\ UNCHANGED <<Contents, given>>
BY DEF AppendOverrun, BufferInv, InBounds, Contents

\* What readFd() or append() was given is what the model remembers.
LEMMA GivenIsChunk ==
  ASSUME NEW s, ReadFd(s) \/ AppendInPlace(s) \/ AppendAligned(s) \/ AppendGrown(s)
  PROVE  given' = s
BY DEF ReadFd, AppendInPlace, AppendAligned, AppendGrown

LEMMA PopFrontStep ==
  ASSUME BufferInv, NEW n \in 0..(tail - head), PopFront(n)
  PROVE  BufferInv' /\ Takes(n)
<1>1. n \in Nat /\ HeadRoom \in Nat  BY SizeAssumption DEF BufferInv, InBounds
<1>2. CASE n = tail - head
  BY <1>1, <1>2 DEF PopFront, BufferInv, InBounds, Takes
<1>3. CASE n # tail - head
  BY <1>1, <1>3 DEF PopFront, BufferInv, InBounds, Takes
<1> QED  BY <1>2, <1>3

LEMMA PopAllStep ==
  ASSUME BufferInv, PopAll
  PROVE  BufferInv' /\ Takes(tail - head)
BY SizeAssumption DEF PopAll, BufferInv, InBounds, Takes

LEMMA NextInv == BufferInv /\ [BufferNext]_bufferVars => BufferInv'
<1> SUFFICES ASSUME BufferInv, [BufferNext]_bufferVars PROVE BufferInv'  OBVIOUS
<1>1. CASE UNCHANGED bufferVars  BY <1>1 DEF bufferVars, BufferInv, InBounds
<1>2. CASE BufferNext
  BY <1>2, ReadFdStep, AppendInPlaceStep, AppendAlignedStep, AppendGrownStep,
     AppendOverrunStep, PopFrontStep, PopAllStep DEF BufferNext, AppendBytes
<1> QED  BY <1>1, <1>2

\* For every size and head room, the contents of the buffer lie in its block and
\* consist of bytes that were given to it (or an append() has overrun the block,
\* and the model has stopped).
THEOREM ContentsInBounds == BufferSpec => []InBounds
<1>1. BufferInv => InBounds  BY DEF BufferInv
<1> QED  BY <1>1, BufferBegins, NextInv, PTL DEF BufferSpec

-----------------------------------------------------------------------------
(* The refinement. *)

LEMMA ContentsIsSeq ==
  ASSUME BufferInv
  PROVE  /\ Contents \in Seq(Byte)
         /\ Len(Contents) = tail - head /\ tail - head \in Nat
         /\ \A i \in 1..(tail - head) : Contents[i] = memory[head + i - 1]
<1>1. /\ head \in Nat /\ tail \in Nat /\ head <= tail
      /\ \A i \in head..(tail - 1) : memory[i] \in Byte
  BY DEF BufferInv, InBounds
<1>2. tail - head \in Nat  BY <1>1
<1> QED  BY <1>1, <1>2, BetweenIsSeq DEF Contents

LEMMA ContentsIsSeqNext ==
  ASSUME BufferInv'
  PROVE  /\ Contents' \in Seq(Byte)
         /\ Len(Contents') = tail' - head' /\ tail' - head' \in Nat
         /\ \A i \in 1..(tail' - head') : Contents'[i] = memory'[head' + i - 1]
<1>1. head' \in Nat /\ tail' \in Nat /\ head' <= tail'
  BY DEF BufferInv, InBounds
<1>2. \A i \in head'..(tail' - 1) : memory'[i] \in Byte
  BY DEF BufferInv, InBounds
<1>3. tail' - head' \in Nat
  <2>1. \A a, b \in Nat : a <= b => b - a \in Nat  OBVIOUS
  <2> QED  BY ONLY <1>1, <2>1
<1>4. Contents' = Between(memory', head', tail')  BY DEF Contents
<1> QED  BY ONLY <1>1, <1>2, <1>3, <1>4, BetweenIsSeq

LEMMA PutsIsPut ==
  ASSUME BufferInv, BufferInv', NEW s \in Seq(Byte), Puts(s), given' = s
  PROVE  Queue!Next
<1> DEFINE n == tail - head
<1>1. /\ Contents \in Seq(Byte) /\ Len(Contents) = n /\ n \in Nat
      /\ head \in Nat /\ head' \in Nat /\ Len(s) \in Nat
      /\ \A i \in 1..n : Contents[i] = memory[head + i - 1]
  BY ContentsIsSeq, LenProperties DEF BufferInv
<1>2. /\ Contents' \in Seq(Byte) /\ Len(Contents') = n + Len(s)
      /\ \A i \in 1..(n + Len(s)) : Contents'[i] = memory'[head' + i - 1]
  BY ContentsIsSeqNext DEF Puts
<1>3. PICK both : both = Contents \o s  OBVIOUS
<1>4. /\ both \in Seq(Byte) /\ Len(both) = n + Len(s)
      /\ \A i \in 1..(n + Len(s)) :
           both[i] = IF i <= n THEN Contents[i] ELSE s[i - n]
  <2> HIDE DEF n
  <2> QED  BY <1>1, <1>3, ConcatProperties
<1>5. ASSUME NEW i \in 1..(n + Len(s))
      PROVE  Contents'[i] = both[i]
  <2>1. CASE i <= n
    <3>1. i - 1 \in 0..(n - 1) /\ i \in 1..n  BY <1>1, <2>1
    <3>2. memory'[head' + (i - 1)] = memory[head + (i - 1)]  BY <3>1 DEF Puts
    <3>3. head' + (i - 1) = head' + i - 1 /\ head + (i - 1) = head + i - 1
      BY <1>1
    <3>4. both[i] = Contents[i]  BY <1>4, <2>1
    <3>5. Contents'[i] = memory'[head' + i - 1]  BY <1>2
    <3> QED  BY <1>1, <3>1, <3>2, <3>3, <3>4, <3>5
  <2>2. CASE i > n
    <3>1. PICK j \in 1..Len(s) : j = i - n  BY <1>1, <2>2
    <3>2. memory'[head' + n + j - 1] = s[j]  BY <3>1 DEF Puts
    <3>3. head' + n + j - 1 = head' + i - 1 /\ ~(i <= n)  BY <1>1, <2>2, <3>1
    <3>4. both[i] = s[i - n]  BY <1>4, <3>3
    <3>5. Contents'[i] = memory'[head' + i - 1]  BY <1>2
    <3> QED  BY <3>1, <3>2, <3>3, <3>4, <3>5
  <2> QED  BY <1>1, <2>1, <2>2
<1>6. Contents' = both
  <2> HIDE DEF n
  <2> QED  BY <1>2, <1>4, <1>5, SeqEqual
<1> QED  BY <1>3, <1>6 DEF Queue!Next, Queue!Put

LEMMA TakesIsTake ==
  ASSUME BufferInv, BufferInv', NEW n \in 0..(tail - head), Takes(n),
         given' = <<>>
  PROVE  Queue!Next
<1> DEFINE size == tail - head
           rest == SubSeq(Contents, n + 1, size)
<1>1. /\ Contents \in Seq(Byte) /\ Len(Contents) = size /\ size \in Nat
      /\ n \in Nat /\ n <= size
      /\ head \in Nat /\ head' \in Nat
      /\ \A i \in 1..size : Contents[i] = memory[head + i - 1]
  BY ContentsIsSeq DEF BufferInv
<1>2. /\ Contents' \in Seq(Byte) /\ Len(Contents') = size - n
      /\ \A i \in 1..(size - n) : Contents'[i] = memory'[head' + i - 1]
  BY ContentsIsSeqNext DEF Takes
<1>3. /\ rest \in Seq(Byte) /\ Len(rest) = size - n
      /\ \A i \in 1..(size - n) : rest[i] = Contents[n + i]
  <2> HIDE DEF size
  <2>1. \A i \in (n + 1)..size : Contents[i] \in Byte
    BY <1>1, ElementOfSeq
  <2>2. /\ rest \in Seq(Byte)
        /\ Len(rest) = IF n + 1 <= size THEN size - (n + 1) + 1 ELSE 0
        /\ \A i \in 1..(size - (n + 1) + 1) : rest[i] = Contents[n + 1 + i - 1]
    BY <1>1, <2>1, SubSeqProperties
  <2>3. size - (n + 1) + 1 = size - n /\ \A i \in Int : n + 1 + i - 1 = n + i
    BY <1>1
  <2> QED  BY <1>1, <2>2, <2>3
<1>4. \A i \in 1..(size - n) : Contents'[i] = rest[i]
  <2>1. ASSUME NEW i \in 1..(size - n) PROVE Contents'[i] = rest[i]
    <3>1. i - 1 \in 0..(size - n - 1)  BY <1>1
    <3>2. memory'[head' + (i - 1)] = memory[head + n + (i - 1)]
      BY <3>1 DEF Takes
    <3>3. /\ head' + (i - 1) = head' + i - 1
          /\ head + n + (i - 1) = head + (n + i) - 1
          /\ n + i \in 1..size
      BY <1>1
    <3> QED  BY <1>1, <1>2, <1>3, <3>2, <3>3
  <2> QED  BY <2>1
<1>5. Contents' = rest
  <2> HIDE DEF size, rest
  <2> QED  BY <1>2, <1>3, <1>4, SeqEqual
<1> QED  BY <1>1, <1>5 DEF Queue!Next, Queue!Take

\* Every buffer, of any size and head room and through any calls, is a queue of
\* the bytes that were put in it: each read and append puts all of its bytes, in
\* order, behind the contents, each popFront() takes from their front, and no
\* moving of the block changes them.
THEOREM BufferIsQueue == BufferSpec => Queue!Spec
<1>1. BufferInit => Queue!Init
  <2> SUFFICES ASSUME BufferInit PROVE Contents = <<>>  BY DEF BufferInit, Queue!Init
  <2>1. Contents \in Seq(Byte) /\ Len(Contents) = 0
    BY BufferBegins, ContentsIsSeq DEF BufferInit, BufferInv
  <2> QED  BY <2>1, EmptySeq
<1>2. BufferInv /\ BufferInv' /\ [BufferNext]_bufferVars
        => [Queue!Next]_<<Contents, given>>
  <2> SUFFICES ASSUME BufferInv, BufferInv', [BufferNext]_bufferVars
               PROVE  [Queue!Next]_<<Contents, given>>
    OBVIOUS
  <2>1. CASE UNCHANGED bufferVars
    BY <2>1 DEF bufferVars, Contents
  <2>2. ASSUME NEW s \in Chunk,
               ReadFd(s) \/ AppendInPlace(s) \/ AppendAligned(s) \/ AppendGrown(s)
        PROVE  Queue!Next
    <3>1. Puts(s)
      BY <2>2, ReadFdStep, AppendInPlaceStep, AppendAlignedStep, AppendGrownStep
    <3>2. given' = s  BY <2>2, GivenIsChunk
    <3> QED  BY <3>1, <3>2, ChunkIsSeq, PutsIsPut
  <2>3. ASSUME NEW s \in Chunk, AppendOverrun(s)
        PROVE  UNCHANGED <<Contents, given>>
    BY <2>3, AppendOverrunStep
  <2>4. ASSUME NEW n \in 0..(tail - head), PopFront(n)
        PROVE  Queue!Next
    <3>1. given' = <<>>  BY <2>4 DEF PopFront
    <3> QED  BY <2>4, <3>1, PopFrontStep, TakesIsTake
  <2>5. ASSUME PopAll PROVE Queue!Next
    <3>1. tail - head \in 0..(tail - head)  BY ContentsIsSeq
    <3>2. given' = <<>>  BY <2>5 DEF PopAll
    <3> QED  BY <2>5, <3>1, <3>2, PopAllStep, TakesIsTake
  <2> QED  BY <2>1, <2>2, <2>3, <2>4, <2>5 DEF BufferNext, AppendBytes
<1> QED  BY <1>1, <1>2, BufferBegins, NextInv, PTL DEF BufferSpec, Queue!Spec
=============================================================================
