-------------------------- MODULE ThreadPool_proofs --------------------------
(***************************************************************************)
(* Proofs about ThreadPool, and about what stands on it.  For any number of *)
(* threads, any bound of the queue and any number of calls, no signal is    *)
(* lost: this uses the assumptions of ThreadPool only.  With those of       *)
(* LoopPool and ServerLife: for any number of io loops, they are ready when *)
(* the constructor returns, and for any number of descriptors the acceptor  *)
(* knows its spare one.                                                    *)
(***************************************************************************)
EXTENDS ServerLife, FiniteSetTheorems, WellFoundedInduction, TLAPS

\* The size of a set of threads, and of the set with one thread more or less.
LEMMA Counting ==
  ASSUME NEW S, IsFiniteSet(S), NEW T \in SUBSET S
  PROVE  /\ Cardinality(T) \in Nat
         /\ Cardinality(T) = 0 <=> T = {}
         /\ \A x : x \in T => Cardinality(T \ {x}) = Cardinality(T) - 1
         /\ \A x : x \notin T => Cardinality(T \cup {x}) = Cardinality(T) + 1
<1>1. IsFiniteSet(T)  BY FS_Subset
<1>2. Cardinality(T) \in Nat /\ (Cardinality(T) = 0 <=> T = {})
  BY <1>1, FS_CardinalityType, FS_EmptySet
<1>3. \A x : x \in T => Cardinality(T \ {x}) = Cardinality(T) - 1
  BY <1>1, FS_RemoveElement
<1>4. \A x : x \notin T => Cardinality(T \cup {x}) = Cardinality(T) + 1
  BY <1>1, FS_AddElement
<1> QED  BY <1>2, <1>3, <1>4

\* The same of the threads on their way to a task, and of those to a place.
LEMMA CountTaking ==
  /\ Cardinality(Taking) \in Nat
  /\ Cardinality(Taking) = 0 <=> Taking = {}
  /\ \A w : w \in Taking => Cardinality(Taking \ {w}) = Cardinality(Taking) - 1
  /\ \A w : w \notin Taking => Cardinality(Taking \cup {w}) = Cardinality(Taking) + 1
<1>1. Taking \in SUBSET Worker  BY DEF Taking
<1> QED  BY <1>1, ThreadsAssumption, Counting

LEMMA CountAdding ==
  /\ Cardinality(Adding) \in Nat
  /\ Cardinality(Adding) = 0 <=> Adding = {}
  /\ \A a : a \in Adding => Cardinality(Adding \ {a}) = Cardinality(Adding) - 1
  /\ \A a : a \notin Adding => Cardinality(Adding \cup {a}) = Cardinality(Adding) + 1
<1>1. Adding \in SUBSET Adder  BY DEF Adding
<1> QED  BY <1>1, ThreadsAssumption, Counting

-----------------------------------------------------------------------------
(* The initial state, and one lemma per action. *)

LEMMA InitInv == Init => InductiveInv
<1> SUFFICES ASSUME Init PROVE InductiveInv  OBVIOUS
<1>1. TypeOK  BY SizesAssumption DEF Init, TypeOK
<1>2. Idle = {} /\ Blocked = {}  BY DEF Init, Idle, Blocked
<1> QED  BY <1>1, <1>2 DEF Init, InductiveInv, NobodyStranded, BlockedByBound

\* What one wait that returns does to the sets.
LEMMA WorkerWoken ==
  ASSUME TypeOK, NEW w \in Idle, worker' = [worker EXCEPT ![w] = "take"]
  PROVE  /\ Idle' = Idle \ {w}
         /\ w \notin Taking /\ Taking' = Taking \cup {w}
         /\ worker' \in [Worker -> {"test", "take", "notEmpty", "task", "exited"}]
BY DEF TypeOK, Idle, Taking

LEMMA AdderWoken ==
  ASSUME TypeOK, NEW a \in Blocked, adder' = [adder EXCEPT ![a] = "add"]
  PROVE  /\ Blocked' = Blocked \ {a}
         /\ a \notin Adding /\ Adding' = Adding \cup {a}
         /\ adder' \in [Adder -> {"out", "add", "notFull"}]
BY DEF TypeOK, Blocked, Adding

\* Threads that neither wait nor are woken leave the sets alone.
LEMMA WorkersAlone == worker' = worker => Idle' = Idle /\ Taking' = Taking
BY DEF Idle, Taking

LEMMA AddersAlone == adder' = adder => Blocked' = Blocked /\ Adding' = Adding
BY DEF Blocked, Adding

LEMMA WakeSpuriouslyInv == InductiveInv /\ WakeSpuriously => InductiveInv'
<1> SUFFICES ASSUME InductiveInv, WakeSpuriously PROVE InductiveInv'  OBVIOUS
<1> USE DEF InductiveInv, NobodyStranded, BlockedByBound
<1>1. CASE /\ \E w \in Idle : worker' = [worker EXCEPT ![w] = "take"]
           /\ UNCHANGED <<adder, clear>>
  <2> PICK w \in Idle : worker' = [worker EXCEPT ![w] = "take"]  BY <1>1
  <2>1. TypeOK'  BY <1>1, WorkerWoken DEF WakeSpuriously, TypeOK
  <2>2. Cardinality(Taking') = Cardinality(Taking) + 1 /\ Idle' \subseteq Idle
    BY WorkerWoken, CountTaking
  <2>3. Blocked' = Blocked /\ Adding' = Adding  BY <1>1, AddersAlone
  <2> QED  BY <1>1, <2>1, <2>2, <2>3, CountTaking DEF WakeSpuriously, TypeOK
<1>2. CASE /\ \E a \in Blocked : adder' = [adder EXCEPT ![a] = "add"]
           /\ UNCHANGED <<worker, clear>>
  <2> PICK a \in Blocked : adder' = [adder EXCEPT ![a] = "add"]  BY <1>2
  <2>1. TypeOK'  BY <1>2, AdderWoken DEF WakeSpuriously, TypeOK
  <2>2. Cardinality(Adding') = Cardinality(Adding) + 1 /\ Blocked' \subseteq Blocked
    BY AdderWoken, CountAdding
  <2>3. Idle' = Idle /\ Taking' = Taking  BY <1>2, WorkersAlone
  <2> QED
    BY <1>2, <2>1, <2>2, <2>3, CountAdding, SizesAssumption DEF WakeSpuriously, TypeOK
<1>3. CASE clear = "isEmpty" /\ clear' = "out" /\ UNCHANGED <<worker, adder>>
  <2>1. TypeOK'  BY <1>3 DEF WakeSpuriously, TypeOK
  <2> QED  BY <1>3, <2>1, WorkersAlone, AddersAlone DEF WakeSpuriously
<1> QED  BY <1>1, <1>2, <1>3 DEF WakeSpuriously

LEMMA TestRunningInv ==
  ASSUME InductiveInv, NEW w \in Worker, TestRunning(w)
  PROVE  InductiveInv'
<1> USE DEF InductiveInv, NobodyStranded, BlockedByBound
<1>1. TypeOK'  BY DEF TestRunning, TypeOK
<1>2. Idle' = Idle  BY DEF TestRunning, TypeOK, Idle
<1>3. Taking' = Taking \/ (w \notin Taking /\ Taking' = Taking \cup {w})
  BY DEF TestRunning, TypeOK, Taking
<1>4. Idle' # {} => size <= Cardinality(Taking)'
  BY <1>2, <1>3, CountTaking DEF TypeOK
<1>5. Blocked' = Blocked /\ Adding' = Adding  BY AddersAlone DEF TestRunning
<1> QED  BY <1>1, <1>2, <1>4, <1>5 DEF TestRunning

\* Who waits for a task has found none.
LEMMA AwaitTaskInv ==
  ASSUME InductiveInv, NEW w \in Worker, AwaitTask(w)
  PROVE  InductiveInv'
<1> USE DEF InductiveInv, NobodyStranded, BlockedByBound
<1>1. TypeOK'  BY DEF AwaitTask, TypeOK
<1>2. Taking' = Taking \ {w} /\ w \in Taking  BY DEF AwaitTask, TypeOK, Taking
<1>3. Cardinality(Taking)' \in Nat  BY <1>2, CountTaking
<1>4. Blocked' = Blocked /\ Adding' = Adding  BY AddersAlone DEF AwaitTask
<1> QED  BY <1>1, <1>3, <1>4 DEF AwaitTask, TypeOK

LEMMA TakeInv ==
  ASSUME InductiveInv, NEW w \in Worker, Take(w)
  PROVE  InductiveInv'
<1> USE DEF InductiveInv, NobodyStranded, BlockedByBound, Take, TakeSignalling
<1>1. /\ worker' \in [Worker -> {"test", "take", "notEmpty", "task", "exited"}]
      /\ size' \in Nat /\ size' = size - 1 /\ size' < size
      /\ clear' \in {"out", "isEmpty"}
      /\ clear' = "isEmpty" => size' > 0
  BY DEF TypeOK
<1>2. Idle' = Idle /\ Taking' = Taking \ {w} /\ w \in Taking
  BY DEF TypeOK, Idle, Taking
<1>3. Idle' # {} => size' <= Cardinality(Taking)'
  BY <1>1, <1>2, CountTaking DEF TypeOK
<1>4. CASE adder' = adder /\ (Blocked = {} \/ MaxQueueSize = 0)
  <2>1. Blocked' = {}
    BY <1>4, AddersAlone, SizesAssumption
  <2>2. TypeOK'  BY <1>1, <1>4, SizesAssumption DEF TypeOK
  <2> QED  BY <1>1, <1>2, <1>3, <2>1, <2>2
<1>5. CASE \E a \in Blocked : adder' = [adder EXCEPT ![a] = "add"]
  <2> PICK a \in Blocked : adder' = [adder EXCEPT ![a] = "add"]  BY <1>5
  <2>4. adder' \in [Adder -> {"out", "add", "notFull"}]  BY AdderWoken
  <2> HIDE DEF Take, TakeSignalling
  <2>5. running' = running /\ adds' = adds /\ owner' = owner
    BY DEF Take, TakeSignalling
  <2>1. TypeOK'  BY <1>1, <2>4, <2>5, SizesAssumption DEF TypeOK
  <2>2. Cardinality(Adding)' = Cardinality(Adding) + 1 /\ Blocked' \subseteq Blocked
    BY AdderWoken, CountAdding
  <2>3. MaxQueueSize <= size' + Cardinality(Adding)'
    BY <1>1, <2>2, CountAdding, SizesAssumption DEF TypeOK
  <2> QED  BY <1>1, <1>2, <1>3, <2>1, <2>2, <2>3, <2>5
<1> QED  BY <1>4, <1>5, SizesAssumption DEF NotifyNotFull

LEMMA TakeNothingInv ==
  ASSUME InductiveInv, NEW w \in Worker, TakeNothing(w)
  PROVE  InductiveInv'
<1> USE DEF InductiveInv, NobodyStranded, BlockedByBound
<1>1. TypeOK'  BY DEF TakeNothing, TypeOK
<1>2. Idle' = Idle  BY DEF TakeNothing, TypeOK, Idle
<1>3. Blocked' = Blocked /\ Adding' = Adding  BY AddersAlone DEF TakeNothing
<1> QED  BY <1>1, <1>2, <1>3 DEF TakeNothing

LEMMA EndTaskInv ==
  ASSUME InductiveInv, NEW w \in Worker, EndTask(w)
  PROVE  InductiveInv'
<1> USE DEF InductiveInv, NobodyStranded, BlockedByBound
<1>1. TypeOK'  BY DEF EndTask, TypeOK
<1>2. Idle' = Idle /\ Taking' = Taking  BY DEF EndTask, TypeOK, Idle, Taking
<1>3. Blocked' = Blocked /\ Adding' = Adding  BY AddersAlone DEF EndTask
<1> QED  BY <1>1, <1>2, <1>3 DEF EndTask

LEMMA CallAddTaskInv ==
  ASSUME InductiveInv, NEW a \in Adder, CallAddTask(a)
  PROVE  InductiveInv'
<1> USE DEF InductiveInv, NobodyStranded, BlockedByBound
<1>1. TypeOK'  BY SizesAssumption DEF CallAddTask, TypeOK
<1>2. Blocked' = Blocked  BY DEF CallAddTask, TypeOK, Blocked
<1>3. a \notin Adding /\ Adding' = Adding \cup {a}
  BY DEF CallAddTask, TypeOK, Adding
<1>4. Cardinality(Adding)' = Cardinality(Adding) + 1  BY <1>3, CountAdding
<1>5. Idle' = Idle /\ Taking' = Taking  BY WorkersAlone DEF CallAddTask
<1> QED
  BY <1>1, <1>2, <1>4, <1>5, CountAdding, SizesAssumption DEF CallAddTask, TypeOK

\* Who waits for room has found none.
LEMMA AwaitRoomInv ==
  ASSUME InductiveInv, NEW a \in Adder, AwaitRoom(a)
  PROVE  InductiveInv'
<1> USE DEF InductiveInv, NobodyStranded, BlockedByBound
<1>1. TypeOK'  BY DEF AwaitRoom, TypeOK
<1>2. Adding' = Adding \ {a} /\ a \in Adding  BY DEF AwaitRoom, TypeOK, Adding
<1>3. Cardinality(Adding)' \in Nat  BY <1>2, CountAdding
<1>4. Idle' = Idle /\ Taking' = Taking  BY WorkersAlone DEF AwaitRoom
<1>5. MaxQueueSize <= size + Cardinality(Adding)'
  BY <1>3, SizesAssumption DEF AwaitRoom, IsFull, TypeOK
<1> QED  BY <1>1, <1>4, <1>5 DEF AwaitRoom, IsFull

LEMMA PushInv ==
  ASSUME InductiveInv, NEW a \in Adder, Push(a)
  PROVE  InductiveInv'
<1> USE DEF InductiveInv, NobodyStranded, BlockedByBound, Push
<1>1. /\ adder' \in [Adder -> {"out", "add", "notFull"}]
      /\ size' \in Nat /\ size' = size + 1
      /\ MaxQueueSize > 0 => size' <= MaxQueueSize
  BY SizesAssumption DEF TypeOK, IsFull
<1>2. Blocked' = Blocked /\ Adding' = Adding \ {a} /\ a \in Adding
  BY DEF TypeOK, Blocked, Adding
<1>3. Blocked' # {} => MaxQueueSize <= size' + Cardinality(Adding)'
  BY <1>1, <1>2, CountAdding, SizesAssumption DEF TypeOK
<1>4. CASE Idle = {} /\ worker' = worker
  <2>1. Idle' = {}  BY <1>4, WorkersAlone
  <2>2. TypeOK'  BY <1>1, <1>4 DEF TypeOK
  <2> QED  BY <1>1, <1>2, <1>3, <2>1, <2>2 DEF TypeOK
<1>5. CASE \E w \in Idle : worker' = [worker EXCEPT ![w] = "take"]
  <2> PICK w \in Idle : worker' = [worker EXCEPT ![w] = "take"]  BY <1>5
  <2>1. TypeOK'  BY <1>1, WorkerWoken DEF TypeOK
  <2>2. Cardinality(Taking)' = Cardinality(Taking) + 1
    BY WorkerWoken, CountTaking
  <2>3. size' <= Cardinality(Taking)'  BY <1>1, <2>2, CountTaking DEF TypeOK
  <2> QED  BY <1>1, <1>2, <1>3, <2>1, <2>3, WorkerWoken DEF TypeOK
<1> QED  BY <1>4, <1>5 DEF NotifyNotEmpty

LEMMA RefuseInv ==
  ASSUME InductiveInv, NEW a \in Adder, Refuse(a)
  PROVE  InductiveInv'
<1> USE DEF InductiveInv, NobodyStranded, BlockedByBound
<1>1. TypeOK'  BY DEF Refuse, TypeOK
<1>2. Blocked' = Blocked  BY DEF Refuse, TypeOK, Blocked
<1>3. Idle' = Idle /\ Taking' = Taking  BY WorkersAlone DEF Refuse
<1> QED  BY <1>1, <1>2, <1>3 DEF Refuse

LEMMA WaitTaskClearInv == InductiveInv /\ WaitTaskClear => InductiveInv'
<1> SUFFICES ASSUME InductiveInv, WaitTaskClear PROVE InductiveInv'  OBVIOUS
<1>1. TypeOK'  BY DEF InductiveInv, WaitTaskClear, TypeOK
<1> QED
  BY <1>1, WorkersAlone, AddersAlone
  DEF InductiveInv, NobodyStranded, BlockedByBound, WaitTaskClear

LEMMA StopInv == InductiveInv /\ Stop => InductiveInv'
<1> SUFFICES ASSUME InductiveInv, Stop PROVE InductiveInv'  OBVIOUS
<1>1. TypeOK'  BY DEF InductiveInv, Stop, TypeOK
<1>2. Idle' = {} /\ Blocked' = {}
  BY DEF InductiveInv, Stop, TypeOK, Idle, Blocked
<1> QED
  BY <1>1, <1>2 DEF InductiveInv, NobodyStranded, BlockedByBound, Stop

LEMMA JoinInv == InductiveInv /\ Join => InductiveInv'
<1> SUFFICES ASSUME InductiveInv, Join PROVE InductiveInv'  OBVIOUS
<1>1. TypeOK'  BY DEF InductiveInv, Join, TypeOK
<1> QED
  BY <1>1, WorkersAlone, AddersAlone
  DEF InductiveInv, NobodyStranded, BlockedByBound, Join

-----------------------------------------------------------------------------
\* Every step keeps the invariant.
LEMMA ThreadsInvariant ==
  ASSUME InductiveInv, [Next]_vars
  PROVE  InductiveInv'
<1>1. ASSUME \E w \in Worker : RunInThread(w) PROVE InductiveInv'
  BY <1>1, TestRunningInv, AwaitTaskInv, TakeInv, TakeNothingInv, EndTaskInv
  DEF RunInThread
<1>2. ASSUME \E a \in Adder : CallAddTask(a) \/ AddTask(a) PROVE InductiveInv'
  BY <1>2, CallAddTaskInv, AwaitRoomInv, PushInv, RefuseInv DEF AddTask
<1>3. ASSUME WakeSpuriously \/ WaitTaskClear \/ Stop \/ Join PROVE InductiveInv'
  BY <1>3, WakeSpuriouslyInv, WaitTaskClearInv, StopInv, JoinInv
<1>4. ASSUME UNCHANGED vars PROVE InductiveInv'
  BY <1>4, WorkersAlone, AddersAlone
  DEF vars, InductiveInv, TypeOK, NobodyStranded, BlockedByBound
<1> QED
  BY <1>1, <1>2, <1>3, <1>4 DEF Next

\* The inductive invariant of the pool, for any threads and sizes.
THEOREM PoolInvariant == SafeSpec => []InductiveInv
<1>1. InductiveInv /\ [Next]_vars => InductiveInv'
  BY ThreadsInvariant
<1> QED  BY <1>1, InitInv, PTL DEF SafeSpec

\* Types, and the bound of the queue, which addTask() keeps however often it waits.
THEOREM PoolTypes == SafeSpec => []TypeOK
<1>1. InductiveInv => TypeOK  BY DEF InductiveInv
<1> QED  BY <1>1, PoolInvariant, PTL

\* notify_one() is enough: no thread waits while there is something for it that
\* no other thread is on its way to.
THEOREM NoSignalIsLost == SafeSpec => []NobodyStranded
<1>1. InductiveInv => NobodyStranded  BY DEF InductiveInv
<1> QED  BY <1>1, PoolInvariant, PTL

-----------------------------------------------------------------------------
(* The pool of loops. *)

\* One object adds tasks, to a queue without a bound.
LEMMA OneAdder ==
  /\ \E a : Adder = {a}
  /\ NumThreads \in Nat /\ MaxAdds = NumThreads /\ MaxQueueSize = 0
  /\ IsFiniteSet(Loop) /\ Cardinality(Loop) = NumThreads
<1>1. NumThreads \in Nat
  BY ThreadsAssumption, FS_CardinalityType DEF NumThreads
<1>2. IsFiniteSet(Loop) /\ Cardinality(Loop) = NumThreads
  BY <1>1, FS_Interval DEF Loop
<1> QED
  BY <1>1, <1>2, ThreadsAssumption, PoolAssumption, FS_Singleton DEF NumThreads

\* How many loops have come so far.
LEMMA CountCounted ==
  /\ Cardinality(Counted) \in Nat
  /\ \A i : i \notin Counted => Cardinality(Counted \cup {i}) = Cardinality(Counted) + 1
  /\ Cardinality(Counted) = NumThreads => Counted = Loop
<1>1. Counted \subseteq Loop
  BY DEF Counted
<1>2. /\ Cardinality(Counted) = Cardinality(Loop) => Counted = Loop
      /\ IsFiniteSet(Counted)
  BY <1>1, OneAdder, FS_Subset
<1> QED
  BY <1>1, <1>2, OneAdder, Counting

\* A queue without a bound keeps nobody waiting.
LEMMA NobodyBlocked ==
  ASSUME InductiveInv
  PROVE  Blocked = {} /\ \A a \in Adder : adder[a] \in {"out", "add"}
<1>1. Blocked = {}
  BY OneAdder DEF InductiveInv, BlockedByBound
<1>2. \A a \in Adder : adder[a] \in {"out", "add", "notFull"}
  BY DEF InductiveInv, TypeOK
<1> QED
  BY <1>1, <1>2 DEF Blocked

\* A step of the pool of loops is one of the pool of threads, or leaves it alone.
LEMMA PoolStepOfThreads ==
  PoolNext => [Next]_vars
<1>1. \A w \in Worker : LoopThread(w) => RunInThread(w) \/ UNCHANGED vars
  BY DEF LoopThread, RunInThread, TakeLoop, Publish, CountDown, LoopReturns, EndLoopTask
<1>2. \A a \in Adder : AddLoop(a) => CallAddTask(a) \/ AddTask(a)
  BY DEF AddLoop
<1>3. AddedAll \/ Wait \/ BeginDestructor \/ (\E i \in Loop : Quit(i)) => UNCHANGED vars
  BY DEF AddedAll, Wait, BeginDestructor, Quit
<1> QED
  BY <1>1, <1>2, <1>3 DEF PoolNext, Next, StopPool

LEMMA PoolInitInv == PoolInit => PoolInv
<1> SUFFICES ASSUME PoolInit PROVE PoolInv  OBVIOUS
<1>1. InductiveInv  BY InitInv DEF PoolInit
<1>2. Counted = {}  BY DEF PoolInit, Counted
<1>3. count + Cardinality(Counted) = NumThreads /\ count \in Nat
  BY <1>2, OneAdder, FS_EmptySet DEF PoolInit, LatchCount
<1>4. \A a \in Adder : PushedBy(a) = 0 /\ size = 0
  BY DEF PoolInit, Init, PushedBy
<1> QED
  BY <1>1, <1>3, <1>4 DEF PoolInit, Init, PoolInv, LoopTypes, TasksAreLoops, LatchExact, Orderly

\* The queue holds no more than was pushed.
LEMMA TasksAreLoopsInv ==
  ASSUME PoolInv, PoolNext
  PROVE  TasksAreLoops'
<1>1. /\ size \in Nat /\ adds \in [Adder -> 0..MaxAdds]
      /\ \A a \in Adder : size <= PushedBy(a)
      /\ InductiveInv
  BY DEF PoolInv, InductiveInv, TypeOK, TasksAreLoops
<1>2. Blocked = {} /\ \A a \in Adder : adder[a] \in {"out", "add"}
  BY <1>1, NobodyBlocked
<1>3. ASSUME adder' = adder, adds' = adds, size' <= size, size' \in Nat
      PROVE  TasksAreLoops'
  <2>1. \A a \in Adder : PushedBy(a)' = PushedBy(a) /\ PushedBy(a) \in Int
    BY <1>1, <1>3 DEF PushedBy
  <2> QED
    BY <1>1, <1>3, <2>1 DEF TasksAreLoops
<1>4. ASSUME NEW a \in Adder, AddLoop(a)
      PROVE  TasksAreLoops'
  <2>1. Adder = {a}
    BY OneAdder
  <2>2. adder \in [Adder -> {"out", "add", "notFull"}] /\ running
    BY <1>4 DEF AddLoop, PoolInv, InductiveInv, TypeOK, Orderly
  <2>3. ~AwaitRoom(a) /\ ~Refuse(a)
    BY <2>2, OneAdder DEF AwaitRoom, Refuse, IsFull
  <2>4. ASSUME CallAddTask(a) PROVE TasksAreLoops'
    <3>1. size' = size /\ PushedBy(a)' = PushedBy(a)
      BY <1>1, <2>2, <2>4 DEF CallAddTask, PushedBy
    <3> QED
      BY <1>1, <2>1, <3>1 DEF TasksAreLoops
  <2>5. ASSUME Push(a) PROVE TasksAreLoops'
    <3>1. size' = size + 1 /\ PushedBy(a)' = PushedBy(a) + 1
      BY <1>1, <2>2, <2>5 DEF Push, PushedBy
    <3>2. PushedBy(a) \in Int
      BY <1>1 DEF PushedBy
    <3> QED
      BY <1>1, <2>1, <3>1, <3>2 DEF TasksAreLoops
  <2> QED
    BY <1>4, <2>3, <2>4, <2>5 DEF AddLoop, AddTask
<1>5. ASSUME NEW w \in Worker, LoopThread(w)
      PROVE  TasksAreLoops'
  <2>1. ASSUME Take(w) PROVE TasksAreLoops'
    BY <1>1, <1>3, <2>1, OneAdder DEF Take, TakeSignalling
  <2>2. ASSUME ~Take(w)
        PROVE  UNCHANGED <<adder, adds, size>>
    BY <1>5, <2>2 DEF LoopThread, TakeLoop, Publish, CountDown, LoopReturns, EndLoopTask,
                      TestRunning, AwaitTask, TakeNothing, EndTask, vars
  <2> QED
    BY <1>1, <1>3, <2>1, <2>2
<1>6. ASSUME AddedAll \/ Wait \/ BeginDestructor \/ \E i \in Loop : Quit(i)
      PROVE  TasksAreLoops'
  BY <1>1, <1>3, <1>6 DEF AddedAll, Wait, BeginDestructor, Quit, vars
<1>7. ASSUME StopPool
      PROVE  TasksAreLoops'
  <2>1. adder \in [Adder -> {"out", "add", "notFull"}]
    BY DEF PoolInv, InductiveInv, TypeOK
  <2>2. UNCHANGED <<adder, adds, size>>
    BY <1>2, <1>7, <2>1 DEF StopPool, Stop, Join
  <2> QED
    BY <1>1, <1>3, <2>2
<1>8. ASSUME WakeSpuriously
      PROVE  TasksAreLoops'
  BY <1>1, <1>2, <1>3, <1>8 DEF WakeSpuriously
<1> QED
  BY <1>4, <1>5, <1>6, <1>7, <1>8 DEF PoolNext

\* A thread takes the task of a loop.
LEMMA TakesALoop ==
  ASSUME PoolInv, NEW w \in Worker, TakeLoop(w)
  PROVE  job' \in [Worker -> Loop \cup {0}]
<1>1. PICK a \in Adder : job' = [job EXCEPT ![w] = PushedBy(a) - size + 1]
  BY DEF TakeLoop
<1>2. /\ size \in Nat /\ size > 0 /\ size <= PushedBy(a)
      /\ adds[a] \in 0..NumThreads
  BY OneAdder
  DEF TakeLoop, Take, TakeSignalling, PoolInv, InductiveInv, TypeOK, TasksAreLoops
<1>3. PushedBy(a) - size + 1 \in Loop
  BY <1>2, OneAdder DEF PushedBy, Loop
<1> QED
  BY <1>1, <1>3 DEF PoolInv, LoopTypes

\* A loop comes so far that the latch counts it, which it did not before.
LEMMA CountedOneMore ==
  ASSUME PoolInv, NEW w \in Worker, CountDown(w)
  PROVE  LoopTypes' /\ LatchExact' /\ Orderly'
<1> DEFINE i == job[w]
<1>1. /\ i \in Loop /\ loops[i] = "published" /\ count \in Nat
      /\ loops \in [Loop -> {"none", "published", "counted", "gone"}]
      /\ loops' = [loops EXCEPT ![i] = "counted"] /\ count' = count - 1
      /\ count + Cardinality(Counted) = NumThreads
  BY DEF CountDown, PoolInv, LoopTypes, LatchExact
<1>2. i \notin Counted /\ Counted' = Counted \cup {i}
  BY <1>1 DEF Counted
<1>3. count # 0
  BY <1>1, <1>2, CountCounted, OneAdder
<1>4. count' \in Nat /\ count' + Cardinality(Counted)' = NumThreads
  BY <1>1, <1>2, <1>3, CountCounted, OneAdder
<1>5. builder \notin {"ready", "quitting"} /\ builder' \in {builder, "waiting"}
  BY <1>3 DEF CountDown, Notify, PoolInv, LatchExact
<1>6. LoopTypes'
  BY <1>1, <1>4, <1>5 DEF CountDown, PoolInv, LoopTypes
<1>7. running' = running /\ running
  BY <1>5 DEF CountDown, vars, PoolInv, Orderly
<1>8. \A k \in Loop : loops'[k] = "gone" => k \in told'
  BY <1>1 DEF CountDown, PoolInv, Orderly
<1> QED
  BY <1>4, <1>5, <1>6, <1>7, <1>8 DEF LatchExact, Orderly, PoolInv, LoopTypes

\* The other steps of a thread.
LEMMA LoopThreadInv ==
  ASSUME PoolInv, NEW w \in Worker, LoopThread(w)
  PROVE  LoopTypes' /\ LatchExact' /\ Orderly'
<1>1. /\ loops \in [Loop -> {"none", "published", "counted", "gone"}]
      /\ job \in [Worker -> Loop \cup {0}]
      /\ PoolInv
  BY DEF PoolInv, LoopTypes
<1>2. ASSUME UNCHANGED <<loops, told, count, builder, running>>,
             job' \in [Worker -> Loop \cup {0}]
      PROVE  LoopTypes' /\ LatchExact' /\ Orderly'
  <2>1. Counted' = Counted
    BY <1>2 DEF Counted
  <2> QED
    BY <1>2, <2>1 DEF PoolInv, LoopTypes, LatchExact, Orderly
<1>3. ASSUME TakeLoop(w) PROVE LoopTypes' /\ LatchExact' /\ Orderly'
  BY <1>2, <1>3, TakesALoop DEF TakeLoop, Take, TakeSignalling
<1>4. ASSUME Publish(w) PROVE LoopTypes' /\ LatchExact' /\ Orderly'
  <2>1. job[w] \in Loop /\ loops' = [loops EXCEPT ![job[w]] = "published"]
    BY <1>1, <1>4 DEF Publish
  <2>2. Counted' = Counted
    BY <1>1, <1>4, <2>1 DEF Publish, Counted
  <2> QED
    BY <1>1, <1>4, <2>1, <2>2 DEF Publish, vars, PoolInv, LoopTypes, LatchExact, Orderly
<1>5. ASSUME LoopReturns(w) PROVE LoopTypes' /\ LatchExact' /\ Orderly'
  <2>1. /\ job[w] \in Loop /\ job[w] \in told
        /\ loops' = [loops EXCEPT ![job[w]] = "gone"]
    BY <1>1, <1>5 DEF LoopReturns, PoolInv, LoopTypes
  <2>2. Counted' = Counted
    BY <1>1, <1>5, <2>1 DEF LoopReturns, Counted
  <2> QED
    BY <1>1, <1>5, <2>1, <2>2
    DEF LoopReturns, vars, PoolInv, LoopTypes, LatchExact, Orderly
<1>6. ASSUME EndLoopTask(w) PROVE LoopTypes' /\ LatchExact' /\ Orderly'
  BY <1>1, <1>2, <1>6 DEF EndLoopTask, EndTask
<1>7. ASSUME (TestRunning(w) \/ AwaitTask(w) \/ TakeNothing(w)) /\ UNCHANGED loopVars
      PROVE  LoopTypes' /\ LatchExact' /\ Orderly'
  BY <1>1, <1>2, <1>7 DEF loopVars, TestRunning, AwaitTask, TakeNothing
<1> QED
  BY <1>3, <1>4, <1>5, <1>6, <1>7, CountedOneMore DEF LoopThread

\* The steps of the constructor and the destructor.
LEMMA BuilderInv ==
  ASSUME PoolInv,
         \/ \E a \in Adder : AddLoop(a)
         \/ AddedAll \/ Wait \/ BeginDestructor \/ \E i \in Loop : Quit(i)
         \/ StopPool
         \/ WakeSpuriously /\ UNCHANGED loopVars
  PROVE  LoopTypes' /\ LatchExact' /\ Orderly'
<1>1. loops' = loops /\ job' = job /\ count' = count
  BY DEF AddLoop, AddedAll, Wait, BeginDestructor, Quit, StopPool, loopVars
<1>2. Counted' = Counted
  BY <1>1 DEF Counted
<1>3. /\ told' \in SUBSET Loop /\ told \subseteq told'
      /\ builder' \in {"adding", "waiting", "asleep", "ready", "quitting"}
  BY DEF PoolInv, LoopTypes, AddLoop, AddedAll, Wait, BeginDestructor, Quit, StopPool,
         loopVars
<1>4. builder' \in {"ready", "quitting"} => count = 0
  BY DEF PoolInv, LoopTypes, LatchExact, AddLoop, AddedAll, Wait, BeginDestructor, Quit,
         StopPool, loopVars
<1>5. builder' # "quitting" => running'
  BY DEF PoolInv, Orderly, AddLoop, CallAddTask, AddTask, AwaitRoom, Push, Refuse,
         AddedAll, Wait, BeginDestructor, Quit, StopPool, Stop, Join, WakeSpuriously,
         loopVars, vars
<1> QED
  BY <1>1, <1>2, <1>3, <1>4, <1>5 DEF PoolInv, LoopTypes, LatchExact, Orderly

\* Every step of the pool of loops keeps its invariant.
LEMMA PoolStepInv ==
  ASSUME PoolInv, [PoolNext]_poolVars
  PROVE  PoolInv'
<1>1. ASSUME PoolNext PROVE PoolInv'
  <2>1. InductiveInv'
    BY <1>1, PoolStepOfThreads, ThreadsInvariant DEF PoolInv
  <2>2. LoopTypes' /\ LatchExact' /\ Orderly'
    <3>1. ASSUME NEW w \in Worker, LoopThread(w)
          PROVE  LoopTypes' /\ LatchExact' /\ Orderly'
      BY <3>1, LoopThreadInv
    <3>2. ASSUME ~\E w \in Worker : LoopThread(w)
          PROVE  LoopTypes' /\ LatchExact' /\ Orderly'
      <4>1. \/ \E a \in Adder : AddLoop(a)
            \/ AddedAll \/ Wait \/ BeginDestructor \/ \E i \in Loop : Quit(i)
            \/ StopPool
            \/ WakeSpuriously /\ UNCHANGED loopVars
        BY <1>1, <3>2 DEF PoolNext
      <4> QED
        BY <4>1, BuilderInv
    <3> QED
      BY <3>1, <3>2
  <2> QED
    BY <1>1, <2>1, <2>2, TasksAreLoopsInv DEF PoolInv
<1>2. ASSUME UNCHANGED poolVars PROVE PoolInv'
  <2>1. InductiveInv'
    BY <1>2, ThreadsInvariant DEF PoolInv, poolVars
  <2>2. Counted' = Counted /\ \A a \in Adder : PushedBy(a)' = PushedBy(a)
    BY <1>2 DEF poolVars, vars, Counted, PushedBy
  <2> QED
    BY <1>2, <2>1, <2>2
    DEF poolVars, vars, PoolInv, LoopTypes, TasksAreLoops, LatchExact, Orderly
<1> QED
  BY <1>1, <1>2

\* The inductive invariant of the pool of loops.
THEOREM LoopPoolInvariant == PoolSpec => []PoolInv
<1>1. PoolInv /\ [PoolNext]_poolVars => PoolInv'
  BY PoolStepInv
<1> QED
  BY <1>1, PoolInitInv, PTL DEF PoolSpec

LEMMA ReadyWhenCounted == PoolInv => LoopsReady
<1> SUFFICES ASSUME PoolInv, builder \in {"ready", "quitting"}, NEW i \in Loop
             PROVE  loops[i] = "counted" \/ (loops[i] = "gone" /\ i \in told)
  BY DEF LoopsReady
<1>1. Cardinality(Counted) = NumThreads
  BY CountCounted, OneAdder DEF PoolInv, LatchExact
<1>2. i \in Counted
  BY <1>1, CountCounted
<1> QED
  BY <1>2 DEF Counted, PoolInv, Orderly

\* The constructor of the pool of loops returns with every loop published and its
\* thread done with the latch, for any number of threads.
THEOREM LoopsAreReady == PoolSpec => []LoopsReady
  BY LoopPoolInvariant, ReadyWhenCounted, PTL

-----------------------------------------------------------------------------
(* The life of a server. *)

\* The loops are ready also while the server listens.
THEOREM ServerLoopsAreReady == LifeSpec => []LoopsReady
<1>1. LifeInit => PoolInv
  BY PoolInitInv DEF LifeInit
<1>2. ASSUME PoolInv, [LifeNext]_lifeVars PROVE PoolInv'
  <2>1. [PoolNext]_poolVars
    BY <1>2 DEF LifeNext, lifeVars, PoolStep, Serve, PeerConnects, IoThread, DestroyAcceptor
  <2> QED
    BY <1>2, <2>1, PoolStepInv
<1> QED
  BY <1>1, <1>2, ReadyWhenCounted, PTL DEF LifeSpec

\* The lowest free number is free.
LEMMA LowestIsFree ==
  ASSUME ~Listener!Full
  PROVE  Listener!Lowest \in Listener!Fd /\ table[Listener!Lowest] = "free"
<1> DEFINE R == OpToRel(<, Nat)
<1>1. Listener!Free # {} /\ Listener!Free \subseteq Nat
  BY NumFdsAssumption DEF Listener!Full, Listener!Free, Listener!Fd
<1>2. \A x, y \in Nat : y < x => <<y, x>> \in R
  BY DEF OpToRel
<1>3. IsWellFoundedOn(R, Nat)
  BY NatLessThanWellFounded
<1> HIDE DEF R
<1>4. PICK x \in Listener!Free : \A y \in Listener!Free : ~(<<y, x>> \in R)
  BY <1>1, <1>3, WFMin
<1>5. \A y \in Listener!Free : x \in Nat /\ y \in Nat /\ ~(y < x)
  BY <1>1, <1>2, <1>4
<1>6. \A y \in Listener!Free : x <= y
  BY <1>5
<1>7. Listener!Lowest \in Listener!Free
  BY <1>6 DEF Listener!Lowest, Listener!Min
<1> QED
  BY <1>7 DEF Listener!Free

\* An empty backlog is one.
LEMMA NoneWaits == <<>> \in Seq(Peer)
OBVIOUS

LEMMA ListenerInit ==
  Listener!Init => Listener!TypeOK /\ Listener!SpareIsOwn
<1> SUFFICES ASSUME Listener!Init PROVE Listener!TypeOK /\ Listener!SpareIsOwn
  OBVIOUS
<1>1. 1 \in Listener!Fd
  BY NumFdsAssumption DEF Listener!Fd
<1>2. table \in [Listener!Fd -> {"free", "spare", "conn", "other"}]
  BY DEF Listener!Init
<1>3. Listener!TypeOK
  <2>1. backlog \in Seq(Peer)
    BY NoneWaits DEF Listener!Init
  <2> QED
    BY <1>1, <1>2, <2>1 DEF Listener!Init, Listener!TypeOK
<1> QED
  BY <1>1, <1>3 DEF Listener!Init, Listener!SpareIsOwn, Listener!HasSpare, Listener!NoFd

\* Nobody closes the acceptor's descriptor, and handleRead() knows when it has none.
LEMMA ListenerStep ==
  ASSUME Listener!TypeOK, Listener!SpareIsOwn,
         \/ Listener!HandleRead \/ Listener!Destroy \/ Listener!OpenElsewhere
         \/ \E p \in Peer : Listener!Connect(p)
         \/ \E f \in 1..NumFds : Listener!CloseElsewhere(f)
  PROVE  Listener!TypeOK' /\ Listener!SpareIsOwn'
<1> DEFINE Spare == {f \in Listener!Fd : table[f] = "spare"}
           Type == {"free", "spare", "conn", "other"}
<1> USE DEF Listener!NoFd
<1>1. /\ table \in [Listener!Fd -> Type]
      /\ idleFd \in Listener!Fd \cup {0} /\ 0 \notin Listener!Fd
      /\ backlog \in Seq(Peer) /\ arrived \in SUBSET Peer
      /\ at \in {"wait", "accept", "full", "room", "took", "reopen", "gone"}
      /\ raced \in BOOLEAN
      /\ backlog # <<>> => Tail(backlog) \in Seq(Peer)
  BY DEF Listener!TypeOK, Listener!Fd
<1>2. /\ idleFd # 0 /\ at \notin {"room", "reopen", "gone"} => Spare = {idleFd}
      /\ idleFd = 0 \/ at \in {"room", "reopen", "gone"} => Spare = {}
  BY DEF Listener!SpareIsOwn, Listener!HasSpare
<1>3. ~Listener!Full => Listener!Lowest \in Listener!Fd /\ table[Listener!Lowest] = "free"
  BY LowestIsFree
<1>4. ASSUME NEW f \in Listener!Fd \cup {0}, Listener!Close(f)
      PROVE  /\ table' \in [Listener!Fd -> Type]
             /\ Spare' = Spare \ {f}
  BY <1>1, <1>4 DEF Listener!Close
<1>5. ASSUME NEW who \in Type, ~Listener!Full, Listener!OpenAs(who)
      PROVE  /\ table' \in [Listener!Fd -> Type]
             /\ who # "spare" => Spare' = Spare
             /\ who = "spare" => Spare' = Spare \cup {Listener!Lowest}
  BY <1>1, <1>3, <1>5 DEF Listener!OpenAs
<1>6. /\ table' \in [Listener!Fd -> Type]
      /\ idleFd' \in Listener!Fd \cup {0}
      /\ backlog' \in Seq(Peer) /\ arrived' \in SUBSET Peer
      /\ at' \in {"wait", "accept", "full", "room", "took", "reopen", "gone"}
      /\ raced' \in BOOLEAN
      => Listener!TypeOK'
  BY DEF Listener!TypeOK
<1>7. /\ idleFd' # 0 /\ at' \notin {"room", "reopen", "gone"} => Spare' = {idleFd'}
      /\ idleFd' = 0 \/ at' \in {"room", "reopen", "gone"} => Spare' = {}
      => Listener!SpareIsOwn'
  BY DEF Listener!SpareIsOwn, Listener!HasSpare
<1> HIDE DEF Spare, Type
<1> SUFFICES
      /\ table' \in [Listener!Fd -> Type]
      /\ idleFd' \in Listener!Fd \cup {0}
      /\ backlog' \in Seq(Peer) /\ arrived' \in SUBSET Peer
      /\ at' \in {"wait", "accept", "full", "room", "took", "reopen", "gone"}
      /\ raced' \in BOOLEAN
      /\ idleFd' # 0 /\ at' \notin {"room", "reopen", "gone"} => Spare' = {idleFd'}
      /\ idleFd' = 0 \/ at' \in {"room", "reopen", "gone"} => Spare' = {}
  BY <1>6, <1>7
<1> DEFINE Goal ==
      /\ table' \in [Listener!Fd -> Type]
      /\ idleFd' \in Listener!Fd \cup {0}
      /\ backlog' \in Seq(Peer) /\ arrived' \in SUBSET Peer
      /\ at' \in {"wait", "accept", "full", "room", "took", "reopen", "gone"}
      /\ raced' \in BOOLEAN
      /\ idleFd' # 0 /\ at' \notin {"room", "reopen", "gone"} => Spare' = {idleFd'}
      /\ idleFd' = 0 \/ at' \in {"room", "reopen", "gone"} => Spare' = {}
<1>8. table' = table => Spare' = Spare
  BY DEF Spare
<1>9. ASSUME Listener!Readable \/ Listener!AcceptNone \/ Listener!AcceptEmfile
      PROVE  Goal
  BY <1>1, <1>2, <1>8, <1>9
  DEF Listener!Readable, Listener!AcceptNone, Listener!AcceptEmfile
<1>10. ASSUME Listener!AcceptOne PROVE Goal
  BY <1>1, <1>2, <1>5, <1>10 DEF Listener!AcceptOne, Type
<1>11. ASSUME Listener!GiveUpSpare \/ Listener!Refuse \/ Listener!Destroy PROVE Goal
  <2>1. Listener!Close(idleFd) /\ at \in {"full", "took", "wait"}
    BY <1>11 DEF Listener!GiveUpSpare, Listener!Refuse, Listener!Destroy
  <2>2. table' \in [Listener!Fd -> Type] /\ Spare' = {}
    BY <1>1, <1>2, <1>4, <2>1
  <2>3. backlog' \in Seq(Peer) /\ arrived' = arrived /\ raced' = raced
    BY <1>1, <1>11, NoneWaits DEF Listener!GiveUpSpare, Listener!Refuse, Listener!Destroy
  <2>4. idleFd' = idleFd /\ at' \in {"room", "reopen", "gone"}
    BY <1>11 DEF Listener!GiveUpSpare, Listener!Refuse, Listener!Destroy
  <2> QED
    BY <1>1, <2>2, <2>3, <2>4
<1>12. ASSUME Listener!AcceptIntoSpare \/ Listener!Reopen PROVE Goal
  BY <1>1, <1>2, <1>3, <1>5, <1>8, <1>12
  DEF Listener!AcceptIntoSpare, Listener!NoNumber, Listener!Reopen, Type
<1>13. ASSUME NEW p \in Peer, Listener!Connect(p) PROVE Goal
  BY <1>1, <1>2, <1>8, <1>13 DEF Listener!Connect
<1>14. ASSUME Listener!OpenElsewhere PROVE Goal
  BY <1>1, <1>2, <1>5, <1>14 DEF Listener!OpenElsewhere, Type
<1>15. ASSUME NEW f \in 1..NumFds, Listener!CloseElsewhere(f) PROVE Goal
  <2>1. f \in Listener!Fd /\ f \notin Spare
    BY <1>15 DEF Listener!Fd, Listener!CloseElsewhere, Spare
  <2> QED
    BY <1>1, <1>2, <1>4, <1>15, <2>1 DEF Listener!CloseElsewhere
<1> QED
  BY <1>9, <1>10, <1>11, <1>12, <1>13, <1>14, <1>15 DEF Listener!HandleRead

\* Whatever the io threads open and close, and to the end of ~TcpServer(), the
\* acceptor closes only its own spare descriptor and loses none, for any number of
\* descriptors, io threads and peers.
THEOREM ServerSpareIsOwn == LifeSpec => []SpareIsOwn
<1> DEFINE Inv == Listener!TypeOK /\ Listener!SpareIsOwn
<1>1. LifeInit => Inv
  BY ListenerInit DEF LifeInit
<1>2. ASSUME Inv, [LifeNext]_lifeVars PROVE Inv'
  <2>1. ASSUME UNCHANGED acceptorVars PROVE Inv'
    BY <1>2, <2>1
    DEF acceptorVars, Listener!TypeOK, Listener!SpareIsOwn, Listener!HasSpare
  <2>2. ASSUME ~UNCHANGED acceptorVars
        PROVE  \/ Listener!HandleRead \/ Listener!Destroy \/ Listener!OpenElsewhere
               \/ \E p \in Peer : Listener!Connect(p)
               \/ \E f \in 1..NumFds : Listener!CloseElsewhere(f)
    BY <1>2, <2>2
    DEF LifeNext, lifeVars, PoolStep, Serve, PeerConnects, IoThread, DestroyAcceptor
  <2> QED
    BY <1>2, <2>1, <2>2, ListenerStep
<1>3. Inv => SpareIsOwn
  BY DEF SpareIsOwn
<1> QED
  BY <1>1, <1>2, <1>3, PTL DEF LifeSpec
=============================================================================
