---------------------------- MODULE LifecycleProofs ----------------------------
(***************************************************************************)
(* Proofs about Lifecycle, for any pools, workers, retries and signals,    *)
(* whichever thread runs a handler: _state tells the truth, the logger     *)
(* outlives the workers, and no task is left without a worker.             *)
(***************************************************************************)
EXTENDS Lifecycle, FiniteSetTheorems, TLAPS

Gone(w) == os[w] \in {"none", "joined"}

\* main has been at w on its way through the pools.
Before(w) == w[1] < pool \/ (w[1] = pool /\ w[2] < i)

\* While main starts workers those it has been at wait, and there are no tasks;
\* only the shutdown cancels.
Starting ==
    /\ mpc = "start" => /\ \A w \in Workers : Before(w) => os[w] = "waits"
                        /\ \A p \in Pools : tasks[p] = 0
    /\ mpc \notin {"cancel", "join", "unlink", "delete", "return", "exit"} => cancelled = {}

\* While main stops workers those it has been at are gone, and then all are.
Stopping ==
    /\ mpc \in {"cancel", "join"} => \A w \in Workers : Before(w) => Gone(w)
    /\ mpc \in {"unlink", "delete", "return", "exit"} => \A w \in Workers : Gone(w)
    /\ ~logger => mpc \in {"return", "exit"}

\* Workers of pool p that wait for a task, and tasks that main will still add.
Idle(p) == {n \in 1..PoolSize : os[<<p, n>>] = "waits"}
ToAdd(p) ==
    IF mpc # "tasks" \/ p < pool THEN 0 ELSE IF p = pool THEN PoolSize + 1 - i ELSE PoolSize

\* Each task, added or to be added, has an idle worker of its own.
Enough == cancelled = {} => \A p \in Pools : tasks[p] + ToAdd(p) <= Cardinality(Idle(p))

Order == TypeOK /\ StateTellsTheTruth /\ Starting /\ Stopping
IInv == Order /\ Enough

-------------------------------------------------------------------------------
(* The walk of main through the pools. *)

LEMMA NextIndexGoes ==
    ASSUME TypeOK, NEW here, NEW after, NextIndex(here, after)
    PROVE  /\ pool' \in Pools /\ i' \in 1..PoolSize
           /\ \/ /\ mpc' = here
                 /\ \A w \in Workers : Before(w)' <=> Before(w) \/ w = <<pool, i>>
              \/ /\ mpc' = after /\ pool' = 1 /\ i' = 1
                 /\ \A w \in Workers : Before(w) \/ w = <<pool, i>>
<1>1. /\ pool \in 1..NPools /\ i \in 1..PoolSize
      /\ NPools \in Nat \ {0} /\ PoolSize \in Nat \ {0}
  BY NPoolsType, PoolSizeType DEF TypeOK, Pools
<1>2. ASSUME NEW w \in Workers
      PROVE  /\ w[1] \in 1..NPools /\ w[2] \in 1..PoolSize
             /\ w = <<pool, i>> <=> w[1] = pool /\ w[2] = i
  BY DEF Workers, Pools
<1>3. CASE i < PoolSize
  <2>1. i' = i + 1 /\ mpc' = here /\ pool' = pool
    BY <1>3 DEF NextIndex
  <2>2. ASSUME NEW w \in Workers
        PROVE  Before(w)' <=> Before(w) \/ w = <<pool, i>>
    BY <1>1, <1>2, <2>1 DEF Before
  <2> QED
    BY <1>1, <1>3, <2>1, <2>2 DEF Pools
<1>4. CASE i = PoolSize /\ pool < NPools
  <2>1. i' = 1 /\ pool' = pool + 1 /\ mpc' = here
    BY <1>1, <1>4 DEF NextIndex
  <2>2. ASSUME NEW w \in Workers
        PROVE  Before(w)' <=> Before(w) \/ w = <<pool, i>>
    BY <1>1, <1>2, <1>4, <2>1 DEF Before
  <2> QED
    BY <1>1, <1>4, <2>1, <2>2 DEF Pools
<1>5. CASE i = PoolSize /\ pool = NPools
  <2>1. i' = 1 /\ pool' = 1 /\ mpc' = after
    BY <1>1, <1>5 DEF NextIndex
  <2>2. ASSUME NEW w \in Workers
        PROVE  Before(w) \/ w = <<pool, i>>
    BY <1>1, <1>2, <1>5 DEF Before
  <2> QED
    BY <1>1, <2>1, <2>2 DEF Pools
<1> QED
  BY <1>1, <1>3, <1>4, <1>5

LEMMA AtWorker == TypeOK => <<pool, i>> \in Workers
BY DEF TypeOK, Workers

LEMMA NobodyBeforeTheFirst ==
    ASSUME pool = 1, i = 1, NEW w \in Workers
    PROVE  ~Before(w)
BY NPoolsType, PoolSizeType DEF Before, Workers, Pools

-------------------------------------------------------------------------------
(* Types, states and the order of the walk. *)

LEMMA InitOrder == Init => Order
<1> SUFFICES ASSUME Init PROVE Order
  OBVIOUS
<1>1. TypeOK
  <2>1. pool \in Pools /\ i \in 1..PoolSize /\ retry \in 0..MaxRetry
    BY NPoolsType, PoolSizeType, MaxRetryType DEF Init, Pools
  <2>2. /\ state \in [Workers -> {"INIT", "RUNNING", "STOP"}]
        /\ os \in [Workers -> {"none", "waits", "runs", "logs", "loops", "ended", "joined"}]
        /\ tasks \in [Pools -> Nat]
    BY DEF Init
  <2>3. /\ flag \in BOOLEAN /\ caught \in BOOLEAN /\ logger \in BOOLEAN
        /\ pidfile \in BOOLEAN /\ killed \in BOOLEAN
    BY Zenon DEF Init
  <2> QED
    BY <2>1, <2>2, <2>3 DEF Init, TypeOK
<1>2. StateTellsTheTruth /\ Stopping
  BY DEF Init, StateTellsTheTruth, Stopping
<1>3. Starting
  BY NobodyBeforeTheFirst DEF Init, Starting
<1> QED
  BY <1>1, <1>2, <1>3 DEF Order

\* main starts the workers and adds the tasks.
LEMMA StartKeepsOrder ==
    ASSUME Order, StartWorker \/ StartWorkerFails \/ AddTask
    PROVE  Order'
<1> DEFINE w == <<pool, i>>
<1>0. w \in Workers /\ TypeOK
  BY AtWorker DEF Order
<1> USE DEF Order, TypeOK, StateTellsTheTruth, Starting, Stopping, Gone, threadVars,
        signalVars, restVars
<1>1. CASE StartWorker
  <2>1. NextIndex("start", "tasks")
    BY <1>1 DEF StartWorker
  <2>2. /\ state' = [state EXCEPT ![w] = "RUNNING"] /\ os' = [os EXCEPT ![w] = "waits"]
        /\ retry' \in 0..MaxRetry /\ mpc = "start"
        /\ UNCHANGED <<cancelled, tasks, mutex, logger, pidfile, flag, caught, sent, spent,
                       handler, killed>>
    BY <1>1, MaxRetryType DEF StartWorker
  <2> QED
    BY <1>0, <2>1, <2>2, NextIndexGoes
<1>2. CASE StartWorkerFails
  <2>1. /\ retry' \in 0..MaxRetry /\ mpc' \in {"start", "pid"} /\ mpc = "start"
        /\ flag' \in BOOLEAN
    <3>1. CASE retry < MaxRetry
      BY <1>2, <3>1, MaxRetryType DEF StartWorkerFails
    <3>2. CASE ~(retry < MaxRetry)
      BY <1>2, <3>2 DEF StartWorkerFails
    <3> QED
      BY <3>1, <3>2
  <2> QED
    BY <1>2, <2>1 DEF StartWorkerFails, Before
<1>3. CASE AddTask
  <2>1. NextIndex("tasks", "pid") /\ mpc = "tasks"
    BY <1>3 DEF AddTask
  <2>2. tasks' \in [Pools -> Nat]
    BY <1>3 DEF AddTask
  <2> QED
    BY <1>0, <1>3, <2>1, <2>2, NextIndexGoes DEF AddTask
<1> QED
  BY <1>1, <1>2, <1>3

\* main between the start and the end: nothing but its own place changes, and
\* what the conditions of the walk do not mention.
LEMMA OtherMainKeepsOrder ==
    ASSUME Order,
           \/ CreatePidFile \/ SetSigaction \/ Check \/ Pause \/ ShutdownLog
           \/ ShutdownLogged \/ DeletePidFile \/ DeleteGlob \/ Return
    PROVE  Order'
<1> USE DEF Order, TypeOK, StateTellsTheTruth, Starting, Stopping, Gone, threadVars,
        signalVars, restVars
<1>1. CASE ShutdownLogged
  <2>1. pool' = 1 /\ i' = 1 /\ pool' \in Pools /\ i' \in 1..PoolSize
    BY <1>1, NPoolsType, PoolSizeType DEF ShutdownLogged, Pools
  <2>2. \A w \in Workers : ~Before(w)'
    BY <2>1, NPoolsType, PoolSizeType DEF Before, Workers, Pools
  <2> QED
    BY <1>1, <2>1, <2>2 DEF ShutdownLogged
<1>2. CASE CreatePidFile \/ SetSigaction \/ Check \/ Pause
  BY <1>2 DEF CreatePidFile, SetSigaction, Check, Pause
<1>3. CASE ShutdownLog \/ DeletePidFile \/ DeleteGlob \/ Return
  BY <1>3 DEF ShutdownLog, DeletePidFile, DeleteGlob, Return
<1> QED
  BY <1>1, <1>2, <1>3

\* ThreadPool::stop.
LEMMA StopKeepsOrder ==
    ASSUME Order, Cancel \/ Join
    PROVE  Order'
<1> DEFINE w == <<pool, i>>
<1>0. w \in Workers /\ TypeOK
  BY AtWorker DEF Order
<1> USE DEF Order, TypeOK, StateTellsTheTruth, Starting, Stopping, Gone, threadVars,
        signalVars, restVars
<1>1. CASE Cancel /\ state[w] = "RUNNING"
  BY <1>0, <1>1 DEF Cancel, Before
<1>2. CASE Cancel /\ state[w] # "RUNNING"
  <2>1. NextIndex("cancel", "unlink") /\ UNCHANGED cancelled /\ mpc = "cancel"
    BY <1>2 DEF Cancel
  <2>2. Gone(w)
    BY <1>0, <1>2
  <2>3. UNCHANGED <<retry, state, os, tasks, flag, caught, sent, spent, handler, killed,
                    mutex, logger, pidfile>>
    BY <1>2 DEF Cancel
  <2> QED
    BY <1>0, <2>1, <2>2, <2>3, NextIndexGoes
<1>3. CASE Join
  <2>1. NextIndex("cancel", "unlink") /\ mpc = "join"
    BY <1>3 DEF Join
  <2>2. os' = [os EXCEPT ![w] = "joined"] /\ state' = [state EXCEPT ![w] = "STOP"]
    BY <1>3 DEF Join
  <2>3. UNCHANGED <<retry, cancelled, tasks, flag, caught, sent, spent, handler, killed,
                    mutex, logger, pidfile>>
    BY <1>3 DEF Join
  <2> QED
    BY <1>0, <2>1, <2>2, <2>3, NextIndexGoes
<1> QED
  BY <1>1, <1>2, <1>3

LEMMA WorkerKeepsOrder ==
    ASSUME Order, NEW w \in Workers, WorkerStep(w)
    PROVE  Order'
<1> USE DEF Order, TypeOK, StateTellsTheTruth, Starting, Stopping, Gone, Work,
        signalVars, restVars
<1>1. w[1] \in Pools
  BY DEF Workers
<1>2. CASE TakeTask(w)
  <2>1. tasks' \in [Pools -> Nat] /\ mpc # "start"
    BY <1>1, <1>2 DEF TakeTask
  <2> QED
    BY <1>2, <2>1 DEF TakeTask, Before
<1>3. CASE BeginLog(w)
  BY <1>3 DEF BeginLog, Before
<1>4. CASE EndLog(w)
  BY <1>4 DEF EndLog, Before
<1>5. CASE End(w)
  BY <1>5 DEF End, Before
<1>6. CASE Loops(w)
  BY <1>6 DEF Loops, Before
<1> QED
  BY <1>2, <1>3, <1>4, <1>5, <1>6 DEF WorkerStep

LEMMA SignalKeepsOrder ==
    ASSUME Order,
           \/ HandlerRuns
           \/ \E s \in Signals : Send(s) \/ \E t \in HandlersRunIn : Deliver(s, t)
    PROVE  Order'
<1> USE HandlersRunInType DEF Order, TypeOK, StateTellsTheTruth, Starting, Stopping, Gone,
        Before, threadVars, restVars
<1>1. CASE HandlerRuns
  <2>1. killed' \in BOOLEAN
    BY <1>1, Zenon DEF HandlerRuns
  <2> QED
    BY <1>1, <2>1 DEF HandlerRuns
<1>2. ASSUME NEW s \in Signals, Send(s)
      PROVE  Order'
  BY <1>2 DEF Send
<1>3. ASSUME NEW s \in Signals, NEW t \in HandlersRunIn, Deliver(s, t)
      PROVE  Order'
  <2>1. /\ handler' \in Workers \cup {Main, Writer, Nobody}
        /\ sent' \subseteq Signals /\ spent' \subseteq Signals
    BY <1>3 DEF Deliver
  <2>2. killed' \in BOOLEAN
    BY <1>3, Zenon DEF Deliver
  <2> QED
    BY <1>3, <2>1, <2>2 DEF Deliver
<1> QED
  BY <1>1, <1>2, <1>3

LEMMA StepOrder == Order /\ [Next]_vars => Order'
<1> SUFFICES ASSUME Order, [Next]_vars PROVE Order'
  OBVIOUS
<1>1. CASE UNCHANGED vars
  BY <1>1 DEF vars, Order, TypeOK, StateTellsTheTruth, Starting, Stopping, Gone, Before
<1> QED
  BY <1>1, StartKeepsOrder, OtherMainKeepsOrder, StopKeepsOrder, WorkerKeepsOrder,
     SignalKeepsOrder DEF Next, MainStep

-------------------------------------------------------------------------------
(* The tasks. *)

LEMMA IdleIsFinite ==
    ASSUME NEW p \in Pools
    PROVE  IsFiniteSet(Idle(p)) /\ Cardinality(Idle(p)) \in Nat
<1>1. Idle(p) \subseteq 1..PoolSize /\ IsFiniteSet(1..PoolSize)
  BY PoolSizeType, FS_Interval DEF Idle
<1> QED
  BY <1>1, FS_Subset, FS_CardinalityType

LEMMA ToAddType ==
    ASSUME NEW p \in Pools
    PROVE  (TypeOK => ToAdd(p) \in Nat) /\ (TypeOK' => ToAdd(p)' \in Nat)
BY NPoolsType, PoolSizeType DEF TypeOK, ToAdd, Pools

\* The step leaves the workers that wait, and has no more tasks to answer for.
LEMMA SameIdle ==
    ASSUME Order, Order', Enough, cancelled' = {} => cancelled = {},
           \A p \in Pools : /\ tasks'[p] + ToAdd(p)' <= tasks[p] + ToAdd(p)
                            /\ Idle(p)' = Idle(p)
    PROVE  Enough'
<1> SUFFICES ASSUME cancelled' = {}, NEW p \in Pools
             PROVE  tasks'[p] + ToAdd(p)' <= Cardinality(Idle(p))
  BY DEF Enough
<1>1. tasks[p] + ToAdd(p) <= Cardinality(Idle(p)) /\ Cardinality(Idle(p)) \in Nat
  BY IdleIsFinite DEF Enough
<1>2. tasks[p] \in Nat /\ tasks'[p] \in Nat
  BY DEF Order, TypeOK
<1>3. ToAdd(p) \in Nat /\ ToAdd(p)' \in Nat
  BY ToAddType DEF Order
<1> QED
  BY <1>1, <1>2, <1>3

\* The last worker has started: all of them wait, and all tasks are to be added.
LEMMA StartWorkerIsEnough ==
    ASSUME Order, Enough, Order', StartWorker
    PROVE  Enough'
<1> SUFFICES ASSUME NEW p \in Pools
             PROVE  tasks'[p] + ToAdd(p)' <= Cardinality(Idle(p)')
  BY DEF Enough
<1> DEFINE w == <<pool, i>>
<1>1. /\ NextIndex("start", "tasks") /\ mpc = "start" /\ tasks' = tasks
      /\ os' = [os EXCEPT ![w] = "waits"]
  BY DEF StartWorker, threadVars
<1>2. tasks'[p] = 0
  BY <1>1 DEF Order, Starting
<1>3. IsFiniteSet(Idle(p)') /\ Cardinality(Idle(p)') \in Nat
  <2>1. Idle(p)' \subseteq 1..PoolSize /\ IsFiniteSet(1..PoolSize)
    BY PoolSizeType, FS_Interval DEF Idle
  <2> QED
    BY <2>1, FS_Subset, FS_CardinalityType
<1>4. CASE mpc' = "start"
  BY <1>2, <1>3, <1>4 DEF ToAdd
<1>5. CASE mpc' # "start"
  <2>1. /\ mpc' = "tasks" /\ pool' = 1 /\ i' = 1
        /\ \A v \in Workers : Before(v) \/ v = w
    BY <1>1, <1>5, NextIndexGoes DEF Order
  <2>2. \A v \in Workers : os'[v] = "waits"
    BY <1>1, <2>1, AtWorker DEF Order, Starting, TypeOK
  <2>3. \A n \in 1..PoolSize : <<p, n>> \in Workers
    BY DEF Workers
  <2>4. Idle(p)' = 1..PoolSize
    BY <2>2, <2>3 DEF Idle
  <2>5. Cardinality(Idle(p)') = PoolSize
    BY <2>4, PoolSizeType, FS_Interval
  <2>6. ToAdd(p)' <= PoolSize /\ ToAdd(p)' \in Nat
    BY <2>1, PoolSizeType, NPoolsType DEF ToAdd, Pools
  <2> QED
    BY <1>2, <2>5, <2>6, PoolSizeType
<1> QED
  BY <1>4, <1>5

\* The task that was to be added is one of the pool's.
LEMMA AddTaskIsEnough ==
    ASSUME Order, Order', Enough, AddTask
    PROVE  Enough'
<1>1. /\ mpc = "tasks" /\ NextIndex("tasks", "pid")
      /\ tasks' = [tasks EXCEPT ![pool] = @ + 1] /\ UNCHANGED <<os, cancelled>>
  BY DEF AddTask
<1>2. /\ pool \in 1..NPools /\ i \in 1..PoolSize /\ tasks \in [1..NPools -> Nat]
      /\ NPools \in Nat \ {0} /\ PoolSize \in Nat \ {0}
  BY NPoolsType, PoolSizeType DEF Order, TypeOK, Pools
<1>3. ASSUME NEW p \in Pools
      PROVE  tasks'[p] + ToAdd(p)' <= tasks[p] + ToAdd(p)
  <2>1. p \in 1..NPools
    BY DEF Pools
  <2>2. CASE i < PoolSize
    <3>1. i' = i + 1 /\ mpc' = "tasks" /\ pool' = pool
      BY <1>1, <2>2 DEF NextIndex
    <3> QED
      BY <1>1, <1>2, <2>1, <2>2, <3>1 DEF ToAdd
  <2>3. CASE i = PoolSize /\ pool < NPools
    <3>1. i' = 1 /\ mpc' = "tasks" /\ pool' = pool + 1
      BY <1>1, <1>2, <2>3 DEF NextIndex
    <3> QED
      BY <1>1, <1>2, <2>1, <2>3, <3>1 DEF ToAdd
  <2>4. CASE i = PoolSize /\ pool = NPools
    <3>1. mpc' = "pid"
      BY <1>1, <1>2, <2>4 DEF NextIndex
    <3> QED
      BY <1>1, <1>2, <2>1, <2>4, <3>1 DEF ToAdd
  <2> QED
    BY <1>2, <2>2, <2>3, <2>4
<1> QED
  BY <1>1, <1>3, SameIdle DEF Idle

\* A worker that takes a task no longer waits: one less of each.
LEMMA TakeTaskIsEnough ==
    ASSUME Order, Enough, NEW w \in Workers, TakeTask(w)
    PROVE  Enough'
<1> SUFFICES ASSUME cancelled = {}, NEW p \in Pools
             PROVE  tasks'[p] + ToAdd(p)' <= Cardinality(Idle(p)')
  BY DEF Enough, TakeTask
<1>1. /\ w[1] \in Pools /\ w[2] \in 1..PoolSize
      /\ \A n \in 1..PoolSize : /\ <<p, n>> \in Workers
                                /\ <<p, n>> = w <=> p = w[1] /\ n = w[2]
  BY DEF Workers
<1>2. /\ os[w] = "waits" /\ os' = [os EXCEPT ![w] = "runs"]
      /\ tasks[w[1]] > 0 /\ tasks' = [tasks EXCEPT ![w[1]] = @ - 1]
  BY DEF TakeTask, Work
<1>3. ToAdd(p)' = ToAdd(p)
  BY DEF TakeTask, ToAdd
<1>4. /\ os \in [Workers -> {"none", "waits", "runs", "logs", "loops", "ended", "joined"}]
      /\ tasks \in [Pools -> Nat] /\ ToAdd(p) \in Nat
  BY ToAddType DEF Order, TypeOK
<1>5. tasks[p] + ToAdd(p) <= Cardinality(Idle(p))
  BY DEF Enough
<1>6. IsFiniteSet(Idle(p)) /\ Cardinality(Idle(p)) \in Nat
  BY IdleIsFinite
<1>7. CASE p = w[1]
  <2>1. Idle(p)' = Idle(p) \ {w[2]} /\ w[2] \in Idle(p)
    BY <1>1, <1>2, <1>4, <1>7 DEF Idle
  <2>2. Cardinality(Idle(p)') = Cardinality(Idle(p)) - 1
    <3>1. Cardinality(Idle(p) \ {w[2]}) = Cardinality(Idle(p)) - 1
      <4> DEFINE S == Idle(p)
                 n == w[2]
      <4>1. IsFiniteSet(S) /\ n \in S
        BY <1>6, <2>1
      <4> HIDE DEF S, n
      <4>2. Cardinality(S \ {n}) = Cardinality(S) - 1
        BY <4>1, FS_RemoveElement
      <4> QED
        BY <4>2 DEF S, n
    <3> QED
      BY <2>1, <3>1
  <2>3. tasks'[p] = tasks[p] - 1 /\ tasks[p] \in Nat
    BY <1>2, <1>4, <1>7
  <2> QED
    BY <1>3, <1>4, <1>5, <1>6, <2>2, <2>3
<1>8. CASE p # w[1]
  <2>1. Idle(p)' = Idle(p) /\ tasks'[p] = tasks[p]
    BY <1>1, <1>2, <1>4, <1>8 DEF Idle
  <2> QED
    BY <1>3, <1>5, <2>1
<1> QED
  BY <1>7, <1>8

\* A worker that is not waiting before or after.
LEMMA BusyIsEnough ==
    ASSUME Order, Order', Enough, NEW w \in Workers,
           BeginLog(w) \/ EndLog(w) \/ Loops(w) \/ End(w)
    PROVE  Enough'
<1>1. CASE cancelled # {}
  BY <1>1 DEF Enough, BeginLog, EndLog, Loops, End
<1>2. CASE cancelled = {}
  <2>1. /\ os[w] # "waits" /\ \E to \in {"runs", "logs", "loops"} : os' = [os EXCEPT ![w] = to]
        /\ UNCHANGED <<mpc, pool, i, tasks, cancelled>>
    BY <1>2 DEF BeginLog, EndLog, Loops, End, Work
  <2>2. os \in [Workers -> {"none", "waits", "runs", "logs", "loops", "ended", "joined"}]
    BY DEF Order, TypeOK
  <2>3. ASSUME NEW p \in Pools
        PROVE  /\ Idle(p)' = Idle(p) /\ tasks'[p] = tasks[p] /\ ToAdd(p)' = ToAdd(p)
               /\ tasks[p] \in Nat /\ ToAdd(p) \in Nat
    <3>1. \A n \in 1..PoolSize : os'[<<p, n>>] = "waits" <=> os[<<p, n>>] = "waits"
      BY <2>1, <2>2 DEF Workers
    <3> QED
      BY <2>1, <3>1, ToAddType DEF Idle, ToAdd, Order, TypeOK
  <2> QED
    BY <2>1, <2>3, SameIdle
<1> QED
  BY <1>1, <1>2

\* Steps of main and of signals that leave the workers and the tasks.
LEMMA OthersAreEnough ==
    ASSUME Order, Order', Enough, UNCHANGED <<os, tasks>>, cancelled' = {} => cancelled = {},
           mpc' = "tasks" => mpc = "tasks" /\ UNCHANGED <<pool, i>>
    PROVE  Enough'
<1>1. ASSUME NEW p \in Pools
      PROVE  Idle(p)' = Idle(p) /\ tasks'[p] + ToAdd(p)' <= tasks[p] + ToAdd(p)
  <2>1. tasks[p] \in Nat /\ ToAdd(p) \in Nat
    BY ToAddType DEF Order, TypeOK
  <2>2. ToAdd(p)' = ToAdd(p) \/ ToAdd(p)' = 0
    BY DEF ToAdd
  <2> QED
    BY <2>1, <2>2 DEF Idle
<1> QED
  BY <1>1, SameIdle

\* Once a worker is cancelled nothing is promised.
LEMMA JoinIsEnough ==
    ASSUME Order, Order', Enough, Join
    PROVE  Enough'
<1> DEFINE w == <<pool, i>>
<1>1. /\ mpc = "join" /\ os[w] = "ended" /\ os' = [os EXCEPT ![w] = "joined"]
      /\ UNCHANGED <<tasks, cancelled>> /\ NextIndex("cancel", "unlink")
  BY DEF Join
<1>2. os \in [Workers -> {"none", "waits", "runs", "logs", "loops", "ended", "joined"}] /\ w \in Workers
  BY AtWorker DEF Order, TypeOK
<1>3. mpc' # "tasks"
  BY <1>1 DEF NextIndex
<1>4. ASSUME NEW p \in Pools
      PROVE  /\ Idle(p)' = Idle(p) /\ tasks'[p] + ToAdd(p)' <= tasks[p] + ToAdd(p)
  <2>1. \A n \in 1..PoolSize : os'[<<p, n>>] = "waits" <=> os[<<p, n>>] = "waits"
    BY <1>1, <1>2 DEF Workers
  <2>2. Idle(p)' = Idle(p)
    BY <2>1 DEF Idle
  <2>3. ToAdd(p) = 0 /\ ToAdd(p)' = 0
    BY <1>1, <1>3 DEF ToAdd
  <2>4. tasks[p] \in Nat /\ tasks'[p] = tasks[p]
    BY <1>1 DEF Order, TypeOK
  <2> QED
    BY <2>2, <2>3, <2>4
<1> QED
  BY <1>1, <1>4, SameIdle

LEMMA StepEnough ==
    ASSUME Order, Order', Enough, [Next]_vars
    PROVE  Enough'
<1>1. CASE StartWorkerFails \/ Cancel
  <2>1. UNCHANGED <<os, tasks>> /\ (cancelled' = {} => cancelled = {})
    BY <1>1 DEF StartWorkerFails, Cancel, threadVars
  <2>2. mpc' # "tasks"
    BY <1>1 DEF StartWorkerFails, Cancel, NextIndex
  <2> QED
    BY <2>1, <2>2, OthersAreEnough
<1>2. CASE \/ CreatePidFile \/ SetSigaction \/ Check \/ Pause \/ ShutdownLog
           \/ ShutdownLogged \/ DeletePidFile \/ DeleteGlob \/ Return
  <2>1. UNCHANGED <<os, tasks, cancelled>> /\ mpc' # "tasks"
    BY <1>2 DEF CreatePidFile, SetSigaction, Check, Pause, ShutdownLog, ShutdownLogged,
       DeletePidFile, DeleteGlob, Return, threadVars
  <2> QED
    BY <2>1, OthersAreEnough
<1>3. CASE \/ HandlerRuns
           \/ \E s \in Signals : Send(s) \/ \E t \in HandlersRunIn : Deliver(s, t)
  <2>1. UNCHANGED <<os, tasks, cancelled, pool, i>> /\ (mpc' = "tasks" => mpc = "tasks")
    BY <1>3 DEF HandlerRuns, Send, Deliver, threadVars
  <2> QED
    BY <2>1, OthersAreEnough
<1>4. CASE UNCHANGED vars
  BY <1>4, OthersAreEnough DEF vars
<1> QED
  BY <1>1, <1>2, <1>3, <1>4, StartWorkerIsEnough, AddTaskIsEnough, JoinIsEnough,
     TakeTaskIsEnough, BusyIsEnough DEF Next, MainStep, WorkerStep

LEMMA InitEnough == Init => Enough
<1> SUFFICES ASSUME Init, NEW p \in Pools
             PROVE  tasks[p] + ToAdd(p) <= Cardinality(Idle(p))
  BY DEF Enough
<1>1. tasks[p] = 0 /\ ToAdd(p) = 0
  BY DEF Init, ToAdd
<1> QED
  BY <1>1, IdleIsFinite

THEOREM LifecycleInvariant == Spec => []IInv
<1>1. Init => IInv
  BY InitOrder, InitEnough DEF IInv
<1>2. IInv /\ [Next]_vars => IInv'
  BY StepOrder, StepEnough DEF IInv
<1> QED
  BY <1>1, <1>2, PTL DEF Spec

-------------------------------------------------------------------------------
(* The theorems. *)

\* TypeOK: every step of main, the workers and the handlers keeps the types.
THEOREM TypeCorrect == Spec => []TypeOK
<1>1. IInv => TypeOK
  BY DEF IInv, Order
<1> QED
  BY <1>1, LifecycleInvariant, PTL

\* Thread::_state is RUNNING exactly for a thread that exists and is not joined, so
\* stop() and the destructors touch no thread that is gone.
THEOREM StatesAreTrue == Spec => []StateTellsTheTruth
<1>1. IInv => StateTellsTheTruth
  BY DEF IInv, Order
<1> QED
  BY <1>1, LifecycleInvariant, PTL

\* Global deletes the logger when no worker is left, wherever the start stopped.
THEOREM LoggerIsDeletedLast == Spec => []LoggerOutlivesWorkers
<1>1. IInv => LoggerOutlivesWorkers
  BY DEF IInv, Order, Stopping, Gone, LoggerOutlivesWorkers
<1> QED
  BY <1>1, LifecycleInvariant, PTL

\* Until the shutdown each task has a worker waiting for it, however many starts
\* of threads failed.
THEOREM TasksHaveWorkers == Spec => []TasksFindWorkers
<1>1. IInv => TasksFindWorkers
  <2> SUFFICES ASSUME IInv, cancelled = {}, NEW p \in Pools
               PROVE  tasks[p] <= Cardinality(Idle(p))
    BY DEF TasksFindWorkers, Idle
  <2>1. tasks[p] \in Nat /\ ToAdd(p) \in Nat /\ Cardinality(Idle(p)) \in Nat
    BY ToAddType, IdleIsFinite DEF IInv, Order, TypeOK
  <2>2. tasks[p] + ToAdd(p) <= Cardinality(Idle(p))
    BY DEF IInv, Enough
  <2> QED
    BY <2>1, <2>2
<1> QED
  BY <1>1, LifecycleInvariant, PTL
===============================================================================
