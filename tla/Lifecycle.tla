------------------------------- MODULE Lifecycle -------------------------------
(***************************************************************************)
(* The life of the process: main (myjfm_spider.cc) starts the thread pools *)
(* (thread_pool.cc, thread.cc, thread_task.cc), sleeps until a signal, and *)
(* shuts down: it cancels and joins the workers pool by pool and deletes   *)
(* Global, and with it the logger, last.  A signal handler runs in some    *)
(* thread between two of its steps, and logs, which takes the logger's     *)
(* mutex.                                                                  *)
(***************************************************************************)
EXTENDS Naturals, FiniteSets

CONSTANTS
    NPools, PoolSize,       \* the pools, in the order main starts and stops them
    MaxRetry,               \* MAX_RETRY of thread_pool.h
    Signals,                \* the signals sent: SIGTERM, SIGINT
    HandlersRunIn,          \* the threads the kernel may pick for a handler
    Main, Nobody,
    Writer                  \* the logger's thread, which waits on a semaphore

ASSUME NPoolsType == NPools \in Nat \ {0}
ASSUME PoolSizeType == PoolSize \in Nat \ {0}
ASSUME MaxRetryType == MaxRetry \in Nat

Pools == 1..NPools
Workers == Pools \X (1..PoolSize)

ASSUME MainIsNoWorker == Main \notin Workers /\ Nobody \notin Workers \cup {Main}
ASSUME WriterIsNoWorker == Writer \notin Workers \cup {Main, Nobody}
ASSUME HandlersRunInType == HandlersRunIn \subseteq Workers \cup {Main, Writer}

VARIABLES
    mpc, pool, i,       \* main, the pool and the index it works on
    retry,              \* ThreadPool::init: retries so far
    state,              \* Thread::_state
    os,                 \* the kernel's thread behind it, with what it is doing
    cancelled,          \* threads with a cancellation request
    tasks,              \* _tasks of each pool, as a number
    flag,               \* _to_be_shutdown
    caught,             \* set_sigaction has been called
    sent,               \* signals sent, and not delivered
    spent,              \* signals whose handler has run (SA_RESETHAND)
    handler,            \* the thread that runs the handler
    mutex,              \* the owner of Logger::_primary_mutex
    logger,             \* the logger, and Global around it, exist
    pidfile,            \* myjfm_spider.pid exists
    killed              \* a signal had its default effect, or ended in abort()

vars == <<mpc, pool, i, retry, state, os, cancelled, tasks, flag, caught, sent,
          spent, handler, mutex, logger, pidfile, killed>>

Init ==
    /\ mpc = "start" /\ pool = 1 /\ i = 1 /\ retry = 0
    /\ state = [w \in Workers |-> "INIT"]
    /\ os = [w \in Workers |-> "none"]
    /\ cancelled = {}
    /\ tasks = [p \in Pools |-> 0]
    /\ flag = FALSE /\ caught = FALSE
    /\ sent = {} /\ spent = {} /\ handler = Nobody
    /\ mutex = Nobody /\ logger = TRUE
    /\ pidfile = FALSE /\ killed = FALSE

\* A thread goes on while the process lives and no handler runs on it.
Free(t) == ~killed /\ handler # t

threadVars == <<state, os, cancelled, tasks>>
signalVars == <<flag, caught, sent, spent, handler, killed>>
restVars == <<mutex, logger, pidfile>>

-------------------------------------------------------------------------------
(* init_modules: ThreadPool::init for each pool, then the tasks. *)

\* The next worker of the pool, the first of the next pool, or the next stage.
NextIndex(here, after) ==
    IF i < PoolSize
    THEN i' = i + 1 /\ mpc' = here /\ UNCHANGED pool
    ELSE /\ i' = 1
         /\ IF pool < NPools THEN pool' = pool + 1 /\ mpc' = here
                             ELSE pool' = 1 /\ mpc' = after

\* Thread::start: pthread_create, the handshake through the semaphore, RUNNING.
StartWorker ==
    LET w == <<pool, i>> IN
    /\ mpc = "start" /\ Free(Main)
    /\ state' = [state EXCEPT ![w] = "RUNNING"]
    /\ os' = [os EXCEPT ![w] = "waits"]
    /\ retry' = IF i = PoolSize THEN 0 ELSE retry
    /\ NextIndex("start", "tasks")
    /\ UNCHANGED <<cancelled, tasks>> /\ UNCHANGED signalVars /\ UNCHANGED restVars

\* Mutant: i-- is forgotten, a worker that could not start is left out.
StartWorkerSkips ==
    /\ mpc = "start" /\ Free(Main)
    /\ NextIndex("start", "tasks")
    /\ UNCHANGED <<retry, flag, caught, sent, spent, handler, killed>>
    /\ UNCHANGED threadVars /\ UNCHANGED restVars

\* pthread_create fails: the same index again, MAX_RETRY times in one pool.
StartWorkerFails ==
    /\ mpc = "start" /\ Free(Main)
    /\ IF retry < MaxRetry
       THEN retry' = retry + 1 /\ UNCHANGED <<mpc, flag>>
       ELSE mpc' = "pid" /\ flag' = TRUE /\ UNCHANGED retry
    /\ UNCHANGED <<pool, i, caught, sent, spent, handler, killed>>
    /\ UNCHANGED threadVars /\ UNCHANGED restVars

AddTask ==
    /\ mpc = "tasks" /\ Free(Main)
    /\ tasks' = [tasks EXCEPT ![pool] = @ + 1]
    /\ NextIndex("tasks", "pid")
    /\ UNCHANGED <<retry, state, os, cancelled>>
    /\ UNCHANGED signalVars /\ UNCHANGED restVars

CreatePidFile ==
    /\ mpc = "pid" /\ Free(Main)
    /\ pidfile' = TRUE
    /\ mpc' = "sigaction"
    /\ UNCHANGED <<pool, i, retry, mutex, logger>>
    /\ UNCHANGED threadVars /\ UNCHANGED signalVars

SetSigaction ==
    /\ mpc = "sigaction" /\ Free(Main)
    /\ caught' = TRUE
    /\ mpc' = "check"
    /\ UNCHANGED <<pool, i, retry, flag, sent, spent, handler, killed>>
    /\ UNCHANGED threadVars /\ UNCHANGED restVars

-------------------------------------------------------------------------------
(* The loop of main: test the flag, then pause(). *)

Check ==
    /\ mpc = "check" /\ Free(Main)
    /\ mpc' = IF flag THEN "log" ELSE "tested"
    /\ UNCHANGED <<pool, i, retry>>
    /\ UNCHANGED threadVars /\ UNCHANGED signalVars /\ UNCHANGED restVars

\* A handler that runs before this step is not waited for.
Pause ==
    /\ mpc = "tested" /\ Free(Main)
    /\ mpc' = "pause"
    /\ UNCHANGED <<pool, i, retry>>
    /\ UNCHANGED threadVars /\ UNCHANGED signalVars /\ UNCHANGED restVars

-------------------------------------------------------------------------------
(* Signals.  Before set_sigaction and after its handler ran once, a signal     *)
(* kills.  A handler interrupts pause() of main and sem_wait of the writer: there is *)
(* no SA_RESTART, and Semaphore::wait takes the error for fatal.               *)

Send(s) ==
    /\ s \in Signals \ (sent \cup spent)
    /\ mpc # "exit"
    /\ sent' = sent \cup {s}
    /\ UNCHANGED <<mpc, pool, i, retry, flag, caught, spent, handler, killed>>
    /\ UNCHANGED threadVars /\ UNCHANGED restVars

Alive(t) ==
    \/ t = Main
    \/ t = Writer /\ logger
    \/ t \in Workers /\ os[t] \in {"waits", "runs", "logs", "loops"}

Deliver(s, t) ==
    /\ s \in sent /\ ~killed /\ mpc # "exit"
    /\ t \in HandlersRunIn /\ Alive(t)
    /\ handler = Nobody
    /\ sent' = sent \ {s}
    /\ spent' = spent \cup {s}
    /\ IF caught
       THEN handler' = t /\ UNCHANGED killed
       ELSE killed' = TRUE /\ UNCHANGED handler
    /\ UNCHANGED <<mpc, pool, i, retry, flag, caught>>
    /\ UNCHANGED threadVars /\ UNCHANGED restVars

\* LOG locks and unlocks the mutex of the logger, which is not recursive, then
\* the flag is set; the interrupted pause() returns.  The writer aborts the process,
\* if it was waiting.
HandlerRuns ==
    /\ handler # Nobody /\ ~killed
    /\ mutex = Nobody
    /\ flag' = TRUE
    /\ handler' = Nobody
    /\ mpc' = IF handler = Main /\ mpc = "pause" THEN "check" ELSE mpc
    /\ killed' \in {FALSE, handler = Writer}
    /\ UNCHANGED <<pool, i, retry, caught, sent, spent>>
    /\ UNCHANGED threadVars /\ UNCHANGED restVars

-------------------------------------------------------------------------------
(* Workers: ThreadTask takes a task and runs it for ever; the task logs.       *)

Work(w, from, to) ==
    /\ Free(w)
    /\ os[w] = from
    /\ os' = [os EXCEPT ![w] = to]

TakeTask(w) ==
    /\ Work(w, "waits", "runs")
    /\ tasks[w[1]] > 0
    /\ tasks' = [tasks EXCEPT ![w[1]] = @ - 1]
    /\ UNCHANGED <<mpc, pool, i, retry, state, cancelled>>
    /\ UNCHANGED signalVars /\ UNCHANGED restVars

BeginLog(w) ==
    /\ Work(w, "runs", "logs")
    /\ mutex = Nobody
    /\ mutex' = w
    /\ UNCHANGED <<mpc, pool, i, retry, state, cancelled, tasks, logger, pidfile>>
    /\ UNCHANGED signalVars

EndLog(w) ==
    /\ Work(w, "logs", "runs")
    /\ mutex' = Nobody
    /\ UNCHANGED <<mpc, pool, i, retry, state, cancelled, tasks, logger, pidfile>>
    /\ UNCHANGED signalVars

\* The two loops of the tasks that need not end and have no cancellation point.
Loops(w) ==
    /\ Work(w, "runs", "loops")
    /\ UNCHANGED <<mpc, pool, i, retry, state, cancelled, tasks>>
    /\ UNCHANGED signalVars /\ UNCHANGED restVars

\* A cancelled thread ends at its next cancellation point: the wait for a task,
\* a wait or a system call of its task; there is none inside Logger::log.
End(w) ==
    /\ w \in cancelled
    /\ Work(w, "waits", "ended") \/ Work(w, "runs", "ended")
    /\ UNCHANGED <<mpc, pool, i, retry, state, cancelled, tasks>>
    /\ UNCHANGED signalVars /\ UNCHANGED restVars

-------------------------------------------------------------------------------
(* shutdown *)

\* LOG(INFO, "The server is shutting down...")
ShutdownLog ==
    /\ mpc = "log" /\ Free(Main)
    /\ mutex = Nobody
    /\ mutex' = Main
    /\ mpc' = "logged"
    /\ UNCHANGED <<pool, i, retry, logger, pidfile>>
    /\ UNCHANGED threadVars /\ UNCHANGED signalVars

ShutdownLogged ==
    /\ mpc = "logged" /\ Free(Main)
    /\ mutex' = Nobody
    /\ mpc' = "cancel"
    /\ pool' = 1 /\ i' = 1
    /\ UNCHANGED <<retry, logger, pidfile>>
    /\ UNCHANGED threadVars /\ UNCHANGED signalVars

\* Mutant: stop() cancels without joining (stop_nonblocking).
CancelOnly ==
    LET w == <<pool, i>> IN
    /\ mpc = "cancel" /\ Free(Main)
    /\ IF state[w] = "RUNNING"
       THEN cancelled' = cancelled \cup {w} /\ state' = [state EXCEPT ![w] = "STOP"]
       ELSE UNCHANGED <<cancelled, state>>
    /\ NextIndex("cancel", "unlink")
    /\ UNCHANGED <<retry, os, tasks>>
    /\ UNCHANGED signalVars /\ UNCHANGED restVars

\* Mutant: stop_blocking joins a thread it has not cancelled.
JoinOnly ==
    LET w == <<pool, i>> IN
    /\ mpc = "cancel" /\ Free(Main)
    /\ IF state[w] = "RUNNING"
       THEN mpc' = "join" /\ UNCHANGED <<pool, i>>
       ELSE NextIndex("cancel", "unlink")
    /\ UNCHANGED <<retry, state, os, tasks, cancelled>>
    /\ UNCHANGED signalVars /\ UNCHANGED restVars

\* ThreadPool::stop visits the threads that were started; stop_blocking cancels
\* a RUNNING thread and joins it.
Cancel ==
    LET w == <<pool, i>> IN
    /\ mpc = "cancel" /\ Free(Main)
    /\ IF state[w] = "RUNNING"
       THEN cancelled' = cancelled \cup {w} /\ mpc' = "join" /\ UNCHANGED <<pool, i>>
       ELSE NextIndex("cancel", "unlink") /\ UNCHANGED cancelled
    /\ UNCHANGED <<retry, state, os, tasks>>
    /\ UNCHANGED signalVars /\ UNCHANGED restVars

Join ==
    LET w == <<pool, i>> IN
    /\ mpc = "join" /\ Free(Main)
    /\ os[w] = "ended"
    /\ os' = [os EXCEPT ![w] = "joined"]
    /\ state' = [state EXCEPT ![w] = "STOP"]
    /\ NextIndex("cancel", "unlink")
    /\ UNCHANGED <<retry, cancelled, tasks>>
    /\ UNCHANGED signalVars /\ UNCHANGED restVars

DeletePidFile ==
    /\ mpc = "unlink" /\ Free(Main)
    /\ pidfile' = FALSE
    /\ mpc' = "delete"
    /\ UNCHANGED <<pool, i, retry, mutex, logger>>
    /\ UNCHANGED threadVars /\ UNCHANGED signalVars

\* delete glob: ~Global deletes the logger, then the pools go with their last
\* references; their threads are STOP, so neither stop() nor join() does more.
DeleteGlob ==
    /\ mpc = "delete" /\ Free(Main)
    /\ logger' = FALSE
    /\ mpc' = "return"
    /\ UNCHANGED <<pool, i, retry, mutex, pidfile>>
    /\ UNCHANGED threadVars /\ UNCHANGED signalVars

Return ==
    /\ mpc = "return" /\ Free(Main)
    /\ mpc' = "exit"
    /\ UNCHANGED <<pool, i, retry>> /\ UNCHANGED threadVars
    /\ UNCHANGED signalVars /\ UNCHANGED restVars

-------------------------------------------------------------------------------

MainStep ==
    \/ StartWorker \/ StartWorkerFails \/ AddTask \/ CreatePidFile \/ SetSigaction
    \/ Check \/ Pause \/ ShutdownLog \/ ShutdownLogged \/ Cancel \/ Join
    \/ DeletePidFile \/ DeleteGlob \/ Return

WorkerStep(w) == TakeTask(w) \/ BeginLog(w) \/ EndLog(w) \/ Loops(w) \/ End(w)

Next ==
    \/ MainStep
    \/ HandlerRuns
    \/ \E w \in Workers : WorkerStep(w)
    \/ \E s \in Signals : Send(s) \/ \E t \in HandlersRunIn : Deliver(s, t)

Spec == Init /\ [][Next]_vars

\* main and the workers are scheduled; a free mutex is obtained in the end; a
\* cancelled thread comes to a cancellation point, as its tasks do between any
\* two messages.  DeleteGlob ends: of the logger's destructor this is what module Logger
\* shows, if the disk takes what the logger writes; a writer stuck in a write would be
\* joined for ever.  Nothing makes a signal come.
FairSpec ==
    /\ Spec
    /\ SF_vars(MainStep)
    /\ SF_vars(HandlerRuns)
    /\ \A w \in Workers : WF_vars(EndLog(w)) /\ SF_vars(End(w))

-------------------------------------------------------------------------------
(* Properties. *)

TypeOK ==
    /\ mpc \in {"start", "tasks", "pid", "sigaction", "check", "tested", "pause", "log",
               "logged", "cancel", "join", "unlink", "delete", "return", "exit"}
    /\ pool \in Pools /\ i \in 1..PoolSize
    /\ retry \in 0..MaxRetry
    /\ state \in [Workers -> {"INIT", "RUNNING", "STOP"}]
    /\ os \in [Workers -> {"none", "waits", "runs", "logs", "loops", "ended", "joined"}]
    /\ cancelled \subseteq Workers
    /\ tasks \in [Pools -> Nat]
    /\ flag \in BOOLEAN /\ caught \in BOOLEAN
    /\ sent \subseteq Signals /\ spent \subseteq Signals
    /\ handler \in Workers \cup {Main, Writer, Nobody}
    /\ mutex \in Workers \cup {Main, Nobody}
    /\ logger \in BOOLEAN /\ pidfile \in BOOLEAN /\ killed \in BOOLEAN

\* Thread::_state tells what the kernel knows: RUNNING exactly for a thread that
\* exists and is not joined.  So the second stop() of ~ThreadPool and the join()
\* of ~Thread touch no thread that is gone, and stop() misses none.
StateTellsTheTruth ==
    \A w \in Workers :
        state[w] = "RUNNING" <=> os[w] \in {"waits", "runs", "logs", "loops", "ended"}

\* logger.cc: "when destruct the logger, all the child threads ... have
\* stopped", also after an initialisation that stopped half-way.
LoggerOutlivesWorkers ==
    ~logger => \A w \in Workers : os[w] \in {"none", "joined"}

\* Tasks never return, so each needs a thread of its own: as long as nobody is
\* cancelled, a task in a pool's queue has a worker that is free to take it.
TasksFindWorkers ==
    cancelled = {} =>
        \A p \in Pools :
            tasks[p] <= Cardinality({n \in 1..PoolSize : os[<<p, n>>] = "waits"})

\* The handler waits for a mutex that the thread it interrupted holds.
HandlerDeadlocked == handler # Nobody /\ mutex = handler

\* main has tested the flag and not yet returned from pause(): a handler that runs
\* before pause(), or in another thread, does not wake it up.
InTheGap == mpc \in {"tested", "pause"}

\* A signal, or a start that failed, ends the process in order: once the flag is set
\* main sees it, cancels and joins every worker and returns, whatever the workers and
\* a further signal do.  Left out are a signal that comes into the gap, a handler
\* deadlocked in the logger, a task in an endless loop, and a signal that kills.
ShutdownCompletes ==
    flag /\ ~InTheGap ~>
        \/ mpc = "exit" \/ killed
        \/ HandlerDeadlocked \/ \E w \in Workers : os[w] = "loops"
===============================================================================
