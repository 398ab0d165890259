-------------------------------- MODULE Logger --------------------------------
(***************************************************************************)
(* The logger (logger.cc, logger_task.cc, log.cc): every thread appends    *)
(* its messages to _primary under _primary_mutex; when the buffer is over  *)
(* its threshold and the other one is empty the two are swapped and the    *)
(* writer thread is woken through the semaphore.  _secondary itself is     *)
(* guarded by no lock.  The destructor, run by main after the threads have *)
(* stopped, drains both buffers within two bounded waits, cancels the      *)
(* writer and joins it.                                                    *)
(*                                                                         *)
(* The two log files are one sequence here, written.  When a file cannot   *)
(* be opened, log() writes to the console at once and uses no state.       *)
(***************************************************************************)
EXTENDS Naturals, Sequences, FiniteSets

CONSTANTS
    Threads,        \* the threads that call LOG
    Nobody,
    Threshold,      \* _threshold
    MaxWaits,       \* the destructor's five sleeps
    MaxLogs         \* bound of the model: messages per thread

ASSUME NobodyIsNoThread == Nobody \notin Threads
ASSUME ThresholdType == Threshold \in Nat
ASSUME MaxWaitsType == MaxWaits \in Nat
ASSUME MaxLogsType == MaxLogs \in Nat

VARIABLES
    primary, secondary,     \* _primary, _secondary
    owner,                  \* the owner of _primary_mutex
    sem,                    \* _semaphore
    pc,                     \* where each thread is in log()
    wpc, at,                \* the writer thread and its position in secondary
    written,                \* what is on the disk
    dpc, waits,             \* the destructor and its loop counter
    timedOut,               \* a wait of the destructor ran out
    logged                  \* history: the messages in the order of log()

vars == <<primary, secondary, owner, sem, pc, wpc, at, written, dpc, waits,
          timedOut, logged>>

Messages == Threads \X (1..MaxLogs)

Init ==
    /\ primary = <<>> /\ secondary = <<>>
    /\ owner = Nobody
    /\ sem = 0
    /\ pc = [t \in Threads |-> "idle"]
    /\ wpc = "wait" /\ at = 0
    /\ written = <<>>
    /\ dpc = "alive" /\ waits = 0
    /\ timedOut = FALSE
    /\ logged = <<>>

Goto(t, place) == pc' = [pc EXCEPT ![t] = place]

CountOf(t) == Cardinality({i \in 1..Len(logged) : logged[i][1] = t})

-------------------------------------------------------------------------------
(* Logger::log *)

LogLock(t) ==
    /\ pc[t] = "idle"
    /\ dpc = "alive"
    /\ CountOf(t) < MaxLogs
    /\ owner = Nobody
    /\ owner' = t
    /\ Goto(t, "push")
    /\ UNCHANGED <<primary, secondary, sem, wpc, at, written, dpc, waits, timedOut, logged>>

LogPush(t) ==
    LET m == <<t, CountOf(t) + 1>> IN
    /\ pc[t] = "push"
    /\ primary' = Append(primary, m)
    /\ logged' = Append(logged, m)
    /\ Goto(t, IF Len(primary) + 1 > Threshold THEN "test" ELSE "unlock")
    /\ UNCHANGED <<secondary, owner, sem, wpc, at, written, dpc, waits, timedOut>>

\* Mutant: the test of _secondary.size() is forgotten.
LogNoTest(t) ==
    /\ pc[t] = "test"
    /\ Goto(t, "swap")
    /\ UNCHANGED <<primary, secondary, owner, sem, wpc, at, written, dpc, waits,
                   timedOut, logged>>

\* The writer may clear _secondary at any moment around this test.
LogTest(t) ==
    /\ pc[t] = "test"
    /\ Goto(t, IF secondary # <<>> THEN "unlock" ELSE "swap")
    /\ UNCHANGED <<primary, secondary, owner, sem, wpc, at, written, dpc, waits,
                   timedOut, logged>>

LogSwap(t) ==
    /\ pc[t] = "swap"
    /\ primary' = secondary
    /\ secondary' = primary
    /\ Goto(t, "post")
    /\ UNCHANGED <<owner, sem, wpc, at, written, dpc, waits, timedOut, logged>>

\* Mutant: the writer is not woken.
LogNoPost(t) ==
    /\ pc[t] = "post"
    /\ Goto(t, "unlock")
    /\ UNCHANGED <<primary, secondary, owner, sem, wpc, at, written, dpc, waits,
                   timedOut, logged>>

LogPost(t) ==
    /\ pc[t] = "post"
    /\ sem' = sem + 1
    /\ Goto(t, "unlock")
    /\ UNCHANGED <<primary, secondary, owner, wpc, at, written, dpc, waits, timedOut, logged>>

LogUnlock(t) ==
    /\ pc[t] = "unlock"
    /\ owner' = Nobody
    /\ Goto(t, "idle")
    /\ UNCHANGED <<primary, secondary, sem, wpc, at, written, dpc, waits, timedOut, logged>>

Log(t) ==
    \/ LogPush(t) \/ LogTest(t) \/ LogSwap(t) \/ LogPost(t) \/ LogUnlock(t)

-------------------------------------------------------------------------------
(* LoggerTask::operator() *)

WriterWait ==
    /\ wpc = "wait"
    /\ sem > 0
    /\ sem' = sem - 1
    /\ wpc' = "write"
    /\ UNCHANGED <<primary, secondary, owner, pc, at, written, dpc, waits, timedOut, logged>>

WriterWrite ==
    /\ wpc = "write"
    /\ at < Len(secondary)
    /\ written' = Append(written, secondary[at + 1])
    /\ at' = at + 1
    /\ UNCHANGED <<primary, secondary, owner, sem, pc, wpc, dpc, waits, timedOut, logged>>

\* Mutant: the written buffer is not cleared.
WriterNoClear ==
    /\ wpc = "write"
    /\ at = Len(secondary)
    /\ at' = 0
    /\ wpc' = "wait"
    /\ UNCHANGED <<primary, secondary, owner, sem, pc, written, dpc, waits, timedOut, logged>>

WriterClear ==
    /\ wpc = "write"
    /\ at = Len(secondary)
    /\ secondary' = <<>>
    /\ at' = 0
    /\ wpc' = "wait"
    /\ UNCHANGED <<primary, owner, sem, pc, written, dpc, waits, timedOut, logged>>

\* A cancelled thread ends at a cancellation point: sem_wait, or write.
WriterEnds ==
    /\ dpc = "join"
    /\ wpc = "wait" \/ (wpc = "write" /\ at < Len(secondary))
    /\ wpc' = "dead"
    /\ UNCHANGED <<primary, secondary, owner, sem, pc, at, written, dpc, waits,
                   timedOut, logged>>

Writer == WriterWait \/ WriterWrite \/ WriterClear \/ WriterEnds

-------------------------------------------------------------------------------
(* Logger::~Logger *)

\* main has joined every other thread, and is not in LOG itself.
Destruct ==
    /\ dpc = "alive"
    /\ \A t \in Threads : pc[t] = "idle"
    /\ dpc' = "drain"
    /\ UNCHANGED <<primary, secondary, owner, sem, pc, wpc, at, written, waits,
                   timedOut, logged>>

\* Mutant: the rounds are not counted.
DrainSleepAgain(place) ==
    /\ dpc = place
    /\ secondary # <<>>
    /\ UNCHANGED vars

\* One round of either wait: look, and sleep when there is something left.
DrainSleep(place) ==
    /\ dpc = place
    /\ secondary # <<>>
    /\ waits < MaxWaits
    /\ waits' = waits + 1
    /\ UNCHANGED <<primary, secondary, owner, sem, pc, wpc, at, written, dpc,
                   timedOut, logged>>

DrainSleeps == DrainSleep("drain") \/ DrainSleep("flush")

\* The first wait succeeded: what is left in _primary goes to the writer.
DrainSwap ==
    /\ dpc = "drain"
    /\ secondary = <<>>
    /\ waits < MaxWaits
    /\ primary' = secondary
    /\ secondary' = primary
    /\ sem' = sem + 1
    /\ waits' = 0
    /\ dpc' = "flush"
    /\ UNCHANGED <<owner, pc, wpc, at, written, timedOut, logged>>

\* The first wait ran out: _primary is left behind.
DrainTimeout ==
    /\ dpc = "drain"
    /\ waits = MaxWaits
    /\ timedOut' = TRUE
    /\ waits' = 0
    /\ dpc' = "flush"
    /\ UNCHANGED <<primary, secondary, owner, sem, pc, wpc, at, written, logged>>

\* Mutant: the second wait is left out.
FlushNot ==
    /\ dpc = "flush"
    /\ dpc' = "cancel"
    /\ UNCHANGED <<primary, secondary, owner, sem, pc, wpc, at, written, waits,
                   timedOut, logged>>

FlushDone ==
    /\ dpc = "flush"
    /\ secondary = <<>> \/ waits = MaxWaits
    /\ timedOut' = (timedOut \/ secondary # <<>>)
    /\ dpc' = "cancel"
    /\ UNCHANGED <<primary, secondary, owner, sem, pc, wpc, at, written, waits, logged>>

\* stop_blocking: pthread_cancel, which does not wait, then pthread_join, which does,
\* for as long as the writer is in a write.  Then the files are closed.
CancelWriter ==
    /\ dpc = "cancel"
    /\ dpc' = "join"
    /\ UNCHANGED <<primary, secondary, owner, sem, pc, wpc, at, written, waits,
                   timedOut, logged>>

JoinWriter ==
    /\ dpc = "join"
    /\ wpc = "dead"
    /\ dpc' = "closed"
    /\ UNCHANGED <<primary, secondary, owner, sem, pc, wpc, at, written, waits,
                   timedOut, logged>>

Destructor ==
    \/ DrainSleeps \/ DrainSwap \/ DrainTimeout \/ FlushDone \/ CancelWriter \/ JoinWriter

-------------------------------------------------------------------------------

Next ==
    \/ \E t \in Threads : LogLock(t) \/ Log(t)
    \/ Writer
    \/ Destruct
    \/ Destructor

Spec == Init /\ [][Next]_vars

\* A thread inside log() and the destructor go on, and a writer that waits for a
\* wake-up can be cancelled.  Nothing makes a thread log or main destruct the logger,
\* and the writer may be stuck on its disk.
FairSpec ==
    /\ Spec
    /\ \A t \in Threads : WF_vars(Log(t))
    /\ WF_vars(Destructor)
    /\ WF_vars(WriterEnds /\ wpc = "wait")

-------------------------------------------------------------------------------
(* Properties. *)

TypeOK ==
    /\ primary \in Seq(Messages) /\ secondary \in Seq(Messages)
    /\ owner \in Threads \cup {Nobody}
    /\ sem \in Nat
    /\ pc \in [Threads -> {"idle", "push", "test", "swap", "post", "unlock"}]
    /\ wpc \in {"wait", "write", "dead"}
    /\ at \in Nat
    /\ written \in Seq(Messages)
    /\ dpc \in {"alive", "drain", "flush", "cancel", "join", "closed"}
    /\ waits \in 0..MaxWaits
    /\ timedOut \in BOOLEAN
    /\ logged \in Seq(Messages)

\* The part of _secondary that the writer has not written yet.
Unwritten == SubSeq(secondary, at + 1, Len(secondary))

\* Every message is on the disk or in exactly one buffer, in the order in which
\* log() took it: a swap never overtakes, drops or repeats a message.
LogIsComplete == written \o Unwritten \o primary = logged

\* _secondary has no lock because it has one user at a time: nobody swaps the
\* buffers while the writer, or a wake-up on its way to it, is on them.
SecondaryExclusive ==
    \A t \in Threads :
        pc[t] \in {"swap", "post"} => wpc = "wait" /\ sem = 0

\* Logger::~Logger: when no wait ran out, the logger is destroyed with every
\* message on the disk.
FlushedUnlessSlow == dpc = "closed" /\ ~timedOut => written = logged

\* Every buffer handed to the writer is written and cleared while the logger
\* lives, if the disk takes what the writer writes: the wake-up for it is never
\* missed.
BufferIsWritten ==
    WF_vars(Writer) => (secondary # <<>> ~> (secondary = <<>> \/ dpc # "alive"))

\* The destructor waits for nothing but the disk: it ends if the disk takes what the
\* writer writes, and else it comes past its bounded waits and ends, or joins for ever
\* a writer that is on _secondary.
Stuck == dpc = "join" /\ wpc = "write"
DestructorEnds ==
    <>(dpc = "drain") =>
        /\ <>(dpc = "closed") \/ <>[]Stuck
        /\ WF_vars(Writer) => <>(dpc = "closed")
===============================================================================
