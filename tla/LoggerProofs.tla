----------------------------- MODULE LoggerProofs -----------------------------
(***************************************************************************)
(* Proofs about Logger, for any threads, threshold and bounds: its types,  *)
(* that no message is lost, doubled or reordered, that the unlocked        *)
(* _secondary has one user at a time, and that a logger whose waits did    *)
(* not run out is destructed with everything on the disk.                  *)
(***************************************************************************)
EXTENDS Logger, FiniteSetTheorems, SequenceTheorems, TLAPS

\* _primary_mutex: who is inside log() owns it, and is there while the logger lives.
Locked ==
    /\ \A t \in Threads : pc[t] # "idle" <=> owner = t
    /\ dpc # "alive" => \A t \in Threads : pc[t] = "idle"

\* A thread that took the mutex has a message left, and what it swaps is not empty.
Logging ==
    \A t \in Threads :
        /\ pc[t] = "push" => CountOf(t) < MaxLogs
        /\ pc[t] \in {"test", "swap"} => primary # <<>>
        /\ pc[t] = "swap" => secondary = <<>>
        /\ pc[t] = "post" => secondary # <<>>

\* The right to use _secondary is one token: a post, or the writer at work.
OneToken ==
    dpc = "alive" =>
        /\ secondary = <<>> => sem = 0 /\ wpc = "wait"
        /\ wpc = "write" => sem = 0
        /\ sem <= 1
        /\ wpc # "dead"

\* The position of the writer.
Position == at <= Len(secondary) /\ (wpc = "wait" => at = 0)

\* What the destructor's waits have established when they did not run out.
Drained ==
    ~timedOut =>
        /\ dpc \in {"flush", "cancel", "join", "closed"} => primary = <<>>
        /\ dpc \in {"cancel", "join", "closed"} => secondary = <<>>

Control == TypeOK /\ Locked /\ Logging /\ OneToken /\ Position /\ SecondaryExclusive
IInv == Control /\ LogIsComplete /\ Drained

-------------------------------------------------------------------------------
(* Sequences. *)

\* WriterWrite: the element at the front of the rest moves to the end of the disk.
LEMMA MoveOne ==
    ASSUME NEW S, NEW w \in Seq(S), NEW s \in Seq(S), NEW a \in Nat, a < Len(s)
    PROVE  Append(w, s[a + 1]) \o SubSeq(s, a + 2, Len(s)) = w \o SubSeq(s, a + 1, Len(s))
<1> DEFINE e == s[a + 1]
           r == SubSeq(s, a + 2, Len(s))
<1>1. e \in S /\ <<e>> \in Seq(S) /\ r \in Seq(S)
  OBVIOUS
<1> HIDE DEF e, r
<1>2. Append(w, e) = w \o <<e>>
  BY <1>1, AppendIsConcat
<1>3. (w \o <<e>>) \o r = w \o (<<e>> \o r)
  BY <1>1, ConcatAssociative
<1>4. SubSeq(s, a + 1, Len(s)) = <<e>> \o r
  <2>1. a + 1 \in 1..Len(s) /\ Len(s) \in (a + 1)..Len(s) /\ (a + 1) + 1 = a + 2
    OBVIOUS
  <2> QED
    BY <2>1, SubSeqRecursiveFirst DEF e, r
<1> QED
  BY <1>2, <1>3, <1>4 DEF e, r

\* LogPush: what is appended to the last of the buffers is appended to the whole.
LEMMA AppendLast ==
    ASSUME NEW S, NEW x \in Seq(S), NEW p \in Seq(S), NEW m \in S
    PROVE  x \o Append(p, m) = Append(x \o p, m)
BY AppendIsConcat, ConcatAssociative, ConcatProperties

LEMMA WholeAndNothing ==
    ASSUME NEW S, NEW s \in Seq(S)
    PROVE  /\ SubSeq(s, 1, Len(s)) = s /\ SubSeq(s, Len(s) + 1, Len(s)) = <<>>
           /\ s \o <<>> = s /\ <<>> \o s = s /\ SubSeq(<<>>, 1, 0) = <<>>
           /\ Len(s) = 0 => s = <<>>
BY SubSeqFull, SubSeqEmpty, ConcatEmptySeq, EmptySeq

\* A thread about to push has a message for it.
LEMMA NextMessage ==
    ASSUME NEW t \in Threads, CountOf(t) < MaxLogs
    PROVE  <<t, CountOf(t) + 1>> \in Messages
<1>1. {i \in 1..Len(logged) : logged[i][1] = t} \subseteq 1..Len(logged)
  OBVIOUS
<1>2. IsFiniteSet(1..Len(logged))
  BY FS_Interval
<1>3. CountOf(t) \in Nat
  BY <1>1, <1>2, FS_Subset, FS_CardinalityType DEF CountOf
<1>4. CountOf(t) + 1 \in 1..MaxLogs
  BY <1>3, MaxLogsType
<1> QED
  BY <1>4 DEF Messages

-------------------------------------------------------------------------------
(* The types and who may use what. *)

LEMMA InitControl == Init => Control /\ LogIsComplete /\ Drained
<1> SUFFICES ASSUME Init PROVE Control /\ LogIsComplete /\ Drained
  OBVIOUS
<1>1. TypeOK
  <2>1. <<>> \in Seq(Messages)
    BY EmptySeq
  <2>2. waits \in 0..MaxWaits
    BY MaxWaitsType DEF Init
  <2> QED
    BY <2>1, <2>2 DEF Init, TypeOK
<1>2. Locked /\ Logging /\ OneToken /\ Position /\ SecondaryExclusive /\ Drained
  BY NobodyIsNoThread DEF Init, Locked, Logging, OneToken, Position, SecondaryExclusive, Drained
<1>3. LogIsComplete
  BY WholeAndNothing DEF Init, LogIsComplete, Unwritten
<1> QED
  BY <1>1, <1>2, <1>3 DEF Control

\* A step of log() by t.
LEMMA LogKeepsControl ==
    ASSUME Control, NEW t \in Threads, LogLock(t) \/ Log(t)
    PROVE  Control'
<1> USE NobodyIsNoThread DEF Control, TypeOK, Locked, Logging, OneToken, Position,
        SecondaryExclusive, Goto
<1>1. CASE LogLock(t)
  BY <1>1 DEF LogLock, CountOf
<1>2. CASE LogPush(t)
  <2> DEFINE m == <<t, CountOf(t) + 1>>
  <2>1. m \in Messages
    BY <1>2, NextMessage DEF LogPush
  <2>2. /\ primary' \in Seq(Messages) /\ primary' # <<>>
        /\ logged' \in Seq(Messages)
    BY <1>2, <2>1, AppendProperties DEF LogPush
  <2>3. \A u \in Threads : pc'[u] # "push"
    BY <1>2 DEF LogPush
  <2> QED
    BY <1>2, <2>2, <2>3 DEF LogPush
<1>3. CASE LogTest(t)
  BY <1>3 DEF LogTest, CountOf
<1>4. CASE LogSwap(t)
  <2>1. /\ pc[t] = "swap" /\ \A u \in Threads : pc'[u] = IF u = t THEN "post" ELSE pc[u]
        /\ \A u \in Threads \ {t} : pc[u] = "idle"
        /\ dpc = "alive" /\ wpc = "wait" /\ sem = 0 /\ at = 0 /\ primary # <<>>
    BY <1>4 DEF LogSwap
  <2>2. TypeOK' /\ Locked'
    BY <1>4, <2>1 DEF LogSwap
  <2>3. Logging' /\ SecondaryExclusive'
    BY <1>4, <2>1 DEF LogSwap
  <2>4. Len(secondary') \in Nat
    BY <2>2, LenProperties
  <2>5. OneToken' /\ Position'
    BY <1>4, <2>1, <2>4 DEF LogSwap
  <2> QED
    BY <2>2, <2>3, <2>5
<1>5. CASE LogPost(t)
  <2>1. /\ pc[t] = "post" /\ \A u \in Threads : pc'[u] = IF u = t THEN "unlock" ELSE pc[u]
        /\ \A u \in Threads \ {t} : pc[u] = "idle"
        /\ wpc = "wait" /\ sem = 0 /\ sem' = 1 /\ secondary # <<>>
    BY <1>5 DEF LogPost
  <2>2. TypeOK' /\ Locked'
    BY <1>5, <2>1 DEF LogPost
  <2>3. Logging' /\ SecondaryExclusive'
    BY <1>5, <2>1 DEF LogPost
  <2>4. OneToken' /\ Position'
    BY <1>5, <2>1 DEF LogPost
  <2> QED
    BY <2>2, <2>3, <2>4
<1>6. CASE LogUnlock(t)
  BY <1>6 DEF LogUnlock, CountOf
<1> QED
  BY <1>1, <1>2, <1>3, <1>4, <1>5, <1>6 DEF Log

LEMMA WriterKeepsControl ==
    ASSUME Control, Writer
    PROVE  Control'
<1> USE NobodyIsNoThread DEF Control, TypeOK, Locked, Logging, OneToken, Position,
        SecondaryExclusive
<1>1. CASE WriterWait
  BY <1>1 DEF WriterWait, CountOf
<1>2. CASE WriterWrite
  <2>1. written' \in Seq(Messages)
    BY <1>2, ElementOfSeq, AppendProperties DEF WriterWrite
  <2> QED
    BY <1>2, <2>1 DEF WriterWrite, CountOf
<1>3. CASE WriterClear
  <2>1. <<>> \in Seq(Messages) /\ Len(<<>>) = 0
    BY EmptySeq
  <2>2. \A t \in Threads : pc[t] # "post" /\ CountOf(t)' = CountOf(t)
    BY <1>3 DEF WriterClear, CountOf
  <2> QED
    BY <1>3, <2>1, <2>2 DEF WriterClear
<1>4. CASE WriterEnds
  BY <1>4 DEF WriterEnds, CountOf
<1> QED
  BY <1>1, <1>2, <1>3, <1>4 DEF Writer

LEMMA DestructorKeepsControl ==
    ASSUME Control, Destruct \/ Destructor
    PROVE  Control'
<1> USE NobodyIsNoThread, MaxWaitsType DEF Control, TypeOK, Locked, Logging, OneToken,
        Position, SecondaryExclusive
<1>1. CASE Destruct
  BY <1>1 DEF Destruct, CountOf
<1>2. CASE DrainSleeps
  BY <1>2 DEF DrainSleeps, DrainSleep, CountOf
<1>3. CASE DrainSwap
  BY <1>3, EmptySeq DEF DrainSwap, CountOf
<1>4. CASE DrainTimeout
  BY <1>4 DEF DrainTimeout, CountOf
<1>5. CASE FlushDone
  BY <1>5 DEF FlushDone, CountOf
<1>6. CASE CancelWriter \/ JoinWriter
  BY <1>6 DEF CancelWriter, JoinWriter, CountOf
<1> QED
  BY <1>1, <1>2, <1>3, <1>4, <1>5, <1>6 DEF Destructor

LEMMA StepControl == Control /\ [Next]_vars => Control'
<1> SUFFICES ASSUME Control, [Next]_vars PROVE Control'
  OBVIOUS
<1>1. CASE UNCHANGED vars
  BY <1>1 DEF vars, Control, TypeOK, Locked, Logging, OneToken, Position,
     SecondaryExclusive, CountOf
<1> QED
  BY <1>1, LogKeepsControl, WriterKeepsControl, DestructorKeepsControl DEF Next

-------------------------------------------------------------------------------
(* The messages. *)

LEMMA StepComplete ==
    ASSUME Control, LogIsComplete, [Next]_vars
    PROVE  LogIsComplete'
<1>1. /\ primary \in Seq(Messages) /\ secondary \in Seq(Messages)
      /\ written \in Seq(Messages) /\ logged \in Seq(Messages)
      /\ at \in Nat /\ at <= Len(secondary) /\ (wpc = "wait" => at = 0)
      /\ Unwritten \in Seq(Messages) /\ written \o Unwritten \in Seq(Messages)
  BY ConcatProperties DEF Control, TypeOK, Position, Unwritten
<1> USE DEF LogIsComplete, Unwritten
\* The buffers are swapped while _secondary is empty.
<1>2. ASSUME secondary = <<>>, at = 0, primary' = secondary, secondary' = primary,
             UNCHANGED <<written, at, logged>>
      PROVE  LogIsComplete'
  <2>1. Len(secondary) = 0 /\ Unwritten = <<>>
    BY <1>2, EmptySeq, WholeAndNothing
  <2>2. Unwritten' = primary
    BY <1>1, <1>2, WholeAndNothing
  <2>3. written \o <<>> = written /\ (written \o primary) \o <<>> = written \o primary
    BY <1>1, ConcatProperties, ConcatEmptySeq
  <2> QED
    BY <1>2, <2>1, <2>2, <2>3
<1>3. ASSUME NEW t \in Threads, LogPush(t)
      PROVE  LogIsComplete'
  <2> DEFINE m == <<t, CountOf(t) + 1>>
  <2>1. m \in Messages
    BY <1>3, NextMessage DEF LogPush, Control, Logging
  <2>2. (written \o Unwritten) \o Append(primary, m)
        = Append((written \o Unwritten) \o primary, m)
    <3> DEFINE x == written \o Unwritten
    <3>1. x \in Seq(Messages)
      BY <1>1
    <3> HIDE DEF m, x
    <3>2. x \o Append(primary, m) = Append(x \o primary, m)
      BY <1>1, <2>1, <3>1, AppendLast
    <3> QED
      BY <3>2 DEF x
  <2> QED
    BY <1>3, <2>2 DEF LogPush
<1>4. ASSUME NEW t \in Threads, LogSwap(t)
      PROVE  LogIsComplete'
  BY <1>1, <1>2, <1>4 DEF LogSwap, Control, Logging, SecondaryExclusive
<1>5. CASE WriterWrite
  <2>1. Unwritten' = SubSeq(secondary, at + 2, Len(secondary))
    BY <1>1, <1>5 DEF WriterWrite
  <2>2. written' \o Unwritten' = written \o Unwritten
    BY <1>1, <1>5, <2>1, MoveOne DEF WriterWrite
  <2> QED
    BY <1>5, <2>2 DEF WriterWrite
<1>6. CASE WriterClear
  <2>1. Unwritten = <<>> /\ Unwritten' = <<>>
    BY <1>1, <1>6, WholeAndNothing, EmptySeq DEF WriterClear
  <2> QED
    BY <1>6, <2>1 DEF WriterClear
<1>7. CASE DrainSwap
  <2>1. at = 0
    BY <1>1, <1>7, EmptySeq DEF DrainSwap
  <2> QED
    BY <1>2, <1>7, <2>1 DEF DrainSwap
<1>8. ASSUME UNCHANGED <<primary, secondary, written, at, logged>>
      PROVE  LogIsComplete'
  BY <1>8
<1>9. ASSUME NEW t \in Threads, LogLock(t) \/ Log(t)
      PROVE  LogIsComplete'
  BY <1>3, <1>4, <1>8, <1>9 DEF Log, LogLock, LogTest, LogPost, LogUnlock
<1>10. CASE Writer
  BY <1>5, <1>6, <1>8, <1>10 DEF Writer, WriterWait, WriterEnds
<1>11. CASE Destruct \/ Destructor
  BY <1>7, <1>8, <1>11 DEF Destructor, Destruct, DrainSleeps, DrainSleep, DrainTimeout,
     FlushDone, CancelWriter, JoinWriter
<1>12. CASE UNCHANGED vars
  BY <1>8, <1>12 DEF vars
<1> QED
  BY <1>9, <1>10, <1>11, <1>12 DEF Next

LEMMA StepDrained ==
    ASSUME Control, Drained, [Next]_vars
    PROVE  Drained'
<1> USE DEF Control, TypeOK, Locked, Drained
<1>1. ASSUME NEW t \in Threads, LogLock(t) \/ Log(t)
      PROVE  Drained'
  BY <1>1 DEF LogLock, Log, LogPush, LogTest, LogSwap, LogPost, LogUnlock
<1>2. CASE Writer
  BY <1>2 DEF Writer, WriterWait, WriterWrite, WriterClear, WriterEnds
<1>3. CASE FlushDone
  BY <1>3 DEF FlushDone
<1>4. CASE Destruct \/ DrainSleeps \/ DrainSwap \/ DrainTimeout \/ CancelWriter \/ JoinWriter
  BY <1>4 DEF Destruct, DrainSleeps, DrainSleep, DrainSwap, DrainTimeout, CancelWriter, JoinWriter
<1>5. CASE UNCHANGED vars
  BY <1>5 DEF vars
<1> QED
  BY <1>1, <1>2, <1>3, <1>4, <1>5 DEF Next, Destructor

THEOREM LoggerInvariant == Spec => []IInv
<1>1. Init => IInv
  BY InitControl DEF IInv
<1>2. IInv /\ [Next]_vars => IInv'
  BY StepControl, StepComplete, StepDrained DEF IInv
<1> QED
  BY <1>1, <1>2, PTL DEF Spec

-------------------------------------------------------------------------------
(* The theorems. *)

\* TypeOK: log(), the writer and the destructor keep every variable in its type.
THEOREM TypeCorrect == Spec => []TypeOK
<1>1. IInv => TypeOK
  BY DEF IInv, Control
<1> QED
  BY <1>1, LoggerInvariant, PTL

\* The disk, the rest of _secondary and _primary are together what was logged, in
\* the order of log(): no swap loses, doubles or reorders a message.
THEOREM NothingIsLost == Spec => []LogIsComplete
<1>1. IInv => LogIsComplete
  BY DEF IInv
<1> QED
  BY <1>1, LoggerInvariant, PTL

\* No thread swaps the buffers while the writer, or a post for it, is on them,
\* although _secondary has no lock.
THEOREM OneUserOfSecondary == Spec => []SecondaryExclusive
<1>1. IInv => SecondaryExclusive
  BY DEF IInv, Control
<1> QED
  BY <1>1, LoggerInvariant, PTL

\* The destructor, when no wait ran out, has put everything on the disk.
THEOREM EverythingIsFlushed == Spec => []FlushedUnlessSlow
<1>1. IInv => FlushedUnlessSlow
  <2> SUFFICES ASSUME IInv, dpc = "closed", ~timedOut PROVE written = logged
    BY DEF FlushedUnlessSlow
  <2>1. primary = <<>> /\ secondary = <<>> /\ at = 0
    BY EmptySeq DEF IInv, Drained, Control, Position, TypeOK
  <2>2. Unwritten = <<>>
    BY <2>1, EmptySeq, WholeAndNothing DEF Unwritten
  <2>3. written \in Seq(Messages)
    BY DEF IInv, Control, TypeOK
  <2> QED
    BY <2>1, <2>2, <2>3, ConcatEmptySeq DEF IInv, LogIsComplete
<1> QED
  BY <1>1, LoggerInvariant, PTL
===============================================================================
