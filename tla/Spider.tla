-------------------------------- MODULE Spider --------------------------------
(***************************************************************************)
(* The whole pipeline: the dnsers, schedulers, downloaders and extractors, *)
(* the queue that each of their threads owns, and the way a Url travels    *)
(* through them.  A thread takes from its own queue and pushes into the    *)
(* queue of the next stage that MD5::shuffle picks for the url.            *)
(*                                                                         *)
(* The queues are the FIFO queues that SQueue implements.  What a dnser, a *)
(* downloader and an extractor do with what they hold is modelled in       *)
(* Dnser, Downloader and Extractor; here each keeps only what the others   *)
(* see of it.  The scheduler (scheduler_task.cc) is modelled in full.      *)
(***************************************************************************)
EXTENDS Naturals, Sequences, FiniteSets, SequencesExt

CONSTANTS
    Dnsers, Schedulers, Downloaders, Extractors,    \* thread ids
    Urls,           \* Url objects
    Keys,           \* canonical urls, by their MD5
    KeyOf,          \* Url::get_md5
    Seeds,          \* the Urls of the configured seeds, in their order
    NoUrl,          \* a seed that is no url: its Url stays uninitialised
    Shuffle,        \* MD5::shuffle: for a key and a stage, a thread of it
    MaxRetries      \* MAX_NUM_OF_RETRIES

Stages == {"dnser", "scheduler", "downloader", "extractor"}
Threads == Dnsers \cup Schedulers \cup Downloaders \cup Extractors
ThreadsOf(stage) ==
    [dnser |-> Dnsers, scheduler |-> Schedulers,
     downloader |-> Downloaders, extractor |-> Extractors][stage]

ASSUME KeyOfType == KeyOf \in [Urls -> Keys]
ASSUME SeedsType == Seeds \in Seq(Urls \cup {NoUrl})
ASSUME NoUrlIsNoUrl == NoUrl \notin Urls
ASSUME SeedsAreObjects ==
    \A i, j \in 1..Len(Seeds) : Seeds[i] = Seeds[j] /\ Seeds[i] # NoUrl => i = j
ASSUME ShuffleType == \A k \in Keys, g \in Stages : Shuffle[k][g] \in ThreadsOf(g)
ASSUME StagesAreDisjoint ==
    \A g, h \in Stages : g # h => ThreadsOf(g) \cap ThreadsOf(h) = {}
ASSUME MaxRetriesType == MaxRetries \in Nat

VARIABLES
    dealt,      \* how many seeds Global::init has put into a queue
    queue,      \* the queue of each thread
    held,       \* what a thread has taken and not passed on
    retries,    \* Url::_retries
    saved,      \* the urls whose pages were saved on disk
    lost        \* urls and pages dropped

vars == <<dealt, queue, held, retries, saved, lost>>

\* Mutant: the thread with the shortest queue.
ShortestQueue(u, stage) ==
    CHOOSE t \in ThreadsOf(stage) :
        \A r \in ThreadsOf(stage) : Len(queue[t]) <= Len(queue[r])

\* The thread of the stage that the url's MD5 picks.
NextThread(u, stage) == Shuffle[KeyOf[u]][stage]

Init ==
    /\ dealt = 0
    /\ queue = [t \in Threads |-> <<>>]
    /\ held = [t \in Threads |-> {}]
    /\ retries = [u \in Urls |-> 0]
    /\ saved = {} /\ lost = {}

\* Global::init makes a Url of each seed, without looking for duplicates, and
\* pushes it into the queue of a dnser; one without an MD5 is skipped.
Deal ==
    /\ dealt < Len(Seeds)
    /\ dealt' = dealt + 1
    /\ LET u == Seeds[dealt + 1] IN
       IF u = NoUrl
       THEN UNCHANGED queue
       ELSE queue' = [queue EXCEPT ![NextThread(u, "dnser")] = Append(@, u)]
    /\ UNCHANGED <<held, retries, saved, lost>>

\* The threads start when Global is complete.
Take(t) ==
    /\ dealt = Len(Seeds)
    /\ queue[t] # <<>>
    /\ t \in Dnsers \/ held[t] = {}
    /\ held' = [held EXCEPT ![t] = @ \cup {Head(queue[t])}]
    /\ queue' = [queue EXCEPT ![t] = Tail(@)]
    /\ UNCHANGED <<dealt, retries, saved, lost>>

\* t is finished with u and pushes it into the queue of thread r.
Push(t, u, r) ==
    /\ u \in held[t]
    /\ held' = [held EXCEPT ![t] = @ \ {u}]
    /\ queue' = [queue EXCEPT ![r] = Append(@, u)]

Lose(t, u) ==
    /\ u \in held[t]
    /\ held' = [held EXCEPT ![t] = @ \ {u}]
    /\ lost' = lost \cup {u}
    /\ UNCHANGED queue

-------------------------------------------------------------------------------
(* One action per way a stage is finished with a url. *)

\* The urls that wait in a dnser leave it in the order of the answers.
Resolved(d, u) ==
    /\ Push(d, u, NextThread(u, "scheduler"))
    /\ UNCHANGED <<dealt, retries, saved, lost>>

NotResolved(d, u) ==
    /\ Lose(d, u)
    /\ UNCHANGED <<dealt, retries, saved>>

\* Mutant: the scheduler keeps the url it has just scheduled.
ScheduledTwice(s, u) ==
    /\ u \in held[s]
    /\ queue' = [queue EXCEPT ![NextThread(u, "downloader")] = Append(@, u)]
    /\ UNCHANGED <<dealt, held, retries, saved, lost>>

\* SchedulerTask::put_url_into_downloader
Scheduled(s, u) ==
    /\ Push(s, u, NextThread(u, "downloader"))
    /\ UNCHANGED <<dealt, retries, saved, lost>>

Downloaded(d, u) ==
    /\ Push(d, u, NextThread(u, "extractor"))
    /\ UNCHANGED <<dealt, retries, saved, lost>>

\* Mutant: the retry is not counted.
TriedAgainForEver(d, u) ==
    /\ Push(d, u, d)
    /\ UNCHANGED <<dealt, retries, saved, lost>>

\* The downloader pushes the url into its own queue.
TriedAgain(d, u) ==
    /\ retries[u] < MaxRetries
    /\ Push(d, u, d)
    /\ retries' = [retries EXCEPT ![u] = @ + 1]
    /\ UNCHANGED <<dealt, saved, lost>>

NotDownloaded(d, u) ==
    /\ Lose(d, u)
    /\ UNCHANGED <<dealt, retries, saved>>

\* main_loop of the extractor.  The links of the page end up in a local vector
\* that nothing reads: no Url is made of them.
Saved(e, u) ==
    /\ u \in held[e]
    /\ held' = [held EXCEPT ![e] = @ \ {u}]
    /\ saved' = saved \cup {u}
    /\ UNCHANGED <<dealt, queue, retries, lost>>

\* The page cannot be decompressed.
NotSaved(e, u) ==
    /\ Lose(e, u)
    /\ UNCHANGED <<dealt, retries, saved>>

-------------------------------------------------------------------------------

Finish(t, u) ==
    \/ t \in Dnsers /\ (Resolved(t, u) \/ NotResolved(t, u))
    \/ t \in Schedulers /\ Scheduled(t, u)
    \/ t \in Downloaders /\ (Downloaded(t, u) \/ TriedAgain(t, u) \/ NotDownloaded(t, u))
    \/ t \in Extractors /\ (Saved(t, u) \/ NotSaved(t, u))

Next ==
    \/ Deal
    \/ \E t \in Threads : Take(t) \/ \E u \in Urls : Finish(t, u)

Spec == Init /\ [][Next]_vars

\* What the code gives while the process runs: init goes through all seeds, a thread
\* takes what is in its queue (pop does not miss a wake-up) when it is done with what
\* it holds, and a scheduler waits for nothing but its queue.  That the other stages
\* come to an end with a url is not given, see EverySeedEnds.
FairSpec ==
    /\ Spec
    /\ WF_vars(Deal)
    /\ \A t \in Threads : WF_vars(Take(t))
    /\ \A s \in Schedulers, u \in Urls : WF_vars(Scheduled(s, u))

-------------------------------------------------------------------------------
(* Properties. *)

TypeOK ==
    /\ dealt \in 0..Len(Seeds)
    /\ queue \in [Threads -> Seq(Urls)]
    /\ held \in [Threads -> SUBSET Urls]
    /\ retries \in [Urls -> 0..MaxRetries]
    /\ saved \subseteq Urls /\ lost \subseteq Urls

\* A Url is used without a lock (its status, its addresses, its retries, the
\* MD5 it computes on first use): at any time one queue or one thread has it.
Places(u) ==
    (UNION {{<<"queue", t, n>> : n \in {i \in DOMAIN queue[t] : queue[t][i] = u}} :
               t \in Threads})
    \cup {<<"held", t, 0>> : t \in {r \in Threads : u \in held[r]}}
    \cup {<<"saved", u, 0>> : v \in {u} \cap saved}
    \cup {<<"lost", u, 0>> : v \in {u} \cap lost}
Dealt == {Seeds[n] : n \in 1..dealt} \ {NoUrl}
OneUser == \A u \in Dealt : Cardinality(Places(u)) = 1

\* Two Urls of the same canonical url, a seed given twice, are never at work in
\* two threads of a stage: nothing else keeps two extractors from writing the
\* same file at once, or two dnsers from asking twice.
At(u, t) == u \in held[t] \/ u \in ToSet(queue[t])
SameUrlSameThread ==
    \A stage \in Stages : \A t, r \in ThreadsOf(stage) : \A u, v \in Urls :
        KeyOf[u] = KeyOf[v] /\ At(u, t) /\ At(v, r) => t = r

\* The pipeline as a whole is a stage to which the seeds are dealt: between all the
\* queues and hands none is lost or doubled, and none that is saved or lost comes back.
PlaceOf(u) ==
    IF Cardinality(Places(u)) # (IF u \in Dealt THEN 1 ELSE 0) THEN "in no place or in two"
    ELSE IF u \notin Dealt THEN "coming" ELSE IF u \in lost THEN "lost"
    ELSE IF u \in saved THEN "passed" ELSE "held"
SeededUrls == ToSet(Seeds) \ {NoUrl}
AsStage == INSTANCE Stage WITH
    Urls <- SeededUrls,
    place <- [u \in SeededUrls |-> PlaceOf(u)]
ImplementsStage == AsStage!Spec

\* How far a Url is: the stage of the threads that have it, its retries, and whether
\* one has taken it.
LatestStage(threads) ==
    IF threads \cap Extractors # {} THEN 4 ELSE IF threads \cap Downloaders # {} THEN 3
    ELSE IF threads \cap Schedulers # {} THEN 2 ELSE IF threads \cap Dnsers # {} THEN 1 ELSE 0
StageNumber(u) == IF u \in saved \cup lost THEN 5 ELSE LatestStage({t \in Threads : At(u, t)})
Rank(stage, retry, taken) == 2 * (stage * (MaxRetries + 1) + retry) + taken
Progress(u) ==
    Rank(StageNumber(u), retries[u], IF \E t \in Threads : u \in held[t] THEN 1 ELSE 0)

\* No step takes a Url back, a retry included, and each step takes one on, or deals a
\* seed: what the Urls have left to go bounds the steps that are left.
UrlsGoForward ==
    [][/\ \A u \in Urls : Progress(u) <= Progress(u)'
       /\ dealt' = dealt => \E u \in Urls : Progress(u) < Progress(u)']_vars

\* Every seed is saved or dropped in the end (no ring of queues, no retry without end),
\* unless a thread never comes to an end with it, or with a url before it in the queue
\* of a thread that handles one at a time.  The code has such urls: in a dnser behind
\* a failed adns_submit (dnser_task.cc:149) or a ring of aliases (dnser_task.cc:210),
\* in a downloader for a header that analysis never leaves (page.h:200), in an
\* extractor for compressed data that runs out (extractor_task.cc:200).
Keepers == Downloaders \cup Extractors
EverySeedEnds ==
    \A u \in SeededUrls :
        \/ <>(u \in saved \cup lost)
        \/ \E t \in Dnsers \cup Keepers : <>[](u \in held[t])
        \/ \E t \in Keepers, v \in Urls : <>[](v \in held[t] /\ u \in ToSet(queue[t]))
===============================================================================
