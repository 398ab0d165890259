----------------------------- MODULE SpiderProofs -----------------------------
(***************************************************************************)
(* Proofs about Spider for any threads, urls, keys and seeds: a Url is in  *)
(* one place, equal urls are in one thread of each stage, the pipeline is  *)
(* a stage itself, and urls only go forward; and about Crawl, for any      *)
(* hosts, ports and files: a key names one resource.                       *)
(***************************************************************************)
EXTENDS Crawl, FiniteSetTheorems, SequenceTheorems, WellFoundedInduction, TLAPS

\* What the actions do to the queues and the hands, and to nothing else.
Moved(t, u) == u \in held[t] /\ held' = [held EXCEPT ![t] = @ \ {u}]

LEMMA NextThreadType ==
    ASSUME NEW u \in Urls, NEW g \in Stages
    PROVE  NextThread(u, g) \in ThreadsOf(g) /\ NextThread(u, g) \in Threads
<1>1. NextThread(u, g) \in ThreadsOf(g)
  BY KeyOfType, ShuffleType DEF NextThread
<1>2. ThreadsOf(g) \subseteq Threads
  BY DEF Stages, ThreadsOf, Threads
<1> QED
  BY <1>1, <1>2

\* What one step can be: the seeds are dealt, a thread takes a url, passes it on
\* to the thread of the next stage or to itself, or ends with it.
PassesOn(t, u, r) ==
    /\ Push(t, u, r)
    /\ UNCHANGED <<dealt, saved, lost>>
    /\ \/ /\ t = r /\ retries[u] < MaxRetries
          /\ retries' = [retries EXCEPT ![u] = @ + 1]
       \/ /\ UNCHANGED retries
          /\ \/ r = NextThread(u, "scheduler") /\ t \in Dnsers
             \/ r = NextThread(u, "downloader") /\ t \in Schedulers
             \/ r = NextThread(u, "extractor") /\ t \in Downloaders
EndsWith(t, u) ==
    /\ Moved(t, u)
    /\ UNCHANGED <<dealt, queue, retries>>
    /\ \/ saved' = saved \cup {u} /\ UNCHANGED lost
       \/ lost' = lost \cup {u} /\ UNCHANGED saved

LEMMA FinishIs ==
    ASSUME TypeOK, NEW t \in Threads, NEW u \in Urls, Finish(t, u)
    PROVE  EndsWith(t, u) \/ \E r \in Threads : PassesOn(t, u, r)
<1>1. CASE t \in Dnsers /\ Resolved(t, u)
  <2>1. PassesOn(t, u, NextThread(u, "scheduler"))
    BY <1>1 DEF TypeOK, PassesOn, Resolved
  <2> QED
    BY <2>1, NextThreadType DEF Stages
<1>2. CASE t \in Schedulers /\ Scheduled(t, u)
  <2>1. PassesOn(t, u, NextThread(u, "downloader"))
    BY <1>2 DEF TypeOK, PassesOn, Scheduled
  <2> QED
    BY <2>1, NextThreadType DEF Stages
<1>3. CASE t \in Downloaders /\ Downloaded(t, u)
  <2>1. PassesOn(t, u, NextThread(u, "extractor"))
    BY <1>3 DEF TypeOK, PassesOn, Downloaded
  <2> QED
    BY <2>1, NextThreadType DEF Stages
<1>4. CASE t \in Downloaders /\ TriedAgain(t, u)
  <2>1. PassesOn(t, u, t)
    BY <1>4 DEF PassesOn, TriedAgain
  <2> QED
    BY <2>1
<1>5. CASE NotResolved(t, u) \/ NotDownloaded(t, u) \/ Saved(t, u) \/ NotSaved(t, u)
  BY <1>5 DEF NotResolved, NotDownloaded, Saved, NotSaved, Lose, EndsWith, Moved
<1> QED
  BY <1>1, <1>2, <1>3, <1>4, <1>5 DEF Finish

-------------------------------------------------------------------------------
(* Types. *)

LEMMA StepTypeOK == TypeOK /\ [Next]_vars => TypeOK'
<1> SUFFICES ASSUME TypeOK, [Next]_vars PROVE TypeOK'
  OBVIOUS
<1> USE DEF TypeOK
<1>0. CASE Deal /\ Seeds[dealt + 1] = NoUrl
  BY <1>0, SeedsType DEF Deal
<1>1. CASE Deal /\ Seeds[dealt + 1] # NoUrl
  <2>1. Seeds[dealt + 1] \in Urls
    BY <1>1, SeedsType DEF Deal
  <2>2. NextThread(Seeds[dealt + 1], "dnser") \in Threads
    BY <2>1, NextThreadType DEF Stages
  <2>3. queue' \in [Threads -> Seq(Urls)]
    <3> DEFINE u == Seeds[dealt + 1]
               r == NextThread(u, "dnser")
    <3>1. queue' = [queue EXCEPT ![r] = Append(@, u)]
      BY <1>1 DEF Deal
    <3>2. Append(queue[r], u) \in Seq(Urls)
      BY <2>1, <2>2
    <3> HIDE DEF u, r
    <3> QED
      BY <3>1, <3>2
  <2> QED
    BY <1>1, <2>3, SeedsType DEF Deal
<1>2. ASSUME NEW t \in Threads, Take(t)
      PROVE  TypeOK'
  <2>1. Head(queue[t]) \in Urls /\ Tail(queue[t]) \in Seq(Urls)
    BY <1>2 DEF Take
  <2> QED
    BY <1>2, <2>1 DEF Take
<1>3. ASSUME NEW t \in Threads, NEW u \in Urls, NEW r \in Threads, PassesOn(t, u, r)
      PROVE  TypeOK'
  <2>1. Append(queue[r], u) \in Seq(Urls)
    OBVIOUS
  <2>2. retries' \in [Urls -> 0..MaxRetries]
    BY <1>3, MaxRetriesType DEF PassesOn
  <2> QED
    BY <1>3, <2>1, <2>2 DEF PassesOn, Push
<1>4. ASSUME NEW t \in Threads, NEW u \in Urls, EndsWith(t, u)
      PROVE  TypeOK'
  BY <1>4 DEF EndsWith, Moved
<1>5. CASE UNCHANGED vars
  BY <1>5 DEF vars
<1> QED
  BY <1>0, <1>1, <1>2, <1>3, <1>4, <1>5, FinishIs DEF Next

LEMMA InitTypeOK == Init => TypeOK
<1>1. <<>> \in Seq(Urls) /\ Len(Seeds) \in Nat
  BY SeedsType
<1> QED
  BY <1>1, MaxRetriesType DEF Init, TypeOK

\* The types, the bound on retries with them, hold in every state.
THEOREM TypeCorrect == Spec => []TypeOK
<1> QED
  BY InitTypeOK, StepTypeOK, PTL DEF Spec

-------------------------------------------------------------------------------
(* Equal urls. *)

\* Who has a url is the thread that Shuffle picks for it.
Routed ==
    \A stage \in Stages : \A t \in ThreadsOf(stage) : \A u \in Urls :
        At(u, t) => t = NextThread(u, stage)

\* A thread is of one stage.
LEMMA OneStage ==
    ASSUME NEW g \in Stages, NEW h \in Stages, NEW t \in ThreadsOf(g), t \in ThreadsOf(h)
    PROVE  g = h
BY StagesAreDisjoint

LEMMA AtAppend ==
    ASSUME NEW s \in Seq(Urls), NEW u \in Urls
    PROVE  ToSet(Append(s, u)) = ToSet(s) \cup {u}
<1> DEFINE r == Append(s, u)
<1>1. /\ DOMAIN s = 1..Len(s) /\ DOMAIN r = 1..(Len(s) + 1) /\ Len(s) \in Nat
      /\ r[Len(s) + 1] = u /\ \A i \in 1..Len(s) : r[i] = s[i]
  OBVIOUS
<1> HIDE DEF r
<1>2. ASSUME NEW v \in ToSet(r)
      PROVE  v \in ToSet(s) \cup {u}
  BY <1>1, <1>2 DEF ToSet
<1>3. ASSUME NEW v \in ToSet(s) \cup {u}
      PROVE  v \in ToSet(r)
  BY <1>1, <1>3 DEF ToSet
<1> QED
  BY <1>2, <1>3 DEF r

LEMMA AtTail ==
    ASSUME NEW s \in Seq(Urls), s # <<>>
    PROVE  ToSet(Tail(s)) \subseteq ToSet(s) /\ Head(s) \in ToSet(s)
BY DEF ToSet

LEMMA StepRouted == TypeOK /\ Routed /\ [Next]_vars => Routed'
<1> SUFFICES ASSUME TypeOK, Routed, [Next]_vars,
                    NEW g \in Stages, NEW x \in ThreadsOf(g), NEW v \in Urls, At(v, x)'
             PROVE  x = NextThread(v, g)
  BY DEF Routed, NextThread
<1>0. x \in Threads
  BY DEF Threads, ThreadsOf, Stages
<1>1. CASE At(v, x)
  BY <1>1 DEF Routed
<1>2. CASE Deal /\ Seeds[dealt + 1] # NoUrl
  <2> DEFINE u == Seeds[dealt + 1]
             r == NextThread(u, "dnser")
  <2>1. u \in Urls
    BY <1>2, SeedsType DEF Deal, TypeOK
  <2>2. r \in Threads /\ r \in ThreadsOf("dnser")
    BY <2>1, NextThreadType DEF Stages
  <2>3. queue' = [queue EXCEPT ![r] = Append(@, u)] /\ held' = held
    BY <1>2 DEF Deal
  <2> HIDE DEF u, r
  <2>4. At(v, x) \/ (x = r /\ v = u)
    BY <1>0, <2>1, <2>2, <2>3, AtAppend DEF At, TypeOK
  <2> QED
    BY <1>1, <2>2, <2>4, OneStage DEF Stages, r
<1>3. ASSUME NEW t \in Threads, Take(t)
      PROVE  At(v, x)
  <2>1. queue[t] \in Seq(Urls) /\ queue[t] # <<>>
    BY <1>3 DEF Take, TypeOK
  <2> QED
    BY <1>0, <1>3, <2>1, AtTail DEF Take, At, TypeOK
<1>4. ASSUME NEW t \in Threads, NEW u \in Urls, NEW r \in Threads, PassesOn(t, u, r)
      PROVE  x = NextThread(v, g)
  <2>1. At(u, t)
    BY <1>4 DEF PassesOn, Push, At
  <2>2. At(v, x) \/ (x = r /\ v = u)
    BY <1>0, <1>4, AtAppend DEF PassesOn, Push, At, TypeOK
  <2>3. CASE t = r
    BY <1>1, <2>1, <2>2, <2>3
  <2>4. ASSUME NEW h \in Stages, r = NextThread(u, h), x = r, v = u
        PROVE  x = NextThread(v, g)
    BY <2>4, NextThreadType, OneStage
  <2> QED
    BY <1>1, <1>4, <2>2, <2>3, <2>4 DEF PassesOn, Stages
<1>5. ASSUME NEW t \in Threads, NEW u \in Urls, EndsWith(t, u)
      PROVE  At(v, x)
  BY <1>0, <1>5 DEF EndsWith, Moved, At, TypeOK
<1>6. CASE UNCHANGED vars \/ (Deal /\ Seeds[dealt + 1] = NoUrl)
  BY <1>1, <1>6 DEF vars, At, Deal
<1> QED
  BY <1>1, <1>2, <1>3, <1>4, <1>5, <1>6, FinishIs DEF Next

\* Two Urls with one canonical url are never in two threads of a stage.
THEOREM EqualUrlsMeet == Spec => []SameUrlSameThread
<1>1. Init => Routed
  BY DEF Init, Routed, At, ToSet, Threads, ThreadsOf, Stages
<1>2. Routed => SameUrlSameThread
  BY DEF Routed, SameUrlSameThread, NextThread
<1> QED
  BY <1>1, <1>2, InitTypeOK, StepTypeOK, StepRouted, PTL DEF Spec

-------------------------------------------------------------------------------
(* One user of each Url. *)

InQueue(u, t, n) == n \in 1..Len(queue[t]) /\ queue[t][n] = u
Done(u) == u \in saved \cup lost
Nowhere(u) == ~Done(u) /\ \A t \in Threads : u \notin held[t] /\ \A n : ~InQueue(u, t, n)

\* No Url is in two places: in two queues or twice in one, in two hands, in a
\* queue and a hand, or still somewhere when it is saved or lost.
Sole ==
    \A u \in Urls :
        /\ \A t, r \in Threads : \A n, m :
              InQueue(u, t, n) /\ InQueue(u, r, m) => t = r /\ n = m
        /\ \A t, r \in Threads :
              /\ u \in held[t] /\ u \in held[r] => t = r
              /\ u \in held[t] => \A n : ~InQueue(u, r, n)
        /\ Done(u) => /\ ~(u \in saved /\ u \in lost)
                      /\ \A t \in Threads : u \notin held[t] /\ \A n : ~InQueue(u, t, n)

\* A seed is somewhere from the time it is dealt, and not before.
SeedsAreThere ==
    /\ \A u \in Dealt : ~Nowhere(u)
    /\ \A n \in (dealt + 1)..Len(Seeds) : Seeds[n] # NoUrl => Nowhere(Seeds[n])

UserInv == TypeOK /\ Sole /\ SeedsAreThere

LEMMA QueueTypes ==
    ASSUME TypeOK, NEW t \in Threads
    PROVE  queue[t] \in Seq(Urls) /\ Len(queue[t]) \in Nat
BY DEF TypeOK

\* Where the Urls are when r gets u at the end of its queue.
LEMMA PlacesAppended ==
    ASSUME TypeOK, NEW r \in Threads, NEW u \in Urls,
           queue' = [queue EXCEPT ![r] = Append(@, u)]
    PROVE  \A v, n : \A x \in Threads :
              InQueue(v, x, n)' <=>
                 InQueue(v, x, n) \/ (v = u /\ x = r /\ n = Len(queue[r]) + 1)
<1>1. ASSUME NEW x \in Threads, x # r
      PROVE  queue'[x] = queue[x]
  BY <1>1 DEF TypeOK
<1>2. queue'[r] = Append(queue[r], u)
  BY DEF TypeOK
<1>3. /\ Len(queue[r]) \in Nat /\ Len(queue'[r]) = Len(queue[r]) + 1
      /\ queue'[r][Len(queue[r]) + 1] = u
      /\ \A n \in 1..Len(queue[r]) : queue'[r][n] = queue[r][n]
  BY <1>2, QueueTypes
<1> QED
  BY <1>1, <1>3 DEF InQueue

LEMMA PlacesTaken ==
    ASSUME TypeOK, NEW t \in Threads, Take(t)
    PROVE  \A v, n : \A x \in Threads :
              InQueue(v, x, n)' <=> IF x = t THEN n \in Nat \ {0} /\ InQueue(v, x, n + 1)
                                             ELSE InQueue(v, x, n)
<1>1. ASSUME NEW x \in Threads, x # t
      PROVE  queue'[x] = queue[x]
  BY <1>1 DEF TypeOK, Take
<1>2. queue'[t] = Tail(queue[t]) /\ queue[t] # <<>>
  BY DEF TypeOK, Take
<1>3. /\ Len(queue[t]) \in Nat /\ Len(queue'[t]) = Len(queue[t]) - 1
      /\ \A n \in 1..Len(queue'[t]) : queue'[t][n] = queue[t][n + 1]
  BY <1>2, QueueTypes
<1> QED
  BY <1>1, <1>3 DEF InQueue

LEMMA TakeMoves ==
    ASSUME TypeOK, NEW t \in Threads, Take(t)
    PROVE  \E u \in Urls :
              /\ InQueue(u, t, 1)
              /\ \A v : \A x \in Threads : v \in held'[x] <=> v \in held[x] \/ (v = u /\ x = t)
<1>1. queue[t] # <<>> /\ queue[t] \in Seq(Urls)
  BY QueueTypes DEF Take
<1>2. InQueue(Head(queue[t]), t, 1) /\ Head(queue[t]) \in Urls
  BY <1>1 DEF InQueue
<1>3. \A v : \A x \in Threads :
         v \in held'[x] <=> v \in held[x] \/ (v = Head(queue[t]) /\ x = t)
  BY DEF Take, TypeOK
<1> QED
  BY <1>2, <1>3

LEMMA UserDeal ==
    ASSUME UserInv, Deal, Seeds[dealt + 1] # NoUrl
    PROVE  Sole' /\ SeedsAreThere'
<1>1. dealt \in Nat /\ dealt < Len(Seeds) /\ Len(Seeds) \in Nat /\ dealt' = dealt + 1
  BY SeedsType DEF UserInv, TypeOK, Deal
<1> PICK u, r : u = Seeds[dealt + 1] /\ r = NextThread(u, "dnser")
  OBVIOUS
<1>2. u \in Urls /\ r \in Threads
  <2>1. u \in Urls
    BY <1>1, SeedsType
  <2> QED
    BY <2>1, NextThreadType DEF Stages
<1>3. /\ Nowhere(u)
      /\ Dealt' = Dealt \cup {u}
      /\ \A n \in (dealt' + 1)..Len(Seeds) :
            Seeds[n] # u /\ (Seeds[n] # NoUrl => Nowhere(Seeds[n]))
  BY <1>1, SeedsAreObjects DEF UserInv, SeedsAreThere, Dealt
<1>4. \A v, n : \A x \in Threads :
         InQueue(v, x, n)' <=> InQueue(v, x, n) \/ (v = u /\ x = r /\ n = Len(queue[r]) + 1)
  <2>1. queue' = [queue EXCEPT ![r] = Append(@, u)]
    BY DEF Deal
  <2>2. TypeOK
    BY DEF UserInv
  <2> QED
    BY ONLY <1>2, <2>1, <2>2, PlacesAppended
<1>5. UNCHANGED <<held, saved, lost>>
  BY DEF Deal
<1>6. \E n : InQueue(u, r, n)'
  <2>1. PICK k : k = Len(queue[r]) + 1
    OBVIOUS
  <2>2. InQueue(u, r, k)'
    BY <1>2, <1>4, <2>1
  <2> QED
    BY <2>2
<1>7. Sole'
  BY <1>2, <1>3, <1>4, <1>5 DEF UserInv, Sole, Nowhere, Done
<1>8. \A v \in Dealt' : ~Nowhere(v)'
  <2>1. ~Nowhere(u)'
    BY <1>2, <1>6 DEF Nowhere
  <2>2. ASSUME NEW v \in Dealt
        PROVE  ~Nowhere(v)'
    BY <1>4, <1>5 DEF UserInv, SeedsAreThere, Nowhere, Done
  <2> QED
    BY <1>3, <2>1, <2>2
<1>9. \A n \in (dealt' + 1)..Len(Seeds) : Seeds[n] # NoUrl => Nowhere(Seeds[n])'
  BY <1>2, <1>3, <1>4, <1>5 DEF Nowhere, Done
<1> QED
  BY <1>7, <1>8, <1>9 DEF SeedsAreThere

\* A Url that is somewhere stays so, and one that is nowhere too, when the seeds
\* are not dealt any more.
LEMMA SeedsStay ==
    ASSUME SeedsAreThere, dealt' = dealt, \A v \in Urls : Nowhere(v)' <=> Nowhere(v), TypeOK
    PROVE  SeedsAreThere'
<1>1. Dealt' = Dealt /\ Dealt \subseteq Urls
  BY SeedsType DEF Dealt, TypeOK
<1>2. \A n \in (dealt + 1)..Len(Seeds) : Seeds[n] # NoUrl => Seeds[n] \in Urls
  BY SeedsType DEF TypeOK
<1> QED
  BY <1>1, <1>2 DEF SeedsAreThere

LEMMA UserTake ==
    ASSUME UserInv, NEW t \in Threads, Take(t)
    PROVE  Sole' /\ SeedsAreThere'
<1>1. PICK u \in Urls :
         /\ InQueue(u, t, 1)
         /\ \A v : \A x \in Threads : v \in held'[x] <=> v \in held[x] \/ (v = u /\ x = t)
  BY TakeMoves DEF UserInv
<1>2. \A v, n : \A x \in Threads :
         InQueue(v, x, n)' <=> IF x = t THEN n \in Nat \ {0} /\ InQueue(v, x, n + 1)
                                        ELSE InQueue(v, x, n)
  BY PlacesTaken DEF UserInv
<1>3. UNCHANGED <<dealt, saved, lost>>
  BY DEF Take
<1>4. \A x \in Threads : \A n : ~InQueue(u, x, n)'
  <2>1. \A x \in Threads : \A n : InQueue(u, x, n) => x = t /\ n = 1
    BY <1>1 DEF UserInv, Sole
  <2> QED
    BY <1>2, <2>1
<1>5. \A v \in Urls : \A x \in Threads : v # u =>
         ((\E n : InQueue(v, x, n)') <=> \E n : InQueue(v, x, n))
  <2> SUFFICES ASSUME NEW v \in Urls, NEW x \in Threads, v # u
               PROVE  (\E n : InQueue(v, x, n)') <=> \E n : InQueue(v, x, n)
    OBVIOUS
  <2>1. ASSUME NEW n, InQueue(v, t, n)
        PROVE  n - 1 \in Nat \ {0} /\ InQueue(v, t, (n - 1) + 1)
    <3>1. n \in Nat \ {0} /\ n # 1
      BY <1>1, <2>1, QueueTypes DEF UserInv, InQueue
    <3> QED
      BY <2>1, <3>1
  <2>2. ASSUME NEW n, InQueue(v, t, n)
        PROVE  InQueue(v, t, n - 1)'
    BY <1>2, <2>1, <2>2
  <2>3. CASE x = t
    BY <1>2, <2>2, <2>3
  <2>4. CASE x # t
    BY <1>2, <2>4
  <2> QED
    BY <2>3, <2>4
<1>6. Sole'
  <2> SUFFICES ASSUME NEW v \in Urls PROVE
        /\ \A x, y \in Threads : \A n, m :
              InQueue(v, x, n)' /\ InQueue(v, y, m)' => x = y /\ n = m
        /\ \A x, y \in Threads :
              /\ v \in held'[x] /\ v \in held'[y] => x = y
              /\ v \in held'[x] => \A n : ~InQueue(v, y, n)'
        /\ Done(v)' => /\ ~(v \in saved' /\ v \in lost')
                       /\ \A x \in Threads : v \notin held'[x] /\ \A n : ~InQueue(v, x, n)'
    BY DEF Sole
  <2>1. \A x, y \in Threads : \A n, m :
              InQueue(v, x, n)' /\ InQueue(v, y, m)' => x = y /\ n = m
    BY <1>2 DEF UserInv, Sole
  <2>2. v \in Urls /\ (\A x \in Threads : u \in held[x] => \A n : ~InQueue(u, t, n)) /\ ~Done(u)
    BY <1>1 DEF UserInv, Sole
  <2>3. \A x, y \in Threads :
              /\ v \in held'[x] /\ v \in held'[y] => x = y
              /\ v \in held'[x] => \A n : ~InQueue(v, y, n)'
    BY <1>1, <1>4, <1>5, <2>2 DEF UserInv, Sole
  <2>4. Done(v)' => /\ ~(v \in saved' /\ v \in lost')
                    /\ \A x \in Threads : v \notin held'[x] /\ \A n : ~InQueue(v, x, n)'
    BY <1>1, <1>3, <1>5, <2>2 DEF UserInv, Sole, Done
  <2> QED
    BY <2>1, <2>3, <2>4
<1>7. \A v \in Urls : Nowhere(v)' <=> Nowhere(v)
  BY <1>1, <1>3, <1>4, <1>5 DEF Nowhere, Done
<1> QED
  BY <1>3, <1>6, <1>7, SeedsStay DEF UserInv

LEMMA UserPassesOn ==
    ASSUME UserInv, NEW t \in Threads, NEW u \in Urls, NEW r \in Threads, PassesOn(t, u, r)
    PROVE  Sole' /\ SeedsAreThere'
<1>1. u \in held[t] /\ \A v : \A x \in Threads :
         v \in held'[x] <=> v \in held[x] /\ ~(v = u /\ x = t)
  BY DEF PassesOn, Push, UserInv, TypeOK
<1>2. \A v, n : \A x \in Threads :
         InQueue(v, x, n)' <=> InQueue(v, x, n) \/ (v = u /\ x = r /\ n = Len(queue[r]) + 1)
  BY PlacesAppended DEF UserInv, PassesOn, Push
<1>3. UNCHANGED <<dealt, saved, lost>>
  BY DEF PassesOn
<1>4. \A x \in Threads : u \notin held'[x] /\ (\A n : ~InQueue(u, x, n)) /\ ~Done(u)
  BY <1>1 DEF UserInv, Sole
<1>5. Sole'
  BY <1>1, <1>2, <1>3, <1>4 DEF UserInv, Sole, Done
<1>6. \A v \in Urls : Nowhere(v)' <=> Nowhere(v)
  BY <1>1, <1>2, <1>3 DEF Nowhere, Done
<1> QED
  BY <1>3, <1>5, <1>6, SeedsStay DEF UserInv

LEMMA UserEndsWith ==
    ASSUME UserInv, NEW t \in Threads, NEW u \in Urls, EndsWith(t, u)
    PROVE  Sole' /\ SeedsAreThere'
<1>1. u \in held[t] /\ \A v : \A x \in Threads :
         v \in held'[x] <=> v \in held[x] /\ ~(v = u /\ x = t)
  BY DEF EndsWith, Moved, UserInv, TypeOK
<1>2. \A v, n : \A x \in Threads : InQueue(v, x, n)' <=> InQueue(v, x, n)
  BY DEF EndsWith, InQueue
<1>3. /\ dealt' = dealt
      /\ \/ saved' = saved \cup {u} /\ lost' = lost
         \/ lost' = lost \cup {u} /\ saved' = saved
  BY DEF EndsWith
<1>4. \A x \in Threads : u \notin held'[x] /\ (\A n : ~InQueue(u, x, n)) /\ ~Done(u)
  BY <1>1 DEF UserInv, Sole
<1>5. Sole'
  BY <1>1, <1>2, <1>3, <1>4 DEF UserInv, Sole, Done
<1>6. \A v \in Urls : Nowhere(v)' <=> Nowhere(v)
  BY <1>1, <1>2, <1>3, <1>4 DEF Nowhere, Done
<1> QED
  BY <1>3, <1>5, <1>6, SeedsStay DEF UserInv

\* A seed that is no url is only passed over.
LEMMA UserSkips ==
    ASSUME UserInv, Deal, Seeds[dealt + 1] = NoUrl
    PROVE  Sole' /\ SeedsAreThere'
<1>1. dealt \in Nat /\ dealt < Len(Seeds) /\ Len(Seeds) \in Nat /\ dealt' = dealt + 1
  BY SeedsType DEF UserInv, TypeOK, Deal
<1>2. UNCHANGED <<queue, held, saved, lost>>
  BY DEF Deal
<1>3. Dealt' = Dealt
  BY <1>1 DEF Dealt
<1>4. (dealt' + 1)..Len(Seeds) \subseteq (dealt + 1)..Len(Seeds)
  BY <1>1
<1> QED
  BY <1>2, <1>3, <1>4 DEF UserInv, Sole, SeedsAreThere, Nowhere, Done, InQueue

LEMMA StepUserInv == UserInv /\ [Next]_vars => UserInv'
<1> SUFFICES ASSUME UserInv, [Next]_vars PROVE UserInv'
  OBVIOUS
<1>1. TypeOK /\ TypeOK'
  BY StepTypeOK DEF UserInv
<1>2. CASE UNCHANGED vars
  BY <1>1, <1>2 DEF vars, UserInv, Sole, SeedsAreThere, Nowhere, Done, InQueue, Dealt
<1> QED
  BY <1>1, <1>2, FinishIs, UserDeal, UserSkips, UserTake, UserPassesOn, UserEndsWith DEF Next, UserInv

LEMMA InitUserInv == Init => UserInv
<1> SUFFICES ASSUME Init PROVE UserInv
  OBVIOUS
<1>1. \A t \in Threads : held[t] = {} /\ \A u, n : ~InQueue(u, t, n)
  BY DEF Init, InQueue
<1>2. Dealt = {}
  BY DEF Init, Dealt
<1> QED
  BY <1>1, <1>2, InitTypeOK DEF Init, UserInv, Sole, SeedsAreThere, Nowhere, Done

LEMMA PlacesAre ==
    ASSUME TypeOK, NEW u
    PROVE  \A p : p \in Places(u) <=>
              \/ \E t \in Threads : \E n : InQueue(u, t, n) /\ p = <<"queue", t, n>>
              \/ \E t \in Threads : u \in held[t] /\ p = <<"held", t, 0>>
              \/ u \in saved /\ p = <<"saved", u, 0>>
              \/ u \in lost /\ p = <<"lost", u, 0>>
<1>1. \A t \in Threads : DOMAIN queue[t] = 1..Len(queue[t])
  BY QueueTypes
<1> SUFFICES ASSUME NEW p
             PROVE  p \in Places(u) <=>
       \/ \E t \in Threads : \E n : InQueue(u, t, n) /\ p = <<"queue", t, n>>
       \/ \E t \in Threads : u \in held[t] /\ p = <<"held", t, 0>>
       \/ u \in saved /\ p = <<"saved", u, 0>>
       \/ u \in lost /\ p = <<"lost", u, 0>>
  OBVIOUS
<1> DEFINE Q == UNION {{<<"queue", t, n>> : n \in {i \in DOMAIN queue[t] : queue[t][i] = u}} :
                          t \in Threads}
           H == {<<"held", t, 0>> : t \in {r \in Threads : u \in held[r]}}
           S == {<<"saved", u, 0>> : v \in {u} \cap saved}
           L == {<<"lost", u, 0>> : v \in {u} \cap lost}
<1>2. Places(u) = Q \cup H \cup S \cup L
  BY DEF Places
<1>3. p \in Q <=> \E t \in Threads : \E n : InQueue(u, t, n) /\ p = <<"queue", t, n>>
  BY <1>1 DEF InQueue
<1>4. p \in H <=> \E t \in Threads : u \in held[t] /\ p = <<"held", t, 0>>
  OBVIOUS
<1>5. /\ p \in S <=> u \in saved /\ p = <<"saved", u, 0>>
      /\ p \in L <=> u \in lost /\ p = <<"lost", u, 0>>
  OBVIOUS
<1> HIDE DEF Q, H, S, L
<1> QED
  BY <1>2, <1>3, <1>4, <1>5

\* The places of a Url that has one are a set of one.
LEMMA OneIsEnough ==
    ASSUME UserInv, NEW u \in Dealt
    PROVE  Cardinality(Places(u)) = 1
<1>1. u \in Urls /\ ~Nowhere(u) /\ Sole
  BY SeedsType DEF UserInv, SeedsAreThere, Dealt, TypeOK
<1>2. \A p : p \in Places(u) <=>
         \/ \E t \in Threads : \E n : InQueue(u, t, n) /\ p = <<"queue", t, n>>
         \/ \E t \in Threads : u \in held[t] /\ p = <<"held", t, 0>>
         \/ u \in saved /\ p = <<"saved", u, 0>>
         \/ u \in lost /\ p = <<"lost", u, 0>>
  BY PlacesAre DEF UserInv
<1>3. \E p : p \in Places(u)
  BY <1>1, <1>2 DEF Nowhere, Done
<1>4. \A p, q \in Places(u) : p = q
  BY <1>1, <1>2 DEF Sole, Done
<1>5. \E p : Places(u) = {p}
  BY <1>3, <1>4
<1> QED
  BY <1>5, FS_Singleton

\* At any time one queue or one thread has a Url, or it is done.
THEOREM UrlsHaveOneUser == Spec => []OneUser
<1>1. UserInv => OneUser
  BY OneIsEnough DEF OneUser
<1> QED
  BY <1>1, InitUserInv, StepUserInv, PTL DEF Spec

-------------------------------------------------------------------------------
(* The pipeline is a stage. *)

\* Where a seed is, when it is in one place at most.
Known(u) ==
    IF u \notin Dealt THEN "coming" ELSE IF u \in lost THEN "lost"
    ELSE IF u \in saved THEN "passed" ELSE "held"
PlacesKnown == [u \in SeededUrls |-> Known(u)]
PlacesNow == [u \in SeededUrls |-> PlaceOf(u)]
Mapped == PlacesNow = PlacesKnown

LEMMA SeedUrlsAre ==
    /\ SeededUrls \subseteq Urls
    /\ \A u \in SeededUrls : \E n \in 1..Len(Seeds) : Seeds[n] = u /\ u # NoUrl
BY SeedsType DEF SeededUrls, ToSet

LEMMA PlacesAreKnown == UserInv => Mapped
<1> SUFFICES ASSUME UserInv, NEW u \in SeededUrls PROVE PlaceOf(u) = Known(u)
  BY DEF Mapped, PlacesNow, PlacesKnown
<1>1. CASE u \in Dealt
  BY <1>1, OneIsEnough DEF PlaceOf, Known
<1>2. CASE u \notin Dealt
  <2>1. PICK n \in 1..Len(Seeds) : Seeds[n] = u /\ u # NoUrl
    BY SeedUrlsAre
  <2>2. n \in (dealt + 1)..Len(Seeds)
    BY <1>2, <2>1, SeedsType DEF Dealt, UserInv, TypeOK
  <2>3. Nowhere(u)
    BY <2>1, <2>2 DEF UserInv, SeedsAreThere
  <2>4. Places(u) = {}
    BY <2>3, PlacesAre DEF UserInv, Nowhere, Done
  <2> QED
    BY <1>2, <2>4, FS_EmptySet DEF PlaceOf, Known
<1> QED
  BY <1>1, <1>2

LEMMA InitKnown == Init => \A u \in SeededUrls : PlacesKnown[u] = "coming"
BY DEF Init, PlacesKnown, Known, Dealt

\* What a step does to the places: it deals a seed, ends with a url, or nothing.
LEMMA StepKnown ==
    ASSUME UserInv, [Next]_vars
    PROVE  \/ UNCHANGED PlacesKnown
           \/ \E u \in SeededUrls :
                 \/ AsStage!Takes(u, PlacesKnown, PlacesKnown')
                 \/ AsStage!Passes(u, PlacesKnown, PlacesKnown')
                 \/ AsStage!Loses({u}, PlacesKnown, PlacesKnown')
<1> USE DEF PlacesKnown, Known
<1>1. ASSUME UNCHANGED <<Dealt, saved, lost>> PROVE UNCHANGED PlacesKnown
  BY <1>1
<1>2. dealt \in Nat /\ Len(Seeds) \in Nat
  BY SeedsType DEF UserInv, TypeOK
<1>3. CASE Deal
  <2>1. dealt < Len(Seeds) /\ dealt' = dealt + 1 /\ UNCHANGED <<saved, lost>>
    BY <1>3 DEF Deal
  <2> DEFINE u == Seeds[dealt + 1]
  <2>2. Dealt' = Dealt \cup ({u} \ {NoUrl})
    BY <1>2, <2>1 DEF Dealt
  <2>3. CASE u = NoUrl
    BY <1>1, <2>1, <2>2, <2>3
  <2>4. CASE u # NoUrl
    <3>1. u \in SeededUrls
      BY <1>2, <2>1, <2>4, SeedsType DEF SeededUrls, ToSet
    <3>2. dealt + 1 \in (dealt + 1)..Len(Seeds)
      BY <1>2, <2>1
    <3>3. Nowhere(u)
      BY <2>4, <3>2 DEF UserInv, SeedsAreThere
    <3>4. u \notin Dealt
      BY <3>3 DEF UserInv, SeedsAreThere
    <3> HIDE DEF u
    <3>5. PlacesKnown[u] = "coming" /\ PlacesKnown' = [PlacesKnown EXCEPT ![u] = "held"]
      BY <2>1, <2>2, <2>4, <3>1, <3>3, <3>4 DEF Nowhere, Done
    <3> QED
      BY <3>1, <3>5 DEF AsStage!Takes
  <2> QED
    BY <2>3, <2>4
<1>4. ASSUME NEW t \in Threads, Take(t) PROVE UNCHANGED PlacesKnown
  BY <1>1, <1>4 DEF Take, Dealt
<1>5. ASSUME NEW t \in Threads, NEW u \in Urls, NEW r \in Threads, PassesOn(t, u, r)
      PROVE  UNCHANGED PlacesKnown
  BY <1>1, <1>5 DEF PassesOn, Dealt
<1>6. ASSUME NEW t \in Threads, NEW u \in Urls, EndsWith(t, u)
      PROVE  \/ UNCHANGED PlacesKnown
             \/ /\ u \in SeededUrls
                /\ \/ AsStage!Passes(u, PlacesKnown, PlacesKnown')
                   \/ AsStage!Loses({u}, PlacesKnown, PlacesKnown')
  <2>1. /\ u \in held[t] /\ Dealt' = Dealt
        /\ \/ saved' = saved \cup {u} /\ lost' = lost
           \/ lost' = lost \cup {u} /\ saved' = saved
    BY <1>6 DEF EndsWith, Moved, Dealt
  <2>2. u \notin saved \cup lost /\ ~Nowhere(u)
    BY <2>1 DEF UserInv, Sole, Done, Nowhere
  <2>3. CASE u \notin SeededUrls
    BY <2>1, <2>3
  <2>4. CASE u \in SeededUrls
    <3>1. u \in Dealt
      <4>1. PICK n \in 1..Len(Seeds) : Seeds[n] = u /\ u # NoUrl
        BY <2>4, SeedUrlsAre
      <4>2. n \notin (dealt + 1)..Len(Seeds)
        BY <2>2, <4>1 DEF UserInv, SeedsAreThere
      <4> QED
        BY <1>2, <4>1, <4>2 DEF Dealt
    <3>2. PlacesKnown[u] = "held"
      BY <2>2, <2>4, <3>1
    <3>3. CASE saved' = saved \cup {u} /\ lost' = lost
      <4>1. PlacesKnown' = [PlacesKnown EXCEPT ![u] = "passed"]
        BY <2>1, <2>2, <2>4, <3>1, <3>3
      <4> QED
        BY <2>4, <3>2, <4>1 DEF AsStage!Passes
    <3>4. CASE lost' = lost \cup {u} /\ saved' = saved
      <4>1. PlacesKnown' = [v \in SeededUrls |-> IF v \in {u} THEN "lost" ELSE PlacesKnown[v]]
        BY <2>1, <2>2, <2>4, <3>1, <3>4
      <4> HIDE DEF PlacesKnown
      <4> QED
        BY <2>4, <3>2, <4>1 DEF AsStage!Loses
    <3> QED
      BY <2>1, <3>3, <3>4
  <2> QED
    BY <2>3, <2>4
<1>7. CASE UNCHANGED vars
  BY <1>1, <1>7 DEF vars, Dealt
<1> HIDE DEF PlacesKnown, Known
<1> QED
  BY <1>3, <1>4, <1>5, <1>6, <1>7, FinishIs DEF Next, UserInv

\* Between Global::init and the extractors, no seed is lost from sight or doubled, and
\* none that is saved or dropped comes back: four stages make a stage.
THEOREM SpiderIsAStage == Spec => ImplementsStage
<1>1. Init /\ Mapped => AsStage!Init
  <2> SUFFICES ASSUME Init, Mapped PROVE AsStage!Init
    OBVIOUS
  <2>1. PlacesNow \in [SeededUrls -> {"coming", "held"}]
    BY InitKnown DEF Mapped, PlacesNow, PlacesKnown
  <2> QED
    BY <2>1 DEF AsStage!Init, PlacesNow
<1>2. UserInv /\ Mapped /\ Mapped' /\ [Next]_vars => [AsStage!Next]_PlacesNow
  <2> SUFFICES ASSUME UserInv, Mapped, Mapped', [Next]_vars
               PROVE  [AsStage!Next]_PlacesNow
    OBVIOUS
  <2>1. PlacesNow = PlacesKnown /\ PlacesNow' = PlacesKnown'
    BY DEF Mapped
  <2>2. CASE UNCHANGED PlacesKnown
    BY <2>1, <2>2
  <2>3. ASSUME NEW u \in SeededUrls,
               \/ AsStage!Takes(u, PlacesNow, PlacesNow')
               \/ AsStage!Passes(u, PlacesNow, PlacesNow')
               \/ AsStage!Loses({u}, PlacesNow, PlacesNow')
        PROVE  AsStage!Next
    BY <2>3 DEF AsStage!Next, PlacesNow
  <2> QED
    BY <2>1, <2>2, <2>3, StepKnown
<1> QED
  BY <1>1, <1>2, PlacesAreKnown, InitUserInv, StepUserInv, PTL
     DEF Spec, ImplementsStage, AsStage!Spec, PlacesNow

-------------------------------------------------------------------------------
(* Urls go forward. *)

Has(u) == {t \in Threads : At(u, t)}
Flag(u) == IF \E t \in Threads : u \in held[t] THEN 1 ELSE 0

LEMMA ProgressIs == \A u : Progress(u) = Rank(StageNumber(u), retries[u], Flag(u))
BY DEF Progress, Flag

\* A later stage counts more than a retry, a retry more than being taken.
LEMMA RankGrows ==
    ASSUME NEW g \in 0..5, NEW k \in 0..MaxRetries, NEW f \in 0..1,
           NEW h \in 0..5, NEW m \in 0..MaxRetries, NEW e \in 0..1,
           g < h \/ (g = h /\ k < m) \/ (g = h /\ k = m /\ f < e)
    PROVE  Rank(g, k, f) < Rank(h, m, e)
<1> DEFINE N == MaxRetries + 1
<1>1. MaxRetries \in Nat /\ N \in Nat /\ k + 1 <= N /\ m >= 0 /\ k \in Int /\ m \in Int
  BY MaxRetriesType
<1>2. Rank(g, k, f) = 2 * (g * N + k) + f /\ Rank(h, m, e) = 2 * (h * N + m) + e
  BY DEF Rank
<1> HIDE DEF N
<1>3. CASE g < h
  <2>1. g * N + N <= h * N /\ g * N \in Int /\ h * N \in Int
    <3>1. g \in {0, 1, 2, 3, 4, 5} /\ h \in {0, 1, 2, 3, 4, 5}
      OBVIOUS
    <3> QED
      BY <1>1, <1>3, <3>1
  <2> DEFINE a == g * N
             b == h * N
  <2> HIDE DEF a, b
  <2>2. a + N <= b /\ a \in Int /\ b \in Int
    BY <2>1 DEF a, b
  <2>3. 2 * (a + k) + f < 2 * (b + m) + e
    BY <1>1, <2>2
  <2> QED
    BY <1>2, <2>3 DEF a, b
<1>4. CASE g = h
  <2> DEFINE a == g * N
  <2>1. a \in Int
    <3>1. g \in {0, 1, 2, 3, 4, 5}
      OBVIOUS
    <3> QED
      BY <1>1, <3>1
  <2>2. Rank(g, k, f) = 2 * (a + k) + f /\ Rank(h, m, e) = 2 * (a + m) + e
    BY <1>2, <1>4
  <2> HIDE DEF a
  <2> QED
    BY <1>1, <1>4, <2>1, <2>2
<1> QED
  BY <1>3, <1>4

LEMMA RankType ==
    ASSUME NEW g \in 0..5, NEW k \in 0..MaxRetries, NEW f \in 0..1
    PROVE  Rank(g, k, f) \in Nat
<1>1. g \in {0, 1, 2, 3, 4, 5} /\ MaxRetries \in Nat
  BY MaxRetriesType
<1> QED
  BY <1>1 DEF Rank

\* The number of a stage, for a url that a thread of it has.
LEMMA NumberIs ==
    ASSUME NEW t \in Threads
    PROVE  /\ t \in Dnsers => LatestStage({t}) = 1
           /\ t \in Schedulers => LatestStage({t}) = 2
           /\ t \in Downloaders => LatestStage({t}) = 3
           /\ t \in Extractors => LatestStage({t}) = 4
           /\ LatestStage({t}) \in 1..4
<1>1. /\ \A x \in Dnsers : x \notin Schedulers \cup Downloaders \cup Extractors
      /\ \A x \in Schedulers : x \notin Downloaders \cup Extractors
      /\ \A x \in Downloaders : x \notin Extractors
  BY StagesAreDisjoint DEF Stages, ThreadsOf
<1> QED
  BY <1>1 DEF LatestStage, Threads

LEMMA InToSet ==
    ASSUME NEW s \in Seq(Urls), NEW u
    PROVE  u \in ToSet(s) <=> \E n : n \in 1..Len(s) /\ s[n] = u
BY DEF ToSet

\* Where a url is that is somewhere.
LEMMA HasOne ==
    ASSUME UserInv, NEW u \in Urls, NEW t \in Threads, At(u, t)
    PROVE  Has(u) = {t} /\ ~Done(u)
<1>1. \A x \in Threads : At(u, x) <=> u \in held[x] \/ \E n : InQueue(u, x, n)
  BY InToSet, QueueTypes DEF UserInv, At, InQueue
<1> QED
  BY <1>1 DEF UserInv, Sole, Has

LEMMA HasNone ==
    ASSUME UserInv, NEW u \in Urls, Nowhere(u)
    PROVE  Has(u) = {}
<1>1. \A x \in Threads : At(u, x) <=> u \in held[x] \/ \E n : InQueue(u, x, n)
  BY InToSet, QueueTypes DEF UserInv, At, InQueue
<1> QED
  BY <1>1 DEF Nowhere, Has

Placed ==
    \A u \in Urls : /\ \A t \in Threads : At(u, t) => Has(u) = {t} /\ ~Done(u)
                    /\ Nowhere(u) => Has(u) = {}

LEMMA PlacedIs == UserInv => Placed
BY HasOne, HasNone DEF Placed

LEMMA StageNumberType ==
    ASSUME NEW u
    PROVE  StageNumber(u) \in 0..5 /\ StageNumber(u)' \in 0..5 /\ Flag(u) \in 0..1 /\ Flag(u)' \in 0..1
<1>1. \A threads : LatestStage(threads) \in 0..5
  BY DEF LatestStage
<1> QED
  BY <1>1 DEF StageNumber, Flag

\* A url that no step is about.
LEMMA RestStays ==
    ASSUME NEW v, \A x \in Threads : At(v, x)' <=> At(v, x), Done(v)' <=> Done(v),
           retries'[v] = retries[v], \A x \in Threads : v \in held'[x] <=> v \in held[x]
    PROVE  Progress(v)' = Progress(v)
<1>1. Flag(v)' = Flag(v)
  BY DEF Flag
<1>2. StageNumber(v)' = StageNumber(v)
  BY DEF StageNumber, Done
<1> QED
  BY <1>1, <1>2 DEF Progress, Flag, Rank

\* A url that a step is about.
LEMMA Advances ==
    ASSUME TypeOK, TypeOK', NEW u \in Urls,
           \/ StageNumber(u) < StageNumber(u)'
           \/ StageNumber(u) = StageNumber(u)' /\ retries[u] < retries'[u]
           \/ StageNumber(u) = StageNumber(u)' /\ retries[u] = retries'[u] /\ Flag(u) < Flag(u)'
    PROVE  Progress(u) < Progress(u)'
<1>1. retries[u] \in 0..MaxRetries /\ retries'[u] \in 0..MaxRetries
  BY DEF TypeOK
<1>2. /\ Progress(u) = Rank(StageNumber(u), retries[u], Flag(u))
      /\ Progress(u)' = Rank(StageNumber(u)', retries'[u], Flag(u)')
  BY DEF Progress, Flag, Rank
<1> QED
  BY <1>1, <1>2, StageNumberType, RankGrows

LEMMA SetOfTail ==
    ASSUME NEW s \in Seq(Urls), s # <<>>
    PROVE  ToSet(s) = {Head(s)} \cup ToSet(Tail(s))
<1> DEFINE r == Tail(s)
<1>1. /\ DOMAIN s = 1..Len(s) /\ DOMAIN r = 1..(Len(s) - 1) /\ Len(s) \in Nat /\ Len(s) > 0
      /\ s[1] = Head(s) /\ \A i \in 1..(Len(s) - 1) : r[i] = s[i + 1]
  OBVIOUS
<1> HIDE DEF r
<1>2. ASSUME NEW v \in ToSet(s)
      PROVE  v \in {Head(s)} \cup ToSet(r)
  <2>1. PICK i \in 1..Len(s) : s[i] = v
    BY <1>1, <1>2 DEF ToSet
  <2>2. CASE i = 1
    BY <1>1, <2>1, <2>2
  <2>3. CASE i # 1
    <3>1. i - 1 \in 1..(Len(s) - 1) /\ r[i - 1] = v
      BY <1>1, <2>1, <2>3
    <3> QED
      BY <1>1, <3>1 DEF ToSet
  <2> QED
    BY <2>2, <2>3
<1>3. ASSUME NEW v \in {Head(s)} \cup ToSet(r)
      PROVE  v \in ToSet(s)
  BY <1>1, <1>3 DEF ToSet
<1> QED
  BY <1>2, <1>3 DEF r

\* What a step does: one url goes on and the others stay.
OneGoesOn(u) ==
    /\ u \in Urls /\ Progress(u) < Progress(u)'
    /\ \A v \in Urls \ {u} : Progress(v)' = Progress(v)

LEMMA TakeGoesOn ==
    ASSUME UserInv, TypeOK', NEW t \in Threads, Take(t)
    PROVE  \E u : OneGoesOn(u)
<1>0. PICK u : u = Head(queue[t])
  OBVIOUS
<1>1. queue[t] \in Seq(Urls) /\ queue[t] # <<>> /\ u \in Urls /\ InQueue(u, t, 1)
  BY <1>0, QueueTypes DEF UserInv, Take, InQueue
<1>2. \A v : \A x \in Threads : v \in held'[x] <=> v \in held[x] \/ (v = u /\ x = t)
  BY <1>0 DEF Take, UserInv, TypeOK
<1>3. \A v : \A x \in Threads : At(v, x)' <=> At(v, x)
  <2>1. queue'[t] = Tail(queue[t]) /\ \A x \in Threads \ {t} : queue'[x] = queue[x]
    BY DEF Take, UserInv, TypeOK
  <2>2. ToSet(queue[t]) = {u} \cup ToSet(queue'[t])
    BY <1>0, <1>1, <2>1, SetOfTail
  <2> QED
    BY <1>2, <2>1, <2>2 DEF At
<1>4. UNCHANGED <<dealt, retries, saved, lost>>
  BY DEF Take
<1>5. \A v \in Urls \ {u} : Progress(v)' = Progress(v)
  BY <1>2, <1>3, <1>4, RestStays DEF Done
<1>6. Flag(u) = 0 /\ Flag(u)' = 1
  <2>1. \A x \in Threads : u \notin held[x]
    BY <1>1 DEF UserInv, Sole
  <2> QED
    BY <1>2, <2>1 DEF Flag
<1>7. StageNumber(u)' = StageNumber(u)
  BY <1>3, <1>4 DEF StageNumber
<1>8. Progress(u) < Progress(u)'
  BY <1>1, <1>4, <1>6, <1>7, Advances DEF UserInv
<1> QED
  BY <1>1, <1>5, <1>8 DEF OneGoesOn

LEMMA PassesOnGoesOn ==
    ASSUME UserInv, TypeOK', Placed, NEW t \in Threads, NEW u \in Urls, NEW r \in Threads,
           PassesOn(t, u, r)
    PROVE  OneGoesOn(u)
<1>1. u \in held[t] /\ \A v : \A x \in Threads :
         v \in held'[x] <=> v \in held[x] /\ ~(v = u /\ x = t)
  BY DEF PassesOn, Push, UserInv, TypeOK
<1>2. \A x \in Threads : ToSet(queue'[x]) = ToSet(queue[x]) \cup (IF x = r THEN {u} ELSE {})
  BY QueueTypes, AtAppend DEF PassesOn, Push, UserInv, TypeOK
<1>3. Has(u) = {t} /\ ~Done(u)
  BY <1>1 DEF Placed, At
<1>4. \A x \in Threads : u \notin held'[x] /\ u \notin ToSet(queue[x])
  <2>1. \A x \in Threads : \A n : ~InQueue(u, x, n)
    BY <1>1 DEF UserInv, Sole
  <2> QED
    BY <1>1, <1>3, <2>1, InToSet, QueueTypes DEF UserInv, InQueue, Has, At
<1>5. Has(u)' = {r}
  BY <1>2, <1>4 DEF Has, At
<1>6. \A v \in Urls \ {u} : Progress(v)' = Progress(v)
  <2> SUFFICES ASSUME NEW v \in Urls \ {u} PROVE Progress(v)' = Progress(v)
    OBVIOUS
  <2>1. \A x \in Threads : (At(v, x)' <=> At(v, x)) /\ (v \in held'[x] <=> v \in held[x])
    BY <1>1, <1>2 DEF At
  <2>2. (Done(v)' <=> Done(v)) /\ retries'[v] = retries[v]
    BY DEF PassesOn, Done, UserInv, TypeOK
  <2> QED
    BY <2>1, <2>2, RestStays
<1>7. StageNumber(u) = LatestStage({t}) /\ StageNumber(u)' = LatestStage({r})
  BY <1>3, <1>5 DEF StageNumber, Has, Done, PassesOn
<1>8. CASE t = r /\ retries' = [retries EXCEPT ![u] = @ + 1]
  <2>1. retries[u] < retries'[u]
    BY <1>8, MaxRetriesType DEF UserInv, TypeOK
  <2> QED
    BY <1>6, <1>7, <1>8, <2>1, Advances DEF UserInv, OneGoesOn
<1>9. CASE \/ r = NextThread(u, "scheduler") /\ t \in Dnsers
           \/ r = NextThread(u, "downloader") /\ t \in Schedulers
           \/ r = NextThread(u, "extractor") /\ t \in Downloaders
  <2>1. LatestStage({t}) < LatestStage({r})
    BY <1>9, NumberIs, NextThreadType DEF Stages, ThreadsOf
  <2> QED
    BY <1>6, <1>7, <2>1, Advances DEF UserInv, OneGoesOn
<1> QED
  BY <1>8, <1>9 DEF PassesOn

LEMMA EndsWithGoesOn ==
    ASSUME UserInv, TypeOK', Placed, NEW t \in Threads, NEW u \in Urls, EndsWith(t, u)
    PROVE  OneGoesOn(u)
<1>1. u \in held[t] /\ \A v : \A x \in Threads :
         v \in held'[x] <=> v \in held[x] /\ ~(v = u /\ x = t)
  BY DEF EndsWith, Moved, UserInv, TypeOK
<1>2. Has(u) = {t} /\ ~Done(u) /\ Done(u)'
  BY <1>1 DEF Placed, At, EndsWith, Done
<1>3. StageNumber(u) = LatestStage({t}) /\ StageNumber(u)' = 5
  BY <1>2 DEF StageNumber, Has, Done
<1>4. \A v \in Urls \ {u} : Progress(v)' = Progress(v)
  <2> SUFFICES ASSUME NEW v \in Urls \ {u} PROVE Progress(v)' = Progress(v)
    OBVIOUS
  <2>1. \A x \in Threads : (At(v, x)' <=> At(v, x)) /\ (v \in held'[x] <=> v \in held[x])
    BY <1>1 DEF At, EndsWith
  <2>2. (Done(v)' <=> Done(v)) /\ retries'[v] = retries[v]
    BY DEF EndsWith, Done
  <2> QED
    BY <2>1, <2>2, RestStays
<1>5. LatestStage({t}) < 5
  BY NumberIs
<1> QED
  BY <1>3, <1>4, <1>5, Advances DEF UserInv, OneGoesOn

LEMMA DealGoesOn ==
    ASSUME UserInv, TypeOK', Placed, Deal, Seeds[dealt + 1] # NoUrl
    PROVE  \E u : OneGoesOn(u)
<1>1. dealt \in Nat /\ dealt < Len(Seeds) /\ Len(Seeds) \in Nat
  BY SeedsType DEF UserInv, TypeOK, Deal
<1> PICK u, r : u = Seeds[dealt + 1] /\ r = NextThread(u, "dnser")
  OBVIOUS
<1>2. u \in Urls
  BY <1>1, SeedsType
<1>3. r \in Threads /\ r \in Dnsers
  BY <1>2, NextThreadType DEF Stages, ThreadsOf
<1>4. Nowhere(u)
  <2>1. dealt + 1 \in (dealt + 1)..Len(Seeds)
    BY <1>1
  <2> QED
    BY <2>1 DEF UserInv, SeedsAreThere
<1>5. queue' = [queue EXCEPT ![r] = Append(@, u)] /\ UNCHANGED <<held, retries, saved, lost>>
  BY DEF Deal
<1>6. \A x \in Threads : ToSet(queue'[x]) = ToSet(queue[x]) \cup (IF x = r THEN {u} ELSE {})
  BY <1>2, <1>3, <1>5, QueueTypes, AtAppend DEF UserInv, TypeOK
<1>7. Has(u) = {} /\ ~Done(u)
  BY <1>2, <1>4 DEF Placed, Nowhere
<1>8. Has(u)' = {r}
  BY <1>3, <1>5, <1>6, <1>7 DEF Has, At
<1>9. StageNumber(u) = 0 /\ StageNumber(u)' = 1
  <2>1. StageNumber(u) = LatestStage({}) /\ StageNumber(u)' = LatestStage({r})
    BY <1>5, <1>7, <1>8 DEF StageNumber, Has, Done
  <2>2. LatestStage({}) = 0
    BY DEF LatestStage
  <2> QED
    BY <1>3, <2>1, <2>2, NumberIs
<1>10. \A v \in Urls \ {u} : Progress(v)' = Progress(v)
  <2> SUFFICES ASSUME NEW v \in Urls \ {u} PROVE Progress(v)' = Progress(v)
    OBVIOUS
  <2>1. \A x \in Threads : (At(v, x)' <=> At(v, x)) /\ (v \in held'[x] <=> v \in held[x])
    BY <1>5, <1>6 DEF At
  <2> QED
    BY <1>5, <2>1, RestStays DEF Done
<1>11. Progress(u) < Progress(u)'
  BY <1>2, <1>9, Advances DEF UserInv
<1> QED
  BY <1>2, <1>10, <1>11 DEF OneGoesOn

\* No step takes a url back to an earlier stage, a retry included, and each but the
\* dealing of a seed takes one further: what EverySeedEnds rests on.
THEOREM UrlsOnlyGoForward == Spec => UrlsGoForward
<1> DEFINE Forward ==
        /\ \A u \in Urls : Progress(u) <= Progress(u)'
        /\ dealt' = dealt => \E u \in Urls : Progress(u) < Progress(u)'
<1>1. ASSUME UserInv, UserInv', Placed, Next
      PROVE  Forward
  <2>1. \A v \in Urls : Progress(v) \in Nat /\ Progress(v)' \in Nat
    <3> TAKE v \in Urls
    <3>1. retries[v] \in 0..MaxRetries /\ retries'[v] \in 0..MaxRetries
      BY <1>1 DEF UserInv, TypeOK
    <3>2. /\ Progress(v) = Rank(StageNumber(v), retries[v], Flag(v))
          /\ Progress(v)' = Rank(StageNumber(v)', retries'[v], Flag(v)')
      BY DEF Progress, Flag, Rank
    <3> QED
      BY <3>1, <3>2, StageNumberType, RankType
  <2>2. ASSUME NEW u, OneGoesOn(u) PROVE Forward
    BY <2>1, <2>2 DEF OneGoesOn
  <2>3. CASE Deal /\ Seeds[dealt + 1] = NoUrl
    <3>1. \A v \in Urls : Progress(v)' = Progress(v)
      BY <2>3, RestStays DEF Deal, At, Done
    <3>2. dealt' # dealt
      BY <1>1, <2>3, SeedsType DEF Deal, UserInv, TypeOK
    <3> QED
      BY <2>1, <3>1, <3>2
  <2>4. TypeOK /\ TypeOK'
    BY <1>1 DEF UserInv
  <2> HIDE DEF Forward
  <2> QED
    BY <1>1, <2>2, <2>3, <2>4, FinishIs, DealGoesOn, TakeGoesOn, PassesOnGoesOn, EndsWithGoesOn
    DEF Next
<1>2. UserInv /\ UserInv' /\ Placed /\ [Next]_vars => [Forward]_vars
  BY <1>1
<1> QED
  BY <1>2, PlacedIs, InitUserInv, StepUserInv, PTL DEF Spec, UrlsGoForward

-------------------------------------------------------------------------------
(* What names a resource: the canonical text of a url (url.cc, utility.cc).  A  *)
(* url is taken apart at the places that Find finds, and the canonical text is  *)
(* taken apart at its first colon or slash, then at its first slash.            *)

\* The least of a set of numbers: what induction over data is done with here.
LEMMA LeastIs ==
    ASSUME NEW T \in SUBSET Nat, T # {}
    PROVE  \E m \in T : \A n \in T : m <= n
<1>1. PICK m \in T : \A n \in T : <<n, m>> \notin OpToRel(<, Nat)
  BY WFMin, NatLessThanWellFounded
<1>2. \A n \in T : ~(n < m)
  BY <1>1 DEF OpToRel
<1> QED
  BY <1>2

\* A recursive function of one call: f[x] is base[x] for the x of B, and else made of
\* x and f[next[x]], where the measure m of next[x] is less than that of x.  There is
\* such a function, so that what TLA+ chooses for the definition is one.
Solution(f, D, B, base, next, step) ==
    \A x \in D : f[x] = IF x \in B THEN base[x] ELSE step[<<x, f[next[x]]>>]
Recursion(D, S, B, m, base, next, step) ==
    /\ m \in [D -> Nat] /\ base \in [D -> S] /\ next \in [D -> D] /\ step \in [D \X S -> S]
    /\ \A x \in D : x \notin B => m[next[x]] < m[x]

LEMMA RecursionHasSolution ==
    ASSUME NEW D, NEW S, NEW B, NEW m, NEW base, NEW next, NEW step,
           Recursion(D, S, B, m, base, next, step)
    PROVE  \E f \in [D -> S] : Solution(f, D, B, base, next, step)
<1> USE DEF Recursion
<1> DEFINE Right(f, x) == IF x \in B THEN base[x] ELSE step[<<x, f[next[x]]>>]
           Solves(f, n) == \A x \in D : m[x] <= n => f[x] = Right(f, x)
<1>1. \A f \in [D -> S] : \A x \in D : Right(f, x) \in S
  OBVIOUS
<1>2. \A n \in Nat : \E f \in [D -> S] : Solves(f, n)
  <2> DEFINE T == {n \in Nat : \A f \in [D -> S] : ~Solves(f, n)}
  <2> SUFFICES ASSUME T # {} PROVE FALSE
    OBVIOUS
  <2>1. PICK n \in T : \A k \in T : n <= k
    BY LeastIs
  <2>2. PICK f \in [D -> S] : \A x \in D : m[x] < n => f[x] = Right(f, x)
    <3>1. CASE n = 0
      BY <3>1
    <3>2. CASE n # 0
      <4>1. n - 1 \in Nat /\ n - 1 \notin T
        BY <2>1, <3>2
      <4>2. PICK f \in [D -> S] : Solves(f, n - 1)
        BY <4>1
      <4>3. \A x \in D : m[x] < n => m[x] <= n - 1
        BY <2>1
      <4> QED
        BY <4>2, <4>3
    <3> QED
      BY <3>1, <3>2
  <2> DEFINE g == [x \in D |-> IF m[x] < n THEN f[x] ELSE Right(f, x)]
  <2> HIDE DEF Right
  <2>3. g \in [D -> S]
    BY <1>1, <2>2
  <2>4. \A x \in D : m[x] <= n => g[x] = Right(f, x)
    BY <2>1, <2>2
  <2>5. \A x \in D : m[x] <= n => Right(g, x) = Right(f, x)
    <3> SUFFICES ASSUME NEW x \in D, m[x] <= n, x \notin B PROVE g[next[x]] = f[next[x]]
      BY DEF Right
    <3> QED
      BY <2>1
  <2>6. Solves(g, n)
    BY <2>4, <2>5
  <2> QED
    BY <2>1, <2>3, <2>6
<1>3. \A n \in Nat : \A f, g \in [D -> S] : Solves(f, n) /\ Solves(g, n) =>
          \A x \in D : m[x] <= n => f[x] = g[x]
  <2> SUFFICES ASSUME NEW n \in Nat, NEW f \in [D -> S], NEW g \in [D -> S],
                      Solves(f, n), Solves(g, n)
               PROVE  \A x \in D : m[x] <= n => f[x] = g[x]
    OBVIOUS
  <2> SUFFICES ASSUME \E x \in D : m[x] <= n /\ f[x] # g[x] PROVE FALSE
    OBVIOUS
  <2> DEFINE T == {k \in Nat : \E x \in D : m[x] = k /\ k <= n /\ f[x] # g[x]}
  <2>1. PICK k \in T : \A j \in T : k <= j
    <3>1. T \in SUBSET Nat /\ T # {}
      OBVIOUS
    <3> HIDE DEF T
    <3> QED
      BY <3>1, LeastIs
  <2>2. PICK x \in D : m[x] = k /\ m[x] <= n /\ f[x] # g[x]
    BY <2>1
  <2>3. Right(f, x) # Right(g, x)
    BY <2>2
  <2>4. x \notin B /\ f[next[x]] # g[next[x]]
    BY <2>3
  <2>5. m[next[x]] < k /\ m[next[x]] \in T
    BY <2>2, <2>4
  <2> QED
    BY <2>1, <2>2, <2>5
<1> DEFINE F(n) == CHOOSE f \in [D -> S] : Solves(f, n)
           h == [x \in D |-> F(m[x])[x]]
<1> HIDE DEF Right
<1>4. \A n \in Nat : F(n) \in [D -> S] /\ Solves(F(n), n)
  BY <1>2
<1> HIDE DEF F
<1>5. h \in [D -> S]
  BY <1>4
<1>6. ASSUME NEW x \in D PROVE h[x] = Right(h, x)
  <2>1. h[x] = Right(F(m[x]), x)
    <3>1. m[x] \in Nat /\ m[x] <= m[x]
      OBVIOUS
    <3> QED
      BY <1>4, <3>1
  <2>2. ASSUME x \notin B PROVE F(m[x])[next[x]] = h[next[x]]
    <3> DEFINE y == next[x]
    <3>1. m[y] < m[x] /\ y \in D
      BY <2>2
    <3>2. m[x] \in Nat /\ m[y] \in Nat /\ \A z \in D : m[z] <= m[y] => m[z] <= m[x]
      BY <3>1
    <3>3. Solves(F(m[x]), m[y]) /\ Solves(F(m[y]), m[y])
      BY <1>4, <3>2
    <3>4. F(m[x])[y] = F(m[y])[y]
      BY <1>3, <1>4, <3>1, <3>2, <3>3
    <3>5. h[y] = F(m[y])[y]
      BY <3>1
    <3> QED
      BY <3>4, <3>5
  <2> QED
    BY <2>1, <2>2 DEF Right
<1> QED
  BY <1>5, <1>6 DEF Right, Solution

-------------------------------------------------------------------------------
(* The numbers and texts of urls. *)

DigitSet == {Digits[i] : i \in 1..10}
LEMMA DigitsAre ==
    /\ Digits \in [1..10 -> DigitSet] /\ Len(Digits) = 10 /\ Range(Digits) = DigitSet
    /\ \A i, j \in 1..10 : Digits[i] = Digits[j] => i = j
BY DEF Digits, DigitSet, Range

\* integer2str: the text of a number, as the code builds it.
LEMMA Integer2StrIs ==
    /\ Integer2Str \in [Nat -> Seq(DigitSet)]
    /\ \A n \in Nat : Integer2Str[n] = IF n < 10 THEN <<Digits[n + 1]>>
                                       ELSE Append(Integer2Str[n \div 10], Digits[(n % 10) + 1])
<1> DEFINE text(f, n) == IF n < 10 THEN <<Digits[n + 1]>>
                         ELSE Append(f[n \div 10], Digits[(n % 10) + 1])
           B == 0..9
           m == [n \in Nat |-> n]
           base == [n \in Nat |-> <<Digits[(n % 10) + 1]>>]
           next == [n \in Nat |-> n \div 10]
           step == [x \in Nat \X Seq(DigitSet) |-> Append(x[2], Digits[(x[1] % 10) + 1])]
<1>1. \A n \in Nat : /\ n % 10 \in 0..9 /\ n \div 10 \in Nat
                     /\ n \notin B => n \div 10 < n
                     /\ n \in B <=> n < 10
                     /\ n < 10 => n % 10 = n
  OBVIOUS
<1>2. \A n \in Nat : Digits[(n % 10) + 1] \in DigitSet
  BY <1>1, DigitsAre
<1>3. PICK f \in [Nat -> Seq(DigitSet)] : Solution(f, Nat, B, base, next, step)
  <2>1. m \in [Nat -> Nat] /\ next \in [Nat -> Nat]
    BY <1>1
  <2>2. base \in [Nat -> Seq(DigitSet)]
    BY <1>2
  <2>3. step \in [Nat \X Seq(DigitSet) -> Seq(DigitSet)]
    BY <1>2
  <2>4. \A n \in Nat : n \notin B => m[next[n]] < m[n]
    BY <1>1
  <2> HIDE DEF m, next, base, step, B
  <2>5. Recursion(Nat, Seq(DigitSet), B, m, base, next, step)
    BY <2>1, <2>2, <2>3, <2>4 DEF Recursion
  <2> QED
    BY <2>5, RecursionHasSolution
<1>4. \A n \in Nat : f[n] = text(f, n)
  <2>1. ASSUME NEW n \in Nat PROVE step[<<n, f[next[n]]>>] = Append(f[n \div 10], Digits[(n % 10) + 1])
    BY <1>1, <1>3
  <2> QED
    BY <1>1, <1>3, <2>1 DEF Solution
<1>5. f = [n \in Nat |-> text(f, n)]
  BY <1>4
<1>6. Integer2Str = CHOOSE g : g = [n \in Nat |-> text(g, n)]
  BY DEF Integer2Str
<1>7. Integer2Str = [n \in Nat |-> text(Integer2Str, n)]
  <2> HIDE DEF text
  <2> QED
    BY <1>5, <1>6
<1>8. \A n \in Nat : Integer2Str[n] = text(Integer2Str, n)
  <2> HIDE DEF text
  <2> QED
    BY <1>7
<1>9. ASSUME NEW n \in Nat, n < 10 PROVE Integer2Str[n] = <<Digits[n + 1]>>
  BY <1>8, <1>9
<1>10. ASSUME NEW n \in Nat, ~(n < 10)
       PROVE  Integer2Str[n] = Append(Integer2Str[n \div 10], Digits[(n % 10) + 1])
  BY <1>8, <1>10
<1> HIDE DEF text
<1>11. \A n \in Nat : Integer2Str[n] \in Seq(DigitSet)
  <2> DEFINE T == {n \in Nat : Integer2Str[n] \notin Seq(DigitSet)}
  <2> SUFFICES ASSUME T # {} PROVE FALSE
    OBVIOUS
  <2>1. PICK n \in T : \A k \in T : n <= k
    BY LeastIs
  <2>2. n \in Nat /\ (~(n < 10) => Integer2Str[n \div 10] \in Seq(DigitSet))
    BY <1>1, <2>1
  <2>3. Integer2Str[n] \in Seq(DigitSet)
    <3>1. CASE n < 10
      <4>1. Integer2Str[n] = <<Digits[n + 1]>>
        BY <1>9, <2>2, <3>1
      <4>2. Digits[n + 1] \in DigitSet
        BY <1>1, <1>2, <2>2, <3>1
      <4> QED
        BY <4>1, <4>2
    <3>2. CASE ~(n < 10)
      <4>1. Integer2Str[n] = Append(Integer2Str[n \div 10], Digits[(n % 10) + 1])
        BY <1>10, <2>2, <3>2
      <4>2. Integer2Str[n \div 10] \in Seq(DigitSet) /\ Digits[(n % 10) + 1] \in DigitSet
        BY <1>2, <2>2, <3>2
      <4> HIDE DEF T
      <4> QED
        BY <4>1, <4>2, AppendProperties
    <3> QED
      BY <2>2, <3>1, <3>2
  <2> QED
    BY <2>1, <2>3
<1>12. Integer2Str \in [Nat -> Seq(DigitSet)]
  BY <1>7, <1>11
<1> QED
  BY <1>9, <1>10, <1>12

\* Digits and numbers of text.
LEMMA NumbersAreTexts ==
    \A n \in Nat : /\ Integer2Str[n] \in Seq(DigitSet) /\ Len(Integer2Str[n]) > 0
                   /\ n < 10 => Len(Integer2Str[n]) = 1
                   /\ ~(n < 10) => Len(Integer2Str[n]) > 1
<1>1. \A n \in Nat : Integer2Str[n] \in Seq(DigitSet)
  BY Integer2StrIs
<1>2. ASSUME NEW n \in Nat, n < 10 PROVE Len(Integer2Str[n]) = 1
  <2>1. Integer2Str[n] = <<Digits[n + 1]>>
    BY <1>2, Integer2StrIs
  <2> QED
    BY <2>1
<1>3. \A n \in Nat : Len(Integer2Str[n]) > 0
  <2>1. ASSUME NEW n \in Nat, ~(n < 10) PROVE Len(Integer2Str[n]) > 0
    <3>1. Integer2Str[n] = Append(Integer2Str[n \div 10], Digits[(n % 10) + 1])
      BY <2>1, Integer2StrIs
    <3>2. n \div 10 \in Nat /\ Digits[(n % 10) + 1] \in DigitSet
      BY DigitsAre
    <3>3. Integer2Str[n \div 10] \in Seq(DigitSet)
      BY <1>1, <3>2
    <3>4. Len(Integer2Str[n]) = Len(Integer2Str[n \div 10]) + 1
      BY <3>1, <3>2, <3>3, AppendProperties
    <3>5. Len(Integer2Str[n \div 10]) \in Nat
      BY <3>3, LenProperties
    <3> QED
      BY <3>4, <3>5
  <2>2. \A n \in Nat : n < 10 => Len(Integer2Str[n]) > 0
    BY <1>2
  <2>3. \A n \in Nat : ~(n < 10) => Len(Integer2Str[n]) > 0
    BY <2>1
  <2> QED
    BY <2>2, <2>3
<1>4. ASSUME NEW n \in Nat, ~(n < 10) PROVE Len(Integer2Str[n]) > 1
  <2>1. Integer2Str[n] = Append(Integer2Str[n \div 10], Digits[(n % 10) + 1])
    BY <1>4, Integer2StrIs
  <2>2. n \div 10 \in Nat /\ Digits[(n % 10) + 1] \in DigitSet
    BY DigitsAre
  <2>3. Len(Integer2Str[n]) = Len(Integer2Str[n \div 10]) + 1
    BY <1>1, <2>1, <2>2, AppendProperties
  <2>4. Len(Integer2Str[n \div 10]) \in Nat /\ Len(Integer2Str[n \div 10]) > 0
    BY <1>1, <1>3, <2>2
  <2> QED
    BY <2>3, <2>4
<1> QED
  BY <1>1, <1>2, <1>3, <1>4

\* Two texts of one digit, and two texts of more.
LEMMA ShortNumbersDiffer ==
    ASSUME NEW n \in Nat, NEW k \in Nat, n < 10, k < 10, Integer2Str[n] = Integer2Str[k]
    PROVE  n = k
<1>1. Integer2Str[n] = <<Digits[n + 1]>> /\ Integer2Str[k] = <<Digits[k + 1]>>
  BY Integer2StrIs
<1>2. <<Digits[n + 1]>>[1] = <<Digits[k + 1]>>[1]
  BY <1>1
<1>3. n + 1 \in 1..10 /\ k + 1 \in 1..10
  OBVIOUS
<1>4. n + 1 = k + 1
  BY <1>2, <1>3, DigitsAre
<1> QED
  BY <1>4

LEMMA LongNumbersDiffer ==
    ASSUME NEW n \in Nat, NEW k \in Nat, ~(n < 10), ~(k < 10), Integer2Str[n] = Integer2Str[k]
    PROVE  Integer2Str[n \div 10] = Integer2Str[k \div 10] /\ n % 10 = k % 10
<1>1. /\ Integer2Str[n] = Append(Integer2Str[n \div 10], Digits[(n % 10) + 1])
      /\ Integer2Str[k] = Append(Integer2Str[k \div 10], Digits[(k % 10) + 1])
  BY Integer2StrIs
<1>2. /\ n \div 10 \in Nat /\ k \div 10 \in Nat
      /\ (n % 10) + 1 \in 1..10 /\ (k % 10) + 1 \in 1..10
      /\ n % 10 \in Int /\ k % 10 \in Int
  OBVIOUS
<1>3. /\ Digits[(n % 10) + 1] \in DigitSet /\ Digits[(k % 10) + 1] \in DigitSet
      /\ Integer2Str[n \div 10] \in Seq(DigitSet) /\ Integer2Str[k \div 10] \in Seq(DigitSet)
  BY <1>2, DigitsAre, NumbersAreTexts
<1>4. /\ Integer2Str[n \div 10] = Integer2Str[k \div 10]
      /\ Digits[(n % 10) + 1] = Digits[(k % 10) + 1]
  <2> DEFINE s == Integer2Str[n \div 10]
             t == Integer2Str[k \div 10]
             d == Digits[(n % 10) + 1]
             e == Digits[(k % 10) + 1]
  <2>1. Append(s, d) = Append(t, e)
    BY <1>1
  <2>2. s \in Seq(DigitSet) /\ t \in Seq(DigitSet) /\ d \in DigitSet /\ e \in DigitSet
    BY <1>3
  <2> HIDE DEF s, t, d, e
  <2>3. s = t /\ d = e
    BY <2>1, <2>2, AppendInjective
  <2> QED
    BY <2>3 DEF s, t, d, e
<1>5. (n % 10) + 1 = (k % 10) + 1
  BY <1>2, <1>4, DigitsAre
<1> QED
  BY <1>2, <1>4, <1>5

\* Different numbers have different texts.
LEMMA NumbersDiffer ==
    \A n, k \in Nat : Integer2Str[n] = Integer2Str[k] => n = k
<1> DEFINE Twin(n, k) == Integer2Str[n] = Integer2Str[k] /\ n # k
           T == {n \in Nat : \E k \in Nat : Twin(n, k)}
<1> SUFFICES ASSUME T # {} PROVE FALSE
  OBVIOUS
<1>1. PICK n \in T : \A j \in T : n <= j
  BY LeastIs
<1>2. n \in Nat /\ \A j \in Nat : (\E k \in Nat : Twin(j, k)) => n <= j
  BY <1>1
<1>3. PICK k \in Nat : Twin(n, k)
  BY <1>1
<1> HIDE DEF T
<1>4. n < 10 <=> k < 10
  <2>1. /\ n < 10 => Len(Integer2Str[n]) = 1
        /\ ~(n < 10) => Len(Integer2Str[n]) > 1
        /\ k < 10 => Len(Integer2Str[k]) = 1
        /\ ~(k < 10) => Len(Integer2Str[k]) > 1
    BY <1>2, <1>3, NumbersAreTexts
  <2> DEFINE x == Len(Integer2Str[n])
             y == Len(Integer2Str[k])
  <2>2. x = y
    BY <1>3
  <2>3. /\ n < 10 => x = 1
        /\ ~(n < 10) => x > 1
        /\ k < 10 => y = 1
        /\ ~(k < 10) => y > 1
    BY <2>1
  <2> HIDE DEF x, y
  <2> QED
    BY <2>2, <2>3
<1>5. CASE n < 10
  BY <1>2, <1>3, <1>4, <1>5, ShortNumbersDiffer
<1>6. CASE ~(n < 10)
  <2>1. Integer2Str[n \div 10] = Integer2Str[k \div 10] /\ n % 10 = k % 10
    BY <1>2, <1>3, <1>4, <1>6, LongNumbersDiffer
  <2>2. n \div 10 \in Nat /\ k \div 10 \in Nat /\ n \div 10 < n
    BY <1>2, <1>6
  <2>3. n \div 10 # k \div 10
    <3>1. n = 10 * (n \div 10) + (n % 10) /\ k = 10 * (k \div 10) + (k % 10)
      BY <1>2
    <3> QED
      BY <1>3, <2>1, <3>1
  <2>4. Twin(n \div 10, k \div 10)
    BY <2>1, <2>3
  <2>5. n <= n \div 10
    BY <1>2, <2>2, <2>4
  <2> QED
    BY <1>2, <2>2, <2>5
<1> QED
  BY <1>5, <1>6

\* Where a text is divided by the first character of C.
LEMMA DividedAlike ==
    ASSUME NEW S, NEW C, NEW a \in Seq(S), NEW b \in Seq(S), NEW q \in Seq(S), NEW r \in Seq(S),
           \A i \in 1..Len(a) : a[i] \notin C, \A i \in 1..Len(b) : b[i] \notin C,
           q # <<>>, r # <<>>, q[1] \in C, r[1] \in C, a \o q = b \o r
    PROVE  a = b /\ q = r
<1>1. /\ Len(a) \in Nat /\ Len(b) \in Nat /\ Len(q) \in Nat \ {0} /\ Len(r) \in Nat \ {0}
  BY EmptySeq, LenProperties
<1> DEFINE First(s, u, i) == IF i <= Len(s) THEN s[i] ELSE u[i - Len(s)]
<1>2. /\ \A i \in 1..Len(a) + Len(q) : (a \o q)[i] = First(a, q, i)
      /\ \A i \in 1..Len(b) + Len(r) : (b \o r)[i] = First(b, r, i)
      /\ Len(a) + Len(q) = Len(b) + Len(r)
  <2>1. /\ Len(a \o q) = Len(a) + Len(q)
        /\ \A i \in 1..Len(a) + Len(q) : (a \o q)[i] = First(a, q, i)
    BY ConcatProperties
  <2>2. /\ Len(b \o r) = Len(b) + Len(r)
        /\ \A i \in 1..Len(b) + Len(r) : (b \o r)[i] = First(b, r, i)
    BY ConcatProperties
  <2> QED
    BY <2>1, <2>2
<1>3. \A i \in 1..Len(a) + Len(q) : First(a, q, i) = First(b, r, i)
  BY <1>2
<1>4. Len(a) = Len(b)
  <2>1. First(a, q, Len(a) + 1) = q[1] /\ First(b, r, Len(b) + 1) = r[1]
    BY <1>1
  <2>2. ~(Len(a) < Len(b))
    <3> SUFFICES ASSUME Len(a) < Len(b) PROVE FALSE
      OBVIOUS
    <3>1. Len(a) + 1 \in 1..Len(b) /\ Len(a) + 1 \in 1..Len(a) + Len(q)
      BY <1>1
    <3>2. First(b, r, Len(a) + 1) = b[Len(a) + 1]
      BY <1>1, <3>1
    <3> QED
      BY <1>3, <2>1, <3>1, <3>2
  <2>3. ~(Len(b) < Len(a))
    <3> SUFFICES ASSUME Len(b) < Len(a) PROVE FALSE
      OBVIOUS
    <3>1. Len(b) + 1 \in 1..Len(a) /\ Len(b) + 1 \in 1..Len(a) + Len(q)
      BY <1>1
    <3>2. First(a, q, Len(b) + 1) = a[Len(b) + 1]
      BY <1>1, <3>1
    <3> QED
      BY <1>3, <2>1, <3>1, <3>2
  <2> QED
    BY <1>1, <2>2, <2>3
<1>5. a = b
  <2>1. \A i \in 1..Len(a) : a[i] = b[i]
    BY <1>1, <1>3, <1>4
  <2> QED
    BY <1>4, <2>1, SeqEqual
<1>6. q = r
  <2>1. a \o q = a \o r
    BY <1>5
  <2> QED
    BY <2>1, ConcatSimplifications
<1> QED
  BY <1>5, <1>6

\* The least of a set, the first place of a character, a part of a text.
LEMMA MinIs ==
    ASSUME NEW S \in SUBSET Nat, NEW m \in S, \A y \in S : m <= y
    PROVE  Min(S) = m
<1>1. \A x \in S : (\A y \in S : x =< y) => x = m
  OBVIOUS
<1> QED
  BY <1>1 DEF Min

LEMMA FindIs ==
    ASSUME NEW S, NEW t \in Seq(S), NEW c, NEW i \in 1..(Len(t) + 1),
           \A j \in 1..(i - 1) : t[j] # c, i <= Len(t) => t[i] = c
    PROVE  Find(t, c) = i
<1>1. Len(t) \in Nat /\ DOMAIN t = 1..Len(t)
  BY LenProperties
<1> DEFINE places == {j \in DOMAIN t : t[j] = c} \cup {Len(t) + 1}
<1>2. places \in SUBSET Nat /\ i \in places
  BY <1>1
<1>3. \A j \in places : i <= j
  BY <1>1
<1> HIDE DEF places
<1>4. Min(places) = i
  BY <1>2, <1>3, MinIs
<1> QED
  BY <1>4 DEF places, Find

LEMMA FindIsBehind ==
    ASSUME NEW S, NEW t \in Seq(S), NEW c, NEW i \in 1..(Len(t) + 1),
           \A j \in 1..(i - 1) : t[j] # c
    PROVE  Find(t, c) \in i..(Len(t) + 1)
<1>1. Len(t) \in Nat /\ DOMAIN t = 1..Len(t)
  BY LenProperties
<1> DEFINE places == {j \in DOMAIN t : t[j] = c} \cup {Len(t) + 1}
<1>2. places \in SUBSET Nat /\ places # {} /\ \A j \in places : j \in i..(Len(t) + 1)
  BY <1>1
<1> HIDE DEF places
<1>3. PICK m \in places : \A j \in places : m <= j
  BY <1>2, LeastIs
<1>4. Min(places) = m
  BY <1>2, <1>3, MinIs
<1> QED
  BY <1>2, <1>4 DEF places, Find

LEMMA PartIs ==
    ASSUME NEW S, NEW t \in Seq(S), NEW u \in Seq(S), NEW m \in Nat,
           m + Len(u) <= Len(t), \A i \in 1..Len(u) : t[m + i] = u[i]
    PROVE  SubSeq(t, m + 1, m + Len(u)) = u
<1> DEFINE p == SubSeq(t, m + 1, m + Len(u))
<1>1. Len(t) \in Nat /\ Len(u) \in Nat
  BY LenProperties
<1>2. \A i \in (m + 1)..(m + Len(u)) : t[i] \in S
  BY <1>1, ElementOfSeq
<1>3. /\ p \in Seq(S) /\ Len(p) = IF m + 1 <= m + Len(u) THEN (m + Len(u)) - (m + 1) + 1 ELSE 0
      /\ \A i \in 1..((m + Len(u)) - (m + 1) + 1) : p[i] = t[(m + 1) + i - 1]
  <2>1. m + 1 \in Int /\ m + Len(u) \in Int
    BY <1>1
  <2> QED
    BY <1>2, <2>1, SubSeqProperties
<1> HIDE DEF p
<1>4. Len(p) = Len(u)
  BY <1>1, <1>3
<1>5. \A i \in 1..Len(p) : p[i] = u[i]
  BY <1>1, <1>3, <1>4
<1>6. p = u
  BY <1>3, <1>4, <1>5, SeqEqual
<1> QED
  BY <1>6 DEF p

\* Two and three texts behind each other.
LEMMA TwoAre ==
    ASSUME NEW S, NEW a \in Seq(S), NEW b \in Seq(S), NEW t, t = a \o b
    PROVE  /\ t \in Seq(S) /\ Len(t) = Len(a) + Len(b)
           /\ \A i \in 1..Len(a) : t[i] = a[i]
           /\ \A i \in 1..Len(b) : t[Len(a) + i] = b[i]
<1>1. Len(a) \in Nat /\ Len(b) \in Nat
  BY LenProperties
<1>2. /\ t \in Seq(S) /\ Len(t) = Len(a) + Len(b)
      /\ \A i \in 1..Len(a) + Len(b) : t[i] = IF i <= Len(a) THEN a[i] ELSE b[i - Len(a)]
  BY ConcatProperties
<1>3. \A i \in 1..Len(a) : t[i] = a[i]
  BY <1>1, <1>2
<1>4. ASSUME NEW i \in 1..Len(b) PROVE t[Len(a) + i] = b[i]
  <2>1. Len(a) + i \in 1..Len(a) + Len(b) /\ ~(Len(a) + i <= Len(a)) /\ (Len(a) + i) - Len(a) = i
    BY <1>1
  <2> QED
    BY <1>2, <2>1
<1> QED
  BY <1>2, <1>3, <1>4

LEMMA ThreeAre ==
    ASSUME NEW S, NEW a \in Seq(S), NEW b \in Seq(S), NEW c \in Seq(S),
           NEW s, s = a \o b, NEW t, t = s \o c
    PROVE  /\ t \in Seq(S) /\ Len(t) = Len(a) + Len(b) + Len(c)
           /\ \A i \in 1..Len(a) : t[i] = a[i]
           /\ \A i \in 1..Len(b) : t[Len(a) + i] = b[i]
           /\ \A i \in 1..Len(c) : t[Len(a) + Len(b) + i] = c[i]
<1>1. Len(a) \in Nat /\ Len(b) \in Nat
  BY LenProperties
<1>2. s \in Seq(S)
  BY TwoAre
<1>3. /\ Len(s) = Len(a) + Len(b)
      /\ \A i \in 1..Len(a) : s[i] = a[i]
      /\ \A i \in 1..Len(b) : s[Len(a) + i] = b[i]
  BY TwoAre
<1>4. /\ t \in Seq(S) /\ Len(t) = Len(s) + Len(c)
      /\ \A i \in 1..Len(s) : t[i] = s[i]
      /\ \A i \in 1..Len(c) : t[Len(s) + i] = c[i]
  BY <1>2, TwoAre
<1>5. \A i \in 1..Len(a) : i \in 1..Len(s)
  BY <1>1, <1>3
<1>6. \A i \in 1..Len(b) : Len(a) + i \in 1..Len(s)
  BY <1>1, <1>3
<1>7. \A i \in 1..Len(a) : t[i] = a[i]
  BY <1>3, <1>4, <1>5
<1>8. \A i \in 1..Len(b) : t[Len(a) + i] = b[i]
  BY <1>3, <1>4, <1>6
<1>9. \A i \in 1..Len(c) : t[Len(a) + Len(b) + i] = c[i]
  BY <1>3, <1>4
<1>10. t \in Seq(S) /\ Len(t) = Len(a) + Len(b) + Len(c)
  BY <1>3, <1>4
<1> QED
  BY <1>7, <1>8, <1>9, <1>10

\* No digit is a space, a sign, or what divides a url.
LEMMA DigitsNot ==
    \A d \in DigitSet : /\ d \notin Spaces
                        /\ d \notin {"+", "-"} /\ d \notin {"/", ":"}
<1>1. ASSUME NEW i \in 1..10
      PROVE  /\ Digits[i] \notin Spaces
             /\ Digits[i] \notin {"+", "-"} /\ Digits[i] \notin {"/", ":"}
  <2>1. i = 1 \/ i = 2 \/ i = 3 \/ i = 4 \/ i = 5 \/ i = 6 \/ i = 7 \/ i = 8 \/ i = 9 \/ i = 10
    OBVIOUS
  <2>2. Digits[i] \in {"0", "1", "2", "3", "4", "5", "6", "7", "8", "9"}
    BY <2>1, SMT DEF Digits
  <2> DEFINE d == Digits[i]
  <2> HIDE DEF d
  <2>3. d \in {"0", "1", "2", "3", "4", "5", "6", "7", "8", "9"}
    BY <2>2 DEF d
  <2>4. d \notin {" ", "\t", "\r", "\n"}
    BY <2>3
  <2>5. d \notin {"+", "-"} /\ d \notin {"/", ":"}
    BY <2>3
  <2> QED
    BY <2>4, <2>5 DEF Spaces, d
<1> QED
  BY <1>1 DEF DigitSet

LEMMA MaxPortIs == MaxPort \in Nat
BY DEF MaxPort

\* Str2Integer reads the number of a port.
LEMMA PortIsRead ==
    ASSUME NEW port \in Seq(DigitSet), port # <<>>, NumberOf(port) \in 1..MaxPort
    PROVE  Str2Integer(port, MaxPort) = NumberOf(port)
<1>1. \A d \in DigitSet : d \notin Spaces /\ d \notin {"+", "-"} /\ IsDigit(d)
  BY DigitsAre, DigitsNot DEF IsDigit
<1>2. /\ Len(port) \in Nat \ {0} /\ DOMAIN port = 1..Len(port)
      /\ \A i \in 1..Len(port) : port[i] \in DigitSet
  BY LenProperties, EmptySeq, ElementOfSeq
<1>3. TrimLeft(port) = port
  <2>1. Ink(port) = 1..Len(port)
    BY <1>1, <1>2 DEF Ink
  <2>2. Min(1..Len(port)) = 1
    <3>1. 1..Len(port) \in SUBSET Nat /\ 1 \in 1..Len(port) /\ \A y \in 1..Len(port) : 1 <= y
      BY <1>2
    <3> QED
      BY <3>1, MinIs
  <2>3. Ink(port) # {}
    <3>1. 1 \in 1..Len(port)
      BY <1>2
    <3> QED
      BY <2>1, <3>1
  <2>4. TrimLeft(port) = SubSeq(port, 1, Len(port))
    BY <2>1, <2>2, <2>3 DEF TrimLeft
  <2> QED
    BY <2>4, SubSeqFull
<1>4. Unsigned(port) = port /\ ~IsNegative(port)
  <2>1. Head(port) \in DigitSet
    BY HeadTailProperties
  <2> QED
    BY <1>1, <2>1 DEF Unsigned, IsNegative, HasSign
<1>5. /\ IsNumber(port)
      /\ ~(NumberOf(port) > MaxPort)
  <2>1. IsNumber(port)
    BY <1>1, <1>2 DEF IsNumber
  <2>2. ~(NumberOf(port) > MaxPort)
    <3>1. \A n \in 1..MaxPort : ~(n > MaxPort)
      BY MaxPortIs
    <3> QED
      BY <3>1
  <2> QED
    BY <2>1, <2>2
<1> QED
  BY <1>3, <1>4, <1>5 DEF Str2Integer

\* What the texts of urls are made of.
Tokens == STRING \cup DigitSet \cup {"/", ":", "http://"}

LEMMA TextsAreTokens ==
    /\ \A text \in Seq(STRING) : text \in Seq(Tokens)
    /\ \A text \in Seq(DigitSet) : text \in Seq(Tokens)
    /\ <<"/">> \in Seq(Tokens) /\ <<":">> \in Seq(Tokens) /\ <<"http://">> \in Seq(Tokens)
<1>1. STRING \subseteq Tokens /\ DigitSet \subseteq Tokens
  BY DEF Tokens
<1>2. "/" \in Tokens /\ ":" \in Tokens /\ "http://" \in Tokens
  BY DEF Tokens
<1> HIDE DEF Tokens
<1>3. \A text \in Seq(STRING) : text \in Seq(Tokens)
  BY <1>1, SeqMonotonic
<1>4. \A text \in Seq(DigitSet) : text \in Seq(Tokens)
  BY <1>1, SeqMonotonic
<1> QED
  BY <1>2, <1>3, <1>4

\* What stands between the host and the file: nothing, or a colon and digits.
IsHost(text) == /\ text \in Seq(Tokens) /\ text # <<>>
                /\ \A i \in 1..Len(text) : text[i] \notin {"/", ":"}
IsPort(text) == text \in Seq(DigitSet) /\ text # <<>>
IsFile(text) == text \in Seq(Tokens) /\ (text # <<>> => text[1] = "/")
Colon(port) == IF port = <<>> THEN <<>> ELSE <<":">> \o port

LEMMA ColonIs ==
    ASSUME NEW port, port = <<>> \/ IsPort(port)
    PROVE  /\ Colon(port) \in Seq(Tokens)
           /\ \A i \in 1..Len(Colon(port)) : Colon(port)[i] # "/"
           /\ port = <<>> => Len(Colon(port)) = 0
           /\ port # <<>> => /\ Len(Colon(port)) = Len(port) + 1 /\ Colon(port)[1] = ":"
                             /\ \A i \in 1..Len(port) : Colon(port)[1 + i] = port[i]
<1>1. CASE port = <<>>
  <2>1. Colon(port) = <<>>
    BY <1>1 DEF Colon
  <2>2. <<>> \in Seq(Tokens) /\ Len(<<>>) = 0
    BY EmptySeq
  <2>3. Colon(port) \in Seq(Tokens) /\ Len(Colon(port)) = 0
    BY <2>1, <2>2
  <2> QED
    BY <1>1, <2>3
<1>2. CASE IsPort(port)
  <2> DEFINE c == <<":">>
             t == Colon(port)
  <2>1. c \in Seq(Tokens) /\ port \in Seq(Tokens) /\ Len(c) = 1 /\ c[1] = ":"
    BY <1>2, TextsAreTokens DEF IsPort
  <2>2. t = c \o port /\ port # <<>>
    BY <1>2 DEF IsPort, Colon
  <2>3. Len(port) \in Nat
    BY <2>1, LenProperties
  <2> HIDE DEF c, t
  <2>4. /\ t \in Seq(Tokens) /\ Len(t) = 1 + Len(port) /\ t[1] = ":"
        /\ \A i \in 1..Len(port) : t[1 + i] = port[i]
    <3> c \in Seq(Tokens) /\ port \in Seq(Tokens) /\ t = c \o port
      BY <2>1, <2>2
    <3>1. t \in Seq(Tokens)
      BY TwoAre
    <3>2. /\ Len(t) = Len(c) + Len(port)
          /\ \A i \in 1..Len(c) : t[i] = c[i]
          /\ \A i \in 1..Len(port) : t[Len(c) + i] = port[i]
      BY TwoAre
    <3>3. 1 \in 1..Len(c)
      BY <2>1
    <3>4. t[1] = ":"
      BY <2>1, <3>2, <3>3
    <3>5. Len(t) = 1 + Len(port) /\ \A i \in 1..Len(port) : t[1 + i] = port[i]
      BY <2>1, <3>2
    <3> QED
      BY <3>1, <3>4, <3>5
  <2>5. \A i \in 1..Len(port) : port[i] # "/"
    BY <1>2, DigitsNot, ElementOfSeq DEF IsPort
  <2>6. ASSUME NEW i \in 1..Len(t) PROVE t[i] # "/"
    <3>1. CASE i = 1
      BY <2>4, <3>1
    <3>2. CASE i # 1
      <4>1. i - 1 \in 1..Len(port) /\ i = 1 + (i - 1)
        BY <2>3, <2>4, <3>2
      <4> QED
        BY <2>4, <2>5, <4>1
    <3> QED
      BY <3>1, <3>2
  <2> QED
    BY <2>2, <2>3, <2>4, <2>6 DEF t
<1> QED
  BY <1>1, <1>2

LEMMA TailIs ==
    ASSUME NEW S, NEW c \in S, NEW t \in Seq(S)
    PROVE  /\ Tail(<<c>> \o t) = t /\ Len(<<c>> \o t) = Len(t) + 1 /\ (<<c>> \o t)[1] = c
<1> DEFINE h == <<c>>
           s == h \o t
<1>1. h \in Seq(S) /\ Len(h) = 1 /\ h[1] = c
  OBVIOUS
<1>2. Len(t) \in Nat
  BY LenProperties
<1> HIDE DEF h
<1>3. /\ s \in Seq(S) /\ Len(s) = Len(h) + Len(t)
      /\ \A i \in 1..Len(h) : s[i] = h[i]
      /\ \A i \in 1..Len(t) : s[Len(h) + i] = t[i]
  <2>1. s = h \o t
    OBVIOUS
  <2> HIDE DEF s
  <2>2. h \in Seq(S)
    BY <1>1
  <2>3. s \in Seq(S)
    BY <2>2, <2>1, TwoAre
  <2>4. /\ Len(s) = Len(h) + Len(t)
        /\ \A i \in 1..Len(h) : s[i] = h[i]
        /\ \A i \in 1..Len(t) : s[Len(h) + i] = t[i]
    BY <2>2, <2>1, TwoAre
  <2> QED
    BY <2>3, <2>4
<1> HIDE DEF s
<1>4. s[1] = c /\ Len(s) = Len(t) + 1 /\ \A i \in 1..Len(t) : s[i + 1] = t[i]
  <2>1. 1 \in 1..Len(h)
    BY <1>1
  <2>2. s[1] = c
    BY <1>1, <1>3, <2>1
  <2>3. Len(s) = Len(t) + 1
    BY <1>1, <1>2, <1>3
  <2>4. \A i \in 1..Len(t) : s[1 + i] = t[i] /\ 1 + i = i + 1
    BY <1>1, <1>2, <1>3
  <2> QED
    BY <2>2, <2>3, <2>4
<1>5. s # <<>>
  BY <1>2, <1>3, <1>4, EmptySeq
<1>6. /\ Tail(s) \in Seq(S) /\ Len(Tail(s)) = Len(s) - 1
      /\ \A i \in 1..Len(Tail(s)) : Tail(s)[i] = s[i + 1]
  BY <1>3, <1>5, HeadTailProperties
<1>7. Tail(s) = t
  <2>1. Len(Tail(s)) = Len(t)
    BY <1>2, <1>4, <1>6
  <2>2. \A i \in 1..Len(Tail(s)) : Tail(s)[i] = t[i]
    BY <1>4, <1>6, <2>1
  <2> QED
    BY <1>6, <2>1, <2>2, SeqEqual
<1> QED
  BY <1>4, <1>7 DEF s, h

\* What Parse makes of a host, a port and a file.
LEMMA ParseIs ==
    ASSUME NEW host, IsHost(host), NEW port, port = <<>> \/ IsPort(port),
           NEW file, IsFile(file), port # <<>> => NumberOf(port) \in 1..MaxPort
    PROVE  Parse(<<"http://">> \o (host \o Colon(port) \o file))
             = [site |-> host,
                port |-> IF port = <<>> THEN DefaultPort ELSE NumberOf(port),
                file |-> IF file = <<>> THEN <<"/">> ELSE file]
<1> DEFINE p == Colon(port)
           s == host \o p
           rest == s \o file
           raw == <<"http://">> \o rest
           slash == Find(rest, "/")
           colon == Find(rest, ":")
           number == IF colon < slash
                     THEN Str2Integer(SubSeq(rest, colon + 1, slash - 1), MaxPort)
                     ELSE DefaultPort
<1>1. /\ host \in Seq(Tokens) /\ p \in Seq(Tokens) /\ file \in Seq(Tokens)
      /\ Len(host) \in Nat \ {0} /\ Len(p) \in Nat /\ Len(file) \in Nat
      /\ file # <<>> => Len(file) # 0
      /\ port # <<>> => Len(port) \in Nat \ {0}
  <2>1. host \in Seq(Tokens) /\ p \in Seq(Tokens) /\ file \in Seq(Tokens)
    BY ColonIs DEF IsHost, IsFile
  <2>2. \A t \in Seq(Tokens) : Len(t) \in Nat /\ (t # <<>> => Len(t) \in Nat \ {0})
    BY EmptySeq, LenProperties
  <2>3. port # <<>> => port \in Seq(Tokens)
    BY TextsAreTokens DEF IsPort
  <2> QED
    BY <2>1, <2>2, <2>3 DEF IsHost
<1>2. /\ rest \in Seq(Tokens) /\ Len(rest) = Len(host) + Len(p) + Len(file)
      /\ \A i \in 1..Len(host) : rest[i] = host[i]
      /\ \A i \in 1..Len(p) : rest[Len(host) + i] = p[i]
      /\ \A i \in 1..Len(file) : rest[Len(host) + Len(p) + i] = file[i]
  <2>1. s = host \o p /\ rest = s \o file
    OBVIOUS
  <2> HIDE DEF s, rest, p
  <2> QED
    BY <1>1, <2>1, ThreeAre
<1>3. Tail(raw) = rest /\ ~(Len(raw) < 2) /\ raw[1] = "http://"
  <2> HIDE DEF rest
  <2>1. "http://" \in Tokens
    BY DEF Tokens
  <2>2. Tail(raw) = rest /\ Len(raw) = Len(rest) + 1 /\ raw[1] = "http://"
    BY <1>2, <2>1, TailIs
  <2>3. Len(rest) \in Nat /\ Len(rest) > 0
    BY <1>1, <1>2
  <2> HIDE DEF raw
  <2> QED
    BY <2>2, <2>3
<1> HIDE DEF rest, s, p, raw
<1>4. \A i \in 1..Len(host) : rest[i] \notin {"/", ":"}
  BY <1>2 DEF IsHost
<1> DEFINE n == Len(host) + Len(p)
<1>5. n \in Nat /\ Len(rest) = n + Len(file) /\ Len(rest) \in Nat
  BY <1>1, <1>2
<1>6. \A i \in 1..n : rest[i] # "/"
  <2> SUFFICES ASSUME NEW i \in 1..n PROVE rest[i] # "/"
    OBVIOUS
  <2>1. CASE i <= Len(host)
    <3>1. i \in 1..Len(host)
      BY <1>1, <2>1
    <3> QED
      BY <1>4, <3>1
  <2>2. CASE ~(i <= Len(host))
    <3>1. i - Len(host) \in 1..Len(p) /\ i = Len(host) + (i - Len(host))
      BY <1>1, <2>2
    <3>2. p[i - Len(host)] # "/"
      BY <3>1, ColonIs DEF p
    <3> QED
      BY <1>2, <3>1, <3>2
  <2> QED
    BY <2>1, <2>2
<1>7. slash = n + 1
  <2>1. n + 1 \in 1..(Len(rest) + 1) /\ (n + 1) - 1 = n
    BY <1>1, <1>5
  <2>2. n + 1 <= Len(rest) => rest[n + 1] = "/"
    <3> SUFFICES ASSUME n + 1 <= Len(rest) PROVE rest[n + 1] = "/"
      OBVIOUS
    <3>1. file # <<>> /\ 1 \in 1..Len(file)
      BY <1>1, <1>5, EmptySeq
    <3> QED
      BY <1>2, <3>1 DEF IsFile
  <2> DEFINE m == n + 1
  <2>3. \A j \in 1..(m - 1) : rest[j] # "/"
    BY <1>6, <2>1
  <2>4. m \in 1..(Len(rest) + 1)
    BY <2>1
  <2>5. m <= Len(rest) => rest[m] = "/"
    BY <2>2
  <2> HIDE DEF m
  <2>6. Find(rest, "/") = m
    BY <1>2, <2>3, <2>4, <2>5, FindIs
  <2> QED
    BY <2>6 DEF m
<1>8. SubSeq(rest, 1, Len(host)) = host
  <2>1. 0 + Len(host) <= Len(rest) /\ \A i \in 1..Len(host) : rest[0 + i] = host[i]
    BY <1>1, <1>2
  <2>2. SubSeq(rest, 0 + 1, 0 + Len(host)) = host
    BY <1>1, <1>2, <2>1, PartIs
  <2> QED
    BY <1>1, <2>2
<1>9. IF slash > Len(rest) THEN file = <<>> ELSE file # <<>> /\ SubSeq(rest, slash, Len(rest)) = file
  <2>1. CASE file = <<>>
    <3>1. Len(file) = 0
      BY <2>1
    <3> QED
      BY <1>5, <1>7, <2>1, <3>1
  <2>2. CASE file # <<>>
    <3>1. ~(slash > Len(rest))
      BY <1>1, <1>5, <1>7, <2>2
    <3>2. n + Len(file) <= Len(rest) /\ \A i \in 1..Len(file) : rest[n + i] = file[i]
      BY <1>1, <1>2
    <3>3. SubSeq(rest, n + 1, n + Len(file)) = file
      <4> HIDE DEF n
      <4> QED
        BY <1>1, <1>2, <1>5, <3>2, PartIs
    <3> QED
      BY <1>5, <1>7, <2>2, <3>1, <3>3
  <2> QED
    BY <2>1, <2>2
<1>10. /\ number = IF port = <<>> THEN DefaultPort ELSE NumberOf(port)
       /\ Min({slash, colon}) = Len(host) + 1
  <2>1. CASE port = <<>>
    <3>1. Len(p) = 0 /\ n = Len(host)
      BY <1>1, <2>1, ColonIs DEF p
    <3>2. colon \in (n + 1)..(Len(rest) + 1)
      <4> DEFINE m == n + 1
      <4>1. m \in 1..(Len(rest) + 1) /\ m - 1 = n
        BY <1>1, <1>5
      <4>2. \A j \in 1..(m - 1) : rest[j] # ":"
        BY <1>4, <3>1, <4>1
      <4> HIDE DEF m
      <4>3. colon \in m..(Len(rest) + 1)
        BY <1>2, <4>1, <4>2, FindIsBehind
      <4> QED
        BY <4>3 DEF m
    <3> HIDE DEF colon, slash
    <3>3. ~(colon < slash) /\ slash <= colon /\ slash \in Nat /\ colon \in Nat
      BY <1>5, <1>7, <3>2
    <3>4. Min({slash, colon}) = slash
      BY <3>3, MinIs
    <3> QED
      BY <1>7, <2>1, <3>1, <3>3, <3>4
  <2>2. CASE port # <<>>
    <3>1. /\ IsPort(port) /\ NumberOf(port) \in 1..MaxPort
          /\ Len(p) = Len(port) + 1 /\ p[1] = ":"
          /\ \A i \in 1..Len(port) : p[1 + i] = port[i]
      BY <2>2, ColonIs DEF p
    <3> DEFINE m == Len(host) + 1
    <3>2. m \in Nat /\ m <= Len(rest) /\ m < n + 1 /\ n = m + Len(port)
      BY <1>1, <1>2, <2>2, <3>1
    <3>3. colon = m
      <4>1. \A j \in 1..(m - 1) : rest[j] # ":"
        BY <1>1, <1>4
      <4>2. rest[m] = ":"
        <5>1. 1 \in 1..Len(p)
          BY <1>1, <2>2, <3>1
        <5> QED
          BY <1>2, <3>1, <5>1
      <4>3. m \in 1..(Len(rest) + 1)
        BY <1>1, <1>5, <3>2
      <4> HIDE DEF m
      <4> QED
        BY <1>2, <4>1, <4>2, <4>3, FindIs
    <3>4. SubSeq(rest, colon + 1, slash - 1) = port
      <4>1. \A i \in 1..Len(port) : rest[m + i] = port[i]
        <5> SUFFICES ASSUME NEW i \in 1..Len(port) PROVE rest[m + i] = port[i]
          OBVIOUS
        <5>1. 1 + i \in 1..Len(p) /\ m + i = Len(host) + (1 + i)
          BY <1>1, <2>2, <3>1
        <5> QED
          BY <1>2, <3>1, <5>1
      <4>2. slash - 1 = m + Len(port)
        BY <1>5, <1>7, <3>2
      <4>3. port \in Seq(Tokens)
        BY <3>1, TextsAreTokens DEF IsPort
      <4>4. m + Len(port) <= Len(rest)
        BY <1>1, <1>5, <3>2
      <4> HIDE DEF m, n, colon, slash
      <4>5. SubSeq(rest, m + 1, m + Len(port)) = port
        BY <1>2, <3>2, <4>1, <4>3, <4>4, PartIs
      <4> QED
        BY <3>3, <4>2, <4>5
    <3> HIDE DEF colon, slash
    <3>5. colon < slash /\ slash \in Nat /\ colon \in Nat
      BY <1>5, <1>7, <3>2, <3>3
    <3>6. Min({slash, colon}) = colon
      BY <3>5, MinIs
    <3>7. Str2Integer(port, MaxPort) = NumberOf(port)
      BY <3>1, PortIsRead DEF IsPort
    <3>8. number = NumberOf(port)
      BY <3>4, <3>5, <3>7
    <3> QED
      BY <2>2, <3>3, <3>6, <3>8
  <2> QED
    BY <2>1, <2>2
<1>11. number # NoNumber
  <2>1. number \in Nat
    <3>1. \A k \in 1..MaxPort : k \in Nat
      OBVIOUS
    <3> HIDE DEF number
    <3> QED
      BY <1>10, <3>1 DEF DefaultPort
  <2>2. NoNumber \notin Nat
    BY DEF NoNumber
  <2> QED
    BY <2>1, <2>2
<1>12. (Len(host) + 1) - 1 = Len(host)
  BY <1>1
<1>13. Parse(raw) = [site |-> SubSeq(rest, 1, Min({slash, colon}) - 1),
                     port |-> number,
                     file |-> IF slash > Len(rest) THEN <<"/">> ELSE SubSeq(rest, slash, Len(rest))]
  BY <1>3, <1>11 DEF Parse
<1> HIDE DEF slash, colon, number
<1>14. Parse(raw) = [site |-> host,
                     port |-> IF port = <<>> THEN DefaultPort ELSE NumberOf(port),
                     file |-> IF file = <<>> THEN <<"/">> ELSE file]
  BY <1>8, <1>9, <1>10, <1>12, <1>13
<1> QED
  BY <1>14 DEF raw, rest, s, p

\* The canonical text names one site, port and file.
IsUrl(u) ==
    /\ IsHost(u.site) /\ u.port \in 1..MaxPort
    /\ u.file \in Seq(Tokens) /\ u.file # <<>> /\ u.file[1] = "/"
PortText(n) == IF n \in {0, DefaultPort} THEN <<>> ELSE <<":">> \o Integer2Str[n]

LEMMA PortTextIs ==
    ASSUME NEW n \in 1..MaxPort
    PROVE  /\ PortText(n) \in Seq(Tokens)
           /\ \A i \in 1..Len(PortText(n)) : PortText(n)[i] # "/"
           /\ PortText(n) # <<>> => PortText(n)[1] = ":"
<1>1. n \in Nat
  BY DEF MaxPort
<1> DEFINE port == IF n \in {0, DefaultPort} THEN <<>> ELSE Integer2Str[n]
<1>2. Integer2Str[n] \in Seq(DigitSet) /\ Integer2Str[n] # <<>>
  <2>1. Integer2Str[n] \in Seq(DigitSet) /\ Len(Integer2Str[n]) > 0
    BY <1>1, NumbersAreTexts
  <2> QED
    BY <2>1, EmptySeq
<1>3. port = <<>> \/ IsPort(port)
  BY <1>2 DEF IsPort
<1>4. PortText(n) = Colon(port)
  BY <1>2 DEF PortText, Colon
<1> HIDE DEF port
<1>5. Colon(port) # <<>> => port # <<>>
  BY DEF Colon
<1> QED
  BY <1>3, <1>4, <1>5, ColonIs

LEMMA PortTextsDiffer ==
    ASSUME NEW n \in 1..MaxPort, NEW k \in 1..MaxPort, PortText(n) = PortText(k)
    PROVE  n = k
<1>1. n \in Nat /\ k \in Nat /\ n # 0 /\ k # 0
  BY MaxPortIs
<1>2. /\ Integer2Str[n] \in Seq(DigitSet) /\ Integer2Str[k] \in Seq(DigitSet)
  BY <1>1, NumbersAreTexts
<1>3. ASSUME NEW text \in Seq(DigitSet) PROVE <<":">> \o text # <<>> /\ Tail(<<":">> \o text) = text
  <2>1. text \in Seq(Tokens) /\ ":" \in Tokens
    BY TextsAreTokens DEF Tokens
  <2> HIDE DEF Tokens
  <2>2. Tail(<<":">> \o text) = text /\ Len(<<":">> \o text) = Len(text) + 1
    BY <2>1, TailIs
  <2>3. Len(text) \in Nat
    BY LenProperties
  <2> DEFINE t == <<":">> \o text
  <2>4. Len(t) > 0
    BY <2>2, <2>3
  <2>5. t # <<>>
    <3> HIDE DEF t
    <3> QED
      BY <2>4, EmptySeq
  <2> QED
    BY <2>2, <2>5
<1>4. n = DefaultPort <=> PortText(n) = <<>>
  BY <1>1, <1>2, <1>3 DEF PortText
<1>5. k = DefaultPort <=> PortText(k) = <<>>
  BY <1>1, <1>2, <1>3 DEF PortText
<1>6. CASE n # DefaultPort
  <2>1. PortText(n) = <<":">> \o Integer2Str[n] /\ PortText(k) = <<":">> \o Integer2Str[k]
    BY <1>1, <1>4, <1>5, <1>6 DEF PortText
  <2>2. Tail(<<":">> \o Integer2Str[n]) = Tail(<<":">> \o Integer2Str[k])
    BY <2>1
  <2>3. Integer2Str[n] = Integer2Str[k]
    BY <1>2, <1>3, <2>2
  <2> QED
    BY <1>1, <2>3, NumbersDiffer
<1> QED
  BY <1>4, <1>5, <1>6

LEMMA CanonicalIs ==
    ASSUME NEW u, IsUrl(u)
    PROVE  /\ Canonical(u) = <<"http://">> \o (u.site \o (PortText(u.port) \o u.file))
           /\ u.site \in Seq(Tokens) /\ PortText(u.port) \o u.file \in Seq(Tokens)
           /\ PortText(u.port) \o u.file # <<>>
           /\ (PortText(u.port) \o u.file)[1] \in {"/", ":"}
<1> DEFINE h == <<"http://">>
           a == u.site
           b == PortText(u.port)
           c == u.file
           q == b \o c
<1>1. h \in Seq(Tokens) /\ a \in Seq(Tokens) /\ b \in Seq(Tokens) /\ c \in Seq(Tokens)
  BY TextsAreTokens, PortTextIs DEF IsUrl, IsHost
<1>2. Canonical(u) = ((h \o a) \o b) \o c
  BY DEF Canonical, PortText
<1>3. b # <<>> => b[1] = ":"
  BY PortTextIs DEF IsUrl
<1>4. c # <<>> /\ c[1] = "/"
  BY DEF IsUrl
<1>5. q = b \o c
  OBVIOUS
<1> HIDE DEF h, a, b, c, q
<1>6. q \in Seq(Tokens)
  BY <1>1, <1>5, TwoAre
<1>7. Canonical(u) = h \o (a \o q)
  <2> DEFINE s == h \o a
  <2>1. s \in Seq(Tokens)
    BY <1>1, ConcatProperties
  <2>2. (s \o b) \o c = s \o (b \o c)
    <3>1. s \in Seq(Tokens) /\ b \in Seq(Tokens) /\ c \in Seq(Tokens)
      BY <1>1, <2>1
    <3> HIDE DEF s
    <3> QED
      BY ONLY <3>1, ConcatAssociative
  <2>3. s \o q = h \o (a \o q)
    <3>1. h \in Seq(Tokens) /\ a \in Seq(Tokens) /\ q \in Seq(Tokens)
      BY <1>1, <1>6
    <3> QED
      BY ONLY <3>1, ConcatAssociative DEF s
  <2> QED
    BY <1>2, <1>5, <2>2, <2>3
<1>8. q # <<>> /\ q[1] \in {"/", ":"}
  <2>1. Len(b) \in Nat /\ Len(c) \in Nat \ {0} /\ (b # <<>> => Len(b) # 0)
    BY <1>1, <1>4, LenProperties, EmptySeq
  <2>2. /\ Len(q) = Len(b) + Len(c)
        /\ \A i \in 1..Len(b) : q[i] = b[i]
        /\ \A i \in 1..Len(c) : q[Len(b) + i] = c[i]
    <3>1. b \in Seq(Tokens) /\ c \in Seq(Tokens)
      BY <1>1
    <3>2. Len(q) = Len(b) + Len(c) /\ \A i \in 1..Len(b) : q[i] = b[i]
      BY <1>5, <3>1, TwoAre
    <3>3. \A i \in 1..Len(c) : q[Len(b) + i] = c[i]
      BY <1>5, <3>1, TwoAre
    <3> QED
      BY <3>2, <3>3
  <2>3. q # <<>>
    <3>1. Len(q) # 0
      BY <2>1, <2>2
    <3> QED
      BY <3>1
  <2>4. CASE b = <<>>
    <3>1. Len(b) = 0 /\ 1 \in 1..Len(c) /\ Len(b) + 1 = 1
      BY <2>1, <2>4
    <3> QED
      BY <1>4, <2>2, <2>3, <3>1
  <2>5. CASE b # <<>>
    <3>1. 1 \in 1..Len(b)
      BY <2>1, <2>5
    <3> QED
      BY <1>3, <2>2, <2>3, <2>5, <3>1
  <2> QED
    BY <2>4, <2>5
<1> QED
  BY <1>1, <1>5, <1>6, <1>7, <1>8 DEF h, a, b, c, q

LEMMA CanonicalsDiffer ==
    ASSUME NEW u, NEW v, IsUrl(u), IsUrl(v), Canonical(u) = Canonical(v)
    PROVE  u.site = v.site /\ u.port = v.port /\ u.file = v.file
<1> DEFINE q == PortText(u.port) \o u.file
           r == PortText(v.port) \o v.file
<1>1. /\ Canonical(u) = <<"http://">> \o (u.site \o q) /\ Canonical(v) = <<"http://">> \o (v.site \o r)
      /\ u.site \in Seq(Tokens) /\ v.site \in Seq(Tokens) /\ q \in Seq(Tokens) /\ r \in Seq(Tokens)
      /\ q # <<>> /\ r # <<>> /\ q[1] \in {"/", ":"} /\ r[1] \in {"/", ":"}
  BY CanonicalIs
<1> HIDE DEF q, r
<1>2. u.site \o q = v.site \o r
  <2> DEFINE s == u.site \o q
             t == v.site \o r
  <2>1. s \in Seq(Tokens) /\ t \in Seq(Tokens)
    BY <1>1, ConcatProperties
  <2>2. "http://" \in Tokens
    BY DEF Tokens
  <2>3. <<"http://">> \o s = <<"http://">> \o t
    BY <1>1
  <2> HIDE DEF s, t, Tokens
  <2>4. Tail(<<"http://">> \o s) = s /\ Tail(<<"http://">> \o t) = t
    BY <2>1, <2>2, TailIs
  <2>5. s = t
    BY <2>3, <2>4
  <2> QED
    BY <2>5 DEF s, t
<1>3. u.site = v.site /\ q = r
  <2> DEFINE C == {"/", ":"}
             a == u.site
             b == v.site
  <2>1. /\ a \in Seq(Tokens) /\ b \in Seq(Tokens) /\ q[1] \in C /\ r[1] \in C /\ a \o q = b \o r
        /\ \A i \in 1..Len(a) : a[i] \notin C
        /\ \A i \in 1..Len(b) : b[i] \notin C
    BY <1>1, <1>2 DEF IsUrl, IsHost
  <2> HIDE DEF C, a, b
  <2>2. a = b /\ q = r
    BY <1>1, <2>1, DividedAlike
  <2> QED
    BY <2>2 DEF a, b
<1>4. PortText(u.port) = PortText(v.port) /\ u.file = v.file
  <2> DEFINE C == {"/"}
             a == PortText(u.port)
             b == PortText(v.port)
             c == u.file
             d == v.file
  <2>1. /\ a \in Seq(Tokens) /\ b \in Seq(Tokens)
        /\ \A i \in 1..Len(a) : a[i] \notin C
        /\ \A i \in 1..Len(b) : b[i] \notin C
    BY PortTextIs DEF IsUrl
  <2>2. /\ c \in Seq(Tokens) /\ d \in Seq(Tokens) /\ c # <<>> /\ d # <<>> /\ c[1] \in C /\ d[1] \in C
        /\ a \o c = b \o d
    BY <1>3 DEF IsUrl, q, r
  <2> HIDE DEF C, a, b, c, d
  <2>3. a = b /\ c = d
    BY <2>1, <2>2, DividedAlike
  <2> QED
    BY <2>3 DEF a, b, c, d
<1>5. u.port = v.port
  BY <1>4, PortTextsDiffer DEF IsUrl
<1> QED
  BY <1>3, <1>4, <1>5

LEMMA ResourceIs ==
    ASSUME NEW f \in Forms
    PROVE  LET r == Resource(f)
               u == Parse(Write(f))
           IN  /\ IsUrl(u) /\ u.site = r.host /\ u.port = r.port /\ u.file = r.file
               /\ r = [host |-> r.host, port |-> r.port, file |-> r.file]
<1> DEFINE host == f.host
           port == f.port
           file == f.file
<1>1. host \in Hosts /\ port \in Ports /\ file \in Files
  BY DEF Forms
<1>2. IsHost(host)
  <2>1. host \in Seq(STRING) /\ host # <<>> /\ \A i \in DOMAIN host : host[i] \notin {"/", ":"}
    BY <1>1, HostsType
  <2>2. host \in Seq(Tokens)
    BY <2>1, TextsAreTokens
  <2>3. DOMAIN host = 1..Len(host)
    BY <2>1, LenProperties
  <2> QED
    BY <2>1, <2>2, <2>3 DEF IsHost
<1>3. /\ port = <<>> \/ IsPort(port)
      /\ port # <<>> => NumberOf(port) \in 1..MaxPort
  BY <1>1, PortsType DEF IsPort, DigitSet
<1>4. IsFile(file)
  <2>1. file \in Seq(STRING) /\ (file # <<>> => Head(file) = "/")
    BY <1>1, FilesType
  <2>2. file \in Seq(Tokens) /\ Head(file) = file[1]
    BY <2>1, TextsAreTokens
  <2> QED
    BY <2>1, <2>2 DEF IsFile
<1> DEFINE h == <<"http://">>
           p == Colon(port)
<1>5. Write(f) = h \o (host \o p \o file)
  <2>1. Write(f) = ((h \o host) \o p) \o file
    BY DEF Write, Colon
  <2>2. h \in Seq(Tokens) /\ host \in Seq(Tokens) /\ p \in Seq(Tokens) /\ file \in Seq(Tokens)
    BY <1>2, <1>3, <1>4, TextsAreTokens, ColonIs DEF IsHost, IsFile
  <2> HIDE DEF h, host, p, file
  <2> DEFINE s == host \o p
  <2>3. s \in Seq(Tokens)
    BY <2>2, ConcatProperties
  <2>4. (h \o host) \o p = h \o s
    BY <2>2, ConcatAssociative
  <2>5. (h \o s) \o file = h \o (s \o file)
    <3> HIDE DEF s
    <3> QED
      BY <2>2, <2>3, ConcatAssociative
  <2> QED
    BY <2>1, <2>4, <2>5
<1>6. Parse(Write(f)) = [site |-> host,
                         port |-> IF port = <<>> THEN DefaultPort ELSE NumberOf(port),
                         file |-> IF file = <<>> THEN <<"/">> ELSE file]
  <2> HIDE DEF host, port, file
  <2> QED
    BY <1>2, <1>3, <1>4, <1>5, ParseIs
<1>7. Resource(f) = [host |-> host,
                     port |-> IF port = <<>> THEN DefaultPort ELSE NumberOf(port),
                     file |-> IF file = <<>> THEN <<"/">> ELSE file]
  BY DEF Resource
<1> DEFINE n == IF port = <<>> THEN DefaultPort ELSE NumberOf(port)
           g == IF file = <<>> THEN <<"/">> ELSE file
<1>8. n \in 1..MaxPort
  <2>1. DefaultPort \in 1..MaxPort
    BY DEF DefaultPort, MaxPort
  <2> QED
    BY <1>3, <2>1
<1>9. g \in Seq(Tokens) /\ g # <<>> /\ g[1] = "/"
  <2>1. <<"/">> \in Seq(Tokens) /\ <<"/">> # <<>> /\ <<"/">>[1] = "/"
    BY TextsAreTokens
  <2> QED
    BY <1>4, <2>1 DEF IsFile
<1> HIDE DEF host, port, file, n, g
<1>10. IsUrl([site |-> host, port |-> n, file |-> g])
  BY <1>2, <1>8, <1>9 DEF IsUrl
<1> QED
  BY <1>6, <1>7, <1>10 DEF n, g

LEMMA NamesAreResources ==
    \A p, q \in Named : p[1] = q[1] <=> p[2] = q[2]
<1> SUFFICES ASSUME NEW f \in Forms, NEW g \in Forms
             PROVE  Canonical(Parse(Write(f))) = Canonical(Parse(Write(g)))
                      <=> Resource(f) = Resource(g)
  BY DEF Named
<1> DEFINE u == Parse(Write(f))
           v == Parse(Write(g))
           r == Resource(f)
           s == Resource(g)
<1>1. /\ IsUrl(u) /\ u.site = r.host /\ u.port = r.port /\ u.file = r.file
      /\ r = [host |-> r.host, port |-> r.port, file |-> r.file]
  BY ResourceIs
<1>2. /\ IsUrl(v) /\ v.site = s.host /\ v.port = s.port /\ v.file = s.file
      /\ s = [host |-> s.host, port |-> s.port, file |-> s.file]
  BY ResourceIs
<1> HIDE DEF u, v, r, s
<1>3. ASSUME Canonical(u) = Canonical(v) PROVE r = s
  <2>1. u.site = v.site /\ u.port = v.port /\ u.file = v.file
    BY <1>1, <1>2, <1>3, CanonicalsDiffer
  <2> QED
    BY <1>1, <1>2, <2>1
<1>4. ASSUME r = s PROVE Canonical(u) = Canonical(v)
  <2>1. u.site = v.site /\ u.port = v.port /\ u.file = v.file
    BY <1>1, <1>2, <1>4
  <2> QED
    BY <2>1 DEF Canonical
<1> QED
  BY <1>3, <1>4 DEF u, v, r, s

\* get_md5 of url.cc: two urls have one canonical text, and with it one MD5, one
\* thread in each stage and one place in the caches, if and only if they name one
\* resource: for any hosts, any way to write a port, any files.
THEOREM KeysNameResources == Spec => []KeysAreResources
<1>1. KeysAreResources
  BY NamesAreResources DEF KeysAreResources
<1> QED
  BY <1>1, PTL
===============================================================================
