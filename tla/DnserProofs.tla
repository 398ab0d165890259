------------------------------ MODULE DnserProofs ------------------------------
(***************************************************************************)
(* Theorems about the dnsers, for any threads, urls, sites, answers and    *)
(* bound on aliases: their types, the life of the contexts given to adns,  *)
(* the addresses of the urls they pass on, and that they are a stage: no   *)
(* url is lost, doubled or taken back on the way.                          *)
(***************************************************************************)
EXTENDS Dnser, FiniteSetTheorems, TLAPS

\* A dnser past the queue has a url in hand; one that delivers has a site.
AtHand ==
    \A d \in Dnsers :
        /\ pc[d] \in {"find", "put", "enlist"} => cur[d] \in Urls
        /\ pc[d] = "deliver" => site[d] \in Sites

\* The entry whose urls are being handed over belongs to no query: the answer that
\* came was the only one.
AnswerIsLast ==
    \A d \in Dnsers : pc[d] = "deliver" => asked[d][site[d]] = 0

\* Urls wait in the entry of their own site.
EntriesOfSite ==
    \A d \in Dnsers, s \in Sites : \A n \in 1..Len(table[d][s]) :
        SiteOf[table[d][s][n]] = s

\* Addresses are those of the site they are kept for, in the cache and in hand.
CacheIsRight == \A s \in Sites : cache[s] # {} => cache[s] \in Answers[s]
FoundIsRight ==
    \A d \in Dnsers :
        /\ pc[d] = "put" => found[d] \in Answers[SiteOf[cur[d]]]
        /\ pc[d] = "deliver" => found[d] \in Answers[site[d]]

Contexts == AnswerIsLast /\ ContextIsLive
Addresses == EntriesOfSite /\ CacheIsRight /\ FoundIsRight /\ HandedOverResolved
IInv == TypeOK /\ AtHand /\ Contexts /\ Addresses

-------------------------------------------------------------------------------
(* Sequences and their elements. *)

LEMMA HeadIsElement ==
    ASSUME NEW S, NEW seq \in Seq(S), seq # <<>>
    PROVE  Head(seq) \in S /\ Tail(seq) \in Seq(S)
OBVIOUS

LEMMA AppendedElements ==
    ASSUME NEW S, NEW seq \in Seq(S), NEW x \in S
    PROVE  /\ Append(seq, x) \in Seq(S)
           /\ Elements(Append(seq, x)) = Elements(seq) \cup {x}
           /\ Append(seq, x) # <<>>
<1>1. Len(Append(seq, x)) = Len(seq) + 1 /\ Len(seq) \in Nat
      /\ Append(seq, x)[Len(seq) + 1] = x
  OBVIOUS
<1>2. \A i \in 1..Len(seq) : Append(seq, x)[i] = seq[i]
  OBVIOUS
<1> QED
  BY <1>1, <1>2 DEF Elements

LEMMA InitHolds == Init => IInv
<1> SUFFICES ASSUME Init PROVE IInv
  OBVIOUS
<1> USE DEF Init
<1>1. TypeOK
  BY SeedsAreUrls, SitesAreNames DEF TypeOK
<1>2. AtHand /\ Contexts
  BY DEF AtHand, Contexts, AnswerIsLast, ContextIsLive
<1>3. EntriesOfSite /\ CacheIsRight /\ FoundIsRight
  BY DEF EntriesOfSite, CacheIsRight, FoundIsRight
<1>4. HandedOverResolved
  BY DEF HandedOverResolved, Elements
<1> QED
  BY <1>1, <1>2, <1>3, <1>4 DEF IInv, Addresses

-------------------------------------------------------------------------------
(* Types. *)

LEMMA UpdateKeepsType ==
    ASSUME NEW D, NEW E, NEW R, NEW f \in [D -> [E -> R]],
           NEW d \in D, NEW e \in E, NEW v \in R
    PROVE  [f EXCEPT ![d][e] = v] \in [D -> [E -> R]]
<1>1. [f[d] EXCEPT ![e] = v] \in [E -> R]
  OBVIOUS
<1> QED
  BY <1>1

LEMMA HandOverKeepsTypes ==
    ASSUME TypeOK, NEW u \in Urls, NEW addrs \in SUBSET Ips, HandOver(u, addrs)
    PROVE  /\ schedq' \in [Schedulers -> Seq(Urls)]
           /\ status' \in [Urls -> {"INITIALIZED", "DNSED"}]
           /\ ips' \in [Urls -> SUBSET Ips]
BY TargetType, AppendedElements DEF HandOver, TypeOK

LEMMA SubmitKeepsTypes ==
    ASSUME TypeOK, NEW d \in Dnsers, NEW s \in Sites, NEW n \in Nat, SubmitOnce(d, s, n)
    PROVE  asked' \in [Dnsers -> [Sites -> Nat]]
<1>1. asked \in [Dnsers -> [Sites -> Nat]] /\ n + 1 \in Nat
  BY DEF TypeOK
<1>2. [asked EXCEPT ![d][s] = n + 1] \in [Dnsers -> [Sites -> Nat]]
  BY <1>1, UpdateKeepsType
<1>3. [asked EXCEPT ![d][s] = n] \in [Dnsers -> [Sites -> Nat]]
  BY <1>1, UpdateKeepsType
<1> QED
  BY <1>2, <1>3 DEF SubmitOnce

LEMMA StepKeepsTypes ==
    ASSUME IInv, [Next]_vars
    PROVE  TypeOK'
<1> USE DEF IInv
<1>1. CASE UNCHANGED vars
  BY <1>1 DEF vars, dnserVars, TypeOK
<1>2. CASE Deal
  <2>1. Head(coming) \in Urls /\ coming' \in Seq(Urls)
    BY <1>2, HeadIsElement DEF Deal, TypeOK
  <2>2. Home[Head(coming)] \in Dnsers
    BY <2>1, HomeType
  <2> QED
    BY <1>2, <2>1, <2>2, AppendedElements DEF Deal, TypeOK
<1>3. ASSUME NEW d \in Dnsers, Running, Loop(d)
      PROVE  TypeOK'
  <2>0. coming' = coming
    BY <1>3 DEF Running
  <2>1. CASE Fetch(d)
    <3>1. Head(dnsq[d]) \in Urls /\ Tail(dnsq[d]) \in Seq(Urls)
      BY <2>1, HeadIsElement DEF Fetch, TypeOK
    <3>2. dnsq' \in [Dnsers -> Seq(Urls)]
      BY <2>1, <3>1 DEF Fetch, TypeOK
    <3>3. CASE status[Head(dnsq[d])] = "INITIALIZED"
      BY <2>0, <2>1, <3>1, <3>2, <3>3 DEF Fetch, Goto, TypeOK
    <3>4. CASE status[Head(dnsq[d])] # "INITIALIZED"
      <4>1. dropped' = dropped \cup {Head(dnsq[d])} /\ cur' = cur /\ Goto(d, "check")
        BY <2>1, <3>4 DEF Fetch
      <4>2. dropped' \in SUBSET Urls
        BY <3>1, <4>1 DEF TypeOK
      <4> QED
        BY <2>0, <2>1, <3>2, <4>1, <4>2 DEF Fetch, Goto, TypeOK
    <3> QED
      BY <3>3, <3>4
  <2>2. CASE TryPopFails(d) \/ FindMiss(d) \/ CheckNothing(d)
    BY <2>0, <2>2 DEF TryPopFails, FindMiss, CheckNothing, Goto, TypeOK
  <2>3. CASE FindHit(d)
    <3>1. cur[d] \in Urls /\ SiteOf[cur[d]] \in Sites
      BY <2>3, SiteOfType DEF FindHit, AtHand
    <3> QED
      BY <2>0, <2>3, <3>1 DEF FindHit, Goto, TypeOK
  <2>4. CASE Put(d)
    <3>1. cur[d] \in Urls /\ found[d] \in SUBSET Ips
      BY <2>4 DEF Put, AtHand, TypeOK
    <3> QED
      BY <2>0, <2>4, <3>1, HandOverKeepsTypes DEF Put, Goto, TypeOK
  <2>5. CASE EnlistFirst(d)
    <3>1. cur[d] \in Urls /\ SiteOf[cur[d]] \in Sites
      BY <2>5, SiteOfType DEF EnlistFirst, AtHand
    <3>2. asked' \in [Dnsers -> [Sites -> Nat]]
      <4>1. SubmitOnce(d, SiteOf[cur[d]], asked[d][SiteOf[cur[d]]])
        BY <2>5 DEF EnlistFirst
      <4>2. asked[d][SiteOf[cur[d]]] \in Nat
        BY <3>1 DEF TypeOK
      <4> QED
        BY <3>1, <4>1, <4>2, SubmitKeepsTypes
    <3>3. <<cur[d]>> \in Seq(Urls)
      BY <3>1
    <3>4. name' \in [Dnsers -> [Sites -> Names]]
      BY <2>5, <3>1, SitesAreNames, UpdateKeepsType DEF EnlistFirst, TypeOK
    <3> QED
      BY <2>0, <2>5, <3>1, <3>2, <3>3, <3>4 DEF EnlistFirst, Goto, TypeOK
  <2>6. CASE EnlistLater(d)
    <3>1. cur[d] \in Urls /\ SiteOf[cur[d]] \in Sites
      BY <2>6, SiteOfType DEF EnlistLater, AtHand
    <3>2. Append(table[d][SiteOf[cur[d]]], cur[d]) \in Seq(Urls)
      BY <3>1 DEF TypeOK
    <3> QED
      BY <2>0, <2>6, <3>1, <3>2 DEF EnlistLater, Goto, TypeOK
  <2>7. CASE Deliver(d)
    <3>1. site[d] \in Sites /\ found[d] \in SUBSET Ips
      BY <2>7 DEF Deliver, AtHand, TypeOK
    <3>2. table[d][site[d]][next[d] + 1] \in Urls
      BY <2>7, <3>1 DEF Deliver, TypeOK
    <3> QED
      BY <2>0, <2>7, <3>1, <3>2, HandOverKeepsTypes DEF Deliver, TypeOK
  <2>8. CASE Store(d)
    <3>1. site[d] \in Sites
      BY <2>8 DEF Store, AtHand
    <3> QED
      BY <2>0, <2>8, <3>1 DEF Store, Goto, TypeOK
  <2> QED
    BY <1>3, <2>1, <2>2, <2>3, <2>4, <2>5, <2>6, <2>7, <2>8 DEF Loop
<1>4. ASSUME NEW d \in Dnsers, NEW s \in Sites, Running, Answer(d, s)
      PROVE  TypeOK'
  <2>0. coming' = coming /\ asked[d][s] \in Nat /\ asked[d][s] - 1 \in Nat
    BY <1>4 DEF Running, Answer, Answered, CheckOk, CheckCname, CheckFail, TypeOK
  <2>1. CASE CheckOk(d, s)
    <3>1. PICK addrs \in Answers[s] : found' = [found EXCEPT ![d] = addrs]
      BY <2>1 DEF CheckOk
    <3>2. addrs \in SUBSET Ips
      BY <3>1, AnswersType
    <3> QED
      BY <2>0, <2>1, <3>1, <3>2 DEF CheckOk, Goto, TypeOK
  <2>2. CASE CheckCname(d, s)
    <3>1. asked' \in [Dnsers -> [Sites -> Nat]]
      BY <2>0, <2>2, SubmitKeepsTypes DEF CheckCname
    <3>2. PICK alias \in Aliases[name[d][s]] : name' = [name EXCEPT ![d][s] = alias]
      BY <2>2 DEF CheckCname
    <3>3. name' \in [Dnsers -> [Sites -> Names]]
      <4>1. name \in [Dnsers -> [Sites -> Names]] /\ alias \in Names
        BY <3>2, AliasesType DEF TypeOK
      <4> QED
        BY <3>2, <4>1, UpdateKeepsType
    <3> QED
      BY <2>0, <2>2, <3>1, <3>3 DEF CheckCname, Goto, TypeOK
  <2>3. CASE CheckFail(d, s)
    <3>1. Elements(table[d][s]) \subseteq Urls
      BY DEF TypeOK, Elements
    <3> QED
      BY <2>0, <2>3, <3>1 DEF CheckFail, Goto, TypeOK
  <2> QED
    BY <1>4, <2>1, <2>2, <2>3 DEF Answer
<1> QED
  BY <1>1, <1>2, <1>3, <1>4 DEF Next

-------------------------------------------------------------------------------
(* What a dnser has at hand, and the contexts. *)

\* Steps of one dnser leave the others' hands alone.
LEMMA StepKeepsHands ==
    ASSUME IInv, [Next]_vars
    PROVE  AtHand'
<1> USE DEF IInv
<1>1. CASE UNCHANGED vars
  BY <1>1 DEF vars, dnserVars, AtHand
<1>2. CASE Deal
  BY <1>2 DEF Deal, AtHand
<1>3. ASSUME NEW d \in Dnsers, Loop(d)
      PROVE  AtHand'
  <2>1. CASE Fetch(d)
    <3>1. Head(dnsq[d]) \in Urls
      BY <2>1, HeadIsElement DEF Fetch, TypeOK
    <3> QED
      BY <2>1, <3>1 DEF Fetch, Goto, TypeOK, AtHand
  <2>2. CASE TryPopFails(d) \/ FindHit(d) \/ FindMiss(d) \/ CheckNothing(d)
    BY <2>2 DEF TryPopFails, FindHit, FindMiss, CheckNothing, Goto, TypeOK, AtHand
  <2>3. CASE Put(d) \/ EnlistFirst(d) \/ EnlistLater(d)
    BY <2>3 DEF Put, EnlistFirst, EnlistLater, Goto, TypeOK, AtHand
  <2>4. CASE Deliver(d) \/ Store(d)
    BY <2>4 DEF Deliver, Store, Goto, TypeOK, AtHand
  <2> QED
    BY <1>3, <2>1, <2>2, <2>3, <2>4 DEF Loop
<1>4. ASSUME NEW d \in Dnsers, NEW s \in Sites, Answer(d, s)
      PROVE  AtHand'
  BY <1>4 DEF Answer, CheckOk, CheckCname, CheckFail, Goto, TypeOK, AtHand
<1> QED
  BY <1>1, <1>2, <1>3, <1>4 DEF Next

\* A query is sent when there is none for the entry, whether adns takes it or not.
LEMMA SubmitKeepsContexts ==
    ASSUME TypeOK, ContextIsLive, NEW d \in Dnsers, NEW s \in Sites,
           SubmitOnce(d, s, 0), table'[d][s] # <<>>,
           \A c \in Dnsers, r \in Sites :
               <<c, r>> # <<d, s>> => table'[c][r] = table[c][r]
    PROVE  /\ ContextIsLive'
           /\ \A c \in Dnsers, r \in Sites :
                  <<c, r>> # <<d, s>> => asked'[c][r] = asked[c][r]
<1>1. asked'[d][s] \in {0, 1}
  BY DEF SubmitOnce, TypeOK
<1>2. \A c \in Dnsers, r \in Sites :
          <<c, r>> # <<d, s>> => asked'[c][r] = asked[c][r]
  BY DEF SubmitOnce, TypeOK
<1> QED
  BY <1>1, <1>2 DEF ContextIsLive

LEMMA StepKeepsContexts ==
    ASSUME IInv, [Next]_vars
    PROVE  Contexts'
<1> USE DEF IInv, Contexts
<1>1. CASE UNCHANGED vars
  BY <1>1 DEF vars, dnserVars, AnswerIsLast, ContextIsLive
<1>2. CASE Deal
  BY <1>2 DEF Deal, AnswerIsLast, ContextIsLive
<1>3. ASSUME NEW d \in Dnsers, Loop(d)
      PROVE  Contexts'
  <2>1. CASE Fetch(d) \/ TryPopFails(d) \/ FindHit(d) \/ FindMiss(d) \/ CheckNothing(d)
             \/ Put(d)
    <3>1. UNCHANGED <<asked, table, site>>
      BY <2>1 DEF Fetch, TryPopFails, FindHit, FindMiss, CheckNothing, Put
    <3>2. \A c \in Dnsers : pc'[c] = "deliver" => pc[c] = "deliver"
      BY <2>1 DEF Fetch, TryPopFails, FindHit, FindMiss, CheckNothing, Put, Goto, TypeOK
    <3> QED
      BY <3>1, <3>2 DEF AnswerIsLast, ContextIsLive
  <2>2. CASE EnlistFirst(d)
    <3> DEFINE s == SiteOf[cur[d]]
    <3>1. s \in Sites
      BY <2>2, SiteOfType DEF EnlistFirst, AtHand
    <3>2. asked[d][s] = 0
      BY <2>2, <3>1 DEF EnlistFirst, ContextIsLive, TypeOK
    <3>3. table' = [table EXCEPT ![d][s] = <<cur[d]>>] /\ SubmitOnce(d, s, 0)
      BY <2>2, <3>2 DEF EnlistFirst
    <3>4. table'[d][s] # <<>>
          /\ \A c \in Dnsers, r \in Sites :
                <<c, r>> # <<d, s>> => table'[c][r] = table[c][r]
      BY <3>1, <3>3 DEF TypeOK
    <3>5. ContextIsLive' /\ \A c \in Dnsers, r \in Sites :
                                <<c, r>> # <<d, s>> => asked'[c][r] = asked[c][r]
      BY <3>1, <3>3, <3>4, SubmitKeepsContexts
    <3>6. \A c \in Dnsers : pc'[c] = "deliver" => c # d /\ pc[c] = "deliver"
      BY <2>2 DEF EnlistFirst, Goto, TypeOK
    <3>7. site' = site
      BY <2>2 DEF EnlistFirst
    <3> QED
      BY <3>5, <3>6, <3>7 DEF AnswerIsLast, AtHand
  <2>3. CASE EnlistLater(d)
    <3> DEFINE s == SiteOf[cur[d]]
    <3>1. s \in Sites /\ cur[d] \in Urls
      BY <2>3, SiteOfType DEF EnlistLater, AtHand
    <3>2. table' = [table EXCEPT ![d][s] = Append(@, cur[d])]
      BY <2>3 DEF EnlistLater
    <3>3. \A c \in Dnsers, r \in Sites : table[c][r] # <<>> => table'[c][r] # <<>>
      BY <3>1, <3>2, AppendedElements DEF TypeOK
    <3>4. asked' = asked /\ site' = site
      BY <2>3 DEF EnlistLater
    <3>5. \A c \in Dnsers : pc'[c] = "deliver" => pc[c] = "deliver"
      BY <2>3 DEF EnlistLater, Goto, TypeOK
    <3> QED
      BY <3>3, <3>4, <3>5 DEF AnswerIsLast, ContextIsLive
  <2>4. CASE Deliver(d)
    BY <2>4 DEF Deliver, AnswerIsLast, ContextIsLive
  <2>5. CASE Store(d)
    <3>1. site[d] \in Sites /\ asked[d][site[d]] = 0
      BY <2>5 DEF Store, AtHand, AnswerIsLast
    <3>2. \A c \in Dnsers, r \in Sites :
              <<c, r>> # <<d, site[d]>> => table'[c][r] = table[c][r]
      BY <2>5, <3>1 DEF Store, TypeOK
    <3>3. ContextIsLive'
      BY <2>5, <3>1, <3>2 DEF Store, ContextIsLive
    <3>4. AnswerIsLast'
      BY <2>5 DEF Store, Goto, TypeOK, AnswerIsLast
    <3> QED
      BY <3>3, <3>4
  <2> QED
    BY <1>3, <2>1, <2>2, <2>3, <2>4, <2>5 DEF Loop
<1>4. ASSUME NEW d \in Dnsers, NEW s \in Sites, Answer(d, s)
      PROVE  Contexts'
  <2>1. asked[d][s] = 1 /\ table[d][s] # <<>> /\ pc[d] = "check"
    BY <1>4 DEF Answer, CheckOk, CheckCname, CheckFail, Answered, ContextIsLive
  <2>2. CASE CheckOk(d, s)
    <3>1. asked'[d][s] = 0
          /\ \A c \in Dnsers, r \in Sites :
                <<c, r>> # <<d, s>> => asked'[c][r] = asked[c][r]
      BY <2>1, <2>2 DEF CheckOk, TypeOK
    <3>2. table' = table /\ site'[d] = s
          /\ \A c \in Dnsers \ {d} : site'[c] = site[c] /\ pc'[c] = pc[c]
      BY <2>2 DEF CheckOk, Goto, TypeOK
    <3>3. ContextIsLive'
      BY <3>1, <3>2 DEF ContextIsLive
    <3>4. AnswerIsLast'
      BY <3>1, <3>2 DEF AnswerIsLast, AtHand
    <3> QED
      BY <3>3, <3>4
  <2>3. CASE CheckCname(d, s)
    <3>1. SubmitOnce(d, s, 0) /\ table' = table /\ site' = site
      BY <2>1, <2>3 DEF CheckCname
    <3>2. ContextIsLive' /\ \A c \in Dnsers, r \in Sites :
                                <<c, r>> # <<d, s>> => asked'[c][r] = asked[c][r]
      BY <2>1, <3>1, SubmitKeepsContexts
    <3>3. \A c \in Dnsers : pc'[c] = "deliver" => c # d /\ pc[c] = "deliver"
      BY <2>3 DEF CheckCname, Goto, TypeOK
    <3> QED
      BY <3>1, <3>2, <3>3 DEF AnswerIsLast, AtHand
  <2>4. CASE CheckFail(d, s)
    <3>1. asked'[d][s] = 0
          /\ \A c \in Dnsers, r \in Sites :
                <<c, r>> # <<d, s>> =>
                    asked'[c][r] = asked[c][r] /\ table'[c][r] = table[c][r]
      BY <2>1, <2>4 DEF CheckFail, TypeOK
    <3>2. site' = site
      BY <2>4 DEF CheckFail
    <3>3. \A c \in Dnsers : pc'[c] = "deliver" => c # d /\ pc[c] = "deliver"
      BY <2>4 DEF CheckFail, Goto, TypeOK
    <3> QED
      BY <3>1, <3>2, <3>3 DEF AnswerIsLast, ContextIsLive, AtHand
  <2> QED
    BY <1>4, <2>2, <2>3, <2>4 DEF Answer
<1> QED
  BY <1>1, <1>2, <1>3, <1>4 DEF Next

-------------------------------------------------------------------------------
(* Addresses. *)

\* A url that is handed over with addresses of its site spoils no queue.
LEMMA HandOverKeepsResolved ==
    ASSUME TypeOK, HandedOverResolved, NEW u \in Urls, NEW addrs \in Answers[SiteOf[u]],
           HandOver(u, addrs)
    PROVE  HandedOverResolved'
<1>1. /\ ips' = [ips EXCEPT ![u] = addrs] /\ ips \in [Urls -> SUBSET Ips]
      /\ status' = [status EXCEPT ![u] = "DNSED"] /\ DOMAIN status = Urls
  BY DEF HandOver, TypeOK
<1>2. ASSUME NEW k \in Schedulers, NEW v \in Elements(schedq'[k])
      PROVE  v \in Urls /\ (v = u \/ v \in Elements(schedq[k]))
  <2>1. schedq[k] \in Seq(Urls) /\ Elements(schedq[k]) \subseteq Urls
    BY DEF TypeOK, Elements
  <2>2. schedq'[k] = schedq[k] \/ schedq'[k] = Append(schedq[k], u)
    BY DEF HandOver, TypeOK
  <2>3. Elements(Append(schedq[k], u)) = Elements(schedq[k]) \cup {u}
    BY <2>1, AppendedElements
  <2> QED
    BY <1>2, <2>1, <2>2, <2>3
<1>3. ips'[u] = addrs /\ status'[u] = "DNSED"
  BY <1>1
<1>4. \A v \in Urls \ {u} : ips'[v] = ips[v] /\ status'[v] = status[v]
  BY <1>1
<1>5. ASSUME NEW k \in Schedulers, NEW v \in Elements(schedq'[k])
      PROVE  status'[v] = "DNSED" /\ ips'[v] \in Answers[SiteOf[v]]
  <2>1. CASE v = u
    BY <1>3, <2>1
  <2>2. CASE v # u
    <3>1. v \in Urls \ {u} /\ v \in Elements(schedq[k])
      BY <1>2, <1>5, <2>2
    <3> QED
      BY <1>4, <3>1 DEF HandedOverResolved
  <2> QED
    BY <2>1, <2>2
<1> QED
  BY <1>5 DEF HandedOverResolved

LEMMA NothingHandedOver ==
    ASSUME HandedOverResolved, UNCHANGED <<schedq, status, ips>>
    PROVE  HandedOverResolved'
BY DEF HandedOverResolved

\* A table that only loses entries keeps each url under its site.
LEMMA EntriesShrink ==
    ASSUME EntriesOfSite,
           \A d \in Dnsers, s \in Sites : table'[d][s] \in {table[d][s], <<>>}
    PROVE  EntriesOfSite'
<1> SUFFICES ASSUME NEW d \in Dnsers, NEW s \in Sites, NEW n \in 1..Len(table'[d][s])
             PROVE  SiteOf[table'[d][s][n]] = s
  BY DEF EntriesOfSite
<1>1. table'[d][s] = table[d][s]
  OBVIOUS
<1> QED
  BY <1>1 DEF EntriesOfSite

\* A url enters the entry of its site.
LEMMA EntryGrows ==
    ASSUME TypeOK, EntriesOfSite, NEW d \in Dnsers, NEW u \in Urls,
           \/ table' = [table EXCEPT ![d][SiteOf[u]] = <<u>>]
           \/ table' = [table EXCEPT ![d][SiteOf[u]] = Append(@, u)]
    PROVE  EntriesOfSite'
<1> DEFINE s == SiteOf[u]
<1>1. s \in Sites
  BY SiteOfType
<1>2. PICK v : /\ table' = [table EXCEPT ![d][s] = v]
               /\ v = <<u>> \/ v = Append(table[d][s], u)
  OBVIOUS
<1>3. table \in [Dnsers -> [Sites -> Seq(Urls)]]
  BY DEF TypeOK
<1>4. table'[d][s] = <<u>> \/ table'[d][s] = Append(table[d][s], u)
  BY <1>1, <1>2, <1>3
<1>5. \A c \in Dnsers, r \in Sites : <<c, r>> # <<d, s>> => table'[c][r] = table[c][r]
  BY <1>1, <1>2, <1>3
<1>6. ASSUME NEW n \in 1..Len(table'[d][s])
      PROVE  SiteOf[table'[d][s][n]] = s
  <2>1. table[d][s] \in Seq(Urls)
    BY <1>1 DEF TypeOK
  <2>2. table'[d][s][n] = u \/ (n \in 1..Len(table[d][s]) /\ table'[d][s][n] = table[d][s][n])
    BY <1>4, <1>6, <2>1
  <2> QED
    BY <1>1, <2>2 DEF EntriesOfSite
<1> QED
  BY <1>5, <1>6 DEF EntriesOfSite

LEMMA StepKeepsAddresses ==
    ASSUME IInv, [Next]_vars
    PROVE  Addresses'
<1> USE DEF IInv, Addresses
<1>1. CASE UNCHANGED vars
  <2>1. UNCHANGED <<schedq, status, ips, table, cache, pc, cur, found, site>>
    BY <1>1 DEF vars, dnserVars
  <2> QED
    BY <2>1 DEF EntriesOfSite, CacheIsRight, FoundIsRight, HandedOverResolved
<1>2. CASE Deal
  <2>1. UNCHANGED <<schedq, status, ips, table, cache, pc, cur, found, site>>
    BY <1>2 DEF Deal
  <2> QED
    BY <2>1 DEF EntriesOfSite, CacheIsRight, FoundIsRight, HandedOverResolved
<1>3. ASSUME NEW d \in Dnsers, Loop(d)
      PROVE  Addresses'
  <2>1. CASE Fetch(d) \/ TryPopFails(d) \/ FindMiss(d) \/ CheckNothing(d)
    <3>1. UNCHANGED <<schedq, status, ips, table, cache, found, site>>
      BY <2>1 DEF Fetch, TryPopFails, FindMiss, CheckNothing
    <3>2. \A c \in Dnsers : pc'[c] \in {"put", "deliver"} => pc'[c] = pc[c] /\ cur'[c] = cur[c]
      BY <2>1 DEF Fetch, TryPopFails, FindMiss, CheckNothing, Goto, TypeOK
    <3> QED
      BY <3>1, <3>2 DEF EntriesOfSite, CacheIsRight, FoundIsRight, HandedOverResolved
  <2>2. CASE FindHit(d)
    <3>1. UNCHANGED <<schedq, status, ips, table, cache, cur, site>>
      BY <2>2 DEF FindHit
    <3>2. found'[d] \in Answers[SiteOf[cur[d]]]
      BY <2>2, SiteOfType DEF FindHit, TypeOK, AtHand, CacheIsRight
    <3>3. /\ pc'[d] = "put"
          /\ \A c \in Dnsers \ {d} : pc'[c] = pc[c] /\ found'[c] = found[c]
      BY <2>2 DEF FindHit, Goto, TypeOK
    <3>4. FoundIsRight'
      BY <3>1, <3>2, <3>3 DEF FoundIsRight
    <3> QED
      BY <3>1, <3>4 DEF EntriesOfSite, CacheIsRight, HandedOverResolved
  <2>3. CASE Put(d)
    <3>1. cur[d] \in Urls /\ found[d] \in Answers[SiteOf[cur[d]]]
      BY <2>3 DEF Put, AtHand, FoundIsRight
    <3>2. HandedOverResolved'
      BY <2>3, <3>1, HandOverKeepsResolved DEF Put
    <3>3. UNCHANGED <<table, cache, site>>
      BY <2>3 DEF Put
    <3>4. /\ pc'[d] = "check"
          /\ \A c \in Dnsers \ {d} : pc'[c] = pc[c] /\ found'[c] = found[c] /\ cur'[c] = cur[c]
      BY <2>3 DEF Put, Goto, TypeOK
    <3>5. FoundIsRight'
      BY <3>3, <3>4 DEF FoundIsRight
    <3> QED
      BY <3>2, <3>3, <3>5 DEF EntriesOfSite, CacheIsRight
  <2>4. CASE EnlistFirst(d) \/ EnlistLater(d)
    <3>1. UNCHANGED <<schedq, status, ips, cache, found, site>>
      BY <2>4 DEF EnlistFirst, EnlistLater
    <3>2. /\ pc'[d] = "check"
          /\ \A c \in Dnsers \ {d} : pc'[c] = pc[c] /\ cur'[c] = cur[c]
      BY <2>4 DEF EnlistFirst, EnlistLater, Goto, TypeOK
    <3>3. EntriesOfSite'
      BY <2>4, EntryGrows DEF EnlistFirst, EnlistLater, AtHand
    <3>4. FoundIsRight'
      BY <3>1, <3>2 DEF FoundIsRight
    <3> QED
      BY <3>1, <3>3, <3>4 DEF CacheIsRight, HandedOverResolved
  <2>5. CASE Deliver(d)
    <3> DEFINE u == table[d][site[d]][next[d] + 1]
    <3>1. site[d] \in Sites /\ found[d] \in Answers[site[d]]
      BY <2>5 DEF Deliver, AtHand, FoundIsRight
    <3>2. next[d] + 1 \in 1..Len(table[d][site[d]]) /\ u \in Urls
      BY <2>5, <3>1 DEF Deliver, TypeOK
    <3>3. SiteOf[u] = site[d]
      BY <3>1, <3>2 DEF EntriesOfSite
    <3>4. HandedOverResolved'
      BY <2>5, <3>1, <3>2, <3>3, HandOverKeepsResolved DEF Deliver
    <3>5. UNCHANGED <<table, cache, pc, cur, found, site>>
      BY <2>5 DEF Deliver
    <3> QED
      BY <3>4, <3>5 DEF EntriesOfSite, CacheIsRight, FoundIsRight
  <2>6. CASE Store(d)
    <3>1. site[d] \in Sites /\ found[d] \in Answers[site[d]]
      BY <2>6 DEF Store, AtHand, FoundIsRight
    <3>2. HandedOverResolved'
      BY <2>6, NothingHandedOver DEF Store
    <3>3. EntriesOfSite'
      BY <2>6, <3>1, EntriesShrink DEF Store, TypeOK
    <3>4. CacheIsRight'
      BY <2>6, <3>1 DEF Store, TypeOK, CacheIsRight
    <3>5. /\ pc'[d] = "fetch" /\ cur' = cur
          /\ \A c \in Dnsers \ {d} : pc'[c] = pc[c] /\ found'[c] = found[c] /\ site'[c] = site[c]
      BY <2>6 DEF Store, Goto, TypeOK
    <3>6. FoundIsRight'
      BY <3>5 DEF FoundIsRight
    <3> QED
      BY <3>2, <3>3, <3>4, <3>6
  <2> QED
    BY <1>3, <2>1, <2>2, <2>3, <2>4, <2>5, <2>6 DEF Loop
<1>4. ASSUME NEW d \in Dnsers, NEW s \in Sites, Answer(d, s)
      PROVE  Addresses'
  <2>1. UNCHANGED <<schedq, status, ips, cache, cur>>
    BY <1>4 DEF Answer, CheckOk, CheckCname, CheckFail
  <2>2. EntriesOfSite'
    <3>1. CASE CheckFail(d, s)
      <4>1. table \in [Dnsers -> [Sites -> Seq(Urls)]] /\ table' = [table EXCEPT ![d][s] = <<>>]
        BY <3>1 DEF CheckFail, TypeOK
      <4>2. \A c \in Dnsers, r \in Sites : table'[c][r] \in {table[c][r], <<>>}
        BY <4>1
      <4> QED
        BY <4>2, EntriesShrink
    <3>2. CASE table' = table
      BY <3>2 DEF EntriesOfSite
    <3> QED
      BY <1>4, <3>1, <3>2 DEF Answer, CheckOk, CheckCname
  <2>3. CASE CheckOk(d, s)
    <3>1. found'[d] \in Answers[s] /\ site'[d] = s /\ pc'[d] = "deliver"
      BY <2>3 DEF CheckOk, Goto, TypeOK
    <3>2. \A c \in Dnsers \ {d} : pc'[c] = pc[c] /\ found'[c] = found[c] /\ site'[c] = site[c]
      BY <2>3 DEF CheckOk, Goto, TypeOK
    <3> QED
      BY <2>1, <2>2, <3>1, <3>2 DEF CacheIsRight, FoundIsRight, HandedOverResolved
  <2>4. CASE CheckCname(d, s) \/ CheckFail(d, s)
    <3>1. UNCHANGED <<found, site>> /\ pc'[d] = "fetch"
          /\ \A c \in Dnsers \ {d} : pc'[c] = pc[c]
      BY <2>4 DEF CheckCname, CheckFail, Goto, TypeOK
    <3> QED
      BY <2>1, <2>2, <3>1 DEF CacheIsRight, FoundIsRight, HandedOverResolved
  <2> QED
    BY <1>4, <2>3, <2>4 DEF Answer
<1> QED
  BY <1>1, <1>2, <1>3, <1>4 DEF Next

-------------------------------------------------------------------------------

LEMMA StepKeepsInvariant == IInv /\ [Next]_vars => IInv'
BY StepKeepsTypes, StepKeepsHands, StepKeepsContexts, StepKeepsAddresses DEF IInv

\* The invariant of the dnsers: the types, and AtHand, Contexts and Addresses.
THEOREM DnserInvariant == Spec => []IInv
BY InitHolds, StepKeepsInvariant, PTL DEF Spec

\* dnser_task.cc: the variables of the dnsers, the cache and the urls have their types.
THEOREM TypeCorrect == Spec => []TypeOK
<1>1. IInv => TypeOK
  BY DEF IInv
<1> QED
  BY <1>1, DnserInvariant, PTL

\* dnser_task.cc: the entry whose address was given to adns is there when the answer
\* comes, and no other query has it.
THEOREM ContextsStayLive == Spec => []ContextIsLive
<1>1. IInv => ContextIsLive
  BY DEF IInv, Contexts
<1> QED
  BY <1>1, DnserInvariant, PTL

\* dnser_task.cc, dns_cache.cc: a scheduler gets a url with addresses that its own site
\* was resolved to, wherever they come from.
THEOREM UrlsAreResolved == Spec => []HandedOverResolved
<1>1. IInv => HandedOverResolved
  BY DEF IInv, Addresses
<1> QED
  BY <1>1, DnserInvariant, PTL

-------------------------------------------------------------------------------
(* Sequences without repetitions. *)

Distinct(seq) == \A i, j \in 1..Len(seq) : seq[i] = seq[j] => i = j

LEMMA AppendedDistinct ==
    ASSUME NEW S, NEW seq \in Seq(S), NEW x \in S, Distinct(seq), x \notin Elements(seq)
    PROVE  Distinct(Append(seq, x))
<1> DEFINE r == Append(seq, x)
<1>1. Len(r) = Len(seq) + 1 /\ Len(seq) \in Nat /\ r[Len(seq) + 1] = x
  OBVIOUS
<1>2. \A i \in 1..Len(seq) : r[i] = seq[i]
  OBVIOUS
<1>3. \A i \in 1..Len(seq) : seq[i] # x
  BY DEF Elements
<1>4. \A i \in 1..Len(r) : i \in 1..Len(seq) \/ i = Len(seq) + 1
  BY <1>1
<1> QED
  BY <1>1, <1>2, <1>3, <1>4 DEF Distinct

LEMMA TailElements ==
    ASSUME NEW S, NEW seq \in Seq(S), seq # <<>>, Distinct(seq)
    PROVE  /\ Head(seq) \in Elements(seq)
           /\ Elements(Tail(seq)) = Elements(seq) \ {Head(seq)}
           /\ Distinct(Tail(seq))
<1> DEFINE r == Tail(seq)
<1>1. Len(seq) \in Nat \ {0} /\ Len(r) = Len(seq) - 1 /\ Head(seq) = seq[1]
  OBVIOUS
<1>2. \A i \in 1..Len(r) : r[i] = seq[i + 1] /\ i + 1 \in 1..Len(seq)
  BY <1>1
<1>3. \A i \in 1..Len(seq) : i # 1 => i - 1 \in 1..Len(r) /\ seq[i] = r[i - 1]
  BY <1>1
<1>4. \A i \in 1..Len(seq) : i # 1 => seq[i] # seq[1]
  BY <1>1 DEF Distinct
<1>5. Distinct(r)
  BY <1>2 DEF Distinct
<1>6. Elements(r) \subseteq Elements(seq) \ {Head(seq)}
  BY <1>1, <1>2, <1>4 DEF Elements
<1>7. Elements(seq) \ {Head(seq)} \subseteq Elements(r)
  BY <1>1, <1>3 DEF Elements
<1>8. Head(seq) \in Elements(seq)
  BY <1>1 DEF Elements
<1> QED
  BY <1>5, <1>6, <1>7, <1>8

LEMMA PositionsInDistinct ==
    ASSUME NEW S, NEW seq \in Seq(S), Distinct(seq), NEW x
    PROVE  /\ x \in Elements(seq) => \E i \in 1..Len(seq) : Positions(seq, x) = {i}
           /\ x \notin Elements(seq) => Positions(seq, x) = {}
BY DEF Elements, Positions, Distinct

-------------------------------------------------------------------------------
(* Where the urls are.  A url has one dnser, one site and one scheduler, so it is *)
(* enough to look there.                                                          *)

Routed ==
    /\ \A d \in Dnsers :
          /\ \A u \in Elements(dnsq[d]) : Home[u] = d
          /\ cur[d] # NoUrl => Home[cur[d]] = d
          /\ \A s \in Sites : \A u \in Elements(table[d][s]) : Home[u] = d
    /\ \A k \in Schedulers : \A u \in Elements(schedq[k]) : Target[u] = k

\* Only a dnser between the queue and the table has a url in hand, and only one that
\* delivers has passed on a part of an entry.
Hands ==
    \A d \in Dnsers :
        /\ cur[d] # NoUrl <=> pc[d] \in {"find", "put", "enlist"}
        /\ pc[d] # "deliver" => next[d] = 0
        /\ pc[d] = "deliver" => next[d] <= Len(table[d][site[d]])

NoRepetitions ==
    /\ Distinct(coming)
    /\ \A d \in Dnsers : Distinct(dnsq[d])
    /\ \A d \in Dnsers, s \in Sites : Distinct(table[d][s])
    /\ \A k \in Schedulers : Distinct(schedq[k])

Coming == Elements(coming)
Queued == {u \in Urls : u \in Elements(dnsq[Home[u]])}
Taken == {u \in Urls : cur[Home[u]] = u}
Listed == {u \in Urls : Waiting(Home[u], SiteOf[u], u) # {}}
Passed == {u \in Urls : u \in Elements(schedq[Target[u]])}

\* Every seed is in one place.
Sole ==
    /\ Elements(Seeds) = Coming \cup Queued \cup Taken \cup Listed \cup Passed \cup dropped
    /\ Coming \cap (Queued \cup Taken \cup Listed \cup Passed \cup dropped) = {}
    /\ Queued \cap (Taken \cup Listed \cup Passed \cup dropped) = {}
    /\ Taken \cap (Listed \cup Passed \cup dropped) = {}
    /\ Listed \cap (Passed \cup dropped) = {}
    /\ Passed \cap dropped = {}

\* What a step does with the urls: one is dealt, taken from the queue or given up there,
\* passed on, enlisted or delivered, those of an entry are given up, or none moves.
Comes(u) == /\ u \in Coming /\ Coming' = Coming \ {u} /\ Queued' = Queued \cup {u}
            /\ UNCHANGED <<Taken, Listed, Passed, dropped>>
IsTaken(u) == /\ u \in Queued /\ Queued' = Queued \ {u} /\ Taken' = Taken \cup {u}
              /\ UNCHANGED <<Coming, Listed, Passed, dropped>>
IsRefused(u) == /\ u \in Queued /\ Queued' = Queued \ {u} /\ dropped' = dropped \cup {u}
                /\ UNCHANGED <<Coming, Taken, Listed, Passed>>
IsPut(u) == /\ u \in Taken /\ Taken' = Taken \ {u} /\ Passed' = Passed \cup {u}
            /\ UNCHANGED <<Coming, Queued, Listed, dropped>>
IsEnlisted(u) == /\ u \in Taken /\ Taken' = Taken \ {u} /\ Listed' = Listed \cup {u}
                 /\ UNCHANGED <<Coming, Queued, Passed, dropped>>
IsDelivered(u) == /\ u \in Listed /\ Listed' = Listed \ {u} /\ Passed' = Passed \cup {u}
                  /\ UNCHANGED <<Coming, Queued, Taken, dropped>>
AreGivenUp(us) == /\ us \subseteq Listed /\ Listed' = Listed \ us /\ dropped' = dropped \cup us
                  /\ UNCHANGED <<Coming, Queued, Taken, Passed>>
NoneMoves == UNCHANGED <<Coming, Queued, Taken, Listed, Passed, dropped>>

Control == Routed /\ Hands /\ NoRepetitions
UrlInv == IInv /\ Control /\ Sole

LEMMA InitSole == Init => Control /\ Sole
<1> SUFFICES ASSUME Init PROVE Control /\ Sole
  OBVIOUS
<1> USE DEF Init
<1>1. Elements(<<>>) = {}
  BY DEF Elements
<1>2. Routed /\ Hands
  BY <1>1 DEF Routed, Hands
<1>3. NoRepetitions
  BY SeedsAreObjects DEF NoRepetitions, Distinct
<1>4. Coming = Elements(Seeds) /\ dropped = {}
  BY DEF Coming
<1>5. Queued = {}
  BY <1>1, HomeType DEF Queued
<1>6. Taken = {}
  BY HomeType, NoUrlIsNoUrl DEF Taken
<1>7. Listed = {}
  BY HomeType, SiteOfType DEF Listed, Waiting, Positions
<1>8. Passed = {}
  BY <1>1, TargetType DEF Passed
<1> QED
  BY <1>2, <1>3, <1>4, <1>5, <1>6, <1>7, <1>8 DEF Control, Sole

-------------------------------------------------------------------------------
(* How the steps move the urls. *)

\* Global::init deals a seed.
LEMMA DealMoves ==
    ASSUME UrlInv, Deal
    PROVE  Control' /\ Comes(Head(coming))
<1> USE DEF UrlInv, Control
<1> DEFINE u == Head(coming)  d == Home[u]
<1>1. coming \in Seq(Urls) /\ coming # <<>> /\ dnsq \in [Dnsers -> Seq(Urls)]
  BY DEF Deal, IInv, TypeOK
<1>2. u \in Coming /\ Coming' = Coming \ {u} /\ Distinct(coming') /\ u \in Urls
  BY <1>1, TailElements, HeadIsElement DEF Deal, Coming, NoRepetitions
<1>3. d \in Dnsers
  BY <1>2, HomeType
<1>4. u \notin Queued /\ u \notin Elements(dnsq[d])
  BY <1>2 DEF Sole, Queued
<1>5. dnsq' = [dnsq EXCEPT ![d] = Append(dnsq[d], u)]
  BY DEF Deal
<1>6. /\ Elements(dnsq'[d]) = Elements(dnsq[d]) \cup {u} /\ Distinct(dnsq'[d])
      /\ \A c \in Dnsers \ {d} : dnsq'[c] = dnsq[c]
  <2>1. dnsq'[d] = Append(dnsq[d], u) /\ dnsq[d] \in Seq(Urls)
    BY <1>1, <1>3, <1>5
  <2>2. Distinct(dnsq[d])
    BY <1>3 DEF NoRepetitions
  <2> QED
    BY <1>1, <1>2, <1>4, <1>5, <2>1, <2>2, AppendedElements, AppendedDistinct
<1>7. UNCHANGED <<cur, table, schedq, pc, next, site, dropped>>
  BY DEF Deal
<1>8. Routed' /\ Hands' /\ NoRepetitions'
  BY <1>2, <1>3, <1>6, <1>7 DEF Routed, Hands, NoRepetitions
<1>9. Queued' = Queued \cup {u}
  BY <1>2, <1>3, <1>6, HomeType DEF Queued
<1>10. UNCHANGED <<Taken, Listed, Passed>>
  BY <1>7 DEF Taken, Listed, Passed, Waiting, Positions
<1> QED
  BY <1>2, <1>7, <1>8, <1>9, <1>10 DEF Comes

\* A url goes from the queue into the hands of the dnser, or is given up.
LEMMA FetchMoves ==
    ASSUME UrlInv, NEW d \in Dnsers, Running, Fetch(d)
    PROVE  Control' /\ \E u \in Urls : IsTaken(u) \/ IsRefused(u)
<1> USE DEF UrlInv, Control
<1> DEFINE u == Head(dnsq[d])
<1>1. dnsq \in [Dnsers -> Seq(Urls)] /\ dnsq[d] # <<>> /\ pc[d] = "fetch"
      /\ cur \in [Dnsers -> Urls \cup {NoUrl}]
      /\ pc \in [Dnsers -> {"fetch", "find", "put", "enlist", "check", "deliver"}]
  BY DEF Fetch, IInv, TypeOK
<1>2. u \in Elements(dnsq[d]) /\ Elements(Tail(dnsq[d])) = Elements(dnsq[d]) \ {u}
      /\ Distinct(Tail(dnsq[d])) /\ u \in Urls
  BY <1>1, TailElements, HeadIsElement DEF NoRepetitions
<1>3. Home[u] = d
  BY <1>2 DEF Routed
<1>4. dnsq'[d] = Tail(dnsq[d]) /\ \A c \in Dnsers \ {d} : dnsq'[c] = dnsq[c]
  BY <1>1 DEF Fetch
<1>5. UNCHANGED <<coming, table, schedq, next, site>>
  BY DEF Fetch, Running
<1>6. u \in Queued /\ Queued' = Queued \ {u}
  BY <1>2, <1>3, <1>4, HomeType DEF Queued
<1>7. UNCHANGED <<Coming, Listed, Passed>>
  BY <1>5 DEF Coming, Listed, Passed, Waiting, Positions
<1>8. cur[d] = NoUrl
  BY <1>1 DEF Hands
<1>9. NoRepetitions'
  BY <1>2, <1>4, <1>5 DEF NoRepetitions
<1>10. CASE status[u] = "INITIALIZED"
  <2>1. /\ cur' = [cur EXCEPT ![d] = u] /\ pc' = [pc EXCEPT ![d] = "find"]
        /\ dropped' = dropped
    BY <1>10 DEF Fetch, Goto
  <2>2. cur'[d] = u /\ \A c \in Dnsers \ {d} : cur'[c] = cur[c]
    BY <1>1, <2>1
  <2>3. Taken' = Taken \cup {u}
    BY <1>2, <1>3, <1>8, <2>2, HomeType, NoUrlIsNoUrl DEF Taken
  <2>4. Routed'
    BY <1>2, <1>3, <1>4, <1>5, <2>2 DEF Routed
  <2>5. Hands'
    BY <1>1, <1>2, <1>5, <2>1, <2>2, NoUrlIsNoUrl DEF Hands
  <2> QED
    BY <1>2, <1>6, <1>7, <1>9, <2>1, <2>3, <2>4, <2>5 DEF IsTaken
<1>11. CASE status[u] # "INITIALIZED"
  <2>1. cur' = cur /\ pc' = [pc EXCEPT ![d] = "check"] /\ dropped' = dropped \cup {u}
    BY <1>11 DEF Fetch, Goto
  <2>2. Taken' = Taken
    BY <2>1 DEF Taken
  <2>3. Routed'
    BY <1>2, <1>4, <1>5, <2>1 DEF Routed
  <2>4. Hands'
    BY <1>1, <1>5, <2>1 DEF Hands
  <2> QED
    BY <1>2, <1>6, <1>7, <1>9, <2>1, <2>2, <2>3, <2>4 DEF IsRefused
<1> QED
  BY <1>10, <1>11

\* The urls of an entry of which nothing has been handed over all wait.
LEMMA WholeEntryWaits ==
    ASSUME TypeOK, NEW d \in Dnsers, next[d] = 0
    PROVE  \A s \in Sites : \A u : Waiting(d, s, u) = Positions(table[d][s], u)
BY DEF Waiting, Positions, TypeOK

\* A dnser looks into the cache, polls adns or gets an answer: no url moves.
LEMMA QuietMoves ==
    ASSUME UrlInv, NEW d \in Dnsers, Running,
           \/ TryPopFails(d) \/ FindHit(d) \/ FindMiss(d) \/ CheckNothing(d)
           \/ \E s \in Sites : CheckOk(d, s) \/ CheckCname(d, s)
    PROVE  Control' /\ NoneMoves
<1> USE DEF UrlInv, Control
<1>1. UNCHANGED <<coming, dnsq, cur, table, schedq, dropped>>
  BY DEF Running, TryPopFails, FindHit, FindMiss, CheckNothing, CheckOk, CheckCname
<1>2. TypeOK /\ cur \in [Dnsers -> Urls \cup {NoUrl}]
      /\ \A c \in Dnsers, s \in Sites : Len(table[c][s]) \in Nat
  BY DEF IInv, TypeOK
<1>3. Routed' /\ NoRepetitions'
  BY <1>1 DEF Routed, NoRepetitions
<1>4. UNCHANGED <<Coming, Queued, Taken, Passed>>
  BY <1>1 DEF Coming, Queued, Taken, Passed
<1>5. CASE TryPopFails(d) \/ FindHit(d) \/ FindMiss(d) \/ CheckNothing(d)
           \/ \E s \in Sites : CheckCname(d, s)
  <2>1. UNCHANGED <<site, next>> /\ \A c \in Dnsers \ {d} : pc'[c] = pc[c]
    BY <1>2, <1>5 DEF TryPopFails, FindHit, FindMiss, CheckNothing, CheckCname, Goto, TypeOK
  <2>2. Listed' = Listed
    BY <1>1, <2>1 DEF Listed, Waiting, Positions
  <2>3. \/ pc[d] \in {"fetch", "check"} /\ pc'[d] \in {"fetch", "check"}
        \/ pc[d] = "find" /\ pc'[d] \in {"put", "enlist"}
    BY <1>2, <1>5 DEF TryPopFails, FindHit, FindMiss, CheckNothing, CheckCname, Answered,
                      Goto, TypeOK
  <2>4. Hands'
    BY <1>1, <2>1, <2>3 DEF Hands
  <2> QED
    BY <1>1, <1>3, <1>4, <2>2, <2>4 DEF NoneMoves
<1>6. ASSUME NEW s \in Sites, CheckOk(d, s)
      PROVE  Control' /\ NoneMoves
  <2>1. /\ pc[d] = "check" /\ pc'[d] = "deliver" /\ next'[d] = 0 /\ site'[d] = s
        /\ \A c \in Dnsers \ {d} :
              pc'[c] = pc[c] /\ next'[c] = next[c] /\ site'[c] = site[c]
    BY <1>2, <1>6 DEF CheckOk, Answered, Goto, TypeOK
  <2>2. next[d] = 0
    BY <2>1 DEF Hands
  <2>3. \A x \in Sites : \A u : Waiting(d, x, u)' = Waiting(d, x, u)
    BY <1>1, <1>2, <2>1, <2>2 DEF Waiting, Positions
  <2>4. \A c \in Dnsers, x \in Sites : \A u : Waiting(c, x, u)' = Waiting(c, x, u)
    BY <1>1, <2>1, <2>3 DEF Waiting, Positions
  <2>5. Listed' = Listed
    BY <2>4, HomeType, SiteOfType DEF Listed
  <2>6. Hands'
    BY <1>1, <1>2, <2>1 DEF Hands
  <2> QED
    BY <1>1, <1>3, <1>4, <2>5, <2>6 DEF NoneMoves
<1> QED
  BY <1>5, <1>6

\* The scheduler of a url gets it, behind the others.
LEMMA HandOverMoves ==
    ASSUME UrlInv, NEW u \in Urls, u \notin Passed, NEW addrs, HandOver(u, addrs)
    PROVE  /\ Passed' = Passed \cup {u}
           /\ \A k \in Schedulers : Distinct(schedq'[k])
           /\ \A k \in Schedulers : \A v \in Elements(schedq'[k]) : Target[v] = k
<1> USE DEF UrlInv, Control
<1> DEFINE k == Target[u]
<1>1. k \in Schedulers /\ schedq \in [Schedulers -> Seq(Urls)]
  BY TargetType DEF IInv, TypeOK
<1>2. schedq'[k] = Append(schedq[k], u) /\ \A j \in Schedulers \ {k} : schedq'[j] = schedq[j]
  BY <1>1 DEF HandOver
<1>3. u \notin Elements(schedq[k]) /\ Distinct(schedq[k]) /\ schedq[k] \in Seq(Urls)
  BY <1>1 DEF Passed, NoRepetitions
<1>4. Elements(schedq'[k]) = Elements(schedq[k]) \cup {u} /\ Distinct(schedq'[k])
  BY <1>2, <1>3, AppendedElements, AppendedDistinct
<1>5. Passed' = Passed \cup {u}
  BY <1>1, <1>2, <1>4, TargetType DEF Passed
<1>6. \A j \in Schedulers : Distinct(schedq'[j])
  BY <1>2, <1>4 DEF NoRepetitions
<1>7. \A j \in Schedulers : \A v \in Elements(schedq'[j]) : Target[v] = j
  BY <1>1, <1>2, <1>4 DEF Routed
<1> QED
  BY <1>5, <1>6, <1>7

\* A url whose site was in the cache is passed on.
LEMMA PutMoves ==
    ASSUME UrlInv, NEW d \in Dnsers, Running, Put(d)
    PROVE  Control' /\ \E u \in Urls : IsPut(u)
<1> USE DEF UrlInv, Control
<1> DEFINE u == cur[d]
<1>1. pc[d] = "put" /\ u \in Urls /\ cur \in [Dnsers -> Urls \cup {NoUrl}]
      /\ pc \in [Dnsers -> {"fetch", "find", "put", "enlist", "check", "deliver"}]
  BY DEF Put, AtHand, IInv, TypeOK
<1>2. Home[u] = d /\ u \in Taken
  BY <1>1, NoUrlIsNoUrl DEF Routed, Taken
<1>3. u \notin Passed /\ HandOver(u, found[d])
  BY <1>2 DEF Sole, Put
<1>4. UNCHANGED <<coming, dnsq, table, site, next, dropped>>
  BY DEF Put, Running
<1>5. cur'[d] = NoUrl /\ pc'[d] = "check"
      /\ \A c \in Dnsers \ {d} : cur'[c] = cur[c] /\ pc'[c] = pc[c]
  BY <1>1 DEF Put, Goto
<1>6. Routed' /\ NoRepetitions' /\ Passed' = Passed \cup {u}
  BY <1>1, <1>3, <1>4, <1>5, HandOverMoves DEF Routed, NoRepetitions
<1>7. Hands'
  BY <1>1, <1>4, <1>5 DEF Hands
<1>8. Taken' = Taken \ {u}
  BY <1>1, <1>2, <1>5, HomeType, NoUrlIsNoUrl DEF Taken
<1>9. UNCHANGED <<Coming, Queued, Listed>>
  BY <1>4 DEF Coming, Queued, Listed, Waiting, Positions
<1> QED
  BY <1>1, <1>2, <1>4, <1>6, <1>7, <1>8, <1>9 DEF IsPut

\* A url whose site is not known joins the entry of the site.
LEMMA EnlistMoves ==
    ASSUME UrlInv, NEW d \in Dnsers, Running, EnlistFirst(d) \/ EnlistLater(d)
    PROVE  Control' /\ \E u \in Urls : IsEnlisted(u)
<1> USE DEF UrlInv, Control
<1> DEFINE u == cur[d]  s == SiteOf[u]  entry == table[d][s]
<1>1. pc[d] = "enlist" /\ u \in Urls /\ cur \in [Dnsers -> Urls \cup {NoUrl}]
      /\ pc \in [Dnsers -> {"fetch", "find", "put", "enlist", "check", "deliver"}]
      /\ s \in Sites
  BY SiteOfType DEF EnlistFirst, EnlistLater, AtHand, IInv, TypeOK
<1>2. Home[u] = d /\ u \in Taken /\ next[d] = 0
  BY <1>1, NoUrlIsNoUrl DEF Routed, Taken, Hands
<1>3. TypeOK /\ entry \in Seq(Urls) /\ Distinct(entry)
  BY <1>1 DEF IInv, TypeOK, NoRepetitions
<1>4. u \notin Elements(entry)
  <2>1. Positions(entry, u) = {}
    BY <1>1, <1>2, <1>3, WholeEntryWaits DEF Sole, Listed
  <2> QED
    BY <2>1 DEF Positions, Elements
<1>5. table' = [table EXCEPT ![d][s] = Append(entry, u)]
  <2>1. CASE EnlistFirst(d)
    <3>1. entry = <<>> /\ <<u>> = Append(<<>>, u)
      BY <2>1 DEF EnlistFirst
    <3> QED
      BY <2>1, <3>1 DEF EnlistFirst
  <2>2. CASE EnlistLater(d)
    BY <2>2 DEF EnlistLater
  <2> QED
    BY <2>1, <2>2
<1>6. /\ table'[d][s] = Append(entry, u)
      /\ \A x \in Sites \ {s} : table'[d][x] = table[d][x]
      /\ \A c \in Dnsers \ {d} : table'[c] = table[c]
  BY <1>1, <1>3, <1>5 DEF TypeOK
<1>7. Elements(table'[d][s]) = Elements(entry) \cup {u} /\ Distinct(table'[d][s])
  BY <1>1, <1>3, <1>4, <1>6, AppendedElements, AppendedDistinct
<1>8. UNCHANGED <<coming, dnsq, schedq, site, next, dropped>>
  BY DEF EnlistFirst, EnlistLater, Running
<1>9. cur'[d] = NoUrl /\ pc'[d] = "check"
      /\ \A c \in Dnsers \ {d} : cur'[c] = cur[c] /\ pc'[c] = pc[c]
  BY <1>1 DEF EnlistFirst, EnlistLater, Goto
<1>10. Routed'
  <2>1. ASSUME NEW c \in Dnsers, NEW x \in Sites, NEW v \in Elements(table'[c][x])
        PROVE  Home[v] = c
    <3>1. CASE c = d /\ x = s
      BY <1>1, <1>2, <1>7, <2>1, <3>1 DEF Routed
    <3>2. CASE ~(c = d /\ x = s)
      BY <1>6, <2>1, <3>2 DEF Routed
    <3> QED
      BY <3>1, <3>2
  <2> QED
    BY <1>8, <1>9, <2>1 DEF Routed
<1>11. NoRepetitions'
  BY <1>6, <1>7, <1>8 DEF NoRepetitions
<1>12. Hands'
  BY <1>1, <1>2, <1>6, <1>8, <1>9 DEF Hands
<1>13. Taken' = Taken \ {u}
  BY <1>1, <1>2, <1>9, HomeType, NoUrlIsNoUrl DEF Taken
<1>14. Listed' = Listed \cup {u}
  <2>1. \A x \in Sites : \A v : Waiting(d, x, v) = Positions(table[d][x], v)
    BY <1>2, <1>3, WholeEntryWaits
  <2>2. \A x \in Sites : \A v : Waiting(d, x, v)' = Positions(table'[d][x], v)
    <3>1. next'[d] = 0 /\ \A x \in Sites : Len(table'[d][x]) \in Nat
      BY <1>1, <1>2, <1>3, <1>6, <1>8, AppendedElements DEF TypeOK
    <3> QED
      BY <3>1 DEF Waiting, Positions
  <2>3. \A seq, v : v \in Elements(seq) <=> Positions(seq, v) # {}
    BY DEF Elements, Positions
  <2>4. \A c \in Dnsers \ {d}, x \in Sites : \A v : Waiting(c, x, v)' = Waiting(c, x, v)
    BY <1>6, <1>8 DEF Waiting, Positions
  <2>5. ASSUME NEW v \in Urls, Home[v] = d
        PROVE  Waiting(d, SiteOf[v], v)' # {} <=> Waiting(d, SiteOf[v], v) # {} \/ v = u
    <3>1. SiteOf[v] \in Sites
      BY SiteOfType
    <3>2. v \in Elements(table'[d][SiteOf[v]]) <=> v \in Elements(table[d][SiteOf[v]]) \/ v = u
      BY <1>6, <1>7, <3>1
    <3>3. /\ Waiting(d, SiteOf[v], v)' # {} <=> v \in Elements(table'[d][SiteOf[v]])
          /\ Waiting(d, SiteOf[v], v) # {} <=> v \in Elements(table[d][SiteOf[v]])
      BY <2>1, <2>2, <2>3, <3>1
    <3> QED
      BY <3>2, <3>3
  <2>6. \A v \in Urls : Home[v] # d =>
            (Waiting(Home[v], SiteOf[v], v)' = Waiting(Home[v], SiteOf[v], v) /\ v # u)
    BY <1>2, <2>4, HomeType, SiteOfType
  <2> QED
    BY <1>1, <2>5, <2>6 DEF Listed
<1>15. UNCHANGED <<Coming, Queued, Passed>>
  BY <1>8 DEF Coming, Queued, Passed
<1> QED
  BY <1>1, <1>2, <1>8, <1>10, <1>11, <1>12, <1>13, <1>14, <1>15 DEF IsEnlisted

\* A url of the entry that was answered is passed on.
LEMMA DeliverMoves ==
    ASSUME UrlInv, NEW d \in Dnsers, Running, Deliver(d)
    PROVE  Control' /\ \E u \in Urls : IsDelivered(u)
<1> USE DEF UrlInv, Control
<1>0. PICK s \in Sites, n \in Nat, entry \in Seq(Urls), u \in Urls :
        s = site[d] /\ n = next[d] /\ entry = table[d][s] /\ u = entry[n + 1]
  <2>1. /\ pc[d] = "deliver" /\ site[d] \in Sites /\ next[d] \in Nat
        /\ table[d][site[d]] \in Seq(Urls) /\ next[d] < Len(table[d][site[d]])
    BY DEF Deliver, AtHand, IInv, TypeOK
  <2>2. table[d][site[d]][next[d] + 1] \in Urls
    BY <2>1
  <2> QED
    BY <2>1, <2>2
<1>1. pc[d] = "deliver" /\ n < Len(entry) /\ Distinct(entry) /\ next \in [Dnsers -> Nat]
  BY <1>0 DEF Deliver, IInv, TypeOK, NoRepetitions
<1>2. n + 1 \in 1..Len(entry) /\ u \in Urls /\ u \in Elements(entry)
  BY <1>0, <1>1 DEF Elements
<1>3. Home[u] = d /\ SiteOf[u] = s
  BY <1>0, <1>1, <1>2 DEF Routed, IInv, Addresses, EntriesOfSite
<1>4. u \in Listed
  <2>1. n + 1 \in Waiting(d, s, u)
    BY <1>0, <1>1, <1>2 DEF Waiting, Positions
  <2> QED
    BY <1>2, <1>3, <2>1 DEF Listed
<1>5. u \notin Passed /\ HandOver(u, found[d])
  BY <1>0, <1>4 DEF Sole, Deliver
<1>6. UNCHANGED <<coming, dnsq, cur, table, site, pc, dropped>>
  BY DEF Deliver, Running
<1>7. next'[d] = n + 1 /\ \A c \in Dnsers \ {d} : next'[c] = next[c]
  BY <1>0, <1>1 DEF Deliver
<1>8. Routed' /\ NoRepetitions' /\ Passed' = Passed \cup {u}
  BY <1>2, <1>5, <1>6, HandOverMoves DEF Routed, NoRepetitions
<1>9. Hands'
  <2>1. pc'[d] = "deliver" /\ table'[d][site'[d]] = entry
    BY <1>0, <1>1, <1>6
  <2>2. cur'[d] = NoUrl
    BY <1>1, <1>6 DEF Hands
  <2>3. next'[d] <= Len(table'[d][site'[d]])
    BY <1>1, <1>7, <2>1
  <2>4. ASSUME NEW c \in Dnsers \ {d}
        PROVE  /\ cur'[c] = cur[c] /\ pc'[c] = pc[c] /\ next'[c] = next[c]
               /\ Len(table'[c][site'[c]]) = Len(table[c][site[c]])
    BY <1>6, <1>7
  <2> QED
    BY <2>1, <2>2, <2>3, <2>4 DEF Hands
<1>10. Waiting(d, s, u)' = {}
  <2>1. \A i \in 1..Len(entry) : entry[i] = u => i = n + 1
    BY <1>0, <1>1, <1>2 DEF Distinct
  <2> QED
    BY <1>0, <1>6, <1>7, <2>1 DEF Waiting, Positions
<1>11. ASSUME NEW c \in Dnsers, NEW x \in Sites, NEW v, v # u
       PROVE  Waiting(c, x, v)' = Waiting(c, x, v)
  <2>1. CASE c = d /\ x = s
    <3>1. \A i \in 1..Len(entry) : entry[i] = v => (i <= n + 1 <=> i <= n)
      BY <1>0, <1>1, <1>11
    <3> QED
      BY <1>0, <1>6, <1>7, <2>1, <3>1 DEF Waiting, Positions
  <2>2. CASE c = d /\ x # s
    BY <1>0, <1>6, <2>2 DEF Waiting, Positions
  <2>3. CASE c # d
    BY <1>6, <1>7, <2>3 DEF Waiting, Positions
  <2> QED
    BY <2>1, <2>2, <2>3
<1>12. Listed' = Listed \ {u}
  <2>1. \A v \in Urls : v # u =>
            Waiting(Home[v], SiteOf[v], v)' = Waiting(Home[v], SiteOf[v], v)
    BY <1>11, HomeType, SiteOfType
  <2> QED
    BY <1>2, <1>3, <1>10, <2>1 DEF Listed
<1>13. UNCHANGED <<Coming, Queued, Taken>>
  BY <1>6 DEF Coming, Queued, Taken
<1> QED
  BY <1>2, <1>4, <1>6, <1>8, <1>9, <1>12, <1>13 DEF IsDelivered

\* When an entry goes, the urls of the others wait where they were.
LEMMA EntryGoes ==
    ASSUME UrlInv, NEW d \in Dnsers, NEW s \in Sites,
           table' = [table EXCEPT ![d][s] = <<>>], next'[d] = 0,
           \A c \in Dnsers \ {d} : next'[c] = next[c] /\ site'[c] = site[c],
           \A x \in Sites \ {s} : \A v : Waiting(d, x, v) = Positions(table[d][x], v)
    PROVE  /\ \A c \in Dnsers, x \in Sites :
                  /\ Elements(table'[c][x]) \subseteq Elements(table[c][x])
                  /\ Distinct(table'[c][x])
           /\ Listed' = {v \in Listed : ~(Home[v] = d /\ SiteOf[v] = s)}
<1> USE DEF UrlInv, Control
<1>1. /\ table'[d][s] = <<>> /\ \A x \in Sites \ {s} : table'[d][x] = table[d][x]
      /\ \A c \in Dnsers \ {d} : table'[c] = table[c]
      /\ \A x \in Sites : Len(table[d][x]) \in Nat
  BY DEF IInv, TypeOK
<1>2. Elements(<<>>) = {} /\ Distinct(<<>>)
  BY DEF Elements, Distinct
<1>3. \A c \in Dnsers, x \in Sites :
          Elements(table'[c][x]) \subseteq Elements(table[c][x]) /\ Distinct(table'[c][x])
  BY <1>1, <1>2 DEF NoRepetitions
<1>4. \A v : Waiting(d, s, v)' = {}
  BY <1>1 DEF Waiting, Positions
<1>5. ASSUME NEW x \in Sites \ {s}, NEW v
      PROVE  Waiting(d, x, v)' = Waiting(d, x, v)
  <2>1. table'[d][x] = table[d][x] /\ Len(table[d][x]) \in Nat /\ next'[d] = 0
    BY <1>1
  <2>2. Waiting(d, x, v)' = Positions(table[d][x], v)
    BY <2>1 DEF Waiting, Positions
  <2> QED
    BY <2>2
<1>6. \A c \in Dnsers \ {d}, x \in Sites : \A v : Waiting(c, x, v)' = Waiting(c, x, v)
  BY <1>1 DEF Waiting, Positions
<1>7. \A v \in Urls :
          /\ Home[v] = d /\ SiteOf[v] = s => Waiting(Home[v], SiteOf[v], v)' = {}
          /\ ~(Home[v] = d /\ SiteOf[v] = s) =>
                 Waiting(Home[v], SiteOf[v], v)' = Waiting(Home[v], SiteOf[v], v)
  BY <1>4, <1>5, <1>6, HomeType, SiteOfType
<1>8. Listed' = {v \in Listed : ~(Home[v] = d /\ SiteOf[v] = s)}
  BY <1>7 DEF Listed
<1> QED
  BY <1>3, <1>8

\* The entry whose urls have all been handed over goes: no url moves.
LEMMA StoreMoves ==
    ASSUME UrlInv, NEW d \in Dnsers, Running, Store(d)
    PROVE  Control' /\ NoneMoves
<1> USE DEF UrlInv, Control
<1> DEFINE s == site[d]  entry == table[d][s]
<1>1. pc[d] = "deliver" /\ s \in Sites /\ next[d] = Len(entry) /\ entry \in Seq(Urls)
      /\ cur[d] = NoUrl
  BY DEF Store, AtHand, IInv, TypeOK, Hands
<1>2. /\ table' = [table EXCEPT ![d][s] = <<>>] /\ next'[d] = 0 /\ pc'[d] = "fetch"
      /\ \A c \in Dnsers \ {d} :
            next'[c] = next[c] /\ site'[c] = site[c] /\ pc'[c] = pc[c]
      /\ UNCHANGED <<coming, dnsq, schedq, cur, dropped>>
  BY DEF Store, Running, Goto, IInv, TypeOK
<1>3. \A x \in Sites \ {s} : \A v : Waiting(d, x, v) = Positions(table[d][x], v)
  BY DEF Waiting
<1>4. /\ \A c \in Dnsers, x \in Sites :
            Elements(table'[c][x]) \subseteq Elements(table[c][x]) /\ Distinct(table'[c][x])
      /\ Listed' = {v \in Listed : ~(Home[v] = d /\ SiteOf[v] = s)}
  BY <1>1, <1>2, <1>3, EntryGoes
<1>5. \A v : Waiting(d, s, v) = {}
  BY <1>1 DEF Waiting, Positions
<1>6. Listed' = Listed
  BY <1>4, <1>5 DEF Listed
<1>7. Routed' /\ NoRepetitions'
  BY <1>2, <1>4 DEF Routed, NoRepetitions
<1>8. Hands'
  <2>1. \A c \in Dnsers \ {d} : table'[c] = table[c]
    BY <1>2 DEF IInv, TypeOK
  <2> QED
    BY <1>1, <1>2, <2>1 DEF Hands
<1>9. UNCHANGED <<Coming, Queued, Taken, Passed>>
  BY <1>2 DEF Coming, Queued, Taken, Passed
<1> QED
  BY <1>2, <1>6, <1>7, <1>8, <1>9 DEF NoneMoves

\* The urls of an entry whose query failed are given up together.
LEMMA CheckFailMoves ==
    ASSUME UrlInv, NEW d \in Dnsers, NEW s \in Sites, Running, CheckFail(d, s)
    PROVE  Control' /\ \E us \in SUBSET Urls : AreGivenUp(us)
<1> USE DEF UrlInv, Control
<1> DEFINE entry == table[d][s]  us == Elements(entry)
<1>1. pc[d] = "check" /\ entry \in Seq(Urls) /\ next[d] = 0 /\ TypeOK /\ cur[d] = NoUrl
  BY DEF CheckFail, Answered, IInv, TypeOK, Hands
<1>2. /\ table' = [table EXCEPT ![d][s] = <<>>] /\ next' = next /\ pc'[d] = "fetch"
      /\ site' = site /\ \A c \in Dnsers \ {d} : pc'[c] = pc[c]
      /\ UNCHANGED <<coming, dnsq, schedq, cur>> /\ dropped' = dropped \cup us
  BY DEF CheckFail, Running, Goto, IInv, TypeOK
<1>3. \A x \in Sites : \A v : Waiting(d, x, v) = Positions(table[d][x], v)
  BY <1>1, WholeEntryWaits
<1>4. /\ \A c \in Dnsers, x \in Sites :
            Elements(table'[c][x]) \subseteq Elements(table[c][x]) /\ Distinct(table'[c][x])
      /\ Listed' = {v \in Listed : ~(Home[v] = d /\ SiteOf[v] = s)}
  BY <1>1, <1>2, <1>3, EntryGoes
<1>5. us \subseteq Urls /\ \A v \in us : Home[v] = d /\ SiteOf[v] = s
  BY <1>1 DEF Elements, Routed, IInv, Addresses, EntriesOfSite
<1>6. ASSUME NEW v
      PROVE  v \in us <=> Waiting(d, s, v) # {}
  <2>1. v \in us <=> Positions(entry, v) # {}
    BY DEF Elements, Positions
  <2> QED
    BY <1>3, <2>1
<1>7. us \subseteq Listed /\ Listed' = Listed \ us
  BY <1>4, <1>5, <1>6 DEF Listed
<1>8. Routed' /\ NoRepetitions'
  BY <1>2, <1>4 DEF Routed, NoRepetitions
<1>9. Hands'
  <2>1. \A c \in Dnsers \ {d} : table'[c] = table[c]
    BY <1>2 DEF IInv, TypeOK
  <2> QED
    BY <1>1, <1>2, <2>1 DEF Hands
<1>10. UNCHANGED <<Coming, Queued, Taken, Passed>>
  BY <1>2 DEF Coming, Queued, Taken, Passed
<1> QED
  BY <1>2, <1>5, <1>7, <1>8, <1>9, <1>10 DEF AreGivenUp

-------------------------------------------------------------------------------
(* No url is in two places, and the dnsers implement the abstract stage. *)

LEMMA StepMoves ==
    ASSUME UrlInv, [Next]_vars
    PROVE  /\ Control'
           /\ \/ \E u \in Urls : \/ Comes(u) \/ IsTaken(u) \/ IsRefused(u)
                                 \/ IsPut(u) \/ IsEnlisted(u) \/ IsDelivered(u)
              \/ \E us \in SUBSET Urls : AreGivenUp(us)
              \/ NoneMoves
<1>1. CASE UNCHANGED vars
  BY <1>1 DEF vars, dnserVars, UrlInv, Control, Routed, Hands, NoRepetitions, NoneMoves,
              Coming, Queued, Taken, Listed, Passed, Waiting, Positions
<1>2. CASE Deal
  <2>1. Head(coming) \in Urls
    BY <1>2, HeadIsElement DEF Deal, UrlInv, IInv, TypeOK
  <2> QED
    BY <1>2, <2>1, DealMoves
<1>3. ASSUME NEW d \in Dnsers, Running, Loop(d)
      PROVE  Control' /\ \/ \E u \in Urls : \/ IsTaken(u) \/ IsRefused(u) \/ IsPut(u)
                                            \/ IsEnlisted(u) \/ IsDelivered(u)
                         \/ NoneMoves
  BY <1>3, FetchMoves, QuietMoves, PutMoves, EnlistMoves, DeliverMoves, StoreMoves DEF Loop
<1>4. ASSUME NEW d \in Dnsers, NEW s \in Sites, Running, Answer(d, s)
      PROVE  Control' /\ ((\E us \in SUBSET Urls : AreGivenUp(us)) \/ NoneMoves)
  BY <1>4, QuietMoves, CheckFailMoves DEF Answer
<1> QED
  BY <1>1, <1>2, <1>3, <1>4 DEF Next

LEMMA StepKeepsSole ==
    ASSUME UrlInv, [Next]_vars
    PROVE  Control' /\ Sole'
<1> USE DEF UrlInv
<1>1. ASSUME NEW u \in Urls, Comes(u) \/ IsTaken(u) \/ IsRefused(u) PROVE Sole'
  BY <1>1 DEF Comes, IsTaken, IsRefused, Sole
<1>2. ASSUME NEW u \in Urls, IsPut(u) \/ IsEnlisted(u) \/ IsDelivered(u) PROVE Sole'
  BY <1>2 DEF IsPut, IsEnlisted, IsDelivered, Sole
<1>3. ASSUME NEW us \in SUBSET Urls, AreGivenUp(us) PROVE Sole'
  BY <1>3 DEF AreGivenUp, Sole
<1>4. ASSUME NoneMoves PROVE Sole'
  BY <1>4 DEF NoneMoves, Sole
<1> QED
  BY <1>1, <1>2, <1>3, <1>4, StepMoves

Pairs(X, f) == UNION {{y} \X f[y] : y \in X}

\* Of a family of sets that are empty but for one, which has at most one element, the
\* pairs of an index and an element are at most one.
LEMMA OneAtMost ==
    ASSUME NEW X, NEW f, NEW x \in X, \A y \in X \ {x} : f[y] = {}
    PROVE  /\ f[x] = {} => Cardinality(Pairs(X, f)) = 0
           /\ \A i : f[x] = {i} => Cardinality(Pairs(X, f)) = 1
<1> DEFINE P == Pairs(X, f)
<1>1. P = {x} \X f[x]
  BY DEF Pairs
<1>2. ASSUME f[x] = {}
      PROVE  Cardinality(P) = 0
  <2>1. P = {}
    BY <1>1, <1>2
  <2> QED
    BY <2>1, FS_EmptySet
<1>3. ASSUME NEW i, f[x] = {i}
      PROVE  Cardinality(P) = 1
  <2>1. P = {<<x, i>>}
    BY <1>1, <1>3
  <2> QED
    BY <2>1, FS_Singleton
<1> QED
  BY <1>2, <1>3

Count(holds) == IF holds THEN 1 ELSE 0

LEMMA CountInQueue ==
    ASSUME UrlInv, NEW u \in Urls
    PROVE  Cardinality(InQueue(u)) = Count(u \in Queued)
<1>0. PICK f : f = [d \in Dnsers |-> Positions(dnsq[d], u)]
  OBVIOUS
<1>1. Home[u] \in Dnsers /\ \A d \in Dnsers : dnsq[d] \in Seq(Urls) /\ Distinct(dnsq[d])
  BY HomeType DEF UrlInv, IInv, TypeOK, Control, NoRepetitions
<1>2. \A d \in Dnsers \ {Home[u]} : f[d] = {}
  <2>1. \A d \in Dnsers \ {Home[u]} : u \notin Elements(dnsq[d])
    BY DEF UrlInv, Control, Routed
  <2> QED
    BY <1>0, <1>1, <2>1, PositionsInDistinct
<1>3. InQueue(u) = Pairs(Dnsers, f)
  BY <1>0 DEF InQueue, Pairs
<1>4. CASE u \in Queued
  <2>1. PICK i : f[Home[u]] = {i}
    BY <1>0, <1>1, <1>4, PositionsInDistinct DEF Queued
  <2>2. Cardinality(Pairs(Dnsers, f)) = 1
    BY <1>1, <1>2, <2>1, OneAtMost
  <2> QED
    BY <1>3, <1>4, <2>2 DEF Count
<1>5. CASE u \notin Queued
  <2>1. f[Home[u]] = {}
    BY <1>0, <1>1, <1>5, PositionsInDistinct DEF Queued
  <2>2. Cardinality(Pairs(Dnsers, f)) = 0
    BY <1>1, <1>2, <2>1, OneAtMost
  <2> QED
    BY <1>3, <1>5, <2>2 DEF Count
<1> QED
  BY <1>4, <1>5

LEMMA CountInSched ==
    ASSUME UrlInv, NEW u \in Urls
    PROVE  /\ Cardinality(InSched(u)) = Count(u \in Passed)
           /\ Handed(u) <=> u \in Passed
<1>0. PICK f : f = [k \in Schedulers |-> Positions(schedq[k], u)]
  OBVIOUS
<1>1. Target[u] \in Schedulers
      /\ \A k \in Schedulers : schedq[k] \in Seq(Urls) /\ Distinct(schedq[k])
  BY TargetType DEF UrlInv, IInv, TypeOK, Control, NoRepetitions
<1>2. \A k \in Schedulers \ {Target[u]} : u \notin Elements(schedq[k])
  BY DEF UrlInv, Control, Routed
<1>3. \A k \in Schedulers \ {Target[u]} : f[k] = {}
  BY <1>0, <1>1, <1>2, PositionsInDistinct
<1>4. InSched(u) = Pairs(Schedulers, f)
  BY <1>0 DEF InSched, Pairs
<1>5. Handed(u) <=> u \in Passed
  BY <1>1, <1>2 DEF Handed, Passed
<1>6. CASE u \in Passed
  <2>1. PICK i : f[Target[u]] = {i}
    BY <1>0, <1>1, <1>6, PositionsInDistinct DEF Passed
  <2>2. Cardinality(Pairs(Schedulers, f)) = 1
    BY <1>1, <1>3, <2>1, OneAtMost
  <2> QED
    BY <1>4, <1>5, <1>6, <2>2 DEF Count
<1>7. CASE u \notin Passed
  <2>1. f[Target[u]] = {}
    BY <1>0, <1>1, <1>7, PositionsInDistinct DEF Passed
  <2>2. Cardinality(Pairs(Schedulers, f)) = 0
    BY <1>1, <1>3, <2>1, OneAtMost
  <2> QED
    BY <1>4, <1>5, <1>7, <2>2 DEF Count
<1> QED
  BY <1>6, <1>7

LEMMA CountInTable ==
    ASSUME UrlInv, NEW u \in Urls
    PROVE  Cardinality(InTable(u)) = Count(u \in Listed)
<1> DEFINE X == Dnsers \X Sites  x == <<Home[u], SiteOf[u]>>
<1>0. PICK f : f = [e \in X |-> Waiting(e[1], e[2], u)]
  OBVIOUS
<1>1. x \in X /\ x[1] = Home[u] /\ x[2] = SiteOf[u]
  BY HomeType, SiteOfType
<1>2. \A d \in Dnsers, s \in Sites : table[d][s] \in Seq(Urls) /\ Distinct(table[d][s])
  BY DEF UrlInv, IInv, TypeOK, Control, NoRepetitions
<1>3. ASSUME NEW e \in X \ {x}
      PROVE  f[e] = {}
  <2>1. PICK d \in Dnsers, s \in Sites : e = <<d, s>> /\ e[1] = d /\ e[2] = s
    BY <1>3
  <2>2. ~(d = Home[u] /\ s = SiteOf[u])
    BY <1>3, <2>1
  <2>3. u \notin Elements(table[d][s])
    BY <2>2 DEF UrlInv, Control, Routed, IInv, Addresses, EntriesOfSite, Elements
  <2>4. Positions(table[d][s], u) = {}
    BY <2>3 DEF Positions, Elements
  <2> QED
    BY <1>0, <1>3, <2>1, <2>4 DEF Waiting
<1>4. InTable(u) = Pairs(X, f)
  BY <1>0 DEF InTable, Pairs
<1>5. f[x] = Waiting(Home[u], SiteOf[u], u)
  BY <1>0, <1>1
<1> HIDE DEF X, x
<1>6. CASE u \in Listed
  <2>1. PICK i : i \in Waiting(Home[u], SiteOf[u], u)
    BY <1>6 DEF Listed
  <2>2. Waiting(Home[u], SiteOf[u], u) = {i}
    BY <1>1, <1>2, <2>1, HomeType, SiteOfType DEF Waiting, Positions, Distinct
  <2>3. f[x] = {i}
    BY <1>5, <2>2
  <2>4. Cardinality(Pairs(X, f)) = 1
    BY <1>1, <1>3, <2>3, OneAtMost
  <2> QED
    BY <1>4, <1>6, <2>4 DEF Count
<1>7. CASE u \notin Listed
  <2>1. f[x] = {}
    BY <1>5, <1>7 DEF Listed
  <2>2. Cardinality(Pairs(X, f)) = 0
    BY <1>1, <1>3, <2>1, OneAtMost
  <2> QED
    BY <1>4, <1>7, <2>2 DEF Count
<1> QED
  BY <1>6, <1>7

LEMMA CountElsewhere ==
    ASSUME UrlInv, NEW u \in Urls
    PROVE  /\ Cardinality(Positions(coming, u)) = Count(u \in Coming)
           /\ Cardinality(InHand(u)) = Count(u \in Taken)
           /\ Cardinality(Gone(u)) = Count(u \in dropped)
<1>1. coming \in Seq(Urls) /\ Distinct(coming)
  BY DEF UrlInv, IInv, TypeOK, Control, NoRepetitions
<1>2. Cardinality(Positions(coming, u)) = Count(u \in Coming)
  <2>1. CASE u \in Coming
    <3>1. PICK i : Positions(coming, u) = {i}
      BY <1>1, <2>1, PositionsInDistinct DEF Coming
    <3> QED
      BY <2>1, <3>1, FS_Singleton DEF Count
  <2>2. CASE u \notin Coming
    <3>1. Positions(coming, u) = {}
      BY <1>1, <2>2, PositionsInDistinct DEF Coming
    <3> QED
      BY <2>2, <3>1, FS_EmptySet DEF Count
  <2> QED
    BY <2>1, <2>2
<1>3. Cardinality(InHand(u)) = Count(u \in Taken)
  <2>1. \A d \in Dnsers : cur[d] = u => d = Home[u]
    BY NoUrlIsNoUrl DEF UrlInv, Control, Routed
  <2>2. CASE u \in Taken
    <3>1. InHand(u) = {Home[u]}
      BY <2>1, <2>2, HomeType DEF InHand, Taken
    <3> QED
      BY <2>2, <3>1, FS_Singleton DEF Count
  <2>3. CASE u \notin Taken
    <3>1. InHand(u) = {}
      BY <2>1, <2>3 DEF InHand, Taken
    <3> QED
      BY <2>3, <3>1, FS_EmptySet DEF Count
  <2> QED
    BY <2>2, <2>3
<1>4. Cardinality(Gone(u)) = Count(u \in dropped)
  <2>1. CASE u \in dropped
    <3>1. Gone(u) = {u}
      BY <2>1 DEF Gone
    <3> QED
      BY <2>1, <3>1, FS_Singleton DEF Count
  <2>2. CASE u \notin dropped
    <3>1. Gone(u) = {}
      BY <2>2 DEF Gone
    <3> QED
      BY <2>2, <3>1, FS_EmptySet DEF Count
  <2> QED
    BY <2>1, <2>2
<1> QED
  BY <1>2, <1>3, <1>4

\* PlaceOf counts the places a url is in; there is one, and it is this.
Place(u) ==
    IF u \in Coming THEN "coming" ELSE IF u \in dropped THEN "lost"
    ELSE IF u \in Passed THEN "passed" ELSE "held"

LEMMA PlaceIsKnown ==
    ASSUME UrlInv, NEW u \in Elements(Seeds)
    PROVE  PlaceOf(u) = Place(u)
<1> USE DEF UrlInv
<1>1. u \in Urls
  BY SeedsAreUrls DEF Elements
<1>2. Occurrences(u) =
          Count(u \in Coming) + Count(u \in Queued) + Count(u \in Taken)
              + Count(u \in Listed) + Count(u \in Passed) + Count(u \in dropped)
  BY <1>1, CountElsewhere, CountInQueue, CountInTable, CountInSched DEF Occurrences
<1>3. Occurrences(u) = 1
  <2>1. CASE u \in Coming
    BY <1>2, <2>1 DEF Sole, Count
  <2>2. CASE u \in Queued
    BY <1>2, <2>2 DEF Sole, Count
  <2>3. CASE u \in Taken
    BY <1>2, <2>3 DEF Sole, Count
  <2>4. CASE u \in Listed
    BY <1>2, <2>4 DEF Sole, Count
  <2>5. CASE u \in Passed
    BY <1>2, <2>5 DEF Sole, Count
  <2>6. CASE u \in dropped
    BY <1>2, <2>6 DEF Sole, Count
  <2> QED
    BY <2>1, <2>2, <2>3, <2>4, <2>5, <2>6 DEF Sole
<1>4. Handed(u) <=> u \in Passed
  BY <1>1, CountInSched
<1> QED
  BY <1>3, <1>4 DEF PlaceOf, Place, Coming

PlacesNow == [u \in Elements(Seeds) |-> PlaceOf(u)]
PlacesKnown == [u \in Elements(Seeds) |-> Place(u)]

Mapped == PlacesNow = PlacesKnown

LEMMA PlacesAreKnown == UrlInv => Mapped
BY PlaceIsKnown DEF PlacesNow, PlacesKnown, Mapped

LEMMA InitRefines ==
    ASSUME Init, UrlInv
    PROVE  AsStage!Init
<1>1. \A u \in Elements(Seeds) : u \in Coming
  BY DEF Init, Coming
<1>2. \A u \in Elements(Seeds) : PlaceOf(u) = "coming"
  BY <1>1, PlaceIsKnown DEF Place
<1> QED
  BY <1>2 DEF AsStage!Init

\* A seed that is dealt is taken; one put or delivered is passed on; one refused and those
\* of a failed entry are lost; between the queue, the hands and the table a url stays held.
LEMMA StepRefines ==
    ASSUME UrlInv, UrlInv', [Next]_vars
    PROVE  \/ \E u \in Elements(Seeds) :
                  \/ AsStage!Takes(u, PlacesKnown, PlacesKnown')
                  \/ AsStage!Passes(u, PlacesKnown, PlacesKnown')
           \/ \E us \in SUBSET Elements(Seeds) :
                  AsStage!Loses(us, PlacesKnown, PlacesKnown')
           \/ UNCHANGED PlacesKnown
<1> USE DEF UrlInv, PlacesKnown
<1>1. ASSUME NEW u \in Urls, Comes(u)
      PROVE  u \in Elements(Seeds) /\ AsStage!Takes(u, PlacesKnown, PlacesKnown')
  <2>1. u \in Elements(Seeds) /\ u \notin dropped /\ u \notin Passed
    BY <1>1 DEF Comes, Sole
  <2> QED
    BY <1>1, <2>1 DEF Comes, AsStage!Takes, Place
<1>2. ASSUME NEW u \in Urls, IsTaken(u) \/ IsEnlisted(u)
      PROVE  UNCHANGED PlacesKnown
  BY <1>2 DEF IsTaken, IsEnlisted, Place
<1>3. ASSUME NEW u \in Urls, IsPut(u) \/ IsDelivered(u)
      PROVE  u \in Elements(Seeds) /\ AsStage!Passes(u, PlacesKnown, PlacesKnown')
  <2>1. /\ u \in Elements(Seeds) /\ u \notin Coming /\ u \notin dropped /\ u \notin Passed
        /\ Passed' = Passed \cup {u} /\ UNCHANGED <<Coming, dropped>>
    BY <1>3 DEF IsPut, IsDelivered, Sole
  <2> QED
    BY <2>1 DEF AsStage!Passes, Place
<1>4. ASSUME NEW us \in SUBSET Elements(Seeds), dropped' = dropped \cup us,
             us \cap (Coming \cup Passed \cup dropped) = {}, UNCHANGED <<Coming, Passed>>
      PROVE  AsStage!Loses(us, PlacesKnown, PlacesKnown')
  <2>1. \A u \in us : Place(u) = "held"
    BY <1>4 DEF Place
  <2>2. \A u \in Elements(Seeds) : Place(u)' = IF u \in us THEN "lost" ELSE Place(u)
    BY <1>4 DEF Place
  <2> QED
    BY <2>1, <2>2 DEF AsStage!Loses
<1>5. ASSUME NEW u \in Urls, IsRefused(u)
      PROVE  AsStage!Loses({u}, PlacesKnown, PlacesKnown') /\ {u} \subseteq Elements(Seeds)
  <2>1. /\ {u} \subseteq Elements(Seeds) /\ {u} \cap (Coming \cup Passed \cup dropped) = {}
        /\ dropped' = dropped \cup {u} /\ UNCHANGED <<Coming, Passed>>
    BY <1>5 DEF IsRefused, Sole
  <2> QED
    BY <1>4, <2>1
<1>6. ASSUME NEW us \in SUBSET Urls, AreGivenUp(us)
      PROVE  AsStage!Loses(us, PlacesKnown, PlacesKnown') /\ us \subseteq Elements(Seeds)
  <2>1. /\ us \subseteq Elements(Seeds) /\ us \cap (Coming \cup Passed \cup dropped) = {}
        /\ dropped' = dropped \cup us /\ UNCHANGED <<Coming, Passed>>
    BY <1>6 DEF AreGivenUp, Sole
  <2> QED
    BY <1>4, <2>1
<1>7. CASE NoneMoves
  BY <1>7 DEF NoneMoves, Place
<1> HIDE DEF UrlInv, PlacesKnown
<1> QED
  BY <1>1, <1>2, <1>3, <1>5, <1>6, <1>7, StepMoves

\* The types, Control and Sole hold for ever.
LEMMA UrlsAreSole == Spec => []UrlInv
<1>1. Init => UrlInv
  BY InitHolds, InitSole DEF UrlInv
<1>2. UrlInv /\ [Next]_vars => UrlInv'
  BY StepKeepsInvariant, StepKeepsSole DEF UrlInv
<1> QED
  BY <1>1, <1>2, PTL DEF Spec

\* dnser_task.cc: whatever the name server answers, a seed that is dealt to a dnser
\* leaves it once, for a scheduler or given up, by its own query, another's or the cache.
THEOREM DnsersAreAStage == Spec => ImplementsStage
<1>1. Init /\ UrlInv => AsStage!Init
  BY InitRefines
<1>2. UrlInv /\ UrlInv' /\ Mapped /\ Mapped' /\ [Next]_vars => [AsStage!Next]_PlacesNow
  <2> SUFFICES ASSUME UrlInv, UrlInv', Mapped, Mapped', [Next]_vars
               PROVE  [AsStage!Next]_PlacesNow
    OBVIOUS
  <2>1. PlacesNow = PlacesKnown /\ PlacesNow' = PlacesKnown'
    BY DEF Mapped
  <2>2. CASE UNCHANGED PlacesKnown
    BY <2>1, <2>2
  <2>3. ASSUME NEW u \in Elements(Seeds),
               \/ AsStage!Takes(u, PlacesNow, PlacesNow')
               \/ AsStage!Passes(u, PlacesNow, PlacesNow')
        PROVE  AsStage!Next
    BY <2>3 DEF AsStage!Next, PlacesNow
  <2>4. ASSUME NEW us \in SUBSET Elements(Seeds), AsStage!Loses(us, PlacesNow, PlacesNow')
        PROVE  AsStage!Next
    BY <2>4 DEF AsStage!Next, PlacesNow
  <2> QED
    BY <2>1, <2>2, <2>3, <2>4, StepRefines
<1> QED
  BY <1>1, <1>2, UrlsAreSole, PlacesAreKnown, PTL
     DEF Spec, ImplementsStage, AsStage!Spec, PlacesNow
===============================================================================
