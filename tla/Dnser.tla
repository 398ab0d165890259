-------------------------------- MODULE Dnser --------------------------------
(***************************************************************************)
(* The dnser threads (dnser_task.cc), the lookup table each keeps of the   *)
(* sites it is resolving, the DnsCache they share (dns_cache.cc), and the  *)
(* asynchronous resolver library adns, which works only while it is        *)
(* polled.  A step is one access to state that others see: a pop, a cache  *)
(* access, a push, one poll of adns.                                       *)
(***************************************************************************)
EXTENDS Naturals, Sequences, FiniteSets

CONSTANTS
    Dnsers, Schedulers,     \* thread ids
    Urls, Sites, Ips,       \* Url objects, host names, addresses
    Seeds,                  \* the seed urls in the order of the configuration
    SiteOf,                 \* the site of a Url
    Home,                   \* md5.shuffle(_dnser_num)
    Target,                 \* md5.shuffle(_scheduler_num)
    Answers,                \* the addresses the name server may answer for a site
    Names, Aliases,         \* names that adns is asked for; what each may be an alias of
    NoUrl, NoSite           \* nothing

ASSUME SeedsAreUrls == Seeds \in Seq(Urls)
ASSUME SeedsAreObjects == \A i, j \in 1..Len(Seeds) : Seeds[i] = Seeds[j] => i = j
ASSUME SiteOfType == SiteOf \in [Urls -> Sites]
ASSUME HomeType == Home \in [Urls -> Dnsers]
ASSUME TargetType == Target \in [Urls -> Schedulers]
ASSUME AnswersType == Answers \in [Sites -> SUBSET ((SUBSET Ips) \ {{}})]
ASSUME NoUrlIsNoUrl == NoUrl \notin Urls
ASSUME SitesAreNames == Sites \subseteq Names
ASSUME AliasesType == Aliases \in [Names -> SUBSET Names]

VARIABLES
    coming,     \* seeds that Global::init has not dealt yet
    dnsq,       \* _url_queue of each dnser
    schedq,     \* the schedulers' queues
    cache,      \* DnsCache::_dns; {} where there is no entry
    status,     \* Url::_status
    ips,        \* Url::_ips
    pc,         \* where each dnser is in main_loop
    cur,        \* url_p
    table,      \* _is_dnsing_lutable; <<>> where there is no entry
    asked,      \* adns: the queries in flight whose context is that entry
    name,       \* the name asked for with that entry: the site, or an alias
    site,       \* check_once: the site just resolved
    found,      \* the addresses just found or received
    next,       \* check_once: how many urls have been handed over
    dropped     \* urls abandoned by a dnser

dnserVars == <<dnsq, schedq, cache, status, ips, pc, cur, table, asked, name,
          site, found, next, dropped>>
vars == <<coming, dnserVars>>

Elements(seq) == {seq[i] : i \in 1..Len(seq)}

\* Url::Url leaves every seed INITIALIZED; Global::init skips the others.
Init ==
    /\ coming = Seeds
    /\ dnsq = [d \in Dnsers |-> <<>>]
    /\ schedq = [s \in Schedulers |-> <<>>]
    /\ cache = [s \in Sites |-> {}]
    /\ status = [u \in Urls |-> "INITIALIZED"]
    /\ ips = [u \in Urls |-> {}]
    /\ pc = [d \in Dnsers |-> "fetch"]
    /\ cur = [d \in Dnsers |-> NoUrl]
    /\ table = [d \in Dnsers |-> [s \in Sites |-> <<>>]]
    /\ asked = [d \in Dnsers |-> [s \in Sites |-> 0]]
    /\ name = [d \in Dnsers |-> [s \in Sites |-> s]]
    /\ site = [d \in Dnsers |-> NoSite]
    /\ found = [d \in Dnsers |-> {}]
    /\ next = [d \in Dnsers |-> 0]
    /\ dropped = {}

\* Global::init deals the seeds out, before any thread is started.
Deal ==
    /\ coming # <<>>
    /\ coming' = Tail(coming)
    /\ dnsq' = [dnsq EXCEPT ![Home[Head(coming)]] = Append(@, Head(coming))]
    /\ UNCHANGED <<schedq, cache, status, ips, pc, cur, table, asked, name, site,
                   found, next, dropped>>
Running == coming = <<>> /\ UNCHANGED coming

\* _is_dnsing_lutable.size() == 0
NothingPending(d) == \A s \in Sites : table[d][s] = <<>>

Goto(d, place) == pc' = [pc EXCEPT ![d] = place]

-------------------------------------------------------------------------------
(* main_loop: fetch one url, look its site up. *)

\* pop, which blocks, when nothing is being resolved; try_pop otherwise.
Fetch(d) ==
    /\ pc[d] = "fetch"
    /\ dnsq[d] # <<>>
    /\ LET u == Head(dnsq[d]) IN
       /\ dnsq' = [dnsq EXCEPT ![d] = Tail(@)]
       /\ IF status[u] = "INITIALIZED"
          THEN /\ cur' = [cur EXCEPT ![d] = u]
               /\ Goto(d, "find")
               /\ UNCHANGED dropped
          ELSE /\ dropped' = dropped \cup {u}
               /\ Goto(d, "check")
               /\ UNCHANGED cur
    /\ UNCHANGED <<schedq, cache, status, ips, table, asked, name, site, found, next>>

\* Mutant: the dnser always blocks in pop.
TryPopBlocking(d) == FALSE

TryPopFails(d) ==
    /\ pc[d] = "fetch"
    /\ dnsq[d] = <<>>
    /\ ~NothingPending(d)
    /\ Goto(d, "check")
    /\ UNCHANGED <<dnsq, schedq, cache, status, ips, cur, table, asked, name,
                   site, found, next, dropped>>

\* DnsCache::find under the read lock.
FindHit(d) ==
    /\ pc[d] = "find"
    /\ cache[SiteOf[cur[d]]] # {}
    /\ found' = [found EXCEPT ![d] = cache[SiteOf[cur[d]]]]
    /\ Goto(d, "put")
    /\ UNCHANGED <<dnsq, schedq, cache, status, ips, cur, table, asked, name,
                   site, next, dropped>>

FindMiss(d) ==
    /\ pc[d] = "find"
    /\ cache[SiteOf[cur[d]]] = {}
    /\ Goto(d, "enlist")
    /\ UNCHANGED <<dnsq, schedq, cache, status, ips, cur, table, asked, name,
                   site, found, next, dropped>>

\* Mutant: put_url_into_scheduler without set_ip.
HandOverUnset(u, addrs) ==
    /\ schedq' = [schedq EXCEPT ![Target[u]] = Append(@, u)]
    /\ UNCHANGED <<ips, status>>

\* Url::set_ip, then put_url_into_scheduler: the url is complete before
\* another thread can see it.
HandOver(u, addrs) ==
    /\ ips' = [ips EXCEPT ![u] = addrs]
    /\ status' = [status EXCEPT ![u] = "DNSED"]
    /\ schedq' = [schedq EXCEPT ![Target[u]] = Append(@, u)]

Put(d) ==
    /\ pc[d] = "put"
    /\ HandOver(cur[d], found[d])
    /\ cur' = [cur EXCEPT ![d] = NoUrl]
    /\ found' = [found EXCEPT ![d] = {}]
    /\ Goto(d, "check")
    /\ UNCHANGED <<dnsq, cache, table, asked, name, site, next, dropped>>

-------------------------------------------------------------------------------
(* submit_once, and the two ways a url enters the lookup table. *)

\* An error of adns_submit is logged and otherwise ignored; n queries with this
\* context are in flight besides the new one.
SubmitOnce(d, s, n) ==
    \/ asked' = [asked EXCEPT ![d][s] = n + 1]
    \/ asked' = [asked EXCEPT ![d][s] = n]

EnlistFirst(d) ==
    LET u == cur[d]  s == SiteOf[u] IN
    /\ pc[d] = "enlist"
    /\ table[d][s] = <<>>
    /\ table' = [table EXCEPT ![d][s] = <<u>>]
    /\ name' = [name EXCEPT ![d][s] = s]
    /\ SubmitOnce(d, s, asked[d][s])
    /\ cur' = [cur EXCEPT ![d] = NoUrl]
    /\ Goto(d, "check")
    /\ UNCHANGED <<dnsq, schedq, cache, status, ips, site, found, next, dropped>>

\* Mutant: every url sends a query of its own.
EnlistAndSubmit(d) ==
    LET u == cur[d]  s == SiteOf[u] IN
    /\ pc[d] = "enlist"
    /\ table[d][s] # <<>>
    /\ table' = [table EXCEPT ![d][s] = Append(@, u)]
    /\ SubmitOnce(d, s, asked[d][s])
    /\ cur' = [cur EXCEPT ![d] = NoUrl]
    /\ Goto(d, "check")
    /\ UNCHANGED <<dnsq, schedq, cache, status, ips, name, site, found, next, dropped>>

EnlistLater(d) ==
    LET u == cur[d]  s == SiteOf[u] IN
    /\ pc[d] = "enlist"
    /\ table[d][s] # <<>>
    /\ table' = [table EXCEPT ![d][s] = Append(@, u)]
    /\ cur' = [cur EXCEPT ![d] = NoUrl]
    /\ Goto(d, "check")
    /\ UNCHANGED <<dnsq, schedq, cache, status, ips, asked, name, site, found,
                   next, dropped>>

-------------------------------------------------------------------------------
(* check_once: one poll of adns, which hands back at most one answer. *)

CheckNothing(d) ==
    /\ pc[d] = "check"
    /\ Goto(d, "fetch")
    /\ UNCHANGED <<dnsq, schedq, cache, status, ips, cur, table, asked, name,
                   site, found, next, dropped>>

Answered(d, s) ==
    /\ pc[d] = "check"
    /\ asked[d][s] > 0

CheckOk(d, s) ==
    /\ Answered(d, s)
    /\ \E addrs \in Answers[s] : found' = [found EXCEPT ![d] = addrs]
    /\ asked' = [asked EXCEPT ![d][s] = @ - 1]
    /\ site' = [site EXCEPT ![d] = s]
    /\ next' = [next EXCEPT ![d] = 0]
    /\ Goto(d, "deliver")
    /\ UNCHANGED <<dnsq, schedq, cache, status, ips, cur, table, name, dropped>>

\* The loop over the urls of the entry.
Deliver(d) ==
    LET urls == table[d][site[d]] IN
    /\ pc[d] = "deliver"
    /\ next[d] < Len(urls)
    /\ HandOver(urls[next[d] + 1], found[d])
    /\ next' = [next EXCEPT ![d] = @ + 1]
    /\ UNCHANGED <<dnsq, cache, pc, cur, table, asked, name, site, found, dropped>>

\* Mutant: the entry stays in the lookup table.
StoreKeeping(d) ==
    /\ pc[d] = "deliver"
    /\ next[d] = Len(table[d][site[d]])
    /\ cache' = [cache EXCEPT ![site[d]] = found[d]]
    /\ site' = [site EXCEPT ![d] = NoSite]
    /\ found' = [found EXCEPT ![d] = {}]
    /\ next' = [next EXCEPT ![d] = 0]
    /\ Goto(d, "fetch")
    /\ UNCHANGED <<dnsq, schedq, status, ips, cur, table, asked, name, dropped>>

\* The entry goes, then DnsCache::insert under the write lock.
Store(d) ==
    /\ pc[d] = "deliver"
    /\ next[d] = Len(table[d][site[d]])
    /\ table' = [table EXCEPT ![d][site[d]] = <<>>]
    /\ cache' = [cache EXCEPT ![site[d]] = found[d]]
    /\ site' = [site EXCEPT ![d] = NoSite]
    /\ found' = [found EXCEPT ![d] = {}]
    /\ next' = [next EXCEPT ![d] = 0]
    /\ Goto(d, "fetch")
    /\ UNCHANGED <<dnsq, schedq, status, ips, cur, asked, name, dropped>>

\* adns_s_prohibitedcname: the alias is asked for, with the same entry, however many
\* have been asked for before: nothing reads _has_dnsed_cname.
CheckCname(d, s) ==
    /\ Answered(d, s)
    /\ \E alias \in Aliases[name[d][s]] : name' = [name EXCEPT ![d][s] = alias]
    /\ SubmitOnce(d, s, asked[d][s] - 1)
    /\ Goto(d, "fetch")
    /\ UNCHANGED <<dnsq, schedq, cache, status, ips, cur, table, site, found,
                   next, dropped>>

\* Any other status, or records that are not IPv4: the entry and its urls go.
CheckFail(d, s) ==
    /\ Answered(d, s)
    /\ asked' = [asked EXCEPT ![d][s] = @ - 1]
    /\ table' = [table EXCEPT ![d][s] = <<>>]
    /\ dropped' = dropped \cup Elements(table[d][s])
    /\ Goto(d, "fetch")
    /\ UNCHANGED <<dnsq, schedq, cache, status, ips, cur, name, site, found, next>>

-------------------------------------------------------------------------------

Answer(d, s) == CheckOk(d, s) \/ CheckCname(d, s) \/ CheckFail(d, s)

Loop(d) ==
    \/ Fetch(d) \/ TryPopFails(d) \/ FindHit(d) \/ FindMiss(d) \/ Put(d)
    \/ EnlistFirst(d) \/ EnlistLater(d) \/ CheckNothing(d)
    \/ Deliver(d) \/ Store(d)

Next ==
    \/ Deal
    \/ \E d \in Dnsers : Running /\ (Loop(d) \/ \E s \in Sites : Answer(d, s))

Spec == Init /\ [][Next]_vars

\* main comes to start the dnsers, and a dnser that can go on does.  adns retries and
\* times out, so a query that is polled again and again is answered; one that is never
\* polled is not.
Fairness ==
    /\ WF_vars(Deal)
    /\ \A d \in Dnsers :
          /\ WF_vars(Running /\ Loop(d))
          /\ \A s \in Sites : SF_vars(Running /\ Answer(d, s))

FairSpec == Spec /\ Fairness

-------------------------------------------------------------------------------
(* Properties. *)

TypeOK ==
    /\ coming \in Seq(Urls)
    /\ dnsq \in [Dnsers -> Seq(Urls)]
    /\ schedq \in [Schedulers -> Seq(Urls)]
    /\ cache \in [Sites -> SUBSET Ips]
    /\ status \in [Urls -> {"INITIALIZED", "DNSED"}]
    /\ ips \in [Urls -> SUBSET Ips]
    /\ pc \in [Dnsers -> {"fetch", "find", "put", "enlist", "check", "deliver"}]
    /\ cur \in [Dnsers -> Urls \cup {NoUrl}]
    /\ table \in [Dnsers -> [Sites -> Seq(Urls)]]
    /\ asked \in [Dnsers -> [Sites -> Nat]]
    /\ name \in [Dnsers -> [Sites -> Names]]
    /\ site \in [Dnsers -> Sites \cup {NoSite}]
    /\ found \in [Dnsers -> SUBSET Ips]
    /\ next \in [Dnsers -> Nat]
    /\ dropped \in SUBSET Urls

\* The context that adns hands back is a pointer to a table entry, which
\* check_once dereferences: while a query is in flight its entry exists, and no
\* second query shares it (the first answer would erase it under the other).
ContextIsLive ==
    \A d \in Dnsers, s \in Sites :
        asked[d][s] > 0 => asked[d][s] = 1 /\ table[d][s] # <<>>

\* A url that reached a scheduler carries addresses its own site was resolved
\* to, whether they came from the cache, from its query or from a query that
\* another url of the site had started.
HandedOverResolved ==
    \A k \in Schedulers : \A u \in Elements(schedq[k]) :
        status[u] = "DNSED" /\ ips[u] \in Answers[SiteOf[u]]

\* The number of places that hold a url: the seeds to come, a dnser's queue, its hands,
\* its table (less what is already handed over), a scheduler's queue, or nowhere any
\* more.
Positions(seq, u) == {i \in 1..Len(seq) : seq[i] = u}
InQueue(u) == UNION {{d} \X Positions(dnsq[d], u) : d \in Dnsers}
InHand(u) == {d \in Dnsers : cur[d] = u}
Waiting(d, s, u) ==
    {i \in Positions(table[d][s], u) : ~(site[d] = s /\ i <= next[d])}
InTable(u) == UNION {{e} \X Waiting(e[1], e[2], u) : e \in Dnsers \X Sites}
InSched(u) == UNION {{k} \X Positions(schedq[k], u) : k \in Schedulers}
Gone(u) == {u} \cap dropped
Occurrences(u) ==
    Cardinality(Positions(coming, u)) + Cardinality(InQueue(u)) + Cardinality(InHand(u))
        + Cardinality(InTable(u)) + Cardinality(InSched(u)) + Cardinality(Gone(u))

Handed(u) == \E k \in Schedulers : u \in Elements(schedq[k])

\* The dnsers are a stage: between the queues, the table and the cache no url is lost
\* or doubled, whether it is passed on by its own query, by that of another url or
\* from the cache, and none comes back.
PlaceOf(u) ==
    IF Occurrences(u) # 1 THEN "in no place or in two"
    ELSE IF u \in Elements(coming) THEN "coming" ELSE IF u \in dropped THEN "lost"
    ELSE IF Handed(u) THEN "passed" ELSE "held"
AsStage == INSTANCE Stage WITH
    Urls <- Elements(Seeds),
    place <- [u \in Elements(Seeds) |-> PlaceOf(u)]
ImplementsStage == AsStage!Spec

\* A url that waits in the table without having sent a query of its own waits
\* for a query that is in flight, or for an answer being handed out.
JoinedQueryInFlight ==
    \A d \in Dnsers, s \in Sites :
        Len(table[d][s]) > 1 => asked[d][s] = 1 \/ site[d] = s

\* An adns_submit that failed has left the url's entry without a query.
Stranded(u) ==
    \E d \in Dnsers :
        /\ u \in Elements(table[d][SiteOf[u]])
        /\ asked[d][SiteOf[u]] = 0 /\ site[d] # SiteOf[u]

\* Aliases of that name may lead from one to the next for ever.
Endless(n) ==
    \E loop \in SUBSET Names : n \in loop /\ \A m \in loop : Aliases[m] \cap loop # {}
Chased(u) ==
    \E d \in Dnsers :
        u \in Elements(table[d][SiteOf[u]]) /\ Endless(name[d][SiteOf[u]])

\* Every seed is handed over or given up in the end, unless it is stranded behind
\* a failed adns_submit or waits for a name whose aliases go round: the dnser keeps
\* polling as long as something is pending, follows a chain of aliases to its end,
\* and neither a stranded site nor a ring of aliases holds up the others.
Settled(u) == u \in dropped \/ Handed(u)
EverySeedSettles ==
    \A u \in Elements(Seeds) : <>(Settled(u) \/ Stranded(u) \/ Chased(u))
===============================================================================
