--------------------------- MODULE DownloaderProofs ---------------------------
(***************************************************************************)
(* Theorems about the sockets and buffers of a downloader, that it is a    *)
(* stage, that tries run out, whose answers its pages are, and that bodies *)
(* are read as they were written, for any urls, sites, descriptors,        *)
(* retries and responses.                                                  *)
(***************************************************************************)
EXTENDS Downloader, FiniteSetTheorems, SequenceTheorems, WellFoundedInduction, TLAPS

\* The types the argument needs; what is in a connection does not matter to it.
SocketTypes ==
    /\ conn \in [Sites -> Fds \cup {NoFd}] /\ open \subseteq Fds
    /\ leaked \subseteq open /\ peer \in [Fds -> Sites \cup {NoSite}]

Shape ==
    /\ SocketTypes
    /\ urlq \in Seq(Urls) /\ coming \in Seq(Urls)
    /\ pc \in {"pop", "admit", "timeout", "send", "header", "analyse", "body"}
    /\ pc # "pop" => cur \in Urls

\* From the connection to the end of the iteration the descriptor in hand is the one
\* that the map has for the site of the url.
Connected == {"timeout", "send", "header", "analyse", "body"}
InHand == pc \in Connected => fd \in Fds /\ fd = conn[site]

\* What a failing fcntl left open is no socket of the map.
LeakedApart == \A s \in Sites : conn[s] \notin leaked

Sockets == MapIsLive /\ NoLeakedSocket /\ LeakedApart
IInv == Shape /\ InHand /\ Sockets /\ BufferReturned

LEMMA SiteIsSite == ASSUME cur \in Urls PROVE site \in Sites
BY SiteOfType DEF site

-------------------------------------------------------------------------------
(* What an action does to the map and the descriptors. *)

\* close and erase together keep the map and the descriptors in step.
LEMMA ClosingKeepsSockets ==
    ASSUME SocketTypes, Sockets, site \in Sites, NEW f \in Fds, f = conn[site],
           CloseConnection(f)
    PROVE  SocketTypes' /\ Sockets'
<1> USE NoFdIsNoFd DEF SocketTypes, CloseConnection
<1>1. f \notin leaked
  BY DEF Sockets, LeakedApart
<1>2. SocketTypes'
  BY <1>1
<1>3. \A s \in Sites : conn'[s] = IF s = site THEN NoFd ELSE conn[s]
  OBVIOUS
<1>4. \A s \in Sites : s # site /\ conn[s] # NoFd => conn[s] # f
  BY DEF Sockets, MapIsLive
<1>5. MapIsLive'
  BY <1>3, <1>4 DEF Sockets, MapIsLive
<1>6. NoLeakedSocket'
  BY <1>1, <1>3 DEF Sockets, NoLeakedSocket
<1>7. LeakedApart'
  BY <1>3 DEF Sockets, LeakedApart
<1> QED
  BY <1>2, <1>5, <1>6, <1>7 DEF Sockets

LEMMA KeepingKeepsSockets ==
    ASSUME SocketTypes, Sockets, UNCHANGED <<conn, open, peer, leaked>>
    PROVE  SocketTypes' /\ Sockets'
BY DEF SocketTypes, Sockets, MapIsLive, NoLeakedSocket, LeakedApart

\* The kernel gives a descriptor that is not open, so it is not in the map either.
LEMMA CreatingKeepsSockets ==
    ASSUME IInv, CreateConnection
    PROVE  SocketTypes' /\ Sockets' /\ fd' \in Fds /\ fd' = conn'[site]
<1> USE NoFdIsNoFd
<1>1. site \in Sites
  BY SiteIsSite DEF IInv, Shape, CreateConnection, NeedsConnection
<1>2. PICK f \in Fds \ open :
          /\ fd' = f /\ open' = open \cup {f}
          /\ peer' = [peer EXCEPT ![f] = site] /\ conn' = [conn EXCEPT ![site] = f]
  BY DEF CreateConnection
<1>3. leaked' = leaked /\ conn[site] = NoFd
  BY DEF CreateConnection, NeedsConnection
<1>4. SocketTypes'
  BY <1>1, <1>2, <1>3 DEF IInv, Shape, SocketTypes
<1>5. \A s \in Sites : conn'[s] = IF s = site THEN f ELSE conn[s]
  BY <1>1, <1>2 DEF IInv, Shape, SocketTypes
<1>6. \A g \in Fds : peer'[g] = IF g = f THEN site ELSE peer[g]
  BY <1>2 DEF IInv, Shape, SocketTypes
<1>7. \A s \in Sites : conn[s] # f
  BY <1>2 DEF IInv, Sockets, MapIsLive
<1>8. \A s \in Sites : conn[s] \in Fds \cup {NoFd}
  BY DEF IInv, Shape, SocketTypes
<1>9. MapIsLive'
  BY <1>2, <1>5, <1>6, <1>7, <1>8 DEF IInv, Sockets, MapIsLive
<1>10. NoLeakedSocket'
  BY <1>1, <1>2, <1>3, <1>5 DEF IInv, Shape, SocketTypes, Sockets, NoLeakedSocket
<1>11. LeakedApart'
  BY <1>2, <1>3, <1>5 DEF IInv, Shape, SocketTypes, Sockets, LeakedApart
<1> QED
  BY <1>1, <1>2, <1>4, <1>5, <1>9, <1>10, <1>11 DEF Sockets

\* A descriptor that fcntl leaves open is nobody's.
LEMMA LeakingKeepsSockets ==
    ASSUME IInv, CreateConnectionLeaks
    PROVE  SocketTypes' /\ Sockets'
<1>1. PICK f \in Fds \ open : open' = open \cup {f} /\ leaked' = leaked \cup {f}
  BY DEF CreateConnectionLeaks
<1>2. conn' = conn /\ peer' = peer
  BY DEF CreateConnectionLeaks
<1>3. \A s \in Sites : conn[s] # f
  BY <1>1, NoFdIsNoFd DEF IInv, Sockets, MapIsLive
<1>4. SocketTypes'
  BY <1>1, <1>2 DEF IInv, Shape, SocketTypes
<1>5. MapIsLive'
  BY <1>1, <1>2 DEF IInv, Sockets, MapIsLive
<1>6. NoLeakedSocket'
  BY <1>1, <1>2 DEF IInv, Sockets, NoLeakedSocket
<1>7. LeakedApart'
  BY <1>1, <1>2, <1>3 DEF IInv, Sockets, LeakedApart
<1> QED
  BY <1>4, <1>5, <1>6, <1>7 DEF Sockets

-------------------------------------------------------------------------------
(* The ways through main_loop. *)

\* The end of an iteration leaves no descriptor in hand and no buffer borrowed.
LEMMA EndKeepsInvariant ==
    ASSUME IInv, EndIteration, urlq' \in Seq(Urls), buffers' = 0,
           SocketTypes', Sockets'
    PROVE  IInv'
BY DEF IInv, Shape, InHand, Connected, BufferReturned, EndIteration

\* A retry pushes the url at hand back.
LEMMA RetryKeepsInvariant ==
    ASSUME IInv, pc # "pop", Retry, buffers' = 0, SocketTypes', Sockets'
    PROVE  IInv'
<1>1. urlq' \in Seq(Urls) /\ EndIteration
  BY DEF Retry, IInv, Shape
<1> QED
  BY <1>1, EndKeepsInvariant

LEMMA DropKeepsInvariant ==
    ASSUME IInv, Drop, buffers' = 0, SocketTypes', Sockets'
    PROVE  IInv'
<1>1. urlq' \in Seq(Urls) /\ EndIteration
  BY DEF Drop, IInv, Shape
<1> QED
  BY <1>1, EndKeepsInvariant

\* A step on the way keeps the descriptor, the map and the url.
LEMMA GoingOnKeepsInvariant ==
    ASSUME IInv, pc \in Connected, pc' \in Connected,
           UNCHANGED <<coming, urlq, cur, fd, conn, open, peer, leaked>>,
           BufferReturned'
    PROVE  IInv'
<1>1. SocketTypes' /\ Sockets'
  BY KeepingKeepsSockets DEF IInv, Shape
<1> QED
  BY <1>1 DEF IInv, Shape, InHand, Connected, site

\* The descriptor in hand is open and the map's.
LEMMA HandKnown ==
    ASSUME IInv, pc \in Connected
    PROVE  site \in Sites /\ fd \in Fds /\ fd = conn[site]
           /\ SocketTypes /\ Sockets
BY SiteIsSite DEF IInv, Shape, InHand, Connected

LEMMA InitHolds == Init => IInv
<1> SUFFICES ASSUME Init PROVE IInv
  OBVIOUS
<1>1. Shape
  BY ArrivalsType DEF Init, Shape, SocketTypes
<1>2. Sockets
  BY DEF Init, Sockets, MapIsLive, NoLeakedSocket, LeakedApart
<1>3. InHand /\ BufferReturned
  BY DEF Init, InHand, Connected, BufferReturned
<1> QED
  BY <1>1, <1>2, <1>3 DEF IInv

LEMMA StepKeepsInvariant == IInv /\ [Next]_vars => IInv'
<1> SUFFICES ASSUME IInv, [Next]_vars PROVE IInv'
  OBVIOUS
<1> USE DEF Connected
<1>1. CASE Arrive
  <2>1. coming' \in Seq(Urls) /\ urlq' \in Seq(Urls)
    BY <1>1 DEF Arrive, IInv, Shape
  <2>2. SocketTypes' /\ Sockets'
    BY <1>1, KeepingKeepsSockets DEF Arrive, IInv, Shape
  <2> QED
    BY <1>1, <2>1, <2>2 DEF Arrive, IInv, Shape, InHand, BufferReturned, site
<1>2. CASE Pop
  <2>1. urlq' \in Seq(Urls) /\ cur' \in Urls
    BY <1>2 DEF Pop, IInv, Shape
  <2>2. SocketTypes' /\ Sockets'
    BY <1>2, KeepingKeepsSockets DEF Pop, IInv, Shape
  <2> QED
    BY <1>2, <2>1, <2>2 DEF Pop, IInv, Shape, InHand, BufferReturned
<1>3. CASE GiveUp
  <2>1. site \in Sites
    BY <1>3, SiteIsSite DEF GiveUp, IInv, Shape
  <2>2. CASE conn[site] = NoFd
    BY <1>3, <2>2, KeepingKeepsSockets, DropKeepsInvariant
       DEF GiveUp, KeepConnection, IInv, Shape, BufferReturned
  <2>3. CASE conn[site] # NoFd
    <3>1. conn[site] \in Fds /\ CloseConnection(conn[site])
      BY <1>3, <2>1, <2>3 DEF GiveUp, IInv, Shape, SocketTypes
    <3>2. SocketTypes' /\ Sockets'
      BY <2>1, <3>1, ClosingKeepsSockets DEF IInv, Shape
    <3> QED
      BY <1>3, <3>2, DropKeepsInvariant DEF GiveUp, IInv, BufferReturned
  <2> QED
    BY <2>2, <2>3
<1>4. CASE Reuse
  <2>1. site \in Sites
    BY <1>4, SiteIsSite DEF Reuse, IInv, Shape
  <2>2. SocketTypes' /\ Sockets'
    BY <1>4, KeepingKeepsSockets DEF Reuse, IInv, Shape
  <2>3. InHand'
    BY <1>4, <2>1 DEF Reuse, IInv, Shape, SocketTypes, InHand, site
  <2> QED
    BY <1>4, <2>2, <2>3 DEF Reuse, IInv, Shape, BufferReturned
<1>5. CASE CreateConnection
  <2>1. SocketTypes' /\ Sockets' /\ fd' \in Fds /\ fd' = conn'[site]
    BY <1>5, CreatingKeepsSockets
  <2> QED
    BY <1>5, <2>1
       DEF CreateConnection, NeedsConnection, IInv, Shape, InHand, BufferReturned, site
<1>6. CASE CreateConnectionFails
  BY <1>6, KeepingKeepsSockets, RetryKeepsInvariant
     DEF CreateConnectionFails, NeedsConnection, KeepConnection, IInv, Shape, BufferReturned
<1>7. CASE CreateConnectionLeaks
  BY <1>7, LeakingKeepsSockets, RetryKeepsInvariant
     DEF CreateConnectionLeaks, NeedsConnection, IInv, BufferReturned
<1>8. CASE SetTimeout
  BY <1>8, GoingOnKeepsInvariant DEF SetTimeout, IInv, BufferReturned
<1>9. CASE SetTimeoutFails
  BY <1>9, KeepingKeepsSockets, RetryKeepsInvariant
     DEF SetTimeoutFails, KeepConnection, IInv, Shape, BufferReturned
<1>10. CASE Send
  BY <1>10, GoingOnKeepsInvariant DEF Send, IInv, BufferReturned
<1>11. CASE SendFails
  BY <1>11, HandKnown, ClosingKeepsSockets, RetryKeepsInvariant
     DEF SendFails, IInv, BufferReturned
<1>12. CASE RecvHeader
  BY <1>12, GoingOnKeepsInvariant DEF RecvHeader, IInv, BufferReturned
<1>13. CASE RecvHeaderTooLong
  BY <1>13, KeepingKeepsSockets, DropKeepsInvariant
     DEF RecvHeaderTooLong, IInv, Shape, BufferReturned
<1>14. CASE RecvHeaderFails
  BY <1>14, HandKnown, ClosingKeepsSockets, RetryKeepsInvariant
     DEF RecvHeaderFails, IInv, BufferReturned
<1>15. CASE Analyse
  BY <1>15, GoingOnKeepsInvariant DEF Analyse, IInv, BufferReturned
<1>16. CASE AnalyseFails
  BY <1>16, KeepingKeepsSockets, DropKeepsInvariant
     DEF AnalyseFails, KeepConnection, IInv, Shape, BufferReturned
<1>17. CASE RecvBody
  <2>1. SocketTypes' /\ Sockets'
    BY <1>17, HandKnown, ClosingKeepsSockets, KeepingKeepsSockets DEF RecvBody
  <2> QED
    BY <1>17, <2>1, EndKeepsInvariant DEF RecvBody, IInv, Shape, BufferReturned
<1>18. CASE RecvBodyRefused
  <2>1. SocketTypes' /\ Sockets'
    BY <1>18, HandKnown, ClosingKeepsSockets, KeepingKeepsSockets
       DEF RecvBodyRefused, CloseUnlessKept, KeepConnection
  <2> QED
    BY <1>18, <2>1, DropKeepsInvariant DEF RecvBodyRefused, IInv, BufferReturned
<1>19. CASE RecvBodyFails
  BY <1>19, HandKnown, ClosingKeepsSockets, RetryKeepsInvariant
     DEF RecvBodyFails, IInv, BufferReturned
<1>20. CASE UNCHANGED vars
  BY <1>20, KeepingKeepsSockets DEF vars, IInv, Shape, InHand, BufferReturned, site
<1>21. CASE AnalyseLoops
  BY <1>20, <1>21 DEF AnalyseLoops
<1> QED
  BY <1>1, <1>2, <1>3, <1>4, <1>5, <1>6, <1>7, <1>8, <1>9, <1>10, <1>11, <1>12, <1>13,
     <1>14, <1>15, <1>16, <1>17, <1>18, <1>19, <1>20, <1>21 DEF Next, Loop

-------------------------------------------------------------------------------

\* The state of the loop, the map, the descriptors and the buffers stay as Shape,
\* InHand, Sockets and BufferReturned say.
THEOREM DownloaderInvariant == Spec => []IInv
BY InitHolds, StepKeepsInvariant, PTL DEF Spec

\* downloader_task.cc: on every path a socket of the map is open and connected to the
\* host it is kept for, and no two hosts share one.
THEOREM MapStaysLive == Spec => []MapIsLive
<1>1. IInv => MapIsLive
  BY DEF IInv, Sockets
<1> QED
  BY <1>1, DownloaderInvariant, PTL

\* downloader_task.cc: on every path an open socket is in the map or was left open by
\* a failing fcntl of create_connection.
THEOREM SocketsAreKnown == Spec => []NoLeakedSocket
<1>1. IInv => NoLeakedSocket
  BY DEF IInv, Sockets
<1> QED
  BY <1>1, DownloaderInvariant, PTL

\* downloader_task.cc: on every path the header buffer goes back to the memory pool,
\* once.
THEOREM BuffersGoBack == Spec => []BufferReturned
<1>1. IInv => BufferReturned
  BY DEF IInv
<1> QED
  BY <1>1, DownloaderInvariant, PTL

-------------------------------------------------------------------------------
(* Sequences without repetitions, and their elements. *)

Distinct(seq) == \A i, j \in 1..Len(seq) : seq[i] = seq[j] => i = j

LEMMA ElementsAppended ==
    ASSUME NEW S, NEW seq \in Seq(S), NEW x \in S, Distinct(seq), x \notin Elements(seq)
    PROVE  /\ Elements(Append(seq, x)) = Elements(seq) \cup {x}
           /\ Distinct(Append(seq, x))
<1> DEFINE r == Append(seq, x)
<1>1. Len(r) = Len(seq) + 1 /\ Len(seq) \in Nat /\ r[Len(seq) + 1] = x
  OBVIOUS
<1>2. \A i \in 1..Len(seq) : r[i] = seq[i]
  OBVIOUS
<1>3. Elements(r) = Elements(seq) \cup {x}
  BY <1>1, <1>2 DEF Elements
<1>4. \A i \in 1..Len(seq) : seq[i] # x
  BY DEF Elements
<1>5. \A i \in 1..Len(r) : i \in 1..Len(seq) \/ i = Len(seq) + 1
  BY <1>1
<1>6. Distinct(r)
  BY <1>1, <1>2, <1>4, <1>5 DEF Distinct
<1> QED
  BY <1>3, <1>6

LEMMA ElementsOfTail ==
    ASSUME NEW S, NEW seq \in Seq(S), seq # <<>>, Distinct(seq)
    PROVE  /\ Head(seq) \in Elements(seq)
           /\ Elements(Tail(seq)) = Elements(seq) \ {Head(seq)}
           /\ Distinct(Tail(seq))
<1> DEFINE r == Tail(seq)
<1>1. Len(seq) \in Nat \ {0} /\ Len(r) = Len(seq) - 1 /\ Head(seq) = seq[1]
  OBVIOUS
<1>2. \A i \in 1..Len(r) : r[i] = seq[i + 1] /\ i + 1 \in 1..Len(seq)
  BY <1>1
<1>3. \A i \in 1..Len(seq) : i # 1 => i - 1 \in 1..Len(r) /\ seq[i] = r[i - 1]
  BY <1>1
<1>4. \A i \in 1..Len(seq) : i # 1 => seq[i] # seq[1]
  BY <1>1 DEF Distinct
<1>5. Distinct(r)
  BY <1>2 DEF Distinct
<1>6. Elements(r) \subseteq Elements(seq) \ {Head(seq)}
  BY <1>1, <1>2, <1>4 DEF Elements
<1>7. Elements(seq) \ {Head(seq)} \subseteq Elements(r)
  BY <1>1, <1>3 DEF Elements
<1>8. Head(seq) \in Elements(seq)
  BY <1>1 DEF Elements
<1> QED
  BY <1>5, <1>6, <1>7, <1>8

\* In a sequence without repetitions an element occurs once, another value never.
LEMMA TimesInDistinct ==
    ASSUME NEW S, NEW seq \in Seq(S), Distinct(seq), NEW x
    PROVE  Times(x, seq) = IF x \in Elements(seq) THEN 1 ELSE 0
<1> DEFINE Places == {i \in 1..Len(seq) : seq[i] = x}
<1>1. CASE x \in Elements(seq)
  <2>1. PICK i \in 1..Len(seq) : seq[i] = x
    BY <1>1 DEF Elements
  <2>2. Places = {i}
    BY <2>1 DEF Distinct
  <2> QED
    BY <1>1, <2>2, FS_Singleton DEF Times
<1>2. CASE x \notin Elements(seq)
  <2>1. Places = {}
    BY <1>2 DEF Elements
  <2> QED
    BY <1>2, <2>1, FS_EmptySet DEF Times
<1> QED
  BY <1>1, <1>2

-------------------------------------------------------------------------------
(* Where the urls are. *)

Coming == Elements(coming)
Waiting == Elements(urlq)
InWork == {cur} \ {NoUrl}
Passed == {p.url : p \in pages}

\* Every url that arrives is in one place and, in a queue, there once.
Sole ==
    /\ Distinct(coming) /\ Distinct(urlq)
    /\ Elements(Arrivals) = Coming \cup Waiting \cup InWork \cup dropped \cup Passed
    /\ Coming \cap (Waiting \cup InWork \cup dropped \cup Passed) = {}
    /\ Waiting \cap (InWork \cup dropped \cup Passed) = {}
    /\ InWork \cap (dropped \cup Passed) = {}
    /\ dropped \cap Passed = {}

Idle == pc = "pop" => cur = NoUrl

UrlInv == Shape /\ Sole /\ Idle

\* What a step does with the urls: a url arrives, is taken from the queue, pushed back,
\* given up or downloaded, or none moves.
Arrives ==
    /\ coming # <<>> /\ coming' = Tail(coming) /\ urlq' = Append(urlq, Head(coming))
    /\ UNCHANGED <<pc, cur, dropped, pages>>
Taken ==
    /\ pc = "pop" /\ urlq # <<>> /\ cur' = Head(urlq) /\ urlq' = Tail(urlq)
    /\ pc' # "pop" /\ UNCHANGED <<coming, dropped, pages>>
Leaves == pc # "pop" /\ pc' = "pop" /\ cur' = NoUrl /\ UNCHANGED coming
Returned == Leaves /\ urlq' = Append(urlq, cur) /\ UNCHANGED <<dropped, pages>>
GivenUp == Leaves /\ dropped' = dropped \cup {cur} /\ UNCHANGED <<urlq, pages>>
Delivered ==
    /\ Leaves /\ UNCHANGED <<urlq, dropped>>
    /\ \E c : pages' = pages \cup {[url |-> cur, content |-> c]}
Stays == UNCHANGED <<coming, urlq, cur, dropped, pages>> /\ (pc' = "pop" <=> pc = "pop")

LEMMA StepMovesUrls ==
    ASSUME [Next]_vars
    PROVE  Arrives \/ Taken \/ Returned \/ GivenUp \/ Delivered \/ Stays
<1>1. CASE Arrive
  BY <1>1 DEF Arrive, Arrives
<1>2. CASE Pop
  BY <1>2 DEF Pop, Taken
<1>3. ASSUME pc # "pop", Retry PROVE Returned
  BY <1>3 DEF Retry, EndIteration, Returned, Leaves
<1>4. ASSUME pc # "pop", Drop PROVE GivenUp
  BY <1>4 DEF Drop, EndIteration, GivenUp, Leaves
<1>5. CASE CreateConnectionFails \/ CreateConnectionLeaks \/ SetTimeoutFails \/ SendFails
           \/ RecvHeaderFails \/ RecvBodyFails
  BY <1>3, <1>5 DEF CreateConnectionFails, CreateConnectionLeaks, NeedsConnection,
       SetTimeoutFails, SendFails, RecvHeaderFails, RecvBodyFails
<1>6. CASE GiveUp \/ RecvHeaderTooLong \/ AnalyseFails \/ RecvBodyRefused
  BY <1>4, <1>6 DEF GiveUp, RecvHeaderTooLong, AnalyseFails, RecvBodyRefused
<1>7. CASE RecvBody
  BY <1>7 DEF RecvBody, EndIteration, Delivered, Leaves
<1>8. CASE Reuse \/ CreateConnection \/ SetTimeout \/ Send
  BY <1>8 DEF Reuse, CreateConnection, NeedsConnection, SetTimeout, Send, Stays
<1>9. CASE RecvHeader \/ Analyse
  BY <1>9 DEF RecvHeader, Analyse, Stays
<1>10. CASE AnalyseLoops \/ UNCHANGED vars
  BY <1>10 DEF AnalyseLoops, vars, Stays
<1> QED
  BY <1>1, <1>2, <1>5, <1>6, <1>7, <1>8, <1>9, <1>10 DEF Next, Loop

LEMMA DeliveredIsPassed == Delivered => Passed' = Passed \cup {cur}
<1> SUFFICES ASSUME Delivered PROVE Passed' = Passed \cup {cur}
  OBVIOUS
<1>1. PICK c : pages' = pages \cup {[url |-> cur, content |-> c]}
  BY DEF Delivered
<1>2. Passed' = {p.url : p \in pages \cup {[url |-> cur, content |-> c]}}
  BY <1>1 DEF Passed
<1>3. [url |-> cur, content |-> c].url = cur
  OBVIOUS
<1> QED
  BY <1>2, <1>3 DEF Passed

LEMMA InitSole == Init => Sole /\ Idle
<1> SUFFICES ASSUME Init PROVE Sole /\ Idle
  OBVIOUS
<1>1. Distinct(coming) /\ Distinct(urlq)
  BY ArrivalsType, EachArrivesOnce DEF Init, Distinct
<1>2. Waiting = {} /\ InWork = {} /\ dropped = {} /\ Passed = {} /\ cur = NoUrl
  BY DEF Init, Waiting, Elements, InWork, Passed
<1>3. Coming = Elements(Arrivals)
  BY DEF Init, Coming
<1> QED
  BY <1>1, <1>2, <1>3 DEF Sole, Idle

\* No step loses or doubles a url.
LEMMA StepKeepsSole ==
    ASSUME UrlInv, [Next]_vars
    PROVE  Sole' /\ Idle'
<1> USE NoUrlIsNoUrl DEF UrlInv
<1>1. coming \in Seq(Urls) /\ urlq \in Seq(Urls) /\ Distinct(coming) /\ Distinct(urlq)
  BY DEF Shape, Sole
<1>2. CASE Arrives
  <2>1. PICK u \in Urls : u = Head(coming)
    BY <1>1, <1>2 DEF Arrives
  <2>2. u \in Coming /\ Coming' = Coming \ {u} /\ Distinct(coming')
    BY <1>1, <1>2, <2>1, ElementsOfTail DEF Arrives, Coming
  <2>3. u \notin Waiting
    BY <2>2 DEF Sole
  <2>4. Waiting' = Waiting \cup {u} /\ Distinct(urlq')
    BY <1>1, <1>2, <2>1, <2>3, ElementsAppended DEF Arrives, Waiting
  <2>5. UNCHANGED <<InWork, dropped, Passed>> /\ Idle'
    BY <1>2 DEF Arrives, InWork, Passed, Idle
  <2> QED
    BY <2>2, <2>3, <2>4, <2>5 DEF Sole
<1>3. CASE Taken
  <2>1. PICK u \in Urls : u = Head(urlq)
    BY <1>1, <1>3 DEF Taken
  <2>2. u \in Waiting /\ Waiting' = Waiting \ {u} /\ Distinct(urlq')
    BY <1>1, <1>3, <2>1, ElementsOfTail DEF Taken, Waiting
  <2>3. InWork = {} /\ InWork' = {u}
    BY <1>3, <2>1 DEF Taken, InWork, Idle
  <2>4. UNCHANGED <<Coming, dropped, Passed>> /\ Distinct(coming') /\ Idle'
    BY <1>1, <1>3 DEF Taken, Coming, Passed, Idle
  <2> QED
    BY <2>2, <2>3, <2>4 DEF Sole
<1>4. ASSUME Leaves
      PROVE  /\ cur \in Urls /\ InWork = {cur} /\ InWork' = {}
             /\ Coming' = Coming /\ Distinct(coming') /\ Idle'
  BY <1>1, <1>4 DEF Leaves, Shape, InWork, Coming, Idle
<1>5. CASE Returned
  <2>1. cur \notin Waiting
    BY <1>4, <1>5 DEF Returned, Sole
  <2>2. Waiting' = Waiting \cup {cur} /\ Distinct(urlq')
    BY <1>1, <1>4, <1>5, <2>1, ElementsAppended DEF Returned, Waiting
  <2>3. UNCHANGED <<dropped, Passed>>
    BY <1>5 DEF Returned, Passed
  <2> QED
    BY <1>4, <1>5, <2>2, <2>3 DEF Returned, Sole
<1>6. CASE GivenUp
  <2>1. dropped' = dropped \cup {cur} /\ UNCHANGED <<Waiting, Passed>> /\ Distinct(urlq')
    BY <1>1, <1>6 DEF GivenUp, Waiting, Passed
  <2> QED
    BY <1>4, <1>6, <2>1 DEF GivenUp, Sole
<1>7. CASE Delivered
  <2>1. Passed' = Passed \cup {cur}
    BY <1>7, DeliveredIsPassed
  <2>2. UNCHANGED <<Waiting, dropped>> /\ Distinct(urlq')
    BY <1>1, <1>7 DEF Delivered, Waiting
  <2> QED
    BY <1>4, <1>7, <2>1, <2>2 DEF Delivered, Sole
<1>8. CASE Stays
  <2>1. UNCHANGED <<Coming, Waiting, InWork, dropped, Passed>>
        /\ Distinct(coming') /\ Distinct(urlq')
    BY <1>1, <1>8 DEF Stays, Coming, Waiting, InWork, Passed
  <2> QED
    BY <1>8, <2>1 DEF Stays, Sole, Idle
<1> QED
  BY <1>2, <1>3, <1>5, <1>6, <1>7, <1>8, StepMovesUrls

-------------------------------------------------------------------------------
(* The downloader implements the abstract stage. *)

\* PlaceOf counts the places a url is in; there is one, and it is this.
Place(u) ==
    IF u \in Coming THEN "coming" ELSE IF u \in dropped THEN "lost"
    ELSE IF u \in Passed THEN "passed" ELSE "held"

LEMMA PlaceIsKnown ==
    ASSUME UrlInv, NEW u \in Elements(Arrivals)
    PROVE  PlaceOf(u) = Place(u)
<1> USE DEF UrlInv
<1>1. u \in Urls
  BY ArrivalsType DEF Elements
<1>2. Times(u, coming) = (IF u \in Coming THEN 1 ELSE 0)
  BY TimesInDistinct DEF Shape, Sole, Coming
<1>3. Times(u, urlq) = (IF u \in Waiting THEN 1 ELSE 0)
  BY TimesInDistinct DEF Shape, Sole, Waiting
<1>4. Cardinality({u} \cap {cur}) = (IF u \in InWork THEN 1 ELSE 0)
  <2>1. CASE u = cur
    <3>1. {u} \cap {cur} = {u} /\ u \in InWork
      BY <1>1, <2>1, NoUrlIsNoUrl DEF InWork
    <3> QED
      BY <3>1, FS_Singleton
  <2>2. CASE u # cur
    <3>1. {u} \cap {cur} = {} /\ u \notin InWork
      BY <2>2 DEF InWork
    <3> QED
      BY <3>1, FS_EmptySet
  <2> QED
    BY <2>1, <2>2
<1>5. Cardinality({u} \cap dropped) = (IF u \in dropped THEN 1 ELSE 0)
  <2>1. CASE u \in dropped
    <3>1. {u} \cap dropped = {u}
      BY <2>1
    <3> QED
      BY <2>1, <3>1, FS_Singleton
  <2>2. CASE u \notin dropped
    <3>1. {u} \cap dropped = {}
      BY <2>2
    <3> QED
      BY <2>2, <3>1, FS_EmptySet
  <2> QED
    BY <2>1, <2>2
<1>6. Downloaded(u) <=> u \in Passed
  BY DEF Downloaded, Passed
<1>7. Occurrences(u) = 1
  <2>1. CASE u \in Coming
    BY <1>2, <1>3, <1>4, <1>5, <1>6, <2>1 DEF Occurrences, Sole
  <2>2. CASE u \in Waiting
    BY <1>2, <1>3, <1>4, <1>5, <1>6, <2>2 DEF Occurrences, Sole
  <2>3. CASE u \in InWork
    BY <1>2, <1>3, <1>4, <1>5, <1>6, <2>3 DEF Occurrences, Sole
  <2>4. CASE u \in dropped
    BY <1>2, <1>3, <1>4, <1>5, <1>6, <2>4 DEF Occurrences, Sole
  <2>5. CASE u \in Passed
    BY <1>2, <1>3, <1>4, <1>5, <1>6, <2>5 DEF Occurrences, Sole
  <2> QED
    BY <2>1, <2>2, <2>3, <2>4, <2>5 DEF Sole
<1> QED
  BY <1>6, <1>7 DEF PlaceOf, Place, Coming

PlacesNow == [u \in Elements(Arrivals) |-> PlaceOf(u)]
PlacesKnown == [u \in Elements(Arrivals) |-> Place(u)]

Mapped == PlacesNow = PlacesKnown

LEMMA PlacesAreKnown == UrlInv => Mapped
BY PlaceIsKnown DEF PlacesNow, PlacesKnown, Mapped

LEMMA InitRefines ==
    ASSUME Init, UrlInv
    PROVE  AsStage!Init
<1>1. dropped = {} /\ Passed = {}
  BY DEF Init, Passed
<1>2. \A u \in Elements(Arrivals) : PlaceOf(u) \in {"coming", "held"}
  BY <1>1, PlaceIsKnown DEF Place
<1> QED
  BY <1>2 DEF AsStage!Init

\* A url that arrives is taken, one that is given up is lost, one downloaded is passed
\* on; to be in the queue or in work is one place.
LEMMA StepRefines ==
    ASSUME UrlInv, UrlInv', [Next]_vars
    PROVE  \/ \E u \in Elements(Arrivals) :
                  \/ AsStage!Takes(u, PlacesKnown, PlacesKnown')
                  \/ AsStage!Passes(u, PlacesKnown, PlacesKnown')
                  \/ AsStage!Loses({u}, PlacesKnown, PlacesKnown')
           \/ UNCHANGED PlacesKnown
<1> DEFINE E == Elements(Arrivals)
<1> USE NoUrlIsNoUrl DEF UrlInv, PlacesKnown
<1>1. coming \in Seq(Urls) /\ urlq \in Seq(Urls) /\ Distinct(coming) /\ Distinct(urlq)
  BY DEF Shape, Sole
<1>2. CASE Arrives
  <2>1. PICK u \in Urls : u = Head(coming)
    BY <1>1, <1>2 DEF Arrives
  <2>2. u \in Coming /\ Coming' = Coming \ {u}
    BY <1>1, <1>2, <2>1, ElementsOfTail DEF Arrives, Coming
  <2>3. u \in E /\ u \notin dropped /\ u \notin Passed
    BY <2>2 DEF Sole
  <2>4. UNCHANGED <<dropped, Passed>>
    BY <1>2 DEF Arrives, Passed
  <2>5. AsStage!Takes(u, PlacesKnown, PlacesKnown')
    BY <2>2, <2>3, <2>4 DEF AsStage!Takes, Place
  <2> QED
    BY <2>3, <2>5
<1>3. CASE Taken \/ Returned \/ Stays
  <2>1. UNCHANGED <<Coming, dropped, Passed>>
    BY <1>3 DEF Taken, Returned, Leaves, Stays, Coming, Passed
  <2> QED
    BY <2>1 DEF Place
<1>4. ASSUME Leaves
      PROVE  /\ cur \in E /\ cur \notin Coming /\ cur \notin dropped /\ cur \notin Passed
             /\ Coming' = Coming
  <2>1. cur \in InWork
    BY <1>4 DEF Leaves, Shape, InWork
  <2> QED
    BY <1>4, <2>1 DEF Leaves, Sole, Coming
<1>5. CASE GivenUp
  <2>1. dropped' = dropped \cup {cur} /\ Passed' = Passed
    BY <1>5 DEF GivenUp, Passed
  <2>2. AsStage!Loses({cur}, PlacesKnown, PlacesKnown')
    BY <1>4, <1>5, <2>1 DEF GivenUp, AsStage!Loses, Place
  <2> QED
    BY <1>4, <1>5, <2>2 DEF GivenUp
<1>6. CASE Delivered
  <2>1. Passed' = Passed \cup {cur} /\ dropped' = dropped
    BY <1>6, DeliveredIsPassed DEF Delivered
  <2>2. AsStage!Passes(cur, PlacesKnown, PlacesKnown')
    BY <1>4, <1>6, <2>1 DEF Delivered, AsStage!Passes, Place
  <2> QED
    BY <1>4, <1>6, <2>2 DEF Delivered
<1> QED
  BY <1>2, <1>3, <1>5, <1>6, StepMovesUrls

\* The types, Sole and Idle hold for ever.
LEMMA UrlsAreSole == Spec => []UrlInv
<1>1. Init => UrlInv
  BY InitHolds, InitSole DEF IInv, UrlInv
<1>2. IInv' /\ UrlInv /\ [Next]_vars => UrlInv'
  BY StepKeepsSole DEF IInv, UrlInv
<1> QED
  BY <1>1, <1>2, DownloaderInvariant, PTL DEF Spec

\* downloader_task.cc: whatever fails, a url that is pushed to the downloader leaves it
\* once, as a page or given up, and a retry neither loses nor doubles it.
THEOREM DownloaderIsAStage == Spec => ImplementsStage
<1>1. Init /\ UrlInv => AsStage!Init
  BY InitRefines
<1>2. UrlInv /\ UrlInv' /\ Mapped /\ Mapped' /\ [Next]_vars => [AsStage!Next]_PlacesNow
  <2> SUFFICES ASSUME UrlInv, UrlInv', Mapped, Mapped', [Next]_vars
               PROVE  [AsStage!Next]_PlacesNow
    OBVIOUS
  <2>1. PlacesNow = PlacesKnown /\ PlacesNow' = PlacesKnown'
    BY DEF Mapped
  <2>2. CASE UNCHANGED PlacesKnown
    BY <2>1, <2>2
  <2>3. ASSUME NEW u \in Elements(Arrivals),
               \/ AsStage!Takes(u, PlacesNow, PlacesNow')
               \/ AsStage!Passes(u, PlacesNow, PlacesNow')
               \/ AsStage!Loses({u}, PlacesNow, PlacesNow')
        PROVE  AsStage!Next
    BY <2>3 DEF AsStage!Next, PlacesNow
  <2> QED
    BY <2>1, <2>2, <2>3, StepRefines
<1> QED
  BY <1>1, <1>2, UrlsAreSole, PlacesAreKnown, PTL
     DEF Spec, ImplementsStage, AsStage!Spec, PlacesNow

-------------------------------------------------------------------------------
(* Tries come to an end. *)

\* Whoever is at work on a url, it has a try left.
RetryInv ==
    /\ retries \in [Urls -> 0..MaxRetries]
    /\ pc \in Connected => retries[cur] < MaxRetries

TryInv == UrlInv /\ RetryInv

\* What a step does with the url at work: it counts a try, takes it on, or is done with it.
Tried ==
    /\ Returned /\ retries[cur] < MaxRetries
    /\ retries' = [retries EXCEPT ![cur] = @ + 1]
Further ==
    /\ UNCHANGED <<coming, cur, dropped, pages, retries>>
    /\ \/ pc = "admit" /\ pc' = "timeout" /\ retries[cur] < MaxRetries
       \/ pc = "timeout" /\ pc' = "send"
       \/ pc = "send" /\ pc' = "header"
       \/ pc = "header" /\ pc' = "analyse"
       \/ pc = "analyse" /\ pc' = "body"
Fetched == Taken /\ pc' = "admit" /\ UNCHANGED retries
Comes == Arrives /\ coming' # coming /\ UNCHANGED retries
Ended == (GivenUp \/ Delivered) /\ UNCHANGED retries

LEMMA StepTakesOn ==
    ASSUME TryInv, Next, vars' # vars
    PROVE  Tried \/ Further \/ Fetched \/ Comes \/ Ended
<1>1. coming \in Seq(Urls) /\ (pc \in Connected => retries[cur] < MaxRetries)
  BY DEF TryInv, UrlInv, Shape, RetryInv
<1>2. CASE Arrive
  <2>1. Tail(coming) # coming
    <3>1. Len(Tail(coming)) = Len(coming) - 1 /\ Len(coming) \in Nat
      BY <1>1, <1>2, HeadTailProperties, LenProperties DEF Arrive
    <3> QED
      BY <3>1
  <2> QED
    BY <1>2, <2>1 DEF Arrive, Arrives, Comes
<1>3. CASE Pop
  BY <1>3 DEF Pop, Taken, Fetched
<1>4. ASSUME pc # "pop", Retry, retries[cur] < MaxRetries PROVE Tried
  BY <1>4 DEF Retry, EndIteration, Returned, Leaves, Tried
<1>5. ASSUME pc # "pop", Drop PROVE Ended
  BY <1>5 DEF Drop, EndIteration, GivenUp, Leaves, Ended
<1>6. CASE CreateConnectionFails \/ CreateConnectionLeaks
  BY <1>4, <1>6 DEF CreateConnectionFails, CreateConnectionLeaks, NeedsConnection
<1>7. CASE SetTimeoutFails \/ SendFails \/ RecvHeaderFails \/ RecvBodyFails
  BY <1>1, <1>4, <1>7 DEF SetTimeoutFails, SendFails, RecvHeaderFails, RecvBodyFails, Connected
<1>8. CASE GiveUp \/ RecvHeaderTooLong \/ AnalyseFails \/ RecvBodyRefused
  BY <1>5, <1>8 DEF GiveUp, RecvHeaderTooLong, AnalyseFails, RecvBodyRefused
<1>9. CASE RecvBody
  BY <1>9 DEF RecvBody, EndIteration, Delivered, Leaves, Ended
<1>10. CASE Reuse \/ CreateConnection \/ SetTimeout \/ Send
  BY <1>10 DEF Reuse, CreateConnection, NeedsConnection, SetTimeout, Send, Further
<1>11. CASE RecvHeader \/ Analyse
  BY <1>11 DEF RecvHeader, Analyse, Further
<1>12. ~AnalyseLoops
  BY DEF AnalyseLoops
<1> QED
  BY <1>2, <1>3, <1>6, <1>7, <1>8, <1>9, <1>10, <1>11, <1>12 DEF Next, Loop

LEMMA StepKeepsRetries == ASSUME TryInv, [Next]_vars PROVE RetryInv'
<1>1. /\ retries \in [Urls -> 0..MaxRetries] /\ MaxRetries \in Nat
      /\ pc \in Connected => retries[cur] < MaxRetries
      /\ pc # "pop" => cur \in Urls
  BY MaxRetriesType DEF TryInv, RetryInv, UrlInv, Shape
<1>2. CASE UNCHANGED vars
  BY <1>1, <1>2 DEF vars, RetryInv
<1>3. CASE Tried
  BY <1>1, <1>3 DEF Tried, Returned, Leaves, RetryInv, Connected
<1>4. CASE Further
  BY <1>1, <1>4 DEF Further, RetryInv, Connected
<1>5. CASE Fetched \/ Comes \/ Ended
  BY <1>1, <1>5 DEF Fetched, Comes, Arrives, Ended, GivenUp, Delivered, Leaves, RetryInv, Connected
<1> QED
  BY <1>2, <1>3, <1>4, <1>5, StepTakesOn

LEMMA TryInvariant == Spec => []TryInv
<1>1. Init => RetryInv
  BY MaxRetriesType DEF Init, RetryInv, Connected
<1>2. TryInv /\ UrlInv' /\ [Next]_vars => TryInv'
  BY StepKeepsRetries DEF TryInv
<1> QED
  BY <1>1, <1>2, UrlsAreSole, PTL DEF Spec, TryInv

\* TriesLeft, by whether the url is settled, at work, and where.
Through(atWork, place) ==
    IF ~atWork THEN 7
    ELSE CASE place = "admit" -> 6 [] place = "timeout" -> 5 [] place = "send" -> 4
           [] place = "header" -> 3 [] place = "analyse" -> 2 [] place = "body" -> 1
Tries(settled, atWork, place, tries) ==
    IF settled THEN 0 ELSE 8 * (MaxRetries - tries) + Through(atWork, place)

LEMMA TriesAre ==
    ASSUME NEW u
    PROVE  /\ TriesLeft(u) = Tries(u \in dropped \cup Passed, u = cur, pc, retries[u])
           /\ TriesLeft(u)' = Tries(u \in dropped' \cup Passed', u = cur', pc', retries'[u])
<1>1. (Settled(u) <=> u \in dropped \cup Passed) /\ (Settled(u)' <=> u \in dropped' \cup Passed')
  BY DEF Settled, Downloaded, Passed
<1>2. /\ StepsLeft(u) = Through(u = cur, pc)
      /\ StepsLeft(u)' = Through(u = cur', pc')
  BY DEF StepsLeft, Through
<1>3. TriesLeft(u) = Tries(u \in dropped \cup Passed, u = cur, pc, retries[u])
  BY <1>1, <1>2, Zenon DEF TriesLeft, Tries
<1>4. TriesLeft(u)' = Tries(u \in dropped' \cup Passed', u = cur', pc', retries'[u])
  BY <1>1, <1>2, Zenon DEF TriesLeft, Tries
<1> QED
  BY <1>3, <1>4

LEMMA StepRunsOut ==
    ASSUME TryInv, RetryInv', Next, vars' # vars
    PROVE  /\ \A u \in Elements(Arrivals) : TriesLeft(u)' \in 0..TriesLeft(u)
           /\ coming' = coming => \E u \in Elements(Arrivals) : TriesLeft(u)' < TriesLeft(u)
<1> DEFINE E == Elements(Arrivals)
           left(u) == Tries(u \in dropped \cup Passed, u = cur, pc, retries[u])
           then(u) == Tries(u \in dropped' \cup Passed', u = cur', pc', retries'[u])
<1>1. /\ retries \in [Urls -> 0..MaxRetries] /\ retries' \in [Urls -> 0..MaxRetries]
      /\ MaxRetries \in Nat /\ E \subseteq Urls /\ NoUrl \notin E
      /\ pc \in {"pop", "admit"} \cup Connected
      /\ pc # "pop" => cur \in E /\ cur \notin dropped \cup Passed
      /\ pc = "pop" => cur = NoUrl
  <2>1. E \subseteq Urls
    BY ArrivalsType DEF Elements
  <2>2. pc # "pop" => cur \in InWork
    BY NoUrlIsNoUrl DEF TryInv, UrlInv, Shape, InWork
  <2> QED
    BY <2>1, <2>2, MaxRetriesType, NoUrlIsNoUrl
       DEF TryInv, RetryInv, UrlInv, Shape, Sole, Idle, Connected
<1>2. /\ \A u \in E : then(u) \in 0..left(u)
      /\ coming' = coming => \E u \in E : then(u) < left(u)
  <2>1. ASSUME NEW u \in E
        PROVE  retries[u] \in 0..MaxRetries /\ retries'[u] \in 0..MaxRetries
    BY <1>1, <2>1
  <2>2. CASE Comes
    <3>1. UNCHANGED <<pc, cur, dropped, Passed, retries>> /\ coming' # coming
      BY <2>2 DEF Comes, Arrives, Passed
    <3>2. ASSUME NEW u \in E PROVE then(u) = left(u) /\ left(u) \in Nat
      BY <1>1, <2>1, <3>1, <3>2 DEF Tries, Through, Connected
    <3> HIDE DEF left, then
    <3> QED
      BY <3>1, <3>2
  <2>3. ASSUME NEW v \in E, then(v) < left(v), then(v) \in Nat, left(v) \in Nat,
               \A u \in E : u # v => then(u) = left(u) /\ left(u) \in Nat
        PROVE  /\ \A u \in E : then(u) \in 0..left(u)
               /\ coming' = coming => \E u \in E : then(u) < left(u)
    <3> HIDE DEF E, left, then
    <3> QED
      BY <2>3
  <2>4. CASE Fetched
    <3>1. PICK v \in E : v = cur' /\ v \notin dropped \cup Passed
      <4>1. cur' \in Elements(urlq)
        <5>1. urlq \in Seq(Urls) /\ urlq # <<>> /\ cur' = Head(urlq)
          BY <2>4 DEF Fetched, Taken, TryInv, UrlInv, Shape
        <5> QED
          BY <5>1 DEF Elements
      <4> QED
        BY <4>1 DEF TryInv, UrlInv, Sole, Waiting
    <3>2. /\ pc = "pop" /\ pc' = "admit" /\ cur = NoUrl
          /\ UNCHANGED <<dropped, Passed, retries>>
      BY <1>1, <2>4 DEF Fetched, Taken, Passed
    <3>3. then(v) < left(v) /\ then(v) \in Nat /\ left(v) \in Nat
      BY <1>1, <2>1, <3>1, <3>2 DEF Tries, Through
    <3>4. \A u \in E : u # v => then(u) = left(u) /\ left(u) \in Nat
      BY <1>1, <2>1, <3>1, <3>2 DEF Tries, Through
    <3> QED
      BY <2>3, <3>1, <3>3, <3>4
  <2>5. ASSUME pc # "pop", cur \in E, \A u \in E : u # cur =>
                  /\ u # cur' /\ retries'[u] = retries[u]
                  /\ u \in dropped' \cup Passed' <=> u \in dropped \cup Passed,
               then(cur) < left(cur), then(cur) \in Nat, left(cur) \in Nat
        PROVE  /\ \A u \in E : then(u) \in 0..left(u)
               /\ coming' = coming => \E u \in E : then(u) < left(u)
    <3>1. \A u \in E : u # cur => then(u) = left(u) /\ left(u) \in Nat
      BY <1>1, <2>1, <2>5 DEF Tries, Through
    <3> QED
      BY <2>3, <2>5, <3>1
  <2>6. CASE Further
    <3>1. UNCHANGED <<cur, dropped, Passed, retries>> /\ pc # "pop"
      BY <2>6 DEF Further, Passed
    <3>2. then(cur) < left(cur) /\ then(cur) \in Nat /\ left(cur) \in Nat
      BY <1>1, <2>1, <2>6, <3>1 DEF Tries, Through, Further
    <3> QED
      BY <1>1, <2>5, <3>1, <3>2
  <2>7. CASE Tried
    <3>1. /\ pc # "pop" /\ cur' = NoUrl /\ UNCHANGED <<dropped, Passed>>
          /\ retries'[cur] = retries[cur] + 1
          /\ \A u \in E : u # cur => retries'[u] = retries[u]
      BY <1>1, <2>7 DEF Tried, Returned, Leaves, Passed
    <3>2. then(cur) < left(cur) /\ then(cur) \in Nat /\ left(cur) \in Nat
      BY <1>1, <2>1, <3>1 DEF Tries, Through, Connected
    <3> QED
      BY <1>1, <2>5, <3>1, <3>2
  <2>8. CASE Ended
    <3>1. /\ pc # "pop" /\ cur' = NoUrl /\ UNCHANGED retries
          /\ dropped' \cup Passed' = dropped \cup Passed \cup {cur}
      BY <2>8, DeliveredIsPassed DEF Ended, GivenUp, Delivered, Leaves, Passed
    <3>2. then(cur) < left(cur) /\ then(cur) \in Nat /\ left(cur) \in Nat
      BY <1>1, <2>1, <3>1 DEF Tries, Through, Connected
    <3> QED
      BY <1>1, <2>5, <3>1, <3>2
  <2> QED
    BY <2>2, <2>4, <2>6, <2>7, <2>8, StepTakesOn
<1> QED
  BY <1>2, TriesAre

\* downloader_task.cc: on each way through main_loop that leads back to the queue the try
\* is counted, so that with each step some url has less to go through, and none has more.
THEOREM TriesRunOut == Spec => RetriesRunOut
<1> DEFINE Less ==
        /\ \A u \in Elements(Arrivals) : TriesLeft(u)' \in 0..TriesLeft(u)
        /\ coming' = coming => \E u \in Elements(Arrivals) : TriesLeft(u)' < TriesLeft(u)
<1>1. TryInv /\ TryInv' /\ [Next]_vars => [Less]_vars
  BY StepRunsOut DEF TryInv
<1> HIDE DEF Less
<1>2. Spec => [][Less]_vars
  BY <1>1, TryInvariant, PTL DEF Spec
<1> QED
  BY <1>2 DEF RetriesRunOut, Less

-------------------------------------------------------------------------------
(* What is in the connections. *)

\* Pieces of answers of one site; of bytes it does not matter which.
From(seq, s) == \E S : seq \in Seq(S) /\ \A x \in S : x.of \in Urls /\ SiteOf[x.of] = s

LEMMA NothingIsFrom == \A s : From(<<>>, s)
<1>1. PICK S : S = {}
  OBVIOUS
<1>2. <<>> \in Seq(S)
  BY EmptySeq
<1> QED
  BY <1>1, <1>2 DEF From

LEMMA PieceIsFrom ==
    ASSUME NEW x, x.of \in Urls
    PROVE  From(<<x>>, SiteOf[x.of])
<1>1. PICK S : S = {x}
  OBVIOUS
<1>2. <<x>> \in Seq(S)
  BY <1>1
<1> QED
  BY <1>1, <1>2 DEF From

LEMMA BytesAreFrom ==
    ASSUME NEW u \in Urls, NEW text
    PROVE  From(Bytes(u, text), SiteOf[u])
<1>1. From(<<[is |-> "bytes", of |-> u, text |-> text]>>, SiteOf[u])
  BY PieceIsFrom
<1> QED
  BY <1>1, NothingIsFrom DEF Bytes

LEMMA ConcatIsFrom ==
    ASSUME NEW s, NEW a, NEW b, From(a, s), From(b, s)
    PROVE  From(a \o b, s)
<1>1. PICK S : a \in Seq(S) /\ \A x \in S : x.of \in Urls /\ SiteOf[x.of] = s
  BY DEF From
<1>2. PICK T : b \in Seq(T) /\ \A x \in T : x.of \in Urls /\ SiteOf[x.of] = s
  BY DEF From
<1>3. a \in Seq(S \cup T) /\ b \in Seq(S \cup T)
  BY <1>1, <1>2, SeqMonotonic
<1>4. a \o b \in Seq(S \cup T)
  BY <1>3, ConcatProperties
<1> QED
  BY <1>1, <1>2, <1>4 DEF From

LEMMA PiecesAre ==
    ASSUME NEW s, NEW seq, From(seq, s)
    PROVE  /\ Len(seq) \in Nat
           /\ \A i \in 1..Len(seq) : seq[i].of \in Urls /\ SiteOf[seq[i].of] = s
<1>1. PICK S : seq \in Seq(S) /\ \A x \in S : x.of \in Urls /\ SiteOf[x.of] = s
  BY DEF From
<1> QED
  BY <1>1, LenProperties, ElementOfSeq

LEMMA RestIsFrom ==
    ASSUME NEW s, NEW seq, From(seq, s), NEW m \in Nat \ {0}
    PROVE  From(SubSeq(seq, m, Len(seq)), s)
<1>1. PICK S : seq \in Seq(S) /\ \A x \in S : x.of \in Urls /\ SiteOf[x.of] = s
  BY DEF From
<1>2. Len(seq) \in Nat /\ \A i \in m..Len(seq) : seq[i] \in S
  BY <1>1, LenProperties, ElementOfSeq
<1>3. SubSeq(seq, m, Len(seq)) \in Seq(S)
  BY <1>2, SubSeqProperties
<1> QED
  BY <1>1, <1>3 DEF From

\* A set of numbers has a least one.
LEMMA LeastIs ==
    ASSUME NEW T \in SUBSET Nat, T # {}
    PROVE  \E m \in T : \A n \in T : m <= n
<1>1. PICK m \in T : \A n \in T : <<n, m>> \notin OpToRel(<, Nat)
  BY WFMin, NatLessThanWellFounded
<1>2. \A n \in T : ~(n < m)
  BY <1>1 DEF OpToRel
<1> QED
  BY <1>2

\* recv_http_response_header leaves pieces, and parts of pieces, of the same site.
LEMMA BehindIsFrom ==
    ASSUME NEW s, NEW st, From(st, s), \E i \in 1..Len(st) : Stops(st[i])
    PROVE  /\ HeaderSpan(st) \in 1..Len(st)
           /\ From(BehindHeader(st), s)
<1> DEFINE n == HeaderSpan(st)  T == {i \in 1..Len(st) : Stops(st[i])}
<1>1. Len(st) \in Nat
  BY PiecesAre
<1>2. n \in 1..Len(st)
  <2>1. PICK m \in T : \A i \in T : m <= i
    <3>1. T \in SUBSET Nat /\ T # {}
      BY <1>1
    <3> HIDE DEF T
    <3> QED
      BY <3>1, LeastIs
  <2>2. Stops(st[m]) /\ \A i \in 1..(m - 1) : ~Stops(st[i])
    BY <1>1, <2>1
  <2> QED
    BY <2>1, <2>2 DEF HeaderSpan
<1> HIDE DEF n
<1>3. From(SubSeq(st, n + 1, Len(st)), s)
  BY <1>1, <1>2, RestIsFrom
<1>4. st[n].of \in Urls /\ SiteOf[st[n].of] = s
  BY <1>2, PiecesAre
<1>5. From(IF st[n].is = "head" THEN <<>>
           ELSE Bytes(st[n].of, Behind(st[n].text, Min(HeaderEnds(st[n].text)))), s)
  BY <1>4, NothingIsFrom, BytesAreFrom
<1>6. From(BehindHeader(st), s)
  BY <1>3, <1>5, ConcatIsFrom DEF BehindHeader, n
<1> QED
  BY <1>2, <1>6 DEF n

\* What is to be read from a connection of the map comes from its site; nothing is to be
\* read from other descriptors, which the kernel may give to any site.
StreamsFrom ==
    /\ stream = [f \in Fds |-> stream[f]]
    /\ \A s \in Sites : conn[s] # NoFd => From(stream[conn[s]], s)
    /\ \A f \in Fds : (\A s \in Sites : conn[s] # f) => stream[f] = <<>>
HeadFrom ==
    pc = "body" \/ (pc = "analyse" /\ head.is = "head")
        => head.of \in Urls /\ SiteOf[head.of] = site
SiteInv == StreamsFrom /\ HeadFrom /\ PagesAreOfTheirSite

\* The page at hand becomes one of the pages, or they stay.
PagesGrow == pages' \in {pages, pages \cup {[url |-> cur, content |-> Content]}}

LEMMA StreamsStay ==
    ASSUME StreamsFrom, UNCHANGED <<conn, stream>>
    PROVE  StreamsFrom'
BY DEF StreamsFrom

LEMMA ClosingKeepsStreams ==
    ASSUME IInv, StreamsFrom, site \in Sites, NEW f \in Fds, f = conn[site],
           CloseConnection(f)
    PROVE  StreamsFrom'
<1> USE NoFdIsNoFd
<1>1. \A s \in Sites : conn'[s] = IF s = site THEN NoFd ELSE conn[s]
  BY DEF CloseConnection, IInv, Shape, SocketTypes
<1>2. \A s \in Sites : s # site /\ conn[s] # NoFd => conn[s] # f /\ conn[s] \in Fds
  BY DEF IInv, Sockets, MapIsLive, Shape, SocketTypes
<1>3. /\ stream' = [g \in Fds |-> stream'[g]]
      /\ \A g \in Fds : stream'[g] = IF g = f THEN <<>> ELSE stream[g]
  BY DEF CloseConnection, StreamsFrom
<1>4. ASSUME NEW s \in Sites, conn'[s] # NoFd PROVE From(stream'[conn'[s]], s)
  BY <1>1, <1>2, <1>3, <1>4 DEF StreamsFrom
<1>5. ASSUME NEW g \in Fds, \A s \in Sites : conn'[s] # g PROVE stream'[g] = <<>>
  BY <1>1, <1>3, <1>5 DEF StreamsFrom
<1> QED
  BY <1>3, <1>4, <1>5 DEF StreamsFrom

LEMMA WritingKeepsStreams ==
    ASSUME IInv, StreamsFrom, pc \in Connected, NEW st, From(st, site),
           stream' = [stream EXCEPT ![fd] = st], UNCHANGED conn
    PROVE  StreamsFrom'
<1>1. site \in Sites /\ fd \in Fds /\ fd = conn[site] /\ fd # NoFd
  BY HandKnown, NoFdIsNoFd
<1>2. \A s \in Sites : s # site /\ conn[s] # NoFd => conn[s] # fd /\ conn[s] \in Fds
  BY <1>1 DEF IInv, Sockets, MapIsLive, Shape, SocketTypes
<1>3. /\ stream' = [g \in Fds |-> stream'[g]]
      /\ \A g \in Fds : stream'[g] = IF g = fd THEN st ELSE stream[g]
  BY DEF StreamsFrom
<1>4. ASSUME NEW s \in Sites, conn[s] # NoFd PROVE From(stream'[conn[s]], s)
  BY <1>1, <1>2, <1>3, <1>4 DEF StreamsFrom
<1>5. ASSUME NEW g \in Fds, \A s \in Sites : conn[s] # g PROVE stream'[g] = <<>>
  BY <1>1, <1>3, <1>5 DEF StreamsFrom
<1> QED
  BY <1>3, <1>4, <1>5 DEF StreamsFrom

LEMMA CreatingKeepsStreams ==
    ASSUME IInv, StreamsFrom, CreateConnection
    PROVE  StreamsFrom'
<1> USE NoFdIsNoFd
<1>1. site \in Sites
  BY SiteIsSite DEF IInv, Shape, CreateConnection, NeedsConnection
<1>2. PICK f \in Fds \ open : conn' = [conn EXCEPT ![site] = f]
  BY DEF CreateConnection
<1>3. stream' = stream /\ conn[site] = NoFd
  BY DEF CreateConnection, NeedsConnection
<1>4. \A s \in Sites : conn'[s] = IF s = site THEN f ELSE conn[s]
  BY <1>2 DEF IInv, Shape, SocketTypes
<1>5. stream[f] = <<>>
  BY <1>2 DEF IInv, Sockets, MapIsLive, StreamsFrom
<1>6. ASSUME NEW s \in Sites, conn'[s] # NoFd PROVE From(stream[conn'[s]], s)
  BY <1>4, <1>5, <1>6, NothingIsFrom DEF StreamsFrom
<1>7. ASSUME NEW g \in Fds, \A s \in Sites : conn'[s] # g PROVE stream[g] = <<>>
  BY <1>1, <1>3, <1>4, <1>7 DEF StreamsFrom
<1> QED
  BY <1>3, <1>6, <1>7 DEF StreamsFrom

\* The page at hand is of the site of the url at hand.
LEMMA PagesGrowRight ==
    ASSUME IInv, HeadFrom, PagesAreOfTheirSite, PagesGrow, pages' = pages \/ pc = "body"
    PROVE  PagesAreOfTheirSite'
<1>1. CASE pages' = pages
  BY <1>1 DEF PagesAreOfTheirSite
<1>2. CASE pages' = pages \cup {[url |-> cur, content |-> Content]} /\ pc = "body"
  <2>1. Content # NoUrl => SiteOf[Content] = SiteOf[cur]
    BY <1>2 DEF Content, HeadFrom, site
  <2> QED
    BY <1>2, <2>1 DEF PagesAreOfTheirSite
<1> QED
  BY <1>1, <1>2 DEF PagesGrow

\* A connection is kept, or closed when one of the map is at hand.
LEMMA CloseOrKeep ==
    ASSUME IInv, StreamsFrom, pc \in Connected,
           CloseConnection(fd) \/ UNCHANGED <<conn, stream>>
    PROVE  StreamsFrom'
BY HandKnown, ClosingKeepsStreams, StreamsStay

\* An iteration that ends puts a page, or none, and has no header at hand.
LEMMA EndKeepsSite ==
    ASSUME IInv, SiteInv, EndIteration, StreamsFrom', PagesGrow, pages' = pages \/ pc = "body"
    PROVE  SiteInv'
<1>1. HeadFrom'
  BY DEF EndIteration, HeadFrom
<1>2. PagesAreOfTheirSite'
  BY PagesGrowRight DEF SiteInv
<1> QED
  BY <1>1, <1>2 DEF SiteInv

\* Where no header is at hand, and none is read, only the connections matter.
LEMMA NoHeaderKeepsSite ==
    ASSUME SiteInv, StreamsFrom', pc' \notin {"analyse", "body"}, UNCHANGED pages
    PROVE  SiteInv'
BY DEF SiteInv, HeadFrom, PagesAreOfTheirSite

LEMMA InitSite == Init => SiteInv
<1> SUFFICES ASSUME Init PROVE SiteInv
  OBVIOUS
<1>1. StreamsFrom
  BY DEF Init, StreamsFrom
<1> QED
  BY <1>1 DEF Init, SiteInv, HeadFrom, PagesAreOfTheirSite

LEMMA SendKeepsSite == ASSUME IInv, SiteInv, Send PROVE SiteInv'
<1>1. PICK r \in Kinds :
          stream' = [stream EXCEPT ![fd] = @ \o <<HeadOf(cur, r)>> \o Bytes(cur, Sent[r])]
  BY DEF Send
<1>2. /\ pc \in Connected /\ fd \in Fds /\ fd = conn[site] /\ site \in Sites /\ cur \in Urls
      /\ UNCHANGED <<conn, pages>> /\ pc' = "header"
  BY HandKnown DEF Send, Connected, IInv, Shape
<1>3. From(stream[fd], site)
  BY <1>2, NoFdIsNoFd DEF SiteInv, StreamsFrom
<1>4. From(<<HeadOf(cur, r)>>, site)
  <2>1. HeadOf(cur, r).of = cur
    BY DEF HeadOf
  <2> QED
    BY <1>2, <2>1, PieceIsFrom DEF site
<1>5. From(Bytes(cur, Sent[r]), site)
  BY <1>2, BytesAreFrom DEF site
<1> DEFINE st == stream[fd] \o <<HeadOf(cur, r)>> \o Bytes(cur, Sent[r])
<1>6. From(st, site)
  BY <1>3, <1>4, <1>5, ConcatIsFrom
<1>7. stream' = [stream EXCEPT ![fd] = st]
  BY <1>1
<1> HIDE DEF st
<1>8. StreamsFrom'
  BY <1>2, <1>6, <1>7, WritingKeepsStreams DEF SiteInv
<1> QED
  BY <1>2, <1>8, NoHeaderKeepsSite

LEMMA RecvHeaderKeepsSite ==
    ASSUME IInv, SiteInv, RecvHeader \/ RecvHeaderTooLong
    PROVE  SiteInv'
<1> DEFINE st == stream[fd]
<1>1. /\ pc \in Connected /\ fd \in Fds /\ fd = conn[site] /\ site \in Sites
      /\ UNCHANGED <<conn, pages>>
  BY HandKnown DEF RecvHeader, RecvHeaderTooLong, Connected, Drop
<1>2. From(st, site)
  BY <1>1, NoFdIsNoFd DEF SiteInv, StreamsFrom
<1>3. CASE RecvHeader
  <2>1. /\ \E i \in 1..Len(st) : Stops(st[i])
        /\ head' = IF st[1].is = "head" THEN st[1] ELSE Garbage
        /\ stream' = [stream EXCEPT ![fd] = BehindHeader(st)]
        /\ UNCHANGED cur
    BY <1>3 DEF RecvHeader
  <2> HIDE DEF st
  <2>2. From(BehindHeader(st), site) /\ 1 \in 1..Len(st)
    BY <1>2, <2>1, BehindIsFrom, PiecesAre
  <2>3. StreamsFrom'
    BY <1>1, <2>1, <2>2, WritingKeepsStreams DEF SiteInv
  <2>4. st[1].of \in Urls /\ SiteOf[st[1].of] = site
    BY <1>2, <2>2, PiecesAre
  <2>5. HeadFrom'
    BY <1>3, <2>1, <2>4 DEF RecvHeader, HeadFrom, Garbage, site
  <2> QED
    BY <1>1, <2>3, <2>5 DEF SiteInv, PagesAreOfTheirSite
<1>4. CASE RecvHeaderTooLong
  <2>1. EndIteration /\ PagesGrow
    BY <1>4 DEF RecvHeaderTooLong, Drop, PagesGrow
  <2>2. CASE UNCHANGED stream
    BY <1>1, <2>1, <2>2, StreamsStay, EndKeepsSite DEF SiteInv
  <2>3. CASE ~UNCHANGED stream
    <3> DEFINE n == HeaderSpan(st)  rest == Bytes(st[n].of, EndOfLine \o EndOfLine) \o BehindHeader(st)
    <3>1. (\E i \in 1..Len(st) : Stops(st[i])) /\ stream' = [stream EXCEPT ![fd] = rest]
      BY <1>4, <2>3 DEF RecvHeaderTooLong
    <3> HIDE DEF st
    <3>2. n \in 1..Len(st) /\ From(BehindHeader(st), site)
      BY <1>2, <3>1, BehindIsFrom
    <3> HIDE DEF n
    <3>3. From(Bytes(st[n].of, EndOfLine \o EndOfLine), site)
      BY <1>2, <3>2, PiecesAre, BytesAreFrom
    <3>4. From(rest, site)
      BY <3>2, <3>3, ConcatIsFrom
    <3> HIDE DEF rest
    <3>5. StreamsFrom'
      BY <1>1, <3>1, <3>4, WritingKeepsStreams DEF SiteInv
    <3> QED
      BY <1>1, <2>1, <3>5, EndKeepsSite
  <2> QED
    BY <2>2, <2>3
<1> QED
  BY <1>3, <1>4

LEMMA RecvBodyKeepsSite == ASSUME IInv, SiteInv, RecvBody PROVE SiteInv'
<1>1. /\ pc = "body" /\ pc \in Connected /\ fd \in Fds /\ fd = conn[site] /\ site \in Sites
      /\ EndIteration /\ PagesGrow
  BY HandKnown DEF RecvBody, Connected, PagesGrow
<1>2. CASE Read.keep
  <2> DEFINE rest == Bytes(head.of, Received[head.r].rest)
             st == rest \o SubSeq(stream[fd], 2, Len(stream[fd]))
  <2>1. stream' = [stream EXCEPT ![fd] = st] /\ UNCHANGED conn
    BY <1>2 DEF RecvBody
  <2>2. From(stream[fd], site)
    BY <1>1, NoFdIsNoFd DEF SiteInv, StreamsFrom
  <2>3. From(SubSeq(stream[fd], 2, Len(stream[fd])), site)
    BY <2>2, RestIsFrom
  <2>4. From(rest, site)
    <3>1. head.of \in Urls /\ SiteOf[head.of] = site
      BY <1>1 DEF SiteInv, HeadFrom
    <3> QED
      BY <3>1, BytesAreFrom
  <2> HIDE DEF rest
  <2>5. From(st, site)
    BY <2>3, <2>4, ConcatIsFrom
  <2> HIDE DEF st
  <2>6. StreamsFrom'
    BY <1>1, <2>1, <2>5, WritingKeepsStreams DEF SiteInv
  <2> QED
    BY <1>1, <2>6, EndKeepsSite
<1>3. CASE ~Read.keep
  <2>1. StreamsFrom'
    BY <1>1, <1>3, CloseOrKeep DEF RecvBody, SiteInv
  <2> QED
    BY <1>1, <2>1, EndKeepsSite
<1> QED
  BY <1>2, <1>3

LEMMA StepKeepsSite == ASSUME IInv, SiteInv, [Next]_vars PROVE SiteInv'
<1>1. CASE Arrive \/ AnalyseLoops \/ UNCHANGED vars
  BY <1>1, StreamsStay DEF Arrive, AnalyseLoops, vars, SiteInv, HeadFrom, PagesAreOfTheirSite, site
<1>2. CASE Pop \/ Reuse \/ SetTimeout
  BY <1>2, StreamsStay, NoHeaderKeepsSite DEF Pop, Reuse, SetTimeout, SiteInv
<1>3. CASE CreateConnection
  BY <1>3, CreatingKeepsStreams, NoHeaderKeepsSite DEF CreateConnection, SiteInv
<1>4. CASE CreateConnectionFails \/ CreateConnectionLeaks \/ SetTimeoutFails \/ AnalyseFails
  <2>1. EndIteration /\ UNCHANGED <<conn, stream, pages>>
    BY <1>4 DEF CreateConnectionFails, CreateConnectionLeaks, SetTimeoutFails, AnalyseFails,
                Retry, Drop, KeepConnection
  <2> QED
    BY <2>1, StreamsStay, EndKeepsSite DEF SiteInv, PagesGrow
<1>5. CASE GiveUp
  <2>1. EndIteration /\ UNCHANGED pages /\ site \in Sites
    BY <1>5, SiteIsSite DEF GiveUp, Drop, IInv, Shape
  <2>2. StreamsFrom'
    <3>1. CASE conn[site] = NoFd
      BY <1>5, <3>1, StreamsStay DEF GiveUp, KeepConnection, SiteInv
    <3>2. CASE conn[site] # NoFd
      BY <1>5, <2>1, <3>2, ClosingKeepsStreams DEF GiveUp, SiteInv, IInv, Shape, SocketTypes
    <3> QED
      BY <3>1, <3>2
  <2> QED
    BY <2>1, <2>2, EndKeepsSite DEF PagesGrow
<1>6. CASE SendFails \/ RecvHeaderFails \/ RecvBodyRefused \/ RecvBodyFails
  <2>1. /\ EndIteration /\ UNCHANGED pages /\ pc \in Connected
        /\ CloseConnection(fd) \/ UNCHANGED <<conn, stream>>
    BY <1>6 DEF SendFails, RecvHeaderFails, RecvBodyRefused, RecvBodyFails, Retry, Drop,
                CloseUnlessKept, KeepConnection, Connected
  <2> QED
    BY <2>1, CloseOrKeep, EndKeepsSite DEF SiteInv, PagesGrow
<1>7. CASE Analyse
  <2>1. /\ pc = "analyse" /\ pc' = "body" /\ Read.valid
        /\ UNCHANGED <<cur, head, conn, stream, pages>>
    BY <1>7 DEF Analyse
  <2>2. head.is = "head"
    BY <2>1 DEF Read, Fresh
  <2> QED
    BY <2>1, <2>2, StreamsStay DEF SiteInv, HeadFrom, PagesAreOfTheirSite, site
<1> QED
  BY <1>1, <1>2, <1>3, <1>4, <1>5, <1>6, <1>7, SendKeepsSite, RecvHeaderKeepsSite,
     RecvBodyKeepsSite DEF Next, Loop

\* downloader_task.cc: a page is never the answer of another site, whatever is left in
\* connections, whichever exits close them, and whomever the kernel gives their numbers to.
THEOREM PagesComeFromTheirSite == Spec => []PagesAreOfTheirSite
<1>1. SiteInv => PagesAreOfTheirSite
  BY DEF SiteInv
<1> QED
  BY <1>1, InitSite, StepKeepsSite, DownloaderInvariant, PTL DEF Spec

-------------------------------------------------------------------------------
(* If servers send nothing that stays in a kept connection. *)

AllClean == \A k \in Kinds : Clean(k)

\* Only the connection on which a response is awaited, or being read, has something in
\* it, and that is the response to this request.
Expecting == {"header", "analyse", "body"}
Quiet ==
    /\ stream = [f \in Fds |-> stream[f]]
    /\ \A f \in Fds : pc \notin Expecting \/ f # fd => stream[f] = <<>>
Answered ==
    /\ pc = "header" => \E r \in Kinds :
           stream[fd] = <<HeadOf(cur, r)>> \o Bytes(cur, Sent[r])
    /\ pc \in {"analyse", "body"} => \E r \in Kinds :
           head = HeadOf(cur, r) /\ stream[fd] = Bytes(cur, Sent[r])
    /\ pc = "body" => Read.valid
AnswerInv == Quiet /\ Answered /\ PageIsTheRequestedOne

LEMMA BytesAre ==
    ASSUME NEW u, NEW text
    PROVE  Bytes(u, text) = <<>> \/ \E b : Bytes(u, text) = <<b>>
BY DEF Bytes

LEMMA BehindOne ==
    ASSUME NEW h, NEW seq, seq = <<>> \/ \E b : seq = <<b>>
    PROVE  LET st == <<h>> \o seq IN
           /\ st[1] = h /\ Len(st) \in {1, 2}
           /\ SubSeq(st, 1 + 1, Len(st)) = seq /\ <<>> \o seq = seq
<1> DEFINE st == <<h>> \o seq
<1>1. PICK S : h \in S /\ seq \in Seq(S) /\ Len(seq) \in {0, 1}
  <2>1. ASSUME seq = <<>> PROVE \E S : h \in S /\ seq \in Seq(S) /\ Len(seq) \in {0, 1}
    <3>1. h \in {h} /\ <<>> \in Seq({h}) /\ Len(<<>>) = 0
      OBVIOUS
    <3> QED
      BY <2>1, <3>1
  <2>2. ASSUME NEW b, seq = <<b>>
        PROVE  \E S : h \in S /\ seq \in Seq(S) /\ Len(seq) \in {0, 1}
    <3>1. h \in {h, b} /\ <<b>> \in Seq({h, b}) /\ Len(<<b>>) = 1
      OBVIOUS
    <3> QED
      BY <2>2, <3>1
  <2> QED
    BY <2>1, <2>2
<1>2. <<h>> \in Seq(S) /\ Len(<<h>>) = 1 /\ <<h>>[1] = h
  BY <1>1
<1>3. /\ st \in Seq(S) /\ Len(st) = Len(<<h>>) + Len(seq)
      /\ \A i \in 1..Len(<<h>>) + Len(seq) :
            st[i] = IF i <= Len(<<h>>) THEN <<h>>[i] ELSE seq[i - Len(<<h>>)]
  BY <1>1, <1>2, ConcatProperties
<1> HIDE DEF st
<1>4. st[1] = h /\ Len(st) = Len(seq) + 1 /\ \A i \in 2..Len(st) : st[i] = seq[i - 1]
  BY <1>1, <1>2, <1>3
<1>5. SubSeq(st, 2, Len(st)) = seq
  <2>1. \A i \in 2..Len(st) : st[i] \in S
    BY <1>1, <1>3, ElementOfSeq
  <2>2. /\ SubSeq(st, 2, Len(st)) \in Seq(S)
        /\ Len(SubSeq(st, 2, Len(st))) = Len(seq)
        /\ \A i \in 1..Len(seq) : SubSeq(st, 2, Len(st))[i] = st[2 + i - 1]
    BY <1>1, <1>4, <2>1, SubSeqProperties
  <2>3. \A i \in 1..Len(seq) : SubSeq(st, 2, Len(st))[i] = seq[i]
    BY <1>1, <1>4, <2>2
  <2> QED
    BY <1>1, <2>2, <2>3, SeqEqual
<1>6. <<>> \o seq = seq
  BY <1>1, ConcatEmptySeq
<1>7. Len(st) \in {1, 2} /\ 1 + 1 = 2
  BY <1>1, <1>4
<1> QED
  BY <1>4, <1>5, <1>6, <1>7, Zenon DEF st

\* A response is read up to the end of its own header, and behind it is its body.
LEMMA OwnHeader ==
    ASSUME NEW r, NEW st, st = <<HeadOf(cur, r)>> \o Bytes(cur, Sent[r])
    PROVE  /\ st[1] = HeadOf(cur, r) /\ HeaderSpan(st) = 1
           /\ BehindHeader(st) = Bytes(cur, Sent[r])
<1> DEFINE h == HeadOf(cur, r)  bytes == Bytes(cur, Sent[r])
<1>1. h.is = "head"
  BY DEF HeadOf
<1> HIDE DEF h, bytes
<1>2. st = <<h>> \o bytes
  BY DEF h, bytes
<1>3. /\ st[1] = h /\ Len(st) \in {1, 2}
      /\ SubSeq(st, 1 + 1, Len(st)) = bytes /\ <<>> \o bytes = bytes
  <2>1. bytes \in {<<>>} \/ \E b : bytes = <<b>>
    BY BytesAre DEF bytes
  <2> QED
    BY <1>2, <2>1, BehindOne
<1>4. HeaderSpan(st) = 1
  <2>1. Stops(st[1])
    BY <1>1, <1>3 DEF Stops
  <2>2. \A n \in 1..Len(st) :
            Stops(st[n]) /\ (\A i \in 1..(n - 1) : ~Stops(st[i])) <=> n = 1
    BY <1>3, <2>1
  <2>3. 1 \in 1..Len(st)
    BY <1>3
  <2> QED
    BY <2>2, <2>3 DEF HeaderSpan
<1>7. BehindHeader(st) = bytes
  BY <1>1, <1>3, <1>4 DEF BehindHeader
<1> QED
  BY <1>3, <1>4, <1>7 DEF h, bytes

\* Once the iteration ends, the connections are empty.
LEMMA EndKeepsAnswer ==
    ASSUME AnswerInv, EndIteration, UNCHANGED pages, NEW f \in Fds \cup {NoFd},
           CloseConnection(f) \/ UNCHANGED stream,
           pc \in Expecting => (f = fd /\ CloseConnection(f)) \/ stream[fd] = <<>>
    PROVE  AnswerInv'
<1>1. pc' = "pop" /\ stream' \in {stream, [stream EXCEPT ![f] = <<>>]}
  BY DEF EndIteration, CloseConnection
<1>2. stream' = [g \in Fds |-> stream'[g]]
  BY <1>1 DEF AnswerInv, Quiet
<1>3. ASSUME NEW g \in Fds PROVE stream'[g] = <<>>
  BY <1>1
     DEF AnswerInv, Quiet, CloseConnection
<1> QED
  BY <1>1, <1>2, <1>3 DEF AnswerInv, Quiet, Answered, Expecting, PageIsTheRequestedOne

LEMMA NothingBehindBytes ==
    ASSUME NEW u, NEW text
    PROVE  SubSeq(Bytes(u, text), 2, Len(Bytes(u, text))) = <<>>
<1>1. PICK seq : seq = Bytes(u, text)
  OBVIOUS
<1>2. CASE seq = <<>>
  <2>1. SubSeq(<<>>, 2, 0) = <<>>
    BY SubSeqEmpty
  <2> QED
    BY <1>1, <1>2, <2>1
<1>3. ASSUME NEW b, seq = <<b>> PROVE SubSeq(seq, 2, Len(seq)) = <<>>
  <2>1. Len(seq) = 1
    BY <1>3
  <2>2. SubSeq(seq, 2, 1) = <<>>
    BY SubSeqEmpty
  <2> QED
    BY <2>1, <2>2
<1> QED
  BY <1>1, <1>2, <1>3, BytesAre

\* The response at hand in analysis and in recv_http_response_body.
LEMMA AtHand ==
    ASSUME AnswerInv, pc \in {"analyse", "body"}
    PROVE  /\ head.r \in Kinds /\ head.of = cur /\ Read = Analysed[head.r]
           /\ stream[fd] = Bytes(cur, Sent[head.r])
<1>1. PICK r \in Kinds : head = HeadOf(cur, r) /\ stream[fd] = Bytes(cur, Sent[r])
  BY DEF AnswerInv, Answered
<1>2. head.r = r /\ head.of = cur /\ head.is = "head"
  BY <1>1 DEF HeadOf
<1> QED
  BY <1>1, <1>2 DEF Read

LEMMA RecvHeaderKeepsAnswer ==
    ASSUME AllClean, IInv, AnswerInv, RecvHeader \/ RecvHeaderTooLong
    PROVE  AnswerInv'
<1> DEFINE st == stream[fd]
<1>1. pc = "header" /\ fd \in Fds
  BY HandKnown DEF RecvHeader, RecvHeaderTooLong, Connected
<1>2. PICK r \in Kinds : st = <<HeadOf(cur, r)>> \o Bytes(cur, Sent[r])
  BY <1>1 DEF AnswerInv, Answered
<1>3. /\ st[1] = HeadOf(cur, r) /\ HeaderSpan(st) = 1 /\ BehindHeader(st) = Bytes(cur, Sent[r])
      /\ HeadOf(cur, r).is = "head" /\ HeadOf(cur, r).r = r
  <2> HIDE DEF st
  <2>1. st[1] = HeadOf(cur, r) /\ HeaderSpan(st) = 1 /\ BehindHeader(st) = Bytes(cur, Sent[r])
    BY <1>2, OwnHeader
  <2> QED
    BY <2>1 DEF HeadOf
<1>4. ~RecvHeaderTooLong
  <2>1. ~Responses[r].long
    BY DEF AllClean, Clean
  <2> QED
    BY <1>3, <2>1 DEF RecvHeaderTooLong
<1>5. /\ head' = HeadOf(cur, r) /\ stream' = [stream EXCEPT ![fd] = Bytes(cur, Sent[r])]
      /\ pc' = "analyse" /\ UNCHANGED <<cur, fd, pages>>
  BY <1>3, <1>4 DEF RecvHeader
<1>6. Quiet'
  BY <1>1, <1>5 DEF AnswerInv, Quiet, Expecting
<1>7. stream'[fd] = Bytes(cur, Sent[r])
  BY <1>1, <1>5 DEF AnswerInv, Quiet
<1>8. Answered'
  BY <1>5, <1>7 DEF Answered
<1> QED
  BY <1>5, <1>6, <1>8 DEF AnswerInv, PageIsTheRequestedOne

LEMMA RecvBodyKeepsAnswer ==
    ASSUME AllClean, IInv, AnswerInv, RecvBody
    PROVE  AnswerInv'
<1>1. pc = "body" /\ EndIteration /\ fd \in Fds
  BY HandKnown DEF RecvBody, Connected
<1>2. /\ head.r \in Kinds /\ head.of = cur /\ Read = Analysed[head.r] /\ Read.valid
      /\ stream[fd] = Bytes(cur, Sent[head.r])
  BY <1>1, AtHand DEF AnswerInv, Answered
<1>3. head.r \in Whole /\ (Read.keep => Received[head.r].rest = <<>>)
  BY <1>2 DEF RecvBody, HasPage, AllClean, Clean
<1>4. pages' = pages \cup {[url |-> cur, content |-> cur]}
  BY <1>2, <1>3 DEF RecvBody, Content
<1>5. \E st : stream' = [stream EXCEPT ![fd] = st] /\ st = <<>>
  <2>1. CASE Read.keep
    <3>1. Bytes(head.of, Received[head.r].rest) = <<>>
      BY <1>3, <2>1 DEF Bytes
    <3>2. SubSeq(stream[fd], 2, Len(stream[fd])) = <<>>
      BY <1>2, NothingBehindBytes
    <3>3. stream' = [stream EXCEPT ![fd] =
              Bytes(head.of, Received[head.r].rest) \o SubSeq(stream[fd], 2, Len(stream[fd]))]
      BY <2>1 DEF RecvBody
    <3>4. <<>> \o <<>> = <<>>
      BY ConcatEmptySeq, EmptySeq
    <3> QED
      BY <3>1, <3>2, <3>3, <3>4
  <2>2. CASE ~Read.keep
    BY <2>2 DEF RecvBody, CloseConnection
  <2> QED
    BY <2>1, <2>2
<1>6. Quiet'
  BY <1>1, <1>5 DEF AnswerInv, Quiet, EndIteration, Expecting
<1>7. Answered'
  BY <1>1 DEF Answered, EndIteration
<1> QED
  BY <1>4, <1>6, <1>7 DEF AnswerInv, PageIsTheRequestedOne

LEMMA SendKeepsAnswer == ASSUME IInv, AnswerInv, Send PROVE AnswerInv'
<1>1. PICK r \in Kinds :
          stream' = [stream EXCEPT ![fd] = @ \o <<HeadOf(cur, r)>> \o Bytes(cur, Sent[r])]
  BY DEF Send
<1>2. pc = "send" /\ fd \in Fds /\ UNCHANGED <<fd, cur, pages>> /\ pc' = "header"
  BY HandKnown DEF Send, Connected
<1>3. stream[fd] = <<>>
  BY <1>2 DEF AnswerInv, Quiet, Expecting
<1>4. <<>> \o <<HeadOf(cur, r)>> = <<HeadOf(cur, r)>>
  <2>1. <<HeadOf(cur, r)>> \in Seq({HeadOf(cur, r)})
    OBVIOUS
  <2> QED
    BY <2>1, ConcatEmptySeq
<1>5. stream' = [stream EXCEPT ![fd] = <<HeadOf(cur, r)>> \o Bytes(cur, Sent[r])]
  BY <1>1, <1>3, <1>4
<1>6. Quiet'
  BY <1>2, <1>5 DEF AnswerInv, Quiet, Expecting
<1>7. stream'[fd] = <<HeadOf(cur, r)>> \o Bytes(cur, Sent[r])
  BY <1>2, <1>5 DEF AnswerInv, Quiet
<1>8. Answered'
  BY <1>2, <1>7 DEF Answered
<1> QED
  BY <1>2, <1>6, <1>8 DEF AnswerInv, PageIsTheRequestedOne

LEMMA StepKeepsAnswer ==
    ASSUME AllClean, IInv, AnswerInv, [Next]_vars
    PROVE  AnswerInv'
<1> USE DEF Expecting
<1>1. CASE Arrive \/ AnalyseLoops \/ UNCHANGED vars
  BY <1>1 DEF Arrive, AnalyseLoops, vars, AnswerInv, Quiet, Answered, PageIsTheRequestedOne, Read
<1>2. CASE Pop \/ Reuse \/ SetTimeout \/ CreateConnection
  <2>1. /\ pc \notin Expecting /\ pc' \notin Expecting /\ UNCHANGED <<stream, pages>>
    BY <1>2 DEF Pop, Reuse, SetTimeout, CreateConnection, NeedsConnection
  <2> QED
    BY <2>1 DEF AnswerInv, Quiet, Answered, PageIsTheRequestedOne
<1>3. CASE CreateConnectionFails \/ CreateConnectionLeaks \/ SetTimeoutFails
  <2>1. /\ EndIteration /\ UNCHANGED <<pages, stream>> /\ pc \notin Expecting
    BY <1>3 DEF CreateConnectionFails, CreateConnectionLeaks, SetTimeoutFails, NeedsConnection,
                Retry, KeepConnection
  <2> QED
    BY <2>1, EndKeepsAnswer
<1>4. CASE GiveUp
  <2>1. EndIteration /\ UNCHANGED pages /\ pc \notin Expecting /\ site \in Sites
    BY <1>4, SiteIsSite DEF GiveUp, Drop, IInv, Shape
  <2>2. /\ conn[site] \in Fds \cup {NoFd}
        /\ CloseConnection(conn[site]) \/ UNCHANGED stream
    BY <1>4, <2>1 DEF GiveUp, KeepConnection, IInv, Shape, SocketTypes
  <2> QED
    BY <2>1, <2>2, EndKeepsAnswer
<1>5. CASE SendFails \/ RecvHeaderFails \/ RecvBodyFails
  <2>1. EndIteration /\ UNCHANGED pages /\ CloseConnection(fd) /\ fd \in Fds
    BY <1>5, HandKnown DEF SendFails, RecvHeaderFails, RecvBodyFails, Retry, Connected
  <2> QED
    BY <2>1, EndKeepsAnswer
<1>6. CASE AnalyseFails
  <2>1. EndIteration /\ UNCHANGED <<pages, stream>> /\ pc = "analyse" /\ ~Read.valid /\ fd \in Fds
    BY <1>6, HandKnown DEF AnalyseFails, Drop, KeepConnection, Connected
  <2>2. Sent[head.r] = <<>>
    BY <2>1, AtHand DEF AllClean, Clean
  <2>3. stream[fd] = <<>>
    BY <2>1, <2>2, AtHand DEF Bytes
  <2> QED
    BY <2>1, <2>3, EndKeepsAnswer
<1>7. CASE Analyse
  <2>1. /\ pc = "analyse" /\ pc' = "body" /\ Read.valid
        /\ UNCHANGED <<cur, fd, head, stream, pages>>
    BY <1>7 DEF Analyse
  <2> QED
    BY <2>1 DEF AnswerInv, Quiet, Answered, PageIsTheRequestedOne, Read
<1>8. CASE RecvBodyRefused
  <2>1. /\ EndIteration /\ UNCHANGED pages /\ pc = "body" /\ fd \in Fds /\ ~HasPage
        /\ IF Read.keep THEN UNCHANGED stream ELSE CloseConnection(fd)
    BY <1>8, HandKnown DEF RecvBodyRefused, Drop, CloseUnlessKept, KeepConnection, Connected
  <2>2. ASSUME Read.keep PROVE stream[fd] = <<>>
    <3>1. Sent[head.r] = <<>>
      BY <2>1, <2>2, AtHand DEF AllClean, Clean, HasPage
    <3> QED
      BY <2>1, <3>1, AtHand DEF Bytes
  <2> QED
    BY <2>1, <2>2, EndKeepsAnswer
<1> QED
  BY <1>1, <1>2, <1>3, <1>4, <1>5, <1>6, <1>7, <1>8, SendKeepsAnswer, RecvHeaderKeepsAnswer,
     RecvBodyKeepsAnswer DEF Next, Loop

\* README: the downloader waits for "the requested web pages".  It gets them if no
\* response leaves anything in a connection that is kept: the unread bodies, the rest of
\* long headers and the trailers of chunks are all that can go wrong.
THEOREM RequestedPages == AllClean => (Spec => []PageIsTheRequestedOne)
<1> SUFFICES ASSUME AllClean PROVE Spec => []PageIsTheRequestedOne
  OBVIOUS
<1>1. Init => AnswerInv
  BY DEF Init, AnswerInv, Quiet, Answered, PageIsTheRequestedOne
<1>2. IInv /\ AnswerInv /\ [Next]_vars => AnswerInv'
  BY StepKeepsAnswer
<1>3. AnswerInv => PageIsTheRequestedOne
  BY DEF AnswerInv
<1> QED
  BY <1>1, <1>2, <1>3, DownloaderInvariant, PTL DEF Spec
-------------------------------------------------------------------------------
(* Functions that are defined by recursion. *)

\* A function that is defined at x by its value at next[x], which is smaller by a measure m,
\* and outright where x is in B: there is one.
Solution(f, D, B, base, next, step) ==
    \A x \in D : f[x] = IF x \in B THEN base[x] ELSE step[<<x, f[next[x]]>>]
Recursion(D, S, B, m, base, next, step) ==
    /\ m \in [D -> Nat] /\ base \in [D -> S] /\ next \in [D -> D] /\ step \in [D \X S -> S]
    /\ \A x \in D : x \notin B => m[next[x]] < m[x]

LEMMA RecursionHasSolution ==
    ASSUME NEW D, NEW S, NEW B, NEW m, NEW base, NEW next, NEW step,
           Recursion(D, S, B, m, base, next, step)
    PROVE  \E f \in [D -> S] : Solution(f, D, B, base, next, step)
<1> USE DEF Recursion
<1> DEFINE Right(f, x) == IF x \in B THEN base[x] ELSE step[<<x, f[next[x]]>>]
           Solves(f, n) == \A x \in D : m[x] <= n => f[x] = Right(f, x)
<1>1. \A f \in [D -> S] : \A x \in D : Right(f, x) \in S
  OBVIOUS
<1>2. \A n \in Nat : \E f \in [D -> S] : Solves(f, n)
  <2> DEFINE T == {n \in Nat : \A f \in [D -> S] : ~Solves(f, n)}
  <2> SUFFICES ASSUME T # {} PROVE FALSE
    OBVIOUS
  <2>1. PICK n \in T : \A k \in T : n <= k
    BY LeastIs
  <2>2. PICK f \in [D -> S] : \A x \in D : m[x] < n => f[x] = Right(f, x)
    <3>1. CASE n = 0
      BY <3>1
    <3>2. CASE n # 0
      <4>1. n - 1 \in Nat /\ n - 1 \notin T
        BY <2>1, <3>2
      <4>2. PICK f \in [D -> S] : Solves(f, n - 1)
        BY <4>1
      <4>3. \A x \in D : m[x] < n => m[x] <= n - 1
        BY <2>1
      <4> QED
        BY <4>2, <4>3
    <3> QED
      BY <3>1, <3>2
  <2> DEFINE g == [x \in D |-> IF m[x] < n THEN f[x] ELSE Right(f, x)]
  <2> HIDE DEF Right
  <2>3. g \in [D -> S]
    BY <1>1, <2>2
  <2>4. \A x \in D : m[x] <= n => g[x] = Right(f, x)
    BY <2>1, <2>2
  <2>5. \A x \in D : m[x] <= n => Right(g, x) = Right(f, x)
    <3> SUFFICES ASSUME NEW x \in D, m[x] <= n, x \notin B PROVE g[next[x]] = f[next[x]]
      BY DEF Right
    <3> QED
      BY <2>1
  <2>6. Solves(g, n)
    BY <2>4, <2>5
  <2> QED
    BY <2>1, <2>3, <2>6
<1>3. \A n \in Nat : \A f, g \in [D -> S] : Solves(f, n) /\ Solves(g, n) =>
          \A x \in D : m[x] <= n => f[x] = g[x]
  <2> SUFFICES ASSUME NEW n \in Nat, NEW f \in [D -> S], NEW g \in [D -> S],
                      Solves(f, n), Solves(g, n)
               PROVE  \A x \in D : m[x] <= n => f[x] = g[x]
    OBVIOUS
  <2> SUFFICES ASSUME \E x \in D : m[x] <= n /\ f[x] # g[x] PROVE FALSE
    OBVIOUS
  <2> DEFINE T == {k \in Nat : \E x \in D : m[x] = k /\ k <= n /\ f[x] # g[x]}
  <2>1. PICK k \in T : \A j \in T : k <= j
    <3>1. T \in SUBSET Nat /\ T # {}
      OBVIOUS
    <3> HIDE DEF T
    <3> QED
      BY <3>1, LeastIs
  <2>2. PICK x \in D : m[x] = k /\ m[x] <= n /\ f[x] # g[x]
    BY <2>1
  <2>3. Right(f, x) # Right(g, x)
    BY <2>2
  <2>4. x \notin B /\ f[next[x]] # g[next[x]]
    BY <2>3
  <2>5. m[next[x]] < k /\ m[next[x]] \in T
    BY <2>2, <2>4
  <2> QED
    BY <2>1, <2>2, <2>5
<1> DEFINE F(n) == CHOOSE f \in [D -> S] : Solves(f, n)
           h == [x \in D |-> F(m[x])[x]]
<1> HIDE DEF Right
<1>4. \A n \in Nat : F(n) \in [D -> S] /\ Solves(F(n), n)
  BY <1>2
<1> HIDE DEF F
<1>5. h \in [D -> S]
  BY <1>4
<1>6. ASSUME NEW x \in D PROVE h[x] = Right(h, x)
  <2>1. h[x] = Right(F(m[x]), x)
    <3>1. m[x] \in Nat /\ m[x] <= m[x]
      OBVIOUS
    <3> QED
      BY <1>4, <3>1
  <2>2. ASSUME x \notin B PROVE F(m[x])[next[x]] = h[next[x]]
    <3> DEFINE y == next[x]
    <3>1. m[y] < m[x] /\ y \in D
      BY <2>2
    <3>2. m[x] \in Nat /\ m[y] \in Nat /\ \A z \in D : m[z] <= m[y] => m[z] <= m[x]
      BY <3>1
    <3>3. Solves(F(m[x]), m[y]) /\ Solves(F(m[y]), m[y])
      BY <1>4, <3>2
    <3>4. F(m[x])[y] = F(m[y])[y]
      BY <1>3, <1>4, <3>1, <3>2, <3>3
    <3>5. h[y] = F(m[y])[y]
      BY <3>1
    <3> QED
      BY <3>4, <3>5
  <2> QED
    BY <2>1, <2>2 DEF Right
<1> QED
  BY <1>5, <1>6 DEF Right, Solution

\* The least member of a set of numbers is its Min.
LEMMA MinIs ==
    ASSUME NEW S \in SUBSET Nat, NEW m \in S, \A y \in S : m <= y
    PROVE  Min(S) = m
<1>1. \A x \in S : (\A y \in S : x =< y) => x = m
  OBVIOUS
<1> QED
  BY <1>1 DEF Min

\* A part of a sequence is what its elements say.
LEMMA PartIs ==
    ASSUME NEW S, NEW t \in Seq(S), NEW u \in Seq(S), NEW m \in Nat,
           m + Len(u) <= Len(t), \A i \in 1..Len(u) : t[m + i] = u[i]
    PROVE  SubSeq(t, m + 1, m + Len(u)) = u
<1> DEFINE p == SubSeq(t, m + 1, m + Len(u))
<1>1. Len(t) \in Nat /\ Len(u) \in Nat
  BY LenProperties
<1>2. \A i \in (m + 1)..(m + Len(u)) : t[i] \in S
  BY <1>1, ElementOfSeq
<1>3. /\ p \in Seq(S) /\ Len(p) = IF m + 1 <= m + Len(u) THEN (m + Len(u)) - (m + 1) + 1 ELSE 0
      /\ \A i \in 1..((m + Len(u)) - (m + 1) + 1) : p[i] = t[(m + 1) + i - 1]
  <2>1. m + 1 \in Int /\ m + Len(u) \in Int
    BY <1>1
  <2> QED
    BY <1>2, <2>1, SubSeqProperties
<1> HIDE DEF p
<1>4. Len(p) = Len(u)
  BY <1>1, <1>3
<1>5. \A i \in 1..Len(p) : p[i] = u[i]
  BY <1>1, <1>3, <1>4
<1>6. p = u
  BY <1>3, <1>4, <1>5, SeqEqual
<1> QED
  BY <1>6 DEF p

LEMMA TwoAre ==
    ASSUME NEW S, NEW a \in Seq(S), NEW b \in Seq(S), NEW t, t = a \o b
    PROVE  /\ t \in Seq(S) /\ Len(t) = Len(a) + Len(b)
           /\ \A i \in 1..Len(a) : t[i] = a[i]
           /\ \A i \in 1..Len(b) : t[Len(a) + i] = b[i]
<1>1. Len(a) \in Nat /\ Len(b) \in Nat
  BY LenProperties
<1>2. /\ t \in Seq(S) /\ Len(t) = Len(a) + Len(b)
      /\ \A i \in 1..Len(a) + Len(b) : t[i] = IF i <= Len(a) THEN a[i] ELSE b[i - Len(a)]
  BY ConcatProperties
<1>3. \A i \in 1..Len(a) : t[i] = a[i]
  BY <1>1, <1>2
<1>4. ASSUME NEW i \in 1..Len(b) PROVE t[Len(a) + i] = b[i]
  <2>1. Len(a) + i \in 1..Len(a) + Len(b) /\ ~(Len(a) + i <= Len(a)) /\ (Len(a) + i) - Len(a) = i
    BY <1>1
  <2> QED
    BY <1>2, <2>1
<1> QED
  BY <1>2, <1>3, <1>4

\* A function that is defined from 0 up, and one that is defined from behind: there is
\* one, and its values are in S if each is when the one before it is.
-------------------------------------------------------------------------------
(* Functions of the numbers up to N, or down from N. *)

UpFrom(f, N, start, step) == f[0] = start /\ \A n \in 1..N : f[n] = step[<<n, f[n - 1]>>]
DownFrom(f, N, start, step) == f[N + 1] = start /\ \A n \in 1..N : f[n] = step[<<n, f[n + 1]>>]

LEMMA UpThere ==
    ASSUME NEW N \in Nat, NEW S, NEW start \in S, NEW step \in [(0..N) \X S -> S]
    PROVE  \E f \in [0..N -> S] : UpFrom(f, N, start, step)
<1> DEFINE D == 0..N
           B == {0}
           m == [n \in D |-> n]
           base == [n \in D |-> start]
           next == [n \in D |-> IF n = 0 THEN 0 ELSE n - 1]
<1>1. m \in [D -> Nat] /\ base \in [D -> S] /\ next \in [D -> D] /\ step \in [D \X S -> S]
  OBVIOUS
<1>2. \A x \in D : x \notin B => m[next[x]] < m[x]
  OBVIOUS
<1>3. \A n \in 1..N : n \in D /\ n \notin B /\ next[n] = n - 1
  OBVIOUS
<1>4. 0 \in D /\ 0 \in B /\ base[0] = start
  OBVIOUS
<1> HIDE DEF m, base, next, B
<1>5. Recursion(D, S, B, m, base, next, step)
  BY <1>1, <1>2 DEF Recursion
<1> HIDE DEF D
<1>6. PICK f \in [D -> S] : Solution(f, D, B, base, next, step)
  BY <1>5, RecursionHasSolution
<1>7. f[0] = start /\ \A n \in 1..N : f[n] = step[<<n, f[n - 1]>>]
  BY <1>3, <1>4, <1>6 DEF Solution
<1> QED
  BY <1>6, <1>7 DEF D, UpFrom

LEMMA UpIn ==
    ASSUME NEW N \in Nat, NEW S, NEW f, f[0] \in S,
           \A n \in 1..N : f[n - 1] \in S => f[n] \in S
    PROVE  \A n \in 0..N : f[n] \in S
<1> DEFINE T == {n \in 0..N : f[n] \notin S}
<1> SUFFICES ASSUME T # {} PROVE FALSE
  OBVIOUS
<1>1. T \in SUBSET Nat
  OBVIOUS
<1>2. PICK n \in T : \A k \in T : n <= k
  BY <1>1, LeastIs
<1>3. n \in 1..N /\ n - 1 \in 0..N /\ n - 1 \notin T
  BY <1>2
<1> QED
  BY <1>2, <1>3

LEMMA DownThere ==
    ASSUME NEW N \in Nat, NEW S, NEW start \in S, NEW step \in [(1..(N + 1)) \X S -> S]
    PROVE  \E f \in [1..(N + 1) -> S] : DownFrom(f, N, start, step)
<1> DEFINE D == 1..(N + 1)
           B == {N + 1}
           m == [n \in D |-> N + 1 - n]
           base == [n \in D |-> start]
           next == [n \in D |-> IF n = N + 1 THEN n ELSE n + 1]
<1>1. m \in [D -> Nat] /\ base \in [D -> S] /\ next \in [D -> D] /\ step \in [D \X S -> S]
  OBVIOUS
<1>2. \A x \in D : x \notin B => m[next[x]] < m[x]
  OBVIOUS
<1>3. \A n \in 1..N : n \in D /\ n \notin B /\ next[n] = n + 1
  OBVIOUS
<1>4. N + 1 \in D /\ N + 1 \in B /\ base[N + 1] = start
  OBVIOUS
<1> HIDE DEF m, base, next, B
<1>5. Recursion(D, S, B, m, base, next, step)
  BY <1>1, <1>2 DEF Recursion
<1> HIDE DEF D
<1>6. PICK f \in [D -> S] : Solution(f, D, B, base, next, step)
  BY <1>5, RecursionHasSolution
<1>7. f[N + 1] = start /\ \A n \in 1..N : f[n] = step[<<n, f[n + 1]>>]
  BY <1>3, <1>4, <1>6 DEF Solution
<1> QED
  BY <1>6, <1>7 DEF D, DownFrom

LEMMA DownIn ==
    ASSUME NEW N \in Nat, NEW S, NEW f, f[N + 1] \in S,
           \A n \in 1..N : f[n + 1] \in S => f[n] \in S
    PROVE  \A n \in 1..(N + 1) : f[n] \in S
<1> DEFINE T == {n \in 0..N : f[N + 1 - n] \notin S}
<1>1. T = {}
  <2> SUFFICES ASSUME T # {} PROVE FALSE
    OBVIOUS
  <2>1. T \in SUBSET Nat
    OBVIOUS
  <2>2. PICK n \in T : \A k \in T : n <= k
    BY <2>1, LeastIs
  <2>3. n \in 1..N /\ n - 1 \in 0..N /\ n - 1 \notin T
    BY <2>2
  <2>4. N + 1 - n \in 1..N /\ (N + 1 - n) + 1 = N + 1 - (n - 1)
    BY <2>3
  <2>5. f[(N + 1 - n) + 1] \in S
    BY <2>3, <2>4
  <2> QED
    BY <2>2, <2>4, <2>5
<1>2. ASSUME NEW n \in 1..(N + 1) PROVE f[n] \in S
  <2>1. N + 1 - n \in 0..N /\ N + 1 - (N + 1 - n) = n
    OBVIOUS
  <2> QED
    BY <1>1, <2>1
<1> QED
  BY <1>2

-------------------------------------------------------------------------------
\* The digits, decimal and hexadecimal.
-------------------------------------------------------------------------------
(* Digits, and the numbers that are written with them. *)

LEMMA DigitIs == \A c : IsDigit(c) => Digit(c) \in 0..9
<1> SUFFICES ASSUME NEW c, IsDigit(c) PROVE Digit(c) \in 0..9
  OBVIOUS
<1>1. \E i \in 1..10 : Digits[i] = c
  BY DEF IsDigit, Range, Digits
<1>2. (CHOOSE i \in 1..10 : Digits[i] = c) \in 1..10
  BY <1>1
<1> QED
  BY <1>2 DEF Digit

LEMMA HexDigitIs == \A c : IsHex(c) => HexDigit(c) \in 0..15
<1> SUFFICES ASSUME NEW c, IsHex(c) PROVE HexDigit(c) \in 0..15
  OBVIOUS
<1>1. DOMAIN HexDigits = 1..16
  BY DEF HexDigits
<1>2. \E i \in 1..16 : HexDigits[i] = c
  BY <1>1 DEF IsHex, Range
<1>3. (CHOOSE i \in 1..16 : HexDigits[i] = c) \in 1..16
  BY <1>2
<1> QED
  BY <1>3 DEF HexDigit

LEMMA NumberIs ==
    ASSUME NEW S, NEW text \in Seq(S), \A i \in 1..Len(text) : IsDigit(text[i])
    PROVE  NumberOf(text) \in Nat
<1> DEFINE N == Len(text)
           number[n \in 0..N] == IF n = 0 THEN 0 ELSE 10 * number[n - 1] + Digit(text[n])
           value(g, n) == IF n = 0 THEN 0 ELSE 10 * g[n - 1] + Digit(text[n])
           step == [x \in (0..N) \X Nat |-> IF x[1] = 0 THEN 0 ELSE 10 * x[2] + Digit(text[x[1]])]
<1>1. N \in Nat
  BY LenProperties
<1>2. \A n \in 1..N : Digit(text[n]) \in Nat
  BY <1>1, DigitIs
<1>3. step \in [(0..N) \X Nat -> Nat]
  <2> SUFFICES ASSUME NEW n \in 0..N, NEW k \in Nat
               PROVE  (IF n = 0 THEN 0 ELSE 10 * k + Digit(text[n])) \in Nat
    OBVIOUS
  <2>1. n # 0 => n \in 1..N
    BY <1>1
  <2> HIDE DEF N
  <2> QED
    BY <1>2, <2>1
<1>4. \A n \in 1..N, k \in Nat : step[<<n, k>>] = 10 * k + Digit(text[n])
  BY <1>1
<1>5. PICK f \in [0..N -> Nat] : UpFrom(f, N, 0, step)
  <2>1. 0 \in Nat
    OBVIOUS
  <2> HIDE DEF step, N
  <2> QED
    BY <1>1, <1>3, <2>1, UpThere
<1>6. f = [n \in 0..N |-> value(f, n)]
  <2> HIDE DEF step, N
  <2>1. \A n \in 0..N : n # 0 => n \in 1..N /\ n - 1 \in 0..N
    BY <1>1
  <2>2. \A n \in 0..N : f[n] = value(f, n)
    BY <1>4, <1>5, <2>1 DEF UpFrom
  <2> QED
    BY <1>5, <2>2
<1>7. number = CHOOSE g : g = [n \in 0..N |-> value(g, n)]
  OBVIOUS
<1>8. number = [n \in 0..N |-> value(number, n)]
  <2> HIDE DEF value, number, N
  <2> QED
    BY <1>6, <1>7
<1>9. \A n \in 0..N : number[n] = value(number, n)
  <2> HIDE DEF value, number, N
  <2> QED
    BY <1>8
<1>10. number[N] \in Nat
  <2>1. number[0] \in Nat
    <3> HIDE DEF number, N
    <3> QED
      BY <1>1, <1>9
  <2>2. \A n \in 1..N : number[n - 1] \in Nat => number[n] \in Nat
    <3> HIDE DEF number, N
    <3>1. \A n \in 1..N : n \in 0..N /\ n # 0
      BY <1>1
    <3> QED
      BY <1>2, <1>9, <3>1
  <2> HIDE DEF number, N
  <2>3. \A n \in 0..N : number[n] \in Nat
    BY <1>1, <2>1, <2>2, UpIn
  <2> QED
    BY <1>1, <2>3
<1> QED
  BY <1>10 DEF NumberOf

\* The number in the first n characters, and how the next changes it.
HexNext(text, n, k) ==
    IF ~IsHex(text[n]) THEN k ELSE (16 * k + HexDigit(text[n])) % (UintMax + 1)
HexFrom(f, text) ==
    f[0] = 0 /\ \A n \in 1..Len(text) : f[n] = HexNext(text, n, f[n - 1])

LEMMA HexNextType ==
    ASSUME NEW text, NEW n, NEW k \in Nat
    PROVE  HexNext(text, n, k) \in Nat
<1>1. CASE IsHex(text[n])
  <2>1. HexDigit(text[n]) \in Nat
    BY <1>1, HexDigitIs
  <2> DEFINE d == HexDigit(text[n])
             w == UintMax + 1
  <2>2. w \in Nat \ {0}
    BY UintMaxType
  <2>3. 16 * k + d \in Nat
    BY <2>1
  <2> HIDE DEF d, w
  <2>4. (16 * k + d) % w \in Nat
    BY <2>2, <2>3
  <2> QED
    BY <1>1, <2>4 DEF HexNext, d, w
<1>2. CASE ~IsHex(text[n])
  BY <1>2 DEF HexNext
<1> QED
  BY <1>1, <1>2

LEMMA HexNumberIs ==
    ASSUME NEW S, NEW text \in Seq(S)
    PROVE  \E f \in [0..Len(text) -> Nat] : HexFrom(f, text) /\ HexNumber(text) = f[Len(text)]
<1> DEFINE N == Len(text)
           number[n \in 0..N] ==
               IF n = 0 THEN 0
               ELSE IF ~IsHex(text[n]) THEN number[n - 1]
               ELSE (16 * number[n - 1] + HexDigit(text[n])) % (UintMax + 1)
           value(g, n) ==
               IF n = 0 THEN 0
               ELSE IF ~IsHex(text[n]) THEN g[n - 1]
               ELSE (16 * g[n - 1] + HexDigit(text[n])) % (UintMax + 1)
           step == [x \in (0..N) \X Nat |-> HexNext(text, x[1], x[2])]
<1>1. N \in Nat /\ 0 \in Nat
  BY LenProperties
<1>2. step \in [(0..N) \X Nat -> Nat]
  BY HexNextType
<1>3. \A n \in 1..N, k \in Nat : step[<<n, k>>] = HexNext(text, n, k)
  BY <1>1
<1>4. PICK f \in [0..N -> Nat] : UpFrom(f, N, 0, step)
  <2> HIDE DEF step, N
  <2> QED
    BY <1>1, <1>2, UpThere
<1>5. f = [n \in 0..N |-> value(f, n)]
  <2> HIDE DEF step, N
  <2>1. \A n \in 0..N : n # 0 => n \in 1..N /\ n - 1 \in 0..N
    BY <1>1
  <2>2. \A n \in 0..N : f[n] = value(f, n)
    BY <1>3, <1>4, <2>1 DEF UpFrom, HexNext
  <2> QED
    BY <1>4, <2>2
<1>6. number = CHOOSE g : g = [n \in 0..N |-> value(g, n)]
  OBVIOUS
<1>7. number = [n \in 0..N |-> value(number, n)]
  <2> HIDE DEF value, number, N
  <2> QED
    BY <1>5, <1>6
<1>8. number[0] = 0 /\ \A n \in 1..N : number[n] = HexNext(text, n, number[n - 1])
  <2>1. \A n \in 0..N : number[n] = value(number, n)
    <3> HIDE DEF value, number, N
    <3> QED
      BY <1>7
  <2>2. \A n \in 1..N : n \in 0..N /\ n # 0
    BY <1>1
  <2> HIDE DEF number, N
  <2> QED
    BY <1>1, <2>1, <2>2 DEF HexNext
<1>9. \A n \in 0..N : number[n] \in Nat
  <2> HIDE DEF number, N
  <2>1. \A n \in 1..N : number[n - 1] \in Nat => number[n] \in Nat
    BY <1>8, HexNextType
  <2>2. number[0] \in Nat
    BY <1>8
  <2> QED
    BY <1>1, <2>1, <2>2, UpIn
<1>10. number \in [0..N -> Nat]
  <2> HIDE DEF value, number, N
  <2> QED
    BY <1>7, <1>9
<1>11. HexNumber(text) = number[N]
  BY DEF HexNumber
<1> HIDE DEF number
<1>12. HexFrom(number, text)
  BY <1>8 DEF HexFrom
<1> QED
  BY <1>10, <1>11, <1>12

\* recv_chunk_size skips what is no digit.
LEMMA BlanksAreSkipped ==
    ASSUME NEW S, NEW text \in Seq(S), NEW blank \in Seq(S), NEW t, t = text \o blank,
           \A i \in 1..Len(blank) : ~IsHex(blank[i])
    PROVE  HexNumber(t) = HexNumber(text)
<1>1. /\ t \in Seq(S) /\ Len(t) = Len(text) + Len(blank)
      /\ \A i \in 1..Len(text) : t[i] = text[i]
      /\ \A i \in 1..Len(blank) : t[Len(text) + i] = blank[i]
  BY TwoAre
<1>2. Len(text) \in Nat /\ Len(blank) \in Nat
  BY LenProperties
<1>3. PICK f \in [0..Len(t) -> Nat] : HexFrom(f, t) /\ HexNumber(t) = f[Len(t)]
  BY <1>1, HexNumberIs
<1>4. PICK g \in [0..Len(text) -> Nat] : HexFrom(g, text) /\ HexNumber(text) = g[Len(text)]
  BY HexNumberIs
<1> DEFINE m == Len(text)
           T == {n \in 0..m : f[n] # g[n]}
           U == {n \in 0..Len(blank) : f[m + n] # f[m]}
<1>5. f[m] = g[m]
  <2> SUFFICES ASSUME T # {} PROVE FALSE
    BY <1>2
  <2>1. T \in SUBSET Nat
    BY <1>2
  <2>2. PICK n \in T : \A k \in T : n <= k
    BY <2>1, LeastIs
  <2>3. n \in 0..m /\ f[n] # g[n]
    BY <2>2
  <2>4. n \in 1..m /\ n \in 1..Len(t)
    BY <1>1, <1>2, <1>3, <1>4, <2>3 DEF HexFrom
  <2>5. n - 1 \in 0..m /\ n - 1 \notin T
    BY <1>2, <2>2, <2>4
  <2>6. f[n - 1] = g[n - 1]
    BY <2>5
  <2>7. f[n] = HexNext(t, n, f[n - 1]) /\ g[n] = HexNext(text, n, g[n - 1])
    BY <1>3, <1>4, <2>4 DEF HexFrom
  <2>8. t[n] = text[n]
    BY <1>1, <2>4
  <2> QED
    BY <2>3, <2>6, <2>7, <2>8 DEF HexNext
<1>6. f[m + Len(blank)] = f[m]
  <2> SUFFICES ASSUME U # {} PROVE FALSE
    <3>1. Len(blank) \in 0..Len(blank)
      BY <1>2
    <3> QED
      BY <3>1
  <2>1. U \in SUBSET Nat
    BY <1>2
  <2>2. PICK n \in U : \A k \in U : n <= k
    BY <2>1, LeastIs
  <2>3. n \in 0..Len(blank) /\ f[m + n] # f[m]
    BY <2>2
  <2>4. n # 0
    <3>1. m + 0 = m
      BY <1>2
    <3> QED
      BY <2>3, <3>1
  <2>5. n \in 1..Len(blank) /\ m + n \in 1..Len(t) /\ (m + n) - 1 = m + (n - 1)
    BY <1>1, <1>2, <2>3, <2>4
  <2>6. n - 1 \in 0..Len(blank) /\ n - 1 \notin U
    <3>1. n - 1 \in 0..Len(blank) /\ ~(n <= n - 1)
      BY <1>2, <2>5
    <3> QED
      BY <2>2, <3>1
  <2>7. f[m + (n - 1)] = f[m]
    BY <2>6
  <2>8. f[m + n] = HexNext(t, m + n, f[(m + n) - 1])
    BY <1>3, <2>5 DEF HexFrom
  <2>9. ~IsHex(t[m + n])
    BY <1>1, <2>5
  <2>10. f[m + n] = f[(m + n) - 1]
    BY <2>8, <2>9 DEF HexNext
  <2> QED
    BY <2>3, <2>5, <2>7, <2>10
<1> QED
  BY <1>1, <1>3, <1>4, <1>5, <1>6

-------------------------------------------------------------------------------
(* HttpResponseHeader::analysis, line by line. *)

LineSet == [key : STRING, gap : {"spaced", "tight", "none"}, value : Seq(STRING)]
ReadUpTo(f, r) ==
    f[0] = Fresh /\ \A n \in 1..Len(r.lines) : f[n] = ReadLine(f[n - 1], r.lines[n])

LEMMA AnalysisIs ==
    ASSUME NEW r, r.lines \in Seq(LineSet), r.http, r.lines # <<>>
    PROVE  \E f : ReadUpTo(f, r) /\ Analysis(r) = f[Len(r.lines)]
<1> DEFINE N == Len(r.lines)
           Length(n) == Signed(Str2Integer(Value(r.lines[n]), UintMax))
           L == {Chunks} \cup {Length(n) : n \in 1..N}
           S == [valid : BOOLEAN, endless : BOOLEAN, length : L, keep : BOOLEAN]
           read[n \in 0..N] == IF n = 0 THEN Fresh ELSE ReadLine(read[n - 1], r.lines[n])
           value(g, n) == IF n = 0 THEN Fresh ELSE ReadLine(g[n - 1], r.lines[n])
           step == [x \in (0..N) \X S |-> IF x[1] = 0 THEN Fresh ELSE ReadLine(x[2], r.lines[x[1]])]
<1>1. N \in Nat
  BY LenProperties
<1>2. Fresh \in S
  BY DEF Fresh
<1>3. ASSUME NEW h \in S, NEW n \in 1..N PROVE ReadLine(h, r.lines[n]) \in S
  <2> DEFINE line == r.lines[n]
  <2>1. Chunks \in L /\ Length(n) \in L
    OBVIOUS
  <2> HIDE DEF L
  <2>2. \A l \in L : [h EXCEPT !.length = l] \in S
    OBVIOUS
  <2>3. /\ [h EXCEPT !.valid = FALSE] \in S /\ [h EXCEPT !.endless = TRUE] \in S
        /\ [h EXCEPT !.keep = FALSE] \in S
    OBVIOUS
  <2> HIDE DEF S
  <2>4. ContentLength(h, Value(line)) \in S
    BY <2>1, <2>2 DEF ContentLength
  <2>5. TransferEncoding(h, Value(line)) \in S
    BY <2>1, <2>2, <2>3 DEF TransferEncoding
  <2>6. Connection(h, Value(line)) \in S
    BY <2>3 DEF Connection
  <2> HIDE DEF line
  <2>7. ReadLine(h, line) \in S
    BY <2>3, <2>4, <2>5, <2>6 DEF ReadLine
  <2> QED
    BY <2>7 DEF line
<1> HIDE DEF S
<1>4. step \in [(0..N) \X S -> S]
  <2> SUFFICES ASSUME NEW n \in 0..N, NEW h \in S
               PROVE  (IF n = 0 THEN Fresh ELSE ReadLine(h, r.lines[n])) \in S
    OBVIOUS
  <2>1. n # 0 => n \in 1..N
    BY <1>1
  <2> QED
    BY <1>2, <1>3, <2>1
<1>5. \A n \in 1..N, h \in S : step[<<n, h>>] = ReadLine(h, r.lines[n])
  BY <1>1
<1>6. PICK f \in [0..N -> S] : UpFrom(f, N, Fresh, step)
  <2> HIDE DEF step, N
  <2> QED
    BY <1>1, <1>2, <1>4, UpThere
<1>7. f = [n \in 0..N |-> value(f, n)]
  <2> HIDE DEF step, N
  <2>1. \A n \in 0..N : n # 0 => n \in 1..N /\ n - 1 \in 0..N
    BY <1>1
  <2>2. \A n \in 0..N : f[n] = value(f, n)
    BY <1>5, <1>6, <2>1 DEF UpFrom
  <2> QED
    BY <1>6, <2>2
<1>8. read = CHOOSE g : g = [n \in 0..N |-> value(g, n)]
  OBVIOUS
<1>9. read = [n \in 0..N |-> value(read, n)]
  <2> HIDE DEF value, read, N
  <2> QED
    BY <1>7, <1>8
<1>10. ReadUpTo(read, r)
  <2>1. \A n \in 0..N : read[n] = value(read, n)
    <3> HIDE DEF value, read, N
    <3> QED
      BY <1>9
  <2>2. \A n \in 1..N : n \in 0..N /\ n # 0
    BY <1>1
  <2>3. 0 \in 0..N
    BY <1>1
  <2> HIDE DEF read
  <2> QED
    BY <2>1, <2>2, <2>3 DEF ReadUpTo
<1>11. Analysis(r) = read[N]
  BY DEF Analysis
<1> HIDE DEF read
<1> QED
  BY <1>10, <1>11

\* No digit is a space or a sign.
LEMMA NoDigit == \A c : c \in Spaces \/ c \in {"+", "-"} => ~IsDigit(c)
<1> SUFFICES ASSUME NEW i \in 1..10 PROVE Digits[i] \notin Spaces /\ Digits[i] \notin {"+", "-"}
  BY DEF IsDigit, Range, Digits
<1>1. i = 1 \/ i = 2 \/ i = 3 \/ i = 4 \/ i = 5 \/ i = 6 \/ i = 7 \/ i = 8 \/ i = 9 \/ i = 10
  OBVIOUS
<1> DEFINE d == Digits[i]
<1>2. d \in {"0", "1", "2", "3", "4", "5", "6", "7", "8", "9"}
  BY <1>1, SMT DEF Digits
<1> HIDE DEF d
<1>3. d \notin {" ", "\t", "\r", "\n"}
  BY <1>2
<1>4. d \notin {"+", "-"}
  BY <1>2
<1> QED
  BY <1>3, <1>4 DEF Spaces, d

\* Str2Integer reads a number that is not too large.
LEMMA NumberIsRead ==
    ASSUME NEW text \in Seq(STRING), IsNumber(text), NEW max \in Nat, NumberOf(text) <= max
    PROVE  Str2Integer(text, max) = NumberOf(text)
<1>1. /\ Len(text) \in Nat \ {0} /\ DOMAIN text = 1..Len(text)
      /\ \A i \in 1..Len(text) : IsDigit(text[i])
      /\ text # <<>>
  BY LenProperties, EmptySeq DEF IsNumber
<1>2. NumberOf(text) \in Nat
  BY <1>1, NumberIs
<1>3. TrimLeft(text) = text
  <2>1. Ink(text) = 1..Len(text)
    BY <1>1, NoDigit DEF Ink
  <2>2. Min(1..Len(text)) = 1
    <3>1. 1..Len(text) \in SUBSET Nat /\ 1 \in 1..Len(text) /\ \A y \in 1..Len(text) : 1 <= y
      BY <1>1
    <3> QED
      BY <3>1, MinIs
  <2>3. Ink(text) # {}
    <3>1. 1 \in 1..Len(text)
      BY <1>1
    <3> QED
      BY <2>1, <3>1
  <2>4. TrimLeft(text) = SubSeq(text, 1, Len(text))
    BY <2>1, <2>2, <2>3 DEF TrimLeft
  <2> QED
    BY <2>4, SubSeqFull
<1>4. Unsigned(text) = text /\ ~IsNegative(text)
  <2>1. Head(text) = text[1] /\ 1 \in 1..Len(text)
    BY <1>1
  <2>2. Head(text) \notin {"+", "-"}
    BY <1>1, <2>1, NoDigit
  <2> QED
    BY <2>2 DEF Unsigned, IsNegative, HasSign
<1>5. ~(NumberOf(text) > max)
  <2> DEFINE n == NumberOf(text)
  <2>1. n \in Nat /\ n <= max
    BY <1>2
  <2> HIDE DEF n
  <2>2. ~(n > max)
    BY <2>1
  <2> QED
    BY <2>2 DEF n
<1> QED
  BY <1>3, <1>4, <1>5 DEF Str2Integer

\* What a line that is written in the usual way changes.
HeadersOf(l) == [valid : BOOLEAN, endless : {FALSE}, length : {l}, keep : BOOLEAN]

\* What a line of a usual header does to what was read before it.
LEMMA LineIsRead ==
    ASSUME NEW l, NEW h \in HeadersOf(l), NEW line \in LineSet, line.gap = "spaced",
           NEW n, n = Str2Integer(line.value, UintMax),
           NEW g, g = ReadLine(h, line)
    PROVE  /\ g \in HeadersOf(g.length)
           /\ g.valid => h.valid
           /\ g.valid /\ line.key = "transfer-encoding" => g.length = Chunks
           /\ g.valid /\ line.key = "content-length" /\ n # NoNumber => g.length = Signed(n)
           /\ line.key # "transfer-encoding" /\ line.key # "content-length" => g.length = l
<1>1. Value(line) = line.value
  BY DEF Value
<1>2. h.endless = FALSE /\ h.length = l /\ h.valid \in BOOLEAN
  BY DEF HeadersOf
<1>3. \A k : /\ [h EXCEPT !.length = k] \in HeadersOf(k)
             /\ [h EXCEPT !.length = k].length = k /\ [h EXCEPT !.length = k].valid = h.valid
  BY DEF HeadersOf
<1>4. /\ [h EXCEPT !.valid = FALSE] \in HeadersOf(l)
      /\ [h EXCEPT !.valid = FALSE].length = l /\ ~[h EXCEPT !.valid = FALSE].valid
  BY DEF HeadersOf
<1>5. /\ [h EXCEPT !.keep = FALSE] \in HeadersOf(l)
      /\ [h EXCEPT !.keep = FALSE].length = l /\ [h EXCEPT !.keep = FALSE].valid = h.valid
  BY DEF HeadersOf
<1>6. h.keep \in BOOLEAN /\ h \in HeadersOf(h.length)
  BY DEF HeadersOf
<1>7. ~h.valid => g = h
  BY DEF ReadLine
<1>8. CASE h.valid /\ line.key = "content-length"
  <2>1. g = IF n = NoNumber THEN h ELSE [h EXCEPT !.length = Signed(n)]
    BY <1>1, <1>2, <1>8 DEF ReadLine, ContentLength
  <2>2. n = NoNumber => g = h
    BY <2>1
  <2>3. n # NoNumber => g \in HeadersOf(g.length) /\ g.length = Signed(n) /\ g.valid = h.valid
    <3> SUFFICES ASSUME n # NoNumber
                 PROVE  g \in HeadersOf(g.length) /\ g.length = Signed(n) /\ g.valid = h.valid
      OBVIOUS
    <3>1. g = [h EXCEPT !.length = Signed(n)]
      BY <2>1
    <3> QED
      BY <1>3, <3>1
  <2> QED
    BY <1>2, <1>6, <1>8, <2>2, <2>3
<1>9. CASE h.valid /\ line.key = "transfer-encoding"
  <2>1. g = IF line.value = <<"chunked">> THEN [h EXCEPT !.length = Chunks] ELSE [h EXCEPT !.valid = FALSE]
    BY <1>1, <1>2, <1>9 DEF ReadLine, TransferEncoding
  <2>2. CASE line.value = <<"chunked">>
    <3>1. g = [h EXCEPT !.length = Chunks]
      BY <2>1, <2>2
    <3> QED
      BY <1>3, <1>9, <3>1
  <2>3. CASE line.value # <<"chunked">>
    <3>1. g = [h EXCEPT !.valid = FALSE]
      BY <2>1, <2>3
    <3> QED
      BY <1>4, <1>9, <3>1
  <2> QED
    BY <2>2, <2>3
<1>10. CASE h.valid /\ line.key # "content-length" /\ line.key # "transfer-encoding"
  <2>1. g = h \/ g = [h EXCEPT !.keep = FALSE]
    BY <1>1, <1>2, <1>10 DEF ReadLine, Connection
  <2> QED
    BY <1>2, <1>5, <1>6, <1>10, <2>1
<1> QED
  BY <1>2, <1>6, <1>7, <1>8, <1>9, <1>10

\* HttpResponseHeader::analysis finds where the body of a usual response ends.
LEMMA UsualIsAnalysed ==
    ASSUME NEW k \in DOMAIN Responses, Usual(Responses[k]), Analysis(Responses[k]).valid
    PROVE  Analysis(Responses[k]).length = Framing(Responses[k])
<1> DEFINE r == Responses[k]
           N == Len(r.lines)
           Te(i) == r.lines[i].key = "transfer-encoding"
           Cl(i) == r.lines[i].key = "content-length"
<1>1. r.lines \in Seq(LineSet)
  BY LinesType DEF LineSet
<1>2. N \in Nat /\ DOMAIN r.lines = 1..N /\ \A n \in 1..N : r.lines[n] \in LineSet
  BY <1>1, LenProperties, ElementOfSeq
<1>3. r.http /\ r.lines # <<>>
  BY DEF Analysis, Fresh
<1>4. PICK f : ReadUpTo(f, r) /\ Analysis(r) = f[N]
  <2> HIDE DEF r
  <2> QED
    BY <1>1, <1>3, AnalysisIs
<1>5. /\ \A n \in 1..N : r.lines[n].gap = "spaced" /\ Value(r.lines[n]) = r.lines[n].value
      /\ \A i, j \in 1..N : Te(i) /\ Cl(j) => j < i
      /\ \A i \in 1..N : Cl(i) => IsNumber(r.lines[i].value)
      /\ \A i, j \in 1..N : Cl(i) /\ Cl(j) => r.lines[i].value = r.lines[j].value
      /\ Framing(r) # Unsized /\ Framing(r) <= UintMax \div 2
  <2>1. \A i \in 1..N : Cl(i) => r.lines[i].value \in Values(r, "content-length")
    BY <1>2 DEF Values
  <2> QED
    BY <1>2, <2>1 DEF Usual, Value
<1>6. f[0] = Fresh /\ \A n \in 1..N : f[n] = ReadLine(f[n - 1], r.lines[n])
  BY <1>4 DEF ReadUpTo
<1> DEFINE Text == CHOOSE v \in Values(r, "content-length") : TRUE
<1>7. \A i \in 1..N : Cl(i) => r.lines[i].value = Text /\ Values(r, "content-length") # {}
  <2> SUFFICES ASSUME NEW i \in 1..N, Cl(i)
               PROVE  r.lines[i].value = Text /\ Values(r, "content-length") # {}
    OBVIOUS
  <2>1. r.lines[i].value \in Values(r, "content-length")
    BY <1>2 DEF Values
  <2>2. Text \in Values(r, "content-length")
    BY <2>1
  <2> QED
    BY <2>1, <2>2 DEF Usual
<1>8. \A i \in 1..N : Te(i) => Framing(r) = Chunks
  BY <1>2 DEF Framing, Values
<1>9. (\A i \in 1..N : ~Te(i)) => (\E i \in 1..N : Cl(i)) /\ Framing(r) = NumberOf(Text)
  BY <1>2, <1>5 DEF Framing, Values
<1>10. UintMax \in Nat /\ UintMax \div 2 <= UintMax
  BY UintMaxType
<1>11. ASSUME NEW i \in 1..N, Cl(i), \A j \in 1..N : ~Te(j)
       PROVE  LET n == Str2Integer(r.lines[i].value, UintMax)
              IN  n # NoNumber /\ Signed(n) = Framing(r)
  <2> DEFINE n == NumberOf(Text)  half == UintMax \div 2
  <2>1. Framing(r) = n /\ Text = r.lines[i].value /\ n <= half
    BY <1>5, <1>7, <1>9, <1>11
  <2>2. r.lines[i].value \in Seq(STRING)
    BY <1>2 DEF LineSet
  <2>3. n \in Nat
    <3> DEFINE text == r.lines[i].value
    <3>1. text \in Seq(STRING) /\ IsNumber(text)
      BY <1>5, <1>11, <2>2
    <3> HIDE DEF text
    <3>2. \A j \in 1..Len(text) : IsDigit(text[j])
      BY <3>1, LenProperties DEF IsNumber
    <3>3. NumberOf(text) \in Nat
      BY <3>1, <3>2, NumberIs
    <3> QED
      BY <2>1, <3>3 DEF text
  <2>4. half \in Nat /\ half <= UintMax
    BY <1>10
  <2> HIDE DEF n, half
  <2>5. n <= UintMax
    BY <1>10, <2>1, <2>3, <2>4
  <2>6. Str2Integer(r.lines[i].value, UintMax) = n
    BY <1>5, <1>10, <1>11, <2>1, <2>2, <2>5, NumberIsRead DEF n
  <2>7. n # NoNumber
    BY <2>3 DEF NoNumber
  <2>8. Signed(n) = n
    <3>1. ~(n > half)
      BY <2>1, <2>3, <2>4
    <3> QED
      BY <3>1 DEF Signed, half
  <2> QED
    BY <2>1, <2>6, <2>7, <2>8
<1> DEFINE Right(n) ==
        /\ f[n] \in HeadersOf(f[n].length)
        /\ f[n].valid /\ (\E i \in 1..n : Te(i)) => f[n].length = Chunks
        /\ f[n].valid /\ (\A i \in 1..N : ~Te(i)) /\ (\E i \in 1..n : Cl(i)) =>
               f[n].length = Framing(r)
<1>12. Right(0)
  <2>1. f[0] = Fresh /\ 1..0 = {}
    BY <1>6
  <2>2. Fresh \in HeadersOf(Fresh.length)
    BY DEF Fresh, HeadersOf
  <2> HIDE DEF Te, Cl
  <2> QED
    BY <2>1, <2>2
<1>13. ASSUME NEW n \in 1..N, Right(n - 1) PROVE Right(n)
  <2> DEFINE line == r.lines[n]  h == f[n - 1]  g == f[n]
             number == Str2Integer(line.value, UintMax)
  <2>1. line \in LineSet /\ line.gap = "spaced" /\ g = ReadLine(h, line) /\ h \in HeadersOf(h.length)
    BY <1>2, <1>5, <1>6, <1>13
  <2>2. /\ g \in HeadersOf(g.length)
        /\ g.valid => h.valid
        /\ g.valid /\ Te(n) => g.length = Chunks
        /\ g.valid /\ Cl(n) /\ number # NoNumber => g.length = Signed(number)
        /\ ~Te(n) /\ ~Cl(n) => g.length = h.length
    <3> HIDE DEF line, h, g, number
    <3>1. \A l : h \in HeadersOf(l) =>
             /\ g \in HeadersOf(g.length)
             /\ g.valid => h.valid
             /\ g.valid /\ line.key = "transfer-encoding" => g.length = Chunks
             /\ g.valid /\ line.key = "content-length" /\ number # NoNumber => g.length = Signed(number)
             /\ line.key # "transfer-encoding" /\ line.key # "content-length" => g.length = l
      BY <2>1, LineIsRead DEF number
    <3> QED
      BY <2>1, <3>1 DEF line
  <2>3. 1..n = (1..(n - 1)) \cup {n} /\ 1..n \subseteq 1..N
    BY <1>2
  <2>4. Cl(n) => \A i \in 1..n : ~Te(i)
    <3> SUFFICES ASSUME Cl(n), NEW i \in 1..n, Te(i) PROVE FALSE
      OBVIOUS
    <3>1. n < i /\ i <= n /\ n \in Int /\ i \in Int
      BY <1>2, <1>5, <2>3
    <3> QED
      BY <3>1
  <2>5. Te(n) => ~Cl(n)
    BY <2>4, <2>3
  <2>6. g.valid /\ (\E i \in 1..n : Te(i)) => g.length = Chunks
    <3> HIDE DEF Te, Cl, h, g, line
    <3> SUFFICES ASSUME g.valid, NEW i \in 1..n, Te(i) PROVE g.length = Chunks
      OBVIOUS
    <3>1. ~Cl(n)
      BY <2>4
    <3>2. ~Te(n) => i \in 1..(n - 1)
      BY <2>3
    <3>3. ~Te(n) => h.length = Chunks
      BY <1>13, <2>2, <3>2 DEF h
    <3> QED
      BY <2>2, <3>1, <3>3
  <2>7. g.valid /\ (\A i \in 1..N : ~Te(i)) /\ (\E i \in 1..n : Cl(i)) => g.length = Framing(r)
    <3> SUFFICES ASSUME g.valid, \A i \in 1..N : ~Te(i), NEW i \in 1..n, Cl(i)
                 PROVE  g.length = Framing(r)
      OBVIOUS
    <3>1. CASE Cl(n)
      <4>1. number # NoNumber /\ Signed(number) = Framing(r)
        <5> HIDE DEF Te, Cl
        <5> QED
          BY <1>11, <3>1
      <4> HIDE DEF Te, Cl, g, number
      <4> QED
        BY <2>2, <3>1, <4>1
    <3>2. CASE ~Cl(n)
      <4> HIDE DEF Te, Cl, h, g, line, number
      <4>1. i \in 1..(n - 1) /\ ~Te(n)
        BY <2>3, <3>2
      <4>2. h.valid
        BY <2>2
      <4>3. h.length = Framing(r)
        BY <1>13, <4>1, <4>2 DEF h
      <4> QED
        BY <2>2, <3>2, <4>1, <4>3
    <3> QED
      BY <3>1, <3>2
  <2> HIDE DEF Te, Cl
  <2> QED
    BY <2>2, <2>6, <2>7
<1>14. Right(N)
  <2> DEFINE p == [n \in 0..N |-> Right(n)]
  <2> HIDE DEF Right
  <2>1. p[0] \in {TRUE}
    BY <1>2, <1>12
  <2>2. \A n \in 1..N : p[n - 1] \in {TRUE} => p[n] \in {TRUE}
    <3> SUFFICES ASSUME NEW n \in 1..N, p[n - 1] PROVE p[n]
      OBVIOUS
    <3>1. n \in 0..N /\ n - 1 \in 0..N
      BY <1>2
    <3> QED
      BY <1>13, <3>1
  <2>3. N \in 0..N
    BY <1>2
  <2> DEFINE T == {TRUE}
  <2>4. p[N] \in T
    <3> HIDE DEF p, N, T
    <3>1. p[0] \in T /\ \A n \in 1..N : p[n - 1] \in T => p[n] \in T
      BY <2>1, <2>2 DEF T
    <3>2. \A n \in 0..N : p[n] \in T
      BY <1>2, <3>1, UpIn
    <3> QED
      BY <2>3, <3>2
  <2> QED
    BY <2>3, <2>4 DEF p
<1>15. f[N].valid /\ Analysis(r).length = f[N].length
  BY <1>4
<1> HIDE DEF r, N, Te, Cl
<1>16. f[N].length = Framing(r)
  BY <1>8, <1>9, <1>14, <1>15
<1> QED
  BY <1>15, <1>16 DEF r

-------------------------------------------------------------------------------
(* What is read of a body is a part of it, so that recv_by_chunk comes to an end. *)

LEMMA SeqBehind ==
    ASSUME NEW text \in Seq(STRING), NEW i \in 0..Len(text)
    PROVE  Behind(text, i) \in Seq(STRING) /\ Len(Behind(text, i)) = Len(text) - i
  BY SubSeqProperties, LenProperties DEF Behind

\* The size of a chunk, and the chunk, are read from the front of the text.
LEMMA SizeIsPrefix ==
    ASSUME NEW text \in Seq(STRING), NEW line, line = RecvChunkSize(text), line.ok
    PROVE  /\ line.content \in Seq(STRING) /\ line.rest \in Seq(STRING)
           /\ Len(line.rest) <= Len(text)
<1> DEFINE stops == {i \in DOMAIN text : text[i] \notin SizeCharacters}
           ends == LineEnds(text, Min(stops))
<1>1. Len(text) \in Nat /\ DOMAIN text = 1..Len(text)
  BY LenProperties
<1>2. stops # {} /\ ends # {}
  BY DEF RecvChunkSize, Broken
<1>3. line.content = SubSeq(text, 1, Min(stops) - 1) /\ line.rest = Behind(text, Min(ends))
  BY <1>2 DEF RecvChunkSize
<1>4. Min(stops) \in stops
  <2>1. stops \in SUBSET Nat
    BY <1>1
  <2>2. PICK m \in stops : \A n \in stops : m <= n
    <3> HIDE DEF stops
    <3> QED
      BY <1>2, <2>1, LeastIs
  <2> HIDE DEF stops
  <2> QED
    BY <2>1, <2>2, MinIs
<1>5. Min(stops) \in 1..Len(text)
  BY <1>1, <1>4
<1>6. ends \in SUBSET (1..Len(text))
  <2> DEFINE k == Min(stops)
  <2>1. k \in 1..Len(text)
    BY <1>5
  <2>2. LineEnds(text, k) \in SUBSET (1..Len(text))
    <3> HIDE DEF k
    <3> SUFFICES ASSUME NEW i \in (k + 1)..Len(text) PROVE i \in 1..Len(text)
      BY DEF LineEnds
    <3> QED
      BY <1>1, <2>1
  <2> QED
    BY <2>2
<1>7. Min(ends) \in ends
  <2>1. ends \in SUBSET Nat
    BY <1>1, <1>6
  <2>2. PICK m \in ends : \A n \in ends : m <= n
    <3> HIDE DEF ends
    <3> QED
      BY <1>2, <2>1, LeastIs
  <2> HIDE DEF ends
  <2> QED
    BY <2>1, <2>2, MinIs
<1> HIDE DEF ends, stops
<1>8. Min(ends) \in 0..Len(text) /\ Min(ends) >= 1
  <2> DEFINE k == Min(ends)
  <2>1. k \in 1..Len(text)
    BY <1>6, <1>7
  <2> HIDE DEF k
  <2>2. k \in 0..Len(text) /\ k >= 1
    BY <1>1, <2>1
  <2> QED
    BY <2>2 DEF k
<1>9. line.rest \in Seq(STRING) /\ Len(line.rest) <= Len(text)
  BY <1>1, <1>3, <1>8, SeqBehind
<1>10. SubSeq(text, 1, Min(stops) - 1) \in Seq(STRING)
  BY <1>1, <1>5, SubSeqProperties
<1> QED
  BY <1>3, <1>9, <1>10

\* What a read gives.
Reads == [ok : BOOLEAN, content : Seq(STRING), rest : Seq(STRING)]

LEMMA DiscardReads == \A text \in Seq(STRING) : RecvAndDiscard(text) \in Reads
<1> SUFFICES ASSUME NEW text \in Seq(STRING) PROVE RecvAndDiscard(text) \in Reads
  OBVIOUS
<1>1. <<>> \in Seq(STRING) /\ Len(text) \in Nat
  BY LenProperties, EmptySeq
<1>2. Broken \in Reads
  BY <1>1 DEF Broken, Reads
<1>3. ASSUME LineEnds(text, 1) # {} PROVE Behind(text, Min(LineEnds(text, 1))) \in Seq(STRING)
  <2> DEFINE ends == LineEnds(text, 1)
  <2>1. ends \in SUBSET (1..Len(text))
    BY <1>1 DEF LineEnds
  <2>2. ends \in SUBSET Nat
    BY <1>1, <2>1
  <2> HIDE DEF ends
  <2>3. PICK m \in ends : \A n \in ends : m <= n
    BY <1>3, <2>2, LeastIs DEF ends
  <2>4. Min(ends) = m /\ m \in 0..Len(text)
    BY <1>1, <2>1, <2>2, <2>3, MinIs
  <2> QED
    BY <2>4, SeqBehind DEF ends
<1> QED
  BY <1>1, <1>2, <1>3 DEF RecvAndDiscard, Reads

\* A chunk and what is behind it are shorter than the text.
LEMMA ChunkIsPrefix ==
    ASSUME NEW text \in Seq(STRING), NEW line, line = RecvChunkSize(text), line.ok,
           NEW chunk, chunk = RecvChunk(line), chunk.ok
    PROVE  /\ chunk.rest \in Seq(STRING) /\ Len(chunk.rest) < Len(text)
           /\ SubSeq(chunk.content, 1, HexNumber(line.content)) \in Seq(STRING)
<1>1. line.content \in Seq(STRING) /\ line.rest \in Seq(STRING) /\ Len(line.rest) <= Len(text)
  BY SizeIsPrefix
<1> DEFINE size == HexNumber(line.content)
<1>2. size \in Nat
  <2>1. PICK f \in [0..Len(line.content) -> Nat] : HexNumber(line.content) = f[Len(line.content)]
    BY <1>1, HexNumberIs
  <2>2. Len(line.content) \in 0..Len(line.content)
    BY <1>1, LenProperties
  <2> QED
    BY <2>1, <2>2
<1> HIDE DEF size
<1>3. ~(Len(line.rest) < size + 2)
  BY DEF RecvChunk, Recvn, Broken, size
<1>4. chunk.content = SubSeq(line.rest, 1, size + 2) /\ chunk.rest = Behind(line.rest, size + 2)
  BY DEF RecvChunk, Recvn, Broken, size
<1>5. Len(line.rest) \in Nat /\ Len(text) \in Nat
  BY <1>1, LenProperties
<1>6. size + 2 \in 0..Len(line.rest) /\ size + 2 >= 1
  BY <1>2, <1>3, <1>5
<1>7. chunk.rest \in Seq(STRING) /\ Len(chunk.rest) = Len(line.rest) - (size + 2)
  BY <1>1, <1>4, <1>6, SeqBehind
<1>8. chunk.content \in Seq(STRING) /\ Len(chunk.content) = size + 2
  <2>1. \A i \in 1..(size + 2) : line.rest[i] \in STRING
    BY <1>1, <1>5, <1>6, ElementOfSeq
  <2> QED
    BY <1>1, <1>2, <1>4, <1>6, <2>1, SubSeqProperties
<1>9. SubSeq(chunk.content, 1, size) \in Seq(STRING)
  <2>1. \A i \in 1..size : chunk.content[i] \in STRING
    BY <1>2, <1>8, ElementOfSeq
  <2> QED
    BY <1>2, <1>8, <2>1, SubSeqProperties
<1>10. Len(chunk.rest) < Len(text)
  BY <1>1, <1>2, <1>5, <1>7
<1> QED
  BY <1>7, <1>9, <1>10 DEF size

\* recv_by_chunk, unrolled once.
\* One chunk, and what is made of those behind it.
NextChunk(text, later) ==
    LET line == RecvChunkSize(text)
        size == HexNumber(line.content)
        chunk == RecvChunk(line)
    IN  IF ~line.ok THEN Broken
        ELSE IF size = 0 THEN RecvAndDiscard(line.rest)
        ELSE IF ~chunk.ok \/ ~later.ok THEN Broken
        ELSE [later EXCEPT !.content = SubSeq(chunk.content, 1, size) \o @]
BehindChunk(text) == RecvChunk(RecvChunkSize(text)).rest

LEMMA RecvByChunkIs ==
    \A text \in Seq(STRING) : RecvByChunk[text] = NextChunk(text, RecvByChunk[BehindChunk(text)])
<1> DEFINE D == Seq(STRING)
           Goes(t) == RecvChunkSize(t).ok /\ HexNumber(RecvChunkSize(t).content) # 0
                      /\ RecvChunk(RecvChunkSize(t)).ok
           B == {t \in D : ~Goes(t)}
           m == [t \in D |-> Len(t)]
           base == [t \in D |-> IF Goes(t) THEN Broken ELSE NextChunk(t, Broken)]
           next == [t \in D |-> IF Goes(t) THEN BehindChunk(t) ELSE t]
           step == [x \in D \X Reads |-> IF Goes(x[1]) THEN NextChunk(x[1], x[2]) ELSE Broken]
           value(g, t) == NextChunk(t, g[BehindChunk(t)])
<1>1. Broken \in Reads /\ ~Broken.ok
  <2>1. <<>> \in Seq(STRING)
    BY EmptySeq
  <2> QED
    BY <2>1 DEF Broken, Reads
<1>2. \A t \in D : \A l : ~Goes(t) =>
          NextChunk(t, l) = NextChunk(t, Broken) /\ NextChunk(t, l) \in Reads
  <2> SUFFICES ASSUME NEW t \in D, NEW l, ~Goes(t)
               PROVE  NextChunk(t, l) = NextChunk(t, Broken) /\ NextChunk(t, l) \in Reads
    OBVIOUS
  <2>1. CASE ~RecvChunkSize(t).ok
    BY <1>1, <2>1 DEF NextChunk
  <2>2. CASE RecvChunkSize(t).ok /\ HexNumber(RecvChunkSize(t).content) = 0
    <3>1. RecvChunkSize(t).rest \in Seq(STRING)
      BY <2>2, SizeIsPrefix
    <3> QED
      BY <2>2, <3>1, DiscardReads DEF NextChunk
  <2>3. CASE RecvChunkSize(t).ok /\ HexNumber(RecvChunkSize(t).content) # 0
             /\ ~RecvChunk(RecvChunkSize(t)).ok
    BY <1>1, <2>3 DEF NextChunk
  <2> QED
    BY <2>1, <2>2, <2>3
<1>3. \A t \in D : Goes(t) => BehindChunk(t) \in D /\ Len(BehindChunk(t)) < Len(t)
  BY ChunkIsPrefix DEF BehindChunk
<1>4. \A t \in D, l \in Reads : Goes(t) => NextChunk(t, l) \in Reads
  <2> SUFFICES ASSUME NEW t \in D, NEW l \in Reads, Goes(t) PROVE NextChunk(t, l) \in Reads
    OBVIOUS
  <2> DEFINE line == RecvChunkSize(t)  size == HexNumber(line.content)
             part == SubSeq(RecvChunk(line).content, 1, size)
  <2>1. part \in Seq(STRING)
    BY ChunkIsPrefix
  <2>2. NextChunk(t, l) = IF ~l.ok THEN Broken ELSE [l EXCEPT !.content = part \o @]
    BY DEF NextChunk
  <2> HIDE DEF part
  <2>3. l.content \in Seq(STRING)
    BY DEF Reads
  <2>4. part \o l.content \in Seq(STRING)
    BY <2>1, <2>3, ConcatProperties
  <2>5. [l EXCEPT !.content = part \o @] \in Reads
    BY <2>4 DEF Reads
  <2> QED
    BY <1>1, <2>2, <2>5
<1> HIDE DEF Goes
<1>5. PICK f \in [D -> Reads] : Solution(f, D, B, base, next, step)
  <2>1. m \in [D -> Nat] /\ next \in [D -> D]
    BY <1>3, LenProperties
  <2>2. base \in [D -> Reads]
    BY <1>1, <1>2
  <2>3. step \in [D \X Reads -> Reads]
    BY <1>1, <1>4
  <2>4. \A t \in D : t \notin B => m[next[t]] < m[t]
    BY <1>3
  <2> HIDE DEF m, next, base, step, B, D
  <2>5. Recursion(D, Reads, B, m, base, next, step)
    BY <2>1, <2>2, <2>3, <2>4 DEF Recursion
  <2> QED
    BY <2>5, RecursionHasSolution
<1>6. \A t \in D : f[t] = value(f, t)
  <2> SUFFICES ASSUME NEW t \in D PROVE f[t] = value(f, t)
    OBVIOUS
  <2>1. f[t] = IF t \in B THEN base[t] ELSE step[<<t, f[next[t]]>>]
    BY <1>5 DEF Solution
  <2>2. CASE Goes(t)
    <3>1. next[t] = BehindChunk(t) /\ BehindChunk(t) \in D
      BY <1>3, <2>2
    <3>2. f[BehindChunk(t)] \in Reads
      BY <1>5, <3>1
    <3>3. step[<<t, f[BehindChunk(t)]>>] = NextChunk(t, f[BehindChunk(t)])
      BY <2>2, <3>2
    <3> QED
      BY <2>1, <2>2, <3>1, <3>3
  <2>3. CASE ~Goes(t)
    <3>1. f[t] = NextChunk(t, Broken)
      BY <2>1, <2>3
    <3> QED
      BY <1>2, <2>3, <3>1
  <2> QED
    BY <2>2, <2>3
<1>7. f = [t \in D |-> value(f, t)]
  BY <1>6
<1>8. RecvByChunk = CHOOSE g : g = [t \in D |-> value(g, t)]
  BY DEF RecvByChunk, NextChunk, BehindChunk
<1>9. RecvByChunk = [t \in D |-> value(RecvByChunk, t)]
  <2> HIDE DEF value, D
  <2> QED
    BY <1>7, <1>8
<1> QED
  BY <1>9

-------------------------------------------------------------------------------
(* Where lines end. *)

LEMMA EndOfLineIs ==
    /\ EndOfLine \in Seq(STRING) /\ Len(EndOfLine) = 2
    /\ EndOfLine[1] = "\r" /\ EndOfLine[2] = "\n"
<1>1. Len(EndOfLine) = 2 /\ EndOfLine[1] = "\r" /\ EndOfLine[2] = "\n"
  BY DEF EndOfLine
<1> QED
  BY <1>1, BytesAreStrings

LEMMA LineEndIs ==
    ASSUME NEW t \in Seq(STRING), NEW i \in 2..Len(t)
    PROVE  SubSeq(t, i - 1, i) = EndOfLine <=> t[i - 1] = "\r" /\ t[i] = "\n"
<1>1. Len(t) \in Nat
  BY LenProperties
<1>2. ASSUME SubSeq(t, i - 1, i) = EndOfLine PROVE t[i - 1] = "\r" /\ t[i] = "\n"
  <2> DEFINE u == SubSeq(t, i - 1, i)
  <2>1. u[1] = t[i - 1] /\ u[2] = t[i]
    <3>1. \A j \in (i - 1)..i : t[j] \in STRING
      BY <1>1, ElementOfSeq
    <3>2. \A j \in 1..2 : u[j] = t[(i - 1) + j - 1]
      BY <1>1, <3>1, SubSeqProperties
    <3> HIDE DEF u
    <3> QED
      BY <1>1, <3>2
  <2> QED
    BY <1>2, <2>1, EndOfLineIs
<1>3. ASSUME t[i - 1] = "\r", t[i] = "\n" PROVE SubSeq(t, i - 1, i) = EndOfLine
  <2> DEFINE m == i - 2
  <2>1. m \in Nat /\ m + 2 <= Len(t) /\ m + 1 = i - 1 /\ m + 2 = i
    BY <1>1
  <2> HIDE DEF m
  <2>2. m + Len(EndOfLine) <= Len(t) /\ m + Len(EndOfLine) = i
    BY <2>1, EndOfLineIs
  <2>3. \A j \in 1..Len(EndOfLine) : t[m + j] = EndOfLine[j]
    <3> SUFFICES ASSUME NEW j \in 1..2 PROVE t[m + j] = EndOfLine[j]
      BY EndOfLineIs
    <3>1. j = 1 \/ j = 2
      OBVIOUS
    <3> QED
      BY <1>3, <2>1, <3>1, EndOfLineIs
  <2>4. SubSeq(t, m + 1, m + Len(EndOfLine)) = EndOfLine
    BY <2>1, <2>2, <2>3, EndOfLineIs, PartIs
  <2> QED
    BY <2>1, <2>2, <2>4
<1> QED
  BY <1>2, <1>3

LEMMA LineEndsAre ==
    ASSUME NEW t \in Seq(STRING), NEW from \in Nat \ {0}
    PROVE  LineEnds(t, from) = {i \in (from + 1)..Len(t) : t[i - 1] = "\r" /\ t[i] = "\n"}
<1>1. \A i \in (from + 1)..Len(t) : i \in 2..Len(t)
  BY LenProperties
<1> SUFFICES ASSUME NEW i \in (from + 1)..Len(t)
             PROVE  SubSeq(t, i - 1, i) = EndOfLine <=> t[i - 1] = "\r" /\ t[i] = "\n"
  BY DEF LineEnds
<1> QED
  BY <1>1, LineEndIs

Joined(t, a, b) == t = a \o b

LEMMA JoinedIs ==
    \A a \in Seq(STRING), b \in Seq(STRING) : \A t : Joined(t, a, b) =>
        /\ t \in Seq(STRING) /\ Len(t) = Len(a) + Len(b)
        /\ \A i \in 1..Len(a) : t[i] = a[i]
        /\ \A i \in 1..Len(b) : t[Len(a) + i] = b[i]
<1> SUFFICES ASSUME NEW a \in Seq(STRING), NEW b \in Seq(STRING), NEW t, t = a \o b
             PROVE  /\ t \in Seq(STRING) /\ Len(t) = Len(a) + Len(b)
                    /\ \A i \in 1..Len(a) : t[i] = a[i]
                    /\ \A i \in 1..Len(b) : t[Len(a) + i] = b[i]
  BY DEF Joined
<1> QED
  BY TwoAre

\* A text of two parts, the end of the line and what is behind it.
\* A line of a and b, and q behind it.
LineOf(t, a, b, q) == t = ((a \o b) \o EndOfLine) \o q

LEMMA FourAre ==
    ASSUME NEW a \in Seq(STRING), NEW b \in Seq(STRING), NEW q \in Seq(STRING),
           NEW s, Joined(s, a, b), NEW p, Joined(p, s, EndOfLine), NEW t, Joined(t, p, q)
    PROVE  /\ t \in Seq(STRING) /\ Len(t) = Len(a) + Len(b) + 2 + Len(q)
           /\ \A i \in 1..Len(a) : t[i] = a[i]
           /\ \A i \in 1..Len(b) : t[Len(a) + i] = b[i]
           /\ t[Len(a) + Len(b) + 1] = "\r" /\ t[Len(a) + Len(b) + 2] = "\n"
           /\ \A i \in 1..Len(q) : t[Len(a) + Len(b) + 2 + i] = q[i]
<1> DEFINE n == Len(s)
<1>0. PICK E : E = EndOfLine
  OBVIOUS
<1>1. Len(a) \in Nat /\ Len(b) \in Nat /\ Len(q) \in Nat
  BY LenProperties
<1>2. /\ s \in Seq(STRING) /\ n = Len(a) + Len(b)
      /\ \A i \in 1..Len(a) : s[i] = a[i]
      /\ \A i \in 1..Len(b) : s[Len(a) + i] = b[i]
  BY JoinedIs
<1>3. E \in Seq(STRING) /\ Len(E) = 2 /\ E[1] = "\r" /\ E[2] = "\n"
  BY <1>0, EndOfLineIs
<1>13. Joined(p, s, E)
  BY <1>0
<1>4. /\ p \in Seq(STRING) /\ Len(p) = n + 2
      /\ \A i \in 1..n : p[i] = s[i]
      /\ \A i \in 1..2 : p[n + i] = E[i]
  <2>1. /\ p \in Seq(STRING) /\ Len(p) = Len(s) + Len(E)
        /\ \A i \in 1..Len(s) : p[i] = s[i]
        /\ \A i \in 1..Len(E) : p[Len(s) + i] = E[i]
    <3>1. s \in Seq(STRING) /\ E \in Seq(STRING)
      BY <1>2, <1>3
    <3> QED
      BY ONLY <1>13, <3>1, JoinedIs
  <2>2. Len(E) = 2
    BY <1>3
  <2> HIDE DEF n
  <2> QED
    BY ONLY <2>1, <2>2 DEF n
<1>5. /\ t \in Seq(STRING) /\ Len(t) = n + 2 + Len(q)
      /\ \A i \in 1..(n + 2) : t[i] = p[i]
      /\ \A i \in 1..Len(q) : t[n + 2 + i] = q[i]
  <2>1. /\ t \in Seq(STRING) /\ Len(t) = Len(p) + Len(q)
        /\ \A i \in 1..Len(p) : t[i] = p[i]
        /\ \A i \in 1..Len(q) : t[Len(p) + i] = q[i]
    BY ONLY <1>4, q \in Seq(STRING), Joined(t, p, q), JoinedIs
  <2> HIDE DEF n
  <2> QED
    BY <1>4, <2>1
<1> HIDE DEF n
<1>6. t[n + 1] = "\r" /\ t[n + 2] = "\n"
  <2>1. n + 1 \in 1..(n + 2) /\ n + 2 \in 1..(n + 2)
    BY <1>1, <1>2
  <2>2. 1 \in 1..2 /\ 2 \in 1..2
    OBVIOUS
  <2> QED
    BY <1>3, <1>4, <1>5, <2>1, <2>2
<1>7. \A i \in 1..Len(a) : i \in 1..n /\ i \in 1..(n + 2)
  BY <1>1, <1>2
<1>8. \A i \in 1..Len(b) : Len(a) + i \in 1..n /\ Len(a) + i \in 1..(n + 2)
  BY <1>1, <1>2
<1>9. \A i \in 1..Len(a) : t[i] = a[i]
  BY <1>2, <1>4, <1>5, <1>7
<1>10. \A i \in 1..Len(b) : t[Len(a) + i] = b[i]
  BY <1>2, <1>4, <1>5, <1>8
<1> QED
  BY <1>2, <1>5, <1>6, <1>9, <1>10

LEMMA LineIs ==
    ASSUME NEW a \in Seq(STRING), NEW b \in Seq(STRING), NEW q \in Seq(STRING),
           NEW t, LineOf(t, a, b, q)
    PROVE  /\ t \in Seq(STRING) /\ Len(t) = Len(a) + Len(b) + 2 + Len(q)
           /\ \A i \in 1..Len(a) : t[i] = a[i]
           /\ \A i \in 1..Len(b) : t[Len(a) + i] = b[i]
           /\ t[Len(a) + Len(b) + 1] = "\r" /\ t[Len(a) + Len(b) + 2] = "\n"
           /\ \A i \in 1..Len(q) : t[Len(a) + Len(b) + 2 + i] = q[i]
<1>1. PICK s : s = a \o b
  OBVIOUS
<1>2. PICK p : p = s \o EndOfLine
  OBVIOUS
<1>3. t = p \o q
  BY <1>1, <1>2 DEF LineOf
<1>4. Joined(s, a, b) /\ Joined(p, s, EndOfLine) /\ Joined(t, p, q)
  BY <1>1, <1>2, <1>3 DEF Joined
<1> QED
  BY ONLY <1>4, a \in Seq(STRING), b \in Seq(STRING), q \in Seq(STRING), FourAre

\* The line ends where it should, if it has no other end in it.
LEMMA LineEndsAt ==
    ASSUME NEW a \in Seq(STRING), NEW b \in Seq(STRING), NEW q \in Seq(STRING),
           NEW t, LineOf(t, a, b, q), LineEnds(b, 1) = {},
           NEW from \in Nat, Len(a) < from, from <= Len(a) + Len(b) + 1
    PROVE  LineEnds(t, from) # {} /\ Behind(t, Min(LineEnds(t, from))) = q
<1> DEFINE A == Len(a)  B == Len(b)  Q == Len(q)  end == A + B + 2
<1>1. A \in Nat /\ B \in Nat /\ Q \in Nat
  BY LenProperties
<1>2. /\ t \in Seq(STRING) /\ Len(t) = A + B + 2 + Q
      /\ \A i \in 1..B : t[A + i] = b[i]
      /\ t[A + B + 1] = "\r" /\ t[A + B + 2] = "\n"
      /\ \A i \in 1..Q : t[A + B + 2 + i] = q[i]
  BY LineIs
<1>3. A < from /\ from <= A + B + 1 /\ from \in Nat \ {0}
  BY <1>1
<1> HIDE DEF A, B, Q
<1>4. end \in LineEnds(t, from)
  <2>1. end - 1 = A + B + 1 /\ end \in (from + 1)..Len(t)
    BY <1>1, <1>2, <1>3
  <2>2. t[end - 1] = "\r" /\ t[end] = "\n"
    BY <1>2, <2>1
  <2> HIDE DEF end
  <2>3. LineEnds(t, from) = {i \in (from + 1)..Len(t) : t[i - 1] = "\r" /\ t[i] = "\n"}
    BY <1>2, <1>3, LineEndsAre
  <2> QED
    BY ONLY <2>1, <2>2, <2>3
<1>5. ASSUME NEW i \in LineEnds(t, from) PROVE end <= i
  <2>1. i \in (from + 1)..Len(t) /\ t[i - 1] = "\r" /\ t[i] = "\n"
    BY <1>2, <1>3, LineEndsAre
  <2>2. i \in Int /\ i >= from + 1 /\ i <= Len(t)
    BY <1>1, <1>2, <2>1
  <2>5. i # A + B + 1
    BY <1>2, <2>1
  <2>6. ASSUME i <= A + B PROVE FALSE
    <3> DEFINE j == i - A
    <3>1. j \in 2..B /\ j - 1 \in 1..B /\ A + j = i /\ A + (j - 1) = i - 1 /\ j \in 1..B
      BY <1>1, <1>3, <2>2, <2>6
    <3> HIDE DEF j
    <3>2. b[j - 1] = "\r" /\ b[j] = "\n"
      BY <1>2, <2>1, <3>1
    <3>3. j \in (1 + 1)..Len(b)
      BY <1>1, <3>1 DEF B
    <3>4. j \in LineEnds(b, 1)
      BY <3>2, <3>3, LineEndsAre
    <3> QED
      BY <3>4
  <2> QED
    BY <1>1, <2>2, <2>5, <2>6
<1>6. LineEnds(t, from) \in SUBSET Nat
  <2>1. \A i \in (from + 1)..Len(t) : i \in Nat
    BY <1>1, <1>2, <1>3
  <2> QED
    BY <1>2, <1>3, <2>1, LineEndsAre
<1>7. Min(LineEnds(t, from)) = end
  <2> HIDE DEF end
  <2> QED
    BY <1>4, <1>5, <1>6, MinIs
<1>8. Behind(t, end) = q
  <2>1. end \in Nat /\ end + Len(q) = Len(t)
    BY <1>1, <1>2 DEF Q
  <2>2. \A i \in 1..Len(q) : t[end + i] = q[i]
    BY <1>2 DEF Q
  <2> HIDE DEF end
  <2>3. SubSeq(t, end + 1, end + Len(q)) = q
    <3>1. end + Len(q) <= Len(t)
      BY <1>1, <2>1 DEF Q
    <3> QED
      BY <1>2, <2>1, <2>2, <3>1, PartIs
  <2> QED
    BY <2>1, <2>3 DEF Behind
<1> QED
  BY <1>4, <1>7, <1>8

\* What ends a size is no digit, and neither is a space.
-------------------------------------------------------------------------------
(* One chunk, as servers write it, is read as it is meant. *)

LEMMA NoHex == ~IsHex("\r") /\ ~IsHex(";") /\ ~IsHex(" ")
<1> SUFFICES ASSUME NEW i \in 1..16 PROVE HexDigits[i] \notin {"\r", ";", " "}
  <2>1. DOMAIN HexDigits = 1..16
    BY DEF HexDigits
  <2> QED
    BY <2>1 DEF IsHex, Range
<1>1. i = 1 \/ i = 2 \/ i = 3 \/ i = 4 \/ i = 5 \/ i = 6 \/ i = 7 \/ i = 8 \/ i = 9 \/ i = 10
      \/ i = 11 \/ i = 12 \/ i = 13 \/ i = 14 \/ i = 15 \/ i = 16
  OBVIOUS
<1> DEFINE d == HexDigits[i]
<1>2. d \in {"0", "1", "2", "3", "4", "5", "6", "7", "8", "9", "a", "b", "c", "d", "e", "f"}
  BY <1>1, SMT DEF HexDigits
<1> HIDE DEF d
<1>3. d \notin {"\r", ";", " "}
  BY <1>2
<1> QED
  BY <1>3 DEF d

LEMMA SizeCharactersAre ==
    /\ \A c : IsHex(c) => c \in SizeCharacters
    /\ " " \in SizeCharacters /\ "\r" \notin SizeCharacters /\ ";" \notin SizeCharacters
<1>1. \A c : IsHex(c) <=> c \in Range(HexDigits)
  BY DEF IsHex
<1>2. "\r" \notin {" ", "x", "y", "z"} /\ ";" \notin {" ", "x", "y", "z"}
  OBVIOUS
<1> QED
  BY <1>1, <1>2, NoHex DEF SizeCharacters

\* A size is written in digits, and an extension of j - 1 spaces and what ends them.
\* A size; an extension, with its semicolon at j; what does not end a line.
Digital(a) == \A i \in 1..Len(a) : IsHex(a[i])
Spaced(b, j) ==
    /\ j \in Nat \ {0} /\ j <= Len(b) + 1
    /\ \A i \in 1..(j - 1) : b[i] = " "
    /\ j <= Len(b) => b[j] = ";"
OneLine(b) == LineEnds(b, 1) = {}

\* recv_chunk_size reads the digits, skips an extension, and leaves what is behind the line.
LEMMA SizeIsRead ==
    ASSUME NEW a \in Seq(STRING), NEW b \in Seq(STRING), NEW q \in Seq(STRING),
           NEW t, LineOf(t, a, b, q), Digital(a), NEW j, Spaced(b, j), OneLine(b)
    PROVE  /\ RecvChunkSize(t).ok /\ RecvChunkSize(t).rest = q
           /\ HexNumber(RecvChunkSize(t).content) = HexNumber(a)
<1> DEFINE A == Len(a)  B == Len(b)  s == A + j
           stops == {i \in DOMAIN t : t[i] \notin SizeCharacters}
<1>1. A \in Nat /\ B \in Nat /\ Len(q) \in Nat /\ j \in Nat \ {0} /\ j <= B + 1
  BY LenProperties DEF Spaced
<1>2. /\ t \in Seq(STRING) /\ Len(t) = A + B + 2 + Len(q)
      /\ \A i \in 1..A : t[i] = a[i]
      /\ \A i \in 1..B : t[A + i] = b[i]
      /\ t[A + B + 1] = "\r"
  BY LineIs
<1>3. (\A i \in 1..A : IsHex(a[i])) /\ (\A i \in 1..(j - 1) : b[i] = " ") /\ (j <= B => b[j] = ";")
  BY DEF Digital, Spaced
<1> HIDE DEF A, B
<1>4. s \in 1..Len(t) /\ s >= A + 1 /\ s <= A + B + 1
  BY <1>1, <1>2
<1>5. t[s] = ";" \/ t[s] = "\r"
  <2>1. CASE j <= B
    <3>1. j \in 1..B
      BY <1>1, <2>1
    <3> QED
      BY <1>2, <1>3, <2>1, <3>1
  <2>2. CASE ~(j <= B)
    <3>1. s = A + B + 1
      BY <1>1, <2>2
    <3> QED
      BY <1>2, <3>1
  <2> QED
    BY <2>1, <2>2
<1>6. \A i \in 1..(s - 1) : t[i] \in SizeCharacters
  <2> SUFFICES ASSUME NEW i \in 1..(s - 1) PROVE t[i] \in SizeCharacters
    OBVIOUS
  <2>1. CASE i <= A
    <3>1. i \in 1..A
      BY <1>1, <2>1
    <3> QED
      BY <1>2, <1>3, <3>1, SizeCharactersAre
  <2>2. CASE ~(i <= A)
    <3> DEFINE k == i - A
    <3>1. k \in 1..(j - 1) /\ k \in 1..B /\ A + k = i
      BY <1>1, <2>2
    <3> HIDE DEF k
    <3>2. t[i] = " "
      BY <1>2, <1>3, <3>1
    <3> QED
      BY <3>2, SizeCharactersAre
  <2> QED
    BY <2>1, <2>2
<1>7. Min(stops) = s
  <2>0. DOMAIN t = 1..Len(t) /\ Len(t) \in Nat
    BY <1>2, LenProperties
  <2>1. s \in stops
    BY <1>4, <1>5, <2>0, SizeCharactersAre
  <2>2. stops \in SUBSET Nat
    BY <2>0
  <2>3. \A i \in stops : s <= i
    <3> SUFFICES ASSUME NEW i \in 1..Len(t), ~(s <= i) PROVE t[i] \in SizeCharacters
      BY <2>0
    <3>1. i \in 1..(s - 1)
      BY <1>4, <2>0
    <3> QED
      BY <1>6, <3>1
  <2> HIDE DEF s, stops
  <2> QED
    BY <2>1, <2>2, <2>3, MinIs
<1>8. stops # {}
  <2>1. DOMAIN t = 1..Len(t)
    BY <1>2, LenProperties
  <2> QED
    BY <1>4, <1>5, <2>1, SizeCharactersAre
<1>9. LineEnds(t, s) # {} /\ Behind(t, Min(LineEnds(t, s))) = q
  <2>1. Len(a) < s /\ s <= Len(a) + Len(b) + 1 /\ s \in Nat
    BY <1>1, <1>4 DEF A, B
  <2> HIDE DEF s
  <2> QED
    BY <2>1, LineEndsAt DEF OneLine
<1>10. SubSeq(t, 1, s - 1) \in Seq(STRING) /\ HexNumber(SubSeq(t, 1, s - 1)) = HexNumber(a)
  <2> DEFINE blank == SubSeq(b, 1, j - 1)
  <2>1. blank \in Seq(STRING) /\ Len(blank) = j - 1 /\ \A i \in 1..(j - 1) : blank[i] = " "
    <3>1. j - 1 \in Nat /\ j - 1 <= Len(b)
      BY <1>1 DEF B
    <3>2. \A i \in 1..(j - 1) : b[i] \in STRING
      BY <1>1, ElementOfSeq DEF B
    <3>3. blank \in Seq(STRING) /\ Len(blank) = j - 1 /\ \A i \in 1..(j - 1) : blank[i] = b[i]
      BY <1>1, <3>1, <3>2, SubSeqProperties
    <3> QED
      BY <1>3, <3>3
  <2> HIDE DEF blank
  <2>2. PICK u : u = a \o blank
    OBVIOUS
  <2>3. /\ u \in Seq(STRING) /\ Len(u) = A + (j - 1)
        /\ \A i \in 1..A : u[i] = a[i]
        /\ \A i \in 1..(j - 1) : u[A + i] = blank[i]
    <3>1. /\ u \in Seq(STRING) /\ Len(u) = Len(a) + Len(blank)
          /\ \A i \in 1..Len(a) : u[i] = a[i]
          /\ \A i \in 1..Len(blank) : u[Len(a) + i] = blank[i]
      <4>1. Joined(u, a, blank)
        BY <2>2 DEF Joined
      <4>2. blank \in Seq(STRING)
        BY <2>1
      <4> QED
        BY ONLY a \in Seq(STRING), <4>1, <4>2, JoinedIs
    <3> QED
      BY <2>1, <3>1 DEF A
  <2>4. \A i \in 1..Len(u) : t[0 + i] = u[i]
    <3> SUFFICES ASSUME NEW i \in 1..(s - 1) PROVE t[i] = u[i]
      BY <1>1, <2>3
    <3>1. CASE i <= A
      <4>1. i \in 1..A
        BY <1>1, <3>1
      <4> QED
        BY <1>2, <2>3, <4>1
    <3>2. CASE ~(i <= A)
      <4> DEFINE k == i - A
      <4>1. k \in 1..(j - 1) /\ k \in 1..B /\ A + k = i
        BY <1>1, <3>2
      <4> HIDE DEF k
      <4>2. t[i] = " " /\ u[i] = " "
        BY <1>2, <1>3, <2>1, <2>3, <4>1
      <4> QED
        BY <4>2
    <3> QED
      BY <3>1, <3>2
  <2>5. Len(u) = s - 1 /\ 0 + Len(u) <= Len(t) /\ Len(u) \in Nat
    BY <1>1, <1>2, <2>3
  <2>6. SubSeq(t, 1, s - 1) = u
    <3>1. SubSeq(t, 0 + 1, 0 + Len(u)) = u
      BY ONLY <1>2, <2>3, <2>4, <2>5, PartIs
    <3> QED
      BY <2>5, <3>1
  <2>7. \A i \in 1..Len(blank) : ~IsHex(blank[i])
    BY <2>1, NoHex
  <2>8. HexNumber(u) = HexNumber(a)
    BY <2>1, <2>2, <2>7, BlanksAreSkipped
  <2> QED
    BY <2>3, <2>6, <2>8
<1> HIDE DEF s, stops
<1>11. RecvChunkSize(t) = [ok |-> TRUE, content |-> SubSeq(t, 1, s - 1), rest |-> q]
  BY <1>7, <1>8, <1>9 DEF RecvChunkSize, stops
<1> QED
  BY <1>10, <1>11

\* recvn reads the chunk and the end of the line behind it.
LEMMA ChunkIsRead ==
    ASSUME NEW data \in Seq(STRING), NEW c \in Seq(STRING), NEW line,
           LineOf(line.rest, data, <<>>, c), HexNumber(line.content) = Len(data)
    PROVE  /\ RecvChunk(line).ok /\ RecvChunk(line).rest = c
           /\ SubSeq(RecvChunk(line).content, 1, Len(data)) = data
<1> DEFINE n == Len(data)  t == line.rest
<1>1. n \in Nat /\ Len(c) \in Nat
  BY LenProperties
<1>2. /\ t \in Seq(STRING) /\ Len(t) = n + 2 + Len(c)
      /\ \A i \in 1..n : t[i] = data[i]
      /\ \A i \in 1..Len(c) : t[n + 2 + i] = c[i]
  <2>1. PICK e : e = <<>>
    OBVIOUS
  <2>2. e \in Seq(STRING) /\ Len(e) = 0
    BY <2>1, EmptySeq
  <2>3. LineOf(t, data, e, c)
    BY <2>1
  <2> HIDE DEF t, n
  <2>4. /\ t \in Seq(STRING) /\ Len(t) = Len(data) + Len(e) + 2 + Len(c)
        /\ \A i \in 1..Len(data) : t[i] = data[i]
        /\ \A i \in 1..Len(e) : t[Len(data) + i] = e[i]
        /\ t[Len(data) + Len(e) + 1] = "\r" /\ t[Len(data) + Len(e) + 2] = "\n"
        /\ \A i \in 1..Len(c) : t[Len(data) + Len(e) + 2 + i] = c[i]
    <3>1. e \in Seq(STRING)
      BY <2>2
    <3> QED
      BY ONLY <3>1, <2>3, data \in Seq(STRING), c \in Seq(STRING), LineIs
  <2>5. Len(data) + Len(e) = n
    BY <1>1, <2>2 DEF n
  <2> QED
    BY <1>1, <2>4, <2>5 DEF n
<1>3. n = HexNumber(line.content)
  OBVIOUS
<1> DEFINE content == SubSeq(t, 1, n + 2)
<1>4. RecvChunk(line) = [ok |-> TRUE, content |-> content, rest |-> Behind(t, n + 2)]
  <2>1. ~(n + 2 = 0) /\ ~(Len(t) < n + 2)
    BY <1>1, <1>2
  <2> QED
    BY <1>3, <2>1 DEF RecvChunk, Recvn
<1> HIDE DEF n, t
<1>5. content \in Seq(STRING) /\ Len(content) = n + 2 /\ \A i \in 1..(n + 2) : content[i] = t[i]
  <2>1. \A i \in 1..(n + 2) : t[i] \in STRING
    BY <1>1, <1>2, ElementOfSeq
  <2> QED
    BY <1>1, <1>2, <2>1, SubSeqProperties
<1> HIDE DEF content
<1>6. SubSeq(content, 0 + 1, 0 + Len(data)) = data
  <2>1. 0 + Len(data) <= Len(content)
    BY <1>1, <1>5 DEF n
  <2>2. \A i \in 1..Len(data) : content[0 + i] = data[i]
    BY <1>1, <1>2, <1>5 DEF n
  <2> QED
    BY ONLY <1>5, <2>1, <2>2, data \in Seq(STRING), PartIs
<1>7. Behind(t, n + 2) = c
  <2> DEFINE m == n + 2
  <2>1. m \in Nat /\ m + Len(c) = Len(t) /\ m + Len(c) <= Len(t)
    BY <1>1, <1>2
  <2>2. \A i \in 1..Len(c) : t[m + i] = c[i]
    BY <1>2
  <2> HIDE DEF m
  <2>3. SubSeq(t, m + 1, m + Len(c)) = c
    BY ONLY <1>2, <2>1, <2>2, c \in Seq(STRING), PartIs
  <2> QED
    BY <2>1, <2>3 DEF Behind, m
<1>8. 0 + 1 = 1 /\ 0 + Len(data) = Len(data)
  BY <1>1 DEF n
<1> QED
  BY <1>4, <1>6, <1>7, <1>8

-------------------------------------------------------------------------------
(* The bodies that servers write. *)

ChunkSet == [size : Seq(STRING), extension : Seq(STRING), data : Seq(STRING)]

\* The entity of a response, and its chunks as they are sent, from the n-th on.
EntityFrom(d, r) ==
    /\ d[Len(r.chunks) + 1] = <<>>
    /\ \A n \in 1..Len(r.chunks) : d[n] = r.chunks[n].data \o d[n + 1]
    /\ \A n \in 1..(Len(r.chunks) + 1) : d[n] \in Seq(STRING)
CodedWith(chunk, later) ==
    chunk.size \o chunk.extension \o EndOfLine \o chunk.data \o EndOfLine \o later
LastChunk(r) == <<"0">> \o EndOfLine \o r.trailer \o EndOfLine
CodedFrom(c, r) ==
    /\ c[Len(r.chunks) + 1] = LastChunk(r)
    /\ \A n \in 1..Len(r.chunks) : c[n] = CodedWith(r.chunks[n], c[n + 1])
    /\ \A n \in 1..(Len(r.chunks) + 1) : c[n] \in Seq(STRING)

LEMMA EntityIs ==
    ASSUME NEW r, r.chunks \in Seq(ChunkSet)
    PROVE  \E d : EntityFrom(d, r) /\ Entity(r) = d[1]
<1> DEFINE N == Len(r.chunks)
           D == 1..(N + 1)
           data[n \in D] == IF n > N THEN <<>> ELSE r.chunks[n].data \o data[n + 1]
           value(g, n) == IF n > N THEN <<>> ELSE r.chunks[n].data \o g[n + 1]
           step == [x \in D \X Seq(STRING) |->
                        IF x[1] > N THEN <<>> ELSE r.chunks[x[1]].data \o x[2]]
<1>1. N \in Nat /\ <<>> \in Seq(STRING)
  BY LenProperties, EmptySeq
<1>2. \A n \in 1..N : r.chunks[n].data \in Seq(STRING)
  <2> SUFFICES ASSUME NEW n \in 1..Len(r.chunks) PROVE r.chunks[n].data \in Seq(STRING)
    OBVIOUS
  <2>1. r.chunks[n] \in ChunkSet
    BY ONLY r.chunks \in Seq(ChunkSet), n \in 1..Len(r.chunks), ElementOfSeq
  <2> QED
    BY <2>1 DEF ChunkSet
<1>3. \A n \in 1..N, t \in Seq(STRING) : r.chunks[n].data \o t \in Seq(STRING)
  BY <1>2, ConcatProperties
<1> HIDE DEF N
<1>4. step \in [D \X Seq(STRING) -> Seq(STRING)]
  <2> SUFFICES ASSUME NEW n \in D, NEW t \in Seq(STRING)
               PROVE  (IF n > N THEN <<>> ELSE r.chunks[n].data \o t) \in Seq(STRING)
    OBVIOUS
  <2>1. ~(n > N) => n \in 1..N
    BY <1>1
  <2> QED
    BY <1>1, <1>3, <2>1
<1>5. \A n \in 1..N, t \in Seq(STRING) : step[<<n, t>>] = r.chunks[n].data \o t
  <2>1. \A n \in 1..N : n \in D /\ ~(n > N)
    BY <1>1
  <2> QED
    BY <2>1
<1>6. PICK d \in [D -> Seq(STRING)] : DownFrom(d, N, <<>>, step)
  <2> HIDE DEF step
  <2> QED
    BY <1>1, <1>4, DownThere
<1>7. d = [n \in D |-> value(d, n)]
  <2> HIDE DEF step
  <2>1. \A n \in 1..N : d[n] = r.chunks[n].data \o d[n + 1]
    <3>1. \A n \in 1..N : n + 1 \in D
      BY <1>1
    <3>2. \A n \in 1..N : d[n + 1] \in Seq(STRING)
      BY <1>6, <3>1
    <3> QED
      BY <1>5, <1>6, <3>2 DEF DownFrom
  <2>2. d[N + 1] = <<>>
    BY <1>6 DEF DownFrom
  <2>3. \A n \in D : IF n > N THEN n = N + 1 ELSE n \in 1..N
    BY <1>1
  <2>4. \A n \in D : d[n] = value(d, n)
    BY <2>1, <2>2, <2>3
  <2> QED
    BY <1>6, <2>4
<1>8. data = CHOOSE g : g = [n \in D |-> value(g, n)]
  OBVIOUS
<1>9. data = [n \in D |-> value(data, n)]
  <2> HIDE DEF value, data, D
  <2> QED
    BY <1>7, <1>8
<1>10. \A n \in D : data[n] = value(data, n)
  <2> HIDE DEF value, data
  <2> QED
    BY <1>9
<1>11. Entity(r) = data[1]
  BY DEF Entity, N
<1> HIDE DEF data
<1>12. data[N + 1] = <<>> /\ \A n \in 1..N : data[n] = r.chunks[n].data \o data[n + 1]
  <2>1. N + 1 \in D /\ N + 1 > N
    BY <1>1
  <2>2. \A n \in 1..N : n \in D /\ ~(n > N)
    BY <1>1
  <2> QED
    BY <1>10, <2>1, <2>2
<1>13. \A n \in 1..(N + 1) : data[n] \in Seq(STRING)
  <2>1. data[N + 1] \in Seq(STRING)
    BY <1>1, <1>12
  <2>2. \A n \in 1..N : data[n + 1] \in Seq(STRING) => data[n] \in Seq(STRING)
    BY <1>3, <1>12
  <2> QED
    BY <1>1, <2>1, <2>2, DownIn
<1> QED
  BY <1>11, <1>12, <1>13 DEF EntityFrom, N

LEMMA TextsAssociate ==
    \A s \in Seq(STRING), t \in Seq(STRING), u \in Seq(STRING) : (s \o t) \o u = s \o (t \o u)
  BY ConcatAssociative

LEMMA CodedWithIs ==
    ASSUME NEW chunk \in ChunkSet, NEW t \in Seq(STRING)
    PROVE  /\ CodedWith(chunk, t) \in Seq(STRING)
           /\ LineOf(CodedWith(chunk, t), chunk.size, chunk.extension, chunk.data \o EndOfLine \o t)
           /\ chunk.data \o EndOfLine \o t \in Seq(STRING)
<1> DEFINE a == chunk.size \o chunk.extension
           p == a \o EndOfLine
<1>1. /\ chunk.size \in Seq(STRING) /\ chunk.extension \in Seq(STRING)
      /\ chunk.data \in Seq(STRING) /\ EndOfLine \in Seq(STRING)
  BY EndOfLineIs DEF ChunkSet
<1>2. a \in Seq(STRING)
  BY <1>1, ConcatProperties
<1>3. CodedWith(chunk, t) = (((a \o EndOfLine) \o chunk.data) \o EndOfLine) \o t
  BY DEF CodedWith
<1>4. LineOf(CodedWith(chunk, t), chunk.size, chunk.extension, chunk.data \o EndOfLine \o t)
        <=> CodedWith(chunk, t) = (a \o EndOfLine) \o ((chunk.data \o EndOfLine) \o t)
  BY DEF LineOf
<1> HIDE DEF a
<1>5. p \in Seq(STRING)
  BY <1>1, <1>2, ConcatProperties
<1> HIDE DEF p
<1>6. chunk.data \o EndOfLine \in Seq(STRING) /\ p \o chunk.data \in Seq(STRING)
  BY <1>1, <1>5, ConcatProperties
<1>7. (p \o chunk.data) \o EndOfLine = p \o (chunk.data \o EndOfLine)
  BY <1>1, <1>5, TextsAssociate
<1>8. (p \o (chunk.data \o EndOfLine)) \o t = p \o ((chunk.data \o EndOfLine) \o t)
  BY <1>5, <1>6, TextsAssociate
<1>9. (chunk.data \o EndOfLine) \o t \in Seq(STRING)
  BY <1>6, ConcatProperties
<1>10. p \o ((chunk.data \o EndOfLine) \o t) \in Seq(STRING)
  BY <1>5, <1>9, ConcatProperties
<1>11. CodedWith(chunk, t) = p \o ((chunk.data \o EndOfLine) \o t)
  BY <1>3, <1>7, <1>8 DEF p
<1> QED
  BY <1>4, <1>9, <1>10, <1>11 DEF p

LEMMA LastChunkIs ==
    ASSUME NEW r, r.trailer \in Seq(STRING)
    PROVE  /\ LastChunk(r) \in Seq(STRING) /\ r.trailer \o EndOfLine \in Seq(STRING)
           /\ LineOf(LastChunk(r), <<"0">>, <<>>, r.trailer \o EndOfLine)
<1>1. PICK z : z = <<"0">>
  OBVIOUS
<1>2. z \in Seq(STRING) /\ EndOfLine \in Seq(STRING)
  BY <1>1, BytesAreStrings
<1>3. LastChunk(r) = ((z \o EndOfLine) \o r.trailer) \o EndOfLine
  BY <1>1 DEF LastChunk
<1>4. z \o <<>> = z
  BY <1>2, ConcatEmptySeq
<1>5. z \o EndOfLine \in Seq(STRING) /\ r.trailer \o EndOfLine \in Seq(STRING)
  BY <1>2, ConcatProperties
<1>6. LastChunk(r) = (z \o EndOfLine) \o (r.trailer \o EndOfLine)
  BY <1>2, <1>3, <1>5, TextsAssociate
<1>7. LastChunk(r) \in Seq(STRING)
  BY <1>5, <1>6, ConcatProperties
<1> QED
  BY <1>1, <1>4, <1>5, <1>6, <1>7 DEF LineOf

LEMMA CodedIs ==
    ASSUME NEW r, r.chunks \in Seq(ChunkSet), r.trailer \in Seq(STRING)
    PROVE  \E c : CodedFrom(c, r) /\ ChunkCoded(r) = c[1]
<1> DEFINE N == Len(r.chunks)
           D == 1..(N + 1)
           coded[n \in D] == IF n > N THEN LastChunk(r) ELSE CodedWith(r.chunks[n], coded[n + 1])
           value(g, n) == IF n > N THEN LastChunk(r) ELSE CodedWith(r.chunks[n], g[n + 1])
           step == [x \in D \X Seq(STRING) |->
                        IF x[1] > N THEN LastChunk(r) ELSE CodedWith(r.chunks[x[1]], x[2])]
<1>1. N \in Nat /\ LastChunk(r) \in Seq(STRING)
  BY LenProperties, LastChunkIs
<1>3. \A n \in 1..N, t \in Seq(STRING) : CodedWith(r.chunks[n], t) \in Seq(STRING)
  <2> SUFFICES ASSUME NEW n \in 1..Len(r.chunks), NEW t \in Seq(STRING)
               PROVE  CodedWith(r.chunks[n], t) \in Seq(STRING)
    OBVIOUS
  <2>1. r.chunks[n] \in ChunkSet
    BY ONLY r.chunks \in Seq(ChunkSet), n \in 1..Len(r.chunks), ElementOfSeq
  <2> QED
    BY <2>1, CodedWithIs
<1> HIDE DEF N
<1>4. step \in [D \X Seq(STRING) -> Seq(STRING)]
  <2> SUFFICES ASSUME NEW n \in D, NEW t \in Seq(STRING)
               PROVE  (IF n > N THEN LastChunk(r) ELSE CodedWith(r.chunks[n], t)) \in Seq(STRING)
    OBVIOUS
  <2>1. ~(n > N) => n \in 1..N
    BY <1>1
  <2> QED
    BY <1>1, <1>3, <2>1
<1>5. \A n \in 1..N, t \in Seq(STRING) : step[<<n, t>>] = CodedWith(r.chunks[n], t)
  <2>1. \A n \in 1..N : n \in D /\ ~(n > N)
    BY <1>1
  <2> QED
    BY <2>1
<1>6. PICK d \in [D -> Seq(STRING)] : DownFrom(d, N, LastChunk(r), step)
  <2> HIDE DEF step
  <2> QED
    BY <1>1, <1>4, DownThere
<1>7. d = [n \in D |-> value(d, n)]
  <2> HIDE DEF step
  <2>1. \A n \in 1..N : d[n] = CodedWith(r.chunks[n], d[n + 1])
    <3>1. \A n \in 1..N : n + 1 \in D
      BY <1>1
    <3>2. \A n \in 1..N : d[n + 1] \in Seq(STRING)
      BY <1>6, <3>1
    <3> QED
      BY <1>5, <1>6, <3>2 DEF DownFrom
  <2>2. d[N + 1] = LastChunk(r)
    BY <1>6 DEF DownFrom
  <2>3. \A n \in D : IF n > N THEN n = N + 1 ELSE n \in 1..N
    BY <1>1
  <2>4. \A n \in D : d[n] = value(d, n)
    BY <2>1, <2>2, <2>3
  <2> QED
    BY <1>6, <2>4
<1>8. coded = CHOOSE g : g = [n \in D |-> value(g, n)]
  OBVIOUS
<1>9. coded = [n \in D |-> value(coded, n)]
  <2> HIDE DEF value, coded, D
  <2> QED
    BY <1>7, <1>8
<1>10. \A n \in D : coded[n] = value(coded, n)
  <2> HIDE DEF value, coded
  <2> QED
    BY <1>9
<1>11. ChunkCoded(r) = coded[1]
  BY DEF ChunkCoded, N, LastChunk, CodedWith
<1> HIDE DEF coded
<1>12. coded[N + 1] = LastChunk(r) /\ \A n \in 1..N : coded[n] = CodedWith(r.chunks[n], coded[n + 1])
  <2>1. N + 1 \in D /\ N + 1 > N
    BY <1>1
  <2>2. \A n \in 1..N : n \in D /\ ~(n > N)
    BY <1>1
  <2> QED
    BY <1>10, <2>1, <2>2
<1>13. \A n \in 1..(N + 1) : coded[n] \in Seq(STRING)
  <2>1. coded[N + 1] \in Seq(STRING)
    BY <1>1, <1>12
  <2>2. \A n \in 1..N : coded[n + 1] \in Seq(STRING) => coded[n] \in Seq(STRING)
    BY <1>3, <1>12
  <2> QED
    BY <1>1, <2>1, <2>2, DownIn
<1> QED
  BY <1>11, <1>12, <1>13 DEF CodedFrom, N

LEMMA ZeroIs == <<"0">> \in Seq(STRING) /\ Digital(<<"0">>) /\ HexNumber(<<"0">>) = 0
<1>1. PICK z : z = <<"0">>
  OBVIOUS
<1>2. z \in Seq(STRING)
  BY <1>1, BytesAreStrings
<1>3. Len(z) = 1 /\ z[1] = "0"
  BY <1>1
<1>4. HexDigits[1] = "0" /\ \A i \in 1..16 : HexDigits[i] = "0" => i = 1
  <2> SUFFICES ASSUME NEW i \in 1..16, i # 1 PROVE HexDigits[i] # "0"
    BY DEF HexDigits
  <2>1. i = 2 \/ i = 3 \/ i = 4 \/ i = 5 \/ i = 6 \/ i = 7 \/ i = 8 \/ i = 9 \/ i = 10
        \/ i = 11 \/ i = 12 \/ i = 13 \/ i = 14 \/ i = 15 \/ i = 16
    OBVIOUS
  <2> DEFINE d == HexDigits[i]
  <2>2. d \in {"1", "2", "3", "4", "5", "6", "7", "8", "9", "a", "b", "c", "d", "e", "f"}
    BY <2>1, SMT DEF HexDigits
  <2> HIDE DEF d
  <2>3. d # "0"
    BY <2>2
  <2> QED
    BY <2>3 DEF d
<1>5. HexDigit("0") = 0
  <2>1. (CHOOSE i \in 1..16 : HexDigits[i] = "0") = 1
    BY <1>4
  <2> QED
    BY <2>1 DEF HexDigit
<1>6. IsHex("0")
  <2>1. DOMAIN HexDigits = 1..16
    BY DEF HexDigits
  <2> QED
    BY <1>4, <2>1 DEF IsHex, Range
<1>7. PICK f \in [0..Len(z) -> Nat] : HexFrom(f, z) /\ HexNumber(z) = f[Len(z)]
  BY <1>2, HexNumberIs
<1>8. HexNumber(z) = HexNext(z, 1, 0)
  BY <1>3, <1>7 DEF HexFrom
<1>9. HexNext(z, 1, 0) = (16 * 0 + 0) % (UintMax + 1)
  BY <1>3, <1>5, <1>6 DEF HexNext
<1>10. (16 * 0 + 0) % (UintMax + 1) = 0
  BY UintMaxType
<1>11. Digital(z)
  BY <1>3, <1>6 DEF Digital
<1> QED
  BY <1>1, <1>2, <1>8, <1>9, <1>10, <1>11

LEMMA NothingIsOneLine == <<>> \in Seq(STRING) /\ OneLine(<<>>) /\ Spaced(<<>>, 1)
<1>1. PICK e : e = <<>>
  OBVIOUS
<1>2. e \in Seq(STRING) /\ Len(e) = 0
  BY <1>1, EmptySeq
<1>3. LineEnds(e, 1) = {}
  <2>1. PICK one \in Nat \ {0} : one = 1
    OBVIOUS
  <2>2. LineEnds(e, one) = {i \in (one + 1)..Len(e) : e[i - 1] = "\r" /\ e[i] = "\n"}
    BY <1>2, LineEndsAre
  <2>3. (one + 1)..Len(e) = {}
    BY <1>2, <2>1
  <2> QED
    BY <2>1, <2>2, <2>3
<1>4. Spaced(e, 1)
  BY <1>2 DEF Spaced
<1> QED
  BY <1>1, <1>2, <1>3, <1>4 DEF OneLine

\* Behind the last chunk a line is discarded, which is the last if there is no trailer.
LEMMA LastChunkIsRead ==
    ASSUME NEW r, r.trailer \in Seq(STRING), NEW later, NEW got, got = NextChunk(LastChunk(r), later)
    PROVE  /\ got \in Reads /\ got.content = <<>>
           /\ r.trailer = <<>> => got.rest = <<>>
<1> DEFINE t == LastChunk(r)  q == r.trailer \o EndOfLine
<1>1. t \in Seq(STRING) /\ q \in Seq(STRING) /\ LineOf(t, <<"0">>, <<>>, q)
  BY LastChunkIs
<1> HIDE DEF t, q
<1>2. PICK z : z = <<"0">>
  OBVIOUS
<1>3. PICK e : e = <<>>
  OBVIOUS
<1>4. z \in Seq(STRING) /\ Digital(z) /\ HexNumber(z) = 0
  BY <1>2, ZeroIs
<1>5. e \in Seq(STRING) /\ OneLine(e) /\ Spaced(e, 1)
  BY <1>3, NothingIsOneLine
<1>6. LineOf(t, z, e, q)
  BY <1>1, <1>2, <1>3
<1>7. /\ RecvChunkSize(t).ok /\ RecvChunkSize(t).rest = q
      /\ HexNumber(RecvChunkSize(t).content) = 0
  BY ONLY <1>1, <1>4, <1>5, <1>6, SizeIsRead
<1>8. got = RecvAndDiscard(q)
  BY <1>7 DEF NextChunk, t
<1>9. got \in Reads
  BY <1>1, <1>8, DiscardReads
<1>10. got.content = <<>>
  BY <1>8 DEF RecvAndDiscard, Broken
<1>11. ASSUME r.trailer = <<>> PROVE got.rest = <<>>
  <2>1. q = EndOfLine
    BY <1>11, EndOfLineIs, ConcatEmptySeq DEF q
  <2>2. LineOf(q, e, e, e)
    <3>1. EndOfLine \o e = EndOfLine /\ e \o e = e /\ e \o EndOfLine = EndOfLine
      BY <1>3, <1>5, EndOfLineIs, ConcatEmptySeq
    <3> QED
      BY <2>1, <3>1 DEF LineOf
  <2>3. LineEnds(e, 1) = {}
    BY <1>5 DEF OneLine
  <2>4. Len(e) < 1 /\ 1 <= Len(e) + Len(e) + 1 /\ 1 \in Nat
    BY <1>3
  <2>5. LineEnds(q, 1) # {} /\ Behind(q, Min(LineEnds(q, 1))) = e
    <3>1. e \in Seq(STRING)
      BY <1>5
    <3> QED
      BY ONLY <2>2, <2>3, <2>4, <3>1, LineEndsAt
  <2> QED
    BY <1>3, <1>8, <2>5 DEF RecvAndDiscard
<1> QED
  BY <1>9, <1>10, <1>11

\* The chunks of a response are written as servers do.
\* What ChunksAreSized says of a chunk.
WellWritten(chunk) ==
    /\ chunk \in ChunkSet
    /\ Digital(chunk.size) /\ OneLine(chunk.extension) /\ \E j : Spaced(chunk.extension, j)
    /\ Len(chunk.data) # 0 /\ HexNumber(chunk.size) = Len(chunk.data)

LEMMA ChunksAreWellWritten ==
    \A k \in DOMAIN Responses : \A n \in 1..Len(Responses[k].chunks) :
        WellWritten(Responses[k].chunks[n])
<1> SUFFICES ASSUME NEW k \in DOMAIN Responses, NEW n \in 1..Len(Responses[k].chunks)
             PROVE  WellWritten(Responses[k].chunks[n])
  OBVIOUS
<1> DEFINE chunks == Responses[k].chunks
<1>1. PICK chunk : chunk = Responses[k].chunks[n]
  OBVIOUS
<1>2. chunks \in Seq(ChunkSet)
  BY BodiesType DEF ChunkSet
<1>3. n \in DOMAIN chunks
  BY <1>2, LenProperties
<1>4. /\ \A i \in DOMAIN chunk.size : IsHex(chunk.size[i])
      /\ chunk.extension # <<>> =>
             \E i \in DOMAIN chunk.extension :
                 chunk.extension[i] = ";" /\ \A j \in 1..(i - 1) : chunk.extension[j] = " "
      /\ LineEnds(chunk.extension, 1) = {}
      /\ chunk.data # <<>> /\ HexNumber(chunk.size) = Len(chunk.data)
  <2>1. /\ \A i \in DOMAIN chunks[n].size : IsHex(chunks[n].size[i])
        /\ chunks[n].extension # <<>> =>
               \E i \in DOMAIN chunks[n].extension :
                   /\ chunks[n].extension[i] = ";"
                   /\ \A j \in 1..(i - 1) : chunks[n].extension[j] = " "
        /\ LineEnds(chunks[n].extension, 1) = {}
        /\ chunks[n].data # <<>> /\ HexNumber(chunks[n].size) = Len(chunks[n].data)
    BY <1>3, ChunksAreSized, Zenon
  <2> QED
    BY <1>1, <2>1
<1>5. chunk \in ChunkSet
  <2> HIDE DEF chunks
  <2>1. n \in 1..Len(chunks) /\ chunk = chunks[n]
    BY <1>1 DEF chunks
  <2> QED
    BY ONLY <1>2, <2>1, ElementOfSeq
<1> HIDE DEF chunks
<1>6. chunk.size \in Seq(STRING) /\ chunk.extension \in Seq(STRING) /\ chunk.data \in Seq(STRING)
  BY <1>5 DEF ChunkSet
<1>7. Digital(chunk.size)
  <2>1. DOMAIN chunk.size = 1..Len(chunk.size)
    BY <1>6, LenProperties
  <2> QED
    BY <1>4, <2>1 DEF Digital
<1>8. Len(chunk.data) # 0
  BY <1>4, <1>6, EmptySeq
<1>9. \E j : Spaced(chunk.extension, j)
  <2>1. CASE chunk.extension = <<>>
    BY <2>1, NothingIsOneLine
  <2>2. CASE chunk.extension # <<>>
    <3>1. DOMAIN chunk.extension = 1..Len(chunk.extension) /\ Len(chunk.extension) \in Nat
      BY <1>6, LenProperties
    <3>2. PICK i \in 1..Len(chunk.extension) :
              chunk.extension[i] = ";" /\ \A j \in 1..(i - 1) : chunk.extension[j] = " "
      BY <1>4, <2>2, <3>1
    <3>3. i \in Nat \ {0} /\ i <= Len(chunk.extension) + 1
      BY <3>1
    <3>4. Spaced(chunk.extension, i)
      BY <3>2, <3>3 DEF Spaced
    <3> QED
      BY <3>4
  <2> QED
    BY <2>1, <2>2
<1> QED
  BY <1>1, <1>4, <1>5, <1>7, <1>8, <1>9 DEF WellWritten, OneLine

\* recv_by_chunk reads one chunk, and goes on behind it.
\* A chunk of data was read, and the later ones.
GoesOn(got, later, data) ==
    /\ got \in Reads
    /\ got.ok => later.ok /\ got.content = data \o later.content
    /\ got.rest = later.rest \/ got.rest = <<>>

LEMMA OneChunkIsRead ==
    ASSUME NEW chunk, WellWritten(chunk), NEW c \in Seq(STRING), NEW t, t = CodedWith(chunk, c),
           NEW later \in Reads
    PROVE  BehindChunk(t) = c /\ GoesOn(NextChunk(t, later), later, chunk.data)
<1> DEFINE a == chunk.size  b == chunk.extension  data == chunk.data  n == Len(data)
           q == (data \o EndOfLine) \o c
<1>1. /\ a \in Seq(STRING) /\ b \in Seq(STRING) /\ data \in Seq(STRING)
      /\ Digital(a) /\ OneLine(b) /\ n # 0 /\ HexNumber(a) = n
  BY DEF WellWritten, ChunkSet
<1>2. PICK j : Spaced(b, j)
  BY DEF WellWritten
<1>3. t \in Seq(STRING) /\ LineOf(t, a, b, q) /\ q \in Seq(STRING)
  BY CodedWithIs DEF WellWritten
<1>4. PICK line : line = RecvChunkSize(t)
  OBVIOUS
<1>5. line.ok /\ line.rest = q /\ HexNumber(line.content) = n
  <2> HIDE DEF a, b, data, q, n
  <2>1. /\ RecvChunkSize(t).ok /\ RecvChunkSize(t).rest = q
        /\ HexNumber(RecvChunkSize(t).content) = HexNumber(a)
    BY ONLY <1>1, <1>2, <1>3, SizeIsRead
  <2> QED
    BY <1>1, <1>4, <2>1
<1>6. LineOf(q, data, <<>>, c)
  <2>1. data \o <<>> = data
    BY <1>1, ConcatEmptySeq
  <2> QED
    BY <2>1 DEF LineOf
<1>7. PICK chunked : chunked = RecvChunk(line)
  OBVIOUS
<1>8. chunked.ok /\ chunked.rest = c /\ SubSeq(chunked.content, 1, n) = data
  <2> HIDE DEF a, b, data, q
  <2>1. LineOf(line.rest, data, <<>>, c) /\ HexNumber(line.content) = Len(data)
    BY <1>5, <1>6
  <2>2. /\ RecvChunk(line).ok /\ RecvChunk(line).rest = c
        /\ SubSeq(RecvChunk(line).content, 1, Len(data)) = data
    BY ONLY <1>1, <2>1, c \in Seq(STRING), ChunkIsRead
  <2> QED
    BY <1>7, <2>2
<1>9. BehindChunk(t) = c
  BY <1>4, <1>7, <1>8 DEF BehindChunk
<1> HIDE DEF n, data, a, b, q
<1> DEFINE got == NextChunk(t, later)
<1>10. got = IF ~later.ok THEN Broken ELSE [later EXCEPT !.content = data \o @]
  BY <1>1, <1>4, <1>5, <1>7, <1>8 DEF NextChunk
<1>11. later.content \in Seq(STRING) /\ <<>> \in Seq(STRING)
  BY EmptySeq DEF Reads
<1>12. data \o later.content \in Seq(STRING)
  BY <1>1, <1>11, ConcatProperties
<1>13. PICK w : w = data \o later.content
  OBVIOUS
<1>14. /\ [later EXCEPT !.content = w] \in Reads
       /\ [later EXCEPT !.content = w].content = w
       /\ [later EXCEPT !.content = w].rest = later.rest
  BY <1>12, <1>13 DEF Reads
<1>15. Broken \in Reads /\ ~Broken.ok /\ Broken.rest = <<>>
  BY <1>11 DEF Reads, Broken
<1>16. got = IF ~later.ok THEN Broken ELSE [later EXCEPT !.content = w]
  BY <1>10, <1>13
<1> HIDE DEF got
<1>19. GoesOn(got, later, data)
  <2>1. CASE later.ok
    <3>1. got = [later EXCEPT !.content = w]
      BY <1>16, <2>1
    <3> QED
      BY <1>13, <1>14, <2>1, <3>1 DEF GoesOn
  <2>2. CASE ~later.ok
    BY <1>15, <1>16, <2>2 DEF GoesOn
  <2> QED
    BY <2>1, <2>2
<1> QED
  BY <1>9, <1>19 DEF got, data

\* What a server sends in chunks comes out as the entity, and to its end unless there is
\* a trailer.
LEMMA ChunksAreRead ==
    ASSUME NEW k \in DOMAIN Responses, NEW got, got = RecvByChunk[ChunkCoded(Responses[k])]
    PROVE  /\ got.ok => got.content = Entity(Responses[k])
           /\ Responses[k].trailer = <<>> => got.rest = <<>>
<1>1. PICK r : r = Responses[k]
  OBVIOUS
<1>2. r.chunks \in Seq(ChunkSet) /\ r.trailer \in Seq(STRING)
  BY <1>1, BodiesType DEF ChunkSet
<1>3. PICK N \in Nat : N = Len(r.chunks)
  BY <1>2, LenProperties
<1>4. PICK d : EntityFrom(d, r) /\ Entity(r) = d[1]
  BY <1>2, EntityIs
<1>5. PICK c : CodedFrom(c, r) /\ ChunkCoded(r) = c[1]
  BY <1>2, CodedIs
<1>6. /\ d[N + 1] = <<>> /\ c[N + 1] = LastChunk(r)
      /\ \A n \in 1..N : d[n] = r.chunks[n].data \o d[n + 1]
      /\ \A n \in 1..N : c[n] = CodedWith(r.chunks[n], c[n + 1])
      /\ \A n \in 1..(N + 1) : c[n] \in Seq(STRING)
  BY <1>3, <1>4, <1>5 DEF EntityFrom, CodedFrom
<1>7. PICK g : g = [n \in 1..(N + 1) |-> RecvByChunk[c[n]]]
  OBVIOUS
<1> DEFINE Right(n) ==
        /\ g[n] \in Reads
        /\ g[n].ok => g[n].content = d[n]
        /\ r.trailer = <<>> => g[n].rest = <<>>
           p == [n \in 1..(N + 1) |-> Right(n)]
<1>8. Right(N + 1)
  <2>1. c[N + 1] \in Seq(STRING) /\ g[N + 1] = RecvByChunk[c[N + 1]]
    BY <1>6, <1>7
  <2>2. g[N + 1] = NextChunk(LastChunk(r), RecvByChunk[BehindChunk(LastChunk(r))])
    BY <1>6, <2>1, RecvByChunkIs
  <2>3. /\ g[N + 1] \in Reads /\ g[N + 1].content = <<>>
        /\ r.trailer = <<>> => g[N + 1].rest = <<>>
    BY <1>2, <2>2, LastChunkIsRead
  <2> QED
    BY <1>6, <2>3
<1>9. ASSUME NEW n \in 1..N, Right(n + 1) PROVE Right(n)
  <2>1. PICK chunk : chunk = r.chunks[n]
    OBVIOUS
  <2>2. WellWritten(chunk)
    BY <1>1, <1>3, <2>1, ChunksAreWellWritten
  <2>3. n \in 1..(N + 1) /\ n + 1 \in 1..(N + 1)
    OBVIOUS
  <2>4. PICK t : t = c[n]
    OBVIOUS
  <2>5. PICK u : u = c[n + 1]
    OBVIOUS
  <2>6. t \in Seq(STRING) /\ u \in Seq(STRING) /\ t = CodedWith(chunk, u)
    BY <1>6, <2>1, <2>3, <2>4, <2>5
  <2>7. g[n] = RecvByChunk[t] /\ g[n + 1] = RecvByChunk[u]
    BY <1>7, <2>3, <2>4, <2>5
  <2>8. PICK later : later = g[n + 1]
    OBVIOUS
  <2>9. later \in Reads /\ (later.ok => later.content = d[n + 1])
        /\ (r.trailer = <<>> => later.rest = <<>>)
    BY <1>9, <2>8
  <2>10. BehindChunk(t) = u
    BY <2>2, <2>6, <2>9, OneChunkIsRead
  <2>11. g[n] = NextChunk(t, later)
    BY <2>6, <2>7, <2>8, <2>10, RecvByChunkIs
  <2>12. PICK h : h = g[n]
    OBVIOUS
  <2>13. /\ h \in Reads
         /\ h.ok => later.ok /\ h.content = chunk.data \o later.content
         /\ h.rest = later.rest \/ h.rest = <<>>
    <3>1. h = NextChunk(t, later)
      BY <2>11, <2>12
    <3>2. later \in Reads /\ u \in Seq(STRING) /\ t = CodedWith(chunk, u)
      BY <2>6, <2>9
    <3>3. GoesOn(NextChunk(t, later), later, chunk.data)
      BY ONLY <2>2, <3>2, OneChunkIsRead
    <3> QED
      BY <3>1, <3>3 DEF GoesOn
  <2>14. d[n] = chunk.data \o d[n + 1]
    BY <1>6, <2>1
  <2> QED
    BY <2>9, <2>12, <2>13, <2>14
<1> HIDE DEF Right
<1>10. PICK T : T = {TRUE}
  OBVIOUS
<1>11. p[N + 1] \in T /\ \A n \in 1..N : p[n + 1] \in T => p[n] \in T
  <2>1. N + 1 \in 1..(N + 1)
    OBVIOUS
  <2>2. \A n \in 1..N : n \in 1..(N + 1) /\ n + 1 \in 1..(N + 1)
    OBVIOUS
  <2> QED
    BY <1>8, <1>9, <1>10, <2>1, <2>2
<1>12. 1 \in 1..(N + 1)
  OBVIOUS
<1>13. p[1] \in T
  <2> HIDE DEF p
  <2>1. \A n \in 1..(N + 1) : p[n] \in T
    BY ONLY <1>11, N \in Nat, DownIn
  <2> QED
    BY <1>12, <2>1
<1>14. Right(1)
  BY <1>10, <1>12, <1>13
<1>15. g[1] = got
  BY <1>1, <1>5, <1>7, <1>12
<1> QED
  BY <1>1, <1>4, <1>14, <1>15 DEF Right

LEMMA WholeIsRead ==
    ASSUME NEW E \in Seq(STRING), NEW n, n = Len(E), n # 0
    PROVE  Recvn(E, n).content = E /\ Recvn(E, n).rest = <<>>
<1>1. n \in Nat
  BY LenProperties
<1>2. ~(n = 0 \/ Len(E) < n)
  BY <1>1
<1>3. SubSeq(E, 1, n) = E
  BY SubSeqFull
<1>4. Behind(E, n) = <<>>
  <2>1. Behind(E, n) \in Seq(STRING) /\ Len(Behind(E, n)) = n - n
    BY <1>1, SeqBehind
  <2> QED
    BY <1>1, <2>1, EmptySeq
<1> QED
  BY <1>2, <1>3, <1>4 DEF Recvn

\* The body of a response whose header is written in the usual way is read whole, and
\* to its end unless its chunks have a trailer.
LEMMA UsualIsWhole ==
    ASSUME NEW k \in DOMAIN Responses, Usual(Responses[k]), Analysed[k].valid, Received[k].ok
    PROVE  /\ k \in Whole
           /\ Responses[k].trailer = <<>> => Received[k].rest = <<>>
<1>1. PICK r : r = Responses[k]
  OBVIOUS
<1>2. Analysed[k].length = Framing(r)
  BY <1>1, UsualIsAnalysed DEF Analysed
<1>3. PICK got : got = Received[k]
  OBVIOUS
<1>4. got = Recv(Sent[k], Framing(r))
  BY <1>2, <1>3 DEF Received
<1>5. CASE Framing(r) = Chunks
  <2>1. got = RecvByChunk[ChunkCoded(r)]
    BY <1>1, <1>4, <1>5 DEF Recv, Sent
  <2>2. /\ got.ok => got.content = Entity(Responses[k])
        /\ Responses[k].trailer = <<>> => got.rest = <<>>
    BY <1>1, <2>1, ChunksAreRead
  <2> QED
    BY <1>3, <2>2 DEF Whole
<1>6. CASE Framing(r) # Chunks
  <2>1. PICK E : E = Entity(r)
    OBVIOUS
  <2>2. E \in Seq(STRING)
    <3>1. r.chunks \in Seq(ChunkSet)
      BY <1>1, BodiesType DEF ChunkSet
    <3>2. PICK d : EntityFrom(d, r) /\ Entity(r) = d[1]
      BY <3>1, EntityIs
    <3>3. 1 \in 1..(Len(r.chunks) + 1)
      BY <3>1, LenProperties
    <3> QED
      BY <2>1, <3>2, <3>3 DEF EntityFrom
  <2>3. PICK n \in Nat : n = Len(E)
    BY <2>2, LenProperties
  <2>4. Framing(r) = n
    BY <1>1, <1>6, <2>1, <2>3, LengthsAreTrue
  <2>5. got = IF n > 0 THEN Recvn(E, n) ELSE Broken
    BY <1>1, <1>4, <1>6, <2>1, <2>4 DEF Recv, Sent
  <2>6. n # 0 /\ n > 0
    <3>1. got.ok /\ ~Broken.ok
      BY <1>3 DEF Broken
    <3>2. n > 0
      BY <2>5, <3>1
    <3> QED
      BY <2>3, <3>2
  <2>7. Recvn(E, n).content = E /\ Recvn(E, n).rest = <<>>
    <3>1. n = Len(E) /\ n # 0
      BY <2>3, <2>6
    <3> QED
      BY ONLY <2>2, <3>1, WholeIsRead
  <2>8. got.content = E /\ got.rest = <<>>
    BY <2>5, <2>6, <2>7
  <2> QED
    BY <1>1, <1>3, <2>1, <2>8 DEF Whole
<1> QED
  BY <1>5, <1>6

-------------------------------------------------------------------------------
(* Between a head and the next there is the body, whole, or nothing. *)

IsSeq(st) == \E S : st \in Seq(S)
Piece(u, r) == [is |-> "bytes", of |-> u, text |-> Sent[r]]
Begins(st, i) == i > Len(st) \/ st[i].is = "head"
BodyAt(st, u, r, i) ==
    IF Sent[r] = <<>> THEN Begins(st, i)
    ELSE i <= Len(st) /\ st[i] = Piece(u, r) /\ Begins(st, i + 1)
Framed(st) ==
    /\ IsSeq(st)
    /\ \A i \in 1..Len(st) : st[i].is = "head" =>
           st[i].r \in Kinds /\ BodyAt(st, st[i].of, st[i].r, i + 1)

\* The end of st, behind its first d pieces.
EndOf(q, st, d) ==
    /\ Len(q) \in Nat /\ Len(st) = Len(q) + d
    /\ \A i \in 1..Len(q) : q[i] = st[i + d]

LEMMA EndBegins ==
    ASSUME NEW q, NEW st, NEW d \in Nat, EndOf(q, st, d), NEW i \in Nat \ {0}
    PROVE  Begins(q, i) <=> Begins(st, i + d)
<1>1. i > Len(q) <=> i + d > Len(st)
  BY DEF EndOf
<1>2. ~(i > Len(q)) => q[i] = st[i + d]
  BY DEF EndOf
<1> QED
  BY <1>1, <1>2 DEF Begins

LEMMA EndHasBody ==
    ASSUME NEW q, NEW st, NEW d \in Nat, EndOf(q, st, d), NEW i \in Nat \ {0}, NEW u, NEW r
    PROVE  BodyAt(q, u, r, i) <=> BodyAt(st, u, r, i + d)
<1>1. Begins(q, i) <=> Begins(st, i + d)
  BY EndBegins
<1>2. Begins(q, i + 1) <=> Begins(st, (i + d) + 1)
  <2>1. i + 1 \in Nat \ {0} /\ (i + 1) + d = (i + d) + 1
    OBVIOUS
  <2>2. Begins(q, i + 1) <=> Begins(st, (i + 1) + d)
    BY <2>1, EndBegins
  <2> QED
    BY <2>1, <2>2
<1>3. i <= Len(q) <=> i + d <= Len(st)
  BY DEF EndOf
<1>4. i <= Len(q) => q[i] = st[i + d]
  BY DEF EndOf
<1> QED
  BY <1>1, <1>2, <1>3, <1>4 DEF BodyAt

LEMMA EndIsFramed ==
    ASSUME NEW q, IsSeq(q), NEW st, NEW d \in Nat, EndOf(q, st, d), Framed(st)
    PROVE  Framed(q)
<1> SUFFICES ASSUME NEW i \in 1..Len(q), q[i].is = "head"
             PROVE  q[i].r \in Kinds /\ BodyAt(q, q[i].of, q[i].r, i + 1)
  BY DEF Framed
<1>1. q[i] = st[i + d] /\ i + d \in 1..Len(st) /\ i + 1 \in Nat \ {0} /\ (i + d) + 1 = (i + 1) + d
  BY DEF EndOf
<1>2. q[i].r \in Kinds /\ BodyAt(st, q[i].of, q[i].r, (i + d) + 1)
  BY <1>1 DEF Framed
<1>3. BodyAt(st, q[i].of, q[i].r, (i + 1) + d)
  BY <1>1, <1>2
<1> QED
  BY <1>1, <1>2, <1>3, EndHasBody

LEMMA RestIsEnd ==
    ASSUME NEW st, IsSeq(st), NEW m \in Nat, m <= Len(st),
           NEW q, q = SubSeq(st, m + 1, Len(st))
    PROVE  IsSeq(q) /\ EndOf(q, st, m)
<1>1. PICK S : st \in Seq(S)
  BY DEF IsSeq
<1>2. PICK N \in Nat : N = Len(st)
  BY <1>1, LenProperties
<1>3. \A i \in (m + 1)..N : st[i] \in S
  BY <1>1, <1>2, ElementOfSeq
<1>4. /\ q \in Seq(S)
      /\ Len(q) = IF m + 1 <= N THEN N - (m + 1) + 1 ELSE 0
      /\ \A i \in 1..(N - (m + 1) + 1) : q[i] = st[(m + 1) + i - 1]
  BY <1>1, <1>2, <1>3, SubSeqProperties
<1>5. Len(q) = N - m
  BY <1>2, <1>4
<1>6. \A i \in 1..Len(q) : q[i] = st[i + m]
  <2> SUFFICES ASSUME NEW i \in 1..Len(q) PROVE q[i] = st[i + m]
    OBVIOUS
  <2>1. i \in 1..(N - (m + 1) + 1) /\ (m + 1) + i - 1 = i + m
    BY <1>5
  <2> QED
    BY <1>4, <2>1
<1>7. IsSeq(q)
  BY <1>4 DEF IsSeq
<1> QED
  BY <1>2, <1>5, <1>6, <1>7 DEF EndOf

LEMMA NothingIsFramed == IsSeq(<<>>) /\ Framed(<<>>)
<1>1. <<>> \in Seq({}) /\ Len(<<>>) = 0
  OBVIOUS
<1>2. IsSeq(<<>>)
  BY <1>1 DEF IsSeq
<1>3. 1..Len(<<>>) = {}
  BY <1>1
<1> QED
  BY <1>2, <1>3 DEF Framed

LEMMA ConcatIs ==
    ASSUME NEW a, IsSeq(a), NEW b, IsSeq(b), NEW st, st = a \o b
    PROVE  /\ IsSeq(st) /\ Len(a) \in Nat /\ EndOf(b, st, Len(a))
           /\ \A i \in 1..Len(a) : st[i] = a[i]
<1>1. PICK S, T : a \in Seq(S) /\ b \in Seq(T)
  BY DEF IsSeq
<1>2. PICK V : V = S \cup T
  OBVIOUS
<1>3. a \in Seq(V) /\ b \in Seq(V)
  BY <1>1, <1>2, SeqMonotonic
<1>4. /\ st \in Seq(V) /\ Len(st) = Len(a) + Len(b)
      /\ \A i \in 1..Len(a) : st[i] = a[i]
      /\ \A i \in 1..Len(b) : st[Len(a) + i] = b[i]
  BY <1>3, TwoAre
<1>5. Len(a) \in Nat /\ Len(b) \in Nat
  BY <1>3, LenProperties
<1>6. \A i \in 1..Len(b) : Len(a) + i = i + Len(a)
  BY <1>5
<1>7. EndOf(b, st, Len(a))
  BY <1>4, <1>5, <1>6 DEF EndOf
<1> QED
  BY <1>4, <1>5, <1>7 DEF IsSeq

LEMMA ConcatNothing == ASSUME NEW q, IsSeq(q) PROVE <<>> \o q = q /\ q \o <<>> = q
<1>1. PICK S : q \in Seq(S)
  BY DEF IsSeq
<1> QED
  BY <1>1, ConcatEmptySeq

LEMMA OneIsSeq == ASSUME NEW x PROVE IsSeq(<<x>>) /\ Len(<<x>>) = 1 /\ <<x>>[1] = x
<1>1. <<x>> \in Seq({x})
  OBVIOUS
<1> QED
  BY <1>1 DEF IsSeq

\* What is in front of an end.
LEMMA FrontIsFramed ==
    ASSUME NEW q, Framed(q), NEW st, IsSeq(st), NEW d \in Nat, EndOf(q, st, d),
           \A i \in 1..d : st[i].is = "head" =>
               st[i].r \in Kinds /\ BodyAt(st, st[i].of, st[i].r, i + 1)
    PROVE  Framed(st)
<1> SUFFICES ASSUME NEW i \in 1..Len(st), st[i].is = "head"
             PROVE  st[i].r \in Kinds /\ BodyAt(st, st[i].of, st[i].r, i + 1)
  BY DEF Framed
<1>1. CASE i <= d
  <2>1. i \in 1..d
    BY <1>1 DEF EndOf
  <2> QED
    BY <2>1
<1>2. CASE ~(i <= d)
  <2>1. i - d \in Nat
    BY <1>2 DEF EndOf
  <2> DEFINE j == i - d
  <2>2. /\ j \in 1..Len(q) /\ q[j] = st[i] /\ j + 1 \in Nat \ {0}
        /\ (j + 1) + d = i + 1
    <3>1. j \in Nat /\ j + d = i /\ j >= 1 /\ j <= Len(q)
      BY <1>2, <2>1 DEF EndOf
    <3> HIDE DEF j
    <3>2. j + 1 \in Nat \ {0} /\ (j + 1) + d = (j + d) + 1
      BY <3>1
    <3>3. j \in 1..Len(q)
      BY <3>1 DEF EndOf
    <3>4. q[j] = st[j + d]
      BY <3>3 DEF EndOf
    <3> QED
      BY <3>1, <3>2, <3>3, <3>4
  <2> HIDE DEF j
  <2>3. st[i].r \in Kinds /\ BodyAt(q, st[i].of, st[i].r, j + 1)
    BY <2>2 DEF Framed
  <2>4. BodyAt(st, st[i].of, st[i].r, (j + 1) + d)
    BY <2>2, <2>3, EndHasBody
  <2> QED
    BY <2>2, <2>3, <2>4
<1> QED
  BY <1>1, <1>2

LEMMA BytesAreSeq ==
    ASSUME NEW u, NEW text
    PROVE  /\ IsSeq(Bytes(u, text)) /\ Len(Bytes(u, text)) \in {0, 1}
           /\ \A i \in 1..Len(Bytes(u, text)) : Bytes(u, text)[i].is # "head"
<1>1. PICK b : b = [is |-> "bytes", of |-> u, text |-> text]
  OBVIOUS
<1>2. b.is # "head"
  BY <1>1
<1>3. Len(<<>>) = 0
  OBVIOUS
<1>4. CASE text = <<>>
  BY <1>3, <1>4, NothingIsFramed DEF Bytes
<1>5. CASE text # <<>>
  <2>1. Bytes(u, text) = <<b>>
    BY <1>1, <1>5 DEF Bytes
  <2> QED
    BY <1>2, <2>1, OneIsSeq
<1> QED
  BY <1>4, <1>5

LEMMA BytesInFront ==
    ASSUME NEW u, NEW text, NEW q, Framed(q)
    PROVE  Framed(Bytes(u, text) \o q)
<1>1. PICK b : b = Bytes(u, text)
  OBVIOUS
<1>2. PICK st : st = b \o q
  OBVIOUS
<1>3. IsSeq(b) /\ Len(b) \in {0, 1} /\ \A i \in 1..Len(b) : b[i].is # "head"
  BY <1>1, BytesAreSeq
<1>4. IsSeq(q)
  BY DEF Framed
<1>5. /\ IsSeq(st) /\ EndOf(q, st, Len(b))
      /\ \A i \in 1..Len(b) : st[i] = b[i]
  BY <1>2, <1>3, <1>4, ConcatIs
<1>6. Len(b) \in Nat
  BY <1>3
<1>7. Framed(st)
  BY <1>3, <1>5, <1>6, FrontIsFramed
<1> QED
  BY <1>1, <1>2, <1>7

\* A server that answers goes on behind what it has sent.
LEMMA AnswerIsFramed ==
    ASSUME NEW st, Framed(st), NEW u, NEW r \in Kinds
    PROVE  Framed((st \o <<HeadOf(u, r)>>) \o Bytes(u, Sent[r]))
<1>1. PICK h : h = HeadOf(u, r)
  OBVIOUS
<1>2. h.is = "head" /\ h.of = u /\ h.r = r
  BY <1>1 DEF HeadOf
<1>3. PICK b : b = Bytes(u, Sent[r])
  OBVIOUS
<1>4. IsSeq(b)
  BY <1>3, BytesAreSeq
<1>5. PICK one : one = <<h>>
  OBVIOUS
<1>6. IsSeq(one) /\ Len(one) = 1 /\ one[1] = h
  BY <1>5, OneIsSeq
<1>7. PICK s : s = st \o one
  OBVIOUS
<1>8. PICK q : q = s \o b
  OBVIOUS
<1>9. IsSeq(st)
  BY DEF Framed
<1>10. /\ IsSeq(s) /\ Len(st) \in Nat /\ EndOf(one, s, Len(st))
       /\ \A i \in 1..Len(st) : s[i] = st[i]
  BY <1>6, <1>7, <1>9, ConcatIs
<1>11. /\ IsSeq(q) /\ Len(s) \in Nat /\ EndOf(b, q, Len(s))
       /\ \A i \in 1..Len(s) : q[i] = s[i]
  BY <1>4, <1>8, <1>10, ConcatIs
<1> DEFINE N == Len(st)
<1>12. Len(s) = N + 1 /\ s[N + 1] = h
  <2>1. 1 \in 1..Len(one) /\ 1 + N = N + 1
    BY <1>6, <1>10
  <2> QED
    BY <1>6, <1>10, <2>1 DEF EndOf
<1>13. /\ N \in Nat /\ Len(q) = N + 1 + Len(b) /\ Len(b) \in Nat
       /\ \A i \in 1..N : q[i] = st[i]
       /\ q[N + 1] = h
  <2>1. Len(q) = (N + 1) + Len(b) /\ Len(b) \in Nat
    BY <1>11, <1>12 DEF EndOf
  <2>2. q[N + 1] = h
    BY <1>10, <1>11, <1>12
  <2>3. \A i \in 1..N : q[i] = st[i]
    BY <1>10, <1>11, <1>12
  <2> QED
    BY <1>10, <2>1, <2>2, <2>3
<1>14. BodyAt(q, u, r, (N + 1) + 1)
  <2>1. CASE Sent[r] = <<>>
    <3>1. b = <<>> /\ Len(<<>>) = 0
      BY <1>3, <2>1 DEF Bytes
    <3>2. (N + 1) + 1 > Len(q)
      BY <1>13, <3>1
    <3> QED
      BY <2>1, <3>2 DEF BodyAt, Begins
  <2>2. CASE Sent[r] # <<>>
    <3>1. b = <<Piece(u, r)>>
      BY <1>3, <2>2 DEF Bytes, Piece
    <3>2. Len(b) = 1 /\ b[1] = Piece(u, r)
      BY <3>1, OneIsSeq
    <3>3. 1 \in 1..Len(b) /\ 1 + Len(s) = (N + 1) + 1
      BY <1>12, <1>13, <3>2
    <3>4. q[(N + 1) + 1] = Piece(u, r)
      BY <1>11, <3>2, <3>3 DEF EndOf
    <3>5. (N + 1) + 1 <= Len(q) /\ ((N + 1) + 1) + 1 > Len(q)
      BY <1>13, <3>2
    <3> QED
      BY <2>2, <3>4, <3>5 DEF BodyAt, Begins
  <2> QED
    BY <2>1, <2>2
<1> HIDE DEF N
<1>15. \A i \in 1..N : Begins(st, i + 1) => Begins(q, i + 1)
  <2> SUFFICES ASSUME NEW i \in 1..N, Begins(st, i + 1) PROVE Begins(q, i + 1)
    OBVIOUS
  <2>1. CASE i = N
    BY <1>2, <1>13, <2>1 DEF Begins
  <2>2. CASE i # N
    <3>1. i + 1 \in 1..N /\ ~(i + 1 > N)
      BY <1>13, <2>2
    <3> QED
      BY <1>13, <3>1 DEF Begins, N
  <2> QED
    BY <2>1, <2>2
<1>16. ASSUME NEW i \in 1..N, st[i].is = "head"
       PROVE  q[i].r \in Kinds /\ BodyAt(q, q[i].of, q[i].r, i + 1)
  <2>1. q[i] = st[i]
    BY <1>13
  <2>2. st[i].r \in Kinds /\ BodyAt(st, st[i].of, st[i].r, i + 1)
    BY <1>16 DEF Framed, N
  <2>3. CASE Sent[st[i].r] = <<>>
    BY <1>15, <2>1, <2>2, <2>3 DEF BodyAt
  <2>4. CASE Sent[st[i].r] # <<>>
    <3>1. i + 1 <= N /\ st[i + 1] = Piece(st[i].of, st[i].r) /\ Begins(st, (i + 1) + 1)
      BY <2>2, <2>4 DEF BodyAt, N
    <3>2. i + 1 \in 1..N
      BY <1>13, <3>1
    <3>3. q[i + 1] = st[i + 1] /\ i + 1 <= Len(q) /\ Begins(q, (i + 1) + 1)
      BY <1>13, <1>15, <3>1, <3>2
    <3> QED
      BY <2>1, <2>2, <2>4, <3>1, <3>3 DEF BodyAt
  <2> QED
    BY <2>3, <2>4
<1>17. ASSUME NEW i \in (N + 2)..Len(q) PROVE q[i].is # "head"
  <2> DEFINE j == i - (N + 1)
  <2>1. j \in 1..Len(b) /\ j + (N + 1) = i
    BY <1>13, <1>17
  <2> HIDE DEF j
  <2>2. j \in 1..Len(b) /\ j + Len(s) = i
    BY <1>12, <2>1 DEF N
  <2>3. q[i] = b[j]
    BY <1>11, <2>2 DEF EndOf
  <2> QED
    BY <1>3, <2>2, <2>3, BytesAreSeq
<1>18. ASSUME NEW i \in 1..Len(q), q[i].is = "head"
       PROVE  q[i].r \in Kinds /\ BodyAt(q, q[i].of, q[i].r, i + 1)
  <2>1. i \in 1..N \/ i = N + 1 \/ i \in (N + 2)..Len(q)
    BY <1>13
  <2>2. CASE i \in 1..N
    <3>1. st[i].is = "head"
      BY <1>13, <1>18, <2>2
    <3> QED
      BY <1>16, <2>2, <3>1
  <2>3. CASE i = N + 1
    BY <1>2, <1>13, <1>14, <2>3
  <2> QED
    BY <1>17, <1>18, <2>1, <2>2, <2>3
<1>19. Framed(q)
  BY <1>11, <1>18 DEF Framed
<1> QED
  BY <1>1, <1>3, <1>5, <1>7, <1>8, <1>19

\* Everything in a connection is framed, and behind the header at hand is its body.
Frames ==
    /\ stream = [f \in Fds |-> stream[f]]
    /\ \A f \in Fds : Framed(stream[f])
HeadFramed ==
    /\ pc \in {"analyse", "body"} /\ head.is = "head" =>
           head.r \in Kinds /\ BodyAt(stream[fd], head.of, head.r, 1)
    /\ pc = "body" => Read.valid
FrameInv == Frames /\ HeadFramed

LEMMA WritingKeepsFrames ==
    ASSUME Frames, NEW f, NEW st, Framed(st), stream' = [stream EXCEPT ![f] = st]
    PROVE  Frames'
<1>1. stream' = [g \in Fds |-> stream'[g]]
  BY DEF Frames
<1>2. \A g \in Fds : stream'[g] = IF g = f THEN st ELSE stream[g]
  BY DEF Frames
<1> QED
  BY <1>1, <1>2 DEF Frames

LEMMA ClosingKeepsFrames ==
    ASSUME Frames, NEW f, CloseConnection(f)
    PROVE  Frames'
<1>1. \E st : Framed(st) /\ stream' = [stream EXCEPT ![f] = st]
  BY NothingIsFramed DEF CloseConnection
<1> QED
  BY <1>1, WritingKeepsFrames

LEMMA NoHeaderKeepsFrames ==
    ASSUME Frames', pc' \notin {"analyse", "body"}
    PROVE  FrameInv'
BY DEF FrameInv, HeadFramed

LEMMA SendKeepsFrames == ASSUME Frames, IInv, Send PROVE FrameInv'
<1>1. fd \in Fds /\ pc' = "header"
  BY HandKnown DEF Send, Connected
<1>2. PICK r \in Kinds :
          stream' = [stream EXCEPT ![fd] =
              stream[fd] \o <<HeadOf(cur, r)>> \o Bytes(cur, Sent[r])]
  BY DEF Send
<1>3. Framed(stream[fd] \o <<HeadOf(cur, r)>> \o Bytes(cur, Sent[r]))
  BY <1>1, AnswerIsFramed DEF Frames
<1>4. Frames'
  BY <1>2, <1>3, WritingKeepsFrames
<1> QED
  BY <1>1, <1>4, NoHeaderKeepsFrames

\* recv_http_response_header, wherever it stops, leaves what is framed; if it has read the
\* header of a response, the body of it comes next.
LEMMA BehindIsFramed ==
    ASSUME NEW st, Framed(st), \E i \in 1..Len(st) : Stops(st[i])
    PROVE  /\ HeaderSpan(st) \in 1..Len(st) /\ Framed(BehindHeader(st))
           /\ st[1].is = "head" =>
                  st[1].r \in Kinds /\ BodyAt(BehindHeader(st), st[1].of, st[1].r, 1)
<1>1. IsSeq(st) /\ Len(st) \in Nat
  BY LenProperties DEF Framed, IsSeq
<1>2. PICK n : n = HeaderSpan(st)
  OBVIOUS
<1>3. n \in 1..Len(st) /\ \A i \in 1..(n - 1) : ~Stops(st[i])
  <2> DEFINE T == {i \in 1..Len(st) : Stops(st[i])}
  <2>1. T \in SUBSET Nat /\ T # {}
    BY <1>1
  <2>2. PICK m \in T : \A i \in T : m <= i
    <3> HIDE DEF T
    <3> QED
      BY <2>1, LeastIs
  <2>3. m \in 1..Len(st) /\ Stops(st[m]) /\ \A i \in 1..(m - 1) : ~Stops(st[i])
    BY <1>1, <2>2
  <2> QED
    BY <1>2, <2>3 DEF HeaderSpan
<1>4. PICK q : q = SubSeq(st, n + 1, Len(st))
  OBVIOUS
<1>5. n \in Nat /\ n <= Len(st)
  BY <1>1, <1>3
<1>6. IsSeq(q) /\ EndOf(q, st, n)
  BY <1>1, <1>4, <1>5, RestIsEnd
<1>7. Framed(q)
  BY <1>5, <1>6, EndIsFramed
<1>8. /\ st[n].is = "head" => BehindHeader(st) = <<>> \o q
      /\ st[n].is # "head" => BehindHeader(st) =
             Bytes(st[n].of, Behind(st[n].text, Min(HeaderEnds(st[n].text)))) \o q
  BY <1>2, <1>4 DEF BehindHeader
<1>9. st[n].is = "head" => BehindHeader(st) = q
  BY <1>6, <1>8, ConcatNothing
<1>10. Framed(BehindHeader(st))
  <2>1. CASE st[n].is = "head"
    BY <1>7, <1>9, <2>1
  <2>2. CASE st[n].is # "head"
    BY <1>7, <1>8, <2>2, BytesInFront
  <2> QED
    BY <2>1, <2>2
<1>11. ASSUME st[1].is = "head"
       PROVE  st[1].r \in Kinds /\ BodyAt(BehindHeader(st), st[1].of, st[1].r, 1)
  <2>1. Stops(st[1])
    BY <1>11 DEF Stops
  <2>2. n = 1
    BY <1>3, <1>5, <2>1
  <2>3. 1 \in 1..Len(st)
    BY <1>3, <2>2
  <2>4. st[1].r \in Kinds /\ BodyAt(st, st[1].of, st[1].r, 1 + 1)
    BY <1>11, <2>3 DEF Framed
  <2>5. PICK one \in Nat \ {0} : one = 1
    OBVIOUS
  <2>6. BodyAt(st, st[1].of, st[1].r, one + n)
    BY <2>2, <2>4, <2>5
  <2>7. BodyAt(q, st[1].of, st[1].r, one)
    BY <1>5, <1>6, <2>5, <2>6, EndHasBody
  <2> QED
    BY <1>9, <1>11, <2>2, <2>4, <2>5, <2>7
<1> QED
  BY <1>2, <1>3, <1>10, <1>11

LEMMA RecvHeaderKeepsFrames == ASSUME Frames, IInv, RecvHeader PROVE FrameInv'
<1>1. PICK st : st = stream[fd]
  OBVIOUS
<1>2. /\ fd \in Fds /\ fd' = fd /\ pc' = "analyse"
      /\ \E i \in 1..Len(st) : Stops(st[i])
      /\ head' = IF st[1].is = "head" THEN st[1] ELSE Garbage
      /\ stream' = [stream EXCEPT ![fd] = BehindHeader(st)]
  BY <1>1, HandKnown DEF RecvHeader, Connected
<1>3. Framed(st)
  BY <1>1, <1>2 DEF Frames
<1>4. /\ Framed(BehindHeader(st))
      /\ st[1].is = "head" =>
             st[1].r \in Kinds /\ BodyAt(BehindHeader(st), st[1].of, st[1].r, 1)
  BY <1>2, <1>3, BehindIsFramed
<1>5. Frames'
  BY <1>2, <1>4, WritingKeepsFrames
<1>6. stream'[fd'] = BehindHeader(st)
  BY <1>2 DEF Frames
<1>7. HeadFramed'
  BY <1>2, <1>4, <1>6 DEF HeadFramed, Garbage
<1> QED
  BY <1>5, <1>7 DEF FrameInv

LEMMA RecvHeaderTooLongKeepsFrames ==
    ASSUME Frames, IInv, RecvHeaderTooLong
    PROVE  FrameInv'
<1>1. PICK st : st = stream[fd]
  OBVIOUS
<1>2. fd \in Fds /\ pc' = "pop"
  BY HandKnown DEF RecvHeaderTooLong, Connected, Drop, EndIteration
<1>3. Frames'
  <2>1. CASE UNCHANGED stream
    BY <2>1 DEF Frames
  <2>2. CASE ~UNCHANGED stream
    <3>1. PICK n : n = HeaderSpan(st)
      OBVIOUS
    <3>2. /\ \E i \in 1..Len(st) : Stops(st[i])
          /\ stream' = [stream EXCEPT ![fd] =
                 Bytes(st[n].of, EndOfLine \o EndOfLine) \o BehindHeader(st)]
      BY <1>1, <2>2, <3>1 DEF RecvHeaderTooLong
    <3>3. Framed(BehindHeader(st))
      BY <1>1, <1>2, <3>2, BehindIsFramed DEF Frames
    <3>4. Framed(Bytes(st[n].of, EndOfLine \o EndOfLine) \o BehindHeader(st))
      BY <3>3, BytesInFront
    <3> QED
      BY <3>2, <3>4, WritingKeepsFrames
  <2> QED
    BY <2>1, <2>2
<1> QED
  BY <1>2, <1>3, NoHeaderKeepsFrames

LEMMA BehindFirst ==
    ASSUME NEW st, Framed(st), NEW q, q = SubSeq(st, 2, Len(st))
    PROVE  Framed(q) /\ IsSeq(q) /\ (Len(st) > 0 => EndOf(q, st, 1))
<1>1. IsSeq(st) /\ Len(st) \in Nat
  BY LenProperties DEF Framed, IsSeq
<1>2. CASE Len(st) > 0
  <2>1. PICK one \in Nat : one = 1 /\ one <= Len(st) /\ q = SubSeq(st, one + 1, Len(st))
    <3>1. 1 \in Nat /\ 1 + 1 = 2 /\ 1 <= Len(st)
      BY <1>1, <1>2
    <3> QED
      BY <3>1
  <2>2. IsSeq(q) /\ EndOf(q, st, one)
    BY <1>1, <2>1, RestIsEnd
  <2>3. Framed(q)
    BY <2>2, EndIsFramed
  <2> QED
    BY <2>1, <2>2, <2>3
<1>3. CASE ~(Len(st) > 0)
  <2>1. Len(st) = 0
    BY <1>1, <1>3
  <2>2. st = <<>>
    BY <1>1, <2>1, EmptySeq DEF IsSeq
  <2>3. SubSeq(<<>>, 2, 0) = <<>>
    BY SubSeqEmpty
  <2>4. q = <<>>
    BY <2>1, <2>2, <2>3
  <2> QED
    BY <1>3, <2>4, NothingIsFramed
<1> QED
  BY <1>2, <1>3

LEMMA RecvBodyKeepsFrames ==
    ASSUME Frames, IInv, RecvBody
    PROVE  FrameInv'
<1>1. fd \in Fds /\ pc' = "pop"
  BY HandKnown DEF RecvBody, Connected, EndIteration
<1>2. CASE Read.keep
  <2>1. PICK st, q, rest :
            /\ st = stream[fd] /\ q = SubSeq(st, 2, Len(st))
            /\ rest = Received[head.r].rest
    OBVIOUS
  <2>2. stream' = [stream EXCEPT ![fd] = Bytes(head.of, rest) \o q]
    BY <1>2, <2>1 DEF RecvBody
  <2>3. Framed(st)
    BY <1>1, <2>1 DEF Frames
  <2>4. Framed(q)
    BY <2>1, <2>3, BehindFirst
  <2>5. Framed(Bytes(head.of, rest) \o q)
    BY <2>4, BytesInFront
  <2>6. Frames'
    BY <2>2, <2>5, WritingKeepsFrames
  <2> QED
    BY <1>1, <2>6, NoHeaderKeepsFrames
<1>3. CASE ~Read.keep
  BY <1>1, <1>3, ClosingKeepsFrames, NoHeaderKeepsFrames DEF RecvBody
<1> QED
  BY <1>2, <1>3

LEMMA StepKeepsFrames == ASSUME FrameInv, IInv, [Next]_vars PROVE FrameInv'
<1>0. Frames
  BY DEF FrameInv
<1>1. CASE Arrive \/ AnalyseLoops \/ UNCHANGED vars
  <2>1. UNCHANGED <<pc, head, fd, stream>>
    BY <1>1 DEF Arrive, AnalyseLoops, vars
  <2>2. Frames' /\ Read' = Read
    BY <1>0, <2>1 DEF Frames, Read
  <2> QED
    BY <2>1, <2>2 DEF FrameInv, HeadFramed
<1>2. CASE Pop \/ Reuse \/ SetTimeout \/ CreateConnection
  <2>1. UNCHANGED stream /\ pc' \notin {"analyse", "body"}
    BY <1>2 DEF Pop, Reuse, SetTimeout, CreateConnection, NeedsConnection
  <2>2. Frames'
    BY <1>0, <2>1 DEF Frames
  <2> QED
    BY <2>1, <2>2, NoHeaderKeepsFrames
<1>3. CASE CreateConnectionFails \/ CreateConnectionLeaks \/ SetTimeoutFails \/ AnalyseFails
  <2>1. UNCHANGED stream /\ pc' = "pop"
    BY <1>3 DEF CreateConnectionFails, CreateConnectionLeaks, SetTimeoutFails, AnalyseFails,
                Retry, Drop, EndIteration, KeepConnection
  <2>2. Frames'
    BY <1>0, <2>1 DEF Frames
  <2> QED
    BY <2>1, <2>2, NoHeaderKeepsFrames
<1>4. CASE GiveUp \/ SendFails \/ RecvHeaderFails \/ RecvBodyRefused \/ RecvBodyFails
  <2>1. pc' = "pop" /\ (UNCHANGED stream \/ \E f : CloseConnection(f))
    BY <1>4 DEF GiveUp, SendFails, RecvHeaderFails, RecvBodyRefused, RecvBodyFails, Retry, Drop,
                EndIteration, CloseUnlessKept, KeepConnection
  <2>2. Frames'
    <3>1. CASE UNCHANGED stream
      BY <1>0, <3>1 DEF Frames
    <3>2. CASE \E f : CloseConnection(f)
      BY <1>0, <3>2, ClosingKeepsFrames
    <3> QED
      BY <2>1, <3>1, <3>2
  <2> QED
    BY <2>1, <2>2, NoHeaderKeepsFrames
<1>5. CASE Analyse
  <2>1. /\ pc = "analyse" /\ pc' = "body" /\ Read.valid
        /\ UNCHANGED <<fd, head, stream>>
    BY <1>5 DEF Analyse
  <2>2. Frames' /\ Read' = Read
    BY <1>0, <2>1 DEF Frames, Read
  <2> QED
    BY <2>1, <2>2 DEF FrameInv, HeadFramed
<1> QED
  BY <1>0, <1>1, <1>2, <1>3, <1>4, <1>5, SendKeepsFrames, RecvHeaderKeepsFrames,
     RecvHeaderTooLongKeepsFrames, RecvBodyKeepsFrames DEF Next, Loop

LEMMA InitFrames == Init => FrameInv
<1> SUFFICES ASSUME Init PROVE FrameInv
  OBVIOUS
<1>1. Frames
  BY NothingIsFramed DEF Init, Frames
<1> QED
  BY <1>1 DEF Init, FrameInv, HeadFramed

\* A body of no bytes is never received.
LEMMA NothingIsBroken == ASSUME NEW length PROVE ~Recv(<<>>, length).ok
<1>1. ~Broken.ok
  BY DEF Broken
<1>2. PICK text \in Seq(STRING) : text = <<>>
  BY EmptySeq
<1>3. Len(text) = 0 /\ DOMAIN text = {}
  BY <1>2
<1>4. RecvByChunk[text] = Broken
  <2>1. RecvChunkSize(text) = Broken
    BY <1>3 DEF RecvChunkSize
  <2> QED
    BY <1>1, <2>1, RecvByChunkIs DEF NextChunk
<1>5. length > 0 => Recvn(text, length) = Broken
  BY <1>3 DEF Recvn
<1>6. Recv(text, length) = Broken
  BY <1>4, <1>5 DEF Recv
<1> QED
  BY <1>1, <1>2, <1>6

\* The page that comes of a usual response is its body, and what is left in the connection
\* begins with a head.
LEMMA PageIsFramed ==
    ASSUME FrameInv, IInv, RecvBody, Usual(Responses[head.r]), NEW p \in pages' \ pages
    PROVE  /\ p.content = head.of
           /\ Responses[head.r].trailer = <<>> =>
                  stream'[fd] = <<>> \/ Head(stream'[fd]).is = "head"
<1>1. pc = "body" /\ fd \in Fds
  BY HandKnown DEF RecvBody, Connected
<1>2. Read.valid /\ stream = [f \in Fds |-> stream[f]] /\ Framed(stream[fd])
  BY <1>1 DEF FrameInv, HeadFramed, Frames
<1>3. head.is = "head" /\ Read = Analysed[head.r]
  BY <1>2 DEF Read, Fresh
<1>4. PICK r \in Kinds : r = head.r
  BY <1>1, <1>3 DEF FrameInv, HeadFramed
<1>5. BodyAt(stream[fd], head.of, r, 1)
  BY <1>1, <1>3, <1>4 DEF FrameInv, HeadFramed
<1>6. Analysed[r].valid /\ Received[r].ok /\ Usual(Responses[r])
  BY <1>2, <1>3, <1>4 DEF RecvBody
<1>7. /\ r \in Whole
      /\ Responses[r].trailer = <<>> => Received[r].rest = <<>>
  BY <1>4, <1>6, UsualIsWhole DEF Kinds
<1>8. p.content = head.of
  <2>1. Content = head.of
    BY <1>4, <1>7 DEF Content
  <2>2. p = [url |-> cur, content |-> Content]
    BY DEF RecvBody
  <2> QED
    BY <2>1, <2>2
<1>9. Sent[r] # <<>>
  <2>1. Received[r] = Recv(Sent[r], Analysed[r].length)
    BY <1>4 DEF Received, Kinds
  <2> QED
    BY <1>6, <2>1, NothingIsBroken
<1>10. PICK st, q : st = stream[fd] /\ q = SubSeq(st, 2, Len(st))
  OBVIOUS
<1>11. 1 <= Len(st) /\ Begins(st, 1 + 1)
  BY <1>5, <1>9, <1>10, 1 + 1 = 2 DEF BodyAt
<1>12. Framed(st) /\ IsSeq(st) /\ Len(st) \in Nat
  BY <1>2, <1>10, LenProperties DEF Framed, IsSeq
<1>13. IsSeq(q) /\ EndOf(q, st, 1)
  <2>1. Len(st) > 0 /\ q = SubSeq(st, 2, Len(st))
    BY <1>10, <1>11, <1>12
  <2> QED
    BY <1>12, <2>1, BehindFirst
<1>14. q = <<>> \/ Head(q).is = "head"
  <2>1. PICK one \in Nat \ {0} : one = 1 /\ EndOf(q, st, one) /\ Begins(st, one + one)
    BY <1>11, <1>13
  <2>2. Begins(q, one)
    BY <2>1, EndBegins
  <2>3. PICK S : q \in Seq(S)
    BY <1>13 DEF IsSeq
  <2>4. CASE one > Len(q)
    <3>1. Len(q) = 0
      BY <2>1, <2>3, <2>4, LenProperties
    <3> QED
      BY <2>3, <3>1, EmptySeq
  <2>5. CASE q[1].is = "head" /\ ~(one > Len(q))
    <3>1. q # <<>>
      BY <2>1, <2>5
    <3>2. Head(q) = q[1]
      BY <2>3, <3>1
    <3> QED
      BY <2>5, <3>2
  <2> QED
    BY <2>1, <2>2, <2>4, <2>5 DEF Begins
<1>15. ASSUME Responses[r].trailer = <<>>
       PROVE  stream'[fd] = <<>> \/ stream'[fd] = q
  <2>1. CASE Read.keep
    <3>1. Bytes(head.of, Received[head.r].rest) = <<>>
      BY <1>4, <1>7, <1>15 DEF Bytes
    <3>2. stream' = [stream EXCEPT ![fd] = Bytes(head.of, Received[head.r].rest) \o q]
      BY <1>10, <2>1 DEF RecvBody
    <3>3. <<>> \o q = q
      BY <1>13, ConcatNothing
    <3>4. stream'[fd] = Bytes(head.of, Received[head.r].rest) \o q
      BY <1>1, <1>2, <3>2
    <3> QED
      BY <3>1, <3>3, <3>4
  <2>2. CASE ~Read.keep
    <3>1. stream' = [stream EXCEPT ![fd] = <<>>]
      BY <2>2 DEF RecvBody, CloseConnection
    <3> QED
      BY <1>1, <1>2, <3>1
  <2> QED
    BY <2>1, <2>2
<1> QED
  BY <1>4, <1>8, <1>14, <1>15

\* Only recv_http_response_body makes pages.
LEMMA OthersMakeNoPage == ASSUME [Next]_vars, ~RecvBody PROVE pages' = pages
<1>1. CASE Arrive \/ Pop \/ GiveUp \/ Reuse \/ CreateConnection \/ CreateConnectionFails
           \/ CreateConnectionLeaks \/ SetTimeout \/ SetTimeoutFails
  BY <1>1 DEF Arrive, Pop, GiveUp, Reuse, CreateConnection, CreateConnectionFails,
       CreateConnectionLeaks, SetTimeout, SetTimeoutFails, Retry, Drop
<1>2. CASE Send \/ SendFails \/ RecvHeader \/ RecvHeaderTooLong \/ RecvHeaderFails
           \/ Analyse \/ AnalyseFails
  BY <1>2 DEF Send, SendFails, RecvHeader, RecvHeaderTooLong, RecvHeaderFails, Analyse,
       AnalyseFails, Retry, Drop
<1>3. CASE AnalyseLoops \/ RecvBodyRefused \/ RecvBodyFails \/ UNCHANGED vars
  BY <1>3 DEF AnalyseLoops, RecvBodyRefused, RecvBodyFails, Retry, Drop, vars
<1> QED
  BY <1>1, <1>2, <1>3 DEF Next, Loop

\* HttpResponseHeader::analysis and recv_http_response_body: whatever responses come, the
\* page of one whose header is written in the usual way is the body of it, whole, read by
\* Content-Length or in chunks, and the connection is left at the head of the next answer,
\* unless the chunks have a trailer.
THEOREM BodiesStayFramed == Spec => BodiesAreFramed
<1> DEFINE Right ==
        \A p \in pages' \ pages :
            Usual(Responses[head.r]) =>
                /\ p.content = head.of
                /\ Responses[head.r].trailer = <<>> =>
                       stream'[fd] = <<>> \/ Head(stream'[fd]).is = "head"
<1>1. IInv /\ FrameInv /\ [Next]_vars => FrameInv'
  BY StepKeepsFrames
<1>2. IInv /\ FrameInv /\ [Next]_vars => [Right]_vars
  <2> SUFFICES ASSUME IInv, FrameInv, [Next]_vars PROVE Right
    OBVIOUS
  <2>1. CASE RecvBody
    BY <2>1, PageIsFramed
  <2>2. CASE ~RecvBody
    BY <2>2, OthersMakeNoPage
  <2> QED
    BY <2>1, <2>2
<1> QED
  BY <1>1, <1>2, InitFrames, DownloaderInvariant, PTL DEF Spec, BodiesAreFramed
===============================================================================
