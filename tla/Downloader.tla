------------------------------ MODULE Downloader ------------------------------
(***************************************************************************)
(* One downloader thread (downloader_task.cc): its url queue, the sockets  *)
(* it keeps per site, the retries, the header buffer it borrows from the   *)
(* memory pool, and the pages it hands to the extractors.  Downloaders     *)
(* share no state but the queues, so one is modelled; the scheduler that   *)
(* feeds it and the servers it talks to are the environment.               *)
(*                                                                         *)
(* What a server sends is a sequence of pieces: the head of a response and *)
(* bytes, of its body or of what was left of either.                       *)
(* Every url a scheduler passes on is DNSED, has an address and a site, so *)
(* the branches of main_loop, create_connection, generate_http_request and *)
(* send_http_request that test for the contrary are not taken.             *)
(***************************************************************************)
EXTENDS Naturals, Sequences, FiniteSets, Body

CONSTANTS
    Urls, Sites, Fds,
    Arrivals,               \* the urls in the order in which the scheduler pushes them
    SiteOf,                 \* the host of a Url; ports are left out
    MaxRetries,             \* MAX_NUM_OF_RETRIES
    NoUrl, NoFd, NoSite

ASSUME ArrivalsType == Arrivals \in Seq(Urls)
ASSUME EachArrivesOnce == \A i, j \in 1..Len(Arrivals) : Arrivals[i] = Arrivals[j] => i = j
ASSUME SiteOfType == SiteOf \in [Urls -> Sites]
ASSUME MaxRetriesType == MaxRetries \in Nat
ASSUME NoUrlIsNoUrl == NoUrl \notin Urls
ASSUME NoFdIsNoFd == NoFd \notin Fds
ASSUME NoSiteIsNoSite == NoSite \notin Sites

\* Of a response, besides the lines of its header and what its body is made of: whether
\* its status line is one of HTTP/1.x, whether the status is 200, whether the header has
\* MAX_HEADER_SIZE bytes or more.
Flags == {"http", "ok", "long"}
Kinds == DOMAIN Responses
ASSUME ResponsesHaveFlags == \A k \in Kinds, f \in Flags : Responses[k][f] \in BOOLEAN

VARIABLES
    coming,     \* urls the scheduler has not pushed yet
    urlq,       \* _url_queue
    retries,    \* Url::_retries
    pc, cur,    \* where main_loop is, and url_p
    fd,         \* the descriptor in hand
    conn,       \* _sock_fd_map
    open,       \* descriptors the kernel has open
    peer,       \* the site a descriptor was connected to
    leaked,     \* history: descriptors that a failing fcntl left open
    stream,     \* what is still to be read from a descriptor
    head,       \* the header just read
    buffers,    \* header buffers borrowed from the memory pool
    pages,      \* pages pushed to the extractors
    dropped     \* urls given up

vars == <<coming, urlq, retries, pc, cur, fd, conn, open, peer, leaked, stream,
          head, buffers, pages, dropped>>

Elements(seq) == {seq[i] : i \in 1..Len(seq)}

\* Pieces of a stream: a head, or bytes if there are any.
HeadOf(u, r) == [is |-> "head", of |-> u, r |-> r]
Bytes(u, text) == IF text = <<>> THEN <<>> ELSE <<[is |-> "bytes", of |-> u, text |-> text]>>
Garbage == [is |-> "garbage"]

Init ==
    /\ coming = Arrivals
    /\ urlq = <<>>
    /\ retries = [u \in Urls |-> 0]
    /\ pc = "pop"
    /\ cur = NoUrl
    /\ fd = NoFd
    /\ conn = [s \in Sites |-> NoFd]
    /\ open = {}
    /\ peer = [f \in Fds |-> NoSite]
    /\ leaked = {}
    /\ stream = [f \in Fds |-> <<>>]
    /\ head = Garbage
    /\ buffers = 0
    /\ pages = {}
    /\ dropped = {}

site == SiteOf[cur]

\* A scheduler pushes a url.
Arrive ==
    /\ coming # <<>>
    /\ coming' = Tail(coming)
    /\ urlq' = Append(urlq, Head(coming))
    /\ UNCHANGED <<retries, pc, cur, fd, conn, open, peer, leaked, stream, head,
                   buffers, pages, dropped>>

-------------------------------------------------------------------------------
(* The ways an iteration of main_loop ends. *)

EndIteration ==
    /\ pc' = "pop"
    /\ cur' = NoUrl
    /\ fd' = NoFd
    /\ head' = Garbage
    /\ UNCHANGED coming

\* Mutant: the retry is not counted.
RetryUncounted ==
    /\ EndIteration
    /\ urlq' = Append(urlq, cur)
    /\ UNCHANGED <<retries, pages, dropped>>

\* Mutant: the url is not pushed back.
RetryForgets ==
    /\ EndIteration
    /\ retries' = [retries EXCEPT ![cur] = @ + 1]
    /\ UNCHANGED <<urlq, pages, dropped>>

\* inc_retries and push the url back to the own queue.
Retry ==
    /\ EndIteration
    /\ retries' = [retries EXCEPT ![cur] = @ + 1]
    /\ urlq' = Append(urlq, cur)
    /\ UNCHANGED <<pages, dropped>>

Drop ==
    /\ EndIteration
    /\ dropped' = dropped \cup {cur}
    /\ UNCHANGED <<retries, urlq, pages>>

\* Mutant: the socket is closed but stays in the map.
CloseOnly(f) ==
    /\ open' = open \ {f}
    /\ stream' = [stream EXCEPT ![f] = <<>>]
    /\ UNCHANGED <<conn, peer, leaked>>

\* Mutant: the socket leaves the map but is not closed.
EraseOnly(f) ==
    /\ conn' = [conn EXCEPT ![site] = NoFd]
    /\ UNCHANGED <<open, stream, peer, leaked>>

\* close(f) and _sock_fd_map.erase(site)
CloseConnection(f) ==
    /\ open' = open \ {f}
    /\ stream' = [stream EXCEPT ![f] = <<>>]
    /\ conn' = [conn EXCEPT ![site] = NoFd]
    /\ UNCHANGED <<peer, leaked>>

KeepConnection == UNCHANGED <<conn, open, peer, leaked, stream>>

-------------------------------------------------------------------------------
(* Fetching a url and a connection for it. *)

Pop ==
    /\ pc = "pop"
    /\ urlq # <<>>
    /\ cur' = Head(urlq)
    /\ urlq' = Tail(urlq)
    /\ pc' = "admit"
    /\ UNCHANGED <<coming, retries, fd, conn, open, peer, leaked, stream, head,
                   buffers, pages, dropped>>

GiveUp ==
    /\ pc = "admit"
    /\ retries[cur] >= MaxRetries
    /\ IF conn[site] = NoFd THEN KeepConnection ELSE CloseConnection(conn[site])
    /\ Drop
    /\ UNCHANGED buffers

Reuse ==
    /\ pc = "admit"
    /\ retries[cur] < MaxRetries
    /\ conn[site] # NoFd
    /\ fd' = conn[site]
    /\ pc' = "timeout"
    /\ UNCHANGED <<coming, urlq, retries, cur, conn, open, peer, leaked, stream,
                   head, buffers, pages, dropped>>

NeedsConnection ==
    /\ pc = "admit"
    /\ retries[cur] < MaxRetries
    /\ conn[site] = NoFd

CreateConnection ==
    /\ NeedsConnection
    /\ \E f \in Fds \ open :
          /\ fd' = f
          /\ open' = open \cup {f}
          /\ peer' = [peer EXCEPT ![f] = site]
          /\ conn' = [conn EXCEPT ![site] = f]
    /\ pc' = "timeout"
    /\ UNCHANGED <<coming, urlq, retries, cur, leaked, stream, head, buffers,
                   pages, dropped>>

\* socket() fails, or the connection cannot be made in time and the socket is
\* closed again.
CreateConnectionFails ==
    /\ NeedsConnection
    /\ Retry
    /\ KeepConnection
    /\ UNCHANGED buffers

\* The first or the second fcntl fails, and the socket stays open.
CreateConnectionLeaks ==
    /\ NeedsConnection
    /\ \E f \in Fds \ open :
          open' = open \cup {f} /\ leaked' = leaked \cup {f}
    /\ Retry
    /\ UNCHANGED <<conn, peer, stream, buffers>>

-------------------------------------------------------------------------------
(* Sending the request. *)

SetTimeout ==
    /\ pc = "timeout"
    /\ pc' = "send"
    /\ UNCHANGED <<coming, urlq, retries, cur, fd, conn, open, peer, leaked,
                   stream, head, buffers, pages, dropped>>

SetTimeoutFails ==
    /\ pc = "timeout"
    /\ KeepConnection
    /\ Retry
    /\ UNCHANGED buffers

\* The whole request is written; the server behind the socket answers it.
\* A header buffer is borrowed.
Send ==
    /\ pc = "send"
    /\ \E r \in Kinds :
          stream' = [stream EXCEPT ![fd] =
              @ \o <<HeadOf(cur, r)>> \o Bytes(cur, Sent[r])]
    /\ buffers' = buffers + 1
    /\ pc' = "header"
    /\ UNCHANGED <<coming, urlq, retries, cur, fd, conn, open, peer, leaked,
                   head, pages, dropped>>

SendFails ==
    /\ pc = "send"
    /\ CloseConnection(fd)
    /\ Retry
    /\ UNCHANGED buffers

-------------------------------------------------------------------------------
(* recv_http_response_header reads up to an empty line, wherever it comes. *)

\* Pieces with an empty line in them.
Stops(piece) == piece.is # "head" => HeaderEnds(piece.text) # {}

\* The number of pieces read as one header, the last perhaps in part.
HeaderSpan(st) ==
    CHOOSE n \in 1..Len(st) : Stops(st[n]) /\ \A i \in 1..(n - 1) : ~Stops(st[i])

\* The stream behind this header.
BehindHeader(st) ==
    LET n == HeaderSpan(st)  last == st[n] IN
    (IF last.is = "head" THEN <<>>
     ELSE Bytes(last.of, Behind(last.text, Min(HeaderEnds(last.text)))))
      \o SubSeq(st, n + 1, Len(st))

RecvHeader ==
    LET st == stream[fd]  n == HeaderSpan(st) IN
    /\ pc = "header"
    /\ \E i \in 1..Len(st) : Stops(st[i])
    /\ ~(st[n].is = "head" /\ Responses[st[n].r].long)
    /\ head' = IF st[1].is = "head" THEN st[1] ELSE Garbage
    /\ stream' = [stream EXCEPT ![fd] = BehindHeader(st)]
    /\ pc' = "analyse"
    /\ UNCHANGED <<coming, urlq, retries, cur, fd, conn, open, peer, leaked,
                   buffers, pages, dropped>>

\* MAX_HEADER_SIZE bytes without an end: the end of the header stays unread, or
\* the rest of the bytes an earlier response left behind.
RecvHeaderTooLong ==
    LET st == stream[fd]  n == HeaderSpan(st) IN
    /\ pc = "header"
    /\ \/ /\ \E i \in 1..Len(st) : Stops(st[i])
          /\ st[n].is = "head" /\ Responses[st[n].r].long
          /\ stream' = [stream EXCEPT ![fd] =
                 Bytes(st[n].of, EndOfLine \o EndOfLine) \o BehindHeader(st)]
       \/ /\ st[1].is # "head"
          /\ UNCHANGED stream
    /\ buffers' = buffers - 1
    /\ Drop
    /\ UNCHANGED <<conn, open, peer, leaked>>

\* Mutant: the header buffer is not given back.
RecvHeaderFailsKeeping ==
    /\ pc = "header"
    /\ CloseConnection(fd)
    /\ Retry
    /\ UNCHANGED buffers

\* The read fails, ends or times out.
RecvHeaderFails ==
    /\ pc = "header"
    /\ buffers' = buffers - 1
    /\ CloseConnection(fd)
    /\ Retry

-------------------------------------------------------------------------------
(* HttpResponseHeader::analysis *)

\* What is not the head of a response does not start with HTTP/1.x.
Read == IF head.is = "head" THEN Analysed[head.r] ELSE [Fresh EXCEPT !.valid = FALSE]

Analyse ==
    /\ pc = "analyse"
    /\ Read.valid /\ ~Read.endless
    /\ buffers' = buffers - 1
    /\ pc' = "body"
    /\ UNCHANGED <<coming, urlq, retries, cur, fd, conn, open, peer, leaked,
                   stream, head, pages, dropped>>

AnalyseFails ==
    /\ pc = "analyse"
    /\ ~Read.valid
    /\ buffers' = buffers - 1
    /\ KeepConnection
    /\ Drop

\* The loop over the lines advances only past "key: value".
AnalyseLoops ==
    /\ pc = "analyse"
    /\ Read.endless
    /\ UNCHANGED vars

-------------------------------------------------------------------------------
(* recv_http_response_body *)

CloseUnlessKept == IF Read.keep THEN KeepConnection ELSE CloseConnection(fd)

HasPage == Responses[head.r].ok /\ (Read.length = Chunks \/ Read.length > 0)

\* The page belongs to the url whose response was read, unless its text is not the
\* entity of that response.
Content == IF head.r \in Whole THEN head.of ELSE NoUrl

RecvBody ==
    /\ pc = "body"
    /\ HasPage
    /\ Received[head.r].ok
    /\ pages' = pages \cup {[url |-> cur, content |-> Content]}
    /\ IF Read.keep
       THEN /\ stream' = [stream EXCEPT ![fd] =
                   Bytes(head.of, Received[head.r].rest) \o SubSeq(@, 2, Len(@))]
            /\ UNCHANGED <<conn, open, peer, leaked>>
       ELSE CloseConnection(fd)
    /\ EndIteration
    /\ UNCHANGED <<urlq, retries, buffers, dropped>>

\* Another status than 200, or no content: the body is left unread.
RecvBodyRefused ==
    /\ pc = "body"
    /\ ~HasPage
    /\ CloseUnlessKept
    /\ Drop
    /\ UNCHANGED buffers

RecvBodyFails ==
    /\ pc = "body"
    /\ HasPage
    /\ CloseConnection(fd)
    /\ Retry
    /\ UNCHANGED buffers

-------------------------------------------------------------------------------

Loop ==
    \/ Pop \/ GiveUp \/ Reuse
    \/ CreateConnection \/ CreateConnectionFails \/ CreateConnectionLeaks
    \/ SetTimeout \/ SetTimeoutFails \/ Send \/ SendFails
    \/ RecvHeader \/ RecvHeaderTooLong \/ RecvHeaderFails
    \/ Analyse \/ AnalyseFails \/ AnalyseLoops
    \/ RecvBody \/ RecvBodyRefused \/ RecvBodyFails

Next == Loop \/ Arrive

Spec == Init /\ [][Next]_vars

\* Every call of the loop returns: connect, send and receive have timeouts.
FairSpec == Spec /\ WF_vars(Loop)

-------------------------------------------------------------------------------
(* Properties. *)

Pieces == [is : {"head"}, of : Urls, r : Kinds]
          \cup [is : {"bytes"}, of : Urls, text : Seq(STRING)]

TypeOK ==
    /\ coming \in Seq(Urls)
    /\ urlq \in Seq(Urls)
    /\ retries \in [Urls -> Nat]
    /\ pc \in {"pop", "admit", "timeout", "send", "header", "analyse", "body"}
    /\ cur \in Urls \cup {NoUrl}
    /\ fd \in Fds \cup {NoFd}
    /\ conn \in [Sites -> Fds \cup {NoFd}]
    /\ open \subseteq Fds
    /\ peer \in [Fds -> Sites \cup {NoSite}]
    /\ leaked \subseteq open
    /\ stream \in [Fds -> Seq(Pieces)]
    /\ head \in Pieces \cup {Garbage}
    /\ buffers \in Nat
    /\ pages \subseteq [url : Urls, content : Urls \cup {NoUrl}]
    /\ dropped \subseteq Urls

\* The sockets of the map are open, were connected to that very host and belong
\* to one site each: a descriptor that is closed on some error path and reused
\* by the kernel never stays behind under its old site.
MapIsLive ==
    /\ \A s \in Sites : conn[s] # NoFd =>
           conn[s] \in open /\ peer[conn[s]] = s
    /\ \A s, t \in Sites : conn[s] = conn[t] /\ conn[s] # NoFd => s = t

\* No path of the loop but create_connection leaks a socket: one that is open and
\* was not left behind by a failing fcntl is in the map.
NoLeakedSocket == open \ leaked \subseteq {conn[s] : s \in Sites}

\* Every path gives the header buffer back to the memory pool.
BufferReturned == buffers = (IF pc \in {"header", "analyse"} THEN 1 ELSE 0)

\* A url is waiting, in work, downloaded or given up, and only one of these, once.
Times(u, seq) == Cardinality({i \in 1..Len(seq) : seq[i] = u})
Downloaded(u) == \E p \in pages : p.url = u
Occurrences(u) ==
    Times(u, coming) + Times(u, urlq)
      + Cardinality({u} \cap {cur}) + Cardinality({u} \cap dropped)
      + (IF Downloaded(u) THEN 1 ELSE 0)

\* The downloader is a stage: retries neither lose nor double a url, and one that was
\* downloaded or given up is not tried again.
PlaceOf(u) ==
    IF Occurrences(u) # 1 THEN "in no place or in two"
    ELSE IF u \in Elements(coming) THEN "coming" ELSE IF u \in dropped THEN "lost"
    ELSE IF Downloaded(u) THEN "passed" ELSE "held"
AsStage == INSTANCE Stage WITH
    Urls <- Elements(Arrivals),
    place <- [u \in Elements(Arrivals) |-> PlaceOf(u)]
ImplementsStage == AsStage!Spec

\* The header at hand has a line that HttpResponseHeader::analysis never leaves.
Looping == pc = "analyse" /\ Read.endless

\* Retries end: in the end every url that has arrived is downloaded or given up, and
\* stays so, unless the downloader is caught in analysis.
Settled(u) == u \in dropped \/ Downloaded(u)
EveryUrlSettles ==
    <>[](Looping \/ \A u \in Elements(Arrivals) \ Elements(coming) : Settled(u))

\* What a url has left to go through, at most: its retries, and main_loop.
StepsLeft(u) ==
    IF u # cur THEN 7
    ELSE CASE pc = "admit" -> 6 [] pc = "timeout" -> 5 [] pc = "send" -> 4
           [] pc = "header" -> 3 [] pc = "analyse" -> 2 [] pc = "body" -> 1
TriesLeft(u) ==
    IF Settled(u) THEN 0 ELSE 8 * (MaxRetries - retries[u]) + StepsLeft(u)

\* No step takes a url back, a retry included, and each step takes one closer to its end,
\* or brings another: on no path of main_loop is a url tried without being counted.
\* EveryUrlSettles rests on it.
RetriesRunOut ==
    [][/\ \A u \in Elements(Arrivals) : TriesLeft(u)' \in 0..TriesLeft(u)
       /\ coming' = coming => \E u \in Elements(Arrivals) : TriesLeft(u)' < TriesLeft(u)]_vars

\* HttpResponseHeader::analysis and recv_http_response_body: the page that comes of a
\* response whose header is written in the usual way is the body behind that header,
\* whole, by Content-Length or in chunks with extensions, whatever lines come before,
\* between and behind, and whatever is in the body; and nothing of it stays in the
\* connection for the next request, which finds there the head of an answer or nothing
\* yet, unless the chunks have a trailer.
BodiesAreFramed ==
    [][\A p \in pages' \ pages :
          Usual(Responses[head.r]) =>
              /\ p.content = head.of
              /\ Responses[head.r].trailer = <<>> =>
                     stream'[fd] = <<>> \/ Head(stream'[fd]).is = "head"]_vars

\* README: the downloader waits for "the requested web pages": the content put
\* into the extractors' queues under a url is the answer to that url's request.
PageIsTheRequestedOne == \A p \in pages : p.content = p.url

\* A response after which a connection that is kept is empty, and whose page, if there
\* is one, is its body.
Clean(k) ==
    LET h == Analysed[k]
        page == Responses[k].ok /\ (h.length = Chunks \/ h.length > 0)
    IN  /\ ~Responses[k].long
        /\ (h.valid => h.keep /\ ~page) => Sent[k] = <<>>
        /\ h.valid /\ page /\ Received[k].ok =>
               /\ k \in Whole
               /\ h.keep => Received[k].rest = <<>>

\* What is left in connections, however they are closed and their descriptors used again,
\* is never taken for the answer of another site.
PagesAreOfTheirSite ==
    \A p \in pages : p.content # NoUrl => SiteOf[p.content] = SiteOf[p.url]
===============================================================================
