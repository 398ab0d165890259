------------------------------- MODULE Extractor -------------------------------
(***************************************************************************)
(* The extractor threads (extractor_task.cc): each takes pages from its    *)
(* queue, inflates them with zlib through a buffer of the memory pool,     *)
(* saves them in the directory tree they all share, and hands them to the  *)
(* link lexer (link_lexer.l).  A step is one call of zlib or of the file   *)
(* system.                                                                 *)
(*                                                                         *)
(* A page is a number of blocks.  The links the lexer finds are left in a  *)
(* local vector and go nowhere.                                            *)
(***************************************************************************)
EXTENDS Naturals, Sequences, FiniteSets, Utility

CONSTANTS
    Extractors, Pages,
    Queued,         \* the pages the downloaders put into each _page_queue
    Encoding,       \* HttpResponseHeader::http_encoding_type of a page
    Data,           \* what the server sent as compressed data
    Size,           \* blocks in the page, decompressed
    Site, FileText, \* Url::get_site, and get_file as a text
    Path,           \* where save_page puts a page
    NoPage

ASSUME QueuedType == Queued \in [Extractors -> Seq(Pages)]
\* A downloader makes a Page for what it received and pushes it once.
ASSUME PagesAreObjects ==
    \A e, f \in Extractors : \A i \in 1..Len(Queued[e]), j \in 1..Len(Queued[f]) :
        Queued[e][i] = Queued[f][j] => e = f /\ i = j
ASSUME EncodingType == Encoding \in [Pages -> {"txt", "gzip", "deflate", "unknown"}]
\* "whole"; "cut", which ends early; "headerless", deflate data without the zlib
\* header and trailer; "broken", an error after Size blocks; "other", which
\* needs a preset dictionary.
ASSUME DataType ==
    Data \in [Pages -> {"whole", "cut", "headerless", "broken", "other"}]
ASSUME SizeType == Size \in [Pages -> Nat]

ASSUME FileTextType == FileText \in [Pages -> Seq(STRING)]

\* The site is a directory, and so is each name between slashes but the last; the
\* path of a file such as "//" is the site alone.
SavePath(site, file) ==
    <<site>> \o Split(IF file \in {<<>>, <<"/">>} THEN <<"/", "index.html">> ELSE file, {"/"})
ASSUME PathIsSavePath == \A p \in Pages : Path[p] = SavePath(Site[p], FileText[p])
Names == UNION {{Path[p][n] : n \in DOMAIN Path[p]} : p \in Pages}
ASSUME PathType == Path \in [Pages -> Seq(Names) \ {<<>>}]
ASSUME NoPageIsNoPage == NoPage \notin Pages

VARIABLES
    pageq,      \* _page_queue
    pc, cur,    \* where each extractor is, and its page
    got,        \* decompress_page: blocks decompressed so far
    reads,      \* blocks inflate has given since its last reset
    dummy,      \* dummy_initialized
    caches,     \* buffers borrowed from the memory pool
    depth,      \* save_page: i
    disk,       \* what is behind each path
    saved,      \* pages that save_page wrote
    done,       \* pages that main_loop is finished with
    up          \* the process has not been terminated

vars == <<pageq, pc, cur, got, reads, dummy, caches, depth, disk, saved, done, up>>

Elements(seq) == {seq[n] : n \in 1..Len(seq)}
Prefix(path, n) == SubSeq(path, 1, n)
Paths == UNION {{Prefix(Path[p], n) : n \in 1..Len(Path[p])} : p \in Pages}

Nothing == [kind |-> "none", data |-> <<>>]
Directory == [kind |-> "dir", data |-> <<>>]
File(data) == [kind |-> "file", data |-> data]

Block(p, n) == <<p, n>>
Content(p) == [n \in 1..Size[p] |-> Block(p, n)]

Init ==
    /\ pageq = Queued
    /\ pc = [e \in Extractors |-> "pop"]
    /\ cur = [e \in Extractors |-> NoPage]
    /\ got = [e \in Extractors |-> 0]
    /\ reads = [e \in Extractors |-> 0]
    /\ dummy = [e \in Extractors |-> FALSE]
    /\ caches = [e \in Extractors |-> 0]
    /\ depth = [e \in Extractors |-> 0]
    /\ disk = [path \in Paths |-> Nothing]
    /\ saved = {}
    /\ done = {}
    /\ up = TRUE

At(e, place) == up /\ pc[e] = place
Goto(e, place) == pc' = [pc EXCEPT ![e] = place]

localVars == <<got, reads, dummy, depth>>

\* continue: back to the pop.
NextPage(e) ==
    /\ Goto(e, "pop")
    /\ cur' = [cur EXCEPT ![e] = NoPage]
    /\ done' = done \cup {cur[e]}

-------------------------------------------------------------------------------
(* main_loop takes a page; decompress_page looks at its encoding. *)

Pop(e) ==
    /\ At(e, "pop")
    /\ pageq[e] # <<>>
    /\ pageq' = [pageq EXCEPT ![e] = Tail(@)]
    /\ cur' = [cur EXCEPT ![e] = Head(pageq[e])]
    /\ Goto(e, "decompress")
    /\ got' = [got EXCEPT ![e] = 0]
    /\ reads' = [reads EXCEPT ![e] = 0]
    /\ dummy' = [dummy EXCEPT ![e] = FALSE]
    /\ depth' = [depth EXCEPT ![e] = 0]
    /\ UNCHANGED <<caches, disk, saved, done, up>>

\* Text is taken as it is, whatever Data says.
PlainText(e) ==
    /\ At(e, "decompress")
    /\ Encoding[cur[e]] = "txt"
    /\ got' = [got EXCEPT ![e] = Size[cur[e]]]
    /\ Goto(e, "path")
    /\ UNCHANGED <<pageq, cur, reads, dummy, caches, depth, disk, saved, done, up>>

UnknownEncoding(e) ==
    /\ At(e, "decompress")
    /\ Encoding[cur[e]] = "unknown"
    /\ NextPage(e)
    /\ UNCHANGED localVars /\ UNCHANGED <<pageq, caches, disk, saved, up>>

\* inflateInit and inflateInit2 succeed.
StartInflate(e) ==
    /\ At(e, "decompress")
    /\ Encoding[cur[e]] \in {"gzip", "deflate"}
    /\ caches' = [caches EXCEPT ![e] = @ + 1]
    /\ Goto(e, "inflate")
    /\ UNCHANGED localVars /\ UNCHANGED <<pageq, cur, disk, saved, done, up>>

-------------------------------------------------------------------------------
(* The loop around inflate. *)

\* inflate of zlib, n blocks after a reset, with or without the dummy header.
\* Without its last bytes, or, after the dummy header, without the check value
\* that the trailer would hold, the data runs out and every call from then on
\* makes no progress.
Inflate(p, n, withDummy) ==
    LET more == n < Size[p] IN
    CASE Data[p] = "whole"      -> IF n + 1 < Size[p] THEN "Z_OK" ELSE "Z_STREAM_END"
      [] Data[p] = "cut"        -> IF more THEN "Z_OK" ELSE "Z_BUF_ERROR"
      [] Data[p] = "headerless" -> IF ~withDummy THEN "Z_DATA_ERROR"
                                   ELSE IF more THEN "Z_OK" ELSE "Z_BUF_ERROR"
      [] Data[p] = "broken"     -> IF more /\ ~withDummy THEN "Z_OK" ELSE "Z_DATA_ERROR"
      [] Data[p] = "other"      -> "Z_NEED_DICT"

Result(e) == Inflate(cur[e], reads[e], dummy[e])

Inflating(e, codes) == At(e, "inflate") /\ Result(e) \in codes

\* Z_OK, and Z_BUF_ERROR, with which nothing is written: once more.
InflateGoesOn(e) ==
    /\ Inflating(e, {"Z_OK", "Z_BUF_ERROR"})
    /\ LET n == IF Result(e) = "Z_OK" THEN 1 ELSE 0 IN
       /\ got' = [got EXCEPT ![e] = @ + n]
       /\ reads' = [reads EXCEPT ![e] = @ + n]
    /\ UNCHANGED <<pageq, pc, cur, dummy, caches, depth, disk, saved, done, up>>

InflateEnds(e) ==
    /\ Inflating(e, {"Z_STREAM_END"})
    /\ got' = [got EXCEPT ![e] = @ + (Size[cur[e]] - reads[e])]
    /\ caches' = [caches EXCEPT ![e] = @ - 1]
    /\ Goto(e, "path")
    /\ UNCHANGED <<pageq, cur, reads, dummy, depth, disk, saved, done, up>>

\* inflateReset, a dummy header, the data from its start.
InflateDummy(e) ==
    /\ Inflating(e, {"Z_DATA_ERROR"})
    /\ ~dummy[e]
    /\ dummy' = [dummy EXCEPT ![e] = TRUE]
    /\ reads' = [reads EXCEPT ![e] = 0]
    /\ UNCHANGED <<pageq, pc, cur, got, caches, depth, disk, saved, done, up>>

\* Mutant: Z_NEED_DICT is no error, so the loop calls inflate again and again.
FailedOnData(e) == Inflating(e, {"Z_DATA_ERROR"}) /\ dummy[e]

Failed(e) ==
    \/ Inflating(e, {"Z_DATA_ERROR"}) /\ dummy[e]
    \/ Inflating(e, {"Z_NEED_DICT"})

\* Mutant: main_loop does not look at what decompress_page returns.
InflateFailsUnseen(e) ==
    /\ Failed(e)
    /\ caches' = [caches EXCEPT ![e] = @ - 1]
    /\ Goto(e, "path")
    /\ UNCHANGED localVars /\ UNCHANGED <<pageq, cur, disk, saved, done, up>>

InflateFails(e) ==
    /\ Failed(e)
    /\ caches' = [caches EXCEPT ![e] = @ - 1]
    /\ NextPage(e)
    /\ UNCHANGED localVars /\ UNCHANGED <<pageq, disk, saved, up>>

-------------------------------------------------------------------------------
(* save_page *)

ThePath(e) == Path[cur[e]]
Here(e) == Prefix(ThePath(e), depth[e] + 1)

IsDir(path) == IF path = <<>> THEN TRUE ELSE disk[path].kind = "dir"
Parent(path) == Prefix(path, Len(path) - 1)

\* dirs is empty and dirs[dirs.size() - 1] is before its start.
NoName(e) ==
    /\ At(e, "path")
    /\ Len(ThePath(e)) = 1
    /\ up' = FALSE
    /\ UNCHANGED localVars /\ UNCHANGED <<pageq, pc, cur, caches, disk, saved, done>>

\* Mutant: the directory of the site is taken for granted.
AccessSkippingSite(e) ==
    LET there == depth[e] = 0 \/ disk[Here(e)].kind # "none" IN
    /\ At(e, "path")
    /\ depth[e] + 1 < Len(ThePath(e))
    /\ depth' = IF there THEN [depth EXCEPT ![e] = @ + 1] ELSE depth
    /\ Goto(e, IF there THEN "path" ELSE "mkdir")
    /\ UNCHANGED <<pageq, cur, got, reads, dummy, caches, disk, saved, done, up>>

\* access(): is there anything at this path?
Access(e) ==
    LET there == disk[Here(e)].kind # "none" IN
    /\ At(e, "path")
    /\ depth[e] + 1 < Len(ThePath(e))
    /\ depth' = IF there THEN [depth EXCEPT ![e] = @ + 1] ELSE depth
    /\ Goto(e, IF there THEN "path" ELSE "mkdir")
    /\ UNCHANGED <<pageq, cur, got, reads, dummy, caches, disk, saved, done, up>>

CanMake(path) == disk[path].kind = "none" /\ IsDir(Parent(path))

Mkdir(e) ==
    /\ At(e, "mkdir")
    /\ CanMake(Here(e))
    /\ disk' = [disk EXCEPT ![Here(e)] = Directory]
    /\ depth' = [depth EXCEPT ![e] = @ + 1]
    /\ Goto(e, "path")
    /\ UNCHANGED <<pageq, cur, got, reads, dummy, caches, saved, done, up>>

MkdirFails(e) ==
    /\ At(e, "mkdir")
    /\ ~CanMake(Here(e))
    /\ Goto(e, "lex")
    /\ UNCHANGED localVars /\ UNCHANGED <<pageq, cur, caches, disk, saved, done, up>>

Opening(e) == At(e, "path") /\ Len(ThePath(e)) > 1 /\ depth[e] + 1 = Len(ThePath(e))

CanOpen(path) == IsDir(Parent(path)) /\ ~IsDir(path)

\* Mutant: without Ofstream::trunc.
OpenKeeping(e) ==
    /\ Opening(e)
    /\ CanOpen(ThePath(e))
    /\ disk' = [disk EXCEPT ![ThePath(e)] = File(@.data)]
    /\ Goto(e, "write")
    /\ UNCHANGED localVars /\ UNCHANGED <<pageq, cur, caches, saved, done, up>>

Open(e) ==
    /\ Opening(e)
    /\ CanOpen(ThePath(e))
    /\ disk' = [disk EXCEPT ![ThePath(e)] = File(<<>>)]
    /\ Goto(e, "write")
    /\ UNCHANGED localVars /\ UNCHANGED <<pageq, cur, caches, saved, done, up>>

OpenFails(e) ==
    /\ Opening(e)
    /\ ~CanOpen(ThePath(e))
    /\ Goto(e, "lex")
    /\ UNCHANGED localVars /\ UNCHANGED <<pageq, cur, caches, disk, saved, done, up>>

\* Writing new from the start of a file that holds old.
Overwrite(old, new) == new \o SubSeq(old, Len(new) + 1, Len(old))

\* A page without content writes nothing and counts as a failure.
Write(e) ==
    LET p == cur[e] IN
    /\ At(e, "write")
    /\ disk' = [disk EXCEPT ![Path[p]] = File(Overwrite(@.data, Prefix(Content(p), got[e])))]
    /\ saved' = IF got[e] > 0 THEN saved \cup {p} ELSE saved
    /\ Goto(e, "lex")
    /\ UNCHANGED localVars /\ UNCHANGED <<pageq, cur, caches, done, up>>

-------------------------------------------------------------------------------
(* extract_links, whether the page was saved or not. *)

ExtractLinks(e) ==
    /\ At(e, "lex")
    /\ got[e] > 0
    /\ NextPage(e)
    /\ UNCHANGED localVars /\ UNCHANGED <<pageq, caches, disk, saved, up>>

\* LinkLexer::yylex makes a String of the NULL content: an exception that
\* nothing catches.
ExtractFromNothing(e) ==
    /\ At(e, "lex")
    /\ got[e] = 0
    /\ up' = FALSE
    /\ UNCHANGED localVars /\ UNCHANGED <<pageq, pc, cur, caches, disk, saved, done>>

-------------------------------------------------------------------------------

Step(e) ==
    \/ Pop(e) \/ PlainText(e) \/ UnknownEncoding(e) \/ StartInflate(e)
    \/ InflateGoesOn(e) \/ InflateEnds(e) \/ InflateDummy(e) \/ InflateFails(e)
    \/ NoName(e) \/ Access(e) \/ Mkdir(e) \/ MkdirFails(e) \/ Open(e) \/ OpenFails(e)
    \/ Write(e) \/ ExtractLinks(e) \/ ExtractFromNothing(e)

Next == \E e \in Extractors : Step(e)

Spec == Init /\ [][Next]_vars

\* Every call of zlib, of the file system and of the lexer returns.  Nothing is
\* assumed of a step that ends the process: the other extractors must come to an
\* end by themselves.
FairSpec == Spec /\ \A e \in Extractors : WF_vars(Step(e) /\ up')

-------------------------------------------------------------------------------
(* Properties. *)

TypeOK ==
    /\ pageq \in [Extractors -> Seq(Pages)]
    /\ pc \in [Extractors -> {"pop", "decompress", "inflate", "path", "mkdir", "write", "lex"}]
    /\ cur \in [Extractors -> Pages \cup {NoPage}]
    /\ got \in [Extractors -> Nat] /\ reads \in [Extractors -> Nat]
    /\ dummy \in [Extractors -> BOOLEAN]
    /\ caches \in [Extractors -> Nat] /\ depth \in [Extractors -> Nat]
    /\ disk \in [Paths -> [kind : {"none", "dir", "file"}, data : Seq(Pages \X Nat)]]
    /\ saved \subseteq Pages /\ done \subseteq Pages
    /\ up \in BOOLEAN

\* decompress_page: the buffer of the memory pool is put back once on each of
\* the ways out, the repeated attempt with the dummy header included.
CacheIsReturned ==
    \A e \in Extractors : caches[e] = (IF pc[e] = "inflate" THEN 1 ELSE 0)

\* One extractor has all these pages, those of a path or of a site.
InOneQueue(pages) == \E e \in Extractors : pages \subseteq Elements(Queued[e])
SamePath(p) == {q \in Pages : Path[q] = Path[p]}
SameSite(p) == {q \in Pages : Path[q][1] = Path[p][1]}

\* save_page: a file nobody is writing, and that only one extractor writes,
\* holds one page, all of it and nothing of the page that was there before.
FilesAreWhole ==
    \A p \in Pages :
        /\ disk[Path[p]].kind = "file"
        /\ InOneQueue(SamePath(p))
        /\ \A e \in Extractors : pc[e] = "write" => ThePath(e) # Path[p]
        => \E q \in SamePath(p) : disk[Path[p]].data = Content(q)

Decodable(p) ==
    Encoding[p] = "txt" \/ (Encoding[p] # "unknown" /\ Data[p] = "whole")

\* One page's file is another page's directory.
IsBelow(path, other) ==
    Len(path) > Len(other) /\ Prefix(path, Len(other)) = other
PathIsFree(p) ==
    \A q \in Pages : ~IsBelow(Path[p], Path[q]) /\ ~IsBelow(Path[q], Path[p])

\* A page that can be decoded, has content and a path that is a file for all pages.
Good(p) == Decodable(p) /\ Size[p] > 0 /\ PathIsFree(p)

\* save_page: main_loop leaves no good page behind unsaved on a site that no
\* other extractor works on.
GoodPagesAreSaved == \A p \in done : Good(p) /\ InOneQueue(SameSite(p)) => p \in saved

\* README: extractors "save these web pages on disk": main_loop leaves no good
\* page behind unsaved.
PagesAreSaved == \A p \in done : Good(p) => p \in saved

\* save_page and yylex end the process for two kinds of pages alone: a file of slashes,
\* from which no name comes, and a page that was decompressed to nothing.  A page that
\* could not be decompressed, and is without content too, never gets that far.
Nameless(p) == Len(FileText[p]) > 1 /\ \A i \in DOMAIN FileText[p] : FileText[p][i] = "/"
OnlyOddPagesEndIt ==
    ~up => \E e \in Extractors :
              /\ cur[e] # NoPage /\ Decodable(cur[e])
              /\ Nameless(cur[e]) \/ Size[cur[e]] = 0

\* Where a page is: done, in the hands of an extractor, or in its queue.
Has(e) == <<cur[e]>> \o pageq[e]
Spots(p) == UNION {{e} \X {n \in DOMAIN Has(e) : Has(e)[n] = p} : e \in Extractors}
WherePut(p) ==
    IF p \in done THEN IF p \in saved THEN "passed" ELSE "lost"
    ELSE IF \E e \in Extractors : cur[e] = p THEN "held" ELSE "coming"
PlaceOf(p) ==
    IF Cardinality(Spots(p)) # (IF p \in done THEN 0 ELSE 1) THEN "in no place or in two"
    ELSE WherePut(p)

\* The extractors are a stage: each page of the queues is taken once, and main_loop is
\* finished with it once, saved or not; no page that is done is saved later, or again.
PagesQueued == UNION {Elements(Queued[e]) : e \in Extractors}
AsStage == INSTANCE Stage WITH
    Urls <- PagesQueued,
    place <- [p \in PagesQueued |-> PlaceOf(p)]
ImplementsStage == AsStage!Spec

\* decompress_page: "stop an endless loop caused by non-deflate data being
\* labelled as deflate": for data that does not run out, inflating ends.
RunsOut(p) == Data[p] \in {"cut", "headerless"}
BadDataEnds ==
    \A e \in Extractors :
        (pc[e] = "inflate" /\ ~RunsOut(cur[e])) ~> (pc[e] # "inflate" \/ ~up)

\* What an extractor has left to do with the page in its hands, at most: blocks to
\* inflate, twice where it can start again, and names of the path to go through.
WorkLeft(e) ==
    LET size == Size[cur[e]]
        names == 2 * (Len(ThePath(e)) - depth[e])
        attempt == IF dummy[e] THEN 0 ELSE size + 1
    IN  CASE pc[e] = "pop" -> 0
          [] pc[e] = "decompress" -> names + 2 * size + 4
          [] pc[e] = "inflate" -> names + attempt + (size - reads[e]) + 2
          [] pc[e] = "path" -> names + 1
          [] pc[e] = "mkdir" -> names
          [] pc[e] = "write" -> 2
          [] pc[e] = "lex" -> 1
GoesOn(e) ==
    \/ Len(pageq'[e]) < Len(pageq[e])
    \/ pageq'[e] = pageq[e] /\ WorkLeft(e)' \in 0..(WorkLeft(e) - 1)
Waits(e) ==
    /\ pageq'[e] = pageq[e] /\ pc'[e] = pc[e] /\ cur'[e] = cur[e] /\ depth'[e] = depth[e]
    /\ got'[e] = got[e] /\ reads'[e] = reads[e] /\ dummy'[e] = dummy[e]

\* Nothing is left to read and inflate asks for more: it is called again, and again
\* nothing comes of it.
Stalls(e) == pc[e] = "inflate" /\ Result(e) = "Z_BUF_ERROR"

\* main_loop: a step that changes anything takes one extractor further through its
\* pages, leaves the others where they are and is of one that does not stall, or ends
\* the process.  One that stalls is not taken further by any step: its loop goes on
\* forever (extractor_task.cc:200), which for these data is what the code does.
ExtractorsGoForward ==
    /\ [][up' => \E e \in Extractors :
                   GoesOn(e) /\ ~Stalls(e) /\ \A f \in Extractors \ {e} : Waits(f)]_vars
    /\ [][\A e \in Extractors : Stalls(e) => Waits(e)]_vars
===============================================================================
