# A TLA+ verification of myjfm_spider

myjfm_spider is a multi-threaded web spider in C++. Its threads form a pipeline:

    seeds -> Dnser -> Scheduler -> Downloader -> Extractor -> files on disk
                                    ^      |
                                    +------+ (retries)

Every thread of a stage owns one blocking queue (`SQueue<T>`). A stage picks the
thread of the next stage by `MD5::shuffle`, the MD5 of the canonical url modulo
the number of threads, and pushes into that thread's queue. Besides the stages
there are the main thread (start, signals, shutdown), a logger with a writer
thread, and `Global`, which owns the queues, the configuration, the logger, the
DNS cache and the memory pool.

This directory holds TLA+ models of that program, from its configuration file to
the files it saves, the TLC configurations that check them, and TLAPS proofs about
what all stages depend on (the queue, the counted pages with the memory pool behind
them, the routing of urls, the logger, the threads and their shutdown) and about the
dnsers, the downloader, the extractor and the link lexers, down to the parsing of urls and
of HTTP responses. Everything is translated from the code under `src/src`; file names below
are relative to it.

## Inventory

### The parts, their state, their operations and what makes them correct

| Part | State | Operations | Correct when |
|---|---|---|---|
| `SQueue` (`squeue.h`, `mutex.h`, `conditional.h`) | `_queue`, a mutex, a condition variable | `push`, `pop` (blocks), `try_pop`, `size`; a waiting thread may be cancelled | it is a FIFO queue; no wake-up is lost; the mutex is always released |
| Dnser (`dnser_task.cc`, `dns_cache.cc`) | own url queue; `_is_dnsing_lutable`, site -> urls that wait; the shared `DnsCache`; queries in flight inside adns | pop or try_pop a url, look in the cache, `submit_once`, `check_once` | adns never hands back a dangling context; each url is handed over once, with addresses of its own site; no url is forgotten |
| Scheduler (`scheduler_task.cc`) | own url queue | pop, MD5, push | equal urls go to the same thread |
| Downloader (`downloader_task.cc`, `page.h`) | own url queue; `_sock_fd_map`, host -> socket; `Url::_retries`; a header buffer of the memory pool | connect or reuse, send, receive header and body, retry, give up | no socket or buffer leaks; no stale socket is used; retries end; a page belongs to its url |
| Extractor (`extractor_task.cc`, `link_lexer.l`) | own page queue; a zlib stream; the directory tree all extractors share | decompress, save, extract links | each page is saved, whole, or dropped for a reason; bad data does not stop the thread |
| Logger (`logger.cc`, `logger_task.cc`) | `_primary`, `_secondary`, `_primary_mutex`, `_semaphore` | `log`, the writer's loop, the destructor | every message is written once and in order; the destructor ends if the disk works |
| Threads and shutdown (`thread*.cc`, `myjfm_spider.cc`) | `Thread::_state`, the tasks of a pool, `_to_be_shutdown`, the pid file, signal dispositions | `ThreadPool::init`, `add_task`, `stop`; `main`; the handlers | every worker is joined before what it uses is deleted; a signal ends the process in order |
| Reference counts (`shared*.h/.cc`) | `_count` under a mutex | copy, assign, destroy | an object is deleted once, by its last owner |
| Memory pool (`memory_pool.cc`) | free lists by size class, a header word in each block | `get_memory`, `put_memory` | a block is in one list or one page; it is as large as its user believes |
| Lexers (`link_lexer.l`, `uri_lexer.l`) of each extractor | YY_START and flex's stack of start conditions, which outlive a page; `_cur_attr`, `_tmp_buf`, `_uris` | `lex` a page, `save_link`; `lex` a link, `uri_merge` | the stack is never popped when empty; each page ends; links are resolved as RFC 2396 says |
| HTTP responses (`page.h`, `downloader_task.cc`) | the header at hand; the bytes of a connection that were not read yet | `analysis`, `recv_http_response_header`, `recv_http_response_body`, `recv_by_chunk`, `recv_chunk_size` | the page is the body behind its header, whole, and the connection stands at the next response |
| Url and MD5 (`url.cc`, `md5.h`) | site, port, file of a `Url`; its cached MD5 | the parser, `get_md5`, `MD5::shuffle` | two urls have one key exactly when they name one resource |
| Configuration (`global.cc`) | the settings of `Global` | defaults, `parse_config` and its setters, the queues and seeds of `init` | the program starts with what the file says, and nothing else |
| Utilities (`utility.cc`) | none | `trim`, `split`, `str2integer`, `integer2str` | as their callers rely on them |
| Hash table, event loop (`hash.h`, `event_loop.cc`) | buckets; an epoll descriptor | not used by the program | not modelled, see below |

### How they interact

* Queues: `Global` owns one queue per thread; producers push into the queues of
  the next stage, consumers pop their own. The downloader is also a producer of
  its own queue (retries), so it never waits for room: queues have no limit.
* Shared state without a queue: `DnsCache` under a read-write lock; the log
  buffers; the directory tree; the `Url` object itself, which travels by pointer
  and carries its status, addresses, retries and cached MD5 without a lock.
* Callbacks: adns returns the context pointer given to `adns_submit`, an address
  of an entry of the lookup table. Signal handlers run inside any thread and call
  `LOG`.
* Shutdown: `main` cancels and joins the pools one after the other, removes the
  pid file and deletes `Global`.

### What is hard

Interleavings at the condition variable; cancellation in the middle of `pop`; the
life time of adns contexts; keep-alive connections with bytes left in them; the
unlocked `_secondary` buffer of the logger; a signal between a test and `pause()`;
a handler that takes a lock; directories made by two threads; retries and errors
on every path. `PROJECT.json` lists each of these hazards at its line, with the
property that would catch it going wrong or the reason why none does.

## The modules

| Module | Models | Composition |
|---|---|---|
| `FifoQueue` | what a queue promises: atomic, first-in first-out | abstract specification |
| `SQueue` | `squeue.h` with its mutex and condition variable | implements `FifoQueue` |
| `SQueueProofs` | theorems about `SQueue` | extends `SQueue` |
| `Shared` | `SharedObject` and `SharedPointer`: counts, copies, deletion | part of `Pages` |
| `MemoryPool` | the free lists, headers, `malloc` and `free` | part of `Pages` |
| `Pages` | the pages that travel between stages: their pointers and contents | composes `Shared` and `MemoryPool` |
| `PagesProofs` | theorems about `Shared` and `Pages` | extends `Pages` |
| `Stage` | what a stage promises of each url given to it | abstract specification |
| `Dnser` | the dnser threads, their tables, `DnsCache`, adns | queues as FIFO sequences; implements `Stage` |
| `DnserProofs` | theorems about `Dnser` | extends `Dnser` |
| `Utility` | the string functions of `utility.h` on which others rely | part of `Config`, `Url`, `HttpHeader` |
| `HttpHeader` | `HttpResponseHeader::analysis`, and what HTTP says of a body's length | extends `Utility` |
| `Body` | the functions that read a body, and how a server writes one | extends `HttpHeader` |
| `Downloader` | one downloader, its sockets, the servers | extends `Body`; queues as FIFO sequences; implements `Stage` |
| `DownloaderProofs` | theorems about `Downloader`, `HttpHeader` and `Body` | extends `Downloader` |
| `Extractor` | the extractors, zlib, the file system | queues as FIFO sequences |
| `ExtractorProofs` | theorems about `Extractor` and `LinkLexer` | extends both |
| `Logger` | `Logger::log`, the writer, the destructor | |
| `LoggerProofs` | theorems about `Logger` | extends `Logger` |
| `Lifecycle` | `main`, pools, threads, signals, shutdown | takes the mutex of the logger from `Logger` as one lock |
| `LifecycleProofs` | theorems about `Lifecycle` | extends `Lifecycle` |
| `UriLexer` | the scanner of links and `uri_merge` | part of `LinkLexer` |
| `LinkLexer` | the scanner of pages and `save_link` | extends `UriLexer` |
| `Spider` | the travel of a url through all four stages | composes the stages by what the others see of them |
| `SpiderProofs` | theorems about `Spider`, `Url` and `Crawl` | extends `Crawl` |
| `Url` | the parser of urls, the canonical form behind `get_md5`, `shuffle` | extends `Utility` |
| `Config` | defaults and `parse_config` | extends `Utility` |
| `Startup` | `Global::init`: queues and seeds from the configuration | extends `Config` and `Url` |
| `Crawl` | the program from its configuration file on | composes `Startup` and `Spider` |
| `MC*` | constants for TLC | one per module |

`Spider` uses FIFO sequences for queues, which is justified by the theorem that
`SQueue` implements `FifoQueue`, and one action per way in which a stage can be
finished with a url, which is what `Dnser`, `Downloader` and `Extractor` model in
detail. `Dnser`, `Downloader` and `Extractor` implement `Stage`: a url, or its page, is
taken once, then passed on once or given up, and does not come back; and so does `Spider`
as a whole. Their liveness properties say that they come to an end with it.

`Crawl` gives the constants of `Spider` their meaning: `StartsAsAsked` says that
the threads, seeds, keys and routes with which the pipeline of the run starts are
those that `parse_config`, the parser of urls and `shuffle` compute from the
configuration file. The theorems about `Spider` hold for any such constants.

### How the state and actions correspond to the code

* **SQueue.** `queue`, `owner` and `pc` stand for `_queue`, the owner of `_mutex`
  and the place of each thread; `out` is the out parameter or result code. There is
  one step per `lock`, body, `signal`, `wait` and unlock. `Wake` lets a signal pick
  any waiter, `SpuriousWakeup` wakes one without a signal, `Cancel` and `Unwind`
  are `pthread_cancel` of a thread in `pop`: the wait takes the mutex again and
  `ScopeGuard` releases it.
* **Shared.** `ref` is `_p` of each `SharedPointer`, `count` is `_count`, `live` the
  objects that exist. An operation is as many steps as it takes locks or writes a
  pointer: `Assign` begins `operator=`, `DecRef` is `dec_ref` under the lock of the
  object, `Delete` the `delete` that follows when it said zero, `Set` and `Clear` the copy of
  `_p`, `AddRef` the `add_ref` under the lock. `Copy`, `Destroy` and `New` begin the
  constructors and the destructor. A `SharedPointer` itself has no lock: no two
  threads use one pointer while one of them writes it (`Untouched`, `Unwritten`),
  which is how the stages use theirs, each on its stack or in a queue.
* **MemoryPool.** `free` are the vectors of `_memories`, `header` the word in front
  of a block, `bytes` what `malloc` was asked for. `TakeFree` is the half of
  `get_memory` under `_mutex`, `Malloc` the half after it; `PutMemory` reads the
  header and keeps the block or frees it; `ClosePool` is the destructor.
* **Pages.** `content` and `size` are `_page_content` and `_page_size`. `NewEmpty` and
  the four `New...` actions are the constructors of `Page` inside a `SharedPointer`,
  with a block from a list, from `malloc`, or without memory; `making` is a thread
  between the halves of `get_memory`, when others may use the pool. `DeletePage` is
  the last `dec_ref` with `~Page` in it.
* **Dnser.** One step per access to state that others see. `coming` are the seeds that
  `Global::init` has not dealt yet (`Deal`); the dnsers run when it is done, since `main`
  starts them later (`Running`). `table` is
  `_is_dnsing_lutable`, `asked[d][s]` the number of queries in flight whose context
is that entry, `name[d][s]` what it asks for: the site, or the alias to which
  `CheckCname` has followed it, without a limit. `Fetch`/`TryPopFails` are the choice
  between `pop` and `try_pop` in `main_loop`; `EnlistFirst`/`EnlistLater` the two
  ways into the table; `CheckOk`, `CheckCname`, `CheckFail`, `CheckNothing` the
  results of `check_once`; `Deliver` and `Store` its loop and what follows.
  adns is external: a query is answered only when it is polled, in any order.
* **Downloader.** The actions are the exits of `main_loop`, in the order of the
  code. `Arrivals` is the order in which the scheduler pushes. A socket's `stream` is
  what was sent and not read yet: heads of responses, and texts of bytes. `Send`
  appends the response, of any kind of `Responses`. `HeaderSpan` is how far
  `recv_http_response_header` reads, wherever it starts: to the next empty line, be it
  the end of a head or inside the bytes that an earlier response left behind.
  `Analysed` and `Received` give, for each kind, what the code makes of its header and
  body; the actions take their guards and effects from there. Ports are left out.
* **HttpHeader, Body.** `ReadLine` is one turn of the loop of `analysis`: a key it
  knows sets a field, a transfer-coding other than `chunked` ends it, a line without
  `: value` keeps it in the loop for ever (`endless`). `RecvChunkSize`, `RecvChunk`,
  `RecvAndDiscard`, `Recvn` and `RecvByChunk` read a text byte by byte and return what
  is left of it. `Framing`, `Sent` and `Usual` are the other side: what RFC 2616 says,
  and how servers write it, chunk extensions and trailers included.
* **Extractor.** A page is a number of blocks; a path is its site and names. One
  step per call of zlib or of the file system. `Inflate` says what zlib answers
  for each kind of data, with or without the dummy header. `SavePath` is the path that
  `save_page` makes of a url's file, split at the slashes.
* **Logger.** `primary`, `secondary`, `owner`, `sem` as in the code; `written` is
  what is on the disk, `logged` the history of `log()`. The writer reads
  `_secondary` message by message while other threads test it. The end of the
  destructor, `stop_blocking`, is two steps: `CancelWriter` does not wait,
  `JoinWriter` does, until the cancelled writer has come to a cancellation point
  (`WriterEnds`); `WriterWait` and `WriterWrite` are where it waits and writes.
* **Lifecycle.** `mpc` is the place in `main`, `state` is `Thread::_state`, `os`
  what the kernel's thread is doing; `handler` is the thread that a signal handler
  has interrupted, `mutex` the logger's mutex. `Loops` is a task caught in an endless
  loop without a cancellation point, as in `analysis` and around `inflate`. `Writer` is
  the logger's thread: a handler that runs there interrupts `sem_wait`, which
  `Semaphore::wait` takes for a reason to abort.
* **LinkLexer, UriLexer.** `cond`, `stack` and `ucond`, `ustack` are YY_START and the
  stack of each scanner; an action is a rule, or the rules of conditions that do the
  same. A page is a sequence of tokens, a link one of parts: what one rule matches.
  The environment chooses each token, so pages are not enumerated; links are, in
  `Links`. `put` counts characters that an entity has put back with unput. `AtEnd` are
  the rules for the end of the file. `StartUri` to `SaveLink` is the call of `save_link` in
  a rule, during which LinkLexer does not move. `base` is `_base_uri`: what
  `generate_uri` makes of a page's url (`PageUri`), its port, query and fragment included;
  `Addresses` are the urls that pages may have.
* **Spider.** `queue` and `held` say where each `Url` is; `Deal` is the loop of
  `Global::init` that gives the seeds to the dnsers and passes over those that are no
  urls (`NoUrl`); `NextThread` is the thread that `MD5::shuffle` picks.
* **Utility, Url, Config, Startup.** A text is a sequence of tokens: a character that
  the code looks for, a digit, or a word in which it looks for none. `Apply` is one
  line of the configuration file, `Pieces` what `fgets` makes of a long one,
  `ConfiguredBy` the settings at the end of a file. `Words` to `IsCut` are no code: they say
  what a file asks for, by lines of any length. `Parse` is `Url::Url`, `Canonical` the text that
  `get_md5` digests; the digest itself is any function of it (`Digest`).

## The runs

All runs disable the deadlock check: every part may stop legitimately, when the
seeds are used up, when all consumers sleep, or when the process has ended.
Liveness properties say what may not stop.

### Passing

| Run | Instance | Checks |
|---|---|---|
| `squeue` | 3 threads, 2 values, pushes start on at most 2 elements | `OwnerHolds`: who is in a critical section owns the mutex, also after a cancellation. `NoLostWakeup`: while a consumer sleeps, there are not more elements than awake consumers and pending signals. `ImplementsFifo`: refinement of `FifoQueue`. `SleepersAreServed`: an element does not wait while a consumer sleeps. |
| `pages` | 2 threads, 2 pages, 4 pointers, 3 blocks; classes of 2 and 4 bytes, lengths 2, 3 and 5 | `CountIsHolders`: a count is the number of pointers that keep the object, at any moment between the steps of all threads. `NoDangling`: a pointer in use is to a page that exists. `NoLeak`: a page without pointers is being made or deleted. `BlockInOnePlace`: a block is on one list, once, or the content of one page. `PageFits`: the block of a page is large enough. |
| `dnser` | 2 dnsers, 4 seeds of 2 sites, one site split between the dnsers; an alias of an alias, and two names that are aliases of each other | `ContextIsLive`: a query in flight has an entry, and an entry one query. `HandedOverResolved`: a scheduler sees only urls with addresses of their own site. `ImplementsStage`: refinement of `Stage`; no url is lost or doubled, also when a whole list of waiting urls is given up at once. `EverySeedSettles`: every seed is handed over or given up, unless it is stranded by a failed `adns_submit` or its name leads into a ring of aliases. |
| `downloader` | 3 urls, 2 sites, 2 descriptors, 2 tries, 12 kinds of response | `PagesAreOfTheirSite`: no page is ever the answer of another site, whatever exits close sockets and reuse their numbers. `NoLeakedSocket`: every open one is in the map, unless a failing `fcntl` left it behind. `BufferReturned`: the header buffer is given back exactly once. `ImplementsStage`: refinement of `Stage`; retries neither lose nor double a url. `EveryUrlSettles`: every url that arrived is downloaded or given up in the end and stays so, unless `analysis` loops. `BodiesAreFramed`: the page of a response with a usual header is its body, whole, and what comes next in the connection is the head of an answer, or nothing, unless the chunks have a trailer. |
| `logger` | 2 threads, 3 messages each, threshold 1, 2 waits | `LogIsComplete`: disk, rest of `_secondary` and `_primary` together are what was logged, in order. `SecondaryExclusive`: nobody swaps while the writer is, or is about to be, on the buffer; this is why `_secondary` needs no lock. `FlushedUnlessSlow`: if no wait of the destructor ran out all is on disk. `BufferIsWritten`: if the disk works, a handed-over buffer gets written. `DestructorEnds`: the destructor ends if the disk works; if not, it comes through its bounded waits, and either ends or joins for ever a writer that is stuck in a write. |
| `lifecycle` | 2 pools of 2 threads, 2 retries, SIGTERM and SIGINT, handlers in any thread, the logger's included | `StateTellsTheTruth`: `_state` is RUNNING exactly for a thread that exists and is not joined. `LoggerOutlivesWorkers`. `TasksFindWorkers`: a failed start never leaves a task without a worker. `ShutdownCompletes`: once the flag is set, by a signal or a failed start, the process ends in order. Excepted are a signal that comes between the test of the flag and `pause()`, a handler deadlocked in the logger, a task in an endless loop, and a process that was killed or aborted. |
| `extractor` | 4 extractors, 15 pages, one or more of each kind of data and path | `FilesAreWhole`: a path with one writing extractor holds exactly one page. `GoodPagesAreSaved`: on a site with one extractor. `OnlyOddPagesEndIt`: nothing ends the process but a page without a name or without content. `BadDataEnds`: data that does not run out is not inflated for ever. |
| `links` | 2 pages of up to 6 tokens, with or without a port, query and fragment in their urls, 17 forms of links | `ConditionsLeadBack`: neither scanner pops an empty stack, `UriLexer`'s is empty after each link, and `LinkLexer`'s grows by nothing but the pairs an ignored value may leave. `LinksAreRight`: a link is resolved as RFC 2396 says unless it is of the kinds of `LedAstray`, and missed only if it is of those of `NotFollowed`; all are named below. `PagesEnd`: the end of a page ends the lexing inside whatever tag, value or comment it comes. |
| `spider` | a configuration file of 13 lines, three of them longer than the buffer, with 5 seeds, of which 2 are the same page, 2 are no urls and 1 has another port; 2 dnsers, 1 scheduler, 2 downloaders, 2 extractors, 2 retries | `StartsAsAsked`: in this file, and in every one of up to two of its lines, each key gets what its last line says, unless a line longer than the buffer is about it; threads, seeds and routes are what the file asks for. `KeysAreResources`: urls have one key exactly when they name one resource. `OneUser`: one queue or thread has a `Url` at any time, which is why it needs no lock. `SameUrlSameThread`: equal urls are never in two threads of a stage. `EverySeedEnds`: each seed is saved or dropped, unless it stands at a thread that never comes to an end with it, or, in a downloader or extractor, with a url before it. |

Where the code breaks a promise on a known path, the passing property excepts
that path, its comment names it, and so does the text above or below. The exceptions are
stated by what happens there, not by what is left out of a model: `Stranded` and `Chased` in
`EverySeedSettles`, `Stuck` in `DestructorEnds`, `IsCut` in `StartsAsAsked`, `LedAstray` and
`NotFollowed` in `LinksAreRight`; and each is a state or an input of the run. `EverySeedEnds` leaves
open why a thread of `Spider` does not come to an end with a url: the modules of the stages say
when that can be.

### Violations

| Run | Property | What TLC shows |
|---|---|---|
| `dnser_submit` | `JoinedQueryInFlight` | `submit_once` only logs an error of `adns_submit`. The entry stays in the table, later urls of the site join it, and nobody asks for it again. The dnser also never blocks in `pop` again: the table is not empty. |
| `downloader_leftover` | `PageIsTheRequestedOne` | The body of an error page is not read but the connection is kept. The next request gets what was left, and pages are stored under the wrong urls. |
| `extractor_race` | `PagesAreSaved` | Two extractors see a directory missing; the second `mkdir` fails with EEXIST, taken for an error, and that page is not saved. |

Other deviations met while modelling, visible in the actions but without a run of
their own:

* Aliases are followed without a limit: nothing reads `_has_dnsed_cname`, and names that
  are aliases of each other are asked for again and again (`dnser_task.cc:210`,
  `CheckCname`, `Chased` in `EverySeedSettles`).
* The logger's destructor sleeps a bounded number of times and then joins its writer
  without a bound: one that is stuck in a write keeps the process (`logger.cc:80`,
  `JoinWriter`, `Stuck` in `DestructorEnds`).
* A line of the configuration file that is longer than the buffer of `fgets` is read as
  several: seeds behind the cut are lost, and the rest of a comment may set a key
  (`global.cc:196`, `Pieces`, `IsCut` in `StartsAsAsked`).
* A header line without a colon, or with nothing after it, is looked at for ever
  (`page.h:200`, action `AnalyseLoops`).
* Deflate data without the zlib header and trailer, and data that is cut off,
  keep the loop around `inflate` going with Z_BUF_ERROR
  (`extractor_task.cc:200`, `InflateGoesOn`).
* A page without content ends the process in the link lexer (`link_lexer.l:285`,
  `ExtractFromNothing`), a file name of slashes only in `save_page`
  (`extractor_task.cc:295`, `NoName`).
* The two `fcntl` calls after `socket()` return without closing it
  (`downloader_task.cc:341-350`, `CreateConnectionLeaks`).
* Connections are kept per host name, whatever the port (`downloader_task.cc:180`).
* Paths on disk leave out the port and map `/` to `/index.html`, so two extractors
  may write one file and mix two pages (`extractor_task.cc:295`).
* A signal that is handled between the test of `_to_be_shutdown` and `pause()` is
  slept over: the process ends with the next one (`myjfm_spider.cc:303`, actions
  `Check` and `Pause` of `Lifecycle`).
* The handlers log: one that interrupts a thread inside `Logger::log` waits for ever
  for a mutex that this thread owns, and the flag is not set (`myjfm_spider.cc:91`,
  `HandlerDeadlocked` in `ShutdownCompletes`).
* The handlers stay installed after `delete glob` (`myjfm_spider.cc:292`).
* A signal handled by the logger's thread makes `sem_wait` return EINTR, and the
  process aborts (`semaphore.h:49`, `Deliver` of `Lifecycle`).
* `stop_blocking` joins a cancelled thread that may be in a loop without a
  cancellation point, and so waits for ever (`thread.cc:123`, `Loops`).
* A tight `Content-Length:5` or `Connection:close` loses the first character of its
  value (`page.h:203`, `Value` of `HttpHeader`); a `Content-Length` that follows `chunked`
  wins over it. Of a trailer behind the chunks only the first line is read, and the rest
  stays in the connection (`downloader_task.cc:545`, `RecvByChunk`).
* A host in capital letters and a fragment stay in the canonical url, so they make
  other keys for the same resource, and port 0 has the key of port 80 (`url.cc:180`,
  `Canonical`).
* A link with a relative path is missed: `uri_merge` leaves its loop for S_FAIL
  after `path_merge` has succeeded (`uri_lexer.l:534-539`, `Mergeable`). So is a link that
  is only a query, of which the scanner goes to FRAGMENT (`uri_lexer.l:295`, `AbsPath`).
* A link to a host without a path gets the path of the page (`uri_lexer.l:530`,
  `Merged`); in a reg_name the host is overwritten (`uri_lexer.l:219-242`, `RegName`).
* A link with a scheme and no host, `http:/dir`, gets the host of the page (`uri_lexer.l:521`,
  `Merged`), where the comment above that line has "a scheme or an authority". A link into
  the page itself, `#f`, loses the query of the page's url, and so leads to another
  document (`uri_lexer.l:530-548`, `PageItself` in `LedAstray`).
* An ignored value followed by `>` leaves two conditions on the stack for good
  (`link_lexer.l:173`, `IgnoreValue`), so the stack of an extractor grows with its pages.
* No rule enters BASE, so `<base>` is ignored; hexadecimal character references are
  dropped (`link_lexer.l:226`); `attr=>` with an ignored `attr` goes to flex's default
  rule, which echoes (`link_lexer.l:170`).
* The scheduler does not drop urls that were downloaded before and no extracted
  link is put into a dnser's queue, contrary to the repository's README.

### Bounds, and why they are enough

* `squeue`: a lost wake-up needs one sleeper, one consumer that overtakes it and
  one producer: three threads. Two values tell order. `Cap` bounds only the length
  at which a push may start; the proofs hold for every value.
* `pages`: a count goes wrong when a thread drops a pointer while another copies
  one: two threads, each with a source and a target. Two pages show a pointer moved
  from one to the other and a block passed on; the third block makes lists of two.
  The lengths lie on both sides of the border of the classes, and 5 is above the
  largest, which is not pooled. The proofs hold for every number of each.
* `dnser`: one site resolved by two dnsers shows the shared cache; two urls of one
  site in one dnser show joining; a second site shows independence. One
  site has a chain of two aliases, the other a ring of two (`MCAliases`); nothing bounds
  how often they are followed.
* `downloader`: two urls on one site show reuse of a connection, the second site
  shows reuse of a descriptor's number, two tries give a retry after each kind of
  failure and then the end of retries. With two descriptors, exhaustion happens. The
  kinds of response are one for each branch of `analysis` and of the reading of the
  body; their bodies contain what looks like sizes, ends of lines and ends of headers.
  A chunk of twelve bytes has a size with a letter and a leading zero. `UintMax` is 9999
  for 2^32 - 1, so that a `Content-Length` of 7000 is one that an int32_t makes negative.
* `logger`: with a threshold of 1 and three messages per thread the buffers are
  swapped several times while a backlog builds up. The writer may be stuck in any write. `MaxWaits` is 2 for the code's
  5; the code's only use of it is a comparison.
* `lifecycle`: two pools show the order between pools, two threads the order in a
  pool; a second signal shows SA_RESETHAND. `MaxRetry` is 2. The logger's thread is
  one more for a handler to run in.
* `extractor`: one page per kind of encoding, data and path; two extractors on one
  path and on separate sites; each queue ends with a page that does not return.
* `links`: a link in a tag takes four or five tokens, so six leave room for an entity
  or an ignored value before it; the second page starts on whatever stack the first
  one left. One url of a page has nothing but a path, the other a port, a query and a
  fragment (`MCAddresses`). Entities of one and two characters; larger ones repeat the second.
* `spider`: two threads in each stage that may have several, so that routing
  matters; two equal seeds and a different one. `LineMax` is 30 for the code's buffer.
  Three lines are longer: one of file types, one of seeds, whose last is behind the cut, and
  a comment whose rest sets `DNSERS`. `FileMax` is 2: in two lines one hides the
  other, or does not. `KeysAreResources` takes every
  combination of two hosts, four files and five ways to write a port (`MCHosts`, `MCFiles`,
  `MCPorts`); its theorem holds for any.

### Fairness, and why the code justifies it

* `SQueue`: weak fairness for a thread inside an operation, strong fairness for
  getting a mutex that is free again and again. Nothing makes a thread call.
* `Pages`: none; its properties are invariants.
* `Dnser`: weak fairness of the dealing, which is a loop of `main`, and of each dnser's
  loop; strong fairness of the answer to a query
  that is polled again and again, because adns retries and gives up by itself. No
  fairness for a query that is not polled: a dnser that blocks with queries
  pending would show up.
* `Downloader`: weak fairness of the loop. `connect` is bounded by `select`, send
  and receive by SO_SNDTIMEO and SO_RCVTIMEO.
* `Logger`: weak fairness for a thread inside `log` and for the destructor, and for the
  cancellation of a writer that waits in `sem_wait`; none for the writer's own work, whose
  disk may hang. `BufferIsWritten` and the second half of `DestructorEnds` state the
  writer's fairness as their hypothesis.
* `Lifecycle`: strong fairness of `main` and the handler, which may compete for the
  logger's mutex; a worker leaves `log`, and a cancelled one reaches a cancellation
  point, as all its tasks do in their waits and system calls, unless it is caught in
  an endless loop, which fairness does not exclude. No signal need come. That `delete glob`
  returns assumes that the disk takes what the logger writes, as in `DestructorEnds`.
* `Extractor`: calls of zlib and the file system return. The steps that end the
  process are not fair, so no property holds just because the process is gone.
* `LinkLexer`: weak fairness of the steps that need no input: characters put back,
  the rules for the end of the file, the scanning of a link. Nothing makes a page end.
* `Spider`: weak fairness of the dealing, of taking from a queue by a thread that is done with
  what it holds, and of the schedulers, which wait for nothing but their queues. None for
  the other stages, which may never come to an end with a url: behind a failed
  `adns_submit` or a ring of aliases, in `analysis`, around `inflate`. `EverySeedEnds` says that
  only such a thread can stop a seed, and which seeds; `EverySeedSettles`, `EveryUrlSettles`
  and `BadDataEnds` say when a thread is one.

## What is proved

`SQueueProofs` proves, for any finite set of threads, any values and any `Cap`:

| Theorem | Statement |
|---|---|
| `InvariantHolds` | `Spec => []IInv` |
| `TypeCorrect` | `Spec => []TypeOK` |
| `LockDiscipline` | `Spec => []OwnerHolds` |
| `WakeupsAreNotLost` | `Spec => []NoLostWakeup` |
| `QueueIsFifo` | `Spec => ImplementsFifo`, that is, `SQueue` refines `FifoQueue` |

The assumptions are the three of `SQueue`: `Threads` is finite, `Nobody` is no
thread, `Cap` is a natural number. TLC evaluates them in the run `squeue`.

The inductive invariant `IInv` is `TypeOK /\ OwnerHolds /\ Carries /\
NoLostWakeup`. `OwnerHolds` makes the steps inside a critical section exclusive:
only the owner changes the queue, so nobody else is between its test of the queue
and its wait. `Carries` says that a thread on its way to append carries a value;
without it the type of the queue is not preserved. `NoLostWakeup` is the counting
argument: `push` adds an element and a signaller; `Signal` turns a signaller into
a popper, or finds that nobody sleeps; a popper leaves with an element, or sleeps
on an empty queue. The proof splits by action; actions that disturb
only one side of the count share `NoLossByCounting`, and `PushKeepsWakeups`,
`SignalKeepsWakeups` and `PopKeepsWakeups` treat the others with the cardinality
theorems of the library. The refinement maps `contents` to `queue` and `out` to
`out`; `StepRefines` shows that each step is a step of `FifoQueue` or a stutter.

`PagesProofs` proves, for any threads, pages, blocks and finite set
of pointers, and any classes and lengths:

| Theorem | Statement |
|---|---|
| `CountsAreInvariant` | `Spec => []IInv` |
| `CountsAreHolders`, `NothingDangles`, `DeletionIsExclusive`, `NothingLeaks` | `Spec => []CountIsHolders`, `NoDangling`, `DeletedAlone`, `NoLeak` |
| `PagesInvariant` | `Spec => []PagesInv` |
| `TypeCorrect`, `BlocksAreInOnePlace`, `PagesFit`, `EverythingIsFreed` | `Spec => []TypeOK`, `BlockInOnePlace`, `PageFits`, `AllFreed` |

The assumptions are those of the three modules: `PointersFinite`; `NullIsNoObject`,
`NoPointerIsNone`, `NoBlockIsNone` and `NoLengthIsNone`, that the values for "none" are
none; `ClassesAreSizes`, `LengthsAreSizes` and `LargestIsTheLast`, that classes and
lengths are numbers and the largest class is one of them.

`IInv` is `Shape /\ Alone /\ CountIsHolders /\ HeldExists /\ NoLeak`. `CountIsHolders`
is not inductive alone: a pointer that a thread is about to count, or has counted
down already, is not a holder, and the proof must know that no other thread reads or
writes it. That is `Exclusive` in `Shape`. `HasObject` says that a thread about to
count has an object, and that its source still points to it, so the count cannot
have fallen to zero in between. `Alone` is the argument of `DeletedAlone`: who found
the count at zero found no holder, an object without a holder cannot be copied, and
so nobody can make a new one. `HeldExists` gives `NoDangling`. The proof counts with
the cardinality theorems of the library: each step adds one pointer to the holders
of an object, removes one, or leaves them.

`PagesInv` adds where the blocks are. `Headers` ties what `put_memory` reads to what
`malloc` was asked for; `ListsMatch` says that a block is on the list of its header;
`Room` that a page is not larger than its header says; `Accounted`, `Apart`, `Sole`
and `NoTwice` are the parts of `BlockInOnePlace`, stated so that each step disturbs
few of them; `ClosedQuiet` says that nothing moves after the pool is gone. Every step
of `Pages` is a step of `Shared` or leaves it (`StepIsShared`), so `IInv` carries over,
and `Alone` gives that a page whose content is put back has no user. `PageFits`
needs that `AdjustSize` does not make a length smaller, that is, that a set of numbers
has a minimum. This is a form of induction; the proof takes it from the library's
theorem that finite sets under strict inclusion are well-founded, applied to the
intervals up to the elements (`NonemptyHasMin`).

`SpiderProofs` proves, for any threads, urls, keys, seeds, routing and retries:

| Theorem | Statement |
|---|---|
| `TypeCorrect` | `Spec => []TypeOK` |
| `EqualUrlsMeet` | `Spec => []SameUrlSameThread` |
| `UrlsHaveOneUser` | `Spec => []OneUser` |
| `SpiderIsAStage` | `Spec => ImplementsStage`, that is, the pipeline as a whole refines `Stage` |
| `UrlsOnlyGoForward` | `Spec => UrlsGoForward`: no step takes a url back, and every step but a deal takes one on |
| `KeysNameResources` | `Spec => []KeysAreResources`, for any hosts, files and ports |

The assumptions are those of `Spider`: `KeyOfType`, `SeedsType`, `ShuffleType` and
`MaxRetriesType` give the types of the constants, `NoUrlIsNoUrl` that a seed which is no
url has no object, `SeedsAreObjects` that each other seed is an object of its own, `StagesAreDisjoint` that a thread has one stage. `EqualUrlsMeet` rests
on `Routed`: a url is only where the routing of its key leads, and retries go back to
the same queue. `UrlsHaveOneUser` rests on `Sole`, that no url is in two places or twice
in one, and on `SeedsAreThere`, that seeds not yet dealt are nowhere, so that dealing
one doubles nothing, and dealt ones are somewhere.

The same invariant gives the refinement: `PlacesAreKnown` says that a seed's place can be
read off `Dealt`, `saved` and `lost` alone, and `StepKnown` that a step deals one, ends
with one, or moves none as `Stage` sees it. `UrlsOnlyGoForward` is the safety half of
`EverySeedEnds`: `Progress` counts stage, retries and whether a thread has taken the url, is
never lowered, and is bounded by `MaxRetries`; so only as many steps are possible as the urls have left
to go. Which of these steps are taken is a matter of fairness, and of the threads that never come
to an end with a url; that stays with the run.

`KeysNameResources` needs nothing of `Spider`, but the assumptions of `Url` on the texts urls
are made of: `HostsType`, a host is a text without a slash or a colon, `PortsType`, a port is
left out or written in digits with a value from 1 to 65535, and `FilesType`, a file is left out
or begins with a slash. `ParseIs` says that the parser gives back what was written: where
`Find` stops, and that `Str2Integer` of digits is their number (`PortIsRead`), with zeros in
front or without. `CanonicalsDiffer` is the other half, that the text made of site, port and
file tells them apart: hosts have no colon and files start with a slash, so that two texts that
are alike divide at the same places (`DividedAlike`), and `Integer2Str` writes different
numbers differently (`NumbersDiffer`).

`Integer2Str` and `NumberOf` are recursive functions. That such a function is what its
definition says, and not just a value of `CHOOSE`, is proved first: there is a function that
solves the equation (`RecursionHasSolution`), built from solutions for arguments up to `n`.
Each induction is one on the least counterexample, a set of numbers without a least member being
empty (`LeastIs`, from the library's theorem that `<` is well-founded on `Nat`).

`LoggerProofs` proves, for any threads, messages, threshold and number of waits:

| Theorem | Statement |
|---|---|
| `LoggerInvariant` | `Spec => []IInv` |
| `TypeCorrect` | `Spec => []TypeOK` |
| `NothingIsLost` | `Spec => []LogIsComplete` |
| `OneUserOfSecondary` | `Spec => []SecondaryExclusive` |
| `EverythingIsFlushed` | `Spec => []FlushedUnlessSlow` |

The assumptions are those of `Logger`: `NobodyIsNoThread`, and `ThresholdType`,
`MaxWaitsType` and `MaxLogsType`, that the three bounds are natural numbers. The
invariant is `Control /\ LogIsComplete /\ Drained`. In `Control`, `Locked` and
`Logging` are the mutex and what `log` knows while it holds it; `OneToken` is why
`_secondary` needs no lock: an empty buffer means no post is left and the writer
waits, so the right to use the buffer is a post, the writer at work, or, with
neither, the swapper. `SecondaryExclusive` alone is not inductive, since a swapper that
has just tested the buffer relies on it. `LogIsComplete` then needs only facts about
sequences: a swap moves all of `_primary` to an empty `_secondary`, and the writer
moves the element at its `Position` from one side of a concatenation to the other
(`MoveOne`). `Drained` carries what a wait of the destructor has seen to its end.

`LifecycleProofs` proves, for any number of pools, workers and retries, any signals,
and handlers run in whichever thread:

| Theorem | Statement |
|---|---|
| `LifecycleInvariant` | `Spec => []IInv` |
| `TypeCorrect` | `Spec => []TypeOK` |
| `StatesAreTrue` | `Spec => []StateTellsTheTruth` |
| `LoggerIsDeletedLast` | `Spec => []LoggerOutlivesWorkers` |
| `TasksHaveWorkers` | `Spec => []TasksFindWorkers` |

The assumptions are those of `Lifecycle`: `NPoolsType`, `PoolSizeType` and
`MaxRetryType`, that there are workers and the retries are a number; `MainIsNoWorker` and
`WriterIsNoWorker`; `HandlersRunInType`. `main` walks through the pools to start the workers, to
add the tasks, and to cancel and join each worker; `Before` is what it has been at, and `Starting` and `Stopping` say what it leaves
behind it: on the way in, waiting workers without tasks; on the way out, threads that are gone.
`LoggerOutlivesWorkers` follows because the logger is deleted after the last walk
(`NextIndexGoes` says that a walk ends when it has been everywhere). `Enough`
is the counting argument of `TasksFindWorkers`: the tasks of a pool and those `main` will
still add are at most its idle workers; a worker that takes a task lowers both.

`ExtractorProofs` proves, for any extractors, pages, paths, data and sizes:

| Theorem | Statement |
|---|---|
| `ExtractorInvariant` | `Spec => []IInv` |
| `TypeCorrect` | `Spec => []TypeOK` |
| `BuffersAreReturned` | `Spec => []CacheIsReturned` |
| `OnlyCompletePages` | `Spec => []Complete`: what reaches `save_page` could be decoded and is there to its end |
| `OnlyOddPagesStop` | `Spec => []OnlyOddPagesEndIt` |
| `FilesStayWhole` | `Spec => []FilesAreWhole` |
| `GoodPagesGetSaved` | `Spec => []GoodPagesAreSaved` |
| `ExtractorsOnlyGoForward` | `Spec => ExtractorsGoForward`: every step that changes anything ends the process, or takes one extractor further through its pages and leaves the others alone; one at data that has run out is taken no further by any step |
| `ExtractorsAreAStage` | `Spec => ImplementsStage`, that is, `Extractor` refines `Stage` |
| `ConditionsLeadBackThm` | `LexerSpec => []ConditionsLeadBack`, for the link lexer |
| `EndsOnlyComeCloser` | `LexerSpec => EndComesCloser`: from the end of a page on, every step takes the scanner further out of what was left open |
| `LinksStayRight` | `WellWritten => (LexerSpec => []LinksAreRight)`, for the links of any pages, whatever is in their urls |

The assumptions are those of `Extractor` that give the types of its constants
(`QueuedType`, `EncodingType`, `DataType`, `SizeType`, `FileTextType`, `PathType`), that a
page is an object, in one queue and there once (`PagesAreObjects`), and that "no page" is none
(`NoPageIsNoPage`). What `SavePath` makes of a file's name (`PathIsSavePath`) is used for
`OnlyOddPagesStop` alone: the others hold for any paths with a first name. `Complete` is not inductive:
the second attempt with the dummy header counts the blocks that inflate gives from 0
again, but not the page's. `Counted` says why this doubles nothing that is saved: data for
which inflate asks to start again either has given no block before, or gives none
afterwards and ends in an error.

The two about the directory tree rest on `TreeInv`. Since nothing is ever removed,
`FilesAreEnds` and `DirsAreAbove` hold: a file is where some page's path ends, and a
directory where some page's path goes on. For a page whose path is free, what `access()` finds is
therefore a directory (`DirsMade`), and what it does not find nobody else makes before
`mkdir()` if the site is one extractor's alone (`StillMissing`), so that neither fails;
at the end the parent is a directory and the file's own name is none. `Emptied` is the
argument of `FilesAreWhole`: between the opening, which truncates, and the write no
other extractor writes to the path. `OneExtractor` derives all of this from
`PagesAreObjects`: two pages of one site, or of one path, that are in the hands of two
extractors would be in two queues.

For `OnlyOddPagesStop` one must know for which texts `Split` gives no part. `Split` says
where the parts begin and end instead of going through the text, so this needs no induction
over the text: `NothingToSplit` takes the first character that is no separator and the first separator
behind it, and finds a part between them. With it, a path that is the site alone is that of a
file of slashes (`OnlySiteIsNameless`).

`InTurn` is the invariant for the refinement: how much of a queue is taken is the
difference of two lengths, the page in hand is the last one taken, and those before it are done, and no
others. A page that is not done is therefore in one spot and a page that is done in none
(`OneSpot`), and a step is one of `Stage`'s or a stutter (`StepPut`).

`ExtractorsGoForward` and `EndComesCloser` are what the liveness properties `BadDataEnds` and
`PagesEnd` rest on beside fairness: a number that each step makes smaller, so that there are
only so many steps. For an extractor it is the pages in its queue, and for the page in its
hands `WorkLeft`: the blocks to inflate, twice as long as the dummy header has not been tried,
and two steps for each name of the path. That it never goes below zero are `Counted` and
`OnTheWay`. The one loop that may not end, inflate on data that runs out
(`extractor_task.cc:200`, `Stalls`), changes nothing, and so is not among the steps that the first
half of `ExtractorsGoForward` speaks of; the second half says of it what the code does, that the
extractor stays there for ever (`StalledStays`). Termination is therefore a fact about data that
does not run out, as in `BadDataEnds`. For the scanner it is `LeftAtEnd`: the rules that a link in `UriLexer` has
before it, and the conditions on the stack, of which no rule for the end pushes one.

`ConditionsLeadBackThm` is about `LinkLexer` and `UriLexer`, for links and pages of any
length; of their constants nothing is assumed. `StackIs` describes the stack of start
conditions: pairs (`INITIAL` and a tag's condition) that ignored values have left, and above
them what is open: a tag, a value in it, a quote in that, an entity in that. `PutBack`
says that characters are put back with `unput` in `ENTITY` alone, where the stack is
higher by their number. Every rule keeps this, pushes one condition, or pops one (`StaysIn`, `GoesIn`,
`GoesBack`); that the conditions lead back then follows from the shape of the stack
(`InvLeadsBack`), and not from the rules.

`LinksStayRight` is for any number of pages, of any length, any port, query and fragment in
their urls, and any set of links in which
each is written as RFC 2396 says (`WellWritten`): `IsReference` puts the parts in the order
of the grammar, a user and a port only behind `//`, one text at the front of a relative
path, and behind a scheme something that is no fragment. There are 356 such links, and the
forms of the run are among them, which TLC evaluates (`FormsAreReferences`). For other texts
there is nothing to compare with. The invariant `LinkInv` says of each condition of
`UriLexer` what it knows of the link (`UriIs`): what is not matched yet is what the link has
from some place of the order on (`Remaining`), the parts before it are in `_uri` or the link
does not have them, and whether there was a scheme is what the stack remembers at its bottom
(`WayIs`), off which `ABS_PATH` reads it. Links that get lost keep a path of which nothing
comes (`Unfollowed`) or nothing at all (`QueryAlone`), and these are of the kinds of
`NotFollowed`. `Resolved` is section 5.2 of RFC 2396, read strictly: a scheme makes a link
absolute, and a link into the page itself keeps the page's query; where `uri_merge` does
otherwise is `LedAstray`, in terms of the link and of the page's url. Each rule keeps this (`SchemeKeeps` to `FragmentKeeps`; for `ABS_PATH` with
and without an authority, `ServerPathKeeps` and `BarePathKeeps`), and at `ACCEPT`
`save_link` pushes what `Resolved` says (`SavedIs`) or has a reason not to (`MissedIs`).
That the stack is as `ConditionsLeadBackThm` has it is a part of the argument: a condition
left on it by an earlier link would be taken for this one's.

`DnserProofs` proves, for any dnsers, schedulers, urls, seeds, sites and answers, any
routing, and any aliases, chains and rings of them included:

| Theorem | Statement |
|---|---|
| `DnserInvariant` | `Spec => []IInv` |
| `TypeCorrect` | `Spec => []TypeOK` |
| `ContextsStayLive` | `Spec => []ContextIsLive` |
| `UrlsAreResolved` | `Spec => []HandedOverResolved` |
| `DnsersAreAStage` | `Spec => ImplementsStage`, that is, `Dnser` refines `Stage` |

The assumptions are those of `Dnser`: the types of its constants (`SeedsAreUrls`,
`SiteOfType`, `HomeType`, `TargetType`, `AliasesType`), that sites are names
(`SitesAreNames`), that every seed is an object of its
own (`SeedsAreObjects`) and "no url" none (`NoUrlIsNoUrl`), and that an answer is a set of
addresses that is not empty (`AnswersType`). `ContextIsLive` is not inductive: when the
entry of an answered site goes, `AnswerIsLast` must say that no query still points to it.
`HandedOverResolved` needs to know that what a dnser has in hand was found for that site:
`EntriesOfSite` for the urls of an entry, `CacheIsRight` and `FoundIsRight` for the addresses,
whichever dnser has put them into the cache.

The refinement rests on `UrlInv`, `IInv /\ Control /\ Sole`. `Sole` says that the seeds are
split into six places without a remainder: to come, in a queue, in hand, in the table,
passed on, given up. `Routed` says that one queue, one entry and one scheduler are enough
to look for a url in, `Hands` when a dnser has one in hand and how far a delivery may be,
`NoRepetitions` that a url is once in a sequence. Each action has a lemma that says which
url it moves from where to where (`DealMoves` to `CheckFailMoves`); with these `Sole` is
kept by set algebra, `Occurrences` is 1 (`PlaceIsKnown`), and a step is one of `Stage`'s or a
stutter (`StepRefines`).

`DownloaderProofs` proves, for any urls, arrivals, sites, descriptors, responses and number
of tries:

| Theorem | Statement |
|---|---|
| `DownloaderInvariant` | `Spec => []IInv` |
| `MapStaysLive` | `Spec => []MapIsLive` |
| `SocketsAreKnown` | `Spec => []NoLeakedSocket` |
| `BuffersGoBack` | `Spec => []BufferReturned` |
| `PagesComeFromTheirSite` | `Spec => []PagesAreOfTheirSite` |
| `RequestedPages` | `AllClean => (Spec => []PageIsTheRequestedOne)` |
| `BodiesStayFramed` | `Spec => BodiesAreFramed` |
| `DownloaderIsAStage` | `Spec => ImplementsStage`, that is, `Downloader` refines `Stage` |
| `TriesRunOut` | `Spec => RetriesRunOut`: no step takes a url back, and each takes one closer to its end or brings another |

The assumptions used are `ArrivalsType`, `EachArrivesOnce` (the scheduler pushes each
object once), `SiteOfType`, `MaxRetriesType`, `NoUrlIsNoUrl` and `NoFdIsNoFd`. Nothing is assumed of what
servers send, but for `RequestedPages` and `BodiesStayFramed`: the first invariant leaves the contents of the connections
out. It is `Shape /\ InHand /\ Sockets /\ BufferReturned`. `InHand` says that from the connection to the end of the
iteration the descriptor in hand is the one the map has for the site, so that an exit that
closes it and erases the entry keeps both in step; `LeakedApart` that what a failing
`fcntl` left open is none of the map's, so that the kernel's reuse of numbers
cannot bring it back. For the refinement `StepMovesUrls` reduces the actions to six
ways to move a url, and `Sole` is kept under each.

`RetriesRunOut` is what `EveryUrlSettles` rests on beside fairness. The number that falls,
`TriesLeft`, is the retries that a url has left and, after those, the way through
`main_loop`: going back to the queue costs a retry and so is less than it was. That needs
`RetryInv`: whoever is past the admission has a retry left, since a url whose counter is at
the limit is dropped there, so that each count that is raised stays below or at it. `StepTakesOn` says of each
exit of `main_loop` whether it counts a try, goes on or is done with the url. An
`analysis` that never returns is no step and is outside of it, as it is outside of
`EveryUrlSettles`.

Three theorems are about what is in the connections. `SiteInv` says that what is to be read from a
connection of the map are pieces of answers of its site (`From`), and that from any other
descriptor nothing is to be read, so that whichever the kernel gives out starts empty. `From`
is kept by all that is done with a stream: pieces are appended, taken off or cut, wherever
a header seems to end (`BehindIsFrom`). `PagesAreOfTheirSite` follows, for any responses:
the confusion that the run `downloader_leftover` shows stays among the urls of one site.
`RequestedPages` says when there is none at all: `AllClean` asks of each response that
nothing of it stays in a connection that is kept, and that its page, if it gives one, is its
body. Then only the connection on which a response is awaited has something to read, and
that is this response (`Quiet`, `Answered`), whatever else fails and however often
it is tried. Six of the twelve responses of the runs are clean, among them the usual ones,
with a length (`LengthsAreClean`, which TLC evaluates on every run) and in chunks; what is
not clean are unread bodies of other statuses and unknown codings, lengths that do not fit or
come behind `chunked`, long headers and trailers. `AllClean` is
about the constants and is not needed for any other theorem.

`BodiesStayFramed` is for any number of header lines, bodies and chunks, whatever they are made
of. Its assumptions are those of `HttpHeader` and `Body`: the types (`LinesType`, `BodiesType`,
`BytesAreStrings`, `UintMaxType`); `ChunksAreSized`, that the size in front of a chunk is the
number of its bytes; and `LengthsAreTrue`, that a Content-Length is that of its body. They say
that the server writes what it means; that the downloader reads it so is the theorem. Its data
half is `UsualIsWhole`: `UsualIsAnalysed` follows `analysis` through the lines of a header,
and `ChunksAreRead` follows `recv_by_chunk` through the chunks, each of which is read to its
last byte and no further (`ChunkIsRead`), whatever it contains. The other half is
the invariant `FrameInv`: between the head of an answer and the next there is its body, whole, or
nothing, in every connection, whatever was read before. It needs no usual header: a body read
to a wrong end leaves a rest without a head, which `Framed` allows in front of the first head.
That the connection is empty behind such a page does not follow, and does not hold of every
response; hence "the head of an answer or nothing" in the property.

Where a recursive function is followed (`analysis`, the chunks, the digits of sizes and lengths),
`RecursionHasSolution` shows that it is what its definition says, and `UpThere` and `DownThere`
that it gives a value at each place, by the least counterexample.

The types of `SQueue`, `Pages`, `Spider`, `Logger`, `Lifecycle`, `Extractor` and `Dnser`, and
`DeletedAlone`, `CacheIsReturned`, `MapIsLive`, `UrlsGoForward`, `RetriesRunOut`,
`ExtractorsGoForward`, `EndComesCloser` and `ImplementsStage` of `Spider` and of `Extractor`, are
proved and are not checked by the runs as well.

### Only model-checked

* All liveness properties: they rest on fairness and ENABLED, which the prover
  does not handle. What each step of `Spider`, `Downloader`, `Extractor` and `LinkLexer`
  takes closer to its end is proved (`UrlsGoForward`, `RetriesRunOut`, `ExtractorsGoForward`,
  `EndComesCloser`).
* `StartsAsAsked`, which compares what `parse_config` makes of the files of up to `FileMax` of
  the lines of a file, and of the file itself, with what they ask for; it is a fact about
  constants, which TLC computes.
* The library's induction theorems take an operator as a parameter and cannot be used. The
  inductions of `SpiderProofs` and `DownloaderProofs` are on least counterexamples instead; no
  module declares a RECURSIVE operator.

## Not modelled, and why

* The hash table: only its own test uses it, no part of the program. Read in passing:
  `insert` links a new node to the successor of its bucket's first node and not to that
  node, which is lost (`hash.h:240`).
* The event loop: created by the downloader but never run, and no event is added.
* The command line, the opening of files, the test of the save path, the fallback of
  the logger to the console: I/O without state.
* The arithmetic of the MD5 digest: `Digest` is any function of the canonical url.
  `get_file_full_path`, `str2hex`, `escape` and other helpers on whose results no state
  depends.
* adns and zlib: vendored; they appear as external actions.
* Of response headers the type, the charset, the content coding and the location,
  which a page only carries along; whether `Extractor` meets each coding is a
  constant of its own run.
* Ports of connections: `_sock_fd_map` is keyed by the host alone.
* Sizes next to 2^32: lengths that overflow with the header of a block
  (`memory_pool.cc:95`), chunk sizes that overflow with the two bytes behind the chunk.
  Content lengths keep their width. `get_size`, which nobody calls.
* DNSERS, SCHEDULERS or other counts of 0, with which `init` has no queue to push a
  seed into (`global.cc:143`). The sample configuration's key INTERVAL is unknown to
  `parse_config` and is skipped, as in the run.
* The buffers that `Downloader` and `Extractor` borrow from the pool are counted there
  and are not blocks of `Pages`.
* `stop_nonblocking` and detached threads: not used by the program.
* `url_test.cc:39` asserts a file without its leading slash, which the parser
  does not give; it is taken for an error of the test.

## Plan

Done: `FifoQueue`, `SQueue` and its proofs, `Dnser`, `Downloader`, `Logger`,
`Lifecycle`, `Extractor`, `Spider`, in this order: first the queue on which every
stage depends, then the stages with asynchronous or failing partners, then the
process around them, then the composition and its proofs; then `Shared`, `MemoryPool`
and `Pages` with their proofs; then `UriLexer` and `LinkLexer`; then the proofs about
`Logger`, `Lifecycle` and `Extractor`; then `Utility`, `Url`, `Config`, `Startup` and
`Crawl`, the start of the program; `HttpHeader` and `Body`, what goes through a
connection; `Stage` and the two refinements of it; signals in the logger's thread and
tasks that cannot be cancelled; the proofs about `Downloader` and `Dnser`; then
`ConditionsLeadBack`, `OnlyOddPagesEndIt`, whose answers a downloader's pages are, and the
refinements of `Stage` by `Extractor` and `Spider`; then `KeysAreResources`,
`BodiesAreFramed` and `LinksAreRight` for data of any size, and the variants of
`Extractor`, `LinkLexer` and `Downloader`.

Next, to model: ports of kept connections; sizes that overflow 32 bits.

Next, to prove: a variant for `Dnser`, as `UrlsGoForward` is for `Spider`, for sites whose
aliases form no ring. Its polling of the resolver goes on by design.
