# scrawl in TLA+

scrawl is a web crawler: a *spider* process that takes URLs over thrift, resolves hosts,
keeps one fetch per site and a fetch interval, downloads pages and appends them to data
files; client programs that send it files of URLs or queries, among them a *dispatcher*
that spreads URLs over several spiders; and batch tools that filter queries, extract
fields from stored pages and merge search results. This directory holds TLA+ models of
the parts of it that are hard to test, TLC instances that check them, and TLAPS proofs of
the properties that matter most.

Paths below are relative to the repository. `SRM` is `src/spider/SpiderResManager.cc`.

## 1. Inventory

| component | state it keeps | operations | talks to |
|---|---|---|---|
| scheduler, `SRM` | `res_list_`, `sites_map_`, `is_running_`; one `Website` per site (list of resources, `is_fetching_`, `dns_is_resolving_`, DNS state, retry counts) | `submit` (thrift threads), the loops of `svc` (one thread), start with the dump file, exit with a dump | every pool below, through queues only |
| sites and messages, `src/spider/message.cc` | per site the addresses, whose turn it is, the time of the last fetch | `httpRequest`, `httpResult`, `dnsRequest`, `dnsResult` | scheduler |
| bounded queues, `common/utils/simple_queue.h` | a `std::queue`, a size, a mutex, two condition variables | `push` (may refuse), `push_wait` (blocks), `pop` (may give nothing), `wait_pop` | all threads |
| DNS resolvers, `src/spider/dns.cc` | request and answer queue, `is_running_`, the host each thread resolves | `submit`, `getResult`, thread loop, `stop` | scheduler |
| rate limiter, `src/spider/TimeWait.cc` | wait and ready queue, libevent timers | `add`, `getReady`, two event handlers, `stop` | scheduler |
| downloader, `src/spider/download.cc`, `conn.h` | request and result queue; per connection descriptor, state, buffers, event | `submit`, `getResult`, clock handler, connection handler, `stop` | scheduler, HTTP servers |
| storage, `src/spider/storage.cc` | result queue; per thread the open file, its number, the hour of the last switch, an HTTP parser with its message | `submit`, thread loop, `init`, `write`, `switch_file`, `stop` | scheduler, file system |
| HTTP parsing, `common/http_parser/HttpParser.cc` | the message filled in by callbacks, reused from page to page | callbacks for a header's name and value and for the body, reset | storage |
| server process, `src/spider/main.cc` | `g_spider`, `g_server` | thrift handler, signal handler | scheduler |
| dispatcher, `src/client/dispatcher.cpp`, `ThriftClientWrapper.cpp` | `client_`, `send_num_`, shared by its threads without a lock; connections with a status and a time, `last_client_index_` | `submit`, `client`, `connect`, `send` | spiders |
| batch clients, `query_client.cpp`, `query_client2.cpp`, `search_list_client.cpp` | the place in the file, the client and how many lines it has had | read, send, retry, switch servers | spiders, dispatcher |
| readers of lines and of JSON records, `io_ops.h` and four programs | a buffer, what is valid in it, the place in it | fill, cut out or parse, move the rest to the front | file system, callbacks |
| query filter, `src/query_filter` | the line buffer, two output files | one loop | a query analysis library |
| extractors, `src/extractor` | templates of hosts; per page what has been tried | read, try the templates in order, write | readers above |
| merge tool, `src/data_merge` | two result lists, their similarities and orders; a word map | sort, renumber, write | readers above |
| consistent hashing, `test/consistent.h` | the ring, the replicas of each server | `AddNode`, `RemoveNode`, `GetNode` | |
| trie and hash table, `common/datrie`, `common/hashtable` | the double array; uthash buckets | build and look up; `Add`, `Get`, `Del`, `Dump`, `Load` | |

How a page gets through the spider: a thrift thread appends the resource to `res_list_`;
`svc` puts it into its site and asks DNS; a resolver answers; `svc` makes a request and
gives it to the rate limiter; its timer makes it ready; `svc` gives it to the downloader;
a connection ends with one result; `svc` either puts the resource back (a retry) or gives
the result to the storage, whose thread writes one record. `svc` never waits for an
answer: it polls four queues in rounds. It does wait when a *request* queue is full, and
the workers never wait: a full *result* queue makes them drop what they have.

What is hard here:

* *Concurrency.* Six kinds of threads around nine queues; the queues notify after the
  unlock; `res_list_` and the dispatcher's fields have no lock; a signal handler.
* *State that only an event can repair.* `is_fetching_` and `dns_is_resolving_` are
  cleared only by something that arrives. A lost or misrouted message blocks a site for good.
* *Order.* A DNS refresh runs beside fetches of the same site.
* *Failure and retry.* DNS retries, fetch retries, errors recorded for a whole site, dead
  spiders, lost answers, kill in the middle of a write.
* *Limits.* Queue sizes, rounds, the receive buffer, the page limit, file sizes and
  numbers, an `int` of milliseconds, the ends of read buffers.
* *What an earlier use leaves behind.* Buffers, parsers and the cells of a grown array.
* *End and restart.* Signal, drain, dump, joins, reload; the data files of earlier starts.

What makes each component correct: no accepted resource is lost, held twice or recorded
twice, and each is recorded in the end (scheduler); capacity, order, no missed
notification (queues); one result per download, no overrun, an end for every loop
(downloader); saved records stay readable (storage); nothing sent twice or reported as
sent when it was not (dispatcher, clients); every line, record or result handled once, in
order, and unmixed with the one before (tools); look-ups that agree with a definition over
the history (containers). `PROJECT.json` lists the components with their status and the
hazards with the line where each one bites.

## 2. Modules

| module | models | checked by |
|---|---|---|
| `Crawler` | scheduler, sites, and the four pools as they look through their queues | `CrawlerProps` |
| `CrawlSpec` | what a client is promised: one record for each accepted resource, in the end | refined by `Crawler` and by `DownloadConn` |
| `CrawlerProps` | properties of `Crawler` and the mapping to `CrawlSpec` | `MCCrawler` |
| `CrawlerExit` | the life of the process around `Crawler`'s actions: load, signal, drain, dump, joins, restart | `MCCrawlerExit` |
| `SimpleQueue` | the queue operations between mutex and condition variables | `MCSimpleQueue` |
| `BoundedFifo` | an atomic bounded queue | refined by `SimpleQueue` |
| `DownloadConn` | event loops, connections and stop of the downloader | itself |
| `PageFiles` | the numbered data files of one storage thread | itself |
| `Dispatcher` | `submit` of the dispatcher, its connections and their spiders | itself |
| `ResListRace` | `res_list_` pointer by pointer: thrift threads push while `svc` pops, without a lock | `MCParts` |
| `SiteRate` | the waiting time and the turns of addresses of one site, with the width of the `int` | `MCParts` |
| `LineReader` | `load_file` of `io_ops.h`: lines across the ends of a buffer and short reads | `MCParts` |
| `RecordReader` | the loop of four programs that parses JSON records from a buffer | `MCParts` |
| `BatchClient` | the three clients that send a file, with failing servers and lost answers | `MCParts` |
| `HttpMessage` | the message an HTTP parser fills in, page by page | `MCParts` |
| `QueryFilter` | the loop of `filter_query` with what `fgets` and `feof` leave behind | `MCParts` |
| `PageExtract` | the choice among a host's templates in both extractors | `MCParts` |
| `SearchMerge` | the order of both result lists and how they are written | `MCParts` |
| `HashRing` | the consistent-hash ring for every hash function | `MCParts` |
| `TermMap` | the map of words in `ctool_hashmap.c`: blocks, items, chains | `MCParts` |
| `DatTrie` | build and look-up of the double-array trie | `MCParts` |
| `KeyTable` | `HashTable` over uthash: additions of one key, buckets, dump and load | `MCParts` |
| `CrawlerProofs`, `CrawlerResProofs`, `CrawlerExitProofs`, `CommonProofs`, `DownloadConnProofs`, `PageFilesProofs`, `DispatcherProofs`, `PartsProofs` | theorems and their proofs | TLAPS |

They compose as follows. `Crawler` treats a queue as atomic; `SimpleQueue` implements
`BoundedFifo` (`IsFifo`), which is what `Crawler` relies on. `Crawler` treats a download as
"a request enters `conns` and leaves it with one result"; `DownloadConn` implements that
(`KeepsPromise`, the instance of `CrawlSpec` with requests for resources). `CrawlerExit`
EXTENDS `Crawler` and reuses its actions, adding the phases before and after the rounds.
`Crawler`'s `StoreWrite` is one `write` of `PageFiles`; its `res_list_` is atomic, and
`ResListRace` says when that is so. The dump that `CrawlerExit` reads back is read by the
loop of `RecordReader`. `MCParts` puts thirteen modules into one instance: a behaviour
is one of a single part, so that the state space is the sum of theirs.

### State and actions

`Crawler`. The variables are the members of the classes, under their names. The thread of
`svc` owns `sites_map_` and the sites, so one turn of one of its four loops is one action:
`ResTurn` (SRM:319-348), `DnsTurn` (351-358), `ReadyTurn` (362-365), `ResultTurn`
(368-384), and `EndRes` … `EndResult` go on to the next loop. A turn's helper functions
are operators from a site to the site afterwards and the calls made on the way
(`SubmitDnsRequest`, `SubmitHttpRequest`, `DnsResult`, `HttpResult`, `FetchFailedAllRes`).
The calls that may block are put in `outbox` in program order and done one by one by
`PushDns`, `PushTimed`, `PushDown`, `PushStore`; until the outbox is empty no other turn
starts. That is exact, because nobody else reads the site in between. The asserts lead to
`phase = "abort"`. `sites_map_` has *two* keys for a resource, as in the code: `HostKey`
to search (SRM:327, 354) and `SiteKey` to insert (SRM:337, 373); `Absent` is no entry and
`Null` the null pointer that `operator[]` leaves behind. `leaked` is a history of what a
full queue or an ignored insert has let go of.

`CrawlerExit`. `phase` is extended by the stages before and after the rounds. The dump
file is a sequence of records and outlives `Restart`. If it cannot be opened (`DumpOpens`,
SRM:400-404) `svc` returns there: nothing is dumped and no pool is stopped (`undumped`), and
`main`, which has waited for `svc`, destroys the storage under its writers
(`DestroyRunning`), which is the end of what can be said of that process, like an assert
or the `exit(-1)` of a writer whose write failed (`WriteFails`). A dumped resource is rebuilt without
its port: `ReadBack` maps it to what the next process takes it for (SRM:437). A signal
before `svc` has set `is_running_` is overwritten and the handler has spent its pointer
(`early`). An entry of `sites_map_` left null ends the dump with an abort, and the next
start finds the file as far as it was written. `_load_dumps_` has no return statement;
`LoadReturnsZero` is the set of outcomes. The instance uses `{TRUE}`: the last call of the
function is `close(fd)`, and without optimisation its 0 is what is left in the return
register. With `FALSE` in the set `RecordedOnce` fails: the file stays and is submitted
again.

`SimpleQueue`. A thread is at `lock`, `test`, `wait`, `update`, `unlock` or `notify`; a
notified or spuriously woken thread goes back to `lock`.

`DownloadConn`. A callback of an event loop is one action, but the clock handler is one
action for each request it takes, since the queue is shared. Bytes are counted in units.

`PageFiles`. A file is a sequence of units that know their record; a write at an offset
overwrites. `Die` is a kill at any moment, also within a `::write`.

`Dispatcher`. A step is one access of a worker to what the workers share: the test of
`client_`, the test of `send_num_`, each part of a turn of `client()`, the assignment of
`client_`, its test, the reset, the addition, the choice of the connection, and the send,
in which the spider takes the URL (`Arrive`) and answers (`Answered`). A spider may go
down at any of them, and it may hang: the sockets have no timeout
(`ThriftClientWrapper.cpp:30`), so its worker waits. Two workers inside one connection, or
one in a connection that another connects again, are undefined behaviour: the model goes
on as if they had taken turns, or ends (`crashed`). A torn access to the `shared_ptr` itself is
not modelled, and `++` and `connect()` are one step each.

The parts. Their variables are the locals and members of the code. A byte, a field, a
header or a word is an element of a small set that keeps what the code tests of it: for
`LineReader` whether a byte ends a line or is a NUL, which stops the string functions, for
`RecordReader` which unit of the file a cell holds (a record is the places from `Begin` to
`End`), for `HttpMessage` where a zero byte stands, for `TermMap` how many bytes a value has.
A torn record at the end of a file may be completed by what an earlier read left behind it
(`HandleMixed`); what the two make together is a choice. The stale contents of a buffer are kept,
because the code can read them. What the compiler or the heap decides is a choice
(`RecordReader`'s `Junk`, `DatTrie`'s `unset`, which no property is told to survive).

## 3. Runs

| run | instance | shows |
|---|---|---|
| `crawl_live` | 3 resources, 1 host, fair, 281 615 states | `Crawler` implements `CrawlSpec`; one question per resolving site |
| `crawl_ports` | 4 resources: `h:80`, two `h:8080`, one without host, 543 482 states | no site is forgotten, flags have a cause, a resource is in one place, errors only after all retries, also with two keys for one site |
| `crawl_assert` | the same URLs | **fails**: the assert of `_dnsResult_` (SRM:116) |
| `crawl_refresh` | 1 host, no DNS retry | **fails**: two fetches of one site at once after a failed refresh |
| `queue_threads` | 2 `push_wait`, 1 `push`, 1 `pop`, 2 `wait_pop` threads, size 2, 502 429 states | no missed notification, FIFO, no deadlock |
| `exit_life` | 3 resources, one of which loses its port in the dump, 2 starts, a signal at any time, a dump file that may not open, 179 714 states | the accounting of resources through drain, dump and reload; no join waits for ever |
| `conn_pages` | 2 downloads, pages of 0, 2 and 4 units, buffer 3, limit 2, 78 251 states | complete pages under a limit, one result each, enough descriptors, `stop()` ends |
| `conn_full` | buffer 1, page 2, no limit | **fails**: a page cut at the buffer's end is reported as whole |
| `files_rotate` | 3 numbers, 6 records of 1 or 2 units, 3 starts, 2 hours, 569 193 states | records survive, only a last record may be cut, numbers are not reused early |
| `dispatch_two` | 2 workers, 2 spiders that may fail or hang, 4 URLs, turns of 2, 159 576 states | a URL is sent once at most; without overlap and failure the spiders take turns; submit returns unless it waits inside a spider that hangs |
| `dispatch_lost` | 1 worker, 2 spiders, a turn of 2, one failure | **fails**: `submit` answers 0 for a URL that went nowhere |
| `parts` | the thirteen parts, 881 743 states | one or two properties of each, below |

The properties of `parts`:

| property | says |
|---|---|
| `LongListsStayWhole` | overlaps of one push with one pop are harmless while the list has two nodes or more |
| `WaitsItsShare`, `AddressRests` | the wait is within the address's share of the interval (`interval/ip_num`) unless the `int` has wrapped; an address rests for the interval, until DNS starts the turns anew |
| `LinesWhole` | the lines of the file, each whole, once, in order, however reads and buffer ends cut it; a line too long for the buffer or with a NUL is cut wrong and is the last |
| `RecordsOnce` | the records that parse and fit, each once and in order; one more may be handled at the end of a file longer than the buffer |
| `BatchDelivers` | lines are taken in order; passed only when taken; repeated only after a lost or wrong answer |
| `MessageIsThePage` | what is stored of a page, whose headers fit `header_buf`, is that page and nothing of an earlier one, trailers included |
| `SortedOnce` | each frequent query goes to one file, once |
| `FirstChainWritten` | the first template that yields something is written, once |
| `OrderNamesResults` | the order written names the results it is meant to |
| `DataFollowsMembers` | a datum belongs to a member, and moves only from or to the server that changed |
| `ItemsApart`, `GetsInOrder` | items in memory never overlap; repeated `get` gives all values of a key |
| `TrieFinds` | the trie finds the keys it was built from and no others |
| `LoadAnswersAlike` | a loaded table answers what the dumped one did |

Every property of a passing run has a mutant in `PROJECT.json`: a small bug in the code
(a missing reset, a dropped guard) that makes the run fail. The mutants stand in the
modules, marked, before the definition they change.

### Bounds, and why they are enough

*Resources and hosts.* Two resources make a site with a fetch under way and a list; a
third, on the same host or another port, competes for the same queues and, in
`crawl_ports`, for the same entry of `sites_map_`; one without a host takes the paths that
give up at once. Retries put a resource back, so the queues see more items than there are
resources. *Queue sizes.* Request queues of 1 make `svc` block often. Result queues of 3
hold everything in `crawl_live`, where the promise needs that none overflows; drops are
possible only when more results are under way than a queue holds, and are then kept in
`leaked`, which the properties count. *Retries.* One of each: the first failure and the
one after the last retry. *Time* is not a number in `Crawler`: an answer may be out of
date at any look (`Expiry = {TRUE, FALSE}`), a timer may fire at any moment. *Pages*:
empty, within the limit, larger than limit and buffer. *Files*: six records of up to two
units over three files of three units go round once. *Dispatcher*: `switch_client_num_` is
2 for the 1000 of the code, so that a turn has a first and a last URL, and `Interval` counts in
ticks; four URLs are both spiders' turns, and of two that overlap (`MaxRaced`) each may meet
the other at every access. *Parts*: two pushers and
four nodes reach every shape of the list's ring (empty, one node, two, more);
`SiteRate` has an `int` of 32 values and 2 milliseconds in a second, so that its clock of 31 passes the
wrap; buffers of 3 bytes for files of 5 and of 6 units for three records of 1, 2 or 4
units reach every way an end can fall, and what does not fit; three servers with up to two
replicas each on a ring of three, for every hash function; three terms whose values of 0, 1 and 3
bytes are rounded up to words of 2 behind a header of 2, in blocks of 8 bytes; all sets of up to five keys of length two, over arrays that grow; five items over
buckets that double; two pages, so that the second meets what the first left, with pieces of 1 and 3 units
for limits of 3 (an element) and 6 (`header_buf`, the page).

`CHECK_DEADLOCK FALSE` stands where the system may stop: the process exits or is killed
(`ExitLife`, `FilesRotate`), aborts on an assert (`CrawlPorts`, `CrawlAssert`), the
downloader is stopped (`Conn*`), the clients have no more URLs (`Dispatch*`), or a
program has come to the end of its file (`Parts`).

### Fairness

* `svc` and the pool threads loop with a sleep and never exit while running: weak fairness
  of each. A resolver's answer, a timer and a connection come to an end:
  `gethostbyname` and the connection's read and write timeouts are finite.
* `DownloadConn`: strong fairness of a connection's callback. Each of its events has a
  timeout; libevent runs all active events before it polls again, so the clock handler,
  which is re-armed every millisecond, cannot crowd the connections out. Nothing is assumed of
  the HTTP server. A server that sends a byte at a time is ended by the finite buffer.
* `Dispatcher`: the workers run and time passes. Nothing is asked of the spiders: they may
  stay down, or hang, for ever.
* `CrawlerExit`: as `Crawler`, until a thread is joined. No fairness of the signal.
* The parts are sequential and their properties are of safety; no fairness.

## 4. Proofs

`CrawlerProofs` proves for every set of resources and hosts, any ports, all queue
sizes and retry budgets:

* `CrawlerTypes == Spec => []TypeOK`. Each turn operator has a lemma that it takes a site
  to a site and posts only well-formed calls; each action has one step.
* `SitesAreLookedAt == Spec => []NoForgottenSite`. The property is not inductive: a turn
  must know that the site it leaves idle is idle for a reason. The invariant is
  `IInv == DataOK /\ SitesKnown /\ AllLookedAt`: the types hold (`DataOK`), every result and request under way
  belongs to a site that exists (`SitesKnown`, which is what makes the look-up of
  SRM:373 find one), and every site is *looked at*, which is a fact about its two flags,
  its list and its DNS state together (`AllLookedAt`, for sites with a host): one that is
  neither fetching nor resolving has an empty list, and one whose DNS state is neither OK
  nor ERROR is resolving. The
  lemmas show that each turn operator ends in a site that is looked at.
* `FetchesAreInFlight == Spec => []FetchingIsInFlight`, on top of `IInv`. `FlightInv` says
  that a site whose flag is set is *aloft*: the request or result with its key is in one of the queues, a
  timer, a connection, the calls svc has still to make, or was dropped by a full queue.
  Every step of a pool hands on what it takes; only the turn that takes a result removes
  a site, and that turn clears the flag, or sets it again and makes the call.
* `FailuresWereRetried == Spec => []ErrorOnlyAfterRetries`. Only a result that may not be
  retried goes to the storage, and an error count at the limit never moves again
  (`Settled`), whatever else happens to the resource.

`CrawlerResProofs` counts, under the same assumptions and on top of `IInv`. Each container
of `Crawler` (queues, site lists, timers, connections, writers, what a full queue has
refused) counts the places in which it holds a resource, and a step takes one out of one
container and puts it into another.

* `ResourcesAreOwnedOnce == Spec => []EachResOnce`. `OnceInv` says that the sum over all
  containers is 1 from `submit` on (an assert may lose what `svc` has in hand, hence the
  two inequalities). For a turn of `svc` one needs that every call it makes carries what it
  took, for a whole list when a site fails.
* `ClientsAreServed == Spec => Client!CSafe`: the safety half of the refinement of
  `CrawlSpec`, step by step, since a resource that is counted once is recorded once.
* `QuestionsAreAskedOnce == DefaultPorts => (Spec => []ResolvingIsAskedOnce)` and
  `AnswersAreAwaited`, by which the asserts of `svc` cannot fail then. The hypothesis says
  that no URL names another port; without it the run `crawl_assert` shows the violation.
  `AskInv`: the questions and answers about a host add up to the flag of its one site.

`CrawlerExitProofs` carries the count through load, drain, dump and restart
(`ExitIInv == IInv /\ FileOK` repeats the types there). `dumped` in `CrawlerExit` is the set
of resources the last exit has written out, which the properties speak of.

* `ExitKeepsAccount == ExitSpec => []EachResAccounted`: in the first life of the process
  the count and `dumped` together are what was submitted (`AccountInv`).
* `DumpIsLoaded == ExitSpec => []DumpedComesBack` (`BackInv`): a dumped resource, or the one
  its record reads as, is on the disk until it is in the process.
* `RecordsAreOnce` (→ `RecordedOnce`) has two hypotheses: `_load_dumps_`, which lacks its
  return, seems to return 0, and clients submit no two URLs that differ in the port only,
  since a record of a site loses the port. Without either a resource is recorded twice.
  `ClassInv` counts, for all the URLs that read back alike together, process and disk.
* `ExitLoses == ExitSpec => []ExitLosesOnlyQueued`: a pool that is joined has ended, takes
  nothing new, and `svc` has emptied its lists before it stops them (`StopInv`).

`CommonProofs` is about the code under `src/common` and the readers. Of the queue it
proves, for any finite set of threads and any size:

* `QueueConsistent`: one thread at most is inside the mutex, and the condition variables
  know exactly the waiting threads;
* `QueueSafe`: capacity, and no `front()` on an empty queue; a thread at `update` has the
  mutex and its condition still holds. (These two have no run of their own: `IsFifo` fails
  where they fail.)
* `QueueWakesUp == Spec => []NoLostWakeup`, which is inductive together with the two: a
  step that makes a slot or an item adds its thread to those that will notify; a woken
  thread leaves the count only when it uses a slot up;
* `QueueIsFifo`: `SimpleQueue` implements `BoundedFifo` step by step.

And of the others:

* `LoadedAnswersAlike == TableSpec => LoadAnswersAlike` for any names, hash function,
  buckets and capacity. What an addition does depends on the keys added before alone, so a
  table without deletions is the last of the tables of its additions (`Goes`), and the load,
  which adds the same keys with the same values, goes through equal ones.
* `LinesAreWhole == LineSpec => []LinesWhole` for any file, buffer and reads. `LineInv` says
  where the next line starts in the file, that what stands before it has been given, and that
  the buffer holds the file from there on; a NUL stops it there until the end.
* `RecordsAreHandledOnce == RecordSpec => []RecordsOnce` for any buffer and records. `RecInv`
  says that the first `k` records are done and the valid units of the buffer are those
  behind them; the unit after these is `Junk` while more of the file is to come, because a
  read fills the buffer or ends the file. Only in a file longer than the buffer can an old
  record stand behind the last one (`Over`), or old contents complete a torn one (`Mixed`).
* `MessagesArePages == HttpSpec => []MessageIsThePage` for any pieces, in any order that
  starts a header with its name, and any limits, of a page whose headers fit `header_buf`. `HttpInv` says
  at every callback that the message is the pieces so far: names and values by the count
  of the names, the body by the sum of the sizes before each piece.
* `KeysAreFound == TrieSpec => []TrieFinds` for any alphabet, block size and sorted file.
  `TrieInv` says that some function gives each beginning of a key that has been built its
  cell (`Edges`): two have the same cell when they are the same characters (`Apart`), a cell
  nobody has is clear (`Cells`), one that has a base is the beginning of a longer key
  (`Used`), and a cell holds the value of the first key that ends there (`Valued`). Keys that
  begin alike stand together in a sorted file, so the cell an addition looks at is that of
  the key before it (`Newest`) or lies behind all that are in use; this is the assertion
  that the array grows monotonously. A look-up follows the function as far as some key has
  its characters, and the next cell is then clear or belongs to another parent. Of
  the cells `grow()` does not clear nothing is assumed: a build that reads one ends in
  `unset`, which the property leaves out, and a look-up that reads one finds nothing.

`DownloadConnProofs` proves for any finite set of requests, any threads, page sizes,
buffer, limits and descriptors, from `ConnInv`:

* `ConnTypes == Spec => []TypeOK`: what is read stays within `recv_buf_`;
* `LimitedPagesAreComplete == Spec => []OkIsCompleteWhenLimited`. Of each connection, free
  and filled part of the buffer add up, what was read is no more than the limit and than
  what the server has sent (`Counted`), so a `read` that gives 0 was not for want of room;
  a server closes when it has sent all (`Served`);
* `EnoughDescriptors == Spec => []NeverAborts`: with as many descriptors as requests, each
  open connection has one, by counting the others (`Descriptors`);
* `DownloadsAnswerOnce == Spec => OneResultEach`, the safety half of the refinement of
  `CrawlSpec`: a queued request has neither connection nor result, is queued once, and a
  live one has no result (`Once`); only `StartDownload` and `Finish` change an answer.

`PageFilesProofs`: `FilesNotReusedEarly == Spec => []NoEarlyReuse` for any number and size
of files and any records, kills and restarts. The invariant says that the used files are
the first ones (`Prefix`), that after a start the number is the last used one (`AtFirst`),
and that the files beyond the current one are all free or all used (`AtCurrent`).
`RecordsStayWhole` (→ `SavedStay`) and `FilesAreRecords` (→ `FilesParseUntilReused`) assume
`~ShortWrites` (without it TLC finds the violation): until a file is written over, the
offset is its size and it ends with a whole record (`AtEnd`), so a write appends to what
parses.

`DispatcherProofs`: `UrlsArriveOnce == Spec => []NeverTwice` for any workers, spiders,
failures and lost answers: one worker at most holds a URL, and as long as it can come to a
send again the URL has not arrived (`Holds`).
`SpidersTakeTurns == Spec => []TurnsInOrder` for any workers, number of spiders and length
of the turns: as long as no spider has failed and no two calls have been under way at once,
`client_`, `send_num_` and the index stand where the number of URLs says (`Counted`), and so
they do at each step of the one call under way (`Stage`). Of calls that overlap nothing of
the kind holds.

`PartsProofs` is about the sequential parts and the list `res_list_`:

* `RingMovesLittle == RingSpec => DataFollowsMembers` for every hash function and any number
  of servers, replicas and hashes. While no points have met, the points of the ring are
  exactly those of the members (`OwnPoints`); and a point more or less changes what a
  look-up finds only if it is the point found (`SameNext`). That a set of hashes has a
  smallest one (`Smallest`) comes from the well-foundedness of the finite sets below each.
* `TermItemsApart == TermSpec => []ItemsApart` and `GetFindsInOrder == TermSpec =>
  []GetsInOrder` for any terms, lengths, chains and blocks. `ChainInv` says that items and
  additions correspond and that those of one chain stand in the order of their additions;
  an address names an item because `ItemsApart` holds. So the first item of a key after a
  given one is its next addition (`FoundIsNext`), whatever shares the chain.
* `ResListStaysWhole == RaceSpec => []LongListsStayWhole` for any pushers and nodes. Until two
  operations overlap harmfully (`raced`) the list is described at every instruction:
  forward links, backward links, the node half linked in and the node half linked out
  (`ListOK`). A pop at the front and a push at the back of a list of two or more touch
  different links, which is the case the code gets away with.
* `WaitIsBounded == RateSpec => []WaitsItsShare` for any interval, width and clock, with the
  conversions to `int`; `AddressesRest` proves the action property `AddressRests` for
  intervals whose milliseconds fit an `int` (the flag of the code is in seconds; beyond that
  `wait_ms` itself has no meaning). `TurnsRest` says how many turns ago an address was used
  and that the time since has a lower bound for each of them.
* `FirstChainIsWritten == ExtractSpec => []FirstChainWritten` for any number of chains and
  pages: of the chains already tried none was a hit (`Passed`), and what the call returns
  tells hit, failure and nothing tried apart, as far as the code does (`Returns`).
* `QueriesSortedOnce == FilterSpec => []SortedOnce` for any file. The lines read so far have
  been judged or had no count, and both output files are the verdicts split in two, counted
  by position; what `fgets` leaves in the buffer when it fails is the last line, cut.
* `OrdersNameResults == MergeSpec => []OrderNamesResults` for any lists and similarities. The
  positions counted while rating are those in the list that is written (as far as none is
  left out), and a sort by similarity without ties has the order asked for.
* `LinesAreDelivered == BatchSpec => []BatchDelivers` for any file, servers and faults: the
  lines behind the current one were taken, or may be passed over (`NothingLost`), and
  each is taken once more than its answers were lost, at most (`NotYetPast`).

The assumptions used are the named ones of the modules, about the types of constants:
`Null`, `Absent` and `NoConn` are not values of the data, `Null` and `Absent` differ,
a resource is not a message and `Idle` no host or result (`KindAssumption`) and no pool
(`PoolAssumption`), threads, requests and workers are finite sets, sizes are
natural numbers. TLC evaluates them on every run. Beyond these the theorems have only the
hypotheses named with them above.

Model-checked only is all liveness (`KeepsPromise` beyond its safety
halves, `ExitCompletes`, `QueuedIsTaken`, `StopEnds`, `SubmitReturns`), which is outside the
prover's reach.

## 5. Where code and documents differ

The failing runs are documented in `PROJECT.json` under `findings`:

1. Two sites of one host on different ports: the second DNS answer fails an assert.
2. A failed DNS refresh clears `is_fetching_` while a fetch is under way.
3. `read()` with a full buffer returns 0 and is taken for the end of the page; the shipped
   configuration sets no page limit (`config/spider.gflags:20`).
4. The dispatcher answers 0 for a URL whose send has failed.

Further deviations that the models contain, as behaviour the properties name or make room
for, or when a parameter is changed:

* *spider*: a download result is dropped by a full result queue (`DOWN_rslt_queue_size = 1`,
  `leaked` fills); a socket that cannot be made fails an assert of `conn_close` (`MaxFds = 1`,
  `aborted`); a short `::write` is repeated from the start of the buffer (`ShortWrites = TRUE`,
  `SavedStay` fails); a reused data file is not truncated; a signal before `svc` sets
  `is_running_` is forgotten; a dumped URL comes back on the default port; a null entry of
  `sites_map_` aborts the dump; an exit that cannot open the dump file dumps nothing, stops no
  pool and destroys the storage under its writers; a failed write is an `exit(-1)` of the whole
  process;
* *`res_list_`*: two pushes at once, or a push beside a pop of a short list, lose nodes,
  write to freed ones or leave the list looking empty (`raced`);
* *rate*: `wait_ms` wraps for a site left alone for some 25 days; every DNS answer starts
  the turns of the addresses anew, so that one may be fetched from twice in an interval;
* *dispatcher*: two workers crash on `client_` or on the index, or inside one connection
  (`crashed`); calls that overlap give one spider two turns or lose count of them
  (`overlapped`); a spider that hangs keeps its worker for ever; a connection is retried only
  *within* its retry interval (`Reconnects`); `submit_url` lacks its return;
* *clients*: `left` is never taken back, so the lines of a query file behind the first
  buffer are not sent; an answer that was lost or wrong makes a line arrive twice; a `url` line is
  passed whatever the server answers; a dispatcher that refuses a line is asked for ever;
* *readers*: the JSON parser runs past the valid bytes into what an earlier read left and
  may handle a record again, or complete a torn one with it; a record that does not parse
  hides all that follow; a NUL hides the lines behind it, and a failed `read` drops the rest;
* *HTTP*: headers of more than 10 KB are cut by `snprintf` and read past the end of
  `header_buf` (`HttpParser.cc:247-262`; `parse = "overrun"`); a header value longer than `MAX_ELEMENT_SIZE` aborts the writer; a header after
  the last of `MAX_HEADERS` is written past the array; a body is cut at a zero byte;
* *tools*: the last line of a query file goes through the filter's loop again, cut at its
  tab; a page no template of which matches may count as a success; positions of one result
  list are counted over results that are not written; `std::sort` is given `>=`;
* *containers*: a key added twice to the hash table answers the newest or the oldest value
  by the number of doublings so far; `grow()` of the trie clears from the wrong cell (with the
  sizes of the code, only arrays of more than 2^18 nodes can notice).

## 6. Not modelled

* URL parsing (`common/uri`): string work without state; what it yields is `UrlOf`.
* The text of records, JSON, base64, templates and XPath, the arithmetic of word vectors:
  data, abstracted to what the control flow asks of it.
* The HTTP status line, `Load` into a table that is not empty, the files of trie and table.
* Configuration parsing; the thrift server and its generated code; the control scripts,
  but for the kill, which is `Die`.
* The vendored libraries (febird, pugixml, celib, cJSON, http_parser, md5, TBB headers and
  the like), which are nine tenths of the lines under `src/common`: third-party code that
  the program uses as it is. What the program relies on (a callback order, a bucket order)
  is stated where it is used.
* The choice among several addresses in `Crawler` (it is in `SiteRate`), torn accesses to
  the dispatcher's `shared_ptr`, what two threads inside one thrift connection make of it,
  and real time.

## 7. Plan

Done, in this order: the scheduler and its pools (the core of the program), the queue it
rests on, the proofs of both; exit, downloader, files, dispatcher; the waiting time, the
race on `res_list_`, the readers, the clients, the tools and the containers; the proofs
about all of these.

What would come next: the status line in `HttpMessage`, and the configuration's choice of
templates in `PageExtract`.
