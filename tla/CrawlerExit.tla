---------------------------- MODULE CrawlerExit ----------------------------
(***************************************************************************)
(* The life of the spider process around the loop of module Crawler: the   *)
(* start (worker threads, then the dump file, then is_running_), a signal, *)
(* the exit of svc (drain, dump, stop the four thread pools), and the next *)
(* start, which submits what the last exit dumped.                         *)
(*                                                                         *)
(* `phase` goes on beyond the loops of svc: "boot", "load" before them,    *)
(* "drain", "ready_dump", "list_dump", "site_dump", "stop" and "exited"    *)
(* after them; "undumped" when the dump file could not be opened.  A       *)
(* site's resource is dumped as host and path: ReadBack is the resource    *)
(* such a record reads as, the same one on the default port.               *)
(***************************************************************************)
EXTENDS CrawlerProps

CONSTANTS
    LoadReturnsZero,    \* what _load_dumps_, which has no return, may seem to return
    DumpOpens,          \* whether the exit may find that it can open the dump file
    ReadBack,           \* Res -> Res, what a URL is that has lost its port
    MaxStarts           \* bound: how often the process is started

ASSUME ExitAssumption ==
    /\ LoadReturnsZero \in SUBSET BOOLEAN /\ DumpOpens \in SUBSET BOOLEAN /\ MaxStarts \in Nat
    /\ ReadBack \in [Res -> Res]
    /\ \A r \in Res : UrlOf[ReadBack[r]] = [UrlOf[r] EXCEPT !.port = DefaultPort]
    /\ \A r \in Res : UrlOf[r].port = DefaultPort => ReadBack[r] = r

VARIABLES
    is_running_,    \* SpiderResManager::is_running_
    g_spider,       \* is the signal handler's pointer still set
    early,          \* the signal came before svc set is_running_
    pools,          \* the thread pools whose is_running_ is set
    joining,        \* the pool whose stop() waits for its threads
    file,           \* the dump file: records [res, err_count]
    unread,         \* what _load_dumps_ has still to submit
    dumped,         \* the resources that the last exit has dumped
    starts          \* number of starts so far

exitVars == <<is_running_, g_spider, early, pools, joining, file, unread, dumped, starts>>
allVars  == <<vars, exitVars>>

ReadOnly == {ReadBack[r] : r \in {r \in Res : ReadBack[r] # r}}   \* no client submits them
Pools   == {"dns", "wait", "down", "store"}
ASSUME PoolAssumption == Idle \notin Pools      \* `joining` may name no pool
InLoop  == phase \in {"res", "dns", "ready", "result"}
Record(r, as) == [res |-> as, err_count |-> err_count[r]]

-----------------------------------------------------------------------------
(* Start *)

\* the dump is read when svc starts; the pools already run
Boot ==
    /\ phase = "boot"
    /\ phase' = IF file = <<>> THEN "go" ELSE "load"
    /\ unread' = file
    /\ UNCHANGED <<accepted, err_count, res_list_, siteVars, max_slot, dnsVars, waitVars,
                   downVars, storeVars, leaked, is_running_, g_spider, early, pools, joining,
                   file, dumped, starts>>

\* mutant: a record is skipped
LoadOneSkips ==
    /\ phase = "load" /\ unread # <<>>
    /\ unread' = IF Len(unread) > 1 THEN <<>> ELSE Tail(unread)
    /\ LET x == Head(unread)
       IN /\ res_list_' = Append(res_list_, x.res)
          /\ err_count' = [err_count EXCEPT ![x.res] = x.err_count]
    /\ UNCHANGED <<accepted, siteVars, loopVars, dnsVars, waitVars, downVars, storeVars, leaked,
                   is_running_, g_spider, early, pools, joining, file, dumped, starts>>

LoadOne ==
    /\ phase = "load" /\ unread # <<>>
    /\ LET x == Head(unread)
       IN /\ res_list_' = Append(res_list_, x.res)
          /\ err_count' = [err_count EXCEPT ![x.res] = x.err_count]
    /\ unread' = Tail(unread)
    /\ UNCHANGED <<accepted, siteVars, loopVars, dnsVars, waitVars, downVars, storeVars, leaked,
                   is_running_, g_spider, early, pools, joining, file, dumped, starts>>

\* mutant: the file that has been read is never removed
LoadEndKept ==
    /\ phase = "load" /\ unread = <<>>
    /\ phase' = "go"
    /\ UNCHANGED <<accepted, err_count, res_list_, siteVars, max_slot, dnsVars, waitVars,
                   downVars, storeVars, leaked, is_running_, g_spider, early, pools, joining,
                   file, unread, dumped, starts>>

LoadEnd ==
    /\ phase = "load" /\ unread = <<>>
    /\ \E zero \in LoadReturnsZero : file' = IF zero THEN <<>> ELSE file
    /\ phase' = "go"
    /\ UNCHANGED <<accepted, err_count, res_list_, siteVars, max_slot, dnsVars, waitVars,
                   downVars, storeVars, leaked, is_running_, g_spider, early, pools, joining,
                   unread, dumped, starts>>

\* is_running_ = true, whatever a signal has said meanwhile
Go ==
    /\ phase = "go"
    /\ is_running_' = TRUE
    /\ phase' = "res"
    /\ UNCHANGED <<accepted, err_count, res_list_, siteVars, max_slot, dnsVars, waitVars,
                   downVars, storeVars, leaked, g_spider, early, pools, joining, file, unread,
                   dumped, starts>>

\* sig_handler: stop() once, g_spider is reset
Signal ==
    /\ g_spider /\ phase \notin {"exited", "abort"}
    /\ is_running_' = FALSE /\ g_spider' = FALSE
    /\ early' = (phase \in {"boot", "load", "go"})
    /\ UNCHANGED <<vars, pools, joining, file, unread, dumped, starts>>

-----------------------------------------------------------------------------
(* The exit of svc *)

\* the while of svc: is_running_ is looked at between two rounds only
EndRound ==
    /\ Turning("result") /\ http_result_ = <<>>
    /\ IF is_running_ THEN phase' = "res" /\ max_slot' = RES_add_res_each_loop /\ UNCHANGED dumped
       ELSE phase' = "drain" /\ dumped' = {} /\ UNCHANGED max_slot
    /\ UNCHANGED <<accepted, err_count, res_list_, siteVars, dnsVars, waitVars, downVars,
                   storeVars, leaked, is_running_, g_spider, early, pools, joining, file, unread,
                   starts>>

\* mutant: a drained result is not handed to the storage
DrainTurnDrops ==
    /\ Turning("drain") /\ http_result_ # <<>>
    /\ http_result_' = Tail(http_result_)
    /\ UNCHANGED <<accepted, err_count, res_list_, siteVars, loopVars, dnsVars, waitVars,
                   http_request_, conns, storeVars, leaked, exitVars>>

DrainTurn ==
    /\ Turning("drain") /\ http_result_ # <<>>
    /\ http_result_' = Tail(http_result_)
    /\ outbox' = <<StorePost(Head(http_result_))>>
    /\ UNCHANGED <<accepted, err_count, res_list_, sites_map_, loopVars, dnsVars, waitVars,
                   http_request_, conns, storeVars, leaked, exitVars>>

Dump(r, as) ==
    /\ file' = Append(file, Record(r, as))
    /\ dumped' = dumped \cup {r}
    /\ UNCHANGED <<accepted, err_count, outbox, loopVars, dnsVars, downVars, storeVars,
                   leaked, is_running_, g_spider, early, pools, joining, unread, starts>>

DumpReady ==
    /\ phase = "ready_dump" /\ ready_list_ # <<>>
    /\ ready_list_' = Tail(ready_list_)
    /\ LET r == Head(ready_list_).res IN Dump(r, ReadBack[r])
    /\ UNCHANGED <<res_list_, sites_map_, wait_list_, timers>>

DumpList ==
    /\ phase = "list_dump" /\ res_list_ # <<>>
    /\ res_list_' = Tail(res_list_)
    /\ Dump(Head(res_list_), Head(res_list_))
    /\ UNCHANGED <<sites_map_, waitVars>>

DumpSite(k) ==
    /\ phase = "site_dump" /\ IsSite(k) /\ sites_map_[k].res_list_ # <<>>
    /\ sites_map_' = [sites_map_ EXCEPT ![k].res_list_ = Tail(@)]
    /\ LET r == Head(sites_map_[k].res_list_) IN Dump(r, ReadBack[r])
    /\ UNCHANGED <<res_list_, waitVars>>

\* an entry without a site, left by an answer to nobody, ends the exit
DumpNull ==
    /\ phase = "site_dump" /\ \E k \in Site : sites_map_[k] = Null
    /\ Abort
    /\ UNCHANGED <<accepted, err_count, res_list_, max_slot, dnsVars, waitVars, downVars,
                   storeVars, exitVars>>

NextStage(p, done, q) ==
    /\ Turning(p) /\ done
    /\ phase' = q
    /\ UNCHANGED <<accepted, err_count, res_list_, siteVars, max_slot, dnsVars, waitVars,
                   downVars, storeVars, leaked, exitVars>>

\* a dump file that does not open ends svc there: nothing is dumped, no pool is stopped
\* mutant: the exit goes on to the stops without the dump
StageUndumped ==
    \/ \E opens \in DumpOpens :
           NextStage("drain", http_result_ = <<>>, IF opens THEN "ready_dump" ELSE "stop")
    \/ NextStage("ready_dump", ready_list_ = <<>>, "list_dump")
    \/ NextStage("list_dump", res_list_ = <<>>, "site_dump")
    \/ NextStage("site_dump", \A k \in Site : sites_map_[k] # Null
                   /\ (IsSite(k) => sites_map_[k].res_list_ = <<>>), "stop")
    \/ NextStage("stop", pools = {} /\ joining = Idle, "exited")

ExitStage ==
    \/ \E opens \in DumpOpens :
           NextStage("drain", http_result_ = <<>>, IF opens THEN "ready_dump" ELSE "undumped")
    \/ NextStage("ready_dump", ready_list_ = <<>>, "list_dump")
    \/ NextStage("list_dump", res_list_ = <<>>, "site_dump")
    \/ NextStage("site_dump", \A k \in Site : sites_map_[k] # Null
                   /\ (IsSite(k) => sites_map_[k].res_list_ = <<>>), "stop")
    \/ NextStage("stop", pools = {} /\ joining = Idle, "exited")

\* Then main, which has waited for svc, destroys the storage: its queue under
\* the writers that nobody has stopped, which is undefined, and then it waits
\* for those writers for ever.  Like an assert, this is the end of what is said
\* of this process; it may as well be killed before.
DestroyRunning ==
    /\ phase = "undumped" /\ Abort
    /\ UNCHANGED <<accepted, err_count, res_list_, max_slot, dnsVars, waitVars, downVars,
                   storeVars, exitVars>>

\* a failed write is an exit(-1) in the midst of everything
WriteFails(t) ==
    /\ Alive /\ storing[t] # Idle /\ Abort
    /\ UNCHANGED <<accepted, err_count, res_list_, max_slot, dnsVars, waitVars, downVars,
                   storeVars, exitVars>>

\* dnsmanager, timewaiter, downloader, storage: stop() clears is_running_ ...
After(p) == CASE p = "dns" -> Pools [] p = "wait" -> Pools \ {"dns"}
              [] p = "down" -> {"down", "store"} [] p = "store" -> {"store"}
StopPool(p) ==
    /\ phase = "stop" /\ joining = Idle /\ pools = After(p)
    /\ pools' = pools \ {p} /\ joining' = p
    /\ UNCHANGED <<vars, is_running_, g_spider, early, file, unread, dumped, starts>>

\* ... and joins the threads: a resolver or a writer ends after the item it
\* has, an event loop when no timer and no connection is left
\* mutants: nothing is joined; the waiter has to empty its queue too
EndedAtOnce(p) == p \in Pools
EndedDrained(p) == CASE p = "dns" -> \A t \in Resolver : resolving[t] = Idle
                     [] p = "wait" -> timers = {} /\ wait_list_ = <<>>
                     [] p = "down" -> conns = {}
                     [] p = "store" -> \A t \in Writer : storing[t] = Idle
Ended(p) == CASE p = "dns" -> \A t \in Resolver : resolving[t] = Idle
              [] p = "wait" -> timers = {}
              [] p = "down" -> conns = {}
              [] p = "store" -> \A t \in Writer : storing[t] = Idle
JoinPool(p) ==
    /\ phase = "stop" /\ joining = p /\ Ended(p)
    /\ joining' = Idle
    /\ UNCHANGED <<vars, is_running_, g_spider, early, pools, file, unread, dumped, starts>>

\* the next process: what was in memory is gone
Restart ==
    /\ phase \in {"exited", "abort"} /\ starts < MaxStarts
    /\ starts' = starts + 1
    /\ phase' = "boot" /\ max_slot' = RES_add_res_each_loop
    /\ is_running_' = FALSE /\ g_spider' = TRUE /\ early' = FALSE
    /\ pools' = Pools /\ joining' = Idle
    /\ err_count' = [r \in Res |-> 0]
    /\ res_list_' = <<>> /\ sites_map_' = [k \in Site |-> Absent] /\ outbox' = <<>>
    /\ dns_request_' = <<>> /\ dns_result_' = <<>>
    /\ wait_list_' = <<>> /\ ready_list_' = <<>>
    /\ http_request_' = <<>> /\ http_result_' = <<>> /\ store_result_' = <<>>
    /\ resolving' = [t \in Resolver |-> Idle] /\ timers' = {} /\ conns' = {}
    /\ storing' = [t \in Writer |-> Idle] /\ unread' = <<>>
    /\ dumped' = IF phase = "exited" THEN dumped ELSE {}
    /\ UNCHANGED <<accepted, written, leaked, file>>

-----------------------------------------------------------------------------
(* The workers stop taking from their queues when their pool is stopped.   *)
Worker ==
    \/ \E t \in Resolver : "dns" \in pools /\ ResolvePop(t)
    \/ \E t \in Resolver, answer \in {"OK", "ERROR"} : ResolvePush(t, answer)
    \/ "wait" \in pools /\ WaitPop
    \/ \E q \in Request : Timeout(q)
    \/ "down" \in pools /\ DownloadPop
    \/ \E q \in Request, state \in {"OK", "ERROR"} : DownloadEnd(q, state)
    \/ \E t \in Writer : ("store" \in pools /\ StorePop(t)) \/ StoreWrite(t)

Loops == \/ ResTurn \/ DnsTurn \/ ReadyTurn \/ ResultTurn
         \/ EndRes \/ EndDns \/ EndReady
         \/ PushDns \/ PushTimed \/ PushDown \/ PushStore

Svc == \/ Boot \/ LoadOne \/ LoadEnd \/ Go \/ EndRound
       \/ DrainTurn \/ DumpReady \/ DumpList \/ (\E k \in Site : DumpSite(k)) \/ DumpNull \/ ExitStage
       \/ \E p \in Pools : StopPool(p) \/ JoinPool(p)

Ends == DestroyRunning \/ \E t \in Writer : WriteFails(t)

ExitInit ==
    /\ Fresh("boot")
    /\ is_running_ = FALSE /\ g_spider = TRUE /\ early = FALSE /\ pools = Pools /\ joining = Idle
    /\ file = <<>> /\ unread = <<>> /\ dumped = {} /\ starts = 1

ExitNext ==
    \/ Svc
    \/ Signal \/ Restart \/ Ends
    \/ /\ \/ Loops \/ Worker
          \/ \E r \in Res \ ReadOnly : phase # "exited" /\ Submit(r)
       /\ UNCHANGED exitVars

ExitSpec == ExitInit /\ [][ExitNext]_allVars

(* The threads run on, as in Crawler!Fairness, until they are joined.      *)
Steps(A) == A /\ UNCHANGED exitVars
ExitFairness ==
    /\ WF_allVars(Svc \/ Steps(Loops))
    /\ WF_allVars(Steps(Worker))
ExitFairSpec == ExitSpec /\ ExitFairness

-----------------------------------------------------------------------------
(* Properties *)

(* Through the exit too, an accepted resource is in one place of the       *)
(* process, or recorded, or in the dump, and never in two of them: the     *)
(* dump takes over what the sites and the queues of svc still held.        *)
EachResAccounted ==
    Alive /\ starts = 1 => \A r \in Res :
        Cardinality(Owners(r)) + Cardinality(LeakedRes(r)) + Len(written[r])
            + (IF r \in dumped THEN 1 ELSE 0) = IF r \in accepted THEN 1 ELSE 0

(* A resource is recorded once even across a restart, and is once in the   *)
(* dump file: what the next start loads has been removed from the file.    *)
RecordedOnce ==
    \A r \in Res : /\ Len(written[r]) <= 1
                   /\ Cardinality({i \in DOMAIN file : file[i].res = r}) <= 1

(* When svc has come to the end of its exit, which a dump file that does   *)
(* not open prevents, no site keeps a resource that is not in the dump and *)
(* no worker thread holds anything: what is lost is what stands in the     *)
(* queues of the stopped pools, and what came after the dump.              *)
ExitLosesOnlyQueued ==
    phase = "exited" =>
        /\ timers = {} /\ conns = {} /\ outbox = <<>>
        /\ \A t \in Writer : storing[t] = Idle
        /\ \A r \in accepted : starts = 1 /\ written[r] = <<>> /\ r \notin dumped /\ LeakedRes(r) = {}
             => \/ \E i \in DOMAIN res_list_ : res_list_[i] = r
                \/ \E q \in {wait_list_, ready_list_, http_request_, http_result_, store_result_} :
                       \E i \in DOMAIN q : q[i].res = r

(* What an exit has dumped comes back: the resource, or the one its record *)
(* reads as without the port, is in the file, or in what the next start    *)
(* has still to submit, or somewhere in that process, or recorded, until   *)
(* that process exits in its turn or an assert ends it.                    *)
Kept(r) == \/ \E i \in DOMAIN file : file[i].res = r
           \/ \E i \in DOMAIN unread : unread[i].res = r
           \/ Owners(r) # {} \/ LeakedRes(r) # {} \/ written[r] # <<>>
DumpedComesBack == Alive => \A r \in dumped : Kept(r) \/ Kept(ReadBack[r])

(* A signal ends the process, unless it came before svc set is_running_,   *)
(* or an assert or a failed write ended it first: no join of svc waits for *)
(* ever.  A dump file that does not open leaves all pools running instead. *)
ExitCompletes == (InLoop /\ ~g_spider /\ ~early) ~> (phase \in {"exited", "abort", "undumped"})

=============================================================================
