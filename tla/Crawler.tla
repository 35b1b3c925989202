------------------------------ MODULE Crawler ------------------------------
(***************************************************************************)
(* The spider process: the scheduling thread (SpiderResManager::svc) and   *)
(* the four thread pools it drives through bounded queues, the DNS         *)
(* resolvers, the rate-limiting waiter, the downloader and the storage     *)
(* writers.                                                                *)
(*                                                                         *)
(* sites_map_ and the Website objects belong to the scheduling thread, so  *)
(* one turn of one of its loops is one action: it pops a queue, changes    *)
(* the site and leaves in `outbox`, in program order, the push_wait calls  *)
(* the turn makes.  Flush performs them one at a time and is disabled      *)
(* while the target queue is full; no other turn starts before the outbox  *)
(* is empty, which is how the thread blocks.                               *)
(*                                                                         *)
(* Not here: the exit sequence and the dump file, what happens on one      *)
(* connection, the file rotation, the value of wait_ms.                    *)
(***************************************************************************)
EXTENDS Integers, Sequences, FiniteSets

CONSTANTS
    Res,                    \* the resources clients may submit (struct Res)
    UrlOf,                  \* Res -> [http, host, port], what URI2 parses
    Host, NoHost,           \* host names; the empty name of a host-less URL
    Port, DefaultPort,      \* port numbers; 80 (and 0, an absent port)
    Resolver, Writer,       \* DNS threads, storage threads
    Null, Absent,           \* a NULL pointer in sites_map_; no entry there
    Idle,                   \* a worker thread that holds nothing
    Expiry,                 \* what "the DNS answer is out of date" may be
    DNS_rqst_queue_size, DNS_rslt_queue_size,
    WAITER_rqst_queue_size, WAITER_rslt_queue_size,
    DOWN_rqst_queue_size, DOWN_rslt_queue_size, STORE_rslt_queue_size,
    DNS_retry_max, DOWN_err_retry_max, RES_add_res_each_loop

AnyHost == Host \cup {NoHost}
Site    == AnyHost \X Port          \* the keys of sites_map_

ASSUME HostAssumption == NoHost \notin Host /\ DefaultPort \in Port
ASSUME UrlAssumption  == UrlOf \in [Res -> [http: BOOLEAN, host: AnyHost, port: Port]]
ASSUME LimitAssumption ==
    /\ DNS_retry_max \in Nat /\ DOWN_err_retry_max \in Nat
    /\ RES_add_res_each_loop \in Nat \ {0}
    /\ Expiry \in SUBSET BOOLEAN
    /\ {DNS_rqst_queue_size, DNS_rslt_queue_size, WAITER_rqst_queue_size,
        WAITER_rslt_queue_size, DOWN_rqst_queue_size, DOWN_rslt_queue_size,
        STORE_rslt_queue_size} \subseteq Nat

VARIABLES
    accepted,       \* the resources SpiderResManager::submit has taken
    err_count,      \* Res::err_count of each resource
    res_list_,      \* SpiderResManager::res_list_
    sites_map_,     \* SpiderResManager::sites_map_
    phase,          \* the loop of svc that is running, or "abort"
    max_slot,       \* resources this round of svc may still take
    outbox,         \* push_wait calls the current turn has still to make
    dns_request_, resolving, dns_result_,
    wait_list_, timers, ready_list_,
    http_request_, conns, http_result_,
    store_result_,  \* PageStorage::http_result_
    storing,        \* the result each storage thread is writing
    written,        \* the records written for each resource
    leaked          \* what a full or overwritten container has let go of

siteVars  == <<sites_map_, outbox>>
loopVars  == <<phase, max_slot>>
dnsVars   == <<dns_request_, resolving, dns_result_>>
waitVars  == <<wait_list_, timers, ready_list_>>
downVars  == <<http_request_, conns, http_result_>>
storeVars == <<store_result_, storing, written>>
vars == <<accepted, err_count, res_list_, siteVars, loopVars, dnsVars, waitVars,
          downVars, storeVars, leaked>>

-----------------------------------------------------------------------------
(* Objects *)

DnsState == {"INIT", "OK", "ERROR", "ERROR_RETRY", "UPDATE"}
Website  == [res_list_: Seq(Res), is_fetching_: BOOLEAN, dns_is_resolving_: BOOLEAN,
             dns_retry_count_: 0..DNS_retry_max, dns_state: DnsState]
DnsEntity == [host: Host, state: {"OK", "ERROR"}]
Request  == [res: Res, site: Site]
Result   == [res: Res, site: Site, state: {"OK", "ERROR"}, rqst: BOOLEAN]
Post     == [to: {"dns"}, item: Host] \cup [to: {"wait"}, item: Request]
            \cup [to: {"down"}, item: Request] \cup [to: {"store"}, item: Result]

ASSUME NullAssumption == {Null, Absent} \cap Website = {} /\ Null # Absent
\* a pointer to nothing, a Res, an answer, a request are not one another
ASSUME KindAssumption ==
    /\ Idle \notin Host \cup Result
    /\ Res \cap (DnsEntity \cup Request \cup Result) = {}

NewSite == [res_list_ |-> <<>>, is_fetching_ |-> FALSE, dns_is_resolving_ |-> FALSE,
            dns_retry_count_ |-> 0, dns_state |-> "INIT"]
SiteKey(r) == <<UrlOf[r].host, UrlOf[r].port>>      \* _site_key_
HostKey(h) == <<h, DefaultPort>>                    \* a key that is a bare host
IsSite(k)  == sites_map_[k] \notin {Null, Absent}

\* simple_queue / ptr_queue with _max_size = max; 0 is unbounded
Full(q, max) == max > 0 /\ Len(q) >= max
Pushed(q, max, x) == IF Full(q, max) THEN q ELSE Append(q, x)
Dropped(q, max, x) == IF Full(q, max) THEN {x} ELSE {}

DnsPost(h)   == [to |-> "dns", item |-> h]
WaitPost(q)  == [to |-> "wait", item |-> q]
DownPost(q)  == [to |-> "down", item |-> q]
StorePost(x) == [to |-> "store", item |-> x]

-----------------------------------------------------------------------------
(* What one turn does to a site: the site afterwards and the calls it      *)
(* makes, as a record [site, out].                                         *)

Turn(s, out) == [site |-> s, out |-> out]
AddRes(s, r) == [s EXCEPT !.res_list_ = Append(@, r)]

AskDns(k, s) == IF k[1] = NoHost THEN Turn(s, <<>>)
                ELSE Turn([s EXCEPT !.dns_is_resolving_ = TRUE], <<DnsPost(k[1])>>)

\* mutant: the question is asked again while it is being answered
SubmitDnsTwice(k, s, expired) ==
    CASE s.dns_state = "INIT" -> AskDns(k, s)
      [] s.dns_state = "ERROR" /\ expired -> AskDns(k, [s EXCEPT !.dns_state = "ERROR_RETRY"])
      [] s.dns_state = "OK" /\ expired -> AskDns(k, [s EXCEPT !.dns_state = "UPDATE"])
      [] OTHER -> Turn(s, <<>>)

SubmitDnsRequest(k, s, expired) ==
    CASE s.dns_is_resolving_                 -> Turn(s, <<>>)
      [] ~s.dns_is_resolving_ /\ s.dns_state = "INIT" -> AskDns(k, s)
      [] ~s.dns_is_resolving_ /\ s.dns_state = "ERROR" /\ expired ->
             AskDns(k, [s EXCEPT !.dns_state = "ERROR_RETRY"])
      [] ~s.dns_is_resolving_ /\ s.dns_state = "OK" /\ expired ->
             AskDns(k, [s EXCEPT !.dns_state = "UPDATE"])
      [] OTHER                               -> Turn(s, <<>>)

DnsFailure(k, r) == [res |-> r, site |-> k, state |-> "ERROR", rqst |-> FALSE]

\* mutant: `if` for `while`, only the first resource is failed
FetchFailedFirstRes(k, s) ==
    IF s.res_list_ = <<>> THEN Turn(s, <<>>)
    ELSE Turn([s EXCEPT !.res_list_ = Tail(@), !.is_fetching_ = FALSE],
              <<StorePost(DnsFailure(k, Head(s.res_list_)))>>)

FetchFailedAllRes(k, s) ==
    LET l == s.res_list_
    IN Turn([s EXCEPT !.res_list_ = <<>>, !.is_fetching_ = @ /\ l = <<>>],
            [i \in 1..Len(l) |-> StorePost(DnsFailure(k, l[i]))])

HttpRequest(k, s) ==
    Turn([s EXCEPT !.res_list_ = Tail(@), !.is_fetching_ = TRUE],
         <<WaitPost([res |-> Head(s.res_list_), site |-> k])>>)

SubmitHttpRequest(k, s) ==
    IF s.dns_state = "ERROR" THEN FetchFailedAllRes(k, s)
    ELSE IF s.dns_state = "OK" /\ ~s.is_fetching_ /\ s.res_list_ # <<>>
         THEN HttpRequest(k, s)
         ELSE Turn(s, <<>>)

\* mutant: a retry that forgets to ask
DnsResultUnasked(k, s, answer) ==
    LET got == [s EXCEPT !.dns_state = answer, !.dns_is_resolving_ = FALSE]
    IN IF answer = "ERROR" /\ got.dns_retry_count_ < DNS_retry_max
       THEN Turn([got EXCEPT !.dns_retry_count_ = @ + 1, !.dns_state = "ERROR_RETRY"], <<>>)
       ELSE Turn(got, <<>>)

DnsResult(k, s, answer) ==
    LET got == [s EXCEPT !.dns_state = answer, !.dns_is_resolving_ = FALSE]
    IN IF answer = "OK" THEN Turn([got EXCEPT !.dns_retry_count_ = 0], <<>>)
       ELSE IF got.dns_retry_count_ < DNS_retry_max
            THEN AskDns(k, [got EXCEPT !.dns_retry_count_ = @ + 1,
                                       !.dns_state = "ERROR_RETRY"])
            ELSE Turn(got, <<>>)

\* mutants: one retry too few, one too many
RetriedLess(x) == x.state # "OK" /\ x.rqst /\ err_count[x.res] + 1 < DOWN_err_retry_max
RetriedMore(x) == x.state # "OK" /\ x.rqst /\ err_count[x.res] <= DOWN_err_retry_max
Retried(x) == x.state # "OK" /\ x.rqst /\ err_count[x.res] < DOWN_err_retry_max

\* mutant: is_fetching_ is left set
HttpResultStuck(s, x) ==
    Turn(IF Retried(x) THEN AddRes(s, x.res) ELSE s,
         IF Retried(x) THEN <<>> ELSE <<StorePost(x)>>)
HttpResult(s, x) ==
    Turn([(IF Retried(x) THEN AddRes(s, x.res) ELSE s) EXCEPT !.is_fetching_ = FALSE],
         IF Retried(x) THEN <<>> ELSE <<StorePost(x)>>)

\* a second call of the same turn, made on what the first one left
AndThen(t, u) == Turn(u.site, t.out \o u.out)

-----------------------------------------------------------------------------
(* The scheduling thread *)

Alive     == phase # "abort"
Turning(p) == phase = p /\ outbox = <<>>

\* SpiderResManager::submit, called by a thrift server thread
Submit(r) ==
    /\ Alive /\ r \notin accepted
    /\ UrlOf[r].http
    /\ accepted' = accepted \cup {r}
    /\ res_list_' = Append(res_list_, r)
    /\ UNCHANGED <<err_count, siteVars, loopVars, dnsVars, waitVars, downVars,
                   storeVars, leaked>>

Leave(k, t) ==
    /\ sites_map_' = [sites_map_ EXCEPT ![k] = t.site]
    /\ outbox' = t.out

Abort ==
    /\ phase' = "abort"
    /\ UNCHANGED <<siteVars, leaked>>

\* find(host) has found a site
KnownSite(k, r, expired) ==
    LET asked == SubmitDnsRequest(k, AddRes(sites_map_[k], r), expired)
    IN /\ IsSite(k)
       /\ Leave(k, AndThen(asked, SubmitHttpRequest(k, asked.site)))
       /\ UNCHANGED <<phase, leaked>>

\* mutant: sites_map_[key] = site, which replaces a site already there
FreshSiteReplaces(found, key, r) ==
    /\ sites_map_[found] = Absent
    /\ Leave(key, SubmitDnsRequest(key, AddRes(NewSite, r), FALSE))
    /\ UNCHANGED <<phase, leaked>>

\* find(host) has found nothing; insert keeps an entry already under `key`
FreshSite(found, key, r) ==
    LET asked == SubmitDnsRequest(key, AddRes(NewSite, r), FALSE)
    IN /\ sites_map_[found] = Absent
       /\ IF sites_map_[key] = Absent
          THEN Leave(key, asked) /\ UNCHANGED leaked
          ELSE /\ outbox' = asked.out
               /\ leaked' = leaked \cup {r}
               /\ UNCHANGED sites_map_
       /\ UNCHANGED phase

ResTurn ==
    /\ Turning("res") /\ max_slot > 0 /\ res_list_ # <<>>
    /\ res_list_' = Tail(res_list_)
    /\ max_slot' = max_slot - 1
    /\ LET r == Head(res_list_)
           found == HostKey(UrlOf[r].host)
       IN \/ \E expired \in Expiry : KnownSite(found, r, expired)
          \/ FreshSite(found, SiteKey(r), r)
          \/ sites_map_[found] = Null /\ Abort
    /\ UNCHANGED <<accepted, err_count, dnsVars, waitVars, downVars, storeVars>>

DnsTurn ==
    /\ Turning("dns") /\ dns_result_ # <<>>
    /\ dns_result_' = Tail(dns_result_)
    /\ LET d == Head(dns_result_)
           k == HostKey(d.host)
           s == sites_map_[k]
           got == DnsResult(k, s, d.state)
       IN \/ /\ IsSite(k) /\ s.dns_is_resolving_
             /\ Leave(k, AndThen(got, SubmitHttpRequest(k, got.site)))
             /\ UNCHANGED <<phase, leaked>>
          \/ /\ IsSite(k) /\ ~s.dns_is_resolving_       \* the assert of _dnsResult_
             /\ Abort
          \/ /\ ~IsSite(k)                              \* sites_map_[host] inserts
             /\ sites_map_' = [sites_map_ EXCEPT ![k] = Null]
             /\ leaked' = leaked \cup {d}
             /\ UNCHANGED <<phase, outbox>>
    /\ UNCHANGED <<accepted, err_count, res_list_, max_slot, dns_request_, resolving,
                   waitVars, downVars, storeVars>>

ReadyTurn ==
    /\ Turning("ready") /\ ready_list_ # <<>>
    /\ ready_list_' = Tail(ready_list_)
    /\ outbox' = <<DownPost(Head(ready_list_))>>
    /\ UNCHANGED <<accepted, err_count, res_list_, sites_map_, loopVars, dnsVars,
                   wait_list_, timers, downVars, storeVars, leaked>>

ResultTurn ==
    /\ Turning("result") /\ http_result_ # <<>>
    /\ http_result_' = Tail(http_result_)
    /\ LET x == Head(http_result_)
           done == HttpResult(sites_map_[x.site], x)
       IN /\ Leave(x.site, AndThen(done, SubmitHttpRequest(x.site, done.site)))
          /\ err_count' = [err_count EXCEPT ![x.res] = IF Retried(x) THEN @ + 1 ELSE @]
    /\ UNCHANGED <<accepted, res_list_, loopVars, dnsVars, waitVars, http_request_,
                   conns, storeVars, leaked>>

\* a loop of svc ends when its queue is empty (or the round's slots are used)
NextLoop(p, more, q) ==
    /\ Turning(p) /\ ~more
    /\ phase' = q
    /\ max_slot' = IF q = "res" THEN RES_add_res_each_loop ELSE max_slot
    /\ UNCHANGED <<accepted, err_count, res_list_, siteVars, dnsVars, waitVars,
                   downVars, storeVars, leaked>>

EndRes    == NextLoop("res", max_slot > 0 /\ res_list_ # <<>>, "dns")
EndDns    == NextLoop("dns", dns_result_ # <<>>, "ready")
EndReady  == NextLoop("ready", ready_list_ # <<>>, "result")
EndResult == NextLoop("result", http_result_ # <<>>, "res")

\* one push_wait returns
PushWait(to, q, max) ==
    /\ outbox # <<>> /\ Head(outbox).to = to /\ Alive
    /\ ~Full(q, max)
    /\ q' = Append(q, Head(outbox).item)
    /\ outbox' = Tail(outbox)
    /\ UNCHANGED <<accepted, err_count, res_list_, sites_map_, loopVars, leaked>>

PushDns ==
    /\ PushWait("dns", dns_request_, DNS_rqst_queue_size)
    /\ UNCHANGED <<resolving, dns_result_, waitVars, downVars, storeVars>>
PushTimed ==
    /\ PushWait("wait", wait_list_, WAITER_rqst_queue_size)
    /\ UNCHANGED <<dnsVars, timers, ready_list_, downVars, storeVars>>
PushDown ==
    /\ PushWait("down", http_request_, DOWN_rqst_queue_size)
    /\ UNCHANGED <<dnsVars, waitVars, conns, http_result_, storeVars>>
PushStore ==
    /\ PushWait("store", store_result_, STORE_rslt_queue_size)
    /\ UNCHANGED <<dnsVars, waitVars, downVars, storing, written>>

Scheduler == \/ ResTurn \/ DnsTurn \/ ReadyTurn \/ ResultTurn
             \/ EndRes \/ EndDns \/ EndReady \/ EndResult
             \/ PushDns \/ PushTimed \/ PushDown \/ PushStore

-----------------------------------------------------------------------------
(* The worker threads *)

ResolvePop(t) ==
    /\ Alive /\ resolving[t] = Idle /\ dns_request_ # <<>>
    /\ resolving' = [resolving EXCEPT ![t] = Head(dns_request_)]
    /\ dns_request_' = Tail(dns_request_)
    /\ UNCHANGED <<accepted, err_count, res_list_, siteVars, loopVars, dns_result_,
                   waitVars, downVars, storeVars, leaked>>

\* gethostbyname answers and push keeps the answer only if there is room
ResolvePush(t, answer) ==
    LET d == [host |-> resolving[t], state |-> answer]
    IN /\ Alive /\ resolving[t] # Idle
       /\ resolving' = [resolving EXCEPT ![t] = Idle]
       /\ dns_result_' = Pushed(dns_result_, DNS_rslt_queue_size, d)
       /\ leaked' = leaked \cup Dropped(dns_result_, DNS_rslt_queue_size, d)
       /\ UNCHANGED <<accepted, err_count, res_list_, siteVars, loopVars, dns_request_,
                      waitVars, downVars, storeVars>>

BecomeReady(q) ==
    /\ ready_list_' = Pushed(ready_list_, WAITER_rslt_queue_size, q)
    /\ leaked' = leaked \cup Dropped(ready_list_, WAITER_rslt_queue_size, q)

\* _wait_rqst_handler_ arms a timer, or hands over at once when wait_ms <= 0
WaitPop ==
    /\ Alive /\ wait_list_ # <<>>
    /\ wait_list_' = Tail(wait_list_)
    /\ LET q == Head(wait_list_)
       IN \/ timers' = timers \cup {q} /\ UNCHANGED <<ready_list_, leaked>>
          \/ BecomeReady(q) /\ UNCHANGED timers
    /\ UNCHANGED <<accepted, err_count, res_list_, siteVars, loopVars, dnsVars, downVars,
                   storeVars>>

Timeout(q) ==
    /\ Alive /\ q \in timers
    /\ timers' = timers \ {q}
    /\ BecomeReady(q)
    /\ UNCHANGED <<accepted, err_count, res_list_, siteVars, loopVars, dnsVars,
                   wait_list_, downVars, storeVars>>

DownloadPop ==
    /\ Alive /\ http_request_ # <<>>
    /\ http_request_' = Tail(http_request_)
    /\ conns' = conns \cup {Head(http_request_)}
    /\ UNCHANGED <<accepted, err_count, res_list_, siteVars, loopVars, dnsVars, waitVars,
                   http_result_, storeVars, leaked>>

\* _download_page_ ends a connection and _result_handler_ pushes what it got
DownloadEnd(q, state) ==
    LET x == [res |-> q.res, site |-> q.site, state |-> state, rqst |-> TRUE]
    IN /\ Alive /\ q \in conns
       /\ conns' = conns \ {q}
       /\ http_result_' = Pushed(http_result_, DOWN_rslt_queue_size, x)
       /\ leaked' = leaked \cup Dropped(http_result_, DOWN_rslt_queue_size, x)
       /\ UNCHANGED <<accepted, err_count, res_list_, siteVars, loopVars, dnsVars,
                      waitVars, http_request_, storeVars>>

StorePop(t) ==
    /\ Alive /\ storing[t] = Idle /\ store_result_ # <<>>
    /\ storing' = [storing EXCEPT ![t] = Head(store_result_)]
    /\ store_result_' = Tail(store_result_)
    /\ UNCHANGED <<accepted, err_count, res_list_, siteVars, loopVars, dnsVars, waitVars,
                   downVars, written, leaked>>

\* a write that fails is CrawlerExit!WriteFails
StoreWrite(t) ==
    /\ Alive /\ storing[t] # Idle
    /\ written' = [written EXCEPT ![storing[t].res] = Append(@, storing[t].state)]
    /\ storing' = [storing EXCEPT ![t] = Idle]
    /\ UNCHANGED <<accepted, err_count, res_list_, siteVars, loopVars, dnsVars, waitVars,
                   downVars, store_result_, leaked>>

-----------------------------------------------------------------------------
\* the process as its constructors leave it, svc standing at p
Fresh(p) ==
    /\ accepted = {} /\ err_count = [r \in Res |-> 0]
    /\ res_list_ = <<>> /\ sites_map_ = [k \in Site |-> Absent]
    /\ phase = p /\ max_slot = RES_add_res_each_loop /\ outbox = <<>>
    /\ dns_request_ = <<>> /\ resolving = [t \in Resolver |-> Idle] /\ dns_result_ = <<>>
    /\ wait_list_ = <<>> /\ timers = {} /\ ready_list_ = <<>>
    /\ http_request_ = <<>> /\ conns = {} /\ http_result_ = <<>>
    /\ store_result_ = <<>> /\ storing = [t \in Writer |-> Idle]
    /\ written = [r \in Res |-> <<>>] /\ leaked = {}
Init == Fresh("res")

Next ==
    \/ \E r \in Res : Submit(r)
    \/ Scheduler
    \/ \E t \in Resolver : ResolvePop(t) \/ \E answer \in {"OK", "ERROR"} : ResolvePush(t, answer)
    \/ WaitPop
    \/ \E q \in Request : Timeout(q)
    \/ DownloadPop
    \/ \E q \in Request, state \in {"OK", "ERROR"} : DownloadEnd(q, state)
    \/ \E t \in Writer : StorePop(t) \/ StoreWrite(t)

Spec == Init /\ [][Next]_vars

(* Every thread keeps running; gethostbyname, a timer and a connection     *)
(* (which has a read and a write timeout) end.                             *)
Fairness ==
    /\ WF_vars(Scheduler) /\ WF_vars(WaitPop) /\ WF_vars(DownloadPop)
    /\ \A t \in Resolver : /\ WF_vars(ResolvePop(t))
                           /\ WF_vars(\E answer \in {"OK", "ERROR"} : ResolvePush(t, answer))
    /\ \A q \in Request : /\ WF_vars(Timeout(q))
                          /\ WF_vars(\E state \in {"OK", "ERROR"} : DownloadEnd(q, state))
    /\ \A t \in Writer : WF_vars(StorePop(t)) /\ WF_vars(StoreWrite(t))

FairSpec == Spec /\ Fairness

-----------------------------------------------------------------------------
\* all but where svc stands
DataOK ==
    /\ accepted \in SUBSET Res
    /\ err_count \in [Res -> 0..DOWN_err_retry_max]
    /\ res_list_ \in Seq(Res)
    /\ sites_map_ \in [Site -> Website \cup {Null, Absent}]
    /\ max_slot \in 0..RES_add_res_each_loop
    /\ outbox \in Seq(Post)
    /\ dns_request_ \in Seq(Host)
    /\ resolving \in [Resolver -> Host \cup {Idle}]
    /\ dns_result_ \in Seq(DnsEntity)
    /\ wait_list_ \in Seq(Request) /\ timers \in SUBSET Request
    /\ ready_list_ \in Seq(Request)
    /\ http_request_ \in Seq(Request) /\ conns \in SUBSET Request
    /\ http_result_ \in Seq(Result)
    /\ store_result_ \in Seq(Result)
    /\ storing \in [Writer -> Result \cup {Idle}]
    /\ written \in [Res -> Seq({"OK", "ERROR"})]
    /\ leaked \in SUBSET (Res \cup DnsEntity \cup Request \cup Result)

TypeOK == DataOK /\ phase \in {"res", "dns", "ready", "result", "abort"}

=============================================================================
