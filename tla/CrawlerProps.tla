---------------------------- MODULE CrawlerProps ----------------------------
(* What the spider process (module Crawler) is to guarantee.               *)
EXTENDS Crawler

\* what a queue holds, each item with its place
Places(name, q) == {<<name, i, q[i]>> : i \in DOMAIN q}
Posted(to)      == {p \in Places("outbox", outbox) : p[3].to = to}

\* the fetches under way: from httpRequest to the result svc handles
InFlight(k) ==
    {p \in Places("wait", wait_list_) \cup Places("ready", ready_list_)
            \cup Places("request", http_request_) \cup Places("result", http_result_)
            \cup {<<"timer", 0, q>> : q \in timers} \cup {<<"conn", 0, q>> : q \in conns} :
        p[3].site = k}
    \cup {p \in Posted("wait") \cup Posted("down") : p[3].item.site = k}
LeakedFlight(k) ==
    {x \in leaked : (x \in Request \/ x \in Result) /\ x.site = k}

\* the DNS questions under way for a host
Asked(h) ==
    {p \in Places("request", dns_request_) : p[3] = h}
    \cup {p \in Posted("dns") : p[3].item = h}
    \cup {<<"resolver", t, h>> : t \in {t \in Resolver : resolving[t] = h}}
    \cup {p \in Places("answer", dns_result_) : p[3].host = h}

\* the places that hold resource r
InSites(r) ==
    UNION {{<<"site", k, i>> : i \in {i \in DOMAIN sites_map_[k].res_list_ : sites_map_[k].res_list_[i] = r}} :
           k \in {k \in Site : IsSite(k)}}
Owners(r) ==
    {p \in Places("list", res_list_) : p[3] = r} \cup InSites(r)
    \cup {p \in Posted("wait") \cup Posted("down") \cup Posted("store") : p[3].item.res = r}
    \cup {p \in Places("wait", wait_list_) \cup {<<"timer", 0, q>> : q \in timers}
               \cup Places("ready", ready_list_)
               \cup Places("request", http_request_) \cup {<<"conn", 0, q>> : q \in conns}
               \cup Places("result", http_result_) \cup Places("store", store_result_)
               \cup {<<"writer", t, storing[t]>> : t \in {t \in Writer : storing[t] # Idle}} :
             p[3].res = r}
LeakedRes(r) == {x \in leaked : x = r \/ ((x \in Request \/ x \in Result) /\ x.res = r)}

(* A site with resources to fetch is being fetched or resolved: svc looks  *)
(* at a site only when something about it arrives, so a site left idle     *)
(* with a non-empty list would never be looked at again.                   *)
NoForgottenSite ==
    \A k \in Site : IsSite(k) /\ k[1] # NoHost /\ sites_map_[k].res_list_ # <<>>
        => sites_map_[k].is_fetching_ \/ sites_map_[k].dns_is_resolving_

(* A site marked as being fetched has a request somewhere between the      *)
(* scheduler, the waiter and the downloader, or a queue that was full has  *)
(* dropped it: nothing else ever clears is_fetching_.                      *)
FetchingIsInFlight ==
    \A k \in Site : IsSite(k) /\ sites_map_[k].is_fetching_
        => InFlight(k) # {} \/ LeakedFlight(k) # {}

(* dns_is_resolving_ is set exactly while one question about the host is   *)
(* between the scheduler and the resolvers (or its answer was dropped), so *)
(* the assert of _dnsResult_ holds.  For crawls of default-port URLs.      *)
ResolvingIsAskedOnce ==
    \A h \in Host : Cardinality(Asked(h)) + Cardinality({d \in leaked : d \in DnsEntity /\ d.host = h})
        = IF IsSite(HostKey(h)) /\ sites_map_[HostKey(h)].dns_is_resolving_ THEN 1 ELSE 0

(* A Res is in exactly one place from the moment it is accepted until its  *)
(* record is written, and then in none: never freed twice, never lost but  *)
(* by a full queue, never recorded twice.                                  *)
EachResOnce ==
    Alive => \A r \in Res :
        Cardinality(Owners(r)) + Cardinality(LeakedRes(r)) + Len(written[r])
            = IF r \in accepted THEN 1 ELSE 0

(* A fetch that failed is recorded as a failure only when its retries are  *)
(* used up (Website::httpResult); a DNS failure is recorded at once.       *)
ErrorOnlyAfterRetries ==
    \A x \in {p[3].item : p \in Posted("store")} \cup {p[3] : p \in Places("store", store_result_)}
            \cup {storing[t] : t \in {t \in Writer : storing[t] # Idle}} :
        x.state = "ERROR" /\ x.rqst => err_count[x.res] = DOWN_err_retry_max

(* One site is fetched by one request at a time: that is what is_fetching_ *)
(* is for.                                                                 *)
OneFetchPerSite == \A k \in Site : Cardinality(InFlight(k)) <= 1

(* What the assert at the head of _dnsResult_ says: an answer that svc     *)
(* pops belongs to a site that is waiting for it.                          *)
AnswerIsAwaited ==
    Turning("dns") /\ dns_result_ # <<>> /\ IsSite(HostKey(Head(dns_result_).host))
        => sites_map_[HostKey(Head(dns_result_).host)].dns_is_resolving_

(* The client's view: CrawlSpec.                                           *)
Answer(r) == IF r \notin accepted THEN "new"
             ELSE IF written[r] = <<>> THEN "pending"
             ELSE IF Len(written[r]) = 1 THEN written[r][1] ELSE "twice"
Client == INSTANCE CrawlSpec WITH answer <- [r \in Res |-> Answer(r)]
KeepsPromise == Client!CSpec

=============================================================================
