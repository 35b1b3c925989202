--------------------------- MODULE CrawlerProofs ---------------------------
(***************************************************************************)
(* Theorems about Crawler, for any resources, hosts, ports, threads and    *)
(* queue sizes.                                                            *)
(*                                                                         *)
(* TypeOK is not inductive: ResultTurn looks up the site of a result, and  *)
(* only because no site ever leaves sites_map_ is there one (SitesKnown).  *)
(* NoForgottenSite needs to know why a site whose address is neither known *)
(* nor refused may wait: a question is under way (LookedAt).               *)
(***************************************************************************)
EXTENDS CrawlerProps, TLAPS

KnownRequest == {q \in Request : IsSite(q.site)}
KnownResult  == {x \in Result : IsSite(x.site)}
KnownPost    == {p \in Post : p.to # "dns" => IsSite(p.item.site)}

\* what is under way for a site is under way for one that is in the map
SitesKnown ==
    /\ outbox \in Seq(KnownPost)
    /\ wait_list_ \in Seq(KnownRequest) /\ timers \subseteq KnownRequest
    /\ ready_list_ \in Seq(KnownRequest)
    /\ http_request_ \in Seq(KnownRequest) /\ conns \subseteq KnownRequest
    /\ http_result_ \in Seq(KnownResult)

\* a site has a reason to wait
LookedAt(k, s) ==
    k[1] # NoHost =>
        /\ s.dns_state \notin {"OK", "ERROR"} => s.dns_is_resolving_
        /\ s.res_list_ # <<>> => s.is_fetching_ \/ s.dns_is_resolving_

AllLookedAt == \A k \in Site : IsSite(k) => LookedAt(k, sites_map_[k])

IInv == DataOK /\ SitesKnown /\ AllLookedAt

-----------------------------------------------------------------------------
(* Sequences *)

LEMMA SeqAppend == ASSUME NEW S, NEW q \in Seq(S), NEW x \in S PROVE Append(q, x) \in Seq(S)
  OBVIOUS

LEMMA SeqOne == ASSUME NEW S, NEW x \in S PROVE <<x>> \in Seq(S) /\ <<>> \in Seq(S)
  OBVIOUS

LEMMA SeqTail ==
    ASSUME NEW S, NEW q \in Seq(S), q # <<>>
    PROVE  Head(q) \in S /\ Tail(q) \in Seq(S)
  OBVIOUS

LEMMA SeqCat == ASSUME NEW S, NEW p \in Seq(S), NEW q \in Seq(S) PROVE p \o q \in Seq(S)
  OBVIOUS

LEMMA SeqMono == ASSUME NEW S, NEW T, S \subseteq T PROVE Seq(S) \subseteq Seq(T)
  OBVIOUS

LEMMA SeqPushed ==
    ASSUME NEW S, NEW q \in Seq(S), NEW x \in S, NEW max
    PROVE  Pushed(q, max, x) \in Seq(S)
  BY SeqAppend DEF Pushed

-----------------------------------------------------------------------------
(* What the calls of a turn do to a site                                   *)

\* the posts a turn of site k may make
PostOf(k) == {p \in Post : p.to # "dns" => p.item.site = k}
TurnOf(k) == [site: Website, out: Seq(PostOf(k))]

LEMMA TurnType ==
    ASSUME NEW k, NEW s \in Website, NEW out \in Seq(PostOf(k))
    PROVE  Turn(s, out) \in TurnOf(k) /\ Turn(s, out).site = s
  BY DEF Turn, TurnOf

\* an address that is neither known nor refused is being asked for
Asking(k, s) == k[1] # NoHost /\ s.dns_state \notin {"OK", "ERROR"} => s.dns_is_resolving_

Question == [to: {"dns"}, item: Host]

LEMMA AskDnsType ==
    ASSUME NEW k \in Site, NEW s \in Website
    PROVE  /\ AskDns(k, s) \in TurnOf(k) /\ Asking(k, AskDns(k, s).site)
           /\ AskDns(k, s).out \in Seq(Question)
           /\ k[1] # NoHost => AskDns(k, s).site.dns_is_resolving_
  <1>1. CASE k[1] = NoHost
    BY <1>1 DEF AskDns, Turn, TurnOf, Asking
  <1>2. CASE k[1] # NoHost
    <2>1. k[1] \in Host
      BY <1>2 DEF Site, AnyHost
    <2>2. DnsPost(k[1]) \in PostOf(k) /\ DnsPost(k[1]) \in Question
      BY <2>1 DEF DnsPost, PostOf, Post, Question
    <2>3. /\ [s EXCEPT !.dns_is_resolving_ = TRUE] \in Website
          /\ [s EXCEPT !.dns_is_resolving_ = TRUE].dns_is_resolving_
      BY DEF Website
    <2>4. <<DnsPost(k[1])>> \in Seq(PostOf(k)) /\ <<DnsPost(k[1])>> \in Seq(Question)
      BY <2>2, SeqOne
    <2> QED BY <1>2, <2>3, <2>4 DEF AskDns, Turn, TurnOf, Asking
  <1> QED BY <1>1, <1>2

\* a new site, or one that is already asking, is asking after the call
LEMMA SubmitDnsRequestType ==
    ASSUME NEW k \in Site, NEW s \in Website, NEW e \in BOOLEAN,
           s.dns_state # "INIT" => Asking(k, s)
    PROVE  /\ SubmitDnsRequest(k, s, e) \in TurnOf(k)
           /\ Asking(k, SubmitDnsRequest(k, s, e).site)
  <1>1. [s EXCEPT !.dns_state = "ERROR_RETRY"] \in Website
    BY DEF Website, DnsState
  <1>2. [s EXCEPT !.dns_state = "UPDATE"] \in Website
    BY DEF Website, DnsState
  <1>3. Turn(s, <<>>) \in TurnOf(k) /\ Turn(s, <<>>).site = s
    BY DEF Turn, TurnOf
  <1>4. CASE s.dns_is_resolving_
    BY <1>3, <1>4 DEF SubmitDnsRequest, Asking
  <1>5. CASE ~s.dns_is_resolving_ /\ s.dns_state = "INIT"
    BY <1>5, AskDnsType DEF SubmitDnsRequest
  <1>6. CASE ~s.dns_is_resolving_ /\ s.dns_state = "ERROR" /\ e
    BY <1>1, <1>6, AskDnsType DEF SubmitDnsRequest
  <1>7. CASE ~s.dns_is_resolving_ /\ s.dns_state = "OK" /\ e
    BY <1>2, <1>7, AskDnsType DEF SubmitDnsRequest
  <1>8. CASE ~s.dns_is_resolving_ /\ s.dns_state # "INIT" /\ ~(s.dns_state \in {"OK", "ERROR"} /\ e)
    BY <1>3, <1>8 DEF SubmitDnsRequest
  <1> QED BY <1>4, <1>5, <1>6, <1>7, <1>8

LEMMA FetchFailedAllResType ==
    ASSUME NEW k \in Site, NEW s \in Website
    PROVE  /\ FetchFailedAllRes(k, s) \in TurnOf(k)
           /\ FetchFailedAllRes(k, s).site.res_list_ = <<>>
           /\ FetchFailedAllRes(k, s).site.dns_state = s.dns_state
           /\ FetchFailedAllRes(k, s).site.dns_is_resolving_ = s.dns_is_resolving_
  <1> DEFINE l == s.res_list_
             out == [i \in 1..Len(l) |-> StorePost(DnsFailure(k, l[i]))]
             left == [s EXCEPT !.res_list_ = <<>>, !.is_fetching_ = @ /\ l = <<>>]
  <1>1. l \in Seq(Res)
    BY DEF Website
  <1>2. ASSUME NEW i \in 1..Len(l) PROVE StorePost(DnsFailure(k, l[i])) \in PostOf(k)
    <2>1. l[i] \in Res
      BY <1>1, <1>2
    <2> QED BY <2>1 DEF StorePost, DnsFailure, PostOf, Post, Result
  <1>3. out \in Seq(PostOf(k))
    BY <1>1, <1>2
  <1>4. left \in Website /\ left.res_list_ = <<>> /\ left.dns_state = s.dns_state
        /\ left.dns_is_resolving_ = s.dns_is_resolving_
    <2> DEFINE b == s.is_fetching_ /\ l = <<>>
               rest == [s EXCEPT !.res_list_ = <<>>]
    <2>1. rest \in Website /\ rest.res_list_ = <<>> /\ rest.dns_state = s.dns_state
          /\ rest.dns_is_resolving_ = s.dns_is_resolving_
      <3>1. <<>> \in Seq(Res)
        OBVIOUS
      <3> QED BY <3>1 DEF Website
    <2>2. b \in BOOLEAN
      OBVIOUS
    <2>3. left = [rest EXCEPT !.is_fetching_ = b]
      BY DEF Website
    <2> HIDE DEF rest, b
    <2> QED BY <2>1, <2>3, <2>2 DEF Website
  <1> QED BY <1>3, <1>4 DEF FetchFailedAllRes, Turn, TurnOf

LEMMA HttpRequestType ==
    ASSUME NEW k \in Site, NEW s \in Website, s.res_list_ # <<>>
    PROVE  /\ HttpRequest(k, s) \in TurnOf(k)
           /\ HttpRequest(k, s).site.is_fetching_
           /\ HttpRequest(k, s).site.dns_state = s.dns_state
           /\ HttpRequest(k, s).site.dns_is_resolving_ = s.dns_is_resolving_
  <1> DEFINE q == [res |-> Head(s.res_list_), site |-> k]
             left == [s EXCEPT !.res_list_ = Tail(@), !.is_fetching_ = TRUE]
  <1>1. Head(s.res_list_) \in Res /\ Tail(s.res_list_) \in Seq(Res)
    BY DEF Website
  <1>2. WaitPost(q) \in PostOf(k)
    BY <1>1 DEF WaitPost, PostOf, Post, Request
  <1>3. <<WaitPost(q)>> \in Seq(PostOf(k))
    BY <1>2, SeqOne
  <1>4. left \in Website /\ left.is_fetching_ /\ left.dns_state = s.dns_state
        /\ left.dns_is_resolving_ = s.dns_is_resolving_
    BY <1>1 DEF Website
  <1> QED BY <1>4, <1>3 DEF HttpRequest, Turn, TurnOf

\* every turn that touches a site ends with this call: no site is left idle
LEMMA SubmitHttpRequestType ==
    ASSUME NEW k \in Site, NEW s \in Website, Asking(k, s)
    PROVE  /\ SubmitHttpRequest(k, s) \in TurnOf(k)
           /\ LookedAt(k, SubmitHttpRequest(k, s).site)
  <1>1. CASE s.dns_state = "ERROR"
    BY <1>1, FetchFailedAllResType DEF SubmitHttpRequest, LookedAt
  <1>2. CASE s.dns_state = "OK" /\ ~s.is_fetching_ /\ s.res_list_ # <<>>
    BY <1>2, HttpRequestType DEF SubmitHttpRequest, LookedAt
  <1>3. CASE s.dns_state # "ERROR" /\ ~(s.dns_state = "OK" /\ ~s.is_fetching_ /\ s.res_list_ # <<>>)
    BY <1>3 DEF SubmitHttpRequest, LookedAt, Asking, Turn, TurnOf
  <1> QED BY <1>1, <1>2, <1>3

LEMMA AddResType ==
    ASSUME NEW s \in Website, NEW r \in Res
    PROVE  /\ AddRes(s, r) \in Website
           /\ AddRes(s, r).dns_state = s.dns_state
           /\ AddRes(s, r).dns_is_resolving_ = s.dns_is_resolving_
  BY SeqAppend DEF AddRes, Website

LEMMA NewSiteType ==
    NewSite \in Website /\ NewSite.dns_state = "INIT" /\ ~NewSite.dns_is_resolving_
  BY LimitAssumption DEF NewSite, Website, DnsState

LEMMA RetryCountType ==
    ASSUME NEW s \in Website, NEW n \in 0..DNS_retry_max
    PROVE  LET t == [s EXCEPT !.dns_retry_count_ = n]
           IN t \in Website /\ t.dns_state = s.dns_state
  BY DEF Website

LEMMA DnsResultType ==
    ASSUME NEW k \in Site, NEW s \in Website, NEW answer \in {"OK", "ERROR"}
    PROVE  /\ DnsResult(k, s, answer) \in TurnOf(k)
           /\ Asking(k, DnsResult(k, s, answer).site)
  <1> DEFINE got == [s EXCEPT !.dns_state = answer, !.dns_is_resolving_ = FALSE]
             retry == [got EXCEPT !.dns_retry_count_ = @ + 1, !.dns_state = "ERROR_RETRY"]
             known == [got EXCEPT !.dns_retry_count_ = 0]
  <1>1. DnsResult(k, s, answer) =
          IF answer = "OK" THEN Turn(known, <<>>)
          ELSE IF got.dns_retry_count_ < DNS_retry_max THEN AskDns(k, retry) ELSE Turn(got, <<>>)
    BY DEF DnsResult
  <1>2. got \in Website /\ got.dns_state = answer
    BY DEF Website, DnsState
  <1>3. got \in Website => known \in Website /\ known.dns_state = got.dns_state
    <2> HIDE DEF got
    <2> QED BY LimitAssumption, RetryCountType
  <1>4. got \in Website /\ got.dns_retry_count_ < DNS_retry_max => retry \in Website
    <2> DEFINE more == [got EXCEPT !.dns_retry_count_ = @ + 1]
    <2> HIDE DEF got
    <2>1. got \in Website /\ got.dns_retry_count_ < DNS_retry_max
          => got.dns_retry_count_ + 1 \in 0..DNS_retry_max
      BY LimitAssumption DEF Website
    <2>2. got \in Website /\ got.dns_retry_count_ < DNS_retry_max => more \in Website
      BY <2>1, RetryCountType
    <2>3. got \in Website => retry = [more EXCEPT !.dns_state = "ERROR_RETRY"]
      BY DEF Website
    <2> HIDE DEF more
    <2> QED BY <2>2, <2>3 DEF Website, DnsState
  <1> HIDE DEF got, retry, known
  <1>5. CASE answer = "OK"
    BY <1>1, <1>2, <1>5, <1>3 DEF Turn, TurnOf, Asking
  <1>6. CASE answer = "ERROR" /\ got.dns_retry_count_ < DNS_retry_max
    BY <1>1, <1>2, <1>6, <1>4, AskDnsType
  <1>7. CASE answer = "ERROR" /\ ~(got.dns_retry_count_ < DNS_retry_max)
    BY <1>1, <1>2, <1>7 DEF Turn, TurnOf, Asking
  <1> QED BY <1>5, <1>6, <1>7

LEMMA HttpResultType ==
    ASSUME DataOK, NEW x \in Result, NEW s \in Website
    PROVE  /\ HttpResult(s, x) \in TurnOf(x.site)
           /\ HttpResult(s, x).site.dns_state = s.dns_state
           /\ HttpResult(s, x).site.dns_is_resolving_ = s.dns_is_resolving_
  <1> DEFINE t == IF Retried(x) THEN AddRes(s, x.res) ELSE s
             left == [t EXCEPT !.is_fetching_ = FALSE]
             out == IF Retried(x) THEN <<>> ELSE <<StorePost(x)>>
  <1>1. t \in Website /\ t.dns_state = s.dns_state /\ t.dns_is_resolving_ = s.dns_is_resolving_
    BY AddResType DEF Result
  <1>2. left \in Website /\ left.dns_state = s.dns_state
        /\ left.dns_is_resolving_ = s.dns_is_resolving_
    BY <1>1 DEF Website
  <1>3. StorePost(x) \in PostOf(x.site)
    BY DEF StorePost, PostOf, Post, Result
  <1>4. out \in Seq(PostOf(x.site))
    BY <1>3, SeqOne
  <1> QED BY <1>2, <1>4 DEF HttpResult, Turn, TurnOf

LEMMA AndThenType ==
    ASSUME NEW k, NEW t \in TurnOf(k), NEW u \in TurnOf(k)
    PROVE  AndThen(t, u) \in TurnOf(k) /\ AndThen(t, u).site = u.site
  BY SeqCat DEF AndThen, Turn, TurnOf

-----------------------------------------------------------------------------
(* What a turn leaves behind                                               *)

LEMMA FreshInv == ASSUME NEW p, Fresh(p) PROVE IInv
  <1> USE DEF Fresh
  <1>1. \A k \in Site : ~IsSite(k)
    BY DEF IsSite
  <1>2. DataOK
    BY LimitAssumption DEF DataOK
  <1>3. SitesKnown
    BY DEF SitesKnown
  <1> QED BY <1>1, <1>2, <1>3 DEF IInv, AllLookedAt

LEMMA InitInv == Init => IInv
  BY FreshInv DEF Init

\* what was known stays known while no site goes
LEMMA KnownStays ==
    ASSUME \A k \in Site : IsSite(k) => IsSite(k)'
    PROVE  /\ KnownRequest \subseteq KnownRequest' /\ KnownResult \subseteq KnownResult'
           /\ KnownPost \subseteq KnownPost'
  BY DEF KnownRequest, KnownResult, KnownPost, Request, Result, Post

\* a turn that keeps the map and the outbox in order
GoodTurn ==
    /\ sites_map_' \in [Site -> Website \cup {Null, Absent}]
    /\ outbox' \in Seq(Post) /\ (outbox \in Seq(KnownPost))'
    /\ \A j \in Site : IsSite(j) => IsSite(j)'
    /\ AllLookedAt'

LEMMA LeaveType ==
    ASSUME DataOK, AllLookedAt, NEW k \in Site, NEW t \in TurnOf(k), LookedAt(k, t.site),
           Leave(k, t)
    PROVE  GoodTurn
  <1>1. t.site \in Website /\ t.out \in Seq(PostOf(k))
    BY DEF TurnOf
  <1>2. sites_map_' = [sites_map_ EXCEPT ![k] = t.site] /\ outbox' = t.out
    BY DEF Leave
  <1>3. sites_map_' \in [Site -> Website \cup {Null, Absent}]
        /\ sites_map_'[k] = t.site /\ \A j \in Site : j # k => sites_map_'[j] = sites_map_[j]
    BY <1>1, <1>2 DEF DataOK
  <1>4. IsSite(k)'
    BY <1>1, <1>3, NullAssumption DEF IsSite
  <1>5. \A j \in Site : IsSite(j) => IsSite(j)'
    BY <1>3, <1>4 DEF IsSite
  <1>6. PostOf(k) \subseteq Post /\ PostOf(k) \subseteq KnownPost'
    BY <1>4 DEF PostOf, KnownPost, Post
  <1>7. outbox' \in Seq(Post) /\ outbox' \in Seq(KnownPost')
    BY <1>1, <1>2, <1>6, SeqMono
  <1>8. AllLookedAt'
    <2> SUFFICES ASSUME NEW j \in Site, IsSite(j)' PROVE LookedAt(j, sites_map_[j])'
      BY DEF AllLookedAt
    <2>1. CASE j = k
      BY <1>3, <2>1 DEF LookedAt
    <2>2. CASE j # k
      BY <1>3, <2>2 DEF AllLookedAt, LookedAt, IsSite
    <2> QED BY <2>1, <2>2
  <1> QED BY <1>3, <1>5, <1>7, <1>8 DEF GoodTurn

LEMMA StayType ==
    ASSUME AllLookedAt, UNCHANGED sites_map_
    PROVE  /\ KnownRequest' = KnownRequest /\ KnownResult' = KnownResult
           /\ KnownPost' = KnownPost /\ AllLookedAt'
  BY DEF KnownRequest, KnownResult, KnownPost, AllLookedAt, IsSite, LookedAt

-----------------------------------------------------------------------------
(* The turns of svc                                                        *)

LEMMA KnownSiteInv ==
    ASSUME IInv, NEW k \in Site, NEW r \in Res, NEW e \in BOOLEAN, KnownSite(k, r, e)
    PROVE  GoodTurn
  <1> DEFINE s == AddRes(sites_map_[k], r)
             asked == SubmitDnsRequest(k, s, e)
             sent == SubmitHttpRequest(k, asked.site)
  <1>1. sites_map_[k] \in Website /\ LookedAt(k, sites_map_[k])
    BY DEF KnownSite, IInv, DataOK, IsSite, AllLookedAt
  <1>2. s \in Website /\ Asking(k, s)
    BY <1>1, AddResType DEF LookedAt, Asking
  <1>3. asked \in TurnOf(k) /\ Asking(k, asked.site)
    BY <1>2, SubmitDnsRequestType
  <1>4. asked.site \in Website
    BY <1>3 DEF TurnOf
  <1>5. sent \in TurnOf(k) /\ LookedAt(k, sent.site)
    BY <1>3, <1>4, SubmitHttpRequestType
  <1>6. Leave(k, AndThen(asked, sent))
    BY DEF KnownSite
  <1> HIDE DEF asked, sent
  <1> QED BY <1>3, <1>5, <1>6, AndThenType, LeaveType DEF IInv

LEMMA FreshSiteInv ==
    ASSUME IInv, outbox = <<>>, NEW f \in Site, NEW k \in Site, NEW r \in Res, FreshSite(f, k, r)
    PROVE  GoodTurn
  <1> DEFINE s == AddRes(NewSite, r)
             asked == SubmitDnsRequest(k, s, FALSE)
  <1>1. s \in Website /\ s.dns_state = "INIT" /\ ~s.dns_is_resolving_
    BY NewSiteType, AddResType
  <1>2. asked = AskDns(k, s)
    BY <1>1 DEF SubmitDnsRequest
  <1>3. /\ asked \in TurnOf(k) /\ Asking(k, asked.site) /\ asked.out \in Seq(Question)
        /\ k[1] # NoHost => asked.site.dns_is_resolving_
    BY <1>1, <1>2, AskDnsType
  <1>4. LookedAt(k, asked.site)
    BY <1>3 DEF LookedAt, Asking
  <1>5. CASE Leave(k, asked)
    BY <1>3, <1>4, <1>5, LeaveType DEF IInv
  <1>6. CASE outbox' = asked.out /\ UNCHANGED sites_map_
    <2>1. Question \subseteq Post /\ Question \subseteq KnownPost
      BY DEF Question, Post, KnownPost
    <2>2. asked.out \in Seq(Post) /\ asked.out \in Seq(KnownPost)
      BY <1>3, <2>1, SeqMono
    <2>3. \A j \in Site : IsSite(j) => IsSite(j)'
      BY <1>6 DEF IsSite
    <2> HIDE DEF asked
    <2> QED BY <1>6, <2>2, <2>3, StayType DEF IInv, DataOK, GoodTurn
  <1> QED BY <1>5, <1>6 DEF FreshSite

\* what is under way stays known when only http_result_ is taken from
LEMMA GoodTurnKnown ==
    ASSUME SitesKnown, GoodTurn, UNCHANGED <<waitVars, http_request_, conns>>,
           http_result_' \in Seq(KnownResult)
    PROVE  SitesKnown'
  <1>1. /\ KnownRequest \subseteq KnownRequest' /\ KnownResult \subseteq KnownResult'
    BY KnownStays DEF GoodTurn
  <1>2. Seq(KnownRequest) \subseteq Seq(KnownRequest') /\ Seq(KnownResult) \subseteq Seq(KnownResult')
    BY <1>1, SeqMono
  <1> QED BY <1>1, <1>2 DEF SitesKnown, GoodTurn, waitVars

LEMMA SiteKeys ==
    ASSUME NEW r \in Res
    PROVE  SiteKey(r) \in Site /\ HostKey(UrlOf[r].host) \in Site
  BY UrlAssumption, HostAssumption DEF SiteKey, HostKey, Site, AnyHost

LEMMA ResTurnInv == IInv /\ ResTurn => IInv'
  <1> SUFFICES ASSUME IInv, ResTurn PROVE IInv'
    OBVIOUS
  <1> DEFINE r == Head(res_list_)
             found == HostKey(UrlOf[r].host)
             Kept == /\ GoodTurn
                     /\ leaked' \subseteq leaked \cup {r}
  <1>1. r \in Res /\ Tail(res_list_) \in Seq(Res) /\ outbox = <<>>
    BY DEF ResTurn, Turning, IInv, DataOK
  <1>2. found \in Site /\ SiteKey(r) \in Site
    BY <1>1, SiteKeys
  <1>3. Kept
    <2>1. ASSUME NEW e \in Expiry, KnownSite(found, r, e) PROVE Kept
      BY <1>1, <1>2, <2>1, KnownSiteInv, LimitAssumption DEF KnownSite, IInv, DataOK
    <2>2. CASE FreshSite(found, SiteKey(r), r)
      BY <1>1, <1>2, <2>2, FreshSiteInv DEF FreshSite, IInv, DataOK
    <2>3. CASE Abort
      BY <1>1, <2>3, StayType DEF Abort, siteVars, GoodTurn, IInv, DataOK, SitesKnown, IsSite
    <2> QED BY <2>1, <2>2, <2>3 DEF ResTurn
  <1>4. SitesKnown'
    BY <1>3, GoodTurnKnown DEF ResTurn, IInv, SitesKnown, downVars
  <1>5. max_slot' \in 0..RES_add_res_each_loop
    <2>1. max_slot > 0 /\ max_slot' = max_slot - 1 /\ max_slot \in 0..RES_add_res_each_loop
      BY DEF ResTurn, IInv, DataOK
    <2>2. RES_add_res_each_loop \in Nat
      BY LimitAssumption
    <2> QED BY <2>1, <2>2
  <1>6. DataOK'
    BY <1>1, <1>3, <1>5 DEF ResTurn, IInv, DataOK, GoodTurn, dnsVars, waitVars, downVars, storeVars
  <1> QED BY <1>3, <1>4, <1>6 DEF IInv, GoodTurn

LEMMA DnsTurnInv == IInv /\ DnsTurn => IInv'
  <1> SUFFICES ASSUME IInv, DnsTurn PROVE IInv'
    OBVIOUS
  <1> DEFINE d == Head(dns_result_)
             k == HostKey(d.host)
             s == sites_map_[k]
             got == DnsResult(k, s, d.state)
             sent == SubmitHttpRequest(k, got.site)
             Kept == /\ GoodTurn
                     /\ leaked' \subseteq leaked \cup {d}
  <1>1. d \in DnsEntity /\ Tail(dns_result_) \in Seq(DnsEntity) /\ outbox = <<>>
    BY SeqTail DEF DnsTurn, Turning, IInv, DataOK
  <1>2. k \in Site /\ d.state \in {"OK", "ERROR"}
    BY <1>1, HostAssumption DEF DnsEntity, HostKey, Site, AnyHost
  <1>3. Kept
    <2>1. CASE IsSite(k) /\ Leave(k, AndThen(got, sent)) /\ UNCHANGED <<phase, leaked>>
      <3>1. s \in Website
        BY <1>2, <2>1 DEF IInv, DataOK, IsSite
      <3>2. got \in TurnOf(k) /\ Asking(k, got.site) /\ got.site \in Website
        BY <1>2, <3>1, DnsResultType DEF TurnOf
      <3>3. sent \in TurnOf(k) /\ LookedAt(k, sent.site)
        BY <1>2, <3>2, SubmitHttpRequestType
      <3> HIDE DEF got, sent, k
      <3> QED BY <1>2, <2>1, <3>2, <3>3, AndThenType, LeaveType DEF IInv, DataOK
    <2>2. CASE Abort
      BY <1>1, <2>2, StayType DEF Abort, siteVars, GoodTurn, IInv, DataOK, SitesKnown, IsSite
    <2>3. CASE /\ ~IsSite(k) /\ sites_map_' = [sites_map_ EXCEPT ![k] = Null]
               /\ leaked' = leaked \cup {d} /\ UNCHANGED <<phase, outbox>>
      <3> HIDE DEF k
      <3>1. sites_map_'[k] = Null /\ \A j \in Site : j # k => sites_map_'[j] = sites_map_[j]
        BY <1>2, <2>3 DEF IInv, DataOK
      <3>2. \A j \in Site : IsSite(j)' <=> IsSite(j)
        BY <1>2, <2>3, <3>1 DEF IsSite
      <3>3. \A j \in Site : IsSite(j) => sites_map_'[j] = sites_map_[j]
        BY <2>3, <3>1
      <3>4. AllLookedAt'
        BY <3>2, <3>3 DEF AllLookedAt, LookedAt, IInv
      <3>5. outbox' = <<>> /\ sites_map_' \in [Site -> Website \cup {Null, Absent}]
        BY <1>1, <1>2, <2>3 DEF IInv, DataOK
      <3> QED BY <2>3, <3>2, <3>4, <3>5 DEF GoodTurn, IInv, DataOK
    <2> QED BY <2>1, <2>2, <2>3 DEF DnsTurn
  <1>4. SitesKnown'
    BY <1>3, GoodTurnKnown DEF DnsTurn, IInv, SitesKnown, downVars
  <1>5. DataOK'
    BY <1>1, <1>3 DEF DnsTurn, IInv, DataOK, GoodTurn, waitVars, downVars, storeVars
  <1> QED BY <1>3, <1>4, <1>5 DEF IInv, GoodTurn

LEMMA ResultTurnInv == IInv /\ ResultTurn => IInv'
  <1> SUFFICES ASSUME IInv, ResultTurn PROVE IInv'
    OBVIOUS
  <1> DEFINE x == Head(http_result_)
             k == x.site
             done == HttpResult(sites_map_[k], x)
             sent == SubmitHttpRequest(k, done.site)
  <1>1. /\ x \in KnownResult /\ Tail(http_result_) \in Seq(KnownResult)
        /\ Tail(http_result_) \in Seq(Result)
    BY SeqTail DEF ResultTurn, IInv, DataOK, SitesKnown
  <1>2. x \in Result /\ k \in Site /\ x.res \in Res /\ IsSite(k)
    BY <1>1 DEF KnownResult, Result
  <1>3. sites_map_[k] \in Website /\ Asking(k, sites_map_[k])
    BY <1>2 DEF IInv, DataOK, IsSite, AllLookedAt, LookedAt, Asking
  <1>4. done \in TurnOf(k) /\ Asking(k, done.site) /\ done.site \in Website
    BY <1>2, <1>3, HttpResultType DEF TurnOf, Asking, IInv
  <1>5. sent \in TurnOf(k) /\ LookedAt(k, sent.site)
    BY <1>2, <1>4, SubmitHttpRequestType
  <1>6. GoodTurn
    <2>1. Leave(k, AndThen(done, sent))
      BY DEF ResultTurn
    <2> HIDE DEF done, sent, k
    <2> QED BY <1>2, <1>4, <1>5, <2>1, AndThenType, LeaveType DEF IInv
  <1>7. err_count' \in [Res -> 0..DOWN_err_retry_max]
    <2>1. CASE Retried(x)
      <3>1. err_count[x.res] + 1 \in 0..DOWN_err_retry_max
        <4>1. err_count[x.res] < DOWN_err_retry_max
          BY <2>1 DEF Retried
        <4>2. err_count[x.res] \in 0..DOWN_err_retry_max
          BY <1>2 DEF IInv, DataOK
        <4>3. DOWN_err_retry_max \in Nat
          BY LimitAssumption
        <4> QED BY <4>1, <4>2, <4>3
      <3> QED BY <1>2, <2>1, <3>1 DEF ResultTurn, IInv, DataOK
    <2>2. CASE ~Retried(x)
      BY <1>2, <2>2 DEF ResultTurn, IInv, DataOK
    <2> QED BY <2>1, <2>2
  <1>8. SitesKnown'
    BY <1>1, <1>6, GoodTurnKnown DEF ResultTurn, IInv, SitesKnown
  <1>9. DataOK'
    BY <1>1, <1>6, <1>7
    DEF ResultTurn, IInv, DataOK, GoodTurn, loopVars, dnsVars, waitVars, storeVars
  <1> QED BY <1>6, <1>8, <1>9 DEF IInv, GoodTurn

LEMMA ReadyTurnInv == IInv /\ ReadyTurn => IInv'
  <1> SUFFICES ASSUME IInv, ReadyTurn PROVE IInv'
    OBVIOUS
  <1> DEFINE q == Head(ready_list_)
  <1>1. q \in Request /\ q \in KnownRequest /\ Tail(ready_list_) \in Seq(Request)
        /\ Tail(ready_list_) \in Seq(KnownRequest)
    BY SeqTail DEF ReadyTurn, IInv, DataOK, SitesKnown
  <1>2. DownPost(q) \in Post /\ DownPost(q) \in KnownPost
    BY <1>1 DEF DownPost, Post, KnownPost, KnownRequest
  <1>3. outbox' \in Seq(Post) /\ outbox' \in Seq(KnownPost)
    BY <1>2, SeqOne DEF ReadyTurn
  <1>4. UNCHANGED sites_map_ /\ ready_list_' = Tail(ready_list_)
    BY DEF ReadyTurn
  <1>5. /\ KnownRequest' = KnownRequest /\ KnownResult' = KnownResult
        /\ KnownPost' = KnownPost /\ AllLookedAt'
    BY <1>4, StayType DEF IInv
  <1>6. SitesKnown'
    BY <1>1, <1>3, <1>4, <1>5 DEF ReadyTurn, SitesKnown, IInv, downVars
  <1>7. DataOK'
    BY <1>1, <1>3, <1>4 DEF ReadyTurn, IInv, DataOK, loopVars, dnsVars, downVars, storeVars
  <1> QED BY <1>5, <1>6, <1>7 DEF IInv

LEMMA EndLoopInv == IInv /\ (EndRes \/ EndDns \/ EndReady \/ EndResult) => IInv'
  <1> SUFFICES ASSUME IInv, NEW p, NEW more, NEW q \in {"res", "dns", "ready", "result"},
                      NextLoop(p, more, q)
               PROVE  IInv'
    BY DEF EndRes, EndDns, EndReady, EndResult
  <1>1. UNCHANGED sites_map_
    BY DEF NextLoop, siteVars
  <1>2. SitesKnown' /\ AllLookedAt'
    BY <1>1, StayType DEF NextLoop, IInv, SitesKnown, siteVars, waitVars, downVars
  <1>3. max_slot' \in 0..RES_add_res_each_loop
    BY LimitAssumption DEF NextLoop, IInv, DataOK
  <1>4. DataOK'
    BY <1>3 DEF NextLoop, IInv, DataOK, siteVars, dnsVars, waitVars, downVars, storeVars
  <1> QED BY <1>2, <1>4 DEF IInv

\* the item a post carries has the type of the queue it goes to
LEMMA PostItem ==
    ASSUME NEW p \in KnownPost
    PROVE  /\ p.to = "dns" => p.item \in Host
           /\ p.to \in {"wait", "down"} => p.item \in Request /\ p.item \in KnownRequest
           /\ p.to = "store" => p.item \in Result
  BY DEF KnownPost, Post, KnownRequest

LEMMA PushInv == IInv /\ (PushDns \/ PushTimed \/ PushDown \/ PushStore) => IInv'
  <1> SUFFICES ASSUME IInv, PushDns \/ PushTimed \/ PushDown \/ PushStore PROVE IInv'
    OBVIOUS
  <1> DEFINE p == Head(outbox)
  <1>1. outbox # <<>> /\ outbox' = Tail(outbox) /\ UNCHANGED sites_map_
    BY DEF PushDns, PushTimed, PushDown, PushStore, PushWait
  <1>2. p \in KnownPost /\ Tail(outbox) \in Seq(Post) /\ Tail(outbox) \in Seq(KnownPost)
    BY <1>1, SeqTail DEF IInv, DataOK, SitesKnown
  <1>3. /\ KnownRequest' = KnownRequest /\ KnownResult' = KnownResult
        /\ KnownPost' = KnownPost /\ AllLookedAt'
    BY <1>1, StayType DEF IInv
  <1> USE DEF PushWait, IInv, DataOK, SitesKnown, loopVars, dnsVars, waitVars, downVars, storeVars
  <1>4. CASE PushDns
    <2>1. dns_request_' \in Seq(Host)
      BY <1>2, <1>4, PostItem, SeqAppend DEF PushDns
    <2> QED BY <1>1, <1>2, <1>3, <1>4, <2>1 DEF PushDns
  <1>5. CASE PushTimed
    <2>1. wait_list_' \in Seq(Request) /\ wait_list_' \in Seq(KnownRequest)
      BY <1>2, <1>5, PostItem, SeqAppend DEF PushTimed
    <2> QED BY <1>1, <1>2, <1>3, <1>5, <2>1 DEF PushTimed
  <1>6. CASE PushDown
    <2>1. http_request_' \in Seq(Request) /\ http_request_' \in Seq(KnownRequest)
      BY <1>2, <1>6, PostItem, SeqAppend DEF PushDown
    <2> QED BY <1>1, <1>2, <1>3, <1>6, <2>1 DEF PushDown
  <1>7. CASE PushStore
    <2>1. store_result_' \in Seq(Result)
      BY <1>2, <1>7, PostItem, SeqAppend DEF PushStore
    <2> QED BY <1>1, <1>2, <1>3, <1>7, <2>1 DEF PushStore
  <1> QED BY <1>4, <1>5, <1>6, <1>7

-----------------------------------------------------------------------------
(* The other threads: they leave the sites alone                           *)

LEMMA SubmitInv == ASSUME IInv, NEW r \in Res, Submit(r) PROVE IInv'
  <1>1. /\ KnownRequest' = KnownRequest /\ KnownResult' = KnownResult
        /\ KnownPost' = KnownPost /\ AllLookedAt'
    BY StayType DEF IInv, Submit, siteVars
  <1>2. res_list_' \in Seq(Res)
    BY SeqAppend DEF Submit, IInv, DataOK
  <1> QED BY <1>1, <1>2 DEF Submit, IInv, DataOK, SitesKnown, siteVars, loopVars, dnsVars,
                            waitVars, downVars, storeVars

LEMMA ResolverInv ==
    ASSUME IInv, NEW t \in Resolver,
           ResolvePop(t) \/ \E answer \in {"OK", "ERROR"} : ResolvePush(t, answer)
    PROVE  IInv'
  <1>1. UNCHANGED <<siteVars, waitVars, downVars>>
    BY DEF ResolvePop, ResolvePush
  <1>2. SitesKnown' /\ AllLookedAt'
    BY <1>1, StayType DEF IInv, SitesKnown, siteVars, waitVars, downVars
  <1>3. CASE ResolvePop(t)
    <2>1. Head(dns_request_) \in Host /\ Tail(dns_request_) \in Seq(Host)
      BY <1>3, SeqTail DEF ResolvePop, IInv, DataOK
    <2>2. DataOK'
      BY <1>3, <2>1 DEF ResolvePop, IInv, DataOK, siteVars, loopVars, waitVars, downVars, storeVars
    <2> QED BY <1>2, <2>2 DEF IInv
  <1>4. ASSUME NEW answer \in {"OK", "ERROR"}, ResolvePush(t, answer) PROVE IInv'
    <2> DEFINE d == [host |-> resolving[t], state |-> answer]
    <2>1. d \in DnsEntity
      BY <1>4 DEF ResolvePush, IInv, DataOK, DnsEntity
    <2>2. dns_result_' \in Seq(DnsEntity) /\ leaked' \subseteq leaked \cup {d}
      BY <1>4, <2>1, SeqPushed DEF ResolvePush, Dropped, IInv, DataOK
    <2>3. resolving' \in [Resolver -> Host \cup {Idle}]
      BY <1>4 DEF ResolvePush, IInv, DataOK
    <2> HIDE DEF d
    <2>4. DataOK'
      BY <1>4, <2>1, <2>2, <2>3
      DEF ResolvePush, IInv, DataOK, siteVars, loopVars, waitVars, downVars, storeVars
    <2> QED BY <1>2, <2>4 DEF IInv
  <1> QED BY <1>3, <1>4

LEMMA WaiterInv == ASSUME IInv, WaitPop \/ \E q \in Request : Timeout(q) PROVE IInv'
  <1>1. UNCHANGED siteVars
    BY DEF WaitPop, Timeout
  <1>2. /\ KnownRequest' = KnownRequest /\ KnownResult' = KnownResult
        /\ KnownPost' = KnownPost /\ AllLookedAt'
    BY <1>1, StayType DEF IInv, siteVars
  <1>3. ASSUME NEW q \in KnownRequest, BecomeReady(q)
        PROVE  /\ ready_list_' \in Seq(Request) /\ ready_list_' \in Seq(KnownRequest)
               /\ leaked' \subseteq leaked \cup {q} /\ q \in Request
    BY <1>3, SeqPushed DEF BecomeReady, Dropped, KnownRequest, IInv, DataOK, SitesKnown
  <1> USE DEF IInv, DataOK, SitesKnown, siteVars, loopVars, dnsVars, downVars, storeVars
  <1>4. CASE WaitPop
    <2> DEFINE q == Head(wait_list_)
    <2>1. /\ q \in KnownRequest /\ q \in Request /\ Tail(wait_list_) \in Seq(Request)
          /\ Tail(wait_list_) \in Seq(KnownRequest)
      BY <1>4, SeqTail DEF WaitPop
    <2>2. CASE timers' = timers \cup {q} /\ UNCHANGED <<ready_list_, leaked>>
      BY <1>1, <1>2, <1>4, <2>1, <2>2 DEF WaitPop
    <2>3. CASE BecomeReady(q) /\ UNCHANGED timers
      BY <1>1, <1>2, <1>3, <1>4, <2>1, <2>3 DEF WaitPop
    <2> QED BY <1>4, <2>2, <2>3 DEF WaitPop
  <1>5. ASSUME NEW q \in Request, Timeout(q) PROVE IInv'
    <2>1. q \in KnownRequest /\ BecomeReady(q)
      BY <1>5 DEF Timeout
    <2> QED BY <1>1, <1>2, <1>3, <1>5, <2>1 DEF Timeout
  <1> QED BY <1>4, <1>5

LEMMA DownloaderInv ==
    ASSUME IInv, \/ DownloadPop
                 \/ \E q \in Request, state \in {"OK", "ERROR"} : DownloadEnd(q, state)
    PROVE  IInv'
  <1>1. UNCHANGED siteVars
    BY DEF DownloadPop, DownloadEnd
  <1>2. /\ KnownRequest' = KnownRequest /\ KnownResult' = KnownResult
        /\ KnownPost' = KnownPost /\ AllLookedAt'
    BY <1>1, StayType DEF IInv, siteVars
  <1> USE DEF IInv, DataOK, SitesKnown, siteVars, loopVars, dnsVars, waitVars, storeVars
  <1>3. CASE DownloadPop
    <2>1. /\ Head(http_request_) \in KnownRequest /\ Head(http_request_) \in Request
          /\ Tail(http_request_) \in Seq(Request)
          /\ Tail(http_request_) \in Seq(KnownRequest)
      BY <1>3, SeqTail DEF DownloadPop
    <2> QED BY <1>1, <1>2, <1>3, <2>1 DEF DownloadPop
  <1>4. ASSUME NEW q \in Request, NEW state \in {"OK", "ERROR"}, DownloadEnd(q, state)
        PROVE  IInv'
    <2> DEFINE x == [res |-> q.res, site |-> q.site, state |-> state, rqst |-> TRUE]
    <2>1. q \in KnownRequest
      BY <1>4 DEF DownloadEnd
    <2>2. x \in Result /\ x \in KnownResult
      BY <2>1 DEF KnownRequest, KnownResult, Request, Result
    <2>3. /\ http_result_' \in Seq(Result) /\ http_result_' \in Seq(KnownResult)
          /\ leaked' \subseteq leaked \cup {x}
      BY <1>4, <2>2, SeqPushed DEF DownloadEnd, Dropped
    <2>4. conns' \subseteq conns /\ UNCHANGED http_request_
      BY <1>4 DEF DownloadEnd
    <2> HIDE DEF x
    <2> QED BY <1>1, <1>2, <1>4, <2>2, <2>3, <2>4 DEF DownloadEnd
  <1> QED BY <1>3, <1>4

LEMMA WriterInv == ASSUME IInv, NEW t \in Writer, StorePop(t) \/ StoreWrite(t) PROVE IInv'
  <1>1. UNCHANGED <<siteVars, waitVars, downVars>>
    BY DEF StorePop, StoreWrite
  <1>2. SitesKnown' /\ AllLookedAt'
    BY <1>1, StayType DEF IInv, SitesKnown, siteVars, waitVars, downVars
  <1> USE DEF IInv, DataOK, siteVars, loopVars, dnsVars, waitVars, downVars
  <1>3. CASE StorePop(t)
    <2>1. Head(store_result_) \in Result /\ Tail(store_result_) \in Seq(Result)
      BY <1>3, SeqTail DEF StorePop
    <2> QED BY <1>2, <1>3, <2>1 DEF StorePop
  <1>4. CASE StoreWrite(t)
    <2>1. storing[t] \in Result
      BY <1>4 DEF StoreWrite
    <2>2. storing[t].res \in Res /\ storing[t].state \in {"OK", "ERROR"}
      BY <2>1 DEF Result
    <2>3. written' \in [Res -> Seq({"OK", "ERROR"})]
      BY <1>4, <2>2, SeqAppend DEF StoreWrite
    <2> QED BY <1>2, <1>4, <2>3 DEF StoreWrite
  <1> QED BY <1>3, <1>4

-----------------------------------------------------------------------------
LEMMA StepInv == IInv /\ [Next]_vars => IInv'
  <1>1. CASE UNCHANGED vars
    <2>1. IInv => SitesKnown' /\ AllLookedAt'
      BY <1>1, StayType DEF IInv, SitesKnown, vars, siteVars, waitVars, downVars
    <2>2. IInv => DataOK'
      BY <1>1 DEF IInv, DataOK, vars, siteVars, loopVars, dnsVars, waitVars, downVars, storeVars
    <2> QED BY <2>1, <2>2 DEF IInv
  <1>2. CASE Next
    BY <1>2, SubmitInv, ResTurnInv, DnsTurnInv, ReadyTurnInv, ResultTurnInv, EndLoopInv,
       PushInv, ResolverInv, WaiterInv, DownloaderInv, WriterInv
    DEF Next, Scheduler
  <1> QED BY <1>1, <1>2

LEMMA Invariance == Spec => []IInv
  BY InitInv, StepInv, PTL DEF Spec

(* The objects the threads pass one another keep their types, whatever the *)
(* resources, hosts, threads and queue sizes: no queue takes an item of    *)
(* another queue and no error count passes the limit.                      *)
THEOREM CrawlerTypes == Spec => []TypeOK
  <1> DEFINE Stands == phase \in {"res", "dns", "ready", "result", "abort"}
  <1>1. Init => Stands
    BY DEF Init, Fresh
  <1>2. Stands /\ [Next]_vars => Stands'
    <2>1. ASSUME Stands, UNCHANGED phase PROVE Stands'
      BY <2>1
    <2>2. ASSUME Next PROVE UNCHANGED phase \/ phase' \in {"res", "dns", "ready", "result", "abort"}
      BY <2>2
      DEF Next, Scheduler, Submit, ResTurn, KnownSite, FreshSite, Abort, DnsTurn, ReadyTurn, ResultTurn,
          EndRes, EndDns, EndReady, EndResult, NextLoop, PushDns, PushTimed, PushDown, PushStore,
          PushWait, ResolvePop, ResolvePush, WaitPop, Timeout, DownloadPop, DownloadEnd, StorePop,
          StoreWrite, loopVars
    <2>3. UNCHANGED vars => UNCHANGED phase
      BY DEF vars, loopVars
    <2> QED BY <2>1, <2>2, <2>3
  <1> HIDE DEF Stands
  <1>3. Spec => []Stands
    BY <1>1, <1>2, PTL DEF Spec
  <1>4. IInv /\ Stands => TypeOK
    BY DEF IInv, TypeOK, Stands
  <1> QED BY <1>3, <1>4, Invariance, PTL

(* No site is forgotten, whatever the queue sizes, the retries, the ports  *)
(* and the moments at which DNS answers expire: a site with resources left *)
(* always has a fetch or a question under way.                             *)
THEOREM SitesAreLookedAt == Spec => []NoForgottenSite
  <1>1. IInv => NoForgottenSite
    BY DEF IInv, AllLookedAt, LookedAt, NoForgottenSite
  <1> QED BY <1>1, Invariance, PTL

-----------------------------------------------------------------------------
(* What is_fetching_ stands for: something about the site is on its way    *)
(* through the queues and pools (Aloft).  Each step hands on what it takes *)
(* or drops it for good, and only svc, when it takes a result, lets a site *)
(* go, whose flag it clears in the same turn.                              *)
(*                                                                         *)
(* Further down, what a recorded failure stands for: only a result that    *)
(* may not be retried goes to the storage (Settled), and an error count    *)
(* that has reached the limit stays there.                                 *)

Items(q) == {q[i] : i \in DOMAIN q}

\* the requests among the push_wait calls of a turn
Called(out) == {p.item : p \in {p \in Items(out) : p.to \in {"wait", "down"}}}

Carried ==
    Items(wait_list_) \cup timers \cup Items(ready_list_) \cup Items(http_request_) \cup conns
    \cup Items(http_result_) \cup (leaked \cap (Request \cup Result)) \cup Called(outbox)
Aloft == {x.site : x \in Carried}

FlightInv == \A k \in Site : IsSite(k) /\ sites_map_[k].is_fetching_ => k \in Aloft

-----------------------------------------------------------------------------
(* The items of queues                                                     *)

LEMMA ItemsTaken ==
    ASSUME NEW S, NEW q \in Seq(S), q # <<>>
    PROVE  Items(q) = {Head(q)} \cup Items(Tail(q))
  <1>1. Len(q) \in Nat \ {0} /\ DOMAIN q = 1..Len(q) /\ DOMAIN Tail(q) = 1..(Len(q) - 1)
    OBVIOUS
  <1>2. \A i \in 1..(Len(q) - 1) : Tail(q)[i] = q[i + 1]
    OBVIOUS
  <1>3. ASSUME NEW i \in 1..Len(q) PROVE q[i] \in {Head(q)} \cup Items(Tail(q))
    <2>1. CASE i = 1
      BY <2>1
    <2>2. CASE i # 1
      <3>1. i - 1 \in 1..(Len(q) - 1) /\ Tail(q)[i - 1] = q[i]
        BY <1>1, <1>2, <2>2
      <3> QED BY <1>1, <3>1 DEF Items
    <2> QED BY <2>1, <2>2
  <1>4. Head(q) \in Items(q)
    BY <1>1 DEF Items
  <1>5. Items(Tail(q)) \subseteq Items(q)
    <2>1. \A i \in 1..(Len(q) - 1) : i + 1 \in 1..Len(q)
      BY <1>1
    <2> QED BY <1>1, <1>2, <2>1 DEF Items
  <1> QED BY <1>1, <1>3, <1>4, <1>5 DEF Items

LEMMA ItemsCat ==
    ASSUME NEW S, NEW p \in Seq(S), NEW q \in Seq(S)
    PROVE  Items(p \o q) = Items(p) \cup Items(q)
  <1>1. /\ DOMAIN p = 1..Len(p) /\ DOMAIN q = 1..Len(q) /\ DOMAIN (p \o q) = 1..(Len(p) + Len(q))
        /\ Len(p) \in Nat /\ Len(q) \in Nat
    OBVIOUS
  <1>2. \A i \in 1..(Len(p) + Len(q)) : (p \o q)[i] = IF i <= Len(p) THEN p[i] ELSE q[i - Len(p)]
    OBVIOUS
  <1>3. ASSUME NEW i \in 1..(Len(p) + Len(q)) PROVE (p \o q)[i] \in Items(p) \cup Items(q)
    <2>1. CASE i <= Len(p)
      <3>1. i \in 1..Len(p)
        BY <1>1, <2>1
      <3> QED BY <1>1, <1>2, <2>1, <3>1 DEF Items
    <2>2. CASE ~(i <= Len(p))
      <3>1. i - Len(p) \in 1..Len(q)
        BY <1>1, <2>2
      <3> QED BY <1>1, <1>2, <2>2, <3>1 DEF Items
    <2> QED BY <2>1, <2>2
  <1>4. Items(p) \subseteq Items(p \o q)
    <2>1. \A i \in 1..Len(p) : i \in 1..(Len(p) + Len(q)) /\ i <= Len(p)
      BY <1>1
    <2> QED BY <1>1, <1>2, <2>1 DEF Items
  <1>5. ASSUME NEW i \in 1..Len(q) PROVE q[i] \in Items(p \o q)
    <2>1. i + Len(p) \in 1..(Len(p) + Len(q)) /\ ~(i + Len(p) <= Len(p)) /\ i + Len(p) - Len(p) = i
      BY <1>1
    <2>2. (p \o q)[i + Len(p)] = q[i]
      BY <1>2, <2>1
    <2> QED BY <1>1, <2>1, <2>2 DEF Items
  <1>6. Items(q) \subseteq Items(p \o q)
    BY <1>1, <1>5 DEF Items
  <1>7. Items(p \o q) \subseteq Items(p) \cup Items(q)
    BY <1>1, <1>3 DEF Items
  <1> QED BY <1>4, <1>6, <1>7

LEMMA ItemsAppended ==
    ASSUME NEW S, NEW q \in Seq(S), NEW x \in S
    PROVE  Items(Append(q, x)) = Items(q) \cup {x}
  <1>1. DOMAIN q = 1..Len(q) /\ DOMAIN Append(q, x) = 1..(Len(q) + 1) /\ Len(q) \in Nat
    OBVIOUS
  <1>2. Append(q, x)[Len(q) + 1] = x /\ \A i \in 1..Len(q) : Append(q, x)[i] = q[i]
    OBVIOUS
  <1>3. 1..(Len(q) + 1) = (1..Len(q)) \cup {Len(q) + 1}
    BY <1>1
  <1> QED BY <1>1, <1>2, <1>3 DEF Items

LEMMA ItemsPushed ==
    ASSUME NEW S, NEW q \in Seq(S), NEW x \in S, NEW max
    PROVE  Items(q) \cup {x} \subseteq Items(Pushed(q, max, x)) \cup Dropped(q, max, x)
  BY ItemsAppended DEF Pushed, Dropped

-----------------------------------------------------------------------------
(* is_fetching_ in the calls of a turn                                     *)

LEMMA AskingFlies ==
    ASSUME NEW k \in Site, NEW s \in Website
    PROVE  AskDns(k, s).site.is_fetching_ = s.is_fetching_
  BY DEF AskDns, Turn, Website

LEMMA SubmitDnsFlies ==
    ASSUME NEW k \in Site, NEW s \in Website, NEW e \in BOOLEAN
    PROVE  SubmitDnsRequest(k, s, e).site.is_fetching_ = s.is_fetching_
  <1>1. /\ [s EXCEPT !.dns_state = "ERROR_RETRY"] \in Website
        /\ [s EXCEPT !.dns_state = "ERROR_RETRY"].is_fetching_ = s.is_fetching_
    BY DEF Website, DnsState
  <1>2. /\ [s EXCEPT !.dns_state = "UPDATE"] \in Website
        /\ [s EXCEPT !.dns_state = "UPDATE"].is_fetching_ = s.is_fetching_
    BY DEF Website, DnsState
  <1>3. Turn(s, <<>>).site = s
    BY DEF Turn
  <1>4. CASE s.dns_is_resolving_
    BY <1>3, <1>4 DEF SubmitDnsRequest
  <1>5. CASE ~s.dns_is_resolving_ /\ s.dns_state = "INIT"
    BY <1>5, AskingFlies DEF SubmitDnsRequest
  <1>6. CASE ~s.dns_is_resolving_ /\ s.dns_state = "ERROR" /\ e
    BY <1>1, <1>6, AskingFlies DEF SubmitDnsRequest
  <1>7. CASE ~s.dns_is_resolving_ /\ s.dns_state = "OK" /\ e
    BY <1>2, <1>7, AskingFlies DEF SubmitDnsRequest
  <1>8. CASE ~s.dns_is_resolving_ /\ s.dns_state # "INIT" /\ ~(s.dns_state \in {"OK", "ERROR"} /\ e)
    BY <1>3, <1>8 DEF SubmitDnsRequest
  <1> QED BY <1>4, <1>5, <1>6, <1>7, <1>8

LEMMA DnsResultFlies ==
    ASSUME NEW k \in Site, NEW s \in Website, NEW answer \in {"OK", "ERROR"}
    PROVE  DnsResult(k, s, answer).site.is_fetching_ = s.is_fetching_
  BY DEF DnsResult, AskDns, Turn, Website

\* a request that sets the flag is among the calls of the same turn
LEMMA SubmitHttpFlies ==
    ASSUME NEW k \in Site, NEW s \in Website, SubmitHttpRequest(k, s).site.is_fetching_
    PROVE  s.is_fetching_ \/ \E q \in Called(SubmitHttpRequest(k, s).out) : q.site = k
  <1>1. CASE s.dns_state = "ERROR"
    <2>1. FetchFailedAllRes(k, s).site.is_fetching_ => s.is_fetching_
      BY DEF FetchFailedAllRes, Turn, Website
    <2> QED BY <1>1, <2>1 DEF SubmitHttpRequest
  <1>2. CASE s.dns_state = "OK" /\ ~s.is_fetching_ /\ s.res_list_ # <<>>
    <2> DEFINE q == [res |-> Head(s.res_list_), site |-> k]
    <2>1. SubmitHttpRequest(k, s).out = <<WaitPost(q)>>
      BY <1>2 DEF SubmitHttpRequest, HttpRequest, Turn
    <2>2. WaitPost(q) \in Items(<<WaitPost(q)>>)
      <3>1. DOMAIN <<WaitPost(q)>> = {1} /\ <<WaitPost(q)>>[1] = WaitPost(q)
        OBVIOUS
      <3> QED BY <3>1 DEF Items
    <2>3. WaitPost(q).to = "wait" /\ WaitPost(q).item = q /\ q.site = k
      BY DEF WaitPost
    <2> HIDE DEF q
    <2> QED BY <2>1, <2>2, <2>3 DEF Called
  <1>3. CASE s.dns_state # "ERROR" /\ ~(s.dns_state = "OK" /\ ~s.is_fetching_ /\ s.res_list_ # <<>>)
    BY <1>3 DEF SubmitHttpRequest, Turn
  <1> QED BY <1>1, <1>2, <1>3

\* the calls of the second half of a turn are calls of the turn
LEMMA AndThenFlies ==
    ASSUME NEW k, NEW t \in TurnOf(k), NEW u \in TurnOf(k)
    PROVE  Called(u.out) \subseteq Called(AndThen(t, u).out) /\ AndThen(t, u).site = u.site
  <1>1. t.out \in Seq(PostOf(k)) /\ u.out \in Seq(PostOf(k))
    BY DEF TurnOf
  <1>2. AndThen(t, u).out = t.out \o u.out /\ AndThen(t, u).site = u.site
    BY DEF AndThen, Turn
  <1> QED BY <1>1, <1>2, ItemsCat DEF Called

-----------------------------------------------------------------------------
LEMMA InitFlight == Init => FlightInv
  BY DEF Init, Fresh, FlightInv, IsSite

LEMMA FlightKept ==
    ASSUME FlightInv, UNCHANGED sites_map_, Aloft \subseteq Aloft'
    PROVE  FlightInv'
  BY DEF FlightInv, IsSite

\* a turn of site k keeps the others aloft, and k if it is still fetched
LEMMA TurnFlight ==
    ASSUME FlightInv, DataOK, NEW k \in Site, NEW s \in Website,
           sites_map_' = [sites_map_ EXCEPT ![k] = s],
           Aloft \ {k} \subseteq Aloft', s.is_fetching_ => k \in Aloft'
    PROVE  FlightInv'
  <1>1. sites_map_'[k] = s /\ \A j \in Site : j # k => sites_map_'[j] = sites_map_[j]
    BY DEF DataOK
  <1> QED BY <1>1 DEF FlightInv, IsSite

\* nothing but the outbox and leaked changes: what was aloft stays
LEMMA QueuesStay ==
    ASSUME outbox = <<>>, UNCHANGED <<waitVars, downVars>>, leaked \subseteq leaked'
    PROVE  Aloft \subseteq Aloft'
  <1>1. Called(outbox) = {}
    BY DEF Called, Items
  <1>2. Carried \subseteq Carried'
    BY <1>1 DEF Carried, waitVars, downVars
  <1> QED BY <1>2 DEF Aloft

LEMMA ResTurnFlight ==
    ASSUME IInv, FlightInv, ResTurn
    PROVE  FlightInv'
  <1> DEFINE r == Head(res_list_)
             found == HostKey(UrlOf[r].host)
  <1>1. r \in Res /\ outbox = <<>> /\ UNCHANGED <<waitVars, downVars>> /\ leaked \subseteq leaked'
    <2>1. r \in Res /\ outbox = <<>>
      BY SeqTail DEF ResTurn, Turning, IInv, DataOK
    <2>2. UNCHANGED <<waitVars, downVars>>
      BY DEF ResTurn
    <2>3. leaked' = leaked \/ leaked' = leaked \cup {r}
      BY DEF ResTurn, KnownSite, FreshSite, Abort
    <2> QED BY <2>1, <2>2, <2>3
  <1>2. Aloft \subseteq Aloft'
    BY <1>1, QueuesStay
  <1>3. found \in Site /\ SiteKey(r) \in Site
    BY <1>1, SiteKeys
  <1> HIDE DEF found, r
  <1>4. ASSUME NEW e \in Expiry, KnownSite(found, r, e) PROVE FlightInv'
    <2> DEFINE s == AddRes(sites_map_[found], r)
               asked == SubmitDnsRequest(found, s, e)
               sent == SubmitHttpRequest(found, asked.site)
    <2>1. sites_map_[found] \in Website /\ LookedAt(found, sites_map_[found]) /\ e \in BOOLEAN
      BY <1>3, <1>4, LimitAssumption DEF KnownSite, IInv, DataOK, IsSite, AllLookedAt
    <2>2. s \in Website /\ Asking(found, s) /\ s.is_fetching_ = sites_map_[found].is_fetching_
      BY <1>1, <2>1, AddResType DEF LookedAt, Asking, AddRes, Website
    <2>3. /\ asked \in TurnOf(found) /\ Asking(found, asked.site) /\ asked.site \in Website
          /\ asked.site.is_fetching_ = s.is_fetching_
      BY <1>3, <2>1, <2>2, SubmitDnsRequestType, SubmitDnsFlies DEF TurnOf
    <2>4. sent \in TurnOf(found) /\ sent.site \in Website
      BY <1>3, <2>3, SubmitHttpRequestType DEF TurnOf
    <2>5. sent.site.is_fetching_ => asked.site.is_fetching_ \/ \E q \in Called(sent.out) : q.site = found
      BY <1>3, <2>3, SubmitHttpFlies
    <2>6. Leave(found, AndThen(asked, sent)) /\ IsSite(found)
      BY <1>4 DEF KnownSite
    <2> HIDE DEF asked, sent, s
    <2>7. sites_map_' = [sites_map_ EXCEPT ![found] = sent.site] /\ Called(sent.out) \subseteq Called(outbox')
      BY <2>3, <2>4, <2>6, AndThenFlies DEF Leave
    <2>8. sent.site.is_fetching_ => found \in Aloft'
      BY <1>2, <1>3, <2>2, <2>3, <2>5, <2>6, <2>7 DEF FlightInv, Aloft, Carried
    <2> QED BY <1>2, <1>3, <2>4, <2>7, <2>8, TurnFlight DEF IInv
  <1>5. CASE FreshSite(found, SiteKey(r), r)
    <2> DEFINE s == AddRes(NewSite, r)
               asked == SubmitDnsRequest(SiteKey(r), s, FALSE)
    <2>0. NewSite \in Website /\ NewSite.dns_state = "INIT" /\ ~NewSite.is_fetching_
      BY NewSiteType DEF NewSite
    <2>1. s \in Website /\ ~s.is_fetching_ /\ s.dns_state = "INIT"
      <3>1. s \in Website /\ s.dns_state = "INIT"
        BY <1>1, <2>0, AddResType
      <3>2. s.is_fetching_ = NewSite.is_fetching_
        BY <2>0 DEF AddRes, Website
      <3> QED BY <2>0, <3>1, <3>2
    <2>2. asked \in TurnOf(SiteKey(r)) /\ asked.site \in Website /\ ~asked.site.is_fetching_
      BY <1>3, <2>1, SubmitDnsRequestType, SubmitDnsFlies DEF TurnOf
    <2>3. CASE Leave(SiteKey(r), asked)
      <3> HIDE DEF asked
      <3> QED BY <1>2, <1>3, <2>2, <2>3, TurnFlight DEF Leave, IInv
    <2>4. CASE UNCHANGED sites_map_
      BY <1>2, <2>4, FlightKept
    <2> QED BY <1>5, <2>3, <2>4 DEF FreshSite
  <1>6. CASE Abort
    BY <1>2, <1>6, FlightKept DEF Abort, siteVars
  <1> QED BY <1>4, <1>5, <1>6 DEF ResTurn, found, r

LEMMA DnsTurnFlight ==
    ASSUME IInv, FlightInv, DnsTurn
    PROVE  FlightInv'
  <1> DEFINE d == Head(dns_result_)
             k == HostKey(d.host)
             s == sites_map_[k]
             got == DnsResult(k, s, d.state)
             sent == SubmitHttpRequest(k, got.site)
  <1>1. d \in DnsEntity /\ outbox = <<>> /\ UNCHANGED <<waitVars, downVars>> /\ leaked \subseteq leaked'
    BY SeqTail DEF DnsTurn, Turning, Abort, IInv, DataOK
  <1>2. k \in Site /\ d.state \in {"OK", "ERROR"}
    BY <1>1, HostAssumption DEF DnsEntity, HostKey, Site, AnyHost
  <1>3. Aloft \subseteq Aloft'
    BY <1>1, QueuesStay
  <1> HIDE DEF d, k
  <1>4. CASE IsSite(k) /\ Leave(k, AndThen(got, sent))
    <2>1. s \in Website
      BY <1>2, <1>4 DEF IInv, DataOK, IsSite
    <2>2. got \in TurnOf(k) /\ Asking(k, got.site) /\ got.site \in Website /\ got.site.is_fetching_ = s.is_fetching_
      BY <1>2, <2>1, DnsResultType, DnsResultFlies DEF TurnOf
    <2>3. sent \in TurnOf(k) /\ sent.site \in Website
      BY <1>2, <2>2, SubmitHttpRequestType DEF TurnOf
    <2>4. sent.site.is_fetching_ => got.site.is_fetching_ \/ \E q \in Called(sent.out) : q.site = k
      BY <1>2, <2>2, SubmitHttpFlies
    <2> HIDE DEF got, sent
    <2>5. sites_map_' = [sites_map_ EXCEPT ![k] = sent.site] /\ Called(sent.out) \subseteq Called(outbox')
      BY <1>4, <2>2, <2>3, AndThenFlies DEF Leave
    <2>6. sent.site.is_fetching_ => k \in Aloft'
      BY <1>2, <1>3, <1>4, <2>2, <2>4, <2>5 DEF FlightInv, Aloft, Carried
    <2> QED BY <1>2, <1>3, <2>3, <2>5, <2>6, TurnFlight DEF IInv
  <1>5. CASE UNCHANGED sites_map_
    BY <1>3, <1>5, FlightKept
  <1>6. CASE sites_map_' = [sites_map_ EXCEPT ![k] = Null] /\ ~IsSite(k)
    <2>1. \A j \in Site : IsSite(j)' => IsSite(j) /\ sites_map_'[j] = sites_map_[j]
      BY <1>2, <1>6 DEF IsSite, IInv, DataOK
    <2> QED BY <1>3, <2>1 DEF FlightInv
  <1> QED BY <1>4, <1>5, <1>6 DEF DnsTurn, Abort, siteVars, d, k

LEMMA ResultTurnFlight ==
    ASSUME IInv, FlightInv, ResultTurn
    PROVE  FlightInv'
  <1> DEFINE x == Head(http_result_)
             k == x.site
             done == HttpResult(sites_map_[k], x)
             sent == SubmitHttpRequest(k, done.site)
  <1>1. x \in KnownResult /\ outbox = <<>> /\ UNCHANGED <<waitVars, http_request_, conns, leaked>>
    BY SeqTail DEF ResultTurn, Turning, IInv, DataOK, SitesKnown
  <1>2. x \in Result /\ k \in Site /\ IsSite(k)
    BY <1>1 DEF KnownResult, Result
  <1>3. Items(http_result_) = {x} \cup Items(http_result_')
    BY ItemsTaken DEF ResultTurn, IInv, DataOK
  <1> HIDE DEF x
  <1>4. Aloft \ {k} \subseteq Aloft'
    <2>1. Called(outbox) = {}
      BY <1>1 DEF Called, Items
    <2>2. Carried \subseteq Carried' \cup {x}
      BY <1>1, <1>3, <2>1 DEF Carried, waitVars
    <2> QED BY <2>2 DEF Aloft
  <1>5. sites_map_[k] \in Website /\ Asking(k, sites_map_[k])
    BY <1>2 DEF IInv, DataOK, IsSite, AllLookedAt, LookedAt, Asking
  <1>6. done \in TurnOf(k) /\ Asking(k, done.site) /\ done.site \in Website
    BY <1>2, <1>5, HttpResultType DEF TurnOf, Asking, IInv
  <1>7. ~done.site.is_fetching_
    <2>1. /\ x.res \in Res /\ AddRes(sites_map_[k], x.res) \in Website
      BY <1>2, <1>5, AddResType DEF Result
    <2> QED BY <1>5, <2>1 DEF HttpResult, Turn, Website
  <1>8. sent \in TurnOf(k) /\ sent.site \in Website
    BY <1>2, <1>6, SubmitHttpRequestType DEF TurnOf
  <1>9. sent.site.is_fetching_ => \E q \in Called(sent.out) : q.site = k
    BY <1>2, <1>6, <1>7, SubmitHttpFlies
  <1>10. Leave(k, AndThen(done, sent))
    BY DEF ResultTurn, x
  <1> HIDE DEF done, sent, k
  <1>11. sites_map_' = [sites_map_ EXCEPT ![k] = sent.site] /\ Called(sent.out) \subseteq Called(outbox')
    BY <1>6, <1>8, <1>10, AndThenFlies DEF Leave
  <1>12. sent.site.is_fetching_ => k \in Aloft'
    BY <1>9, <1>11 DEF Aloft, Carried
  <1> QED BY <1>2, <1>4, <1>8, <1>11, <1>12, TurnFlight DEF IInv

-----------------------------------------------------------------------------
(* The other steps hand on what they take                                  *)

LEMMA ReadyTurnFlight ==
    ASSUME IInv, FlightInv, ReadyTurn
    PROVE  FlightInv'
  <1> DEFINE q == Head(ready_list_)
  <1>1. Items(ready_list_) = {q} \cup Items(ready_list_')
    BY ItemsTaken DEF ReadyTurn, IInv, DataOK
  <1>2. q \in Called(outbox')
    <2>1. outbox' = <<DownPost(q)>> /\ DownPost(q).to = "down" /\ DownPost(q).item = q
      BY DEF ReadyTurn, DownPost
    <2>2. DownPost(q) \in Items(outbox')
      <3>1. DOMAIN <<DownPost(q)>> = {1} /\ <<DownPost(q)>>[1] = DownPost(q)
        OBVIOUS
      <3> QED BY <2>1, <3>1 DEF Items
    <2> QED BY <2>1, <2>2 DEF Called
  <1>3. Called(outbox) = {}
    BY DEF ReadyTurn, Turning, Called, Items
  <1>4. UNCHANGED <<sites_map_, wait_list_, timers, downVars, leaked>>
    BY DEF ReadyTurn
  <1> HIDE DEF q
  <1>5. Carried \subseteq Carried'
    BY <1>1, <1>2, <1>3, <1>4 DEF Carried, downVars
  <1> QED BY <1>4, <1>5, FlightKept DEF Aloft

LEMMA PushFlight ==
    ASSUME IInv, FlightInv, PushDns \/ PushTimed \/ PushDown \/ PushStore
    PROVE  FlightInv'
  <1> DEFINE p == Head(outbox)
  <1>1. outbox # <<>> /\ outbox' = Tail(outbox) /\ UNCHANGED <<sites_map_, leaked>>
    BY DEF PushDns, PushTimed, PushDown, PushStore, PushWait
  <1>2. p \in KnownPost /\ Items(outbox) = {p} \cup Items(outbox')
    BY <1>1, SeqTail, ItemsTaken DEF IInv, DataOK, SitesKnown
  <1> HIDE DEF p
  <1>3. Called(outbox) \subseteq Called(outbox') \cup (IF p.to \in {"wait", "down"} THEN {p.item} ELSE {})
    BY <1>2 DEF Called
  <1>4. CASE PushDns \/ PushStore
    <2>1. p.to \notin {"wait", "down"} /\ UNCHANGED <<waitVars, downVars>>
      BY <1>4 DEF PushDns, PushStore, PushWait, p
    <2>2. Carried \subseteq Carried'
      BY <1>1, <1>3, <2>1 DEF Carried, waitVars, downVars
    <2> QED BY <1>1, <2>2, FlightKept DEF Aloft
  <1>5. CASE PushTimed
    <2>1. p.to = "wait" /\ wait_list_' = Append(wait_list_, p.item) /\ UNCHANGED <<timers, ready_list_, downVars>>
      BY <1>5 DEF PushTimed, PushWait, p
    <2>2. Items(wait_list_') = Items(wait_list_) \cup {p.item}
      BY <1>2, <2>1, PostItem, ItemsAppended DEF IInv, DataOK
    <2>3. Carried \subseteq Carried'
      BY <1>1, <1>3, <2>1, <2>2 DEF Carried, downVars
    <2> QED BY <1>1, <2>3, FlightKept DEF Aloft
  <1>6. CASE PushDown
    <2>1. p.to = "down" /\ http_request_' = Append(http_request_, p.item) /\ UNCHANGED <<waitVars, conns, http_result_>>
      BY <1>6 DEF PushDown, PushWait, p
    <2>2. Items(http_request_') = Items(http_request_) \cup {p.item}
      BY <1>2, <2>1, PostItem, ItemsAppended DEF IInv, DataOK
    <2>3. Carried \subseteq Carried'
      BY <1>1, <1>3, <2>1, <2>2 DEF Carried, waitVars
    <2> QED BY <1>1, <2>3, FlightKept DEF Aloft
  <1> QED BY <1>4, <1>5, <1>6

\* a request that becomes ready, or that a full ready list drops
LEMMA ReadyFlies ==
    ASSUME DataOK, NEW q \in Request, BecomeReady(q)
    PROVE  /\ leaked \subseteq leaked' /\ Items(ready_list_) \subseteq Items(ready_list_')
           /\ q \in Items(ready_list_') \cup (leaked' \cap (Request \cup Result))
  <1>1. ready_list_ \in Seq(Request)
    BY DEF DataOK
  <1>2. CASE Full(ready_list_, WAITER_rslt_queue_size)
    BY <1>2 DEF BecomeReady, Pushed, Dropped
  <1>3. CASE ~Full(ready_list_, WAITER_rslt_queue_size)
    BY <1>1, <1>3, ItemsAppended DEF BecomeReady, Pushed, Dropped
  <1> QED BY <1>2, <1>3

LEMMA WaiterFlight ==
    ASSUME IInv, FlightInv, WaitPop \/ \E q \in Request : Timeout(q)
    PROVE  FlightInv'
  <1>1. UNCHANGED <<sites_map_, outbox, downVars>>
    BY DEF WaitPop, Timeout, siteVars
  <1>2. CASE WaitPop
    <2> DEFINE q == Head(wait_list_)
    <2>1. q \in Request /\ Items(wait_list_) = {q} \cup Items(wait_list_')
      BY <1>2, SeqTail, ItemsTaken DEF WaitPop, IInv, DataOK
    <2>2. \/ timers' = timers \cup {q} /\ UNCHANGED <<ready_list_, leaked>>
          \/ BecomeReady(q) /\ UNCHANGED timers
      BY <1>2 DEF WaitPop
    <2> HIDE DEF q
    <2>3. Carried \subseteq Carried'
      BY <1>1, <2>1, <2>2, ReadyFlies DEF Carried, downVars, IInv
    <2> QED BY <1>1, <2>3, FlightKept DEF Aloft
  <1>3. ASSUME NEW q \in Request, Timeout(q) PROVE FlightInv'
    <2>1. BecomeReady(q) /\ timers' = timers \ {q} /\ UNCHANGED wait_list_
      BY <1>3 DEF Timeout
    <2>2. Carried \subseteq Carried'
      BY <1>1, <2>1, ReadyFlies DEF Carried, downVars, IInv
    <2> QED BY <1>1, <2>2, FlightKept DEF Aloft
  <1> QED BY <1>2, <1>3

LEMMA DownloaderFlight ==
    ASSUME IInv, FlightInv, \/ DownloadPop
                            \/ \E q \in Request, state \in {"OK", "ERROR"} : DownloadEnd(q, state)
    PROVE  FlightInv'
  <1>1. UNCHANGED <<sites_map_, outbox, waitVars>>
    BY DEF DownloadPop, DownloadEnd, siteVars
  <1>2. CASE DownloadPop
    <2>1. /\ Items(http_request_) = {Head(http_request_)} \cup Items(http_request_')
          /\ conns' = conns \cup {Head(http_request_)} /\ UNCHANGED <<http_result_, leaked>>
      BY <1>2, ItemsTaken DEF DownloadPop, IInv, DataOK
    <2>2. Carried \subseteq Carried'
      BY <1>1, <2>1 DEF Carried, waitVars
    <2> QED BY <1>1, <2>2, FlightKept DEF Aloft
  <1>3. ASSUME NEW q \in Request, NEW state \in {"OK", "ERROR"}, DownloadEnd(q, state)
        PROVE  FlightInv'
    <2> DEFINE x == [res |-> q.res, site |-> q.site, state |-> state, rqst |-> TRUE]
    <2>1. x \in Result /\ x.site = q.site
      BY DEF Request, Result
    <2>2. /\ conns' = conns \ {q} /\ UNCHANGED http_request_
          /\ http_result_' = Pushed(http_result_, DOWN_rslt_queue_size, x)
          /\ leaked' = leaked \cup Dropped(http_result_, DOWN_rslt_queue_size, x)
      BY <1>3 DEF DownloadEnd
    <2> HIDE DEF x
    <2>3. /\ Items(http_result_) \subseteq Items(http_result_') /\ leaked \subseteq leaked'
          /\ x \in Items(http_result_') \cup (leaked' \cap (Request \cup Result))
      <3>1. http_result_ \in Seq(Result)
        BY DEF IInv, DataOK
      <3>2. CASE Full(http_result_, DOWN_rslt_queue_size)
        BY <2>1, <2>2, <3>2 DEF Pushed, Dropped
      <3>3. CASE ~Full(http_result_, DOWN_rslt_queue_size)
        BY <2>1, <2>2, <3>1, <3>3, ItemsAppended DEF Pushed, Dropped
      <3> QED BY <3>2, <3>3
    <2>4. Carried \subseteq Carried' \cup {q} /\ x \in Carried'
      BY <1>1, <2>2, <2>3 DEF Carried, waitVars
    <2>5. Aloft \subseteq Aloft'
      BY <2>1, <2>4 DEF Aloft
    <2> QED BY <1>1, <2>5, FlightKept
  <1> QED BY <1>2, <1>3

LEMMA OtherFlight ==
    ASSUME FlightInv, UNCHANGED <<siteVars, waitVars, downVars>>, leaked \subseteq leaked'
    PROVE  FlightInv'
  <1>1. Carried \subseteq Carried'
    BY DEF Carried, siteVars, waitVars, downVars
  <1> QED BY <1>1, FlightKept DEF Aloft, siteVars

LEMMA StepFlight == IInv /\ FlightInv /\ [Next]_vars => FlightInv'
  <1> SUFFICES ASSUME IInv, FlightInv, [Next]_vars PROVE FlightInv'
    OBVIOUS
  <1>1. CASE UNCHANGED vars
    BY <1>1, OtherFlight DEF vars
  <1>2. CASE \E r \in Res : Submit(r)
    BY <1>2, OtherFlight DEF Submit
  <1>3. CASE EndRes \/ EndDns \/ EndReady \/ EndResult
    BY <1>3, OtherFlight DEF EndRes, EndDns, EndReady, EndResult, NextLoop
  <1>4. CASE \E t \in Resolver : ResolvePop(t) \/ \E answer \in {"OK", "ERROR"} : ResolvePush(t, answer)
    BY <1>4, OtherFlight DEF ResolvePop, ResolvePush
  <1>5. CASE \E t \in Writer : StorePop(t) \/ StoreWrite(t)
    BY <1>5, OtherFlight DEF StorePop, StoreWrite
  <1> QED BY <1>1, <1>2, <1>3, <1>4, <1>5, ResTurnFlight, DnsTurnFlight, ReadyTurnFlight,
             ResultTurnFlight, PushFlight, WaiterFlight, DownloaderFlight
      DEF Next, Scheduler

-----------------------------------------------------------------------------
\* what is aloft is where the property looks for it
LEMMA AloftIsInFlight ==
    ASSUME DataOK, NEW k \in Aloft
    PROVE  InFlight(k) # {} \/ LeakedFlight(k) # {}
  <1>1. PICK x \in Carried : x.site = k
    BY DEF Aloft
  <1>2. CASE x \in leaked \cap (Request \cup Result)
    BY <1>1, <1>2 DEF LeakedFlight
  <1>3. CASE x \in Called(outbox)
    <2>1. PICK i \in DOMAIN outbox : outbox[i].to \in {"wait", "down"} /\ outbox[i].item = x
      BY <1>3 DEF Called, Items
    <2> DEFINE p == <<"outbox", i, outbox[i]>>
    <2>2. p \in Places("outbox", outbox) /\ p[3] = outbox[i]
      BY DEF Places
    <2> HIDE DEF p
    <2>3. p \in Posted("wait") \cup Posted("down") /\ p[3].item.site = k
      BY <1>1, <2>1, <2>2 DEF Posted
    <2> QED BY <2>3 DEF InFlight
  <1>4. ASSUME NEW n, NEW q, x \in Items(q),
               Places(n, q) \subseteq Places("wait", wait_list_) \cup Places("ready", ready_list_)
                   \cup Places("request", http_request_) \cup Places("result", http_result_)
        PROVE  InFlight(k) # {}
    <2>1. PICK i \in DOMAIN q : q[i] = x
      BY <1>4 DEF Items
    <2> DEFINE p == <<n, i, q[i]>>
    <2>2. p \in Places(n, q) /\ p[3] = x
      BY <2>1 DEF Places
    <2> HIDE DEF p
    <2> QED BY <1>1, <1>4, <2>2 DEF InFlight
  <1>5. CASE x \in timers
    <2>1. <<"timer", 0, x>> \in InFlight(k)
      BY <1>1, <1>5 DEF InFlight
    <2> QED BY <2>1
  <1>6. CASE x \in conns
    <2>1. <<"conn", 0, x>> \in InFlight(k)
      BY <1>1, <1>6 DEF InFlight
    <2> QED BY <2>1
  <1>7. CASE x \in Items(wait_list_)
    BY <1>4, <1>7
  <1>8. CASE x \in Items(ready_list_)
    BY <1>4, <1>8
  <1>9. CASE x \in Items(http_request_)
    BY <1>4, <1>9
  <1>10. CASE x \in Items(http_result_)
    BY <1>4, <1>10
  <1> QED BY <1>2, <1>3, <1>5, <1>6, <1>7, <1>8, <1>9, <1>10 DEF Carried

(* A site marked as being fetched is never stuck with its mark, whatever   *)
(* the queue sizes, ports and retries: a request or a result for it is on  *)
(* its way back to svc, unless a full queue has dropped it.                *)
THEOREM FetchesAreInFlight == Spec => []FetchingIsInFlight
  <1>1. Spec => []FlightInv
    BY InitFlight, StepFlight, Invariance, PTL DEF Spec
  <1>2. IInv /\ FlightInv => FetchingIsInFlight
    BY AloftIsInFlight DEF IInv, FlightInv, FetchingIsInFlight
  <1> QED BY <1>1, <1>2, Invariance, PTL

-----------------------------------------------------------------------------
(* Failures and retries                                                    *)

Stored ==
    {p.item : p \in {p \in Items(outbox) : p.to = "store"}} \cup Items(store_result_)
    \cup {storing[t] : t \in {t \in Writer : storing[t] # Idle}}

Settled(x) == x.state = "ERROR" /\ x.rqst => err_count[x.res] = DOWN_err_retry_max
RetryInv == \A x \in Stored : x \in Result /\ Settled(x)

\* the calls record nothing but failures without a request
Quiet(out) == \A p \in Items(out) : p.to = "store" => ~p.item.rqst

LEMMA ItemsOfOne == Items(<<>>) = {} /\ \A x : Items(<<x>>) = {x}
  <1>1. \A x : DOMAIN <<x>> = {1} /\ <<x>>[1] = x
    OBVIOUS
  <1>2. DOMAIN <<>> = {}
    OBVIOUS
  <1> QED BY <1>1, <1>2 DEF Items

LEMMA AskDnsQuiet == \A k, s : Quiet(AskDns(k, s).out)
  BY ItemsOfOne DEF Quiet, AskDns, Turn, DnsPost

LEMMA SubmitDnsQuiet == ASSUME NEW k, NEW s, NEW e \in BOOLEAN PROVE Quiet(SubmitDnsRequest(k, s, e).out)
  <1>1. Quiet(Turn(s, <<>>).out)
    BY ItemsOfOne DEF Quiet, Turn
  <1>2. SubmitDnsRequest(k, s, e) \in {Turn(s, <<>>), AskDns(k, s), AskDns(k, [s EXCEPT !.dns_state = "ERROR_RETRY"]),
                                       AskDns(k, [s EXCEPT !.dns_state = "UPDATE"])}
    BY DEF SubmitDnsRequest
  <1> QED BY <1>1, <1>2, AskDnsQuiet

LEMMA DnsResultQuiet == ASSUME NEW k, NEW s, NEW answer PROVE Quiet(DnsResult(k, s, answer).out)
  <1>1. \A z : Quiet(Turn(z, <<>>).out)
    BY ItemsOfOne DEF Quiet, Turn
  <1>2. \E z : DnsResult(k, s, answer) \in {Turn(z, <<>>), AskDns(k, z)}
    BY DEF DnsResult
  <1> QED BY <1>1, <1>2, AskDnsQuiet

LEMMA SubmitHttpQuiet == ASSUME NEW k, NEW s \in Website PROVE Quiet(SubmitHttpRequest(k, s).out)
  <1>1. CASE s.dns_state = "ERROR"
    <2> DEFINE l == s.res_list_
               out == [i \in 1..Len(l) |-> StorePost(DnsFailure(k, l[i]))]
    <2>1. SubmitHttpRequest(k, s).out = out
      BY <1>1 DEF SubmitHttpRequest, FetchFailedAllRes, Turn
    <2>2. \A i \in 1..Len(l) : ~StorePost(DnsFailure(k, l[i])).item.rqst
      BY DEF StorePost, DnsFailure
    <2>3. \A p \in Items(out) : \E i \in 1..Len(l) : p = StorePost(DnsFailure(k, l[i]))
      BY DEF Items
    <2> QED BY <2>1, <2>2, <2>3 DEF Quiet
  <1>2. CASE s.dns_state = "OK" /\ ~s.is_fetching_ /\ s.res_list_ # <<>>
    <2>1. \E q : SubmitHttpRequest(k, s).out = <<WaitPost(q)>>
      BY <1>2 DEF SubmitHttpRequest, HttpRequest, Turn
    <2> QED BY <2>1, ItemsOfOne DEF Quiet, WaitPost
  <1>3. CASE s.dns_state # "ERROR" /\ ~(s.dns_state = "OK" /\ ~s.is_fetching_ /\ s.res_list_ # <<>>)
    BY <1>3, ItemsOfOne DEF SubmitHttpRequest, Turn, Quiet
  <1> QED BY <1>1, <1>2, <1>3

LEMMA AndThenItems ==
    ASSUME NEW k, NEW t \in TurnOf(k), NEW u \in TurnOf(k)
    PROVE  Items(AndThen(t, u).out) = Items(t.out) \cup Items(u.out)
  <1>1. t.out \in Seq(PostOf(k)) /\ u.out \in Seq(PostOf(k)) /\ AndThen(t, u).out = t.out \o u.out
    BY DEF TurnOf, AndThen, Turn
  <1> QED BY <1>1, ItemsCat

\* nothing is recorded but what was, or a failure without a request
LEMMA RetryKept ==
    ASSUME RetryInv, UNCHANGED <<err_count, store_result_, storing>>, outbox' \in Seq(Post), Quiet(outbox')
    PROVE  RetryInv'
  <1>1. ASSUME NEW p \in Items(outbox'), p.to = "store" PROVE p.item \in Result /\ ~p.item.rqst
    <2>1. p \in Post
      BY DEF Items
    <2> QED BY <1>1, <2>1 DEF Quiet, Post
  <1>2. ASSUME NEW x \in Stored' PROVE x \in Stored \/ (x \in Result /\ ~x.rqst)
    BY <1>1 DEF Stored
  <1> QED BY <1>2 DEF RetryInv, Settled

LEMMA ResTurnRetry ==
    ASSUME IInv, IInv', RetryInv, ResTurn
    PROVE  RetryInv'
  <1> DEFINE r == Head(res_list_)
             found == HostKey(UrlOf[r].host)
  <1>1. r \in Res /\ outbox = <<>>
    BY SeqTail DEF ResTurn, Turning, IInv, DataOK
  <1>2. found \in Site /\ SiteKey(r) \in Site
    BY <1>1, SiteKeys
  <1>3. UNCHANGED <<err_count, store_result_, storing>> /\ outbox' \in Seq(Post)
    BY DEF ResTurn, storeVars, IInv, DataOK
  <1> HIDE DEF found, r
  <1>4. ASSUME NEW e \in Expiry, KnownSite(found, r, e) PROVE Quiet(outbox')
    <2> DEFINE s == AddRes(sites_map_[found], r)
               asked == SubmitDnsRequest(found, s, e)
               sent == SubmitHttpRequest(found, asked.site)
    <2>1. sites_map_[found] \in Website /\ LookedAt(found, sites_map_[found]) /\ e \in BOOLEAN
      BY <1>2, <1>4, LimitAssumption DEF KnownSite, IInv, DataOK, IsSite, AllLookedAt
    <2>2. s \in Website /\ Asking(found, s)
      BY <1>1, <2>1, AddResType DEF LookedAt, Asking
    <2>3. asked \in TurnOf(found) /\ Asking(found, asked.site) /\ asked.site \in Website /\ Quiet(asked.out)
      BY <1>2, <2>1, <2>2, SubmitDnsRequestType, SubmitDnsQuiet DEF TurnOf
    <2>4. sent \in TurnOf(found) /\ Quiet(sent.out)
      BY <1>2, <2>3, SubmitHttpRequestType, SubmitHttpQuiet
    <2>5. outbox' = AndThen(asked, sent).out
      BY <1>4 DEF KnownSite, Leave
    <2> HIDE DEF asked, sent
    <2> QED BY <2>3, <2>4, <2>5, AndThenItems DEF Quiet
  <1>5. ASSUME FreshSite(found, SiteKey(r), r) PROVE Quiet(outbox')
    BY <1>5, SubmitDnsQuiet DEF FreshSite, Leave
  <1>6. ASSUME Abort PROVE Quiet(outbox')
    BY <1>1, <1>6, ItemsOfOne DEF Abort, siteVars, Quiet
  <1>7. Quiet(outbox')
    BY <1>4, <1>5, <1>6 DEF ResTurn, found, r
  <1> QED BY <1>3, <1>7, RetryKept

LEMMA DnsTurnRetry ==
    ASSUME IInv, IInv', RetryInv, DnsTurn
    PROVE  RetryInv'
  <1> DEFINE d == Head(dns_result_)
             k == HostKey(d.host)
             s == sites_map_[k]
             got == DnsResult(k, s, d.state)
             sent == SubmitHttpRequest(k, got.site)
  <1>1. d \in DnsEntity /\ outbox = <<>>
    BY SeqTail DEF DnsTurn, Turning, IInv, DataOK
  <1>2. k \in Site /\ d.state \in {"OK", "ERROR"}
    BY <1>1, HostAssumption DEF DnsEntity, HostKey, Site, AnyHost
  <1>3. UNCHANGED <<err_count, store_result_, storing>> /\ outbox' \in Seq(Post)
    BY DEF DnsTurn, storeVars, IInv, DataOK
  <1> HIDE DEF d, k
  <1>4. ASSUME IsSite(k), Leave(k, AndThen(got, sent)) PROVE Quiet(outbox')
    <2>1. s \in Website
      BY <1>2, <1>4 DEF IInv, DataOK, IsSite
    <2>2. got \in TurnOf(k) /\ Asking(k, got.site) /\ got.site \in Website /\ Quiet(got.out)
      BY <1>2, <2>1, DnsResultType, DnsResultQuiet DEF TurnOf
    <2>3. sent \in TurnOf(k) /\ Quiet(sent.out)
      BY <1>2, <2>2, SubmitHttpRequestType, SubmitHttpQuiet
    <2>4. outbox' = AndThen(got, sent).out
      BY <1>4 DEF Leave
    <2> HIDE DEF got, sent
    <2> QED BY <2>2, <2>3, <2>4, AndThenItems DEF Quiet
  <1>5. ASSUME UNCHANGED outbox PROVE Quiet(outbox')
    BY <1>1, <1>5, ItemsOfOne DEF Quiet
  <1>6. Quiet(outbox')
    BY <1>4, <1>5 DEF DnsTurn, Abort, siteVars, d, k
  <1> QED BY <1>3, <1>6, RetryKept

\* only a result that is not retried is recorded, and no count at the limit moves
LEMMA ResultTurnRetry ==
    ASSUME IInv, IInv', RetryInv, ResultTurn
    PROVE  RetryInv'
  <1> DEFINE x == Head(http_result_)
             k == x.site
             done == HttpResult(sites_map_[k], x)
             sent == SubmitHttpRequest(k, done.site)
  <1>1. x \in KnownResult
    BY SeqTail DEF ResultTurn, IInv, DataOK, SitesKnown
  <1>2. x \in Result /\ k \in Site /\ IsSite(k) /\ x.res \in Res
    BY <1>1 DEF KnownResult, Result
  <1>3. sites_map_[k] \in Website /\ Asking(k, sites_map_[k])
    BY <1>2 DEF IInv, DataOK, IsSite, AllLookedAt, LookedAt, Asking
  <1>4. done \in TurnOf(k) /\ Asking(k, done.site) /\ done.site \in Website
    BY <1>2, <1>3, HttpResultType DEF TurnOf, Asking, IInv
  <1>5. sent \in TurnOf(k) /\ Quiet(sent.out)
    BY <1>2, <1>4, SubmitHttpRequestType, SubmitHttpQuiet
  <1>6. outbox' = AndThen(done, sent).out /\ UNCHANGED <<store_result_, storing>>
    BY DEF ResultTurn, Leave, storeVars
  <1>7. err_count' = [err_count EXCEPT ![x.res] = IF Retried(x) THEN @ + 1 ELSE @]
    BY DEF ResultTurn
  <1>8. \A p \in Items(done.out) : ~Retried(x) /\ p.item = x
    BY ItemsOfOne DEF HttpResult, Turn, StorePost
  <1> HIDE DEF x, k, done, sent
  <1>9. err_count \in [Res -> 0..DOWN_err_retry_max] /\ DOWN_err_retry_max \in Nat
    BY LimitAssumption DEF IInv, DataOK
  <1>10. \A r \in Res : err_count[r] = DOWN_err_retry_max => err_count'[r] = DOWN_err_retry_max
    BY <1>2, <1>7, <1>9 DEF Retried
  <1>11. ~Retried(x) => Settled(x)
    BY <1>2, <1>9 DEF Retried, Settled
  <1>12. ASSUME NEW y \in Stored' PROVE y \in Stored \/ (y = x /\ ~Retried(x)) \/ (y \in Result /\ ~y.rqst)
    <2>1. ASSUME NEW p \in Items(outbox'), p.to = "store"
          PROVE  (p.item = x /\ ~Retried(x)) \/ (p.item \in Result /\ ~p.item.rqst)
      <3>1. p \in Items(done.out) \cup Items(sent.out)
        BY <1>4, <1>5, <1>6, AndThenItems
      <3>2. p \in Items(sent.out) => ~p.item.rqst
        BY <2>1, <1>5 DEF Quiet
      <3>3. p \in Post
        <4>1. outbox' \in Seq(Post)
          BY DEF IInv, DataOK
        <4> QED BY <4>1 DEF Items
      <3> QED BY <2>1, <3>1, <3>2, <3>3, <1>8 DEF Post
    <2> QED BY <1>6, <2>1 DEF Stored
  <1>13. ASSUME NEW y \in Result, Settled(y) PROVE Settled(y)'
    <2>1. y.res \in Res
      BY DEF Result
    <2> QED BY <1>10, <1>13, <2>1 DEF Settled
  <1>14. ASSUME NEW y \in Stored' PROVE y \in Result /\ Settled(y)
    <2>1. CASE y \in Stored
      BY <2>1 DEF RetryInv
    <2>2. CASE y = x /\ ~Retried(x)
      BY <2>2, <1>2, <1>11
    <2>3. CASE y \in Result /\ ~y.rqst
      BY <2>3 DEF Settled
    <2> QED BY <1>12, <2>1, <2>2, <2>3
  <1> QED BY <1>13, <1>14 DEF RetryInv

\* what is stored came from what was to be stored
LEMMA StoredStays ==
    ASSUME RetryInv, UNCHANGED err_count, Stored' \subseteq Stored
    PROVE  RetryInv'
  BY DEF RetryInv, Settled

LEMMA PushRetry ==
    ASSUME IInv, RetryInv, PushDns \/ PushTimed \/ PushDown \/ PushStore
    PROVE  RetryInv'
  <1> DEFINE p == Head(outbox)
  <1>1. outbox # <<>> /\ outbox' = Tail(outbox) /\ UNCHANGED err_count
    BY DEF PushDns, PushTimed, PushDown, PushStore, PushWait
  <1>2. p \in KnownPost /\ Items(outbox) = {p} \cup Items(outbox')
    BY <1>1, SeqTail, ItemsTaken DEF IInv, DataOK, SitesKnown
  <1> HIDE DEF p
  <1>3. CASE PushStore
    <2>1. p.to = "store" /\ store_result_' = Append(store_result_, p.item) /\ UNCHANGED storing
      BY <1>3 DEF PushStore, PushWait, p
    <2>2. Items(store_result_') = Items(store_result_) \cup {p.item}
      BY <1>2, <2>1, PostItem, ItemsAppended DEF IInv, DataOK
    <2>3. Stored' \subseteq Stored
      BY <1>2, <2>1, <2>2 DEF Stored
    <2> QED BY <1>1, <2>3, StoredStays
  <1>4. CASE PushDns \/ PushTimed \/ PushDown
    <2>1. UNCHANGED <<store_result_, storing>>
      BY <1>4 DEF PushDns, PushTimed, PushDown, storeVars
    <2>2. Stored' \subseteq Stored
      BY <1>2, <2>1 DEF Stored
    <2> QED BY <1>1, <2>2, StoredStays
  <1> QED BY <1>3, <1>4

LEMMA WriterRetry ==
    ASSUME IInv, RetryInv, NEW t \in Writer, StorePop(t) \/ StoreWrite(t)
    PROVE  RetryInv'
  <1>1. UNCHANGED <<err_count, outbox>> /\ storing \in [Writer -> Result \cup {Idle}]
    BY DEF StorePop, StoreWrite, siteVars, IInv, DataOK
  <1>2. CASE StorePop(t)
    <2>1. /\ Items(store_result_) = {Head(store_result_)} \cup Items(store_result_')
          /\ storing' = [storing EXCEPT ![t] = Head(store_result_)]
      BY <1>2, ItemsTaken DEF StorePop, IInv, DataOK
    <2>2. \A w \in Writer : storing'[w] = storing[w] \/ storing'[w] \in Items(store_result_)
      BY <1>1, <2>1
    <2>3. Stored' \subseteq Stored
      BY <1>1, <2>1, <2>2 DEF Stored
    <2> QED BY <1>1, <2>3, StoredStays
  <1>3. CASE StoreWrite(t)
    <2>1. \A w \in Writer : storing'[w] \in {storing[w], Idle}
      BY <1>1, <1>3 DEF StoreWrite
    <2>2. Stored' \subseteq Stored
      BY <1>1, <1>3, <2>1 DEF Stored, StoreWrite
    <2> QED BY <1>1, <2>2, StoredStays
  <1> QED BY <1>2, <1>3

LEMMA ReadyTurnRetry ==
    ASSUME IInv, RetryInv, ReadyTurn
    PROVE  RetryInv'
  <1>1. Items(outbox') = {DownPost(Head(ready_list_))} /\ UNCHANGED <<err_count, store_result_, storing>>
    BY ItemsOfOne DEF ReadyTurn, storeVars
  <1>2. Stored' \subseteq Stored
    BY <1>1 DEF Stored, DownPost
  <1> QED BY <1>1, <1>2, StoredStays

LEMMA StepRetry == IInv /\ IInv' /\ RetryInv /\ [Next]_vars => RetryInv'
  <1> SUFFICES ASSUME IInv, IInv', RetryInv, [Next]_vars PROVE RetryInv'
    OBVIOUS
  <1>1. ASSUME UNCHANGED <<err_count, outbox, store_result_, storing>> PROVE RetryInv'
    <2>1. Stored' \subseteq Stored
      BY <1>1 DEF Stored
    <2> QED BY <1>1, <2>1, StoredStays
  <1>2. CASE UNCHANGED vars
    BY <1>1, <1>2 DEF vars, siteVars, storeVars
  <1>3. CASE \E r \in Res : Submit(r)
    BY <1>1, <1>3 DEF Submit, siteVars, storeVars
  <1>4. CASE EndRes \/ EndDns \/ EndReady \/ EndResult
    BY <1>1, <1>4 DEF EndRes, EndDns, EndReady, EndResult, NextLoop, siteVars, storeVars
  <1>5. CASE \E t \in Resolver : ResolvePop(t) \/ \E answer \in {"OK", "ERROR"} : ResolvePush(t, answer)
    BY <1>1, <1>5 DEF ResolvePop, ResolvePush, siteVars, storeVars
  <1>6. CASE WaitPop \/ \E q \in Request : Timeout(q)
    BY <1>1, <1>6 DEF WaitPop, Timeout, siteVars, storeVars
  <1>7. CASE DownloadPop \/ \E q \in Request, state \in {"OK", "ERROR"} : DownloadEnd(q, state)
    BY <1>1, <1>7 DEF DownloadPop, DownloadEnd, siteVars, storeVars
  <1> QED BY <1>2, <1>3, <1>4, <1>5, <1>6, <1>7, ResTurnRetry, DnsTurnRetry, ReadyTurnRetry,
             ResultTurnRetry, PushRetry, WriterRetry
      DEF Next, Scheduler

(* A fetch is recorded as a failure only when its retries are used up, for *)
(* any limit and however results of one resource or of many interleave.    *)
THEOREM FailuresWereRetried == Spec => []ErrorOnlyAfterRetries
  <1>1. Init => RetryInv
    BY ItemsOfOne DEF Init, Fresh, RetryInv, Stored
  <1>2. RetryInv => ErrorOnlyAfterRetries
    <2> SUFFICES ASSUME RetryInv PROVE ErrorOnlyAfterRetries
      OBVIOUS
    <2>1. {p[3].item : p \in Posted("store")} \subseteq Stored
      BY DEF Posted, Places, Items, Stored
    <2>2. {p[3] : p \in Places("store", store_result_)} \subseteq Stored
      BY DEF Places, Items, Stored
    <2> QED BY <2>1, <2>2 DEF ErrorOnlyAfterRetries, RetryInv, Settled, Stored
  <1> QED BY <1>1, <1>2, StepRetry, Invariance, PTL DEF Spec

=============================================================================
