-------------------------- MODULE CrawlerResProofs --------------------------
(***************************************************************************)
(* Where a resource is, for any resources, hosts, ports, threads and queue *)
(* sizes of Crawler.  Each container counts the places in which it holds a *)
(* resource; a step takes one out of a container and puts it into another, *)
(* so the sum stays what submit made it.                                   *)
(*                                                                         *)
(* The sums are taken over a set F of resources: the exit needs them of a  *)
(* resource and the one its dump record reads as.                          *)
(*                                                                         *)
(* The last part counts, in the same way, the questions to the resolvers   *)
(* and their answers, for URLs that are all on the default port (AskInv).  *)
(***************************************************************************)
EXTENDS CrawlerProofs, FiniteSetTheorems

\* the places of a queue that hold a member of X, and their number
At(q, X) == {i \in DOMAIN q : q[i] \in X}
N(q, X)  == Cardinality(At(q, X))

-----------------------------------------------------------------------------
(* Counting in sequences                                                   *)

LEMMA Renamed ==
    ASSUME NEW S, IsFiniteSet(S), NEW T, NEW f \in [S -> T],
           \A x, y \in S : f[x] = f[y] => x = y, \A z \in T : \E x \in S : f[x] = z
    PROVE  IsFiniteSet(T) /\ Cardinality(T) = Cardinality(S)
  <1>1. f \in Bijection(S, T)
    BY DEF Bijection, Injection, Surjection, IsInjective
  <1> QED BY <1>1, FS_Bijection DEF ExistsBijection

LEMMA Disjoint ==
    ASSUME NEW S, NEW T, IsFiniteSet(S), IsFiniteSet(T), S \cap T = {}
    PROVE  /\ IsFiniteSet(S \cup T)
           /\ Cardinality(S \cup T) = Cardinality(S) + Cardinality(T)
  <1>1. Cardinality(S) \in Nat /\ Cardinality(T) \in Nat
    BY FS_CardinalityType
  <1>2. Cardinality(S \cap T) = 0
    BY FS_EmptySet
  <1>3. /\ IsFiniteSet(S \cup T)
        /\ Cardinality(S \cup T) = Cardinality(S) + Cardinality(T) - Cardinality(S \cap T)
    BY FS_Union
  <1> QED BY ONLY <1>1, <1>2, <1>3

LEMMA AtFinite ==
    ASSUME NEW S, NEW q \in Seq(S), NEW X
    PROVE  IsFiniteSet(At(q, X)) /\ N(q, X) \in Nat
  <1>1. DOMAIN q = 1..Len(q) /\ Len(q) \in Nat
    OBVIOUS
  <1>2. IsFiniteSet(1..Len(q))
    BY <1>1, FS_Interval
  <1>3. At(q, X) \subseteq 1..Len(q)
    BY <1>1 DEF At
  <1> QED BY <1>2, <1>3, FS_Subset, FS_CardinalityType DEF N

LEMMA NoneAt == \A X : N(<<>>, X) = 0
  <1>1. \A X : At(<<>>, X) = {}
    BY DEF At
  <1> QED BY <1>1, FS_EmptySet DEF N

LEMMA OneAt ==
    ASSUME NEW S, NEW x \in S, NEW X
    PROVE  N(<<x>>, X) = IF x \in X THEN 1 ELSE 0
  <1>1. DOMAIN <<x>> = {1} /\ <<x>>[1] = x
    OBVIOUS
  <1>2. At(<<x>>, X) = IF x \in X THEN {1} ELSE {}
    BY <1>1 DEF At
  <1> QED BY <1>2, FS_EmptySet, FS_Singleton DEF N

LEMMA CatAt ==
    ASSUME NEW S, NEW p \in Seq(S), NEW q \in Seq(S), NEW X
    PROVE  N(p \o q, X) = N(p, X) + N(q, X)
  <1> DEFINE m == Len(p)
             Shifted == {i + m : i \in At(q, X)}
             f == [i \in At(q, X) |-> i + m]
  <1>1. /\ DOMAIN p = 1..m /\ DOMAIN q = 1..Len(q) /\ DOMAIN (p \o q) = 1..(m + Len(q))
        /\ m \in Nat /\ Len(q) \in Nat
    OBVIOUS
  <1>2. \A i \in 1..(m + Len(q)) : (p \o q)[i] = IF i <= m THEN p[i] ELSE q[i - m]
    OBVIOUS
  <1>3. At(q, X) \subseteq 1..Len(q) /\ At(p, X) \subseteq 1..m
    BY <1>1 DEF At
  <1>4. IsFiniteSet(Shifted) /\ Cardinality(Shifted) = N(q, X)
    <2>1. f \in [At(q, X) -> Shifted]
      OBVIOUS
    <2>2. \A x, y \in At(q, X) : f[x] = f[y] => x = y
      BY <1>1, <1>3
    <2>3. \A z \in Shifted : \E x \in At(q, X) : f[x] = z
      OBVIOUS
    <2>4. IsFiniteSet(At(q, X))
      BY AtFinite
    <2> HIDE DEF f, Shifted
    <2> QED BY <2>1, <2>2, <2>3, <2>4, Renamed DEF N
  <1>5. At(p, X) \cap Shifted = {}
    BY <1>1, <1>3
  <1>6. At(p \o q, X) = At(p, X) \cup Shifted
    <2>1. ASSUME NEW i \in At(p \o q, X) PROVE i \in At(p, X) \cup Shifted
      <3>1. i \in 1..(m + Len(q)) /\ (p \o q)[i] \in X
        BY <1>1, <2>1 DEF At
      <3>2. CASE i <= m
        <4>1. i \in 1..m
          BY <1>1, <3>1, <3>2
        <4> QED BY <1>1, <1>2, <3>1, <3>2, <4>1 DEF At
      <3>3. CASE ~(i <= m)
        <4>1. i - m \in 1..Len(q) /\ i = (i - m) + m
          BY <1>1, <3>1, <3>3
        <4>2. q[i - m] \in X
          BY <1>2, <3>1, <3>3
        <4>3. i - m \in At(q, X)
          BY <1>1, <4>1, <4>2 DEF At
        <4> QED BY <4>1, <4>3
      <3> QED BY <3>2, <3>3
    <2>2. ASSUME NEW i \in At(p, X) PROVE i \in At(p \o q, X)
      <3>1. i \in 1..m /\ i \in 1..(m + Len(q)) /\ i <= m /\ p[i] \in X
        BY <1>1 DEF At
      <3> QED BY <1>1, <1>2, <3>1 DEF At
    <2>3. ASSUME NEW i \in At(q, X) PROVE i + m \in At(p \o q, X)
      <3>1. i \in 1..Len(q) /\ q[i] \in X
        BY <1>1 DEF At
      <3>2. i + m \in 1..(m + Len(q)) /\ ~(i + m <= m) /\ (i + m) - m = i
        BY <1>1, <3>1
      <3>3. (p \o q)[i + m] = q[i]
        BY <1>2, <3>2
      <3> QED BY <1>1, <3>1, <3>2, <3>3 DEF At
    <2> QED BY <2>1, <2>2, <2>3
  <1> HIDE DEF Shifted
  <1> QED BY <1>4, <1>5, <1>6, AtFinite, Disjoint DEF N

LEMMA AppendAt ==
    ASSUME NEW S, NEW q \in Seq(S), NEW x \in S, NEW X
    PROVE  N(Append(q, x), X) = N(q, X) + (IF x \in X THEN 1 ELSE 0)
  <1>1. Append(q, x) = q \o <<x>> /\ <<x>> \in Seq(S)
    OBVIOUS
  <1>2. N(q \o <<x>>, X) = N(q, X) + N(<<x>>, X)
    BY <1>1, CatAt
  <1>3. N(<<x>>, X) = IF x \in X THEN 1 ELSE 0
    BY OneAt
  <1> QED BY <1>1, <1>2, <1>3

LEMMA TailAt ==
    ASSUME NEW S, NEW q \in Seq(S), q # <<>>, NEW X
    PROVE  N(q, X) = N(Tail(q), X) + (IF Head(q) \in X THEN 1 ELSE 0)
  <1>1. Tail(q) \in Seq(S) /\ Head(q) \in S /\ <<Head(q)>> \in Seq(S)
    OBVIOUS
  <1>2. q = <<Head(q)>> \o Tail(q)
    OBVIOUS
  <1>3. N(<<Head(q)>> \o Tail(q), X) = N(<<Head(q)>>, X) + N(Tail(q), X)
    BY <1>1, CatAt
  <1>4. N(<<Head(q)>>, X) = IF Head(q) \in X THEN 1 ELSE 0
    BY <1>1, OneAt
  <1>5. N(Tail(q), X) \in Nat
    BY <1>1, AtFinite
  <1>6. N(q, X) = N(<<Head(q)>> \o Tail(q), X)
    BY <1>2
  <1>7. N(q, X) = N(<<Head(q)>>, X) + N(Tail(q), X)
    BY <1>3, <1>6
  <1> QED BY <1>4, <1>5, <1>7

LEMMA NotAt ==
    ASSUME NEW q, NEW X, \A i \in DOMAIN q : q[i] \notin X
    PROVE  N(q, X) = 0
  <1>1. At(q, X) = {}
    BY DEF At
  <1> QED BY <1>1, FS_EmptySet DEF N

-----------------------------------------------------------------------------
(* The calls of a turn: what leaves a site's list is among its posts.      *)

RequestsOf(F) == {q \in Request : q.res \in F}
ResultsOf(F)  == {x \in Result : x.res \in F}
PostsOf(F)    == {p \in Post : p.to # "dns" /\ p.item.res \in F}
TurnN(t, F)   == N(t.site.res_list_, F) + N(t.out, PostsOf(F))

LEMMA AskDnsKeeps ==
    ASSUME NEW k \in Site, NEW s \in Website
    PROVE  AskDns(k, s).site.res_list_ = s.res_list_ /\ AskDns(k, s).out \in Seq(Question)
  <1>1. AskDns(k, s).site.res_list_ = s.res_list_
    BY DEF AskDns, Turn, Website
  <1> QED BY <1>1, AskDnsType

LEMMA SubmitDnsKeeps ==
    ASSUME NEW k \in Site, NEW s \in Website, NEW e \in BOOLEAN
    PROVE  /\ SubmitDnsRequest(k, s, e).site.res_list_ = s.res_list_
           /\ SubmitDnsRequest(k, s, e).out \in Seq(Question)
  <1>1. /\ [s EXCEPT !.dns_state = "ERROR_RETRY"] \in Website
        /\ [s EXCEPT !.dns_state = "ERROR_RETRY"].res_list_ = s.res_list_
    BY DEF Website, DnsState
  <1>2. /\ [s EXCEPT !.dns_state = "UPDATE"] \in Website
        /\ [s EXCEPT !.dns_state = "UPDATE"].res_list_ = s.res_list_
    BY DEF Website, DnsState
  <1>3. Turn(s, <<>>).site = s /\ Turn(s, <<>>).out = <<>> /\ <<>> \in Seq(Question)
    BY DEF Turn
  <1>4. CASE s.dns_is_resolving_
    BY <1>3, <1>4 DEF SubmitDnsRequest
  <1>5. CASE ~s.dns_is_resolving_ /\ s.dns_state = "INIT"
    BY <1>5, AskDnsKeeps DEF SubmitDnsRequest
  <1>6. CASE ~s.dns_is_resolving_ /\ s.dns_state = "ERROR" /\ e
    BY <1>1, <1>6, AskDnsKeeps DEF SubmitDnsRequest
  <1>7. CASE ~s.dns_is_resolving_ /\ s.dns_state = "OK" /\ e
    BY <1>2, <1>7, AskDnsKeeps DEF SubmitDnsRequest
  <1>8. CASE ~s.dns_is_resolving_ /\ s.dns_state # "INIT" /\ ~(s.dns_state \in {"OK", "ERROR"} /\ e)
    BY <1>3, <1>8 DEF SubmitDnsRequest
  <1> QED BY <1>4, <1>5, <1>6, <1>7, <1>8

LEMMA DnsResultKeeps ==
    ASSUME NEW k \in Site, NEW s \in Website, NEW answer \in {"OK", "ERROR"}
    PROVE  /\ DnsResult(k, s, answer).site.res_list_ = s.res_list_
           /\ DnsResult(k, s, answer).out \in Seq(Question)
  <1>1. DnsResult(k, s, answer).site.res_list_ = s.res_list_
    BY DEF DnsResult, AskDns, Turn, Website
  <1>2. k[1] # NoHost => DnsPost(k[1]) \in Question
    BY DEF Site, AnyHost, DnsPost, Question
  <1>3. DnsResult(k, s, answer).out \in {<<>>, <<DnsPost(k[1])>>}
        /\ (k[1] = NoHost => DnsResult(k, s, answer).out = <<>>)
    BY DEF DnsResult, AskDns, Turn
  <1>4. <<>> \in Seq(Question) /\ (k[1] # NoHost => <<DnsPost(k[1])>> \in Seq(Question))
    BY <1>2
  <1> QED BY <1>1, <1>3, <1>4

\* a call that only asks holds no resource
LEMMA AskingN ==
    ASSUME NEW t, NEW s, t.site.res_list_ = s.res_list_, s.res_list_ \in Seq(Res), t.out \in Seq(Question), NEW F
    PROVE  TurnN(t, F) = N(s.res_list_, F) /\ N(t.out, PostsOf(F)) = 0
  <1>1. \A i \in DOMAIN t.out : t.out[i] \notin PostsOf(F)
    <2>1. \A i \in DOMAIN t.out : t.out[i] \in Question
      OBVIOUS
    <2> QED BY <2>1 DEF PostsOf, Question
  <1>2. N(t.out, PostsOf(F)) = 0
    BY <1>1, NotAt
  <1>3. N(s.res_list_, F) \in Nat
    BY AtFinite
  <1> QED BY <1>2, <1>3 DEF TurnN

LEMMA FetchFailedN ==
    ASSUME NEW k \in Site, NEW s \in Website, NEW F \in SUBSET Res
    PROVE  TurnN(FetchFailedAllRes(k, s), F) = N(s.res_list_, F)
  <1> DEFINE l == s.res_list_
             out == [i \in 1..Len(l) |-> StorePost(DnsFailure(k, l[i]))]
  <1>1. l \in Seq(Res) /\ DOMAIN l = 1..Len(l)
    BY DEF Website
  <1>2. ASSUME NEW i \in 1..Len(l) PROVE out[i] \in PostsOf(F) <=> l[i] \in F
    <2>1. l[i] \in Res
      BY <1>1
    <2>2. out[i] = StorePost(DnsFailure(k, l[i])) /\ StorePost(DnsFailure(k, l[i])) \in Post
      BY <2>1 DEF StorePost, DnsFailure, Post, Result
    <2>3. out[i].to = "store" /\ out[i].item.res = l[i]
      BY <2>2 DEF StorePost, DnsFailure
    <2> HIDE DEF out
    <2> QED BY <2>2, <2>3 DEF PostsOf
  <1>3. At(out, PostsOf(F)) = At(l, F)
    <2>1. DOMAIN out = 1..Len(l)
      OBVIOUS
    <2> HIDE DEF out, l
    <2> QED BY <1>1, <1>2, <2>1 DEF At
  <1>4. FetchFailedAllRes(k, s).site.res_list_ = <<>> /\ FetchFailedAllRes(k, s).out = out
    BY FetchFailedAllResType DEF FetchFailedAllRes, Turn
  <1>5. N(l, F) \in Nat
    BY <1>1, AtFinite
  <1> HIDE DEF out, l
  <1>6. TurnN(FetchFailedAllRes(k, s), F) = 0 + N(l, F)
    BY <1>3, <1>4, NoneAt DEF TurnN, N
  <1> QED BY <1>5, <1>6 DEF l

LEMMA HttpRequestN ==
    ASSUME NEW k \in Site, NEW s \in Website, s.res_list_ # <<>>, NEW F \in SUBSET Res
    PROVE  TurnN(HttpRequest(k, s), F) = N(s.res_list_, F)
  <1> DEFINE l == s.res_list_
             p == WaitPost([res |-> Head(l), site |-> k])
  <1>1. l \in Seq(Res) /\ l # <<>> /\ Head(l) \in Res /\ Tail(l) \in Seq(Res)
    BY SeqTail DEF Website
  <1>2. HttpRequest(k, s).site.res_list_ = Tail(l) /\ HttpRequest(k, s).out = <<p>>
    BY DEF HttpRequest, Turn, Website
  <1>3. p \in Post /\ p.to = "wait" /\ p.item.res = Head(l)
    BY <1>1 DEF WaitPost, Post, Request
  <1>4. p \in PostsOf(F) <=> Head(l) \in F
    BY <1>3 DEF PostsOf
  <1> HIDE DEF p, l
  <1>5. N(<<p>>, PostsOf(F)) = IF Head(l) \in F THEN 1 ELSE 0
    BY <1>3, <1>4, OneAt
  <1>6. N(l, F) = N(Tail(l), F) + (IF Head(l) \in F THEN 1 ELSE 0)
    BY <1>1, TailAt
  <1> QED BY <1>2, <1>5, <1>6 DEF TurnN, l

LEMMA SubmitHttpRequestN ==
    ASSUME NEW k \in Site, NEW s \in Website, NEW F \in SUBSET Res
    PROVE  TurnN(SubmitHttpRequest(k, s), F) = N(s.res_list_, F)
  <1>1. CASE s.dns_state = "ERROR"
    BY <1>1, FetchFailedN DEF SubmitHttpRequest
  <1>2. CASE s.dns_state = "OK" /\ ~s.is_fetching_ /\ s.res_list_ # <<>>
    BY <1>2, HttpRequestN DEF SubmitHttpRequest
  <1>3. CASE s.dns_state # "ERROR" /\ ~(s.dns_state = "OK" /\ ~s.is_fetching_ /\ s.res_list_ # <<>>)
    <2>1. SubmitHttpRequest(k, s) = Turn(s, <<>>)
      BY <1>3 DEF SubmitHttpRequest
    <2>2. Turn(s, <<>>).site = s /\ Turn(s, <<>>).out = <<>>
      BY DEF Turn
    <2>3. N(s.res_list_, F) \in Nat
      BY AtFinite DEF Website
    <2>4. N(<<>>, PostsOf(F)) = 0
      BY NoneAt
    <2> QED BY <2>1, <2>2, <2>3, <2>4 DEF TurnN
  <1> QED BY <1>1, <1>2, <1>3

LEMMA AddResN ==
    ASSUME NEW s \in Website, NEW r \in Res, NEW F
    PROVE  N(AddRes(s, r).res_list_, F) = N(s.res_list_, F) + (IF r \in F THEN 1 ELSE 0)
  <1>1. AddRes(s, r).res_list_ = Append(s.res_list_, r) /\ s.res_list_ \in Seq(Res)
    BY DEF AddRes, Website
  <1> QED BY <1>1, AppendAt

\* a result goes back to the list or on to the storage
LEMMA HttpResultN ==
    ASSUME NEW s \in Website, NEW x \in Result, NEW F \in SUBSET Res
    PROVE  TurnN(HttpResult(s, x), F) = N(s.res_list_, F) + (IF x.res \in F THEN 1 ELSE 0)
  <1>0. x.res \in Res /\ s.res_list_ \in Seq(Res)
    BY DEF Result, Website
  <1>1. N(s.res_list_, F) \in Nat
    BY <1>0, AtFinite
  <1>2. CASE Retried(x)
    <2>1. AddRes(s, x.res) \in Website
      BY <1>0, AddResType
    <2>2. HttpResult(s, x).site.res_list_ = AddRes(s, x.res).res_list_ /\ HttpResult(s, x).out = <<>>
      BY <1>2, <2>1 DEF HttpResult, Turn, Website
    <2>3. N(AddRes(s, x.res).res_list_, F) = N(s.res_list_, F) + (IF x.res \in F THEN 1 ELSE 0)
      BY <1>0, AddResN
    <2>4. N(<<>>, PostsOf(F)) = 0
      BY NoneAt
    <2> QED BY <1>1, <2>2, <2>3, <2>4 DEF TurnN
  <1>3. CASE ~Retried(x)
    <2>1. HttpResult(s, x).site.res_list_ = s.res_list_ /\ HttpResult(s, x).out = <<StorePost(x)>>
      BY <1>3 DEF HttpResult, Turn, Website
    <2>2. StorePost(x) \in Post /\ (StorePost(x) \in PostsOf(F) <=> x.res \in F)
      BY DEF StorePost, Post, PostsOf
    <2>3. N(<<StorePost(x)>>, PostsOf(F)) = IF x.res \in F THEN 1 ELSE 0
      BY <2>2, OneAt
    <2> QED BY <2>1, <2>3 DEF TurnN
  <1> QED BY <1>2, <1>3

\* a turn that ends with submitHttpRequest holds what its first call did
LEMMA AndThenN ==
    ASSUME NEW k \in Site, NEW t \in TurnOf(k), Asking(k, t.site), NEW F \in SUBSET Res
    PROVE  TurnN(AndThen(t, SubmitHttpRequest(k, t.site)), F) = TurnN(t, F)
  <1> DEFINE u == SubmitHttpRequest(k, t.site)
  <1>1. AndThen(t, u).site = u.site /\ AndThen(t, u).out = t.out \o u.out
    BY DEF AndThen, Turn
  <1>2. t.out \in Seq(Post) /\ t.site \in Website /\ u.out \in Seq(Post) /\ u.site \in Website
    <2>1. t.site \in Website /\ t.out \in Seq(PostOf(k))
      BY DEF TurnOf
    <2>2. u.site \in Website /\ u.out \in Seq(PostOf(k))
      BY <2>1, SubmitHttpRequestType DEF TurnOf
    <2>3. PostOf(k) \subseteq Post
      BY DEF PostOf
    <2> QED BY <2>1, <2>2, <2>3, SeqMono
  <1>3. N(u.site.res_list_, F) + N(u.out, PostsOf(F)) = N(t.site.res_list_, F)
    BY <1>2, SubmitHttpRequestN DEF TurnN
  <1>4. /\ N(u.site.res_list_, F) \in Nat /\ N(t.out, PostsOf(F)) \in Nat
        /\ N(u.out, PostsOf(F)) \in Nat
    BY <1>2, AtFinite DEF Website
  <1>5. N(t.out \o u.out, PostsOf(F)) = N(t.out, PostsOf(F)) + N(u.out, PostsOf(F))
    BY <1>2, CatAt
  <1> HIDE DEF u
  <1>6. TurnN(AndThen(t, u), F) = TurnN(t, F)
    BY <1>1, <1>3, <1>4, <1>5 DEF TurnN
  <1> QED BY <1>6 DEF u

-----------------------------------------------------------------------------
(* The containers                                                          *)

InSiteLists(F) == {p \in Site \X Nat : IsSite(p[1]) /\ p[2] \in At(sites_map_[p[1]].res_list_, F)}
InTimers(F)  == {q \in timers : q.res \in F}
InConns(F)   == {q \in conns : q.res \in F}
InWriters(F) == {t \in Writer : storing[t] # Idle /\ storing[t].res \in F}
InLeaked(F)  == {x \in leaked : x \in F \/ ((x \in Request \/ x \in Result) /\ x.res \in F)}
InRecords(F) == {p \in F \X Nat : p[2] \in DOMAIN written[p[1]]}

Finite(F) ==
    /\ IsFiniteSet(InSiteLists(F)) /\ IsFiniteSet(InTimers(F)) /\ IsFiniteSet(InConns(F))
    /\ IsFiniteSet(InWriters(F)) /\ IsFiniteSet(InLeaked(F)) /\ IsFiniteSet(InRecords(F))

SvcN(F)    == N(res_list_, F) + Cardinality(InSiteLists(F)) + N(outbox, PostsOf(F))
WaiterN(F) == N(wait_list_, RequestsOf(F)) + Cardinality(InTimers(F)) + N(ready_list_, RequestsOf(F))
DownN(F)   == N(http_request_, RequestsOf(F)) + Cardinality(InConns(F)) + N(http_result_, ResultsOf(F))
StoreN(F)  == N(store_result_, ResultsOf(F)) + Cardinality(InWriters(F)) + Cardinality(InRecords(F))
LeakedN(F) == Cardinality(InLeaked(F))
TotalN(F)  == SvcN(F) + WaiterN(F) + DownN(F) + StoreN(F) + LeakedN(F)

\* nothing is gained, and nothing is lost but by an assert; in a set, two of
\* a kind may become one
Conserved(F) ==
    /\ Finite(F)'
    /\ TotalN(F)' <= TotalN(F) /\ (Alive' /\ TotalN(F) >= 1 => TotalN(F)' >= 1)

LEMMA CountsAreNat ==
    ASSUME DataOK, NEW F, Finite(F)
    PROVE  /\ N(res_list_, F) \in Nat /\ Cardinality(InSiteLists(F)) \in Nat
           /\ N(outbox, PostsOf(F)) \in Nat
           /\ N(wait_list_, RequestsOf(F)) \in Nat /\ Cardinality(InTimers(F)) \in Nat
           /\ N(ready_list_, RequestsOf(F)) \in Nat /\ N(http_request_, RequestsOf(F)) \in Nat
           /\ Cardinality(InConns(F)) \in Nat /\ N(http_result_, ResultsOf(F)) \in Nat
           /\ N(store_result_, ResultsOf(F)) \in Nat /\ Cardinality(InWriters(F)) \in Nat
           /\ Cardinality(InLeaked(F)) \in Nat /\ Cardinality(InRecords(F)) \in Nat
  <1>1. \A S : IsFiniteSet(S) => Cardinality(S) \in Nat
    BY FS_CardinalityType
  <1>2. \A S, X : \A q \in Seq(S) : N(q, X) \in Nat
    BY AtFinite
  <1>3. /\ N(res_list_, F) \in Nat /\ N(outbox, PostsOf(F)) \in Nat
        /\ N(wait_list_, RequestsOf(F)) \in Nat /\ N(ready_list_, RequestsOf(F)) \in Nat
        /\ N(http_request_, RequestsOf(F)) \in Nat /\ N(http_result_, ResultsOf(F)) \in Nat
        /\ N(store_result_, ResultsOf(F)) \in Nat
    BY <1>2 DEF DataOK
  <1> QED BY <1>1, <1>3 DEF Finite

LEMMA SumsAreNat ==
    ASSUME DataOK, NEW F, Finite(F)
    PROVE  /\ SvcN(F) \in Nat /\ WaiterN(F) \in Nat /\ DownN(F) \in Nat /\ StoreN(F) \in Nat
           /\ LeakedN(F) \in Nat /\ TotalN(F) \in Nat
  <1>1. /\ SvcN(F) \in Nat /\ WaiterN(F) \in Nat /\ DownN(F) \in Nat /\ StoreN(F) \in Nat
        /\ LeakedN(F) \in Nat
    BY CountsAreNat DEF SvcN, WaiterN, DownN, StoreN, LeakedN
  <1> QED BY <1>1 DEF TotalN

\* what the list of one site holds counts apart from the other sites
LEMMA SiteListN ==
    ASSUME DataOK, NEW k \in Site, NEW s \in Website, NEW F, IsFiniteSet(InSiteLists(F)),
           sites_map_' = [sites_map_ EXCEPT ![k] = s]
    PROVE  /\ IsFiniteSet(InSiteLists(F)')
           /\ Cardinality(InSiteLists(F)') = Cardinality(InSiteLists(F)) + N(s.res_list_, F)
                 - (IF IsSite(k) THEN N(sites_map_[k].res_list_, F) ELSE 0)
  <1> DEFINE Rest == {p \in InSiteLists(F) : p[1] # k}
             Own(l) == {<<k, i>> : i \in At(l, F)}
  <1>1. ASSUME NEW l \in Seq(Res)
        PROVE  /\ IsFiniteSet(Own(l)) /\ Cardinality(Own(l)) = N(l, F) /\ Own(l) \cap Rest = {}
               /\ N(l, F) \in Nat
    <2> DEFINE f == [i \in At(l, F) |-> <<k, i>>]
    <2>1. f \in [At(l, F) -> Own(l)] /\ \A x, y \in At(l, F) : f[x] = f[y] => x = y
      OBVIOUS
    <2>2. \A z \in Own(l) : \E x \in At(l, F) : f[x] = z
      OBVIOUS
    <2>3. IsFiniteSet(At(l, F)) /\ N(l, F) \in Nat
      BY AtFinite
    <2>4. Own(l) \cap Rest = {}
      OBVIOUS
    <2> HIDE DEF f, Own, Rest
    <2> QED BY <2>1, <2>2, <2>3, <2>4, Renamed DEF N
  <1>2. IsFiniteSet(Rest)
    BY FS_Subset
  <1>3. s.res_list_ \in Seq(Res) /\ s \notin {Null, Absent}
    BY NullAssumption DEF Website
  <1>4. sites_map_'[k] = s /\ \A j \in Site : j # k => sites_map_'[j] = sites_map_[j]
    BY DEF DataOK
  <1>5. InSiteLists(F)' = Rest \cup Own(s.res_list_)
    <2>1. \A i \in At(s.res_list_, F) : i \in Nat
      <3>1. DOMAIN s.res_list_ = 1..Len(s.res_list_)
        BY <1>3
      <3> QED BY <3>1 DEF At
    <2>2. ASSUME NEW p \in Site \X Nat, p[1] # k PROVE p \in InSiteLists(F)' <=> p \in Rest
      BY <1>4, <2>2 DEF InSiteLists, IsSite
    <2>3. ASSUME NEW p \in Site \X Nat, p[1] = k PROVE p \in InSiteLists(F)' <=> p \in Own(s.res_list_)
      <3>1. p = <<k, p[2]>>
        BY <2>3
      <3>2. p \in InSiteLists(F)' <=> p[2] \in At(s.res_list_, F)
        BY <1>3, <1>4, <2>3 DEF InSiteLists, IsSite
      <3> QED BY <3>1, <3>2
    <2>4. InSiteLists(F)' \subseteq Site \X Nat /\ Rest \subseteq Site \X Nat
          /\ Own(s.res_list_) \subseteq Site \X Nat
      BY <2>1 DEF InSiteLists
    <2>5. (\A p \in Rest : p[1] # k) /\ (\A p \in Own(s.res_list_) : p[1] = k)
      OBVIOUS
    <2> HIDE DEF Rest, Own
    <2> QED BY <2>2, <2>3, <2>4, <2>5
  <1>6. CASE IsSite(k)
    <2>1. sites_map_[k] \in Website /\ sites_map_[k].res_list_ \in Seq(Res)
      BY <1>6 DEF DataOK, IsSite, Website
    <2>2. InSiteLists(F) = Rest \cup Own(sites_map_[k].res_list_)
      <3>1. \A i \in At(sites_map_[k].res_list_, F) : i \in Nat
        <4>1. DOMAIN sites_map_[k].res_list_ = 1..Len(sites_map_[k].res_list_)
          BY <2>1
        <4> QED BY <4>1 DEF At
      <3>2. ASSUME NEW p \in InSiteLists(F), p[1] = k PROVE p \in Own(sites_map_[k].res_list_)
        BY <3>2 DEF InSiteLists
      <3>3. ASSUME NEW i \in At(sites_map_[k].res_list_, F) PROVE <<k, i>> \in InSiteLists(F)
        BY <1>6, <3>1 DEF InSiteLists
      <3> QED BY <3>2, <3>3
    <2> HIDE DEF Rest, Own
    <2>3. Cardinality(InSiteLists(F)) = Cardinality(Rest) + N(sites_map_[k].res_list_, F)
      BY <1>1, <1>2, <2>1, <2>2, Disjoint
    <2>4. /\ IsFiniteSet(InSiteLists(F)')
          /\ Cardinality(InSiteLists(F)') = Cardinality(Rest) + N(s.res_list_, F)
      BY <1>1, <1>2, <1>3, <1>5, Disjoint
    <2>5. N(s.res_list_, F) \in Nat /\ N(sites_map_[k].res_list_, F) \in Nat /\ Cardinality(Rest) \in Nat
      BY <1>1, <1>2, <1>3, <2>1, FS_CardinalityType
    <2> QED BY <1>6, <2>3, <2>4, <2>5
  <1>7. CASE ~IsSite(k)
    <2>1. InSiteLists(F) = Rest
      BY <1>7 DEF InSiteLists
    <2> HIDE DEF Rest, Own
    <2>2. /\ IsFiniteSet(InSiteLists(F)')
          /\ Cardinality(InSiteLists(F)') = Cardinality(Rest) + N(s.res_list_, F)
      BY <1>1, <1>2, <1>3, <1>5, Disjoint
    <2>3. N(s.res_list_, F) \in Nat /\ Cardinality(Rest) \in Nat
      BY <1>1, <1>2, <1>3, FS_CardinalityType
    <2> QED BY <1>7, <2>1, <2>2, <2>3
  <1> QED BY <1>6, <1>7

LEMMA SetsStay ==
    ASSUME NEW F
    PROVE  /\ UNCHANGED sites_map_ => InSiteLists(F)' = InSiteLists(F)
           /\ UNCHANGED timers => InTimers(F)' = InTimers(F)
           /\ UNCHANGED conns => InConns(F)' = InConns(F)
           /\ UNCHANGED storing => InWriters(F)' = InWriters(F)
           /\ UNCHANGED leaked => InLeaked(F)' = InLeaked(F)
           /\ UNCHANGED written => InRecords(F)' = InRecords(F)
  <1>1. UNCHANGED sites_map_ => InSiteLists(F)' = InSiteLists(F)
    BY DEF InSiteLists, IsSite
  <1>2. UNCHANGED timers => InTimers(F)' = InTimers(F)
    BY DEF InTimers
  <1>3. UNCHANGED conns => InConns(F)' = InConns(F)
    BY DEF InConns
  <1>4. UNCHANGED storing => InWriters(F)' = InWriters(F)
    BY DEF InWriters
  <1>5. UNCHANGED leaked => InLeaked(F)' = InLeaked(F)
    BY DEF InLeaked
  <1>6. UNCHANGED written => InRecords(F)' = InRecords(F)
    BY DEF InRecords
  <1> QED BY <1>1, <1>2, <1>3, <1>4, <1>5, <1>6

LEMMA SumsStay ==
    ASSUME NEW F
    PROVE  /\ UNCHANGED <<res_list_, siteVars>> => SvcN(F)' = SvcN(F)
           /\ UNCHANGED waitVars => WaiterN(F)' = WaiterN(F)
           /\ UNCHANGED downVars => DownN(F)' = DownN(F)
           /\ UNCHANGED storeVars => StoreN(F)' = StoreN(F)
           /\ UNCHANGED leaked => LeakedN(F)' = LeakedN(F)
  BY SetsStay DEF siteVars, waitVars, downVars, storeVars, SvcN, WaiterN, DownN, StoreN, LeakedN

One(b) == IF b THEN 1 ELSE 0

LEMMA OneIs == ASSUME NEW b PROVE One(b) \in {0, 1} /\ (One(b) = 1 <=> b)
  BY DEF One

LEMMA Gains ==
    ASSUME NEW S, IsFiniteSet(S), NEW x, NEW d \in {0, 1}, NEW T, T = IF d = 1 THEN S \cup {x} ELSE S
    PROVE  /\ IsFiniteSet(T) /\ Cardinality(T) \in Nat /\ Cardinality(S) \in Nat
           /\ Cardinality(T) \in Cardinality(S) .. (Cardinality(S) + d)
           /\ Cardinality(T) >= d
           /\ x \notin S => Cardinality(T) = Cardinality(S) + d
  <1>1. Cardinality(S) \in Nat
    BY FS_CardinalityType
  <1>2. CASE d = 1
    <2>1. /\ IsFiniteSet(T)
          /\ Cardinality(T) = IF x \in S THEN Cardinality(S) ELSE Cardinality(S) + 1
      BY <1>2, FS_AddElement
    <2>2. x \in S => Cardinality(S) # 0
      BY FS_EmptySet
    <2> QED BY <1>1, <1>2, <2>1, <2>2
  <1>3. CASE d = 0
    BY <1>1, <1>3
  <1> QED BY <1>2, <1>3

LEMMA Loses ==
    ASSUME NEW S, IsFiniteSet(S), NEW x, NEW T, T = S \ {x}
    PROVE  /\ IsFiniteSet(T) /\ Cardinality(T) \in Nat /\ Cardinality(S) \in Nat
           /\ Cardinality(S) = Cardinality(T) + One(x \in S)
  <1>1. Cardinality(S) \in Nat /\ IsFiniteSet(T) /\ Cardinality(T) \in Nat
    BY FS_CardinalityType, FS_RemoveElement
  <1>2. Cardinality(T) = IF x \in S THEN Cardinality(S) - 1 ELSE Cardinality(S)
    BY FS_RemoveElement
  <1> QED BY <1>1, <1>2 DEF One

\* a resource counts in what is leaked as it does elsewhere
Counts(x, F) == x \in F \/ ((x \in Request \/ x \in Result) /\ x.res \in F)

LEMMA LeakedGains ==
    ASSUME NEW x, NEW F, IsFiniteSet(InLeaked(F)), leaked' = leaked \cup {x}
    PROVE  /\ IsFiniteSet(InLeaked(F)') /\ Cardinality(InLeaked(F)) \in Nat
           /\ Cardinality(InLeaked(F)') \in Cardinality(InLeaked(F)) .. (Cardinality(InLeaked(F)) + One(Counts(x, F)))
           /\ Cardinality(InLeaked(F)') >= One(Counts(x, F))
  <1>1. InLeaked(F)' = IF One(Counts(x, F)) = 1 THEN InLeaked(F) \cup {x} ELSE InLeaked(F)
    BY DEF InLeaked, Counts, One
  <1>2. One(Counts(x, F)) \in {0, 1}
    BY OneIs
  <1> QED BY <1>1, <1>2, Gains

\* push: into the queue or, when it is full, lost for good
LEMMA PushedN ==
    ASSUME NEW S, NEW q \in Seq(S), NEW x \in S, NEW max, NEW X, NEW F, IsFiniteSet(InLeaked(F)),
           leaked' = leaked \cup Dropped(q, max, x), x \in X <=> Counts(x, F)
    PROVE  /\ IsFiniteSet(InLeaked(F)')
           /\ N(Pushed(q, max, x), X) \in Nat /\ Cardinality(InLeaked(F)') \in Nat
           /\ N(Pushed(q, max, x), X) + Cardinality(InLeaked(F)')
                <= N(q, X) + Cardinality(InLeaked(F)) + One(x \in X)
           /\ N(Pushed(q, max, x), X) + Cardinality(InLeaked(F)') >= N(q, X) + Cardinality(InLeaked(F))
           /\ N(Pushed(q, max, x), X) + Cardinality(InLeaked(F)') >= One(x \in X)
  <1>1. N(q, X) \in Nat /\ Cardinality(InLeaked(F)) \in Nat
    BY AtFinite, FS_CardinalityType
  <1>2. CASE Full(q, max)
    <2>1. Pushed(q, max, x) = q /\ leaked' = leaked \cup {x}
      BY <1>2 DEF Pushed, Dropped
    <2>2. One(x \in X) = One(Counts(x, F)) /\ One(x \in X) \in Nat
      BY DEF One
    <2>3. /\ IsFiniteSet(InLeaked(F)') /\ Cardinality(InLeaked(F)') \in Nat
          /\ Cardinality(InLeaked(F)') <= Cardinality(InLeaked(F)) + One(x \in X)
          /\ Cardinality(InLeaked(F)') >= Cardinality(InLeaked(F))
          /\ Cardinality(InLeaked(F)') >= One(x \in X)
      BY <1>1, <2>1, <2>2, LeakedGains
    <2> QED BY <1>1, <2>1, <2>2, <2>3
  <1>3. CASE ~Full(q, max)
    <2>1. Pushed(q, max, x) = Append(q, x) /\ leaked' = leaked
      BY <1>3 DEF Pushed, Dropped
    <2>2. InLeaked(F)' = InLeaked(F)
      BY <2>1, SetsStay
    <2>3. N(Append(q, x), X) = N(q, X) + One(x \in X)
      BY AppendAt DEF One
    <2>4. One(x \in X) \in Nat
      BY DEF One
    <2> QED BY <1>1, <2>1, <2>2, <2>3, <2>4
  <1> QED BY <1>2, <1>3

LEMMA Kinds ==
    ASSUME NEW F \in SUBSET Res
    PROVE  /\ \A q \in Request : (Counts(q, F) <=> q.res \in F) /\ (q \in RequestsOf(F) <=> q.res \in F)
           /\ \A x \in Result : (Counts(x, F) <=> x.res \in F) /\ (x \in ResultsOf(F) <=> x.res \in F)
           /\ \A d \in DnsEntity : ~Counts(d, F)
           /\ \A r \in Res : Counts(r, F) <=> r \in F
  <1>1. \A d \in DnsEntity : d \notin Request /\ d \notin Result
    <2>1. \A d \in DnsEntity : DOMAIN d = {"host", "state"}
      BY DEF DnsEntity
    <2>2. \A q \in Request : DOMAIN q = {"res", "site"}
      BY DEF Request
    <2>3. \A x \in Result : DOMAIN x = {"res", "site", "state", "rqst"}
      BY DEF Result
    <2> QED BY <2>1, <2>2, <2>3
  <1> QED BY <1>1, KindAssumption DEF Counts, RequestsOf, ResultsOf

-----------------------------------------------------------------------------
(* The turns of svc                                                        *)

\* what a turn leaves of the counts: the site and the outbox change, and
\* the source it has taken from
LEMMA LeaveN ==
    ASSUME DataOK, NEW k \in Site, NEW t, t.site \in Website, t.out \in Seq(Post), NEW F,
           IsFiniteSet(InSiteLists(F)), Leave(k, t)
    PROVE  /\ IsFiniteSet(InSiteLists(F)')
           /\ Cardinality(InSiteLists(F)') + N(outbox', PostsOf(F)) = Cardinality(InSiteLists(F)) + TurnN(t, F)
                 - (IF IsSite(k) THEN N(sites_map_[k].res_list_, F) ELSE 0)
           /\ Cardinality(InSiteLists(F)') \in Nat /\ N(outbox', PostsOf(F)) \in Nat
  <1>1. sites_map_' = [sites_map_ EXCEPT ![k] = t.site] /\ outbox' = t.out
    BY DEF Leave
  <1>2. /\ IsFiniteSet(InSiteLists(F)')
        /\ Cardinality(InSiteLists(F)') = Cardinality(InSiteLists(F)) + N(t.site.res_list_, F)
             - (IF IsSite(k) THEN N(sites_map_[k].res_list_, F) ELSE 0)
    BY <1>1, SiteListN
  <1>3. N(t.site.res_list_, F) \in Nat /\ N(t.out, PostsOf(F)) \in Nat /\ Cardinality(InSiteLists(F)) \in Nat
    BY AtFinite, FS_CardinalityType DEF Website
  <1>4. IsSite(k) => N(sites_map_[k].res_list_, F) \in Nat
    BY AtFinite DEF DataOK, IsSite, Website
  <1>5. Cardinality(InSiteLists(F)') \in Nat
    BY <1>2, FS_CardinalityType
  <1> QED BY <1>1, <1>2, <1>3, <1>4, <1>5 DEF TurnN

LEMMA EmptyOutbox == ASSUME outbox = <<>>, NEW F PROVE N(outbox, PostsOf(F)) = 0
  BY NoneAt

LEMMA KnownSiteN ==
    ASSUME IInv, NEW k \in Site, NEW r \in Res, NEW e \in BOOLEAN, KnownSite(k, r, e),
           NEW F \in SUBSET Res, IsFiniteSet(InSiteLists(F))
    PROVE  /\ IsFiniteSet(InSiteLists(F)')
           /\ Cardinality(InSiteLists(F)') + N(outbox', PostsOf(F)) = Cardinality(InSiteLists(F)) + One(r \in F)
           /\ Cardinality(InSiteLists(F)') \in Nat /\ N(outbox', PostsOf(F)) \in Nat
  <1> DEFINE s == AddRes(sites_map_[k], r)
             asked == SubmitDnsRequest(k, s, e)
             turn == AndThen(asked, SubmitHttpRequest(k, asked.site))
  <1>1. sites_map_[k] \in Website /\ LookedAt(k, sites_map_[k]) /\ IsSite(k)
    BY DEF KnownSite, IInv, DataOK, IsSite, AllLookedAt
  <1>2. s \in Website /\ Asking(k, s)
    BY <1>1, AddResType DEF LookedAt, Asking
  <1>3. asked \in TurnOf(k) /\ Asking(k, asked.site) /\ asked.site \in Website
    BY <1>2, SubmitDnsRequestType DEF TurnOf
  <1>4. TurnN(asked, F) = N(s.res_list_, F)
    BY <1>2, SubmitDnsKeeps, AskingN DEF Website
  <1>5. N(s.res_list_, F) = N(sites_map_[k].res_list_, F) + One(r \in F)
    BY <1>1, AddResN DEF One
  <1>6. Leave(k, turn)
    BY DEF KnownSite
  <1>7. turn \in TurnOf(k) /\ turn.site \in Website /\ turn.out \in Seq(Post)
    <2>1. SubmitHttpRequest(k, asked.site) \in TurnOf(k)
      BY <1>3, SubmitHttpRequestType
    <2>2. turn \in TurnOf(k)
      BY <1>3, <2>1, AndThenType
    <2>3. PostOf(k) \subseteq Post
      BY DEF PostOf
    <2> HIDE DEF turn
    <2> QED BY <2>2, <2>3, SeqMono DEF TurnOf
  <1> HIDE DEF asked, s
  <1>8. TurnN(turn, F) = TurnN(asked, F)
    BY <1>3, AndThenN
  <1>9. /\ IsFiniteSet(InSiteLists(F)')
        /\ Cardinality(InSiteLists(F)') + N(outbox', PostsOf(F)) = Cardinality(InSiteLists(F)) + TurnN(turn, F)
             - N(sites_map_[k].res_list_, F)
        /\ Cardinality(InSiteLists(F)') \in Nat /\ N(outbox', PostsOf(F)) \in Nat
    <2> HIDE DEF turn
    <2> QED BY <1>1, <1>6, <1>7, LeaveN DEF IInv
  <1>10. N(sites_map_[k].res_list_, F) \in Nat /\ Cardinality(InSiteLists(F)) \in Nat /\ One(r \in F) \in Nat
    BY <1>1, AtFinite, FS_CardinalityType DEF Website, One
  <1> HIDE DEF turn
  <1> QED BY <1>4, <1>5, <1>8, <1>9, <1>10

LEMMA FreshSiteN ==
    ASSUME IInv, NEW f \in Site, NEW k \in Site, NEW r \in Res, FreshSite(f, k, r),
           NEW F \in SUBSET Res, IsFiniteSet(InSiteLists(F)), IsFiniteSet(InLeaked(F))
    PROVE  /\ IsFiniteSet(InSiteLists(F)') /\ IsFiniteSet(InLeaked(F)')
           /\ Cardinality(InSiteLists(F)') \in Nat /\ N(outbox', PostsOf(F)) \in Nat
           /\ Cardinality(InLeaked(F)') \in Nat
           /\ Cardinality(InSiteLists(F)') + N(outbox', PostsOf(F)) + Cardinality(InLeaked(F)')
                <= Cardinality(InSiteLists(F)) + Cardinality(InLeaked(F)) + One(r \in F)
           /\ Cardinality(InSiteLists(F)') + N(outbox', PostsOf(F)) + Cardinality(InLeaked(F)')
                >= Cardinality(InSiteLists(F)) + Cardinality(InLeaked(F))
           /\ Cardinality(InSiteLists(F)') + N(outbox', PostsOf(F)) + Cardinality(InLeaked(F)') >= One(r \in F)
  <1> DEFINE s == AddRes(NewSite, r)
             asked == SubmitDnsRequest(k, s, FALSE)
  <1>1. s \in Website /\ s.dns_state = "INIT" /\ N(s.res_list_, F) = One(r \in F)
    <2>1. NewSite \in Website /\ NewSite.res_list_ = <<>>
      BY NewSiteType DEF NewSite
    <2>2. N(NewSite.res_list_, F) = 0
      BY <2>1, NoneAt
    <2>3. N(s.res_list_, F) = N(NewSite.res_list_, F) + One(r \in F)
      BY <2>1, AddResN DEF One
    <2>4. s \in Website /\ s.dns_state = "INIT"
      BY NewSiteType, AddResType
    <2> QED BY <2>2, <2>3, <2>4 DEF One
  <1>2. asked \in TurnOf(k) /\ asked.site \in Website /\ asked.out \in Seq(Post)
    <2>1. asked \in TurnOf(k)
      BY <1>1, SubmitDnsRequestType
    <2>2. PostOf(k) \subseteq Post
      BY DEF PostOf
    <2> HIDE DEF asked
    <2> QED BY <2>1, <2>2, SeqMono DEF TurnOf
  <1>3. TurnN(asked, F) = One(r \in F) /\ N(asked.out, PostsOf(F)) = 0
    <2>1. asked.site.res_list_ = s.res_list_ /\ asked.out \in Seq(Question) /\ s.res_list_ \in Seq(Res)
      BY <1>1, SubmitDnsKeeps DEF Website
    <2> HIDE DEF asked, s
    <2> QED BY <1>1, <2>1, AskingN
  <1>4. Cardinality(InSiteLists(F)) \in Nat /\ Cardinality(InLeaked(F)) \in Nat /\ One(r \in F) \in Nat
    BY FS_CardinalityType DEF One
  <1>5. CASE sites_map_[k] = Absent
    <2>1. Leave(k, asked) /\ leaked' = leaked /\ ~IsSite(k)
      BY <1>5 DEF FreshSite, IsSite
    <2>2. InLeaked(F)' = InLeaked(F)
      BY <2>1, SetsStay
    <2> HIDE DEF asked
    <2>3. /\ IsFiniteSet(InSiteLists(F)')
          /\ Cardinality(InSiteLists(F)') + N(outbox', PostsOf(F)) = Cardinality(InSiteLists(F)) + TurnN(asked, F)
          /\ Cardinality(InSiteLists(F)') \in Nat /\ N(outbox', PostsOf(F)) \in Nat
      <3>1. /\ IsFiniteSet(InSiteLists(F)')
            /\ Cardinality(InSiteLists(F)') + N(outbox', PostsOf(F)) = Cardinality(InSiteLists(F)) + TurnN(asked, F) - 0
            /\ Cardinality(InSiteLists(F)') \in Nat /\ N(outbox', PostsOf(F)) \in Nat
        BY <1>2, <2>1, LeaveN DEF IInv
      <3> QED BY <3>1, <1>3, <1>4
    <2> QED BY <1>3, <1>4, <2>2, <2>3
  <1>6. CASE sites_map_[k] # Absent
    <2>1. outbox' = asked.out /\ leaked' = leaked \cup {r} /\ UNCHANGED sites_map_
      BY <1>6 DEF FreshSite
    <2>2. InSiteLists(F)' = InSiteLists(F)
      BY <2>1, SetsStay
    <2>3. N(outbox', PostsOf(F)) = 0
      BY <1>3, <2>1
    <2>4. One(Counts(r, F)) = One(r \in F)
      BY Kinds DEF One
    <2>5. /\ IsFiniteSet(InLeaked(F)')
          /\ Cardinality(InLeaked(F)') \in Cardinality(InLeaked(F)) .. (Cardinality(InLeaked(F)) + One(r \in F))
          /\ Cardinality(InLeaked(F)') >= One(r \in F)
      BY <2>1, <2>4, LeakedGains
    <2> QED BY <1>4, <2>2, <2>3, <2>5
  <1> QED BY <1>5, <1>6

LEMMA ResTurnN ==
    ASSUME IInv, ResTurn, NEW F \in SUBSET Res, Finite(F)
    PROVE  Conserved(F)
  <1> DEFINE r == Head(res_list_)
             found == HostKey(UrlOf[r].host)
             d == One(r \in F)
             before == Cardinality(InSiteLists(F)) + Cardinality(InLeaked(F))
             after == Cardinality(InSiteLists(F)') + N(outbox', PostsOf(F)) + Cardinality(InLeaked(F)')
  <1>1. r \in Res /\ outbox = <<>> /\ res_list_ # <<>> /\ res_list_ \in Seq(Res) /\ res_list_' = Tail(res_list_)
    BY SeqTail DEF ResTurn, Turning, IInv, DataOK
  <1>2. N(res_list_, F) = N(res_list_', F) + d /\ N(res_list_', F) \in Nat /\ d \in Nat
    BY <1>1, TailAt, AtFinite, SeqTail DEF One
  <1>3. found \in Site /\ SiteKey(r) \in Site
    BY <1>1, SiteKeys
  <1>4. UNCHANGED <<waitVars, downVars, storeVars>>
    BY DEF ResTurn
  <1>5. /\ InTimers(F)' = InTimers(F) /\ InConns(F)' = InConns(F) /\ InWriters(F)' = InWriters(F)
        /\ InRecords(F)' = InRecords(F)
    BY <1>4, SetsStay DEF waitVars, downVars, storeVars
  <1>6. N(outbox, PostsOf(F)) = 0
    BY <1>1, EmptyOutbox
  <1>7. /\ IsFiniteSet(InSiteLists(F)') /\ IsFiniteSet(InLeaked(F)')
        /\ Cardinality(InSiteLists(F)') \in Nat /\ N(outbox', PostsOf(F)) \in Nat
        /\ Cardinality(InLeaked(F)') \in Nat
        /\ after <= before + d /\ (Alive' => after >= before /\ after >= d)
    <2>0. /\ Cardinality(InSiteLists(F)) \in Nat /\ Cardinality(InLeaked(F)) \in Nat
          /\ IsFiniteSet(InSiteLists(F)) /\ IsFiniteSet(InLeaked(F))
      BY CountsAreNat DEF IInv, Finite
    <2> HIDE DEF r, found
    <2>1. ASSUME NEW e \in Expiry, KnownSite(found, r, e) PROVE <1>7!:
      <3>1. e \in BOOLEAN /\ UNCHANGED leaked
        BY <2>1, LimitAssumption DEF KnownSite
      <3>2. InLeaked(F)' = InLeaked(F)
        BY <3>1, SetsStay
      <3> QED BY <1>1, <1>2, <1>3, <2>0, <2>1, <3>1, <3>2, KnownSiteN
    <2>2. CASE FreshSite(found, SiteKey(r), r)
      BY <1>1, <1>2, <1>3, <2>0, <2>2, FreshSiteN
    <2>3. CASE Abort
      <3>1. UNCHANGED <<sites_map_, outbox, leaked>> /\ ~Alive'
        BY <2>3 DEF Abort, siteVars, Alive
      <3>2. InLeaked(F)' = InLeaked(F) /\ InSiteLists(F)' = InSiteLists(F)
        BY <3>1, SetsStay
      <3>3. N(outbox', PostsOf(F)) = 0
        BY <1>6, <3>1
      <3> QED BY <1>2, <2>0, <3>1, <3>2, <3>3
    <2> QED BY <2>1, <2>2, <2>3 DEF ResTurn, found, r
  <1>8. Finite(F)'
    BY <1>5, <1>7 DEF Finite
  <1>9. SvcN(F) + LeakedN(F) = N(res_list_, F) + before /\ SvcN(F)' + LeakedN(F)' = N(res_list_', F) + after
        /\ before \in Nat /\ after \in Nat
    <2>1. Cardinality(InSiteLists(F)) \in Nat /\ Cardinality(InLeaked(F)) \in Nat /\ N(res_list_, F) \in Nat
      BY CountsAreNat DEF IInv
    <2> QED BY <1>2, <1>6, <1>7, <2>1 DEF SvcN, LeakedN
  <1>10. WaiterN(F)' = WaiterN(F) /\ DownN(F)' = DownN(F) /\ StoreN(F)' = StoreN(F)
    BY <1>4, SumsStay
  <1>11. /\ WaiterN(F) \in Nat /\ DownN(F) \in Nat /\ StoreN(F) \in Nat /\ SvcN(F) \in Nat /\ LeakedN(F) \in Nat
         /\ SvcN(F)' + LeakedN(F)' \in Nat /\ SvcN(F)' \in Nat /\ LeakedN(F)' \in Nat
    <2>1. SvcN(F)' \in Nat /\ LeakedN(F)' \in Nat
      BY <1>2, <1>7 DEF SvcN, LeakedN
    <2> QED BY <2>1, SumsAreNat DEF IInv
  <1> HIDE DEF r, found, d, before, after
  <1>12. SvcN(F)' + LeakedN(F)' <= SvcN(F) + LeakedN(F)
         /\ (Alive' => SvcN(F)' + LeakedN(F)' >= SvcN(F) + LeakedN(F) \/ SvcN(F)' + LeakedN(F)' >= 1)
    BY <1>2, <1>7, <1>9, <1>11 DEF d, One
  <1> QED BY <1>8, <1>10, <1>11, <1>12 DEF Conserved, TotalN

\* what is dropped of the resolvers' answers is no resource
LEMMA AnswerLeaks ==
    ASSUME NEW d \in DnsEntity, NEW F \in SUBSET Res, leaked' = leaked \/ leaked' = leaked \cup {d}
    PROVE  InLeaked(F)' = InLeaked(F)
  <1>1. ~Counts(d, F)
    BY Kinds
  <1> QED BY <1>1 DEF InLeaked, Counts

LEMMA DnsTurnN ==
    ASSUME IInv, DnsTurn, NEW F \in SUBSET Res, Finite(F)
    PROVE  Conserved(F)
  <1> DEFINE d == Head(dns_result_)
             k == HostKey(d.host)
             s == sites_map_[k]
             got == DnsResult(k, s, d.state)
             turn == AndThen(got, SubmitHttpRequest(k, got.site))
  <1>1. d \in DnsEntity /\ outbox = <<>> /\ d.state \in {"OK", "ERROR"}
    <2>1. dns_result_ \in Seq(DnsEntity) /\ dns_result_ # <<>> /\ outbox = <<>>
      BY DEF DnsTurn, Turning, IInv, DataOK
    <2>2. d \in DnsEntity
      BY <2>1, SeqTail
    <2> HIDE DEF d
    <2> QED BY <2>1, <2>2 DEF DnsEntity
  <1>2. k \in Site
    <2>1. d.host \in Host
      BY <1>1 DEF DnsEntity
    <2> HIDE DEF d
    <2> QED BY <2>1, HostAssumption DEF HostKey, Site, AnyHost
  <1>3. UNCHANGED <<res_list_, waitVars, downVars, storeVars>>
    BY DEF DnsTurn
  <1>4. InLeaked(F)' = InLeaked(F)
    <2>1. leaked' = leaked \/ leaked' = leaked \cup {d}
      BY DEF DnsTurn, Abort
    <2> QED BY <1>1, <2>1, AnswerLeaks
  <1>5. /\ InTimers(F)' = InTimers(F) /\ InConns(F)' = InConns(F) /\ InWriters(F)' = InWriters(F)
        /\ InRecords(F)' = InRecords(F)
    BY <1>3, SetsStay DEF waitVars, downVars, storeVars
  <1>6. N(outbox, PostsOf(F)) = 0 /\ Cardinality(InSiteLists(F)) \in Nat /\ N(res_list_, F) \in Nat
    BY <1>1, EmptyOutbox, CountsAreNat DEF IInv
  <1>7. /\ IsFiniteSet(InSiteLists(F)')
        /\ Cardinality(InSiteLists(F)') + N(outbox', PostsOf(F)) = Cardinality(InSiteLists(F))
        /\ Cardinality(InSiteLists(F)') \in Nat /\ N(outbox', PostsOf(F)) \in Nat
    <2>1. CASE IsSite(k) /\ Leave(k, AndThen(got, SubmitHttpRequest(k, got.site)))
      <3> HIDE DEF d, k
      <3>1. s \in Website
        BY <1>2, <2>1 DEF IInv, DataOK, IsSite
      <3>2. got \in TurnOf(k) /\ Asking(k, got.site) /\ got.site \in Website
        BY <1>1, <1>2, <3>1, DnsResultType DEF TurnOf
      <3>3. turn \in TurnOf(k)
        BY <1>2, <3>2, SubmitHttpRequestType, AndThenType
      <3>4. TurnN(got, F) = N(s.res_list_, F) /\ N(s.res_list_, F) \in Nat
        <4>1. s.res_list_ \in Seq(Res) /\ got.site.res_list_ = s.res_list_ /\ got.out \in Seq(Question)
          BY <1>1, <1>2, <3>1, DnsResultKeeps DEF Website
        <4> HIDE DEF got, s
        <4> QED BY <4>1, AskingN, AtFinite
      <3> HIDE DEF got
      <3>5. TurnN(turn, F) = TurnN(got, F)
        BY <1>2, <3>2, AndThenN
      <3>6. PostOf(k) \subseteq Post
        BY DEF PostOf
      <3> HIDE DEF turn
      <3>7. turn.site \in Website /\ turn.out \in Seq(Post)
        BY <3>3, <3>6, SeqMono DEF TurnOf
      <3>8. Leave(k, turn)
        BY <2>1 DEF turn
      <3>9. /\ IsFiniteSet(InSiteLists(F)')
            /\ Cardinality(InSiteLists(F)') + N(outbox', PostsOf(F)) = Cardinality(InSiteLists(F)) + TurnN(turn, F)
                 - N(s.res_list_, F)
            /\ Cardinality(InSiteLists(F)') \in Nat /\ N(outbox', PostsOf(F)) \in Nat
        BY <1>2, <2>1, <3>7, <3>8, LeaveN DEF IInv, Finite
      <3> QED BY <1>6, <3>4, <3>5, <3>9
    <2>2. CASE UNCHANGED <<sites_map_, outbox>>
      <3>1. InSiteLists(F)' = InSiteLists(F) /\ IsFiniteSet(InSiteLists(F))
        BY <2>2, SetsStay DEF Finite
      <3> QED BY <1>6, <2>2, <3>1
    <2>3. CASE ~IsSite(k) /\ sites_map_' = [sites_map_ EXCEPT ![k] = Null] /\ UNCHANGED outbox
      <3> HIDE DEF k
      <3>1. \A j \in Site : (IsSite(j)' <=> IsSite(j)) /\ (IsSite(j) => sites_map_'[j] = sites_map_[j])
        BY <1>2, <2>3 DEF IInv, DataOK, IsSite
      <3>2. InSiteLists(F)' = InSiteLists(F) /\ IsFiniteSet(InSiteLists(F))
        BY <3>1 DEF InSiteLists, Finite
      <3> QED BY <1>6, <2>3, <3>2
    <2> QED BY <2>1, <2>2, <2>3 DEF DnsTurn, Abort, siteVars
  <1>8. Finite(F)'
    BY <1>4, <1>5, <1>7 DEF Finite
  <1>9. SvcN(F)' = SvcN(F) /\ LeakedN(F)' = LeakedN(F)
    BY <1>3, <1>4, <1>6, <1>7 DEF SvcN, LeakedN
  <1>10. WaiterN(F)' = WaiterN(F) /\ DownN(F)' = DownN(F) /\ StoreN(F)' = StoreN(F)
    BY <1>3, SumsStay
  <1>11. TotalN(F) \in Nat
    BY SumsAreNat DEF IInv
  <1>12. TotalN(F)' = TotalN(F)
    BY <1>9, <1>10 DEF TotalN
  <1> QED BY <1>8, <1>11, <1>12 DEF Conserved

LEMMA ResultTurnN ==
    ASSUME IInv, ResultTurn, NEW F \in SUBSET Res, Finite(F)
    PROVE  Conserved(F)
  <1> DEFINE x == Head(http_result_)
             k == x.site
             s == sites_map_[k]
             done == HttpResult(s, x)
             turn == AndThen(done, SubmitHttpRequest(k, done.site))
             d == One(x.res \in F)
  <1>1. x \in KnownResult /\ outbox = <<>> /\ http_result_' = Tail(http_result_) /\ http_result_ # <<>>
        /\ http_result_ \in Seq(Result)
    BY SeqTail DEF ResultTurn, Turning, IInv, DataOK, SitesKnown
  <1>2. x \in Result /\ k \in Site /\ x.res \in Res /\ IsSite(k)
    BY <1>1 DEF KnownResult, Result
  <1>3. /\ UNCHANGED <<res_list_, waitVars, http_request_, conns, storeVars, leaked>>
        /\ Leave(k, AndThen(done, SubmitHttpRequest(k, done.site)))
    BY DEF ResultTurn
  <1>4. /\ InTimers(F)' = InTimers(F) /\ InConns(F)' = InConns(F) /\ InWriters(F)' = InWriters(F)
        /\ InRecords(F)' = InRecords(F) /\ InLeaked(F)' = InLeaked(F)
    BY <1>3, SetsStay DEF waitVars, storeVars
  <1>5. N(outbox, PostsOf(F)) = 0 /\ Cardinality(InSiteLists(F)) \in Nat /\ N(res_list_, F) \in Nat
    BY <1>1, EmptyOutbox, CountsAreNat DEF IInv
  <1>6. /\ N(http_result_, ResultsOf(F)) = N(http_result_', ResultsOf(F)) + d
        /\ N(http_result_', ResultsOf(F)) \in Nat /\ d \in Nat
    <2>1. x \in ResultsOf(F) <=> x.res \in F
      BY <1>2, Kinds
    <2> QED BY <1>1, <2>1, TailAt, AtFinite, SeqTail DEF One
  <1> HIDE DEF x
  <1>7. s \in Website /\ Asking(k, s)
    BY <1>2 DEF IInv, DataOK, IsSite, AllLookedAt, LookedAt, Asking
  <1>8. done \in TurnOf(k) /\ Asking(k, done.site) /\ done.site \in Website
    BY <1>2, <1>7, HttpResultType DEF TurnOf, Asking, IInv
  <1>9. turn \in TurnOf(k)
    BY <1>2, <1>8, SubmitHttpRequestType, AndThenType
  <1>10. TurnN(done, F) = N(s.res_list_, F) + d /\ N(s.res_list_, F) \in Nat
    BY <1>2, <1>7, HttpResultN, AtFinite DEF One, Website
  <1> HIDE DEF done
  <1>11. TurnN(turn, F) = TurnN(done, F)
    BY <1>2, <1>8, AndThenN
  <1>12. /\ IsFiniteSet(InSiteLists(F)')
         /\ Cardinality(InSiteLists(F)') + N(outbox', PostsOf(F)) = Cardinality(InSiteLists(F)) + d
         /\ Cardinality(InSiteLists(F)') \in Nat /\ N(outbox', PostsOf(F)) \in Nat
    <2>1. PostOf(k) \subseteq Post /\ Leave(k, turn)
      BY <1>3 DEF PostOf
    <2> HIDE DEF turn
    <2>2. turn.site \in Website /\ turn.out \in Seq(Post)
      BY <1>9, <2>1, SeqMono DEF TurnOf
    <2>3. /\ IsFiniteSet(InSiteLists(F)')
          /\ Cardinality(InSiteLists(F)') + N(outbox', PostsOf(F)) = Cardinality(InSiteLists(F)) + TurnN(turn, F)
               - N(s.res_list_, F)
          /\ Cardinality(InSiteLists(F)') \in Nat /\ N(outbox', PostsOf(F)) \in Nat
      BY <1>2, <2>1, <2>2, LeaveN DEF IInv, Finite
    <2> HIDE DEF s, d
    <2> QED BY <1>5, <1>6, <1>10, <1>11, <2>3
  <1>13. Finite(F)'
    BY <1>4, <1>12 DEF Finite
  <1> HIDE DEF d
  <1>14. SvcN(F)' = SvcN(F) + d
    BY <1>3, <1>5, <1>6, <1>12 DEF SvcN
  <1>15. DownN(F) = DownN(F)' + d
    <2>1. N(http_request_, RequestsOf(F)) \in Nat /\ Cardinality(InConns(F)) \in Nat
      BY CountsAreNat DEF IInv
    <2> QED BY <1>3, <1>4, <1>6, <2>1 DEF DownN
  <1>16. WaiterN(F)' = WaiterN(F) /\ StoreN(F)' = StoreN(F) /\ LeakedN(F)' = LeakedN(F)
    BY <1>3, SumsStay
  <1>17. /\ TotalN(F) \in Nat /\ SvcN(F) \in Nat /\ WaiterN(F) \in Nat /\ StoreN(F) \in Nat
         /\ LeakedN(F) \in Nat /\ DownN(F)' \in Nat
    <2>1. DownN(F)' \in Nat
      <3>1. N(http_request_, RequestsOf(F)) \in Nat /\ Cardinality(InConns(F)) \in Nat
        BY CountsAreNat DEF IInv
      <3> QED BY <1>3, <1>4, <1>6, <3>1 DEF DownN
    <2> QED BY <2>1, SumsAreNat DEF IInv
  <1>18. TotalN(F)' = TotalN(F)
    BY <1>6, <1>14, <1>15, <1>16, <1>17 DEF TotalN
  <1> QED BY <1>13, <1>17, <1>18 DEF Conserved

-----------------------------------------------------------------------------
(* The queues, the workers and the clients                                 *)

LEMMA PopN ==
    ASSUME NEW S, NEW q \in Seq(S), q # <<>>, NEW X
    PROVE  /\ N(q, X) = N(Tail(q), X) + One(Head(q) \in X)
           /\ N(q, X) \in Nat /\ N(Tail(q), X) \in Nat /\ One(Head(q) \in X) \in Nat
  BY TailAt, AtFinite, SeqTail DEF One

LEMMA PutN ==
    ASSUME NEW S, NEW q \in Seq(S), NEW x \in S, NEW X
    PROVE  /\ N(Append(q, x), X) = N(q, X) + One(x \in X)
           /\ N(q, X) \in Nat /\ N(Append(q, x), X) \in Nat /\ One(x \in X) \in Nat
  BY AppendAt, AtFinite, SeqAppend DEF One

LEMMA ReadyTurnN ==
    ASSUME IInv, ReadyTurn, NEW F \in SUBSET Res, Finite(F)
    PROVE  Conserved(F)
  <1> DEFINE q == Head(ready_list_)
             d == One(q.res \in F)
  <1>1. /\ ready_list_ \in Seq(Request) /\ ready_list_ # <<>> /\ ready_list_' = Tail(ready_list_)
        /\ outbox = <<>> /\ outbox' = <<DownPost(q)>> /\ q \in Request
        /\ UNCHANGED <<res_list_, sites_map_, wait_list_, timers, downVars, storeVars, leaked>>
    BY SeqTail DEF ReadyTurn, Turning, IInv, DataOK
  <1>2. Finite(F)' /\ InSiteLists(F)' = InSiteLists(F) /\ InTimers(F)' = InTimers(F)
    BY <1>1, SetsStay DEF Finite, downVars, storeVars
  <1>3. /\ N(ready_list_, RequestsOf(F)) = N(ready_list_', RequestsOf(F)) + d
        /\ N(ready_list_', RequestsOf(F)) \in Nat /\ d \in Nat
    <2>1. q \in RequestsOf(F) <=> q.res \in F
      BY <1>1, Kinds
    <2> QED BY <1>1, <2>1, PopN DEF One
  <1>4. N(outbox, PostsOf(F)) = 0 /\ N(outbox', PostsOf(F)) = d
    <2>1. DownPost(q) \in Post /\ (DownPost(q) \in PostsOf(F) <=> q.res \in F)
      BY <1>1 DEF DownPost, Post, PostsOf
    <2>2. N(<<DownPost(q)>>, PostsOf(F)) = d
      BY <2>1, OneAt DEF One
    <2> QED BY <1>1, <2>2, EmptyOutbox
  <1>5. /\ N(res_list_, F) \in Nat /\ Cardinality(InSiteLists(F)) \in Nat
        /\ N(wait_list_, RequestsOf(F)) \in Nat /\ Cardinality(InTimers(F)) \in Nat
    BY CountsAreNat DEF IInv
  <1> HIDE DEF d, q
  <1>6. SvcN(F)' = SvcN(F) + d /\ WaiterN(F) = WaiterN(F)' + d /\ WaiterN(F)' \in Nat
    BY <1>1, <1>2, <1>3, <1>4, <1>5 DEF SvcN, WaiterN
  <1>7. DownN(F)' = DownN(F) /\ StoreN(F)' = StoreN(F) /\ LeakedN(F)' = LeakedN(F)
    BY <1>1, SumsStay
  <1>8. /\ SvcN(F) \in Nat /\ DownN(F) \in Nat /\ StoreN(F) \in Nat /\ LeakedN(F) \in Nat
        /\ TotalN(F) \in Nat
    BY SumsAreNat DEF IInv
  <1>9. TotalN(F)' = TotalN(F)
    BY <1>3, <1>6, <1>7, <1>8 DEF TotalN
  <1> QED BY <1>2, <1>8, <1>9 DEF Conserved

\* one push_wait moves an item from the outbox to a queue
LEMMA OutboxN ==
    ASSUME IInv, NEW F \in SUBSET Res, Finite(F), outbox # <<>>, outbox' = Tail(outbox),
           UNCHANGED <<res_list_, sites_map_>>
    PROVE  /\ SvcN(F) = SvcN(F)' + One(Head(outbox) \in PostsOf(F))
           /\ SvcN(F)' \in Nat /\ One(Head(outbox) \in PostsOf(F)) \in Nat
           /\ Head(outbox) \in Post /\ Head(outbox) \in KnownPost
  <1>1. outbox \in Seq(Post) /\ Head(outbox) \in Post /\ Head(outbox) \in KnownPost
    BY SeqTail DEF IInv, DataOK, SitesKnown
  <1>2. InSiteLists(F)' = InSiteLists(F)
    BY SetsStay
  <1>3. N(res_list_, F) \in Nat /\ Cardinality(InSiteLists(F)) \in Nat
    BY CountsAreNat DEF IInv
  <1>4. /\ N(outbox, PostsOf(F)) = N(outbox', PostsOf(F)) + One(Head(outbox) \in PostsOf(F))
        /\ N(outbox', PostsOf(F)) \in Nat /\ One(Head(outbox) \in PostsOf(F)) \in Nat
    BY <1>1, PopN
  <1> QED BY <1>1, <1>2, <1>3, <1>4 DEF SvcN

LEMMA PushN ==
    ASSUME IInv, PushDns \/ PushTimed \/ PushDown \/ PushStore, NEW F \in SUBSET Res, Finite(F)
    PROVE  Conserved(F)
  <1> DEFINE p == Head(outbox)
             d == One(p \in PostsOf(F))
  <1>1. outbox # <<>> /\ outbox' = Tail(outbox) /\ UNCHANGED <<res_list_, sites_map_, leaked>>
    BY DEF PushDns, PushTimed, PushDown, PushStore, PushWait
  <1>2. SvcN(F) = SvcN(F)' + d /\ SvcN(F)' \in Nat /\ d \in Nat /\ p \in Post /\ p \in KnownPost
    BY <1>1, OutboxN
  <1>3. Finite(F)' /\ LeakedN(F)' = LeakedN(F)
    <2>1. UNCHANGED <<timers, conns, storing, written>>
      BY DEF PushDns, PushTimed, PushDown, PushStore, waitVars, downVars, storeVars
    <2> QED BY <1>1, <2>1, SetsStay DEF Finite, LeakedN
  <1>4. /\ WaiterN(F) \in Nat /\ DownN(F) \in Nat /\ StoreN(F) \in Nat /\ LeakedN(F) \in Nat
        /\ TotalN(F) \in Nat
    BY SumsAreNat DEF IInv
  <1>5. /\ p.to = "dns" => p.item \in Host
        /\ p.to \in {"wait", "down"} => p.item \in Request
        /\ p.to = "store" => p.item \in Result
    BY <1>2, PostItem
  <1>6. /\ N(wait_list_, RequestsOf(F)) \in Nat /\ Cardinality(InTimers(F)) \in Nat
        /\ N(ready_list_, RequestsOf(F)) \in Nat /\ N(http_request_, RequestsOf(F)) \in Nat
        /\ Cardinality(InConns(F)) \in Nat /\ N(http_result_, ResultsOf(F)) \in Nat
        /\ N(store_result_, ResultsOf(F)) \in Nat /\ Cardinality(InWriters(F)) \in Nat
        /\ Cardinality(InRecords(F)) \in Nat
    BY CountsAreNat DEF IInv
  <1>7. CASE PushDns
    <2>1. d = 0
      BY <1>7 DEF PushDns, PushWait, PostsOf, One
    <2>2. WaiterN(F)' = WaiterN(F) /\ DownN(F)' = DownN(F) /\ StoreN(F)' = StoreN(F)
      BY <1>7, SumsStay DEF PushDns
    <2> HIDE DEF d
    <2>3. TotalN(F)' = TotalN(F)
      BY <1>2, <1>3, <1>4, <2>1, <2>2 DEF TotalN
    <2> QED BY <1>3, <1>4, <2>3 DEF Conserved
  <1>8. CASE PushTimed
    <2>1. p.to = "wait" /\ wait_list_' = Append(wait_list_, p.item) /\ UNCHANGED <<timers, ready_list_>>
      BY <1>8 DEF PushTimed, PushWait
    <2>2. d = One(p.item \in RequestsOf(F)) /\ p.item \in Request /\ wait_list_ \in Seq(Request)
      <3>1. p.item \in Request /\ wait_list_ \in Seq(Request)
        BY <1>5, <2>1 DEF IInv, DataOK
      <3>2. p \in PostsOf(F) <=> p.item.res \in F
        BY <1>2, <2>1 DEF PostsOf
      <3>3. p.item \in RequestsOf(F) <=> p.item.res \in F
        BY <3>1 DEF RequestsOf
      <3> HIDE DEF p
      <3> QED BY <3>1, <3>2, <3>3 DEF One
    <2>3. N(wait_list_', RequestsOf(F)) = N(wait_list_, RequestsOf(F)) + d
      BY <2>1, <2>2, PutN
    <2>4. DownN(F)' = DownN(F) /\ StoreN(F)' = StoreN(F) /\ InTimers(F)' = InTimers(F)
      BY <1>8, <2>1, SumsStay, SetsStay DEF PushTimed
    <2> HIDE DEF d
    <2>5. WaiterN(F)' = WaiterN(F) + d
      <3>1. InTimers(F)' = InTimers(F) /\ N(ready_list_', RequestsOf(F)) = N(ready_list_, RequestsOf(F))
        BY <2>1, <2>4
      <3> QED BY ONLY <1>2, <1>6, <2>3, <3>1 DEF WaiterN
    <2>6. TotalN(F)' = TotalN(F)
      BY <1>2, <1>3, <1>4, <2>4, <2>5 DEF TotalN
    <2> QED BY <1>3, <1>4, <2>6 DEF Conserved
  <1>9. CASE PushDown
    <2>1. p.to = "down" /\ http_request_' = Append(http_request_, p.item) /\ UNCHANGED <<conns, http_result_>>
      BY <1>9 DEF PushDown, PushWait
    <2>2. d = One(p.item \in RequestsOf(F)) /\ p.item \in Request /\ http_request_ \in Seq(Request)
      <3>1. p.item \in Request /\ http_request_ \in Seq(Request)
        BY <1>5, <2>1 DEF IInv, DataOK
      <3>2. p \in PostsOf(F) <=> p.item.res \in F
        BY <1>2, <2>1 DEF PostsOf
      <3>3. p.item \in RequestsOf(F) <=> p.item.res \in F
        BY <3>1 DEF RequestsOf
      <3> HIDE DEF p
      <3> QED BY <3>1, <3>2, <3>3 DEF One
    <2>3. N(http_request_', RequestsOf(F)) = N(http_request_, RequestsOf(F)) + d
      BY <2>1, <2>2, PutN
    <2>4. WaiterN(F)' = WaiterN(F) /\ StoreN(F)' = StoreN(F) /\ InConns(F)' = InConns(F)
      BY <1>9, <2>1, SumsStay, SetsStay DEF PushDown
    <2> HIDE DEF d
    <2>5. DownN(F)' = DownN(F) + d
      <3>1. InConns(F)' = InConns(F) /\ N(http_result_', ResultsOf(F)) = N(http_result_, ResultsOf(F))
        BY <2>1, <2>4
      <3> QED BY ONLY <1>2, <1>6, <2>3, <3>1 DEF DownN
    <2>6. TotalN(F)' = TotalN(F)
      BY <1>2, <1>3, <1>4, <2>4, <2>5 DEF TotalN
    <2> QED BY <1>3, <1>4, <2>6 DEF Conserved
  <1>10. CASE PushStore
    <2>1. p.to = "store" /\ store_result_' = Append(store_result_, p.item) /\ UNCHANGED <<storing, written>>
      BY <1>10 DEF PushStore, PushWait
    <2>2. d = One(p.item \in ResultsOf(F)) /\ p.item \in Result /\ store_result_ \in Seq(Result)
      <3>1. p.item \in Result /\ store_result_ \in Seq(Result)
        BY <1>5, <2>1 DEF IInv, DataOK
      <3>2. p \in PostsOf(F) <=> p.item.res \in F
        BY <1>2, <2>1 DEF PostsOf
      <3>3. p.item \in ResultsOf(F) <=> p.item.res \in F
        BY <3>1 DEF ResultsOf
      <3> HIDE DEF p
      <3> QED BY <3>1, <3>2, <3>3 DEF One
    <2>3. N(store_result_', ResultsOf(F)) = N(store_result_, ResultsOf(F)) + d
      BY <2>1, <2>2, PutN
    <2>4. /\ WaiterN(F)' = WaiterN(F) /\ DownN(F)' = DownN(F) /\ InWriters(F)' = InWriters(F)
          /\ InRecords(F)' = InRecords(F)
      BY <1>10, <2>1, SumsStay, SetsStay DEF PushStore
    <2> HIDE DEF d
    <2>5. StoreN(F)' = StoreN(F) + d
      BY ONLY <1>2, <1>6, <2>3, <2>4 DEF StoreN
    <2>6. TotalN(F)' = TotalN(F)
      BY <1>2, <1>3, <1>4, <2>4, <2>5 DEF TotalN
    <2> QED BY <1>3, <1>4, <2>6 DEF Conserved
  <1> QED BY <1>7, <1>8, <1>9, <1>10

\* what touches no container of resources
LEMMA QuietN ==
    ASSUME IInv, NEW F \in SUBSET Res, Finite(F),
           UNCHANGED <<res_list_, siteVars, waitVars, downVars, storeVars>>,
           leaked' = leaked \/ \E d \in DnsEntity : leaked' = leaked \cup {d}
    PROVE  Conserved(F)
  <1>1. InLeaked(F)' = InLeaked(F)
    BY AnswerLeaks, SetsStay
  <1>2. /\ SvcN(F)' = SvcN(F) /\ WaiterN(F)' = WaiterN(F) /\ DownN(F)' = DownN(F)
        /\ StoreN(F)' = StoreN(F) /\ LeakedN(F)' = LeakedN(F)
    BY <1>1, SumsStay DEF LeakedN
  <1>3. Finite(F)'
    BY <1>1, SetsStay DEF Finite, siteVars, waitVars, downVars, storeVars
  <1>4. TotalN(F) \in Nat
    BY SumsAreNat DEF IInv
  <1> QED BY <1>2, <1>3, <1>4 DEF Conserved, TotalN

LEMMA ResolverN ==
    ASSUME IInv, NEW F \in SUBSET Res, Finite(F), NEW t \in Resolver,
           ResolvePop(t) \/ \E answer \in {"OK", "ERROR"} : ResolvePush(t, answer)
    PROVE  Conserved(F)
  <1>1. UNCHANGED <<res_list_, siteVars, waitVars, downVars, storeVars>>
    BY DEF ResolvePop, ResolvePush
  <1>2. leaked' = leaked \/ \E d \in DnsEntity : leaked' = leaked \cup {d}
    <2>1. CASE ResolvePop(t)
      BY <2>1 DEF ResolvePop
    <2>2. ASSUME NEW answer \in {"OK", "ERROR"}, ResolvePush(t, answer)
          PROVE  leaked' = leaked \/ \E d \in DnsEntity : leaked' = leaked \cup {d}
      <3> DEFINE d == [host |-> resolving[t], state |-> answer]
      <3>1. d \in DnsEntity
        BY <2>2 DEF ResolvePush, IInv, DataOK, DnsEntity
      <3>2. leaked' = leaked \cup Dropped(dns_result_, DNS_rslt_queue_size, d)
        BY <2>2 DEF ResolvePush
      <3> HIDE DEF d
      <3> QED BY <3>1, <3>2 DEF Dropped
    <2> QED BY <2>1, <2>2
  <1> QED BY <1>1, <1>2, QuietN

\* what BecomeReady adds, to the queue or to what is lost
LEMMA ReadyN ==
    ASSUME IInv, NEW F \in SUBSET Res, Finite(F), NEW q \in Request, BecomeReady(q)
    PROVE  LET was == N(ready_list_, RequestsOf(F)) + Cardinality(InLeaked(F))
               is  == N(ready_list_', RequestsOf(F)) + Cardinality(InLeaked(F)')
           IN /\ IsFiniteSet(InLeaked(F)') /\ N(ready_list_', RequestsOf(F)) \in Nat
              /\ Cardinality(InLeaked(F)') \in Nat
              /\ is <= was + One(q.res \in F) /\ is >= was /\ is >= One(q.res \in F)
  <1>1. /\ ready_list_ \in Seq(Request) /\ ready_list_' = Pushed(ready_list_, WAITER_rslt_queue_size, q)
        /\ leaked' = leaked \cup Dropped(ready_list_, WAITER_rslt_queue_size, q)
    BY DEF BecomeReady, IInv, DataOK
  <1>2. (q \in RequestsOf(F) <=> Counts(q, F)) /\ (q \in RequestsOf(F) <=> q.res \in F)
    BY Kinds
  <1>3. One(q \in RequestsOf(F)) = One(q.res \in F)
    BY <1>2 DEF One
  <1> QED BY <1>1, <1>2, <1>3, PushedN DEF Finite

LEMMA WaiterStepN ==
    ASSUME IInv, NEW F \in SUBSET Res, Finite(F), WaitPop \/ \E q \in Request : Timeout(q)
    PROVE  Conserved(F)
  <1>1. UNCHANGED <<res_list_, siteVars, downVars, storeVars>>
    BY DEF WaitPop, Timeout
  <1>2. SvcN(F)' = SvcN(F) /\ DownN(F)' = DownN(F) /\ StoreN(F)' = StoreN(F)
    BY <1>1, SumsStay
  <1>3. SvcN(F) \in Nat /\ DownN(F) \in Nat /\ StoreN(F) \in Nat /\ TotalN(F) \in Nat
    BY SumsAreNat DEF IInv
  <1>4. /\ N(wait_list_, RequestsOf(F)) \in Nat /\ Cardinality(InTimers(F)) \in Nat
        /\ N(ready_list_, RequestsOf(F)) \in Nat /\ Cardinality(InLeaked(F)) \in Nat
    BY CountsAreNat DEF IInv
  <1>5. /\ InSiteLists(F)' = InSiteLists(F) /\ InConns(F)' = InConns(F) /\ InWriters(F)' = InWriters(F)
        /\ InRecords(F)' = InRecords(F)
    BY <1>1, SetsStay DEF siteVars, downVars, storeVars
  <1>6. ASSUME /\ IsFiniteSet(InTimers(F)') /\ IsFiniteSet(InLeaked(F)')
               /\ WaiterN(F)' + LeakedN(F)' \in Nat
               /\ WaiterN(F)' + LeakedN(F)' <= WaiterN(F) + LeakedN(F)
               /\ WaiterN(F) + LeakedN(F) >= 1 => WaiterN(F)' + LeakedN(F)' >= 1
               /\ WaiterN(F)' \in Nat /\ LeakedN(F)' \in Nat
        PROVE  Conserved(F)
    <2>1. Finite(F)'
      BY <1>5, <1>6 DEF Finite
    <2>2. WaiterN(F) \in Nat /\ LeakedN(F) \in Nat
      BY SumsAreNat DEF IInv
    <2> QED BY <1>2, <1>3, <1>6, <2>1, <2>2 DEF Conserved, TotalN
  <1>7. CASE WaitPop
    <2> DEFINE q == Head(wait_list_)
               d == One(q.res \in F)
    <2>1. /\ wait_list_ \in Seq(Request) /\ wait_list_ # <<>> /\ wait_list_' = Tail(wait_list_)
          /\ q \in Request
      BY <1>7, SeqTail DEF WaitPop, IInv, DataOK
    <2>2. /\ N(wait_list_, RequestsOf(F)) = N(wait_list_', RequestsOf(F)) + d
          /\ N(wait_list_', RequestsOf(F)) \in Nat /\ d \in {0, 1}
      <3>1. q \in RequestsOf(F) <=> q.res \in F
        BY <2>1, Kinds
      <3> QED BY <2>1, <3>1, PopN DEF One
    <2>3. CASE timers' = timers \cup {q} /\ UNCHANGED <<ready_list_, leaked>>
      <3>1. InTimers(F)' = IF d = 1 THEN InTimers(F) \cup {q} ELSE InTimers(F)
        BY <2>3 DEF InTimers, One
      <3>2. /\ IsFiniteSet(InTimers(F)') /\ Cardinality(InTimers(F)') \in Nat
            /\ Cardinality(InTimers(F)') <= Cardinality(InTimers(F)) + d
            /\ Cardinality(InTimers(F)') >= Cardinality(InTimers(F)) /\ Cardinality(InTimers(F)') >= d
        <4> HIDE DEF q, d
        <4>1. IsFiniteSet(InTimers(F))
          BY DEF Finite
        <4> QED BY <1>4, <2>2, <3>1, <4>1, Gains
      <3>3. InLeaked(F)' = InLeaked(F) /\ ready_list_' = ready_list_
        BY <2>3, SetsStay
      <3> HIDE DEF d, q
      <3>4. /\ WaiterN(F)' <= WaiterN(F) /\ (WaiterN(F) >= 1 => WaiterN(F)' >= 1) /\ WaiterN(F)' \in Nat
            /\ WaiterN(F) \in Nat
        BY <1>4, <2>2, <3>2, <3>3 DEF WaiterN
      <3>5. LeakedN(F)' = LeakedN(F) /\ LeakedN(F) \in Nat /\ IsFiniteSet(InLeaked(F)')
        BY <1>4, <3>3 DEF LeakedN, Finite
      <3> QED BY <1>6, <3>2, <3>4, <3>5
    <2>4. CASE BecomeReady(q) /\ UNCHANGED timers
      <3>1. /\ IsFiniteSet(InLeaked(F)') /\ N(ready_list_', RequestsOf(F)) \in Nat
            /\ Cardinality(InLeaked(F)') \in Nat
            /\ N(ready_list_', RequestsOf(F)) + Cardinality(InLeaked(F)')
                 <= N(ready_list_, RequestsOf(F)) + Cardinality(InLeaked(F)) + d
            /\ N(ready_list_', RequestsOf(F)) + Cardinality(InLeaked(F)')
                 >= N(ready_list_, RequestsOf(F)) + Cardinality(InLeaked(F))
            /\ N(ready_list_', RequestsOf(F)) + Cardinality(InLeaked(F)') >= d
        BY <2>1, <2>4, ReadyN
      <3>2. InTimers(F)' = InTimers(F) /\ IsFiniteSet(InTimers(F)')
        BY <2>4, SetsStay DEF Finite
      <3> HIDE DEF d, q
      <3> QED BY <1>4, <1>6, <2>2, <3>1, <3>2 DEF WaiterN, LeakedN
    <2> QED BY <1>7, <2>3, <2>4 DEF WaitPop
  <1>8. ASSUME NEW q \in Request, Timeout(q) PROVE Conserved(F)
    <2> DEFINE d == One(q.res \in F)
    <2>1. /\ q \in timers /\ timers' = timers \ {q} /\ BecomeReady(q) /\ UNCHANGED wait_list_
      BY <1>8 DEF Timeout
    <2>2. /\ IsFiniteSet(InTimers(F)') /\ Cardinality(InTimers(F)') \in Nat
          /\ Cardinality(InTimers(F)) = Cardinality(InTimers(F)') + d
      <3>1. InTimers(F)' = InTimers(F) \ {q} /\ d = One(q \in InTimers(F))
        BY <2>1 DEF InTimers, One
      <3> HIDE DEF d
      <3> QED BY <3>1, Loses DEF Finite
    <2>3. /\ IsFiniteSet(InLeaked(F)') /\ N(ready_list_', RequestsOf(F)) \in Nat
          /\ Cardinality(InLeaked(F)') \in Nat
          /\ N(ready_list_', RequestsOf(F)) + Cardinality(InLeaked(F)')
               <= N(ready_list_, RequestsOf(F)) + Cardinality(InLeaked(F)) + d
          /\ N(ready_list_', RequestsOf(F)) + Cardinality(InLeaked(F)')
               >= N(ready_list_, RequestsOf(F)) + Cardinality(InLeaked(F))
          /\ N(ready_list_', RequestsOf(F)) + Cardinality(InLeaked(F)') >= d
      BY <2>1, ReadyN
    <2>4. wait_list_' = wait_list_ /\ d \in {0, 1}
      BY <2>1 DEF One
    <2> HIDE DEF d
    <2> QED BY <1>4, <1>6, <2>2, <2>3, <2>4 DEF WaiterN, LeakedN
  <1> QED BY <1>7, <1>8

LEMMA DownloaderN ==
    ASSUME IInv, NEW F \in SUBSET Res, Finite(F),
           \/ DownloadPop
           \/ \E q \in Request, state \in {"OK", "ERROR"} : DownloadEnd(q, state)
    PROVE  Conserved(F)
  <1>1. UNCHANGED <<res_list_, siteVars, waitVars, storeVars>>
    BY DEF DownloadPop, DownloadEnd
  <1>2. SvcN(F)' = SvcN(F) /\ WaiterN(F)' = WaiterN(F) /\ StoreN(F)' = StoreN(F)
    BY <1>1, SumsStay
  <1>3. SvcN(F) \in Nat /\ WaiterN(F) \in Nat /\ StoreN(F) \in Nat /\ TotalN(F) \in Nat
    BY SumsAreNat DEF IInv
  <1>4. /\ N(http_request_, RequestsOf(F)) \in Nat /\ Cardinality(InConns(F)) \in Nat
        /\ N(http_result_, ResultsOf(F)) \in Nat /\ Cardinality(InLeaked(F)) \in Nat
    BY CountsAreNat DEF IInv
  <1>5. /\ InSiteLists(F)' = InSiteLists(F) /\ InTimers(F)' = InTimers(F) /\ InWriters(F)' = InWriters(F)
        /\ InRecords(F)' = InRecords(F)
    BY <1>1, SetsStay DEF siteVars, waitVars, storeVars
  <1>6. ASSUME /\ IsFiniteSet(InConns(F)') /\ IsFiniteSet(InLeaked(F)')
               /\ DownN(F)' + LeakedN(F)' <= DownN(F) + LeakedN(F)
               /\ DownN(F) + LeakedN(F) >= 1 => DownN(F)' + LeakedN(F)' >= 1
               /\ DownN(F)' \in Nat /\ LeakedN(F)' \in Nat
        PROVE  Conserved(F)
    <2>1. Finite(F)'
      BY <1>5, <1>6 DEF Finite
    <2>2. DownN(F) \in Nat /\ LeakedN(F) \in Nat
      BY SumsAreNat DEF IInv
    <2> QED BY <1>2, <1>3, <1>6, <2>1, <2>2 DEF Conserved, TotalN
  <1>7. CASE DownloadPop
    <2> DEFINE q == Head(http_request_)
               d == One(q.res \in F)
    <2>1. /\ http_request_ \in Seq(Request) /\ http_request_ # <<>> /\ http_request_' = Tail(http_request_)
          /\ q \in Request /\ conns' = conns \cup {q} /\ UNCHANGED <<http_result_, leaked>>
      BY <1>7, SeqTail DEF DownloadPop, IInv, DataOK
    <2>2. /\ N(http_request_, RequestsOf(F)) = N(http_request_', RequestsOf(F)) + d
          /\ N(http_request_', RequestsOf(F)) \in Nat /\ d \in {0, 1}
      <3>1. q \in RequestsOf(F) <=> q.res \in F
        BY <2>1, Kinds
      <3> QED BY <2>1, <3>1, PopN DEF One
    <2>3. InConns(F)' = IF d = 1 THEN InConns(F) \cup {q} ELSE InConns(F)
      BY <2>1 DEF InConns, One
    <2>4. /\ IsFiniteSet(InConns(F)') /\ Cardinality(InConns(F)') \in Nat
          /\ Cardinality(InConns(F)') <= Cardinality(InConns(F)) + d
          /\ Cardinality(InConns(F)') >= Cardinality(InConns(F)) /\ Cardinality(InConns(F)') >= d
      <3> HIDE DEF q, d
      <3>1. IsFiniteSet(InConns(F)) /\ d \in {0, 1} /\ Cardinality(InConns(F)) \in Nat
        BY <1>4, <2>2 DEF Finite
      <3>2. /\ IsFiniteSet(InConns(F)') /\ Cardinality(InConns(F)') \in Nat
            /\ Cardinality(InConns(F)') \in Cardinality(InConns(F)) .. (Cardinality(InConns(F)) + d)
            /\ Cardinality(InConns(F)') >= d
        BY <2>3, <3>1, Gains
      <3> QED BY <3>1, <3>2
    <2>5. InLeaked(F)' = InLeaked(F) /\ http_result_' = http_result_
      BY <2>1, SetsStay
    <2> HIDE DEF d, q
    <2>6. /\ DownN(F)' <= DownN(F) /\ (DownN(F) >= 1 => DownN(F)' >= 1) /\ DownN(F)' \in Nat
          /\ DownN(F) \in Nat
      BY <1>4, <2>2, <2>4, <2>5 DEF DownN
    <2>7. LeakedN(F)' = LeakedN(F) /\ LeakedN(F) \in Nat /\ IsFiniteSet(InLeaked(F)')
      BY <1>4, <2>5 DEF LeakedN, Finite
    <2> QED BY <1>6, <2>4, <2>6, <2>7
  <1>8. ASSUME NEW q \in Request, NEW state \in {"OK", "ERROR"}, DownloadEnd(q, state)
        PROVE  Conserved(F)
    <2> DEFINE x == [res |-> q.res, site |-> q.site, state |-> state, rqst |-> TRUE]
               d == One(q.res \in F)
    <2>1. /\ q \in conns /\ conns' = conns \ {q} /\ UNCHANGED http_request_
          /\ http_result_' = Pushed(http_result_, DOWN_rslt_queue_size, x)
          /\ leaked' = leaked \cup Dropped(http_result_, DOWN_rslt_queue_size, x)
      BY <1>8 DEF DownloadEnd
    <2>2. /\ IsFiniteSet(InConns(F)') /\ Cardinality(InConns(F)') \in Nat
          /\ Cardinality(InConns(F)) = Cardinality(InConns(F)') + d
      <3>1. InConns(F)' = InConns(F) \ {q} /\ d = One(q \in InConns(F))
        BY <2>1 DEF InConns, One
      <3> HIDE DEF d
      <3> QED BY <3>1, Loses DEF Finite
    <2>3. x \in Result /\ http_result_ \in Seq(Result) /\ x.res = q.res
      BY DEF Request, Result, IInv, DataOK
    <2> HIDE DEF x
    <2>4. /\ (x \in ResultsOf(F) <=> Counts(x, F)) /\ One(x \in ResultsOf(F)) = d
      <3>1. (Counts(x, F) <=> x.res \in F) /\ (x \in ResultsOf(F) <=> x.res \in F)
        BY <2>3, Kinds
      <3> QED BY <2>3, <3>1 DEF One
    <2>5. /\ IsFiniteSet(InLeaked(F)') /\ N(http_result_', ResultsOf(F)) \in Nat
          /\ Cardinality(InLeaked(F)') \in Nat
          /\ N(http_result_', ResultsOf(F)) + Cardinality(InLeaked(F)')
               <= N(http_result_, ResultsOf(F)) + Cardinality(InLeaked(F)) + d
          /\ N(http_result_', ResultsOf(F)) + Cardinality(InLeaked(F)')
               >= N(http_result_, ResultsOf(F)) + Cardinality(InLeaked(F))
          /\ N(http_result_', ResultsOf(F)) + Cardinality(InLeaked(F)') >= d
      <3> HIDE DEF d
      <3> QED BY <2>1, <2>3, <2>4, PushedN DEF Finite
    <2>6. http_request_' = http_request_ /\ d \in {0, 1}
      BY <2>1 DEF One
    <2> HIDE DEF d
    <2> QED BY <1>4, <1>6, <2>2, <2>5, <2>6 DEF DownN, LeakedN
  <1> QED BY <1>7, <1>8

\* the records of the written resource grow by one
LEMMA RecordsN ==
    ASSUME DataOK, NEW F \in SUBSET Res, IsFiniteSet(InRecords(F)), NEW r \in Res, NEW a,
           written' = [written EXCEPT ![r] = Append(@, a)]
    PROVE  /\ IsFiniteSet(InRecords(F)')
           /\ Cardinality(InRecords(F)') = Cardinality(InRecords(F)) + One(r \in F)
  <1> DEFINE x == <<r, Len(written[r]) + 1>>
             d == One(r \in F)
  <1>1. written[r] \in Seq({"OK", "ERROR"}) /\ Len(written[r]) \in Nat
    BY DEF DataOK
  <1>2. DOMAIN written[r] = 1..Len(written[r]) /\ DOMAIN Append(written[r], a) = 1..(Len(written[r]) + 1)
    BY <1>1
  <1>3. written'[r] = Append(written[r], a) /\ \A s \in Res : s # r => written'[s] = written[s]
    BY DEF DataOK
  <1>4. x \notin InRecords(F)
    BY <1>1, <1>2 DEF InRecords
  <1>5. DOMAIN written'[r] = DOMAIN written[r] \cup {x[2]} /\ x[1] = r /\ x[2] \in Nat
    BY <1>1, <1>2, <1>3
  <1>6. \A s \in F : s # r => DOMAIN written'[s] = DOMAIN written[s]
    BY <1>3
  <1>7. InRecords(F)' = IF d = 1 THEN InRecords(F) \cup {x} ELSE InRecords(F)
    <2>1. x = <<r, x[2]>> /\ (d = 1 <=> r \in F)
      BY DEF One
    <2> HIDE DEF x, d
    <2> QED BY <1>5, <1>6, <2>1 DEF InRecords
  <1>8. d \in {0, 1}
    BY DEF One
  <1> HIDE DEF x, d
  <1>9. IsFiniteSet(InRecords(F)') /\ Cardinality(InRecords(F)') = Cardinality(InRecords(F)) + d
    BY <1>4, <1>7, <1>8, Gains
  <1> QED BY <1>9 DEF d

LEMMA WriterN ==
    ASSUME IInv, NEW F \in SUBSET Res, Finite(F), NEW t \in Writer, StorePop(t) \/ StoreWrite(t)
    PROVE  Conserved(F)
  <1>1. UNCHANGED <<res_list_, siteVars, waitVars, downVars, leaked>>
    BY DEF StorePop, StoreWrite
  <1>2. /\ SvcN(F)' = SvcN(F) /\ WaiterN(F)' = WaiterN(F) /\ DownN(F)' = DownN(F)
        /\ LeakedN(F)' = LeakedN(F)
    BY <1>1, SumsStay
  <1>3. TotalN(F) \in Nat
    BY SumsAreNat DEF IInv
  <1>4. /\ N(store_result_, ResultsOf(F)) \in Nat /\ Cardinality(InWriters(F)) \in Nat
        /\ Cardinality(InRecords(F)) \in Nat
    BY CountsAreNat DEF IInv
  <1>5. /\ InSiteLists(F)' = InSiteLists(F) /\ InTimers(F)' = InTimers(F) /\ InConns(F)' = InConns(F)
        /\ InLeaked(F)' = InLeaked(F)
    BY <1>1, SetsStay DEF siteVars, waitVars, downVars
  <1>6. ASSUME IsFiniteSet(InWriters(F)'), IsFiniteSet(InRecords(F)'), StoreN(F)' = StoreN(F)
        PROVE  Conserved(F)
    <2>1. Finite(F)'
      BY <1>5, <1>6 DEF Finite
    <2>2. TotalN(F)' = TotalN(F)
      BY <1>2, <1>6 DEF TotalN
    <2> QED BY <1>3, <2>1, <2>2 DEF Conserved
  <1>7. CASE StorePop(t)
    <2> DEFINE x == Head(store_result_)
               d == One(x.res \in F)
    <2>1. /\ store_result_ \in Seq(Result) /\ store_result_ # <<>> /\ store_result_' = Tail(store_result_)
          /\ x \in Result /\ x # Idle /\ storing[t] = Idle /\ storing' = [storing EXCEPT ![t] = x]
          /\ storing \in [Writer -> Result \cup {Idle}] /\ UNCHANGED written
      BY <1>7, SeqTail, KindAssumption DEF StorePop, IInv, DataOK
    <2>2. /\ N(store_result_, ResultsOf(F)) = N(store_result_', ResultsOf(F)) + d
          /\ N(store_result_', ResultsOf(F)) \in Nat /\ d \in {0, 1}
      <3>1. x \in ResultsOf(F) <=> x.res \in F
        BY <2>1, Kinds
      <3> QED BY <2>1, <3>1, PopN DEF One
    <2>3. InWriters(F)' = IF d = 1 THEN InWriters(F) \cup {t} ELSE InWriters(F)
      <3>1. storing'[t] = x /\ \A u \in Writer : u # t => storing'[u] = storing[u]
        BY <2>1
      <3>2. d = 1 <=> x.res \in F
        BY DEF One
      <3> HIDE DEF x, d
      <3> QED BY <2>1, <3>1, <3>2 DEF InWriters
    <2>4. t \notin InWriters(F)
      BY <2>1 DEF InWriters
    <2>5. InRecords(F)' = InRecords(F) /\ IsFiniteSet(InRecords(F)') /\ IsFiniteSet(InWriters(F))
      BY <2>1, SetsStay DEF Finite
    <2> HIDE DEF x, d
    <2>6. IsFiniteSet(InWriters(F)') /\ Cardinality(InWriters(F)') = Cardinality(InWriters(F)) + d
      BY <2>2, <2>3, <2>4, <2>5, Gains
    <2>7. StoreN(F)' = StoreN(F)
      BY <1>4, <2>2, <2>5, <2>6 DEF StoreN
    <2> QED BY <1>6, <2>5, <2>6, <2>7
  <1>8. CASE StoreWrite(t)
    <2> DEFINE x == storing[t]
               d == One(x.res \in F)
    <2>1. /\ x \in Result /\ x # Idle /\ x.res \in Res /\ storing' = [storing EXCEPT ![t] = Idle]
          /\ storing \in [Writer -> Result \cup {Idle}] /\ UNCHANGED store_result_
          /\ written' = [written EXCEPT ![x.res] = Append(@, x.state)]
      BY <1>8 DEF StoreWrite, IInv, DataOK, Result
    <2>2. InWriters(F)' = InWriters(F) \ {t} /\ d = One(t \in InWriters(F))
      <3>1. storing'[t] = Idle /\ \A u \in Writer : u # t => storing'[u] = storing[u]
        BY <2>1
      <3>2. t \in InWriters(F) <=> x.res \in F
        BY <2>1 DEF InWriters
      <3>3. InWriters(F)' = InWriters(F) \ {t}
        BY <3>1 DEF InWriters
      <3> QED BY <3>2, <3>3 DEF One
    <2>3. /\ IsFiniteSet(InRecords(F)')
          /\ Cardinality(InRecords(F)') = Cardinality(InRecords(F)) + d
      <3> HIDE DEF x
      <3> QED BY <2>1, RecordsN DEF IInv, Finite
    <2> HIDE DEF x, d
    <2>4. /\ IsFiniteSet(InWriters(F)') /\ Cardinality(InWriters(F)') \in Nat
          /\ Cardinality(InWriters(F)) = Cardinality(InWriters(F)') + d
      BY <2>2, Loses DEF Finite
    <2>5. d \in Nat
      BY DEF d, One
    <2>6. StoreN(F)' = StoreN(F)
      BY <1>4, <2>1, <2>3, <2>4, <2>5 DEF StoreN
    <2> QED BY <1>6, <2>3, <2>4, <2>6
  <1> QED BY <1>7, <1>8

LEMMA LoopN ==
    ASSUME IInv, NEW F \in SUBSET Res, Finite(F),
           EndRes \/ EndDns \/ EndReady \/ EndResult \/ UNCHANGED vars
    PROVE  Conserved(F)
  <1>1. UNCHANGED <<res_list_, siteVars, waitVars, downVars, storeVars, leaked>>
    BY DEF EndRes, EndDns, EndReady, EndResult, NextLoop, vars
  <1> QED BY <1>1, QuietN

\* a resource that is submitted is there once more
LEMMA SubmitN ==
    ASSUME IInv, NEW F \in SUBSET Res, Finite(F), NEW r \in Res, Submit(r)
    PROVE  Finite(F)' /\ TotalN(F)' = TotalN(F) + One(r \in F)
  <1>1. /\ res_list_' = Append(res_list_, r) /\ res_list_ \in Seq(Res)
        /\ UNCHANGED <<siteVars, waitVars, downVars, storeVars, leaked>>
    BY DEF Submit, IInv, DataOK
  <1>2. /\ WaiterN(F)' = WaiterN(F) /\ DownN(F)' = DownN(F) /\ StoreN(F)' = StoreN(F)
        /\ LeakedN(F)' = LeakedN(F)
    BY <1>1, SumsStay
  <1>3. Finite(F)' /\ InSiteLists(F)' = InSiteLists(F) /\ outbox' = outbox
    BY <1>1, SetsStay DEF Finite, siteVars, waitVars, downVars, storeVars
  <1>4. /\ WaiterN(F) \in Nat /\ DownN(F) \in Nat /\ StoreN(F) \in Nat /\ LeakedN(F) \in Nat
        /\ SvcN(F) \in Nat
    BY SumsAreNat DEF IInv
  <1>5. /\ N(res_list_, F) \in Nat /\ Cardinality(InSiteLists(F)) \in Nat /\ N(outbox, PostsOf(F)) \in Nat
    BY CountsAreNat DEF IInv
  <1>6. N(res_list_', F) = N(res_list_, F) + One(r \in F) /\ One(r \in F) \in Nat
    BY <1>1, PutN
  <1>7. SvcN(F)' = SvcN(F) + One(r \in F)
    BY <1>3, <1>5, <1>6 DEF SvcN
  <1> QED BY <1>2, <1>3, <1>4, <1>6, <1>7 DEF TotalN

\* every step but submit's
LEMMA StepN ==
    ASSUME IInv, NEW F \in SUBSET Res, Finite(F), [Next]_vars, ~\E r \in Res : Submit(r)
    PROVE  Conserved(F)
  BY ResTurnN, DnsTurnN, ReadyTurnN, ResultTurnN, LoopN, PushN, ResolverN, WaiterStepN, DownloaderN, WriterN
  DEF Next, Scheduler

-----------------------------------------------------------------------------
(* EachResOnce                                                             *)

\* a resource is counted once from submit on; an assert may lose it
OnceInv ==
    \A r \in Res : /\ Finite({r})
                   /\ TotalN({r}) <= One(r \in accepted)
                   /\ Alive => TotalN({r}) >= One(r \in accepted)

LEMMA FreshN ==
    ASSUME NEW p, Fresh(p), NEW F \in SUBSET Res
    PROVE  Finite(F) /\ TotalN(F) = 0
  <1>1. /\ InSiteLists(F) = {} /\ InTimers(F) = {} /\ InConns(F) = {} /\ InWriters(F) = {}
        /\ InLeaked(F) = {} /\ InRecords(F) = {}
    BY DEF Fresh, InSiteLists, IsSite, InTimers, InConns, InWriters, InLeaked, InRecords
  <1>2. IsFiniteSet({}) /\ Cardinality({}) = 0
    BY FS_EmptySet
  <1>3. Finite(F)
    BY <1>1, <1>2 DEF Finite
  <1>4. /\ N(res_list_, F) = 0 /\ N(outbox, PostsOf(F)) = 0 /\ N(wait_list_, RequestsOf(F)) = 0
        /\ N(ready_list_, RequestsOf(F)) = 0 /\ N(http_request_, RequestsOf(F)) = 0
        /\ N(http_result_, ResultsOf(F)) = 0 /\ N(store_result_, ResultsOf(F)) = 0
    BY NoneAt DEF Fresh
  <1>5. TotalN(F) = 0
    BY <1>1, <1>2, <1>4 DEF TotalN, SvcN, WaiterN, DownN, StoreN, LeakedN
  <1> QED BY <1>3, <1>5

LEMMA InitOnce == ASSUME Init PROVE OnceInv
  <1>1. \A r \in Res : Finite({r}) /\ TotalN({r}) = 0
    BY FreshN DEF Init
  <1>2. \A r \in Res : One(r \in accepted) = 0
    BY DEF Init, Fresh, One
  <1> QED BY <1>1, <1>2 DEF OnceInv

LEMMA PrimedSums == ASSUME DataOK', NEW F, Finite(F)' PROVE TotalN(F)' \in Nat
  <1>1. (DataOK /\ Finite(F) => TotalN(F) \in Nat)'
    BY SumsAreNat, PTL
  <1> QED BY <1>1

LEMMA StepOnce == ASSUME IInv, OnceInv, [Next]_vars PROVE OnceInv'
  <1>1. Alive' => Alive
    <2>1. CASE Next
      BY <2>1 DEF Next, Scheduler, Submit, ResTurn, DnsTurn, ReadyTurn, ResultTurn, EndRes, EndDns, EndReady,
         EndResult, NextLoop, PushDns, PushTimed, PushDown, PushStore, PushWait, Turning, Alive, ResolvePop,
         ResolvePush, WaitPop, Timeout, DownloadPop, DownloadEnd, StorePop, StoreWrite
    <2>2. CASE UNCHANGED vars
      BY <2>2 DEF vars, loopVars, Alive
    <2> QED BY <2>1, <2>2
  <1>2. SUFFICES ASSUME NEW r \in Res
        PROVE  /\ Finite({r})' /\ TotalN({r})' <= One(r \in accepted')
               /\ Alive' => TotalN({r})' >= One(r \in accepted')
    BY DEF OnceInv
  <1>3. /\ Finite({r}) /\ TotalN({r}) <= One(r \in accepted) /\ (Alive => TotalN({r}) >= One(r \in accepted))
        /\ {r} \in SUBSET Res
    BY DEF OnceInv
  <1>4. TotalN({r}) \in Nat /\ One(r \in accepted) \in {0, 1}
    BY <1>3, SumsAreNat, OneIs DEF IInv
  <1>5. CASE \E s \in Res : Submit(s)
    <2>1. PICK s \in Res : Submit(s)
      BY <1>5
    <2>2. Finite({r})' /\ TotalN({r})' = TotalN({r}) + One(s \in {r})
      BY <1>3, <2>1, SubmitN
    <2>3. Alive /\ s \notin accepted /\ accepted' = accepted \cup {s}
      BY <2>1 DEF Submit
    <2>4. One(r \in accepted') = One(r \in accepted) + One(s \in {r}) /\ One(s \in {r}) \in {0, 1}
      BY <2>3 DEF One
    <2> QED BY <1>3, <1>4, <2>2, <2>3, <2>4
  <1>6. CASE ~\E s \in Res : Submit(s)
    <2>1. Conserved({r})
      BY <1>3, <1>6, StepN
    <2>2. accepted' = accepted
      BY <1>6 DEF Next, Scheduler, ResTurn, DnsTurn, ReadyTurn, ResultTurn, EndRes, EndDns, EndReady,
         EndResult, NextLoop, PushDns, PushTimed, PushDown, PushStore, PushWait, ResolvePop,
         ResolvePush, WaitPop, Timeout, DownloadPop, DownloadEnd, StorePop, StoreWrite, vars
    <2>3. Finite({r})'
      BY <2>1 DEF Conserved
    <2>4. TotalN({r})' \in Nat
      <3>1. DataOK'
        BY StepInv DEF IInv
      <3> QED BY <2>3, <3>1, PrimedSums
    <2>5. TotalN({r})' <= TotalN({r}) /\ (Alive' /\ TotalN({r}) >= 1 => TotalN({r})' >= 1)
      BY <2>1 DEF Conserved
    <2> QED BY <1>1, <1>3, <1>4, <2>2, <2>3, <2>4, <2>5
  <1> QED BY <1>5, <1>6

\* the places the property names, and those that are counted
PlacesOf(name, q, X) == {p \in Places(name, q) : p[3] \in X}

LEMMA PlacesN ==
    ASSUME NEW S, NEW q \in Seq(S), NEW X, NEW name
    PROVE  /\ IsFiniteSet(PlacesOf(name, q, X)) /\ Cardinality(PlacesOf(name, q, X)) = N(q, X)
           /\ \A p \in PlacesOf(name, q, X) : p[1] = name
  <1> DEFINE P == PlacesOf(name, q, X)
             f == [i \in At(q, X) |-> <<name, i, q[i]>>]
  <1>1. f \in [At(q, X) -> P]
    BY DEF At, Places, PlacesOf
  <1>2. \A x, y \in At(q, X) : f[x] = f[y] => x = y
    OBVIOUS
  <1>3. \A z \in P : \E x \in At(q, X) : f[x] = z
    <2>1. ASSUME NEW z \in P PROVE \E x \in At(q, X) : f[x] = z
      <3>1. PICK i \in DOMAIN q : z = <<name, i, q[i]>> /\ q[i] \in X
        BY DEF Places, PlacesOf
      <3>2. i \in At(q, X)
        BY <3>1 DEF At
      <3> QED BY <3>1, <3>2
    <2> QED BY <2>1
  <1>4. IsFiniteSet(At(q, X))
    BY AtFinite
  <1>5. \A p \in P : p[1] = name
    BY DEF Places, PlacesOf
  <1> HIDE DEF f, P
  <1>6. IsFiniteSet(P) /\ Cardinality(P) = N(q, X)
    BY <1>1, <1>2, <1>3, <1>4, Renamed DEF N
  <1> QED BY <1>5, <1>6 DEF P

LEMMA InSitesN ==
    ASSUME DataOK, NEW r \in Res, NEW F, F = {r}, IsFiniteSet(InSiteLists(F))
    PROVE  /\ IsFiniteSet(InSites(r)) /\ Cardinality(InSites(r)) = Cardinality(InSiteLists(F))
           /\ \A p \in InSites(r) : p[1] = "site"
  <1> DEFINE f == [p \in InSiteLists(F) |-> <<"site", p[1], p[2]>>]
  <1>1. f \in [InSiteLists(F) -> InSites(r)]
    <2>1. ASSUME NEW p \in InSiteLists(F) PROVE <<"site", p[1], p[2]>> \in InSites(r)
      BY DEF InSiteLists, InSites, At
    <2> QED BY <2>1
  <1>2. \A x, y \in InSiteLists(F) : f[x] = f[y] => x = y
    <2>1. \A x \in InSiteLists(F) : x = <<x[1], x[2]>>
      BY DEF InSiteLists
    <2> QED BY <2>1
  <1>3. \A z \in InSites(r) : \E x \in InSiteLists(F) : f[x] = z
    <2>1. ASSUME NEW z \in InSites(r) PROVE \E x \in InSiteLists(F) : f[x] = z
      <3>0. PICK k \in Site :
              IsSite(k) /\ \E i \in DOMAIN sites_map_[k].res_list_ :
                              sites_map_[k].res_list_[i] = r /\ z = <<"site", k, i>>
        BY DEF InSites
      <3>1. PICK i \in DOMAIN sites_map_[k].res_list_ :
              IsSite(k) /\ sites_map_[k].res_list_[i] = r /\ z = <<"site", k, i>>
        BY <3>0
      <3>2. i \in Nat
        <4>1. sites_map_[k].res_list_ \in Seq(Res)
          BY <3>1 DEF DataOK, IsSite, Website
        <4>2. DOMAIN sites_map_[k].res_list_ = 1..Len(sites_map_[k].res_list_)
          BY <4>1
        <4> QED BY <4>2
      <3>3. <<k, i>> \in InSiteLists(F)
        BY <3>1, <3>2 DEF InSiteLists, At
      <3> QED BY <3>1, <3>3
    <2> QED BY <2>1
  <1>4. \A p \in InSites(r) : p[1] = "site"
    BY DEF InSites
  <1> HIDE DEF f
  <1>5. IsFiniteSet(InSites(r)) /\ Cardinality(InSites(r)) = Cardinality(InSiteLists(F))
    <2>1. IsFiniteSet(InSiteLists(F))
      OBVIOUS
    <2> QED BY ONLY <2>1, <1>1, <1>2, <1>3, Renamed
  <1> QED BY <1>4, <1>5

\* a set whose members each stand in a triple
LEMMA TriplesN ==
    ASSUME NEW S, IsFiniteSet(S), NEW name, NEW P, P = {<<name, 0, q>> : q \in S}
    PROVE  IsFiniteSet(P) /\ Cardinality(P) = Cardinality(S) /\ (\A p \in P : p[1] = name)
  <1> DEFINE f == [q \in S |-> <<name, 0, q>>]
  <1>1. f \in [S -> P] /\ (\A x, y \in S : f[x] = f[y] => x = y) /\ (\A p \in P : p[1] = name)
    OBVIOUS
  <1>2. \A z \in P : \E x \in S : f[x] = z
    OBVIOUS
  <1> HIDE DEF f
  <1> QED BY <1>1, <1>2, Renamed

LEMMA RecordsAre ==
    ASSUME DataOK, NEW r \in Res, NEW F, F = {r}
    PROVE  Len(written[r]) = Cardinality(InRecords(F)) /\ Len(written[r]) \in Nat
  <1> DEFINE I == 1..Len(written[r])
             f == [i \in I |-> <<r, i>>]
  <1>1. written[r] \in Seq({"OK", "ERROR"})
    BY DEF DataOK
  <1>2. Len(written[r]) \in Nat /\ DOMAIN written[r] = I
    BY <1>1
  <1>3. f \in [I -> InRecords(F)] /\ \A x, y \in I : f[x] = f[y] => x = y
    BY <1>2 DEF InRecords
  <1>4. \A z \in InRecords(F) : \E x \in I : f[x] = z
    <2>1. ASSUME NEW z \in InRecords(F) PROVE \E x \in I : f[x] = z
      <3>1. z = <<r, z[2]>> /\ z[2] \in I
        BY <1>2 DEF InRecords
      <3> QED BY <3>1
    <2> QED BY <2>1
  <1>5. IsFiniteSet(I) /\ Cardinality(I) = Len(written[r])
    BY <1>2, FS_Interval
  <1> HIDE DEF f, I
  <1>6. Cardinality(InRecords(F)) = Cardinality(I)
    BY <1>3, <1>4, <1>5, Renamed
  <1> QED BY <1>2, <1>5, <1>6

LEMMA OwnersN ==
    ASSUME DataOK, NEW r \in Res, NEW F, F = {r}, Finite(F)
    PROVE  Cardinality(Owners(r)) + Cardinality(LeakedRes(r)) + Len(written[r]) = TotalN(F)
  <1> DEFINE A1 == PlacesOf("list", res_list_, F)
             A2 == InSites(r)
             A3 == PlacesOf("outbox", outbox, PostsOf(F))
             A4 == PlacesOf("wait", wait_list_, RequestsOf(F))
             A5 == {<<"timer", 0, q>> : q \in InTimers(F)}
             A6 == PlacesOf("ready", ready_list_, RequestsOf(F))
             A7 == PlacesOf("request", http_request_, RequestsOf(F))
             A8 == {<<"conn", 0, q>> : q \in InConns(F)}
             A9 == PlacesOf("result", http_result_, ResultsOf(F))
             A10 == PlacesOf("store", store_result_, ResultsOf(F))
             A11 == {<<"writer", t, storing[t]>> : t \in InWriters(F)}
  <1>1. /\ IsFiniteSet(A1) /\ Cardinality(A1) = N(res_list_, F) /\ \A p \in A1 : p[1] = "list"
        /\ IsFiniteSet(A2) /\ Cardinality(A2) = Cardinality(InSiteLists(F)) /\ \A p \in A2 : p[1] = "site"
        /\ IsFiniteSet(A3) /\ Cardinality(A3) = N(outbox, PostsOf(F)) /\ \A p \in A3 : p[1] = "outbox"
    <2>1. res_list_ \in Seq(Res) /\ outbox \in Seq(Post)
      BY DEF DataOK
    <2>2. IsFiniteSet(A1) /\ Cardinality(A1) = N(res_list_, F) /\ \A p \in A1 : p[1] = "list"
      BY <2>1, PlacesN
    <2>3. IsFiniteSet(A3) /\ Cardinality(A3) = N(outbox, PostsOf(F)) /\ \A p \in A3 : p[1] = "outbox"
      BY <2>1, PlacesN
    <2>4. IsFiniteSet(A2) /\ Cardinality(A2) = Cardinality(InSiteLists(F)) /\ \A p \in A2 : p[1] = "site"
      BY InSitesN DEF Finite
    <2> QED BY <2>2, <2>3, <2>4
  <1>2. /\ IsFiniteSet(A4) /\ Cardinality(A4) = N(wait_list_, RequestsOf(F)) /\ \A p \in A4 : p[1] = "wait"
        /\ IsFiniteSet(A5) /\ Cardinality(A5) = Cardinality(InTimers(F)) /\ \A p \in A5 : p[1] = "timer"
        /\ IsFiniteSet(A6) /\ Cardinality(A6) = N(ready_list_, RequestsOf(F)) /\ \A p \in A6 : p[1] = "ready"
    <2>1. wait_list_ \in Seq(Request) /\ ready_list_ \in Seq(Request)
      BY DEF DataOK
    <2>2. IsFiniteSet(A4) /\ Cardinality(A4) = N(wait_list_, RequestsOf(F)) /\ \A p \in A4 : p[1] = "wait"
      BY <2>1, PlacesN
    <2>3. IsFiniteSet(A6) /\ Cardinality(A6) = N(ready_list_, RequestsOf(F)) /\ \A p \in A6 : p[1] = "ready"
      BY <2>1, PlacesN
    <2>4. IsFiniteSet(A5) /\ Cardinality(A5) = Cardinality(InTimers(F)) /\ \A p \in A5 : p[1] = "timer"
      BY TriplesN DEF Finite
    <2> QED BY <2>2, <2>3, <2>4
  <1>3. /\ IsFiniteSet(A7) /\ Cardinality(A7) = N(http_request_, RequestsOf(F)) /\ \A p \in A7 : p[1] = "request"
        /\ IsFiniteSet(A8) /\ Cardinality(A8) = Cardinality(InConns(F)) /\ \A p \in A8 : p[1] = "conn"
        /\ IsFiniteSet(A9) /\ Cardinality(A9) = N(http_result_, ResultsOf(F)) /\ \A p \in A9 : p[1] = "result"
    <2>1. http_request_ \in Seq(Request) /\ http_result_ \in Seq(Result)
      BY DEF DataOK
    <2>2. IsFiniteSet(A7) /\ Cardinality(A7) = N(http_request_, RequestsOf(F)) /\ \A p \in A7 : p[1] = "request"
      BY <2>1, PlacesN
    <2>3. IsFiniteSet(A9) /\ Cardinality(A9) = N(http_result_, ResultsOf(F)) /\ \A p \in A9 : p[1] = "result"
      BY <2>1, PlacesN
    <2>4. IsFiniteSet(A8) /\ Cardinality(A8) = Cardinality(InConns(F)) /\ \A p \in A8 : p[1] = "conn"
      BY TriplesN DEF Finite
    <2> QED BY <2>2, <2>3, <2>4
  <1>4. /\ IsFiniteSet(A10) /\ Cardinality(A10) = N(store_result_, ResultsOf(F)) /\ \A p \in A10 : p[1] = "store"
        /\ IsFiniteSet(A11) /\ Cardinality(A11) = Cardinality(InWriters(F)) /\ \A p \in A11 : p[1] = "writer"
    <2>1. IsFiniteSet(A10) /\ Cardinality(A10) = N(store_result_, ResultsOf(F)) /\ \A p \in A10 : p[1] = "store"
      BY PlacesN DEF DataOK
    <2>2. IsFiniteSet(A11) /\ Cardinality(A11) = Cardinality(InWriters(F)) /\ \A p \in A11 : p[1] = "writer"
      <3> DEFINE S == InWriters(F)
                 f == [t \in S |-> <<"writer", t, storing[t]>>]
      <3>1. f \in [S -> A11]
        OBVIOUS
      <3>2. \A x, y \in S : f[x] = f[y] => x = y
        OBVIOUS
      <3>3. \A z \in A11 : \E x \in S : f[x] = z
        OBVIOUS
      <3>4. IsFiniteSet(S)
        BY DEF Finite
      <3>5. \A p \in A11 : p[1] = "writer"
        OBVIOUS
      <3> HIDE DEF f, A11, S
      <3>6. IsFiniteSet(A11) /\ Cardinality(A11) = Cardinality(S)
        BY <3>1, <3>2, <3>3, <3>4, Renamed
      <3> QED BY <3>5, <3>6 DEF S
    <2> QED BY <2>1, <2>2
  <1>5. Owners(r) = A1 \cup A2 \cup A3 \cup A4 \cup A5 \cup A6 \cup A7 \cup A8 \cup A9 \cup A10 \cup A11
    <2>1. A1 = {p \in Places("list", res_list_) : p[3] = r}
      BY DEF PlacesOf
    <2>2. A3 = {p \in Posted("wait") \cup Posted("down") \cup Posted("store") : p[3].item.res = r}
      <3>1. ASSUME NEW p \in Places("outbox", outbox)
            PROVE  p[3] \in PostsOf(F) <=> p[3].to \in {"wait", "down", "store"} /\ p[3].item.res = r
        <4>1. p[3] \in Post
          <5>1. PICK i \in DOMAIN outbox : p = <<"outbox", i, outbox[i]>>
            BY DEF Places
          <5>2. outbox \in Seq(Post)
            BY DEF DataOK
          <5>3. outbox[i] \in Post
            BY <5>2
          <5> QED BY <5>1, <5>3
        <4>2. p[3].to \in {"dns", "wait", "down", "store"}
          BY <4>1 DEF Post
        <4> QED BY <4>1, <4>2 DEF PostsOf
      <3> QED BY <3>1 DEF Posted, PlacesOf
    <2>3. ASSUME NEW name, NEW q \in Seq(Request)
          PROVE  PlacesOf(name, q, RequestsOf(F)) = {p \in Places(name, q) : p[3].res = r}
      <3>1. \A i \in DOMAIN q : q[i] \in Request
        OBVIOUS
      <3>2. \A p \in Places(name, q) : p[3] \in Request
        BY <3>1 DEF Places
      <3> QED BY <3>2 DEF RequestsOf, PlacesOf
    <2>4. ASSUME NEW name, NEW q \in Seq(Result)
          PROVE  PlacesOf(name, q, ResultsOf(F)) = {p \in Places(name, q) : p[3].res = r}
      <3>1. \A i \in DOMAIN q : q[i] \in Result
        OBVIOUS
      <3>2. \A p \in Places(name, q) : p[3] \in Result
        BY <3>1 DEF Places
      <3> QED BY <3>2 DEF ResultsOf, PlacesOf
    <2>5. /\ A4 = {p \in Places("wait", wait_list_) : p[3].res = r}
          /\ A6 = {p \in Places("ready", ready_list_) : p[3].res = r}
          /\ A7 = {p \in Places("request", http_request_) : p[3].res = r}
          /\ A9 = {p \in Places("result", http_result_) : p[3].res = r}
          /\ A10 = {p \in Places("store", store_result_) : p[3].res = r}
      BY <2>3, <2>4 DEF DataOK
    <2>6. /\ A5 = {p \in {<<"timer", 0, q>> : q \in timers} : p[3].res = r}
          /\ A8 = {p \in {<<"conn", 0, q>> : q \in conns} : p[3].res = r}
      BY DEF InTimers, InConns
    <2>7. A11 = {p \in {<<"writer", t, storing[t]>> : t \in {t \in Writer : storing[t] # Idle}} : p[3].res = r}
      BY DEF InWriters
    <2> HIDE DEF A1, A2, A3, A4, A5, A6, A7, A8, A9, A10, A11
    <2>8. A2 = InSites(r)
      BY DEF A2
    <2> QED BY <2>1, <2>2, <2>5, <2>6, <2>7, <2>8 DEF Owners
  <1>6. LeakedRes(r) = InLeaked(F) /\ Cardinality(InLeaked(F)) \in Nat
    BY FS_CardinalityType DEF LeakedRes, InLeaked, Finite
  <1>7. Len(written[r]) = Cardinality(InRecords(F)) /\ Len(written[r]) \in Nat
    BY RecordsAre
  <1> HIDE DEF A1, A2, A3, A4, A5, A6, A7, A8, A9, A10, A11
  <1> DEFINE U2 == A1 \cup A2
             U3 == U2 \cup A3
             U4 == U3 \cup A4
             U5 == U4 \cup A5
             U6 == U5 \cup A6
             U7 == U6 \cup A7
             U8 == U7 \cup A8
             U9 == U8 \cup A9
             U10 == U9 \cup A10
             U11 == U10 \cup A11
  <1>8. /\ IsFiniteSet(U2) /\ Cardinality(U2) = Cardinality(A1) + Cardinality(A2)
        /\ Cardinality(A1) \in Nat /\ Cardinality(A2) \in Nat
        /\ \A p \in U2 : p[1] \in {"list", "site"}
    <2>1. A1 \cap A2 = {} /\ \A p \in U2 : p[1] \in {"list", "site"}
      BY <1>1
    <2> QED BY <1>1, <2>1, Disjoint, FS_CardinalityType
  <1>9. /\ IsFiniteSet(U3) /\ Cardinality(U3) = Cardinality(U2) + Cardinality(A3)
        /\ Cardinality(U2) \in Nat /\ Cardinality(A3) \in Nat
        /\ \A p \in U3 : p[1] \in {"list", "site", "outbox"}
    <2> HIDE DEF U2
    <2>1. U2 \cap A3 = {} /\ \A p \in U3 : p[1] \in {"list", "site", "outbox"}
      BY <1>8, <1>1
    <2> QED BY <1>8, <1>1, <2>1, Disjoint, FS_CardinalityType
  <1>10. /\ IsFiniteSet(U4) /\ Cardinality(U4) = Cardinality(U3) + Cardinality(A4)
        /\ Cardinality(U3) \in Nat /\ Cardinality(A4) \in Nat
        /\ \A p \in U4 : p[1] \in {"list", "site", "outbox", "wait"}
    <2> HIDE DEF U3
    <2>1. U3 \cap A4 = {} /\ \A p \in U4 : p[1] \in {"list", "site", "outbox", "wait"}
      BY <1>9, <1>2
    <2> QED BY <1>9, <1>2, <2>1, Disjoint, FS_CardinalityType
  <1>11. /\ IsFiniteSet(U5) /\ Cardinality(U5) = Cardinality(U4) + Cardinality(A5)
        /\ Cardinality(U4) \in Nat /\ Cardinality(A5) \in Nat
        /\ \A p \in U5 : p[1] \in {"list", "site", "outbox", "wait", "timer"}
    <2> HIDE DEF U4
    <2>1. U4 \cap A5 = {} /\ \A p \in U5 : p[1] \in {"list", "site", "outbox", "wait", "timer"}
      BY <1>10, <1>2
    <2> QED BY <1>10, <1>2, <2>1, Disjoint, FS_CardinalityType
  <1>12. /\ IsFiniteSet(U6) /\ Cardinality(U6) = Cardinality(U5) + Cardinality(A6)
        /\ Cardinality(U5) \in Nat /\ Cardinality(A6) \in Nat
        /\ \A p \in U6 : p[1] \in {"list", "site", "outbox", "wait", "timer", "ready"}
    <2> HIDE DEF U5
    <2>1. U5 \cap A6 = {} /\ \A p \in U6 : p[1] \in {"list", "site", "outbox", "wait", "timer", "ready"}
      BY <1>11, <1>2
    <2> QED BY <1>11, <1>2, <2>1, Disjoint, FS_CardinalityType
  <1>13. /\ IsFiniteSet(U7) /\ Cardinality(U7) = Cardinality(U6) + Cardinality(A7)
        /\ Cardinality(U6) \in Nat /\ Cardinality(A7) \in Nat
        /\ \A p \in U7 : p[1] \in {"list", "site", "outbox", "wait", "timer", "ready", "request"}
    <2> HIDE DEF U6
    <2>1. U6 \cap A7 = {} /\ \A p \in U7 : p[1] \in {"list", "site", "outbox", "wait", "timer", "ready", "request"}
      BY <1>12, <1>3
    <2> QED BY <1>12, <1>3, <2>1, Disjoint, FS_CardinalityType
  <1>14. /\ IsFiniteSet(U8) /\ Cardinality(U8) = Cardinality(U7) + Cardinality(A8)
        /\ Cardinality(U7) \in Nat /\ Cardinality(A8) \in Nat
        /\ \A p \in U8 : p[1] \in {"list", "site", "outbox", "wait", "timer", "ready", "request", "conn"}
    <2> HIDE DEF U7
    <2>1. U7 \cap A8 = {} /\ \A p \in U8 : p[1] \in {"list", "site", "outbox", "wait", "timer", "ready", "request", "conn"}
      BY <1>13, <1>3
    <2> QED BY <1>13, <1>3, <2>1, Disjoint, FS_CardinalityType
  <1>15. /\ IsFiniteSet(U9) /\ Cardinality(U9) = Cardinality(U8) + Cardinality(A9)
        /\ Cardinality(U8) \in Nat /\ Cardinality(A9) \in Nat
        /\ \A p \in U9 : p[1] \in {"list", "site", "outbox", "wait", "timer", "ready", "request", "conn", "result"}
    <2> HIDE DEF U8
    <2>1. U8 \cap A9 = {} /\ \A p \in U9 : p[1] \in {"list", "site", "outbox", "wait", "timer", "ready", "request", "conn", "result"}
      BY <1>14, <1>3
    <2> QED BY <1>14, <1>3, <2>1, Disjoint, FS_CardinalityType
  <1>16. /\ IsFiniteSet(U10) /\ Cardinality(U10) = Cardinality(U9) + Cardinality(A10)
        /\ Cardinality(U9) \in Nat /\ Cardinality(A10) \in Nat
        /\ \A p \in U10 : p[1] \in {"list", "site", "outbox", "wait", "timer", "ready", "request", "conn", "result", "store"}
    <2> HIDE DEF U9
    <2>1. U9 \cap A10 = {} /\ \A p \in U10 : p[1] \in {"list", "site", "outbox", "wait", "timer", "ready", "request", "conn", "result", "store"}
      BY <1>15, <1>4
    <2> QED BY <1>15, <1>4, <2>1, Disjoint, FS_CardinalityType
  <1>17. /\ IsFiniteSet(U11) /\ Cardinality(U11) = Cardinality(U10) + Cardinality(A11)
        /\ Cardinality(U10) \in Nat /\ Cardinality(A11) \in Nat
        /\ \A p \in U11 : p[1] \in {"list", "site", "outbox", "wait", "timer", "ready", "request", "conn", "result", "store", "writer"}
    <2> HIDE DEF U10
    <2>1. U10 \cap A11 = {} /\ \A p \in U11 : p[1] \in {"list", "site", "outbox", "wait", "timer", "ready", "request", "conn", "result", "store", "writer"}
      BY <1>16, <1>4
    <2> QED BY <1>16, <1>4, <2>1, Disjoint, FS_CardinalityType
  <1>18. Owners(r) = U11
    BY <1>5
  <1>19. Cardinality(Owners(r)) = SvcN(F) + WaiterN(F) + DownN(F)
           + (N(store_result_, ResultsOf(F)) + Cardinality(InWriters(F)))
    <2> HIDE DEF U2, U3, U4, U5, U6, U7, U8, U9, U10, U11
    <2> QED BY <1>1, <1>2, <1>3, <1>4, <1>8, <1>9, <1>10, <1>11, <1>12, <1>13, <1>14, <1>15, <1>16, <1>17, <1>18
        DEF SvcN, WaiterN, DownN
  <1>20. /\ SvcN(F) \in Nat /\ WaiterN(F) \in Nat /\ DownN(F) \in Nat
         /\ N(store_result_, ResultsOf(F)) \in Nat /\ Cardinality(InWriters(F)) \in Nat
    BY SumsAreNat, CountsAreNat
  <1> QED BY <1>6, <1>7, <1>19, <1>20 DEF TotalN, StoreN, LeakedN

(* A resource is in one place from submit to its record, for every set of   *)
(* URLs, ports, threads and queue sizes: SpiderResManager hands each Res    *)
(* from one object to the next, so none is freed twice, none is recorded    *)
(* twice and none is lost unless a full queue has refused it.               *)
THEOREM ResourcesAreOwnedOnce == Spec => []EachResOnce
  <1>1. IInv /\ OnceInv => EachResOnce
    <2> SUFFICES ASSUME IInv, OnceInv, Alive, NEW r \in Res
                 PROVE  Cardinality(Owners(r)) + Cardinality(LeakedRes(r)) + Len(written[r])
                            = IF r \in accepted THEN 1 ELSE 0
      BY DEF EachResOnce
    <2>1. Finite({r}) /\ TotalN({r}) <= One(r \in accepted) /\ TotalN({r}) >= One(r \in accepted)
      BY DEF OnceInv
    <2>2. TotalN({r}) \in Nat /\ One(r \in accepted) \in {0, 1}
      BY <2>1, SumsAreNat, OneIs DEF IInv
    <2>3. Cardinality(Owners(r)) + Cardinality(LeakedRes(r)) + Len(written[r]) = TotalN({r})
      BY <2>1, OwnersN, Zenon DEF IInv
    <2>4. TotalN({r}) = One(r \in accepted)
      BY <2>1, <2>2
    <2> QED BY <2>3, <2>4 DEF One
  <1>2. Spec => []OnceInv
    <2>1. IInv /\ OnceInv /\ [Next]_vars => OnceInv'
      BY StepOnce
    <2> QED BY <2>1, InitOnce, Invariance, PTL DEF Spec
  <1> QED BY <1>1, <1>2, Invariance, PTL

-----------------------------------------------------------------------------
(* What the clients see                                                    *)

\* a resource has at most the record it is owed, none while a thread still
\* holds a result of it
LEMMA RecordsOwed ==
    ASSUME IInv, OnceInv, NEW r \in Res
    PROVE  /\ Len(written[r]) \in Nat /\ Len(written[r]) <= One(r \in accepted)
           /\ \A t \in Writer : storing[t] # Idle /\ storing[t].res = r => r \in accepted /\ Len(written[r]) = 0
  <1> DEFINE F == {r}
  <1>1. Finite(F) /\ TotalN(F) <= One(r \in accepted) /\ One(r \in accepted) \in {0, 1}
    BY OneIs DEF OnceInv
  <1>2. IsFiniteSet(InWriters(F))
    BY <1>1 DEF Finite
  <1>3. \A t \in Writer : storing[t] # Idle /\ storing[t].res = r => t \in InWriters(F)
    BY DEF InWriters
  <1> DEFINE was == Len(written[r])
  <1>4. was = Cardinality(InRecords(F)) /\ was \in Nat
    BY RecordsAre DEF IInv
  <1> HIDE DEF F, was
  <1>5. Cardinality(InWriters(F)) + was <= One(r \in accepted)
    <2>1. /\ SvcN(F) \in Nat /\ WaiterN(F) \in Nat /\ DownN(F) \in Nat /\ LeakedN(F) \in Nat
      BY <1>1, SumsAreNat DEF IInv
    <2>2. N(store_result_, ResultsOf(F)) \in Nat /\ Cardinality(InWriters(F)) \in Nat
      BY <1>1, CountsAreNat DEF IInv
    <2> QED BY <1>1, <1>4, <2>1, <2>2 DEF TotalN, StoreN
  <1>6. Cardinality(InWriters(F)) \in Nat /\ \A t \in InWriters(F) : Cardinality(InWriters(F)) # 0
    BY <1>2, FS_CardinalityType, FS_EmptySet
  <1>7. was <= One(r \in accepted)
    BY <1>1, <1>4, <1>5, <1>6
  <1>8. \A t \in Writer : storing[t] # Idle /\ storing[t].res = r => r \in accepted /\ was = 0
    <2>1. InWriters(F) # {} => One(r \in accepted) = 1 /\ was = 0
      BY <1>1, <1>4, <1>5, <1>6
    <2> QED BY <1>3, <2>1 DEF One
  <1> QED BY <1>4, <1>7, <1>8 DEF was

\* the step of svc's clients a step of the process is
LEMMA StepAnswers ==
    ASSUME IInv, OnceInv, [Next]_vars
    PROVE  [Client!CNext]_([r \in Res |-> Answer(r)])
  <1> DEFINE a == [r \in Res |-> Answer(r)]
  <1>1. UNCHANGED <<accepted, written>> => a' = a
    BY DEF Answer
  <1>2. ASSUME NEW r \in Res, Submit(r) PROVE Client!Accept(r)
    <2>1. r \notin accepted /\ accepted' = accepted \cup {r} /\ written' = written
      BY <1>2 DEF Submit, storeVars
    <2>2. written[r] = <<>>
      <3>1. One(r \in accepted) = 0
        BY <2>1 DEF One
      <3>2. Len(written[r]) = 0
        BY <3>1, RecordsOwed
      <3>3. written[r] \in Seq({"OK", "ERROR"})
        BY DEF IInv, DataOK
      <3> QED BY <3>2, <3>3
    <2>3. Answer(r) = "new" /\ Answer(r)' = "pending"
      BY <2>1, <2>2 DEF Answer
    <2>4. \A q \in Res : q # r => Answer(q)' = Answer(q)
      BY <2>1 DEF Answer
    <2>5. a[r] = "new" /\ a' = [a EXCEPT ![r] = "pending"]
      BY <2>3, <2>4
    <2> QED BY <2>5 DEF Client!Accept
  <1>3. ASSUME NEW t \in Writer, StoreWrite(t) PROVE \E r \in Res : Client!Record(r)
    <2>0. storing[t] \in Result /\ storing[t] # Idle
      BY <1>3 DEF StoreWrite, IInv, DataOK
    <2>1. PICK r \in Res, v \in {"OK", "ERROR"} : r = storing[t].res /\ v = storing[t].state
      BY <2>0 DEF Result
    <2>2. written' = [written EXCEPT ![r] = Append(@, v)] /\ accepted' = accepted
      BY <1>3, <2>1 DEF StoreWrite
    <2>3. r \in accepted /\ Len(written[r]) = 0 /\ written \in [Res -> Seq({"OK", "ERROR"})]
      BY <2>0, <2>1, RecordsOwed DEF IInv, DataOK
    <2>4. written[r] = <<>>
      BY <2>3
    <2>5. written'[r] = <<v>> /\ \A q \in Res : q # r => written'[q] = written[q]
      <3>1. written'[r] = Append(written[r], v) /\ Append(<<>>, v) = <<v>>
        BY <2>2, <2>3
      <3> QED BY <2>2, <2>3, <2>4, <3>1
    <2>6. Answer(r) = "pending" /\ Answer(r)' = v
      <3>1. Len(<<v>>) = 1 /\ <<v>> # <<>> /\ <<v>>[1] = v
        OBVIOUS
      <3> QED BY <2>2, <2>3, <2>4, <2>5, <3>1 DEF Answer
    <2>7. \A q \in Res : q # r => Answer(q)' = Answer(q)
      BY <2>2, <2>5 DEF Answer
    <2>8. a[r] = "pending" /\ a' = [a EXCEPT ![r] = v]
      BY <2>6, <2>7
    <2> QED BY <2>8 DEF Client!Record, Client!Answers
  <1>4. CASE \E r \in Res : Submit(r)
    BY <1>2, <1>4 DEF Client!CNext
  <1>5. CASE \E t \in Writer : StoreWrite(t)
    BY <1>3, <1>5 DEF Client!CNext
  <1>6. CASE ~(\E r \in Res : Submit(r)) /\ ~(\E t \in Writer : StoreWrite(t))
    <2>1. UNCHANGED <<accepted, written>>
      BY <1>6 DEF Next, Scheduler, ResTurn, DnsTurn, ReadyTurn, ResultTurn, EndRes, EndDns, EndReady,
         EndResult, NextLoop, PushDns, PushTimed, PushDown, PushStore, PushWait, ResolvePop,
         ResolvePush, WaitPop, Timeout, DownloadPop, DownloadEnd, StorePop, vars, storeVars
    <2> QED BY <1>1, <2>1
  <1> QED BY <1>4, <1>5, <1>6

(* The process implements the safety part of CrawlSpec: what a client sees *)
(* of a resource goes from new to pending to one record, OK or ERROR, and  *)
(* stays.                                                                  *)
THEOREM ClientsAreServed == Spec => Client!CSafe
  <1>1. Init => Client!CInit
    <2>1. Init => \A r \in Res : Answer(r) = "new"
      BY DEF Init, Fresh, Answer
    <2> QED BY <2>1 DEF Client!CInit
  <1>2. IInv /\ OnceInv /\ [Next]_vars => [Client!CNext]_([r \in Res |-> Answer(r)])
    BY StepAnswers
  <1>3. Spec => []OnceInv
    <2>1. IInv /\ OnceInv /\ [Next]_vars => OnceInv'
      BY StepOnce
    <2> QED BY <2>1, InitOnce, Invariance, PTL DEF Spec
  <1> QED BY <1>1, <1>2, <1>3, Invariance, PTL DEF Spec, Client!CSafe

-----------------------------------------------------------------------------
(***************************************************************************)
(* Questions to the resolvers, when all URLs are on the default port.  The *)
(* two keys of a resource are then one, so a site that is asked for is the *)
(* one that is told (Owed): the flag of a site counts the questions about  *)
(* its host, and neither assert of svc can fail.                           *)
(***************************************************************************)
DefaultPorts == \A r \in Res : UrlOf[r].port = DefaultPort

Named(h)      == {h}
AskedPosts(h) == {p \in Post : p.to = "dns" /\ p.item = h}
AnswersOf(h)  == {d \in DnsEntity : d.host = h}
InResolvers(h)   == {t \in Resolver : resolving[t] = h}
InLostAnswers(h) == {d \in leaked : d \in DnsEntity /\ d.host = h}

AskFinite(h) == IsFiniteSet(InResolvers(h)) /\ IsFiniteSet(InLostAnswers(h))
AskN(h) == N(dns_request_, Named(h)) + N(outbox, AskedPosts(h)) + Cardinality(InResolvers(h))
             + N(dns_result_, AnswersOf(h)) + Cardinality(InLostAnswers(h))

\* the question a site waits for the answer to, if it is about host h
Waits(k, s, h) == IF k = HostKey(h) /\ s.dns_is_resolving_ THEN 1 ELSE 0
Owed(h) == IF IsSite(HostKey(h)) THEN Waits(HostKey(h), sites_map_[HostKey(h)], h) ELSE 0

AskInv ==
    /\ Alive /\ \A k \in Site : sites_map_[k] # Null
    /\ \A h \in Host : AskFinite(h) /\ AskN(h) = Owed(h)

AskNat(h) ==
    /\ N(dns_request_, Named(h)) \in Nat /\ N(outbox, AskedPosts(h)) \in Nat
    /\ Cardinality(InResolvers(h)) \in Nat /\ N(dns_result_, AnswersOf(h)) \in Nat
    /\ Cardinality(InLostAnswers(h)) \in Nat

LEMMA AskCounts == ASSUME DataOK, NEW h, AskFinite(h) PROVE AskNat(h) /\ AskN(h) \in Nat
  <1>1. AskNat(h)
    BY AtFinite, FS_CardinalityType DEF DataOK, AskFinite, AskNat
  <1> QED BY <1>1 DEF AskN, AskNat

LEMMA HostKeys == \A g \in AnyHost : HostKey(g) \in Site /\ \A h \in AnyHost : HostKey(h) = HostKey(g) => h = g
  BY HostAssumption DEF HostKey, Site

LEMMA OwedIs == \A h : Owed(h) \in {0, 1} /\ \A k, s : Waits(k, s, h) \in {0, 1}
  BY DEF Owed, Waits

\* asking sets the flag, for the host that is asked for
LEMMA AskDnsAsks ==
    ASSUME NEW g \in AnyHost, NEW s \in Website, NEW h \in Host
    PROVE  LET t == AskDns(HostKey(g), s)
           IN N(t.out, AskedPosts(h)) = Waits(HostKey(g), t.site, h)
  <1> DEFINE k == HostKey(g)
  <1>1. k[1] = g /\ h # NoHost
    BY HostAssumption DEF HostKey
  <1>2. CASE g = NoHost
    <2>1. AskDns(k, s).out = <<>>
      BY <1>1, <1>2 DEF AskDns, Turn
    <2>2. k # HostKey(h)
      BY <1>1, <1>2, HostKeys DEF AnyHost
    <2> QED BY <2>1, <2>2, NoneAt DEF Waits
  <1>3. CASE g # NoHost
    <2>1. AskDns(k, s).out = <<DnsPost(g)>> /\ AskDns(k, s).site.dns_is_resolving_
      BY <1>1, <1>3 DEF AskDns, Turn, Website
    <2>2. DnsPost(g) \in Post /\ (DnsPost(g) \in AskedPosts(h) <=> g = h)
      BY <1>3 DEF DnsPost, Post, AskedPosts, AnyHost
    <2>3. N(<<DnsPost(g)>>, AskedPosts(h)) = IF g = h THEN 1 ELSE 0
      BY <2>2, OneAt
    <2>4. k = HostKey(h) <=> g = h
      BY HostKeys DEF AnyHost
    <2> HIDE DEF k
    <2> QED BY <2>1, <2>3, <2>4 DEF Waits, k
  <1> QED BY <1>2, <1>3

LEMMA SubmitDnsAsks ==
    ASSUME NEW g \in AnyHost, NEW s \in Website, NEW e \in BOOLEAN, NEW h \in Host
    PROVE  LET t == SubmitDnsRequest(HostKey(g), s, e)
           IN Waits(HostKey(g), s, h) + N(t.out, AskedPosts(h)) = Waits(HostKey(g), t.site, h)
  <1> DEFINE k == HostKey(g)
             t == SubmitDnsRequest(k, s, e)
  <1>1. [s EXCEPT !.dns_state = "ERROR_RETRY"] \in Website /\ [s EXCEPT !.dns_state = "UPDATE"] \in Website
    BY DEF Website, DnsState
  <1>2. CASE t = Turn(s, <<>>)
    <2>1. t.site = s /\ t.out = <<>>
      BY <1>2 DEF Turn
    <2>2. N(t.out, AskedPosts(h)) = 0
      BY <2>1, NoneAt
    <2>3. Waits(k, s, h) \in {0, 1}
      BY OwedIs
    <2> HIDE DEF t, k
    <2> QED BY <2>1, <2>2, <2>3 DEF t, k
  <1>3. ASSUME ~s.dns_is_resolving_, NEW u \in Website, t = AskDns(k, u)
        PROVE  Waits(k, s, h) + N(t.out, AskedPosts(h)) = Waits(k, t.site, h)
    <2>1. Waits(k, s, h) = 0
      BY <1>3 DEF Waits
    <2>2. N(t.out, AskedPosts(h)) = Waits(k, t.site, h)
      BY <1>3, AskDnsAsks
    <2>3. Waits(k, t.site, h) \in {0, 1}
      BY OwedIs
    <2> HIDE DEF t, k
    <2> QED BY <2>1, <2>2, <2>3
  <1>4. CASE s.dns_is_resolving_
    BY <1>2, <1>4 DEF SubmitDnsRequest
  <1>5. CASE ~s.dns_is_resolving_ /\ s.dns_state = "INIT"
    BY <1>3, <1>5 DEF SubmitDnsRequest
  <1>6. CASE ~s.dns_is_resolving_ /\ s.dns_state = "ERROR" /\ e
    BY <1>1, <1>3, <1>6 DEF SubmitDnsRequest
  <1>7. CASE ~s.dns_is_resolving_ /\ s.dns_state = "OK" /\ e
    BY <1>1, <1>3, <1>7 DEF SubmitDnsRequest
  <1>8. CASE ~s.dns_is_resolving_ /\ s.dns_state # "INIT" /\ ~(s.dns_state \in {"OK", "ERROR"} /\ e)
    BY <1>2, <1>8 DEF SubmitDnsRequest
  <1> QED BY <1>4, <1>5, <1>6, <1>7, <1>8

\* an answer clears the flag, unless the question is asked again
LEMMA DnsResultAsks ==
    ASSUME NEW g \in AnyHost, NEW s \in Website, NEW answer \in {"OK", "ERROR"}, NEW h \in Host
    PROVE  LET t == DnsResult(HostKey(g), s, answer)
           IN N(t.out, AskedPosts(h)) = Waits(HostKey(g), t.site, h)
  <1> DEFINE k == HostKey(g)
             t == DnsResult(k, s, answer)
             got == [s EXCEPT !.dns_state = answer, !.dns_is_resolving_ = FALSE]
             retry == [got EXCEPT !.dns_retry_count_ = @ + 1, !.dns_state = "ERROR_RETRY"]
  <1>1. got \in Website /\ ~got.dns_is_resolving_ /\ ~[got EXCEPT !.dns_retry_count_ = 0].dns_is_resolving_
    BY DEF Website, DnsState
  <1>2. got.dns_retry_count_ < DNS_retry_max => retry \in Website
    <2> DEFINE more == [got EXCEPT !.dns_retry_count_ = @ + 1]
    <2> HIDE DEF got
    <2>1. got.dns_retry_count_ < DNS_retry_max => got.dns_retry_count_ + 1 \in 0..DNS_retry_max
      <3>1. got.dns_retry_count_ \in 0..DNS_retry_max
        BY <1>1 DEF Website
      <3>2. DNS_retry_max \in Nat
        BY LimitAssumption
      <3> QED BY ONLY <3>1, <3>2
    <2>2. got.dns_retry_count_ < DNS_retry_max => more \in Website
      BY <1>1, <2>1, RetryCountType
    <2>3. retry = [more EXCEPT !.dns_state = "ERROR_RETRY"]
      BY <1>1 DEF Website
    <2> HIDE DEF more
    <2> QED BY <2>2, <2>3 DEF Website, DnsState
  <1>3. ASSUME NEW u, ~u.dns_is_resolving_, t = Turn(u, <<>>)
        PROVE  N(t.out, AskedPosts(h)) = Waits(k, t.site, h)
    <2>1. t.site = u /\ t.out = <<>>
      BY <1>3 DEF Turn
    <2> HIDE DEF t
    <2> QED BY <1>3, <2>1, NoneAt DEF Waits
  <1>4. CASE answer = "OK"
    BY <1>1, <1>3, <1>4 DEF DnsResult
  <1>5. CASE answer = "ERROR" /\ got.dns_retry_count_ < DNS_retry_max
    <2>1. t = AskDns(k, retry)
      BY <1>5 DEF DnsResult
    <2> HIDE DEF t, retry, got
    <2>2. N(AskDns(k, retry).out, AskedPosts(h)) = Waits(k, AskDns(k, retry).site, h)
      BY <1>2, <1>5, AskDnsAsks
    <2>3. N(t.out, AskedPosts(h)) = Waits(k, t.site, h)
      BY <2>1, <2>2
    <2> QED BY <2>3 DEF t
  <1>6. CASE answer = "ERROR" /\ ~(got.dns_retry_count_ < DNS_retry_max)
    BY <1>1, <1>3, <1>6 DEF DnsResult
  <1> QED BY <1>4, <1>5, <1>6

\* the other calls do not ask, and leave the flag alone
LEMMA SubmitHttpAsks ==
    ASSUME NEW k \in Site, NEW s \in Website, NEW h \in Host
    PROVE  LET t == SubmitHttpRequest(k, s)
           IN N(t.out, AskedPosts(h)) = 0 /\ t.site.dns_is_resolving_ = s.dns_is_resolving_
  <1> DEFINE t == SubmitHttpRequest(k, s)
  <1>1. CASE s.dns_state = "ERROR"
    <2>1. t = FetchFailedAllRes(k, s)
      BY <1>1 DEF SubmitHttpRequest
    <2>2. \A i \in DOMAIN t.out : t.out[i] \notin AskedPosts(h)
      BY <2>1 DEF FetchFailedAllRes, Turn, StorePost, AskedPosts
    <2> HIDE DEF t
    <2> QED BY <2>1, <2>2, NotAt, FetchFailedAllResType DEF t
  <1>2. CASE s.dns_state = "OK" /\ ~s.is_fetching_ /\ s.res_list_ # <<>>
    <2>1. t = HttpRequest(k, s)
      BY <1>2 DEF SubmitHttpRequest
    <2> DEFINE p == WaitPost([res |-> Head(s.res_list_), site |-> k])
    <2>2. t.out = <<p>> /\ p.to = "wait"
      BY <2>1 DEF HttpRequest, Turn, WaitPost
    <2> HIDE DEF p
    <2>3. \A i \in DOMAIN <<p>> : <<p>>[i] \notin AskedPosts(h)
      BY <2>2 DEF AskedPosts
    <2> HIDE DEF t
    <2> QED BY <1>2, <2>1, <2>2, <2>3, NotAt, HttpRequestType DEF t
  <1>3. CASE s.dns_state # "ERROR" /\ ~(s.dns_state = "OK" /\ ~s.is_fetching_ /\ s.res_list_ # <<>>)
    <2>1. t.site = s /\ t.out = <<>>
      BY <1>3 DEF SubmitHttpRequest, Turn
    <2> HIDE DEF t
    <2> QED BY <2>1, NoneAt DEF t
  <1> QED BY <1>1, <1>2, <1>3

LEMMA HttpResultAsks ==
    ASSUME DataOK, NEW x \in Result, NEW s \in Website, NEW h \in Host
    PROVE  N(HttpResult(s, x).out, AskedPosts(h)) = 0
  <1>1. HttpResult(s, x).out \in {<<>>, <<StorePost(x)>>}
    BY DEF HttpResult, Turn
  <1>2. \A i \in DOMAIN <<StorePost(x)>> : <<StorePost(x)>>[i] \notin AskedPosts(h)
    BY DEF StorePost, AskedPosts
  <1> QED BY <1>1, <1>2, NotAt, NoneAt

LEMMA AndThenAsks ==
    ASSUME NEW k \in Site, NEW t \in TurnOf(k), Asking(k, t.site), NEW h \in Host
    PROVE  LET u == AndThen(t, SubmitHttpRequest(k, t.site))
           IN /\ N(u.out, AskedPosts(h)) = N(t.out, AskedPosts(h))
              /\ \A j : Waits(j, u.site, h) = Waits(j, t.site, h)
              /\ u \in TurnOf(k) /\ u.site \in Website
  <1> DEFINE v == SubmitHttpRequest(k, t.site)
             u == AndThen(t, v)
  <1>1. u.site = v.site /\ u.out = t.out \o v.out
    BY DEF AndThen, Turn
  <1>2. t.site \in Website /\ t.out \in Seq(PostOf(k)) /\ v \in TurnOf(k) /\ v.out \in Seq(PostOf(k))
    <2>1. t.site \in Website /\ t.out \in Seq(PostOf(k))
      BY DEF TurnOf
    <2>2. v \in TurnOf(k)
      BY <2>1, SubmitHttpRequestType
    <2> HIDE DEF v
    <2> QED BY <2>1, <2>2 DEF TurnOf
  <1>3. N(v.out, AskedPosts(h)) = 0 /\ v.site.dns_is_resolving_ = t.site.dns_is_resolving_
    BY <1>2, SubmitHttpAsks
  <1>4. u \in TurnOf(k)
    BY <1>2, AndThenType
  <1> HIDE DEF v, u
  <1>5. N(t.out \o v.out, AskedPosts(h)) = N(t.out, AskedPosts(h)) + N(v.out, AskedPosts(h))
    BY <1>2, CatAt
  <1>6. N(t.out, AskedPosts(h)) \in Nat
    BY <1>2, AtFinite
  <1>7. N(u.out, AskedPosts(h)) = N(t.out, AskedPosts(h))
    BY <1>1, <1>3, <1>5, <1>6
  <1>8. (\A j : Waits(j, u.site, h) = Waits(j, t.site, h)) /\ u.site \in Website
    BY <1>1, <1>3, <1>4 DEF Waits, TurnOf
  <1> QED BY <1>4, <1>7, <1>8 DEF u, v

-----------------------------------------------------------------------------
(* The steps that ask and answer                                           *)

NoNull == \A k \in Site : sites_map_[k] # Null

LEMMA AskSets ==
    ASSUME NEW h
    PROVE  /\ UNCHANGED resolving => InResolvers(h)' = InResolvers(h)
           /\ UNCHANGED leaked => InLostAnswers(h)' = InLostAnswers(h)
           /\ UNCHANGED sites_map_ => Owed(h)' = Owed(h) /\ (NoNull => NoNull')
  BY DEF InResolvers, InLostAnswers, Owed, Waits, IsSite, NoNull

\* a turn that ends with site k and the calls of t
LEMMA LeaveAsks ==
    ASSUME DataOK, NEW k \in Site, NEW t \in TurnOf(k), Leave(k, t), outbox = <<>>,
           UNCHANGED <<dns_request_, resolving, leaked>>, dns_result_' \in Seq(DnsEntity),
           NEW h \in Host, AskFinite(h)
    PROVE  /\ AskFinite(h)' /\ AskN(h)' \in Nat
           /\ AskN(h)' + N(dns_result_, AnswersOf(h)) = AskN(h) + N(dns_result_', AnswersOf(h)) + N(t.out, AskedPosts(h))
           /\ Owed(h)' = IF k = HostKey(h) THEN Waits(k, t.site, h) ELSE Owed(h)
           /\ N(t.out, AskedPosts(h)) \in Nat
  <1>1. sites_map_' = [sites_map_ EXCEPT ![k] = t.site] /\ outbox' = t.out
    BY DEF Leave
  <1>2. t.site \in Website /\ t.out \in Seq(PostOf(k)) /\ t.site # Null /\ t.site # Absent
    BY NullAssumption DEF TurnOf
  <1>3. sites_map_'[k] = t.site /\ \A j \in Site : j # k => sites_map_'[j] = sites_map_[j]
    BY <1>1 DEF DataOK
  <1>4. InResolvers(h)' = InResolvers(h) /\ InLostAnswers(h)' = InLostAnswers(h)
    BY AskSets
  <1>5. N(outbox, AskedPosts(h)) = 0 /\ N(t.out, AskedPosts(h)) \in Nat
    BY <1>2, NoneAt, AtFinite
  <1>6. /\ N(dns_request_, Named(h)) \in Nat /\ Cardinality(InResolvers(h)) \in Nat
        /\ N(dns_result_, AnswersOf(h)) \in Nat /\ Cardinality(InLostAnswers(h)) \in Nat
    BY AskCounts DEF AskNat
  <1>7. AskN(h)' = N(dns_request_, Named(h)) + N(t.out, AskedPosts(h)) + Cardinality(InResolvers(h))
                      + N(dns_result_', AnswersOf(h)) + Cardinality(InLostAnswers(h))
    BY <1>1, <1>4 DEF AskN
  <1>11. N(dns_result_', AnswersOf(h)) \in Nat
    BY AtFinite
  <1>8. AskN(h)' + N(dns_result_, AnswersOf(h)) = AskN(h) + N(dns_result_', AnswersOf(h)) + N(t.out, AskedPosts(h))
    BY <1>5, <1>6, <1>7, <1>11 DEF AskN
  <1>9. Owed(h)' = IF k = HostKey(h) THEN Waits(k, t.site, h) ELSE Owed(h)
    <2>1. HostKey(h) \in Site
      BY HostKeys DEF AnyHost
    <2>2. CASE k = HostKey(h)
      <3>1. IsSite(HostKey(h))'
        BY <1>2, <1>3, <2>2 DEF IsSite
      <3> QED BY <1>3, <2>2, <3>1 DEF Owed, Waits
    <2>3. CASE k # HostKey(h)
      <3>1. sites_map_'[HostKey(h)] = sites_map_[HostKey(h)]
        BY <1>3, <2>1, <2>3
      <3> QED BY <2>3, <3>1 DEF Owed, Waits, IsSite
    <2> QED BY <2>2, <2>3
  <1>10. AskFinite(h)' /\ AskN(h)' \in Nat
    BY <1>4, <1>5, <1>6, <1>7, <1>11 DEF AskFinite
  <1> QED BY <1>5, <1>8, <1>9, <1>10

LEMMA LeaveNoNull ==
    ASSUME DataOK, NoNull, NEW k \in Site, NEW t \in TurnOf(k), Leave(k, t)
    PROVE  NoNull'
  <1>1. t.site # Null
    BY NullAssumption DEF TurnOf
  <1> QED BY <1>1 DEF Leave, NoNull, DataOK

\* a turn that asks as often as it makes the site wait, and answers what it
\* takes from dns_result_
LEMMA TurnAsks ==
    ASSUME IInv, AskInv, NEW k \in Site, NEW t \in TurnOf(k), Leave(k, t), outbox = <<>>,
           UNCHANGED <<phase, dns_request_, resolving, leaked>>, dns_result_' \in Seq(DnsEntity),
           \A h \in Host :
              /\ k = HostKey(h) => Owed(h) + N(dns_result_', AnswersOf(h)) + N(t.out, AskedPosts(h))
                                     = N(dns_result_, AnswersOf(h)) + Waits(k, t.site, h)
              /\ k # HostKey(h) => /\ N(dns_result_', AnswersOf(h)) = N(dns_result_, AnswersOf(h))
                                   /\ N(t.out, AskedPosts(h)) = 0
    PROVE  AskInv'
  <1>1. ASSUME NEW h \in Host PROVE (AskFinite(h) /\ AskN(h) = Owed(h))'
    <2>1. AskFinite(h) /\ AskN(h) = Owed(h) /\ Owed(h) \in {0, 1} /\ Waits(k, t.site, h) \in {0, 1}
      BY OwedIs DEF AskInv
    <2>2. /\ AskFinite(h)' /\ AskN(h)' \in Nat
          /\ AskN(h)' + N(dns_result_, AnswersOf(h)) = AskN(h) + N(dns_result_', AnswersOf(h)) + N(t.out, AskedPosts(h))
          /\ Owed(h)' = IF k = HostKey(h) THEN Waits(k, t.site, h) ELSE Owed(h)
          /\ N(t.out, AskedPosts(h)) \in Nat
      BY <2>1, LeaveAsks DEF IInv
    <2>3. N(dns_result_', AnswersOf(h)) \in Nat /\ N(dns_result_, AnswersOf(h)) \in Nat
      BY AtFinite DEF IInv, DataOK
    <2>4. CASE k = HostKey(h)
      BY <2>1, <2>2, <2>3, <2>4
    <2>5. CASE k # HostKey(h)
      BY <2>1, <2>2, <2>3, <2>5
    <2> QED BY <2>4, <2>5
  <1>2. NoNull' /\ Alive'
    BY LeaveNoNull DEF AskInv, NoNull, IInv, Alive
  <1> QED BY <1>1, <1>2 DEF AskInv, NoNull

LEMMA ResTurnAsks == ASSUME DefaultPorts, IInv, AskInv, ResTurn PROVE AskInv'
  <1> DEFINE r == Head(res_list_)
             g == UrlOf[r].host
             k == HostKey(g)
  <1>1. r \in Res /\ outbox = <<>>
    BY SeqTail DEF ResTurn, Turning, IInv, DataOK
  <1>2. g \in AnyHost /\ SiteKey(r) = k /\ k \in Site
    BY <1>1, UrlAssumption, HostKeys DEF DefaultPorts, SiteKey, HostKey
  <1>3. UNCHANGED <<dns_request_, resolving, dns_result_>> /\ dns_result_' \in Seq(DnsEntity)
    BY DEF ResTurn, dnsVars, IInv, DataOK
  <1>4. sites_map_[k] # Null
    BY <1>2 DEF AskInv
  <1>5. ASSUME NEW t \in TurnOf(k), Leave(k, t), UNCHANGED <<phase, leaked>>,
               \A h \in Host : N(t.out, AskedPosts(h)) \in Nat /\ N(dns_result_, AnswersOf(h)) \in Nat
                               /\ Owed(h) \in {0, 1},
               \A h \in Host : /\ k = HostKey(h) => Owed(h) + N(t.out, AskedPosts(h)) = Waits(k, t.site, h)
                               /\ k # HostKey(h) => N(t.out, AskedPosts(h)) = 0
        PROVE  AskInv'
    <2>1. \A h \in Host : N(dns_result_', AnswersOf(h)) = N(dns_result_, AnswersOf(h))
      BY <1>3
    <2>2. \A h \in Host : k = HostKey(h) => Owed(h) + N(dns_result_', AnswersOf(h)) + N(t.out, AskedPosts(h))
                                     = N(dns_result_, AnswersOf(h)) + Waits(k, t.site, h)
      BY <1>5, <2>1
    <2> QED BY <1>1, <1>2, <1>3, <1>5, <2>1, <2>2, TurnAsks
  <1>6. ASSUME NEW t \in TurnOf(k), NEW h \in Host
        PROVE  N(t.out, AskedPosts(h)) \in Nat /\ N(dns_result_, AnswersOf(h)) \in Nat /\ Owed(h) \in {0, 1}
    BY AtFinite, OwedIs DEF TurnOf, IInv, DataOK
  <1>7. ASSUME NEW e \in Expiry, KnownSite(k, r, e) PROVE AskInv'
    <2> DEFINE s == AddRes(sites_map_[k], r)
               asked == SubmitDnsRequest(k, s, e)
               t == AndThen(asked, SubmitHttpRequest(k, asked.site))
    <2>1. sites_map_[k] \in Website /\ LookedAt(k, sites_map_[k]) /\ IsSite(k)
      BY <1>2, <1>7 DEF KnownSite, IInv, DataOK, IsSite, AllLookedAt
    <2>2. s \in Website /\ Asking(k, s) /\ s.dns_is_resolving_ = sites_map_[k].dns_is_resolving_
      BY <1>1, <2>1, AddResType DEF LookedAt, Asking
    <2>3. e \in BOOLEAN
      BY LimitAssumption
    <2>4. asked \in TurnOf(k) /\ Asking(k, asked.site) /\ asked.site \in Website
      BY <1>2, <2>2, <2>3, SubmitDnsRequestType DEF TurnOf
    <2>5. ASSUME NEW h \in Host
          PROVE  /\ k = HostKey(h) => Owed(h) + N(t.out, AskedPosts(h)) = Waits(k, t.site, h)
                 /\ k # HostKey(h) => N(t.out, AskedPosts(h)) = 0
      <3>1. Waits(k, s, h) + N(asked.out, AskedPosts(h)) = Waits(k, asked.site, h)
        BY <1>2, <2>2, <2>3, SubmitDnsAsks
      <3>2. N(t.out, AskedPosts(h)) = N(asked.out, AskedPosts(h)) /\ Waits(k, t.site, h) = Waits(k, asked.site, h)
        <4>1. k \in Site
          BY <1>2
        <4> HIDE DEF asked, s
        <4> QED BY ONLY <4>1, <2>4, h \in Host, AndThenAsks
      <3>3. k = HostKey(h) => Owed(h) = Waits(k, s, h)
        BY <2>1, <2>2 DEF Owed, Waits
      <3>4. k # HostKey(h) => Waits(k, s, h) = 0 /\ Waits(k, asked.site, h) = 0
        BY DEF Waits
      <3>5. N(asked.out, AskedPosts(h)) \in Nat
        BY <1>6, <2>4
      <3> HIDE DEF asked, t, s, k
      <3> QED BY <3>1, <3>2, <3>3, <3>4, <3>5
    <2>6. Leave(k, t) /\ UNCHANGED <<phase, leaked>>
      BY <1>7 DEF KnownSite
    <2>7. t \in TurnOf(k)
      <3>1. \A h \in Host : t \in TurnOf(k)
        BY <1>2, <2>4, AndThenAsks
      <3>2. SubmitHttpRequest(k, asked.site) \in TurnOf(k)
        BY <1>2, <2>4, SubmitHttpRequestType
      <3> QED BY <2>4, <3>2, AndThenType
    <2> HIDE DEF t, k
    <2> QED BY <1>5, <1>6, <2>5, <2>6, <2>7
  <1>8. CASE FreshSite(k, SiteKey(r), r)
    <2> DEFINE s == AddRes(NewSite, r)
               t == SubmitDnsRequest(k, s, FALSE)
    <2>1. s \in Website /\ s.dns_state = "INIT" /\ ~s.dns_is_resolving_
      BY <1>1, NewSiteType, AddResType
    <2>2. Leave(k, t) /\ UNCHANGED <<phase, leaked>> /\ ~IsSite(k)
      BY <1>2, <1>8 DEF FreshSite, IsSite
    <2>3. t \in TurnOf(k)
      BY <1>2, <2>1, SubmitDnsRequestType
    <2>4. ASSUME NEW h \in Host
          PROVE  /\ k = HostKey(h) => Owed(h) + N(t.out, AskedPosts(h)) = Waits(k, t.site, h)
                 /\ k # HostKey(h) => N(t.out, AskedPosts(h)) = 0
      <3>1. Waits(k, s, h) + N(t.out, AskedPosts(h)) = Waits(k, t.site, h)
        BY <1>2, <2>1, SubmitDnsAsks
      <3>2. (k = HostKey(h) => Owed(h) = 0) /\ Waits(k, s, h) = 0
        BY <2>1, <2>2 DEF Owed, Waits
      <3>3. k # HostKey(h) => Waits(k, t.site, h) = 0
        BY DEF Waits
      <3>4. N(t.out, AskedPosts(h)) \in Nat
        BY <1>6, <2>3
      <3> HIDE DEF t, s, k
      <3> QED BY <3>1, <3>2, <3>3, <3>4
    <2> HIDE DEF t, k
    <2> QED BY <1>5, <1>6, <2>2, <2>3, <2>4
  <1> QED BY <1>4, <1>7, <1>8 DEF ResTurn

LEMMA DnsTurnAsks == ASSUME IInv, AskInv, DnsTurn PROVE AskInv'
  <1> DEFINE d == Head(dns_result_)
             g == d.host
             k == HostKey(g)
             s == sites_map_[k]
             got == DnsResult(k, s, d.state)
             t == AndThen(got, SubmitHttpRequest(k, got.site))
  <1>1. /\ dns_result_ \in Seq(DnsEntity) /\ dns_result_ # <<>> /\ dns_result_' = Tail(dns_result_)
        /\ outbox = <<>> /\ UNCHANGED <<dns_request_, resolving>>
    BY DEF DnsTurn, Turning, IInv, DataOK
  <1>2. d \in DnsEntity /\ dns_result_' \in Seq(DnsEntity)
    BY <1>1, SeqTail
  <1>3. g \in Host /\ d.state \in {"OK", "ERROR"}
    BY <1>2 DEF DnsEntity
  <1>4. g \in AnyHost /\ k \in Site
    BY <1>3, HostKeys DEF AnyHost
  <1>5. \A h \in Host : /\ N(dns_result_, AnswersOf(h)) = N(dns_result_', AnswersOf(h)) + One(d \in AnswersOf(h))
                        /\ N(dns_result_, AnswersOf(h)) \in Nat /\ N(dns_result_', AnswersOf(h)) \in Nat
    BY <1>1, PopN
  <1>6. \A h \in Host : One(d \in AnswersOf(h)) = IF k = HostKey(h) THEN 1 ELSE 0
    <2>1. \A h \in Host : k = HostKey(h) <=> g = h
      BY <1>3, HostKeys DEF AnyHost
    <2> HIDE DEF k, d
    <2> QED BY <1>2, <2>1 DEF One, AnswersOf
  <1>7. \A h \in Host : k = HostKey(h) => Owed(h) = 1
    <2>1. ASSUME NEW h \in Host, k = HostKey(h) PROVE Owed(h) = 1
      <3>1. AskFinite(h) /\ AskN(h) = Owed(h) /\ Owed(h) \in {0, 1}
        BY OwedIs DEF AskInv
      <3>2. AskNat(h)
        BY <3>1, AskCounts DEF IInv
      <3>3. N(dns_result_, AnswersOf(h)) = N(dns_result_', AnswersOf(h)) + 1 /\ N(dns_result_', AnswersOf(h)) \in Nat
        BY <1>5, <1>6, <2>1
      <3> QED BY <3>1, <3>2, <3>3 DEF AskN, AskNat
    <2> QED BY <2>1
  <1>8. IsSite(k) /\ s.dns_is_resolving_
    <2>1. Owed(g) = 1
      BY <1>3, <1>7
    <2> QED BY <2>1 DEF Owed, Waits
  <1>9. Leave(k, t) /\ UNCHANGED <<phase, leaked>>
    BY <1>8 DEF DnsTurn
  <1> HIDE DEF d
  <1>10. s \in Website
    BY <1>4, <1>8 DEF IInv, DataOK, IsSite
  <1>11. got \in TurnOf(k) /\ Asking(k, got.site)
    BY <1>3, <1>4, <1>10, DnsResultType
  <1>12. t \in TurnOf(k)
    <2>1. SubmitHttpRequest(k, got.site) \in TurnOf(k)
      BY <1>4, <1>11, SubmitHttpRequestType DEF TurnOf
    <2> QED BY <1>11, <2>1, AndThenType
  <1>13. \A h \in Host : N(t.out, AskedPosts(h)) = Waits(k, t.site, h)
    <2>1. ASSUME NEW h \in Host PROVE N(t.out, AskedPosts(h)) = Waits(k, t.site, h)
      <3>1. N(got.out, AskedPosts(h)) = Waits(k, got.site, h)
        BY <1>3, <1>4, <1>10, DnsResultAsks
      <3>2. N(t.out, AskedPosts(h)) = N(got.out, AskedPosts(h)) /\ Waits(k, t.site, h) = Waits(k, got.site, h)
        <4> HIDE DEF got
        <4> QED BY <1>4, <1>11, AndThenAsks
      <3> HIDE DEF t, got, k
      <3> QED BY <3>1, <3>2
    <2> QED BY <2>1
  <1>14. \A h \in Host : Waits(k, t.site, h) \in {0, 1} /\ (k # HostKey(h) => Waits(k, t.site, h) = 0)
    BY DEF Waits
  <1> HIDE DEF t, k
  <1>15. \A h \in Host :
              /\ k = HostKey(h) => Owed(h) + N(dns_result_', AnswersOf(h)) + N(t.out, AskedPosts(h))
                                     = N(dns_result_, AnswersOf(h)) + Waits(k, t.site, h)
              /\ k # HostKey(h) => /\ N(dns_result_', AnswersOf(h)) = N(dns_result_, AnswersOf(h))
                                   /\ N(t.out, AskedPosts(h)) = 0
    <2>1. ASSUME NEW h \in Host
          PROVE  /\ k = HostKey(h) => Owed(h) + N(dns_result_', AnswersOf(h)) + N(t.out, AskedPosts(h))
                                     = N(dns_result_, AnswersOf(h)) + Waits(k, t.site, h)
                 /\ k # HostKey(h) => /\ N(dns_result_', AnswersOf(h)) = N(dns_result_, AnswersOf(h))
                                      /\ N(t.out, AskedPosts(h)) = 0
      <3>1. /\ N(dns_result_, AnswersOf(h)) = N(dns_result_', AnswersOf(h)) + (IF k = HostKey(h) THEN 1 ELSE 0)
            /\ N(dns_result_, AnswersOf(h)) \in Nat /\ N(dns_result_', AnswersOf(h)) \in Nat
        BY <1>5, <1>6
      <3>2. k = HostKey(h) => Owed(h) = 1
        BY <1>7
      <3>3. N(t.out, AskedPosts(h)) = Waits(k, t.site, h) /\ Waits(k, t.site, h) \in {0, 1}
            /\ (k # HostKey(h) => Waits(k, t.site, h) = 0)
        BY <1>13, <1>14
      <3> QED BY <3>1, <3>2, <3>3
    <2> QED BY <2>1
  <1> QED BY <1>1, <1>2, <1>4, <1>9, <1>12, <1>15, TurnAsks

LEMMA ResultTurnAsks == ASSUME IInv, AskInv, ResultTurn PROVE AskInv'
  <1> DEFINE x == Head(http_result_)
             k == x.site
             s == sites_map_[k]
             done == HttpResult(s, x)
             t == AndThen(done, SubmitHttpRequest(k, done.site))
  <1>1. x \in KnownResult /\ outbox = <<>>
    BY SeqTail DEF ResultTurn, Turning, IInv, SitesKnown
  <1>2. x \in Result /\ k \in Site /\ IsSite(k)
    BY <1>1 DEF KnownResult, Result
  <1>3. /\ UNCHANGED <<phase, dns_request_, resolving, dns_result_, leaked>>
        /\ Leave(k, t) /\ dns_result_' \in Seq(DnsEntity)
    BY DEF ResultTurn, loopVars, dnsVars, IInv, DataOK
  <1> HIDE DEF x
  <1>4. s \in Website /\ Asking(k, s)
    BY <1>2 DEF IInv, DataOK, IsSite, AllLookedAt, LookedAt, Asking
  <1>5. /\ done \in TurnOf(k) /\ Asking(k, done.site)
        /\ done.site.dns_is_resolving_ = s.dns_is_resolving_
    BY <1>2, <1>4, HttpResultType DEF Asking, IInv
  <1>6. t \in TurnOf(k)
    <2>1. SubmitHttpRequest(k, done.site) \in TurnOf(k)
      BY <1>2, <1>5, SubmitHttpRequestType DEF TurnOf
    <2> QED BY <1>5, <2>1, AndThenType
  <1>7. ASSUME NEW h \in Host
        PROVE  /\ k = HostKey(h) => Owed(h) + N(dns_result_', AnswersOf(h)) + N(t.out, AskedPosts(h))
                                     = N(dns_result_, AnswersOf(h)) + Waits(k, t.site, h)
               /\ k # HostKey(h) => /\ N(dns_result_', AnswersOf(h)) = N(dns_result_, AnswersOf(h))
                                    /\ N(t.out, AskedPosts(h)) = 0
    <2>1. N(done.out, AskedPosts(h)) = 0
      BY <1>2, <1>4, HttpResultAsks DEF IInv
    <2>2. N(t.out, AskedPosts(h)) = N(done.out, AskedPosts(h)) /\ Waits(k, t.site, h) = Waits(k, done.site, h)
      <3> HIDE DEF done, k
      <3> QED BY <1>2, <1>5, AndThenAsks
    <2>3. k = HostKey(h) => Owed(h) = Waits(k, done.site, h)
      BY <1>2, <1>5 DEF Owed, Waits
    <2>4. N(dns_result_', AnswersOf(h)) = N(dns_result_, AnswersOf(h)) /\ N(dns_result_, AnswersOf(h)) \in Nat
      BY <1>3, AtFinite DEF IInv, DataOK
    <2>5. Waits(k, done.site, h) \in {0, 1}
      BY OwedIs
    <2> HIDE DEF done, t, k
    <2> QED BY <2>1, <2>2, <2>3, <2>4, <2>5
  <1> HIDE DEF t, k
  <1> QED BY <1>1, <1>2, <1>3, <1>6, <1>7, TurnAsks

-----------------------------------------------------------------------------
(* The steps that hand questions and answers on, or have none in hand      *)

LEMMA AskKept ==
    ASSUME AskInv, UNCHANGED sites_map_, Alive', \A h \in Host : AskFinite(h)' /\ AskN(h)' = AskN(h)
    PROVE  AskInv'
  <1>1. ASSUME NEW h \in Host PROVE (AskFinite(h) /\ AskN(h) = Owed(h))'
    BY AskSets DEF AskInv
  <1>2. NoNull'
    BY DEF AskInv, NoNull
  <1> QED BY <1>1, <1>2 DEF AskInv, NoNull

LEMMA QuietAsks ==
    ASSUME AskInv, UNCHANGED <<sites_map_, dns_request_, resolving, dns_result_>>, Alive',
           \A h \in Host : N(outbox', AskedPosts(h)) = N(outbox, AskedPosts(h)),
           leaked' = leaked \/ \E q \in Request \cup Result : leaked' = leaked \cup {q}
    PROVE  AskInv'
  <1>1. \A q \in Request \cup Result : q \notin DnsEntity
    <2>1. \A d \in DnsEntity : DOMAIN d = {"host", "state"}
      BY DEF DnsEntity
    <2>2. \A q \in Request : DOMAIN q = {"res", "site"}
      BY DEF Request
    <2>3. \A q \in Result : DOMAIN q = {"res", "site", "state", "rqst"}
      BY DEF Result
    <2> QED BY <2>1, <2>2, <2>3
  <1>2. \A h \in Host : InLostAnswers(h)' = InLostAnswers(h) /\ InResolvers(h)' = InResolvers(h)
    BY <1>1 DEF InLostAnswers, InResolvers
  <1>3. \A h \in Host : AskFinite(h)' /\ AskN(h)' = AskN(h)
    BY <1>2 DEF AskInv, AskFinite, AskN
  <1> QED BY <1>3, AskKept

LEMMA ReadyTurnAsks == ASSUME IInv, AskInv, ReadyTurn PROVE AskInv'
  <1> DEFINE p == DownPost(Head(ready_list_))
  <1>1. /\ outbox = <<>> /\ outbox' = <<p>> /\ UNCHANGED <<sites_map_, dns_request_, resolving, dns_result_, leaked>>
        /\ Alive'
    BY DEF ReadyTurn, Turning, loopVars, dnsVars, Alive
  <1>2. p.to = "down" /\ p \in Post
    <2>1. Head(ready_list_) \in Request
      BY SeqTail DEF ReadyTurn, IInv, DataOK
    <2> QED BY <2>1 DEF DownPost, Post
  <1> HIDE DEF p
  <1>3. \A h \in Host : N(outbox', AskedPosts(h)) = N(outbox, AskedPosts(h))
    <2>1. \A h \in Host : p \notin AskedPosts(h)
      BY <1>2 DEF AskedPosts
    <2> QED BY <1>1, <1>2, <2>1, OneAt, NoneAt
  <1> QED BY <1>1, <1>3, QuietAsks

\* a push_wait that is no question
LEMMA PushesAsk ==
    ASSUME IInv, AskInv, PushDns \/ PushTimed \/ PushDown \/ PushStore
    PROVE  AskInv'
  <1> DEFINE p == Head(outbox)
  <1>1. /\ outbox # <<>> /\ outbox' = Tail(outbox) /\ UNCHANGED <<sites_map_, phase, leaked, resolving, dns_result_>>
        /\ outbox \in Seq(Post)
    BY DEF PushDns, PushTimed, PushDown, PushStore, PushWait, loopVars, dnsVars, IInv, DataOK
  <1>2. p \in Post /\ p \in KnownPost
    BY <1>1, SeqTail DEF IInv, SitesKnown
  <1>3. ASSUME NEW h \in Host
        PROVE  /\ N(outbox, AskedPosts(h)) = N(outbox', AskedPosts(h)) + One(p \in AskedPosts(h))
               /\ N(outbox', AskedPosts(h)) \in Nat
    BY <1>1, PopN
  <1>4. Alive'
    BY <1>1 DEF AskInv, Alive
  <1> HIDE DEF p
  <1>5. CASE PushTimed \/ PushDown \/ PushStore
    <2>1. p.to # "dns" /\ UNCHANGED dns_request_
      BY <1>5 DEF PushTimed, PushDown, PushStore, PushWait, dnsVars, p
    <2>2. \A h \in Host : N(outbox', AskedPosts(h)) = N(outbox, AskedPosts(h))
      <3>1. \A h \in Host : One(p \in AskedPosts(h)) = 0
        BY <2>1 DEF AskedPosts, One
      <3> QED BY <1>3, <3>1
    <2> QED BY <1>1, <1>4, <2>1, <2>2, QuietAsks
  <1>6. CASE PushDns
    <2>1. p.to = "dns" /\ dns_request_' = Append(dns_request_, p.item) /\ dns_request_ \in Seq(Host)
      BY <1>6 DEF PushDns, PushWait, p, IInv, DataOK
    <2>2. p.item \in Host
      BY <1>2, <2>1, PostItem
    <2>3. ASSUME NEW h \in Host PROVE AskFinite(h)' /\ AskN(h)' = AskN(h)
      <3>1. /\ N(dns_request_', Named(h)) = N(dns_request_, Named(h)) + One(p.item \in Named(h))
            /\ N(dns_request_, Named(h)) \in Nat
        BY <2>1, <2>2, PutN
      <3>2. One(p.item \in Named(h)) = One(p \in AskedPosts(h)) /\ One(p \in AskedPosts(h)) \in {0, 1}
        BY <1>2, <2>1 DEF Named, AskedPosts, One
      <3>3. InResolvers(h)' = InResolvers(h) /\ InLostAnswers(h)' = InLostAnswers(h)
        BY <1>1, AskSets
      <3>4. AskFinite(h) /\ AskNat(h)
        BY AskCounts DEF AskInv, IInv
      <3> QED BY <1>1, <1>3, <3>1, <3>2, <3>3, <3>4 DEF AskFinite, AskNat, AskN
    <2> QED BY <1>1, <1>4, <2>3, AskKept
  <1> QED BY <1>5, <1>6

LEMMA ResolvePopAsks == ASSUME IInv, AskInv, NEW t \in Resolver, ResolvePop(t) PROVE AskInv'
  <1> DEFINE g == Head(dns_request_)
  <1>1. /\ dns_request_ \in Seq(Host) /\ dns_request_ # <<>> /\ dns_request_' = Tail(dns_request_)
        /\ resolving[t] = Idle /\ resolving' = [resolving EXCEPT ![t] = g]
        /\ UNCHANGED <<sites_map_, phase, outbox, dns_result_, leaked>>
        /\ resolving \in [Resolver -> Host \cup {Idle}]
    BY DEF ResolvePop, siteVars, loopVars, IInv, DataOK
  <1>2. g \in Host
    BY <1>1, SeqTail
  <1>3. ASSUME NEW h \in Host PROVE AskFinite(h)' /\ AskN(h)' = AskN(h)
    <2> DEFINE e == One(g \in Named(h))
    <2>1. N(dns_request_, Named(h)) = N(dns_request_', Named(h)) + e /\ N(dns_request_', Named(h)) \in Nat
      BY <1>1, PopN
    <2>2. e \in {0, 1} /\ (e = 1 <=> g = h)
      BY DEF One, Named
    <2>3. AskFinite(h) /\ AskNat(h)
      BY AskCounts DEF AskInv, IInv
    <2>4. InLostAnswers(h)' = InLostAnswers(h)
      BY <1>1, AskSets
    <2> HIDE DEF g, e
    <2>5. t \notin InResolvers(h)
      BY <1>1, KindAssumption DEF InResolvers
    <2>6. InResolvers(h)' = IF e = 1 THEN InResolvers(h) \cup {t} ELSE InResolvers(h)
      BY <1>1, <2>2, KindAssumption DEF InResolvers
    <2>7. IsFiniteSet(InResolvers(h)') /\ Cardinality(InResolvers(h)') = Cardinality(InResolvers(h)) + e
      BY <2>2, <2>3, <2>5, <2>6, Gains DEF AskFinite
    <2>8. AskFinite(h)'
      BY <2>3, <2>4, <2>7 DEF AskFinite
    <2> QED BY <1>1, <2>1, <2>2, <2>3, <2>4, <2>7, <2>8 DEF AskNat, AskN
  <1>4. Alive'
    BY <1>1 DEF AskInv, Alive
  <1> QED BY <1>1, <1>3, <1>4, AskKept

LEMMA ResolvePushAsks ==
    ASSUME IInv, AskInv, NEW t \in Resolver, NEW answer \in {"OK", "ERROR"}, ResolvePush(t, answer)
    PROVE  AskInv'
  <1> DEFINE g == resolving[t]
             d == [host |-> g, state |-> answer]
  <1>1. /\ dns_result_ \in Seq(DnsEntity) /\ g # Idle /\ resolving' = [resolving EXCEPT ![t] = Idle]
        /\ dns_result_' = Pushed(dns_result_, DNS_rslt_queue_size, d)
        /\ leaked' = leaked \cup Dropped(dns_result_, DNS_rslt_queue_size, d)
        /\ UNCHANGED <<sites_map_, phase, outbox, dns_request_>>
        /\ resolving \in [Resolver -> Host \cup {Idle}]
    BY DEF ResolvePush, siteVars, loopVars, IInv, DataOK
  <1>2. g \in Host /\ d \in DnsEntity
    BY <1>1 DEF DnsEntity
  <1>3. ASSUME NEW h \in Host PROVE AskFinite(h)' /\ AskN(h)' = AskN(h)
    <2> DEFINE e == One(g = h)
    <2>1. e \in {0, 1} /\ (e = 1 <=> g = h) /\ (d \in AnswersOf(h) <=> g = h)
      BY <1>2 DEF One, AnswersOf
    <2>2. AskFinite(h) /\ AskNat(h) /\ AskN(h) \in {0, 1}
      BY AskCounts, OwedIs DEF AskInv, IInv
    <2>3. InResolvers(h)' = InResolvers(h) \ {t} /\ (t \in InResolvers(h) <=> g = h)
      BY <1>1, KindAssumption DEF InResolvers
    <2> HIDE DEF e, g, d
    <2>4. One(t \in InResolvers(h)) = e
      BY <2>3 DEF One, e
    <2>5. /\ IsFiniteSet(InResolvers(h)') /\ Cardinality(InResolvers(h)') \in Nat
          /\ Cardinality(InResolvers(h)) = Cardinality(InResolvers(h)') + e
      BY <2>2, <2>3, <2>4, Loses DEF AskFinite
    <2>6. CASE Full(dns_result_, DNS_rslt_queue_size)
      <3>1. dns_result_' = dns_result_ /\ leaked' = leaked \cup {d}
        BY <1>1, <2>6 DEF Pushed, Dropped
      <3>2. InLostAnswers(h)' = IF e = 1 THEN InLostAnswers(h) \cup {d} ELSE InLostAnswers(h)
        BY <1>2, <2>1, <3>1 DEF InLostAnswers, d
      <3>3. e = 1 => d \notin InLostAnswers(h)
        <4>1. e = 1 => Cardinality(InLostAnswers(h)) = 0
          BY <2>2, <2>5 DEF AskNat, AskN
        <4>2. IsFiniteSet(InLostAnswers(h))
          BY <2>2 DEF AskFinite
        <4> QED BY <4>1, <4>2, FS_EmptySet
      <3>4. /\ IsFiniteSet(InLostAnswers(h)') /\ Cardinality(InLostAnswers(h)') = Cardinality(InLostAnswers(h)) + e
        <4>1. CASE e = 1
          BY <2>1, <2>2, <3>2, <3>3, <4>1, Gains DEF AskFinite
        <4>2. CASE e = 0
          BY <2>2, <3>2, <4>2 DEF AskFinite, AskNat
        <4> QED BY <2>1, <4>1, <4>2
      <3> QED BY <1>1, <2>1, <2>2, <2>5, <3>1, <3>4 DEF AskFinite, AskNat, AskN
    <2>7. CASE ~Full(dns_result_, DNS_rslt_queue_size)
      <3>1. dns_result_' = Append(dns_result_, d) /\ leaked' = leaked
        BY <1>1, <2>7 DEF Pushed, Dropped
      <3>2. InLostAnswers(h)' = InLostAnswers(h)
        BY <3>1, AskSets
      <3>3. One(d \in AnswersOf(h)) = e
        BY <2>1 DEF One, e
      <3>4. N(dns_result_', AnswersOf(h)) = N(dns_result_, AnswersOf(h)) + e
        BY <1>1, <1>2, <3>1, <3>3, PutN
      <3> QED BY <1>1, <2>1, <2>2, <2>5, <3>2, <3>4 DEF AskFinite, AskNat, AskN
    <2> QED BY <2>6, <2>7
  <1>4. Alive'
    BY <1>1 DEF AskInv, Alive
  <1> QED BY <1>1, <1>3, <1>4, AskKept

LEMMA InitAsks == ASSUME Init PROVE AskInv
  <1>1. /\ dns_request_ = <<>> /\ outbox = <<>> /\ dns_result_ = <<>> /\ leaked = {}
        /\ resolving = [t \in Resolver |-> Idle] /\ \A k \in Site : sites_map_[k] = Absent
    BY DEF Init, Fresh
  <1>2. ASSUME NEW h \in Host PROVE AskFinite(h) /\ AskN(h) = Owed(h)
    <2>1. InResolvers(h) = {} /\ InLostAnswers(h) = {}
      BY <1>1, KindAssumption DEF InResolvers, InLostAnswers
    <2>2. Owed(h) = 0
      BY <1>1, HostKeys DEF Owed, IsSite, AnyHost
    <2> QED BY <1>1, <2>1, <2>2, NoneAt, FS_EmptySet DEF AskFinite, AskN
  <1> QED BY <1>1, <1>2, NullAssumption DEF AskInv, Init, Fresh, Alive

LEMMA StepAsks == ASSUME DefaultPorts, IInv, AskInv, [Next]_vars PROVE AskInv'
  <1>1. CASE \E r \in Res : Submit(r)
    BY <1>1, QuietAsks DEF Submit, siteVars, loopVars, dnsVars, Alive
  <1>2. CASE EndRes \/ EndDns \/ EndReady \/ EndResult
    <2>1. UNCHANGED <<sites_map_, outbox, dns_request_, resolving, dns_result_, leaked>> /\ Alive'
      BY <1>2 DEF EndRes, EndDns, EndReady, EndResult, NextLoop, siteVars, dnsVars, Alive
    <2> QED BY <2>1, QuietAsks
  <1>3. CASE WaitPop \/ \E q \in Request : Timeout(q)
    <2>1. PICK q \in Request : (WaitPop /\ q = Head(wait_list_)) \/ Timeout(q)
      <3>1. wait_list_ # <<>> => Head(wait_list_) \in Request
        BY SeqTail DEF IInv, DataOK
      <3> QED BY <1>3, <3>1 DEF WaitPop
    <2>2. UNCHANGED <<sites_map_, outbox, dns_request_, resolving, dns_result_>> /\ Alive'
      BY <2>1 DEF WaitPop, Timeout, siteVars, loopVars, dnsVars, Alive
    <2>3. leaked' = leaked \/ leaked' = leaked \cup {q}
      BY <2>1 DEF WaitPop, Timeout, BecomeReady, Dropped
    <2> QED BY <2>2, <2>3, QuietAsks
  <1>4. CASE DownloadPop
    BY <1>4, QuietAsks DEF DownloadPop, siteVars, loopVars, dnsVars, Alive
  <1>5. ASSUME NEW q \in Request, NEW state \in {"OK", "ERROR"}, DownloadEnd(q, state)
        PROVE  AskInv'
    <2> DEFINE x == [res |-> q.res, site |-> q.site, state |-> state, rqst |-> TRUE]
    <2>1. UNCHANGED <<sites_map_, outbox, dns_request_, resolving, dns_result_>> /\ Alive' /\ x \in Result
      BY <1>5 DEF DownloadEnd, siteVars, loopVars, dnsVars, Alive, Request, Result
    <2>2. leaked' = leaked \cup Dropped(http_result_, DOWN_rslt_queue_size, x)
      BY <1>5 DEF DownloadEnd
    <2> HIDE DEF x
    <2>3. leaked' = leaked \/ leaked' = leaked \cup {x}
      BY <2>2 DEF Dropped
    <2> QED BY <2>1, <2>3, QuietAsks
  <1>6. CASE \E t \in Writer : StorePop(t) \/ StoreWrite(t)
    <2>1. UNCHANGED <<sites_map_, outbox, dns_request_, resolving, dns_result_, leaked>> /\ Alive'
      BY <1>6 DEF StorePop, StoreWrite, siteVars, loopVars, dnsVars, Alive
    <2> QED BY <2>1, QuietAsks
  <1>7. CASE UNCHANGED vars
    <2>1. UNCHANGED <<sites_map_, outbox, dns_request_, resolving, dns_result_, leaked>> /\ Alive'
      BY <1>7 DEF vars, siteVars, loopVars, dnsVars, Alive, AskInv
    <2> QED BY <2>1, QuietAsks
  <1> QED BY <1>1, <1>2, <1>3, <1>4, <1>5, <1>6, <1>7, ResTurnAsks, DnsTurnAsks, ReadyTurnAsks, ResultTurnAsks,
             PushesAsk, ResolvePopAsks, ResolvePushAsks DEF Next, Scheduler

LEMMA AskedN ==
    ASSUME DataOK, NEW h \in Host, AskFinite(h)
    PROVE  Cardinality(Asked(h)) + Cardinality(InLostAnswers(h)) = AskN(h)
  <1> DEFINE A1 == PlacesOf("request", dns_request_, Named(h))
             A2 == PlacesOf("outbox", outbox, AskedPosts(h))
             A3 == {<<"resolver", t, h>> : t \in InResolvers(h)}
             A4 == PlacesOf("answer", dns_result_, AnswersOf(h))
             f == [t \in InResolvers(h) |-> <<"resolver", t, h>>]
  <1>1. /\ IsFiniteSet(A1) /\ Cardinality(A1) = N(dns_request_, Named(h)) /\ \A p \in A1 : p[1] = "request"
        /\ IsFiniteSet(A2) /\ Cardinality(A2) = N(outbox, AskedPosts(h)) /\ \A p \in A2 : p[1] = "outbox"
        /\ IsFiniteSet(A4) /\ Cardinality(A4) = N(dns_result_, AnswersOf(h)) /\ \A p \in A4 : p[1] = "answer"
    <2>1. dns_request_ \in Seq(Host) /\ outbox \in Seq(Post) /\ dns_result_ \in Seq(DnsEntity)
      BY DEF DataOK
    <2> QED BY <2>1, PlacesN
  <1>2. IsFiniteSet(A3) /\ Cardinality(A3) = Cardinality(InResolvers(h)) /\ \A p \in A3 : p[1] = "resolver"
    <2>1. f \in [InResolvers(h) -> A3] /\ (\A x, y \in InResolvers(h) : f[x] = f[y] => x = y)
          /\ (\A p \in A3 : p[1] = "resolver")
      OBVIOUS
    <2>2. \A z \in A3 : \E x \in InResolvers(h) : f[x] = z
      OBVIOUS
    <2> HIDE DEF f, A3
    <2> QED BY <2>1, <2>2, Renamed DEF AskFinite
  <1>3. Asked(h) = ((A1 \cup A2) \cup A3) \cup A4
    <2>1. A1 = {p \in Places("request", dns_request_) : p[3] = h}
      BY DEF PlacesOf, Named
    <2>2. A2 = {p \in Posted("dns") : p[3].item = h}
      <3>1. \A p \in Places("outbox", outbox) : p[3] \in Post
        BY DEF Places, DataOK
      <3> QED BY <3>1 DEF PlacesOf, Posted, AskedPosts
    <2>3. A3 = {<<"resolver", t, h>> : t \in {t \in Resolver : resolving[t] = h}}
      BY DEF InResolvers
    <2>4. A4 = {p \in Places("answer", dns_result_) : p[3].host = h}
      <3>1. \A p \in Places("answer", dns_result_) : p[3] \in DnsEntity
        BY DEF Places, DataOK
      <3> QED BY <3>1 DEF PlacesOf, AnswersOf
    <2> HIDE DEF A1, A2, A3, A4
    <2> QED BY <2>1, <2>2, <2>3, <2>4 DEF Asked
  <1> HIDE DEF A1, A2, A3, A4
  <1>4. IsFiniteSet(A1 \cup A2) /\ Cardinality(A1 \cup A2) = Cardinality(A1) + Cardinality(A2)
    <2>1. A1 \cap A2 = {}
      BY <1>1
    <2> QED BY <1>1, <2>1, Disjoint
  <1>5. IsFiniteSet((A1 \cup A2) \cup A3) /\ Cardinality((A1 \cup A2) \cup A3) = Cardinality(A1 \cup A2) + Cardinality(A3)
    <2>1. (A1 \cup A2) \cap A3 = {}
      BY <1>1, <1>2
    <2> QED BY <1>2, <1>4, <2>1, Disjoint
  <1>6. Cardinality(((A1 \cup A2) \cup A3) \cup A4) = Cardinality((A1 \cup A2) \cup A3) + Cardinality(A4)
    <2>1. ((A1 \cup A2) \cup A3) \cap A4 = {}
      BY <1>1, <1>2
    <2> QED BY <1>1, <1>5, <2>1, Disjoint
  <1>7. AskNat(h)
    BY AskCounts
  <1> QED BY <1>1, <1>2, <1>3, <1>4, <1>5, <1>6, <1>7 DEF AskN, AskNat

LEMMA AskInvariance == DefaultPorts => (Spec => [](IInv /\ AskInv))
  <1> SUFFICES ASSUME DefaultPorts PROVE Spec => [](IInv /\ AskInv)
    OBVIOUS
  <1>1. Init => AskInv
    BY InitAsks
  <1>2. IInv /\ AskInv /\ [Next]_vars => AskInv'
    BY StepAsks
  <1> QED BY <1>1, <1>2, Invariance, PTL DEF Spec

(* Website::submitDnsRequest and dnsResult: when every URL is on the       *)
(* default port, a site waits for an answer exactly while one question     *)
(* about its host is somewhere between svc and the resolvers, or its       *)
(* answer was dropped by a full queue.                                     *)
THEOREM QuestionsAreAskedOnce == DefaultPorts => (Spec => []ResolvingIsAskedOnce)
  <1> SUFFICES ASSUME DefaultPorts PROVE Spec => []ResolvingIsAskedOnce
    OBVIOUS
  <1>1. IInv /\ AskInv => ResolvingIsAskedOnce
    <2> SUFFICES ASSUME IInv, AskInv, NEW h \in Host
                 PROVE  Cardinality(Asked(h)) + Cardinality({d \in leaked : d \in DnsEntity /\ d.host = h})
                          = IF IsSite(HostKey(h)) /\ sites_map_[HostKey(h)].dns_is_resolving_ THEN 1 ELSE 0
      BY DEF ResolvingIsAskedOnce
    <2>1. AskFinite(h) /\ AskN(h) = Owed(h)
      BY DEF AskInv
    <2>2. Cardinality(Asked(h)) + Cardinality(InLostAnswers(h)) = Owed(h)
      BY <2>1, AskedN DEF IInv
    <2>3. InLostAnswers(h) = {d \in leaked : d \in DnsEntity /\ d.host = h}
      BY DEF InLostAnswers
    <2> QED BY <2>2, <2>3 DEF Owed, Waits
  <1> QED BY <1>1, AskInvariance, PTL

(* The assert of Website::dnsResult and the lookup before it: when every   *)
(* URL is on the default port, an answer finds its site, waiting for it,   *)
(* and svc never stops at an assert.  (With other ports it does: the run   *)
(* of AnswerIsAwaited.)                                                    *)
THEOREM AnswersAreAwaited == DefaultPorts => (Spec => [](AnswerIsAwaited /\ Alive))
  <1> SUFFICES ASSUME DefaultPorts PROVE Spec => [](AnswerIsAwaited /\ Alive)
    OBVIOUS
  <1>1. IInv /\ AskInv => AnswerIsAwaited
    <2> SUFFICES ASSUME IInv, AskInv, dns_result_ # <<>>, NEW d, d = Head(dns_result_), IsSite(HostKey(d.host))
                 PROVE  sites_map_[HostKey(d.host)].dns_is_resolving_
      BY DEF AnswerIsAwaited
    <2>1. d \in DnsEntity /\ dns_result_ \in Seq(DnsEntity)
      BY SeqTail DEF IInv, DataOK
    <2> DEFINE h == d.host
    <2>2. h \in Host
      BY <2>1 DEF DnsEntity
    <2>3. AskFinite(h) /\ AskN(h) = Owed(h) /\ Owed(h) \in {0, 1}
      BY <2>2, OwedIs DEF AskInv
    <2>4. AskNat(h)
      BY <2>3, AskCounts DEF IInv
    <2>5. N(dns_result_, AnswersOf(h)) = N(Tail(dns_result_), AnswersOf(h)) + 1 /\ N(Tail(dns_result_), AnswersOf(h)) \in Nat
      <3>1. d \in AnswersOf(h)
        BY <2>1 DEF AnswersOf
      <3> QED BY <2>1, <3>1, PopN DEF One
    <2>6. Owed(h) = 1
      BY <2>3, <2>4, <2>5 DEF AskN, AskNat
    <2> QED BY <2>6 DEF Owed, Waits
  <1>2. AskInv => Alive
    BY DEF AskInv
  <1> QED BY <1>1, <1>2, AskInvariance, PTL

=============================================================================
