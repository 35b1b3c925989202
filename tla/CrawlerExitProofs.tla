------------------------- MODULE CrawlerExitProofs -------------------------
(***************************************************************************)
(* The start and the exit of the process, for any resources, URLs, threads *)
(* and queue sizes of CrawlerExit and any number of starts.                *)
(*                                                                         *)
(* The lemmas of CrawlerProofs and CrawlerResProofs are about a step of    *)
(* module Crawler wherever svc stands; here they are joined by one lemma   *)
(* for each step of the start, the exit and the next start.                *)
(***************************************************************************)
EXTENDS CrawlerExit, CrawlerResProofs

\* what a dump record holds
DumpRecord == [res: Res, err_count: 0..DOWN_err_retry_max]

ExitPhases == {"drain", "ready_dump", "list_dump", "site_dump", "stop", "exited", "undumped"}

FileOK ==
    /\ file \in Seq(DumpRecord) /\ unread \in Seq(DumpRecord) /\ dumped \in SUBSET Res
    /\ phase \in {"boot", "load", "go", "res", "dns", "ready", "result", "abort"} \cup ExitPhases

\* before the loops of svc there is nothing to write
EarlyOK ==
    phase \in {"boot", "load"} =>
        outbox = <<>> /\ store_result_ = <<>> /\ \A t \in Writer : storing[t] = Idle

MainInv  == IInv /\ FileOK
ExitIInv == IInv /\ FileOK /\ EarlyOK

-----------------------------------------------------------------------------
(* Types                                                                   *)

\* all that holds resources or speaks of sites
memory == <<accepted, err_count, res_list_, siteVars, dnsVars, waitVars, downVars, storeVars, leaked>>

\* the steps of the start, of the exit and of main that touch none of it
QuietStep ==
    \/ Boot \/ LoadEnd \/ Go \/ Signal \/ EndRound \/ DumpNull \/ Ends \/ ExitStage
    \/ \E p \in Pools : StopPool(p) \/ JoinPool(p)

\* the steps of module Crawler that the process makes besides
CoreStep == (Loops \/ Worker) /\ UNCHANGED exitVars

\* the process ends in the midst of everything
LEMMA EndsAbort ==
    ASSUME DumpNull \/ Ends
    PROVE  phase' = "abort" /\ max_slot' = max_slot /\ UNCHANGED memory /\ UNCHANGED exitVars
  <1>1. CASE DumpNull
    BY <1>1 DEF DumpNull, Abort, memory
  <1>2. CASE Ends
    BY <1>2 DEF Ends, DestroyRunning, WriteFails, Abort, memory
  <1> QED BY <1>1, <1>2

LEMMA QuietStepMemory ==
    ASSUME QuietStep
    PROVE  /\ UNCHANGED memory
           /\ max_slot' = max_slot \/ max_slot' = RES_add_res_each_loop
  <1> USE DEF memory, vars, loopVars, siteVars
  <1>1. CASE Boot \/ LoadEnd \/ Go \/ EndRound
    BY <1>1 DEF Boot, LoadEnd, Go, EndRound
  <1>2. CASE Signal
    BY <1>2 DEF Signal
  <1>3. CASE DumpNull \/ Ends
    BY <1>3, EndsAbort
  <1>4. CASE ExitStage
    BY <1>4 DEF ExitStage, NextStage
  <1>5. CASE \E p \in Pools : StopPool(p) \/ JoinPool(p)
    BY <1>5 DEF StopPool, JoinPool
  <1> QED BY <1>1, <1>2, <1>3, <1>4, <1>5 DEF QuietStep

LEMMA MemoryInv ==
    ASSUME IInv, UNCHANGED memory, max_slot' = max_slot \/ max_slot' = RES_add_res_each_loop
    PROVE  IInv'
  <1>1. UNCHANGED <<siteVars, waitVars, downVars>>
    BY DEF memory
  <1>2. SitesKnown' /\ AllLookedAt'
    BY <1>1, StayType DEF IInv, SitesKnown, siteVars, waitVars, downVars
  <1>3. max_slot' \in 0..RES_add_res_each_loop
    <2>1. RES_add_res_each_loop \in 0..RES_add_res_each_loop /\ max_slot \in 0..RES_add_res_each_loop
      BY LimitAssumption DEF IInv, DataOK
    <2> QED BY <2>1
  <1>4. DataOK'
    BY <1>3 DEF IInv, DataOK, memory, siteVars, dnsVars, waitVars, downVars, storeVars
  <1> QED BY <1>2, <1>4 DEF IInv

LEMMA CoreInv == ASSUME IInv, CoreStep PROVE IInv'
  BY ResTurnInv, DnsTurnInv, ReadyTurnInv, ResultTurnInv, EndLoopInv, PushInv, ResolverInv, WaiterInv,
     DownloaderInv, WriterInv
  DEF CoreStep, Loops, Worker

LEMMA DrainTurnInv == ASSUME IInv, DrainTurn PROVE IInv'
  <1> DEFINE x == Head(http_result_)
  <1>1. /\ http_result_ \in Seq(Result) /\ http_result_ \in Seq(KnownResult) /\ http_result_ # <<>>
        /\ http_result_' = Tail(http_result_) /\ outbox' = <<StorePost(x)>> /\ UNCHANGED sites_map_
    BY DEF DrainTurn, IInv, DataOK, SitesKnown
  <1>2. x \in Result /\ x \in KnownResult /\ Tail(http_result_) \in Seq(Result) /\ Tail(http_result_) \in Seq(KnownResult)
    BY <1>1, SeqTail
  <1>3. StorePost(x) \in Post /\ StorePost(x) \in KnownPost
    BY <1>2 DEF StorePost, Post, KnownPost, KnownResult
  <1>4. outbox' \in Seq(Post) /\ outbox' \in Seq(KnownPost)
    BY <1>1, <1>3, SeqOne
  <1>5. /\ KnownRequest' = KnownRequest /\ KnownResult' = KnownResult
        /\ KnownPost' = KnownPost /\ AllLookedAt'
    BY <1>1, StayType DEF IInv
  <1> HIDE DEF x
  <1>6. DataOK'
    BY <1>1, <1>2, <1>4 DEF DrainTurn, IInv, DataOK, loopVars, dnsVars, waitVars, storeVars
  <1>7. SitesKnown'
    BY <1>1, <1>2, <1>4, <1>5 DEF DrainTurn, IInv, SitesKnown, waitVars
  <1> QED BY <1>5, <1>6, <1>7 DEF IInv

\* a dump takes its resource out of the ready queue, the list or a site
DumpStep == DumpReady \/ DumpList \/ \E k \in Site : DumpSite(k)

LEMMA DumpInv == ASSUME IInv, DumpStep PROVE IInv'
  <1> USE DEF Dump
  <1>1. CASE DumpReady
    <2>1. /\ Tail(ready_list_) \in Seq(Request) /\ Tail(ready_list_) \in Seq(KnownRequest) /\ UNCHANGED sites_map_
      BY <1>1, SeqTail DEF DumpReady, IInv, DataOK, SitesKnown
    <2>2. /\ KnownRequest' = KnownRequest /\ KnownResult' = KnownResult
          /\ KnownPost' = KnownPost /\ AllLookedAt'
      BY <2>1, StayType DEF IInv
    <2> QED BY <1>1, <2>1, <2>2 DEF DumpReady, IInv, DataOK, SitesKnown, loopVars, dnsVars, downVars, storeVars
  <1>2. CASE DumpList
    <2>1. Tail(res_list_) \in Seq(Res) /\ UNCHANGED sites_map_
      BY <1>2, SeqTail DEF DumpList, IInv, DataOK
    <2>2. /\ KnownRequest' = KnownRequest /\ KnownResult' = KnownResult
          /\ KnownPost' = KnownPost /\ AllLookedAt'
      BY <2>1, StayType DEF IInv
    <2> QED BY <1>2, <2>1, <2>2 DEF DumpList, IInv, DataOK, SitesKnown, loopVars, dnsVars, waitVars, downVars,
            storeVars
  <1>3. ASSUME NEW k \in Site, DumpSite(k) PROVE IInv'
    <2> DEFINE s == sites_map_[k]
               t == [s EXCEPT !.res_list_ = Tail(@)]
    <2>1. s \in Website /\ s.res_list_ # <<>> /\ IsSite(k) /\ LookedAt(k, s)
      BY <1>3 DEF DumpSite, IInv, DataOK, IsSite, AllLookedAt
    <2>2. t \in Website /\ LookedAt(k, t)
      <3>1. Tail(s.res_list_) \in Seq(Res)
        BY <2>1, SeqTail DEF Website
      <3>2. t \in Website /\ t.dns_state = s.dns_state /\ t.is_fetching_ = s.is_fetching_
            /\ t.dns_is_resolving_ = s.dns_is_resolving_
        BY <2>1, <3>1 DEF Website
      <3> HIDE DEF t, s
      <3> QED BY <2>1, <3>2 DEF LookedAt
    <2>3. sites_map_' = [sites_map_ EXCEPT ![k] = t]
      BY <1>3 DEF DumpSite
    <2> HIDE DEF t, s
    <2>4. /\ sites_map_' \in [Site -> Website \cup {Null, Absent}] /\ sites_map_'[k] = t
          /\ \A j \in Site : j # k => sites_map_'[j] = sites_map_[j]
      BY <2>2, <2>3 DEF IInv, DataOK
    <2>5. \A j \in Site : IsSite(j)' <=> IsSite(j)
      BY <2>1, <2>2, <2>4, NullAssumption DEF IsSite
    <2>6. AllLookedAt'
      <3>1. ASSUME NEW j \in Site, IsSite(j)' PROVE LookedAt(j, sites_map_'[j])
        BY <2>2, <2>4, <2>5, <3>1 DEF IInv, AllLookedAt
      <3> QED BY <3>1 DEF AllLookedAt, LookedAt
    <2>7. KnownRequest' = KnownRequest /\ KnownResult' = KnownResult /\ KnownPost' = KnownPost
      BY <2>5 DEF KnownRequest, KnownResult, KnownPost, Request, Result, Post
    <2> QED BY <1>3, <2>4, <2>6, <2>7 DEF DumpSite, IInv, DataOK, SitesKnown, loopVars, dnsVars, waitVars, downVars,
            storeVars
  <1> QED BY <1>1, <1>2, <1>3 DEF DumpStep

LEMMA LoadOneInv == ASSUME IInv, FileOK, LoadOne PROVE IInv'
  <1> DEFINE x == Head(unread)
  <1>1. x \in DumpRecord /\ unread # <<>>
    BY SeqTail DEF LoadOne, FileOK
  <1>2. x.res \in Res /\ x.err_count \in 0..DOWN_err_retry_max
    BY <1>1 DEF DumpRecord
  <1>3. res_list_' \in Seq(Res) /\ err_count' \in [Res -> 0..DOWN_err_retry_max]
    BY <1>2, SeqAppend DEF LoadOne, IInv, DataOK
  <1>4. /\ KnownRequest' = KnownRequest /\ KnownResult' = KnownResult
        /\ KnownPost' = KnownPost /\ AllLookedAt'
    BY StayType DEF LoadOne, IInv, siteVars
  <1> HIDE DEF x
  <1>5. DataOK'
    BY <1>3 DEF LoadOne, IInv, DataOK, siteVars, loopVars, dnsVars, waitVars, downVars, storeVars
  <1>6. SitesKnown'
    BY <1>4 DEF LoadOne, IInv, SitesKnown, siteVars, loopVars, dnsVars, waitVars, downVars, storeVars
  <1> QED BY <1>4, <1>5, <1>6 DEF IInv

LEMMA RestartInv == ASSUME IInv, Restart PROVE IInv'
  <1>1. \A k \in Site : ~IsSite(k)'
    BY DEF Restart, IsSite
  <1>2. DataOK'
    <2>0. /\ accepted' = accepted /\ accepted \in SUBSET Res
          /\ err_count' = [r \in Res |-> 0] /\ max_slot' = RES_add_res_each_loop
      BY DEF Restart, IInv, DataOK
    <2>1. /\ accepted' \in SUBSET Res /\ err_count' \in [Res -> 0..DOWN_err_retry_max]
          /\ max_slot' \in 0..RES_add_res_each_loop
      BY ONLY <2>0, LimitAssumption
    <2>2. sites_map_' \in [Site -> Website \cup {Null, Absent}]
      BY DEF Restart
    <2>3. resolving' \in [Resolver -> Host \cup {Idle}]
      BY DEF Restart
    <2>4. storing' \in [Writer -> Result \cup {Idle}]
      BY DEF Restart
    <2> QED BY <2>1, <2>2, <2>3, <2>4 DEF Restart, IInv, DataOK
  <1>3. SitesKnown'
    BY DEF Restart, SitesKnown
  <1> QED BY <1>1, <1>2, <1>3 DEF IInv, AllLookedAt

LEMMA ExitCases ==
    ASSUME [ExitNext]_allVars
    PROVE  \/ QuietStep \/ CoreStep \/ DrainTurn \/ DumpStep \/ LoadOne \/ Restart
           \/ \E r \in Res \ ReadOnly : Submit(r) /\ phase # "exited" /\ UNCHANGED exitVars
           \/ UNCHANGED allVars
  BY DEF ExitNext, Svc, QuietStep, CoreStep, DumpStep

LEMMA CorePhase ==
    ASSUME CoreStep
    PROVE  phase' = phase \/ (InLoop /\ phase' \in {"dns", "ready", "result", "abort"})
  <1>1. CASE Worker
    BY <1>1 DEF Worker, ResolvePop, ResolvePush, WaitPop, Timeout, DownloadPop, DownloadEnd, StorePop, StoreWrite,
       loopVars
  <1>2. CASE ResTurn \/ DnsTurn
    BY <1>2 DEF ResTurn, DnsTurn, KnownSite, FreshSite, Abort, Turning, InLoop
  <1>3. CASE ReadyTurn \/ ResultTurn
    BY <1>3 DEF ReadyTurn, ResultTurn, loopVars
  <1>4. CASE EndRes \/ EndDns \/ EndReady
    BY <1>4 DEF EndRes, EndDns, EndReady, NextLoop, Turning, InLoop
  <1>5. CASE PushDns \/ PushTimed \/ PushDown \/ PushStore
    BY <1>5 DEF PushDns, PushTimed, PushDown, PushStore, PushWait, loopVars
  <1> QED BY <1>1, <1>2, <1>3, <1>4, <1>5 DEF CoreStep, Loops

LEMMA DumpOfWhat ==
    ASSUME IInv, DumpStep
    PROVE  /\ \E r \in Res, as \in Res : as \in {r, ReadBack[r]} /\ Dump(r, as)
           /\ phase' = phase /\ phase \in {"ready_dump", "list_dump", "site_dump"}
  <1>0. phase' = phase /\ phase \in {"ready_dump", "list_dump", "site_dump"}
    BY DEF DumpStep, DumpReady, DumpList, DumpSite, Dump, loopVars
  <1>1. CASE DumpReady
    <2>1. Head(ready_list_).res \in Res
      <3>1. ready_list_ \in Seq(Request) /\ ready_list_ # <<>>
        BY <1>1 DEF DumpReady, IInv, DataOK
      <3>2. Head(ready_list_) \in Request
        BY <3>1, SeqTail
      <3> QED BY <3>2 DEF Request
    <2>2. PICK r \in Res : r = Head(ready_list_).res
      BY <2>1
    <2>3. Dump(r, ReadBack[r]) /\ ReadBack[r] \in Res
      BY <1>1, <2>2, ExitAssumption DEF DumpReady
    <2> QED BY <1>0, <2>3
  <1>2. CASE DumpList
    <2>1. Head(res_list_) \in Res
      BY <1>2, SeqTail DEF DumpList, IInv, DataOK
    <2>2. Dump(Head(res_list_), Head(res_list_))
      BY <1>2 DEF DumpList
    <2> QED BY <1>0, <2>1, <2>2
  <1>3. ASSUME NEW k \in Site, DumpSite(k)
        PROVE  \E r \in Res, as \in Res : as \in {r, ReadBack[r]} /\ Dump(r, as)
    <2>1. Head(sites_map_[k].res_list_) \in Res
      <3>1. sites_map_[k] \in Website /\ sites_map_[k].res_list_ # <<>>
        BY <1>3 DEF DumpSite, IInv, DataOK, IsSite
      <3> QED BY <3>1, SeqTail DEF Website
    <2>2. PICK r \in Res : r = Head(sites_map_[k].res_list_)
      BY <2>1
    <2>3. Dump(r, ReadBack[r]) /\ ReadBack[r] \in Res
      BY <1>3, <2>2, ExitAssumption DEF DumpSite
    <2> QED BY <2>3
  <1> QED BY <1>0, <1>1, <1>2, <1>3 DEF DumpStep

LEMMA InitExitInv == ASSUME ExitInit PROVE ExitIInv
  <1>1. IInv
    BY FreshInv DEF ExitInit
  <1>2. FileOK /\ EarlyOK
    BY DEF ExitInit, Fresh, FileOK, EarlyOK
  <1> QED BY <1>1, <1>2 DEF ExitIInv

LEMMA StepEarly == ASSUME EarlyOK, [ExitNext]_allVars PROVE EarlyOK'
  <1> SUFFICES ASSUME phase' \in {"boot", "load"}
               PROVE  outbox' = <<>> /\ store_result_' = <<>> /\ \A t \in Writer : storing'[t] = Idle
    BY DEF EarlyOK
  <1>1. CASE QuietStep
    <2>1. UNCHANGED memory
      BY <1>1, QuietStepMemory
    <2>2. phase \in {"boot", "load"}
      <3>1. CASE Boot \/ LoadEnd \/ Go \/ EndRound
        BY <3>1 DEF Boot, LoadEnd, Go, EndRound
      <3>2. CASE Signal
        BY <3>2 DEF Signal, vars, loopVars
      <3>3. CASE DumpNull \/ Ends
        BY <3>3, EndsAbort
      <3>4. CASE ExitStage
        BY <3>4 DEF ExitStage, NextStage
      <3>5. CASE \E p \in Pools : StopPool(p) \/ JoinPool(p)
        BY <3>5 DEF StopPool, JoinPool, vars, loopVars
      <3> QED BY <1>1, <3>1, <3>2, <3>3, <3>4, <3>5 DEF QuietStep
    <2> QED BY <2>1, <2>2 DEF EarlyOK, memory, siteVars, storeVars
  <1>2. CASE CoreStep
    <2>1. phase \in {"boot", "load"} /\ outbox = <<>> /\ store_result_ = <<>> /\ \A t \in Writer : storing[t] = Idle
      BY <1>2, CorePhase DEF EarlyOK
    <2>2. Worker
      BY <1>2, <2>1 DEF CoreStep, Loops, ResTurn, DnsTurn, ReadyTurn, ResultTurn, EndRes, EndDns, EndReady, NextLoop,
         Turning, PushDns, PushTimed, PushDown, PushStore, PushWait
    <2> QED BY <2>1, <2>2 DEF Worker, ResolvePop, ResolvePush, WaitPop, Timeout, DownloadPop, DownloadEnd, StorePop,
         StoreWrite, siteVars, storeVars
  <1>3. CASE DrainTurn
    BY <1>3 DEF DrainTurn, Turning, loopVars
  <1>4. CASE DumpStep
    BY <1>4 DEF DumpStep, DumpReady, DumpList, DumpSite, Dump, loopVars
  <1>5. CASE LoadOne
    BY <1>5 DEF LoadOne, EarlyOK, loopVars, siteVars, storeVars
  <1>6. CASE Restart
    BY <1>6 DEF Restart
  <1>7. CASE \E r \in Res \ ReadOnly : Submit(r) /\ phase # "exited" /\ UNCHANGED exitVars
    BY <1>7 DEF Submit, EarlyOK, loopVars, siteVars, storeVars
  <1>8. CASE UNCHANGED allVars
    BY <1>8 DEF allVars, vars, EarlyOK, loopVars, siteVars, storeVars
  <1> QED BY <1>1, <1>2, <1>3, <1>4, <1>5, <1>6, <1>7, <1>8, ExitCases

LEMMA StepMainInv == ASSUME MainInv, [ExitNext]_allVars PROVE MainInv'
  <1> USE DEF MainInv
  <1>1. CASE QuietStep
    <2>1. IInv'
      BY <1>1, QuietStepMemory, MemoryInv
    <2>2. FileOK'
      <3> USE DEF FileOK, ExitPhases
      <3>1. CASE Boot \/ LoadEnd \/ Go
        BY <3>1 DEF Boot, LoadEnd, Go
      <3>2. CASE Signal
        BY <3>2 DEF Signal, vars, loopVars
      <3>3. CASE EndRound
        BY <3>3 DEF EndRound
      <3>4. CASE DumpNull \/ Ends
        BY <3>4, EndsAbort DEF exitVars
      <3>5. CASE ExitStage
        BY <3>5 DEF ExitStage, NextStage, exitVars
      <3>6. CASE \E p \in Pools : StopPool(p) \/ JoinPool(p)
        BY <3>6 DEF StopPool, JoinPool, vars, loopVars
      <3> QED BY <1>1, <3>1, <3>2, <3>3, <3>4, <3>5, <3>6 DEF QuietStep
    <2> QED BY <2>1, <2>2
  <1>2. CASE CoreStep
    <2>1. FileOK'
      BY <1>2, CorePhase DEF FileOK, ExitPhases, CoreStep, exitVars, InLoop
    <2> QED BY <1>2, <2>1, CoreInv
  <1>3. CASE DrainTurn
    <2>1. FileOK'
      BY <1>3 DEF FileOK, DrainTurn, exitVars, loopVars
    <2> QED BY <1>3, <2>1, DrainTurnInv
  <1>4. CASE DumpStep
    <2>1. PICK r \in Res, as \in Res : Dump(r, as)
      BY <1>4, DumpOfWhat
    <2>2. Record(r, as) \in DumpRecord
      BY DEF Record, DumpRecord, IInv, DataOK
    <2>3. file' \in Seq(DumpRecord) /\ dumped' \in SUBSET Res /\ unread' = unread /\ phase' = phase
      <3>1. file' = Append(file, Record(r, as)) /\ dumped' = dumped \cup {r} /\ unread' = unread /\ phase' = phase
        BY <2>1 DEF Dump, loopVars
      <3>2. Append(file, Record(r, as)) \in Seq(DumpRecord)
        BY <2>2, SeqAppend DEF FileOK
      <3> QED BY <3>1, <3>2 DEF FileOK
    <2>4. FileOK'
      BY <2>3 DEF FileOK
    <2> QED BY <1>4, <2>4, DumpInv
  <1>5. CASE LoadOne
    <2>1. Tail(unread) \in Seq(DumpRecord)
      BY <1>5, SeqTail DEF LoadOne, FileOK
    <2>2. FileOK'
      BY <1>5, <2>1 DEF FileOK, LoadOne, loopVars
    <2> QED BY <1>5, <2>2, LoadOneInv
  <1>6. CASE Restart
    <2>1. FileOK'
      BY <1>6 DEF FileOK, Restart
    <2> QED BY <1>6, <2>1, RestartInv
  <1>7. ASSUME NEW r \in Res, Submit(r), UNCHANGED exitVars PROVE MainInv'
    <2>1. FileOK'
      BY <1>7 DEF FileOK, Submit, exitVars, loopVars
    <2> QED BY <1>7, <2>1, SubmitInv
  <1>8. CASE UNCHANGED allVars
    <2>1. UNCHANGED memory /\ max_slot' = max_slot
      BY <1>8 DEF allVars, vars, loopVars, memory
    <2>2. FileOK'
      BY <1>8 DEF allVars, vars, loopVars, exitVars, FileOK
    <2> QED BY <2>1, <2>2, MemoryInv
  <1> QED BY <1>1, <1>2, <1>3, <1>4, <1>5, <1>6, <1>7, <1>8, ExitCases

LEMMA StepExitInv == ASSUME ExitIInv, [ExitNext]_allVars PROVE ExitIInv'
  BY StepMainInv, StepEarly DEF ExitIInv, MainInv

LEMMA ExitInvariance == ExitSpec => []ExitIInv
  <1>1. ExitIInv /\ [ExitNext]_allVars => ExitIInv'
    BY StepExitInv
  <1> QED BY <1>1, InitExitInv, PTL DEF ExitSpec

-----------------------------------------------------------------------------
(* Counting                                                                *)

LEMMA CoreN == ASSUME IInv, CoreStep, NEW F \in SUBSET Res, Finite(F) PROVE Conserved(F)
  BY ResTurnN, DnsTurnN, ReadyTurnN, ResultTurnN, LoopN, PushN, ResolverN, WaiterStepN, DownloaderN, WriterN
  DEF CoreStep, Loops, Worker

LEMMA MemoryN == ASSUME IInv, UNCHANGED memory, NEW F \in SUBSET Res, Finite(F) PROVE Conserved(F)
  BY QuietN DEF memory

LEMMA DrainTurnN == ASSUME IInv, DrainTurn, NEW F \in SUBSET Res, Finite(F) PROVE Conserved(F)
  <1> DEFINE x == Head(http_result_)
             d == One(x.res \in F)
  <1>1. /\ http_result_ \in Seq(Result) /\ http_result_ # <<>> /\ http_result_' = Tail(http_result_)
        /\ outbox = <<>> /\ outbox' = <<StorePost(x)>> /\ x \in Result
        /\ UNCHANGED <<res_list_, sites_map_, waitVars, http_request_, conns, storeVars, leaked>>
    BY SeqTail DEF DrainTurn, Turning, IInv, DataOK
  <1>2. Finite(F)' /\ InSiteLists(F)' = InSiteLists(F) /\ InConns(F)' = InConns(F)
    BY <1>1, SetsStay DEF Finite, waitVars, storeVars
  <1>3. /\ N(http_result_, ResultsOf(F)) = N(http_result_', ResultsOf(F)) + d
        /\ N(http_result_', ResultsOf(F)) \in Nat /\ d \in Nat
    <2>1. x \in ResultsOf(F) <=> x.res \in F
      BY <1>1, Kinds
    <2> QED BY <1>1, <2>1, PopN DEF One
  <1>4. N(outbox, PostsOf(F)) = 0 /\ N(outbox', PostsOf(F)) = d
    <2>1. StorePost(x) \in Post /\ (StorePost(x) \in PostsOf(F) <=> x.res \in F)
      BY <1>1 DEF StorePost, Post, PostsOf
    <2>2. N(<<StorePost(x)>>, PostsOf(F)) = d
      BY <2>1, OneAt DEF One
    <2> QED BY <1>1, <2>2, EmptyOutbox
  <1>5. /\ N(res_list_, F) \in Nat /\ Cardinality(InSiteLists(F)) \in Nat
        /\ N(http_request_, RequestsOf(F)) \in Nat /\ Cardinality(InConns(F)) \in Nat
    BY CountsAreNat DEF IInv
  <1> HIDE DEF d, x
  <1>6. SvcN(F)' = SvcN(F) + d /\ DownN(F) = DownN(F)' + d /\ DownN(F)' \in Nat
    BY <1>1, <1>2, <1>3, <1>4, <1>5 DEF SvcN, DownN
  <1>7. WaiterN(F)' = WaiterN(F) /\ StoreN(F)' = StoreN(F) /\ LeakedN(F)' = LeakedN(F)
    BY <1>1, SumsStay
  <1>8. /\ SvcN(F) \in Nat /\ WaiterN(F) \in Nat /\ StoreN(F) \in Nat /\ LeakedN(F) \in Nat
        /\ TotalN(F) \in Nat
    BY SumsAreNat DEF IInv
  <1>9. TotalN(F)' = TotalN(F)
    BY <1>3, <1>6, <1>7, <1>8 DEF TotalN
  <1> QED BY <1>2, <1>8, <1>9 DEF Conserved

\* what is dumped is taken out of the memory
Taken(r) ==
    \A F \in SUBSET Res : Finite(F) =>
        /\ Finite(F)' /\ TotalN(F)' \in Nat /\ TotalN(F) = TotalN(F)' + One(r \in F)

LEMMA DumpN ==
    ASSUME IInv, DumpStep
    PROVE  \E r \in Res, as \in Res : as \in {r, ReadBack[r]} /\ Dump(r, as) /\ Taken(r)
  <1>1. CASE DumpReady
    <2>1. /\ ready_list_ \in Seq(Request) /\ ready_list_ # <<>> /\ ready_list_' = Tail(ready_list_)
          /\ Head(ready_list_) \in Request
      BY <1>1, SeqTail DEF DumpReady, IInv, DataOK
    <2>2. PICK r \in Res : r = Head(ready_list_).res
      BY <2>1 DEF Request
    <2>3. Dump(r, ReadBack[r]) /\ ReadBack[r] \in Res
      BY <1>1, <2>2, ExitAssumption DEF DumpReady
    <2>4. UNCHANGED <<res_list_, siteVars, wait_list_, timers, downVars, storeVars, leaked>>
      BY <1>1, <2>3 DEF DumpReady, Dump, siteVars
    <2>5. ASSUME NEW F \in SUBSET Res, Finite(F)
          PROVE  Finite(F)' /\ TotalN(F)' \in Nat /\ TotalN(F) = TotalN(F)' + One(r \in F)
      <3>1. Finite(F)' /\ InTimers(F)' = InTimers(F)
        BY <2>4, <2>5, SetsStay DEF Finite, siteVars, downVars, storeVars
      <3>2. /\ N(ready_list_, RequestsOf(F)) = N(ready_list_', RequestsOf(F)) + One(r \in F)
            /\ N(ready_list_', RequestsOf(F)) \in Nat /\ One(r \in F) \in Nat
        <4>1. Head(ready_list_) \in RequestsOf(F) <=> r \in F
          BY <2>1, <2>2, Kinds
        <4> QED BY <2>1, <4>1, PopN DEF One
      <3>3. N(wait_list_, RequestsOf(F)) \in Nat /\ Cardinality(InTimers(F)) \in Nat
        BY <2>5, CountsAreNat DEF IInv
      <3>4. WaiterN(F) = WaiterN(F)' + One(r \in F) /\ WaiterN(F)' \in Nat
        BY <2>4, <3>1, <3>2, <3>3 DEF WaiterN
      <3>5. SvcN(F)' = SvcN(F) /\ DownN(F)' = DownN(F) /\ StoreN(F)' = StoreN(F) /\ LeakedN(F)' = LeakedN(F)
        BY <2>4, SumsStay
      <3>6. SvcN(F) \in Nat /\ DownN(F) \in Nat /\ StoreN(F) \in Nat /\ LeakedN(F) \in Nat
        BY <2>5, SumsAreNat DEF IInv
      <3> QED BY <3>1, <3>2, <3>4, <3>5, <3>6 DEF TotalN
    <2> QED BY <2>3, <2>5 DEF Taken
  <1>2. CASE DumpList
    <2>1. res_list_ \in Seq(Res) /\ res_list_ # <<>> /\ res_list_' = Tail(res_list_) /\ Head(res_list_) \in Res
      BY <1>2, SeqTail DEF DumpList, IInv, DataOK
    <2>2. PICK r \in Res : r = Head(res_list_)
      BY <2>1
    <2>3. Dump(r, r)
      BY <1>2, <2>2 DEF DumpList
    <2>4. UNCHANGED <<siteVars, waitVars, downVars, storeVars, leaked>>
      BY <1>2, <2>3 DEF DumpList, Dump, siteVars
    <2>5. ASSUME NEW F \in SUBSET Res, Finite(F)
          PROVE  Finite(F)' /\ TotalN(F)' \in Nat /\ TotalN(F) = TotalN(F)' + One(r \in F)
      <3>1. Finite(F)' /\ InSiteLists(F)' = InSiteLists(F) /\ outbox' = outbox
        BY <2>4, <2>5, SetsStay DEF Finite, siteVars, waitVars, downVars, storeVars
      <3>2. N(res_list_, F) = N(res_list_', F) + One(r \in F) /\ N(res_list_', F) \in Nat /\ One(r \in F) \in Nat
        BY <2>1, <2>2, PopN
      <3>3. N(outbox, PostsOf(F)) \in Nat /\ Cardinality(InSiteLists(F)) \in Nat
        BY <2>5, CountsAreNat DEF IInv
      <3>4. SvcN(F) = SvcN(F)' + One(r \in F) /\ SvcN(F)' \in Nat
        BY <3>1, <3>2, <3>3 DEF SvcN
      <3>5. WaiterN(F)' = WaiterN(F) /\ DownN(F)' = DownN(F) /\ StoreN(F)' = StoreN(F) /\ LeakedN(F)' = LeakedN(F)
        BY <2>4, SumsStay
      <3>6. WaiterN(F) \in Nat /\ DownN(F) \in Nat /\ StoreN(F) \in Nat /\ LeakedN(F) \in Nat
        BY <2>5, SumsAreNat DEF IInv
      <3> QED BY <3>1, <3>2, <3>4, <3>5, <3>6 DEF TotalN
    <2> QED BY <2>3, <2>5 DEF Taken
  <1>3. ASSUME NEW k \in Site, DumpSite(k)
        PROVE  \E r \in Res, as \in Res : as \in {r, ReadBack[r]} /\ Dump(r, as) /\ Taken(r)
    <2> DEFINE s == sites_map_[k]
               t == [s EXCEPT !.res_list_ = Tail(@)]
    <2>1. /\ s \in Website /\ s.res_list_ \in Seq(Res) /\ s.res_list_ # <<>> /\ Head(s.res_list_) \in Res
          /\ Tail(s.res_list_) \in Seq(Res) /\ IsSite(k)
      BY <1>3, SeqTail DEF DumpSite, IInv, DataOK, IsSite, Website
    <2>2. PICK r \in Res : r = Head(s.res_list_)
      BY <2>1
    <2>3. Dump(r, ReadBack[r]) /\ ReadBack[r] \in Res
      BY <1>3, <2>2, ExitAssumption DEF DumpSite
    <2>4. /\ UNCHANGED <<res_list_, outbox, waitVars, downVars, storeVars, leaked>>
          /\ sites_map_' = [sites_map_ EXCEPT ![k] = t]
      BY <1>3, <2>3 DEF DumpSite, Dump
    <2>5. t \in Website /\ t.res_list_ = Tail(s.res_list_)
      BY <2>1 DEF Website
    <2> DEFINE q == s.res_list_
    <2>6. q \in Seq(Res) /\ q # <<>> /\ r = Head(q) /\ t.res_list_ = Tail(q)
      BY <2>1, <2>2, <2>5
    <2>7. s.res_list_ = q
      OBVIOUS
    <2> HIDE DEF t, q
    <2>8. ASSUME NEW F \in SUBSET Res, Finite(F)
          PROVE  Finite(F)' /\ TotalN(F)' \in Nat /\ TotalN(F) = TotalN(F)' + One(r \in F)
      <3>1. /\ IsFiniteSet(InSiteLists(F)')
            /\ Cardinality(InSiteLists(F)') = Cardinality(InSiteLists(F)) + N(t.res_list_, F)
                  - (IF IsSite(k) THEN N(sites_map_[k].res_list_, F) ELSE 0)
        BY <2>4, <2>5, <2>8, SiteListN DEF IInv, Finite
      <3>2. N(q, F) = N(Tail(q), F) + One(r \in F) /\ N(Tail(q), F) \in Nat /\ One(r \in F) \in Nat
        BY <2>6, PopN
      <3>3. /\ N(res_list_, F) \in Nat /\ N(outbox, PostsOf(F)) \in Nat /\ Cardinality(InSiteLists(F)) \in Nat
            /\ Cardinality(InSiteLists(F)') \in Nat
        BY <2>8, <3>1, CountsAreNat, FS_CardinalityType DEF IInv
      <3>4. Cardinality(InSiteLists(F)') = Cardinality(InSiteLists(F)) + N(Tail(q), F) - N(q, F)
        BY <2>1, <2>6, <2>7, <3>1
      <3>5. Finite(F)'
        BY <2>4, <2>8, <3>1, SetsStay DEF Finite, waitVars, downVars, storeVars
      <3>6. SvcN(F) = SvcN(F)' + One(r \in F) /\ SvcN(F)' \in Nat
        BY <2>4, <3>2, <3>3, <3>4 DEF SvcN
      <3>7. WaiterN(F)' = WaiterN(F) /\ DownN(F)' = DownN(F) /\ StoreN(F)' = StoreN(F) /\ LeakedN(F)' = LeakedN(F)
        BY <2>4, SumsStay
      <3>8. WaiterN(F) \in Nat /\ DownN(F) \in Nat /\ StoreN(F) \in Nat /\ LeakedN(F) \in Nat
        BY <2>8, SumsAreNat DEF IInv
      <3> QED BY <3>2, <3>5, <3>6, <3>7, <3>8 DEF TotalN
    <2> QED BY <2>3, <2>8 DEF Taken
  <1> QED BY <1>1, <1>2, <1>3 DEF DumpStep

LEMMA LoadOneN ==
    ASSUME IInv, FileOK, LoadOne, NEW F \in SUBSET Res, Finite(F)
    PROVE  /\ Finite(F)' /\ TotalN(F)' = TotalN(F) + One(Head(unread).res \in F)
           /\ TotalN(F)' \in Nat
  <1> DEFINE r == Head(unread).res
  <1>1. r \in Res
    <2>1. Head(unread) \in DumpRecord
      BY SeqTail DEF LoadOne, FileOK
    <2> QED BY <2>1 DEF DumpRecord
  <1>2. /\ res_list_' = Append(res_list_, r) /\ res_list_ \in Seq(Res)
        /\ UNCHANGED <<siteVars, waitVars, downVars, storeVars, leaked>>
    BY DEF LoadOne, IInv, DataOK
  <1> HIDE DEF r
  <1>3. /\ WaiterN(F)' = WaiterN(F) /\ DownN(F)' = DownN(F) /\ StoreN(F)' = StoreN(F)
        /\ LeakedN(F)' = LeakedN(F)
    BY <1>2, SumsStay
  <1>4. Finite(F)' /\ InSiteLists(F)' = InSiteLists(F) /\ outbox' = outbox
    BY <1>2, SetsStay DEF Finite, siteVars, waitVars, downVars, storeVars
  <1>5. /\ WaiterN(F) \in Nat /\ DownN(F) \in Nat /\ StoreN(F) \in Nat /\ LeakedN(F) \in Nat
        /\ SvcN(F) \in Nat
    BY SumsAreNat DEF IInv
  <1>6. /\ N(res_list_, F) \in Nat /\ Cardinality(InSiteLists(F)) \in Nat /\ N(outbox, PostsOf(F)) \in Nat
    BY CountsAreNat DEF IInv
  <1>7. N(res_list_', F) = N(res_list_, F) + One(r \in F) /\ One(r \in F) \in Nat
    BY <1>1, <1>2, PutN
  <1>8. SvcN(F)' = SvcN(F) + One(r \in F)
    BY <1>4, <1>6, <1>7 DEF SvcN
  <1> QED BY <1>3, <1>4, <1>5, <1>7, <1>8 DEF TotalN, r

\* of a process that has ended only the records, and what it lost, remain
LEMMA RestartN ==
    ASSUME IInv, Restart, NEW F \in SUBSET Res, Finite(F)
    PROVE  Finite(F)' /\ TotalN(F)' \in Nat /\ TotalN(F)' <= TotalN(F)
  <1>1. /\ InSiteLists(F)' = {} /\ InTimers(F)' = {} /\ InConns(F)' = {} /\ InWriters(F)' = {}
        /\ InLeaked(F)' = InLeaked(F) /\ InRecords(F)' = InRecords(F)
    <2>1. InSiteLists(F)' = {}
      BY DEF Restart, InSiteLists, IsSite
    <2>2. InTimers(F)' = {} /\ InConns(F)' = {} /\ InWriters(F)' = {}
      BY DEF Restart, InTimers, InConns, InWriters
    <2> QED BY <2>1, <2>2, SetsStay DEF Restart
  <1>2. IsFiniteSet({}) /\ Cardinality({}) = 0
    BY FS_EmptySet
  <1>3. Finite(F)'
    BY <1>1, <1>2 DEF Finite
  <1>4. /\ N(res_list_, F)' = 0 /\ N(outbox, PostsOf(F))' = 0 /\ N(wait_list_, RequestsOf(F))' = 0
        /\ N(ready_list_, RequestsOf(F))' = 0 /\ N(http_request_, RequestsOf(F))' = 0
        /\ N(http_result_, ResultsOf(F))' = 0 /\ N(store_result_, ResultsOf(F))' = 0
    BY NoneAt DEF Restart
  <1>5. Cardinality(InRecords(F)) \in Nat /\ Cardinality(InLeaked(F)) \in Nat
        /\ Cardinality(InWriters(F)) \in Nat /\ N(store_result_, ResultsOf(F)) \in Nat
    BY CountsAreNat DEF IInv
  <1>6. TotalN(F)' = Cardinality(InRecords(F)) + Cardinality(InLeaked(F))
    BY <1>1, <1>2, <1>4, <1>5 DEF TotalN, SvcN, WaiterN, DownN, StoreN, LeakedN
  <1>7. SvcN(F) \in Nat /\ WaiterN(F) \in Nat /\ DownN(F) \in Nat /\ StoreN(F) \in Nat
    BY SumsAreNat DEF IInv
  <1> QED BY <1>3, <1>5, <1>6, <1>7 DEF TotalN, StoreN, LeakedN

-----------------------------------------------------------------------------
(* EachResAccounted                                                        *)

\* the steps that neither submit, nor dump, nor load, nor start anew
SteadyStep == QuietStep \/ CoreStep \/ DrainTurn \/ UNCHANGED allVars

LEMMA SteadyN ==
    ASSUME IInv, SteadyStep, NEW F \in SUBSET Res, Finite(F)
    PROVE  Conserved(F) /\ DataOK'
  <1>1. UNCHANGED allVars => UNCHANGED memory
    BY DEF allVars, vars, memory
  <1>2. Conserved(F)
    BY <1>1, QuietStepMemory, MemoryN, CoreN, DrainTurnN DEF SteadyStep
  <1>3. IInv'
    <2>1. UNCHANGED allVars => UNCHANGED memory /\ max_slot' = max_slot
      BY <1>1 DEF allVars, vars, loopVars
    <2> QED BY <2>1, QuietStepMemory, MemoryInv, CoreInv, DrainTurnInv DEF SteadyStep
  <1> QED BY <1>2, <1>3 DEF IInv

\* how svc, the file and what is known of it go on in such a step
SameFile == UNCHANGED <<file, unread, dumped>>
SteadyMoves ==
    \/ phase' = phase /\ SameFile
    \/ /\ phase = "boot" /\ phase' = IF file = <<>> THEN "go" ELSE "load"
       /\ unread' = file /\ UNCHANGED <<file, dumped>>
    \/ /\ phase = "load" /\ unread = <<>> /\ phase' = "go"
       /\ \E zero \in LoadReturnsZero : file' = IF zero THEN <<>> ELSE file
       /\ UNCHANGED <<unread, dumped>>
    \/ /\ phase \in {"go", "res", "dns", "ready", "result"}
       /\ phase' \in {"res", "dns", "ready", "result", "abort"} /\ SameFile
    \/ phase = "result" /\ phase' = "drain" /\ dumped' = {} /\ UNCHANGED <<file, unread>>
    \/ phase \in ExitPhases /\ phase' \in ExitPhases /\ SameFile
    \/ phase' = "abort" /\ SameFile

LEMMA SteadyCases ==
    ASSUME SteadyStep
    PROVE  SteadyMoves /\ UNCHANGED <<accepted, starts>>
  <1> USE DEF SteadyMoves, SameFile
  <1>1. CASE Boot \/ LoadEnd \/ Go
    BY <1>1 DEF Boot, LoadEnd, Go
  <1>2. CASE Signal
    BY <1>2 DEF Signal, vars, loopVars
  <1>3. CASE EndRound
    BY <1>3 DEF EndRound, Turning
  <1>4. CASE DumpNull \/ Ends
    BY <1>4, EndsAbort DEF memory, exitVars
  <1>5. CASE ExitStage
    BY <1>5 DEF ExitStage, NextStage, exitVars, Turning, ExitPhases
  <1>6. CASE \E p \in Pools : StopPool(p) \/ JoinPool(p)
    BY <1>6 DEF StopPool, JoinPool, vars, loopVars
  <1>7. CASE CoreStep
    <2>1. accepted' = accepted
      BY <1>7 DEF CoreStep, Loops, Worker, ResTurn, DnsTurn, ReadyTurn, ResultTurn, EndRes, EndDns, EndReady,
         NextLoop, PushDns, PushTimed, PushDown, PushStore, PushWait, ResolvePop, ResolvePush, WaitPop, Timeout,
         DownloadPop, DownloadEnd, StorePop, StoreWrite
    <2>2. SameFile /\ starts' = starts
      BY <1>7 DEF CoreStep, exitVars
    <2> QED BY <1>7, <2>1, <2>2, CorePhase DEF InLoop
  <1>8. CASE DrainTurn
    BY <1>8 DEF DrainTurn, exitVars, loopVars
  <1>9. CASE UNCHANGED allVars
    BY <1>9 DEF allVars, vars, loopVars, exitVars
  <1> QED BY <1>1, <1>2, <1>3, <1>4, <1>5, <1>6, <1>7, <1>8, <1>9 DEF SteadyStep, QuietStep

LEMMA ExitSteps ==
    ASSUME [ExitNext]_allVars
    PROVE  \/ SteadyStep \/ DumpStep \/ LoadOne \/ Restart
           \/ \E r \in Res \ ReadOnly : Submit(r) /\ phase # "exited" /\ UNCHANGED exitVars
  BY ExitCases DEF SteadyStep

LEMMA PrimedInv == ASSUME IInv' PROVE DataOK'
  BY DEF IInv

\* of the first process: a resource it has accepted is in it, or recorded,
\* or in the dump; before the dump nothing is dumped, and no file is there
FirstStart ==
    /\ phase \in {"boot", "go", "res", "dns", "ready", "result", "abort"} \cup ExitPhases
    /\ phase = "boot" => file = <<>>
    /\ phase \in {"boot", "go", "res", "dns", "ready", "result"} => dumped = {}

Accounted(r) ==
    /\ TotalN({r}) + One(r \in dumped) <= One(r \in accepted)
    /\ Alive => TotalN({r}) + One(r \in dumped) >= One(r \in accepted)

AccountInv ==
    /\ starts \in Nat \ {0}
    /\ \A r \in Res : Finite({r})
    /\ starts = 1 => FirstStart /\ \A r \in Res : Accounted(r)

LEMMA InitAccount == ASSUME ExitInit PROVE AccountInv
  <1>1. \A r \in Res : Finite({r}) /\ TotalN({r}) = 0
    BY FreshN DEF ExitInit
  <1>2. \A r \in Res : One(r \in accepted) = 0 /\ One(r \in dumped) = 0
    BY DEF ExitInit, Fresh, One
  <1>3. FirstStart /\ starts = 1
    BY DEF ExitInit, Fresh, FirstStart
  <1> QED BY <1>1, <1>2, <1>3 DEF AccountInv, Accounted

LEMMA StepFirst ==
    ASSUME FirstStart, FileOK, IInv, [ExitNext]_allVars, ~Restart
    PROVE  FirstStart' /\ starts' = starts /\ (Alive' => Alive)
  <1>1. CASE SteadyStep
    BY <1>1, SteadyCases DEF FirstStart, SteadyMoves, SameFile, ExitPhases, Alive
  <1>2. CASE DumpStep
    <2>1. PICK r \in Res, as \in Res : Dump(r, as)
      BY <1>2, DumpOfWhat
    <2>2. phase' = phase /\ phase \in {"ready_dump", "list_dump", "site_dump"} /\ starts' = starts
      BY <1>2, <2>1, DumpOfWhat DEF Dump
    <2> QED BY <2>2 DEF FirstStart, Alive
  <1>3. CASE LoadOne
    BY <1>3 DEF LoadOne, FirstStart, ExitPhases
  <1>4. CASE \E r \in Res \ ReadOnly : Submit(r) /\ phase # "exited" /\ UNCHANGED exitVars
    BY <1>4 DEF Submit, exitVars, loopVars, FirstStart, Alive
  <1> QED BY <1>1, <1>2, <1>3, <1>4, ExitSteps

LEMMA StepAccount == ASSUME ExitIInv, AccountInv, [ExitNext]_allVars PROVE AccountInv'
  <1> USE DEF ExitIInv
  <1>1. DataOK'
    BY StepExitInv DEF IInv
  <1>6. ASSUME ~Restart PROVE starts' = starts
    <2>1. CASE SteadyStep
      BY <2>1, SteadyCases
    <2>2. CASE DumpStep
      BY <2>2, DumpOfWhat DEF Dump
    <2>3. CASE ~SteadyStep /\ ~DumpStep
      BY <1>6, <2>3, ExitSteps DEF LoadOne, exitVars
    <2> QED BY <2>1, <2>2, <2>3
  <1>7. ASSUME ~Restart, starts' = 1 PROVE FirstStart' /\ (Alive' => Alive)
    BY <1>6, <1>7, StepFirst DEF AccountInv
  <1>13. starts' \in Nat \ {0} /\ (starts' = 1 => FirstStart')
    <2>1. starts \in Nat \ {0}
      BY DEF AccountInv
    <2>2. Restart => starts' = starts + 1
      BY DEF Restart
    <2> QED BY <1>6, <1>7, <2>1, <2>2
  <1>2. SUFFICES ASSUME NEW r \in Res
        PROVE  Finite({r})' /\ (starts' = 1 => Accounted(r)')
    BY <1>13 DEF AccountInv
  <1>3. {r} \in SUBSET Res /\ Finite({r}) /\ (starts = 1 => Accounted(r))
    BY DEF AccountInv
  <1>4. TotalN({r}) \in Nat /\ One(r \in accepted) \in {0, 1} /\ One(r \in dumped) \in {0, 1}
    BY <1>3, SumsAreNat, OneIs DEF IInv
  <1>5. CASE Restart
    <2>1. Finite({r})'
      BY <1>3, <1>5, RestartN
    <2> QED BY <1>5, <2>1 DEF Restart, AccountInv
  <1>8. CASE SteadyStep /\ ~Restart
    <2>1. Conserved({r})
      BY <1>3, <1>8, SteadyN
    <2>2. Finite({r})' /\ TotalN({r})' \in Nat
      BY <1>1, <2>1, PrimedSums DEF Conserved
    <2>3. ASSUME starts' = 1 PROVE One(r \in dumped') = One(r \in dumped) /\ accepted' = accepted
      <3>1. accepted' = accepted
        BY <1>8, SteadyCases
      <3>2. dumped' = dumped
        <4>1. FirstStart
          BY <1>6, <1>8, <2>3 DEF AccountInv
        <4> QED BY <1>8, <4>1, SteadyCases DEF SteadyMoves, SameFile, FirstStart
      <3> QED BY <3>1, <3>2
    <2>4. TotalN({r})' <= TotalN({r}) /\ (Alive' /\ TotalN({r}) >= 1 => TotalN({r})' >= 1)
      BY <2>1 DEF Conserved
    <2>5. ASSUME starts' = 1 PROVE Accounted(r)'
      <3>1. Accounted(r) /\ (Alive' => Alive)
        BY <1>3, <1>6, <1>7, <1>8, <2>5
      <3> QED BY <1>4, <2>2, <2>3, <2>4, <2>5, <3>1 DEF Accounted
    <2> QED BY <1>6, <1>7, <1>8, <2>2, <2>5 DEF AccountInv
  <1>9. CASE DumpStep /\ ~Restart
    <2>1. PICK s \in Res, as \in Res : Dump(s, as) /\ Taken(s)
      BY <1>9, DumpN
    <2>2. Finite({r})' /\ TotalN({r})' \in Nat /\ TotalN({r}) = TotalN({r})' + One(s \in {r})
      BY <1>3, <2>1 DEF Taken
    <2>3. dumped' = dumped \cup {s} /\ accepted' = accepted
      BY <2>1 DEF Dump
    <2>4. ASSUME starts' = 1 PROVE Accounted(r)'
      <3>1. Accounted(r) /\ (Alive' => Alive)
        BY <1>3, <1>6, <1>7, <1>9, <2>4
      <3>2. CASE s = r
        <4>1. One(s \in {r}) = 1 /\ One(r \in dumped') = 1
          BY <2>3, <3>2 DEF One
        <4>2. One(r \in dumped) = 0 /\ TotalN({r})' + 1 = TotalN({r})
          BY <1>4, <2>2, <3>1, <4>1 DEF Accounted
        <4> QED BY <1>4, <2>2, <2>3, <3>1, <4>1, <4>2 DEF Accounted
      <3>3. CASE s # r
        <4>1. One(s \in {r}) = 0 /\ One(r \in dumped') = One(r \in dumped)
          BY <2>3, <3>3 DEF One
        <4> QED BY <1>4, <2>2, <2>3, <3>1, <4>1 DEF Accounted
      <3> QED BY <3>2, <3>3
    <2> QED BY <1>6, <1>7, <1>9, <2>2, <2>4 DEF AccountInv
  <1>10. CASE LoadOne /\ ~Restart
    <2>1. Finite({r})'
      BY <1>3, <1>10, LoadOneN
    <2>2. starts # 1
      BY <1>10 DEF AccountInv, FirstStart, LoadOne, ExitPhases
    <2> QED BY <1>6, <1>10, <2>1, <2>2 DEF AccountInv
  <1>11. ASSUME NEW s \in Res, Submit(s), UNCHANGED exitVars, ~Restart
         PROVE  Finite({r})' /\ (starts' = 1 => Accounted(r)')
    <2>1. Finite({r})' /\ TotalN({r})' = TotalN({r}) + One(s \in {r})
      BY <1>3, <1>11, SubmitN
    <2>2. Alive /\ s \notin accepted /\ accepted' = accepted \cup {s} /\ dumped' = dumped
      BY <1>11 DEF Submit, exitVars
    <2>3. One(r \in accepted') = One(r \in accepted) + One(s \in {r}) /\ One(s \in {r}) \in {0, 1}
      BY <2>2 DEF One
    <2>4. starts' = 1 => Accounted(r)
      BY <1>3, <1>6, <1>11
    <2> QED BY <1>4, <2>1, <2>2, <2>3, <2>4 DEF Accounted
  <1>12. CASE \E s \in Res \ ReadOnly : Submit(s) /\ phase # "exited" /\ UNCHANGED exitVars
    BY <1>5, <1>6, <1>7, <1>11, <1>12 DEF AccountInv
  <1> QED BY <1>5, <1>8, <1>9, <1>10, <1>12, ExitSteps

(* Through the exit too a resource is in one place, for every exit and     *)
(* every set of URLs, ports, threads and queue sizes: svc drains the       *)
(* downloader's results, and dump() takes each Res over from the list, the *)
(* ready queue and the sites, so that none is dumped twice and none that   *)
(* svc still holds is left out of the dump.                                *)
THEOREM ExitKeepsAccount == ExitSpec => []EachResAccounted
  <1>1. ExitIInv /\ AccountInv => EachResAccounted
    <2> SUFFICES ASSUME ExitIInv, AccountInv, Alive, starts = 1, NEW r \in Res
                 PROVE  Cardinality(Owners(r)) + Cardinality(LeakedRes(r)) + Len(written[r])
                            + (IF r \in dumped THEN 1 ELSE 0) = IF r \in accepted THEN 1 ELSE 0
      BY DEF EachResAccounted
    <2>1. /\ Finite({r}) /\ TotalN({r}) + One(r \in dumped) <= One(r \in accepted)
          /\ TotalN({r}) + One(r \in dumped) >= One(r \in accepted)
      BY DEF AccountInv, Accounted
    <2>2. TotalN({r}) \in Nat /\ One(r \in accepted) \in {0, 1} /\ One(r \in dumped) \in {0, 1}
      BY <2>1, SumsAreNat, OneIs DEF ExitIInv, IInv
    <2>3. Cardinality(Owners(r)) + Cardinality(LeakedRes(r)) + Len(written[r]) = TotalN({r})
      BY <2>1, OwnersN, Zenon DEF ExitIInv, IInv
    <2>4. TotalN({r}) + One(r \in dumped) = One(r \in accepted)
      BY <2>1, <2>2
    <2> QED BY <2>3, <2>4 DEF One
  <1>2. ExitSpec => []AccountInv
    <2>1. ExitIInv /\ AccountInv /\ [ExitNext]_allVars => AccountInv'
      BY StepAccount
    <2> QED BY <2>1, InitAccount, ExitInvariance, PTL DEF ExitSpec
  <1> QED BY <1>1, <1>2, ExitInvariance, PTL

-----------------------------------------------------------------------------
(* What the dump file holds of the resources in F: the records that the    *)
(* start has still to load, or else those of the file                      *)

RecsOf(F) == {x \in DumpRecord : x.res \in F}
DiskN(F)  == IF phase = "load" THEN N(unread, RecsOf(F)) ELSE N(file, RecsOf(F))

LEMMA DiskIsNat ==
    ASSUME FileOK, NEW F
    PROVE  N(unread, RecsOf(F)) \in Nat /\ N(file, RecsOf(F)) \in Nat /\ DiskN(F) \in Nat
  <1>1. N(unread, RecsOf(F)) \in Nat /\ N(file, RecsOf(F)) \in Nat
    BY AtFinite DEF FileOK
  <1> QED BY <1>1 DEF DiskN

\* a start loses no record, and keeps none twice if it removes the file
LEMMA SteadyDisk ==
    ASSUME FileOK, EarlyOK, SteadyStep, NEW F
    PROVE  /\ DiskN(F)' \in Nat /\ DiskN(F)' >= DiskN(F)
           /\ LoadReturnsZero \subseteq {TRUE} => DiskN(F)' = DiskN(F)
           /\ N(file, RecsOf(F))' \in {0, N(file, RecsOf(F))}
  <1>1. N(unread, RecsOf(F)) \in Nat /\ N(file, RecsOf(F)) \in Nat
    BY DiskIsNat
  <1>2. N(<<>>, RecsOf(F)) = 0
    BY NoneAt
  <1>8. DiskN(F) \in Nat
    BY DiskIsNat
  <1>3. CASE SameFile /\ (phase' = phase \/ (phase # "load" /\ phase' # "load"))
    <2>1. N(file, RecsOf(F))' = N(file, RecsOf(F))
      BY <1>3 DEF SameFile
    <2>2. DiskN(F)' = DiskN(F)
      BY <1>3 DEF SameFile, DiskN
    <2> QED BY <1>1, <1>8, <2>1, <2>2
  <1>4. CASE /\ phase = "boot" /\ phase' = IF file = <<>> THEN "go" ELSE "load"
             /\ unread' = file /\ UNCHANGED <<file, dumped>>
    BY <1>1, <1>4 DEF DiskN
  <1>5. CASE /\ phase = "load" /\ unread = <<>> /\ phase' = "go"
             /\ \E zero \in LoadReturnsZero : file' = IF zero THEN <<>> ELSE file
             /\ UNCHANGED <<unread, dumped>>
    <2>1. PICK zero \in LoadReturnsZero : file' = IF zero THEN <<>> ELSE file
      BY <1>5
    <2>2. LoadReturnsZero \subseteq {TRUE} => file' = <<>>
      BY <2>1
    <2>3. file' \in {<<>>, file}
      BY <2>1
    <2>4. DiskN(F) = 0 /\ DiskN(F)' = N(file, RecsOf(F))'
      BY <1>2, <1>5 DEF DiskN
    <2>5. N(file, RecsOf(F))' \in {0, N(file, RecsOf(F))}
      BY <1>2, <2>3
    <2>6. LoadReturnsZero \subseteq {TRUE} => N(file, RecsOf(F))' = 0
      BY <1>2, <2>2
    <2>7. N(file, RecsOf(F))' \in Nat
      BY <1>1, <2>5
    <2>8. DiskN(F)' \in Nat /\ DiskN(F)' >= DiskN(F)
      BY <2>4, <2>7
    <2>9. LoadReturnsZero \subseteq {TRUE} => DiskN(F)' = DiskN(F)
      BY <2>4, <2>6
    <2> QED BY <2>5, <2>8, <2>9
  <1>6. CASE phase = "result" /\ phase' = "drain" /\ dumped' = {} /\ UNCHANGED <<file, unread>>
    BY <1>1, <1>6 DEF DiskN
  <1>7. SteadyMoves
    BY SteadyCases
  <1>9. phase = "load" => phase' # "abort"
    <2> SUFFICES ASSUME phase = "load" PROVE phase' # "abort"
      OBVIOUS
    <2>1. \A t \in Writer : storing[t] = Idle
      BY DEF EarlyOK
    <2>2. CASE QuietStep
      <3>1. CASE Boot \/ LoadEnd \/ Go \/ EndRound
        BY <3>1 DEF Boot, LoadEnd, Go, EndRound
      <3>2. CASE Signal
        BY <3>2 DEF Signal, vars, loopVars
      <3>3. CASE DumpNull \/ Ends
        BY <2>1, <3>3 DEF DumpNull, Ends, DestroyRunning, WriteFails
      <3>4. CASE ExitStage
        BY <3>4 DEF ExitStage, NextStage
      <3>5. CASE \E p \in Pools : StopPool(p) \/ JoinPool(p)
        BY <3>5 DEF StopPool, JoinPool, vars, loopVars
      <3> QED BY <2>2, <3>1, <3>2, <3>3, <3>4, <3>5 DEF QuietStep
    <2>3. CASE CoreStep
      BY <2>3, CorePhase DEF InLoop
    <2>4. CASE DrainTurn \/ UNCHANGED allVars
      BY <2>4 DEF DrainTurn, allVars, vars, loopVars
    <2> QED BY <2>2, <2>3, <2>4 DEF SteadyStep
  <1> QED BY <1>3, <1>4, <1>5, <1>6, <1>7, <1>9 DEF SteadyMoves, ExitPhases

LEMMA DumpDisk ==
    ASSUME ExitIInv, NEW r \in Res, NEW as \in Res, Dump(r, as), phase' = phase, phase \in ExitPhases, NEW F
    PROVE  /\ DiskN(F)' = DiskN(F) + One(as \in F)
           /\ N(file, RecsOf(F))' = DiskN(F)'
           /\ DiskN(F) >= 1 \/ as \in F => DiskN(F)' >= 1
  <1>1. Record(r, as) \in DumpRecord /\ (Record(r, as) \in RecsOf(F) <=> as \in F)
    BY DEF Record, DumpRecord, RecsOf, ExitIInv, IInv, DataOK
  <1>2. file' = Append(file, Record(r, as)) /\ file \in Seq(DumpRecord)
    BY DEF Dump, ExitIInv, FileOK
  <1> DEFINE x == Record(r, as)
             X == RecsOf(F)
  <1>3. N(file', X) = N(file, X) + One(x \in X)
    <2> HIDE DEF x, X
    <2> QED BY <1>1, <1>2, PutN DEF x
  <1>4. One(x \in X) = One(as \in F)
    BY <1>1 DEF One
  <1>5. DiskN(F) = N(file, X) /\ DiskN(F)' = N(file', X) /\ N(file, X)' = N(file', X)
    BY DEF DiskN, ExitPhases
  <1>6. DiskN(F) \in Nat
    BY DiskIsNat DEF ExitIInv
  <1>7. One(as \in F) \in {0, 1} /\ (as \in F => One(as \in F) = 1)
    BY DEF One
  <1> HIDE DEF x, X
  <1>8. DiskN(F)' = DiskN(F) + One(as \in F)
    BY <1>3, <1>4, <1>5
  <1>9. ASSUME DiskN(F) >= 1 \/ as \in F PROVE DiskN(F)' >= 1
    <2> DEFINE d == One(as \in F)
    <2>1. d \in {0, 1} /\ (as \in F => d = 1) /\ DiskN(F)' = DiskN(F) + d
      BY <1>7, <1>8
    <2> HIDE DEF d
    <2>2. CASE DiskN(F) >= 1
      BY <1>6, <2>1, <2>2
    <2>3. CASE as \in F
      <3>1. d = 1
        BY <2>1, <2>3
      <3> QED BY <1>6, <2>1, <3>1
    <2> QED BY <1>9, <2>2, <2>3
  <1> QED BY <1>5, <1>8, <1>9 DEF X

LEMMA LoadDisk ==
    ASSUME FileOK, LoadOne, NEW F
    PROVE  /\ DiskN(F) = DiskN(F)' + One(Head(unread).res \in F) /\ DiskN(F)' \in Nat
           /\ N(file, RecsOf(F))' = N(file, RecsOf(F))
  <1> DEFINE x == Head(unread)
  <1>1. /\ unread \in Seq(DumpRecord) /\ unread # <<>> /\ unread' = Tail(unread) /\ phase = "load"
        /\ phase' = "load" /\ file' = file
    BY DEF LoadOne, FileOK, loopVars
  <1>2. x \in DumpRecord /\ (x \in RecsOf(F) <=> x.res \in F)
    BY <1>1, SeqTail DEF RecsOf
  <1> HIDE DEF x
  <1>3. /\ N(unread, RecsOf(F)) = N(unread', RecsOf(F)) + One(x \in RecsOf(F))
        /\ N(unread', RecsOf(F)) \in Nat
    BY <1>1, PopN DEF x
  <1> QED BY <1>1, <1>2, <1>3 DEF DiskN, One, x

-----------------------------------------------------------------------------
(* DumpedComesBack                                                         *)

OnDisk(q) == DiskN({q}) >= 1
Back(q)   == OnDisk(q) \/ TotalN({q}) >= 1

BackInv ==
    /\ \A r \in Res : Finite({r})
    /\ phase \in ExitPhases => \A r \in dumped : OnDisk(r) \/ OnDisk(ReadBack[r])
    /\ Alive => \A r \in dumped : Back(r) \/ Back(ReadBack[r])

\* what is on the disk or in the process stays there
LEMMA SteadyBack ==
    ASSUME ExitIInv, SteadyStep, NEW q \in Res, Finite({q})
    PROVE  /\ Finite({q})' /\ (OnDisk(q) => OnDisk(q)')
           /\ Alive' /\ Back(q) => Back(q)'
  <1>1. Conserved({q}) /\ DataOK'
    BY SteadyN DEF ExitIInv
  <1>2. Finite({q})' /\ (Alive' /\ TotalN({q}) >= 1 => TotalN({q})' >= 1)
    BY <1>1 DEF Conserved
  <1>3. DiskN({q})' \in Nat /\ DiskN({q}) \in Nat /\ DiskN({q})' >= DiskN({q})
    BY SteadyDisk, DiskIsNat DEF ExitIInv
  <1> QED BY <1>2, <1>3 DEF OnDisk, Back

LEMMA StepBack == ASSUME ExitIInv, BackInv, [ExitNext]_allVars PROVE BackInv'
  <1> USE DEF ExitIInv
  <1>0. \A r \in dumped : r \in Res /\ ReadBack[r] \in Res
    BY ExitAssumption DEF FileOK
  <1>1. CASE SteadyStep
    <2>1. SteadyMoves
      BY <1>1, SteadyCases
    <2>2. dumped' \in SUBSET dumped /\ (phase' \in ExitPhases => phase \in ExitPhases \/ dumped' = {})
      BY <2>1 DEF SteadyMoves, SameFile, ExitPhases
    <2>3. Alive' => Alive
      BY <2>1 DEF SteadyMoves, ExitPhases, Alive
    <2>4. ASSUME NEW r \in Res
          PROVE  Finite({r})' /\ (OnDisk(r) => OnDisk(r)') /\ (Alive' /\ Back(r) => Back(r)')
      BY <1>1, SteadyBack DEF BackInv
    <2>5. (phase \in ExitPhases)' => \A r \in dumped' : OnDisk(r)' \/ OnDisk(ReadBack[r])'
      BY <1>0, <2>2, <2>4 DEF BackInv
    <2>6. Alive' => \A r \in dumped' : Back(r)' \/ Back(ReadBack[r])'
      BY <1>0, <2>2, <2>3, <2>4 DEF BackInv
    <2> QED BY <2>4, <2>5, <2>6 DEF BackInv
  <1>2. CASE DumpStep
    <2>1. PICK s \in Res, as \in Res : as \in {s, ReadBack[s]} /\ Dump(s, as) /\ Taken(s)
      BY <1>2, DumpN
    <2>2. phase' = phase /\ phase \in ExitPhases /\ dumped' = dumped \cup {s}
      BY <1>2, <2>1, DumpOfWhat DEF Dump, ExitPhases
    <2>3. \A r \in Res : Finite({r})'
      BY <2>1 DEF BackInv, Taken
    <2>4. ASSUME NEW q \in Res PROVE (OnDisk(q) => OnDisk(q)') /\ (q = as => OnDisk(q)')
      <3>1. DiskN({q}) >= 1 \/ as \in {q} => DiskN({q})' >= 1
        BY <2>1, <2>2, DumpDisk
      <3> QED BY <3>1 DEF OnDisk
    <2>5. \A r \in dumped' : OnDisk(r)' \/ OnDisk(ReadBack[r])'
      <3>1. OnDisk(s)' \/ OnDisk(ReadBack[s])'
        BY <2>1, <2>4
      <3>2. \A r \in dumped : OnDisk(r)' \/ OnDisk(ReadBack[r])'
        BY <1>0, <2>2, <2>4 DEF BackInv
      <3> QED BY <2>2, <3>1, <3>2
    <2> QED BY <2>3, <2>5 DEF BackInv, Back
  <1>3. CASE LoadOne
    <2>1. phase' = "load" /\ dumped' = dumped /\ Alive
      BY <1>3 DEF LoadOne, loopVars, Alive
    <2>2. ASSUME NEW q \in Res PROVE Finite({q})' /\ (Back(q) => Back(q)')
      <3>1. Finite({q}) /\ {q} \in SUBSET Res
        BY DEF BackInv
      <3>2. /\ Finite({q})' /\ TotalN({q})' = TotalN({q}) + One(Head(unread).res \in {q})
            /\ TotalN({q}) \in Nat
        BY <1>3, <3>1, LoadOneN, SumsAreNat DEF IInv
      <3>3. DiskN({q}) = DiskN({q})' + One(Head(unread).res \in {q}) /\ DiskN({q})' \in Nat
        BY <1>3, LoadDisk
      <3>4. One(Head(unread).res \in {q}) \in {0, 1}
        BY OneIs
      <3> QED BY <3>2, <3>3, <3>4 DEF Back, OnDisk
    <2> QED BY <1>0, <2>1, <2>2 DEF BackInv, ExitPhases
  <1>4. CASE Restart
    <2>1. \A r \in Res : Finite({r})'
      BY <1>4, RestartN DEF BackInv
    <2>2. phase' = "boot" /\ file' = file /\ dumped' = IF phase = "exited" THEN dumped ELSE {}
      BY <1>4 DEF Restart
    <2>3. ASSUME NEW r \in dumped' PROVE OnDisk(r)' \/ OnDisk(ReadBack[r])'
      <3>1. phase = "exited" /\ r \in dumped
        BY <2>2
      <3>2. OnDisk(r) \/ OnDisk(ReadBack[r])
        BY <3>1 DEF BackInv, ExitPhases
      <3>3. \A q : DiskN({q})' = DiskN({q})
        BY <2>2, <3>1 DEF DiskN
      <3> QED BY <3>2, <3>3 DEF OnDisk
    <2> QED BY <2>1, <2>2, <2>3 DEF BackInv, Back, ExitPhases
  <1>5. ASSUME NEW s \in Res, Submit(s), UNCHANGED exitVars PROVE BackInv'
    <2>1. phase' = phase /\ dumped' = dumped /\ file' = file /\ unread' = unread /\ Alive
      BY <1>5 DEF Submit, exitVars, loopVars
    <2>2. ASSUME NEW q \in Res PROVE Finite({q})' /\ (OnDisk(q) <=> OnDisk(q)') /\ (Back(q) => Back(q)')
      <3>1. Finite({q}) /\ {q} \in SUBSET Res
        BY DEF BackInv
      <3>2. Finite({q})' /\ TotalN({q})' = TotalN({q}) + One(s \in {q}) /\ TotalN({q}) \in Nat
        BY <1>5, <3>1, SubmitN, SumsAreNat DEF IInv
      <3>3. One(s \in {q}) \in {0, 1} /\ DiskN({q})' = DiskN({q})
        BY <2>1, OneIs DEF DiskN
      <3> QED BY <3>2, <3>3 DEF Back, OnDisk
    <2> QED BY <1>0, <2>1, <2>2 DEF BackInv
  <1> QED BY <1>1, <1>2, <1>3, <1>4, <1>5, ExitSteps

LEMMA SomeAt == ASSUME NEW q, NEW X, N(q, X) >= 1 PROVE \E i \in DOMAIN q : q[i] \in X
  <1>1. At(q, X) # {}
    BY FS_EmptySet DEF N
  <1> QED BY <1>1 DEF At

(* What dump() has written comes back, for every exit and start: it is in  *)
(* the file, or in what _load_dumps_ has still to submit, or somewhere in   *)
(* the next process, or recorded, until that process exits in its turn, or *)
(* an assert ends it.                                                      *)
THEOREM DumpIsLoaded == ExitSpec => []DumpedComesBack
  <1>1. ExitInit => BackInv
    <2>1. ExitInit => dumped = {} /\ \A r \in Res : Finite({r})
      BY FreshN DEF ExitInit
    <2> QED BY <2>1 DEF BackInv
  <1>2. ExitIInv /\ BackInv => DumpedComesBack
    <2>1. ASSUME ExitIInv, BackInv, NEW q \in Res, Back(q) PROVE Kept(q)
      <3>1. CASE DiskN({q}) >= 1
        <4>1. (\E i \in DOMAIN file : file[i] \in RecsOf({q})) \/ (\E i \in DOMAIN unread : unread[i] \in RecsOf({q}))
          BY <3>1, SomeAt DEF DiskN
        <4>2. \A x \in RecsOf({q}) : x.res = q
          BY DEF RecsOf
        <4> QED BY <4>1, <4>2 DEF Kept
      <3>2. CASE TotalN({q}) >= 1
        <4>1. Cardinality(Owners(q)) + Cardinality(LeakedRes(q)) + Len(written[q]) = TotalN({q})
          BY <2>1, OwnersN, Zenon DEF ExitIInv, IInv, BackInv
        <4>2. Cardinality({}) = 0 /\ Len(<<>>) = 0
          BY FS_EmptySet
        <4>3. ASSUME Owners(q) = {}, LeakedRes(q) = {}, written[q] = <<>> PROVE FALSE
          <5>1. Cardinality(Owners(q)) = 0 /\ Cardinality(LeakedRes(q)) = 0 /\ Len(written[q]) = 0
            BY <4>2, <4>3
          <5> QED BY <3>2, <4>1, <5>1
        <4> QED BY <4>3 DEF Kept
      <3> QED BY <2>1, <3>1, <3>2 DEF Back, OnDisk
    <2>2. ASSUME ExitIInv, BackInv, Alive, NEW r \in dumped PROVE Kept(r) \/ Kept(ReadBack[r])
      <3>1. r \in Res /\ ReadBack[r] \in Res /\ (Back(r) \/ Back(ReadBack[r]))
        BY <2>2, ExitAssumption DEF ExitIInv, FileOK, BackInv
      <3> QED BY <2>1, <2>2, <3>1
    <2> QED BY <2>2 DEF DumpedComesBack
  <1>3. ExitIInv /\ BackInv /\ [ExitNext]_allVars => BackInv'
    BY StepBack
  <1> QED BY <1>1, <1>2, <1>3, ExitInvariance, PTL DEF ExitSpec

-----------------------------------------------------------------------------
(* RecordedOnce                                                            *)

\* the resources whose dump record reads as b
Class(b)  == {q \in Res : ReadBack[q] = b}
Wanted(b) == Class(b) \cap accepted # {}

\* over a class, what is in the process, recorded or to be loaded is one
ClassInv ==
    /\ accepted \subseteq Res \ ReadOnly
    /\ \A b \in Res : /\ Finite(Class(b))
                      /\ TotalN(Class(b)) + DiskN(Class(b)) <= One(Wanted(b))
                      /\ N(file, RecsOf(Class(b))) <= 1

LEMMA ReadsAlike == \A r \in Res : ReadBack[r] \in Res /\ ReadBack[ReadBack[r]] = ReadBack[r]
  <1>1. ASSUME NEW r \in Res PROVE ReadBack[r] \in Res /\ ReadBack[ReadBack[r]] = ReadBack[r]
    <2>1. ReadBack[r] \in Res /\ UrlOf[r] \in [http: BOOLEAN, host: AnyHost, port: Port]
      BY ExitAssumption, UrlAssumption
    <2>2. UrlOf[ReadBack[r]].port = DefaultPort
      BY <2>1, ExitAssumption
    <2> QED BY <2>1, <2>2, ExitAssumption
  <1> QED BY <1>1

LEMMA StepClass ==
    ASSUME ExitIInv, ClassInv, [ExitNext]_allVars, LoadReturnsZero \subseteq {TRUE},
           \A r, s \in Res \ ReadOnly : ReadBack[r] = ReadBack[s] => r = s
    PROVE  ClassInv'
  <1> USE DEF ExitIInv
  <1>1. DataOK'
    BY StepExitInv DEF IInv
  <1>2. accepted' \subseteq Res \ ReadOnly
    <2>1. CASE SteadyStep
      BY <2>1, SteadyCases DEF ClassInv
    <2>2. CASE DumpStep
      BY <2>2, DumpOfWhat DEF Dump, ClassInv
    <2>3. CASE ~SteadyStep /\ ~DumpStep
      BY <2>3, ExitSteps DEF LoadOne, Restart, Submit, ClassInv
    <2> QED BY <2>1, <2>2, <2>3
  <1>3. ASSUME NEW b \in Res, NEW C, C = Class(b)
        PROVE  /\ Finite(C)' /\ TotalN(C)' + DiskN(C)' <= One(Wanted(b)')
               /\ N(file, RecsOf(C))' <= 1
    <2>1. /\ C \in SUBSET Res /\ Finite(C) /\ TotalN(C) + DiskN(C) <= One(Wanted(b))
          /\ N(file, RecsOf(C)) <= 1
      BY <1>3, Zenon DEF ClassInv, Class
    <2>2. TotalN(C) \in Nat /\ DiskN(C) \in Nat /\ N(file, RecsOf(C)) \in Nat
      BY <2>1, SumsAreNat, DiskIsNat DEF IInv
    <2>3. One(Wanted(b)) \in {0, 1} /\ One(Wanted(b)') \in {0, 1}
      BY DEF One
    <2>4. accepted' = accepted => One(Wanted(b)') = One(Wanted(b))
      BY DEF Wanted, Class
    <2>5. CASE SteadyStep
      <3>1. Conserved(C)
        BY <2>1, <2>5, SteadyN
      <3>2. Finite(C)' /\ TotalN(C)' <= TotalN(C)
        BY <3>1 DEF Conserved
      <3>3. TotalN(C)' \in Nat
        BY <1>1, <3>2, PrimedSums
      <3>4. DiskN(C)' = DiskN(C) /\ N(file, RecsOf(C))' \in {0, N(file, RecsOf(C))}
        BY <2>5, SteadyDisk
      <3>5. accepted' = accepted
        BY <2>5, SteadyCases
      <3>6. N(file, RecsOf(C))' <= 1
        BY <2>1, <2>2, <3>4
      <3>7. TotalN(C)' + DiskN(C)' <= One(Wanted(b))
        BY <2>1, <2>2, <2>3, <3>2, <3>3, <3>4
      <3> QED BY <2>4, <3>2, <3>5, <3>6, <3>7
    <2>6. CASE DumpStep
      <3>1. PICK s \in Res, as \in Res : as \in {s, ReadBack[s]} /\ Dump(s, as) /\ Taken(s)
        BY <2>6, DumpN
      <3>2. phase' = phase /\ phase \in ExitPhases /\ accepted' = accepted
        BY <2>6, <3>1, DumpOfWhat DEF Dump, ExitPhases
      <3>3. as \in C <=> s \in C
        BY <1>3, <3>1, ReadsAlike DEF Class
      <3>4. Finite(C)' /\ TotalN(C)' \in Nat /\ TotalN(C) = TotalN(C)' + One(s \in C)
        BY <2>1, <3>1 DEF Taken
      <3>5. DiskN(C)' = DiskN(C) + One(as \in C) /\ N(file, RecsOf(C))' = DiskN(C)'
        BY <3>1, <3>2, DumpDisk
      <3>6. One(as \in C) = One(s \in C) /\ One(s \in C) \in {0, 1}
        BY <3>3 DEF One
      <3>7. TotalN(C)' + DiskN(C)' = TotalN(C) + DiskN(C) /\ DiskN(C)' \in Nat
        <4> DEFINE d == One(s \in C)
        <4>1. TotalN(C) = TotalN(C)' + d /\ DiskN(C)' = DiskN(C) + d /\ d \in {0, 1}
          BY <3>4, <3>5, <3>6
        <4> HIDE DEF d
        <4> QED BY <2>2, <3>4, <4>1
      <3>8. TotalN(C)' + DiskN(C)' <= One(Wanted(b)) /\ DiskN(C)' <= 1
        BY <2>1, <2>2, <2>3, <3>4, <3>7
      <3> QED BY <2>4, <3>2, <3>4, <3>5, <3>8
    <2>7. CASE LoadOne
      <3>1. Finite(C)' /\ TotalN(C)' = TotalN(C) + One(Head(unread).res \in C)
        BY <2>1, <2>7, LoadOneN
      <3>2. /\ DiskN(C) = DiskN(C)' + One(Head(unread).res \in C) /\ DiskN(C)' \in Nat
            /\ N(file, RecsOf(C))' = N(file, RecsOf(C))
        BY <2>7, LoadDisk
      <3>3. One(Head(unread).res \in C) \in {0, 1} /\ accepted' = accepted
        BY <2>7, OneIs DEF LoadOne
      <3>4. TotalN(C)' + DiskN(C)' = TotalN(C) + DiskN(C)
        BY <2>2, <3>1, <3>2, <3>3
      <3> QED BY <2>1, <2>4, <3>1, <3>2, <3>3, <3>4
    <2>8. CASE Restart
      <3>1. Finite(C)' /\ TotalN(C)' \in Nat /\ TotalN(C)' <= TotalN(C)
        BY <2>1, <2>8, RestartN
      <3>2. /\ phase' = "boot" /\ phase # "load" /\ file' = file /\ accepted' = accepted
        BY <2>8 DEF Restart
      <3>3. DiskN(C)' = DiskN(C) /\ N(file, RecsOf(C))' = N(file, RecsOf(C))
        BY <3>2 DEF DiskN
      <3>4. TotalN(C)' + DiskN(C)' <= One(Wanted(b))
        BY <2>1, <2>2, <2>3, <3>1, <3>3
      <3> QED BY <2>1, <2>4, <3>1, <3>2, <3>3, <3>4
    <2>9. ASSUME NEW s \in Res \ ReadOnly, Submit(s), UNCHANGED exitVars
          PROVE  /\ Finite(C)' /\ TotalN(C)' + DiskN(C)' <= One(Wanted(b)')
                 /\ N(file, RecsOf(C))' <= 1
      <3>1. Finite(C)' /\ TotalN(C)' = TotalN(C) + One(s \in C)
        BY <2>1, <2>9, SubmitN
      <3>2. /\ phase' = phase /\ unread' = unread /\ file' = file
            /\ s \notin accepted /\ accepted' = accepted \cup {s}
        BY <2>9 DEF Submit, exitVars, loopVars
      <3>3. DiskN(C)' = DiskN(C) /\ N(file, RecsOf(C))' = N(file, RecsOf(C))
        BY <3>2 DEF DiskN
      <3>4. CASE s \in C
        <4>1. C \cap accepted = {}
          BY <1>3, <2>9, <3>2, <3>4 DEF ClassInv, Class
        <4>2. One(Wanted(b)) = 0 /\ One(Wanted(b)') = 1 /\ One(s \in C) = 1
          BY <1>3, <3>2, <3>4, <4>1 DEF One, Wanted, Class
        <4>3. TotalN(C) = 0 /\ DiskN(C) = 0
          BY <2>1, <2>2, <4>2
        <4>4. TotalN(C)' + DiskN(C)' <= One(Wanted(b)')
          BY <3>1, <3>3, <4>2, <4>3
        <4> QED BY <2>1, <3>1, <3>3, <4>4
      <3>5. CASE s \notin C
        <4>1. One(Wanted(b)') = One(Wanted(b)) /\ One(s \in C) = 0
          BY <1>3, <3>2, <3>5 DEF One, Wanted, Class
        <4>2. TotalN(C)' + DiskN(C)' <= One(Wanted(b)')
          BY <2>1, <2>2, <3>1, <3>3, <4>1
        <4> QED BY <2>1, <3>1, <3>3, <4>2
      <3> QED BY <3>4, <3>5
    <2> QED BY <2>5, <2>6, <2>7, <2>8, <2>9, ExitSteps
  <1>4. \A b \in Res : /\ Finite(Class(b))' /\ TotalN(Class(b))' + DiskN(Class(b))' <= One(Wanted(b)')
                       /\ N(file, RecsOf(Class(b)))' <= 1
    BY <1>3, Zenon
  <1> QED BY <1>2, <1>4 DEF ClassInv

LEMMA ClassRecords ==
    ASSUME ExitIInv, ClassInv, NEW r \in Res
    PROVE  Len(written[r]) <= 1 /\ Cardinality({i \in DOMAIN file : file[i].res = r}) <= 1
  <1> DEFINE b == ReadBack[r]
             C == Class(b)
  <1>1. b \in Res /\ r \in C /\ C \subseteq Res
    BY ReadsAlike DEF Class
  <1>2. Finite(C) /\ TotalN(C) + DiskN(C) <= One(Wanted(b)) /\ N(file, RecsOf(C)) <= 1
    BY <1>1 DEF ClassInv
  <1> HIDE DEF C, b
  <1>3. Cardinality(InRecords(C)) <= 1
    <2>1. /\ TotalN(C) \in Nat /\ DiskN(C) \in Nat /\ SvcN(C) \in Nat /\ WaiterN(C) \in Nat /\ DownN(C) \in Nat
          /\ LeakedN(C) \in Nat
      BY <1>2, SumsAreNat, DiskIsNat DEF ExitIInv, IInv
    <2>2. N(store_result_, ResultsOf(C)) \in Nat /\ Cardinality(InWriters(C)) \in Nat /\ Cardinality(InRecords(C)) \in Nat
      BY <1>2, CountsAreNat DEF ExitIInv, IInv
    <2>3. One(Wanted(b)) \in {0, 1}
      BY OneIs
    <2> QED BY <1>2, <2>1, <2>2, <2>3 DEF TotalN, StoreN
  <1>4. Len(written[r]) <= 1
    <2> DEFINE F == {r}
    <2>1. Len(written[r]) = Cardinality(InRecords(F)) /\ Len(written[r]) \in Nat
      BY RecordsAre DEF ExitIInv, IInv
    <2>2. InRecords(F) \subseteq InRecords(C)
      BY <1>1 DEF InRecords
    <2> HIDE DEF F
    <2>3. IsFiniteSet(InRecords(C)) /\ Cardinality(InRecords(C)) \in Nat
      BY <1>2, FS_CardinalityType DEF Finite
    <2>4. Cardinality(InRecords(F)) <= Cardinality(InRecords(C))
      BY <2>2, <2>3, FS_Subset
    <2> QED BY <1>3, <2>1, <2>3, <2>4
  <1>5. Cardinality({i \in DOMAIN file : file[i].res = r}) <= 1
    <2> DEFINE S == {i \in DOMAIN file : file[i].res = r}
    <2>1. file \in Seq(DumpRecord)
      BY DEF ExitIInv, FileOK
    <2>2. S \subseteq At(file, RecsOf(C))
      <3>1. \A i \in DOMAIN file : file[i] \in DumpRecord
        BY <2>1
      <3> QED BY <1>1, <3>1 DEF At, RecsOf
    <2> HIDE DEF S
    <2>3. IsFiniteSet(At(file, RecsOf(C))) /\ N(file, RecsOf(C)) \in Nat
      BY <2>1, AtFinite
    <2>4. IsFiniteSet(S) /\ Cardinality(S) <= N(file, RecsOf(C))
      BY <2>2, <2>3, FS_Subset DEF N
    <2>5. Cardinality(S) \in Nat
      BY <2>4, FS_CardinalityType
    <2>6. Cardinality(S) <= 1
      BY <1>2, <2>3, <2>4, <2>5
    <2> QED BY <2>6 DEF S
  <1> QED BY <1>4, <1>5

(* A resource is recorded once, and dumped once, over any number of exits  *)
(* and starts: _load_dumps_ takes the file away after it has submitted it, *)
(* provided that it seems to return 0 (it has no return), and that clients *)
(* submit no two URLs that differ in the port only (the record of a site's *)
(* resource has lost its port).                                            *)
THEOREM RecordsAreOnce ==
    ASSUME LoadReturnsZero \subseteq {TRUE},
           \A r, s \in Res \ ReadOnly : ReadBack[r] = ReadBack[s] => r = s
    PROVE  ExitSpec => []RecordedOnce
  <1>1. ExitInit => ClassInv
    <2> SUFFICES ASSUME ExitInit PROVE ClassInv
      OBVIOUS
    <2>1. \A b \in Res : Finite(Class(b)) /\ TotalN(Class(b)) = 0
      BY FreshN DEF ExitInit, Class
    <2>2. ASSUME NEW F PROVE DiskN(F) = 0 /\ N(file, RecsOf(F)) = 0
      BY NoneAt DEF ExitInit, Fresh, DiskN
    <2>3. accepted = {}
      BY DEF ExitInit, Fresh
    <2>4. \A b \in Res : One(Wanted(b)) = 0
      BY <2>3 DEF One, Wanted
    <2>5. \A b \in Res : DiskN(Class(b)) = 0 /\ N(file, RecsOf(Class(b))) = 0
      BY <2>2, Zenon
    <2> QED BY <2>1, <2>3, <2>4, <2>5 DEF ClassInv
  <1>2. ExitIInv /\ ClassInv => RecordedOnce
    BY ClassRecords DEF RecordedOnce
  <1>3. ExitIInv /\ ClassInv /\ [ExitNext]_allVars => ClassInv'
    BY StepClass
  <1> QED BY <1>1, <1>2, <1>3, ExitInvariance, PTL DEF ExitSpec

-----------------------------------------------------------------------------
(* ExitLosesOnlyQueued                                                     *)

\* svc makes no call any more; svc has emptied its sites
AfterDrain == {"ready_dump", "list_dump", "site_dump", "stop", "exited"}
Stopping   == {"stop", "exited"}

StopInv ==
    /\ phase \notin Stopping \cup {"abort"} => pools = Pools /\ joining = Idle
    /\ phase = "exited" => pools = {} /\ joining = Idle
    /\ \A p \in Pools \ pools : p # joining => Ended(p)
    /\ phase \in AfterDrain => outbox = <<>>
    /\ phase \in Stopping => \A k \in Site : IsSite(k) => sites_map_[k].res_list_ = <<>>

\* a thread of a pool that is stopped takes nothing new
LEMMA EndedStays ==
    ASSUME ExitIInv, Worker, UNCHANGED exitVars, NEW p \in Pools \ pools, Ended(p)
    PROVE  Ended(p)'
  <1> USE DEF exitVars
  <1>1. CASE p = "dns"
    <2>1. \A t \in Resolver : resolving[t] = Idle
      BY <1>1 DEF Ended
    <2>2. resolving' = resolving
      BY <1>1, <2>1 DEF Worker, ResolvePop, ResolvePush, WaitPop, Timeout, DownloadPop, DownloadEnd, StorePop,
         StoreWrite, dnsVars
    <2> QED BY <1>1, <2>1, <2>2 DEF Ended
  <1>2. CASE p = "wait"
    <2>1. timers = {}
      BY <1>2 DEF Ended
    <2>2. timers' = timers
      BY <1>2, <2>1 DEF Worker, ResolvePop, ResolvePush, WaitPop, Timeout, DownloadPop, DownloadEnd, StorePop,
         StoreWrite, waitVars
    <2> QED BY <1>2, <2>1, <2>2 DEF Ended
  <1>3. CASE p = "down"
    <2>1. conns = {}
      BY <1>3 DEF Ended
    <2>2. conns' = conns
      BY <1>3, <2>1 DEF Worker, ResolvePop, ResolvePush, WaitPop, Timeout, DownloadPop, DownloadEnd, StorePop,
         StoreWrite, downVars
    <2> QED BY <1>3, <2>1, <2>2 DEF Ended
  <1>4. CASE p = "store"
    <2>1. \A t \in Writer : storing[t] = Idle
      BY <1>4 DEF Ended
    <2>2. storing' = storing
      BY <1>4, <2>1 DEF Worker, ResolvePop, ResolvePush, WaitPop, Timeout, DownloadPop, DownloadEnd, StorePop,
         StoreWrite, storeVars
    <2> QED BY <1>4, <2>1, <2>2 DEF Ended
  <1> QED BY <1>1, <1>2, <1>3, <1>4 DEF Pools

\* of what StopInv speaks of
stopVars == <<pools, joining, resolving, timers, conns, storing, sites_map_, outbox>>

LEMMA StopKept ==
    ASSUME StopInv, UNCHANGED stopVars,
           phase' \in AfterDrain => phase \in AfterDrain \/ outbox = <<>>,
           phase' \in Stopping => phase \in Stopping,
           phase' = "exited" => phase = "exited",
           phase \in Stopping \cup {"abort"} => phase' \in Stopping \cup {"abort"}
    PROVE  StopInv'
  <1>1. \A p \in Pools : Ended(p)' <=> Ended(p)
    BY DEF stopVars, Ended
  <1>2. \A k \in Site : IsSite(k)' <=> IsSite(k)
    BY DEF stopVars, IsSite
  <1> QED BY <1>1, <1>2 DEF StopInv, stopVars

LEMMA InitStop == ASSUME ExitInit PROVE StopInv
  BY DEF ExitInit, Fresh, StopInv, AfterDrain, Stopping

LEMMA StepStop == ASSUME ExitIInv, StopInv, [ExitNext]_allVars PROVE StopInv'
  <1>1. CASE Boot \/ LoadEnd \/ Go \/ LoadOne
    <2>1. UNCHANGED stopVars
      BY <1>1 DEF Boot, LoadEnd, Go, LoadOne, stopVars, siteVars, dnsVars, waitVars, downVars, storeVars
    <2>2. phase \notin AfterDrain \cup Stopping \cup {"abort"} /\ phase' \notin AfterDrain \cup Stopping
      BY <1>1 DEF Boot, LoadEnd, Go, LoadOne, loopVars, AfterDrain, Stopping
    <2> QED BY <2>1, <2>2, StopKept DEF Stopping
  <1>2. CASE Signal \/ UNCHANGED allVars \/ \E r \in Res \ ReadOnly : Submit(r) /\ UNCHANGED exitVars
    <2>1. UNCHANGED stopVars /\ phase' = phase
      BY <1>2 DEF Signal, Submit, allVars, vars, exitVars, stopVars, siteVars, dnsVars, waitVars, downVars, storeVars,
         loopVars
    <2> QED BY <2>1, StopKept
  <1>3. CASE EndRound
    <2>1. UNCHANGED stopVars
      BY <1>3 DEF EndRound, stopVars, siteVars, dnsVars, waitVars, downVars, storeVars, exitVars
    <2>2. phase \notin Stopping \cup {"abort"} /\ phase' \notin AfterDrain \cup Stopping
      BY <1>3 DEF EndRound, Turning, AfterDrain, Stopping
    <2> QED BY <2>1, <2>2, StopKept DEF Stopping
  <1>11. CASE DumpNull \/ Ends
    <2>1. UNCHANGED stopVars /\ phase' = "abort"
      BY <1>11, EndsAbort DEF memory, stopVars, siteVars, dnsVars, waitVars, downVars, storeVars, exitVars
    <2>2. \A p \in Pools : Ended(p)' <=> Ended(p)
      BY <2>1 DEF stopVars, Ended
    <2> QED BY <2>1, <2>2 DEF StopInv, stopVars, AfterDrain, Stopping
  <1>4. CASE ExitStage
    <2>1. UNCHANGED stopVars /\ outbox = <<>>
      BY <1>4 DEF ExitStage, NextStage, Turning, stopVars, siteVars, dnsVars, waitVars, downVars, storeVars, exitVars
    <2>2. CASE phase \notin {"site_dump", "stop"}
      <3>1. phase \notin Stopping \cup {"abort"} /\ phase' \notin Stopping
        BY <1>4, <2>2 DEF ExitStage, NextStage, Turning, Stopping
      <3> QED BY <2>1, <3>1, StopKept DEF Stopping
    <2>3. CASE phase \in {"site_dump", "stop"}
      <3>1. \/ /\ phase = "site_dump" /\ phase' = "stop"
               /\ \A k \in Site : IsSite(k) => sites_map_[k].res_list_ = <<>>
            \/ phase = "stop" /\ phase' = "exited" /\ pools = {} /\ joining = Idle
        BY <1>4, <2>3 DEF ExitStage, NextStage, Turning
      <3>2. \A p \in Pools : Ended(p)' <=> Ended(p)
        BY <2>1 DEF stopVars, Ended
      <3>3. \A k \in Site : IsSite(k)' <=> IsSite(k)
        BY <2>1 DEF stopVars, IsSite
      <3> QED BY <2>1, <3>1, <3>2, <3>3 DEF StopInv, stopVars, Stopping
    <2> QED BY <2>2, <2>3
  <1>5. ASSUME NEW p \in Pools, StopPool(p) \/ JoinPool(p) PROVE StopInv'
    <2>1. UNCHANGED <<resolving, timers, conns, storing, sites_map_, outbox, phase>>
      BY <1>5 DEF StopPool, JoinPool, vars, siteVars, dnsVars, waitVars, downVars, storeVars, loopVars
    <2>2. \A q \in Pools : Ended(q)' <=> Ended(q)
      BY <2>1 DEF Ended
    <2>3. \A k \in Site : IsSite(k)' <=> IsSite(k)
      BY <2>1 DEF IsSite
    <2>5. phase = "stop"
      <3>1. CASE StopPool(p)
        BY <3>1 DEF StopPool
      <3>2. CASE JoinPool(p)
        BY <3>2 DEF JoinPool
      <3> QED BY <1>5, <3>1, <3>2
    <2>6. \A q \in Pools \ pools' : q # joining' => Ended(q)'
      <3>1. CASE StopPool(p)
        <4>1. pools' = pools \ {p} /\ joining' = p /\ joining = Idle
          BY <3>1 DEF StopPool
        <4>2. \A q \in Pools : q # Idle
          BY PoolAssumption
        <4> QED BY <2>2, <4>1, <4>2 DEF StopInv
      <3>2. CASE JoinPool(p)
        BY <2>2, <3>2 DEF JoinPool, StopInv
      <3> QED BY <1>5, <3>1, <3>2
    <2> QED BY <2>1, <2>3, <2>5, <2>6 DEF StopInv, Stopping
  <1>6. CASE Loops /\ UNCHANGED exitVars
    <2>1. phase \notin AfterDrain
      BY <1>6 DEF Loops, ResTurn, DnsTurn, ReadyTurn, ResultTurn, EndRes, EndDns, EndReady, NextLoop, Turning,
         PushDns, PushTimed, PushDown, PushStore, PushWait, StopInv, AfterDrain
    <2>2. phase' = phase \/ phase' \in {"dns", "ready", "result", "abort"}
      BY <1>6, CorePhase DEF CoreStep
    <2>3. phase \notin Stopping /\ phase' \notin AfterDrain \cup Stopping
      BY <2>1, <2>2 DEF AfterDrain, Stopping
    <2>4. phase # "abort"
      BY <1>6 DEF Loops, ResTurn, DnsTurn, ReadyTurn, ResultTurn, EndRes, EndDns, EndReady, NextLoop, Turning,
         PushDns, PushTimed, PushDown, PushStore, PushWait, Alive
    <2>5. pools' = Pools /\ joining' = Idle
      BY <1>6, <2>3, <2>4 DEF StopInv, exitVars
    <2> QED BY <2>3, <2>5 DEF StopInv, Stopping
  <1>7. CASE Worker /\ UNCHANGED exitVars
    <2>1. UNCHANGED <<sites_map_, outbox, phase, pools, joining>>
      BY <1>7 DEF Worker, ResolvePop, ResolvePush, WaitPop, Timeout, DownloadPop, DownloadEnd, StorePop, StoreWrite,
         siteVars, loopVars, exitVars
    <2>2. \A p \in Pools \ pools : p # joining => Ended(p)'
      BY <1>7, EndedStays DEF StopInv
    <2>3. \A k \in Site : IsSite(k)' <=> IsSite(k)
      BY <2>1 DEF IsSite
    <2> QED BY <2>1, <2>2, <2>3 DEF StopInv
  <1>8. CASE DrainTurn
    <2>1. phase = "drain" /\ phase' = phase /\ pools' = pools /\ joining' = joining
      BY <1>8 DEF DrainTurn, Turning, loopVars, exitVars
    <2> QED BY <2>1 DEF StopInv, AfterDrain, Stopping
  <1>9. CASE DumpStep
    <2>1. PICK r \in Res, as \in Res : Dump(r, as)
      BY <1>9, DumpOfWhat DEF ExitIInv
    <2>2. phase' = phase /\ phase \in {"ready_dump", "list_dump", "site_dump"}
      BY <1>9, DumpOfWhat DEF ExitIInv
    <2>3. outbox' = outbox /\ pools' = pools /\ joining' = joining
      BY <2>1 DEF Dump
    <2> QED BY <2>2, <2>3 DEF StopInv, AfterDrain, Stopping
  <1>10. CASE Restart
    BY <1>10 DEF Restart, StopInv, AfterDrain, Stopping
  <1> QED BY <1>1, <1>2, <1>3, <1>4, <1>5, <1>6, <1>7, <1>8, <1>9, <1>10, <1>11, ExitCases
          DEF QuietStep, CoreStep

\* all that is joined has ended
LEMMA ThreadsEnded ==
    ASSUME StopInv, phase = "exited"
    PROVE  outbox = <<>> /\ timers = {} /\ conns = {} /\ \A t \in Writer : storing[t] = Idle
  <1>1. \A q \in Pools : Ended(q)
    BY PoolAssumption DEF StopInv
  <1> QED BY <1>1 DEF StopInv, AfterDrain, Pools, Ended

\* at the end of the exit a resource can only stand in a queue
LEMMA OnlyQueued ==
    ASSUME ExitIInv, StopInv, phase = "exited", NEW r \in Res, NEW p \in Owners(r)
    PROVE  \/ \E i \in DOMAIN res_list_ : res_list_[i] = r
           \/ \E q \in {wait_list_, ready_list_, http_request_, http_result_, store_result_} :
                  \E i \in DOMAIN q : q[i].res = r
  <1>1. outbox = <<>> /\ timers = {} /\ conns = {} /\ \A t \in Writer : storing[t] = Idle
    BY ThreadsEnded
  <1>2. InSites(r) = {}
    BY DEF InSites, StopInv, Stopping
  <1>3. Posted("wait") = {} /\ Posted("down") = {} /\ Posted("store") = {}
    BY <1>1 DEF Posted, Places
  <1>4. \/ p \in Places("list", res_list_) /\ p[3] = r
        \/ /\ p \in Places("wait", wait_list_) \cup Places("ready", ready_list_) \cup Places("request", http_request_)
                    \cup Places("result", http_result_) \cup Places("store", store_result_)
           /\ p[3].res = r
    BY <1>1, <1>2, <1>3 DEF Owners
  <1> QED BY <1>4 DEF Places

(* When svc has come to the end of its exit the threads hold nothing, and  *)
(* a resource that is neither recorded nor in the dump stands in a queue:  *)
(* svc dumps what its sites still hold, and each pool is joined only when  *)
(* its threads, timers and connections have ended.  An exit whose dump     *)
(* file does not open never comes to this end, nor does one cut short by   *)
(* an assert or a failed write.                                            *)
THEOREM ExitLoses == ExitSpec => []ExitLosesOnlyQueued
  <1>1. ExitIInv /\ StopInv /\ AccountInv => ExitLosesOnlyQueued
    <2> SUFFICES ASSUME ExitIInv, StopInv, AccountInv, phase = "exited" PROVE ExitLosesOnlyQueued
      BY DEF ExitLosesOnlyQueued
    <2>1. outbox = <<>> /\ timers = {} /\ conns = {} /\ \A t \in Writer : storing[t] = Idle
      BY ThreadsEnded
    <2>2. ASSUME NEW r \in accepted, starts = 1, written[r] = <<>>, r \notin dumped, LeakedRes(r) = {}
          PROVE  \/ \E i \in DOMAIN res_list_ : res_list_[i] = r
                 \/ \E q \in {wait_list_, ready_list_, http_request_, http_result_, store_result_} :
                        \E i \in DOMAIN q : q[i].res = r
      <3>1. r \in Res /\ Finite({r}) /\ Accounted(r) /\ Alive
        BY <2>2 DEF ExitIInv, IInv, DataOK, AccountInv, Alive
      <3>2. TotalN({r}) >= 1
        <4>1. One(r \in dumped) = 0 /\ One(r \in accepted) = 1 /\ TotalN({r}) + One(r \in dumped) >= One(r \in accepted)
          BY <2>2, <3>1 DEF One, Accounted
        <4>2. TotalN({r}) \in Nat
          BY <3>1, SumsAreNat DEF ExitIInv, IInv
        <4> QED BY <4>1, <4>2
      <3>3. Cardinality(Owners(r)) + Cardinality(LeakedRes(r)) + Len(written[r]) = TotalN({r})
        BY <3>1, OwnersN, Zenon DEF ExitIInv, IInv
      <3>4. Owners(r) # {}
        <4>1. Cardinality(LeakedRes(r)) = 0 /\ Len(written[r]) = 0 /\ (Owners(r) = {} => Cardinality(Owners(r)) = 0)
          BY <2>2, FS_EmptySet
        <4> QED BY <3>2, <3>3, <4>1
      <3> QED BY <3>1, <3>4, OnlyQueued
    <2> QED BY <2>1, <2>2 DEF ExitLosesOnlyQueued
  <1>2. ExitSpec => []StopInv
    <2>1. ExitIInv /\ StopInv /\ [ExitNext]_allVars => StopInv'
      BY StepStop
    <2> QED BY <2>1, InitStop, ExitInvariance, PTL DEF ExitSpec
  <1>3. ExitSpec => []AccountInv
    <2>1. ExitIInv /\ AccountInv /\ [ExitNext]_allVars => AccountInv'
      BY StepAccount
    <2> QED BY <2>1, InitAccount, ExitInvariance, PTL DEF ExitSpec
  <1> QED BY <1>1, <1>2, <1>3, ExitInvariance, PTL

=============================================================================
