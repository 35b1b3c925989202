------------------------- MODULE DispatcherProofs --------------------------
(***************************************************************************)
(* Theorems about Dispatcher, for any workers, spiders, URLs and length of *)
(* a turn: no URL arrives twice, and the spiders take turns in order.      *)
(*                                                                         *)
(* That no URL arrives twice needs to know who may still send it: one      *)
(* worker at most, which has not sent it while it can come to its send     *)
(* (Holds), and nobody for the URLs no client has submitted yet.  That the *)
(* turns are in order needs where client_, send_num_ and the index stand   *)
(* at each step of the one call that is under way (Stage).                 *)
(***************************************************************************)
EXTENDS Dispatcher, FiniteSetTheorems, TLAPS

Search == {"pick", "increment", "modulo", "got", "test", "reset"}
Pc == {"idle", "check", "count", "add", "enter", "call", "answer"} \cup Search
Task == [pc: Pc, url: Nat, left: Int, c: Server \cup {None}, again: BOOLEAN]
Types ==
    /\ worker \in [Worker -> Task]
    /\ urls \in Nat /\ client_ \in Server \cup {None}
    /\ sent \in [Url -> Seq(Server \cup {None})]

\* the worker can come to the send of its URL
MaySend(t) == t.pc \in {"check", "count", "add", "enter", "call"} \/ (t.pc \in Search /\ ~t.again)

Holds(w) == worker[w].pc # "idle" =>
    /\ worker[w].url \in Url /\ worker[w].url <= urls
    /\ MaySend(worker[w]) => sent[worker[w].url] = <<>>
    /\ \A v \in Worker : worker[v].pc # "idle" /\ worker[v].url = worker[w].url => v = w

SentInv ==
    /\ Types /\ NeverTwice
    /\ \A u \in Url : u > urls => sent[u] = <<>>
    /\ \A w \in Worker : Holds(w)

-----------------------------------------------------------------------------
(* What the steps change of a task.                                        *)
Called(o, n)    == [o EXCEPT !.pc = "check", !.url = n]
Moved(o, p)     == [o EXCEPT !.pc = p]
Found(o, p, c)  == [o EXCEPT !.pc = p, !.c = c]
Looped(o, p)    == [o EXCEPT !.left = @ - 1, !.pc = p]
Switched(o, a)  == [o EXCEPT !.pc = "pick", !.left = Servers, !.c = None, !.again = a]
Given(o)        == [o EXCEPT !.pc = "test", !.left = 0, !.c = None]
Same(o, t, p, a) == t \in Task /\ t.pc = p /\ t.url = o.url /\ t.again = a

LEMMA CalledTask ==
  ASSUME NEW o \in Task, NEW n \in Nat
  PROVE  Called(o, n) \in Task /\ Called(o, n).pc = "check" /\ Called(o, n).url = n
BY DEF Task, Pc, Called

LEMMA MovedTask ==
  ASSUME NEW o \in Task, NEW p \in Pc
  PROVE  Same(o, Moved(o, p), p, o.again) /\ Moved(o, p).c = o.c /\ Moved(o, p).left = o.left
BY DEF Task, Moved, Same

LEMMA FoundTask ==
  ASSUME NEW o \in Task, NEW p \in Pc, NEW c \in Server \cup {None}
  PROVE  Same(o, Found(o, p, c), p, o.again) /\ Found(o, p, c).c = c
BY DEF Task, Found, Same

LEMMA LoopedTask ==
  ASSUME NEW o \in Task, NEW p \in Pc
  PROVE  Same(o, Looped(o, p), p, o.again) /\ Looped(o, p).c = o.c
<1>1. o.left - 1 \in Int
  BY DEF Task
<1> QED BY <1>1 DEF Task, Looped, Same

LEMMA SwitchedTask ==
  ASSUME NEW o \in Task, NEW a \in BOOLEAN
  PROVE  Same(o, Switched(o, a), "pick", a) /\ Switched(o, a).left = Servers
<1>1. Servers \in Int
  BY ServerAssumption
<1> QED BY <1>1 DEF Task, Pc, Search, Switched, Same

LEMMA GivenTask == ASSUME NEW o \in Task PROVE Same(o, Given(o), "test", o.again)
<1>1. 0 \in Int /\ "test" \in Pc /\ None \in Server \cup {None}
  BY DEF Pc, Search
<1> QED BY <1>1 DEF Task, Given, Same

LEMMA RestingTask == Resting \in Task /\ Resting.pc = "idle" /\ ~MaySend(Resting)
<1>1. Resting \in Task
  BY DEF Resting, NoUrl, Pc, Task
<1>2. Resting.pc = "idle"
  BY DEF Resting
<1> QED BY <1>1, <1>2 DEF MaySend, Search

(* A worker goes on with its URL, to a place where it may send only if it  *)
(* could before; no URL arrives.                                           *)
LEMMA GoesOn ==
  ASSUME SentInv, NEW w \in Worker, worker[w].pc # "idle", UNCHANGED <<urls, sent>>,
         client_' \in Server \cup {None},
         NEW t \in Task,
         worker' = [worker EXCEPT ![w] = t],
         t.url = worker[w].url \/ t.pc = "idle",
         MaySend(t) => MaySend(worker[w])
  PROVE  SentInv'
<1>1. Types' /\ NeverTwice' /\ (\A u \in Url : u > urls => sent[u] = <<>>)'
  BY DEF SentInv, Types, NeverTwice
<1>2. worker'[w] = t /\ \A v \in Worker : v # w => worker'[v] = worker[v]
  BY DEF SentInv, Types
<1>3. ASSUME NEW v \in Worker PROVE Holds(v)'
  <2>1. Holds(v) /\ Holds(w)
    BY DEF SentInv
  <2>2. CASE v = w
    BY <1>2, <2>1, <2>2 DEF Holds
  <2>3. CASE v # w
    BY <1>2, <2>1, <2>3 DEF Holds
  <2> QED BY <2>2, <2>3
<1> QED BY <1>1, <1>3 DEF SentInv

(* A worker sends, once: it has not before, and cannot again.              *)
LEMMA Sends ==
  ASSUME SentInv, NEW w \in Worker, worker[w].pc = "call", UNCHANGED <<urls, client_>>,
         NEW c \in Server \cup {None},
         sent' = [sent EXCEPT ![worker[w].url] = Append(@, c)],
         NEW t \in Task,
         worker' = [worker EXCEPT ![w] = t],
         t.url = worker[w].url, ~MaySend(t)
  PROVE  SentInv'
<1> DEFINE u == worker[w].url
<1>1. /\ u \in Url /\ u <= urls /\ sent[u] = <<>> /\ u \in Nat /\ urls \in Nat
      /\ sent \in [Url -> Seq(Server \cup {None})]
      /\ \A v \in Worker : worker[v].pc # "idle" /\ worker[v].url = u => v = w
  BY DEF SentInv, Types, Holds, MaySend, Url
<1>2. sent' = [sent EXCEPT ![u] = <<c>>]
  <2>1. Append(sent[u], c) = <<c>>
    BY <1>1
  <2> QED BY <2>1
<1>3. /\ worker'[w] = t /\ \A v \in Worker : v # w => worker'[v] = worker[v]
      /\ sent'[u] = <<c>> /\ \A x \in Url : x # u => sent'[x] = sent[x]
  BY <1>1, <1>2 DEF SentInv, Types
<1> HIDE DEF u
<1>4. Types'
  <2>1. <<c>> \in Seq(Server \cup {None})
    OBVIOUS
  <2> QED BY <1>1, <1>2, <2>1 DEF SentInv, Types
<1>5. NeverTwice'
  <2>1. Len(<<c>>) = 1
    OBVIOUS
  <2>2. ASSUME NEW x \in Url PROVE Len(sent'[x]) <= 1
    <3>1. CASE x = u
      <4>1. sent'[x] = <<c>>
        BY <1>3, <3>1
      <4> QED BY ONLY <4>1, <2>1
    <3>2. CASE x # u
      BY <1>3, <3>2 DEF SentInv, NeverTwice
    <3> QED BY <3>1, <3>2
  <2> QED BY <2>2 DEF NeverTwice
<1>6. (\A x \in Url : x > urls => sent[x] = <<>>)'
  <2>1. ASSUME NEW x \in Url, x > urls' PROVE sent'[x] = <<>>
    <3>1. x # u
      BY <1>1, <2>1
    <3> QED BY <1>3, <2>1, <3>1 DEF SentInv
  <2> QED BY <2>1
<1>7. ASSUME NEW v \in Worker PROVE Holds(v)'
  <2>1. Holds(v) /\ Holds(w) /\ worker[w].pc # "idle"
    BY DEF SentInv
  <2>2. CASE v = w
    <3>1. t.url = u \/ t.pc = "idle"
      BY DEF u
    <3> QED BY <1>1, <1>3, <2>1, <2>2, <3>1 DEF Holds
  <2>3. CASE v # w
    <3>1. worker[v].pc # "idle" => worker[v].url # u
      BY <1>1, <2>3
    <3>2. t.url = u \/ t.pc = "idle"
      BY DEF u
    <3> QED BY <1>3, <2>1, <2>3, <3>1, <3>2 DEF Holds
  <2> QED BY <2>2, <2>3
<1> QED BY <1>4, <1>5, <1>6, <1>7 DEF SentInv

-----------------------------------------------------------------------------
LEMMA SentInit == Init => SentInv
<1> SUFFICES ASSUME Init PROVE SentInv
  OBVIOUS
<1>1. /\ worker = [w \in Worker |-> Resting] /\ urls = 0 /\ client_ = None /\ sent = [u \in Url |-> <<>>]
      /\ Resting.pc = "idle"
  BY DEF Init, Resting
<1>2. Types
  <2>1. Resting \in Task
    BY DEF Resting, NoUrl, Pc, Task
  <2> QED BY <1>1, <2>1 DEF Types
<1>3. NeverTwice
  BY <1>1 DEF NeverTwice
<1>4. \A w \in Worker : Holds(w)
  BY <1>1 DEF Holds
<1> QED BY <1>1, <1>2, <1>3, <1>4 DEF SentInv

(* A new URL: no worker has it, and it has not arrived anywhere.           *)
LEMMA CallInv ==
  ASSUME SentInv, NEW w \in Worker, Call(w)
  PROVE  SentInv'
<1> DEFINE t == Called(Resting, urls + 1)
<1>1. /\ worker' = [worker EXCEPT ![w] = t] /\ urls' = urls + 1 /\ UNCHANGED <<sent, client_>>
      /\ urls \in Nat /\ urls < MaxUrls /\ worker[w].pc = "idle"
  BY DEF Call, At, SentInv, Types, Called, ownVars
<1>2. t \in Task /\ t.url = urls + 1 /\ t.pc = "check"
  <2>1. urls + 1 \in Nat
    BY <1>1
  <2> QED BY <2>1, RestingTask, CalledTask
<1> HIDE DEF t
<1>3. /\ worker'[w] = t /\ \A v \in Worker : v # w => worker'[v] = worker[v]
      /\ urls + 1 \in Url /\ sent[urls + 1] = <<>>
  BY <1>1, ServerAssumption DEF SentInv, Types, Url
<1>4. Types' /\ NeverTwice'
  BY <1>1, <1>2 DEF SentInv, Types, NeverTwice
<1>5. (\A u \in Url : u > urls => sent[u] = <<>>)'
  BY <1>1 DEF SentInv, Url
<1>6. ASSUME NEW v \in Worker PROVE Holds(v)'
  <2>1. \A x \in Worker : x # w /\ worker[x].pc # "idle" => worker[x].url <= urls
    BY DEF SentInv, Holds
  <2>2. CASE v = w
    BY <1>1, <1>2, <1>3, <2>1, <2>2 DEF Holds
  <2>3. CASE v # w
    <3>1. Holds(v) /\ worker[v].url \in Nat
      BY DEF SentInv, Types, Task
    <3> QED BY <1>1, <1>2, <1>3, <2>1, <2>3, <3>1 DEF Holds
  <2> QED BY <2>2, <2>3
<1> QED BY <1>4, <1>5, <1>6 DEF SentInv

LEMMA WorkInv ==
  ASSUME SentInv, NEW w \in Worker, Work(w)
  PROVE  SentInv'
<1> DEFINE o == worker[w]
<1>1. /\ o \in Task /\ worker \in [Worker -> Task] /\ client_ \in Server \cup {None}
      /\ o.c \in Server \cup {None} /\ o.again \in BOOLEAN
  BY DEF SentInv, Types, Task
<1>2. \A p : p \in Search \cup {"count", "add", "enter", "call", "answer"} => p \in Pc
  BY DEF Pc
\* a worker goes on
<1>3. ASSUME NEW t, NEW p, NEW a, Same(o, t, p, a), o.pc # "idle",
             p \in {"count", "add", "enter", "call"} => MaySend(o),
             p \in Search /\ ~a => MaySend(o),
             p \in Search \cup {"count", "add", "enter", "call", "answer"},
             UNCHANGED <<urls, sent>>, client_' \in Server \cup {None}, worker' = [worker EXCEPT ![w] = t]
      PROVE  SentInv'
  <2>1. t \in Task /\ t.url = o.url /\ (MaySend(t) => MaySend(o))
    BY <1>3 DEF Same, MaySend, Search
  <2> QED BY <1>1, <1>3, <2>1, GoesOn
\* ... or returns
<1>4. ASSUME NEW n, Return(w, n), o.pc # "idle", UNCHANGED <<urls, sent, client_>>
      PROVE  SentInv'
  BY <1>1, <1>4, RestingTask, GoesOn DEF Return
<1>5. CASE Check(w) \/ Count(w)
  <2>1. o.pc \in {"check", "count"} /\ UNCHANGED <<urls, sent, client_>> /\ MaySend(o)
    BY <1>5 DEF Check, Count, At, MaySend, callVars, ownVars
  <2>2. CASE Switch(w, FALSE)
    <3>1. worker' = [worker EXCEPT ![w] = Switched(o, FALSE)]
      BY <1>1, <2>2 DEF Switch, Switched
    <3>2. Same(o, Switched(o, FALSE), "pick", FALSE) /\ "pick" \in Search
      BY <1>1, SwitchedTask DEF Search
    <3> QED BY <1>1, <1>3, <2>1, <3>1, <3>2
  <2>3. ASSUME NEW p \in {"count", "add"}, Goto(w, p) PROVE SentInv'
    <3>1. worker' = [worker EXCEPT ![w] = Moved(o, p)]
      BY <1>1, <2>3 DEF Goto, Moved
    <3>2. Same(o, Moved(o, p), p, o.again)
      BY <1>1, <1>2, MovedTask
    <3>3. p \notin Search
      BY DEF Search
    <3> QED BY <1>1, <1>3, <2>1, <3>1, <3>2, <3>3
  <2> QED BY <1>5, <2>2, <2>3 DEF Check, Count
<1>6. CASE PickCrashes(w) \/ EnterCrashes(w)
  <2>1. UNCHANGED <<worker, urls, sent, client_>>
    BY <1>6 DEF PickCrashes, EnterCrashes, callVars, ownVars
  <2> QED BY <2>1 DEF SentInv, Types, NeverTwice, Holds
<1>7. CASE Pick(w)
  <2> DEFINE c == last_client_index_
  <2>1. /\ o.pc = "pick" /\ UNCHANGED <<urls, sent, client_>> /\ c \in Server
        /\ worker' = [worker EXCEPT ![w].pc = "increment", ![w].c = c]
    BY <1>7 DEF Pick, At, callVars, ownVars
  <2>2. worker' = [worker EXCEPT ![w] = Found(o, "increment", c)]
    BY <1>1, <2>1 DEF Found
  <2>3. Same(o, Found(o, "increment", c), "increment", o.again) /\ {"pick", "increment"} \subseteq Search
    BY <1>1, <1>2, <2>1, FoundTask DEF Search
  <2>4. ~o.again => MaySend(o)
    BY <2>1 DEF MaySend, Search
  <2> HIDE DEF c
  <2>5. "increment" \notin {"count", "add", "enter", "call"} /\ o.pc # "idle" /\ "increment" \in Search
    BY <2>1, <2>3
  <2> QED BY <1>1, <1>3, <2>1, <2>2, <2>3, <2>4, <2>5
<1>8. CASE Increment(w)
  <2>1. o.pc = "increment" /\ UNCHANGED <<urls, sent, client_>>
    BY <1>8 DEF Increment, At, callVars, ownVars
  <2>2. worker' = [worker EXCEPT ![w] = Moved(o, "modulo")]
    BY <1>1, <1>8 DEF Increment, Goto, Moved
  <2>3. Same(o, Moved(o, "modulo"), "modulo", o.again) /\ "modulo" \in Search
    BY <1>1, <1>2, MovedTask DEF Search
  <2>4. ~o.again => MaySend(o)
    BY <2>1 DEF MaySend, Search
  <2> QED BY <1>1, <1>3, <2>1, <2>2, <2>3, <2>4
<1>9. CASE Modulo(w)
  <2>1. PICK p \in {"got", "pick"} : worker' = [worker EXCEPT ![w].left = @ - 1, ![w].pc = p]
    BY <1>9 DEF Modulo
  <2>2. o.pc = "modulo" /\ UNCHANGED <<urls, sent, client_>> /\ p \in Search
    BY <1>9 DEF Modulo, At, callVars, ownVars, Search
  <2>3. worker' = [worker EXCEPT ![w] = Looped(o, p)]
    BY <1>1, <2>1 DEF Looped
  <2>4. ~o.again => MaySend(o)
    BY <2>2 DEF MaySend, Search
  <2>5. Same(o, Looped(o, p), p, o.again)
    BY <1>1, <1>2, <2>2, LoopedTask
  <2> QED BY <1>1, <1>3, <2>2, <2>3, <2>4, <2>5
<1>10. CASE Got(w)
  <2>1. o.pc \in {"pick", "got"} /\ UNCHANGED <<urls, sent>> /\ client_' \in Server \cup {None}
    BY <1>1, <1>10 DEF Got, At, callVars
  <2>2. worker' = [worker EXCEPT ![w] = Given(o)]
    BY <1>1, <1>10 DEF Got, Given
  <2>3. Same(o, Given(o), "test", o.again) /\ "test" \in Search
    BY <1>1, GivenTask DEF Search
  <2>4. ~o.again => MaySend(o)
    BY <2>1 DEF MaySend, Search
  <2> QED BY <1>1, <1>3, <2>1, <2>2, <2>3, <2>4
<1>11. CASE Test(w)
  <2>1. o.pc = "test" /\ UNCHANGED <<urls, sent, client_>>
    BY <1>11 DEF Test, At, callVars, ownVars
  <2>2. CASE Goto(w, "reset")
    <3>1. worker' = [worker EXCEPT ![w] = Moved(o, "reset")]
      BY <1>1, <2>2 DEF Goto, Moved
    <3>2. Same(o, Moved(o, "reset"), "reset", o.again) /\ "reset" \in Search
      BY <1>1, <1>2, MovedTask DEF Search
    <3>3. ~o.again => MaySend(o)
      BY <2>1 DEF MaySend, Search
    <3> QED BY <1>1, <1>3, <2>1, <3>1, <3>2, <3>3
  <2> QED BY <1>4, <1>11, <2>1, <2>2 DEF Test
<1>12. CASE Reset(w)
  <2>1. o.pc = "reset" /\ UNCHANGED <<urls, sent, client_>>
    BY <1>12 DEF Reset, At, callVars
  <2>2. CASE ~o.again /\ Goto(w, "add")
    <3>1. worker' = [worker EXCEPT ![w] = Moved(o, "add")]
      BY <1>1, <2>2 DEF Goto, Moved
    <3>2. Same(o, Moved(o, "add"), "add", o.again)
      BY <1>1, <1>2, MovedTask
    <3>3. MaySend(o) /\ "add" \notin Search
      BY <2>1, <2>2 DEF MaySend, Search
    <3> QED BY <1>1, <1>3, <2>1, <3>1, <3>2, <3>3
  <2> QED BY <1>4, <1>12, <2>1, <2>2 DEF Reset
<1>13. CASE Add(w)
  <2>1. o.pc = "add" /\ UNCHANGED <<urls, sent, client_>> /\ MaySend(o)
    BY <1>13 DEF Add, At, callVars, MaySend
  <2>2. worker' = [worker EXCEPT ![w] = Moved(o, "enter")]
    BY <1>1, <1>13 DEF Add, Goto, Moved
  <2>3. Same(o, Moved(o, "enter"), "enter", o.again) /\ "enter" \notin Search
    BY <1>1, <1>2, MovedTask DEF Search
  <2> QED BY <1>1, <1>3, <2>1, <2>2, <2>3
<1>14. CASE Enter(w)
  <2>1. o.pc = "enter" /\ UNCHANGED <<urls, sent, client_>> /\ MaySend(o)
    BY <1>14 DEF Enter, At, callVars, ownVars, MaySend
  <2>2. worker' = [worker EXCEPT ![w] = Found(o, "call", client_)]
    BY <1>1, <1>14 DEF Enter, Found
  <2>3. Same(o, Found(o, "call", client_), "call", o.again) /\ "call" \notin Search
    BY <1>1, <1>2, FoundTask DEF Search
  <2> QED BY <1>1, <1>3, <2>1, <2>2, <2>3
<1>15. CASE Arrive(w)
  <2>1. /\ o.pc = "call" /\ UNCHANGED <<urls, client_>>
        /\ sent' = [sent EXCEPT ![o.url] = Append(@, o.c)]
        /\ worker' = [worker EXCEPT ![w] = Moved(o, "answer")]
    BY <1>1, <1>15 DEF Arrive, At, Goto, Moved, callVars, ownVars
  <2>2. Moved(o, "answer") \in Task /\ Moved(o, "answer").url = o.url /\ Moved(o, "answer").pc = "answer"
    BY <1>1, <1>2, MovedTask DEF Same
  <2>3. ~MaySend(Moved(o, "answer"))
    BY <2>2 DEF MaySend, Search
  <2> QED BY <1>1, <2>1, <2>2, <2>3, Sends
<1>16. CASE Answered(w)
  <2>1. o.pc = "answer" /\ UNCHANGED <<urls, sent, client_>> /\ Return(w, "0")
    BY <1>16 DEF Answered, At, callVars, ownVars
  <2> QED BY <1>4, <2>1
<1>17. CASE SendFails(w)
  <2>1. o.pc \in {"call", "answer"} /\ UNCHANGED <<urls, sent, client_>> /\ Switch(w, TRUE)
    BY <1>17 DEF SendFails, At, callVars, ownVars
  <2>2. worker' = [worker EXCEPT ![w] = Switched(o, TRUE)]
    BY <1>1, <2>1 DEF Switch, Switched
  <2>3. Same(o, Switched(o, TRUE), "pick", TRUE) /\ "pick" \in Search
    BY <1>1, SwitchedTask DEF Search
  <2> QED BY <1>1, <1>3, <2>1, <2>2, <2>3
<1> QED
  BY <1>5, <1>6, <1>7, <1>8, <1>9, <1>10, <1>11, <1>12, <1>13, <1>14, <1>15, <1>16, <1>17 DEF Work

-----------------------------------------------------------------------------
LEMMA SentStep == SentInv /\ [Next]_vars => SentInv'
<1> SUFFICES ASSUME SentInv, [Next]_vars PROVE SentInv'
  OBVIOUS
<1>1. CASE UNCHANGED <<worker, urls, sent, client_>>
  BY <1>1 DEF SentInv, Types, NeverTwice, Holds
<1>2. ASSUME NEW i \in Server, SpiderStep(i) PROVE UNCHANGED <<worker, urls, sent, client_>>
  BY <1>2 DEF SpiderStep, ownVars, callVars
<1>3. Tick => UNCHANGED <<worker, urls, sent, client_>>
  BY DEF Tick, ownVars, callVars
<1>4. ASSUME NEW w \in Worker, NEW v \in Worker, Overlap(w, v) PROVE UNCHANGED <<worker, urls, sent, client_>>
  BY <1>4 DEF Overlap, ownVars, callVars
<1> QED BY <1>1, <1>2, <1>3, <1>4, CallInv, WorkInv DEF Next, vars, ownVars, callVars

(* Whatever the spiders and the workers do, a URL arrives at most once: a  *)
(* send that has failed is followed by another client, not another send.   *)
THEOREM UrlsArriveOnce == Spec => []NeverTwice
<1>1. SentInv => NeverTwice
  BY DEF SentInv
<1> QED BY <1>1, SentInit, SentStep, PTL DEF Spec

-----------------------------------------------------------------------------
(***************************************************************************)
(* The order of the turns.  While no two calls have overlapped and no      *)
(* spider has failed, k URLs counted say where client_, send_num_ and the  *)
(* index stand, and so does every step of the call for URL k.              *)
(***************************************************************************)
Follows(i) == (i + 1) % Servers

\* k URLs are counted
Counted(k, client, num, index) ==
    IF k = 0 THEN client = None /\ num = 0 /\ index = 0
    ELSE client = TurnOf(k) /\ num = ((k - 1) % switch_client_num_) + 1 /\ index = Follows(TurnOf(k))

\* the task t is to send URL k
Stage(t, k, client, num, index) ==
    /\ t.url = k /\ t.again = FALSE
    /\ t.pc = "check" => Counted(k - 1, client, num, index)
    /\ t.pc = "count" => k > 1 /\ Counted(k - 1, client, num, index)
    /\ t.pc \in Search => (k - 1) % switch_client_num_ = 0
    /\ t.pc = "pick" => t.left \in Nat \ {0}
    /\ t.pc \in {"pick", "increment"} => index = TurnOf(k)
    /\ t.pc = "modulo" => index = TurnOf(k) + 1
    /\ t.pc \in {"increment", "modulo", "got", "call", "answer"} => t.c = TurnOf(k)
    /\ t.pc \in {"got", "test", "reset", "add"} => index = Follows(TurnOf(k))
    /\ t.pc \in {"test", "reset", "add"} => client = TurnOf(k)
    /\ t.pc = "add" => num = (k - 1) % switch_client_num_
    /\ t.pc \in {"enter", "call", "answer"} => Counted(k, client, num, index)

Regular == ~overlapped /\ downs = 0
AllUp   == \A i \in Server : up[i] /\ link[i] /\ status_[i] = "OK"
Alone   == \A v, w \in Worker : worker[v].pc # "idle" /\ worker[w].pc # "idle" => v = w
InOrder == \A u \in Url : sent[u] # <<>> => sent[u] = <<TurnOf(u)>>
Standing ==
    /\ (\A w \in Worker : worker[w].pc = "idle") => Counted(urls, client_, send_num_, last_client_index_)
    /\ \A w \in Worker :
           worker[w].pc # "idle" => Stage(worker[w], urls, client_, send_num_, last_client_index_)

TurnInv == downs \in Nat /\ (Regular => AllUp /\ Alone /\ InOrder /\ Standing)

LEMMA NextRest ==
  ASSUME NEW N \in Nat \ {0}, NEW q \in Nat
  PROVE  q % N \in 0..(N-1) /\ (q + 1) % N = ((q % N) + 1) % N
<1> DEFINE d == q \div N
           r == q % N
<1>1. d \in Nat /\ r \in 0..(N - 1) /\ q = d * N + r
  BY SMTT(30)
<1>2. CASE r + 1 = N
  <2>1. q + 1 = (d + 1) * N + 0
    <3> HIDE DEF d, r
    <3> QED BY <1>1, <1>2, SMTT(30)
  <2>2. (q + 1) % N = 0
    <3> HIDE DEF d, r
    <3> QED BY <1>1, <2>1, SMTT(30)
  <2>3. (r + 1) % N = 0
    <3> HIDE DEF d, r
    <3> QED BY <1>1, <1>2, SMTT(30)
  <2> QED BY <1>1, <2>2, <2>3
<1>3. CASE r + 1 < N
  <2>1. q + 1 = d * N + (r + 1)
    <3> HIDE DEF d, r
    <3> QED BY <1>1, SMTT(30)
  <2>2. (q + 1) % N = r + 1
    <3> HIDE DEF d, r
    <3> QED BY <1>1, <1>3, <2>1, SMTT(30)
  <2>3. (r + 1) % N = r + 1
    <3> HIDE DEF d, r
    <3> QED BY <1>1, <1>3, SMTT(30)
  <2> QED BY <1>1, <2>2, <2>3
<1> QED BY <1>1, <1>2, <1>3

LEMMA Turns ==
  ASSUME NEW k \in Nat \ {0}
  PROVE  /\ TurnOf(k) \in Server /\ TurnOf(1) = 0
         /\ (k - 1) % switch_client_num_ \in Nat
         /\ ((k - 1) % switch_client_num_) + 1 >= switch_client_num_ =>
                k % switch_client_num_ = 0 /\ TurnOf(k + 1) = Follows(TurnOf(k))
         /\ ((k - 1) % switch_client_num_) + 1 < switch_client_num_ =>
                /\ k % switch_client_num_ = ((k - 1) % switch_client_num_) + 1
                /\ TurnOf(k + 1) = TurnOf(k)
<1> DEFINE S == switch_client_num_
           q == (k - 1) \div S
           j == (k - 1) % S
<1>1. S \in Nat \ {0} /\ Servers \in Nat \ {0} /\ k - 1 \in Nat
  BY ServerAssumption
<1>2. q \in Nat /\ j \in 0..(S - 1) /\ k - 1 = q * S + j
  BY <1>1, SMTT(30)
<1>3. /\ j + 1 >= S => k % S = 0 /\ k \div S = q + 1
      /\ j + 1 < S => k % S = j + 1 /\ k \div S = q
  <2>1. CASE j + 1 >= S
    <3>1. k = (q + 1) * S + 0
      <4>1. j = S - 1
        BY <1>1, <1>2, <2>1
      <4> HIDE DEF q, j
      <4> QED BY <1>1, <1>2, <4>1, SMTT(30)
    <3> QED BY <1>1, <1>2, <2>1, <3>1, SMTT(30)
  <2>2. CASE j + 1 < S
    <3>1. k = q * S + (j + 1)
      BY <1>1, <1>2
    <3> QED BY <1>1, <1>2, <2>2, <3>1, SMTT(30)
  <2> QED BY <2>1, <2>2, <1>1, <1>2
<1>4. q % Servers \in Server /\ (q + 1) % Servers = ((q % Servers) + 1) % Servers
  <2> HIDE DEF q
  <2> QED BY <1>1, <1>2, NextRest DEF Server
<1>5. TurnOf(k) = q % Servers /\ TurnOf(k + 1) = (k \div S) % Servers
  BY <1>1 DEF TurnOf
<1>6. TurnOf(1) = 0
  BY <1>1 DEF TurnOf
<1> QED BY <1>2, <1>3, <1>4, <1>5, <1>6 DEF Follows

(* The call goes on, or ends, and all the others rest.                     *)
LEMMA TurnWorks ==
  ASSUME SentInv, TurnInv, NEW w \in Worker, worker[w].pc # "idle", NEW t \in Task,
         worker' = [worker EXCEPT ![w] = t],
         UNCHANGED <<urls, downs, overlapped, up, link, status_>>,
         Regular => InOrder',
         Regular /\ t.pc = "idle" => Counted(urls, client_', send_num_', last_client_index_'),
         Regular /\ t.pc # "idle" => Stage(t, urls, client_', send_num_', last_client_index_')
  PROVE  TurnInv'
<1>1. worker'[w] = t /\ \A v \in Worker : v # w => worker'[v] = worker[v]
  BY DEF SentInv, Types
<1>2. downs' \in Nat /\ (Regular' <=> Regular)
  BY DEF TurnInv, Regular
<1>3. ASSUME Regular PROVE AllUp' /\ Alone' /\ InOrder' /\ Standing'
  <2>1. AllUp'
    BY <1>3 DEF TurnInv, AllUp
  <2>2. \A v \in Worker : v # w => worker[v].pc = "idle"
    BY <1>3 DEF TurnInv, Alone
  <2>3. Alone'
    BY <1>1, <2>2 DEF Alone
  <2>4. Standing'
    BY <1>1, <1>3, <2>2 DEF Standing
  <2> QED BY <1>3, <2>1, <2>3, <2>4
<1> QED BY <1>2, <1>3 DEF TurnInv

LEMMA TurnCalled ==
  ASSUME SentInv, TurnInv, NEW w \in Worker, Call(w)
  PROVE  TurnInv'
<1> DEFINE t == Called(Resting, urls + 1)
<1>1. /\ worker' = [worker EXCEPT ![w] = t] /\ urls' = urls + 1 /\ urls \in Nat
      /\ UNCHANGED <<sent, client_, send_num_, last_client_index_, downs, up, link, status_>>
      /\ overlapped' = (overlapped \/ \E v \in Worker : worker[v].pc # "idle")
  BY DEF Call, SentInv, Types, Called, netVars, clientVars, ownVars
<1>2. t.url = urls + 1 /\ t.pc = "check" /\ t.again = FALSE
  BY DEF Called, Resting
<1> HIDE DEF t
<1>3. worker'[w] = t /\ \A v \in Worker : v # w => worker'[v] = worker[v]
  BY <1>1 DEF SentInv, Types
<1>4. ASSUME Regular' PROVE AllUp' /\ Alone' /\ InOrder' /\ Standing'
  <2>1. Regular /\ \A v \in Worker : worker[v].pc = "idle"
    BY <1>1, <1>4 DEF Regular
  <2>2. AllUp' /\ InOrder'
    BY <1>1, <2>1 DEF TurnInv, AllUp, InOrder
  <2>3. Alone'
    BY <1>3, <2>1 DEF Alone
  <2>4. Counted(urls, client_, send_num_, last_client_index_)
    BY <2>1 DEF TurnInv, Standing
  <2>5. Stage(t, urls + 1, client_, send_num_, last_client_index_)
    <3>1. (urls + 1) - 1 = urls
      BY <1>1
    <3> QED BY <1>2, <2>4, <3>1 DEF Stage, Search
  <2>6. Standing'
    BY <1>1, <1>2, <1>3, <2>1, <2>5 DEF Standing
  <2> QED BY <2>2, <2>3, <2>6
<1> QED BY <1>1, <1>4 DEF TurnInv

LEMMA TurnWork ==
  ASSUME SentInv, TurnInv, NEW w \in Worker, Work(w)
  PROVE  TurnInv'
<1> DEFINE o == worker[w]
           k == urls
           S == switch_client_num_
<1>1. /\ o \in Task /\ worker \in [Worker -> Task] /\ client_ \in Server \cup {None}
      /\ o.c \in Server \cup {None} /\ o.again \in BOOLEAN
      /\ Servers \in Nat \ {0} /\ S \in Nat \ {0}
  BY ServerAssumption DEF SentInv, Types, Task
<1>2. \A p : p \in Search \cup {"count", "add", "enter", "call", "answer"} => p \in Pc
  BY DEF Pc
\* the call of a regular run is for the last URL
<1>3. ASSUME o.pc # "idle", Regular
      PROVE  /\ Stage(o, k, client_, send_num_, last_client_index_) /\ AllUp /\ InOrder
             /\ o.url = k /\ k \in Nat \ {0} /\ TurnOf(k) \in Server /\ TurnOf(k) # None
  <2>1. Stage(o, k, client_, send_num_, last_client_index_) /\ AllUp /\ InOrder
    BY <1>3 DEF TurnInv, Standing
  <2>2. o.url = k /\ k \in Nat \ {0}
    BY <1>3, <2>1 DEF Stage, SentInv, Holds, Url
  <2> QED BY <2>1, <2>2, Turns, NoneAssumption
\* a step that sends nothing and leaves the spiders and connections alone
<1>4. ASSUME NEW t \in Task, o.pc # "idle", worker' = [worker EXCEPT ![w] = t],
             UNCHANGED <<urls, sent, downs, overlapped, up, link, status_>>,
             Regular /\ t.pc = "idle" => Counted(k, client_', send_num_', last_client_index_'),
             Regular /\ t.pc # "idle" => Stage(t, k, client_', send_num_', last_client_index_')
      PROVE  TurnInv'
  <2>1. Regular => InOrder'
    BY <1>4 DEF TurnInv, InOrder
  <2> QED BY <1>1, <1>4, <2>1, TurnWorks
<1>5. CASE Check(w)
  <2>1. o.pc = "check" /\ UNCHANGED <<urls, sent, downs, overlapped, up, link, status_, client_, send_num_, last_client_index_>>
    BY <1>5 DEF Check, At, netVars, clientVars, ownVars, callVars
  <2>2. CASE client_ = None
    <3> DEFINE t == Switched(o, FALSE)
    <3>1. worker' = [worker EXCEPT ![w] = t]
      BY <1>1, <1>5, <2>2 DEF Check, Switch, Switched
    <3>2. t \in Task /\ t.pc = "pick" /\ t.url = o.url /\ t.again = FALSE /\ t.left = Servers
      BY <1>1, SwitchedTask DEF Same
    <3> HIDE DEF t
    <3>3. ASSUME Regular PROVE Stage(t, k, client_, send_num_, last_client_index_)
      <4>1. Counted(k - 1, client_, send_num_, last_client_index_) /\ k \in Nat \ {0} /\ o.url = k
        BY <1>3, <2>1, <3>3 DEF Stage
      <4>2. k = 1
        <5> SUFFICES ASSUME k - 1 # 0 PROVE FALSE
          BY <4>1
        <5>1. client_ = TurnOf(k - 1) /\ k - 1 \in Nat \ {0}
          BY <4>1 DEF Counted
        <5>2. TurnOf(k - 1) \in Server
          BY <5>1, Turns
        <5> QED BY <2>2, <5>1, <5>2, NoneAssumption
      <4>3. last_client_index_ = 0
        BY <4>1, <4>2 DEF Counted
      <4>4. TurnOf(k) = 0 /\ (k - 1) % S = 0
        <5>1. 1 \in Nat \ {0} /\ 0 % S = 0 /\ 1 - 1 = 0
          BY <1>1
        <5>2. TurnOf(1) = 0
          BY <5>1, Turns
        <5> QED BY <4>2, <5>1, <5>2
      <4> QED BY <1>1, <3>2, <4>1, <4>3, <4>4 DEF Stage, Search
    <3> QED BY <1>4, <2>1, <3>1, <3>2, <3>3
  <2>3. CASE client_ # None
    <3> DEFINE t == Moved(o, "count")
    <3>1. worker' = [worker EXCEPT ![w] = t]
      BY <1>1, <1>5, <2>3 DEF Check, Goto, Moved
    <3>2. t \in Task /\ t.pc = "count" /\ t.url = o.url /\ t.again = o.again
      BY <1>1, <1>2, MovedTask DEF Same
    <3> HIDE DEF t
    <3>3. ASSUME Regular PROVE Stage(t, k, client_, send_num_, last_client_index_)
      <4>1. Counted(k - 1, client_, send_num_, last_client_index_) /\ k \in Nat \ {0} /\ o.url = k /\ o.again = FALSE
        BY <1>3, <2>1, <3>3 DEF Stage
      <4>2. k > 1
        BY <2>3, <4>1 DEF Counted
      <4> QED BY <3>2, <4>1, <4>2 DEF Stage, Search
    <3> QED BY <1>4, <2>1, <3>1, <3>2, <3>3
  <2> QED BY <2>2, <2>3
<1>6. CASE Count(w)
  <2>1. o.pc = "count" /\ UNCHANGED <<urls, sent, downs, overlapped, up, link, status_, client_, send_num_, last_client_index_>>
    BY <1>6 DEF Count, At, netVars, clientVars, ownVars, callVars
  <2>2. ASSUME Regular
        PROVE  /\ client_ = TurnOf(k - 1) /\ last_client_index_ = Follows(TurnOf(k - 1))
               /\ k \in Nat \ {0} /\ o.url = k /\ o.again = FALSE
               /\ send_num_ >= S => (k - 1) % S = 0 /\ TurnOf(k) = Follows(TurnOf(k - 1))
               /\ ~(send_num_ >= S) => send_num_ = (k - 1) % S /\ TurnOf(k) = TurnOf(k - 1)
    <3>1. /\ Counted(k - 1, client_, send_num_, last_client_index_) /\ k \in Nat \ {0} /\ k > 1
          /\ o.url = k /\ o.again = FALSE
      BY <1>3, <2>1, <2>2 DEF Stage
    <3> DEFINE m == k - 1
    <3>2. m \in Nat \ {0} /\ m + 1 = k
      BY <3>1
    <3>3. client_ = TurnOf(m) /\ send_num_ = ((m - 1) % S) + 1 /\ last_client_index_ = Follows(TurnOf(m))
      BY <3>1, <3>2 DEF Counted
    <3> HIDE DEF m
    <3>4. /\ (m - 1) % S \in Nat
          /\ ((m - 1) % S) + 1 >= S => m % S = 0 /\ TurnOf(k) = Follows(TurnOf(m))
          /\ ((m - 1) % S) + 1 < S => m % S = ((m - 1) % S) + 1 /\ TurnOf(k) = TurnOf(m)
      BY <3>2, Turns
    <3>5. ~(send_num_ >= S) => ((m - 1) % S) + 1 < S
      BY <1>1, <3>3, <3>4
    <3>6. m = k - 1
      BY DEF m
    <3> QED BY <3>1, <3>3, <3>4, <3>5, <3>6
  <2>3. CASE send_num_ >= S
    <3> DEFINE t == Switched(o, FALSE)
    <3>1. worker' = [worker EXCEPT ![w] = t]
      BY <1>1, <1>6, <2>3 DEF Count, Switch, Switched
    <3>2. t \in Task /\ t.pc = "pick" /\ t.url = o.url /\ t.again = FALSE /\ t.left = Servers
      BY <1>1, SwitchedTask DEF Same
    <3> HIDE DEF t
    <3>3. Regular => Stage(t, k, client_, send_num_, last_client_index_)
      BY <1>1, <2>2, <2>3, <3>2 DEF Stage, Search
    <3> QED BY <1>4, <2>1, <3>1, <3>2, <3>3
  <2>4. CASE ~(send_num_ >= S)
    <3> DEFINE t == Moved(o, "add")
    <3>1. worker' = [worker EXCEPT ![w] = t]
      BY <1>1, <1>6, <2>4 DEF Count, Goto, Moved
    <3>2. t \in Task /\ t.pc = "add" /\ t.url = o.url /\ t.again = o.again
      BY <1>1, <1>2, MovedTask DEF Same
    <3> HIDE DEF t
    <3>3. Regular => Stage(t, k, client_, send_num_, last_client_index_)
      BY <2>2, <2>4, <3>2 DEF Stage, Search
    <3> QED BY <1>4, <2>1, <3>1, <3>2, <3>3
  <2> QED BY <2>3, <2>4
<1>7. CASE PickCrashes(w) \/ EnterCrashes(w)
  <2>1. UNCHANGED <<worker, urls, sent, downs, overlapped, up, link, status_, client_, send_num_, last_client_index_>>
    BY <1>7 DEF PickCrashes, EnterCrashes, netVars, clientVars, ownVars, callVars
  <2> QED BY <2>1 DEF TurnInv, Regular, AllUp, Alone, InOrder, Standing
<1>8. CASE Pick(w)
  <2> DEFINE c == last_client_index_
             t == Found(o, "increment", c)
  <2>1. /\ o.pc = "pick" /\ c \in Server
        /\ UNCHANGED <<urls, sent, downs, overlapped, up, client_, send_num_, last_client_index_>>
        /\ worker' = [worker EXCEPT ![w].pc = "increment", ![w].c = c]
        /\ Reconnects(c) \/ UNCHANGED <<link, status_>>
    BY <1>8 DEF Pick, At, netVars, clientVars, ownVars, callVars
  <2>2. worker' = [worker EXCEPT ![w] = t]
    BY <1>1, <2>1 DEF Found
  <2>3. t \in Task /\ t.pc = "increment" /\ t.url = o.url /\ t.again = o.again /\ t.c = c
    <3>1. "increment" \in Pc /\ o \in Task /\ c \in Server \cup {None}
      BY <1>1, <2>1 DEF Pc, Search
    <3>2. Same(o, t, "increment", o.again) /\ t.c = c
      BY <3>1, FoundTask
    <3> QED BY <3>2 DEF Same
  <2> HIDE DEF t
  <2>4. CASE Regular
    <3>1. UNCHANGED <<link, status_>>
      BY <1>3, <2>1, <2>4 DEF AllUp, Reconnects
    <3>2. Stage(t, k, client_, send_num_, last_client_index_)
      BY <1>3, <2>1, <2>3, <2>4 DEF Stage, Search
    <3> QED BY <1>4, <2>1, <2>2, <2>3, <3>1, <3>2
  <2>5. CASE ~Regular
    BY <2>1, <2>5 DEF TurnInv, Regular
  <2> QED BY <2>4, <2>5
<1>9. CASE Increment(w)
  <2> DEFINE t == Moved(o, "modulo")
  <2>1. /\ o.pc = "increment" /\ UNCHANGED <<urls, sent, downs, overlapped, up, link, status_, client_, send_num_>>
        /\ last_client_index_' = last_client_index_ + 1
    BY <1>9 DEF Increment, At, netVars, clientVars, ownVars, callVars
  <2>2. worker' = [worker EXCEPT ![w] = t]
    BY <1>1, <1>9 DEF Increment, Goto, Moved
  <2>3. t \in Task /\ t.pc = "modulo" /\ t.url = o.url /\ t.again = o.again /\ t.c = o.c
    BY <1>1, <1>2, MovedTask DEF Same, Search
  <2> HIDE DEF t
  <2>4. Regular => Stage(t, k, client_', send_num_', last_client_index_')
    BY <1>3, <2>1, <2>3 DEF Stage, Search
  <2> QED BY <1>4, <2>1, <2>2, <2>3, <2>4
<1>10. CASE Modulo(w)
  <2> DEFINE p == IF status_[o.c] = "OK" THEN "got" ELSE "pick"
             t == Looped(o, p)
  <2>1. /\ o.pc = "modulo" /\ UNCHANGED <<urls, sent, downs, overlapped, up, link, status_, client_, send_num_>>
        /\ last_client_index_' = last_client_index_ % Servers
    BY <1>10 DEF Modulo, At, netVars, clientVars, ownVars, callVars
  <2>2. worker' = [worker EXCEPT ![w] = t]
    BY <1>1, <1>10 DEF Modulo, Looped
  <2>3. t \in Task /\ t.pc = p /\ t.url = o.url /\ t.again = o.again /\ t.c = o.c
    <3>1. p \in Pc
      BY DEF Pc, Search
    <3> HIDE DEF p
    <3> QED BY <1>1, <3>1, LoopedTask DEF Same
  <2> HIDE DEF t
  <2>4. ASSUME Regular PROVE Stage(t, k, client_', send_num_', last_client_index_')
    <3>1. /\ last_client_index_ = TurnOf(k) + 1 /\ o.c = TurnOf(k) /\ o.again = FALSE /\ o.url = k
          /\ (k - 1) % S = 0 /\ TurnOf(k) \in Server /\ AllUp
      BY <1>3, <2>1, <2>4 DEF Stage, Search
    <3>2. p = "got" /\ last_client_index_' = Follows(TurnOf(k))
      BY <2>1, <3>1 DEF AllUp, Follows
    <3> QED BY <2>3, <3>1, <3>2 DEF Stage, Search
  <2>5. t.pc # "idle"
    BY <2>3
  <2> QED BY <1>4, <2>1, <2>2, <2>3, <2>4, <2>5
<1>11. CASE Got(w)
  <2> DEFINE t == Given(o)
  <2>1. /\ o.pc = "got" \/ (o.pc = "pick" /\ o.left = 0)
        /\ UNCHANGED <<urls, sent, downs, overlapped, up, link, status_, send_num_, last_client_index_>>
        /\ o.pc = "got" => client_' = o.c
    BY <1>11 DEF Got, At, netVars, clientVars, callVars
  <2>2. worker' = [worker EXCEPT ![w] = t]
    BY <1>1, <1>11 DEF Got, Given
  <2>3. t \in Task /\ t.pc = "test" /\ t.url = o.url /\ t.again = o.again
    BY <1>1, GivenTask DEF Same
  <2> HIDE DEF t
  <2>4. ASSUME Regular PROVE Stage(t, k, client_', send_num_', last_client_index_')
    <3>1. o.pc = "got"
      BY <1>3, <2>1, <2>4 DEF Stage
    <3> QED BY <1>3, <2>1, <2>3, <2>4, <3>1 DEF Stage, Search
  <2> QED BY <1>4, <2>1, <2>2, <2>3, <2>4
<1>12. CASE Test(w)
  <2>1. o.pc = "test" /\ UNCHANGED <<urls, sent, downs, overlapped, up, link, status_, client_, send_num_, last_client_index_>>
    BY <1>12 DEF Test, At, netVars, clientVars, ownVars, callVars
  <2>2. Regular => client_ # None
    BY <1>3, <2>1 DEF Stage
  <2>3. CASE client_ # None
    <3> DEFINE t == Moved(o, "reset")
    <3>1. worker' = [worker EXCEPT ![w] = t]
      BY <1>1, <1>12, <2>3 DEF Test, Goto, Moved
    <3>2. t \in Task /\ t.pc = "reset" /\ t.url = o.url /\ t.again = o.again
      BY <1>1, <1>2, MovedTask DEF Same, Search
    <3> HIDE DEF t
    <3>3. Regular => Stage(t, k, client_, send_num_, last_client_index_)
      BY <1>3, <2>1, <3>2 DEF Stage, Search
    <3> QED BY <1>4, <2>1, <3>1, <3>2, <3>3
  <2>4. CASE client_ = None
    BY <2>1, <2>2, <2>4 DEF TurnInv, Regular
  <2> QED BY <2>3, <2>4
<1>13. CASE Reset(w)
  <2>1. /\ o.pc = "reset" /\ UNCHANGED <<urls, sent, downs, overlapped, up, link, status_, client_, last_client_index_>>
        /\ send_num_' = 0
    BY <1>13 DEF Reset, At, netVars, clientVars, callVars
  <2>2. Regular => ~o.again
    BY <1>3, <2>1 DEF Stage
  <2>3. CASE ~o.again
    <3> DEFINE t == Moved(o, "add")
    <3>1. worker' = [worker EXCEPT ![w] = t]
      BY <1>1, <1>13, <2>3 DEF Reset, Goto, Moved
    <3>2. t \in Task /\ t.pc = "add" /\ t.url = o.url /\ t.again = o.again
      BY <1>1, <1>2, MovedTask DEF Same
    <3> HIDE DEF t
    <3>3. Regular => Stage(t, k, client_', send_num_', last_client_index_')
      BY <1>3, <2>1, <3>2 DEF Stage, Search
    <3> QED BY <1>4, <2>1, <3>1, <3>2, <3>3
  <2>4. CASE o.again
    BY <2>1, <2>2, <2>4 DEF TurnInv, Regular
  <2> QED BY <2>3, <2>4
<1>14. CASE Add(w)
  <2> DEFINE t == Moved(o, "enter")
  <2>1. /\ o.pc = "add" /\ UNCHANGED <<urls, sent, downs, overlapped, up, link, status_, client_, last_client_index_>>
        /\ send_num_' = send_num_ + 1
    BY <1>14 DEF Add, At, netVars, clientVars, callVars
  <2>2. worker' = [worker EXCEPT ![w] = t]
    BY <1>1, <1>14 DEF Add, Goto, Moved
  <2>3. t \in Task /\ t.pc = "enter" /\ t.url = o.url /\ t.again = o.again
    BY <1>1, <1>2, MovedTask DEF Same
  <2> HIDE DEF t
  <2>4. ASSUME Regular PROVE Stage(t, k, client_', send_num_', last_client_index_')
    <3>1. Counted(k, client_', send_num_', last_client_index_')
      BY <1>3, <2>1, <2>4 DEF Stage, Counted
    <3> QED BY <1>3, <2>1, <2>3, <2>4, <3>1 DEF Stage, Search
  <2> QED BY <1>4, <2>1, <2>2, <2>3, <2>4
<1>15. CASE Enter(w)
  <2> DEFINE t == Found(o, "call", client_)
  <2>1. o.pc = "enter" /\ UNCHANGED <<urls, sent, downs, overlapped, up, link, status_, client_, send_num_, last_client_index_>>
    BY <1>15 DEF Enter, At, netVars, clientVars, ownVars, callVars
  <2>2. worker' = [worker EXCEPT ![w] = t]
    BY <1>1, <1>15 DEF Enter, Found
  <2>3. t \in Task /\ t.pc = "call" /\ t.url = o.url /\ t.again = o.again /\ t.c = client_
    <3>1. "call" \in Pc /\ o \in Task /\ client_ \in Server \cup {None}
      BY <1>1 DEF Pc
    <3>2. Same(o, t, "call", o.again) /\ t.c = client_
      BY <3>1, FoundTask
    <3> QED BY <3>2 DEF Same
  <2> HIDE DEF t
  <2>4. Regular => Stage(t, k, client_, send_num_, last_client_index_)
    BY <1>3, <2>1, <2>3 DEF Stage, Search, Counted
  <2> QED BY <1>4, <2>1, <2>2, <2>3, <2>4
<1>16. CASE Arrive(w)
  <2> DEFINE t == Moved(o, "answer")
  <2>1. /\ o.pc = "call" /\ UNCHANGED <<urls, downs, overlapped, up, link, status_, client_, send_num_, last_client_index_>>
        /\ sent' = [sent EXCEPT ![o.url] = Append(@, o.c)]
    BY <1>16 DEF Arrive, At, netVars, clientVars, ownVars, callVars
  <2>2. worker' = [worker EXCEPT ![w] = t]
    BY <1>1, <1>16 DEF Arrive, Goto, Moved
  <2>3. t \in Task /\ t.pc = "answer" /\ t.url = o.url /\ t.again = o.again /\ t.c = o.c
    BY <1>1, <1>2, MovedTask DEF Same
  <2> HIDE DEF t
  <2>4. Regular => Stage(t, k, client_, send_num_, last_client_index_)
    BY <1>3, <2>1, <2>3 DEF Stage, Search
  <2>5. ASSUME Regular PROVE InOrder'
    <3>1. o.url = k /\ o.c = TurnOf(k) /\ InOrder
      BY <1>3, <2>1, <2>5 DEF Stage
    <3>2. sent[k] = <<>> /\ k \in Url /\ sent \in [Url -> Seq(Server \cup {None})]
      BY <2>1, <3>1 DEF SentInv, Types, Holds, MaySend
    <3>3. Append(sent[k], o.c) = <<TurnOf(k)>>
      BY <3>1, <3>2
    <3>4. sent' = [sent EXCEPT ![k] = <<TurnOf(k)>>]
      BY <2>1, <3>1, <3>3
    <3> HIDE DEF k
    <3> QED BY <3>1, <3>2, <3>4 DEF InOrder
  <2> QED BY <1>1, <2>1, <2>2, <2>3, <2>4, <2>5, TurnWorks
<1>17. CASE Answered(w)
  <2>1. o.pc = "answer" /\ UNCHANGED <<urls, sent, downs, overlapped, up, link, status_, client_, send_num_, last_client_index_>>
    BY <1>17 DEF Answered, At, netVars, clientVars, ownVars, callVars
  <2>2. worker' = [worker EXCEPT ![w] = Resting] /\ Resting \in Task /\ Resting.pc = "idle"
    BY <1>17, RestingTask DEF Answered, Return
  <2>3. Regular => Counted(k, client_, send_num_, last_client_index_)
    BY <1>3, <2>1 DEF Stage
  <2> QED BY <1>4, <2>1, <2>2, <2>3
<1>18. CASE SendFails(w)
  <2>1. o.pc \in {"call", "answer"} /\ ~link[o.c] /\ UNCHANGED <<downs, overlapped>>
    BY <1>18 DEF SendFails, At, netVars, callVars
  <2>2. ~Regular
    <3> SUFFICES ASSUME Regular PROVE o.c \in Server
      BY <1>3, <2>1 DEF AllUp
    <3> QED BY <1>3, <2>1 DEF Stage
  <2> QED BY <2>1, <2>2 DEF TurnInv, Regular
<1> QED
  BY <1>5, <1>6, <1>7, <1>8, <1>9, <1>10, <1>11, <1>12, <1>13, <1>14, <1>15, <1>16, <1>17, <1>18 DEF Work

LEMMA TurnInit == Init => TurnInv
<1> SUFFICES ASSUME Init PROVE TurnInv
  OBVIOUS
<1> DEFINE D == {i \in Server : ~up[i]}
<1>1. IsFiniteSet(D) /\ downs = Cardinality(D) /\ downs \in Nat
  <2>1. IsFiniteSet(0..(Servers - 1)) /\ Server = 0..(Servers - 1)
    BY ServerAssumption, FS_Interval DEF Server
  <2>2. IsFiniteSet(D)
    BY <2>1, FS_Subset
  <2> QED BY <2>2, FS_CardinalityType DEF Init
<1>2. ASSUME Regular PROVE AllUp
  <2>1. D = {}
    BY <1>1, <1>2, FS_EmptySet DEF Regular
  <2>2. \A i \in Server : up[i]
    BY <2>1
  <2> QED BY <2>2 DEF Init, AllUp
<1>3. Alone /\ InOrder
  BY DEF Init, Resting, Alone, InOrder
<1>4. Standing
  BY DEF Init, Resting, Standing, Counted
<1> QED BY <1>1, <1>2, <1>3, <1>4 DEF TurnInv

LEMMA TurnStep == SentInv /\ TurnInv /\ [Next]_vars => TurnInv'
<1> SUFFICES ASSUME SentInv, TurnInv, [Next]_vars PROVE TurnInv'
  OBVIOUS
<1> DEFINE same == UNCHANGED <<worker, urls, sent, client_, send_num_, last_client_index_, overlapped, status_>>
<1>1. CASE same /\ UNCHANGED <<up, downs, link>>
  BY <1>1 DEF TurnInv, Regular, AllUp, Alone, InOrder, Standing
<1>2. ASSUME NEW i \in Server, SpiderStep(i) PROVE TurnInv'
  <2>1. same
    BY <1>2 DEF SpiderStep, ownVars, callVars
  <2>2. CASE downs' = downs + 1
    BY <2>2 DEF TurnInv, Regular
  <2>3. CASE ~up[i] /\ UNCHANGED <<downs, link>>
    BY <2>1, <2>3 DEF TurnInv, Regular, AllUp
  <2>4. CASE UNCHANGED <<up, downs, link>>
    BY <1>1, <2>1, <2>4
  <2> QED BY <1>2, <2>2, <2>3, <2>4 DEF SpiderStep, Spider
<1>3. Tick => same /\ UNCHANGED <<up, downs, link>>
  BY DEF Tick, netVars, ownVars, callVars
<1>4. ASSUME NEW w \in Worker, NEW v \in Worker, Overlap(w, v) PROVE same /\ UNCHANGED <<up, downs, link>>
  BY <1>4 DEF Overlap, netVars, clientVars, ownVars, callVars
<1>5. UNCHANGED vars => same /\ UNCHANGED <<up, downs, link>>
  BY DEF vars, netVars, clientVars, ownVars, callVars
<1> QED BY <1>1, <1>2, <1>3, <1>4, <1>5, TurnCalled, TurnWork DEF Next

(* While no spider fails and no two calls of submit overlap, the spiders   *)
(* take turns of switch_client_num_ URLs each: URL u arrives at no other   *)
(* spider than the one whose turn it is, for any number of spiders and any *)
(* length of the turns.                                                    *)
THEOREM SpidersTakeTurns == Spec => []TurnsInOrder
<1>1. TurnInv => TurnsInOrder
  BY DEF TurnInv, Regular, InOrder, TurnsInOrder
<1> QED BY <1>1, SentInit, SentStep, TurnInit, TurnStep, PTL DEF Spec

=============================================================================
