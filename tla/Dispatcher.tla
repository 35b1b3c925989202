----------------------------- MODULE Dispatcher -----------------------------
(***************************************************************************)
(* The dispatcher: thrift worker threads pass the URLs of clients on to    *)
(* one of several spiders, a thousand to each in turn, and replace a       *)
(* connection that has failed.  client_, send_num_ and the connections of  *)
(* ThriftClientWrapper are shared by the workers without a lock; a step is *)
(* one access to them.  (Two exceptions: a ++ and what connect() does are  *)
(* one step each.)                                                         *)
(*                                                                         *)
(* This is submit; submit_url is the same but for its missing return.  A   *)
(* spider takes what it is sent and answers 0; it may go down, and it may  *)
(* hang: the sockets have no timeout, so a worker then waits inside send.  *)
(* What two workers do inside one connection is undefined, and so is what  *)
(* a worker does in one that another connects again: the model goes on as  *)
(* if they had taken turns, or says nothing more (`crashed`).              *)
(***************************************************************************)
EXTENDS Integers, Sequences, FiniteSets

CONSTANTS
    Worker,         \* the thrift threads
    Servers,        \* number of spiders, clients_.size()
    switch_client_num_,
    Interval,       \* conn_retry_interval_, in ticks
    MayFail,        \* may a spider go down
    MayHang,        \* may a spider hang
    None,           \* no client
    MaxUrls, MaxRaced, MaxDowns     \* bounds; MaxRaced: of the URLs once calls have overlapped

ASSUME ServerAssumption ==
    /\ Servers \in Nat \ {0} /\ switch_client_num_ \in Nat \ {0} /\ Interval \in Nat
    /\ MayFail \in BOOLEAN /\ MayHang \in BOOLEAN /\ MaxUrls \in Nat
    /\ MaxRaced \in Nat /\ MaxDowns \in Nat

Server == 0..(Servers - 1)      \* indices of clients_
Url    == 1..MaxUrls
ASSUME NoneAssumption == None \notin Server

VARIABLES
    up, hung, downs,    \* the spiders that run, that hang; how many were or have gone down
    link,           \* is the socket of a connection the server's current one
    status_, age,   \* of each connection; ticks since last_connect_time_
    last_client_index_,
    client_, send_num_,
    worker,         \* [pc, url, left, c, again] of each thread
    urls,           \* how many URLs were submitted
    sent,           \* where each URL has arrived
    answer,         \* what submit has returned
    overlapped,     \* have two calls of submit been under way at once
    crashed

netVars    == <<up, hung, downs>>
clientVars == <<link, status_, age>>
ownVars    == <<client_, send_num_>>
callVars   == <<urls, overlapped>>
vars == <<netVars, clientVars, last_client_index_, ownVars, worker, callVars, sent, answer, crashed>>

NoUrl == 0
Resting == [pc |-> "idle", url |-> NoUrl, left |-> 0, c |-> None, again |-> FALSE]
At(w, p) == worker[w].pc = p /\ ~crashed
Goto(w, p) == worker' = [worker EXCEPT ![w].pc = p]
Return(w, n) ==
    /\ worker' = [worker EXCEPT ![w] = Resting]
    /\ answer' = [answer EXCEPT ![worker[w].url] = n]

\* the workers inside connection c
Inside(c) == {w \in Worker : worker[w].pc \in {"call", "answer"} /\ worker[w].c = c}

-----------------------------------------------------------------------------
Call(w) ==
    /\ At(w, "idle") /\ urls < MaxUrls
    /\ overlapped' = (overlapped \/ \E v \in Worker : worker[v].pc # "idle")
    /\ overlapped' => urls < MaxRaced
    /\ urls' = urls + 1
    /\ worker' = [worker EXCEPT ![w] = [Resting EXCEPT !.pc = "check", !.url = urls + 1]]
    /\ UNCHANGED <<netVars, clientVars, last_client_index_, ownVars, sent, answer, crashed>>

\* clients_->client() begins
Switch(w, again) ==
    worker' = [worker EXCEPT ![w] =
                  [@ EXCEPT !.pc = "pick", !.left = Servers, !.c = None, !.again = again]]

Check(w) ==
    /\ At(w, "check")
    /\ IF client_ = None THEN Switch(w, FALSE) ELSE Goto(w, "count")
    /\ UNCHANGED <<netVars, clientVars, last_client_index_, ownVars, callVars, sent, answer, crashed>>

\* mutant: one URL too many
CountLate(w) ==
    /\ At(w, "count")
    /\ IF send_num_ > switch_client_num_ THEN Switch(w, FALSE) ELSE Goto(w, "add")
    /\ UNCHANGED <<netVars, clientVars, last_client_index_, ownVars, callVars, sent, answer, crashed>>

Count(w) ==
    /\ At(w, "count")
    /\ IF send_num_ >= switch_client_num_ THEN Switch(w, FALSE) ELSE Goto(w, "add")
    /\ UNCHANGED <<netVars, clientVars, last_client_index_, ownVars, callVars, sent, answer, crashed>>

\* ThriftClientInstance::connect; a spider that hangs is still connected to
Connect(c) ==
    /\ age' = [age EXCEPT ![c] = 0]
    /\ link' = [link EXCEPT ![c] = up[c]]
    /\ status_' = [status_ EXCEPT ![c] = IF up[c] THEN "OK" ELSE "ERROR"]
Reconnects(c) == status_[c] # "OK" /\ age[c] <= Interval

\* one turn of the loop of ThriftClientWrapper::client
Pick(w) ==
    /\ At(w, "pick") /\ worker[w].left > 0
    /\ LET c == last_client_index_
       IN /\ c \in Server
          /\ IF Reconnects(c) THEN Inside(c) = {} /\ Connect(c) ELSE UNCHANGED clientVars
          /\ worker' = [worker EXCEPT ![w].pc = "increment", ![w].c = c]
    /\ UNCHANGED <<netVars, last_client_index_, ownVars, callVars, sent, answer, crashed>>

\* the index is past the end of clients_, or the connection is in use
PickCrashes(w) ==
    /\ At(w, "pick") /\ worker[w].left > 0
    /\ LET c == last_client_index_
       IN c \in Server => Reconnects(c) /\ Inside(c) # {}
    /\ crashed' = TRUE
    /\ UNCHANGED <<netVars, clientVars, last_client_index_, ownVars, worker, callVars, sent, answer>>

Increment(w) ==
    /\ At(w, "increment")
    /\ last_client_index_' = last_client_index_ + 1
    /\ Goto(w, "modulo")
    /\ UNCHANGED <<netVars, clientVars, ownVars, callVars, sent, answer, crashed>>

\* mutant: the loop does not count
ModuloEndless(w) ==
    /\ At(w, "modulo")
    /\ last_client_index_' = last_client_index_ % Servers
    /\ Goto(w, IF status_[worker[w].c] = "OK" THEN "got" ELSE "pick")
    /\ UNCHANGED <<netVars, clientVars, ownVars, callVars, sent, answer, crashed>>

Modulo(w) ==
    /\ At(w, "modulo")
    /\ last_client_index_' = last_client_index_ % Servers
    /\ worker' = [worker EXCEPT ![w].left = @ - 1,
                     ![w].pc = IF status_[worker[w].c] = "OK" THEN "got" ELSE "pick"]
    /\ UNCHANGED <<netVars, clientVars, ownVars, callVars, sent, answer, crashed>>

\* client() has returned: a client, or none
Got(w) ==
    /\ At(w, "got") \/ (At(w, "pick") /\ worker[w].left = 0)
    /\ client_' = IF worker[w].pc = "got" THEN worker[w].c ELSE None
    /\ worker' = [worker EXCEPT ![w] = [@ EXCEPT !.pc = "test", !.left = 0, !.c = None]]
    /\ UNCHANGED <<netVars, clientVars, last_client_index_, send_num_, callVars, sent, answer, crashed>>

\* what is tested is client_, whoever has assigned it last
Test(w) ==
    /\ At(w, "test")
    /\ IF client_ = None THEN Return(w, "-1") ELSE Goto(w, "reset") /\ UNCHANGED answer
    /\ UNCHANGED <<netVars, clientVars, last_client_index_, ownVars, callVars, sent, crashed>>

\* mutants: send_num_ is not reset; the URL of the failed send is sent again
ResetLost(w) ==
    /\ At(w, "reset")
    /\ IF worker[w].again THEN Return(w, "0") ELSE Goto(w, "add") /\ UNCHANGED answer
    /\ UNCHANGED <<netVars, clientVars, last_client_index_, ownVars, callVars, sent, crashed>>
ResetResends(w) ==
    /\ At(w, "reset") /\ send_num_' = 0
    /\ Goto(w, "add")
    /\ UNCHANGED <<netVars, clientVars, last_client_index_, client_, callVars, sent, answer, crashed>>

\* on to the send, or, when the send has failed before, back to the caller
Reset(w) ==
    /\ At(w, "reset")
    /\ send_num_' = 0
    /\ IF worker[w].again THEN Return(w, "0") ELSE Goto(w, "add") /\ UNCHANGED answer
    /\ UNCHANGED <<netVars, clientVars, last_client_index_, client_, callVars, sent, crashed>>

Add(w) ==
    /\ At(w, "add")
    /\ send_num_' = send_num_ + 1
    /\ Goto(w, "enter")
    /\ UNCHANGED <<netVars, clientVars, last_client_index_, client_, callVars, sent, answer, crashed>>

\* client_->send: client_ may be another one than the one tested, or none
Enter(w) ==
    /\ At(w, "enter") /\ client_ # None
    /\ worker' = [worker EXCEPT ![w].pc = "call", ![w].c = client_]
    /\ UNCHANGED <<netVars, clientVars, last_client_index_, ownVars, callVars, sent, answer, crashed>>
EnterCrashes(w) ==
    /\ At(w, "enter") /\ client_ = None
    /\ crashed' = TRUE
    /\ UNCHANGED <<netVars, clientVars, last_client_index_, ownVars, worker, callVars, sent, answer>>

Serves(c) == link[c] /\ c \notin hung

\* the spider takes the URL ...
Arrive(w) ==
    /\ At(w, "call") /\ Serves(worker[w].c)
    /\ sent' = [sent EXCEPT ![worker[w].url] = Append(@, worker[w].c)]
    /\ Goto(w, "answer")
    /\ UNCHANGED <<netVars, clientVars, last_client_index_, ownVars, callVars, answer, crashed>>

\* ... and answers 0
Answered(w) ==
    /\ At(w, "answer") /\ Serves(worker[w].c)
    /\ Return(w, "0")
    /\ UNCHANGED <<netVars, clientVars, last_client_index_, ownVars, callVars, sent, crashed>>

\* a TException: the socket is dead, before the URL was taken or after it
SendFails(w) ==
    /\ At(w, "call") \/ At(w, "answer")
    /\ ~link[worker[w].c]
    /\ status_' = [status_ EXCEPT ![worker[w].c] = "ERROR"]
    /\ Switch(w, TRUE)
    /\ UNCHANGED <<netVars, link, age, last_client_index_, ownVars, callVars, sent, answer, crashed>>

\* two workers write to one connection, or read from it
Overlap(w, v) ==
    /\ w # v /\ ~crashed /\ \E c \in Server : {w, v} \subseteq Inside(c)
    /\ crashed' = TRUE
    /\ UNCHANGED <<netVars, clientVars, last_client_index_, ownVars, worker, callVars, sent, answer>>

-----------------------------------------------------------------------------
Spider(i) ==
    \/ /\ MayFail /\ downs < MaxDowns /\ up[i]     \* goes down, with what it has not answered
       /\ up' = [up EXCEPT ![i] = FALSE] /\ downs' = downs + 1
       /\ hung' = hung \ {i}
       /\ link' = [link EXCEPT ![i] = FALSE]
    \/ /\ ~up[i]
       /\ up' = [up EXCEPT ![i] = TRUE]
       /\ UNCHANGED <<hung, downs, link>>
    \/ /\ MayHang /\ up[i] /\ (i \in hung \/ Inside(i) # {})      \* before, nobody would see it
       /\ hung' = IF i \in hung THEN hung \ {i} ELSE hung \cup {i}
       /\ UNCHANGED <<up, downs, link>>

SpiderStep(i) ==
    /\ Spider(i)
    /\ UNCHANGED <<status_, age, last_client_index_, ownVars, worker, callVars, sent, answer,
                   crashed>>

Tick ==
    /\ age' = [i \in Server |-> IF age[i] > Interval THEN age[i] ELSE age[i] + 1]
    /\ age' # age
    /\ UNCHANGED <<netVars, link, status_, last_client_index_, ownVars, worker, callVars, sent,
                   answer, crashed>>

\* main: every server was tried once, one at least was there
Init ==
    /\ up \in [Server -> BOOLEAN] /\ (\E i \in Server : up[i]) /\ (~MayFail => \A i \in Server : up[i])
    /\ downs = Cardinality({i \in Server : ~up[i]}) /\ downs <= MaxDowns /\ link = up /\ hung = {}
    /\ status_ = [i \in Server |-> IF up[i] THEN "OK" ELSE "ERROR"] /\ age = [i \in Server |-> 0]
    /\ last_client_index_ = 0 /\ client_ = None /\ send_num_ = 0
    /\ worker = [w \in Worker |-> Resting] /\ urls = 0 /\ overlapped = FALSE
    /\ sent = [u \in Url |-> <<>>] /\ answer = [u \in Url |-> "none"] /\ crashed = FALSE

Work(w) ==
    \/ Check(w) \/ Count(w) \/ Pick(w) \/ PickCrashes(w) \/ Increment(w) \/ Modulo(w)
    \/ Got(w) \/ Test(w) \/ Reset(w) \/ Add(w) \/ Enter(w) \/ EnterCrashes(w)
    \/ Arrive(w) \/ Answered(w) \/ SendFails(w)

Next ==
    \/ \E w \in Worker : Call(w) \/ Work(w) \/ \E v \in Worker : Overlap(w, v)
    \/ \E i \in Server : SpiderStep(i)
    \/ Tick

Spec == Init /\ [][Next]_vars

(* The threads run and time passes.  Nothing is asked of the spiders: one  *)
(* that hangs may hang for ever.                                           *)
FairSpec == Spec /\ WF_vars(Tick) /\ \A w \in Worker : WF_vars(Work(w))

-----------------------------------------------------------------------------
(* A URL reaches one spider at most, lost answers and failed spiders       *)
(* included: it is not sent again, which would crawl the page twice.       *)
NeverTwice == \A u \in Url : Len(sent[u]) <= 1

(* The spiders take turns of switch_client_num_ URLs each, round and       *)
(* round, as long as none of them fails and no two calls of submit are     *)
(* under way at once.  (Once two calls have overlapped there is no bound:  *)
(* two workers that look for a client together give one spider two turns,  *)
(* and either resets the count of the other.)                              *)
TurnOf(u) == ((u - 1) \div switch_client_num_) % Servers
TurnsInOrder ==
    ~overlapped /\ downs = 0 => \A u \in Url : sent[u] # <<>> => sent[u] = <<TurnOf(u)>>

(* Every call of submit comes to an end, but for one that waits inside a   *)
(* spider that hangs, which nothing ends.                                  *)
Waits(w) == worker[w].pc \in {"call", "answer"} /\ worker[w].c \in hung
SubmitReturns ==
    \A w \in Worker : worker[w].pc # "idle" ~> worker[w].pc = "idle" \/ crashed \/ Waits(w)

(* A URL that submit has taken with 0 has reached a spider.                *)
AcceptedIsSent == \A u \in Url : answer[u] = "0" => sent[u] # <<>>

=============================================================================
