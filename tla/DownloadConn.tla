---------------------------- MODULE DownloadConn ----------------------------
(***************************************************************************)
(* The download threads (_DownloaderReactor_): each runs an event loop     *)
(* whose clock handler takes requests from the queue and opens a           *)
(* connection for each, and whose connection handler (_download_page_)     *)
(* writes the request, reads the page and hands over one result.           *)
(*                                                                         *)
(* One callback of one loop is one action, but for the clock handler,      *)
(* which is one action for each request it takes: the queue is shared with *)
(* svc and the other loops.  Bytes are counted in units.  The result queue *)
(* is that of module Crawler and always has room here.                     *)
(***************************************************************************)
EXTENDS Integers, Sequences, FiniteSets

CONSTANTS
    Rqst,           \* http requests
    Reactor,        \* download threads
    NoConn,         \* no connection for this request
    RequestSize,    \* the units of a request, all to be written
    PageSize,       \* the sizes a server's answer may have
    BufSize,        \* CONN_RECV_BUF_SIZE - 1
    MaxPage,        \* FLAGS_DOWN_http_page_maxsize; 0 is no limit
    MaxSlot,        \* requests one run of the clock handler takes
    MaxFds          \* sockets the process may have open

ASSUME LimitAssumption ==
    /\ RequestSize \in Nat \ {0} /\ PageSize \in SUBSET Nat
    /\ BufSize \in Nat \ {0} /\ MaxPage \in Nat /\ MaxSlot \in Nat \ {0} /\ MaxFds \in Nat
ASSUME RqstAssumption == IsFiniteSet(Rqst)

VARIABLES
    http_request_,  \* Downloader::http_request_
    is_running_,    \* Downloader::is_running_
    clock,          \* each loop's timer: "armed", "running" (its handler), "gone"
    slot,           \* requests the clock handler may still take
    conn,           \* the connection of each request
    server,         \* [size, sent, open]: what the other end does
    results,        \* the results handed over for each request
    aborted         \* an assert has failed

vars == <<http_request_, is_running_, clock, slot, conn, server, results, aborted>>
loopVars == <<http_request_, is_running_, clock, slot>>

Stat   == {"INIT", "WRITING", "READING"}    \* of a connection that is not freed
Event  == {"timer", "write", "read"}        \* what fd_event waits for
Conn   == [loop: Reactor, fd: BOOLEAN, conn_stat_: Stat, event: Event,
           send_buf_left_: 0..RequestSize,
           recv_buf_left_: 0..BufSize, recv_buf_len_: 0..BufSize]
ASSUME NoConnAssumption == NoConn \notin Conn
Server == [size: PageSize \cup {0}, sent: Nat, open: BOOLEAN]
Result == [state: {"OK", "ERROR"}, error_code: {"0", "EMSGSIZE", "ETIMEDOUT", "errno"},
           len: 0..BufSize]
Live   == {r \in Rqst : conn[r] # NoConn}
Open   == {r \in Live : conn[r].fd}
Unread(r) == server[r].sent - conn[r].recv_buf_len_
Queued(r) == \E i \in DOMAIN http_request_ : http_request_[i] = r

-----------------------------------------------------------------------------
(* The clock handler, _download_handler_ *)

Submit(r) ==
    /\ ~aborted /\ ~Queued(r) /\ conn[r] = NoConn /\ results[r] = <<>>
    /\ http_request_' = Append(http_request_, r)
    /\ UNCHANGED <<is_running_, clock, slot, conn, server, results, aborted>>

Tick(t) ==
    /\ ~aborted /\ clock[t] = "armed"
    /\ clock' = [clock EXCEPT ![t] = "running"]
    /\ slot' = [slot EXCEPT ![t] = MaxSlot]
    /\ UNCHANGED <<http_request_, is_running_, conn, server, results, aborted>>

Takes(t) == is_running_ /\ slot[t] > 0 /\ http_request_ # <<>>

\* mutant: a second descriptor is held for each connection
ConnectTwice(t, r, fails) ==
    LET fd == 2 * Cardinality(Open) + 1 < MaxFds
    IN /\ ~fd => fails
       /\ conn' = [conn EXCEPT ![r] =
              [loop |-> t, fd |-> fd, conn_stat_ |-> "INIT",
               event |-> IF fails THEN "timer" ELSE "write",
               send_buf_left_ |-> RequestSize,
               recv_buf_left_ |-> BufSize, recv_buf_len_ |-> 0]]

\* socket() gives no descriptor when the process has too many; connect fails
\* then, as it may anyway, and a timer of a millisecond ends the connection
Connect(t, r, fails) ==
    LET fd == Cardinality(Open) < MaxFds
    IN /\ ~fd => fails
       /\ conn' = [conn EXCEPT ![r] =
              [loop |-> t, fd |-> fd, conn_stat_ |-> "INIT",
               event |-> IF fails THEN "timer" ELSE "write",
               send_buf_left_ |-> RequestSize,
               recv_buf_left_ |-> BufSize, recv_buf_len_ |-> 0]]

StartDownload(t) ==
    /\ ~aborted /\ clock[t] = "running" /\ Takes(t)
    /\ http_request_' = Tail(http_request_)
    /\ slot' = [slot EXCEPT ![t] = @ - 1]
    /\ LET r == Head(http_request_)
       IN /\ \E fails \in BOOLEAN : Connect(t, r, fails)
          /\ \E n \in PageSize : server' = [server EXCEPT ![r].size = n]
    /\ UNCHANGED <<is_running_, clock, results, aborted>>

\* mutants: the clock is always armed again; only after a busy run
EndTickAlways(t) ==
    /\ ~aborted /\ clock[t] = "running" /\ ~Takes(t)
    /\ clock' = [clock EXCEPT ![t] = "armed"]
    /\ UNCHANGED <<http_request_, is_running_, slot, conn, server, results, aborted>>
EndTickBusy(t) ==
    /\ ~aborted /\ clock[t] = "running" /\ ~Takes(t)
    /\ clock' = [clock EXCEPT ![t] = IF is_running_ /\ slot[t] = 0 THEN "armed" ELSE "gone"]
    /\ UNCHANGED <<http_request_, is_running_, slot, conn, server, results, aborted>>

EndTick(t) ==
    /\ ~aborted /\ clock[t] = "running" /\ ~Takes(t)
    /\ clock' = [clock EXCEPT ![t] = IF is_running_ THEN "armed" ELSE "gone"]
    /\ UNCHANGED <<http_request_, is_running_, slot, conn, server, results, aborted>>

Stop ==
    /\ ~aborted /\ is_running_
    /\ is_running_' = FALSE
    /\ UNCHANGED <<http_request_, clock, slot, conn, server, results, aborted>>

-----------------------------------------------------------------------------
(* The connection handler, _download_page_ *)

\* the loop of r is free to call the handler
Handles(r, e) ==
    /\ ~aborted /\ r \in Live /\ conn[r].event \in e
    /\ clock[conn[r].loop] # "running"

\* mutant: the event is not deleted and the connection is not freed
FinishKept(r, len, state, code) ==
    /\ results' = [results EXCEPT ![r] =
           Append(@, [state |-> state, error_code |-> code, len |-> len])]
    /\ UNCHANGED <<conn, aborted>>

\* handle_result: _result_handler_, conn_close, which wants a descriptor, conn_free
Finish(r, len, state, code) ==
    /\ results' = [results EXCEPT ![r] =
           Append(@, [state |-> state, error_code |-> code, len |-> len])]
    /\ conn' = [conn EXCEPT ![r] = NoConn]
    /\ aborted' = ~conn[r].fd

TimeOut(r) ==
    /\ Handles(r, Event)
    /\ Finish(r, conn[r].recv_buf_len_, "ERROR", "ETIMEDOUT")
    /\ UNCHANGED <<loopVars, server>>

\* write or read returns -1
IoError(r) ==
    /\ Handles(r, {"write", "read"})
    /\ Finish(r, conn[r].recv_buf_len_, "ERROR", "errno")
    /\ UNCHANGED <<loopVars, server>>

WriteSome(r) ==
    /\ Handles(r, {"write"})
    /\ \E n \in 1..conn[r].send_buf_left_ :
          LET left == conn[r].send_buf_left_ - n
          IN conn' = [conn EXCEPT ![r].send_buf_left_ = left,
                          ![r].conn_stat_ = IF left = 0 THEN "READING" ELSE "WRITING",
                          ![r].event = IF left = 0 THEN "read" ELSE "write"]
    /\ UNCHANGED <<loopVars, server, results, aborted>>

TooLong(len) == MaxPage > 0 /\ len > MaxPage

\* mutant: the limit is not looked at
ReadSomeUnlimited(r) ==
    /\ Handles(r, {"read"})
    /\ \E n \in 1..Unread(r) :
          /\ n <= conn[r].recv_buf_left_
          /\ conn' = [conn EXCEPT ![r].recv_buf_left_ = @ - n, ![r].recv_buf_len_ = @ + n]
    /\ UNCHANGED <<loopVars, server, results, aborted>>

ReadSome(r) ==
    /\ Handles(r, {"read"})
    /\ \E n \in 1..Unread(r) :
          LET len == conn[r].recv_buf_len_ + n
          IN /\ n <= conn[r].recv_buf_left_
             /\ IF TooLong(len) THEN Finish(r, len, "OK", "EMSGSIZE")
                ELSE /\ conn' = [conn EXCEPT ![r].recv_buf_left_ = @ - n,
                                             ![r].recv_buf_len_ = len]
                     /\ UNCHANGED <<results, aborted>>
    /\ UNCHANGED <<loopVars, server>>

\* read returns 0: the server has closed, or the buffer has no room left
ReadNone(r) ==
    /\ Handles(r, {"read"})
    /\ \/ Unread(r) = 0 /\ ~server[r].open
       \/ Unread(r) > 0 /\ conn[r].recv_buf_left_ = 0
    /\ Finish(r, conn[r].recv_buf_len_, "OK", "0")
    /\ UNCHANGED <<loopVars, server>>

Callback(r) == TimeOut(r) \/ IoError(r) \/ WriteSome(r) \/ ReadSome(r) \/ ReadNone(r)

-----------------------------------------------------------------------------
(* The other end, which may also stall for ever *)

ServerSend(r) ==
    /\ ~aborted /\ r \in Live /\ conn[r].conn_stat_ = "READING" /\ server[r].sent < server[r].size
    /\ server' = [server EXCEPT ![r].sent = @ + 1]
    /\ UNCHANGED <<loopVars, conn, results, aborted>>

ServerClose(r) ==
    /\ ~aborted /\ r \in Live /\ server[r].open /\ server[r].sent = server[r].size
    /\ server' = [server EXCEPT ![r].open = FALSE]
    /\ UNCHANGED <<loopVars, conn, results, aborted>>

-----------------------------------------------------------------------------
Init ==
    /\ http_request_ = <<>> /\ is_running_ = TRUE
    /\ clock = [t \in Reactor |-> "armed"] /\ slot = [t \in Reactor |-> 0]
    /\ conn = [r \in Rqst |-> NoConn]
    /\ server \in [Rqst -> [size: {0}, sent: {0}, open: {TRUE}]]
    /\ results = [r \in Rqst |-> <<>>] /\ aborted = FALSE

Next ==
    \/ \E r \in Rqst : Submit(r) \/ Callback(r) \/ ServerSend(r) \/ ServerClose(r)
    \/ \E t \in Reactor : Tick(t) \/ StartDownload(t) \/ EndTick(t)
    \/ Stop

Spec == Init /\ [][Next]_vars

(* The loops run; a connection has a write and a read timeout, so that one *)
(* of its events comes in the end, and libevent handles every event that   *)
(* is active before it waits again: the clock cannot crowd out the         *)
(* connections, whose handler is free again and again (strong fairness).   *)
Fairness ==
    /\ \A t \in Reactor : WF_vars(Tick(t)) /\ WF_vars(StartDownload(t) \/ EndTick(t))
    /\ \A r \in Rqst : SF_vars(Callback(r))
FairSpec == Spec /\ Fairness

-----------------------------------------------------------------------------
(* The types; recv_buf_len_ within the buffer is what keeps                *)
(* `*recv_buf_wptr_ = 0` and the next read inside recv_buf_.               *)
TypeOK ==
    /\ http_request_ \in Seq(Rqst) /\ is_running_ \in BOOLEAN /\ aborted \in BOOLEAN
    /\ clock \in [Reactor -> {"armed", "running", "gone"}]
    /\ slot \in [Reactor -> 0..MaxSlot]
    /\ conn \in [Rqst -> Conn \cup {NoConn}]
    /\ server \in [Rqst -> Server]
    /\ results \in [Rqst -> Seq(Result)]

(* A request a loop has taken gets one result and one only, whatever the   *)
(* server does and whether or not the downloader is being stopped: a slow  *)
(* server cannot hold a connection for ever, because the buffer is finite. *)
Answer(r) == IF conn[r] = NoConn /\ results[r] = <<>> THEN "new"
             ELSE IF results[r] = <<>> THEN "pending"
             ELSE IF Len(results[r]) = 1 /\ conn[r] = NoConn THEN results[r][1].state ELSE "twice"
Stage == INSTANCE CrawlSpec WITH Res <- Rqst, answer <- [r \in Rqst |-> Answer(r)]
KeepsPromise == Stage!CSpec
OneResultEach == Stage!CSafe

(* While the downloader runs, every queued request is taken.               *)
QueuedIsTaken == \A r \in Rqst : (Queued(r) /\ is_running_) ~> (~Queued(r) \/ ~is_running_)

(* stop() returns: every loop runs out of events.                          *)
StopEnds == ~is_running_ ~> (Live = {} /\ \A t \in Reactor : clock[t] = "gone")

(* With a descriptor for each connection the assert of conn_close never    *)
(* fails: what ends gives its descriptor back before the next one starts,  *)
(* so the process needs no more than it has connections at once.           *)
NeverAborts == MaxFds >= Cardinality(Rqst) => ~aborted

(* A page reported as OK without an error code is the whole page, when the *)
(* page limit is set and smaller than the receive buffer.                  *)
OkIsComplete ==
    \A r \in Rqst : \A i \in DOMAIN results[r] :
        results[r][i].state = "OK" /\ results[r][i].error_code = "0"
            => results[r][i].len = server[r].size /\ ~server[r].open
OkIsCompleteWhenLimited == 0 < MaxPage /\ MaxPage < BufSize => OkIsComplete

=============================================================================
