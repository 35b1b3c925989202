------------------------ MODULE DownloadConnProofs -------------------------
(***************************************************************************)
(* Theorems about DownloadConn, for any requests, threads, page sizes,     *)
(* buffer, limits and descriptors.                                         *)
(*                                                                         *)
(* That a page reported as complete is complete needs, of every connection *)
(* at any moment, that its buffer is counted right and that the page limit *)
(* keeps it from being full (Counted), and that a request is in one place  *)
(* only, so that nothing starts again what has its result (Once).          *)
(***************************************************************************)
EXTENDS DownloadConn, FiniteSetTheorems, TLAPS

Fresh(r) == conn[r] = NoConn /\ results[r] = <<>>

\* a queued request is queued once, a live one has no result, none has two
Once ==
    /\ \A i \in DOMAIN http_request_ : Fresh(http_request_[i])
    /\ \A i, j \in DOMAIN http_request_ : http_request_[i] = http_request_[j] => i = j
    /\ \A r \in Rqst : conn[r] # NoConn => results[r] = <<>>
    /\ \A r \in Rqst : Len(results[r]) <= 1

\* the servers send what they have and close when they have sent it
Served(r) ==
    /\ server[r].sent <= server[r].size
    /\ ~server[r].open => server[r].sent = server[r].size
    /\ Fresh(r) => server[r].sent = 0 /\ server[r].open

\* of a connection that is not freed
Counted(r) ==
    /\ conn[r].recv_buf_left_ + conn[r].recv_buf_len_ = BufSize
    /\ conn[r].recv_buf_len_ <= server[r].sent
    /\ MaxPage > 0 => conn[r].recv_buf_len_ <= MaxPage

Descriptors ==
    MaxFds >= Cardinality(Rqst) => ~aborted /\ \A r \in Rqst : conn[r] # NoConn => conn[r].fd

ConnInv ==
    /\ TypeOK /\ Once /\ Descriptors /\ OkIsCompleteWhenLimited
    /\ \A r \in Rqst : Served(r) /\ (conn[r] # NoConn => Counted(r))

-----------------------------------------------------------------------------
(* What Append and Tail do to a queue without duplicates.                  *)
LEMMA Queues ==
  ASSUME NEW S, NEW q \in Seq(S), NEW x \in S
  PROVE  /\ Append(q, x) \in Seq(S) /\ Len(Append(q, x)) = Len(q) + 1
         /\ \A i \in 1..Len(q) : Append(q, x)[i] = q[i]
         /\ Append(q, x)[Len(q) + 1] = x
         /\ DOMAIN q = 1..Len(q) /\ Len(q) \in Nat
         /\ DOMAIN Append(q, x) = 1..(Len(q) + 1)
  OBVIOUS

LEMMA Tails ==
  ASSUME NEW S, NEW q \in Seq(S), q # <<>>
  PROVE  /\ Head(q) \in S /\ Head(q) = q[1] /\ 1 \in DOMAIN q /\ Tail(q) \in Seq(S)
         /\ \A i \in DOMAIN Tail(q) : i + 1 \in DOMAIN q /\ Tail(q)[i] = q[i + 1] /\ i \in Nat \ {0}
  OBVIOUS

(* The fields of a server and of a connection, and the changes made to     *)
(* them.                                                                   *)
LEMMA ServerFields ==
  ASSUME NEW s \in Server
  PROVE  s.size \in Nat /\ s.sent \in Nat /\ s.open \in BOOLEAN
<1>1. s.size \in PageSize \cup {0} /\ s.sent \in Nat /\ s.open \in BOOLEAN
  BY DEF Server
<1>2. PageSize \cup {0} \subseteq Nat
  BY LimitAssumption
<1> QED BY <1>1, <1>2

LEMMA ServerNew ==
  ASSUME NEW s \in [size: {0}, sent: {0}, open: {TRUE}]
  PROVE  s \in Server /\ s.size = 0 /\ s.sent = 0 /\ s.open
<1>1. s.size = 0 /\ s.sent = 0 /\ s.open = TRUE /\ s = [size |-> s.size, sent |-> s.sent, open |-> s.open]
  OBVIOUS
<1>2. s.size \in PageSize \cup {0}
  BY <1>1
<1>3. s.sent \in Nat
  BY <1>1
<1>4. s.open \in BOOLEAN
  BY <1>1
<1> QED BY <1>1, <1>2, <1>3, <1>4 DEF Server

LEMMA ServerSized ==
  ASSUME NEW s \in Server, NEW n \in PageSize
  PROVE  LET t == [s EXCEPT !.size = n] IN t \in Server /\ t.size = n /\ t.sent = s.sent /\ t.open = s.open
BY DEF Server

LEMMA ServerSent ==
  ASSUME NEW s \in Server, NEW n \in Nat
  PROVE  LET t == [s EXCEPT !.sent = n] IN t \in Server /\ t.sent = n /\ t.size = s.size /\ t.open = s.open
BY DEF Server

LEMMA ServerClosed ==
  ASSUME NEW s \in Server
  PROVE  LET t == [s EXCEPT !.open = FALSE]
         IN t \in Server /\ t.open = FALSE /\ t.size = s.size /\ t.sent = s.sent
BY DEF Server

LEMMA ConnFields ==
  ASSUME NEW c \in Conn
  PROVE  /\ c.recv_buf_left_ \in 0..BufSize /\ c.recv_buf_len_ \in 0..BufSize
         /\ c.send_buf_left_ \in 0..RequestSize /\ c.fd \in BOOLEAN
BY DEF Conn

LEMMA ConnNew ==
  ASSUME NEW t \in Reactor, NEW fd \in BOOLEAN, NEW e \in Event
  PROVE  [loop |-> t, fd |-> fd, conn_stat_ |-> "INIT", event |-> e, send_buf_left_ |-> RequestSize,
          recv_buf_left_ |-> BufSize, recv_buf_len_ |-> 0] \in Conn
<1>1. RequestSize \in 0..RequestSize /\ BufSize \in 0..BufSize /\ 0 \in 0..BufSize /\ "INIT" \in Stat
  BY LimitAssumption DEF Stat
<1> QED BY <1>1 DEF Conn

Sent(c, n, st, e) == [c EXCEPT !.send_buf_left_ = n, !.conn_stat_ = st, !.event = e]
Received(c, n, m) == [c EXCEPT !.recv_buf_left_ = n, !.recv_buf_len_ = m]

LEMMA ConnSent ==
  ASSUME NEW c \in Conn, NEW n \in 0..RequestSize, NEW st \in Stat, NEW e \in Event
  PROVE  LET d == Sent(c, n, st, e)
         IN d \in Conn /\ d.fd = c.fd /\ d.recv_buf_left_ = c.recv_buf_left_ /\ d.recv_buf_len_ = c.recv_buf_len_
BY DEF Conn, Sent

LEMMA ConnReceived ==
  ASSUME NEW c \in Conn, NEW n \in 0..BufSize, NEW m \in 0..BufSize
  PROVE  LET d == Received(c, n, m)
         IN d \in Conn /\ d.fd = c.fd /\ d.recv_buf_left_ = n /\ d.recv_buf_len_ = m
BY DEF Conn, Received

LEMMA ConnInitInv == Init => ConnInv
<1> SUFFICES ASSUME Init PROVE ConnInv
  OBVIOUS
<1> USE LimitAssumption
<1> DEFINE fresh == [size: {0}, sent: {0}, open: {TRUE}]
<1>a. server \in [Rqst -> fresh]
  BY DEF Init
<1>0. \A r \in Rqst : server[r] \in Server /\ server[r].size = 0 /\ server[r].sent = 0 /\ server[r].open
  BY <1>a, ServerNew
<1> HIDE DEF fresh
<1>1. TypeOK
  <2>1. server \in [Rqst -> Server]
    BY <1>a, <1>0
  <2>2. <<>> \in Seq(Rqst) /\ <<>> \in Seq(Result) /\ 0 \in 0..MaxSlot
    OBVIOUS
  <2>3. conn \in [Rqst -> Conn \cup {NoConn}] /\ results \in [Rqst -> Seq(Result)]
    BY <2>2 DEF Init
  <2>4. /\ clock \in [Reactor -> {"armed", "running", "gone"}] /\ slot \in [Reactor -> 0..MaxSlot]
        /\ http_request_ \in Seq(Rqst) /\ is_running_ \in BOOLEAN /\ aborted \in BOOLEAN
    BY <2>2 DEF Init
  <2> QED BY <2>1, <2>3, <2>4 DEF TypeOK
<1>2. Once /\ Descriptors /\ OkIsCompleteWhenLimited
  BY DEF Init, Once, Descriptors, OkIsCompleteWhenLimited, OkIsComplete, Fresh
<1>3. \A r \in Rqst : Served(r) /\ conn[r] = NoConn
  BY <1>0 DEF Init, Served
<1> QED BY <1>1, <1>2, <1>3 DEF ConnInv

(* One request changes its connection and its server; it keeps its place.  *)
LEMMA OneChanges ==
  ASSUME ConnInv, NEW r \in Rqst, UNCHANGED <<http_request_, is_running_, clock, slot, results, aborted>>,
         r \in Live, NEW c \in Conn, NEW s \in Server,
         conn' = [conn EXCEPT ![r] = c], server' = [server EXCEPT ![r] = s],
         c.fd = conn[r].fd, c.recv_buf_left_ + c.recv_buf_len_ = BufSize,
         c.recv_buf_len_ <= s.sent, MaxPage > 0 => c.recv_buf_len_ <= MaxPage,
         s.sent <= s.size, ~s.open => s.sent = s.size
  PROVE  ConnInv'
<1> USE NoConnAssumption
<1>0. conn \in [Rqst -> Conn \cup {NoConn}] /\ server \in [Rqst -> Server] /\ conn[r] # NoConn /\ results[r] = <<>>
  BY DEF ConnInv, TypeOK, Once, Live
<1>1. /\ conn'[r] = c /\ server'[r] = s /\ c # NoConn
      /\ \A q \in Rqst : q # r => conn'[q] = conn[q] /\ server'[q] = server[q]
  BY <1>0
<1>2. TypeOK'
  BY <1>0 DEF ConnInv, TypeOK
<1>3. Once'
  <2>1. \A i \in DOMAIN http_request_ : http_request_[i] \in Rqst /\ http_request_[i] # r
    BY <1>0 DEF ConnInv, Once, Fresh, TypeOK
  <2> QED BY <1>0, <1>1, <2>1 DEF ConnInv, Once, Fresh
<1>4. Descriptors'
  BY <1>0, <1>1 DEF ConnInv, Descriptors
<1>5. OkIsCompleteWhenLimited'
  <2>1. \A q \in Rqst : results[q] # <<>> => server'[q] = server[q]
    BY <1>0, <1>1
  <2>2. \A q \in Rqst : \A i \in DOMAIN results[q] : results[q] # <<>>
    OBVIOUS
  <2> QED BY <2>1, <2>2 DEF ConnInv, OkIsCompleteWhenLimited, OkIsComplete
<1>6. \A q \in Rqst : Served(q)' /\ (conn'[q] # NoConn => Counted(q)')
  BY <1>0, <1>1 DEF ConnInv, Served, Counted, Fresh
<1> QED BY <1>2, <1>3, <1>4, <1>5, <1>6 DEF ConnInv

(* A connection ends with one result, which is the first of its request.   *)
LEMMA FinishInv ==
  ASSUME ConnInv, NEW r \in Rqst, r \in Live, NEW len \in 0..BufSize,
         NEW state \in {"OK", "ERROR"}, NEW code \in {"0", "EMSGSIZE", "ETIMEDOUT", "errno"},
         Finish(r, len, state, code), UNCHANGED <<loopVars, server>>,
         0 < MaxPage /\ MaxPage < BufSize /\ state = "OK" /\ code = "0"
             => len = server[r].size /\ ~server[r].open
  PROVE  ConnInv'
<1> USE NoConnAssumption
<1> DEFINE x == [state |-> state, error_code |-> code, len |-> len]
<1>0. /\ conn \in [Rqst -> Conn \cup {NoConn}] /\ results \in [Rqst -> Seq(Result)]
      /\ conn[r] # NoConn /\ results[r] = <<>> /\ conn[r].fd \in BOOLEAN /\ x \in Result
  BY DEF ConnInv, TypeOK, Once, Live, Conn, Result
<1>1. Append(results[r], x) \in Seq(Result) /\ Append(results[r], x) = <<x>>
  BY <1>0
<1>2. /\ conn' = [conn EXCEPT ![r] = NoConn] /\ results' = [results EXCEPT ![r] = <<x>>]
      /\ aborted' = ~conn[r].fd
      /\ UNCHANGED <<http_request_, is_running_, clock, slot, server>>
  BY <1>1 DEF Finish, loopVars
<1>3. /\ conn'[r] = NoConn /\ results'[r] = <<x>>
      /\ \A q \in Rqst : q # r => conn'[q] = conn[q] /\ results'[q] = results[q]
  BY <1>0, <1>2
<1>4. TypeOK'
  BY <1>0, <1>1, <1>2 DEF ConnInv, TypeOK
<1>5. Once'
  <2>1. \A i \in DOMAIN http_request_ : http_request_[i] \in Rqst /\ http_request_[i] # r
    BY <1>0 DEF ConnInv, Once, Fresh, TypeOK
  <2>2. Len(<<x>>) = 1
    OBVIOUS
  <2> QED BY <1>0, <1>2, <1>3, <2>1, <2>2 DEF ConnInv, Once, Fresh
<1>6. Descriptors'
  BY <1>0, <1>2, <1>3 DEF ConnInv, Descriptors
<1>7. OkIsCompleteWhenLimited'
  <2> SUFFICES ASSUME 0 < MaxPage, MaxPage < BufSize, NEW q \in Rqst, NEW i \in DOMAIN results'[q],
                      results'[q][i].state = "OK", results'[q][i].error_code = "0"
               PROVE  results'[q][i].len = server'[q].size /\ ~server'[q].open
    BY DEF OkIsCompleteWhenLimited, OkIsComplete
  <2>1. CASE q = r
    BY <2>1, <1>2, <1>3
  <2>2. CASE q # r
    BY <2>2, <1>2, <1>3 DEF ConnInv, OkIsCompleteWhenLimited, OkIsComplete
  <2> QED BY <2>1, <2>2
<1>8. \A q \in Rqst : Served(q)' /\ (conn'[q] # NoConn => Counted(q)')
  BY <1>0, <1>2, <1>3 DEF ConnInv, Served, Counted, Fresh
<1> QED BY <1>4, <1>5, <1>6, <1>7, <1>8 DEF ConnInv

-----------------------------------------------------------------------------
(* The clock handler: it starts what it takes from the queue, which is new.*)
LEMMA Starts ==
  ASSUME ConnInv, NEW t \in Reactor, StartDownload(t)
  PROVE  \E r \in Rqst, c \in Conn, n \in PageSize :
            /\ http_request_ # <<>> /\ r = Head(http_request_) /\ Fresh(r)
            /\ c.fd = (Cardinality(Open) < MaxFds) /\ c.recv_buf_left_ = BufSize /\ c.recv_buf_len_ = 0
            /\ conn' = [conn EXCEPT ![r] = c] /\ server' = [server EXCEPT ![r].size = n]
<1>1. http_request_ \in Seq(Rqst) /\ http_request_ # <<>>
  BY DEF StartDownload, Takes, ConnInv, TypeOK
<1>2. PICK r \in Rqst : r = Head(http_request_) /\ r = http_request_[1] /\ 1 \in DOMAIN http_request_
  BY <1>1, Tails
<1>3. PICK fails \in BOOLEAN : Connect(t, r, fails)
  BY <1>2 DEF StartDownload
<1>4. PICK n \in PageSize : server' = [server EXCEPT ![r].size = n]
  BY <1>2 DEF StartDownload
<1> DEFINE fd == Cardinality(Open) < MaxFds
           e == IF fails THEN "timer" ELSE "write"
           c == [loop |-> t, fd |-> fd, conn_stat_ |-> "INIT", event |-> e,
                 send_buf_left_ |-> RequestSize, recv_buf_left_ |-> BufSize, recv_buf_len_ |-> 0]
<1>5. conn' = [conn EXCEPT ![r] = c]
  BY <1>3 DEF Connect
<1>6. c \in Conn
  <2>1. fd \in BOOLEAN /\ e \in Event
    BY DEF Event
  <2> HIDE DEF fd, e
  <2> QED BY <2>1, ConnNew
<1>7. c.fd = fd /\ c.recv_buf_left_ = BufSize /\ c.recv_buf_len_ = 0
  OBVIOUS
<1>8. Fresh(r)
  BY <1>2 DEF ConnInv, Once
<1> HIDE DEF c
<1> QED BY <1>1, <1>2, <1>4, <1>5, <1>6, <1>7, <1>8

LEMMA StartInv ==
  ASSUME ConnInv, NEW t \in Reactor, StartDownload(t)
  PROVE  ConnInv'
<1> USE LimitAssumption, NoConnAssumption
<1>1. /\ http_request_ \in Seq(Rqst) /\ http_request_ # <<>> /\ slot \in [Reactor -> 0..MaxSlot]
      /\ conn \in [Rqst -> Conn \cup {NoConn}] /\ server \in [Rqst -> Server]
      /\ slot[t] > 0 /\ slot' = [slot EXCEPT ![t] = @ - 1]
      /\ http_request_' = Tail(http_request_)
      /\ UNCHANGED <<is_running_, clock, results, aborted>>
  BY DEF StartDownload, Takes, ConnInv, TypeOK
<1>2. PICK r \in Rqst, c \in Conn, n \in PageSize :
         /\ r = Head(http_request_) /\ Fresh(r)
         /\ c.fd = (Cardinality(Open) < MaxFds) /\ c.recv_buf_left_ = BufSize /\ c.recv_buf_len_ = 0
         /\ conn' = [conn EXCEPT ![r] = c] /\ server' = [server EXCEPT ![r].size = n]
  BY Starts
<1>3. /\ r = http_request_[1] /\ 1 \in DOMAIN http_request_
      /\ http_request_' \in Seq(Rqst)
      /\ \A i \in DOMAIN http_request_' : /\ i + 1 \in DOMAIN http_request_ /\ i \in Nat \ {0}
                                          /\ http_request_'[i] = http_request_[i + 1]
  BY <1>1, <1>2, Tails
<1>4. \A i \in DOMAIN http_request_' : http_request_'[i] \in Rqst /\ http_request_'[i] # r
  <2>1. \A i \in DOMAIN http_request_ : http_request_[i] \in Rqst
    BY <1>1
  <2>2. ASSUME NEW i \in DOMAIN http_request_' PROVE http_request_'[i] # r
    <3>1. i + 1 # 1 /\ i + 1 \in DOMAIN http_request_ /\ http_request_'[i] = http_request_[i + 1]
      BY <1>3
    <3> QED BY <3>1, <1>3 DEF ConnInv, Once
  <2> QED BY <1>3, <2>1, <2>2
<1>5. c # NoConn
  OBVIOUS
<1>6. /\ conn'[r] = c /\ \A q \in Rqst : q # r => conn'[q] = conn[q]
      /\ server'[r] = [server[r] EXCEPT !.size = n] /\ \A q \in Rqst : q # r => server'[q] = server[q]
      /\ server[r] \in Server /\ server'[r] \in Server
      /\ server'[r].size = n /\ server'[r].sent = server[r].sent /\ server'[r].open = server[r].open
  <2>1. server[r] \in Server
    BY <1>1, <1>3
  <2>2. server'[r] = [server[r] EXCEPT !.size = n]
    BY <1>1, <1>3, <1>2
  <2>3. /\ server'[r] \in Server
        /\ server'[r].size = n /\ server'[r].sent = server[r].sent /\ server'[r].open = server[r].open
    BY <2>1, <2>2, ServerSized
  <2> QED BY <1>1, <1>3, <1>2, <2>1, <2>2, <2>3
<1>7. server[r].sent = 0 /\ server[r].open /\ n \in Nat /\ results[r] = <<>> /\ conn[r] = NoConn
  BY <1>2, <1>6 DEF ConnInv, Served, Fresh
<1>8. TypeOK'
  <2>1. server' \in [Rqst -> Server] /\ conn' \in [Rqst -> Conn \cup {NoConn}]
    BY <1>1, <1>3, <1>2, <1>5, <1>6
  <2>2. slot' \in [Reactor -> 0..MaxSlot]
    BY <1>1
  <2> QED BY <1>1, <1>3, <2>1, <2>2 DEF ConnInv, TypeOK
<1>9. Once'
  <2>1. (\A i \in DOMAIN http_request_ : Fresh(http_request_[i]))'
    <3> SUFFICES ASSUME NEW i \in DOMAIN http_request_' PROVE Fresh(http_request_[i])'
      OBVIOUS
    <3>1. Fresh(http_request_[i + 1])
      BY <1>3 DEF ConnInv, Once
    <3> DEFINE q == http_request_'[i]
    <3>2. q \in Rqst /\ q # r /\ Fresh(q)
      BY <1>3, <1>4, <3>1
    <3>3. conn'[q] = NoConn /\ results'[q] = <<>>
      BY <1>1, <1>6, <3>2 DEF Fresh
    <3> QED BY <3>3 DEF Fresh
  <2>2. \A i, j \in DOMAIN http_request_' : http_request_'[i] = http_request_'[j] => i = j
    <3> SUFFICES ASSUME NEW i \in DOMAIN http_request_', NEW j \in DOMAIN http_request_',
                        http_request_'[i] = http_request_'[j]
                 PROVE i = j
      OBVIOUS
    <3>1. i + 1 = j + 1
      BY <1>3 DEF ConnInv, Once
    <3> QED BY <1>3, <3>1
  <2>3. \A q \in Rqst : conn'[q] # NoConn => results'[q] = <<>>
    BY <1>1, <1>6, <1>7 DEF ConnInv, Once
  <2>4. (\A i, j \in DOMAIN http_request_ : http_request_[i] = http_request_[j] => i = j)'
    BY <2>2
  <2>5. (\A q \in Rqst : Len(results[q]) <= 1)'
    BY <1>1 DEF ConnInv, Once
  <2> QED BY <2>1, <2>3, <2>4, <2>5 DEF Once
<1>10. Descriptors'
  <2> SUFFICES ASSUME MaxFds >= Cardinality(Rqst) PROVE c.fd
    BY <1>1, <1>3, <1>6 DEF ConnInv, Descriptors
  <2>1. Open \in SUBSET (Rqst \ {r})
    BY <1>7 DEF Open, Live
  <2>2. IsFiniteSet(Rqst \ {r}) /\ Cardinality(Rqst \ {r}) = Cardinality(Rqst) - 1
    BY <1>3, RqstAssumption, FS_RemoveElement
  <2>3. Cardinality(Open) <= Cardinality(Rqst) - 1 /\ IsFiniteSet(Open)
    BY <2>1, <2>2, FS_Subset
  <2>4. Cardinality(Open) \in Nat /\ Cardinality(Rqst) \in Nat
    BY <2>3, RqstAssumption, FS_CardinalityType
  <2>5. Cardinality(Open) < MaxFds
    BY <2>3, <2>4
  <2> QED BY <2>5, <1>2
<1>11. OkIsCompleteWhenLimited'
  <2>1. \A q \in Rqst : results[q] # <<>> => server'[q] = server[q]
    BY <1>6, <1>7
  <2>2. \A q \in Rqst : \A i \in DOMAIN results[q] : results[q] # <<>>
    OBVIOUS
  <2> QED BY <1>1, <2>1, <2>2 DEF ConnInv, OkIsCompleteWhenLimited, OkIsComplete
<1>12. \A q \in Rqst : Served(q)' /\ (conn'[q] # NoConn => Counted(q)')
  <2>0. BufSize \in Nat /\ MaxPage \in Nat
    OBVIOUS
  <2>1. Served(r)'
    BY <1>5, <1>6, <1>7 DEF Served, Fresh
  <2>2. Counted(r)'
    BY <2>0, <1>2, <1>6, <1>7 DEF Counted
  <2>3. ASSUME NEW q \in Rqst, q # r PROVE Served(q)' /\ (conn'[q] # NoConn => Counted(q)')
    <3>1. conn'[q] = conn[q] /\ server'[q] = server[q] /\ results'[q] = results[q]
      BY <1>1, <1>6, <2>3
    <3>2. Served(q) /\ (conn[q] # NoConn => Counted(q))
      BY DEF ConnInv
    <3>3. Served(q)'
      BY <3>1, <3>2 DEF Served, Fresh
    <3>4. conn'[q] # NoConn => Counted(q)'
      BY <3>1, <3>2 DEF Counted
    <3> QED BY <3>3, <3>4
  <2> QED BY <2>1, <2>2, <2>3
<1> QED BY <1>8, <1>9, <1>10, <1>11, <1>12 DEF ConnInv

LEMMA SubmitInv ==
  ASSUME ConnInv, NEW r \in Rqst, Submit(r)
  PROVE  ConnInv'
<1>1. /\ http_request_' = Append(http_request_, r) /\ Fresh(r) /\ ~Queued(r)
      /\ UNCHANGED <<is_running_, clock, slot, conn, server, results, aborted>>
      /\ http_request_ \in Seq(Rqst)
  BY DEF Submit, Fresh, ConnInv, TypeOK
<1>2. /\ http_request_' \in Seq(Rqst)
      /\ \A i \in 1..Len(http_request_) : http_request_'[i] = http_request_[i]
      /\ http_request_'[Len(http_request_) + 1] = r
      /\ DOMAIN http_request_ = 1..Len(http_request_) /\ Len(http_request_) \in Nat
      /\ DOMAIN http_request_' = 1..(Len(http_request_) + 1)
  BY <1>1, Queues
<1>3. \A i \in 1..Len(http_request_) : http_request_[i] # r
  BY <1>1, <1>2 DEF Queued
<1>4. Once'
  <2>1. \A i \in DOMAIN http_request_' : Fresh(http_request_'[i])
    BY <1>1, <1>2 DEF ConnInv, Once
  <2>2. \A i, j \in DOMAIN http_request_' : http_request_'[i] = http_request_'[j] => i = j
    BY <1>2, <1>3 DEF ConnInv, Once
  <2> QED BY <1>1, <2>1, <2>2 DEF ConnInv, Once, Fresh
<1>5. TypeOK'
  BY <1>1, <1>2 DEF ConnInv, TypeOK
<1> QED
  BY <1>1, <1>4, <1>5 DEF ConnInv, Descriptors, OkIsCompleteWhenLimited, OkIsComplete, Served, Counted, Fresh

LEMMA LoopInv ==
  ASSUME ConnInv, NEW t \in Reactor, Tick(t) \/ EndTick(t)
  PROVE  ConnInv'
<1>1. UNCHANGED <<http_request_, is_running_, conn, server, results, aborted>>
  BY DEF Tick, EndTick
<1>2. clock' \in [Reactor -> {"armed", "running", "gone"}] /\ slot' \in [Reactor -> 0..MaxSlot]
  <2>1. clock \in [Reactor -> {"armed", "running", "gone"}] /\ slot \in [Reactor -> 0..MaxSlot]
    BY DEF ConnInv, TypeOK
  <2>2. MaxSlot \in 0..MaxSlot
    BY LimitAssumption
  <2> QED BY <2>1, <2>2 DEF Tick, EndTick
<1> QED
  BY <1>1, <1>2
  DEF ConnInv, TypeOK, Once, Descriptors, OkIsCompleteWhenLimited, OkIsComplete, Served, Counted, Fresh

-----------------------------------------------------------------------------
(* The connection handler                                                  *)

LEMMA CallbackInv ==
  ASSUME ConnInv, NEW r \in Rqst, Callback(r)
  PROVE  ConnInv'
<1> USE LimitAssumption
<1>0. /\ r \in Live /\ conn[r] \in Conn /\ conn[r] # NoConn /\ server[r] \in Server
      /\ Served(r) /\ Counted(r)
      /\ conn \in [Rqst -> Conn \cup {NoConn}] /\ server \in [Rqst -> Server]
  BY DEF Callback, TimeOut, IoError, WriteSome, ReadSome, ReadNone, Handles, Live, ConnInv, TypeOK
<1>1. /\ conn[r].recv_buf_len_ \in 0..BufSize /\ conn[r].recv_buf_left_ \in 0..BufSize
      /\ conn[r].send_buf_left_ \in 0..RequestSize
      /\ server[r].sent \in Nat /\ server[r].size \in Nat /\ server[r].open \in BOOLEAN
  BY <1>0, ConnFields, ServerFields
<1>2. CASE TimeOut(r)
  BY <1>1, <1>2, <1>0, FinishInv DEF TimeOut
<1>3. CASE IoError(r)
  BY <1>1, <1>3, <1>0, FinishInv DEF IoError
<1>4. CASE WriteSome(r)
  <2>1. PICK n \in 1..conn[r].send_buf_left_ :
           conn' = [conn EXCEPT ![r].send_buf_left_ = conn[r].send_buf_left_ - n,
                       ![r].conn_stat_ = IF conn[r].send_buf_left_ - n = 0 THEN "READING" ELSE "WRITING",
                       ![r].event = IF conn[r].send_buf_left_ - n = 0 THEN "read" ELSE "write"]
    BY <1>4 DEF WriteSome
  <2> DEFINE left == conn[r].send_buf_left_ - n
             st == IF left = 0 THEN "READING" ELSE "WRITING"
             e == IF left = 0 THEN "read" ELSE "write"
             c == Sent(conn[r], left, st, e)
  <2>2. conn' = [conn EXCEPT ![r] = c]
    BY <2>1, <1>0 DEF Sent
  <2>3. /\ c \in Conn /\ c.fd = conn[r].fd
        /\ c.recv_buf_left_ = conn[r].recv_buf_left_ /\ c.recv_buf_len_ = conn[r].recv_buf_len_
    <3>1. left \in 0..RequestSize /\ st \in Stat /\ e \in Event
      BY <1>1 DEF Stat, Event
    <3> HIDE DEF left, st, e
    <3> QED BY <1>0, <3>1, ConnSent
  <2>4. server' = [server EXCEPT ![r] = server[r]]
    BY <1>0, <1>4 DEF WriteSome
  <2> HIDE DEF c
  <2>5. UNCHANGED <<http_request_, is_running_, clock, slot, results, aborted>>
    BY <1>4 DEF WriteSome, loopVars
  <2>6. /\ c.recv_buf_left_ + c.recv_buf_len_ = BufSize /\ c.recv_buf_len_ <= server[r].sent
        /\ (MaxPage > 0 => c.recv_buf_len_ <= MaxPage)
        /\ server[r].sent <= server[r].size /\ (~server[r].open => server[r].sent = server[r].size)
    BY <1>0, <2>3 DEF Served, Counted
  <2> QED BY <1>0, <2>2, <2>3, <2>4, <2>5, <2>6, OneChanges
<1>5. CASE ReadSome(r)
  <2>1. PICK n \in 1..Unread(r) :
           LET len == conn[r].recv_buf_len_ + n
           IN /\ n <= conn[r].recv_buf_left_
              /\ IF TooLong(len) THEN Finish(r, len, "OK", "EMSGSIZE")
                 ELSE /\ conn' = [conn EXCEPT ![r].recv_buf_left_ = @ - n,
                                              ![r].recv_buf_len_ = len]
                      /\ UNCHANGED <<results, aborted>>
    BY <1>5 DEF ReadSome
  <2> DEFINE len == conn[r].recv_buf_len_ + n
  <2>2. len \in 0..BufSize /\ n \in Nat /\ len <= server[r].sent
    BY <1>0, <1>1, <2>1 DEF Counted, Unread
  <2>3. CASE TooLong(len)
    <3>1. Finish(r, len, "OK", "EMSGSIZE") /\ UNCHANGED <<loopVars, server>>
      BY <2>1, <2>3, <1>5 DEF ReadSome
    <3> HIDE DEF len
    <3> QED BY <1>0, <2>2, <3>1, FinishInv
  <2>4. CASE ~TooLong(len)
    <3> DEFINE left == conn[r].recv_buf_left_ - n
               c == Received(conn[r], left, len)
    <3>1. conn' = [conn EXCEPT ![r] = c] /\ server' = [server EXCEPT ![r] = server[r]]
          /\ UNCHANGED <<http_request_, is_running_, clock, slot, results, aborted>>
      BY <1>0, <1>5, <2>1, <2>4 DEF ReadSome, loopVars, Received
    <3>2. c \in Conn /\ c.fd = conn[r].fd /\ c.recv_buf_len_ = len /\ c.recv_buf_left_ = left
      <4>1. left \in 0..BufSize
        BY <1>1, <2>1, <2>2
      <4> HIDE DEF left, len
      <4> QED BY <1>0, <2>2, <4>1, ConnReceived
    <3>3. c.recv_buf_left_ + c.recv_buf_len_ = BufSize /\ (MaxPage > 0 => c.recv_buf_len_ <= MaxPage)
      BY <1>0, <1>1, <2>2, <2>4, <3>2 DEF Counted, TooLong
    <3> HIDE DEF c
    <3> QED BY <1>0, <2>2, <3>1, <3>2, <3>3, OneChanges DEF Served
  <2> QED BY <2>3, <2>4
<1>6. CASE ReadNone(r)
  <2>1. Finish(r, conn[r].recv_buf_len_, "OK", "0") /\ UNCHANGED <<loopVars, server>>
    BY <1>6 DEF ReadNone
  <2>2. 0 < MaxPage /\ MaxPage < BufSize => Unread(r) = 0 /\ ~server[r].open
    BY <1>0, <1>1, <1>6 DEF ReadNone, Counted
  <2>3. 0 < MaxPage /\ MaxPage < BufSize => conn[r].recv_buf_len_ = server[r].size /\ ~server[r].open
    BY <1>0, <1>1, <2>2 DEF Served, Unread
  <2> QED BY <1>0, <1>1, <2>1, <2>3, FinishInv
<1> QED BY <1>2, <1>3, <1>4, <1>5, <1>6 DEF Callback

LEMMA ServerInv ==
  ASSUME ConnInv, NEW r \in Rqst, ServerSend(r) \/ ServerClose(r)
  PROVE  ConnInv'
<1>0. /\ r \in Live /\ conn[r] \in Conn /\ server[r] \in Server /\ Served(r) /\ Counted(r)
      /\ conn \in [Rqst -> Conn \cup {NoConn}] /\ server \in [Rqst -> Server]
      /\ UNCHANGED <<http_request_, is_running_, clock, slot, conn, results, aborted>>
  BY DEF ServerSend, ServerClose, loopVars, Live, ConnInv, TypeOK
<1>1. /\ conn[r].recv_buf_len_ \in Nat /\ conn' = [conn EXCEPT ![r] = conn[r]]
      /\ server[r].sent \in Nat /\ server[r].size \in Nat /\ server[r].open \in BOOLEAN
  BY <1>0, ConnFields, ServerFields, LimitAssumption
<1>2. CASE ServerSend(r)
  <2> DEFINE s == [server[r] EXCEPT !.sent = server[r].sent + 1]
  <2>1. server' = [server EXCEPT ![r] = s] /\ server[r].sent < server[r].size /\ server[r].open
    BY <1>0, <1>1, <1>2 DEF ServerSend, Served
  <2>2. s \in Server /\ s.sent = server[r].sent + 1 /\ s.size = server[r].size /\ s.open = server[r].open
    <3>1. server[r].sent + 1 \in Nat
      BY <1>1
    <3> QED BY <1>0, <3>1, ServerSent
  <2> HIDE DEF s
  <2>3. /\ conn[r].fd = conn[r].fd /\ conn[r].recv_buf_left_ + conn[r].recv_buf_len_ = BufSize
        /\ conn[r].recv_buf_len_ <= s.sent /\ (MaxPage > 0 => conn[r].recv_buf_len_ <= MaxPage)
        /\ s.sent <= s.size /\ (~s.open => s.sent = s.size)
    BY <1>0, <1>1, <2>1, <2>2 DEF Counted
  <2> QED BY <1>0, <1>1, <2>1, <2>2, <2>3, OneChanges
<1>3. CASE ServerClose(r)
  <2> DEFINE s == [server[r] EXCEPT !.open = FALSE]
  <2>1. server' = [server EXCEPT ![r] = s] /\ server[r].sent = server[r].size
    BY <1>0, <1>3 DEF ServerClose
  <2>2. s \in Server /\ s.sent = server[r].sent /\ s.size = server[r].size /\ s.open = FALSE
    BY <1>0, ServerClosed
  <2> HIDE DEF s
  <2> QED BY <1>0, <1>1, <2>1, <2>2, OneChanges DEF Served, Counted
<1> QED BY <1>2, <1>3

LEMMA ConnStepInv == ConnInv /\ [Next]_vars => ConnInv'
<1> SUFFICES ASSUME ConnInv, [Next]_vars PROVE ConnInv'
  OBVIOUS
<1>1. CASE Stop \/ UNCHANGED vars
  <2>1. /\ UNCHANGED <<http_request_, clock, slot, conn, server, results, aborted>>
        /\ is_running_' \in BOOLEAN
    BY <1>1 DEF Stop, vars, ConnInv, TypeOK
  <2>2. TypeOK' /\ Once' /\ Descriptors'
    BY <2>1 DEF ConnInv, TypeOK, Once, Descriptors, Fresh
  <2>3. OkIsCompleteWhenLimited'
    BY <2>1 DEF ConnInv, OkIsCompleteWhenLimited, OkIsComplete
  <2>4. \A q \in Rqst : Served(q)' /\ (conn'[q] # NoConn => Counted(q)')
    BY <2>1 DEF ConnInv, Served, Counted, Fresh
  <2> QED BY <2>2, <2>3, <2>4 DEF ConnInv
<1> QED BY <1>1, StartInv, SubmitInv, LoopInv, CallbackInv, ServerInv DEF Next

LEMMA ConnInvariance == Spec => []ConnInv
  BY ConnInitInv, ConnStepInv, PTL DEF Spec

-----------------------------------------------------------------------------
(* The queue, the connections and the results keep their types; what is    *)
(* read never passes the end of recv_buf_.                                 *)
THEOREM ConnTypes == Spec => []TypeOK
  BY ConnInvariance, PTL DEF ConnInv

(* With a page limit below the buffer's size, a page reported as OK and    *)
(* without an error code is all the server had, whatever the sizes, the    *)
(* pieces it arrives in and the timeouts.                                  *)
THEOREM LimitedPagesAreComplete == Spec => []OkIsCompleteWhenLimited
  BY ConnInvariance, PTL DEF ConnInv

(* With a descriptor for each request, conn_close always has one to close. *)
THEOREM EnoughDescriptors == Spec => []NeverAborts
<1>1. ConnInv => NeverAborts
  BY DEF ConnInv, Descriptors, NeverAborts
<1> QED BY <1>1, ConnInvariance, PTL

(* What a step does to the answers when it touches one request only.       *)
LEMMA AnswerMoves ==
  ASSUME NEW r \in Rqst, \A q \in Rqst : q # r => conn'[q] = conn[q] /\ results'[q] = results[q]
  PROVE  [q \in Rqst |-> Answer(q)]' = [[q \in Rqst |-> Answer(q)] EXCEPT ![r] = Answer(r)']
BY DEF Answer

LEMMA StartAccepts ==
  ASSUME ConnInv, NEW t \in Reactor, StartDownload(t)
  PROVE  \E r \in Rqst : Stage!Accept(r)
<1>1. PICK r \in Rqst, c \in Conn : Fresh(r) /\ conn' = [conn EXCEPT ![r] = c]
  BY Starts
<1>2. results' = results /\ conn \in [Rqst -> Conn \cup {NoConn}] /\ c # NoConn
  BY NoConnAssumption DEF StartDownload, ConnInv, TypeOK
<1>3. conn'[r] = c /\ \A q \in Rqst : q # r => conn'[q] = conn[q] /\ results'[q] = results[q]
  BY <1>1, <1>2
<1>4. Answer(r) = "new" /\ Answer(r)' = "pending"
  BY <1>1, <1>2, <1>3 DEF Answer, Fresh
<1> QED BY <1>3, <1>4, AnswerMoves DEF Stage!Accept

LEMMA FinishRecords ==
  ASSUME ConnInv, NEW r \in Rqst, r \in Live, NEW len, NEW state \in {"OK", "ERROR"}, NEW code,
         Finish(r, len, state, code)
  PROVE  Stage!Record(r)
<1> DEFINE x == [state |-> state, error_code |-> code, len |-> len]
<1>1. /\ conn \in [Rqst -> Conn \cup {NoConn}] /\ results \in [Rqst -> Seq(Result)]
      /\ conn[r] # NoConn /\ results[r] = <<>>
  BY DEF ConnInv, TypeOK, Once, Live
<1>2. Append(results[r], x) = <<x>>
  BY <1>1
<1>3. conn' = [conn EXCEPT ![r] = NoConn] /\ results' = [results EXCEPT ![r] = <<x>>]
  BY <1>2 DEF Finish
<1>4. /\ conn'[r] = NoConn /\ results'[r] = <<x>>
      /\ \A q \in Rqst : q # r => conn'[q] = conn[q] /\ results'[q] = results[q]
  BY <1>1, <1>3
<1>5. <<x>> # <<>> /\ Len(<<x>>) = 1 /\ <<x>>[1].state = state
  OBVIOUS
<1>6. Answer(r) = "pending" /\ Answer(r)' = state
  <2> HIDE DEF x
  <2> QED BY <1>1, <1>4, <1>5 DEF Answer
<1> QED BY <1>4, <1>6, AnswerMoves DEF Stage!Record, Stage!Answers

(* Writing keeps the connection; so does reading, or it ends it.           *)
LEMMA WriteStays ==
  ASSUME ConnInv, NEW r \in Rqst, WriteSome(r)
  PROVE  r \in Live /\ UNCHANGED results /\ \E c : c # NoConn /\ conn' = [conn EXCEPT ![r] = c]
<1>1. /\ r \in Live /\ conn \in [Rqst -> Conn \cup {NoConn}] /\ conn[r] \in Conn /\ UNCHANGED results
      /\ conn[r].send_buf_left_ \in 0..RequestSize
  BY ConnFields DEF WriteSome, Handles, ConnInv, TypeOK, Live
<1>2. PICK n \in 1..conn[r].send_buf_left_ :
         conn' = [conn EXCEPT ![r].send_buf_left_ = conn[r].send_buf_left_ - n,
                     ![r].conn_stat_ = IF conn[r].send_buf_left_ - n = 0 THEN "READING" ELSE "WRITING",
                     ![r].event = IF conn[r].send_buf_left_ - n = 0 THEN "read" ELSE "write"]
  BY DEF WriteSome
<1> DEFINE left == conn[r].send_buf_left_ - n
           st == IF left = 0 THEN "READING" ELSE "WRITING"
           e == IF left = 0 THEN "read" ELSE "write"
           c == Sent(conn[r], left, st, e)
<1>3. conn' = [conn EXCEPT ![r] = c]
  BY <1>1, <1>2 DEF Sent
<1>4. left \in 0..RequestSize /\ st \in Stat /\ e \in Event
  BY <1>1, LimitAssumption DEF Stat, Event
<1> HIDE DEF left, st, e
<1>5. c \in Conn
  BY <1>1, <1>4, ConnSent
<1> HIDE DEF c
<1> QED BY <1>1, <1>3, <1>5, NoConnAssumption

LEMMA ReadStays ==
  ASSUME ConnInv, NEW r \in Rqst, ReadSome(r)
  PROVE  /\ r \in Live
         /\ \/ UNCHANGED results /\ \E c : c # NoConn /\ conn' = [conn EXCEPT ![r] = c]
            \/ \E len : Finish(r, len, "OK", "EMSGSIZE")
<1>1. /\ r \in Live /\ conn \in [Rqst -> Conn \cup {NoConn}] /\ conn[r] \in Conn /\ Counted(r)
      /\ conn[r].recv_buf_left_ \in 0..BufSize /\ conn[r].recv_buf_len_ \in 0..BufSize
  BY ConnFields DEF ReadSome, Handles, ConnInv, TypeOK, Live
<1>2. PICK n \in 1..Unread(r) :
         LET len == conn[r].recv_buf_len_ + n
         IN /\ n <= conn[r].recv_buf_left_
            /\ IF TooLong(len) THEN Finish(r, len, "OK", "EMSGSIZE")
               ELSE /\ conn' = [conn EXCEPT ![r].recv_buf_left_ = @ - n, ![r].recv_buf_len_ = len]
                    /\ UNCHANGED <<results, aborted>>
  BY DEF ReadSome
<1> DEFINE len == conn[r].recv_buf_len_ + n
           left == conn[r].recv_buf_left_ - n
           c == Received(conn[r], left, len)
<1>3. left \in 0..BufSize /\ len \in 0..BufSize
  BY <1>1, <1>2, LimitAssumption DEF Counted
<1>4. \/ Finish(r, len, "OK", "EMSGSIZE")
      \/ conn' = [conn EXCEPT ![r] = c] /\ UNCHANGED results
  BY <1>1, <1>2 DEF Received
<1> HIDE DEF len, left
<1>5. c \in Conn
  BY <1>1, <1>3, ConnReceived
<1> HIDE DEF c
<1> QED BY <1>1, <1>4, <1>5, NoConnAssumption

(* Each step is one of CrawlSpec, with requests for resources, or changes  *)
(* no answer: a request gets one result at most, and keeps it.             *)
THEOREM DownloadsAnswerOnce == Spec => OneResultEach
<1>1. Init => Stage!CInit
  BY DEF Init, Stage!CInit, Answer
<1>2. ConnInv /\ [Next]_vars => [Stage!CNext]_([r \in Rqst |-> Answer(r)])
  <2> SUFFICES ASSUME ConnInv, [Next]_vars PROVE [Stage!CNext]_([r \in Rqst |-> Answer(r)])
    OBVIOUS
  <2> DEFINE Same == UNCHANGED results /\ \A r \in Rqst : conn'[r] = NoConn <=> conn[r] = NoConn
  <2>1. ASSUME Same PROVE UNCHANGED [r \in Rqst |-> Answer(r)]
    <3>1. \A r \in Rqst : Answer(r)' = Answer(r)
      BY <2>1 DEF Answer
    <3> QED BY <3>1
  <2>2. ASSUME NEW t \in Reactor, StartDownload(t) PROVE Stage!CNext
    <3>1. \E r \in Rqst : Stage!Accept(r)
      BY <2>2, StartAccepts
    <3> QED BY <3>1 DEF Stage!CNext
  <2>3. ASSUME NEW r \in Rqst, r \in Live, NEW len, NEW state \in {"OK", "ERROR"}, NEW code,
               Finish(r, len, state, code)
        PROVE  Stage!CNext
    <3>1. Stage!Record(r)
      BY <2>3, FinishRecords
    <3> QED BY <3>1 DEF Stage!CNext
  <2>4. ASSUME NEW r \in Rqst, TimeOut(r) \/ IoError(r) \/ ReadNone(r) PROVE Stage!CNext
    <3>1. CASE TimeOut(r)
      BY <2>3, <3>1 DEF TimeOut, Handles
    <3>2. CASE IoError(r)
      BY <2>3, <3>2 DEF IoError, Handles
    <3>3. CASE ReadNone(r)
      BY <2>3, <3>3 DEF ReadNone, Handles
    <3> QED BY <2>4, <3>1, <3>2, <3>3
  <2>5. ASSUME NEW r \in Rqst, NEW c, r \in Live, c # NoConn, UNCHANGED results,
               conn' = [conn EXCEPT ![r] = c]
        PROVE  Same
    BY <2>5 DEF ConnInv, TypeOK, Live
  <2>6. ASSUME NEW r \in Rqst, WriteSome(r) PROVE Same
    BY <2>6, WriteStays, <2>5
  <2>7. ASSUME NEW r \in Rqst, ReadSome(r) PROVE Stage!CNext \/ Same
    BY <2>7, ReadStays, <2>3, <2>5
  <2>8. CASE UNCHANGED <<conn, results>>
    BY <2>1, <2>8
  <2>9. CASE ~UNCHANGED <<conn, results>>
    <3>1. \/ \E r \in Rqst : Callback(r)
          \/ \E t \in Reactor : StartDownload(t)
      BY <2>9 DEF Next, vars, Submit, ServerSend, ServerClose, loopVars, Tick, EndTick, Stop
    <3> QED BY <3>1, <2>1, <2>2, <2>4, <2>6, <2>7 DEF Callback
  <2> QED BY <2>8, <2>9
<1> QED BY <1>1, <1>2, ConnInvariance, PTL DEF Spec, OneResultEach, Stage!CSafe
=============================================================================
