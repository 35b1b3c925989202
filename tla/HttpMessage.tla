---------------------------- MODULE HttpMessage ----------------------------
(***************************************************************************)
(* HttpParser: the message that the callbacks of http_parser fill in, page *)
(* by page, in one object for each storage thread.  http_parser (external) *)
(* hands out a header's name, the pieces of its value (more than one when  *)
(* it is folded), and the pieces of the body (one for each chunk); behind  *)
(* a body there may be headers again, of a trailer or of another message.  *)
(* It may stop at any of them when the page is cut or not HTTP, and the    *)
(* message is stored as it is then.                                        *)
(*                                                                         *)
(* A piece is [size, text]: the units before a zero byte, where strnlen    *)
(* ends, and all of them if there is none; only a body has zero bytes.     *)
(* The model ends at an assert and where the code writes behind an array   *)
(* (`parse`).  The status line is one unit, never a long one, and the      *)
(* marks around a name count as part of it.                                *)
(***************************************************************************)
EXTENDS Naturals, Sequences, FiniteSets, SequencesExt

CONSTANTS
    MAX_HEADERS, MAX_ELEMENT_SIZE, MAX_HTTP_HEADER_SIZE, MAX_HTTP_PAGE_SIZE,
    RecvBuf,            \* CONN_RECV_BUF_SIZE
    PieceSize,          \* the sizes of pieces
    MaxPages            \* bound: pages

ASSUME MessageAssumption ==
    /\ {MAX_HEADERS, MAX_ELEMENT_SIZE, MAX_HTTP_PAGE_SIZE, MaxPages} \subseteq Nat \ {0}
    /\ MAX_HTTP_HEADER_SIZE \in Nat /\ PieceSize \subseteq Nat \ {0}
    /\ RecvBuf \in Nat /\ RecvBuf <= MAX_HTTP_PAGE_SIZE

VARIABLES
    web,            \* the page, as its callbacks: see Piece
    done_cb,        \* those that were made
    msg,            \* struct message: headers, each a name and value; lengths of names; body
    parse,          \* "callbacks", "stored", "assert", "unset" or "overrun"
    pages           \* pages parsed before

httpVars == <<web, done_cb, msg, parse, pages>>

Total(s) == FoldLeft(LAMBDA n, m : n + m, 0, s)
Piece   == UNION {[cb: {"field", "value"}, size: {n}, text: {n}] \cup [cb: {"body"}, size: {n}, text: 0..n] :
                    n \in PieceSize}
Empty   == [headers |-> <<>>, names |-> <<>>, body |-> <<>>]

\* the page and its status line fit the receive buffer
Web == {w \in UNION {[1..n -> Piece] : n \in 0..(RecvBuf - 2)} :
           /\ \A i \in DOMAIN w : w[i].cb = "value" => i > 1 /\ w[i - 1].cb # "body"
           /\ 1 + Total([i \in DOMAIN w |-> w[i].size]) <= RecvBuf - 1}

-----------------------------------------------------------------------------
\* the units strlncat copies of the i-th piece
Copied(i) == [k \in 1..web[i].text |-> <<i, k>>]

\* header_field_cb, and the assert of strlncat: counted first, written afterwards
Field_cb(i) ==
    /\ web[i].cb = "field"
    /\ msg' = [headers |-> Append(msg.headers, Copied(i)),
               names |-> Append(msg.names, web[i].size), body |-> msg.body]
    /\ parse' = CASE Len(msg.headers) >= MAX_HEADERS -> "unset"
                  [] Len(msg.headers) < MAX_HEADERS /\ web[i].size >= MAX_ELEMENT_SIZE -> "assert"
                  [] OTHER -> "callbacks"

\* header_value_cb, likewise
Value_cb(i) ==
    /\ web[i].cb = "value"
    /\ LET h == Len(msg.headers)
       IN IF Len(msg.headers[h]) - msg.names[h] + web[i].size < MAX_ELEMENT_SIZE
          THEN /\ parse' = "callbacks"
               /\ msg' = [headers |-> [msg.headers EXCEPT ![h] = @ \o Copied(i)],
                          names |-> msg.names, body |-> msg.body]
          ELSE parse' = "assert" /\ UNCHANGED msg

BodyRoom(i) == MAX_HTTP_PAGE_SIZE - Len(msg.body) - 1

\* count_body_cb: after a zero byte nothing is copied, but all is counted
Body_cb(i) ==
    /\ web[i].cb = "body"
    /\ IF web[i].text < BodyRoom(i)
       THEN /\ parse' = "callbacks"
            /\ msg' = [headers |-> msg.headers, names |-> msg.names,
                       body |-> msg.body \o [k \in 1..web[i].size |->
                                                IF k <= web[i].text THEN <<i, k>> ELSE <<0, 0>>]]
       ELSE parse' = "assert" /\ UNCHANGED msg

CallBack ==
    /\ parse = "callbacks" /\ done_cb < Len(web)
    /\ done_cb' = done_cb + 1
    /\ Field_cb(done_cb') \/ Value_cb(done_cb') \/ Body_cb(done_cb')
    /\ UNCHANGED <<web, pages>>

\* _message_to_headers_body: what snprintf has no room for is cut, its length counted
HeaderLength == 1 + Total([h \in DOMAIN msg.headers |-> Len(msg.headers[h])])

\* http_parser_execute returns; how far it came is not looked at
Store ==
    /\ parse = "callbacks"
    /\ parse' = IF HeaderLength + 2 <= MAX_HTTP_HEADER_SIZE THEN "stored" ELSE "overrun"
    /\ UNCHANGED <<web, done_cb, msg, pages>>

\* mutant: the message is not cleared, only the parser
ResetParser == UNCHANGED msg
Reset == msg' = Empty

ParsePage ==
    /\ parse = "stored" /\ pages < MaxPages
    /\ pages' = pages + 1
    /\ Reset /\ web' \in Web /\ done_cb' = 0 /\ parse' = "callbacks"

HttpInit ==
    /\ web = <<>> /\ done_cb = 0 /\ pages = 0 /\ msg = Empty /\ parse = "stored"
HttpNext == CallBack \/ Store \/ ParsePage
HttpSpec == HttpInit /\ [][HttpNext]_httpVars

-----------------------------------------------------------------------------
(* What is stored of a page whose headers fit header_buf is the page, as   *)
(* far as it was parsed, and of no other: each header has its own value,   *)
(* all pieces of it in order, and the body has its pieces at their places, *)
(* with zeros from a zero on.                                              *)
UnitsOf(is) == UNION {{i} \X (1..web[i].size) : i \in is}
Fields(n) == {i \in 1..n : web[i].cb = "field"}
Bodies(n) == {i \in 1..n : web[i].cb = "body"}
PiecesOf(h, n) == {i \in 1..n : web[i].cb # "body" /\ Cardinality(Fields(i)) = h}
InPageOrder(u, v) == u[1] < v[1] \/ (u[1] = v[1] /\ u[2] < v[2])
MessageIsThePage ==
    parse = "stored" =>
        /\ Len(msg.headers) = Cardinality(Fields(done_cb))
        /\ \A h \in DOMAIN msg.headers :
              /\ ToSet(msg.headers[h]) = UnitsOf(PiecesOf(h, done_cb))
              /\ \A a, b \in DOMAIN msg.headers[h] : a < b => InPageOrder(msg.headers[h][a], msg.headers[h][b])
        /\ Len(msg.body) = Cardinality(UnitsOf(Bodies(done_cb)))
        /\ \A i \in Bodies(done_cb) : \A u \in 1..web[i].size :
              msg.body[Cardinality(UnitsOf(Bodies(i - 1))) + u] = IF u <= web[i].text THEN <<i, u>> ELSE <<0, 0>>

=============================================================================
