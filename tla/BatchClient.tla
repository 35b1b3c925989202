---------------------------- MODULE BatchClient ----------------------------
(***************************************************************************)
(* The clients that read a file and send each line to a spider or to a     *)
(* dispatcher: query_client and search_list_client over a list of servers, *)
(* query_client2 over one connection.  A call may fail before the server   *)
(* has taken the line or after it (the answer is lost), and a dispatcher   *)
(* that finds no spider answers that it has not, which need not be so.     *)
(*                                                                         *)
(* A line is "query" (sent until taken), "url" (sent once, its answer not  *)
(* looked at), or a result of a stored list: "first" or "more" of a record.*)
(* Of a query file, only the lines that end within the first sizeof(buf)   *)
(* bytes are sent: `left` still counts them when the buffer is filled      *)
(* again, so the next read has no room, or finds the end of the file.  How *)
(* the records of a list are read is RecordReader.                         *)
(***************************************************************************)
EXTENDS Naturals, Sequences, FiniteSets

CONSTANTS
    Servers,            \* how many servers FLAGS_CLIENT_server_addrs lists
    switch_num,         \* switch_client_num
    BufLines,           \* the lines that end within the buffer
    MaxBatch,           \* bound: lines of the file
    MaxFaults           \* bound: servers going down, and refusals

ASSUME BatchAssumption == Servers \in Nat \ {0} /\ {switch_num, BufLines, MaxBatch, MaxFaults} \subseteq Nat

Server == 1..Servers

VARIABLES
    sender, file,       \* the program, and the kinds of its lines
    line,               \* the line it is at
    doing,              \* "first", "call", "pick", "done", "noclient"
    current, tries,     \* client, and the rest of the loop in client()
    turn,               \* last_client_index_, from 1
    sent_num,           \* send_num of query_client
    status,             \* [server |-> status_ is TCS_OK]
    joined, alive,      \* [server |-> its connection works], [server |-> it runs]
    taken,              \* the lines the servers took, in that order
    unanswered,         \* [line |-> times it was taken without the sender being told]
    skipped,            \* lines left out because no client was found
    faults

batchVars == <<sender, file, line, doing, current, tries, turn, sent_num, status, joined, alive,
               taken, unanswered, skipped, faults>>
serverVars == <<alive, faults>>

LastLine == IF sender # "list" /\ BufLines < Len(file) THEN BufLines ELSE Len(file)
AtLine   == doing = "call" /\ line <= LastLine
Asking   == /\ doing' = "pick" /\ tries' = Servers

-----------------------------------------------------------------------------
(* What follows a call: ret is 0, -1 after an exception, or the answer     *)

\* mutant: a line that was not taken is not sent again, as in the dispatcher
NotAgain(ret) == FALSE
Again(ret) == ret # 0 /\ sender # "query2" /\ file[line] # "url"

AfterCall(ret) ==
    LET next == line + 1
    IN IF Again(ret) THEN Asking /\ UNCHANGED <<line, sent_num>>
       ELSE /\ line' = next
            /\ \/ /\ sender = "query" /\ file[line] = "query"
                  /\ sent_num' = sent_num + 1
                  /\ IF sent_num >= switch_num THEN Asking ELSE UNCHANGED <<doing, tries>>
               \/ /\ sender = "list" /\ UNCHANGED sent_num    \* a new record asks for a client
                  /\ IF next <= LastLine /\ file[next] = "first" THEN Asking ELSE UNCHANGED <<doing, tries>>
               \/ /\ sender # "list" /\ ~(sender = "query" /\ file[line] = "query")
                  /\ UNCHANGED <<doing, tries, sent_num>>

Take == taken' = Append(taken, line)

CallTaken ==
    /\ AtLine /\ joined[current]
    /\ Take /\ AfterCall(0)
    /\ UNCHANGED <<sender, file, current, turn, status, joined, unanswered, skipped, serverVars>>

\* a dispatcher that finds no spider; a spider whose answer it did not get may have the line
CallRefused ==
    /\ AtLine /\ joined[current] /\ faults < MaxFaults
    /\ AfterCall(1) /\ faults' = faults + 1
    /\ \/ UNCHANGED <<taken, unanswered>>
       \/ Take /\ unanswered' = [unanswered EXCEPT ![line] = @ + 1]
    /\ UNCHANGED <<sender, file, current, turn, status, joined, alive, skipped>>

\* TException before the server has it; query_client2 ends
CallFails ==
    /\ AtLine /\ ~joined[current]
    /\ status' = [status EXCEPT ![current] = FALSE]
    /\ IF sender = "query2" THEN doing' = "noclient" /\ UNCHANGED <<line, tries, sent_num>>
       ELSE AfterCall(2)
    /\ UNCHANGED <<sender, file, current, turn, joined, taken, unanswered, skipped, serverVars>>

\* TException after the server has taken it: it goes down before it answers
AnswerLost ==
    /\ AtLine /\ joined[current] /\ faults < MaxFaults
    /\ Take /\ unanswered' = [unanswered EXCEPT ![line] = @ + 1]
    /\ faults' = faults + 1
    /\ alive' = [alive EXCEPT ![current] = FALSE]
    /\ joined' = [joined EXCEPT ![current] = FALSE]
    /\ status' = [status EXCEPT ![current] = FALSE]
    /\ IF sender = "query2" THEN doing' = "noclient" /\ UNCHANGED <<line, tries, sent_num>>
       ELSE AfterCall(2)
    /\ UNCHANGED <<sender, file, current, turn, skipped>>

-----------------------------------------------------------------------------
(* client(): the servers in turn, a broken one connected again if its last *)
(* attempt was within conn_retry_interval_                                 *)
Pick ==
    /\ doing = "pick" /\ tries > 0
    /\ \E retry \in BOOLEAN :
          LET back == ~status[turn] /\ retry /\ alive[turn]
          IN /\ status' = [status EXCEPT ![turn] = @ \/ back]
             /\ joined' = [joined EXCEPT ![turn] = @ \/ back]
             /\ IF status'[turn]
                THEN doing' = "call" /\ current' = turn /\ sent_num' = 0 /\ tries' = 0
                ELSE tries' = tries - 1 /\ UNCHANGED <<doing, current, sent_num>>
    /\ turn' = (turn % Servers) + 1
    /\ UNCHANGED <<sender, file, line, taken, unanswered, skipped, serverVars>>

\* the query client gives up, the list client goes on with the next record
PickNone ==
    /\ doing = "pick" /\ tries = 0
    /\ LET records == {l \in (line + 1)..LastLine : file[l] = "first"}
           next == IF records = {} THEN LastLine + 1 ELSE CHOOSE l \in records : \A m \in records : l <= m
       IN IF sender = "list"
          THEN /\ skipped' = skipped \cup line..(next - 1) /\ line' = next
               /\ IF records = {} THEN doing' = "call" /\ tries' = tries ELSE Asking
          ELSE doing' = "noclient" /\ UNCHANGED <<line, tries, skipped>>
    /\ UNCHANGED <<sender, file, current, turn, sent_num, status, joined, taken, unanswered, serverVars>>

BatchEnds ==
    /\ doing = "call" /\ line > LastLine
    /\ doing' = "done"
    /\ UNCHANGED <<sender, file, line, current, tries, turn, sent_num, status, joined, taken, unanswered, skipped, serverVars>>

ServerDown(s) ==
    /\ alive[s] /\ faults < MaxFaults
    /\ faults' = faults + 1
    /\ alive' = [alive EXCEPT ![s] = FALSE] /\ joined' = [joined EXCEPT ![s] = FALSE]
    /\ UNCHANGED <<sender, file, line, doing, current, tries, turn, sent_num, status, taken, unanswered, skipped>>

ServerUp(s) ==
    /\ ~alive[s]
    /\ alive' = [alive EXCEPT ![s] = TRUE]
    /\ UNCHANGED <<sender, file, line, doing, current, tries, turn, sent_num, status, joined, taken, unanswered, skipped, faults>>

-----------------------------------------------------------------------------
Kinds == [query |-> {"query", "url"}, query2 |-> {"query", "url"}, list |-> {"first", "more"}]
BatchInit ==
    /\ sender \in DOMAIN Kinds
    /\ file \in UNION {[1..n -> Kinds[sender]] : n \in 0..MaxBatch}
    /\ sender = "list" /\ file # <<>> => file[1] = "first"
    /\ alive \in IF sender = "query2" THEN {[s \in Server |-> s = 1]} ELSE [Server -> BOOLEAN]
    /\ sender = "list" => \E s \in Server : alive[s]        \* alive > 0
    /\ status = alive /\ joined = alive
    /\ line = 1 /\ current = 1 /\ turn = 1 /\ sent_num = 0
    /\ doing = IF sender = "query2" \/ (sender = "list" /\ file = <<>>) THEN "call" ELSE "pick"
    /\ tries = IF doing = "pick" THEN Servers ELSE 0
    /\ taken = <<>> /\ unanswered = [l \in 1..MaxBatch |-> 0] /\ skipped = {} /\ faults = 0

BatchNext ==
    \/ CallTaken \/ CallRefused \/ CallFails \/ AnswerLost
    \/ Pick \/ PickNone \/ BatchEnds
    \/ \E s \in Server : ServerDown(s) \/ ServerUp(s)

BatchSpec == BatchInit /\ [][BatchNext]_batchVars

-----------------------------------------------------------------------------
(* The servers take the lines in the order of the file.  A line other than *)
(* a url is passed only once it was taken, or no client was left to send   *)
(* it with; and it is taken at most once more than its answers were lost   *)
(* or wrong.  query_client2, which does not look at answers, promises the  *)
(* latter.                                                                 *)
Times(l) == Cardinality({i \in DOMAIN taken : taken[i] = l})
BatchDelivers ==
    /\ \A i, j \in DOMAIN taken : i < j => taken[i] <= taken[j]
    /\ \A l \in 1..(line - 1) :
          file[l] # "url" /\ sender # "query2" /\ l \notin skipped => Times(l) >= 1
    /\ \A l \in DOMAIN file : Times(l) <= 1 + unanswered[l]

=============================================================================
