---------------------------- MODULE RecordReader ----------------------------
(***************************************************************************)
(* The loop that four programs read JSON records with: the spider its      *)
(* dump, search_list_client its result lists, the extractor its pages, the *)
(* merge tool its queries.  A buffer is filled from the file; records are  *)
(* parsed from its front until one cannot be; the rest moves to the front. *)
(* The parser is not told how much of the buffer is valid: it reads on     *)
(* into what stood there before.                                           *)
(*                                                                         *)
(* All that matters of a unit of the file is its position: a record has   *)
(* units of its own, a newline follows it.  A unit of the buffer that was  *)
(* never written is Junk, which no record is parsed from.  read gives all  *)
(* that fits, as it does for a regular file.  What stands behind a torn    *)
(* record at the end of the file, its newline or not, is taken with it.    *)
(***************************************************************************)
EXTENDS Integers, Sequences, FiniteSets

CONSTANTS
    RecordBuf,      \* sizeof(buf)
    RecordSize,     \* the sizes a record may have
    MaxRecs         \* bound: records in the file

ASSUME RecordAssumption ==
    RecordBuf \in Nat \ {0, 1} /\ RecordSize \in SUBSET (Nat \ {0}) /\ MaxRecs \in Nat

Program == {"dump", "list", "pages", "merge"}
\* "odd" has no url (dump), host (list), info (pages) or results (merge);
\* "torn" is not JSON
JsonRec == [size: RecordSize, kind: {"good", "odd", "torn"}]
Junk == 0

VARIABLES
    program, recs,  \* the program, and the file's records
    got,            \* how many units of the file were read
    buf, len, p,    \* buffer, valid units, the place parsed from
    loop,           \* "read", "parse", "end" or "abort"
    handled         \* the records handled

readVars == <<program, recs, got, buf, len, p, loop, handled>>

\* the position of a record, behind all that is before it
Begin(r)   == 1 + Cardinality(UNION {{e} \X (0..recs[e].size) : e \in 1..(r - 1)})
End(r)     == Begin(r) + recs[r].size - 1
FileLen    == Begin(Len(recs) + 1) - 1
Newline(u) == \E r \in DOMAIN recs : u = End(r) + 1

-----------------------------------------------------------------------------
Room == RecordBuf - 1 - len

Refill ==
    /\ loop = "read" /\ Room > 0 /\ got < FileLen
    /\ LET n == IF FileLen - got < Room THEN FileLen - got ELSE Room
       IN /\ buf' = [i \in 1..RecordBuf |-> IF i \in (len + 1)..(len + n) THEN got + i - len ELSE buf[i]]
          /\ got' = got + n /\ len' = len + n
    /\ p' = 1 /\ loop' = "parse"
    /\ UNCHANGED <<program, recs, handled>>

\* read gives 0 at the end of the file, and when it is asked for nothing
EndOfFile ==
    /\ loop = "read" /\ (Room = 0 \/ got = FileLen)
    /\ loop' = "end"
    /\ UNCHANGED <<program, recs, got, buf, len, p, handled>>

\* the places a record can be parsed from: newlines are skipped
Starts(q)    == {s \in q..RecordBuf : ~Newline(buf[s]) /\ \A i \in q..(s - 1) : Newline(buf[i])}
Parses(s, r) == /\ recs[r].kind # "torn" /\ s + recs[r].size - 1 <= RecordBuf
                /\ \A i \in 0..(recs[r].size - 1) : buf[s + i] = Begin(r) + i
Taken(s, r)  == Parses(s, r) /\ (recs[r].kind = "odd" => program = "merge")

\* mutant: the place is not advanced past the record
HandleStays ==
    /\ loop = "parse" /\ len > 0
    /\ \E s \in Starts(p), r \in DOMAIN recs :
          /\ Taken(s, r)
          /\ handled' = IF recs[r].kind = "odd" THEN handled ELSE Append(handled, r)
          /\ len' = len - (s + recs[r].size - p)
    /\ UNCHANGED <<program, recs, got, buf, p, loop>>

Handle ==
    /\ loop = "parse" /\ len > 0
    /\ \E s \in Starts(p), r \in DOMAIN recs :
          /\ Taken(s, r)
          /\ handled' = IF recs[r].kind = "odd" THEN handled ELSE Append(handled, r)
          /\ len' = len - (s + recs[r].size - p)
          /\ p' = s + recs[r].size
    /\ UNCHANGED <<program, recs, got, buf, loop>>

\* a record torn at the end of the file, and old units of the buffer behind it
Torn       == Len(recs) > 0 /\ recs[Len(recs)].kind = "torn" /\ got = FileLen
Mixed(s)   == Torn /\ buf[s] = Begin(Len(recs)) /\ p + len <= RecordBuf /\ buf[p + len] # Junk

\* what they make may be a record, or one without its field
HandleMixed ==
    /\ loop = "parse" /\ len > 0 /\ \E s \in Starts(p) : Mixed(s)
    /\ \E e \in (p + len)..RecordBuf :
          /\ \A i \in (p + len)..e : buf[i] # Junk
          /\ p' = e + 1 /\ len' = len - (p' - p)
    /\ \/ handled' = Append(handled, Len(recs))
       \/ program = "merge" /\ UNCHANGED handled
    /\ UNCHANGED <<program, recs, got, buf, loop>>

\* assert(jurl) and the like
AssertField ==
    /\ loop = "parse" /\ len > 0 /\ program = "list"
    /\ \E s \in Starts(p) : Mixed(s) \/ \E r \in DOMAIN recs : Parses(s, r) /\ ~Taken(s, r)
    /\ loop' = "abort"
    /\ UNCHANGED <<program, recs, got, buf, len, p, handled>>

\* nothing to parse, or a record without its field: the rest is moved
MoveRest ==
    /\ loop = "parse"
    /\ len > 0 => \A s \in Starts(p), r \in DOMAIN recs : ~Taken(s, r) /\ (program = "list" => ~Parses(s, r))
    /\ buf' = [i \in 1..RecordBuf |-> IF i <= len THEN buf[p + i - 1] ELSE buf[i]]
    /\ loop' = "read"
    /\ UNCHANGED <<program, recs, got, len, p, handled>>

RecordInit ==
    /\ program \in Program
    /\ recs \in UNION {[1..n -> JsonRec] : n \in 0..MaxRecs}
    /\ got = 0 /\ buf = [i \in 1..RecordBuf |-> Junk] /\ len = 0 /\ p = 1
    /\ loop = "read" /\ handled = <<>>
RecordNext == Refill \/ EndOfFile \/ Handle \/ HandleMixed \/ AssertField \/ MoveRest
RecordSpec == RecordInit /\ [][RecordNext]_readVars

-----------------------------------------------------------------------------
(* The records that parse and fit the buffer are handled, each once and in *)
(* order, wherever the ends of the buffer fall; the first that does not    *)
(* keeps all that follow it from being read.  Only in a file longer than   *)
(* the buffer may one more be handled at its end: an earlier record again, *)
(* or what a torn last one makes with the old contents of the buffer.      *)
Blocks(r) == \/ recs[r].kind = "torn"
             \/ recs[r].kind = "odd" /\ program # "merge"
             \/ recs[r].size + (IF r = 1 THEN 0 ELSE 1) > RecordBuf - 1
Wanted == {r \in DOMAIN recs : recs[r].kind = "good" /\ \A e \in 1..r : ~Blocks(e)}
RecordsOnce ==
    LET again == IF FileLen > RecordBuf - 1 /\ got = FileLen THEN 1 ELSE 0
    IN /\ \A k \in DOMAIN handled : k <= Cardinality(Wanted) =>
             handled[k] \in Wanted /\ Cardinality({r \in Wanted : r <= handled[k]}) = k
       /\ Len(handled) <= Cardinality(Wanted) + again
       /\ loop = "end" => Cardinality(Wanted) <= Len(handled)

=============================================================================
