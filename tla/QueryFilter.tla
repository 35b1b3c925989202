---------------------------- MODULE QueryFilter ----------------------------
(***************************************************************************)
(* filter_query: lines "query<tab>count" are read, those counted twice or  *)
(* more are classified and written to one file or to the other.  fgets     *)
(* leaves the buffer alone at the end of the file, which feof tells only   *)
(* after such a call: after a last newline what is left of the last line   *)
(* goes through the loop once more.                                        *)
(*                                                                         *)
(* A line is the sequence of its fields, none empty; of a field it matters *)
(* what atoi makes of it.  Lines that do not fit the buffer are left out.  *)
(***************************************************************************)
EXTENDS Naturals, Sequences, FiniteSets, SequencesExt

CONSTANTS
    MaxFields, MaxQueries       \* bounds: fields of a line, lines

ASSUME FilterAssumption == {MaxFields, MaxQueries} \subseteq Nat \ {0}

Field   == {"few", "often"}     \* atoi gives less than 2, or not
LogLine == [fields: UNION {[1..n -> Field] : n \in 1..MaxFields}, long: BOOLEAN]

VARIABLES
    log, ends,      \* the input file; it ends with a newline
    row,            \* the lines read
    query,          \* line_buf: [of, fields, long], of the line it is from
    step,           \* "read", "split", "analyse", "write" or "closed"; "failed": no file
    is_mobile,
    verdicts,       \* <<line, fields, mobile>> of each call of the analysis
    need, bad       \* the same of each line of the output files

filterVars == <<log, ends, row, query, step, is_mobile, verdicts, need, bad>>
outVars == <<is_mobile, verdicts, need, bad>>

-----------------------------------------------------------------------------
\* feof: a last line without a newline meets the end as it is read
AtEnd == row = Len(log) + 1 \/ (row = Len(log) /\ ~ends /\ log # <<>>)

\* while(!feof(input_file)), and fgets
ReadQuery ==
    /\ step = "read" /\ ~AtEnd
    /\ row' = row + 1
    /\ query' = IF row < Len(log) THEN [of |-> row', fields |-> log[row'].fields, long |-> log[row'].long]
                ELSE query
    /\ step' = "split"
    /\ UNCHANGED <<log, ends, outVars>>

CloseFiles ==
    /\ step = "read" /\ AtEnd
    /\ step' = "closed"
    /\ UNCHANGED <<log, ends, row, query, outVars>>

\* the last tab becomes the query's end; what follows it is the count
Split ==
    /\ step = "split"
    /\ IF query.long \/ Len(query.fields) < 2 THEN step' = "read" /\ UNCHANGED query
       ELSE /\ query' = [query EXCEPT !.fields = Front(@)]
            /\ step' = IF Last(query.fields) = "often" THEN "analyse" ELSE "read"
    /\ UNCHANGED <<log, ends, row, outVars>>

\* the types the analysis finds: one of them is asked for, or none
Analyse ==
    /\ step = "analyse"
    /\ \E mobile \in BOOLEAN :
          /\ is_mobile' = (is_mobile \/ mobile)
          /\ verdicts' = Append(verdicts, <<query.of, query.fields, mobile>>)
    /\ step' = "write"
    /\ UNCHANGED <<log, ends, row, query, need, bad>>

\* mutant: is_mobile keeps its value
WriteQueryStill ==
    /\ step = "write"
    /\ IF is_mobile THEN need' = Append(need, Last(verdicts)) /\ UNCHANGED bad
       ELSE bad' = Append(bad, Last(verdicts)) /\ UNCHANGED need
    /\ step' = "read"
    /\ UNCHANGED <<log, ends, row, query, verdicts, is_mobile>>

WriteQuery ==
    /\ step = "write"
    /\ IF is_mobile THEN need' = Append(need, Last(verdicts)) /\ UNCHANGED bad
       ELSE bad' = Append(bad, Last(verdicts)) /\ UNCHANGED need
    /\ is_mobile' = FALSE
    /\ step' = "read"
    /\ UNCHANGED <<log, ends, row, query, verdicts>>

FilterInit ==
    /\ log \in UNION {[1..n -> LogLine] : n \in 0..MaxQueries} /\ ends \in BOOLEAN
    /\ row = 0 /\ query = [of |-> 0, fields |-> <<>>, long |-> FALSE]
    /\ step \in {"read", "failed"}      \* the fopens
    /\ is_mobile = FALSE
    /\ verdicts = <<>> /\ need = <<>> /\ bad = <<>>
FilterNext == ReadQuery \/ CloseFiles \/ Split \/ Analyse \/ WriteQuery
FilterSpec == FilterInit /\ [][FilterNext]_filterVars

-----------------------------------------------------------------------------
\* counted twice or more
Frequent(l) == ~l.long /\ Len(l.fields) > 1 /\ Last(l.fields) = "often"
\* the last line, without what followed its last tab, has a count again
CutCounts ==
    /\ log # <<>> /\ ends
    /\ LET l == Last(log) IN ~l.long /\ Len(l.fields) > 2 /\ l.fields[Len(l.fields) - 1] = "often"
\* of the first k verdicts, those that ask for the mobile types, and the others
Mobile(k) == {j \in 1..k : verdicts[j][3]}
Others(k) == {j \in 1..k : ~verdicts[j][3]}
(* Each line that has a count of two or more is written once, to the file  *)
(* its own analysis chose, in the order of the input; only a last line     *)
(* whose query holds a tab and a count of its own is written again, cut.   *)
SortedOnce ==
    LET all     == Len(verdicts)
        own     == 1..(IF CutCounts THEN all - 1 ELSE all)
        from(k) == verdicts[k][1]
    IN step = "closed" =>
          /\ {from(k) : k \in own} = {i \in DOMAIN log : Frequent(log[i])}
          /\ \A k \in own : verdicts[k][2] = Front(log[from(k)].fields) /\ \A j \in own : j < k => from(j) < from(k)
          /\ CutCounts => all > 0 /\ from(all) = Len(log)
          /\ Len(need) = Cardinality(Mobile(all)) /\ Len(bad) = Cardinality(Others(all))
          /\ \A k \in 1..all : /\ verdicts[k][3] => need[Cardinality(Mobile(k))] = verdicts[k]
                               /\ ~verdicts[k][3] => bad[Cardinality(Others(k))] = verdicts[k]

=============================================================================
