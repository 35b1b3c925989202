---------------------------- MODULE SearchMerge ----------------------------
(***************************************************************************)
(* The merge tool: the results of a page found by one search engine get    *)
(* their similarity to the query, and so do those another engine is asked  *)
(* for over HTTP; each list gets an order, as positions from 0.            *)
(*                                                                         *)
(* The first list is changed where it is, the second is built anew from    *)
(* the results that have a title.  Similarities of one list differ: the    *)
(* comparison is >=, and std::sort leaves open what equal ones do.         *)
(***************************************************************************)
EXTENDS Naturals, Sequences, FiniteSets

CONSTANT MaxResults             \* bound: results of a list

ASSUME MergeAssumption == MaxResults \in Nat

VARIABLES
    engine,         \* whose results are looked at: "baidu" or "mso"
    items,          \* [engine |-> results]: [title, url, sim], NoSim if it fails
    at_item,        \* the loop over them
    rated,          \* v: <<index, sim>>
    kept,           \* [engine |-> positions of the results in the JSON array]
    order_,         \* [engine |-> baidu_sort, mso_sort; <<>> if there is none]
    merged          \* "rating", "asking", "written" or "dropped"

mergeVars == <<engine, items, at_item, rated, kept, order_, merged>>

Engine == {"baidu", "mso"}
NoSim  == 0
\* url: it begins with http://, or is empty
OneResult  == [title: BOOLEAN, url: BOOLEAN, sim: 0..MaxResults]
Lists  == {l \in UNION {[1..n -> OneResult] : n \in 0..MaxResults} :
              \A i, j \in DOMAIN l : i # j => l[i].sim # l[j].sim \/ l[i].sim = NoSim}

-----------------------------------------------------------------------------
\* a result without a title is passed over; baidu's must have an http URL
Skipped(it) == ~it.title \/ (engine = "baidu" /\ ~it.url)

\* mutant: the place in v instead of the place in the list
IndexInV(i) == Len(rated)
Index(i) == i - 1

RateItem ==
    /\ merged = "rating" /\ at_item <= Len(items[engine])
    /\ LET it == items[engine][at_item]
       IN /\ rated' = IF Skipped(it) \/ it.sim = NoSim THEN rated
                      ELSE Append(rated, <<Index(at_item), it.sim>>)
          /\ kept' = IF engine = "mso" /\ Skipped(it) THEN kept
                     ELSE [kept EXCEPT ![engine] = Append(@, at_item)]
    /\ at_item' = at_item + 1
    /\ UNCHANGED <<engine, items, order_, merged>>

Rated == merged = "rating" /\ at_item > Len(items[engine])
Before(a, b) == a[2] > b[2]
\* what std::sort may make of v, the indices alone
InRank(v) ==
    LET orders == {at \in [DOMAIN v -> DOMAIN v] : \A k, l \in DOMAIN v : k < l => Before(v[at[k]], v[at[l]])}
    IN {[k \in DOMAIN v |-> v[at[k]][1]] : at \in orders}

\* the first list is done; without a similarity the whole record is dropped
EndBaidu ==
    /\ Rated /\ engine = "baidu"
    /\ IF rated = <<>> THEN merged' = "dropped" /\ UNCHANGED order_
       ELSE merged' = "asking" /\ \E s \in InRank(rated) : order_' = [order_ EXCEPT !.baidu = s]
    /\ UNCHANGED <<engine, items, at_item, rated, kept>>

\* CHttpClient::Get, and the answer's JSON; a failure leaves the record as it is
AskEngine ==
    /\ merged = "asking"
    /\ \/ merged' = "written" /\ UNCHANGED <<engine, items, at_item, rated>>
       \/ /\ merged' = "rating" /\ engine' = "mso" /\ at_item' = 1 /\ rated' = <<>>
          /\ \E l \in Lists : /\ items' = [items EXCEPT !.mso = l]
                              /\ \A i \in DOMAIN l : l[i].url     \* not looked at
    /\ UNCHANGED <<kept, order_>>

EndMso ==
    /\ Rated /\ engine = "mso"
    /\ merged' = "written"
    /\ IF rated = <<>> THEN kept' = [kept EXCEPT !.mso = <<>>] /\ UNCHANGED order_
       ELSE (\E s \in InRank(rated) : order_' = [order_ EXCEPT !.mso = s]) /\ UNCHANGED kept
    /\ UNCHANGED <<engine, items, at_item, rated>>

MergeInit ==
    /\ engine = "baidu" /\ \E l \in Lists : items = [baidu |-> l, mso |-> <<>>]
    /\ at_item = 1 /\ rated = <<>>
    /\ kept = [e \in Engine |-> <<>>] /\ order_ = [e \in Engine |-> <<>>]
    /\ merged = "rating"
MergeNext == RateItem \/ EndBaidu \/ AskEngine \/ EndMso
MergeSpec == MergeInit /\ [][MergeNext]_mergeVars

-----------------------------------------------------------------------------
(* Read as positions in the list beside it, the order that is written      *)
(* names the results that have a similarity, best first: always for the    *)
(* first list, for the second as long as no result before them lacks a     *)
(* title, because that list is written without those and counted with them.*)
OrderNamesResults ==
    merged = "written" => \A e \in Engine :
        LET whole(p) == e = "baidu" \/ \A i \in 1..p : items[e][i].title
            named(k) == items[e][kept[e][order_[e][k] + 1]]
            best     == {i \in DOMAIN items[e] : /\ items[e][i].title /\ items[e][i].sim # NoSim
                                                 /\ e = "baidu" => items[e][i].url}
        IN order_[e] # <<>> /\ (\A k \in DOMAIN order_[e] : whole(order_[e][k] + 1)) =>
              /\ Len(order_[e]) = Cardinality(best)
              /\ \A k \in DOMAIN order_[e] : named(k).sim # NoSim
              /\ \A k, l \in DOMAIN order_[e] : k < l => named(k).sim > named(l).sim

=============================================================================
