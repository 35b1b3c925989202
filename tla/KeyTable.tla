------------------------------ MODULE KeyTable ------------------------------
(***************************************************************************)
(* HashTable.cpp: keys and values in one uthash table, which all HashTable *)
(* objects of a process share.  Add does not look for the key: a second    *)
(* item of the same key stands beside the first, Get and Del meet one of   *)
(* them.  Which one is a matter of the buckets: an item is put at the head *)
(* of its bucket, and when the buckets are doubled each is turned over.    *)
(*                                                                         *)
(* Dump writes the items in the order of their addition, Load adds them,   *)
(* here to an empty table.                                                 *)
(***************************************************************************)
EXTENDS Naturals, Sequences, FiniteSets, SequencesExt, FiniteSetsExt

CONSTANTS
    Name,           \* keys
    HashOf,         \* [Name -> Nat], the hash of each
    INITIAL_NUM,    \* HASH_INITIAL_NUM_BUCKETS
    BKT_CAPACITY,   \* HASH_BKT_CAPACITY_THRESH
    MaxItems        \* bound: items of the table, and values added

ASSUME TableAssumption ==
    /\ HashOf \in [Name -> Nat]
    /\ {INITIAL_NUM, BKT_CAPACITY, MaxItems} \subseteq Nat \ {0}

VARIABLES
    table,          \* [items, buckets, mult, ineff]: see EmptyTable
    value,          \* the latest value added; each Add has its own
    deleted,        \* an item was deleted since the table was empty
    stored          \* the file of Dump: [items, deleted, answers], none is NoFile

tableVars == <<table, value, deleted, stored>>

\* the items in application order; for each bucket its items from the head,
\* and its expand_mult; ineff_expands, with more than one no more doubling
EmptyTable == [items |-> <<>>, buckets |-> [b \in 0..(INITIAL_NUM - 1) |-> <<>>],
               mult |-> [b \in 0..(INITIAL_NUM - 1) |-> 0], ineff |-> 0]
NumOf(t)   == Cardinality(DOMAIN t.buckets)
NoFile     == [items |-> <<>>, deleted |-> FALSE, answers |-> <<>>]

-----------------------------------------------------------------------------
\* HASH_FIND
Find(t, name) ==
    LET bucket == t.buckets[HashOf[name] % NumOf(t)]
        found  == {i \in DOMAIN bucket : bucket[i].name = name}
    IN IF found = {} THEN 0 ELSE bucket[Min(found)].value

\* HASH_EXPAND_BUCKETS
Doubled(t) ==
    [b \in 0..(2 * NumOf(t) - 1) |->
        SelectSeq(Reverse(t.buckets[b % NumOf(t)]), LAMBDA it : HashOf[it.name] % (2 * NumOf(t)) = b)]
Expand(t) ==
    LET n      == Len(t.items)
        ideal  == (n + 2 * NumOf(t) - 1) \div (2 * NumOf(t))
        all    == Doubled(t)
        over   == {b \in DOMAIN all : Len(all[b]) > ideal}
        excess == MapThenSumSet(LAMBDA b : Len(all[b]) - ideal, over)
    IN [t EXCEPT !.buckets = all,
                 !.mult = [b \in DOMAIN all |-> IF b \in over THEN Len(all[b]) \div ideal ELSE 0],
                 !.ineff = IF excess > n \div 2 THEN @ + 1 ELSE 0]

\* HASH_ADD_KEYPTR and HASH_ADD_TO_BKT
AddItem(t, item) ==
    LET b     == HashOf[item.name] % NumOf(t)
        more  == [t EXCEPT !.items = Append(@, item)]
        heads == [t.buckets EXCEPT ![b] = <<item>> \o @]
        u     == [more EXCEPT !.buckets = heads]
    IN IF Len(u.buckets[b]) >= (u.mult[b] + 1) * BKT_CAPACITY /\ u.ineff <= 1
       THEN Expand(u) ELSE u

\* HASH_DELETE; the last item takes the table with it
Without(t, v) ==
    LET at(s)   == {i \in DOMAIN s : s[i].value = v}
        left(s) == IF at(s) = {} THEN s ELSE RemoveAt(s, Min(at(s)))
    IN IF Len(t.items) = 1 THEN EmptyTable
       ELSE [items |-> left(t.items), buckets |-> [b \in DOMAIN t.buckets |-> left(t.buckets[b])],
             mult |-> t.mult, ineff |-> t.ineff]

-----------------------------------------------------------------------------
TableAdd(name) ==
    /\ value < MaxItems
    /\ value' = value + 1
    /\ table' = AddItem(table, [name |-> name, value |-> value'])
    /\ UNCHANGED <<deleted, stored>>

TableDel(name) ==
    /\ Find(table, name) # 0
    /\ table' = Without(table, Find(table, name))
    /\ deleted' = (table' # EmptyTable)
    /\ UNCHANGED <<value, stored>>

TableDestroy ==
    /\ table.items # <<>>
    /\ table' = EmptyTable /\ deleted' = FALSE
    /\ UNCHANGED <<value, stored>>

\* mutant: the file is written bucket by bucket
InBuckets(t) == FlattenSeq([i \in 1..NumOf(t) |-> t.buckets[i - 1]])
InOrderOf(t) == t.items
TableDump ==
    /\ stored' = [items |-> InOrderOf(table), deleted |-> deleted,
                  answers |-> [n \in Name |-> Find(table, n)]]
    /\ UNCHANGED <<table, value, deleted>>

\* the table once some of the items were added, one after the other
TableOf(items) ==
    LET after[i \in 0..Len(items)] == IF i = 0 THEN EmptyTable ELSE AddItem(after[i - 1], items[i])
    IN after[Len(items)]

\* in a new process, or after Destroy
TableLoad ==
    /\ stored # NoFile
    /\ table' = TableOf(stored.items)
    /\ deleted' = FALSE
    /\ UNCHANGED <<value, stored>>

TableInit == table = EmptyTable /\ value = 0 /\ deleted = FALSE /\ stored = NoFile
TableNext ==
    \/ \E n \in Name : TableAdd(n) \/ TableDel(n)
    \/ TableDestroy \/ TableDump \/ TableLoad
TableSpec == TableInit /\ [][TableNext]_tableVars

-----------------------------------------------------------------------------
(* A new process that loads the file gives every key the value it had when *)
(* the file was written, also a key added more than once, as long as       *)
(* nothing was deleted before: the same additions double the same buckets. *)
LoadAnswersAlike ==
    [][TableLoad /\ ~stored.deleted =>
          \A n \in Name : Find(table', n) = stored.answers[n]]_tableVars

=============================================================================
