------------------------------ MODULE DatTrie ------------------------------
(***************************************************************************)
(* The double-array trie of datrie.c as datrie_tool builds it: the keys of *)
(* a sorted text file, added level by level, each node placed behind all   *)
(* nodes there are, then looked up.                                        *)
(*                                                                         *)
(* grow() clears the array from `nodes` on, and not from `total`: the last *)
(* cells of a grown array hold what realloc left there.  When the build    *)
(* has looked at such a cell, anything may follow ("unset").               *)
(***************************************************************************)
EXTENDS Integers, Sequences, FiniteSets

CONSTANTS
    SCALE_NODES,    \* DAT_SCALE_NODES, the largest character
    BLOCK_NODES,    \* DAT_BLOCK_NODES
    KSIZE_MAX,      \* bound: length of a key
    MaxKeys         \* bound: lines of the file

ROOT == 1                   \* DAT_BASE_ROOT

ASSUME TrieAssumption ==
    /\ {SCALE_NODES, BLOCK_NODES, KSIZE_MAX, MaxKeys} \subseteq Nat \ {0}
    /\ SCALE_NODES + ROOT + 1 < BLOCK_NODES

Char  == 1..SCALE_NODES
Key   == UNION {[1..n -> Char] : n \in 1..KSIZE_MAX}
NULL  == -1
UNSET == -2
Clear == [base |-> 0, check |-> 0, value |-> 0]

VARIABLES
    dt,             \* the keys, in the order of the file; the i-th has value i
    da, nodes,      \* the array, from cell 0, and the cells in use
    wild,           \* the cells grow() did not clear
    off, at_,       \* the loops of dat_build: level, and the last key done
    build           \* "file", "nodes", "built", "abort" or "unset"

trieVars == <<dt, da, nodes, wild, off, at_, build>>

Begins(s, k) == Len(s) <= Len(k) /\ \A m \in DOMAIN s : s[m] = k[m]
\* strcmp of the two keys is not positive
UpTo(a, b) == Begins(a, b) \/ \E n \in 1..Len(a) :
                 n <= Len(b) /\ a[n] < b[n] /\ \A m \in 1..(n - 1) : a[m] = b[m]

-----------------------------------------------------------------------------
\* dat_get_internal: the cell of the first ksize characters of k
Child(cell, ch) ==
    IF cell < 0 \/ da[cell].base + ch >= nodes THEN NULL
    ELSE LET c == da[cell].base + ch
         IN IF c \in wild THEN UNSET ELSE IF da[c].check = cell THEN c ELSE NULL
Walk(k, ksize) ==
    LET cell[m \in 0..ksize] == IF m = 0 THEN ROOT ELSE Child(cell[m - 1], k[m])
    IN cell[ksize]

Grown(n) == ((n + SCALE_NODES) \div BLOCK_NODES + 1) * BLOCK_NODES

\* the array a, of which n cells are in use, and the cells left unset in it
Grow(a, n, unset) ==
    LET size == Cardinality(DOMAIN a)
    IN IF n + SCALE_NODES < size THEN [cells |-> a, wild |-> unset]
       ELSE [cells |-> [c \in 0..(Grown(n) - 1) |-> IF c < n THEN a[c] ELSE Clear],
             wild  |-> {c \in unset : c < n} \cup (n + Grown(n) - size)..(Grown(n) - 1)]

\* mutant: the base is one too low
BaseLow(ch) == IF nodes <= ch THEN ROOT + 1 ELSE nodes - ch - 1
Base(ch) == IF nodes <= ch THEN ROOT + 1 ELSE nodes - ch

Keys(level) == {i \in DOMAIN dt : Len(dt[i]) > level}

\* dat_add_internal for the next key that reaches this level
AddInternal(i) ==
    LET ch     == dt[i][off + 1]
        parent == Walk(dt[i], off)
        base   == IF da[parent].base = 0 THEN Base(ch) ELSE da[parent].base
        cur    == base + ch
        node   == [base |-> 0, check |-> parent, value |-> IF Len(dt[i]) = off + 1 THEN i ELSE 0]
        grown  == Grow([da EXCEPT ![parent].base = base, ![cur] = node], cur + 1, wild)
        sound  == parent >= 0 /\ cur \in DOMAIN da
        new    == /\ da[cur].check = 0 /\ nodes <= cur
                  /\ Cardinality(DOMAIN da) >= base + SCALE_NODES
    IN /\ build' = IF sound /\ cur \in wild THEN "unset"
                   ELSE IF sound /\ (new \/ da[cur].check = parent) THEN "nodes" ELSE "abort"
       /\ IF build' = "nodes" /\ new
          THEN nodes' = cur + 1 /\ da' = grown.cells /\ wild' = grown.wild
          ELSE UNCHANGED <<da, nodes, wild>>

\* dat_build
BuildKey ==
    /\ build = "nodes"
    /\ \E i \in Keys(off) :
          /\ i > at_ /\ \A j \in Keys(off) : j > at_ => i <= j
          /\ AddInternal(i) /\ at_' = i
    /\ UNCHANGED <<dt, off>>

NextLevel ==
    /\ build = "nodes" /\ \A i \in Keys(off) : i <= at_
    /\ IF Keys(off) = {} \/ off + 1 = KSIZE_MAX
       THEN build' = "built" /\ UNCHANGED <<off, at_>>
       ELSE off' = off + 1 /\ at_' = 0 /\ UNCHANGED build
    /\ UNCHANGED <<dt, da, nodes, wild>>

\* dat_add for a line of the sorted file
ReadKey(k) ==
    /\ build = "file" /\ Len(dt) < MaxKeys
    /\ dt # <<>> => UpTo(dt[Len(dt)], k)
    /\ dt' = Append(dt, k)
    /\ UNCHANGED <<da, nodes, wild, off, at_, build>>

\* dat_dump, which refuses to dump nothing, and the first grow()
Start ==
    /\ build = "file" /\ dt # <<>>
    /\ build' = "nodes"
    /\ da' = [c \in 0..(Grown(0) - 1) |-> Clear]
    /\ UNCHANGED <<dt, nodes, wild, off, at_>>

TrieInit ==
    /\ dt = <<>> /\ da = <<>> /\ nodes = 0 /\ wild = {}
    /\ off = 0 /\ at_ = 0 /\ build = "file"
TrieNext == (\E k \in Key : ReadKey(k)) \/ Start \/ BuildKey \/ NextLevel
TrieSpec == TrieInit /\ [][TrieNext]_trieVars

-----------------------------------------------------------------------------
(* The build of sorted keys meets no assertion, and afterwards dat_get     *)
(* gives each key the first value it has in the file, a key that others    *)
(* begin with 0, and finds no other, but for what it may read in cells     *)
(* that were never set.                                                    *)
TrieFinds ==
    /\ build # "abort"
    /\ build = "built" =>
          \A k \in Key :
              IF \E i \in DOMAIN dt : Begins(k, dt[i])
              THEN LET same == {i \in DOMAIN dt : dt[i] = k}
                   IN /\ Walk(k, Len(k)) >= 0
                      /\ da[Walk(k, Len(k))].value =
                            IF same = {} THEN 0 ELSE CHOOSE i \in same : \A j \in same : i <= j
              ELSE Walk(k, Len(k)) < 0

=============================================================================
