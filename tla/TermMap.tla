------------------------------ MODULE TermMap ------------------------------
(***************************************************************************)
(* ctool_hashmap: the map from term to vector of the similarity tool.  An  *)
(* item is cut from the last memory block, or from a new one; its caller   *)
(* fills it in and adds it to the chain of its key.  A key may be added    *)
(* again: get finds the first and, asked from an item on, the next.        *)
(* Addresses are <<block, offset>>; lengths are in bytes, and a value      *)
(* takes whole words.                                                      *)
(***************************************************************************)
EXTENDS Naturals, Sequences

CONSTANTS
    item_asize,     \* chains
    mblk_asize,     \* blocks there may be
    byte_asize,     \* bytes of a block
    Word,           \* bytes of a word
    Header,         \* bytes of ctool_hashmap_item_t
    Term, ValueLen  \* the keys; the lengths of values

ASSUME TermAssumption ==
    /\ {item_asize, mblk_asize, byte_asize, Word, Header} \subseteq Nat \ {0}
    /\ Term \subseteq Nat /\ ValueLen \subseteq Nat

VARIABLES
    item_array,         \* [chain |-> items in the order of next]
    mblk_count, byte_count,
    pending,            \* the item buf has returned and add has not had, or NoItem
    given,              \* all items buf returned: [at, len], len what its caller may use
    added               \* <<key, at>> of each add, in order

termVars == <<item_array, mblk_count, byte_count, pending, given, added>>

NoItem == <<0, 0>>
FullWords(value_len) == (value_len \div Word) * Word
\* mutant: only the words that are full
ItemLenFull(value_len) == FullWords(value_len) + Header
ItemLen(value_len) ==
    (IF FullWords(value_len) < value_len THEN FullWords(value_len) + Word ELSE FullWords(value_len)) + Header
NewBlock(len) == byte_count + len > byte_asize
Refused(len) == len > byte_asize \/ (NewBlock(len) /\ mblk_count >= mblk_asize)

-----------------------------------------------------------------------------
\* ctool_hashmap_buf; NULL, and the caller goes on, if there is no room
Buf(value_len) ==
    LET len == ItemLen(value_len)
        start == IF NewBlock(len) THEN 0 ELSE byte_count
        block == IF NewBlock(len) THEN mblk_count + 1 ELSE mblk_count
    IN /\ pending = NoItem /\ ~Refused(len)
       /\ mblk_count' = block /\ byte_count' = start + len
       /\ pending' = <<block, start>>
       /\ given' = Append(given, [at |-> <<block, start>>, len |-> value_len + Header])
       /\ UNCHANGED <<item_array, added>>

\* mutant: at the head of the chain
ChainFirst(chain, item) == <<item>> \o chain
ChainLast(chain, item) == Append(chain, item)

\* ctool_hashmap_add
AddTerm(key) ==
    /\ pending # NoItem
    /\ item_array' = [item_array EXCEPT ![key % item_asize] =
                         ChainLast(@, [key |-> key, at |-> pending])]
    /\ added' = Append(added, <<key, pending>>)
    /\ pending' = NoItem
    /\ UNCHANGED <<mblk_count, byte_count, given>>

TermInit ==
    /\ item_array = [i \in 0..(item_asize - 1) |-> <<>>]
    /\ mblk_count = 0 /\ byte_count = byte_asize
    /\ pending = NoItem /\ given = <<>> /\ added = <<>>
TermNext == (\E v \in ValueLen : Buf(v)) \/ (\E t \in Term : AddTerm(t))
TermSpec == TermInit /\ [][TermNext]_termVars

-----------------------------------------------------------------------------
\* ctool_hashmap_get(hmap, key, from): the items after from, or all of them
TermGet(key, from) ==
    LET chain == item_array[key % item_asize]
        first == IF from = NoItem THEN 1 ELSE 1 + CHOOSE i \in DOMAIN chain : chain[i].at = from
        found == {i \in first..Len(chain) : chain[i].key = key}
    IN IF found = {} THEN NoItem ELSE chain[CHOOSE i \in found : \A j \in found : i <= j].at

(* Items lie in their blocks and apart from each other, whatever lengths   *)
(* were asked for.                                                         *)
ItemsApart ==
    \A i, j \in DOMAIN given :
        LET a == given[i] b == given[j]
        IN /\ a.at[2] + a.len <= byte_asize /\ a.at[1] \in 1..mblk_asize
           /\ i < j /\ a.at[1] = b.at[1] => a.at[2] + a.len <= b.at[2]

(* get, repeated from what it returned, gives every value of a key once,   *)
(* in the order of the additions, and then none.                           *)
GetsInOrder ==
    \A t \in Term :
        LET mine == {i \in DOMAIN added : added[i][1] = t}
            following(i) ==
                LET after == {j \in mine : j > i}
                IN IF after = {} THEN NoItem ELSE added[CHOOSE j \in after : \A k \in after : j <= k][2]
        IN /\ TermGet(t, NoItem) = following(0)
           /\ \A i \in mine : TermGet(t, added[i][2]) = following(i)

=============================================================================
