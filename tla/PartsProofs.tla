----------------------------- MODULE PartsProofs -----------------------------
(***************************************************************************)
(* Theorems about the parts that need no other part to be understood, each *)
(* for any value of its constants.                                         *)
(***************************************************************************)
EXTENDS HashRing, TermMap, ResListRace, SiteRate, PageExtract, BatchClient, QueryFilter, SearchMerge,
        FiniteSetTheorems, WellFoundedInduction, TLAPS

-----------------------------------------------------------------------------
(* HashRing: who owns a datum on the ring, for every hash function and any *)
(* number of servers, replicas and hashes.                                 *)
(*                                                                         *)
(* While no two points have met, the points of the ring are exactly those  *)
(* of the members (OwnPoints).  What remains is a fact about points alone: *)
(* a point more or less changes the owner of a datum only if it is the     *)
(* first one after the datum (SameNext).                                   *)

RingTypes ==
    /\ hash_ \in [Cache \X (0..(MaxReplicas - 1)) -> Hash]
    /\ DOMAIN ring_ \subseteq Hash /\ ring_ \in [DOMAIN ring_ -> Cache]
    /\ ring_weight_ \in [Cache -> 0..MaxReplicas]
    /\ members \subseteq Cache

OwnPoints ==
    /\ \A h \in DOMAIN ring_ : ring_[h] \in members
    /\ \A n \in members : ring_weight_[n] # 0 /\ \A h : h \in Erased(n) <=> h \in DOMAIN ring_ /\ ring_[h] = n

RingInv == RingTypes /\ (orderly => OwnPoints)

\* the points a lookup of d chooses from, and the one it finds
From(R, d) == LET after == {h \in R : h >= d} IN IF after = {} THEN R ELSE after
NextPoint(R, d) == CHOOSE h \in From(R, d) : \A g \in From(R, d) : h <= g

-----------------------------------------------------------------------------
(* A finite set of numbers has a smallest one: of the sets of those up to  *)
(* one of them, a minimal one holds nothing below it.                      *)
LEMMA Smallest ==
  ASSUME NEW S \in SUBSET Nat, IsFiniteSet(S), S # {}
  PROVE  \E h \in S : \A g \in S : h <= g
<1> DEFINE UpTo(y) == {x \in S : x <= y}
           T == {UpTo(y) : y \in S}
<1>1. S \subseteq Nat /\ IsFiniteSet(S)
  OBVIOUS
<1>2. T \subseteq FiniteSubsetsOf(S) /\ T # {}
  <2>1. T \subseteq SUBSET S /\ T # {}
    OBVIOUS
  <2>2. FiniteSubsetsOf(S) = SUBSET S
    BY <1>1, FS_FiniteSubsetsOfFinite
  <2> HIDE DEF T
  <2> QED BY <2>1, <2>2
<1>3. IsWellFoundedOn(StrictSubsetOrdering(S), FiniteSubsetsOf(S))
  BY FS_StrictSubsetOrderingWellFounded
<1>4. PICK X \in T : \A Y \in T : <<Y, X>> \notin StrictSubsetOrdering(S)
  <2> HIDE DEF T
  <2> QED BY <1>2, <1>3, WFMin
<1>5. PICK h \in S : X = UpTo(h)
  OBVIOUS
<1>6. ASSUME NEW g \in S, g < h PROVE FALSE
  <2>1. UpTo(g) \subseteq UpTo(h) /\ h \in UpTo(h) /\ h \notin UpTo(g)
    <3>1. g \in Nat /\ h \in Nat /\ \A x \in S : x \in Nat
      BY <1>1
    <3>2. \A x \in S : x <= g => x <= h
      BY <3>1, <1>6
    <3>3. h <= h /\ ~ (h <= g)
      BY <3>1, <1>6
    <3> QED BY <3>2, <3>3, Zenon
  <2>2. <<UpTo(g), X>> \in StrictSubsetOrdering(S)
    BY <1>5, <2>1 DEF StrictSubsetOrdering
  <2> QED BY <2>2, <1>4
<1> QED BY <1>1, <1>6

LEMMA SmallestHash ==
  ASSUME NEW S \in SUBSET Hash, S # {}
  PROVE  \E h \in S : \A g \in S : h <= g
<1>1. Hash \subseteq Nat /\ HashSize - 1 \in Int
  BY HashRingAssumption DEF Hash
<1>2. IsFiniteSet(Hash)
  BY <1>1, FS_Interval DEF Hash
<1>3. IsFiniteSet(S) /\ S \in SUBSET Nat
  BY <1>1, <1>2, FS_Subset
<1> QED BY <1>3, Smallest

(* A lookup finds the first point from d on, or else the first of all.     *)
LEMMA NextPointIs ==
  ASSUME NEW R \in SUBSET Hash, R # {}, NEW d \in Hash
  PROVE  NextPoint(R, d) \in From(R, d) /\ \A g \in From(R, d) : NextPoint(R, d) <= g
<1>1. From(R, d) \in SUBSET Hash /\ From(R, d) # {}
  BY DEF From
<1>2. \E h \in From(R, d) : \A g \in From(R, d) : h <= g
  BY <1>1, SmallestHash
<1> QED BY <1>2 DEF NextPoint

(* If the point found on a ring is on a smaller ring too, it is found      *)
(* there.                                                                  *)
LEMMA SameNext ==
  ASSUME NEW R \in SUBSET Hash, NEW Q \in SUBSET Hash, R \subseteq Q, NEW d \in Hash,
         Q # {}, NextPoint(Q, d) \in R
  PROVE  NextPoint(R, d) = NextPoint(Q, d)
<1> DEFINE r == NextPoint(R, d)
           q == NextPoint(Q, d)
<1>1. r \in From(R, d) /\ (\A g \in From(R, d) : r <= g) /\ q \in From(Q, d) /\ \A g \in From(Q, d) : q <= g
  BY NextPointIs
<1>2. Hash \subseteq Nat
  BY DEF Hash
<1> HIDE DEF r, q
<1>3. q \in R
  BY DEF q
<1>4. CASE \E h \in Q : h >= d
  <2>1. From(Q, d) = {h \in Q : h >= d}
    BY <1>4 DEF From
  <2>2. From(R, d) = {h \in R : h >= d}
    BY <1>1, <1>3, <2>1 DEF From
  <2>3. r <= q /\ q <= r /\ r \in Nat /\ q \in Nat
    BY <1>1, <1>2, <1>3, <2>1, <2>2
  <2> QED BY <2>3 DEF r, q
<1>5. CASE ~ \E h \in Q : h >= d
  <2>1. From(Q, d) = Q /\ From(R, d) = R
    BY <1>5 DEF From
  <2>2. r <= q /\ q <= r /\ r \in Nat /\ q \in Nat
    BY <1>1, <1>2, <1>3, <2>1
  <2> QED BY <2>2 DEF r, q
<1> QED BY <1>4, <1>5

LEMMA Found == \A d : GetNode(d) = ring_[NextPoint(DOMAIN ring_, d)]
BY DEF GetNode, NextPoint, From

-----------------------------------------------------------------------------
LEMMA PointsAreHashes ==
  ASSUME RingTypes, NEW n \in Cache, NEW r \in 0..MaxReplicas
  PROVE  Points(n, r) \subseteq Hash
<1>1. \A i \in 0..(r - 1) : <<n, i>> \in Cache \X (0..(MaxReplicas - 1))
  BY HashRingAssumption
<1> QED BY <1>1 DEF Points, RingTypes

LEMMA SomePoint ==
  ASSUME NEW n \in Cache, NEW r \in 1..MaxReplicas
  PROVE  Points(n, r) # {}
<1>1. 0 \in 0..(r - 1)
  BY HashRingAssumption
<1> QED BY <1>1 DEF Points

LEMMA RingInitInv == RingInit => RingInv
<1> SUFFICES ASSUME RingInit PROVE RingInv
  OBVIOUS
<1>1. DOMAIN ring_ = {} /\ ring_ \in [{} -> Cache]
  <2>1. ring_ = <<>> /\ Len(ring_) = 0
    BY DEF RingInit
  <2> QED BY <2>1
<1>2. ring_weight_ \in [Cache -> 0..MaxReplicas]
  BY HashRingAssumption DEF RingInit
<1> QED BY <1>1, <1>2 DEF RingInit, RingInv, RingTypes, OwnPoints

LEMMA AddInv ==
  ASSUME RingInv, orderly, NEW n \in Cache, NEW r \in 1..MaxReplicas, AddNode(n, r)
  PROVE  RingInv'
<1>1. Points(n, r) \subseteq Hash
  BY PointsAreHashes, HashRingAssumption DEF RingInv
<1>2. /\ DOMAIN ring_' = DOMAIN ring_ \cup Points(n, r)
      /\ \A h \in DOMAIN ring_' : ring_'[h] = IF h \in Points(n, r) THEN n ELSE ring_[h]
      /\ ring_' \in [DOMAIN ring_' -> Cache]
  BY DEF AddNode, RingInv, RingTypes
<1>3. ring_weight_' = [ring_weight_ EXCEPT ![n] = r] /\ members' = members \cup {n} /\ hash_' = hash_
  BY DEF AddNode
<1>4. RingTypes'
  <2>1. ring_weight_' \in [Cache -> 0..MaxReplicas]
    BY <1>3, HashRingAssumption DEF RingInv, RingTypes
  <2> QED BY <1>1, <1>2, <1>3, <2>1 DEF RingInv, RingTypes
<1>5. ASSUME orderly' PROVE OwnPoints'
  <2>1. n \notin members /\ Points(n, r) \cap DOMAIN ring_ = {}
    BY <1>5 DEF AddNode
  <2>2. \A m \in members : Erased(m)' = Erased(m) /\ ring_weight_'[m] = ring_weight_[m]
    BY <1>3, <2>1 DEF Erased, Points, RingInv, RingTypes
  <2>3. Erased(n)' = Points(n, r) /\ ring_weight_'[n] # 0
    BY <1>3, HashRingAssumption DEF Erased, Points, RingInv, RingTypes
  <2>4. \A h \in DOMAIN ring_' : ring_'[h] \in members'
    BY <1>2, <1>3 DEF RingInv, OwnPoints
  <2>5. ASSUME NEW m \in members', NEW h
        PROVE  h \in Erased(m)' <=> h \in DOMAIN ring_' /\ ring_'[h] = m
    <3>1. CASE m = n
      BY <3>1, <1>2, <2>1, <2>3 DEF RingInv, OwnPoints
    <3>2. CASE m # n
      BY <3>2, <1>2, <1>3, <2>1, <2>2 DEF RingInv, OwnPoints
    <3> QED BY <3>1, <3>2
  <2> QED BY <1>3, <2>2, <2>3, <2>4, <2>5 DEF RingInv, OwnPoints
<1> QED BY <1>4, <1>5 DEF RingInv

LEMMA RemoveInv ==
  ASSUME RingInv, orderly, NEW n \in Cache, RemoveNode(n)
  PROVE  RingInv'
<1>1. /\ DOMAIN ring_' = DOMAIN ring_ \ Erased(n)
      /\ \A h \in DOMAIN ring_' : ring_'[h] = ring_[h]
      /\ ring_' \in [DOMAIN ring_' -> Cache]
  BY DEF RemoveNode, Restrict, RingInv, RingTypes
<1>2. members' = members \ {n} /\ ring_weight_' = ring_weight_ /\ hash_' = hash_
  BY DEF RemoveNode
<1>3. RingTypes'
  BY <1>1, <1>2 DEF RingInv, RingTypes
<1>4. \A m \in Cache : Erased(m)' = Erased(m)
  BY <1>2 DEF Erased, Points
<1>5. ASSUME orderly' PROVE OwnPoints'
  <2>1. n \notin members => Erased(n) \cap DOMAIN ring_ = {}
    BY <1>5 DEF RemoveNode
  <2>2. \A h \in DOMAIN ring_' : ring_'[h] \in members'
    BY <1>1, <1>2, <2>1 DEF RingInv, OwnPoints
  <2>3. ASSUME NEW m \in members', NEW h
        PROVE  h \in Erased(m)' <=> h \in DOMAIN ring_' /\ ring_'[h] = m
    <3>1. m \in members /\ m # n /\ Erased(m)' = Erased(m)
      BY <1>2, <1>4 DEF RingInv, RingTypes
    <3> QED BY <3>1, <1>1, <2>1 DEF RingInv, OwnPoints
  <2> QED BY <1>2, <2>2, <2>3 DEF RingInv, OwnPoints
<1> QED BY <1>3, <1>5 DEF RingInv

LEMMA RingStepInv == RingInv /\ [RingNext]_ringVars => RingInv'
<1> SUFFICES ASSUME RingInv, [RingNext]_ringVars PROVE RingInv'
  OBVIOUS
<1>1. CASE UNCHANGED ringVars
  <2>1. UNCHANGED <<hash_, ring_, ring_weight_, members, orderly>>
    BY <1>1 DEF ringVars
  <2>2. \A n : Erased(n)' = Erased(n)
    BY <2>1 DEF Erased, Points
  <2>3. OwnPoints => OwnPoints'
    BY <2>1, <2>2 DEF OwnPoints
  <2> QED BY <2>1, <2>3 DEF RingInv, RingTypes
<1>2. CASE RingNext
  BY <1>2, AddInv, RemoveInv DEF RingNext
<1> QED BY <1>1, <1>2

-----------------------------------------------------------------------------
LEMMA MembersOwn == RingInv /\ orderly => OwnersAreMembers
<1> SUFFICES ASSUME RingInv, orderly, NEW n \in members, NEW d \in Hash
             PROVE  DOMAIN ring_ # {} /\ GetNode(d) \in members
  BY DEF OwnersAreMembers
<1>1. n \in Cache /\ ring_weight_[n] \in 1..MaxReplicas /\ DOMAIN ring_ \in SUBSET Hash
  BY HashRingAssumption DEF RingInv, RingTypes, OwnPoints
<1>2. DOMAIN ring_ # {}
  BY <1>1, SomePoint DEF RingInv, OwnPoints, Erased
<1>3. NextPoint(DOMAIN ring_, d) \in DOMAIN ring_
  BY <1>1, <1>2, NextPointIs DEF From
<1> QED BY <1>2, <1>3, Found DEF RingInv, OwnPoints

LEMMA AddMoves ==
  ASSUME RingInv, orderly, NEW n \in Cache, NEW r \in 1..MaxReplicas, AddNode(n, r),
         orderly', NEW d \in Hash, GetNode(d) # GetNode(d)'
  PROVE  OnlyMoved(d)
<1>1. n \notin members /\ members' = members \cup {n} /\ Points(n, r) \cap DOMAIN ring_ = {}
  BY DEF AddNode
<1>2. /\ DOMAIN ring_' = DOMAIN ring_ \cup Points(n, r)
      /\ \A h \in DOMAIN ring_' : ring_'[h] = IF h \in Points(n, r) THEN n ELSE ring_[h]
  BY DEF AddNode
<1>3. DOMAIN ring_ \in SUBSET Hash /\ DOMAIN ring_' \in SUBSET Hash /\ DOMAIN ring_' # {}
  <2>1. RingInv'
    BY AddInv
  <2> QED BY <2>1, <1>2, SomePoint DEF RingInv, RingTypes
<1> DEFINE h == NextPoint(DOMAIN ring_', d)
<1>4. h \in DOMAIN ring_' /\ GetNode(d)' = ring_'[h] /\ GetNode(d) = ring_[NextPoint(DOMAIN ring_, d)]
  <2>1. h \in DOMAIN ring_'
    BY <1>3, NextPointIs DEF From
  <2>2. GetNode(d)' = ring_'[h]
    BY DEF GetNode, NextPoint, From
  <2> QED BY <2>1, <2>2, Found
<1>5. h \notin DOMAIN ring_
  BY <1>1, <1>2, <1>3, <1>4, SameNext
<1>6. GetNode(d)' = n
  BY <1>2, <1>4, <1>5
<1> QED BY <1>1, <1>6 DEF OnlyMoved

LEMMA RemoveMoves ==
  ASSUME RingInv, orderly, NEW n \in Cache, RemoveNode(n),
         orderly', members # {}, NEW d \in Hash, GetNode(d) # GetNode(d)'
  PROVE  OnlyMoved(d)
<1>1. members' = members \ {n} /\ (n \notin members => Erased(n) \cap DOMAIN ring_ = {})
  BY DEF RemoveNode
<1>2. /\ DOMAIN ring_' = DOMAIN ring_ \ Erased(n)
      /\ \A h \in DOMAIN ring_' : ring_'[h] = ring_[h]
  BY DEF RemoveNode, Restrict
<1>3. DOMAIN ring_ \in SUBSET Hash /\ DOMAIN ring_' \in SUBSET Hash /\ DOMAIN ring_ # {}
  <2>1. PICK m \in members : TRUE
    OBVIOUS
  <2>2. d \in Hash /\ OwnersAreMembers
    BY MembersOwn
  <2>3. DOMAIN ring_ # {}
    BY <2>2 DEF OwnersAreMembers
  <2> QED BY <2>3, <1>2 DEF RingInv, RingTypes
<1> DEFINE h == NextPoint(DOMAIN ring_, d)
<1>4. /\ h \in DOMAIN ring_ /\ GetNode(d) = ring_[h]
      /\ GetNode(d)' = ring_'[NextPoint(DOMAIN ring_', d)]
  <2>1. h \in DOMAIN ring_
    BY <1>3, NextPointIs DEF From
  <2>2. GetNode(d)' = ring_'[NextPoint(DOMAIN ring_', d)]
    BY DEF GetNode, NextPoint, From
  <2> QED BY <2>1, <2>2, Found
<1>5. h \notin DOMAIN ring_'
  BY <1>2, <1>3, <1>4, SameNext
<1>6. h \in Erased(n) /\ n \in members
  BY <1>1, <1>2, <1>4, <1>5
<1>7. GetNode(d) = n
  BY <1>4, <1>6 DEF RingInv, OwnPoints
<1> QED BY <1>1, <1>6, <1>7 DEF OnlyMoved

LEMMA RingStepMoves ==
  ASSUME RingInv, RingInv', RingNext, orderly'
  PROVE  /\ OwnersAreMembers'
         /\ members # {} /\ members' # {} =>
               \A d \in Hash : GetNode(d) # GetNode(d)' => OnlyMoved(d)
<1>1. OwnersAreMembers'
  BY MembersOwn, PTL
<1>2. orderly
  BY DEF RingNext
<1> QED BY <1>1, <1>2, AddMoves, RemoveMoves DEF RingNext

(* Whatever the hash function and however servers come and go, as long as  *)
(* no two points meet and none is added twice, a datum belongs to a member *)
(* and moves only when its server goes or to the server that came.         *)
THEOREM RingMovesLittle == RingSpec => DataFollowsMembers
<1>1. RingInv /\ RingInv' /\ [RingNext]_ringVars =>
        [orderly' => /\ OwnersAreMembers'
                     /\ members # {} /\ members' # {} =>
                           \A d \in Hash : GetNode(d) # GetNode(d)' => OnlyMoved(d)]_ringVars
  BY RingStepMoves
<1> QED BY <1>1, RingInitInv, RingStepInv, PTL DEF RingSpec, DataFollowsMembers

-----------------------------------------------------------------------------
(* TermMap, for any chains, blocks, keys and lengths.                      *)
(*                                                                         *)
(* ItemsApart is not inductive: that the next item lies behind the others  *)
(* of its block needs that byte_count is past all of them, and that it has *)
(* a block at all needs that the first one is always new.                  *)

Address == Nat \X Nat
Given == [at: Address, len: Nat]

TermTypes ==
    /\ mblk_count \in 0..mblk_asize /\ byte_count \in 0..byte_asize
    /\ given \in Seq(Given)

\* the items lie in the blocks there are, before what buf cuts off next
Behind ==
    \A i \in DOMAIN given :
        /\ given[i].at[1] \in 1..mblk_count
        /\ given[i].at[2] + given[i].len <= byte_asize
        /\ given[i].at[1] = mblk_count => given[i].at[2] + given[i].len <= byte_count

Apart ==
    \A i, j \in DOMAIN given :
        i < j /\ given[i].at[1] = given[j].at[1] =>
            given[i].at[2] + given[i].len <= given[j].at[2]

\* without a block the first one counts as full
NoBlockYet == mblk_count = 0 => byte_count = byte_asize

TermInv == TermTypes /\ Behind /\ Apart /\ NoBlockYet

-----------------------------------------------------------------------------
(* What Append does to a sequence, index by index.                         *)
LEMMA Appended ==
  ASSUME NEW S, NEW s \in Seq(S), NEW x \in S
  PROVE  /\ Append(s, x) \in Seq(S)
         /\ DOMAIN s = 1..Len(s) /\ Len(s) \in Nat
         /\ DOMAIN Append(s, x) = 1..(Len(s) + 1)
         /\ Append(s, x)[Len(s) + 1] = x
         /\ \A i \in DOMAIN s : Append(s, x)[i] = s[i] /\ s[i] \in S
  OBVIOUS

LEMMA TermInitInv == TermInit => TermInv
  BY TermAssumption DEF TermInit, TermInv, TermTypes, Behind, Apart, NoBlockYet

\* what buf cuts off has room for the item's head and the value
LEMMA ItemFits ==
  ASSUME NEW v \in ValueLen
  PROVE  /\ ItemLen(v) \in Nat /\ v + Header \in Nat
         /\ 1 <= v + Header /\ v + Header <= ItemLen(v)
<1>1. v \in Nat /\ Word \in Nat /\ Word > 0 /\ Header \in Nat /\ Header > 0
  BY TermAssumption
<1>2. PICK q \in Nat, j \in 0..(Word - 1) : v = q * Word + j /\ v \div Word = q
  <2> DEFINE q == v \div Word
             j == v % Word
  <2>1. q \in Nat /\ j \in 0..(Word - 1) /\ v = q * Word + j
    BY <1>1, SMTT(30)
  <2> QED BY <2>1
<1>3. q * Word \in Nat
  BY <1>1
<1> DEFINE w == q * Word
<1>4. FullWords(v) = w
  BY <1>2 DEF FullWords
<1>5. ItemLen(v) = (IF w < v THEN w + Word ELSE w) + Header
  BY <1>4 DEF ItemLen
<1>6. v = w + j /\ w \in Nat /\ j \in 0..(Word - 1)
  BY <1>2, <1>3
<1> HIDE DEF w
<1> QED BY ONLY <1>1, <1>5, <1>6

(* An item of its own: where buf puts it, and why that is behind the rest. *)
LEMMA BufInv ==
  ASSUME TermInv, NEW v \in ValueLen, Buf(v)
  PROVE  TermInv'
<1> USE TermAssumption
<1> DEFINE len   == ItemLen(v)
           start == IF NewBlock(len) THEN 0 ELSE byte_count
           block == IF NewBlock(len) THEN mblk_count + 1 ELSE mblk_count
           wanted == v + Header
           item  == [at |-> <<block, start>>, len |-> wanted]
<1>1. /\ ~Refused(len)
      /\ mblk_count' = block /\ byte_count' = start + len /\ given' = Append(given, item)
  BY DEF Buf
<1>2. len \in Nat /\ wanted \in Nat /\ 1 <= wanted /\ wanted <= len
  BY ItemFits
<1>3. /\ block \in 1..mblk_asize /\ start \in Nat /\ start + len <= byte_asize
      /\ block >= mblk_count
      /\ block = mblk_count => start = byte_count
  <2>1. mblk_count \in 0..mblk_asize /\ byte_count \in 0..byte_asize /\ (mblk_count = 0 => byte_count = byte_asize)
    BY DEF TermInv, TermTypes, NoBlockYet
  <2> HIDE DEF len
  <2>2. len <= byte_asize /\ (NewBlock(len) => mblk_count < mblk_asize)
    <3>1. ~(len > byte_asize) /\ (NewBlock(len) => ~(mblk_count >= mblk_asize))
      BY <1>1 DEF Refused
    <3> QED BY <1>2, <2>1, <3>1
  <2>3. CASE NewBlock(len)
    BY <1>2, <2>1, <2>2, <2>3
  <2>4. CASE ~NewBlock(len)
    BY <1>2, <2>1, <2>2, <2>4 DEF NewBlock
  <2> QED BY <2>3, <2>4
<1>4. item \in Given /\ item.at[1] = block /\ item.at[2] = start /\ item.len = wanted
  BY <1>2, <1>3 DEF Address, Given
<1> HIDE DEF len, wanted, start, block, item
<1>5. /\ given' \in Seq(Given)
      /\ DOMAIN given = 1..Len(given) /\ Len(given) \in Nat
      /\ DOMAIN given' = 1..(Len(given) + 1)
      /\ given'[Len(given) + 1] = item
      /\ \A i \in DOMAIN given : given'[i] = given[i] /\ given[i] \in Given
  <2>1. given \in Seq(Given)
    BY DEF TermInv, TermTypes
  <2> QED BY <1>1, <1>4, <2>1, Appended
<1>6. \A i \in DOMAIN given : given[i].at[1] \in Nat /\ given[i].at[2] \in Nat /\ given[i].len \in Nat
  BY <1>5 DEF Address, Given
<1>7. TermTypes' /\ NoBlockYet'
  <2>1. NoBlockYet'
    BY <1>1, <1>3, <1>5 DEF NoBlockYet
  <2>2. given' \in Seq(Given)
    BY <1>1, <1>5 DEF TermTypes, TermInv
  <2>3. mblk_count' \in 0..mblk_asize /\ byte_count' \in 0..byte_asize
    BY <1>1, <1>2, <1>3, <1>5 DEF TermTypes, TermInv
  <2> QED BY <2>1, <2>2, <2>3 DEF TermTypes
<1>8. Behind'
  <2> SUFFICES ASSUME NEW i \in 1..(Len(given) + 1)
               PROVE  /\ given'[i].at[1] \in 1..block
                      /\ given'[i].at[2] + given'[i].len <= byte_asize
                      /\ given'[i].at[1] = block => given'[i].at[2] + given'[i].len <= start + len
    BY <1>1, <1>5 DEF Behind
  <2>1. CASE i = Len(given) + 1
    <3>1. given'[i].at[1] = block /\ given'[i].at[2] = start /\ given'[i].len = wanted
      BY <2>1, <1>4, <1>5
    <3>2. byte_asize \in Nat /\ mblk_asize \in Nat
      OBVIOUS
    <3>4. block \in 1..block /\ start + wanted <= start + len
      BY ONLY <1>2, <1>3, <3>2
    <3>3. start + wanted <= byte_asize
      BY ONLY <1>2, <1>3, <3>2
    <3> QED BY <3>1, <3>3, <3>4
  <2>2. CASE i \in DOMAIN given
    <3>1. /\ given[i].at[1] \in 1..mblk_count
          /\ given[i].at[2] + given[i].len <= byte_asize
          /\ given[i].at[1] = mblk_count => given[i].at[2] + given[i].len <= byte_count
      BY <2>2 DEF TermInv, Behind
    <3>2. given'[i] = given[i] /\ mblk_count \in Nat /\ byte_count \in Nat
      BY <2>2, <1>5 DEF TermInv, TermTypes
    <3>3. given[i].at[1] = block => given[i].at[2] + given[i].len <= start + len
      <4>1. given[i].at[1] = block => given[i].at[1] = mblk_count /\ start = byte_count
        BY <3>1, <3>2, <1>3
      <4>2. given[i].at[2] + given[i].len \in Nat
        BY <2>2, <1>6
      <4>3. len \in Nat /\ byte_count \in Nat
        BY <1>2, <3>2
      <4> QED BY ONLY <3>1, <4>1, <4>2, <4>3
    <3>4. given[i].at[1] \in 1..block
      <4>1. mblk_count \in Nat /\ block \in Nat /\ mblk_count <= block
        BY <3>2, <1>3
      <4> QED BY ONLY <3>1, <4>1
    <3>5. given'[i].at[2] + given'[i].len <= byte_asize
      BY <3>1, <3>2
    <3> QED BY <3>2, <3>3, <3>4, <3>5
  <2> QED BY <2>1, <2>2, <1>5
<1>9. Apart'
  <2> SUFFICES ASSUME NEW i \in 1..(Len(given) + 1), NEW j \in 1..(Len(given) + 1),
                      i < j, given'[i].at[1] = given'[j].at[1]
               PROVE  given'[i].at[2] + given'[i].len <= given'[j].at[2]
    BY <1>5 DEF Apart
  <2>1. i \in DOMAIN given
    BY <1>5
  <2>2. CASE j = Len(given) + 1
    <3>1. given'[i] = given[i] /\ given'[j].at[1] = block /\ given'[j].at[2] = start
      BY <2>1, <2>2, <1>4, <1>5
    <3>2. /\ given[i].at[1] \in 1..mblk_count /\ mblk_count \in Nat
          /\ given[i].at[1] = mblk_count => given[i].at[2] + given[i].len <= byte_count
      BY <2>1 DEF TermInv, TermTypes, Behind
    <3>3. given[i].at[1] = block => given[i].at[2] + given[i].len <= start
      <4>1. given[i].at[1] = block => given[i].at[1] = mblk_count /\ start = byte_count
        BY ONLY <3>2, <1>3
      <4> QED BY ONLY <3>2, <4>1
    <3> QED BY <2>2, <3>1, <3>3
  <2>3. CASE j \in DOMAIN given
    BY <2>1, <2>3, <1>5 DEF TermInv, Apart
  <2>4. j = Len(given) + 1 \/ j \in DOMAIN given
    BY ONLY j \in 1..(Len(given) + 1), <1>5
  <2> QED BY <2>2, <2>3, <2>4, Zenon
<1> QED BY <1>7, <1>8, <1>9 DEF TermInv

LEMMA TermStepInv == TermInv /\ [TermNext]_termVars => TermInv'
<1> SUFFICES ASSUME TermInv, [TermNext]_termVars PROVE TermInv'
  OBVIOUS
<1>1. ASSUME NEW v \in ValueLen, Buf(v) PROVE TermInv'
  BY <1>1, BufInv
<1>2. ASSUME NEW t \in Term, AddTerm(t) PROVE TermInv'
  BY <1>2 DEF AddTerm, TermInv, TermTypes, Behind, Apart, NoBlockYet
<1>3. CASE UNCHANGED termVars
  BY <1>3 DEF termVars, TermInv, TermTypes, Behind, Apart, NoBlockYet
<1> QED BY <1>1, <1>2, <1>3 DEF TermNext

(* No two values ctool_hashmap_buf hands out overlap, and none passes the  *)
(* end of its block, whatever lengths are asked for and however many.      *)
THEOREM TermItemsApart == TermSpec => []ItemsApart
<1>1. TermInv => ItemsApart
  <2> SUFFICES ASSUME TermInv, NEW i \in DOMAIN given, NEW j \in DOMAIN given
               PROVE  /\ given[i].at[2] + given[i].len <= byte_asize
                      /\ given[i].at[1] \in 1..mblk_asize
                      /\ i < j /\ given[i].at[1] = given[j].at[1] =>
                            given[i].at[2] + given[i].len <= given[j].at[2]
    BY DEF ItemsApart
  <2>1. given[i].at[1] \in 1..mblk_asize
    BY TermAssumption DEF TermInv, TermTypes, Behind
  <2> QED BY <2>1 DEF TermInv, Behind, Apart
<1> QED BY <1>1, TermInitInv, TermStepInv, PTL DEF TermSpec

-----------------------------------------------------------------------------
(* TermMap: what get finds.  Every item of a chain is an addition to it    *)
(* (OfAddition), every addition is an item of its key's chain (OfItem),    *)
(* and two items of a chain stand in the order of their additions          *)
(* (InAddOrder).  An addition is told by its address, since buf hands out  *)
(* each address once (AddedGiven).                                         *)

ChainOf(t) == item_array[t % item_asize]

ChainTypes ==
    /\ item_array \in [0..(item_asize - 1) -> Seq([key: Term, at: Address])]
    /\ added \in Seq(Term \X Address)

AddedGiven ==
    /\ Len(given) = Len(added) + (IF pending = NoItem THEN 0 ELSE 1)
    /\ \A i \in DOMAIN added : added[i][2] = given[i].at
    /\ pending # NoItem => pending = given[Len(given)].at
    /\ \A i \in DOMAIN given : given[i].len >= 1

OfAddition ==
    \A c \in 0..(item_asize - 1) : \A k \in DOMAIN item_array[c] :
        /\ item_array[c][k].key % item_asize = c
        /\ \E i \in DOMAIN added : added[i] = <<item_array[c][k].key, item_array[c][k].at>>
OfItem ==
    \A i \in DOMAIN added : \E k \in DOMAIN ChainOf(added[i][1]) :
        ChainOf(added[i][1])[k] = [key |-> added[i][1], at |-> added[i][2]]
InAddOrder ==
    \A c \in 0..(item_asize - 1) : \A k, l \in DOMAIN item_array[c] : \A i, j \in DOMAIN added :
        k < l /\ added[i][2] = item_array[c][k].at /\ added[j][2] = item_array[c][l].at => i < j

ChainInv == TermInv /\ ChainTypes /\ AddedGiven /\ OfAddition /\ OfItem /\ InAddOrder

\* the chain of a key
LEMMA ChainIs ==
    ASSUME NEW t \in Term
    PROVE  t % item_asize \in 0..(item_asize - 1) /\ t \in Nat
  BY TermAssumption

LEMMA AddressFacts ==
    ASSUME ChainInv
    PROVE  /\ DOMAIN added = 1..Len(added) /\ Len(added) \in Nat
           /\ DOMAIN given = 1..Len(given) /\ Len(given) \in Nat
           /\ \A i \in DOMAIN added : i \in DOMAIN given /\ added[i][1] \in Term /\ added[i][2] \in Address /\ added[i][2] # NoItem
           /\ \A i \in DOMAIN added : added[i] = <<added[i][1], added[i][2]>>
           /\ \A i, j \in DOMAIN added : added[i][2] = added[j][2] => i = j
           /\ pending # NoItem => pending \in Address /\ \A i \in DOMAIN added : added[i][2] # pending
  <1>1. /\ added \in Seq(Term \X Address) /\ given \in Seq(Given) /\ mblk_count \in Nat
    BY TermAssumption DEF ChainInv, ChainTypes, TermInv, TermTypes
  <1>2. /\ DOMAIN added = 1..Len(added) /\ Len(added) \in Nat /\ DOMAIN given = 1..Len(given) /\ Len(given) \in Nat
        /\ \A i \in DOMAIN added : added[i] \in Term \X Address
        /\ \A i \in DOMAIN given : given[i] \in Given
    BY <1>1
  <1>3. \A i \in DOMAIN added : i \in DOMAIN given /\ (pending # NoItem => i # Len(given))
    BY <1>2 DEF ChainInv, AddedGiven
  <1>4. \A i \in DOMAIN given : given[i].at # NoItem /\ given[i].at \in Address
    <2>1. \A i \in DOMAIN given : given[i].at[1] \in 1..mblk_count /\ given[i].at \in Address
      BY <1>2 DEF ChainInv, TermInv, Behind, Given
    <2>2. NoItem[1] = 0
      BY DEF NoItem
    <2> QED BY <1>1, <2>1, <2>2
  <1>5. \A i \in DOMAIN added : added[i][2] = given[i].at
    BY DEF ChainInv, AddedGiven
  <1>0. \A i, j \in DOMAIN given : given[i].at = given[j].at => i = j
    <2>1. ASSUME NEW i \in DOMAIN given, NEW j \in DOMAIN given, i < j PROVE given[i].at # given[j].at
      <3>1. given[i].at[1] = given[j].at[1] => given[i].at[2] + given[i].len <= given[j].at[2]
        BY <2>1 DEF ChainInv, TermInv, Apart
      <3>2. given[i].len \in Nat /\ given[i].len >= 1 /\ given[i].at[2] \in Nat
        BY <1>2 DEF ChainInv, AddedGiven, Given, Address
      <3>3. given[i].at[2] + given[i].len <= given[i].at[2] => FALSE
        BY <3>2
      <3> QED BY <3>1, <3>3
    <2>2. \A i, j \in DOMAIN given : i < j \/ j < i \/ i = j
      BY <1>2
    <2> QED BY <2>1, <2>2
  <1>6. \A i, j \in DOMAIN added : added[i][2] = added[j][2] => i = j
    BY <1>0, <1>3, <1>5
  <1>7. pending # NoItem => Len(given) \in DOMAIN given /\ pending = given[Len(given)].at
    BY <1>2 DEF ChainInv, AddedGiven
  <1>8. pending # NoItem => pending \in Address /\ \A i \in DOMAIN added : added[i][2] # pending
    BY <1>0, <1>3, <1>4, <1>5, <1>7
  <1>9. \A i \in DOMAIN added : added[i] = <<added[i][1], added[i][2]>> /\ added[i][1] \in Term
    BY <1>2
  <1> QED BY <1>2, <1>3, <1>4, <1>5, <1>6, <1>8, <1>9

LEMMA ChainInit == TermInit => ChainInv
  <1> SUFFICES ASSUME TermInit PROVE ChainInv
    OBVIOUS
  <1>1. /\ item_array = [i \in 0..(item_asize - 1) |-> <<>>] /\ pending = NoItem /\ given = <<>> /\ added = <<>>
    BY DEF TermInit
  <1>2. Len(given) = 0 /\ Len(added) = 0 /\ DOMAIN given = {} /\ DOMAIN added = {}
    BY <1>1
  <1>3. AddedGiven
    BY <1>1, <1>2 DEF AddedGiven
  <1>4. ChainTypes
    BY <1>1 DEF ChainTypes
  <1>5. OfAddition /\ OfItem /\ InAddOrder
    BY <1>1, <1>2 DEF OfAddition, OfItem, InAddOrder
  <1> QED BY <1>3, <1>4, <1>5, TermInitInv DEF ChainInv

\* a step that leaves the chains and the additions leaves what relates them
LEMMA ChainsStay ==
    ASSUME ChainInv, item_array' = item_array, added' = added
    PROVE  ChainTypes' /\ OfAddition' /\ OfItem' /\ InAddOrder'
  <1>1. ChainTypes'
    BY DEF ChainInv, ChainTypes
  <1>2. OfAddition'
    BY Zenon DEF ChainInv, OfAddition
  <1>3. OfItem'
    BY Zenon DEF ChainInv, OfItem, ChainOf
  <1>4. InAddOrder'
    BY SMT DEF ChainInv, InAddOrder
  <1> QED BY <1>1, <1>2, <1>3, <1>4

LEMMA ChainBuf ==
    ASSUME ChainInv, NEW v \in ValueLen, Buf(v)
    PROVE  ChainInv'
  <1> DEFINE len   == ItemLen(v)
             start == IF NewBlock(len) THEN 0 ELSE byte_count
             block == IF NewBlock(len) THEN mblk_count + 1 ELSE mblk_count
             wanted == v + Header
             item  == [at |-> <<block, start>>, len |-> wanted]
             n     == Len(given)
  <1>1. /\ pending = NoItem /\ pending' = item.at /\ given' = Append(given, item)
        /\ mblk_count' = block /\ byte_count' = start + len
        /\ UNCHANGED <<item_array, added>>
    BY DEF Buf
  <1>2. TermInv'
    BY BufInv DEF ChainInv
  <1>3. len \in Nat /\ wanted \in Nat /\ wanted >= 1
    BY ItemFits
  <1> HIDE DEF len, wanted, start, block
  <1>4. item \in Given
    <2>1. mblk_count \in Nat /\ byte_count \in Nat
      BY TermAssumption DEF ChainInv, TermInv, TermTypes
    <2>2. start \in Nat /\ block \in Nat
      BY <2>1 DEF start, block
    <2> QED BY <1>3, <2>2 DEF Given, Address
  <1> HIDE DEF item
  <1>5. given \in Seq(Given)
    BY DEF ChainInv, TermInv, TermTypes
  <1>6. /\ DOMAIN given = 1..n /\ n \in Nat /\ DOMAIN given' = 1..(n + 1) /\ Len(given') = n + 1
        /\ given'[n + 1] = item /\ \A i \in 1..n : given'[i] = given[i]
    BY <1>1, <1>4, <1>5
  <1> HIDE DEF n
  <1>7. pending' # NoItem
    <2>1. given'[n + 1].at[1] \in 1..mblk_count'
      BY <1>2, <1>6 DEF TermInv, Behind
    <2>2. mblk_count' \in Nat /\ NoItem[1] = 0
      BY <1>2, TermAssumption DEF TermInv, TermTypes, NoItem
    <2> QED BY <1>1, <1>6, <2>1, <2>2
  <1>8. Len(given) = Len(added) /\ n + 1 = Len(added) + 1
    BY <1>1 DEF ChainInv, AddedGiven, n
  <1>9. \A i \in DOMAIN added : i \in 1..n
    BY <1>8 DEF ChainInv, ChainTypes, n
  <1>10. \A i \in 1..(n + 1) : given'[i].len >= 1
    <2>1. item.len >= 1
      BY <1>3 DEF item
    <2>2. \A i \in 1..n : given[i].len >= 1
      BY <1>6 DEF ChainInv, AddedGiven
    <2>3. \A i \in 1..(n + 1) : i \in 1..n \/ i = n + 1
      BY <1>6
    <2> QED BY <1>6, <2>1, <2>2, <2>3
  <1>11. AddedGiven'
    <2>1. \A i \in DOMAIN added : added[i][2] = given'[i].at
      BY <1>6, <1>9 DEF ChainInv, AddedGiven
    <2>2. Len(given') = Len(added') + 1 /\ pending' = given'[Len(given')].at
      BY <1>1, <1>6, <1>8
    <2> QED BY <1>1, <1>6, <1>7, <1>10, <2>1, <2>2 DEF AddedGiven
  <1>12. ChainTypes' /\ OfAddition' /\ OfItem' /\ InAddOrder'
    BY <1>1, ChainsStay
  <1> QED BY <1>2, <1>11, <1>12 DEF ChainInv

LEMMA ChainAdd ==
    ASSUME ChainInv, NEW t \in Term, AddTerm(t)
    PROVE  ChainInv'
  <1> DEFINE c == t % item_asize
             item == [key |-> t, at |-> pending]
             n == Len(added)
             m == Len(item_array[c])
  <1>1. /\ pending # NoItem /\ pending' = NoItem
        /\ item_array' = [item_array EXCEPT ![c] = Append(@, item)]
        /\ added' = Append(added, <<t, pending>>)
        /\ UNCHANGED <<mblk_count, byte_count, given>>
    BY DEF AddTerm, ChainLast
  <1>2. c \in 0..(item_asize - 1) /\ pending \in Address
    BY <1>1, ChainIs, AddressFacts
  <1> HIDE DEF c
  <1>3. /\ n \in Nat /\ DOMAIN added = 1..n /\ DOMAIN added' = 1..(n + 1) /\ Len(added') = n + 1
        /\ added'[n + 1] = <<t, pending>> /\ \A i \in 1..n : added'[i] = added[i]
        /\ added' \in Seq(Term \X Address)
    BY <1>1, <1>2 DEF ChainInv, ChainTypes
  <1>4. /\ item_array[c] \in Seq([key : Term, at : Address]) /\ item \in [key : Term, at : Address]
        /\ item_array'[c] = Append(item_array[c], item)
        /\ \A d \in 0..(item_asize - 1) : d # c => item_array'[d] = item_array[d]
    BY <1>1, <1>2 DEF ChainInv, ChainTypes
  <1> HIDE DEF item
  <1>5. /\ m \in Nat /\ DOMAIN item_array[c] = 1..m /\ DOMAIN item_array'[c] = 1..(m + 1)
        /\ item_array'[c][m + 1] = item /\ \A k \in 1..m : item_array'[c][k] = item_array[c][k]
        /\ item_array'[c] \in Seq([key : Term, at : Address])
    BY <1>4
  <1> HIDE DEF n, m
  <1>6. /\ \A i \in 1..(n + 1) : i \in 1..n \/ i = n + 1
        /\ \A k \in 1..(m + 1) : k \in 1..m \/ k = m + 1
        /\ \A i \in 1..n : i \in 1..(n + 1) /\ i < n + 1 /\ i # n + 1 /\ ~(n + 1 < i)
        /\ \A k \in 1..m : k \in 1..(m + 1) /\ k < m + 1 /\ ~(m + 1 < k)
        /\ n + 1 \in 1..(n + 1) /\ m + 1 \in 1..(m + 1) /\ ~(m + 1 < m + 1)
    BY <1>3, <1>5
  <1>7. item.key = t /\ item.at = pending
    BY DEF item
  <1>8. ChainTypes'
    <2>1. item_array' \in [0..(item_asize - 1) -> Seq([key : Term, at : Address])]
      BY <1>1, <1>2, <1>4, <1>5 DEF ChainInv, ChainTypes
    <2> QED BY <1>3, <2>1 DEF ChainTypes
  <1>9. TermInv'
    BY <1>1 DEF ChainInv, TermInv, TermTypes, Behind, Apart, NoBlockYet
  <1>10. AddedGiven'
    <2>1. Len(given) = n + 1 /\ pending = given[Len(given)].at
      BY <1>1 DEF ChainInv, AddedGiven, n
    <2>2. \A i \in 1..(n + 1) : added'[i][2] = given[i].at
      BY <1>3, <1>6, <2>1 DEF ChainInv, AddedGiven
    <2>3. Len(given') = Len(added')
      BY <1>1, <1>3, <2>1
    <2> QED BY <1>1, <1>3, <2>2, <2>3 DEF ChainInv, AddedGiven
  <1>11. OfAddition'
    <2>1. ASSUME NEW d \in 0..(item_asize - 1), NEW k \in DOMAIN item_array'[d]
          PROVE  /\ item_array'[d][k].key % item_asize = d
                 /\ \E i \in DOMAIN added' : added'[i] = <<item_array'[d][k].key, item_array'[d][k].at>>
      <3>1. CASE d = c /\ k = m + 1
        BY <1>3, <1>5, <1>6, <1>7, <3>1 DEF c
      <3>2. CASE ~(d = c /\ k = m + 1)
        <4>1. k \in DOMAIN item_array[d] /\ item_array'[d][k] = item_array[d][k]
          BY <1>4, <1>5, <1>6, <2>1, <3>2
        <4>2. PICK i \in DOMAIN added : added[i] = <<item_array[d][k].key, item_array[d][k].at>>
          BY <4>1 DEF ChainInv, OfAddition
        <4>3. i \in DOMAIN added' /\ added'[i] = added[i]
          BY <1>3, <1>6
        <4>4. item_array[d][k].key % item_asize = d
          BY <4>1 DEF ChainInv, OfAddition
        <4> QED BY <4>1, <4>2, <4>3, <4>4
      <3> QED BY <3>1, <3>2
    <2> QED BY <2>1 DEF OfAddition
  <1>12. OfItem'
    <2>1. ASSUME NEW i \in DOMAIN added'
          PROVE  \E k \in DOMAIN item_array'[added'[i][1] % item_asize] :
                    item_array'[added'[i][1] % item_asize][k] = [key |-> added'[i][1], at |-> added'[i][2]]
      <3>1. CASE i = n + 1
        <4>1. added'[i][1] = t /\ added'[i][2] = pending
          BY <1>3, <3>1
        <4>2. m + 1 \in DOMAIN item_array'[c] /\ item_array'[c][m + 1] = [key |-> t, at |-> pending]
          BY <1>5, <1>6 DEF item
        <4> QED BY <4>1, <4>2 DEF c
      <3>2. CASE i \in 1..n
        <4>1. added'[i] = added[i] /\ i \in DOMAIN added
          BY <1>3, <3>2
        <4> DEFINE d == added[i][1] % item_asize
        <4>2. d \in 0..(item_asize - 1)
          BY <4>1, AddressFacts, ChainIs
        <4>3. PICK k \in DOMAIN item_array[d] : item_array[d][k] = [key |-> added[i][1], at |-> added[i][2]]
          BY <4>1 DEF ChainInv, OfItem, ChainOf
        <4> HIDE DEF d
        <4>4. k \in DOMAIN item_array'[d] /\ item_array'[d][k] = item_array[d][k]
          BY <1>4, <1>5, <1>6, <4>2, <4>3
        <4> QED BY <4>1, <4>3, <4>4 DEF d
      <3> QED BY <1>3, <1>6, <2>1, <3>1, <3>2
    <2> QED BY <2>1 DEF OfItem, ChainOf
  <1>13. InAddOrder'
    <2>0. \A i \in 1..n : added[i][2] # pending
      BY <1>1, <1>3, AddressFacts
    <2>1. ASSUME NEW d \in 0..(item_asize - 1), NEW k \in DOMAIN item_array'[d], NEW l \in DOMAIN item_array'[d],
                 NEW i \in DOMAIN added', NEW j \in DOMAIN added',
                 k < l, added'[i][2] = item_array'[d][k].at, added'[j][2] = item_array'[d][l].at
          PROVE  i < j
      <3>1. ~(d = c /\ k = m + 1)
        BY <1>5, <1>6, <2>1
      <3>2. k \in DOMAIN item_array[d] /\ item_array'[d][k] = item_array[d][k]
        <4>1. CASE d = c
          BY <1>5, <1>6, <2>1, <3>1, <4>1
        <4>2. CASE d # c
          BY <1>4, <2>1, <4>2
        <4> QED BY <4>1, <4>2
      <3>3. i \in 1..n /\ added'[i] = added[i]
        <4>1. PICK h \in DOMAIN added : added[h] = <<item_array[d][k].key, item_array[d][k].at>>
          BY <3>2 DEF ChainInv, OfAddition
        <4>2. item_array[d][k].at # pending
          BY <1>3, <2>0, <4>1
        <4>3. added'[n + 1][2] = pending
          BY <1>3
        <4>4. i # n + 1
          BY <2>1, <3>2, <4>2, <4>3
        <4> QED BY <1>3, <1>6, <4>4
      <3>4. CASE j = n + 1
        BY <1>6, <3>3, <3>4
      <3>5. CASE j \in 1..n
        <4>1. ~(d = c /\ l = m + 1)
          <5>1. added'[j][2] # pending
            BY <1>3, <2>0, <3>5
          <5> QED BY <1>5, <1>7, <2>1, <5>1
        <4>2. l \in DOMAIN item_array[d] /\ item_array'[d][l] = item_array[d][l]
          <5>1. CASE d = c
            BY <1>5, <1>6, <2>1, <4>1, <5>1
          <5>2. CASE d # c
            BY <1>4, <2>1, <5>2
          <5> QED BY <5>1, <5>2
        <4>3. added'[j] = added[j]
          BY <1>3, <3>5
        <4> QED BY <1>3, <2>1, <3>2, <3>3, <3>5, <4>2, <4>3 DEF ChainInv, InAddOrder
      <3> QED BY <1>3, <1>6, <3>4, <3>5
    <2> QED BY <2>1 DEF InAddOrder
  <1> QED BY <1>8, <1>9, <1>10, <1>11, <1>12, <1>13 DEF ChainInv

LEMMA ChainStep == ChainInv /\ [TermNext]_termVars => ChainInv'
  <1>1. ASSUME ChainInv, UNCHANGED termVars PROVE ChainInv'
    <2>1. TermInv'
      BY <1>1 DEF termVars, ChainInv, TermInv, TermTypes, Behind, Apart, NoBlockYet
    <2>2. AddedGiven'
      BY <1>1 DEF termVars, ChainInv, AddedGiven
    <2>3. item_array' = item_array /\ added' = added
      BY <1>1 DEF termVars
    <2> QED BY <1>1, <2>1, <2>2, <2>3, ChainsStay DEF ChainInv
  <1> QED BY <1>1, ChainBuf, ChainAdd DEF TermNext

-----------------------------------------------------------------------------
\* the additions of t after the i-th, and the next one's address
AddsOf(t)         == {i \in DOMAIN added : added[i][1] = t}
Later(t, i)     == {j \in AddsOf(t) : j > i}
NextOf(t, i)    == CHOOSE j \in Later(t, i) : \A k \in Later(t, i) : j <= k
Following(t, i) == IF Later(t, i) = {} THEN NoItem ELSE added[NextOf(t, i)][2]
\* the items of t from the f-th of the chain on, and the one get returns
ItemsFrom(t, f)      == {k \in f..Len(ChainOf(t)) : ChainOf(t)[k].key = t}
FirstFrom(t, f) == CHOOSE k \in ItemsFrom(t, f) : \A l \in ItemsFrom(t, f) : k <= l
FoundFrom(t, f)     == IF ItemsFrom(t, f) = {} THEN NoItem ELSE ChainOf(t)[FirstFrom(t, f)].at

\* a chain's items of t and t's additions are the same, in the same order
LEMMA SameOrder ==
    ASSUME ChainInv, NEW t \in Term
    PROVE  /\ DOMAIN ChainOf(t) = 1..Len(ChainOf(t)) /\ Len(ChainOf(t)) \in Nat
           /\ \A k \in DOMAIN ChainOf(t) : ChainOf(t)[k].key = t =>
                \E i \in AddsOf(t) : added[i][2] = ChainOf(t)[k].at
           /\ \A i \in AddsOf(t) : \E k \in DOMAIN ChainOf(t) : ChainOf(t)[k].key = t /\ ChainOf(t)[k].at = added[i][2]
           /\ \A k, l \in DOMAIN ChainOf(t) : \A i, j \in AddsOf(t) :
                added[i][2] = ChainOf(t)[k].at /\ added[j][2] = ChainOf(t)[l].at => (k < l <=> i < j)
           /\ \A k, l \in DOMAIN ChainOf(t) : ChainOf(t)[k].at = ChainOf(t)[l].at => k = l
  <1> DEFINE c == t % item_asize
  <1>1. c \in 0..(item_asize - 1)
    BY ChainIs
  <1>2. item_array[c] \in Seq([key : Term, at : Address])
    BY <1>1 DEF ChainInv, ChainTypes
  <1> HIDE DEF c
  <1>3. ChainOf(t) = item_array[c]
    BY DEF ChainOf, c
  <1>4. DOMAIN ChainOf(t) = 1..Len(ChainOf(t)) /\ Len(ChainOf(t)) \in Nat
    BY <1>2, <1>3
  <1>5. \A k \in DOMAIN ChainOf(t) :
           \E i \in DOMAIN added : added[i] = <<ChainOf(t)[k].key, ChainOf(t)[k].at>>
    BY <1>1, <1>3 DEF ChainInv, OfAddition
  <1>6. \A k \in DOMAIN ChainOf(t) : ChainOf(t)[k].key = t => \E i \in AddsOf(t) : added[i][2] = ChainOf(t)[k].at
    BY <1>5 DEF AddsOf
  <1>7. \A i \in AddsOf(t) : \E k \in DOMAIN ChainOf(t) : ChainOf(t)[k].key = t /\ ChainOf(t)[k].at = added[i][2]
    <2> SUFFICES ASSUME NEW i \in AddsOf(t)
                 PROVE  \E k \in DOMAIN ChainOf(t) : ChainOf(t)[k].key = t /\ ChainOf(t)[k].at = added[i][2]
      OBVIOUS
    <2>1. i \in DOMAIN added /\ added[i][1] = t
      BY DEF AddsOf
    <2>2. PICK k \in DOMAIN ChainOf(t) : ChainOf(t)[k] = [key |-> t, at |-> added[i][2]]
      BY <2>1 DEF ChainInv, OfItem
    <2> QED BY <2>2
  <1>8. ASSUME NEW k \in DOMAIN ChainOf(t), NEW l \in DOMAIN ChainOf(t), NEW i \in DOMAIN added, NEW j \in DOMAIN added,
               added[i][2] = ChainOf(t)[k].at, added[j][2] = ChainOf(t)[l].at, k < l
        PROVE  i < j
    BY <1>1, <1>3, <1>8 DEF ChainInv, InAddOrder
  <1>9. \A i \in DOMAIN added : i \in Nat
    BY AddressFacts
  <1>10. \A k, l \in DOMAIN ChainOf(t) : ChainOf(t)[k].at = ChainOf(t)[l].at => k = l
    <2>1. ASSUME NEW k \in DOMAIN ChainOf(t), NEW l \in DOMAIN ChainOf(t), ChainOf(t)[k].at = ChainOf(t)[l].at, k < l
          PROVE  FALSE
      <3>1. PICK i \in DOMAIN added : added[i][2] = ChainOf(t)[k].at
        BY <1>5
      <3>2. i < i
        BY <1>8, <2>1, <3>1
      <3> QED BY <1>9, <3>2
    <2>2. \A k, l \in DOMAIN ChainOf(t) : k < l \/ l < k \/ k = l
      BY <1>4
    <2> QED BY <2>1, <2>2
  <1>11. ASSUME NEW k \in DOMAIN ChainOf(t), NEW l \in DOMAIN ChainOf(t), NEW i \in AddsOf(t), NEW j \in AddsOf(t),
                added[i][2] = ChainOf(t)[k].at, added[j][2] = ChainOf(t)[l].at
         PROVE  k < l <=> i < j
    <2>1. i \in DOMAIN added /\ j \in DOMAIN added /\ i \in Nat /\ j \in Nat /\ k \in Nat /\ l \in Nat
      BY <1>4, <1>9 DEF AddsOf
    <2>2. k < l => i < j
      BY <1>8, <1>11, <2>1
    <2>3. l < k => j < i
      BY <1>8, <1>11, <2>1
    <2>4. k = l => i = j
      BY <1>11, <2>1, AddressFacts
    <2> QED BY <2>1, <2>2, <2>3, <2>4
  <1> QED BY <1>4, <1>6, <1>7, <1>10, <1>11

\* what is found from an item of the items on is the next addition, if the
\* items before it are the additions up to the b-th
LEMMA FoundIsNext ==
    ASSUME ChainInv, NEW t \in Term, NEW f \in Nat, f >= 1, NEW b \in Nat,
           \A k \in DOMAIN ChainOf(t) : \A i \in AddsOf(t) : added[i][2] = ChainOf(t)[k].at => (k >= f <=> i > b)
    PROVE  FoundFrom(t, f) = Following(t, b)
  <1> DEFINE chained == ChainOf(t)
  <1>1. \A k \in ItemsFrom(t, f) : k \in DOMAIN chained /\ k \in Nat /\ k >= f
    BY SameOrder DEF ItemsFrom
  <1>2. \A i \in AddsOf(t) : i \in Nat
    BY AddressFacts DEF AddsOf
  <1>3. \A k \in ItemsFrom(t, f) : \E i \in Later(t, b) : added[i][2] = chained[k].at
    BY <1>1, SameOrder DEF ItemsFrom, Later
  <1>4. \A i \in Later(t, b) : \E k \in ItemsFrom(t, f) : chained[k].at = added[i][2]
    <2> SUFFICES ASSUME NEW i \in Later(t, b) PROVE \E k \in ItemsFrom(t, f) : chained[k].at = added[i][2]
      OBVIOUS
    <2>1. i \in AddsOf(t) /\ i > b
      BY DEF Later
    <2>2. PICK k \in DOMAIN chained : chained[k].key = t /\ chained[k].at = added[i][2]
      BY <2>1, SameOrder
    <2>3. k >= f
      BY <2>1, <2>2
    <2> QED BY <2>2, <2>3, SameOrder DEF ItemsFrom
  <1>5. CASE Later(t, b) = {}
    BY <1>3, <1>5 DEF FoundFrom, Following
  <1>6. CASE Later(t, b) # {}
    <2>1. ItemsFrom(t, f) # {}
      BY <1>4, <1>6
    <2>2. ItemsFrom(t, f) \subseteq 1..Len(chained) /\ Len(chained) \in Nat
      BY <1>1, SameOrder
    <2>3. Later(t, b) \subseteq 1..Len(added) /\ Len(added) \in Nat
      BY AddressFacts DEF Later, AddsOf
    <2>4. IsFiniteSet(ItemsFrom(t, f)) /\ IsFiniteSet(Later(t, b)) /\ ItemsFrom(t, f) \subseteq Nat /\ Later(t, b) \subseteq Nat
      <3>1. IsFiniteSet(1..Len(chained)) /\ IsFiniteSet(1..Len(added))
        BY <2>2, <2>3, FS_Interval
      <3>2. IsFiniteSet(ItemsFrom(t, f)) /\ IsFiniteSet(Later(t, b))
        BY <2>2, <2>3, <3>1, FS_Subset
      <3> HIDE DEF chained
      <3>3. 1..Len(chained) \subseteq Nat /\ 1..Len(added) \subseteq Nat
        BY <2>2, <2>3
      <3> QED BY <2>2, <2>3, <3>2, <3>3
    <2> DEFINE front == FirstFrom(t, f)
               soon  == NextOf(t, b)
    <2>5. front \in ItemsFrom(t, f) /\ \A k \in ItemsFrom(t, f) : front <= k
      BY <2>1, <2>4, Smallest DEF FirstFrom
    <2>6. soon \in Later(t, b) /\ \A j \in Later(t, b) : soon <= j
      BY <1>6, <2>4, Smallest DEF NextOf
    <2> HIDE DEF front, soon
    <2>7. PICK k \in ItemsFrom(t, f) : chained[k].at = added[soon][2]
      BY <1>4, <2>6
    <2>8. PICK j \in Later(t, b) : added[j][2] = chained[front].at
      BY <1>3, <2>5
    <2>9. front < k <=> j < soon
      BY <1>1, <2>5, <2>6, <2>7, <2>8, SameOrder DEF Later
    <2>10. front = k
      <3>1. front <= k /\ soon <= j
        BY <2>5, <2>6, <2>7, <2>8
      <3>2. front \in Nat /\ k \in Nat /\ soon \in Nat /\ j \in Nat
        BY <2>4, <2>5, <2>6, <2>7, <2>8
      <3> QED BY <2>9, <3>1, <3>2
    <2> QED BY <1>6, <2>1, <2>7, <2>10 DEF FoundFrom, Following, front, soon
  <1> QED BY <1>5, <1>6

\* every value of a key is found once, in the order of the additions
LEMMA GetsFollow == ChainInv => GetsInOrder
  <1> SUFFICES ASSUME ChainInv, NEW t \in Term
               PROVE  /\ TermGet(t, NoItem) = Following(t, 0)
                      /\ \A i \in AddsOf(t) : TermGet(t, added[i][2]) = Following(t, i)
    BY DEF GetsInOrder, AddsOf, Later, NextOf, Following
  <1>1. TermGet(t, NoItem) = FoundFrom(t, 1)
    BY DEF TermGet, FoundFrom, ItemsFrom, FirstFrom, ChainOf
  <1>2. FoundFrom(t, 1) = Following(t, 0)
    <2>1. \A k \in DOMAIN ChainOf(t) : k >= 1
      BY SameOrder
    <2>2. \A i \in AddsOf(t) : i > 0
      BY AddressFacts DEF AddsOf
    <2> QED BY <2>1, <2>2, FoundIsNext
  <1>3. ASSUME NEW i \in AddsOf(t) PROVE TermGet(t, added[i][2]) = Following(t, i)
    <2> DEFINE from == added[i][2]
               f == CHOOSE k \in DOMAIN ChainOf(t) : ChainOf(t)[k].at = from
    <2>1. from # NoItem /\ i \in Nat
      BY AddressFacts DEF AddsOf
    <2>2. f \in DOMAIN ChainOf(t) /\ ChainOf(t)[f].at = from
      <3>1. \E k \in DOMAIN ChainOf(t) : ChainOf(t)[k].at = from
        BY SameOrder
      <3> QED BY <3>1, Zenon
    <2>3. TermGet(t, from) = FoundFrom(t, 1 + f)
      <3> DEFINE start == IF from = NoItem THEN 1 ELSE 1 + f
                 found == {k \in start..Len(ChainOf(t)) : ChainOf(t)[k].key = t}
      <3>1. TermGet(t, from) = IF found = {} THEN NoItem
                               ELSE ChainOf(t)[CHOOSE k \in found : \A l \in found : k <= l].at
        BY Zenon DEF TermGet, ChainOf
      <3>2. found = ItemsFrom(t, 1 + f)
        BY <2>1 DEF ItemsFrom
      <3> QED BY <3>1, <3>2, Zenon DEF FoundFrom, FirstFrom
    <2> HIDE DEF f, from
    <2>4. f \in Nat /\ f >= 1 /\ \A k \in DOMAIN ChainOf(t) : k \in Nat /\ (k >= 1 + f <=> f < k)
      BY <2>2, SameOrder
    <2>5. \A k \in DOMAIN ChainOf(t) : \A j \in AddsOf(t) : added[j][2] = ChainOf(t)[k].at => (f < k <=> i < j)
      BY <2>2, SameOrder DEF from
    <2>6. \A j \in AddsOf(t) : i < j <=> j > i
      OBVIOUS
    <2>7. 1 + f \in Nat /\ 1 + f >= 1
      BY <2>4
    <2>8. FoundFrom(t, 1 + f) = Following(t, i)
      BY <2>1, <2>4, <2>5, <2>6, <2>7, FoundIsNext
    <2> QED BY <2>3, <2>8 DEF from
  <1> QED BY <1>1, <1>2, <1>3

(* get, repeated from what it returned, gives every value of a key once,   *)
(* in the order of the additions, and then nothing (ctool_hashmap_add,     *)
(* ctool_hashmap_get), whatever the number of chains and the keys that     *)
(* share one.                                                              *)
THEOREM GetFindsInOrder == TermSpec => []GetsInOrder
  <1> QED BY ChainInit, ChainStep, GetsFollow, PTL DEF TermSpec

-----------------------------------------------------------------------------
(* ResListRace: the list between two harmful overlaps, for any number of   *)
(* thrift threads and nodes.                                               *)
(*                                                                         *)
(* `queue` tells the nodes of the list; what the links say of it depends   *)
(* on how far the push under way has come (Pushing) and how far svc has    *)
(* (Popping), and these two never meet: while both are at work the list    *)
(* has two nodes or more (OneAtATime), so the one writes at its end and    *)
(* the other at its front.                                                 *)

Cell     == Node \cup {Ring}
LastOf   == IF queue = <<>> THEN Ring ELSE queue[Len(queue)]
SecondOf == IF Len(queue) > 1 THEN queue[2] ELSE Ring
Closing  == {p \in Pusher : pusher[p].at = "close"}
Differ(s)   == \A i, j \in DOMAIN s : s[i] = s[j] => i = j
Among(n, s) == \E i \in DOMAIN s : s[i] = n

ListTypes ==
    /\ next \in [Cell -> Cell \cup {NoNode}] /\ prev \in [Cell -> Cell \cup {NoNode}]
    /\ pusher \in [Pusher -> [at : {"idle", "link", "close"}, node : Node \cup {NoNode}]]
    /\ svc.at \in {"idle", "read", "forward", "backward", "free"}
    /\ svc = [at |-> svc.at, front |-> svc.front, next |-> svc.next, prev |-> svc.prev]
    /\ queue \in Seq(Node) /\ order \in Seq(Node) /\ popped \in Seq(Node)

OneAtATime ==
    /\ \A p, r \in Inside : p = r
    /\ Inside # {} /\ svc.at # "idle" => Len(queue) > 1

InOrder ==
    /\ popped \o queue = order /\ Differ(order)
    /\ \A n \in freed : Among(n, popped)
    /\ ~corrupt

Pushing == \A p \in Inside :
    /\ pusher[p].node \in Node /\ ~Among(pusher[p].node, order)
    /\ next[pusher[p].node] = Ring /\ prev[pusher[p].node] = LastOf

Popping ==
    /\ svc.at # "idle" => queue # <<>> /\ svc.front = queue[1]
    /\ svc.at \in {"forward", "backward", "free"} => svc.prev = Ring /\ svc.next = SecondOf

LinkedOn ==
    /\ \A i \in 1..(Len(queue) - 1) : next[queue[i]] = queue[i + 1]
    /\ Closing = {} => (queue = <<>> => next[Ring] = Ring) /\ (queue # <<>> => next[queue[Len(queue)]] = Ring)
    /\ \A p \in Closing : next[LastOf] = pusher[p].node
    /\ queue # <<>> => next[Ring] = IF svc.at \in {"backward", "free"} THEN SecondOf ELSE queue[1]

LinkedBack ==
    /\ \A i \in 2..Len(queue) : prev[queue[i]] = IF i = 2 /\ svc.at = "free" THEN Ring ELSE queue[i - 1]
    /\ queue # <<>> => prev[queue[1]] = Ring
    /\ prev[Ring] = IF svc.at = "free" /\ Len(queue) = 1 THEN Ring ELSE LastOf

ListOK == /\ ListTypes /\ OneAtATime /\ InOrder /\ Pushing /\ Popping /\ LinkedOn /\ LinkedBack
ListInv == ~raced => ListOK

LEMMA ListFacts ==
    ASSUME ListOK
    PROVE  /\ \A i \in 1..Len(queue) : queue[i] \in Node /\ queue[i] # Ring /\ queue[i] \notin freed /\ Among(queue[i], order)
           /\ \A i, j \in 1..Len(queue) : queue[i] = queue[j] => i = j
           /\ LastOf \in Cell /\ LastOf \notin freed /\ SecondOf \in Cell /\ SecondOf \notin freed
           /\ Ring \notin freed /\ Len(queue) \in Nat /\ (queue = <<>> <=> Len(queue) = 0)
           /\ \A n \in freed : Among(n, order)
           /\ \A p \in Inside : \A i \in 1..Len(queue) : pusher[p].node # queue[i]
           /\ Closing \subseteq Inside
  <1> DEFINE k == Len(popped)
  <1>1. /\ queue \in Seq(Node) /\ popped \in Seq(Node) /\ order = popped \o queue /\ order \in Seq(Node)
        /\ k \in Nat /\ Len(queue) \in Nat /\ Len(order) = k + Len(queue)
    BY DEF ListOK, ListTypes, InOrder
  <1>0. \A i, j \in 1..Len(order) : order[i] = order[j] => i = j
    <2>1. Differ(order)
      BY DEF ListOK, InOrder
    <2>2. DOMAIN order = 1..Len(order)
      BY <1>1
    <2> QED BY <2>1, <2>2 DEF Differ
  <1>2. /\ \A i \in 1..k : order[i] = popped[i]
        /\ \A i \in 1..Len(queue) : order[k + i] = queue[i] /\ k + i \in 1..Len(order)
    BY <1>1
  <1> HIDE DEF k
  <1>3. \A i \in 1..Len(queue) : queue[i] \in Node /\ queue[i] # Ring /\ Among(queue[i], order)
    <2>1. \A i \in 1..Len(queue) : queue[i] \in Node
      BY <1>1
    <2>2. DOMAIN order = 1..Len(order)
      BY <1>1
    <2> QED BY <1>2, <2>1, <2>2, RingAssumption DEF Among
  <1>4. \A i, j \in 1..Len(queue) : queue[i] = queue[j] => i = j
    <2>2. ASSUME NEW i \in 1..Len(queue), NEW j \in 1..Len(queue), queue[i] = queue[j] PROVE i = j
      <3>1. k + i = k + j
        BY <1>0, <1>2, <2>2
      <3> QED BY <1>1, <3>1
    <2> QED BY <2>2
  <1>5. ASSUME NEW n \in freed PROVE n \in Node /\ Among(n, order) /\ \A i \in 1..Len(queue) : queue[i] # n
    <2>1. PICK j \in 1..k : popped[j] = n
      BY <1>1 DEF ListOK, InOrder, Among, k
    <2>2. order[j] = n /\ j \in 1..Len(order)
      BY <1>1, <1>2, <2>1
    <2>3. ASSUME NEW i \in 1..Len(queue) PROVE queue[i] # n
      <3>1. k + i # j
        BY <1>1, <2>1
      <3>2. order[k + i] = queue[i] /\ k + i \in 1..Len(order)
        BY <1>2
      <3> QED BY <1>0, <2>2, <3>1, <3>2
    <2>4. n \in Node
      <3>1. \A i \in 1..Len(popped) : popped[i] \in Node
        BY <1>1
      <3> QED BY <2>1, <3>1 DEF k
    <2>5. Among(n, order)
      <3>1. DOMAIN order = 1..Len(order)
        BY <1>1
      <3> QED BY <2>2, <3>1, Zenon DEF Among
    <2> QED BY <2>3, <2>4, <2>5
  <1>6. Ring \notin freed
    BY <1>5, RingAssumption
  <1>7. (queue = <<>> <=> Len(queue) = 0)
    BY <1>1
  <1>8. LastOf \in Cell /\ LastOf \notin freed /\ SecondOf \in Cell /\ SecondOf \notin freed
    BY <1>1, <1>3, <1>5, <1>6, <1>7 DEF LastOf, SecondOf, Cell
  <1>9. \A p \in Inside : \A i \in 1..Len(queue) : pusher[p].node # queue[i]
    BY <1>3 DEF ListOK, Pushing
  <1>10. Closing \subseteq Inside
    BY DEF Closing, Inside
  <1> QED BY <1>1, <1>3, <1>4, <1>5, <1>6, <1>7, <1>8, <1>9, <1>10

LEMMA ListInit == RaceInit => ListInv
  <1> SUFFICES ASSUME RaceInit PROVE ListOK
    BY DEF ListInv
  <1>1. queue = <<>> /\ order = <<>> /\ popped = <<>> /\ freed = {} /\ ~corrupt /\ svc = NotInPop
        /\ \A p \in Pusher : pusher[p] = Resting
    BY DEF RaceInit
  <1>2. Inside = {} /\ Closing = {} /\ svc.at = "idle" /\ LastOf = Ring
    BY <1>1 DEF Inside, Closing, Resting, NotInPop, LastOf
  <1>3. next[Ring] = Ring /\ prev[Ring] = Ring
    BY DEF RaceInit
  <1>4. ListTypes
    BY DEF RaceInit, ListTypes, Resting, NotInPop, Cell
  <1>5. InOrder
    BY <1>1 DEF InOrder, Differ
  <1>6. OneAtATime /\ Pushing /\ Popping
    BY <1>1, <1>2 DEF OneAtATime, Pushing, Popping
  <1>7. Len(queue) = 0
    BY <1>1
  <1>8. LinkedOn /\ LinkedBack
    BY <1>1, <1>2, <1>3, <1>7 DEF LinkedOn, LinkedBack
  <1> QED BY <1>4, <1>5, <1>6, <1>8 DEF ListOK

LEMMA AllocateOK ==
    ASSUME ListOK, ~raced', NEW p \in Pusher, NEW n \in Node, Allocate(p, n)
    PROVE  ListOK'
  <1>1. /\ pusher[p].at = "idle" /\ n \notin Used
        /\ next' = [next EXCEPT ![n] = Ring] /\ prev' = [prev EXCEPT ![n] = prev[Ring]]
        /\ pusher' = [pusher EXCEPT ![p] = [at |-> "link", node |-> n]]
        /\ Inside = {} /\ (svc.at = "idle" \/ Len(queue) > 1)
        /\ UNCHANGED <<svc, queue, order, popped, freed, corrupt>>
    <2>1. Len(queue) \in Nat
      BY ListFacts
    <2>2. Inside = {} /\ ~(svc.at # "idle" /\ Len(queue) <= 1)
      BY DEF Allocate
    <2>3. svc.at = "idle" \/ Len(queue) > 1
      BY <2>1, <2>2
    <2> QED BY <2>2, <2>3 DEF Allocate
  <1>2. ListTypes'
    <2>1. next' \in [Cell -> Cell \cup {NoNode}] /\ prev' \in [Cell -> Cell \cup {NoNode}]
      BY <1>1, RingAssumption DEF ListOK, ListTypes, Cell
    <2>2. pusher' \in [Pusher -> [at : {"idle", "link", "close"}, node : Node \cup {NoNode}]]
      BY <1>1 DEF ListOK, ListTypes
    <2> QED BY <1>1, <2>1, <2>2 DEF ListOK, ListTypes
  <1>3. Inside' = {p} /\ Closing' = {} /\ Closing = {}
    BY <1>1 DEF Inside, Closing, ListOK, ListTypes
  <1>4. LastOf' = LastOf /\ SecondOf' = SecondOf
    BY <1>1 DEF LastOf, SecondOf
  <1>5. /\ ~Among(n, order) /\ n # Ring /\ \A i \in 1..Len(queue) : queue[i] # n
    <2>1. ~Among(n, order)
      BY <1>1 DEF Used, Among
    <2> QED BY <2>1, ListFacts, RingAssumption
  <1>6. /\ next'[n] = Ring /\ prev'[n] = prev[Ring] /\ next'[Ring] = next[Ring] /\ prev'[Ring] = prev[Ring]
        /\ \A i \in 1..Len(queue) : next'[queue[i]] = next[queue[i]] /\ prev'[queue[i]] = prev[queue[i]]
    BY <1>1, <1>5, ListFacts DEF ListOK, ListTypes, Cell
  <1>7. prev[Ring] = LastOf
    <2>1. ~(svc.at = "free" /\ Len(queue) = 1)
      <3>1. svc.at = "idle" \/ Len(queue) > 1
        BY <1>1, Zenon
      <3>2. Len(queue) \in Nat
        BY ListFacts
      <3>3. \A m \in Nat : m > 1 => m # 1
        OBVIOUS
      <3> QED BY ONLY <3>1, <3>2, <3>3
    <2>2. prev[Ring] = IF svc.at = "free" /\ Len(queue) = 1 THEN Ring ELSE LastOf
      BY DEF ListOK, LinkedBack
    <2> QED BY <2>1, <2>2, Zenon
  <1>8. OneAtATime' /\ InOrder' /\ Popping'
    BY <1>1, <1>3, <1>4 DEF ListOK, OneAtATime, InOrder, Popping
  <1>9. Pushing'
    <2>1. pusher'[p].node = n
      BY <1>1 DEF ListOK, ListTypes
    <2> QED BY <1>1, <1>3, <1>4, <1>5, <1>6, <1>7, <2>1 DEF Pushing
  <1>10. LinkedOn'
    BY <1>1, <1>3, <1>4, <1>6, ListFacts DEF ListOK, LinkedOn
  <1>11. LinkedBack'
    BY <1>1, <1>4, <1>6, ListFacts DEF ListOK, LinkedBack
  <1> QED BY <1>2, <1>8, <1>9, <1>10, <1>11 DEF ListOK

LEMMA LinkOK ==
    ASSUME ListOK, ~raced', NEW p \in Pusher, Link(p)
    PROVE  ListOK'
  <1> DEFINE n == pusher[p].node
  <1>1. /\ pusher[p].at = "link" /\ pusher' = [pusher EXCEPT ![p].at = "close"]
        /\ UNCHANGED <<prev, svc, queue, order, popped, freed>>
    BY DEF Link
  <1>2. /\ p \in Inside /\ n \in Node /\ ~Among(n, order) /\ next[n] = Ring /\ prev[n] = LastOf
        /\ Inside = {p} /\ Closing = {}
    BY <1>1 DEF Inside, Closing, ListOK, Pushing, OneAtATime
  <1>3. prev[Ring] = LastOf
    BY <1>2, ListFacts DEF ListOK, LinkedBack, OneAtATime
  <1>4. next' = [next EXCEPT ![LastOf] = n] /\ corrupt' = (corrupt \/ LastOf \in freed)
    BY <1>2, <1>3 DEF Link, Touches
  <1>5. LastOf' = LastOf /\ SecondOf' = SecondOf
    BY <1>1 DEF LastOf, SecondOf
  <1>6. Inside' = {p} /\ Closing' = {p} /\ pusher'[p].node = n
    BY <1>1, <1>2 DEF Inside, Closing, ListOK, ListTypes
  <1>7. ListTypes'
    <2>1. next' \in [Cell -> Cell \cup {NoNode}]
      BY <1>2, <1>4 DEF ListOK, ListTypes, Cell
    <2>2. pusher' \in [Pusher -> [at : {"idle", "link", "close"}, node : Node \cup {NoNode}]]
      BY <1>1 DEF ListOK, ListTypes
    <2> QED BY <1>1, <2>1, <2>2 DEF ListOK, ListTypes
  <1>8. OneAtATime' /\ InOrder' /\ Popping'
    BY <1>1, <1>2, <1>4, <1>5, <1>6, ListFacts DEF ListOK, OneAtATime, InOrder, Popping
  <1>9. LastOf # n /\ n # Ring
    BY <1>2, ListFacts, RingAssumption DEF LastOf
  <1>10. Pushing'
    BY <1>1, <1>2, <1>4, <1>5, <1>6, <1>9 DEF Pushing, ListOK, ListTypes, Cell
  <1>11. next'[LastOf] = n /\ \A c \in Cell : c # LastOf => next'[c] = next[c]
    BY <1>4, ListFacts DEF ListOK, ListTypes
  <1>12. LinkedOn'
    <2>1. ASSUME NEW i \in 1..(Len(queue) - 1) PROVE next'[queue[i]] = queue[i + 1]
      <3>1. i \in 1..Len(queue) /\ i # Len(queue) /\ Len(queue) \in 1..Len(queue) /\ queue # <<>>
        BY ListFacts
      <3>2. queue[i] # LastOf /\ queue[i] \in Cell
        BY <3>1, ListFacts DEF LastOf, Cell
      <3> QED BY <1>11, <3>2 DEF ListOK, LinkedOn
    <2>2. queue # <<>> => next'[Ring] = IF svc.at \in {"backward", "free"} THEN SecondOf ELSE queue[1]
      <3>1. queue # <<>> => LastOf # Ring
        BY ListFacts DEF LastOf
      <3> QED BY <1>11, <3>1, ListFacts DEF ListOK, LinkedOn, Cell
    <2> QED BY <1>1, <1>5, <1>6, <1>11, <2>1, <2>2 DEF LinkedOn
  <1>13. LinkedBack'
    BY <1>1, <1>5 DEF ListOK, LinkedBack
  <1> QED BY <1>7, <1>8, <1>10, <1>12, <1>13 DEF ListOK

LEMMA CloseOK ==
    ASSUME ListOK, ~raced', NEW p \in Pusher, Close(p)
    PROVE  ListOK'
  <1> DEFINE n == pusher[p].node
             m == Len(queue)
  <1>1. /\ pusher[p].at = "close" /\ pusher' = [pusher EXCEPT ![p] = Resting]
        /\ prev' = [prev EXCEPT ![Ring] = n] /\ queue' = Append(queue, n) /\ order' = Append(order, n)
        /\ UNCHANGED <<next, svc, popped, freed, corrupt>>
    BY DEF Close
  <1>2. /\ p \in Closing /\ n \in Node /\ ~Among(n, order) /\ next[n] = Ring /\ prev[n] = LastOf
        /\ Inside = {p} /\ next[LastOf] = n
    BY <1>1 DEF Inside, Closing, ListOK, Pushing, OneAtATime, LinkedOn
  <1>3. Inside' = {} /\ Closing' = {}
    BY <1>1, <1>2 DEF Inside, Closing, ListOK, ListTypes, Resting
  <1>4. ListTypes'
    BY <1>1, <1>2, RingAssumption DEF ListOK, ListTypes, Cell, Resting
  <1>5. /\ queue \in Seq(Node) /\ m \in Nat /\ Len(queue') = m + 1 /\ queue'[m + 1] = n /\ queue' # <<>>
        /\ \A i \in 1..m : queue'[i] = queue[i]
        /\ order \in Seq(Node) /\ popped \in Seq(Node)
    <2>1. queue \in Seq(Node) /\ order \in Seq(Node) /\ popped \in Seq(Node) /\ queue' = Append(queue, n) /\ n \in Node
      BY <1>1, <1>2 DEF ListOK, ListTypes
    <2> HIDE DEF n
    <2>2. m \in Nat /\ Len(queue') = m + 1 /\ queue'[m + 1] = n /\ \A i \in 1..m : queue'[i] = queue[i]
      BY <2>1
    <2>3. queue' # <<>>
      BY <2>1
    <2> QED BY <2>1, <2>2, <2>3
  <1>6. LastOf' = n /\ (svc.at # "idle" => SecondOf' = SecondOf /\ m > 1)
    <2>1. LastOf' = n
      BY <1>5 DEF LastOf
    <2>2. svc.at # "idle" => m > 1
      BY <1>2 DEF ListOK, OneAtATime
    <2>3. m > 1 => SecondOf' = SecondOf
      BY <1>5 DEF SecondOf
    <2> QED BY <2>1, <2>2, <2>3
  <1>7. InOrder'
    <2>1. popped' \o queue' = order'
      <3>1. popped \o Append(queue, n) = Append(popped \o queue, n)
        BY <1>2, <1>5
      <3> QED BY <1>1, <3>1 DEF ListOK, InOrder
    <2>2. Differ(order')
      <3>1. /\ DOMAIN order = 1..Len(order) /\ DOMAIN order' = 1..(Len(order) + 1) /\ order'[Len(order) + 1] = n
            /\ Len(order) \in Nat /\ \A i \in 1..Len(order) : order'[i] = order[i]
        BY <1>1, <1>2, <1>5
      <3>2. \A i \in 1..Len(order) : order[i] # n
        BY <1>2, <3>1 DEF Among
      <3>3. \A i, j \in 1..Len(order) : order[i] = order[j] => i = j
        BY <3>1 DEF ListOK, InOrder, Differ
      <3> QED BY <3>1, <3>2, <3>3 DEF Differ
    <2> QED BY <1>1, <2>1, <2>2 DEF ListOK, InOrder
  <1>8. OneAtATime' /\ Pushing'
    BY <1>3 DEF OneAtATime, Pushing
  <1>9. Popping'
    <2>1. svc'.at # "idle" => svc'.front = queue'[1]
      BY <1>1, <1>5, <1>6 DEF ListOK, Popping
    <2> QED BY <1>1, <1>5, <1>6, <2>1 DEF ListOK, Popping
  <1>10. LinkedOn'
    <2>1. ASSUME NEW i \in 1..m PROVE next[queue'[i]] = queue'[i + 1]
      <3>1. CASE i = m
        <4>1. queue # <<>> /\ LastOf = queue[m]
          BY <1>5, <3>1 DEF LastOf
        <4> QED BY <1>2, <1>5, <3>1, <4>1
      <3>2. CASE i # m
        <4>1. i \in 1..(m - 1) /\ i \in 1..m /\ i + 1 \in 1..m
          BY <1>5, <3>2
        <4>2. next[queue[i]] = queue[i + 1]
          BY <4>1 DEF ListOK, LinkedOn
        <4> QED BY <1>5, <4>1, <4>2
      <3> QED BY <3>1, <3>2
    <2>2. next[Ring] = IF svc.at \in {"backward", "free"} THEN SecondOf' ELSE queue'[1]
      <3>1. CASE m = 0
        <4>1. queue = <<>> /\ LastOf = Ring /\ svc.at = "idle" /\ queue'[1] = n
          BY <1>5, <1>6, <3>1 DEF LastOf
        <4> QED BY <1>2, <4>1
      <3>2. CASE m # 0
        <4>1. queue # <<>> /\ queue'[1] = queue[1] /\ 1 \in 1..m
          BY <1>5, <3>2
        <4> QED BY <1>6, <4>1 DEF ListOK, LinkedOn
      <3> QED BY <3>1, <3>2
    <2>3. (Len(queue') - 1) = m
      BY <1>5
    <2>4. \A i \in 1..(Len(queue') - 1) : next'[queue'[i]] = queue'[i + 1]
      BY <1>1, <2>1, <2>3
    <2>5. next'[queue'[Len(queue')]] = Ring
      BY <1>1, <1>2, <1>5
    <2>6. next'[Ring] = IF svc'.at \in {"backward", "free"} THEN SecondOf' ELSE queue'[1]
      BY <1>1, <2>2
    <2> QED BY <1>3, <1>5, <2>4, <2>5, <2>6 DEF LinkedOn
  <1>11. LinkedBack'
    <2>1. prev'[Ring] = n /\ \A c \in Node : prev'[c] = prev[c]
      BY <1>1, RingAssumption DEF ListOK, ListTypes, Cell
    <2>2. ASSUME NEW i \in 2..(m + 1)
          PROVE  prev'[queue'[i]] = IF i = 2 /\ svc.at = "free" THEN Ring ELSE queue'[i - 1]
      <3>1. CASE i = m + 1
        <4>1. queue # <<>> /\ LastOf = queue[m] /\ m \in 1..m /\ queue'[i - 1] = queue[m] /\ queue'[i] = n
          BY <1>5, <3>1 DEF LastOf
        <4>2. ~(i = 2 /\ svc.at = "free")
          BY <1>5, <1>6, <3>1
        <4> QED BY <1>2, <2>1, <4>1, <4>2
      <3>2. CASE i # m + 1
        <4>1. i \in 2..m /\ i \in 1..m /\ i - 1 \in 1..m
          BY <1>5, <3>2
        <4>2. prev[queue[i]] = IF i = 2 /\ svc.at = "free" THEN Ring ELSE queue[i - 1]
          BY <4>1 DEF ListOK, LinkedBack
        <4>3. queue[i] \in Node
          BY <4>1, ListFacts
        <4> QED BY <1>5, <2>1, <4>1, <4>2, <4>3
      <3> QED BY <3>1, <3>2
    <2>3. prev'[queue'[1]] = Ring
      <3>1. CASE m = 0
        BY <1>2, <1>5, <2>1, <3>1 DEF LastOf
      <3>2. CASE m # 0
        <4>1. queue # <<>> /\ queue'[1] = queue[1] /\ 1 \in 1..m /\ queue[1] \in Node
          BY <1>5, <3>2
        <4> QED BY <2>1, <4>1 DEF ListOK, LinkedBack
      <3> QED BY <3>1, <3>2
    <2>4. ~(svc.at = "free" /\ m + 1 = 1)
      BY <1>5, <1>6
    <2>5. \A i \in 2..Len(queue') : prev'[queue'[i]] = IF i = 2 /\ svc'.at = "free" THEN Ring ELSE queue'[i - 1]
      BY <1>1, <1>5, <2>2
    <2>6. prev'[Ring] = IF svc'.at = "free" /\ Len(queue') = 1 THEN Ring ELSE LastOf'
      BY <1>1, <1>5, <1>6, <2>1, <2>4
    <2> QED BY <2>3, <2>5, <2>6 DEF LinkedBack
  <1> QED BY <1>4, <1>7, <1>8, <1>9, <1>10, <1>11 DEF ListOK

LEMMA PopFrontOK ==
    ASSUME ListOK, ~raced', PopFront
    PROVE  ListOK'
  <1>1. /\ svc.at = "idle" /\ next[Ring] # Ring /\ svc' = [NotInPop EXCEPT !.at = "read", !.front = next[Ring]]
        /\ UNCHANGED <<next, prev, pusher, queue, order, popped, freed, corrupt>>
    BY DEF PopFront
  <1>2. Inside = {} \/ Len(queue) > 1
    <2>1. Len(queue) \in Nat
      BY ListFacts
    <2>2. ~(Inside # {} /\ Len(queue) <= 1)
      BY DEF PopFront
    <2> QED BY <2>1, <2>2
  <1>3. queue # <<>> /\ next[Ring] = queue[1]
    <2>1. CASE Inside = {}
      <3>1. Closing = {}
        BY <2>1 DEF Inside, Closing
      <3> QED BY <1>1, <3>1 DEF ListOK, LinkedOn
    <2>2. CASE Len(queue) > 1
      <3>1. queue # <<>>
        BY <2>2, ListFacts
      <3> QED BY <1>1, <3>1 DEF ListOK, LinkedOn
    <2> QED BY <1>2, <2>1, <2>2
  <1>4. /\ svc'.at = "read" /\ svc'.front = queue[1]
        /\ svc' = [at |-> svc'.at, front |-> svc'.front, next |-> svc'.next, prev |-> svc'.prev]
    BY <1>1, <1>3 DEF NotInPop
  <1>5. Inside' = Inside /\ Closing' = Closing /\ LastOf' = LastOf /\ SecondOf' = SecondOf
    BY <1>1 DEF Inside, Closing, LastOf, SecondOf
  <1>6. ListTypes'
    BY <1>1, <1>4 DEF ListOK, ListTypes
  <1>7. OneAtATime' /\ InOrder' /\ Pushing' /\ Popping'
    BY <1>1, <1>2, <1>3, <1>4, <1>5 DEF ListOK, OneAtATime, InOrder, Pushing, Popping
  <1>8. LinkedOn' /\ LinkedBack'
    BY <1>1, <1>4, <1>5 DEF ListOK, LinkedOn, LinkedBack
  <1> QED BY <1>6, <1>7, <1>8 DEF ListOK

LEMMA ReadOK ==
    ASSUME ListOK, ~raced', Read
    PROVE  ListOK'
  <1>1. /\ svc.at = "read" /\ svc' = [svc EXCEPT !.at = "forward", !.next = next[svc.front], !.prev = prev[svc.front]]
        /\ UNCHANGED <<next, prev, pusher, queue, order, popped, freed, corrupt>>
    BY DEF Read
  <1>2. queue # <<>> /\ svc.front = queue[1] /\ Len(queue) \in Nat /\ Len(queue) >= 1
    BY <1>1, ListFacts DEF ListOK, Popping
  <1>3. prev[queue[1]] = Ring
    BY <1>2 DEF ListOK, LinkedBack
  <1>4. next[queue[1]] = SecondOf
    <2>1. CASE Len(queue) > 1
      <3>1. 1 \in 1..(Len(queue) - 1)
        BY <1>2, <2>1
      <3> QED BY <2>1, <3>1 DEF ListOK, LinkedOn, SecondOf
    <2>2. CASE ~(Len(queue) > 1)
      <3>0. \A m \in Nat : m >= 1 /\ ~(m > 1) => m = 1
        OBVIOUS
      <3>1. Len(queue) = 1
        BY <1>2, <2>2, <3>0
      <3>2. Closing = {}
        BY <1>1, <2>2 DEF ListOK, OneAtATime, Closing, Inside
      <3> QED BY <1>2, <3>1, <3>2 DEF ListOK, LinkedOn, SecondOf
    <2> QED BY <2>1, <2>2
  <1>5. /\ svc'.at = "forward" /\ svc'.front = queue[1] /\ svc'.prev = Ring /\ svc'.next = SecondOf
        /\ svc' = [at |-> svc'.at, front |-> svc'.front, next |-> svc'.next, prev |-> svc'.prev]
    BY <1>1, <1>2, <1>3, <1>4 DEF ListOK, ListTypes
  <1>6. Inside' = Inside /\ Closing' = Closing /\ LastOf' = LastOf /\ SecondOf' = SecondOf
    BY <1>1 DEF Inside, Closing, LastOf, SecondOf
  <1>7. ListTypes'
    BY <1>1, <1>5 DEF ListOK, ListTypes
  <1>8. OneAtATime' /\ InOrder' /\ Pushing' /\ Popping'
    BY <1>1, <1>2, <1>5, <1>6 DEF ListOK, OneAtATime, InOrder, Pushing, Popping
  <1>9. LinkedOn' /\ LinkedBack'
    BY <1>1, <1>5, <1>6 DEF ListOK, LinkedOn, LinkedBack
  <1> QED BY <1>7, <1>8, <1>9 DEF ListOK

LEMMA ForwardOK ==
    ASSUME ListOK, ~raced', Forward
    PROVE  ListOK'
  <1>1. /\ svc.at = "forward" /\ next' = [next EXCEPT ![svc.prev] = svc.next] /\ svc' = [svc EXCEPT !.at = "backward"]
        /\ corrupt' = (corrupt \/ svc.prev \in freed)
        /\ UNCHANGED <<prev, pusher, queue, order, popped, freed>>
    BY DEF Forward, Touches
  <1>2. queue # <<>> /\ svc.front = queue[1] /\ svc.prev = Ring /\ svc.next = SecondOf /\ Len(queue) \in Nat /\ Len(queue) >= 1
    BY <1>1, ListFacts DEF ListOK, Popping
  <1>3. next'[Ring] = SecondOf /\ \A n \in Node : next'[n] = next[n]
    BY <1>1, <1>2, RingAssumption DEF ListOK, ListTypes, Cell
  <1>4. ~corrupt'
    BY <1>1, <1>2, ListFacts DEF ListOK, InOrder
  <1>5. /\ svc'.at = "backward" /\ svc'.front = svc.front /\ svc'.prev = Ring /\ svc'.next = SecondOf
        /\ svc' = [at |-> svc'.at, front |-> svc'.front, next |-> svc'.next, prev |-> svc'.prev]
    BY <1>1, <1>2 DEF ListOK, ListTypes
  <1>6. Inside' = Inside /\ Closing' = Closing /\ LastOf' = LastOf /\ SecondOf' = SecondOf
    BY <1>1 DEF Inside, Closing, LastOf, SecondOf
  <1>7. ListTypes'
    <2>1. next' \in [Cell -> Cell \cup {NoNode}]
      BY <1>1, <1>2, ListFacts DEF ListOK, ListTypes
    <2> QED BY <1>1, <1>5, <2>1 DEF ListOK, ListTypes
  <1>8. OneAtATime' /\ InOrder' /\ Popping'
    BY <1>1, <1>2, <1>4, <1>5, <1>6 DEF ListOK, OneAtATime, InOrder, Popping
  <1>9. Pushing'
    BY <1>1, <1>3, <1>6 DEF ListOK, Pushing
  <1>10. LinkedOn'
    <2>1. \A i \in 1..Len(queue) : next'[queue[i]] = next[queue[i]]
      BY <1>3, ListFacts
    <2>2. \A i \in 1..(Len(queue) - 1) : next'[queue[i]] = queue[i + 1]
      BY <1>2, <2>1 DEF ListOK, LinkedOn
    <2>3. LastOf = queue[Len(queue)] /\ Len(queue) \in 1..Len(queue)
      BY <1>2 DEF LastOf
    <2>4. (Closing = {} => next'[queue[Len(queue)]] = Ring) /\ \A p \in Closing : next'[LastOf] = pusher[p].node
      BY <1>2, <2>1, <2>3 DEF ListOK, LinkedOn
    <2> QED BY <1>1, <1>2, <1>3, <1>5, <1>6, <2>2, <2>4 DEF LinkedOn
  <1>11. LinkedBack'
    BY <1>1, <1>5, <1>6 DEF ListOK, LinkedBack
  <1> QED BY <1>7, <1>8, <1>9, <1>10, <1>11 DEF ListOK

LEMMA BackwardOK ==
    ASSUME ListOK, ~raced', Backward
    PROVE  ListOK'
  <1>1. /\ svc.at = "backward" /\ prev' = [prev EXCEPT ![svc.next] = svc.prev] /\ svc' = [svc EXCEPT !.at = "free"]
        /\ corrupt' = (corrupt \/ svc.next \in freed)
        /\ UNCHANGED <<next, pusher, queue, order, popped, freed>>
    BY DEF Backward, Touches
  <1>2. queue # <<>> /\ svc.front = queue[1] /\ svc.prev = Ring /\ svc.next = SecondOf /\ Len(queue) \in Nat /\ Len(queue) >= 1
    BY <1>1, ListFacts DEF ListOK, Popping
  <1>3. SecondOf \in Cell /\ prev'[SecondOf] = Ring /\ \A c \in Cell : c # SecondOf => prev'[c] = prev[c]
    BY <1>1, <1>2, ListFacts DEF ListOK, ListTypes
  <1>4. ~corrupt'
    BY <1>1, <1>2, ListFacts DEF ListOK, InOrder
  <1>5. /\ svc'.at = "free" /\ svc'.front = svc.front /\ svc'.prev = Ring /\ svc'.next = SecondOf
        /\ svc' = [at |-> svc'.at, front |-> svc'.front, next |-> svc'.next, prev |-> svc'.prev]
    BY <1>1, <1>2 DEF ListOK, ListTypes
  <1>6. Inside' = Inside /\ Closing' = Closing /\ LastOf' = LastOf /\ SecondOf' = SecondOf
    BY <1>1 DEF Inside, Closing, LastOf, SecondOf
  <1>7. ListTypes'
    <2>1. prev' \in [Cell -> Cell \cup {NoNode}]
      BY <1>1, <1>2, ListFacts DEF ListOK, ListTypes, Cell
    <2> QED BY <1>1, <1>5, <2>1 DEF ListOK, ListTypes
  <1>8. OneAtATime' /\ InOrder' /\ Popping'
    BY <1>1, <1>2, <1>4, <1>5, <1>6 DEF ListOK, OneAtATime, InOrder, Popping
  <1>9. Pushing'
    <2>1. \A p \in Inside : pusher[p].node # SecondOf /\ pusher[p].node \in Cell
      <3>1. \A p \in Inside : pusher[p].node \in Node /\ pusher[p].node # Ring
        BY RingAssumption DEF ListOK, Pushing
      <3>2. Len(queue) > 1 => 2 \in 1..Len(queue)
        BY <1>2
      <3> QED BY <3>1, <3>2, ListFacts DEF SecondOf, Cell
    <2> QED BY <1>1, <1>3, <1>6, <2>1 DEF ListOK, Pushing
  <1>10. LinkedOn'
    BY <1>1, <1>5, <1>6 DEF ListOK, LinkedOn
  <1>11. LinkedBack'
    <2>1. ASSUME NEW i \in 2..Len(queue) PROVE prev'[queue[i]] = IF i = 2 THEN Ring ELSE queue[i - 1]
      <3>0. i \in 1..Len(queue) /\ 2 \in 1..Len(queue) /\ Len(queue) > 1
        BY <1>2
      <3>1. queue[i] = SecondOf <=> i = 2
        BY <3>0, ListFacts DEF SecondOf
      <3>2. queue[i] \in Cell
        BY <3>0, ListFacts DEF Cell
      <3>3. prev[queue[i]] = queue[i - 1]
        BY <1>1 DEF ListOK, LinkedBack
      <3> QED BY <1>3, <3>1, <3>2, <3>3
    <2>2. prev'[queue[1]] = Ring
      <3>1. 1 \in 1..Len(queue) /\ (Len(queue) > 1 => 2 \in 1..Len(queue))
        BY <1>2
      <3>2. queue[1] \in Cell /\ queue[1] # SecondOf
        BY <3>1, ListFacts DEF SecondOf, Cell
      <3> QED BY <1>2, <1>3, <3>2 DEF ListOK, LinkedBack
    <2>3. prev'[Ring] = IF Len(queue) = 1 THEN Ring ELSE LastOf
      <3>1. CASE Len(queue) = 1
        <4>1. SecondOf = Ring
          BY <3>1 DEF SecondOf
        <4> QED BY <1>3, <3>1, <4>1
      <3>2. CASE Len(queue) # 1
        <4>0. \A m \in Nat : m >= 1 /\ m # 1 => 2 \in 1..m /\ m > 1
          OBVIOUS
        <4>1. 2 \in 1..Len(queue) /\ Len(queue) > 1
          BY <1>2, <3>2, <4>0
        <4>2. SecondOf # Ring /\ Ring \in Cell
          BY <4>1, ListFacts DEF SecondOf, Cell
        <4>3. prev[Ring] = LastOf
          BY <1>1 DEF ListOK, LinkedBack
        <4> QED BY <1>3, <3>2, <4>2, <4>3
      <3> QED BY <3>1, <3>2
    <2> QED BY <1>1, <1>2, <1>5, <1>6, <2>1, <2>2, <2>3 DEF LinkedBack
  <1> QED BY <1>7, <1>8, <1>9, <1>10, <1>11 DEF ListOK

LEMMA FreeOK ==
    ASSUME ListOK, ~raced', Free
    PROVE  ListOK'
  <1> DEFINE m == Len(queue)
             n == svc.front
  <1>1. /\ svc.at = "free" /\ freed' = freed \cup {n} /\ popped' = Append(popped, n) /\ queue' = Tail(queue) /\ svc' = NotInPop
        /\ UNCHANGED <<next, prev, pusher, order, corrupt>>
    BY DEF Free
  <1>2. queue # <<>> /\ n = queue[1] /\ m \in Nat /\ m >= 1 /\ queue \in Seq(Node) /\ popped \in Seq(Node) /\ n \in Node
    <2>1. queue # <<>> /\ n = queue[1] /\ m \in Nat /\ m >= 1 /\ queue \in Seq(Node) /\ popped \in Seq(Node)
      BY <1>1, ListFacts DEF ListOK, Popping, ListTypes
    <2>2. 1 \in 1..m
      BY <2>1
    <2> QED BY <2>1, <2>2, ListFacts
  <1>3. queue' \in Seq(Node) /\ Len(queue') = m - 1 /\ \A i \in 1..(m - 1) : queue'[i] = queue[i + 1] /\ i + 1 \in 2..m /\ i + 1 \in 1..m
    <2>1. queue' \in Seq(Node) /\ Len(queue') = m - 1
      BY <1>1, <1>2
    <2>2. \A i \in 1..(m - 1) : queue'[i] = queue[i + 1]
      BY <1>1, <1>2
    <2>3. \A k \in Nat : \A i \in 1..(k - 1) : i + 1 \in 2..k /\ i + 1 \in 1..k
      OBVIOUS
    <2> QED BY <1>2, <2>1, <2>2, <2>3
  <1>4. Inside' = Inside /\ Closing' = Closing /\ (Inside # {} => m > 1)
    BY <1>1 DEF Inside, Closing, ListOK, OneAtATime
  <1>5. /\ svc'.at = "idle"
        /\ svc' = [at |-> svc'.at, front |-> svc'.front, next |-> svc'.next, prev |-> svc'.prev]
    BY <1>1 DEF NotInPop
  <1>6. queue' = <<>> <=> m = 1
    <2>1. queue' = <<>> <=> Len(queue') = 0
      BY <1>3
    <2> QED BY <1>2, <1>3, <2>1
  <1> HIDE DEF m, n
  <1>7. LastOf' = (IF m = 1 THEN Ring ELSE LastOf)
    <2>1. m > 1 => queue'[m - 1] = queue[m]
      <3>1. m > 1 => m - 1 \in 1..(m - 1) /\ (m - 1) + 1 = m
        BY <1>2
      <3> QED BY <1>3, <3>1
    <2>2. m # 1 => m > 1
      BY <1>2
    <2> QED BY <1>2, <1>3, <1>6, <2>1, <2>2 DEF LastOf, m
  <1>8. ListTypes'
    <2>1. popped' \in Seq(Node)
      BY <1>1, <1>2
    <2> QED BY <1>1, <1>3, <1>5, <2>1 DEF ListOK, ListTypes
  <1>9. OneAtATime'
    BY <1>4, <1>5 DEF ListOK, OneAtATime
  <1>10. InOrder'
    <2>1. popped' \o queue' = popped \o queue
      <3>1. Append(popped, n) \o Tail(queue) = popped \o queue
        BY <1>2
      <3> QED BY <1>1, <3>1
    <2>2. ASSUME NEW c \in freed' PROVE Among(c, popped')
      <3>1. /\ DOMAIN popped = 1..Len(popped) /\ DOMAIN popped' = 1..(Len(popped) + 1) /\ Len(popped) \in Nat
            /\ popped'[Len(popped) + 1] = n /\ \A i \in 1..Len(popped) : popped'[i] = popped[i]
        BY <1>1, <1>2
      <3>2. CASE c = n
        BY <3>1, <3>2 DEF Among
      <3>3. CASE c \in freed
        BY <3>1, <3>3 DEF Among, ListOK, InOrder
      <3> QED BY <1>1, <3>2, <3>3
    <2> QED BY <1>1, <2>1, <2>2 DEF ListOK, InOrder
  <1>11. Pushing'
    BY <1>1, <1>2, <1>4, <1>7 DEF ListOK, Pushing
  <1>12. Popping'
    BY <1>5 DEF Popping
  <1>13. LinkedOn'
    <2>1. ASSUME NEW i \in 1..(m - 2) PROVE next[queue'[i]] = queue'[i + 1]
      <3>1. i \in 1..(m - 1) /\ i + 1 \in 1..(m - 1)
        BY <1>2
      <3> QED BY <1>3, <3>1 DEF ListOK, LinkedOn, m
    <2>2. (m - 1) - 1 = m - 2
      BY <1>2
    <2>3. \A i \in 1..(Len(queue') - 1) : next'[queue'[i]] = queue'[i + 1]
      BY <1>1, <1>3, <2>1, <2>2
    <2>4. next[Ring] = SecondOf
      BY <1>1, <1>2 DEF ListOK, LinkedOn
    <2>5. CASE m = 1
      <3>1. next[Ring] = Ring /\ queue' = <<>> /\ Closing' = {} /\ Inside = {}
        BY <1>4, <1>6, <2>4, <2>5 DEF SecondOf, m, Closing, Inside
      <3> QED BY <1>1, <2>3, <3>1 DEF LinkedOn
    <2>6. CASE m # 1
      <3>1. m > 1 /\ queue' # <<>> /\ LastOf' = LastOf /\ 1 \in 1..(m - 1)
        BY <1>2, <1>6, <1>7, <2>6
      <3>2. next[Ring] = queue'[1]
        BY <1>3, <2>4, <3>1 DEF SecondOf, m
      <3>3. LastOf = queue[m] /\ LastOf' = queue'[Len(queue')]
        BY <1>2, <3>1 DEF LastOf, m
      <3>4. \A p \in Closing : next[LastOf] = pusher[p].node
        BY DEF ListOK, LinkedOn
      <3>5. Closing = {} => next[LastOf] = Ring
        BY <1>2, <3>3 DEF ListOK, LinkedOn, m
      <3> QED BY <1>1, <1>4, <1>5, <2>3, <3>1, <3>2, <3>3, <3>4, <3>5 DEF LinkedOn
    <2> QED BY <2>5, <2>6
  <1>14. LinkedBack'
    <2>1. ASSUME NEW i \in 2..(m - 1) PROVE prev[queue'[i]] = queue'[i - 1]
      <3>1. i \in 1..(m - 1) /\ i - 1 \in 1..(m - 1) /\ i + 1 \in 2..m /\ i + 1 # 2 /\ (i - 1) + 1 = i /\ (i + 1) - 1 = i
        BY <1>2
      <3>2. prev[queue[i + 1]] = queue[i]
        BY <3>1 DEF ListOK, LinkedBack, m
      <3> QED BY <1>3, <3>1, <3>2
    <2>2. queue' # <<>> => prev[queue'[1]] = Ring
      <3>1. m # 1 => 1 \in 1..(m - 1) /\ 2 \in 2..m
        BY <1>2
      <3> QED BY <1>1, <1>3, <1>6, <3>1 DEF ListOK, LinkedBack, m
    <2>3. prev[Ring] = IF m = 1 THEN Ring ELSE LastOf
      BY <1>1 DEF ListOK, LinkedBack, m
    <2> QED BY <1>1, <1>3, <1>5, <1>7, <2>1, <2>2, <2>3 DEF LinkedBack
  <1> QED BY <1>8, <1>9, <1>10, <1>11, <1>12, <1>13, <1>14 DEF ListOK

LEMMA ListStep == ListInv /\ [RaceNext]_raceVars => ListInv'
  <1> SUFFICES ASSUME ListInv, [RaceNext]_raceVars, ~raced' PROVE ListOK'
    BY DEF ListInv
  <1>1. CASE RaceNext
    <2>1. ListOK
      BY <1>1 DEF RaceNext, ListInv
    <2>2. ASSUME NEW p \in Pusher, NEW n \in Node, Allocate(p, n) PROVE ListOK'
      BY <2>1, <2>2, AllocateOK
    <2>3. ASSUME NEW p \in Pusher, Link(p) PROVE ListOK'
      BY <2>1, <2>3, LinkOK
    <2>4. ASSUME NEW p \in Pusher, Close(p) PROVE ListOK'
      BY <2>1, <2>4, CloseOK
    <2>5. CASE PopFront
      BY <2>1, <2>5, PopFrontOK
    <2>6. CASE Read
      BY <2>1, <2>6, ReadOK
    <2>7. CASE Forward
      BY <2>1, <2>7, ForwardOK
    <2>8. CASE Backward
      BY <2>1, <2>8, BackwardOK
    <2>9. CASE Free
      BY <2>1, <2>9, FreeOK
    <2> QED BY <1>1, <2>2, <2>3, <2>4, <2>5, <2>6, <2>7, <2>8, <2>9 DEF RaceNext
  <1>2. CASE UNCHANGED raceVars
    <2>1. ListOK
      BY <1>2 DEF raceVars, ListInv
    <2>2. /\ next' = next /\ prev' = prev /\ pusher' = pusher /\ svc' = svc /\ queue' = queue
          /\ order' = order /\ popped' = popped /\ freed' = freed /\ corrupt' = corrupt
      BY <1>2 DEF raceVars
    <2>3. Inside' = Inside /\ Closing' = Closing /\ LastOf' = LastOf /\ SecondOf' = SecondOf
      BY <2>2 DEF Inside, Closing, LastOf, SecondOf
    <2>4. ListTypes' /\ InOrder'
      BY <2>1, <2>2 DEF ListOK, ListTypes, InOrder
    <2>5. OneAtATime' /\ Pushing' /\ Popping'
      BY <2>1, <2>2, <2>3 DEF ListOK, OneAtATime, Pushing, Popping
    <2>6. LinkedOn' /\ LinkedBack'
      BY <2>1, <2>2, <2>3 DEF ListOK, LinkedOn, LinkedBack
    <2> QED BY <2>4, <2>5, <2>6 DEF ListOK
  <1> QED BY <1>1, <1>2

(* Between operations the ring of nodes is the queue between two sentinels. *)
LEMMA RestingIsLinked ==
    ASSUME ListOK, Inside = {}, svc.at = "idle"
    PROVE  Linked(queue)
  <1> DEFINE ring == <<Ring>> \o queue
             m    == Len(queue)
  <1>1. queue \in Seq(Node) /\ m \in Nat /\ (queue = <<>> <=> m = 0) /\ Closing = {}
    BY ListFacts DEF ListOK, ListTypes, Closing, Inside
  <1>2. /\ Len(ring) = m + 1 /\ DOMAIN ring = 1..(m + 1) /\ ring[1] = Ring
        /\ \A i \in 1..m : ring[i + 1] = queue[i]
    BY <1>1
  <1> HIDE DEF ring, m
  <1>3. ASSUME NEW i \in 1..(m + 1)
        PROVE  /\ next[ring[i]] = ring[(i % (m + 1)) + 1]
               /\ prev[ring[(i % (m + 1)) + 1]] = ring[i]
    <2>1. CASE i = m + 1
      <3>1. (m + 1) % (m + 1) = 0
        BY <1>1
      <3>2. ring[(i % (m + 1)) + 1] = Ring
        BY <1>2, <2>1, <3>1
      <3>3. ring[m + 1] = LastOf
        <4>1. CASE m = 0
          BY <1>1, <1>2, <4>1 DEF LastOf
        <4>2. CASE m # 0
          <5>1. m \in 1..m
            BY <1>1, <4>2
          <5> QED BY <1>1, <1>2, <4>2, <5>1 DEF LastOf, m
        <4> QED BY <4>1, <4>2
      <3>4. next[LastOf] = Ring /\ prev[Ring] = LastOf
        BY <1>1 DEF ListOK, LinkedOn, LinkedBack, LastOf
      <3> QED BY <2>1, <3>2, <3>3, <3>4
    <2>2. CASE i = 1 /\ i # m + 1
      <3>1. m # 0 /\ 1 \in 1..m /\ 1 % (m + 1) = 1
        BY <1>1, <2>2
      <3>2. ring[(i % (m + 1)) + 1] = queue[1] /\ ring[i] = Ring
        BY <1>2, <2>2, <3>1
      <3> QED BY <1>1, <3>1, <3>2 DEF ListOK, LinkedOn, LinkedBack
    <2>3. CASE i # 1 /\ i # m + 1
      <3>1. i \in 2..m /\ i \in 1..m /\ i - 1 \in 1..m /\ i - 1 \in 1..(m - 1) /\ (i - 1) + 1 = i
        BY <1>1, <2>3
      <3>2. i % (m + 1) = i
        BY <1>1, <3>1
      <3>3. ring[(i % (m + 1)) + 1] = queue[i] /\ ring[i] = queue[i - 1]
        BY <1>2, <3>1, <3>2
      <3>4. next[queue[i - 1]] = queue[(i - 1) + 1] /\ prev[queue[i]] = queue[i - 1]
        BY <3>1 DEF ListOK, LinkedOn, LinkedBack, m
      <3> QED BY <3>1, <3>3, <3>4
    <2> QED BY <2>1, <2>2, <2>3
  <1> QED BY <1>2, <1>3 DEF Linked, ring

(* As long as no two pushes meet, and no push meets a pop on a list of     *)
(* fewer than two nodes, res_list_ is whole whenever no thread is at work  *)
(* on it: its links are those of the URLs submitted and not read, svc has  *)
(* read them in the order of their push, and no node svc has freed was     *)
(* written.  For any number of thrift threads and of submitted URLs.       *)
THEOREM ResListStaysWhole == RaceSpec => []LongListsStayWhole
  <1>1. ListInv => LongListsStayWhole
    BY RestingIsLinked DEF ListInv, ListOK, InOrder, LongListsStayWhole
  <1> QED BY <1>1, ListInit, ListStep, PTL DEF RaceSpec

-----------------------------------------------------------------------------
(* SiteRate: for any interval, number of addresses and width of an int.    *)
(*                                                                         *)
(* A turn that has ended is remembered by its address (Rested): since then *)
(* the clock has gone on by Gap for each turn after it.  The latest fetch  *)
(* is known in whole seconds only, so that Latest is what its end may have *)
(* been.                                                                   *)

Gap        == Share - (Ms - 1)
TurnsEnded == IF site = "idle" THEN last_used_ip ELSE last_used_ip - 1
Latest     == last_fetch_time_ * Ms + (Ms - 1)

RateTypes ==
    /\ clock \in Nat /\ last_fetch_time_ \in Int /\ last_fetch_time_ <= Now
    /\ site \in {"idle", "waiting", "loading"}
    /\ ip_num \in 1..MaxIps /\ last_used_ip \in Nat
    /\ wait_ms \in Nat /\ due \in Nat
    /\ ip \in 0..(ip_num - 1) \cup {Never}
    /\ ended \in [0..(MaxIps - 1) -> Nat \cup {Never}]

UnderWay ==
    /\ ip = Never => ended = Unused
    /\ site # "idle" /\ ip # Never => last_used_ip >= 1 /\ ip = (last_used_ip - 1) % ip_num
    /\ site = "waiting" /\ ip # Never => due >= last_fetch_time_ * Ms + Share

Rested(a) ==
    /\ ended[a] <= clock
    /\ \E t \in 0..(TurnsEnded - 1) :
         /\ t % ip_num = a
         /\ IF site = "loading" THEN clock - ended[a] >= (TurnsEnded - t) * Gap
            ELSE Latest - ended[a] >= (TurnsEnded - 1 - t) * Gap

TurnsRest == \A a \in 0..(MaxIps - 1) : ended[a] # Never => Rested(a)
RateInv   == RateTypes /\ UnderWay /\ TurnsRest

LEMMA Division ==
    ASSUME NEW u \in Nat, NEW n \in Nat \ {0}
    PROVE  /\ u \div n \in Nat /\ u % n \in 0..(n - 1)
           /\ u = n * (u \div n) + (u % n)
  OBVIOUS

LEMMA NextTurnIsFar ==
    ASSUME NEW u \in Nat, NEW t \in Nat, t < u, NEW n \in Nat \ {0}, t % n = u % n
    PROVE  u - t >= n
  <1> DEFINE a == u \div n
             b == t \div n
             r == u % n
  <1>0. /\ a \in Nat /\ u % n \in 0..(n - 1) /\ u = n * a + (u % n)
        /\ b \in Nat /\ t % n \in 0..(n - 1) /\ t = n * b + (t % n)
    <2>1. a \in Nat /\ u % n \in 0..(n - 1) /\ u = n * a + (u % n)
      BY ONLY Division, u \in Nat, n \in Nat \ {0}
    <2>2. b \in Nat /\ t % n \in 0..(n - 1) /\ t = n * b + (t % n)
      BY ONLY Division, t \in Nat, n \in Nat \ {0}
    <2> QED BY <2>1, <2>2
  <1> HIDE DEF a, b
  <1>1. a \in Nat /\ b \in Nat /\ r \in Nat /\ u = n * a + r /\ t = n * b + r
    BY <1>0
  <1> HIDE DEF r
  <1>2. u - t = n * (a - b)
    BY <1>1
  <1>3. a - b > 0
    <2>1. CASE a <= b
      <3>1. n * a <= n * b
        BY <1>1, <2>1
      <3> QED BY <1>1, <3>1
    <2> QED BY <1>1, <2>1
  <1>4. \A d \in Int : d > 0 => n * d >= n
    OBVIOUS
  <1> QED BY <1>1, <1>2, <1>3, <1>4

\* time(2) is the clock without the part of a second
LEMMA SecondsOf ==
    ASSUME NEW c \in Nat
    PROVE  /\ c \div Ms \in Nat
           /\ (c \div Ms) * Ms <= c /\ c <= (c \div Ms) * Ms + (Ms - 1)
           /\ c \div Ms <= (c + 1) \div Ms
  <1>1. Ms \in Nat \ {0}
    BY RateAssumption
  <1> DEFINE q == c \div Ms
             r == c % Ms
             s == (c + 1) \div Ms
             e == (c + 1) % Ms
  <1>2. q \in Nat /\ r \in 0..(Ms - 1) /\ c = Ms * q + r
    BY <1>1, Division
  <1>3. s \in Nat /\ e \in 0..(Ms - 1) /\ c + 1 = Ms * s + e
    <2>1. c + 1 \in Nat
      OBVIOUS
    <2> DEFINE d == c + 1
    <2>2. d \in Nat
      BY <2>1
    <2> HIDE DEF d
    <2>3. d \div Ms \in Nat /\ d % Ms \in 0..(Ms - 1) /\ d = Ms * (d \div Ms) + (d % Ms)
      BY <1>1, <2>2, Division
    <2> QED BY <2>3 DEF d
  <1> HIDE DEF q, r, s, e
  <1>4. q <= s
    <2>1. CASE s + 1 <= q
      <3>1. Ms * (s + 1) <= Ms * q
        BY <1>1, <1>2, <1>3, <2>1
      <3>2. Ms * (s + 1) = Ms * s + Ms
        BY <1>1, <1>3
      <3> QED BY <1>1, <1>2, <1>3, <3>1, <3>2
    <2> QED BY <1>2, <1>3, <2>1
  <1>5. Ms * q = q * Ms
    BY <1>1, <1>2
  <1> QED BY <1>1, <1>2, <1>4, <1>5 DEF q, s

LEMMA ShareFacts ==
    ASSUME ip_num \in 1..MaxIps
    PROVE  Share \in Nat /\ Share <= fetch_interval_ * Ms
  <1>1. fetch_interval_ * Ms \in Nat /\ ip_num \in Nat \ {0}
    BY RateAssumption
  <1> DEFINE w == fetch_interval_ * Ms
             q == w \div ip_num
  <1>2. w \in Nat
    BY <1>1
  <1> HIDE DEF w
  <1>3. q \in Nat /\ w % ip_num \in 0..(ip_num - 1) /\ w = ip_num * q + (w % ip_num)
    BY <1>1, <1>2, Division
  <1> HIDE DEF q
  <1>4. ip_num * q >= q
    BY <1>1, <1>3
  <1>5. q <= w
    <2>1. ip_num * q \in Nat /\ w % ip_num \in Nat
      BY <1>1, <1>3
    <2> QED BY <1>2, <1>3, <1>4, <2>1
  <1> QED BY <1>3, <1>5 DEF Share, w, q

\* an int takes the value while it has room for it, and never one above it
LEMMA AsIntFacts ==
    ASSUME NEW n \in Int
    PROVE  /\ AsInt(n) \in Int
           /\ n + IntWidth \div 2 >= 0 => AsInt(n) <= n
           /\ n >= 0 /\ n < IntWidth \div 2 => AsInt(n) = n
  <1> DEFINE h == IntWidth \div 2
  <1>1. IntWidth \in Nat \ {0} /\ h \in Nat /\ IntWidth = 2 * h
    BY RateAssumption
  <1> HIDE DEF h
  <1>2. AsInt(n) = ((n + h) % IntWidth) - h
    BY DEF AsInt, h
  <1>3. (n + h) % IntWidth \in Int
    BY <1>1
  <1>4. n + h >= 0 => (n + h) % IntWidth <= n + h
    BY <1>1
  <1>5. n >= 0 /\ n < h => (n + h) % IntWidth = n + h
    BY <1>1
  <1> QED BY <1>1, <1>2, <1>3, <1>4, <1>5 DEF h

LEMMA WaitFacts ==
    ASSUME RateTypes
    PROVE  LET since == Now - last_fetch_time_
           IN /\ since \in Nat /\ WaitMs(since) \in Nat
              /\ WaitMs(since) > Share => since * Ms > IntWidth \div 2
              /\ fetch_interval_ * Ms < IntWidth \div 2
                    => clock + WaitMs(since) >= last_fetch_time_ * Ms + Share
  <1> DEFINE since == Now - last_fetch_time_
             h == IntWidth \div 2
             w == fetch_interval_ * Ms
             x == since * Ms
             n == Share - x
             l == last_fetch_time_ * Ms
  <1>1. Ms \in Nat \ {0} /\ w \in Nat /\ h \in Nat
    BY RateAssumption
  <1>2. Now \in Nat /\ Now * Ms <= clock /\ last_fetch_time_ \in Int /\ since \in Nat /\ clock \in Nat
    <2>1. clock \in Nat /\ last_fetch_time_ \in Int /\ last_fetch_time_ <= Now
      BY DEF RateTypes
    <2>2. Now \in Nat /\ Now * Ms <= clock
      BY <2>1, SecondsOf DEF Now
    <2> QED BY <2>1, <2>2
  <1>3. x \in Nat /\ l \in Int /\ x = Now * Ms - l
    BY <1>1, <1>2
  <1>4. Share \in Nat /\ Share <= w
    BY ShareFacts DEF RateTypes
  <1>5. n \in Int
    BY <1>3, <1>4
  <1>6. WaitMs(since) = IF AsInt(n) < 0 THEN 0 ELSE AsInt(n)
    BY DEF WaitMs, NotNegative
  <1>7. AsInt(n) \in Int /\ (n + h >= 0 => AsInt(n) <= n) /\ (n >= 0 /\ n < h => AsInt(n) = n)
    BY <1>5, AsIntFacts
  <1>8. Now * Ms \in Nat
    BY <1>1, <1>2
  <1> HIDE DEF since, h, w, x, l
  <1>9. n = Share - x
    OBVIOUS
  <1> HIDE DEF n
  <1>10. WaitMs(since) \in Nat
    BY <1>6, <1>7
  <1>11. WaitMs(since) > Share => x > h
    BY <1>1, <1>3, <1>4, <1>5, <1>6, <1>7, <1>9
  <1>12. w < h => clock + WaitMs(since) >= l + Share
    <2> SUFFICES ASSUME w < h PROVE clock + WaitMs(since) >= l + Share
      OBVIOUS
    <2>1. CASE n < 0
      BY <1>2, <1>3, <1>4, <1>8, <1>9, <1>10, <2>1
    <2>2. CASE n >= 0
      <3>1. n < h
        BY <1>1, <1>3, <1>4, <1>5, <1>9
      <3>2. WaitMs(since) = n
        BY <1>5, <1>6, <1>7, <2>2, <3>1
      <3> QED BY <1>2, <1>3, <1>4, <1>8, <1>9, <3>2
    <2> QED BY <1>5, <2>1, <2>2
  <1> QED BY <1>2, <1>10, <1>11, <1>12 DEF since, h, w, x, l

LEMMA RateTypesInit == RateInit => RateTypes
  <1> SUFFICES ASSUME RateInit PROVE RateTypes
    OBVIOUS
  <1>1. clock \in Nat /\ fetch_interval_ \in Nat /\ MaxIps \in Nat \ {0}
    <2>1. fetch_interval_ * Ms \in Nat /\ fetch_interval_ * Ms + Ms - 1 \in Int
      BY RateAssumption
    <2>2. clock \in (fetch_interval_ * Ms)..(fetch_interval_ * Ms + Ms - 1)
      BY DEF RateInit
    <2> QED BY <2>1, <2>2, RateAssumption
  <1>2. Now \in Nat
    BY <1>1, SecondsOf DEF Now
  <1> QED BY <1>1, <1>2 DEF RateInit, RateTypes, Unused

LEMMA RateTypesStep == RateTypes /\ [RateNext]_rateVars => RateTypes'
  <1> SUFFICES ASSUME RateTypes, [RateNext]_rateVars PROVE RateTypes'
    OBVIOUS
  <1>1. Now \in Nat /\ clock \in Nat
    BY SecondsOf DEF RateTypes, Now
  <1>2. CASE HttpRequest
    <2>1. WaitMs(Now - last_fetch_time_) \in Nat
      BY WaitFacts
    <2>2. last_used_ip % ip_num \in 0..(ip_num - 1)
      BY DEF RateTypes
    <2>3. Now' = Now
      BY <1>2 DEF HttpRequest, Now
    <2>4. wait_ms' \in Nat /\ due' \in Nat
      BY <1>1, <1>2, <2>1 DEF HttpRequest
    <2>5. ip' \in 0..(ip_num - 1) \cup {Never}
      BY <1>2, <2>2 DEF HttpRequest
    <2> QED BY <1>1, <1>2, <2>3, <2>4, <2>5 DEF HttpRequest, RateTypes, NextUsed
  <1>3. CASE Load
    BY <1>3 DEF Load, RateTypes, Now
  <1>4. CASE HttpResult
    <2>1. ended' \in [0..(MaxIps - 1) -> Nat \cup {Never}]
      BY <1>4 DEF HttpResult, RateTypes
    <2> QED BY <1>1, <1>4, <2>1 DEF HttpResult, RateTypes, Now
  <1>5. CASE DnsFailure
    BY <1>1, <1>5 DEF DnsFailure, RateTypes, Now
  <1>6. CASE DnsAnswer
    BY <1>6 DEF DnsAnswer, RateTypes, Now, Unused
  <1>7. CASE Pass
    <2>1. clock' \in Nat /\ Now' \in Nat /\ Now <= Now'
      BY <1>1, <1>7, SecondsOf DEF Pass, Now
    <2>2. last_fetch_time_' \in Int /\ last_fetch_time_' <= Now'
      BY <1>1, <1>7, <2>1 DEF Pass, RateTypes
    <2> QED BY <1>7, <2>1, <2>2 DEF Pass, RateTypes
  <1>8. CASE UNCHANGED rateVars
    BY <1>8 DEF rateVars, RateTypes, Now
  <1> QED BY <1>2, <1>3, <1>4, <1>5, <1>6, <1>7, <1>8 DEF RateNext

(* Whatever the clock does and whatever DNS answers, no request is made to *)
(* wait longer than its address's share of the interval, except after the  *)
(* site was left alone for so long that the int of milliseconds wraps.     *)
THEOREM WaitIsBounded == RateSpec => WaitsItsShare
  <1>1. RateTypes /\ [RateNext]_rateVars
          => [site = "idle" /\ site' = "waiting" /\ wait_ms' > Share
                => (Now - last_fetch_time_) * Ms > IntWidth \div 2]_rateVars
    <2> SUFFICES ASSUME RateTypes, RateNext, site = "idle", site' = "waiting", wait_ms' > Share
                 PROVE  (Now - last_fetch_time_) * Ms > IntWidth \div 2
      OBVIOUS
    <2>1. HttpRequest
      BY DEF RateNext, Load, HttpResult, DnsFailure, DnsAnswer, Pass
    <2>2. wait_ms' = WaitMs(Now - last_fetch_time_)
      BY <2>1 DEF HttpRequest
    <2> QED BY <2>2, WaitFacts
  <1> QED BY <1>1, RateTypesInit, RateTypesStep, PTL DEF RateSpec, WaitsItsShare

-----------------------------------------------------------------------------
LEMMA RestInit == RateInit => UnderWay /\ TurnsRest
  BY DEF RateInit, UnderWay, TurnsRest, Unused

\* what all the steps need of the state
LEMMA RestFacts ==
    ASSUME RateTypes
    PROVE  /\ Ms \in Nat \ {0} /\ Gap \in Int /\ Latest \in Int /\ Share \in Nat
           /\ clock \in Nat /\ Now \in Nat /\ ip_num \in Nat \ {0}
           /\ last_fetch_time_ * Ms \in Int /\ last_fetch_time_ * Ms <= Now * Ms
           /\ Latest <= Now * Ms + (Ms - 1) /\ clock <= Now * Ms + (Ms - 1)
           /\ last_used_ip \in Nat /\ TurnsEnded \in Int /\ Never \notin Nat
           /\ \A a \in 0..(MaxIps - 1) : ended[a] # Never => ended[a] \in Nat
  <1>1. Ms \in Nat \ {0} /\ MaxIps \in Nat \ {0} /\ Never \notin Nat
    BY RateAssumption
  <1>2. clock \in Nat /\ Now \in Nat /\ clock <= Now * Ms + (Ms - 1)
    BY SecondsOf DEF RateTypes, Now
  <1>3. ip_num \in Nat \ {0} /\ Share \in Nat
    BY <1>1, ShareFacts DEF RateTypes
  <1>4. last_fetch_time_ \in Int /\ last_fetch_time_ <= Now
    BY DEF RateTypes
  <1>5. last_fetch_time_ * Ms <= Now * Ms /\ last_fetch_time_ * Ms \in Int /\ Now * Ms \in Int
    BY <1>1, <1>2, <1>4
  <1>6. last_used_ip \in Nat /\ TurnsEnded \in Int
    BY DEF RateTypes, TurnsEnded
  <1>7. \A a \in 0..(MaxIps - 1) : ended[a] # Never => ended[a] \in Nat
    BY DEF RateTypes
  <1>8. Gap \in Int /\ Latest \in Int /\ Latest <= Now * Ms + (Ms - 1)
    BY <1>1, <1>3, <1>5 DEF Gap, Latest
  <1> QED BY <1>1, <1>2, <1>3, <1>5, <1>6, <1>7, <1>8

LEMMA RestHttpRequest ==
    ASSUME RateTypes, UnderWay, TurnsRest, HttpRequest, fetch_interval_ * Ms < IntWidth \div 2
    PROVE  UnderWay' /\ TurnsRest'
  <1>1. /\ site = "idle" /\ site' = "waiting" /\ due' = clock + WaitMs(Now - last_fetch_time_)
        /\ ip' = last_used_ip % ip_num /\ last_used_ip' = last_used_ip + 1
        /\ UNCHANGED <<clock, last_fetch_time_, ip_num, ended>>
    BY DEF HttpRequest, NextUsed
  <1>2. last_used_ip % ip_num \in Nat /\ last_used_ip \in Nat /\ Never \notin Nat
    BY RestFacts DEF RateTypes
  <1>3. due' >= last_fetch_time_ * Ms + Share
    BY <1>1, WaitFacts
  <1>4. Share' = Share
    BY <1>1 DEF Share
  <1>5. (last_used_ip + 1) - 1 = last_used_ip /\ last_used_ip + 1 >= 1
    BY <1>2
  <1>6. UnderWay'
    BY <1>1, <1>2, <1>3, <1>4, <1>5 DEF UnderWay
  <1>7. TurnsEnded' = TurnsEnded /\ Latest' = Latest /\ Gap' = Gap
    BY <1>1, <1>4, <1>5 DEF TurnsEnded, Latest, Gap
  <1>8. TurnsRest'
    BY <1>1, <1>7 DEF TurnsRest, Rested
  <1> QED BY <1>6, <1>8

LEMMA RestLoad ==
    ASSUME RateTypes, UnderWay, TurnsRest, Load
    PROVE  UnderWay' /\ TurnsRest'
  <1>1. /\ site = "waiting" /\ clock >= due /\ site' = "loading"
        /\ UNCHANGED <<clock, last_fetch_time_, ip_num, last_used_ip, ip, ended>>
    BY DEF Load
  <1>2. UnderWay'
    BY <1>1 DEF UnderWay, Unused
  <1>3. TurnsEnded' = TurnsEnded /\ Gap' = Gap
    BY <1>1 DEF TurnsEnded, Gap, Share
  <1>4. ASSUME NEW a \in 0..(MaxIps - 1), ended[a] # Never PROVE Rested(a)'
    <2>1. ip # Never
      BY <1>4 DEF UnderWay, Unused
    <2>2. clock >= last_fetch_time_ * Ms + Share
      <3>1. due >= last_fetch_time_ * Ms + Share
        BY <1>1, <2>1 DEF UnderWay
      <3>2. due \in Nat
        BY DEF RateTypes
      <3> QED BY <1>1, <3>1, <3>2, RestFacts
    <2>3. clock >= Latest + Gap
      BY <2>2, RestFacts DEF Latest, Gap
    <2>4. PICK t \in 0..(TurnsEnded - 1) : t % ip_num = a /\ Latest - ended[a] >= (TurnsEnded - 1 - t) * Gap
      BY <1>1, <1>4 DEF TurnsRest, Rested
    <2>5. ended[a] <= clock /\ ended[a] \in Nat
      BY <1>4, RestFacts DEF TurnsRest, Rested
    <2>6. (TurnsEnded - t) * Gap = (TurnsEnded - 1 - t) * Gap + Gap /\ (TurnsEnded - 1 - t) * Gap \in Int
      <3>1. TurnsEnded \in Int /\ t \in Int /\ Gap \in Int
        BY <2>4, RestFacts
      <3> QED BY <3>1
    <2>7. clock - ended[a] >= (TurnsEnded - t) * Gap
      BY <2>3, <2>4, <2>5, <2>6, RestFacts
    <2> QED BY <1>1, <1>3, <2>4, <2>5, <2>7 DEF Rested
  <1> QED BY <1>1, <1>2, <1>4 DEF TurnsRest

LEMMA RestHttpResult ==
    ASSUME RateTypes, UnderWay, TurnsRest, HttpResult
    PROVE  UnderWay' /\ TurnsRest'
  <1>1. /\ site = "loading" /\ site' = "idle" /\ last_fetch_time_' = Now
        /\ ended' = IF ip = Never THEN ended ELSE [ended EXCEPT ![ip] = clock]
        /\ UNCHANGED <<clock, ip_num, last_used_ip, due, ip>>
    BY DEF HttpResult
  <1>2. UnderWay'
    BY <1>1 DEF UnderWay, Unused
  <1>3. /\ TurnsEnded = last_used_ip - 1 /\ TurnsEnded' = last_used_ip /\ Gap' = Gap
        /\ Latest' = Now * Ms + (Ms - 1)
    BY <1>1 DEF TurnsEnded, Gap, Share, Latest
  <1>4. clock \in Nat /\ Latest' \in Int /\ clock <= Latest' /\ last_used_ip \in Nat /\ Gap \in Int
    BY <1>3, RestFacts
  <1>5. ASSUME NEW a \in 0..(MaxIps - 1), ended'[a] # Never PROVE Rested(a)'
    <2>1. ip # Never
      BY <1>1, <1>5 DEF UnderWay, Unused
    <2>2. last_used_ip >= 1 /\ ip = (last_used_ip - 1) % ip_num
      BY <1>1, <2>1 DEF UnderWay
    <2>3. ended' = [ended EXCEPT ![ip] = clock] /\ a \in DOMAIN ended
      BY <1>1, <2>1 DEF RateTypes
    <2>4. CASE a = ip
      <3>1. ended'[a] = clock
        BY <2>3, <2>4
      <3>2. last_used_ip - 1 \in 0..(TurnsEnded' - 1) /\ (TurnsEnded' - 1 - (last_used_ip - 1)) = 0
        BY <1>3, <1>4, <2>2
      <3>3. Latest' - ended'[a] >= (TurnsEnded' - 1 - (last_used_ip - 1)) * Gap'
        BY <1>3, <1>4, <3>1, <3>2
      <3> QED BY <1>1, <1>4, <2>2, <2>4, <3>1, <3>2, <3>3 DEF Rested
    <2>5. CASE a # ip
      <3>1. ended'[a] = ended[a]
        BY <2>3, <2>5
      <3>2. ended[a] \in Nat /\ ended[a] <= clock
        BY <1>5, <3>1, RestFacts DEF TurnsRest, Rested
      <3>3. PICK t \in 0..(TurnsEnded - 1) : t % ip_num = a /\ clock - ended[a] >= (TurnsEnded - t) * Gap
        BY <1>1, <1>5, <3>1 DEF TurnsRest, Rested
      <3>4. t \in 0..(TurnsEnded' - 1) /\ TurnsEnded' - 1 - t = TurnsEnded - t /\ (TurnsEnded - t) * Gap \in Int
        BY <1>3, <1>4, <3>3
      <3>5. Latest' - ended'[a] >= (TurnsEnded' - 1 - t) * Gap'
        BY <1>3, <1>4, <3>1, <3>2, <3>3, <3>4
      <3> QED BY <1>1, <3>1, <3>2, <3>3, <3>4, <3>5 DEF Rested
    <2> QED BY <2>4, <2>5
  <1> QED BY <1>2, <1>5 DEF TurnsRest

LEMMA RestDnsFailure ==
    ASSUME RateTypes, UnderWay, TurnsRest, DnsFailure
    PROVE  UnderWay' /\ TurnsRest'
  <1>1. /\ site = "idle" /\ last_fetch_time_' = Now
        /\ UNCHANGED <<clock, site, ip_num, last_used_ip, due, ip, ended>>
    BY DEF DnsFailure
  <1>2. UnderWay'
    BY <1>1 DEF UnderWay, Unused
  <1>3. TurnsEnded' = TurnsEnded /\ Gap' = Gap /\ Latest' = Now * Ms + (Ms - 1)
    BY <1>1 DEF TurnsEnded, Gap, Share, Latest
  <1>4. Latest' \in Int /\ Latest \in Int /\ Latest <= Latest'
    BY <1>3, RestFacts
  <1>5. ASSUME NEW a \in 0..(MaxIps - 1), ended[a] # Never PROVE Rested(a)'
    <2>1. PICK t \in 0..(TurnsEnded - 1) : t % ip_num = a /\ Latest - ended[a] >= (TurnsEnded - 1 - t) * Gap
      BY <1>1, <1>5 DEF TurnsRest, Rested
    <2>2. ended[a] \in Nat /\ ended[a] <= clock
      BY <1>5, RestFacts DEF TurnsRest, Rested
    <2>3. (TurnsEnded - 1 - t) * Gap \in Int
      <3>1. TurnsEnded \in Int /\ t \in Int /\ Gap \in Int
        BY <2>1, RestFacts
      <3> QED BY <3>1
    <2>4. Latest' - ended[a] >= (TurnsEnded - 1 - t) * Gap
      BY <1>4, <2>1, <2>2, <2>3
    <2> QED BY <1>1, <1>3, <2>1, <2>2, <2>4 DEF Rested
  <1> QED BY <1>1, <1>2, <1>5 DEF TurnsRest

LEMMA RestPass ==
    ASSUME RateTypes, UnderWay, TurnsRest, Pass
    PROVE  UnderWay' /\ TurnsRest'
  <1>1. /\ clock' = clock + 1
        /\ UNCHANGED <<site, last_fetch_time_, ip_num, last_used_ip, due, ip, ended>>
    BY DEF Pass
  <1>2. UnderWay'
    BY <1>1 DEF UnderWay, Unused, Share
  <1>3. TurnsEnded' = TurnsEnded /\ Gap' = Gap /\ Latest' = Latest
    BY <1>1 DEF TurnsEnded, Gap, Share, Latest
  <1>4. ASSUME NEW a \in 0..(MaxIps - 1), ended[a] # Never PROVE Rested(a)'
    <2>1. ended[a] \in Nat /\ ended[a] <= clock /\ clock \in Nat
      BY <1>4, RestFacts DEF TurnsRest, Rested
    <2>2. PICK t \in 0..(TurnsEnded - 1) :
            /\ t % ip_num = a
            /\ IF site = "loading" THEN clock - ended[a] >= (TurnsEnded - t) * Gap
               ELSE Latest - ended[a] >= (TurnsEnded - 1 - t) * Gap
      BY <1>4 DEF TurnsRest, Rested
    <2>3. (TurnsEnded - t) * Gap \in Int
      <3>1. TurnsEnded \in Int /\ t \in Int /\ Gap \in Int
        BY <2>2, RestFacts
      <3> QED BY <3>1
    <2>4. site = "loading" => clock' - ended[a] >= (TurnsEnded - t) * Gap
      BY <1>1, <2>1, <2>2, <2>3
    <2>5. ended[a] <= clock'
      BY <1>1, <2>1
    <2> QED BY <1>1, <1>3, <2>2, <2>4, <2>5 DEF Rested
  <1> QED BY <1>1, <1>2, <1>4 DEF TurnsRest

LEMMA RateStep ==
    ASSUME fetch_interval_ * Ms < IntWidth \div 2
    PROVE  RateInv /\ [RateNext]_rateVars => RateInv'
  <1> SUFFICES ASSUME RateTypes, UnderWay, TurnsRest, [RateNext]_rateVars PROVE UnderWay' /\ TurnsRest'
    BY RateTypesStep DEF RateInv
  <1>1. CASE DnsAnswer
    <2>1. ended' = Unused
      BY <1>1 DEF DnsAnswer
    <2>2. ip' = Never /\ ended' = Unused'
      BY <1>1 DEF DnsAnswer, Unused
    <2>3. UnderWay'
      BY <2>2 DEF UnderWay
    <2>4. TurnsRest'
      BY <2>1 DEF TurnsRest, Unused
    <2> QED BY <2>3, <2>4
  <1>2. CASE UNCHANGED rateVars
    BY <1>2 DEF rateVars, UnderWay, TurnsRest, Rested, TurnsEnded, Latest, Gap, Share, Unused
  <1> QED BY <1>1, <1>2, RestHttpRequest, RestLoad, RestHttpResult, RestDnsFailure, RestPass DEF RateNext

LEMMA LoadRests ==
    ASSUME RateInv, Load, ip # Never
    PROVE  ended[ip] = Never \/ clock - ended[ip] >= ip_num * (Share - (Ms - 1))
  <1> SUFFICES ASSUME ended[ip] # Never PROVE clock - ended[ip] >= ip_num * Gap
    BY DEF Gap
  <1>1. ip \in 0..(MaxIps - 1) /\ site = "waiting" /\ site' = "loading" /\ UNCHANGED <<clock, last_used_ip, ip_num, ended>>
    <2>1. ip \in 0..(ip_num - 1) /\ ip_num \in 1..MaxIps /\ MaxIps \in Nat
      BY RateAssumption DEF RateInv, RateTypes
    <2> QED BY <2>1 DEF Load
  <1>2. Rested(ip)'
    <2>1. TurnsRest'
      BY RestLoad DEF RateInv
    <2>2. ended'[ip] # Never /\ ip' = ip
      BY <1>1 DEF Load
    <2> QED BY <1>1, <2>1, <2>2 DEF TurnsRest
  <1>3. TurnsEnded' = last_used_ip - 1 /\ Gap' = Gap /\ ip' = ip
    BY <1>1 DEF TurnsEnded, Gap, Share, Load
  <1>4. PICK t \in 0..(last_used_ip - 1 - 1) :
          t % ip_num = ip /\ clock - ended[ip] >= (last_used_ip - 1 - t) * Gap
    BY <1>1, <1>2, <1>3 DEF Rested
  <1>5. /\ last_used_ip - 1 \in Nat /\ t \in Nat /\ t < last_used_ip - 1 /\ ip_num \in Nat \ {0}
        /\ Gap \in Int /\ clock \in Nat /\ ended[ip] \in Nat
    BY <1>1, <1>4, RestFacts DEF RateInv
  <1>6. (last_used_ip - 1) - t >= ip_num
    <2>1. t % ip_num = (last_used_ip - 1) % ip_num
      BY <1>1, <1>4 DEF RateInv, UnderWay
    <2> QED BY <1>5, <2>1, NextTurnIsFar
  <1>7. ended[ip] <= clock
    BY <1>1 DEF RateInv, TurnsRest, Rested
  <1> DEFINE d == (last_used_ip - 1) - t
  <1>8. d \in Nat /\ d >= ip_num /\ clock - ended[ip] >= d * Gap
    BY <1>4, <1>5, <1>6
  <1> HIDE DEF d
  <1>9. CASE Gap >= 0
    <2>1. d * Gap >= ip_num * Gap /\ d * Gap \in Int /\ ip_num * Gap \in Int
      BY <1>5, <1>8, <1>9
    <2> QED BY <1>5, <1>8, <2>1
  <1>10. CASE Gap < 0
    <2>1. ip_num * Gap <= 0 /\ ip_num * Gap \in Int
      BY <1>5, <1>10
    <2> QED BY <1>5, <1>7, <2>1
  <1> QED BY <1>5, <1>9, <1>10

(* An address is not fetched from again before the interval has passed,    *)
(* but for the part of a second that each of the turns in between may cut  *)
(* off, for any interval whose milliseconds an int can count, any number   *)
(* of addresses and however clock, answers and failures fall.              *)
THEOREM AddressesRest ==
  ASSUME fetch_interval_ * Ms < IntWidth \div 2
  PROVE  RateSpec => AddressRests
  <1>1. RateInit => RateInv
    BY RateTypesInit, RestInit DEF RateInv
  <1>2. RateInv /\ [RateNext]_rateVars => RateInv'
    BY RateStep
  <1>3. RateInv /\ [RateNext]_rateVars
          => [site = "waiting" /\ site' = "loading" /\ ip # Never
                => ended[ip] = Never \/ clock - ended[ip] >= ip_num * (Share - (Ms - 1))]_rateVars
    <2> SUFFICES ASSUME RateInv, RateNext, site = "waiting", site' = "loading", ip # Never
                 PROVE  ended[ip] = Never \/ clock - ended[ip] >= ip_num * (Share - (Ms - 1))
      OBVIOUS
    <2>1. Load
      BY DEF RateNext, HttpRequest, HttpResult, DnsFailure, DnsAnswer, Pass
    <2> QED BY <2>1, LoadRests
  <1> QED BY <1>1, <1>2, <1>3, PTL DEF RateSpec, AddressRests

-----------------------------------------------------------------------------
(* PageExtract: for a host with any number of chains and any number of     *)
(* pages.  What the loop knows of the chains behind it (Passed) decides    *)
(* the value it leaves (Returns), and that what is written (Left).         *)

ChainAt    == DOMAIN html.chains
TriedAt(i) == Known(html.chains[i])
HitAt(i)   == TriedAt(i) /\ html.chains[i].found
BodyAt(i)  == html.chains[i].for = "BODY"
NoHit      == \A i \in ChainAt : ~HitAt(i)
NoneTried  == \A i \in ChainAt : ~TriedAt(i)
FirstHit(i) == i \in ChainAt /\ HitAt(i) /\ \A j \in ChainAt : HitAt(j) => i <= j
Stops == ~html.xml /\ \/ extractor = "service"
                      \/ \E i \in ChainAt : BodyAt(i) /\ \A h \in ChainAt : HitAt(h) => i <= h
Mine     == {i \in DOMAIN output : output[i][1] = extracts}
Wrote(c) == \E i \in DOMAIN output : Mine = {i} /\ output[i][2] = c

ExtractTypes ==
    /\ extractor \in {"page", "service"}
    /\ html \in [templates : BOOLEAN, xml : BOOLEAN, chains : Seq(Chain)]
    /\ chain \in Nat \ {0} /\ chain <= Len(html.chains) + 1
    /\ ret \in Int /\ json \in Nat /\ extracts \in Nat
    /\ output \in Seq(Nat \X Nat)
    /\ stage \in {"chains", "return", "next", "crash"}

Passed ==
    /\ json = NoJson
    /\ \A i \in 1..(chain - 1) : ~HitAt(i) /\ (~html.xml => extractor = "page" /\ ~BodyAt(i))
    /\ ret = 0 <=> extractor = "service" \/ \A i \in 1..(chain - 1) : ~TriedAt(i)

Returns ==
    \/ FirstHit(chain) /\ ~Stops /\ ret = 0 /\ json = chain
    \/ Stops /\ ret = -1
    \/ ~Stops /\ NoHit /\ json = NoJson /\ (ret = 0 <=> extractor = "service" \/ NoneTried)

Left ==
    \/ Stops /\ Mine = {}
    \/ ~Stops /\ \E i \in ChainAt : FirstHit(i) /\ Wrote(i)
    \/ ~Stops /\ NoHit /\ (NoneTried => Wrote(NoJson)) /\ (~NoneTried => Mine = {})

ExtractInv ==
    /\ ExtractTypes
    /\ \A i \in DOMAIN output : output[i][1] <= extracts
    /\ stage \in {"chains", "return"} => html.templates /\ Mine = {}
    /\ stage = "chains" => Passed
    /\ stage = "return" => Returns
    /\ stage = "crash"  => extractor = "service" /\ ~Stops /\ NoHit /\ Mine = {}
    /\ stage = "next"   => IF html.templates THEN Left ELSE Mine = {}

LEMMA LeftIsWritten == ExtractInv => FirstChainWritten
  <1> SUFFICES ASSUME ExtractInv PROVE FirstChainWritten
    OBVIOUS
  <1> DEFINE cs    == html.chains
             hits  == {i \in DOMAIN cs : Known(cs[i]) /\ cs[i].found}
             first == CHOOSE i \in hits : \A j \in hits : i <= j
             tried == {i \in DOMAIN cs : Known(cs[i])}
             stops == ~html.xml /\ (extractor = "service"
                         \/ \E i \in DOMAIN cs : cs[i].for = "BODY" /\ \A h \in hits : i <= h)
             mine  == {i \in DOMAIN output : output[i][1] = extracts}
             wrote(c) == \E i \in DOMAIN output : mine = {i} /\ output[i][2] = c
  <1>1. /\ \A i : i \in hits <=> i \in ChainAt /\ HitAt(i)
        /\ hits = {} <=> NoHit
        /\ tried = {} <=> NoneTried
    BY DEF HitAt, TriedAt, ChainAt, NoHit, NoneTried
  <1>2. stops <=> Stops
    BY <1>1 DEF Stops, BodyAt, ChainAt
  <1>3. ASSUME NEW i \in ChainAt, FirstHit(i) PROVE hits # {} /\ first = i
    <2>1. i \in hits /\ \A j \in hits : i <= j
      BY <1>1, <1>3 DEF FirstHit
    <2>2. hits \subseteq Nat
      BY DEF ExtractInv, ExtractTypes
    <2> HIDE DEF hits
    <2>3. first \in hits /\ \A j \in hits : first <= j
      BY <2>1
    <2>4. first <= i /\ i <= first
      BY <2>1, <2>3
    <2> HIDE DEF first
    <2> QED BY <2>1, <2>2, <2>3, <2>4
  <1>4. mine = Mine /\ \A c : wrote(c) <=> Wrote(c)
    BY DEF Mine, Wrote
  <1> HIDE DEF hits, first, tried, stops, mine, wrote
  <1>5. stage = "crash" => extractor = "service" /\ ~stops /\ hits = {} /\ mine = {}
    BY <1>1, <1>2, <1>4 DEF ExtractInv
  <1>6. stage = "next" =>
          IF ~html.templates \/ stops THEN mine = {}
          ELSE IF hits # {} THEN wrote(first)
          ELSE IF tried # {} THEN mine = {} ELSE wrote(NoJson)
    <2> SUFFICES ASSUME stage = "next", html.templates
                 PROVE  IF stops THEN mine = {}
                        ELSE IF hits # {} THEN wrote(first)
                        ELSE IF tried # {} THEN mine = {} ELSE wrote(NoJson)
      BY <1>4 DEF ExtractInv
    <2>1. CASE Stops /\ Mine = {}
      BY <1>2, <1>4, <2>1
    <2>2. CASE ~Stops /\ \E i \in ChainAt : FirstHit(i) /\ Wrote(i)
      BY <1>2, <1>3, <1>4, <2>2
    <2>3. CASE ~Stops /\ NoHit /\ (NoneTried => Wrote(NoJson)) /\ (~NoneTried => Mine = {})
      BY <1>1, <1>2, <1>4, <2>3
    <2> QED BY <2>1, <2>2, <2>3 DEF ExtractInv, Left
  <1> QED BY <1>5, <1>6 DEF FirstChainWritten, hits, first, tried, stops, mine, wrote

LEMMA ExtractInitOK == ExtractInit => ExtractInv
  <1> SUFFICES ASSUME ExtractInit PROVE ExtractInv
    OBVIOUS
  <1>1. output = <<>> /\ DOMAIN output = {} /\ Len(html.chains) = 0 /\ <<>> \in Seq(Chain)
    BY DEF ExtractInit
  <1>2. ExtractTypes
    BY <1>1 DEF ExtractInit, ExtractTypes, NoJson
  <1> QED BY <1>1, <1>2 DEF ExtractInit, ExtractInv, Mine

\* what a step that leaves page and output alone leaves alone
LEMMA SamePage ==
    ASSUME UNCHANGED <<extractor, html, extracts, output>>
    PROVE  /\ Stops' = Stops /\ NoHit' = NoHit /\ NoneTried' = NoneTried /\ Mine' = Mine /\ ChainAt' = ChainAt
           /\ \A i : HitAt(i)' = HitAt(i) /\ TriedAt(i)' = TriedAt(i) /\ BodyAt(i)' = BodyAt(i)
           /\ \A i : FirstHit(i)' = FirstHit(i)
           /\ \A c : Wrote(c)' = Wrote(c)
  BY DEF Stops, NoHit, NoneTried, Mine, ChainAt, HitAt, TriedAt, BodyAt, FirstHit, Wrote, Known

LEMMA ChainFacts ==
    ASSUME ExtractTypes
    PROVE  /\ ChainAt = 1..Len(html.chains) /\ Len(html.chains) \in Nat
           /\ chain \in Nat /\ chain >= 1
           /\ \A i \in ChainAt : html.chains[i] \in Chain
           /\ \A i \in ChainAt : BodyAt(i) => TriedAt(i)
  BY DEF ExtractTypes, ChainAt, BodyAt, TriedAt, Known

LEMMA TryChainOK ==
    ASSUME ExtractInv, TryChain
    PROVE  ExtractInv'
  <1>1. /\ stage = "chains" /\ Loaded /\ chain \in ChainAt /\ TriedAt(chain)
        /\ UNCHANGED <<extractor, html, output, extracts>>
        /\ ret' = IF extractor = "page" THEN Tried(html.chains[chain]) ELSE ret
        /\ json' = IF html.chains[chain].found THEN chain ELSE json
        /\ IF html.chains[chain].found THEN stage' = "return" /\ UNCHANGED chain
           ELSE chain' = chain + 1 /\ UNCHANGED stage
    BY ChainFacts DEF TryChain, TriedAt, Break, ExtractInv
  <1>2. ExtractTypes /\ html.templates /\ Mine = {} /\ Passed /\ \A i \in DOMAIN output : output[i][1] <= extracts
    BY <1>1 DEF ExtractInv
  <1>3. chain \in 1..Len(html.chains) /\ html.chains[chain] \in Chain /\ Len(html.chains) \in Nat /\ chain \in Nat
    BY <1>1, <1>2, ChainFacts
  <1>4. ExtractTypes'
    <2>1. ret' \in Int /\ json' \in Nat /\ stage' \in {"chains", "return", "next", "crash"}
      BY <1>1, <1>2, <1>3 DEF ExtractTypes, Tried
    <2>2. chain' \in Nat \ {0} /\ chain' <= Len(html.chains) + 1
      BY <1>1, <1>2, <1>3 DEF ExtractTypes
    <2> QED BY <1>1, <1>2, <2>1, <2>2 DEF ExtractTypes
  <1>5. Mine' = {} /\ html'.templates /\ \A i \in DOMAIN output' : output'[i][1] <= extracts'
    BY <1>1, <1>2, SamePage
  <1>6. CASE html.chains[chain].found
    <2>1. FirstHit(chain)
      <3>1. \A j \in ChainAt : HitAt(j) => chain <= j
        <4>1. \A j \in ChainAt : j < chain => j \in 1..(chain - 1)
          BY <1>2, <1>3, ChainFacts
        <4>2. \A j \in ChainAt : ~(j < chain) => chain <= j
          BY <1>2, <1>3, ChainFacts
        <4> QED BY <1>2, <4>1, <4>2 DEF Passed
      <3> QED BY <1>1, <1>6, <3>1 DEF FirstHit, HitAt
    <2>2. ~Stops
      <3> SUFFICES ASSUME Stops PROVE FALSE
        OBVIOUS
      <3>1. ~html.xml /\ extractor = "page" /\ html.chains[chain].for # "BODY"
        BY <1>1, <1>3 DEF Loaded, Stops, ExtractTypes
      <3>2. PICK i \in ChainAt : BodyAt(i) /\ \A h \in ChainAt : HitAt(h) => i <= h
        BY <3>1 DEF Stops
      <3>3. i <= chain /\ i # chain
        BY <1>1, <2>1, <3>1, <3>2 DEF FirstHit, BodyAt
      <3>4. i \in 1..(chain - 1)
        BY <1>2, <1>3, <3>2, <3>3, ChainFacts
      <3> QED BY <1>2, <3>1, <3>2, <3>4 DEF Passed
    <2>3. ret' = 0
      BY <1>1, <1>2, <1>6 DEF Tried, Passed, ExtractTypes
    <2>4. Returns' /\ stage' = "return"
      BY <1>1, <1>6, <2>1, <2>2, <2>3, SamePage DEF Returns
    <2> QED BY <1>4, <1>5, <2>4 DEF ExtractInv
  <1>7. CASE ~html.chains[chain].found
    <2>1. \A i \in 1..((chain + 1) - 1) : i = chain \/ i \in 1..(chain - 1)
      BY <1>3
    <2>2. \A i \in 1..(chain - 1) : i \in 1..((chain + 1) - 1)
      BY <1>3
    <2>3. ~HitAt(chain) /\ (~html.xml => extractor = "page" /\ ~BodyAt(chain))
      BY <1>1, <1>3, <1>7 DEF HitAt, BodyAt, Loaded
    <2>4. extractor = "page" => ret' # 0
      BY <1>1, <1>7 DEF Tried
    <2>5. chain \in 1..((chain + 1) - 1)
      BY <1>3
    <2>6. /\ stage' = "chains" /\ chain' = chain + 1 /\ json' = json
      BY <1>1, <1>7
    <2>7. ret' = 0 <=> extractor = "service" \/ \A i \in 1..((chain + 1) - 1) : ~TriedAt(i)
      BY <1>1, <1>2, <2>4, <2>5 DEF Passed, ExtractTypes
    <2>8. \A i \in 1..((chain + 1) - 1) : ~HitAt(i) /\ (~html.xml => extractor = "page" /\ ~BodyAt(i))
      BY <1>2, <2>1, <2>3 DEF Passed
    <2>9. Passed'
      BY <1>1, <1>2, <2>6, <2>7, <2>8, SamePage DEF Passed
    <2> QED BY <1>4, <1>5, <2>6, <2>9 DEF ExtractInv
  <1> QED BY <1>6, <1>7

LEMMA NoDocumentOK ==
    ASSUME ExtractInv, NoDocument
    PROVE  ExtractInv'
  <1>1. /\ stage = "chains" /\ ~Loaded /\ ret' = -1 /\ stage' = "return"
        /\ UNCHANGED <<extractor, html, chain, json, output, extracts>>
    BY DEF NoDocument
  <1>2. ExtractTypes /\ html.templates /\ Mine = {} /\ Passed /\ \A i \in DOMAIN output : output[i][1] <= extracts
    BY <1>1 DEF ExtractInv
  <1>3. Stops
    <2>1. CASE extractor = "service"
      BY <1>1, <2>1 DEF Loaded, Stops
    <2>2. CASE extractor = "page"
      <3>1. ~html.xml /\ chain \in ChainAt /\ BodyAt(chain)
        BY <1>1, <1>2, <2>2, ChainFacts DEF Loaded, BodyAt
      <3>2. \A h \in ChainAt : HitAt(h) => chain <= h
        <4>1. \A h \in ChainAt : h < chain => h \in 1..(chain - 1)
          BY <1>2, ChainFacts
        <4>2. \A h \in ChainAt : ~(h < chain) => chain <= h
          BY <1>2, ChainFacts
        <4> QED BY <1>2, <4>1, <4>2 DEF Passed
      <3> QED BY <3>1, <3>2 DEF Stops
    <2> QED BY <1>2, <2>1, <2>2 DEF ExtractTypes
  <1>4. ExtractTypes'
    BY <1>1, <1>2 DEF ExtractTypes
  <1> QED BY <1>1, <1>2, <1>3, <1>4, SamePage DEF ExtractInv, Returns

LEMMA SkipChainOK ==
    ASSUME ExtractInv, SkipChain
    PROVE  ExtractInv'
  <1>1. /\ stage = "chains" /\ Loaded /\ chain <= Len(html.chains) /\ ~TriedAt(chain) /\ chain' = chain + 1
        /\ UNCHANGED <<extractor, html, ret, json, output, extracts, stage>>
    BY DEF SkipChain, TriedAt
  <1>2. ExtractTypes /\ html.templates /\ Mine = {} /\ Passed /\ \A i \in DOMAIN output : output[i][1] <= extracts
    BY <1>1 DEF ExtractInv
  <1>3. /\ chain \in Nat /\ chain >= 1 /\ chain \in ChainAt /\ Len(html.chains) \in Nat
        /\ ~BodyAt(chain) /\ ~HitAt(chain)
    BY <1>1, <1>2, ChainFacts DEF HitAt
  <1>4. ~html.xml => extractor = "page"
    BY <1>1 DEF Loaded
  <1>5. \A i \in 1..((chain + 1) - 1) : i = chain \/ i \in 1..(chain - 1)
    BY <1>3
  <1>6. \A i \in 1..(chain - 1) : i \in 1..((chain + 1) - 1)
    BY <1>3
  <1>7. Passed'
    BY <1>1, <1>2, <1>3, <1>4, <1>5, <1>6, SamePage DEF Passed
  <1>8. ExtractTypes'
    BY <1>1, <1>2, <1>3 DEF ExtractTypes
  <1> QED BY <1>1, <1>2, <1>7, <1>8, SamePage DEF ExtractInv

LEMMA LastChainOK ==
    ASSUME ExtractInv, LastChain
    PROVE  ExtractInv'
  <1>1. /\ stage = "chains" /\ Loaded /\ chain > Len(html.chains) /\ stage' = "return"
        /\ UNCHANGED <<extractor, html, chain, ret, json, output, extracts>>
    BY DEF LastChain
  <1>2. ExtractTypes /\ html.templates /\ Mine = {} /\ Passed /\ \A i \in DOMAIN output : output[i][1] <= extracts
    BY <1>1 DEF ExtractInv
  <1>3. ChainAt = 1..(chain - 1)
    <2>1. chain = Len(html.chains) + 1
      BY <1>1, <1>2, ChainFacts DEF ExtractTypes
    <2> QED BY <1>2, <2>1, ChainFacts
  <1>4. NoHit /\ (ret = 0 <=> extractor = "service" \/ NoneTried) /\ json = NoJson
    BY <1>2, <1>3 DEF Passed, NoHit, NoneTried
  <1>5. ~Stops
    BY <1>1, <1>2, <1>3 DEF Stops, Passed, Loaded
  <1>6. ExtractTypes'
    BY <1>1, <1>2 DEF ExtractTypes
  <1> QED BY <1>1, <1>2, <1>4, <1>5, <1>6, SamePage DEF ExtractInv, Returns

LEMMA WritePageOK ==
    ASSUME ExtractInv, WritePage
    PROVE  ExtractInv'
  <1>1. stage = "return" /\ UNCHANGED <<extractor, html, chain, ret, json, extracts>>
    BY DEF WritePage
  <1>2. ExtractTypes /\ html.templates /\ Mine = {} /\ Returns /\ \A i \in DOMAIN output : output[i][1] <= extracts
    BY <1>1 DEF ExtractInv
  <1>3. /\ Stops' = Stops /\ NoHit' = NoHit /\ NoneTried' = NoneTried /\ ChainAt' = ChainAt
        /\ \A i : FirstHit(i)' = FirstHit(i)
    BY <1>1 DEF Stops, NoHit, NoneTried, ChainAt, HitAt, TriedAt, BodyAt, FirstHit, Known
  <1>4. CASE ret = 0 /\ json = NoJson /\ extractor = "service"
    <2>1. stage' = "crash" /\ output' = output
      BY <1>4 DEF WritePage
    <2>2. ~Stops /\ NoHit
      <3>1. FirstHit(chain) => json # chain
        BY <1>2, <1>4, ChainFacts DEF FirstHit, NoJson
      <3> QED BY <1>2, <1>4, <3>1 DEF Returns
    <2>3. ExtractTypes' /\ Mine' = {}
      BY <1>1, <1>2, <2>1 DEF ExtractTypes, Mine
    <2> QED BY <1>1, <1>2, <1>3, <1>4, <2>1, <2>2, <2>3 DEF ExtractInv
  <1>5. CASE ~(ret = 0 /\ json = NoJson /\ extractor = "service") /\ ret # 0
    <2>1. stage' = "next" /\ output' = output
      BY <1>5 DEF WritePage
    <2>2. ExtractTypes' /\ Mine' = {}
      BY <1>1, <1>2, <2>1 DEF ExtractTypes, Mine
    <2>3. Left'
      BY <1>2, <1>3, <1>5, <2>2 DEF Returns, Left
    <2> QED BY <1>1, <1>2, <2>1, <2>2, <2>3 DEF ExtractInv
  <1>6. CASE ~(ret = 0 /\ json = NoJson /\ extractor = "service") /\ ret = 0
    <2>1. stage' = "next" /\ output' = Append(output, <<extracts, json>>)
      BY <1>6 DEF WritePage
    <2> DEFINE k == Len(output)
    <2>2. /\ output \in Seq(Nat \X Nat) /\ <<extracts, json>> \in Nat \X Nat
      BY <1>2 DEF ExtractTypes
    <2>3. /\ k \in Nat /\ DOMAIN output = 1..k /\ DOMAIN output' = 1..(k + 1)
          /\ output' \in Seq(Nat \X Nat)
          /\ output'[k + 1] = <<extracts, json>> /\ \A i \in 1..k : output'[i] = output[i]
      BY <2>1, <2>2
    <2> HIDE DEF k
    <2>4. Mine' = {k + 1}
      <3>1. \A i \in 1..k : output[i][1] # extracts
        BY <1>2, <2>3 DEF Mine
      <3>2. \A i \in DOMAIN output' : output'[i][1] = extracts <=> i = k + 1
        <4>1. \A i \in DOMAIN output' : i # k + 1 => i \in 1..k
          BY <2>3
        <4>2. output'[k + 1][1] = extracts
          BY <2>3
        <4> QED BY <2>3, <3>1, <4>1, <4>2
      <3>3. k + 1 \in DOMAIN output'
        BY <2>3
      <3> QED BY <1>1, <3>2, <3>3 DEF Mine
    <2>5. Wrote(json)'
      <3>1. k + 1 \in DOMAIN output' /\ output'[k + 1][2] = json'
        BY <1>1, <2>3
      <3> QED BY <2>4, <3>1 DEF Wrote
    <2>6. \A i \in DOMAIN output' : output'[i][1] <= extracts'
      <3>1. extracts \in Nat
        BY <1>2 DEF ExtractTypes
      <3> QED BY <1>1, <1>2, <2>3, <3>1
    <2>7. ExtractTypes'
      BY <1>1, <1>2, <2>1, <2>3 DEF ExtractTypes
    <2>8. Left'
      <3>1. CASE FirstHit(chain) /\ ~Stops /\ ret = 0 /\ json = chain
        <4>1. chain \in ChainAt' /\ FirstHit(chain)' /\ Wrote(chain)'
          BY <1>1, <1>3, <2>5, <3>1 DEF FirstHit
        <4> QED BY <1>1, <1>3, <3>1, <4>1 DEF Left
      <3>2. CASE Stops /\ ret = -1
        BY <1>6, <3>2
      <3>3. CASE ~Stops /\ NoHit /\ json = NoJson /\ (ret = 0 <=> extractor = "service" \/ NoneTried)
        <4>1. NoneTried' /\ Wrote(NoJson)'
          BY <1>1, <1>3, <1>6, <2>5, <3>3 DEF Wrote
        <4> QED BY <1>3, <3>3, <4>1 DEF Left
      <3> QED BY <1>2, <3>1, <3>2, <3>3 DEF Returns
    <2> QED BY <1>1, <1>2, <2>1, <2>6, <2>7, <2>8 DEF ExtractInv
  <1> QED BY <1>4, <1>5, <1>6

LEMMA TakePageOK ==
    ASSUME ExtractInv, TakePage
    PROVE  ExtractInv'
  <1>1. /\ extracts' = extracts + 1 /\ html' \in HostPage /\ chain' = 1 /\ ret' = 0 /\ json' = NoJson
        /\ stage' = IF html'.templates THEN "chains" ELSE "next"
        /\ UNCHANGED <<extractor, output>>
    BY DEF TakePage
  <1>2. ExtractTypes /\ \A i \in DOMAIN output : output[i][1] <= extracts
    BY DEF ExtractInv
  <1>3. html' \in [templates : BOOLEAN, xml : BOOLEAN, chains : Seq(Chain)]
    <2>1. html' \in [templates : BOOLEAN, xml : BOOLEAN, chains : UNION {[1..n -> Chain] : n \in 0..MaxChains}]
      BY <1>1 DEF HostPage
    <2>2. \A s \in UNION {[1..n -> Chain] : n \in 0..MaxChains} : s \in Seq(Chain)
      <3>1. ASSUME NEW n \in 0..MaxChains, NEW s \in [1..n -> Chain] PROVE s \in Seq(Chain)
        <4>1. n \in Nat
          BY ChainAssumption
        <4> QED BY <4>1
      <3> QED BY <3>1
    <2> QED BY <2>1, <2>2
  <1>4. 1 <= Len(html'.chains) + 1
    BY <1>3
  <1>5. extracts \in Nat /\ \A i \in DOMAIN output : output[i][1] \in Nat /\ output[i][1] <= extracts
    <2>1. extracts \in Nat /\ output \in Seq(Nat \X Nat)
      BY <1>2 DEF ExtractTypes
    <2> QED BY <1>2, <2>1
  <1>6. Mine' = {} /\ \A i \in DOMAIN output' : output'[i][1] <= extracts'
    <2>1. \A i \in DOMAIN output : output[i][1] # extracts + 1 /\ output[i][1] <= extracts + 1
      BY <1>5
    <2> QED BY <1>1, <2>1 DEF Mine
  <1>7. ExtractTypes'
    <2>1. chain' \in Nat \ {0} /\ ret' \in Int /\ json' \in Nat /\ extracts' \in Nat
      BY <1>1, <1>5 DEF NoJson
    <2> QED BY <1>1, <1>2, <1>3, <1>4, <2>1 DEF ExtractTypes
  <1>8. Passed'
    <2>1. 1..(chain' - 1) = {}
      BY <1>1
    <2> QED BY <1>1, <2>1 DEF Passed
  <1> QED BY <1>1, <1>6, <1>7, <1>8 DEF ExtractInv

(* Whatever chains its host has, and whatever becomes of the others, a     *)
(* page is written once, as the first of them that it has, or as the empty *)
(* line or the crash that the value 0 of the start leads to.               *)
THEOREM FirstChainIsWritten == ExtractSpec => []FirstChainWritten
  <1>1. ExtractInv /\ [ExtractNext]_extractVars => ExtractInv'
    <2> SUFFICES ASSUME ExtractInv, [ExtractNext]_extractVars PROVE ExtractInv'
      OBVIOUS
    <2>1. CASE UNCHANGED extractVars
      <3>1. /\ UNCHANGED <<extractor, html, extracts, output>> /\ UNCHANGED <<chain, ret, json, stage>>
        BY <2>1 DEF extractVars
      <3>2. ExtractTypes'
        BY <3>1 DEF ExtractInv, ExtractTypes
      <3>3. Passed' = Passed /\ Returns' = Returns /\ Left' = Left
        BY <3>1, SamePage DEF Passed, Returns, Left
      <3> QED BY <3>1, <3>2, <3>3, SamePage DEF ExtractInv
    <2> QED BY <2>1, TryChainOK, NoDocumentOK, SkipChainOK, LastChainOK, WritePageOK, TakePageOK DEF ExtractNext
  <1> QED BY <1>1, ExtractInitOK, LeftIsWritten, PTL DEF ExtractSpec

-----------------------------------------------------------------------------
(* BatchClient: for any file, any number of servers and of faults.         *)
(*                                                                         *)
(* A line the sender is not past has been taken as often as its answer was *)
(* lost (NotYetPast).  A step either leaves what was taken alone and may   *)
(* pass lines (Passing), or has the line it is at taken (Taking).          *)

BatchTypes ==
    /\ Len(file) \in 0..MaxBatch /\ DOMAIN file = 1..Len(file)
    /\ line \in Nat /\ line >= 1 /\ line <= LastLine + 1 /\ taken \in Seq(Nat)
    /\ unanswered \in [1..MaxBatch -> Nat]

TakenBefore == \A i \in DOMAIN taken : taken[i] <= line
InFileOrder == \A i, j \in DOMAIN taken : i < j => taken[i] <= taken[j]
MayPass(l)  == file[l] = "url" \/ sender = "query2" \/ l \in skipped
NothingLost == \A l \in 1..(line - 1) : MayPass(l) \/ \E i \in DOMAIN taken : taken[i] = l
NotYetPast  == \A l \in DOMAIN file : Times(l) <= IF l < line THEN 1 + unanswered[l] ELSE unanswered[l]

BatchInv == BatchTypes /\ TakenBefore /\ InFileOrder /\ NothingLost /\ NotYetPast

LEMMA LinesUpTo ==
    ASSUME NEW a \in Nat, NEW b \in Nat, a <= b
    PROVE  /\ \A l \in 1..(b - 1) : l \in 1..(a - 1) \/ l \in a..(b - 1)
           /\ b = a + 1 => \A l \in a..(b - 1) : l = a
           /\ b = a => \A l \in a..(b - 1) : FALSE
  OBVIOUS

LEMMA TimesFacts ==
    ASSUME taken \in Seq(Nat), NEW n \in Nat, NEW l \in Nat
    PROVE  /\ IsFiniteSet({i \in DOMAIN taken : taken[i] = l}) /\ Times(l) \in Nat
           /\ Times(l) >= 1 <=> \E i \in DOMAIN taken : taken[i] = l
           /\ Cardinality({i \in DOMAIN Append(taken, n) : Append(taken, n)[i] = l}) =
                 IF l = n THEN Times(l) + 1 ELSE Times(l)
  <1> DEFINE s == taken
             S == {i \in DOMAIN s : s[i] = l}
             T == {i \in DOMAIN Append(s, n) : Append(s, n)[i] = l}
             k == Len(s)
  <1>1. k \in Nat /\ DOMAIN s = 1..k
    OBVIOUS
  <1>2. IsFiniteSet(S)
    <2>1. IsFiniteSet(1..k) /\ S \in SUBSET (1..k)
      BY <1>1, FS_Interval
    <2> QED BY <2>1, FS_Subset
  <1>3. Times(l) = Cardinality(S)
    BY DEF Times
  <1>4. Cardinality(S) \in Nat /\ (Cardinality(S) = 0 <=> S = {})
    BY <1>2, FS_CardinalityType, FS_EmptySet
  <1>5. T = IF l = n THEN S \cup {k + 1} ELSE S
    <2>1. /\ DOMAIN Append(s, n) = 1..(k + 1) /\ Append(s, n)[k + 1] = n
          /\ \A i \in 1..k : Append(s, n)[i] = s[i]
      BY <1>1
    <2>2. \A i : i \in 1..(k + 1) <=> i \in 1..k \/ i = k + 1
      BY <1>1
    <2>3. \A i : i \in T <=> (i \in 1..k /\ s[i] = l) \/ (i = k + 1 /\ n = l)
      BY <2>1, <2>2
    <2> QED BY <1>1, <2>3
  <1>6. k + 1 \notin S
    BY <1>1
  <1>7. Cardinality(S \cup {k + 1}) = Cardinality(S) + 1
    BY <1>2, <1>6, FS_AddElement
  <1>8. S # {} <=> \E i \in DOMAIN s : s[i] = l
    OBVIOUS
  <1> HIDE DEF S, T, k
  <1>9. Cardinality(T) = IF l = n THEN Times(l) + 1 ELSE Times(l)
    BY <1>3, <1>5, <1>7
  <1>10. Times(l) >= 1 <=> S # {}
    BY <1>3, <1>4
  <1> QED BY <1>2, <1>3, <1>4, <1>8, <1>9, <1>10 DEF S, T

LEMMA BatchFacts ==
    ASSUME BatchTypes
    PROVE  /\ taken \in Seq(Nat) /\ line \in Nat /\ line >= 1 /\ MaxBatch \in Nat
           /\ unanswered \in [1..MaxBatch -> Nat]
           /\ Len(file) \in Nat /\ Len(file) <= MaxBatch /\ DOMAIN file = 1..Len(file)
           /\ \A l \in DOMAIN file : l \in Nat /\ l >= 1 /\ l \in 1..MaxBatch /\ unanswered[l] \in Nat
  <1>1. MaxBatch \in Nat
    BY BatchAssumption
  <1>2. Len(file) \in Nat /\ Len(file) <= MaxBatch /\ DOMAIN file = 1..Len(file)
    BY <1>1 DEF BatchTypes
  <1>3. \A l \in DOMAIN file : l \in Nat /\ l >= 1 /\ l \in 1..MaxBatch
    BY <1>1, <1>2
  <1> QED BY <1>1, <1>2, <1>3 DEF BatchTypes

LEMMA BatchInitOK == BatchInit => BatchInv
  <1> SUFFICES ASSUME BatchInit PROVE BatchInv
    OBVIOUS
  <1>1. PICK n \in 0..MaxBatch : file \in [1..n -> Kinds[sender]]
    BY DEF BatchInit
  <1>2. Len(file) \in 0..MaxBatch /\ DOMAIN file = 1..Len(file)
    <2>1. n \in Nat
      BY BatchAssumption
    <2> QED BY <1>1, <2>1
  <1>3. taken = <<>> /\ DOMAIN taken = {} /\ line = 1 /\ unanswered = [l \in 1..MaxBatch |-> 0]
    BY DEF BatchInit
  <1>4. \A l \in DOMAIN file : Times(l) = 0
    <2>1. \A l : {i \in DOMAIN taken : taken[i] = l} = {}
      BY <1>3
    <2> QED BY <2>1, FS_EmptySet DEF Times
  <1>5. BatchTypes
    <2>1. LastLine \in Nat
      BY <1>2, BatchAssumption DEF LastLine
    <2> QED BY <1>2, <1>3, <2>1 DEF BatchTypes
  <1>6. NotYetPast
    <2>1. \A l \in DOMAIN file : l \in Nat /\ l >= 1 /\ unanswered[l] = 0
      BY <1>3, <1>5, BatchFacts
    <2>2. \A l \in DOMAIN file : ~(l < line) /\ Times(l) = unanswered[l]
      <3>1. line = 1
        BY <1>3
      <3>2. \A l \in Nat : l >= 1 => ~(l < 1)
        OBVIOUS
      <3> QED BY <1>4, <2>1, <3>1, <3>2
    <2>3. \A l \in DOMAIN file : Times(l) <= unanswered[l]
      BY <1>4, <2>1, <2>2
    <2> QED BY <2>2, <2>3 DEF NotYetPast
  <1>7. TakenBefore /\ InFileOrder
    BY <1>3 DEF TakenBefore, InFileOrder
  <1>8. NothingLost
    <2>1. 1..(line - 1) = {}
      BY <1>3
    <2> QED BY <2>1 DEF NothingLost
  <1> QED BY <1>5, <1>6, <1>7, <1>8 DEF BatchInv

LEMMA Passing ==
    ASSUME BatchInv, UNCHANGED <<sender, file, taken, unanswered>>, skipped \subseteq skipped',
           line' \in Nat, line <= line', line' <= LastLine + 1, \A l \in line..(line' - 1) : MayPass(l)'
    PROVE  BatchInv'
  <1>0. BatchTypes
    BY DEF BatchInv
  <1>1. /\ taken \in Seq(Nat) /\ line \in Nat /\ line >= 1 /\ MaxBatch \in Nat
        /\ \A l \in DOMAIN file : l \in Nat /\ l >= 1 /\ l \in 1..MaxBatch /\ unanswered[l] \in Nat
    BY <1>0, BatchFacts
  <1>2. BatchTypes'
    <2>1. LastLine' = LastLine /\ line' >= 1
      BY <1>1 DEF LastLine
    <2> QED BY <1>0, <2>1 DEF BatchTypes
  <1>3. TakenBefore'
    <2>1. \A i \in DOMAIN taken : taken[i] \in Nat /\ taken[i] <= line
      BY <1>1 DEF BatchInv, TakenBefore
    <2> QED BY <1>1, <2>1 DEF TakenBefore
  <1>4. InFileOrder'
    BY DEF BatchInv, InFileOrder
  <1>5. NothingLost'
    <2>1. \A l \in 1..(line' - 1) : l \in 1..(line - 1) \/ l \in line..(line' - 1)
      BY <1>1, LinesUpTo
    <2>2. \A l : MayPass(l) => MayPass(l)'
      BY DEF MayPass
    <2> QED BY <2>1, <2>2 DEF BatchInv, NothingLost
  <1>6. NotYetPast'
    <2>1. ASSUME NEW l \in DOMAIN file
          PROVE  Times(l) <= IF l < line' THEN 1 + unanswered[l] ELSE unanswered[l]
      <3>1. l \in Nat /\ unanswered[l] \in Nat
        BY <1>1
      <3>2. Times(l) \in Nat
        BY <1>1, <3>1, TimesFacts
      <3>3. Times(l) <= IF l < line THEN 1 + unanswered[l] ELSE unanswered[l]
        BY DEF BatchInv, NotYetPast
      <3> QED BY <1>1, <3>1, <3>2, <3>3
    <2>2. \A l : Times(l)' = Times(l)
      BY DEF Times
    <2> QED BY <2>1, <2>2 DEF NotYetPast
  <1> QED BY <1>2, <1>3, <1>4, <1>5, <1>6 DEF BatchInv

LEMMA AtLineFacts ==
    ASSUME BatchTypes, AtLine
    PROVE  line \in DOMAIN file /\ line <= LastLine /\ LastLine \in Nat
  <1>1. Len(file) \in Nat /\ DOMAIN file = 1..Len(file) /\ line \in Nat /\ line >= 1 /\ BufLines \in Nat
    BY BatchAssumption, BatchFacts
  <1>2. line <= LastLine
    BY DEF AtLine
  <1>3. LastLine <= Len(file) /\ LastLine \in Nat
    BY <1>1 DEF LastLine
  <1> QED BY <1>1, <1>2, <1>3

LEMMA Taking ==
    ASSUME BatchInv, UNCHANGED <<sender, file, skipped>>, AtLine, Take,
           \/ line' = line + 1 /\ unanswered' = unanswered
           \/ line' \in {line, line + 1} /\ unanswered' = [unanswered EXCEPT ![line] = @ + 1]
    PROVE  BatchInv'
  <1> DEFINE k == Len(taken)
  <1>0. BatchTypes
    BY DEF BatchInv
  <1>1. /\ taken \in Seq(Nat) /\ line \in Nat /\ line >= 1 /\ MaxBatch \in Nat
        /\ \A l \in DOMAIN file : l \in Nat /\ l >= 1 /\ l \in 1..MaxBatch /\ unanswered[l] \in Nat
        /\ line \in DOMAIN file /\ line <= LastLine /\ LastLine \in Nat
    BY <1>0, BatchFacts, AtLineFacts
  <1>2. taken' = Append(taken, line) /\ line' \in Nat /\ line <= line' /\ line' <= line + 1 /\ line \in 1..MaxBatch
    BY <1>1 DEF Take
  <1>3. /\ k \in Nat /\ DOMAIN taken = 1..k /\ DOMAIN taken' = 1..(k + 1) /\ taken' \in Seq(Nat)
        /\ taken'[k + 1] = line /\ \A i \in 1..k : taken'[i] = taken[i] /\ taken[i] \in Nat
    BY <1>1, <1>2
  <1> HIDE DEF k
  <1>4. BatchTypes'
    <2>1. unanswered \in [1..MaxBatch -> Nat]
      BY <1>0 DEF BatchTypes
    <2>2. unanswered' \in [1..MaxBatch -> Nat]
      <3>1. CASE unanswered' = unanswered
        BY <2>1, <3>1
      <3>2. CASE unanswered' = [unanswered EXCEPT ![line] = @ + 1]
        <4>1. unanswered[line] + 1 \in Nat
          BY <1>1
        <4> QED BY <2>1, <3>2, <4>1
      <3> QED BY <3>1, <3>2
    <2>3. line' <= LastLine + 1 /\ line' >= 1 /\ LastLine' = LastLine
      BY <1>1, <1>2 DEF LastLine
    <2> QED BY <1>0, <1>2, <1>3, <2>2, <2>3 DEF BatchTypes
  <1>5. \A i \in 1..(k + 1) : i \in 1..k \/ i = k + 1
    BY <1>3
  <1>6. \A i \in 1..k : taken[i] <= line
    BY <1>3 DEF BatchInv, TakenBefore
  <1>7. TakenBefore'
    BY <1>1, <1>2, <1>3, <1>5, <1>6 DEF TakenBefore
  <1>8. InFileOrder'
    <2>1. ASSUME NEW i \in 1..(k + 1), NEW j \in 1..(k + 1), i < j PROVE taken'[i] <= taken'[j]
      <3>1. i \in 1..k
        BY <1>3, <2>1
      <3>2. CASE j = k + 1
        BY <1>3, <1>6, <3>1, <3>2
      <3>3. CASE j \in 1..k
        BY <1>3, <2>1, <3>1, <3>3 DEF BatchInv, InFileOrder
      <3> QED BY <1>5, <3>2, <3>3
    <2> QED BY <1>3, <2>1 DEF InFileOrder
  <1>9. NothingLost'
    <2>1. \A l \in 1..(line' - 1) : l \in 1..(line - 1) \/ l = line
      <3>1. line' = line \/ line' = line + 1
        BY <1>1
      <3> QED BY <1>1, <1>2, <3>1, LinesUpTo
    <2>2. \A l : MayPass(l)' = MayPass(l)
      BY DEF MayPass
    <2>3. \E i \in DOMAIN taken' : taken'[i] = line
      <3>1. k + 1 \in DOMAIN taken'
        BY <1>3
      <3> QED BY <1>3, <3>1
    <2>4. \A l : (\E i \in DOMAIN taken : taken[i] = l) => \E i \in DOMAIN taken' : taken'[i] = l
      <3>1. \A i \in 1..k : i \in 1..(k + 1)
        BY <1>3
      <3> QED BY <1>3, <3>1
    <2> QED BY <2>1, <2>2, <2>3, <2>4 DEF BatchInv, NothingLost
  <1>10. NotYetPast'
    <2>1. ASSUME NEW l \in DOMAIN file
          PROVE  Times(l)' <= IF l < line' THEN 1 + unanswered'[l] ELSE unanswered'[l]
      <3>1. l \in Nat /\ l \in 1..MaxBatch
        BY <1>1
      <3>2. Times(l) \in Nat /\ Times(l)' = IF l = line THEN Times(l) + 1 ELSE Times(l)
        <4>1. /\ Times(l) \in Nat
              /\ Cardinality({i \in DOMAIN Append(taken, line) : Append(taken, line)[i] = l}) =
                    IF l = line THEN Times(l) + 1 ELSE Times(l)
          <5>1. taken \in Seq(Nat) /\ line \in Nat /\ l \in Nat
            BY <1>1, <3>1
          <5> QED BY ONLY <5>1, TimesFacts, Zenon
        <4>2. Times(l)' = Cardinality({i \in DOMAIN Append(taken, line) : Append(taken, line)[i] = l})
          BY <1>2 DEF Times
        <4> QED BY <4>1, <4>2
      <3>3. Times(l) <= IF l < line THEN 1 + unanswered[l] ELSE unanswered[l]
        BY DEF BatchInv, NotYetPast
      <3>4. unanswered[l] \in Nat
        BY <1>1, <3>1
      <3> HIDE DEF Times
      <3>5. CASE line' = line + 1 /\ unanswered' = unanswered
        BY <1>1, <3>1, <3>2, <3>3, <3>4, <3>5
      <3>6. CASE line' \in {line, line + 1} /\ unanswered' = [unanswered EXCEPT ![line] = @ + 1]
        <4>1. unanswered'[l] = IF l = line THEN unanswered[l] + 1 ELSE unanswered[l]
          BY <1>0, <3>1, <3>6 DEF BatchTypes
        <4> QED BY <1>1, <3>1, <3>2, <3>3, <3>4, <3>6, <4>1
      <3> QED BY <3>5, <3>6
    <2> QED BY <2>1 DEF NotYetPast
  <1> QED BY <1>4, <1>7, <1>8, <1>9, <1>10 DEF BatchInv

\* after an answer that leaves the line untaken the line is sent again, or may be passed
LEMMA AfterCallFacts ==
    ASSUME BatchInv, NEW r \in {0, 1, 2}, AfterCall(r), UNCHANGED <<sender, file>>
    PROVE  /\ line' \in {line, line + 1} /\ line \in Nat
           /\ r = 0 => line' = line + 1
           /\ r # 0 /\ line' = line + 1 => sender = "query2" \/ file[line] = "url"
  BY DEF AfterCall, Again, Asking, BatchInv, BatchTypes

LEMMA PassingOne ==
    ASSUME BatchInv, UNCHANGED <<sender, file, taken, unanswered, skipped>>,
           \/ line' = line
           \/ line' = line + 1 /\ AtLine /\ (sender = "query2" \/ file[line] = "url")
    PROVE  BatchInv'
  <1>1. line \in Nat /\ line <= LastLine + 1 /\ (AtLine => line <= LastLine /\ LastLine \in Nat)
    BY AtLineFacts DEF BatchInv, BatchTypes
  <1>2. CASE line' = line
    <2>1. \A l \in line..(line' - 1) : MayPass(l)'
      BY <1>1, <1>2, LinesUpTo
    <2> QED BY <1>1, <1>2, <2>1, Passing
  <1>3. CASE line' = line + 1 /\ AtLine /\ (sender = "query2" \/ file[line] = "url")
    <2>1. line' \in Nat /\ line <= line' /\ line' <= LastLine + 1
      BY <1>1, <1>3
    <2>2. \A l \in line..(line' - 1) : l = line
      BY <1>1, <1>3, <2>1, LinesUpTo
    <2>3. \A l \in line..(line' - 1) : MayPass(l)'
      BY <1>3, <2>2 DEF MayPass
    <2> QED BY <2>1, <2>3, Passing
  <1> QED BY <1>2, <1>3

LEMMA PickNoneOK == BatchInv /\ PickNone => BatchInv'
  <1> SUFFICES ASSUME BatchInv, PickNone PROVE BatchInv'
    OBVIOUS
  <1> DEFINE records == {l \in (line + 1)..LastLine : file[l] = "first"}
             rest == IF records = {} THEN LastLine + 1 ELSE CHOOSE l \in records : \A m \in records : l <= m
  <1>1. UNCHANGED <<sender, file, taken, unanswered>>
    BY DEF PickNone
  <1>2. line \in Nat /\ line <= LastLine + 1 /\ Len(file) \in Nat /\ BufLines \in Nat
    BY BatchFacts, BatchAssumption DEF BatchInv, BatchTypes
  <1>3. CASE sender = "list"
    <2>1. skipped' = skipped \cup line..(rest - 1) /\ line' = rest
      BY <1>3 DEF PickNone
    <2>2. LastLine \in Nat
      BY <1>2 DEF LastLine
    <2>3. rest \in Nat /\ line <= rest /\ rest <= LastLine + 1
      <3>1. CASE records = {}
        BY <1>2, <2>2, <3>1
      <3>2. CASE records # {}
        <4>1. records \in SUBSET ((line + 1)..LastLine) /\ (line + 1)..LastLine \subseteq Nat /\ line + 1 \in Int /\ LastLine \in Int
          BY <1>2, <2>2
        <4>2. IsFiniteSet(records) /\ records \in SUBSET Nat
          BY <4>1, FS_Interval, FS_Subset
        <4>3. \E l \in records : \A m \in records : l <= m
          <5> HIDE DEF records
          <5> QED BY <3>2, <4>2, Smallest
        <4>4. rest \in records
          <5> HIDE DEF records
          <5> QED BY <3>2, <4>3
        <4> HIDE DEF rest
        <4>5. rest \in (line + 1)..LastLine
          BY <4>4
        <4> QED BY <1>2, <2>2, <4>5
      <3> QED BY <3>1, <3>2
    <2> HIDE DEF rest
    <2>4. \A l \in line..(line' - 1) : MayPass(l)'
      BY <2>1 DEF MayPass
    <2>5. skipped \subseteq skipped'
      BY <2>1
    <2> QED BY <1>1, <2>1, <2>3, <2>4, <2>5, Passing
  <1>4. CASE sender # "list"
    <2>1. line' = line /\ skipped' = skipped
      BY <1>4 DEF PickNone
    <2> QED BY <1>1, <1>2, <2>1, PassingOne
  <1> QED BY <1>3, <1>4

LEMMA BatchStep == BatchInv /\ [BatchNext]_batchVars => BatchInv'
  <1> SUFFICES ASSUME BatchInv, [BatchNext]_batchVars PROVE BatchInv'
    OBVIOUS
  <1>1. CASE CallTaken
    <2>1. AtLine /\ Take /\ AfterCall(0) /\ UNCHANGED <<sender, file, unanswered, skipped>>
      BY <1>1 DEF CallTaken
    <2>2. line' = line + 1
      BY <2>1, AfterCallFacts
    <2> QED BY <2>1, <2>2, Taking
  <1>2. CASE CallRefused
    <2>1. /\ AtLine /\ AfterCall(1) /\ UNCHANGED <<sender, file, skipped>>
          /\ \/ UNCHANGED <<taken, unanswered>>
             \/ Take /\ unanswered' = [unanswered EXCEPT ![line] = @ + 1]
      BY <1>2 DEF CallRefused
    <2>2. /\ line' \in {line, line + 1}
          /\ line' = line \/ (line' = line + 1 /\ (sender = "query2" \/ file[line] = "url"))
      BY <2>1, AfterCallFacts
    <2>3. CASE UNCHANGED <<taken, unanswered>>
      BY <2>1, <2>2, <2>3, PassingOne
    <2>4. CASE Take /\ unanswered' = [unanswered EXCEPT ![line] = @ + 1]
      BY <2>1, <2>2, <2>4, Taking
    <2> QED BY <2>1, <2>3, <2>4
  <1>3. CASE CallFails
    <2>1. AtLine /\ (line' = line \/ AfterCall(2)) /\ UNCHANGED <<sender, file, taken, unanswered, skipped>>
      BY <1>3 DEF CallFails
    <2>2. line' = line \/ (line' = line + 1 /\ (sender = "query2" \/ file[line] = "url"))
      BY <2>1, AfterCallFacts
    <2> QED BY <2>1, <2>2, PassingOne
  <1>4. CASE AnswerLost
    <2>1. /\ AtLine /\ Take /\ unanswered' = [unanswered EXCEPT ![line] = @ + 1] /\ UNCHANGED <<sender, file, skipped>>
          /\ line' = line \/ AfterCall(2)
      BY <1>4 DEF AnswerLost
    <2>2. line' \in {line, line + 1}
      BY <2>1, AfterCallFacts
    <2> QED BY <2>1, <2>2, Taking
  <1>5. CASE PickNone
    BY <1>5, PickNoneOK
  <1>6. CASE UNCHANGED <<sender, file, line, taken, unanswered, skipped>>
    BY <1>6, PassingOne
  <1>7. Pick \/ BatchEnds \/ (\E s \in Server : ServerDown(s) \/ ServerUp(s)) \/ UNCHANGED batchVars
           => UNCHANGED <<sender, file, line, taken, unanswered, skipped>>
    BY DEF Pick, BatchEnds, ServerDown, ServerUp, batchVars
  <1> QED BY <1>1, <1>2, <1>3, <1>4, <1>5, <1>6, <1>7 DEF BatchNext

(* Whichever servers fail, and whenever, the lines of the file reach them  *)
(* in order, none but a url is passed over while a client is left, and     *)
(* none is taken oftener than once and once for each answer that was lost  *)
(* or wrong.                                                               *)
THEOREM LinesAreDelivered == BatchSpec => []BatchDelivers
  <1>1. ASSUME BatchInv PROVE BatchDelivers
    <2>1. \A i, j \in DOMAIN taken : i < j => taken[i] <= taken[j]
      BY <1>1 DEF BatchInv, InFileOrder
    <2>2. \A l \in 1..(line - 1) :
            file[l] # "url" /\ sender # "query2" /\ l \notin skipped => Times(l) >= 1
      <3>1. \A l \in 1..(line - 1) : l \in Nat
        BY <1>1, BatchFacts DEF BatchInv
      <3>2. \A l \in Nat : Times(l) >= 1 <=> \E i \in DOMAIN taken : taken[i] = l
        BY <1>1, TimesFacts DEF BatchInv, BatchTypes
      <3> QED BY <1>1, <3>1, <3>2 DEF BatchInv, NothingLost, MayPass
    <2>3. \A l \in DOMAIN file : Times(l) <= 1 + unanswered[l]
      <3>1. ASSUME NEW l \in DOMAIN file PROVE Times(l) <= 1 + unanswered[l]
        <4>1. l \in Nat /\ unanswered[l] \in Nat /\ taken \in Seq(Nat)
          BY <1>1, BatchFacts DEF BatchInv
        <4>2. Times(l) \in Nat
          BY <4>1, TimesFacts
        <4>3. Times(l) <= IF l < line THEN 1 + unanswered[l] ELSE unanswered[l]
          BY <1>1 DEF BatchInv, NotYetPast
        <4> QED BY <4>1, <4>2, <4>3
      <3> QED BY <3>1
    <2> QED BY <2>1, <2>2, <2>3 DEF BatchDelivers
  <1> QED BY <1>1, BatchInitOK, BatchStep, PTL DEF BatchSpec

-----------------------------------------------------------------------------
(***************************************************************************)
(* The query filter: a line that is done has left what its last tab cut    *)
(* off, and the verdicts are those of the lines done, each with its place  *)
(* in one of the files.                                                    *)
(***************************************************************************)
Verdict == Nat \X Seq(Field) \X BOOLEAN
Unread  == [of |-> 0, fields |-> <<>>, long |-> FALSE]
Whole(i) == [of |-> i, fields |-> log[i].fields, long |-> log[i].long]
CutOff(l) == IF l.long \/ Len(l.fields) < 2 THEN l.fields ELSE Front(l.fields)
Remains(i) == [of |-> i, fields |-> CutOff(log[i]), long |-> log[i].long]

FilterTypes ==
    /\ log \in Seq(LogLine) /\ ends \in BOOLEAN
    /\ row \in Nat /\ row <= Len(log) + 1
    /\ step \in {"read", "split", "analyse", "write", "closed", "failed"}
    /\ is_mobile \in BOOLEAN
    /\ verdicts \in Seq(Verdict) /\ need \in Seq(Verdict) /\ bad \in Seq(Verdict)
    /\ query.of \in Nat /\ query.fields \in Seq(Field) /\ query.long \in BOOLEAN
    /\ row = Len(log) + 1 => ends \/ log = <<>>
    /\ step = "closed" => AtEnd

QueryIs ==
    /\ step = "read" => query = IF row = 0 THEN Unread ELSE
                                IF row <= Len(log) THEN Remains(row) ELSE query
    /\ step = "split" => /\ row > 0
                         /\ query = IF row <= Len(log) THEN Whole(row) ELSE
                                    IF log = <<>> THEN Unread ELSE Remains(Len(log))
    /\ step \in {"analyse", "write"} =>
          /\ row > 0
          /\ row <= Len(log) => Frequent(log[row]) /\ query = Remains(row)
          /\ row = Len(log) + 1 => CutCounts /\ query.of = Len(log)

LinesDone == IF step \in {"split", "analyse"} THEN row - 1 ELSE row
OwnOnes   == 1..(IF CutCounts /\ LinesDone = Len(log) + 1 THEN Len(verdicts) - 1 ELSE Len(verdicts))
VerdictsAre ==
    /\ \A k \in OwnOnes : /\ verdicts[k][1] \in 1..LinesDone /\ verdicts[k][1] <= Len(log)
                          /\ Frequent(log[verdicts[k][1]])
                          /\ verdicts[k][2] = Front(log[verdicts[k][1]].fields)
    /\ \A i \in 1..LinesDone : i <= Len(log) /\ Frequent(log[i]) => \E k \in OwnOnes : verdicts[k][1] = i
    /\ \A j, k \in OwnOnes : j < k => verdicts[j][1] < verdicts[k][1]
    /\ CutCounts /\ LinesDone = Len(log) + 1 => Len(verdicts) > 0 /\ verdicts[Len(verdicts)][1] = Len(log)

Written == IF step = "write" THEN Len(verdicts) - 1 ELSE Len(verdicts)
FlagIs ==
    /\ step = "write" => Len(verdicts) > 0 /\ is_mobile = verdicts[Len(verdicts)][3]
    /\ step # "write" => is_mobile = FALSE
CountsAre == Len(need) = Cardinality(Mobile(Written)) /\ Len(bad) = Cardinality(Others(Written))
PlacesAre ==
    \A k \in 1..Written : /\ verdicts[k][3] => need[Cardinality(Mobile(k))] = verdicts[k]
                          /\ ~verdicts[k][3] => bad[Cardinality(Others(k))] = verdicts[k]
FilesAre == FlagIs /\ CountsAre /\ PlacesAre

FilterInv == FilterTypes /\ QueryIs /\ VerdictsAre /\ FilesAre

LEMMA PlacesNext ==
  ASSUME \A k \in 1..Written' : /\ verdicts'[k][3] => need'[Cardinality(Mobile(k)')] = verdicts'[k]
                                /\ ~verdicts'[k][3] => bad'[Cardinality(Others(k)')] = verdicts'[k]
  PROVE  PlacesAre'
BY Zenon DEF PlacesAre

LEMMA LogLineIs ==
  ASSUME NEW l \in LogLine
  PROVE  l.fields \in Seq(Field) /\ Len(l.fields) \in Nat /\ Len(l.fields) > 0 /\ l.long \in BOOLEAN
<1>1. PICK n \in 1..MaxFields : l.fields \in [1..n -> Field]
  BY DEF LogLine
<1>2. n \in Nat /\ n > 0
  BY FilterAssumption
<1>3. l.fields \in Seq(Field) /\ Len(l.fields) = n
  BY <1>1, <1>2
<1> QED BY <1>2, <1>3 DEF LogLine

\* What a last tab leaves of a line's fields.
LEMMA CutIs ==
  ASSUME NEW f \in Seq(Field), Len(f) > 1
  PROVE  /\ Front(f) \in Seq(Field) /\ Len(Front(f)) = Len(f) - 1
         /\ Last(Front(f)) = f[Len(f) - 1]
<1>1. Len(f) \in Nat /\ Len(f) - 1 \in Nat /\ Len(f) - 1 > 0
  OBVIOUS
<1>2. Front(f) = SubSeq(f, 1, Len(f) - 1)
  BY DEF Front
<1>3. SubSeq(f, 1, Len(f) - 1) \in Seq(Field) /\ Len(SubSeq(f, 1, Len(f) - 1)) = Len(f) - 1
      /\ SubSeq(f, 1, Len(f) - 1)[Len(f) - 1] = f[Len(f) - 1]
  BY <1>1
<1> QED BY <1>2, <1>3 DEF Last

\* The counts of verdicts of either kind, one verdict further on.
LEMMA CountNext ==
  ASSUME NEW k \in Nat
  PROVE  /\ Cardinality(Mobile(k)) \in Nat /\ Cardinality(Others(k)) \in Nat
         /\ verdicts[k + 1][3] => Cardinality(Mobile(k + 1)) = Cardinality(Mobile(k)) + 1
                                  /\ Others(k + 1) = Others(k)
         /\ ~verdicts[k + 1][3] => Cardinality(Others(k + 1)) = Cardinality(Others(k)) + 1
                                   /\ Mobile(k + 1) = Mobile(k)
<1>1. IsFiniteSet(Mobile(k)) /\ IsFiniteSet(Others(k))
  <2>1. IsFiniteSet(1..k)
    BY FS_Interval
  <2>2. Mobile(k) \subseteq 1..k /\ Others(k) \subseteq 1..k
    BY DEF Mobile, Others
  <2> QED BY <2>1, <2>2, FS_Subset
<1>2. k + 1 \notin Mobile(k) /\ k + 1 \notin Others(k)
  BY DEF Mobile, Others
<1>3. \A j : j \in 1..(k + 1) <=> j \in 1..k \/ j = k + 1
  OBVIOUS
<1>4. verdicts[k + 1][3] => Mobile(k + 1) = Mobile(k) \cup {k + 1} /\ Others(k + 1) = Others(k)
  BY <1>3, Zenon DEF Mobile, Others
<1>5. ~verdicts[k + 1][3] => Others(k + 1) = Others(k) \cup {k + 1} /\ Mobile(k + 1) = Mobile(k)
  BY <1>3, Zenon DEF Mobile, Others
<1> QED BY <1>1, <1>2, <1>4, <1>5, FS_AddElement, FS_CardinalityType

LEMMA FilterInitInv == FilterInit => FilterInv
<1> SUFFICES ASSUME FilterInit PROVE FilterInv
  OBVIOUS
<1>1. /\ row = 0 /\ query = Unread /\ step \in {"read", "failed"} /\ is_mobile = FALSE /\ ends \in BOOLEAN
      /\ verdicts = <<>> /\ need = <<>> /\ bad = <<>>
  BY DEF FilterInit, Unread
<1>2. log \in Seq(LogLine) /\ Len(log) \in Nat
  <2>1. PICK n \in 0..MaxQueries : log \in [1..n -> LogLine]
    BY DEF FilterInit
  <2>2. n \in Nat
    BY FilterAssumption
  <2> QED BY <2>1, <2>2
<1>3. FilterTypes
  <2>1. <<>> \in Seq(Verdict) /\ <<>> \in Seq(Field)
    OBVIOUS
  <2>2. query.of = 0 /\ query.fields = <<>> /\ query.long = FALSE
    BY <1>1 DEF Unread
  <2>3. row \in Nat /\ row <= Len(log) + 1 /\ ~(row = Len(log) + 1)
    BY <1>1, <1>2
  <2>4. is_mobile \in BOOLEAN /\ step # "closed"
        /\ step \in {"read", "split", "analyse", "write", "closed", "failed"}
    BY <1>1
  <2> QED BY <1>1, <1>2, <2>1, <2>2, <2>3, <2>4 DEF FilterTypes
<1>4. QueryIs
  BY <1>1 DEF QueryIs
<1>5. Len(verdicts) = 0 /\ LinesDone = 0 /\ ~(0 = Len(log) + 1)
  BY <1>1, <1>2 DEF LinesDone
<1>6. OwnOnes = {} /\ 1..LinesDone = {}
  BY <1>5 DEF OwnOnes
<1>7. VerdictsAre
  BY <1>5, <1>6 DEF VerdictsAre
<1>8. FilesAre
  <2>1. Mobile(0) = {} /\ Others(0) = {}
    BY DEF Mobile, Others
  <2>2. Written = 0
    BY <1>1 DEF Written
  <2>3. FlagIs
    BY <1>1 DEF FlagIs
  <2>4. Len(need) = 0 /\ Len(bad) = 0
    BY <1>1
  <2>5. CountsAre
    BY <2>1, <2>2, <2>4, FS_EmptySet DEF CountsAre
  <2>6. PlacesAre
    BY <2>2 DEF PlacesAre
  <2> QED BY <2>3, <2>5, <2>6 DEF FilesAre
<1> QED BY <1>3, <1>4, <1>7, <1>8 DEF FilterInv

LEMMA ReadQueryInv == FilterInv /\ ReadQuery => FilterInv'
<1> SUFFICES ASSUME FilterInv, ReadQuery PROVE FilterInv'
  OBVIOUS
<1>1. /\ step = "read" /\ ~AtEnd /\ row' = row + 1 /\ step' = "split"
      /\ log' = log /\ ends' = ends /\ is_mobile' = is_mobile /\ verdicts' = verdicts /\ need' = need /\ bad' = bad
      /\ query' = IF row < Len(log) THEN Whole(row + 1) ELSE query
  BY DEF ReadQuery, outVars, Whole
<1>2. log \in Seq(LogLine) /\ Len(log) \in Nat /\ row \in Nat /\ row < Len(log) + 1
  BY <1>1 DEF FilterInv, FilterTypes, AtEnd
<1>3. log = <<>> <=> Len(log) = 0
  BY <1>2
<1>4. FilterTypes'
  <2>1. query'.of \in Nat /\ query'.fields \in Seq(Field) /\ query'.long \in BOOLEAN
    <3>1. CASE row < Len(log)
      <4>1. row + 1 \in DOMAIN log /\ row + 1 \in Nat
        BY <1>2, <3>1
      <4>2. log[row + 1] \in LogLine
        BY <1>2, <4>1
      <4> QED BY <1>1, <3>1, <4>1, <4>2, LogLineIs DEF Whole
    <3>2. CASE ~ (row < Len(log))
      BY <1>1, <3>2 DEF FilterInv, FilterTypes
    <3> QED BY <3>1, <3>2
  <2>2. row' = Len(log) + 1 => ends \/ log = <<>>
    BY <1>1, <1>2 DEF AtEnd, FilterInv, FilterTypes
  <2> QED BY <1>1, <1>2, <2>1, <2>2 DEF FilterInv, FilterTypes
<1>5. QueryIs'
  <2>1. row' > 0 /\ (row' <= Len(log) <=> row < Len(log))
    BY <1>1, <1>2
  <2>2. CASE row < Len(log)
    <3>2. query' = Whole(row)'
      BY <1>1, <2>2 DEF Whole
    <3> QED BY <1>1, <2>1, <2>2, <3>2 DEF QueryIs
  <2>3. CASE ~ (row < Len(log))
    <3>1. row = Len(log)
      BY <1>2, <2>3
    <3>2. query' = IF row = 0 THEN Unread ELSE Remains(row)
      BY <1>1, <1>2, <2>3, <3>1 DEF FilterInv, QueryIs
    <3>3. query' = IF log = <<>> THEN Unread ELSE Remains(Len(log))
      BY <1>3, <3>1, <3>2
    <3>4. Remains(Len(log))' = Remains(Len(log))
      BY <1>1 DEF Remains, CutOff
    <3>5. query' = IF log' = <<>> THEN Unread ELSE Remains(Len(log))'
      BY <1>1, <3>3, <3>4
    <3> QED BY <1>1, <2>1, <2>3, <3>5 DEF QueryIs
  <2> QED BY <2>2, <2>3
<1>6. LinesDone' = LinesDone /\ CutCounts' = CutCounts
  BY <1>1, <1>2 DEF LinesDone, CutCounts
<1>7. OwnOnes' = OwnOnes
  BY <1>1, <1>6 DEF OwnOnes
<1>8. VerdictsAre'
  BY <1>1, <1>6, <1>7 DEF FilterInv, VerdictsAre
<1>9. FilesAre'
  <2>1. Written' = Written /\ \A k : Mobile(k)' = Mobile(k) /\ Others(k)' = Others(k)
    BY <1>1 DEF Written, Mobile, Others
  <2> QED BY <1>1, <2>1 DEF FilterInv, FilesAre, FlagIs, CountsAre, PlacesAre
<1> QED BY <1>4, <1>5, <1>8, <1>9 DEF FilterInv

LEMMA CloseFilesInv == FilterInv /\ CloseFiles => FilterInv'
<1> SUFFICES ASSUME FilterInv, CloseFiles PROVE FilterInv'
  OBVIOUS
<1>1. /\ step = "read" /\ AtEnd /\ step' = "closed"
      /\ UNCHANGED <<log, ends, row, query, is_mobile, verdicts, need, bad>>
  BY DEF CloseFiles, outVars
<1>2. FilterTypes'
  <2>1. AtEnd'
    BY <1>1 DEF AtEnd
  <2> QED BY <1>1, <2>1 DEF FilterInv, FilterTypes
<1>3. QueryIs'
  BY <1>1 DEF QueryIs
<1>4. LinesDone' = LinesDone /\ CutCounts' = CutCounts
  BY <1>1 DEF LinesDone, CutCounts
<1>5. OwnOnes' = OwnOnes
  BY <1>1, <1>4 DEF OwnOnes
<1>6. VerdictsAre'
  BY <1>1, <1>4, <1>5 DEF FilterInv, VerdictsAre
<1>7. FilesAre'
  <2>1. Written' = Written /\ \A k : Mobile(k)' = Mobile(k) /\ Others(k)' = Others(k)
    BY <1>1 DEF Written, Mobile, Others
  <2> QED BY <1>1, <2>1 DEF FilterInv, FilesAre, FlagIs, CountsAre, PlacesAre
<1> QED BY <1>2, <1>3, <1>6, <1>7 DEF FilterInv

(* A line that is split is done, unless its count asks for the analysis:   *)
(* the lines that count, and a last one seen again whose rest counts.      *)
LEMMA SplitCases ==
  ASSUME FilterInv, Split
  PROVE  /\ row > 0 /\ row \in Nat /\ Len(log) \in Nat
         /\ query'.of \in Nat /\ query'.fields \in Seq(Field) /\ query'.long \in BOOLEAN
         /\ row <= Len(log) => /\ query' = Remains(row)
                               /\ step' = IF Frequent(log[row]) THEN "analyse" ELSE "read"
         /\ row = Len(log) + 1 => step' = IF CutCounts THEN "analyse" ELSE "read"
         /\ row = Len(log) + 1 /\ CutCounts => query'.of = Len(log)
<1>1. /\ step = "split" /\ row > 0 /\ row \in Nat /\ row <= Len(log) + 1 /\ log \in Seq(LogLine) /\ Len(log) \in Nat
      /\ query = IF row <= Len(log) THEN Whole(row) ELSE IF log = <<>> THEN Unread ELSE Remains(Len(log))
      /\ row = Len(log) + 1 => ends \/ log = <<>>
  BY DEF Split, FilterInv, FilterTypes, QueryIs
<1>2. /\ query.long \/ Len(query.fields) < 2 => step' = "read" /\ query' = query
      /\ ~(query.long \/ Len(query.fields) < 2) =>
            /\ query' = [query EXCEPT !.fields = Front(query.fields)]
            /\ step' = IF Last(query.fields) = "often" THEN "analyse" ELSE "read"
  BY DEF Split
<1>3. CASE row <= Len(log)
  <2> DEFINE l == log[row]
  <2>1. l \in LogLine
    BY <1>1, <1>3
  <2>2. l.fields \in Seq(Field) /\ Len(l.fields) \in Nat /\ l.long \in BOOLEAN
    BY <2>1, LogLineIs
  <2>3. query = [of |-> row, fields |-> l.fields, long |-> l.long]
    BY <1>1, <1>3 DEF Whole
  <2>4. query.of = row /\ query.fields = l.fields /\ query.long = l.long
    BY <2>3
  <2> HIDE DEF l
  <2>5. CASE l.long \/ Len(l.fields) < 2
    <3>1. query' = query /\ step' = "read"
      BY <1>2, <2>4, <2>5
    <3>2. CutOff(l) = l.fields /\ ~Frequent(l)
      BY <2>2, <2>5 DEF CutOff, Frequent
    <3>3. query' = Remains(row)
      BY <2>3, <3>1, <3>2 DEF Remains, l
    <3> QED BY <1>1, <1>3, <2>2, <2>4, <3>1, <3>2, <3>3 DEF l
  <2>6. CASE ~(l.long \/ Len(l.fields) < 2)
    <3>1. query' = [of |-> row, fields |-> Front(l.fields), long |-> l.long]
      BY <1>2, <2>3, <2>4, <2>6
    <3>2. CutOff(l) = Front(l.fields) /\ (Frequent(l) <=> Last(l.fields) = "often")
      BY <2>2, <2>6 DEF CutOff, Frequent
    <3>3. step' = IF Frequent(l) THEN "analyse" ELSE "read"
      BY <1>2, <2>4, <2>6, <3>2
    <3>4. query' = Remains(row)
      BY <3>1, <3>2 DEF Remains, l
    <3>5. Front(l.fields) \in Seq(Field)
      BY <2>2, <2>6, CutIs
    <3> QED BY <1>1, <1>3, <2>2, <3>1, <3>3, <3>4, <3>5 DEF l
  <2> QED BY <2>5, <2>6
<1>4. CASE row = Len(log) + 1 /\ log = <<>>
  <2>1. query = Unread
    BY <1>1, <1>4
  <2>2. query.of = 0 /\ query.fields = <<>> /\ query.long = FALSE /\ Len(query.fields) < 2
    BY <2>1 DEF Unread
  <2>3. query' = query /\ step' = "read"
    BY <1>2, <2>2
  <2>4. ~CutCounts
    BY <1>4 DEF CutCounts
  <2>5. query'.of = 0 /\ query'.fields \in Seq(Field) /\ query'.long \in BOOLEAN
    <3>1. <<>> \in Seq(Field)
      OBVIOUS
    <3>2. query'.of = 0 /\ query'.fields = <<>> /\ query'.long = FALSE
      BY <2>2, <2>3, Zenon
    <3> QED BY <3>1, <3>2, Zenon
  <2>6. ~(row <= Len(log))
    BY <1>1, <1>4
  <2> QED BY <1>1, <1>4, <2>3, <2>4, <2>5, <2>6
<1>5. CASE row = Len(log) + 1 /\ log # <<>>
  <2> DEFINE l == log[Len(log)]
             c == CutOff(l)
  <2>1. l \in LogLine /\ ends
    BY <1>1, <1>5
  <2>2. l.fields \in Seq(Field) /\ Len(l.fields) \in Nat /\ l.long \in BOOLEAN
    BY <2>1, LogLineIs
  <2>3. query = [of |-> Len(log), fields |-> c, long |-> l.long]
    BY <1>1, <1>5 DEF Remains
  <2>4. query.of = Len(log) /\ query.fields = c /\ query.long = l.long
    BY <2>3
  <2>5. CutCounts <=> ~l.long /\ Len(l.fields) > 2 /\ l.fields[Len(l.fields) - 1] = "often"
    BY <1>5, <2>1 DEF CutCounts, Last
  <2> HIDE DEF l
  <2>6. CASE l.long \/ Len(l.fields) < 3
    <3>1. c \in Seq(Field) /\ (l.long \/ Len(c) < 2)
      <4>1. CASE l.long \/ Len(l.fields) < 2
        BY <2>2, <4>1 DEF CutOff
      <4>2. CASE ~l.long /\ Len(l.fields) = 2
        <5>1. c = Front(l.fields)
          BY <2>2, <4>2 DEF CutOff
        <5>2. Front(l.fields) \in Seq(Field) /\ Len(Front(l.fields)) = 1
          <6>1. \A n \in Nat : n = 2 => n > 1 /\ n - 1 = 1
            OBVIOUS
          <6>2. Len(l.fields) > 1 /\ Len(l.fields) - 1 = 1
            BY <2>2, <4>2, <6>1, Zenon
          <6> QED BY ONLY <2>2, <6>2, CutIs
        <5> HIDE DEF c
        <5> QED BY <5>1, <5>2
      <4>3. Len(l.fields) < 3 => Len(l.fields) < 2 \/ Len(l.fields) = 2
        <5>1. \A n \in Nat : n < 3 => n < 2 \/ n = 2
          OBVIOUS
        <5> QED BY <2>2, <5>1, Zenon
      <4> HIDE DEF c
      <4> QED BY <2>6, <4>1, <4>2, <4>3
    <3> HIDE DEF c
    <3>2. query' = query /\ step' = "read"
      BY <1>2, <2>4, <3>1
    <3>3. ~CutCounts
      BY <2>2, <2>5, <2>6
    <3> QED BY <1>1, <1>5, <2>2, <2>4, <3>1, <3>2, <3>3
  <2>7. CASE ~(l.long \/ Len(l.fields) < 3)
    <3>1. c = Front(l.fields) /\ Len(l.fields) > 1
      BY <2>2, <2>7 DEF CutOff
    <3>2. c \in Seq(Field) /\ Len(c) = Len(l.fields) - 1 /\ Last(c) = l.fields[Len(l.fields) - 1]
      BY <2>2, <3>1, CutIs
    <3> HIDE DEF c
    <3>3. Len(c) \in Nat /\ Len(c) > 1
      BY <2>2, <2>7, <3>2
    <3>4. query' = [query EXCEPT !.fields = Front(c)] /\ step' = IF Last(c) = "often" THEN "analyse" ELSE "read"
      BY <1>2, <2>4, <2>7, <3>3
    <3>5. query' = [of |-> Len(log), fields |-> Front(c), long |-> l.long]
      BY <2>3, <3>4
    <3>6. Front(c) \in Seq(Field)
      BY <3>2, <3>3, CutIs
    <3>7. CutCounts <=> Last(c) = "often"
      BY <2>2, <2>5, <2>7, <3>2
    <3> QED BY <1>1, <1>5, <2>2, <3>4, <3>5, <3>6, <3>7
  <2> QED BY <2>6, <2>7
<1> QED BY <1>1, <1>3, <1>4, <1>5

LEMMA SplitInv == FilterInv /\ Split => FilterInv'
<1> SUFFICES ASSUME FilterInv, Split PROVE FilterInv'
  OBVIOUS
<1>1. /\ step = "split" /\ step' \in {"read", "analyse"}
      /\ log' = log /\ ends' = ends /\ row' = row
      /\ is_mobile' = is_mobile /\ verdicts' = verdicts /\ need' = need /\ bad' = bad
  BY DEF Split, outVars
<1>2. /\ row > 0 /\ row \in Nat /\ Len(log) \in Nat /\ row <= Len(log) + 1
      /\ query'.of \in Nat /\ query'.fields \in Seq(Field) /\ query'.long \in BOOLEAN
      /\ row <= Len(log) => /\ query' = Remains(row)
                            /\ step' = IF Frequent(log[row]) THEN "analyse" ELSE "read"
      /\ row = Len(log) + 1 => step' = IF CutCounts THEN "analyse" ELSE "read"
      /\ row = Len(log) + 1 /\ CutCounts => query'.of = Len(log)
  BY SplitCases DEF FilterInv, FilterTypes
<1>3. FilterTypes'
  BY <1>1, <1>2 DEF FilterInv, FilterTypes
<1>4. CutCounts' = CutCounts /\ Remains(row)' = IF row' <= Len(log) THEN Remains(row) ELSE Remains(row)'
  <2>1. Remains(row)' = Remains(row)
    BY <1>1 DEF Remains, CutOff
  <2> QED BY <1>1, <2>1 DEF CutCounts
<1>5. QueryIs'
  <2>1. row' <= Len(log) => query' = Remains(row)'
    BY <1>1, <1>2, <1>4
  <2>2. row' # 0 /\ row' > 0 /\ step' # "split" /\ step' # "write"
    BY <1>1, <1>2
  <2>3. step' = "analyse" => /\ row' <= Len(log') => Frequent(log'[row']) /\ query' = Remains(row)'
                             /\ row' = Len(log') + 1 => CutCounts' /\ query'.of = Len(log')
    BY <1>1, <1>2, <1>4
  <2> QED BY <1>1, <2>1, <2>2, <2>3 DEF QueryIs
<1>6. LinesDone = row - 1 /\ LinesDone' \in {row - 1, row}
  BY <1>1 DEF LinesDone
<1>7. CASE step' = "analyse"
  <2>1. LinesDone' = LinesDone
    BY <1>1, <1>7 DEF LinesDone
  <2>2. OwnOnes' = OwnOnes
    BY <1>1, <1>4, <2>1 DEF OwnOnes
  <2>3. VerdictsAre'
    BY <1>1, <1>4, <2>1, <2>2 DEF FilterInv, VerdictsAre
  <2> QED BY <1>3, <1>5, <2>3, <1>1 DEF FilterInv, FilesAre, FlagIs, CountsAre, PlacesAre, Written, Mobile, Others
<1>8. CASE step' = "read"
  <2>1. LinesDone' = row
    BY <1>1, <1>8 DEF LinesDone
  <2>2. (row <= Len(log) => ~Frequent(log[row])) /\ (row = Len(log) + 1 => ~CutCounts)
    BY <1>2, <1>8
  <2>3. ~(CutCounts /\ LinesDone = Len(log) + 1) /\ ~(CutCounts /\ row = Len(log) + 1)
    BY <1>2, <1>6, <2>2
  <2>4. OwnOnes' = OwnOnes
    BY <1>1, <1>4, <2>1, <2>3 DEF OwnOnes
  <2>5. VerdictsAre'
    <3>1. \A i : i \in 1..row <=> i \in 1..(row - 1) \/ i = row
      BY <1>2
    <3>2. \A k \in OwnOnes : /\ verdicts[k][1] \in 1..row /\ verdicts[k][1] <= Len(log)
                             /\ Frequent(log[verdicts[k][1]])
                             /\ verdicts[k][2] = Front(log[verdicts[k][1]].fields)
      BY <1>6, <3>1 DEF FilterInv, VerdictsAre
    <3>3. \A i \in 1..row : i <= Len(log) /\ Frequent(log[i]) => \E k \in OwnOnes : verdicts[k][1] = i
      BY <1>6, <2>2, <3>1 DEF FilterInv, VerdictsAre
    <3>4. \A j, k \in OwnOnes : j < k => verdicts[j][1] < verdicts[k][1]
      BY DEF FilterInv, VerdictsAre
    <3> QED BY <1>1, <1>4, <2>1, <2>3, <2>4, <3>2, <3>3, <3>4 DEF VerdictsAre
  <2> QED BY <1>3, <1>5, <2>5, <1>1 DEF FilterInv, FilesAre, FlagIs, CountsAre, PlacesAre, Written, Mobile, Others
<1> QED BY <1>1, <1>7, <1>8

LEMMA AnalyseInv == FilterInv /\ Analyse => FilterInv'
<1> SUFFICES ASSUME FilterInv, Analyse PROVE FilterInv'
  OBVIOUS
<1>1. PICK mobile \in BOOLEAN :
         /\ is_mobile' = (is_mobile \/ mobile)
         /\ verdicts' = Append(verdicts, <<query.of, query.fields, mobile>>)
  BY DEF Analyse
<1>2. /\ step = "analyse" /\ step' = "write" /\ log' = log /\ ends' = ends /\ row' = row
      /\ query' = query /\ need' = need /\ bad' = bad
  BY DEF Analyse
<1>3. /\ row > 0 /\ row \in Nat /\ row <= Len(log) + 1 /\ Len(log) \in Nat
      /\ row <= Len(log) => Frequent(log[row]) /\ query = Remains(row)
      /\ row = Len(log) + 1 => CutCounts /\ query.of = Len(log)
      /\ query.of \in Nat /\ query.fields \in Seq(Field) /\ verdicts \in Seq(Verdict) /\ is_mobile = FALSE
  BY <1>2 DEF FilterInv, FilterTypes, QueryIs, FilesAre, FlagIs
<1>0. PICK all \in Nat : all = Len(verdicts)
  BY <1>3
<1> DEFINE new == <<query.of, query.fields, mobile>>
<1>4. new \in Verdict /\ new[1] = query.of /\ new[2] = query.fields /\ new[3] = mobile
  BY <1>3 DEF Verdict
<1> HIDE DEF new
<1>5. /\ all \in Nat /\ Len(verdicts') = all + 1 /\ verdicts' \in Seq(Verdict)
      /\ verdicts'[all + 1] = new /\ \A k \in 1..all : verdicts'[k] = verdicts[k]
  BY <1>0, <1>1, <1>3, <1>4 DEF new
<1>6. is_mobile' = mobile
  BY <1>1, <1>3
<1>7. FilterTypes'
  BY <1>2, <1>5, <1>6 DEF FilterInv, FilterTypes
<1>8. CutCounts' = CutCounts /\ Remains(row)' = Remains(row)
  BY <1>2 DEF CutCounts, Remains, CutOff
<1>9. QueryIs'
  BY <1>2, <1>3, <1>8 DEF QueryIs
<1>10. LinesDone = row - 1 /\ LinesDone' = row /\ ~(LinesDone = Len(log) + 1) /\ OwnOnes = 1..all
  BY <1>0, <1>2, <1>3 DEF LinesDone, OwnOnes
<1>11. ASSUME row <= Len(log) PROVE VerdictsAre'
  <2>1. OwnOnes' = 1..(all + 1) /\ ~(row = Len(log) + 1)
    BY <1>2, <1>3, <1>5, <1>8, <1>10, <1>11 DEF OwnOnes
  <2>2. new[1] = row /\ new[2] = Front(log[row].fields) /\ Frequent(log[row])
    <3>1. Frequent(log[row]) /\ query = Remains(row)
      BY <1>3, <1>11
    <3>2. query.of = row /\ query.fields = CutOff(log[row])
      BY <3>1 DEF Remains
    <3>3. CutOff(log[row]) = Front(log[row].fields)
      <4>1. log[row] \in LogLine
        BY <1>3, <1>11 DEF FilterInv, FilterTypes
      <4>2. Len(log[row].fields) \in Nat
        BY <4>1, LogLineIs
      <4>3. \A n \in Nat : n > 1 => ~(n < 2)
        OBVIOUS
      <4> QED BY <3>1, <4>2, <4>3, Zenon DEF Frequent, CutOff
    <3> QED BY <1>4, <3>1, <3>2, <3>3
  <2>3. \A k : k \in 1..(all + 1) <=> k \in 1..all \/ k = all + 1
    BY <1>5
  <2>4. \A i : i \in 1..row <=> i \in 1..(row - 1) \/ i = row
    BY <1>3
  <2>5. \A k \in 1..all : /\ verdicts[k][1] \in 1..(row - 1) /\ verdicts[k][1] <= Len(log)
                          /\ Frequent(log[verdicts[k][1]])
                          /\ verdicts[k][2] = Front(log[verdicts[k][1]].fields)
    BY <1>10 DEF FilterInv, VerdictsAre
  <2>6. ASSUME NEW k \in 1..(all + 1)
        PROVE  /\ verdicts'[k][1] \in 1..row /\ verdicts'[k][1] <= Len(log)
               /\ Frequent(log[verdicts'[k][1]])
               /\ verdicts'[k][2] = Front(log[verdicts'[k][1]].fields)
    <3>1. CASE k = all + 1
      BY <1>5, <1>11, <2>2, <2>4, <3>1
    <3>2. CASE k \in 1..all
      <4>1. verdicts'[k] = verdicts[k]
        BY <1>5, <3>2
      <4> QED BY <2>4, <2>5, <3>2, <4>1
    <3> QED BY <2>3, <3>1, <3>2
  <2>7. ASSUME NEW i \in 1..row, i <= Len(log), Frequent(log[i])
        PROVE  \E k \in 1..(all + 1) : verdicts'[k][1] = i
    <3>1. CASE i = row
      BY <1>5, <2>2, <2>3, <3>1
    <3>2. CASE i \in 1..(row - 1)
      <4>1. PICK k \in 1..all : verdicts[k][1] = i
        BY <1>10, <2>7, <3>2 DEF FilterInv, VerdictsAre
      <4> QED BY <1>5, <2>3, <4>1
    <3> QED BY <2>4, <3>1, <3>2
  <2>8. ASSUME NEW j \in 1..(all + 1), NEW k \in 1..(all + 1), j < k
        PROVE  verdicts'[j][1] < verdicts'[k][1]
    <3>1. j \in 1..all /\ verdicts'[j] = verdicts[j]
      BY <1>5, <2>8
    <3>2. CASE k = all + 1
      <4>1. verdicts[j][1] \in 1..(row - 1)
        BY <2>5, <3>1
      <4>2. verdicts'[k][1] = row
        BY <1>5, <2>2, <3>2
      <4> QED BY <1>3, <3>1, <4>1, <4>2
    <3>3. CASE k \in 1..all
      BY <1>5, <1>10, <2>8, <3>1, <3>3 DEF FilterInv, VerdictsAre
    <3> QED BY <2>3, <3>2, <3>3
  <2>9. VerdictsAre'
    BY <1>2, <1>8, <1>10, <2>1, <2>6, <2>7, <2>8 DEF VerdictsAre
  <2> QED BY <2>9
<1>12. ASSUME row = Len(log) + 1 PROVE VerdictsAre'
  <2>1. CutCounts /\ OwnOnes' = 1..all /\ new[1] = Len(log)
    BY <1>2, <1>3, <1>4, <1>5, <1>8, <1>10, <1>12 DEF OwnOnes
  <2>2. \A i : i \in 1..row /\ i <= Len(log) <=> i \in 1..(row - 1) /\ i <= Len(log)
    BY <1>3, <1>12
  <2>3. \A k \in 1..all : /\ verdicts'[k][1] \in 1..row /\ verdicts'[k][1] <= Len(log)
                          /\ Frequent(log[verdicts'[k][1]])
                          /\ verdicts'[k][2] = Front(log[verdicts'[k][1]].fields)
    BY <1>5, <1>10, <2>2 DEF FilterInv, VerdictsAre
  <2>4. \A i \in 1..row : i <= Len(log) /\ Frequent(log[i]) => \E k \in 1..all : verdicts'[k][1] = i
    BY <1>5, <1>10, <2>2 DEF FilterInv, VerdictsAre
  <2>5. \A j, k \in 1..all : j < k => verdicts'[j][1] < verdicts'[k][1]
    BY <1>5, <1>10 DEF FilterInv, VerdictsAre
  <2>6. Len(verdicts') > 0 /\ verdicts'[Len(verdicts')][1] = Len(log)
    BY <1>5, <2>1
  <2>7. VerdictsAre'
    BY <1>2, <1>8, <1>10, <2>1, <2>3, <2>4, <2>5, <2>6 DEF VerdictsAre
  <2> QED BY <2>7
<1>13. VerdictsAre'
  BY <1>3, <1>11, <1>12
<1>14. FilesAre'
  <2>1. Written = all /\ Written' = all
    BY <1>0, <1>2, <1>5 DEF Written
  <2>2. \A k \in 0..all : Mobile(k)' = Mobile(k) /\ Others(k)' = Others(k)
    <3> SUFFICES ASSUME NEW k \in 0..all PROVE Mobile(k)' = Mobile(k) /\ Others(k)' = Others(k)
      OBVIOUS
    <3>1. \A j \in 1..k : verdicts'[j] = verdicts[j]
      BY <1>5
    <3> QED BY <3>1 DEF Mobile, Others
  <2>3. all \in 0..all /\ \A k \in 1..all : k \in 0..all
    BY <1>5
  <2>4. Len(need') = Cardinality(Mobile(all)') /\ Len(bad') = Cardinality(Others(all)')
    BY <1>2, <2>1, <2>2, <2>3 DEF FilterInv, FilesAre, FlagIs, CountsAre, PlacesAre
  <2>5. \A k \in 1..all : /\ verdicts'[k][3] => need'[Cardinality(Mobile(k)')] = verdicts'[k]
                          /\ ~verdicts'[k][3] => bad'[Cardinality(Others(k)')] = verdicts'[k]
    BY <1>2, <1>5, <2>1, <2>2, <2>3 DEF FilterInv, FilesAre, FlagIs, CountsAre, PlacesAre
  <2>6. Len(verdicts') > 0 /\ is_mobile' = verdicts'[Len(verdicts')][3]
    BY <1>4, <1>5, <1>6
  <2>7. Mobile(Written)' = Mobile(all)' /\ Others(Written)' = Others(all)'
    BY <2>1 DEF Mobile, Others
  <2>8. Len(need') = Cardinality(Mobile(Written)') /\ Len(bad') = Cardinality(Others(Written)')
    BY <2>4, <2>7, Zenon
  <2>9. \A k \in 1..Written' : /\ verdicts'[k][3] => need'[Cardinality(Mobile(k)')] = verdicts'[k]
                               /\ ~verdicts'[k][3] => bad'[Cardinality(Others(k)')] = verdicts'[k]
    BY <2>1, <2>5, Zenon
  <2>10. step' = "write"
    BY <1>2
  <2>11. FlagIs'
    BY <2>6, <2>10, Zenon DEF FlagIs
  <2>12. CountsAre'
    BY <2>8, Zenon DEF CountsAre
  <2>13. PlacesAre'
    BY ONLY <2>9, PlacesNext
  <2> QED BY <2>11, <2>12, <2>13 DEF FilesAre
<1> QED BY <1>7, <1>9, <1>13, <1>14 DEF FilterInv

LEMMA WriteQueryInv == FilterInv /\ WriteQuery => FilterInv'
<1> SUFFICES ASSUME FilterInv, WriteQuery PROVE FilterInv'
  OBVIOUS
<1>1. /\ step = "write" /\ step' = "read" /\ is_mobile' = FALSE
      /\ log' = log /\ ends' = ends /\ row' = row /\ query' = query /\ verdicts' = verdicts
      /\ is_mobile => need' = Append(need, Last(verdicts)) /\ bad' = bad
      /\ ~is_mobile => bad' = Append(bad, Last(verdicts)) /\ need' = need
  BY DEF WriteQuery
<1>2. /\ row \in Nat /\ row > 0 /\ Len(log) \in Nat /\ row <= Len(log) + 1 /\ is_mobile \in BOOLEAN
      /\ row <= Len(log) => query = Remains(row)
      /\ verdicts \in Seq(Verdict) /\ need \in Seq(Verdict) /\ bad \in Seq(Verdict)
      /\ Len(verdicts) > 0 /\ is_mobile = verdicts[Len(verdicts)][3]
  BY <1>1 DEF FilterInv, FilterTypes, QueryIs, FilesAre, FlagIs
<1>3. PICK n \in Nat : Len(verdicts) = n + 1
  <2>1. Len(verdicts) - 1 \in Nat /\ Len(verdicts) = (Len(verdicts) - 1) + 1
    BY <1>2
  <2> QED BY <2>1
<1>4. Last(verdicts) = verdicts[n + 1] /\ verdicts[n + 1] \in Verdict
  BY <1>2, <1>3 DEF Last
<1>5. FilterTypes'
  <2>1. need' \in Seq(Verdict) /\ bad' \in Seq(Verdict)
    <3>1. Append(need, verdicts[n + 1]) \in Seq(Verdict) /\ Append(bad, verdicts[n + 1]) \in Seq(Verdict)
      BY <1>2, <1>4
    <3> QED BY <1>1, <1>2, <1>4, <3>1, Zenon
  <2> QED BY <1>1, <2>1 DEF FilterInv, FilterTypes
<1>6. QueryIs'
  <2>1. Remains(row)' = Remains(row) /\ row' # 0
    BY <1>1, <1>2 DEF Remains, CutOff
  <2> QED BY <1>1, <1>2, <2>1 DEF QueryIs
<1>7. VerdictsAre'
  <2>1. LinesDone' = LinesDone /\ CutCounts' = CutCounts
    BY <1>1 DEF LinesDone, CutCounts
  <2>2. OwnOnes' = OwnOnes
    BY <1>1, <2>1 DEF OwnOnes
  <2> QED BY <1>1, <2>1, <2>2 DEF FilterInv, VerdictsAre
<1>8. FilesAre'
  <2>1. Written = n /\ Written' = n + 1
    BY <1>1, <1>3 DEF Written
  <2>2. /\ Len(need) = Cardinality(Mobile(n)) /\ Len(bad) = Cardinality(Others(n))
        /\ \A k \in 1..n : /\ verdicts[k][3] => need[Cardinality(Mobile(k))] = verdicts[k]
                           /\ ~verdicts[k][3] => bad[Cardinality(Others(k))] = verdicts[k]
    BY <2>1 DEF FilterInv, FilesAre, FlagIs, CountsAre, PlacesAre
  <2>3. \A k \in 1..n : /\ verdicts[k][3] => Cardinality(Mobile(k)) \in 1..Len(need)
                        /\ ~verdicts[k][3] => Cardinality(Others(k)) \in 1..Len(bad)
    <3> SUFFICES ASSUME NEW k \in 1..n
                 PROVE  /\ verdicts[k][3] => Cardinality(Mobile(k)) \in 1..Len(need)
                        /\ ~verdicts[k][3] => Cardinality(Others(k)) \in 1..Len(bad)
      OBVIOUS
    <3>1. Mobile(k) \subseteq Mobile(n) /\ Others(k) \subseteq Others(n)
      <4>1. \A j \in 1..k : j \in 1..n
        OBVIOUS
      <4> QED BY <4>1, Zenon DEF Mobile, Others
    <3>2. IsFiniteSet(Mobile(n)) /\ IsFiniteSet(Others(n))
      <4>1. IsFiniteSet(1..n)
        BY FS_Interval
      <4>2. Mobile(n) \subseteq 1..n /\ Others(n) \subseteq 1..n
        BY DEF Mobile, Others
      <4> QED BY <4>1, <4>2, FS_Subset
    <3>3. /\ Cardinality(Mobile(k)) <= Len(need) /\ Cardinality(Others(k)) <= Len(bad)
          /\ IsFiniteSet(Mobile(k)) /\ IsFiniteSet(Others(k))
      BY <2>2, <3>1, <3>2, FS_Subset
    <3>4. (verdicts[k][3] => k \in Mobile(k)) /\ (~verdicts[k][3] => k \in Others(k))
      <4>1. k \in 1..k
        OBVIOUS
      <4> QED BY <4>1, Zenon DEF Mobile, Others
    <3>5. /\ Cardinality(Mobile(k)) \in Nat /\ Cardinality(Others(k)) \in Nat
          /\ (Mobile(k) # {} => Cardinality(Mobile(k)) # 0) /\ (Others(k) # {} => Cardinality(Others(k)) # 0)
      BY <3>3, FS_CardinalityType, FS_EmptySet
    <3>6. Len(need) \in Nat /\ Len(bad) \in Nat
      BY <1>2
    <3>7. \A c, m \in Nat : c # 0 /\ c <= m => c \in 1..m
      OBVIOUS
    <3> QED BY <3>3, <3>4, <3>5, <3>6, <3>7, Zenon
  <2>4. \A k : Mobile(k)' = Mobile(k) /\ Others(k)' = Others(k)
    BY <1>1 DEF Mobile, Others
  <2>5. \A k : k \in 1..(n + 1) <=> k \in 1..n \/ k = n + 1
    OBVIOUS
  <2>6. CASE is_mobile
    <3>1. verdicts[n + 1][3]
      BY <1>2, <1>3, <2>6, Zenon
    <3>2. /\ Cardinality(Mobile(n + 1)) = Cardinality(Mobile(n)) + 1 /\ Others(n + 1) = Others(n)
          /\ Cardinality(Mobile(n)) \in Nat
      BY <3>1, CountNext
    <3>3. need' = Append(need, verdicts[n + 1]) /\ bad' = bad
      BY <1>1, <1>4, <2>6
    <3>4. /\ Len(need') = Len(need) + 1 /\ need'[Len(need) + 1] = verdicts[n + 1]
          /\ \A m \in 1..Len(need) : need'[m] = need[m]
      BY <1>2, <1>4, <3>3
    <3>5. Len(need') = Cardinality(Mobile(n + 1)) /\ Len(bad') = Cardinality(Others(n + 1))
      BY <2>2, <3>2, <3>3, <3>4
    <3>6. \A k \in 1..n : /\ verdicts[k][3] => need'[Cardinality(Mobile(k))] = verdicts[k]
                          /\ ~verdicts[k][3] => bad'[Cardinality(Others(k))] = verdicts[k]
      BY <2>2, <2>3, <3>3, <3>4, Zenon
    <3>7. need'[Cardinality(Mobile(n + 1))] = verdicts[n + 1]
      BY <2>2, <3>2, <3>4
    <3>8. \A k \in 1..(n + 1) : /\ verdicts[k][3] => need'[Cardinality(Mobile(k))] = verdicts[k]
                                /\ ~verdicts[k][3] => bad'[Cardinality(Others(k))] = verdicts[k]
      BY <2>5, <3>1, <3>6, <3>7, Zenon
    <3>9. step' # "write"
      BY <1>1
    <3>10. FlagIs'
      BY <1>1, <3>9 DEF FlagIs
    <3>11. CountsAre'
      <4>1. Mobile(Written)' = Mobile(n + 1) /\ Others(Written)' = Others(n + 1)
        BY <1>1, <2>1 DEF Mobile, Others
      <4> QED BY <3>5, <4>1 DEF CountsAre
    <3>12. PlacesAre'
      <4>1. \A k \in 1..Written' : /\ verdicts'[k][3] => need'[Cardinality(Mobile(k)')] = verdicts'[k]
                                   /\ ~verdicts'[k][3] => bad'[Cardinality(Others(k)')] = verdicts'[k]
        BY <1>1, <2>1, <2>4, <3>8, Zenon
      <4> QED BY ONLY <4>1, PlacesNext
    <3> QED BY <3>10, <3>11, <3>12 DEF FilesAre
  <2>7. CASE ~is_mobile
    <3>1. ~verdicts[n + 1][3]
      BY <1>2, <1>3, <2>7, Zenon
    <3>2. /\ Cardinality(Others(n + 1)) = Cardinality(Others(n)) + 1 /\ Mobile(n + 1) = Mobile(n)
          /\ Cardinality(Others(n)) \in Nat
      BY <3>1, CountNext
    <3>3. bad' = Append(bad, verdicts[n + 1]) /\ need' = need
      BY <1>1, <1>4, <2>7
    <3>4. /\ Len(bad') = Len(bad) + 1 /\ bad'[Len(bad) + 1] = verdicts[n + 1]
          /\ \A m \in 1..Len(bad) : bad'[m] = bad[m]
      BY <1>2, <1>4, <3>3
    <3>5. Len(need') = Cardinality(Mobile(n + 1)) /\ Len(bad') = Cardinality(Others(n + 1))
      BY <2>2, <3>2, <3>3, <3>4
    <3>6. \A k \in 1..n : /\ verdicts[k][3] => need'[Cardinality(Mobile(k))] = verdicts[k]
                          /\ ~verdicts[k][3] => bad'[Cardinality(Others(k))] = verdicts[k]
      BY <2>2, <2>3, <3>3, <3>4, Zenon
    <3>7. bad'[Cardinality(Others(n + 1))] = verdicts[n + 1]
      BY <2>2, <3>2, <3>4
    <3>8. \A k \in 1..(n + 1) : /\ verdicts[k][3] => need'[Cardinality(Mobile(k))] = verdicts[k]
                                /\ ~verdicts[k][3] => bad'[Cardinality(Others(k))] = verdicts[k]
      BY <2>5, <3>1, <3>6, <3>7, Zenon
    <3>9. step' # "write"
      BY <1>1
    <3>10. FlagIs'
      BY <1>1, <3>9 DEF FlagIs
    <3>11. CountsAre'
      <4>1. Mobile(Written)' = Mobile(n + 1) /\ Others(Written)' = Others(n + 1)
        BY <1>1, <2>1 DEF Mobile, Others
      <4> QED BY <3>5, <4>1 DEF CountsAre
    <3>12. PlacesAre'
      <4>1. \A k \in 1..Written' : /\ verdicts'[k][3] => need'[Cardinality(Mobile(k)')] = verdicts'[k]
                                   /\ ~verdicts'[k][3] => bad'[Cardinality(Others(k)')] = verdicts'[k]
        BY <1>1, <2>1, <2>4, <3>8, Zenon
      <4> QED BY ONLY <4>1, PlacesNext
    <3> QED BY <3>10, <3>11, <3>12 DEF FilesAre
  <2> QED BY <2>6, <2>7
<1> QED BY <1>5, <1>6, <1>7, <1>8 DEF FilterInv

LEMMA FilterStep == FilterInv /\ [FilterNext]_filterVars => FilterInv'
<1> SUFFICES ASSUME FilterInv, [FilterNext]_filterVars PROVE FilterInv'
  OBVIOUS
<1>1. CASE UNCHANGED filterVars
  <2>1. /\ log' = log /\ ends' = ends /\ row' = row /\ query' = query /\ step' = step
        /\ is_mobile' = is_mobile /\ verdicts' = verdicts /\ need' = need /\ bad' = bad
    BY <1>1 DEF filterVars
  <2>2. FilterTypes'
    BY <2>1 DEF FilterInv, FilterTypes, AtEnd
  <2>3. CutCounts' = CutCounts /\ LinesDone' = LinesDone /\ Written' = Written
    BY <2>1 DEF CutCounts, LinesDone, Written
  <2>4. \A i : Remains(i)' = Remains(i) /\ Whole(i)' = Whole(i)
    BY <2>1 DEF Remains, Whole, CutOff
  <2>5. Remains(row)' = Remains(row) /\ Whole(row)' = Whole(row) /\ Remains(Len(log))' = Remains(Len(log))
    BY <2>1 DEF Remains, Whole, CutOff
  <2>6. QueryIs'
    BY <2>1, <2>3, <2>5 DEF FilterInv, QueryIs
  <2>7. OwnOnes' = OwnOnes
    BY <2>1, <2>3 DEF OwnOnes
  <2>8. VerdictsAre'
    BY <2>1, <2>3, <2>7 DEF FilterInv, VerdictsAre
  <2>9. FilesAre'
    <3>1. \A k : Mobile(k)' = Mobile(k) /\ Others(k)' = Others(k)
      BY <2>1 DEF Mobile, Others
    <3>2. Mobile(Written)' = Mobile(Written) /\ Others(Written)' = Others(Written)
      BY <2>1, <2>3 DEF Mobile, Others
    <3> QED BY <2>1, <2>3, <3>1, <3>2 DEF FilterInv, FilesAre, FlagIs, CountsAre, PlacesAre
  <2> QED BY <2>2, <2>6, <2>8, <2>9 DEF FilterInv
<1> QED BY <1>1, ReadQueryInv, CloseFilesInv, SplitInv, AnalyseInv, WriteQueryInv DEF FilterNext

(* filter_query writes each line counted twice or more once, to the file   *)
(* its analysis chose and in the order of the input, whatever the last     *)
(* turn of the loop finds in the buffer.                                   *)
THEOREM QueriesSortedOnce == FilterSpec => []SortedOnce
<1>1. FilterInv => SortedOnce
  <2> SUFFICES ASSUME FilterInv, step = "closed" PROVE SortedOnce
    BY DEF SortedOnce
  <2>1. LinesDone = row /\ Written = Len(verdicts) /\ AtEnd /\ row \in Nat /\ Len(log) \in Nat /\ log \in Seq(LogLine)
    BY DEF LinesDone, Written, FilterInv, FilterTypes
  <2>2. CutCounts => row = Len(log) + 1
    BY <2>1 DEF CutCounts, AtEnd
  <2>3. \A i : i \in 1..row /\ i <= Len(log) <=> i \in DOMAIN log
    <3>1. row = Len(log) \/ row = Len(log) + 1
      BY <2>1 DEF AtEnd
    <3>2. DOMAIN log = 1..Len(log)
      BY <2>1
    <3> SUFFICES ASSUME NEW i PROVE i \in 1..row /\ i <= Len(log) <=> i \in 1..Len(log)
      BY <3>2
    <3>3. i \in 1..row <=> i \in Int /\ 1 <= i /\ i <= row
      BY <2>1
    <3>4. i \in 1..Len(log) <=> i \in Int /\ 1 <= i /\ i <= Len(log)
      BY <2>1
    <3> QED BY <2>1, <3>1, <3>3, <3>4
  <2> DEFINE all == Len(verdicts)
             own == 1..(IF CutCounts THEN all - 1 ELSE all)
             from(k) == verdicts[k][1]
  <2>4. OwnOnes = own
    BY <2>1, <2>2 DEF OwnOnes
  <2>5. /\ \A k \in own : /\ from(k) \in DOMAIN log /\ Frequent(log[from(k)])
                          /\ verdicts[k][2] = Front(log[from(k)].fields)
        /\ \A i \in DOMAIN log : Frequent(log[i]) => \E k \in own : from(k) = i
        /\ \A j, k \in own : j < k => from(j) < from(k)
    BY <2>1, <2>3, <2>4, Zenon DEF FilterInv, VerdictsAre
  <2>6. CutCounts => all > 0 /\ from(all) = Len(log)
    BY <2>1, <2>2 DEF FilterInv, VerdictsAre
  <2>7. /\ Len(need) = Cardinality(Mobile(all)) /\ Len(bad) = Cardinality(Others(all))
        /\ \A k \in 1..all : /\ verdicts[k][3] => need[Cardinality(Mobile(k))] = verdicts[k]
                             /\ ~verdicts[k][3] => bad[Cardinality(Others(k))] = verdicts[k]
    BY <2>1, Zenon DEF FilterInv, FilesAre, FlagIs, CountsAre, PlacesAre
  <2>8. {from(k) : k \in own} = {i \in DOMAIN log : Frequent(log[i])}
    <3> HIDE DEF own, from
    <3> QED BY <2>5, Zenon
  <2>9. \A k \in own : verdicts[k][2] = Front(log[from(k)].fields) /\ \A j \in own : j < k => from(j) < from(k)
    <3> HIDE DEF own, from
    <3> QED BY <2>5, Zenon
  <2> QED BY <2>6, <2>7, <2>8, <2>9, Zenon DEF SortedOnce
<1>2. FilterSpec => []FilterInv
  BY FilterInitInv, FilterStep, PTL DEF FilterSpec
<1> QED BY <1>1, <1>2, PTL

-----------------------------------------------------------------------------
(***************************************************************************)
(* The merge tool: v names the results looked at that have a similarity,   *)
(* a list rewritten without untitled results still has its titled          *)
(* beginning in place, and an order that exists is one of all that count.  *)
(***************************************************************************)
Counts(e, i) == items[e][i].title /\ items[e][i].sim # NoSim /\ (e = "baidu" => items[e][i].url)
Counted(e, n) == {i \in 1..n : Counts(e, i)}
Titled(p) == \A i \in 1..p : items["mso"][i].title

MergeTypes ==
    /\ engine \in Engine /\ items \in [Engine -> Lists]
    /\ at_item \in Nat /\ 1 <= at_item /\ at_item <= Len(items[engine]) + 1
    /\ rated \in Seq(Nat \X Nat)
    /\ kept \in [Engine -> Seq(Nat)] /\ order_ \in [Engine -> Seq(Nat)]
    /\ merged # "rating" => at_item = Len(items[engine]) + 1

RatedAre ==
    /\ \A k \in DOMAIN rated : /\ rated[k][1] + 1 \in Counted(engine, at_item - 1)
                               /\ rated[k][2] = items[engine][rated[k][1] + 1].sim
    /\ Len(rated) = Cardinality(Counted(engine, at_item - 1))

KeptBaidu == kept["baidu"] = [i \in 1..(IF engine = "baidu" THEN at_item - 1 ELSE Len(items["baidu"])) |-> i]
KeptMso ==
    /\ engine = "baidu" => kept["mso"] = <<>>
    /\ engine = "mso" /\ (merged = "rating" \/ order_["mso"] # <<>>) =>
          /\ Len(kept["mso"]) <= at_item - 1
          /\ \A p \in 1..(at_item - 1) : Titled(p) => Len(kept["mso"]) >= p /\ kept["mso"][p] = p

OrderIs(e) ==
    order_[e] # <<>> =>
        /\ Len(order_[e]) = Cardinality(Counted(e, Len(items[e])))
        /\ \A k \in DOMAIN order_[e] : order_[e][k] + 1 \in Counted(e, Len(items[e]))
        /\ \A k, l \in DOMAIN order_[e] :
              k < l => items[e][order_[e][k] + 1].sim > items[e][order_[e][l] + 1].sim
OrdersAre ==
    /\ \A e \in Engine : OrderIs(e)
    /\ order_["mso"] # <<>> => engine = "mso" /\ merged = "written"
    /\ merged = "asking" => engine = "baidu"

MergeInv == MergeTypes /\ RatedAre /\ KeptBaidu /\ KeptMso /\ OrdersAre


LEMMA ListIs ==
  ASSUME NEW l \in Lists
  PROVE  /\ l \in Seq(OneResult) /\ Len(l) \in Nat /\ DOMAIN l = 1..Len(l)
         /\ \A i \in 1..Len(l) : l[i].title \in BOOLEAN /\ l[i].url \in BOOLEAN /\ l[i].sim \in Nat
<1>1. PICK n \in 0..MaxResults : l \in [1..n -> OneResult]
  BY DEF Lists
<1>2. n \in Nat
  BY MergeAssumption
<1>3. l \in Seq(OneResult) /\ Len(l) = n
  BY <1>1, <1>2
<1>4. \A f \in OneResult : f.title \in BOOLEAN /\ f.url \in BOOLEAN /\ f.sim \in Nat
  BY MergeAssumption DEF OneResult
<1> QED BY <1>1, <1>2, <1>3, <1>4

LEMMA EngineIs == "baidu" \in Engine /\ "mso" \in Engine /\ \A e \in Engine : e = "baidu" \/ e = "mso"
BY DEF Engine

\* One more result looked at.
LEMMA CountedNext ==
  ASSUME NEW e, NEW n \in Nat
  PROVE  /\ Cardinality(Counted(e, n)) \in Nat
         /\ Counts(e, n + 1) => Cardinality(Counted(e, n + 1)) = Cardinality(Counted(e, n)) + 1
         /\ ~Counts(e, n + 1) => Counted(e, n + 1) = Counted(e, n)
         /\ Counted(e, n) \subseteq Counted(e, n + 1)
         /\ Counts(e, n + 1) => n + 1 \in Counted(e, n + 1)
<1>1. IsFiniteSet(Counted(e, n))
  <2>1. IsFiniteSet(1..n) /\ Counted(e, n) \subseteq 1..n
    BY FS_Interval DEF Counted
  <2> QED BY <2>1, FS_Subset
<1>2. n + 1 \notin Counted(e, n)
  BY DEF Counted
<1>3. \A j : j \in 1..(n + 1) <=> j \in 1..n \/ j = n + 1
  OBVIOUS
<1>4. Counts(e, n + 1) => Counted(e, n + 1) = Counted(e, n) \cup {n + 1}
  BY <1>3, Zenon DEF Counted
<1>5. ~Counts(e, n + 1) => Counted(e, n + 1) = Counted(e, n)
  BY <1>3, Zenon DEF Counted
<1> HIDE DEF Counts
<1> QED BY <1>1, <1>2, <1>4, <1>5, FS_AddElement, FS_CardinalityType

LEMMA CountedNone == \A e : Counted(e, 0) = {} /\ Cardinality(Counted(e, 0)) = 0
<1>1. \A e : Counted(e, 0) = {}
  BY DEF Counted
<1> QED BY <1>1, FS_EmptySet

LEMMA MergeInitInv == MergeInit => MergeInv
<1> SUFFICES ASSUME MergeInit PROVE MergeInv
  OBVIOUS
<1>1. PICK l \in Lists : items = [baidu |-> l, mso |-> <<>>]
  BY DEF MergeInit
<1>2. engine = "baidu" /\ at_item = 1 /\ rated = <<>> /\ kept = [e \in Engine |-> <<>>]
      /\ order_ = [e \in Engine |-> <<>>] /\ merged = "rating"
  BY DEF MergeInit
<1>3. <<>> \in Lists
  <2>1. 0 \in 0..MaxResults /\ <<>> \in [1..0 -> OneResult]
    BY MergeAssumption
  <2> QED BY <2>1 DEF Lists
<1>4. items \in [Engine -> Lists] /\ items["baidu"] = l /\ items["mso"] = <<>>
  BY <1>1, <1>3 DEF Engine
<1>5. \A T : <<>> \in Seq(T)
  OBVIOUS
<1>6. \A e \in Engine : kept[e] = <<>> /\ order_[e] = <<>>
  BY <1>2
<1>7. MergeTypes
  <2>1. Len(items[engine]) \in Nat
    BY <1>2, <1>4, ListIs
  <2>2. kept \in [Engine -> Seq(Nat)] /\ order_ \in [Engine -> Seq(Nat)] /\ rated \in Seq(Nat \X Nat)
    BY <1>2, <1>5
  <2> QED BY <1>2, <1>4, <2>1, <2>2, EngineIs DEF MergeTypes
<1>8. RatedAre
  BY <1>2, CountedNone DEF RatedAre
<1>9. KeptBaidu /\ KeptMso
  BY <1>2, <1>6, EngineIs DEF KeptBaidu, KeptMso
<1>10. OrdersAre
  BY <1>2, <1>6, EngineIs DEF OrdersAre, OrderIs
<1> QED BY <1>7, <1>8, <1>9, <1>10 DEF MergeInv

\* What std::sort may make of v, of results that count.
LEMMA InRankIs ==
  ASSUME MergeTypes, RatedAre, NEW s \in InRank(rated), at_item = Len(items[engine]) + 1
  PROVE  /\ s \in Seq(Nat) /\ Len(s) = Cardinality(Counted(engine, Len(items[engine])))
         /\ \A k \in DOMAIN s : s[k] + 1 \in Counted(engine, Len(items[engine]))
         /\ \A k, l \in DOMAIN s :
               k < l => items[engine][s[k] + 1].sim > items[engine][s[l] + 1].sim
<1>1. PICK at \in [DOMAIN rated -> DOMAIN rated] :
        /\ \A k, l \in DOMAIN rated : k < l => Before(rated[at[k]], rated[at[l]])
        /\ s = [k \in DOMAIN rated |-> rated[at[k]][1]]
  BY DEF InRank
<1>2. rated \in Seq(Nat \X Nat) /\ Len(rated) \in Nat /\ DOMAIN rated = 1..Len(rated)
  BY DEF MergeTypes
<1>3. \A k \in DOMAIN rated : rated[k] \in Nat \X Nat
  BY <1>2
<1>4. \A k \in DOMAIN rated : rated[k][1] \in Nat /\ rated[k][2] \in Nat
  BY <1>3
<1>5. s \in Seq(Nat) /\ Len(s) = Len(rated) /\ DOMAIN s = DOMAIN rated
  <2>1. s \in [1..Len(rated) -> Nat]
    BY <1>1, <1>2, <1>4
  <2>2. PICK n \in Nat : n = Len(rated)
    BY <1>2
  <2>3. s \in [1..n -> Nat] /\ DOMAIN s = 1..Len(rated)
    BY <2>1, <2>2
  <2>4. s \in Seq(Nat) /\ Len(s) = n
    BY ONLY n \in Nat, <2>3
  <2> QED BY ONLY <1>2, <2>2, <2>3, <2>4
<1>6. Len(items[engine]) \in Nat /\ at_item - 1 = Len(items[engine])
  BY ListIs DEF MergeTypes
<1>7. \A k \in DOMAIN s : at[k] \in DOMAIN rated /\ s[k] = rated[at[k]][1]
  BY <1>1, <1>5
<1>8. \A k \in DOMAIN rated : /\ rated[k][1] + 1 \in Counted(engine, Len(items[engine]))
                              /\ rated[k][2] = items[engine][rated[k][1] + 1].sim
  BY <1>6 DEF RatedAre
<1>9. \A k, l \in DOMAIN s : k < l => rated[at[k]][2] > rated[at[l]][2]
  BY <1>1, <1>5 DEF Before
<1>10. Len(rated) = Cardinality(Counted(engine, Len(items[engine])))
  BY <1>6 DEF RatedAre
<1>11. \A k \in DOMAIN s : /\ s[k] + 1 \in Counted(engine, Len(items[engine]))
                           /\ items[engine][s[k] + 1].sim = rated[at[k]][2]
  BY ONLY <1>7, <1>8
<1>12. \A k, l \in DOMAIN s : k < l => items[engine][s[k] + 1].sim > items[engine][s[l] + 1].sim
  BY ONLY <1>9, <1>11
<1> QED BY ONLY <1>5, <1>10, <1>11, <1>12

LEMMA RateItemInv == ASSUME MergeInv, RateItem PROVE MergeInv'
<1> DEFINE it == items[engine][at_item]
           m  == at_item - 1
<1>1. /\ merged = "rating" /\ at_item <= Len(items[engine]) /\ at_item' = at_item + 1
      /\ rated' = IF Skipped(it) \/ it.sim = NoSim THEN rated ELSE Append(rated, <<Index(at_item), it.sim>>)
      /\ kept' = IF engine = "mso" /\ Skipped(it) THEN kept ELSE [kept EXCEPT ![engine] = Append(@, at_item)]
      /\ engine' = engine /\ items' = items /\ order_' = order_ /\ merged' = merged
  BY DEF RateItem
<1>2. /\ engine \in Engine /\ items \in [Engine -> Lists]
      /\ at_item \in Nat /\ 1 <= at_item
      /\ rated \in Seq(Nat \X Nat) /\ Len(rated) \in Nat
      /\ kept \in [Engine -> Seq(Nat)] /\ order_ \in [Engine -> Seq(Nat)]
  BY DEF MergeInv, MergeTypes
<1>3. Len(items[engine]) \in Nat /\ items[engine] \in Lists
  BY <1>2, ListIs
<1>4. m \in Nat /\ m + 1 = at_item /\ at_item \in 1..Len(items[engine]) /\ at_item' - 1 = m + 1
  BY <1>1, <1>2, <1>3
<1>5. it.title \in BOOLEAN /\ it.url \in BOOLEAN /\ it.sim \in Nat
  BY <1>3, <1>4, ListIs
<1>6. Skipped(it) \/ it.sim = NoSim <=> ~Counts(engine, m + 1)
  BY <1>4 DEF Skipped, Counts
<1>7. Index(at_item) \in Nat /\ Index(at_item) = m
  BY <1>4 DEF Index
<1>8. \A e, n : Counted(e, n)' = Counted(e, n)
  BY <1>1 DEF Counted, Counts
<1>9. \A p : Titled(p)' <=> Titled(p)
  BY <1>1 DEF Titled
<1>10. RatedAre /\ KeptBaidu /\ KeptMso /\ OrdersAre
  BY DEF MergeInv
<1>11. rated' \in Seq(Nat \X Nat) /\ RatedAre'
  <2>1. CASE Counts(engine, m + 1)
    <3> DEFINE v == <<Index(at_item), it.sim>>
    <3>1. v \in Nat \X Nat /\ v[1] = m /\ v[2] = items[engine][m + 1].sim
      BY <1>4, <1>5, <1>7
    <3>2. rated' = Append(rated, v)
      BY <1>1, <1>6, <2>1
    <3> HIDE DEF v, m
    <3>3. /\ rated' \in Seq(Nat \X Nat) /\ Len(rated') = Len(rated) + 1
          /\ DOMAIN rated' = 1..(Len(rated) + 1) /\ DOMAIN rated = 1..Len(rated)
          /\ \A k \in 1..Len(rated) : rated'[k] = rated[k]
          /\ rated'[Len(rated) + 1] = v
      BY <1>2, <3>1, <3>2
    <3>4. /\ Cardinality(Counted(engine, m + 1)) = Cardinality(Counted(engine, m)) + 1
          /\ Counted(engine, m) \subseteq Counted(engine, m + 1) /\ m + 1 \in Counted(engine, m + 1)
      BY <1>4, <2>1, CountedNext
    <3>5. /\ Len(rated) = Cardinality(Counted(engine, m))
          /\ \A k \in DOMAIN rated : /\ rated[k][1] + 1 \in Counted(engine, m)
                                     /\ rated[k][2] = items[engine][rated[k][1] + 1].sim
      BY <1>10 DEF RatedAre, m
    <3>6. Len(rated') = Cardinality(Counted(engine, m + 1))
      BY <3>3, <3>4, <3>5
    <3>7. ASSUME NEW k \in DOMAIN rated'
          PROVE  /\ rated'[k][1] + 1 \in Counted(engine, m + 1)
                 /\ rated'[k][2] = items[engine][rated'[k][1] + 1].sim
      <4>1. k \in 1..Len(rated) \/ k = Len(rated) + 1
        BY <1>2, <3>3
      <4>2. ASSUME k \in 1..Len(rated)
            PROVE  /\ rated'[k][1] + 1 \in Counted(engine, m + 1)
                   /\ rated'[k][2] = items[engine][rated'[k][1] + 1].sim
        BY ONLY <3>3, <3>4, <3>5, <4>2
      <4>3. ASSUME k = Len(rated) + 1
            PROVE  /\ rated'[k][1] + 1 \in Counted(engine, m + 1)
                   /\ rated'[k][2] = items[engine][rated'[k][1] + 1].sim
        BY ONLY <3>1, <3>3, <3>4, <4>3
      <4> QED BY <4>1, <4>2, <4>3
    <3>8. RatedAre' <=>
            /\ \A k \in DOMAIN rated' : /\ rated'[k][1] + 1 \in Counted(engine, m + 1)
                                        /\ rated'[k][2] = items[engine][rated'[k][1] + 1].sim
            /\ Len(rated') = Cardinality(Counted(engine, m + 1))
      BY <1>1, <1>4, <1>8 DEF RatedAre
    <3> QED BY <3>3, <3>6, <3>7, <3>8
  <2>2. CASE ~Counts(engine, m + 1)
    <3>1. rated' = rated
      BY <1>1, <1>6, <2>2
    <3>2. Counted(engine, m + 1) = Counted(engine, m)
      BY <1>4, <2>2, CountedNext
    <3> QED BY <1>1, <1>2, <1>4, <1>8, <1>10, <3>1, <3>2 DEF RatedAre
  <2> QED BY <2>1, <2>2
<1>12. /\ kept' \in [Engine -> Seq(Nat)]
       /\ \A e \in Engine : e # engine => kept'[e] = kept[e]
       /\ kept'[engine] = IF engine = "mso" /\ Skipped(it) THEN kept[engine] ELSE Append(kept[engine], at_item)
  BY <1>1, <1>2
<1>13. MergeTypes'
  BY <1>1, <1>2, <1>3, <1>11, <1>12 DEF MergeTypes
<1>14. KeptBaidu'
  <2>1. CASE engine = "baidu"
    <3>1. kept'["baidu"] = Append(kept["baidu"], m + 1)
      BY <1>4, <1>12, <2>1
    <3>2. kept["baidu"] = [i \in 1..m |-> i]
      BY <1>10, <2>1 DEF KeptBaidu
    <3> HIDE DEF m
    <3>3. kept["baidu"] \in Seq(Nat) /\ Len(kept["baidu"]) = m
      BY <1>4, <3>2
    <3>4. kept'["baidu"] = [i \in 1..(m + 1) |-> i]
      BY <1>4, <3>1, <3>2, <3>3
    <3> QED BY <1>1, <1>4, <2>1, <3>4 DEF KeptBaidu
  <2>2. CASE engine # "baidu"
    BY <1>1, <1>10, <1>12, <2>2, EngineIs DEF KeptBaidu
  <2> QED BY <2>1, <2>2
<1>15. KeptMso'
  <2>1. CASE engine = "baidu"
    BY <1>1, <1>10, <1>12, <2>1, EngineIs DEF KeptMso
  <2>2. CASE engine = "mso"
    <3> DEFINE K == kept["mso"]
               L == kept'["mso"]
    <3>1. /\ K \in Seq(Nat) /\ Len(K) \in Nat
          /\ Len(K) <= m /\ \A p \in 1..m : Titled(p) => Len(K) >= p /\ K[p] = p
      BY <1>1, <1>2, <1>10, <2>2, EngineIs DEF KeptMso
    <3>2. L = IF Skipped(it) THEN K ELSE Append(K, m + 1)
      BY <1>4, <1>12, <2>2
    <3>3. Skipped(it) <=> ~items["mso"][m + 1].title
      BY <1>4, <2>2 DEF Skipped
    <3> HIDE DEF K, L, m
    <3>4. Len(L) <= m + 1
      BY <1>4, <3>1, <3>2
    <3>5. ASSUME NEW p \in 1..(m + 1), Titled(p) PROVE Len(L) >= p /\ L[p] = p
      <4>1. p \in 1..m \/ p = m + 1
        BY <1>4
      <4>2. CASE p \in 1..m
        <5>1. Len(K) >= p /\ K[p] = p /\ p \in Nat /\ p >= 1
          BY <1>4, <3>1, <3>5, <4>2
        <5> QED BY <1>4, <3>1, <3>2, <5>1
      <4>3. CASE p = m + 1
        <5>1. ~Skipped(it)
          BY <1>4, <3>3, <3>5, <4>3 DEF Titled
        <5>2. m > 0 => Titled(m)
          BY <1>4, <3>5, <4>3 DEF Titled
        <5>3. Len(K) = m
          BY <1>4, <3>1, <5>2
        <5> QED BY <1>4, <3>1, <3>2, <4>3, <5>1, <5>3
      <4> QED BY <4>1, <4>2, <4>3
    <3>6. Len(kept'["mso"]) <= at_item' - 1
      BY <1>4, <3>4 DEF L
    <3>7. \A p \in 1..(at_item' - 1) : Titled(p)' => Len(kept'["mso"]) >= p /\ kept'["mso"][p] = p
      BY <1>4, <1>9, <3>5 DEF L
    <3> QED BY <1>1, <2>2, <3>6, <3>7 DEF KeptMso
  <2> QED BY <1>2, <2>1, <2>2, EngineIs
<1>16. OrdersAre'
  <2>1. \A e \in Engine : OrderIs(e)' <=> OrderIs(e)
    BY <1>1, <1>8, Zenon DEF OrderIs
  <2> QED BY <1>1, <1>10, <2>1 DEF OrdersAre
<1> QED BY <1>11, <1>13, <1>14, <1>15, <1>16 DEF MergeInv

LEMMA AskEngineInv == ASSUME MergeInv, AskEngine PROVE MergeInv'
<1>1. /\ MergeTypes /\ RatedAre /\ KeptBaidu /\ KeptMso /\ OrdersAre
      /\ merged = "asking" /\ engine = "baidu" /\ order_["mso"] = <<>>
      /\ at_item = Len(items["baidu"]) + 1 /\ kept' = kept /\ order_' = order_
  BY DEF MergeInv, OrdersAre, AskEngine, MergeTypes
<1>2. CASE merged' = "written" /\ UNCHANGED <<engine, items, at_item, rated>>
  <2>1. \A e, n : Counted(e, n)' = Counted(e, n)
    BY <1>2 DEF Counted, Counts
  <2>2. \A p : Titled(p)' <=> Titled(p)
    BY <1>2 DEF Titled
  <2>3. MergeTypes'
    BY <1>1, <1>2 DEF MergeTypes
  <2>4. RatedAre' /\ KeptBaidu' /\ KeptMso'
    BY <1>1, <1>2, <2>1, <2>2 DEF RatedAre, KeptBaidu, KeptMso
  <2>5. \A e \in Engine : OrderIs(e)' <=> OrderIs(e)
    BY <1>1, <1>2, <2>1, Zenon DEF OrderIs
  <2>6. OrdersAre'
    BY <1>1, <1>2, <2>5 DEF OrdersAre
  <2> QED BY <2>3, <2>4, <2>6 DEF MergeInv
<1>3. ASSUME merged' = "rating", engine' = "mso", at_item' = 1, rated' = <<>>,
             NEW l \in Lists, items' = [items EXCEPT !.mso = l]
      PROVE  MergeInv'
  <2>1. items \in [Engine -> Lists]
    BY <1>1 DEF MergeTypes
  <2>2. items' \in [Engine -> Lists] /\ items'["baidu"] = items["baidu"] /\ items'["mso"] = l
    BY <1>3, <2>1, EngineIs
  <2>3. Len(l) \in Nat /\ Len(items["baidu"]) \in Nat
    BY <2>1, ListIs, EngineIs
  <2>4. MergeTypes'
    <3>1. rated' \in Seq(Nat \X Nat)
      <4>1. <<>> \in Seq(Nat \X Nat)
        OBVIOUS
      <4> QED BY <1>3, <4>1
    <3>2. kept' \in [Engine -> Seq(Nat)] /\ order_' \in [Engine -> Seq(Nat)]
      BY <1>1 DEF MergeTypes
    <3>3. engine' \in Engine /\ items'[engine'] = l
      BY <1>3, <2>2, EngineIs
    <3>4. at_item' \in Nat /\ 1 <= at_item' /\ at_item' <= Len(items'[engine']) + 1
      BY <1>3, <2>3, <3>3
    <3> QED BY <1>3, <2>2, <3>1, <3>2, <3>3, <3>4 DEF MergeTypes
  <2>5. RatedAre'
    <3>1. Counted("mso", 0)' = {}
      BY DEF Counted
    <3>2. Cardinality(Counted("mso", 0)') = 0
      BY <3>1, FS_EmptySet
    <3> QED BY <1>3, <3>2 DEF RatedAre
  <2>6. KeptBaidu'
    <3>1. kept["baidu"] = [i \in 1..(at_item - 1) |-> i]
      BY <1>1 DEF KeptBaidu
    <3>2. at_item - 1 = Len(items["baidu"])
      BY <1>1, <2>3
    <3>3. engine' # "baidu" /\ kept'["baidu"] = [i \in 1..Len(items'["baidu"]) |-> i]
      BY <1>1, <1>3, <2>2, <3>1, <3>2
    <3> QED BY <3>3 DEF KeptBaidu
  <2>7. KeptMso'
    <3>1. kept'["mso"] = <<>>
      BY <1>1 DEF KeptMso
    <3> QED BY <1>3, <3>1 DEF KeptMso
  <2>8. OrdersAre'
    <3>1. \A n : Counted("baidu", n)' = Counted("baidu", n)
      BY <2>2 DEF Counted, Counts
    <3>2. OrderIs("baidu")
      BY <1>1, EngineIs DEF OrdersAre
    <3>3. OrderIs("baidu")'
      BY <1>1, <2>2, <3>1, <3>2 DEF OrderIs
    <3>4. OrderIs("mso")'
      BY <1>1 DEF OrderIs
    <3> QED BY <1>1, <1>3, <3>3, <3>4, EngineIs DEF OrdersAre
  <2> QED BY <2>4, <2>5, <2>6, <2>7, <2>8 DEF MergeInv
<1> QED BY <1>2, <1>3 DEF AskEngine

\* An order is written for the engine whose results are all rated.
LEMMA OrderedInv ==
  ASSUME MergeInv, Rated, UNCHANGED <<engine, items, at_item, rated>>,
         merged' \in {"asking", "written"}, merged' = "asking" => engine = "baidu",
         engine = "mso" => merged' = "written", kept' = kept,
         NEW s \in InRank(rated), order_' = [order_ EXCEPT ![engine] = s]
  PROVE  MergeInv'
<1>1. /\ MergeTypes /\ RatedAre /\ KeptBaidu /\ KeptMso /\ OrdersAre
      /\ engine \in Engine /\ order_ \in [Engine -> Seq(Nat)] /\ merged = "rating" /\ merged' # "rating"
  BY DEF MergeInv, MergeTypes, Rated
<1>2. at_item = Len(items[engine]) + 1
  <2>1. Len(items[engine]) \in Nat
    BY <1>1, ListIs DEF MergeTypes
  <2>2. at_item \in Nat /\ at_item <= Len(items[engine]) + 1 /\ at_item > Len(items[engine])
    BY DEF MergeInv, MergeTypes, Rated
  <2> QED BY ONLY <2>1, <2>2
<1>3. /\ s \in Seq(Nat) /\ Len(s) = Cardinality(Counted(engine, Len(items[engine])))
      /\ \A k \in DOMAIN s : s[k] + 1 \in Counted(engine, Len(items[engine]))
      /\ \A k, l \in DOMAIN s :
            k < l => items[engine][s[k] + 1].sim > items[engine][s[l] + 1].sim
  BY <1>1, <1>2, InRankIs
<1>4. order_' \in [Engine -> Seq(Nat)] /\ order_'[engine] = s /\ \A e \in Engine : e # engine => order_'[e] = order_[e]
  BY <1>1, <1>3
<1>5. \A e, n : Counted(e, n)' = Counted(e, n)
  BY DEF Counted, Counts
<1>6. \A p : Titled(p)' <=> Titled(p)
  BY DEF Titled
<1>7. MergeTypes'
  BY <1>1, <1>2, <1>4 DEF MergeTypes
<1>8. RatedAre' /\ KeptBaidu'
  BY <1>1, <1>5 DEF RatedAre, KeptBaidu
<1>9. KeptMso'
  BY <1>1, <1>6 DEF KeptMso
<1>10. ASSUME NEW e \in Engine PROVE OrderIs(e)'
  <2>1. CASE e = engine
    BY <1>3, <1>4, <1>5, <2>1 DEF OrderIs
  <2>2. CASE e # engine
    <3>1. OrderIs(e)
      BY <1>1 DEF OrdersAre
    <3> QED BY <1>4, <1>5, <2>2, <3>1 DEF OrderIs
  <2> QED BY <2>1, <2>2
<1>11. OrdersAre'
  <2>1. order_'["mso"] # <<>> => engine' = "mso" /\ merged' = "written"
    <3>1. CASE engine = "mso"
      BY <3>1
    <3>2. CASE engine # "mso"
      BY <1>1, <1>4, <3>2, EngineIs DEF OrdersAre
    <3> QED BY <3>1, <3>2
  <2> QED BY <1>10, <2>1 DEF OrdersAre
<1> QED BY <1>7, <1>8, <1>9, <1>11 DEF MergeInv

\* Without a similarity no order is written.
LEMMA UnorderedInv ==
  ASSUME MergeInv, Rated, UNCHANGED <<engine, items, at_item, rated, order_>>,
         merged' = "dropped" \/ merged' = "written",
         kept' \in [Engine -> Seq(Nat)], kept'["baidu"] = kept["baidu"], engine = "baidu" => kept' = kept
  PROVE  MergeInv'
<1>1. /\ MergeTypes /\ RatedAre /\ KeptBaidu /\ KeptMso /\ OrdersAre
      /\ engine \in Engine /\ merged = "rating" /\ merged' # "rating" /\ order_["mso"] = <<>>
  BY DEF MergeInv, MergeTypes, OrdersAre, Rated
<1>2. at_item = Len(items[engine]) + 1
  <2>1. Len(items[engine]) \in Nat
    BY <1>1, ListIs DEF MergeTypes
  <2>2. at_item \in Nat /\ at_item <= Len(items[engine]) + 1 /\ at_item > Len(items[engine])
    BY DEF MergeInv, MergeTypes, Rated
  <2> QED BY ONLY <2>1, <2>2
<1>3. \A e, n : Counted(e, n)' = Counted(e, n)
  BY DEF Counted, Counts
<1>5. MergeTypes'
  BY <1>1, <1>2 DEF MergeTypes
<1>6. RatedAre' /\ KeptBaidu'
  BY <1>1, <1>3 DEF RatedAre, KeptBaidu
<1>7. KeptMso'
  BY <1>1 DEF KeptMso
<1>8. \A e \in Engine : OrderIs(e)' <=> OrderIs(e)
  BY <1>3, Zenon DEF OrderIs
<1>9. OrdersAre'
  BY <1>1, <1>8 DEF OrdersAre
<1> QED BY <1>5, <1>6, <1>7, <1>9 DEF MergeInv

LEMMA EndBaiduInv == ASSUME MergeInv, EndBaidu PROVE MergeInv'
<1>1. Rated /\ engine = "baidu" /\ UNCHANGED <<engine, items, at_item, rated, kept>>
  BY DEF EndBaidu
<1>2. CASE rated = <<>>
  <2>1. merged' = "dropped" /\ order_' = order_
    BY <1>2 DEF EndBaidu
  <2>2. UNCHANGED <<engine, items, at_item, rated, order_>> /\ kept' = kept
    BY <1>1, <2>1
  <2>3. kept' \in [Engine -> Seq(Nat)]
    BY <2>2 DEF MergeInv, MergeTypes
  <2> QED BY <1>1, <2>1, <2>2, <2>3, UnorderedInv
<1>3. CASE rated # <<>>
  <2>1. merged' = "asking" /\ \E s \in InRank(rated) : order_' = [order_ EXCEPT !.baidu = s]
    BY <1>3 DEF EndBaidu
  <2>2. PICK s \in InRank(rated) : order_' = [order_ EXCEPT ![engine] = s]
    BY <1>1, <2>1
  <2> QED BY <1>1, <2>1, <2>2, OrderedInv
<1> QED BY <1>2, <1>3

LEMMA EndMsoInv == ASSUME MergeInv, EndMso PROVE MergeInv'
<1>1. Rated /\ engine = "mso" /\ merged' = "written" /\ UNCHANGED <<engine, items, at_item, rated>>
  BY DEF EndMso
<1>2. CASE rated = <<>>
  <2>1. order_' = order_ /\ kept' = [kept EXCEPT !.mso = <<>>]
    BY <1>2 DEF EndMso
  <2>2. kept' \in [Engine -> Seq(Nat)] /\ kept'["baidu"] = kept["baidu"]
    <3>1. kept \in [Engine -> Seq(Nat)] /\ <<>> \in Seq(Nat)
      BY DEF MergeInv, MergeTypes
    <3> QED BY <2>1, <3>1, EngineIs
  <2> QED BY <1>1, <2>1, <2>2, UnorderedInv
<1>3. CASE rated # <<>>
  <2>1. kept' = kept /\ \E s \in InRank(rated) : order_' = [order_ EXCEPT !.mso = s]
    BY <1>3 DEF EndMso
  <2>2. PICK s \in InRank(rated) : order_' = [order_ EXCEPT ![engine] = s]
    BY <1>1, <2>1
  <2> QED BY <1>1, <2>1, <2>2, OrderedInv
<1> QED BY <1>2, <1>3

LEMMA MergeStutterInv == ASSUME MergeInv, UNCHANGED mergeVars PROVE MergeInv'
<1>1. UNCHANGED <<engine, items, at_item, rated>> /\ kept' = kept /\ order_' = order_ /\ merged' = merged
  BY DEF mergeVars
<1>2. \A e, n : Counted(e, n)' = Counted(e, n)
  BY <1>1 DEF Counted, Counts
<1>3. \A p : Titled(p)' <=> Titled(p)
  BY <1>1 DEF Titled
<1>4. \A e \in Engine : OrderIs(e)' <=> OrderIs(e)
  BY <1>1, <1>2, Zenon DEF OrderIs
<1>5. MergeTypes /\ RatedAre /\ KeptBaidu /\ KeptMso /\ OrdersAre
  BY DEF MergeInv
<1>6. MergeTypes'
  BY <1>1, <1>5 DEF MergeTypes
<1>7. RatedAre' /\ KeptBaidu' /\ KeptMso'
  BY <1>1, <1>2, <1>3, <1>5 DEF RatedAre, KeptBaidu, KeptMso
<1>8. OrdersAre'
  BY <1>1, <1>4, <1>5 DEF OrdersAre
<1> QED BY <1>6, <1>7, <1>8 DEF MergeInv

\* The invariant gives the property: a position of an order is a position in
\* the list beside it as long as the list's beginning is whole.
LEMMA MergeInvOrders == MergeInv => OrderNamesResults
<1> SUFFICES ASSUME MergeInv, merged = "written", NEW e \in Engine, order_[e] # <<>>,
                    \A k \in DOMAIN order_[e] : e = "baidu" \/ \A i \in 1..(order_[e][k] + 1) : items[e][i].title
             PROVE  LET named(k) == items[e][kept[e][order_[e][k] + 1]]
                        best     == {i \in DOMAIN items[e] : /\ items[e][i].title /\ items[e][i].sim # NoSim
                                                             /\ e = "baidu" => items[e][i].url}
                    IN  /\ Len(order_[e]) = Cardinality(best)
                        /\ \A k \in DOMAIN order_[e] : named(k).sim # NoSim
                        /\ \A k, l \in DOMAIN order_[e] : k < l => named(k).sim > named(l).sim
  BY DEF OrderNamesResults
<1>1. /\ engine \in Engine /\ items \in [Engine -> Lists] /\ order_ \in [Engine -> Seq(Nat)]
      /\ at_item = Len(items[engine]) + 1 /\ OrderIs(e) /\ KeptBaidu /\ KeptMso
      /\ order_["mso"] # <<>> => engine = "mso"
  BY DEF MergeInv, MergeTypes, OrdersAre
<1>2. Len(items[e]) \in Nat /\ DOMAIN items[e] = 1..Len(items[e]) /\ Len(items[engine]) \in Nat
  BY <1>1, ListIs
<1>3. /\ Len(order_[e]) = Cardinality(Counted(e, Len(items[e])))
      /\ \A k \in DOMAIN order_[e] : order_[e][k] + 1 \in Counted(e, Len(items[e]))
      /\ \A k, l \in DOMAIN order_[e] :
            k < l => items[e][order_[e][k] + 1].sim > items[e][order_[e][l] + 1].sim
  BY <1>1 DEF OrderIs
<1>4. Counted(e, Len(items[e])) = {i \in DOMAIN items[e] : /\ items[e][i].title /\ items[e][i].sim # NoSim
                                                           /\ e = "baidu" => items[e][i].url}
  BY <1>2 DEF Counted, Counts
<1>5. ASSUME NEW k \in DOMAIN order_[e]
      PROVE  kept[e][order_[e][k] + 1] = order_[e][k] + 1 /\ items[e][order_[e][k] + 1].sim # NoSim
  <2>1. PICK p : p = order_[e][k] + 1
    OBVIOUS
  <2>2. p \in 1..Len(items[e]) /\ items[e][p].sim # NoSim
    BY <1>3, <2>1 DEF Counted, Counts
  <2>3. CASE e = "baidu"
    <3>1. p \in 1..(IF engine = "baidu" THEN at_item - 1 ELSE Len(items["baidu"]))
      BY <1>1, <1>2, <2>2, <2>3
    <3>2. kept["baidu"][p] = p
      BY <1>1, <3>1 DEF KeptBaidu
    <3> QED BY <2>1, <2>2, <2>3, <3>2
  <2>4. CASE e = "mso"
    <3>1. engine = "mso" /\ at_item - 1 = Len(items["mso"])
      BY <1>1, <1>2, <2>4
    <3>2. Titled(p)
      BY <2>1, <2>4 DEF Titled
    <3>3. kept["mso"][p] = p
      BY <1>1, <2>2, <2>4, <3>1, <3>2 DEF KeptMso
    <3> QED BY <2>1, <2>2, <2>4, <3>3
  <2> QED BY <2>3, <2>4, EngineIs
<1> QED BY <1>3, <1>4, <1>5

(* The orders that are written name the results that have a similarity,    *)
(* best first, for lists of any length: the second one only while the      *)
(* results before them have titles (the indices that v carries through     *)
(* std::sort, and the array that is rebuilt beside them).                  *)
THEOREM OrdersNameResults == MergeSpec => []OrderNamesResults
<1>1. MergeInit => MergeInv
  BY MergeInitInv
<1>2. MergeInv /\ [MergeNext]_mergeVars => MergeInv'
  BY RateItemInv, EndBaiduInv, AskEngineInv, EndMsoInv, MergeStutterInv DEF MergeNext
<1>3. MergeInv => OrderNamesResults
  BY MergeInvOrders
<1> QED BY <1>1, <1>2, <1>3, PTL DEF MergeSpec

=============================================================================
