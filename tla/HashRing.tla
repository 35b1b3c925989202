------------------------------ MODULE HashRing ------------------------------
(***************************************************************************)
(* The consistent-hash ring of test/consistent.h: each server stands on    *)
(* the ring at the hashes of its replicas, a datum belongs to the first    *)
(* point at or after its own hash.  Each server may be given its own       *)
(* number of replicas, which a second AddNode replaces.                    *)
(***************************************************************************)
EXTENDS Naturals, FiniteSets, Functions

CONSTANTS
    Cache,          \* the servers
    MaxReplicas,    \* bound: replicas of a server
    HashSize        \* hashes are 0..HashSize-1

ASSUME HashRingAssumption == {MaxReplicas, HashSize} \subseteq Nat \ {0}

Hash == 0..(HashSize - 1)

VARIABLES
    hash_,          \* [<<server, replica>> |-> hash], any function
    ring_,          \* the map from hash to server
    ring_weight_,   \* [server |-> replicas], 0 if never added
    members,        \* the servers added and not removed
    orderly         \* no two points ever met, no server was added twice

ringVars == <<hash_, ring_, ring_weight_, members, orderly>>

Points(n, replicas) == {hash_[<<n, r>>] : r \in 0..(replicas - 1)}

-----------------------------------------------------------------------------
AddNode(n, replicas) ==
    /\ ring_weight_' = [ring_weight_ EXCEPT ![n] = replicas]
    /\ ring_' = [h \in DOMAIN ring_ \cup Points(n, replicas) |->
                    IF h \in Points(n, replicas) THEN n ELSE ring_[h]]
    /\ members' = members \cup {n}
    /\ orderly' = (orderly /\ n \notin members /\ Points(n, replicas) \cap DOMAIN ring_ = {})
    /\ UNCHANGED hash_

\* mutant: one replica is left
ErasedLess(n) == Points(n, ring_weight_[n] - 1)
Erased(n) == Points(n, ring_weight_[n])

\* a server that is not on the ring may be removed as well
RemoveNode(n) ==
    /\ ring_' = Restrict(ring_, DOMAIN ring_ \ Erased(n))
    /\ members' = members \ {n}
    /\ orderly' = (orderly /\ (n \notin members => Erased(n) \cap DOMAIN ring_ = {}))
    /\ UNCHANGED <<hash_, ring_weight_>>

GetNode(d) ==
    LET after == {h \in DOMAIN ring_ : h >= d}
        from  == IF after = {} THEN DOMAIN ring_ ELSE after
    IN ring_[CHOOSE h \in from : \A g \in from : h <= g]

RingInit ==
    /\ hash_ \in [Cache \X (0..(MaxReplicas - 1)) -> Hash]
    /\ ring_ = <<>> /\ ring_weight_ = [n \in Cache |-> 0]
    /\ members = {} /\ orderly = TRUE
\* what comes after two points have met is of no interest
RingNext ==
    /\ orderly
    /\ \E n \in Cache : RemoveNode(n) \/ \E r \in 1..MaxReplicas : AddNode(n, r)
RingSpec == RingInit /\ [][RingNext]_ringVars

-----------------------------------------------------------------------------
(* As long as the points of the servers do not meet and none is added      *)
(* twice, each datum belongs to a server that is a member after every      *)
(* change, and a server that comes or goes moves its own data only: every  *)
(* datum that moves leaves the one or goes to the other.                   *)
OwnersAreMembers ==
    members # {} => \A d \in Hash : DOMAIN ring_ # {} /\ GetNode(d) \in members
OnlyMoved(d) == {GetNode(d), GetNode(d)'} \cap ((members \ members') \cup (members' \ members)) # {}
DataFollowsMembers ==
    [][orderly' => /\ OwnersAreMembers'
                   /\ members # {} /\ members' # {} =>
                         \A d \in Hash : GetNode(d) # GetNode(d)' => OnlyMoved(d)]_ringVars

=============================================================================
