---------------------------- MODULE ResListRace ----------------------------
(***************************************************************************)
(* SpiderResManager::res_list_, a std::list without a lock.  The thrift    *)
(* server (TThreadedServer) has one thread for each client, and each       *)
(* appends; svc tests, reads the front and removes it, all the while.      *)
(*                                                                         *)
(* The nodes are on a ring through a sentinel, which is the list object.   *)
(* A step is one access to memory that another thread can see; a write to  *)
(* a node that svc has freed is `corrupt`.  How harmful a race is depends  *)
(* on which overlap it is, so `raced` records the harmful ones.            *)
(***************************************************************************)
EXTENDS Naturals, Sequences, FiniteSets

CONSTANTS
    Pusher,         \* the thrift threads
    Node,           \* list nodes, each allocated once
    Ring,           \* the sentinel
    NoNode

ASSUME RingAssumption == {Ring, NoNode} \cap Node = {} /\ Ring # NoNode

VARIABLES
    next, prev,     \* _M_next and _M_prev
    pusher,         \* [at, node] of each thrift thread
    svc,            \* [at, front, next, prev], what pop has read
    queue,          \* the nodes added and not removed, as if all were atomic
    order, popped,  \* the nodes in the order of their push, and of their pop
    freed, corrupt, raced

raceVars == <<next, prev, pusher, svc, queue, order, popped, freed, corrupt, raced>>

Resting  == [at |-> "idle", node |-> NoNode]
NotInPop == [at |-> "idle", front |-> NoNode, next |-> NoNode, prev |-> NoNode]
Inside   == {p \in Pusher : pusher[p].at # "idle"}
Used     == {n \in Node : \E i \in DOMAIN order : order[i] = n}
               \cup {pusher[p].node : p \in Inside}
Touches(n) == corrupt' = (corrupt \/ n \in freed)

-----------------------------------------------------------------------------
(* push_back: new node, node.next = ring, node.prev = ring.prev            *)
Allocate(p, n) ==
    /\ pusher[p].at = "idle" /\ n \notin Used
    /\ next' = [next EXCEPT ![n] = Ring]
    /\ prev' = [prev EXCEPT ![n] = prev[Ring]]
    /\ pusher' = [pusher EXCEPT ![p] = [at |-> "link", node |-> n]]
    /\ raced' = (raced \/ Inside # {} \/ (svc.at # "idle" /\ Len(queue) <= 1))
    /\ UNCHANGED <<svc, queue, order, popped, freed, corrupt>>

\* mutant: push_front
LinkFront(p) ==
    /\ pusher[p].at = "link"
    /\ next' = [next EXCEPT ![pusher[p].node] = next[Ring], ![Ring] = pusher[p].node]
    /\ pusher' = [pusher EXCEPT ![p].at = "close"]
    /\ UNCHANGED <<prev, svc, queue, order, popped, freed, corrupt, raced>>

\* ring.prev->next = node: the last node is read again, or kept from before
Link(p) ==
    /\ pusher[p].at = "link"
    /\ \E last \in {prev[pusher[p].node], prev[Ring]} :
          next' = [next EXCEPT ![last] = pusher[p].node] /\ Touches(last)
    /\ pusher' = [pusher EXCEPT ![p].at = "close"]
    /\ UNCHANGED <<prev, svc, queue, order, popped, freed, raced>>

\* ring.prev = node
Close(p) ==
    /\ pusher[p].at = "close"
    /\ prev' = [prev EXCEPT ![Ring] = pusher[p].node]
    /\ pusher' = [pusher EXCEPT ![p] = Resting]
    /\ queue' = Append(queue, pusher[p].node) /\ order' = Append(order, pusher[p].node)
    /\ UNCHANGED <<next, svc, popped, freed, corrupt, raced>>

-----------------------------------------------------------------------------
(* pop: -1 when empty (no step), else front(), and pop_front unlinks       *)
PopFront ==
    /\ svc.at = "idle" /\ next[Ring] # Ring
    /\ svc' = [NotInPop EXCEPT !.at = "read", !.front = next[Ring]]
    /\ raced' = (raced \/ (Inside # {} /\ Len(queue) <= 1))
    /\ UNCHANGED <<next, prev, pusher, queue, order, popped, freed, corrupt>>

Read ==
    /\ svc.at = "read"
    /\ svc' = [svc EXCEPT !.at = "forward", !.next = next[svc.front], !.prev = prev[svc.front]]
    /\ UNCHANGED <<next, prev, pusher, queue, order, popped, freed, corrupt, raced>>

Forward ==
    /\ svc.at = "forward"
    /\ next' = [next EXCEPT ![svc.prev] = svc.next] /\ Touches(svc.prev)
    /\ svc' = [svc EXCEPT !.at = "backward"]
    /\ UNCHANGED <<prev, pusher, queue, order, popped, freed, raced>>

Backward ==
    /\ svc.at = "backward"
    /\ prev' = [prev EXCEPT ![svc.next] = svc.prev] /\ Touches(svc.next)
    /\ svc' = [svc EXCEPT !.at = "free"]
    /\ UNCHANGED <<next, pusher, queue, order, popped, freed, raced>>

Free ==
    /\ svc.at = "free"
    /\ freed' = freed \cup {svc.front}
    /\ popped' = Append(popped, svc.front)
    /\ queue' = Tail(queue)
    /\ svc' = NotInPop
    /\ UNCHANGED <<next, prev, pusher, order, corrupt, raced>>

-----------------------------------------------------------------------------
RaceInit ==
    /\ next = [n \in Node \cup {Ring} |-> IF n = Ring THEN Ring ELSE NoNode]
    /\ prev = [n \in Node \cup {Ring} |-> IF n = Ring THEN Ring ELSE NoNode]
    /\ pusher = [p \in Pusher |-> Resting] /\ svc = NotInPop
    /\ queue = <<>> /\ order = <<>> /\ popped = <<>>
    /\ freed = {} /\ corrupt = FALSE /\ raced = FALSE

\* what comes after a harmful overlap is of no interest
RaceNext ==
    /\ ~raced
    /\ \/ \E p \in Pusher : (\E n \in Node : Allocate(p, n)) \/ Link(p) \/ Close(p)
       \/ PopFront \/ Read \/ Forward \/ Backward \/ Free

RaceSpec == RaceInit /\ [][RaceNext]_raceVars

-----------------------------------------------------------------------------
(* The list survives every overlap of a push with a pop as long as it has  *)
(* two nodes or more: between operations its links agree with the nodes    *)
(* added and not removed, svc has had them in the order of their push, and *)
(* no freed node is written.  Two pushes at once, or a push beside a pop   *)
(* on a shorter list, are what the missing lock would have to exclude.     *)
Linked(q) ==
    LET ring == <<Ring>> \o q
        after(i) == ring[(i % Len(ring)) + 1]
    IN \A i \in DOMAIN ring : next[ring[i]] = after(i) /\ prev[after(i)] = ring[i]
LongListsStayWhole ==
    ~raced => /\ ~corrupt
              /\ popped \o queue = order
              /\ Inside = {} /\ svc.at = "idle" => Linked(queue)

=============================================================================
