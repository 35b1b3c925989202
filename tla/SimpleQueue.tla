---------------------------- MODULE SimpleQueue ----------------------------
(***************************************************************************)
(* common/utils/simple_queue.h: one queue, its mutex and its two condition *)
(* variables, shared by threads that call push_wait, push, pop and         *)
(* wait_pop.  The size test, the change of the queue, the unlock and the   *)
(* notify_one are separate steps, as the code makes them; a wait may also  *)
(* end for no reason, as boost::condition_variable allows.  simple_queue   *)
(* and ptr_queue have the same text (but for what pop returns).            *)
(***************************************************************************)
EXTENDS Integers, Sequences, FiniteSets

CONSTANTS
    PushWaiter, Pusher,     \* threads that call push_wait, push
    Popper, WaitPopper,     \* threads that call pop, wait_pop
    Item,                   \* what they pass
    MaxSize,                \* _max_size, 0 for no limit
    None                    \* no thread

Putter == PushWaiter \cup Pusher
Taker  == Popper \cup WaitPopper
Thread == Putter \cup Taker

ASSUME ThreadAssumption ==
    /\ None \notin Thread
    /\ Putter \cap Taker = {} /\ PushWaiter \cap Pusher = {} /\ Popper \cap WaitPopper = {}
ASSUME SizeAssumption == MaxSize \in Nat /\ Item # {}
ASSUME FiniteAssumption == IsFiniteSet(Thread)

VARIABLES
    queue,          \* _queue
    owner,          \* the thread that holds _mutex, or None
    not_full,       \* the threads waiting on _not_full_cond
    not_empty,      \* the threads waiting on _not_empty_cond
    pc,             \* where each thread is
    val             \* the argument of a push, the result of a pop

vars == <<queue, owner, not_full, not_empty, pc, val>>

IsFull == MaxSize > 0 /\ Len(queue) >= MaxSize
Goto(t, l) == pc' = [pc EXCEPT ![t] = l]

Call(t) ==
    /\ pc[t] = "idle"
    /\ Goto(t, "lock")
    /\ IF t \in Putter THEN \E x \in Item : val' = [val EXCEPT ![t] = x]
       ELSE UNCHANGED val
    /\ UNCHANGED <<queue, owner, not_full, not_empty>>

\* scoped_lock, and the lock a wait takes again before it returns
Lock(t) ==
    /\ pc[t] = "lock" /\ owner = None
    /\ owner' = t
    /\ Goto(t, "test")
    /\ UNCHANGED <<queue, not_full, not_empty, val>>

Cannot(t) == IF t \in Putter THEN IsFull ELSE queue = <<>>

Pass(t) ==
    /\ pc[t] = "test" /\ ~Cannot(t)
    /\ Goto(t, "update")
    /\ UNCHANGED <<queue, owner, not_full, not_empty, val>>

\* push returns false, pop returns false (or NULL)
Refuse(t) ==
    /\ pc[t] = "test" /\ t \in Pusher \cup Popper /\ Cannot(t)
    /\ owner' = None
    /\ Goto(t, "idle")
    /\ UNCHANGED <<queue, not_full, not_empty, val>>

WaitNotFull(t) ==
    /\ pc[t] = "test" /\ t \in PushWaiter /\ Cannot(t)
    /\ owner' = None
    /\ not_full' = not_full \cup {t}
    /\ Goto(t, "wait")
    /\ UNCHANGED <<queue, not_empty, val>>

WaitNotEmpty(t) ==
    /\ pc[t] = "test" /\ t \in WaitPopper /\ Cannot(t)
    /\ owner' = None
    /\ not_empty' = not_empty \cup {t}
    /\ Goto(t, "wait")
    /\ UNCHANGED <<queue, not_full, val>>

\* mutant: the new item goes to the front
PutFirst(t) ==
    /\ pc[t] = "update" /\ t \in Putter
    /\ queue' = <<val[t]>> \o queue
    /\ Goto(t, "unlock")
    /\ UNCHANGED <<owner, not_full, not_empty, val>>

Put(t) ==
    /\ pc[t] = "update" /\ t \in Putter
    /\ queue' = Append(queue, val[t])
    /\ Goto(t, "unlock")
    /\ UNCHANGED <<owner, not_full, not_empty, val>>

Take(t) ==
    /\ pc[t] = "update" /\ t \in Taker
    /\ val' = [val EXCEPT ![t] = Head(queue)]
    /\ queue' = Tail(queue)
    /\ Goto(t, "unlock")
    /\ UNCHANGED <<owner, not_full, not_empty>>

\* mutant: pop does not notify
UnlockSilently(t) ==
    /\ pc[t] = "unlock"
    /\ owner' = None
    /\ Goto(t, IF t \in Popper THEN "idle" ELSE "notify")
    /\ UNCHANGED <<queue, not_full, not_empty, val>>

Unlock(t) ==
    /\ pc[t] = "unlock"
    /\ owner' = None
    /\ Goto(t, "notify")
    /\ UNCHANGED <<queue, not_full, not_empty, val>>

Waiting(t) == IF t \in Putter THEN not_empty ELSE not_full

\* notify_one: one waiting thread goes back for the lock and its test
Wake(u) ==
    /\ not_full' = not_full \ {u}
    /\ not_empty' = not_empty \ {u}

NotifyNone(t) ==
    /\ pc[t] = "notify" /\ Waiting(t) = {}
    /\ Goto(t, "idle")
    /\ UNCHANGED <<queue, owner, not_full, not_empty, val>>

NotifyOne(t) ==
    /\ pc[t] = "notify"
    /\ \E u \in Waiting(t) :
        /\ Wake(u)
        /\ pc' = [pc EXCEPT ![t] = "idle", ![u] = "lock"]
    /\ UNCHANGED <<queue, owner, val>>

Spurious(t) ==
    /\ pc[t] = "wait"
    /\ Wake(t)
    /\ Goto(t, "lock")
    /\ UNCHANGED <<queue, owner, val>>

Init ==
    /\ queue = <<>> /\ owner = None /\ not_full = {} /\ not_empty = {}
    /\ pc = [t \in Thread |-> "idle"]
    /\ val \in [Thread -> Item]

Inside(t) == Lock(t) \/ Pass(t) \/ Refuse(t) \/ WaitNotFull(t) \/ WaitNotEmpty(t)
             \/ Put(t) \/ Take(t) \/ Unlock(t) \/ NotifyNone(t) \/ NotifyOne(t)

Next == \E t \in Thread : Call(t) \/ Inside(t) \/ Spurious(t)
Spec == Init /\ [][Next]_vars

-----------------------------------------------------------------------------
Label == {"idle", "lock", "test", "wait", "update", "unlock", "notify"}
TypeOK ==
    /\ queue \in Seq(Item)
    /\ owner \in Thread \cup {None}
    /\ not_full \in SUBSET PushWaiter
    /\ not_empty \in SUBSET WaitPopper
    /\ pc \in [Thread -> Label]
    /\ val \in [Thread -> Item]

(* The threads between the lock and the unlock are the mutex's owner, and  *)
(* the threads that wait are the ones the condition variables know.        *)
Consistent ==
    \A t \in Thread : /\ pc[t] \in {"test", "update", "unlock"} <=> owner = t
                      /\ pc[t] = "wait" <=> t \in not_full \cup not_empty

(* The queue never holds more than _max_size items: what push and          *)
(* push_wait tested is still true when they append.                        *)
WithinSize == MaxSize > 0 => Len(queue) <= MaxSize

(* No thread calls front() or pop() on an empty std::queue.                *)
NeverPopsEmpty == \A t \in Taker : pc[t] = "update" => queue # <<>>

(* While a thread waits for room, every free slot is matched by a thread   *)
(* that took an item and has still to notify, or by a push_wait that goes  *)
(* for its test; likewise for a thread that waits for an item.  So a       *)
(* notify_one, which comes after the unlock and wakes one, is not missing. *)
Coming(done, woken) == {t \in done : pc[t] \in {"unlock", "notify"}}
                       \cup {t \in woken : pc[t] \in {"lock", "test", "update"}}
NoLostWakeup ==
    /\ MaxSize > 0 /\ not_full # {} => MaxSize - Len(queue) <= Cardinality(Coming(Taker, PushWaiter))
    /\ not_empty # {} => Len(queue) <= Cardinality(Coming(Putter, WaitPopper))

(* The queue is a bounded first-in first-out queue.                        *)
Fifo == INSTANCE BoundedFifo WITH fifo <- queue
IsFifo == Fifo!FSpec

=============================================================================
