---------------------------- MODULE CommonProofs ----------------------------
(***************************************************************************)
(* Theorems about what the programs share, most of it in common/: the      *)
(* bounded queue (Init, Next and Spec are those of SimpleQueue), the hash  *)
(* table and its dumps, the reader of lines, the parser of http messages,  *)
(* the loop that reads JSON records and the trie, for any value of their   *)
(* constants.                                                              *)
(*                                                                         *)
(* SimpleQueue: WithinSize and NeverPopsEmpty are not inductive: they need *)
(* that a test made under the mutex still holds at the update (Tested),    *)
(* which needs that only the owner of the mutex is between its lock and    *)
(* its unlock (Consistent).  NoLostWakeup is inductive with these.         *)
(***************************************************************************)
EXTENDS SimpleQueue, KeyTable, LineReader, HttpMessage, RecordReader, DatTrie,
        FiniteSetTheorems, WellFoundedInduction, TLAPS

\* what a thread tested is true until it has acted on it
Tested == \A t \in Thread : pc[t] = "update" => ~Cannot(t)

Inv == TypeOK /\ Consistent /\ Tested /\ WithinSize

-----------------------------------------------------------------------------
(* The queue changes only in Put and Take, by one item at one end.         *)
LEMMA QueueSteps ==
    ASSUME NEW q \in Seq(Item), NEW x \in Item
    PROVE  /\ Append(q, x) \in Seq(Item) /\ Len(Append(q, x)) = Len(q) + 1
           /\ Append(q, x) # <<>>
           /\ q # <<>> => /\ Head(q) \in Item /\ Tail(q) \in Seq(Item)
                          /\ Len(Tail(q)) = Len(q) - 1
           /\ Len(q) \in Nat
  OBVIOUS

LEMMA InitInv == Init => Inv
  BY ThreadAssumption, SizeAssumption
  DEF Init, Inv, TypeOK, Consistent, Tested, WithinSize, Thread, Label, Cannot

LEMMA StepInv == Inv /\ [Next]_vars => Inv'
<1> SUFFICES ASSUME Inv, [Next]_vars PROVE Inv'
  OBVIOUS
<1> USE ThreadAssumption, SizeAssumption
<1> USE DEF Inv, TypeOK, Consistent, Tested, WithinSize, Label, Goto
<1>1. CASE UNCHANGED vars
  BY <1>1 DEF vars, Cannot, IsFull
<1>2. ASSUME NEW t \in Thread, Call(t) PROVE Inv'
  BY <1>2 DEF Call, Cannot, IsFull, Thread, Putter, Taker
<1>3. ASSUME NEW t \in Thread, Lock(t) PROVE Inv'
  BY <1>3 DEF Lock, Cannot, IsFull
<1>4. ASSUME NEW t \in Thread, Pass(t) PROVE Inv'
  BY <1>4 DEF Pass, Cannot, IsFull
<1>5. ASSUME NEW t \in Thread, Refuse(t) PROVE Inv'
  BY <1>5 DEF Refuse, Cannot, IsFull
<1>6. ASSUME NEW t \in Thread, WaitNotFull(t) PROVE Inv'
  BY <1>6 DEF WaitNotFull, Cannot, IsFull
<1>7. ASSUME NEW t \in Thread, WaitNotEmpty(t) PROVE Inv'
  BY <1>7 DEF WaitNotEmpty, Cannot, IsFull
<1>8. ASSUME NEW t \in Thread, Put(t) PROVE Inv'
  <2>1. Append(queue, val[t]) \in Seq(Item) /\ Len(Append(queue, val[t])) = Len(queue) + 1
    BY QueueSteps
  <2>2. TypeOK' /\ Consistent'
    BY <1>8, <2>1 DEF Put
  <2>3. WithinSize'
    BY <1>8, <2>1, QueueSteps DEF Put, Cannot, IsFull
  <2>4. Tested'
    BY <1>8 DEF Put
  <2> QED BY <2>2, <2>3, <2>4
<1>9. ASSUME NEW t \in Thread, Take(t) PROVE Inv'
  <2>0. queue # <<>>
    BY <1>9 DEF Take, Cannot, Taker, Thread
  <2>1. Head(queue) \in Item /\ Tail(queue) \in Seq(Item) /\ Len(Tail(queue)) = Len(queue) - 1
    BY <2>0, QueueSteps
  <2>2. TypeOK' /\ Consistent'
    BY <1>9, <2>1 DEF Take
  <2>3. WithinSize'
    BY <1>9, <2>1, QueueSteps DEF Take
  <2>4. Tested'
    BY <1>9 DEF Take
  <2> QED BY <2>2, <2>3, <2>4
<1>10. ASSUME NEW t \in Thread, Unlock(t) PROVE Inv'
  BY <1>10 DEF Unlock, Cannot, IsFull
<1>11. ASSUME NEW t \in Thread, NotifyNone(t) PROVE Inv'
  BY <1>11 DEF NotifyNone, Cannot, IsFull
<1>12. ASSUME NEW t \in Thread, NotifyOne(t) PROVE Inv'
  <2>1. PICK u \in Waiting(t) : Wake(u) /\ pc' = [pc EXCEPT ![t] = "idle", ![u] = "lock"]
    BY <1>12 DEF NotifyOne
  <2>2. u \in Thread /\ pc[u] = "wait" /\ pc[t] = "notify"
    BY <1>12, <2>1 DEF NotifyOne, Waiting, Thread, Putter, Taker
  <2> QED BY <1>12, <2>1, <2>2 DEF NotifyOne, Wake, Cannot, IsFull
<1>13. ASSUME NEW t \in Thread, Spurious(t) PROVE Inv'
  BY <1>13 DEF Spurious, Wake, Cannot, IsFull
<1> QED
  BY <1>1, <1>2, <1>3, <1>4, <1>5, <1>6, <1>7, <1>8, <1>9, <1>10, <1>11, <1>12, <1>13
  DEF Next, Inside

LEMMA Invariance == Spec => []Inv
  BY InitInv, StepInv, PTL DEF Spec

(* The threads, the mutex and the condition variables keep their types and *)
(* agree with one another (SimpleQueue!Consistent): no two threads are     *)
(* inside the mutex.                                                       *)
THEOREM QueueConsistent == Spec => [](TypeOK /\ Consistent)
  BY Invariance, PTL DEF Inv

(* The capacity of a queue is kept, whoever pushes, and front() is never   *)
(* called on an empty std::queue.                                          *)
THEOREM QueueSafe == Spec => [](WithinSize /\ NeverPopsEmpty)
<1>1. Inv => WithinSize /\ NeverPopsEmpty
  BY ThreadAssumption DEF Inv, Tested, NeverPopsEmpty, Cannot, Thread, Taker, Putter
<1> QED BY <1>1, Invariance, PTL

-----------------------------------------------------------------------------
(* Sets of threads that grow, lose one thread, or have one replaced.       *)
LEMMA Counts ==
  ASSUME NEW S \in SUBSET Thread, NEW R \in SUBSET Thread
  PROVE  /\ Cardinality(S) \in Nat /\ Cardinality(R) \in Nat
         /\ S \subseteq R => Cardinality(S) <= Cardinality(R)
         /\ \A t \in Thread : S \ {t} \subseteq R => Cardinality(S) <= Cardinality(R) + 1
         /\ \A t \in R \ S : S \subseteq R => Cardinality(S) + 1 <= Cardinality(R)
         /\ \A t \in Thread, u \in R \ S : S \ {t} \subseteq R => Cardinality(S) <= Cardinality(R)
<1>1. IsFiniteSet(S) /\ IsFiniteSet(R) /\ \A Q \in SUBSET Thread : IsFiniteSet(Q) /\ Cardinality(Q) \in Nat
  BY FiniteAssumption, FS_Subset, FS_CardinalityType
<1>2. S \subseteq R => Cardinality(S) <= Cardinality(R)
  BY <1>1, FS_Subset
<1>3. ASSUME NEW t \in Thread, S \ {t} \subseteq R PROVE Cardinality(S) <= Cardinality(R) + 1
  <2>1. Cardinality(S \ {t}) <= Cardinality(R) /\ Cardinality(S \ {t}) \in Nat
    BY <1>1, <1>3, FS_Subset
  <2>2. Cardinality(S \ {t}) = IF t \in S THEN Cardinality(S) - 1 ELSE Cardinality(S)
    BY <1>1, FS_RemoveElement
  <2> QED BY <1>1, <2>1, <2>2
<1>4. ASSUME NEW t \in R \ S, S \subseteq R PROVE Cardinality(S) + 1 <= Cardinality(R)
  <2>1. Cardinality(S \cup {t}) = Cardinality(S) + 1
    BY <1>1, FS_AddElement
  <2>2. Cardinality(S \cup {t}) <= Cardinality(R)
    BY <1>1, <1>4, FS_Subset
  <2> QED BY <2>1, <2>2
<1>5. ASSUME NEW t \in Thread, NEW u \in R \ S, S \ {t} \subseteq R PROVE Cardinality(S) <= Cardinality(R)
  <2> DEFINE Q == S \ {t}
  <2>1. Q \in SUBSET Thread /\ u \notin Q /\ Q \cup {u} \subseteq R
    BY <1>5
  <2>2. Cardinality(Q) = IF t \in S THEN Cardinality(S) - 1 ELSE Cardinality(S)
    BY <1>1, FS_RemoveElement
  <2> HIDE DEF Q
  <2>3. Cardinality(Q \cup {u}) = Cardinality(Q) + 1 /\ Cardinality(Q) \in Nat
    BY <1>1, <2>1, FS_AddElement
  <2>4. Cardinality(Q \cup {u}) <= Cardinality(R)
    BY <1>1, <2>1, FS_Subset
  <2> QED BY <1>1, <2>2, <2>3, <2>4
<1> QED BY <1>1, <1>2, <1>3, <1>4, <1>5

(* A step that makes a slot or an item adds the thread to those that come; *)
(* one of these leaves only when it uses a slot or an item up, or hands    *)
(* over to the thread it notifies.                                         *)
LEMMA WakeupStep ==
  ASSUME Inv, NoLostWakeup, [Next]_vars
  PROVE  NoLostWakeup'
<1> DEFINE S == Coming(Taker, PushWaiter)
           I == Coming(Putter, WaitPopper)
<1>1. /\ S \in SUBSET Thread /\ S' \in SUBSET Thread
      /\ I \in SUBSET Thread /\ I' \in SUBSET Thread
      /\ Len(queue) \in Nat /\ MaxSize \in Nat
      /\ pc \in [Thread -> Label] /\ not_full \subseteq PushWaiter /\ not_empty \subseteq WaitPopper
      /\ Putter \cap Taker = {} /\ PushWaiter \cap Pusher = {} /\ Popper \cap WaitPopper = {}
  BY ThreadAssumption, SizeAssumption, QueueSteps DEF Coming, Inv, TypeOK, Thread, Putter, Taker
<1>2. Cardinality(S) \in Nat /\ Cardinality(S') \in Nat /\ Cardinality(I) \in Nat /\ Cardinality(I') \in Nat
  BY <1>1, Counts
\* steps that leave the queue alone and take no thread from those that come
<1>3. ASSUME queue' = queue, not_full' \subseteq not_full, S \subseteq S' \/ not_full' = {},
             not_empty' \subseteq not_empty, I \subseteq I' \/ not_empty' = {}
      PROVE  NoLostWakeup'
  <2>1. S \subseteq S' => Cardinality(S) <= Cardinality(S')
    BY <1>1, Counts
  <2>2. I \subseteq I' => Cardinality(I) <= Cardinality(I')
    BY <1>1, Counts
  <2> QED BY <1>1, <1>2, <1>3, <2>1, <2>2 DEF NoLostWakeup
<1>4. ASSUME NEW t \in Thread,
             Call(t) \/ Lock(t) \/ Pass(t) \/ Refuse(t) \/ Unlock(t) \/ NotifyNone(t) \/ Spurious(t)
      PROVE  NoLostWakeup'
  <2>1. queue' = queue /\ not_full' \subseteq not_full /\ not_empty' \subseteq not_empty
    BY <1>4 DEF Call, Lock, Pass, Refuse, Unlock, NotifyNone, Spurious, Wake
  <2>2. S \subseteq S' \/ not_full' = {}
    BY <1>1, <1>4 DEF Call, Lock, Pass, Refuse, Unlock, NotifyNone, Spurious, Waiting, Goto, Coming, Thread, Putter, Taker
  <2>3. I \subseteq I' \/ not_empty' = {}
    BY <1>1, <1>4 DEF Call, Lock, Pass, Refuse, Unlock, NotifyNone, Spurious, Waiting, Goto, Coming, Thread, Putter, Taker
  <2> QED BY <1>3, <2>1, <2>2, <2>3
\* nothing is free for the one that waits
<1>5. ASSUME NEW t \in Thread, WaitNotFull(t) PROVE NoLostWakeup'
  <2>1. queue' = queue /\ not_empty' = not_empty /\ I \subseteq I'
    BY <1>1, <1>5 DEF WaitNotFull, Goto, Coming, Putter, Taker
  <2>2. MaxSize > 0 /\ Len(queue) >= MaxSize
    BY <1>1, <1>5 DEF WaitNotFull, Cannot, IsFull, Putter
  <2>3. Cardinality(I) <= Cardinality(I')
    BY <1>1, <2>1, Counts
  <2> QED BY <1>1, <1>2, <2>1, <2>2, <2>3 DEF NoLostWakeup
<1>6. ASSUME NEW t \in Thread, WaitNotEmpty(t) PROVE NoLostWakeup'
  <2>1. queue' = queue /\ not_full' = not_full /\ S \subseteq S'
    BY <1>1, <1>6 DEF WaitNotEmpty, Goto, Coming, Putter, Taker
  <2>2. Len(queue) = 0
    BY <1>1, <1>6 DEF WaitNotEmpty, Cannot, Taker
  <2>3. Cardinality(S) <= Cardinality(S')
    BY <1>1, <2>1, Counts
  <2> QED BY <1>1, <1>2, <2>1, <2>2, <2>3 DEF NoLostWakeup
<1>7. ASSUME NEW t \in Thread, Put(t) PROVE NoLostWakeup'
  <2>1. Len(queue') = Len(queue) + 1 /\ UNCHANGED <<not_full, not_empty>>
    BY <1>7, QueueSteps DEF Put, Inv, TypeOK
  <2>2. S \ {t} \subseteq S' /\ I \subseteq I' /\ t \in I' \ I
    BY <1>1, <1>7 DEF Put, Goto, Coming, Putter, Taker
  <2>3. Cardinality(S) <= Cardinality(S') + 1 /\ Cardinality(I) + 1 <= Cardinality(I')
    BY <1>1, <2>2, Counts
  <2> QED BY <1>1, <1>2, <2>1, <2>3 DEF NoLostWakeup
<1>8. ASSUME NEW t \in Thread, Take(t) PROVE NoLostWakeup'
  <2>0. queue # <<>>
    BY <1>1, <1>8 DEF Take, Inv, Tested, Cannot
  <2>1. Len(queue') = Len(queue) - 1 /\ UNCHANGED <<not_full, not_empty>>
    BY <1>8, <2>0, QueueSteps DEF Take, Inv, TypeOK
  <2>2. I \ {t} \subseteq I' /\ S \subseteq S' /\ t \in S' \ S
    BY <1>1, <1>8 DEF Take, Goto, Coming, Putter, Taker
  <2>3. Cardinality(I) <= Cardinality(I') + 1 /\ Cardinality(S) + 1 <= Cardinality(S')
    BY <1>1, <2>2, Counts
  <2> QED BY <1>1, <1>2, <2>1, <2>3 DEF NoLostWakeup
\* the thread that notifies goes, the one it wakes comes
<1>9. ASSUME NEW t \in Thread, NotifyOne(t) PROVE NoLostWakeup'
  <2>1. PICK u \in Waiting(t) : Wake(u) /\ pc' = [pc EXCEPT ![t] = "idle", ![u] = "lock"]
    BY <1>9 DEF NotifyOne
  <2>2. /\ u \in Thread /\ pc[u] = "wait" /\ pc[t] = "notify" /\ t # u
        /\ queue' = queue /\ not_full' \subseteq not_full /\ not_empty' \subseteq not_empty
    BY <1>1, <1>9, <2>1 DEF NotifyOne, Waiting, Wake, Inv, Consistent, Thread, Putter, Taker
  <2>3. CASE t \in Putter
    <3>1. S \subseteq S' /\ I \ {t} \subseteq I' /\ u \in I' \ I
      BY <1>1, <2>1, <2>2, <2>3 DEF Waiting, Coming, Putter, Taker
    <3>2. Cardinality(S) <= Cardinality(S') /\ Cardinality(I) <= Cardinality(I')
      BY <1>1, <3>1, Counts
    <3> QED BY <1>1, <1>2, <2>2, <3>2 DEF NoLostWakeup
  <2>4. CASE t \in Taker
    <3>1. I \subseteq I' /\ S \ {t} \subseteq S' /\ u \in S' \ S
      BY <1>1, <2>1, <2>2, <2>4 DEF Waiting, Coming, Putter, Taker
    <3>2. Cardinality(S) <= Cardinality(S') /\ Cardinality(I) <= Cardinality(I')
      BY <1>1, <3>1, Counts
    <3> QED BY <1>1, <1>2, <2>2, <3>2 DEF NoLostWakeup
  <2> QED BY <2>3, <2>4 DEF Thread
<1>10. CASE UNCHANGED vars
  BY <1>3, <1>10 DEF vars, Coming
<1> QED BY <1>4, <1>5, <1>6, <1>7, <1>8, <1>9, <1>10 DEF Next, Inside

(* No notification is missing, though notify_one comes after the unlock,   *)
(* wakes one thread and another may take the slot before it.               *)
THEOREM QueueWakesUp == Spec => []NoLostWakeup
<1>1. Init => NoLostWakeup
  BY DEF Init, NoLostWakeup
<1> QED BY <1>1, WakeupStep, Invariance, PTL DEF Spec

-----------------------------------------------------------------------------
(* The locks and the condition variables implement the bounded FIFO of     *)
(* BoundedFifo: Put and Take are its Put and Take, Call its Offer, and     *)
(* every other step is a stutter.                                          *)
THEOREM QueueIsFifo == Spec => IsFifo
<1>1. Init => Fifo!FInit
  BY DEF Init, Fifo!FInit, Thread
<1>2. ASSUME Inv, [Next]_vars PROVE [Fifo!FNext]_<<queue, val>>
  <2>1. CASE UNCHANGED vars
    BY <2>1 DEF vars
  <2>2. ASSUME NEW t \in Thread, Call(t) PROVE [Fifo!FNext]_<<queue, val>>
    BY <2>2 DEF Call, Fifo!FNext, Fifo!Offer
  <2>3. ASSUME NEW t \in Thread, Put(t) PROVE [Fifo!FNext]_<<queue, val>>
    <3>1. Fifo!Room
      BY <1>2, <2>3, SizeAssumption, QueueSteps
      DEF Inv, TypeOK, Tested, Put, Cannot, IsFull, Fifo!Room
    <3> QED BY <2>3, <3>1 DEF Put, Fifo!FNext, Fifo!Put
  <2>4. ASSUME NEW t \in Thread, Take(t) PROVE [Fifo!FNext]_<<queue, val>>
    <3>1. queue # <<>>
      BY <1>2, <2>4, ThreadAssumption DEF Inv, Tested, Take, Cannot, Thread
    <3> QED BY <2>4, <3>1 DEF Take, Fifo!FNext, Fifo!Take
  <2>5. ASSUME NEW t \in Thread,
               \/ Lock(t) \/ Pass(t) \/ Refuse(t) \/ WaitNotFull(t) \/ WaitNotEmpty(t)
               \/ Unlock(t) \/ NotifyNone(t) \/ NotifyOne(t) \/ Spurious(t)
        PROVE UNCHANGED <<queue, val>>
    BY <2>5 DEF Lock, Pass, Refuse, WaitNotFull, WaitNotEmpty, Unlock, NotifyNone,
                NotifyOne, Spurious
  <2> QED BY <1>2, <2>1, <2>2, <2>3, <2>4, <2>5 DEF Next, Inside
<1> QED BY <1>1, <1>2, Invariance, PTL DEF Spec, IsFifo, Fifo!FSpec

-----------------------------------------------------------------------------
(* A finite set of numbers has a smallest one: of the sets of those up to  *)
(* one of them, a minimal one holds nothing below it.                      *)
LEMMA Smallest ==
  ASSUME NEW S \in SUBSET Nat, IsFiniteSet(S), S # {}
  PROVE  \E h \in S : \A g \in S : h <= g
<1> DEFINE Below(y) == {x \in S : x <= y}
           T == {Below(y) : y \in S}
<1>1. S \subseteq Nat /\ IsFiniteSet(S)
  OBVIOUS
<1>2. T \subseteq FiniteSubsetsOf(S) /\ T # {}
  <2>1. T \subseteq SUBSET S /\ T # {}
    OBVIOUS
  <2>2. FiniteSubsetsOf(S) = SUBSET S
    BY <1>1, FS_FiniteSubsetsOfFinite
  <2> HIDE DEF T
  <2> QED BY <2>1, <2>2
<1>3. IsWellFoundedOn(StrictSubsetOrdering(S), FiniteSubsetsOf(S))
  BY FS_StrictSubsetOrderingWellFounded
<1>4. PICK X \in T : \A Y \in T : <<Y, X>> \notin StrictSubsetOrdering(S)
  <2> HIDE DEF T
  <2> QED BY <1>2, <1>3, WFMin
<1>5. PICK h \in S : X = Below(h)
  OBVIOUS
<1>6. ASSUME NEW g \in S, g < h PROVE FALSE
  <2>1. Below(g) \subseteq Below(h) /\ h \in Below(h) /\ h \notin Below(g)
    <3>1. g \in Nat /\ h \in Nat /\ \A x \in S : x \in Nat
      BY <1>1
    <3>2. \A x \in S : x <= g => x <= h
      BY <3>1, <1>6
    <3>3. h <= h /\ ~ (h <= g)
      BY <3>1, <1>6
    <3> QED BY <3>2, <3>3, Zenon
  <2>2. <<Below(g), X>> \in StrictSubsetOrdering(S)
    BY <1>5, <2>1 DEF StrictSubsetOrdering
  <2> QED BY <2>2, <1>4
<1> QED BY <1>1, <1>6

\* A set of numbers that is not empty has a smallest one.
LEMMA Least ==
  ASSUME NEW S \in SUBSET Nat, S # {}
  PROVE  \E h \in S : \A g \in S : h <= g
<1>1. PICK e \in S : TRUE
  OBVIOUS
<1> DEFINE L == {x \in S : x <= e}
<1>2. e \in Nat /\ e <= e
  BY <1>1
<1>3. L \subseteq 0..e /\ L # {} /\ L \in SUBSET Nat
  <2>1. \A x \in L : x \in Nat /\ x <= e
    OBVIOUS
  <2>2. e \in L
    BY <1>1, <1>2
  <2> HIDE DEF L
  <2> QED BY <1>2, <2>1, <2>2
<1>4. IsFiniteSet(0..e)
  BY <1>2, FS_Interval
<1>5. IsFiniteSet(L)
  <2> HIDE DEF L
  <2> QED BY <1>3, <1>4, FS_Subset
<1>6. PICK h \in L : \A g \in L : h <= g
  <2> HIDE DEF L
  <2> QED BY <1>3, <1>5, Smallest
<1>7. h \in S /\ h <= e /\ h \in Nat
  BY <1>2
<1>8. \A g \in S : h <= g
  BY <1>2, <1>6, <1>7
<1> QED BY <1>7, <1>8

-----------------------------------------------------------------------------
(* The tables a load goes through, f[i] after the first i items.           *)
Goes(f, items, n) == f = [i \in 0..n |-> IF i = 0 THEN EmptyTable ELSE AddItem(f[i - 1], items[i])]

LEMMA LoadedIs ==
  ASSUME NEW items
  PROVE  TableOf(items) = (CHOOSE f : Goes(f, items, Len(items)))[Len(items)]
BY DEF TableOf, Goes

LEMMA GoesSteps ==
  ASSUME NEW f, NEW items, NEW n \in Nat
  PROVE  Goes(f, items, n) <=>
            /\ f = [i \in 0..n |-> f[i]] /\ f[0] = EmptyTable
            /\ \A i \in 1..n : f[i] = AddItem(f[i - 1], items[i])
<1> DEFINE F(i) == IF i = 0 THEN EmptyTable ELSE AddItem(f[i - 1], items[i])
<1>1. Goes(f, items, n) <=> f = [i \in 0..n |-> F(i)]
  BY DEF Goes
<1>2. F(0) = EmptyTable /\ \A i \in 1..n : F(i) = AddItem(f[i - 1], items[i])
  OBVIOUS
<1>3. 0 \in 0..n /\ (\A i \in 1..n : i \in 0..n) /\ \A i \in 0..n : i = 0 \/ i \in 1..n
  OBVIOUS
<1> HIDE DEF F
<1>4. f = [i \in 0..n |-> F(i)] <=> f = [i \in 0..n |-> f[i]] /\ \A i \in 0..n : f[i] = F(i)
  OBVIOUS
<1> QED BY <1>1, <1>2, <1>3, <1>4

LEMMA GoesSome ==
  ASSUME NEW items
  PROVE  \A n \in Nat : \E f : Goes(f, items, n)
<1> DEFINE S == {n \in Nat : ~ \E f : Goes(f, items, n)}
<1>1. SUFFICES ASSUME S # {} PROVE FALSE
  OBVIOUS
<1>2. PICK h \in S : \A g \in S : h <= g
  BY <1>1, Least
<1>3. h \in Nat /\ ~ \E f : Goes(f, items, h)
  OBVIOUS
<1>4. CASE h = 0
  <2> DEFINE f == [i \in 0..0 |-> EmptyTable]
  <2>1. f[0] = EmptyTable /\ f = [i \in 0..0 |-> f[i]] /\ \A i \in 1..0 : FALSE
    OBVIOUS
  <2> HIDE DEF f
  <2>2. Goes(f, items, 0)
    BY <2>1, GoesSteps
  <2> QED BY <1>3, <1>4, <2>2
<1>5. CASE h # 0
  <2>1. h - 1 \in Nat /\ ~ (h <= h - 1)
    BY <1>3, <1>5
  <2>2. PICK f : Goes(f, items, h - 1)
    BY <1>2, <2>1
  <2>3. /\ f[0] = EmptyTable
        /\ \A i \in 1..(h - 1) : f[i] = AddItem(f[i - 1], items[i])
    BY <2>1, <2>2, GoesSteps
  <2> DEFINE g == [i \in 0..h |-> IF i = h THEN AddItem(f[h - 1], items[h]) ELSE f[i]]
  <2>4. \A i \in 0..(h - 1) : g[i] = f[i]
    BY <1>3, <2>1
  <2>5. g[h] = AddItem(f[h - 1], items[h]) /\ g = [i \in 0..h |-> g[i]]
    BY <1>3
  <2> HIDE DEF g
  <2>6. 0 \in 0..(h - 1) /\ h - 1 \in 0..(h - 1) /\ \A i \in 1..h : i = h \/ (i \in 1..(h - 1) /\ i \in 0..(h - 1) /\ i - 1 \in 0..(h - 1))
    BY <1>3, <2>1
  <2>7. ASSUME NEW i \in 1..h PROVE g[i] = AddItem(g[i - 1], items[i])
    BY <2>3, <2>4, <2>5, <2>6
  <2>8. Goes(g, items, h)
    <3>1. g[0] = EmptyTable
      BY <2>3, <2>4, <2>6
    <3>2. Goes(g, items, h) <=> /\ g = [i \in 0..h |-> g[i]] /\ g[0] = EmptyTable
                                /\ \A i \in 1..h : g[i] = AddItem(g[i - 1], items[i])
      BY ONLY <1>3, GoesSteps
    <3> QED BY ONLY <2>5, <2>7, <3>1, <3>2
  <2> QED BY <1>3, <2>8
<1> QED BY <1>4, <1>5

LEMMA GoesOne ==
  ASSUME NEW items, NEW more, NEW n \in Nat, NEW m \in Nat, n <= m,
         \A i \in 1..n : items[i] = more[i],
         NEW f, Goes(f, items, n), NEW g, Goes(g, more, m)
  PROVE  \A i \in 0..n : f[i] = g[i]
<1> DEFINE S == {i \in Nat : i <= n /\ f[i] # g[i]}
<1>1. SUFFICES ASSUME S # {} PROVE FALSE
  OBVIOUS
<1>2. PICK h \in S : \A i \in S : h <= i
  BY <1>1, Least
<1>3. h \in Nat /\ h <= n /\ f[h] # g[h]
  OBVIOUS
<1>4. f[0] = EmptyTable /\ g[0] = EmptyTable
  BY GoesSteps
<1>5. h # 0 /\ h \in 1..n /\ h \in 1..m /\ h - 1 \in Nat /\ h - 1 <= n /\ ~ (h <= h - 1)
  BY <1>3, <1>4
<1>6. f[h - 1] = g[h - 1]
  BY <1>2, <1>5
<1>7. f[h] = AddItem(f[h - 1], items[h]) /\ g[h] = AddItem(g[h - 1], more[h])
  BY <1>5, GoesSteps
<1> QED BY <1>3, <1>5, <1>6, <1>7

\* A load of one item more adds it to what the load of the others gives.
LEMMA LoadedMore ==
  ASSUME NEW T, NEW s \in Seq(T), NEW x \in T
  PROVE  TableOf(Append(s, x)) = AddItem(TableOf(s), x)
<1> DEFINE n == Len(s)
           a == Append(s, x)
           f == CHOOSE e : Goes(e, s, n)
           g == CHOOSE e : Goes(e, a, n + 1)
<1>1. n \in Nat /\ n + 1 \in Nat /\ Len(a) = n + 1 /\ a[n + 1] = x /\ \A i \in 1..n : s[i] = a[i]
  OBVIOUS
<1> HIDE DEF n, a
<1>2. (\E e : Goes(e, s, n)) /\ \E e : Goes(e, a, n + 1)
  BY <1>1, GoesSome
<1>3. Goes(f, s, n) /\ Goes(g, a, n + 1)
  BY <1>2
<1>4. TableOf(s) = f[n] /\ TableOf(a) = g[n + 1]
  BY <1>1, LoadedIs DEF n
<1> HIDE DEF f, g
<1>5. n <= n + 1 /\ n \in 0..n /\ n + 1 \in 1..(n + 1) /\ (n + 1) - 1 = n
  BY <1>1
<1>6. f[n] = g[n]
  BY <1>1, <1>3, <1>5, GoesOne
<1>7. g[n + 1] = AddItem(g[n], x)
  BY <1>1, <1>3, <1>5, GoesSteps
<1> QED BY <1>4, <1>6, <1>7 DEF a

LEMMA LoadedNone == TableOf(<<>>) = EmptyTable
<1>1. Len(<<>>) = 0 /\ 0 \in Nat
  OBVIOUS
<1>2. \E e : Goes(e, <<>>, 0)
  BY <1>1, GoesSome
<1> DEFINE f == CHOOSE e : Goes(e, <<>>, 0)
<1>3. Goes(f, <<>>, 0)
  BY <1>2
<1>4. TableOf(<<>>) = f[0]
  BY <1>1, LoadedIs
<1> HIDE DEF f
<1> QED BY <1>1, <1>3, <1>4, GoesSteps

-----------------------------------------------------------------------------
(* A table is a record of four fields; an addition appends to its items,   *)
(* whatever it does to the buckets.                                        *)
Shaped(t) == t = [items |-> t.items, buckets |-> t.buckets, mult |-> t.mult, ineff |-> t.ineff]
KeyItem   == [name : Name, value : Nat]

LEMMA EmptyIs == Shaped(EmptyTable) /\ EmptyTable.items = <<>>
BY DEF Shaped, EmptyTable

LEMMA AddItemIs ==
  ASSUME NEW t, Shaped(t), NEW item
  PROVE  Shaped(AddItem(t, item)) /\ AddItem(t, item).items = Append(t.items, item)
<1> DEFINE b == HashOf[item.name] % NumOf(t)
           more == [t EXCEPT !.items = Append(@, item)]
           heads == [t.buckets EXCEPT ![b] = <<item>> \o @]
           u == [more EXCEPT !.buckets = heads]
<1>0. Shaped(more) /\ more.items = Append(t.items, item)
  BY DEF Shaped
<1>1. Shaped(u) /\ u.items = Append(t.items, item)
  <2> HIDE DEF more, heads
  <2> QED BY <1>0 DEF Shaped
<1>2. Shaped(Expand(u)) /\ Expand(u).items = u.items
  <2> HIDE DEF u
  <2> DEFINE n == Len(u.items)
             ideal == (n + 2 * NumOf(u) - 1) \div (2 * NumOf(u))
             all == Doubled(u)
             over == {c \in DOMAIN all : Len(all[c]) > ideal}
             excess == MapThenSumSet(LAMBDA c : Len(all[c]) - ideal, over)
             mult == [c \in DOMAIN all |-> IF c \in over THEN Len(all[c]) \div ideal ELSE 0]
             ineff == IF excess > n \div 2 THEN u.ineff + 1 ELSE 0
  <2>1. Expand(u) = [u EXCEPT !.buckets = all, !.mult = mult, !.ineff = ineff]
    BY DEF Expand
  <2> HIDE DEF all, mult, ineff
  <2> QED BY <1>1, <2>1 DEF Shaped
<1>3. AddItem(t, item) = u \/ AddItem(t, item) = Expand(u)
  <2> DEFINE full == Len(u.buckets[b]) >= (u.mult[b] + 1) * BKT_CAPACITY /\ u.ineff <= 1
  <2>1. AddItem(t, item) = IF full THEN Expand(u) ELSE u
    BY Zenon DEF AddItem
  <2> HIDE DEF full, u
  <2> QED BY <2>1
<1> HIDE DEF u
<1> QED BY <1>1, <1>2, <1>3

\* What a load gives is a table of the items that were loaded.
LEMMA LoadedItems ==
  \A s \in Seq(KeyItem) : Shaped(TableOf(s)) /\ TableOf(s).items = s
<1> DEFINE OK(s) == Shaped(TableOf(s)) /\ TableOf(s).items = s
           S == {n \in Nat : \E s \in Seq(KeyItem) : Len(s) = n /\ ~OK(s)}
<1>1. SUFFICES ASSUME S # {} PROVE FALSE
  <2>1. \A s \in Seq(KeyItem) : Len(s) \in Nat
    OBVIOUS
  <2> HIDE DEF OK
  <2>2. ASSUME NEW s \in Seq(KeyItem) PROVE OK(s)
    <3>1. ~OK(s) => Len(s) \in S
      BY <2>1
    <3>2. S = {}
      BY <1>1
    <3> QED BY <3>1, <3>2
  <2> QED BY <2>2 DEF OK
<1>2. PICK h \in S : \A g \in S : h <= g
  BY <1>1, Least
<1>3. PICK s \in Seq(KeyItem) : Len(s) = h /\ ~OK(s)
  OBVIOUS
<1>4. CASE h = 0
  <2>1. s = <<>>
    BY <1>3, <1>4
  <2> QED BY <1>3, <2>1, LoadedNone, EmptyIs
<1>5. CASE h # 0
  <2>1. h \in Nat /\ h - 1 \in Nat /\ ~ (h <= h - 1)
    BY <1>5
  <2> DEFINE r == SubSeq(s, 1, h - 1)
  <2>2. r \in Seq(KeyItem) /\ Len(r) = h - 1 /\ s[h] \in KeyItem /\ s = Append(r, s[h])
    BY <1>3, <2>1
  <2> HIDE DEF r
  <2>3. OK(r)
    BY <1>2, <2>1, <2>2
  <2>4. TableOf(s) = AddItem(TableOf(r), s[h])
    BY <2>2, LoadedMore
  <2> QED BY <1>3, <2>2, <2>3, <2>4, AddItemIs
<1> QED BY <1>4, <1>5

-----------------------------------------------------------------------------
(* As long as nothing was deleted, the table is the one that a load of its *)
(* own items gives; so the file of a table answers like it.                *)
TableTypes ==
    /\ value \in Nat /\ deleted \in BOOLEAN
    /\ table.items \in Seq(KeyItem)
    /\ stored.items \in Seq(KeyItem)
LoadInv ==
    /\ ~deleted => table = TableOf(table.items)
    /\ stored # NoFile /\ ~stored.deleted => stored.answers = [n \in Name |-> Find(TableOf(stored.items), n)]
TableInv == TableTypes /\ Shaped(table) /\ LoadInv

LEMMA TableInitInv == TableInit => TableInv
<1> SUFFICES ASSUME TableInit PROVE TableInv
  OBVIOUS
<1>1. table = EmptyTable /\ value = 0 /\ deleted = FALSE /\ stored = NoFile
  BY DEF TableInit
<1>2. table.items = <<>> /\ Shaped(table)
  BY <1>1, EmptyIs
<1>3. stored.items = <<>>
  BY <1>1 DEF NoFile
<1>4. TableTypes
  <2>1. <<>> \in Seq(KeyItem)
    OBVIOUS
  <2> QED BY <1>1, <1>2, <1>3, <2>1 DEF TableTypes
<1>5. LoadInv
  BY <1>1, <1>2, LoadedNone DEF LoadInv
<1> QED BY <1>2, <1>4, <1>5 DEF TableInv

LEMMA TableAddInv ==
  ASSUME TableInv, NEW name \in Name, TableAdd(name)
  PROVE  TableInv'
<1> DEFINE item == [name |-> name, value |-> value']
<1>1. value' = value + 1 /\ table' = AddItem(table, item) /\ deleted' = deleted /\ stored' = stored
  BY DEF TableAdd
<1>2. value \in Nat /\ table.items \in Seq(KeyItem) /\ Shaped(table) /\ TableTypes
  BY DEF TableInv, TableTypes
<1>3. item \in KeyItem /\ value' \in Nat
  BY <1>1, <1>2 DEF KeyItem
<1> HIDE DEF item
<1>4. Shaped(table') /\ table'.items = Append(table.items, item)
  BY <1>1, <1>2, AddItemIs
<1>5. TableTypes'
  BY <1>1, <1>2, <1>3, <1>4 DEF TableTypes
<1>6. ~deleted => table' = TableOf(table'.items)
  <2>1. ~deleted => table = TableOf(table.items)
    BY DEF TableInv, LoadInv
  <2>2. TableOf(Append(table.items, item)) = AddItem(TableOf(table.items), item)
    BY <1>2, <1>3, LoadedMore
  <2> QED BY <1>1, <1>4, <2>1, <2>2
<1>7. LoadInv'
  BY <1>1, <1>6 DEF TableInv, LoadInv
<1>8. Shaped(table)'
  BY <1>4 DEF Shaped
<1> QED BY <1>5, <1>7, <1>8 DEF TableInv

LEMMA EmptyKept ==
  ASSUME TableInv, table' = EmptyTable, deleted' = FALSE, UNCHANGED <<value, stored>>
  PROVE  TableInv'
<1>1. Shaped(table') /\ table'.items = <<>>
  BY EmptyIs
<1>2. TableTypes'
  <2>1. <<>> \in Seq(KeyItem)
    OBVIOUS
  <2> QED BY <1>1, <2>1 DEF TableInv, TableTypes
<1>3. LoadInv'
  BY <1>1, LoadedNone DEF TableInv, LoadInv
<1>4. Shaped(table)'
  BY <1>1 DEF Shaped
<1> QED BY <1>2, <1>3, <1>4 DEF TableInv

LEMMA WithoutIs ==
  ASSUME NEW t, Shaped(t), t.items \in Seq(KeyItem), NEW v
  PROVE  Without(t, v) = EmptyTable \/ (Shaped(Without(t, v)) /\ Without(t, v).items \in Seq(KeyItem))
<1> DEFINE at(s) == {i \in DOMAIN s : s[i].value = v}
           left(s) == IF at(s) = {} THEN s ELSE RemoveAt(s, Min(at(s)))
           chains == [b \in DOMAIN t.buckets |-> left(t.buckets[b])]
           w == [items |-> left(t.items), buckets |-> chains, mult |-> t.mult, ineff |-> t.ineff]
<1>1. Without(t, v) = IF Len(t.items) = 1 THEN EmptyTable ELSE w
  BY Zenon DEF Without
<1>2. left(t.items) \in Seq(KeyItem)
  <2> DEFINE s == t.items
  <2>1. CASE at(s) = {}
    BY <2>1
  <2>2. CASE at(s) # {}
    <3>1. Min(at(s)) \in at(s)
      <4>1. at(s) \in SUBSET Nat
        OBVIOUS
      <4> HIDE DEF at
      <4> QED BY <2>2, <4>1, Least DEF Min
    <3>2. \A i \in DOMAIN s : RemoveAt(s, i) \in Seq(KeyItem)
      <4> SUFFICES ASSUME NEW i \in DOMAIN s PROVE RemoveAt(s, i) \in Seq(KeyItem)
        OBVIOUS
      <4>1. i \in Nat /\ 1 <= i /\ i <= Len(s) /\ Len(s) \in Nat /\ s \in Seq(KeyItem)
        OBVIOUS
      <4> HIDE DEF s
      <4>2. SubSeq(s, 1, i - 1) \in Seq(KeyItem) /\ SubSeq(s, i + 1, Len(s)) \in Seq(KeyItem)
        BY <4>1
      <4> QED BY <4>2 DEF RemoveAt
    <3>3. Min(at(s)) \in DOMAIN s
      BY <3>1
    <3> QED BY <2>2, <3>2, <3>3
  <2> QED BY <2>1, <2>2
<1> HIDE DEF left, chains
<1>3. Shaped(w) /\ w.items = left(t.items)
  BY DEF Shaped
<1> HIDE DEF w
<1> QED BY <1>1, <1>2, <1>3

LEMMA TableDelInv ==
  ASSUME TableInv, NEW name \in Name, TableDel(name)
  PROVE  TableInv'
<1> DEFINE v == Find(table, name)
<1>1. table' = Without(table, v) /\ deleted' = (table' # EmptyTable) /\ UNCHANGED <<value, stored>>
  BY DEF TableDel
<1> HIDE DEF v
<1>2. table' = EmptyTable \/ (Shaped(table') /\ table'.items \in Seq(KeyItem))
  BY <1>1, WithoutIs DEF TableInv, TableTypes
<1>3. CASE table' = EmptyTable
  BY <1>1, <1>3, EmptyKept
<1>4. CASE table' # EmptyTable
  <2>1. TableTypes'
    BY <1>1, <1>2, <1>4 DEF TableInv, TableTypes
  <2>2. LoadInv'
    BY <1>1, <1>4 DEF TableInv, LoadInv
  <2>3. Shaped(table)'
    BY <1>2, <1>4 DEF Shaped
  <2> QED BY <2>1, <2>2, <2>3 DEF TableInv
<1> QED BY <1>3, <1>4

LEMMA TableDumpInv == TableInv /\ TableDump => TableInv'
<1> SUFFICES ASSUME TableInv, TableDump PROVE TableInv'
  OBVIOUS
<1>1. /\ stored' = [items |-> table.items, deleted |-> deleted, answers |-> [n \in Name |-> Find(table, n)]]
      /\ table' = table /\ value' = value /\ deleted' = deleted
  BY DEF TableDump, InOrderOf
<1>2. stored'.items = table.items /\ stored'.deleted = deleted /\ stored'.answers = [n \in Name |-> Find(table, n)]
  BY <1>1
<1>3. TableTypes'
  BY <1>1, <1>2 DEF TableInv, TableTypes
<1>4. ~deleted => table = TableOf(table.items)
  BY DEF TableInv, LoadInv
<1>5. ~stored'.deleted => stored'.answers = [n \in Name |-> Find(TableOf(stored'.items), n)]
  BY <1>2, <1>4
<1>6. LoadInv'
  BY <1>1, <1>4, <1>5 DEF LoadInv
<1>7. Shaped(table)'
  BY <1>1 DEF TableInv, Shaped
<1> QED BY <1>3, <1>6, <1>7 DEF TableInv

LEMMA TableLoadInv == TableInv /\ TableLoad => TableInv'
<1> SUFFICES ASSUME TableInv, TableLoad PROVE TableInv'
  OBVIOUS
<1>1. table' = TableOf(stored.items) /\ deleted' = FALSE /\ value' = value /\ stored' = stored
  BY DEF TableLoad
<1>2. stored.items \in Seq(KeyItem)
  BY DEF TableInv, TableTypes
<1>3. Shaped(table') /\ table'.items = stored.items
  BY <1>1, <1>2, LoadedItems
<1>4. TableTypes'
  BY <1>1, <1>2, <1>3 DEF TableInv, TableTypes
<1>5. LoadInv'
  BY <1>1, <1>3 DEF TableInv, LoadInv
<1>6. Shaped(table)'
  BY <1>3 DEF Shaped
<1> QED BY <1>4, <1>5, <1>6 DEF TableInv

LEMMA TableStepInv == TableInv /\ [TableNext]_tableVars => TableInv'
<1> SUFFICES ASSUME TableInv, [TableNext]_tableVars PROVE TableInv'
  OBVIOUS
<1>1. ASSUME NEW n \in Name, TableAdd(n) PROVE TableInv'
  BY <1>1, TableAddInv
<1>2. ASSUME NEW n \in Name, TableDel(n) PROVE TableInv'
  BY <1>2, TableDelInv
<1>3. CASE TableDestroy
  <2>1. table' = EmptyTable /\ deleted' = FALSE /\ UNCHANGED <<value, stored>>
    BY <1>3 DEF TableDestroy
  <2> QED BY <2>1, EmptyKept
<1>4. CASE TableDump
  BY <1>4, TableDumpInv
<1>5. CASE TableLoad
  BY <1>5, TableLoadInv
<1>6. CASE UNCHANGED tableVars
  <2>1. table' = table /\ value' = value /\ deleted' = deleted /\ stored' = stored
    BY <1>6 DEF tableVars
  <2>2. TableTypes'
    BY <2>1 DEF TableInv, TableTypes
  <2>3. LoadInv'
    BY <2>1 DEF TableInv, LoadInv
  <2>4. Shaped(table)'
    BY <2>1 DEF TableInv, Shaped
  <2> QED BY <2>2, <2>3, <2>4 DEF TableInv
<1> QED BY <1>1, <1>2, <1>3, <1>4, <1>5, <1>6 DEF TableNext

(* HashTable::Load gives every key the value it had when the file of Dump  *)
(* was written, if nothing was deleted before: uthash's buckets depend on  *)
(* the additions alone, and these are the file's lines in their order.     *)
THEOREM LoadedAnswersAlike == TableSpec => LoadAnswersAlike
<1> DEFINE A == TableLoad /\ ~stored.deleted => \A n \in Name : Find(table', n) = stored.answers[n]
<1>1. TableInv /\ [TableNext]_tableVars => [A]_tableVars
  <2> SUFFICES ASSUME TableInv, TableLoad, ~stored.deleted, NEW n \in Name
               PROVE  Find(table', n) = stored.answers[n]
    OBVIOUS
  <2>1. table' = TableOf(stored.items) /\ stored # NoFile
    BY DEF TableLoad
  <2>2. stored.answers = [m \in Name |-> Find(TableOf(stored.items), m)]
    BY <2>1 DEF TableInv, LoadInv
  <2> QED BY <2>1, <2>2
<1> HIDE DEF A
<1>2. TableSpec => []TableInv
  BY TableInitInv, TableStepInv, PTL DEF TableSpec
<1>3. TableSpec => [][A]_tableVars
  BY <1>1, <1>2, PTL DEF TableSpec
<1> QED BY <1>3 DEF LoadAnswersAlike, A

-----------------------------------------------------------------------------
(***************************************************************************)
(* load_file: the text before the place looked at is in a line that was    *)
(* given, and that place is behind the end of a line, or the first.        *)
(***************************************************************************)
InLine(k) == \E i \in DOMAIN lines : lines[i][1] <= k /\ k <= lines[i][2]
WholeLine(a, b, c) ==
    /\ a \in Nat /\ b \in Nat /\ 1 <= a /\ a <= b /\ b < LineBuf + a - 1 /\ b < c
    /\ \A k \in a..b : bytes[k] = "text"
    /\ a = 1 \/ bytes[a - 1] = "end"
    /\ bytes[b + 1] = "end"

Byte == {"text", "end", "nul"}

LineTypes ==
    /\ bytes \in Seq(Byte) /\ consumed \in Nat /\ consumed <= Len(bytes)
    /\ pbegin \in Nat \ {0} /\ pbegin <= consumed + 1 /\ consumed + 1 <= pbegin + LineBuf
    /\ lines \in Seq(Nat \X Nat)
    /\ reading \in {"read", "lines", "eof", "failed"}

\* the ends there are stand behind a NUL
NoEnd(a, b) == \A k \in a..b : bytes[k] = "end" => \E j \in a..k : bytes[j] = "nul"

PlaceIs ==
    /\ pbegin = 1 \/ bytes[pbegin - 1] = "end"
    /\ pbegin <= consumed => bytes[pbegin] # "end"
    /\ reading # "lines" => NoEnd(pbegin, consumed)

GivenAre ==
    /\ \A i \in DOMAIN lines : WholeLine(lines[i][1], lines[i][2], consumed) /\ lines[i][2] < pbegin
    /\ \A i, j \in DOMAIN lines : i < j => lines[i][2] < lines[j][1]
    /\ \A k \in 1..(pbegin - 1) : bytes[k] # "end" => InLine(k)

LineInv == LineTypes /\ (reading # "eof" => PlaceIs /\ GivenAre) /\ (reading = "eof" => LinesWhole)

IsPast(b, c, q) ==
    /\ q \in Nat \ {0} /\ b <= q /\ q <= c + 1
    /\ \A i \in b..(q - 1) : bytes[i] = "end"
    /\ q <= c => bytes[q] # "end"
    /\ q > b => bytes[q - 1] = "end"

\* strspn finds the next text, or the end of what there is.
LEMMA PastEndsIs ==
  ASSUME LineTypes, NEW b \in Nat \ {0}, NEW c \in Nat, b <= c + 1, c <= Len(bytes), NEW r, r = PastEnds(b, c)
  PROVE  IsPast(b, c, r)
<1> DEFINE S == {q \in b..(c + 1) : q = c + 1 \/ bytes[q] # "end"}
<1>1. c + 1 \in S /\ S \subseteq Nat
  OBVIOUS
<1>2. PICK q \in S : \A g \in S : q <= g
  <2> HIDE DEF S
  <2> QED BY <1>1, Least
<1>3. bytes \in Seq(Byte) /\ Len(bytes) \in Nat
  BY DEF LineTypes
<1>4. \A i \in b..(q - 1) : bytes[i] = "end"
  <2>1. ASSUME NEW i \in b..(q - 1), bytes[i] # "end" PROVE FALSE
    <3>1. i \in 1..Len(bytes) /\ i < q /\ i \in b..(c + 1)
      BY <1>2
    <3>2. i \in S
      BY <2>1, <3>1
    <3> QED BY <1>1, <1>2, <3>1, <3>2
  <2> QED BY <2>1
<1>5. q \in b..(c + 1) /\ (q = c + 1 \/ bytes[q] # "end")
  BY <1>2
<1>6. \E x \in b..(c + 1) : (\A i \in b..(x - 1) : bytes[i] = "end") /\ (x = c + 1 \/ bytes[x] # "end")
  BY <1>4, <1>5
<1>8. r \in b..(c + 1) /\ (\A i \in b..(r - 1) : bytes[i] = "end") /\ (r = c + 1 \/ bytes[r] # "end")
  <2>1. r = CHOOSE x \in b..(c + 1) : (\A i \in b..(x - 1) : bytes[i] = "end") /\ (x = c + 1 \/ bytes[x] # "end")
    BY DEF PastEnds
  <2> QED BY <1>6, <2>1, Zenon
<1>9. r \in Nat \ {0} /\ (r <= c => r # c + 1) /\ (r > b => r - 1 \in b..(r - 1))
  BY <1>8
<1> QED BY <1>8, <1>9 DEF IsPast

LEMMA LineInitInv == LineInit => LineInv
<1> SUFFICES ASSUME LineInit PROVE LineInv
  OBVIOUS
<1>1. PICK n \in 0..MaxFile : bytes \in [1..n -> Byte]
  BY DEF LineInit, Byte
<1>2. n \in Nat
  BY LineAssumption
<1>3. bytes \in Seq(Byte) /\ Len(bytes) \in Nat
  BY <1>1, <1>2
<1>4. consumed = 0 /\ pbegin = 1 /\ lines = <<>> /\ reading = "read"
  BY DEF LineInit
<1>5. <<>> \in Seq(Nat \X Nat)
  OBVIOUS
<1>6. PlaceIs /\ GivenAre
  BY <1>3, <1>4 DEF PlaceIs, NoEnd, GivenAre
<1> QED BY <1>3, <1>4, <1>5, <1>6, LineAssumption DEF LineInv, LineTypes

LEMMA ReadPieceInv == ASSUME LineInv, ReadPiece PROVE LineInv'
<1>1. LineTypes /\ PlaceIs /\ GivenAre /\ reading = "read" /\ reading' = "lines" /\ bytes' = bytes /\ lines' = lines
  BY DEF LineInv, ReadPiece
<1>2. PICK n \in 1..(LineBuf - offset) : consumed + n <= Len(bytes) /\ consumed' = consumed + n
                                         /\ pbegin' = PastEnds(pbegin, consumed + n)
  BY DEF ReadPiece
<1>3. /\ consumed \in Nat /\ pbegin \in Nat \ {0} /\ pbegin <= consumed + 1 /\ Len(bytes) \in Nat /\ LineBuf \in Nat
      /\ bytes \in Seq(Byte) /\ lines \in Seq(Nat \X Nat)
  BY <1>1, LineAssumption DEF LineTypes
<1>4. n \in Nat /\ n >= 1 /\ n <= LineBuf - (consumed + 1 - pbegin)
  BY <1>2, <1>3 DEF offset
<1>5. consumed' \in Nat /\ consumed' <= Len(bytes) /\ consumed < consumed' /\ consumed' + 1 <= pbegin + LineBuf
  BY <1>2, <1>3, <1>4
<1>6. PICK q, c : q = pbegin' /\ c = consumed'
  OBVIOUS
<1>7. c \in Nat /\ c <= Len(bytes) /\ consumed < c /\ pbegin <= c + 1 /\ q = PastEnds(pbegin, c)
  BY <1>2, <1>3, <1>5, <1>6
<1>8. /\ q \in Nat \ {0} /\ pbegin <= q /\ q <= c + 1
      /\ \A i \in pbegin..(q - 1) : bytes[i] = "end"
      /\ q <= c => bytes[q] # "end"
      /\ q > pbegin => bytes[q - 1] = "end"
  <2>1. IsPast(pbegin, c, q)
    BY <1>1, <1>3, <1>7, PastEndsIs, Zenon
  <2> QED BY <2>1 DEF IsPast
<1>9. LineTypes'
  <2>1. c + 1 <= pbegin + LineBuf
    BY <1>5, <1>6
  <2>2. c + 1 <= q + LineBuf
    BY ONLY <1>3, <1>7, <1>8, <2>1
  <2> QED BY <1>1, <1>3, <1>6, <1>7, <1>8, <2>2 DEF LineTypes
<1>10. PlaceIs'
  <2>1. q = pbegin \/ bytes[q - 1] = "end"
    BY ONLY <1>3, <1>8
  <2> QED BY <1>1, <1>6, <1>8, <2>1 DEF PlaceIs
<1>11. GivenAre'
  <2>1. ASSUME NEW i \in DOMAIN lines
        PROVE  WholeLine(lines[i][1], lines[i][2], c) /\ lines[i][2] < q
    <3>1. WholeLine(lines[i][1], lines[i][2], consumed) /\ lines[i][2] < pbegin
      BY <1>1 DEF GivenAre
    <3>2. lines[i][2] \in Nat
      BY <3>1 DEF WholeLine
    <3>3. lines[i][2] < consumed
      BY <3>1 DEF WholeLine
    <3>4. lines[i][2] < c /\ lines[i][2] < q
      BY ONLY <1>3, <1>7, <1>8, <3>1, <3>2, <3>3, SMTT(20)
    <3> QED BY <3>1, <3>4 DEF WholeLine
  <2>2. ASSUME NEW k \in 1..(q - 1), bytes[k] # "end" PROVE InLine(k)
    <3>1. k \in 1..(pbegin - 1)
      <4>1. bytes[k] # "end"
        BY <2>2
      <4> QED BY <1>3, <1>8, <4>1
    <3> QED BY <1>1, <2>2, <3>1 DEF GivenAre
  <2>3. \A k : InLine(k)' <=> InLine(k)
    BY <1>1 DEF InLine
  <2>4. \A i \in DOMAIN lines' : WholeLine(lines[i][1], lines[i][2], consumed)' /\ lines'[i][2] < pbegin'
    BY <1>1, <1>6, <2>1 DEF WholeLine
  <2>5. \A i, j \in DOMAIN lines : i < j => lines[i][2] < lines[j][1]
    BY <1>1 DEF GivenAre
  <2>6. \A k \in 1..(pbegin' - 1) : bytes'[k] # "end" => InLine(k)'
    BY <1>1, <1>6, <2>2, <2>3
  <2> QED BY <1>1, <2>4, <2>5, <2>6 DEF GivenAre
<1> QED BY <1>1, <1>9, <1>10, <1>11 DEF LineInv

\* A line given makes one more of those that were given, behind them.
LEMMA GiveLineInv == ASSUME LineInv, GiveLine PROVE LineInv'
<1>1. /\ LineTypes /\ PlaceIs /\ GivenAre /\ reading = "lines"
      /\ reading' = reading /\ bytes' = bytes /\ consumed' = consumed
  BY DEF LineInv, GiveLine
<1>2. PICK e \in pbegin..consumed : LineEnd(e) /\ lines' = Append(lines, <<pbegin, e - 1>>) /\ pbegin' = PastEnds(e + 1, consumed)
  BY DEF GiveLine
<1>3. /\ consumed \in Nat /\ pbegin \in Nat \ {0} /\ Len(bytes) \in Nat /\ LineBuf \in Nat /\ consumed <= Len(bytes)
      /\ consumed + 1 <= pbegin + LineBuf
      /\ bytes \in Seq(Byte) /\ lines \in Seq(Nat \X Nat)
  BY <1>1, LineAssumption DEF LineTypes
<1>4. e \in Nat /\ pbegin <= e /\ e <= consumed /\ bytes[e] = "end" /\ \A i \in pbegin..(e - 1) : bytes[i] = "text"
  BY <1>2, <1>3 DEF LineEnd
<1>5. pbegin < e
  BY <1>1, <1>3, <1>4 DEF PlaceIs
<1>6. PICK q : q = pbegin'
  OBVIOUS
<1>6a. /\ q \in Nat \ {0} /\ e < q /\ q <= consumed + 1
       /\ \A i \in (e + 1)..(q - 1) : bytes[i] = "end"
       /\ q <= consumed => bytes[q] # "end"
       /\ bytes[q - 1] = "end"
  <2>1. e + 1 \in Nat \ {0} /\ e + 1 <= consumed + 1 /\ q = PastEnds(e + 1, consumed)
    BY <1>2, <1>3, <1>4, <1>6
  <2>2. /\ q \in Nat \ {0} /\ e + 1 <= q /\ q <= consumed + 1
        /\ \A i \in (e + 1)..(q - 1) : bytes[i] = "end"
        /\ q <= consumed => bytes[q] # "end"
        /\ q > e + 1 => bytes[q - 1] = "end"
    <3>1. IsPast(e + 1, consumed, q)
      BY <1>1, <1>3, <2>1, PastEndsIs, Zenon
    <3> QED BY <3>1 DEF IsPast
  <2>3. q = e + 1 => q - 1 = e
    BY <1>4
  <2> QED BY ONLY <1>3, <1>4, <2>2, <2>3
<1> DEFINE l == <<pbegin, e - 1>>
<1>7. WholeLine(pbegin, e - 1, consumed) /\ e - 1 \in Nat
  BY <1>1, <1>3, <1>4, <1>5 DEF WholeLine, PlaceIs
<1>8. l \in Nat \X Nat /\ l[1] = pbegin /\ l[2] = e - 1
  BY <1>3, <1>7
<1>9. lines' = Append(lines, l)
  BY <1>2
<1> HIDE DEF l
<1>10. /\ lines' \in Seq(Nat \X Nat) /\ Len(lines) \in Nat
       /\ DOMAIN lines = 1..Len(lines) /\ DOMAIN lines' = 1..(Len(lines) + 1)
       /\ \A i \in DOMAIN lines : lines'[i] = lines[i]
       /\ lines'[Len(lines) + 1] = l
  <2>1. lines \in Seq(Nat \X Nat)
    BY <1>3
  <2> QED BY ONLY <1>8, <1>9, <2>1, SMTT(20)
<1>11. \A i \in DOMAIN lines' : i \in DOMAIN lines \/ i = Len(lines) + 1
  BY <1>10
<1>12. LineTypes'
  <2>1. consumed + 1 <= q + LineBuf
    BY ONLY <1>3, <1>4, <1>6a
  <2> QED BY <1>1, <1>3, <1>6, <1>6a, <1>10, <2>1 DEF LineTypes
<1>13. PlaceIs'
  BY <1>1, <1>6, <1>6a DEF PlaceIs
<1>14. ASSUME NEW i \in DOMAIN lines'
       PROVE  WholeLine(lines'[i][1], lines'[i][2], consumed) /\ lines'[i][2] < q
  <2>1. ASSUME i \in DOMAIN lines
        PROVE  WholeLine(lines[i][1], lines[i][2], consumed) /\ lines[i][2] < q
    <3>1. WholeLine(lines[i][1], lines[i][2], consumed) /\ lines[i][2] < pbegin
      BY <1>1, <2>1 DEF GivenAre
    <3>2. lines[i][2] \in Nat
      BY <3>1 DEF WholeLine
    <3>3. pbegin <= e /\ e < q /\ q \in Nat /\ e \in Nat /\ pbegin \in Nat
      BY <1>3, <1>4, <1>6a
    <3>4. lines[i][2] < q
      BY ONLY <3>1, <3>2, <3>3
    <3> QED BY <3>1, <3>4
  <2>2. e - 1 < q
    BY <1>4, <1>6a
  <2> QED BY <1>7, <1>8, <1>10, <1>11, <2>1, <2>2
<1>15. ASSUME NEW i \in DOMAIN lines', NEW j \in DOMAIN lines', i < j
       PROVE  lines'[i][2] < lines'[j][1]
  <2>1. CASE j \in DOMAIN lines
    <3>1. i \in DOMAIN lines
      BY <1>10, <1>15, <2>1
    <3> QED BY <1>1, <1>10, <1>15, <2>1, <3>1 DEF GivenAre
  <2>2. CASE j = Len(lines) + 1
    <3>1. i \in DOMAIN lines
      BY <1>10, <1>15, <2>2
    <3> QED BY <1>1, <1>8, <1>10, <2>2, <3>1 DEF GivenAre
  <2> QED BY <1>11, <2>1, <2>2
<1>16. ASSUME NEW k \in 1..(q - 1), bytes[k] # "end"
       PROVE  \E i \in DOMAIN lines' : lines'[i][1] <= k /\ k <= lines'[i][2]
  <2>1. CASE k < pbegin
    <3>1. InLine(k)
      BY <1>1, <1>3, <1>16, <2>1 DEF GivenAre
    <3>2. PICK i \in DOMAIN lines : lines[i][1] <= k /\ k <= lines[i][2]
      BY <3>1 DEF InLine
    <3>3. i \in DOMAIN lines' /\ lines'[i] = lines[i]
      BY <1>10
    <3> QED BY <3>2, <3>3
  <2>2. CASE k >= pbegin
    <3>1. k < e
      <4>1. bytes[k] # "end"
        BY <1>16
      <4>2. k # e /\ k \notin (e + 1)..(q - 1)
        BY <1>4, <1>6a, <4>1
      <4>3. k \in Nat /\ k < q
        BY <1>6a
      <4> QED BY ONLY <1>4, <1>6a, <4>2, <4>3
    <3>2. Len(lines) + 1 \in DOMAIN lines'
      BY <1>10
    <3>3. k <= e - 1
      BY <1>4, <3>1
    <3>4. lines'[Len(lines) + 1][1] = pbegin /\ lines'[Len(lines) + 1][2] = e - 1
      BY <1>8, <1>10
    <3> QED BY <2>2, <3>2, <3>3, <3>4
  <2> QED BY <1>3, <2>1, <2>2
<1>17. GivenAre'
  <2>1. \A i \in DOMAIN lines' : WholeLine(lines[i][1], lines[i][2], consumed)' /\ lines'[i][2] < pbegin'
    BY <1>1, <1>6, <1>14 DEF WholeLine
  <2>2. \A k \in 1..(pbegin' - 1) : bytes'[k] # "end" => InLine(k)'
    BY <1>1, <1>6, <1>16 DEF InLine
  <2> QED BY <1>15, <2>1, <2>2 DEF GivenAre
<1> QED BY <1>1, <1>12, <1>13, <1>17 DEF LineInv

LEMMA KeepRestInv == ASSUME LineInv, KeepRest PROVE LineInv'
<1>1. /\ LineTypes /\ PlaceIs /\ GivenAre /\ reading = "lines" /\ reading' = "read"
      /\ bytes' = bytes /\ consumed' = consumed /\ pbegin' = pbegin /\ lines' = lines
      /\ \A e \in pbegin..consumed : ~LineEnd(e)
  BY DEF LineInv, KeepRest
<1>2. /\ consumed \in Nat /\ pbegin \in Nat \ {0} /\ Len(bytes) \in Nat /\ consumed <= Len(bytes)
      /\ bytes \in Seq(Byte)
  BY <1>1 DEF LineTypes
<1>3. NoEnd(pbegin, consumed)
  <2> SUFFICES ASSUME NEW k \in pbegin..consumed, bytes[k] = "end", \A j \in pbegin..k : bytes[j] # "nul"
               PROVE  FALSE
    BY DEF NoEnd
  <2> DEFINE S == {e \in pbegin..k : bytes[e] = "end"}
  <2>0. k \in S /\ k \in Nat /\ k <= consumed
    BY <1>2
  <2>1. ASSUME S # {} PROVE FALSE
    <3>1. S \subseteq Nat
      BY <1>2
    <3>2. PICK e \in S : \A g \in S : e <= g
      <4> HIDE DEF S
      <4> QED BY <2>1, <3>1, Least
    <3>3. e \in pbegin..k /\ e \in pbegin..consumed /\ bytes[e] = "end"
      <4>1. e \in pbegin..k /\ bytes[e] = "end"
        BY <3>2
      <4> QED BY <1>2, <2>0, <4>1
    <3>4. ASSUME NEW i \in pbegin..(e - 1) PROVE bytes[i] = "text"
      <4>1. i \in pbegin..k /\ ~(e <= i) /\ i \in 1..Len(bytes)
        BY <1>2, <2>0, <3>3
      <4>2. bytes[i] \in Byte /\ bytes[i] # "end" /\ bytes[i] # "nul"
        BY <1>2, <3>2, <4>1
      <4> QED BY <4>2 DEF Byte
    <3> QED BY <1>1, <3>3, <3>4 DEF LineEnd
  <2> QED BY <2>0, <2>1
<1>4. LineTypes'
  BY <1>1 DEF LineTypes
<1>5. PlaceIs'
  BY <1>1, <1>3 DEF PlaceIs, NoEnd
<1>6. GivenAre'
  BY <1>1 DEF GivenAre, WholeLine, InLine
<1> QED BY <1>1, <1>4, <1>5, <1>6 DEF LineInv

\* The end of the file, or a line that fills the buffer.
LEMMA ReadNothingInv == ASSUME LineInv, ReadNothing PROVE LineInv'
<1>1. /\ LineTypes /\ PlaceIs /\ GivenAre /\ reading = "read" /\ reading' = "eof"
      /\ bytes' = bytes /\ consumed' = consumed /\ pbegin' = pbegin
      /\ lines' = IF offset = 0 THEN lines ELSE Append(lines, <<pbegin, consumed>>)
      /\ consumed = Len(bytes) \/ offset = LineBuf
  BY DEF LineInv, ReadNothing
<1>2. /\ consumed \in Nat /\ pbegin \in Nat \ {0} /\ Len(bytes) \in Nat /\ LineBuf \in Nat /\ LineBuf > 0
      /\ consumed <= Len(bytes) /\ pbegin <= consumed + 1 /\ consumed + 1 <= pbegin + LineBuf
      /\ bytes \in Seq(Byte) /\ lines \in Seq(Nat \X Nat) /\ DOMAIN bytes = 1..Len(bytes)
  BY <1>1, LineAssumption DEF LineTypes
<1>3. /\ \A i \in DOMAIN lines : WholeLine(lines[i][1], lines[i][2], consumed) /\ lines[i][2] < pbegin
      /\ \A i, j \in DOMAIN lines : i < j => lines[i][2] < lines[j][1]
      /\ \A k \in 1..(pbegin - 1) : bytes[k] # "end" => InLine(k)
  BY <1>1 DEF GivenAre
<1> DEFINE Good(i) == /\ 1 <= lines'[i][1] /\ lines'[i][1] <= lines'[i][2] /\ lines'[i][2] <= Len(bytes)
                      /\ \A k \in lines'[i][1]..lines'[i][2] :
                            /\ bytes[k] = "nul" => AtTheEnd(i)'
                            /\ bytes[k] = "end" => \E j \in lines'[i][1]..k : bytes[j] = "nul"
                      /\ lines'[i][1] = 1 \/ bytes[lines'[i][1] - 1] = "end"
                      /\ lines'[i][2] = Len(bytes) \/ bytes[lines'[i][2] + 1] = "end" \/ Filled(i)'
                      /\ Filled(i)' \/ lines'[i][2] - lines'[i][1] + 1 < LineBuf
<1>4. ASSUME NEW i \in DOMAIN lines, lines'[i] = lines[i] PROVE Good(i)
  <2>1. WholeLine(lines[i][1], lines[i][2], consumed)
    BY <1>3
  <2> QED BY <1>2, <1>4, <2>1, SMTT(20) DEF WholeLine
<1>5. CASE offset = 0
  <2>1. pbegin = consumed + 1 /\ consumed = Len(bytes) /\ lines' = lines
    <3>1. consumed = Len(bytes)
      <4>1. offset # LineBuf
        BY <1>2, <1>5
      <4> QED BY <1>1, <4>1
    <3>1a. lines' = lines
      BY <1>1, <1>5
    <3>2. pbegin = consumed + 1
      BY <1>2, <1>5 DEF offset
    <3> QED BY <3>1, <3>1a, <3>2
  <2>2. \A i \in DOMAIN lines' : Good(i)
    BY <1>4, <2>1
  <2>3. \A i, j \in DOMAIN lines' : i < j => lines'[i][2] < lines'[j][1]
    BY <1>3, <2>1
  <2>4. \A k \in DOMAIN bytes : bytes[k] # "end" => \E i \in DOMAIN lines' : lines'[i][1] <= k /\ k <= lines'[i][2]
    BY <1>2, <1>3, <2>1 DEF InLine
  <2>5. LinesWhole'
    BY <1>1, <2>2, <2>3, <2>4 DEF LinesWhole
  <2>6. LineTypes'
    BY <1>1, <2>1 DEF LineTypes
  <2> QED BY <1>1, <2>5, <2>6 DEF LineInv
<1>6. CASE offset # 0
  <2> DEFINE l == <<pbegin, consumed>>
  <2>0. PICK m \in Nat : m = Len(lines) + 1
    BY <1>2
  <2>1. pbegin <= consumed
    BY <1>2, <1>6 DEF offset
  <2>2. l \in Nat \X Nat /\ l[1] = pbegin /\ l[2] = consumed
    BY <1>2
  <2>3. lines' = Append(lines, l)
    BY <1>1, <1>6
  <2> HIDE DEF l
  <2>4. /\ lines' \in Seq(Nat \X Nat) /\ Len(lines) \in Nat /\ Len(lines') = m
        /\ DOMAIN lines = 1..Len(lines) /\ DOMAIN lines' = 1..m
        /\ \A i \in DOMAIN lines : lines'[i] = lines[i]
        /\ lines'[m] = l
    BY <1>2, <2>0, <2>2, <2>3
  <2>5. \A i \in DOMAIN lines' : i \in DOMAIN lines \/ i = m
    BY <2>0, <2>4
  <2>6. offset = LineBuf <=> consumed - pbegin + 1 = LineBuf
    BY <1>2 DEF offset
  <2>7. Filled(m)' <=> offset = LineBuf
    BY <1>1, <2>2, <2>4, <2>6 DEF Filled, AtTheEnd
  <2>7a. AtTheEnd(m)'
    BY <1>1, <2>4 DEF AtTheEnd
  <2>8. Good(m)
    <3>1. \A k \in pbegin..consumed : bytes[k] = "end" => \E j \in pbegin..k : bytes[j] = "nul"
      BY <1>1 DEF PlaceIs, NoEnd
    <3>2. pbegin = 1 \/ bytes[pbegin - 1] = "end"
      BY <1>1 DEF PlaceIs
    <3>3. consumed = Len(bytes) \/ Filled(m)'
      BY <1>1, <2>7
    <3>4. Filled(m)' \/ consumed - pbegin + 1 < LineBuf
      BY <1>2, <2>6, <2>7
    <3>5. 1 <= pbegin
      BY <1>2
    <3> QED BY <1>2, <2>1, <2>2, <2>4, <2>7a, <3>1, <3>2, <3>3, <3>4, <3>5
  <2>9. \A i \in DOMAIN lines' : Good(i)
    <3> HIDE DEF Good
    <3> QED BY <1>4, <2>4, <2>5, <2>8
  <2>10. ASSUME NEW i \in DOMAIN lines', NEW j \in DOMAIN lines', i < j
         PROVE  lines'[i][2] < lines'[j][1]
    <3>1. i \in DOMAIN lines
      BY <2>0, <2>4, <2>10
    <3>2. CASE j \in DOMAIN lines
      BY <1>3, <2>4, <2>10, <3>1, <3>2
    <3>3. CASE j = m
      BY <1>3, <2>2, <2>4, <3>1, <3>3
    <3> QED BY <2>5, <3>2, <3>3
  <2>11. ASSUME NEW k \in DOMAIN bytes, bytes[k] # "end"
         PROVE  \E i \in DOMAIN lines' : lines'[i][1] <= k /\ (k <= lines'[i][2] \/ Filled(i)')
    <3>1. CASE k < pbegin
      <4>1. InLine(k)
        BY <1>2, <1>3, <2>11, <3>1
      <4>2. PICK i \in DOMAIN lines : lines[i][1] <= k /\ k <= lines[i][2]
        BY <4>1 DEF InLine
      <4>3. i \in DOMAIN lines' /\ lines'[i] = lines[i]
        BY <2>0, <2>4
      <4> QED BY <4>2, <4>3
    <3>2. CASE pbegin <= k
      <4>1. k <= consumed \/ Filled(m)'
        <5>1. CASE consumed = Len(bytes)
          BY <1>2, <5>1
        <5>2. CASE offset = LineBuf
          BY <2>7, <5>2
        <5> QED BY <1>1, <5>1, <5>2
      <4>2. m \in DOMAIN lines' /\ lines'[m][1] = pbegin /\ lines'[m][2] = consumed
        BY <2>0, <2>2, <2>4
      <4> QED BY <3>2, <4>1, <4>2
    <3> QED BY <1>2, <3>1, <3>2
  <2>12. LinesWhole'
    BY <1>1, <2>9, <2>10, <2>11 DEF LinesWhole
  <2>13. LineTypes'
    <3>1. lines' \in Seq(Nat \X Nat)
      BY <2>4
    <3> QED BY <1>1, <3>1 DEF LineTypes
  <2> QED BY <1>1, <2>12, <2>13 DEF LineInv
<1> QED BY <1>5, <1>6

LEMMA ReadFailsInv == ASSUME LineInv, ReadFails PROVE LineInv'
<1>1. /\ LineTypes /\ PlaceIs /\ GivenAre /\ reading = "read" /\ reading' = "failed"
      /\ bytes' = bytes /\ consumed' = consumed /\ pbegin' = pbegin /\ lines' = lines
  BY DEF LineInv, ReadFails
<1>2. LineTypes'
  BY <1>1 DEF LineTypes
<1>3. PlaceIs'
  BY <1>1 DEF PlaceIs, NoEnd
<1>4. GivenAre'
  BY <1>1 DEF GivenAre, WholeLine, InLine
<1> QED BY <1>1, <1>2, <1>3, <1>4 DEF LineInv

LEMMA LineStutterInv == ASSUME LineInv, UNCHANGED lineVars PROVE LineInv'
<1>1. bytes' = bytes /\ consumed' = consumed /\ pbegin' = pbegin /\ lines' = lines /\ reading' = reading
  BY DEF lineVars
<1>2. LineTypes' /\ (PlaceIs' <=> PlaceIs) /\ (GivenAre' <=> GivenAre) /\ (LinesWhole' <=> LinesWhole)
  <2>1. LineTypes'
    BY <1>1 DEF LineInv, LineTypes
  <2>2. PlaceIs' <=> PlaceIs
    BY <1>1 DEF PlaceIs, NoEnd
  <2>3. GivenAre' <=> GivenAre
    BY <1>1 DEF GivenAre, WholeLine, InLine
  <2>4. LinesWhole' <=> LinesWhole
    BY <1>1 DEF LinesWhole, Filled, AtTheEnd
  <2> QED BY <2>1, <2>2, <2>3, <2>4
<1> QED BY <1>1, <1>2 DEF LineInv

LEMMA LineInvWhole == LineInv => LinesWhole
<1> SUFFICES ASSUME LineInv, reading # "eof" PROVE LinesWhole
  BY DEF LineInv
<1>1. /\ consumed \in Nat /\ Len(bytes) \in Nat /\ consumed <= Len(bytes) /\ LineBuf \in Nat
      /\ \A i \in DOMAIN lines : WholeLine(lines[i][1], lines[i][2], consumed)
      /\ \A i, j \in DOMAIN lines : i < j => lines[i][2] < lines[j][1]
  BY LineAssumption DEF LineInv, LineTypes, GivenAre
<1>2. ASSUME NEW i \in DOMAIN lines
      PROVE  /\ 1 <= lines[i][1] /\ lines[i][1] <= lines[i][2] /\ lines[i][2] <= Len(bytes)
             /\ \A k \in lines[i][1]..lines[i][2] : bytes[k] = "text"
             /\ lines[i][1] = 1 \/ bytes[lines[i][1] - 1] = "end"
             /\ bytes[lines[i][2] + 1] = "end"
             /\ lines[i][2] - lines[i][1] + 1 < LineBuf
  <2>1. WholeLine(lines[i][1], lines[i][2], consumed)
    BY <1>1
  <2> QED BY <1>1, <2>1 DEF WholeLine
<1> QED BY <1>1, <1>2 DEF LinesWhole

(* load_file gives each line of the file whole, once and in order, however *)
(* the reads cut it, for any file and any buffer; only a line that fills   *)
(* the buffer, or has a NUL, is cut wrong, and nothing behind it is given. *)
THEOREM LinesAreWhole == LineSpec => []LinesWhole
<1>1. LineInit => LineInv
  BY LineInitInv
<1>2. LineInv /\ [LineNext]_lineVars => LineInv'
  BY ReadPieceInv, GiveLineInv, KeepRestInv, ReadNothingInv, ReadFailsInv, LineStutterInv DEF LineNext
<1>3. LineInv => LinesWhole
  BY LineInvWhole
<1> QED BY <1>1, <1>2, <1>3, PTL DEF LineSpec

-----------------------------------------------------------------------------
(***************************************************************************)
(* HttpParser: while callbacks are made, the message holds the pieces made *)
(* so far, the units of each behind those of the one before.               *)
(***************************************************************************)
Unit2 == Nat \X Nat
HeaderIs(s, h, d) ==
    /\ ToSet(s) = UnitsOf(PiecesOf(h, d))
    /\ \A a, b \in DOMAIN s : a < b => InPageOrder(s[a], s[b])
HeadersAre(H, d) == Len(H) = Cardinality(Fields(d)) /\ \A h \in DOMAIN H : HeaderIs(H[h], h, d)
PlacedIn(B, i, at) == \A u \in 1..web[i].size : B[at + u] = IF u <= web[i].text THEN <<i, u>> ELSE <<0, 0>>
BodyIs(B, d) ==
    /\ Len(B) = Cardinality(UnitsOf(Bodies(d)))
    /\ \A i \in Bodies(d) : PlacedIn(B, i, Cardinality(UnitsOf(Bodies(i - 1))))

PageOK(w) ==
    /\ w \in Seq(Piece)
    /\ \A i \in DOMAIN w : w[i].cb = "value" => i > 1 /\ w[i - 1].cb # "body"

HttpTypes ==
    /\ PageOK(web) /\ done_cb \in Nat /\ done_cb <= Len(web)
    /\ msg.headers \in Seq(Seq(Unit2)) /\ msg.body \in Seq(Unit2)
Going == parse = "callbacks" \/ parse = "stored"
MsgIs ==
    /\ HeadersAre(msg.headers, done_cb) /\ BodyIs(msg.body, done_cb)
    /\ done_cb > 0 /\ web[done_cb].cb # "body" => msg.headers # <<>>
HttpInv == Going => HttpTypes /\ MsgIs

LEMMA PieceIs ==
  ASSUME NEW x \in Piece
  PROVE  /\ x.cb = "field" \/ x.cb = "value" \/ x.cb = "body"
         /\ x.size \in Nat /\ x.size > 0 /\ x.text \in Nat /\ x.text <= x.size
         /\ x.cb # "body" => x.text = x.size
<1> DEFINE V(n) == [cb: {"field", "value"}, size: {n}, text: {n}]
           B(n) == [cb: {"body"}, size: {n}, text: 0..n]
<1>1. \E n \in PieceSize : x \in V(n) \/ x \in B(n)
  <2>1. Piece = UNION {V(n) \cup B(n) : n \in PieceSize}
    BY DEF Piece
  <2> HIDE DEF V, B
  <2> QED BY <2>1
<1>2. ASSUME NEW n \in PieceSize, x \in V(n)
      PROVE  (x.cb = "field" \/ x.cb = "value") /\ x.size = n /\ x.text = n /\ n \in Nat /\ n > 0
  BY <1>2, MessageAssumption
<1>3. ASSUME NEW n \in PieceSize, x \in B(n)
      PROVE  x.cb = "body" /\ x.size = n /\ x.text \in Nat /\ x.text <= n /\ n \in Nat /\ n > 0
  BY <1>3, MessageAssumption
<1> HIDE DEF V, B
<1> QED BY <1>1, <1>2, <1>3

LEMMA PageIs == ASSUME NEW w \in Web PROVE PageOK(w)
<1>1. PICK n \in 0..(RecvBuf - 2) : w \in [1..n -> Piece]
  BY DEF Web
<1>2. n \in Nat /\ w \in Seq(Piece)
  <2>1. n \in Nat
    BY MessageAssumption
  <2> QED BY <1>1, <2>1
<1>3. \A i \in DOMAIN w : w[i].cb = "value" => i > 1 /\ w[i - 1].cb # "body"
  BY DEF Web
<1> QED BY <1>2, <1>3 DEF PageOK

\* One more callback, of the next piece.
LEMMA WebAt ==
  ASSUME PageOK(web), NEW i \in Nat, i >= 1, i <= Len(web)
  PROVE  /\ web[i] \in Piece
         /\ web[i].cb = "field" \/ web[i].cb = "value" \/ web[i].cb = "body"
         /\ web[i].size \in Nat /\ web[i].size > 0 /\ web[i].text \in Nat /\ web[i].text <= web[i].size
         /\ web[i].cb # "body" => web[i].text = web[i].size
         /\ web[i].cb = "value" => i > 1 /\ web[i - 1].cb # "body"
<1>1. i \in DOMAIN web /\ web[i] \in Piece
  BY DEF PageOK
<1> QED BY <1>1, PieceIs DEF PageOK

LEMMA FieldsNext ==
  ASSUME NEW d \in Nat
  PROVE  /\ IsFiniteSet(Fields(d)) /\ Cardinality(Fields(d)) \in Nat
         /\ web[d + 1].cb = "field" => Cardinality(Fields(d + 1)) = Cardinality(Fields(d)) + 1
         /\ web[d + 1].cb # "field" => Fields(d + 1) = Fields(d)
         /\ \A j \in 1..d : Cardinality(Fields(j)) \in Nat /\ Cardinality(Fields(j)) <= Cardinality(Fields(d))
<1>1. \A j \in Nat : IsFiniteSet(Fields(j)) /\ Cardinality(Fields(j)) \in Nat
  <2>1. ASSUME NEW j \in Nat PROVE IsFiniteSet(Fields(j))
    <3>1. IsFiniteSet(1..j)
      BY FS_Interval
    <3>2. Fields(j) \subseteq 1..j
      BY DEF Fields
    <3> QED BY <3>1, <3>2, FS_Subset
  <2> QED BY <2>1, FS_CardinalityType
<1>2. d + 1 \notin Fields(d)
  BY DEF Fields
<1>3. \A j : j \in 1..(d + 1) <=> j \in 1..d \/ j = d + 1
  OBVIOUS
<1>4. web[d + 1].cb = "field" => Fields(d + 1) = Fields(d) \cup {d + 1}
  BY <1>3, Zenon DEF Fields
<1>5. web[d + 1].cb # "field" => Fields(d + 1) = Fields(d)
  BY <1>3, Zenon DEF Fields
<1>6. ASSUME NEW j \in 1..d PROVE Cardinality(Fields(j)) \in Nat /\ Cardinality(Fields(j)) <= Cardinality(Fields(d))
  <2>1. Fields(j) \subseteq Fields(d)
    BY DEF Fields
  <2> QED BY <1>1, <2>1, FS_Subset
<1> QED BY <1>1, <1>2, <1>4, <1>5, <1>6, FS_AddElement

LEMMA PiecesNext ==
  ASSUME NEW d \in Nat, NEW h
  PROVE  PiecesOf(h, d + 1) = IF web[d + 1].cb # "body" /\ Cardinality(Fields(d + 1)) = h
                              THEN PiecesOf(h, d) \cup {d + 1} ELSE PiecesOf(h, d)
<1>1. \A j : j \in 1..(d + 1) <=> j \in 1..d \/ j = d + 1
  OBVIOUS
<1>2. CASE web[d + 1].cb # "body" /\ Cardinality(Fields(d + 1)) = h
  BY <1>1, <1>2, Zenon DEF PiecesOf
<1>3. CASE ~(web[d + 1].cb # "body" /\ Cardinality(Fields(d + 1)) = h)
  BY <1>1, <1>3, Zenon DEF PiecesOf
<1> QED BY <1>2, <1>3

LEMMA UnitsMore ==
  ASSUME NEW A, NEW i
  PROVE  UnitsOf(A \cup {i}) = UnitsOf(A) \cup ({i} \X (1..web[i].size))
BY DEF UnitsOf

\* The units of the body's pieces, counted.
LEMMA BodiesNext ==
  ASSUME PageOK(web), NEW d \in Nat, d + 1 <= Len(web)
  PROVE  /\ web[d + 1].cb = "body" => Bodies(d + 1) = Bodies(d) \cup {d + 1}
         /\ web[d + 1].cb # "body" => Bodies(d + 1) = Bodies(d)
         /\ web[d + 1].cb = "body" => Cardinality(UnitsOf(Bodies(d + 1))) = Cardinality(UnitsOf(Bodies(d))) + web[d + 1].size
         /\ Cardinality(UnitsOf(Bodies(d))) \in Nat
         /\ \A j \in 0..d : /\ Cardinality(UnitsOf(Bodies(j))) \in Nat
                            /\ Cardinality(UnitsOf(Bodies(j))) <= Cardinality(UnitsOf(Bodies(d)))
<1>1. ASSUME NEW j \in 0..d
      PROVE  IsFiniteSet(UnitsOf(Bodies(j))) /\ Cardinality(UnitsOf(Bodies(j))) \in Nat
  <2> DEFINE f == [i \in Bodies(j) |-> {i} \X (1..web[i].size)]
             S == {f[i] : i \in Bodies(j)}
  <2>1. IsFiniteSet(Bodies(j))
    <3>1. IsFiniteSet(1..j)
      BY FS_Interval
    <3>2. Bodies(j) \subseteq 1..j
      BY DEF Bodies
    <3> QED BY <3>1, <3>2, FS_Subset
  <2>2. S = {{i} \X (1..web[i].size) : i \in Bodies(j)}
    OBVIOUS
  <2>3. IsFiniteSet(S)
    <3>1. f \in Surjection(Bodies(j), S)
      BY DEF Surjection
    <3> HIDE DEF f, S
    <3> QED BY <2>1, <3>1, FS_Surjection
  <2>4. \A T \in S : IsFiniteSet(T)
    <3>1. ASSUME NEW i \in Bodies(j) PROVE IsFiniteSet({i} \X (1..web[i].size))
      <4>1. i \in Nat /\ i >= 1 /\ i <= Len(web)
        BY DEF Bodies, PageOK
      <4>2. IsFiniteSet({i})
        BY FS_Singleton
      <4>3. PICK n \in Nat : n = web[i].size
        BY <4>1, WebAt
      <4>4. IsFiniteSet(1..n)
        BY FS_Interval
      <4> QED BY <4>2, <4>3, <4>4, FS_Product
    <3> QED BY <2>2, <3>1
  <2>5. UnitsOf(Bodies(j)) = UNION S
    BY <2>2 DEF UnitsOf
  <2> HIDE DEF S
  <2> QED BY <2>3, <2>4, <2>5, FS_UNION, FS_CardinalityType
<1>2. \A j : j \in 1..(d + 1) <=> j \in 1..d \/ j = d + 1
  OBVIOUS
<1>3. web[d + 1].cb = "body" => Bodies(d + 1) = Bodies(d) \cup {d + 1}
  BY <1>2, Zenon DEF Bodies
<1>4. web[d + 1].cb # "body" => Bodies(d + 1) = Bodies(d)
  BY <1>2, Zenon DEF Bodies
<1>5. d \in 0..d
  OBVIOUS
<1>6. ASSUME NEW j \in 0..d
      PROVE  Cardinality(UnitsOf(Bodies(j))) <= Cardinality(UnitsOf(Bodies(d)))
  <2>1. Bodies(j) \subseteq Bodies(d)
    BY DEF Bodies
  <2>2. UnitsOf(Bodies(j)) \subseteq UnitsOf(Bodies(d))
    BY <2>1 DEF UnitsOf
  <2> QED BY <1>1, <1>5, <2>2, FS_Subset
<1>7. ASSUME web[d + 1].cb = "body"
      PROVE  Cardinality(UnitsOf(Bodies(d + 1))) = Cardinality(UnitsOf(Bodies(d))) + web[d + 1].size
  <2> DEFINE U == UnitsOf(Bodies(d))
             V == {d + 1} \X (1..web[d + 1].size)
  <2>1. UnitsOf(Bodies(d + 1)) = U \cup V
    BY <1>3, <1>7, UnitsMore
  <2>2. web[d + 1].size \in Nat
    BY WebAt
  <2>3. IsFiniteSet(V) /\ Cardinality(V) = web[d + 1].size
    <3>1. IsFiniteSet({d + 1}) /\ Cardinality({d + 1}) = 1
      BY FS_Singleton
    <3>0. PICK n \in Nat : n = web[d + 1].size
      BY <2>2
    <3>2. IsFiniteSet(1..n) /\ Cardinality(1..n) = n
      BY FS_Interval
    <3>3. IsFiniteSet(V) /\ Cardinality(V) = 1 * web[d + 1].size
      BY <3>0, <3>1, <3>2, FS_Product, SMTT(20)
    <3> QED BY <2>2, <3>3
  <2>4. U \cap V = {}
    <3>1. d + 1 \notin Bodies(d)
      BY DEF Bodies
    <3> QED BY <3>1 DEF UnitsOf
  <2>5. IsFiniteSet(U) /\ Cardinality(U) \in Nat
    BY <1>1, <1>5
  <2> HIDE DEF U, V
  <2>6. Cardinality(U \cup V) = Cardinality(U) + Cardinality(V) - Cardinality(U \cap V)
    BY <2>3, <2>5, FS_Union
  <2>7. Cardinality(U \cap V) = 0
    BY <2>4, FS_EmptySet
  <2>8. Cardinality(U \cup V) = Cardinality(U) + web[d + 1].size
    BY <2>2, <2>3, <2>5, <2>6, <2>7
  <2> QED BY <2>1, <2>8 DEF U
<1> QED BY <1>1, <1>3, <1>4, <1>5, <1>6, <1>7

\* The pieces behind those written.
LEMMA CopiedIs ==
  ASSUME PageOK(web), NEW i \in Nat, i >= 1, i <= Len(web)
  PROVE  /\ Copied(i) \in Seq(Unit2) /\ Len(Copied(i)) = web[i].text /\ DOMAIN Copied(i) = 1..web[i].text
         /\ \A k \in 1..web[i].text : Copied(i)[k] = <<i, k>>
<1>1. PICK n \in Nat : n = web[i].text
  BY WebAt
<1>2. \A k \in 1..n : <<i, k>> \in Unit2
  BY DEF Unit2
<1>3. Copied(i) = [k \in 1..n |-> <<i, k>>]
  BY <1>1 DEF Copied
<1>4. Copied(i) \in [1..n -> Unit2]
  BY <1>2, <1>3
<1>5. Copied(i) \in Seq(Unit2) /\ Len(Copied(i)) = n /\ DOMAIN Copied(i) = 1..n
  BY ONLY n \in Nat, <1>4
<1> QED BY <1>1, <1>3, <1>5

Joins(t, s, c) ==
    /\ Len(s) \in Nat /\ Len(c) \in Nat /\ Len(t) = Len(s) + Len(c)
    /\ DOMAIN t = 1..(Len(s) + Len(c)) /\ DOMAIN s = 1..Len(s) /\ DOMAIN c = 1..Len(c)
    /\ \A k \in 1..Len(s) : t[k] = s[k]
    /\ \A k \in 1..Len(c) : t[Len(s) + k] = c[k]
    /\ \A k \in DOMAIN t : k \in 1..Len(s) \/ (k - Len(s) \in 1..Len(c) /\ t[k] = c[k - Len(s)])

LEMMA AppendedIs ==
  ASSUME NEW T, NEW s \in Seq(T), NEW c \in Seq(T), NEW t, t = s \o c
  PROVE  t \in Seq(T) /\ Joins(t, s, c)
<1>1. Len(s) \in Nat /\ Len(c) \in Nat /\ t \in Seq(T) /\ Len(t) = Len(s) + Len(c)
  OBVIOUS
<1>2. DOMAIN t = 1..(Len(s) + Len(c)) /\ DOMAIN s = 1..Len(s) /\ DOMAIN c = 1..Len(c)
  BY <1>1
<1>3. \A k \in 1..Len(s) : t[k] = s[k]
  OBVIOUS
<1>4. \A k \in 1..Len(c) : t[Len(s) + k] = c[k]
  OBVIOUS
<1>5. ASSUME NEW k \in DOMAIN t, k \notin 1..Len(s)
      PROVE  k - Len(s) \in 1..Len(c) /\ t[k] = c[k - Len(s)]
  <2>1. k \in 1..(Len(s) + Len(c)) /\ k - Len(s) \in 1..Len(c) /\ k = Len(s) + (k - Len(s))
    BY <1>1, <1>2, <1>5
  <2> QED BY <1>4, <2>1
<1> QED BY <1>1, <1>2, <1>3, <1>4, <1>5 DEF Joins

\* A header that gets one more piece of the page.
LEMMA HeaderMore ==
  ASSUME PageOK(web), NEW d \in Nat, d + 1 <= Len(web), NEW s \in Seq(Unit2), NEW h, HeaderIs(s, h, d),
         PiecesOf(h, d + 1) = PiecesOf(h, d) \cup {d + 1}, web[d + 1].cb # "body"
  PROVE  s \o Copied(d + 1) \in Seq(Unit2) /\ HeaderIs(s \o Copied(d + 1), h, d + 1)
<1> DEFINE c == Copied(d + 1)
<1>1. PICK i \in Nat : i = d + 1 /\ i >= 1 /\ i <= Len(web)
  OBVIOUS
<1>2. /\ c \in Seq(Unit2) /\ Len(c) = web[i].size /\ DOMAIN c = 1..web[i].size
      /\ \A k \in 1..web[i].size : c[k] = <<i, k>>
      /\ web[i].size \in Nat
  <2>1. web[i].text = web[i].size /\ web[i].size \in Nat
    BY <1>1, WebAt
  <2> QED BY <1>1, <2>1, CopiedIs
<1> HIDE DEF c
<1>3. PICK t : t = s \o c
  OBVIOUS
<1>4. /\ t \in Seq(Unit2) /\ Len(s) \in Nat /\ Len(c) \in Nat
      /\ DOMAIN t = 1..(Len(s) + Len(c)) /\ DOMAIN s = 1..Len(s)
      /\ \A k \in 1..Len(s) : t[k] = s[k]
      /\ \A k \in 1..Len(c) : t[Len(s) + k] = c[k]
      /\ \A k \in DOMAIN t : k \in 1..Len(s) \/ (k - Len(s) \in 1..Len(c) /\ t[k] = c[k - Len(s)])
  <2>1. t \in Seq(Unit2) /\ Joins(t, s, c)
    BY <1>2, <1>3, AppendedIs, Zenon
  <2> QED BY <2>1 DEF Joins
<1>5. ToSet(s) = UnitsOf(PiecesOf(h, d)) /\ \A a, b \in DOMAIN s : a < b => InPageOrder(s[a], s[b])
  BY DEF HeaderIs
<1>6. ToSet(t) = ToSet(s) \cup ToSet(c)
  <2>1. \A x \in ToSet(t) : x \in ToSet(s) \cup ToSet(c)
    BY <1>2, <1>4 DEF ToSet
  <2>2. \A x \in ToSet(s) : x \in ToSet(t)
    <3>1. \A k \in 1..Len(s) : k \in DOMAIN t
      BY <1>4
    <3> QED BY <1>4, <3>1 DEF ToSet
  <2>3. \A x \in ToSet(c) : x \in ToSet(t)
    <3>1. \A k \in 1..Len(c) : Len(s) + k \in DOMAIN t
      BY <1>4
    <3>2. ASSUME NEW k \in DOMAIN c PROVE c[k] \in ToSet(t)
      <4>1. k \in 1..Len(c)
        BY <1>2
      <4>2. Len(s) + k \in DOMAIN t /\ t[Len(s) + k] = c[k]
        BY <1>4, <3>1, <4>1
      <4> QED BY <4>2 DEF ToSet
    <3> QED BY <3>2 DEF ToSet
  <2> QED BY <2>1, <2>2, <2>3
<1>7. ToSet(c) = {i} \X (1..web[i].size)
  <2>1. PICK n : n = web[i].size
    OBVIOUS
  <2>2. DOMAIN c = 1..n /\ \A k \in 1..n : c[k] = <<i, k>>
    BY <1>2, <2>1
  <2>3. ToSet(c) = {c[k] : k \in 1..n}
    BY <2>2 DEF ToSet
  <2>4. {c[k] : k \in 1..n} = {<<i, k>> : k \in 1..n}
    BY <2>2
  <2>5. {<<i, k>> : k \in 1..n} = {i} \X (1..n)
    OBVIOUS
  <2> QED BY <2>1, <2>3, <2>4, <2>5
<1>8. ToSet(t) = UnitsOf(PiecesOf(h, d + 1))
  BY <1>1, <1>5, <1>6, <1>7, UnitsMore
<1>9. \A k \in DOMAIN s : s[k][1] < i
  <2>1. ASSUME NEW u \in UnitsOf(PiecesOf(h, d)) PROVE u[1] < i
    <3>1. PICK j \in PiecesOf(h, d) : u \in {j} \X (1..web[j].size)
      BY DEF UnitsOf
    <3>2. u[1] = j /\ j \in 1..d
      BY <3>1 DEF PiecesOf
    <3> QED BY <1>1, <3>2
  <2> QED BY <1>5, <2>1 DEF ToSet
<1>10. ASSUME NEW a \in DOMAIN t, NEW b \in DOMAIN t, a < b PROVE InPageOrder(t[a], t[b])
  <2>1. CASE b \in 1..Len(s)
    <3>1. a \in 1..Len(s)
      BY <1>4, <1>10, <2>1
    <3> QED BY <1>4, <1>5, <1>10, <2>1, <3>1
  <2>2. CASE b \notin 1..Len(s)
    <3>1. b - Len(s) \in 1..Len(c) /\ t[b] = <<i, b - Len(s)>>
      BY <1>2, <1>4, <2>2
    <3>2. CASE a \in 1..Len(s)
      <4>1. t[a][1] < i /\ t[b][1] = i
        BY <1>4, <1>9, <3>1, <3>2
      <4> QED BY <4>1 DEF InPageOrder
    <3>3. CASE a \notin 1..Len(s)
      <4>1. a - Len(s) \in 1..Len(c) /\ t[a] = <<i, a - Len(s)>>
        BY <1>2, <1>4, <3>3
      <4>2. a - Len(s) < b - Len(s)
        BY <1>4, <1>10
      <4> QED BY <3>1, <4>1, <4>2 DEF InPageOrder
    <3> QED BY <3>2, <3>3
  <2> QED BY <2>1, <2>2
<1> QED BY <1>1, <1>3, <1>4, <1>8, <1>10 DEF HeaderIs, c

\* A header that the next piece is not of.
LEMMA HeaderSame ==
  ASSUME NEW d \in Nat, NEW s, NEW h, HeaderIs(s, h, d), PiecesOf(h, d + 1) = PiecesOf(h, d)
  PROVE  HeaderIs(s, h, d + 1)
BY DEF HeaderIs

\* No piece made belongs to a header that is still to come.
LEMMA NoPiecesYet ==
  ASSUME NEW d \in Nat, NEW h \in Nat, h > Cardinality(Fields(d))
  PROVE  HeaderIs(<<>>, h, d) /\ PiecesOf(h, d) = {}
<1>1. PiecesOf(h, d) = {}
  <2>1. ASSUME NEW j \in PiecesOf(h, d) PROVE FALSE
    <3>1. j \in 1..d /\ Cardinality(Fields(j)) = h
      BY DEF PiecesOf
    <3>2. Cardinality(Fields(j)) <= Cardinality(Fields(d)) /\ Cardinality(Fields(d)) \in Nat
      BY <3>1, FieldsNext
    <3> QED BY <3>1, <3>2
  <2> QED BY <2>1
<1> QED BY <1>1 DEF HeaderIs, ToSet, UnitsOf

\* Headers and body, one callback further on.
LEMMA FieldMore ==
  ASSUME PageOK(web), NEW d \in Nat, d + 1 <= Len(web), NEW H \in Seq(Seq(Unit2)), HeadersAre(H, d),
         web[d + 1].cb = "field", NEW G, G = Append(H, Copied(d + 1))
  PROVE  G \in Seq(Seq(Unit2)) /\ HeadersAre(G, d + 1) /\ G # <<>>
<1>1. PICK n \in Nat : n = Len(H) /\ DOMAIN H = 1..n
  OBVIOUS
<1>2. n = Cardinality(Fields(d)) /\ Cardinality(Fields(d + 1)) = n + 1
  BY <1>1, FieldsNext DEF HeadersAre
<1>3. Copied(d + 1) \in Seq(Unit2)
  BY CopiedIs
<1>4. HeaderIs(Copied(d + 1), n + 1, d + 1)
  <2>0. n + 1 \in Nat /\ n + 1 > Cardinality(Fields(d))
    BY <1>2
  <2>0a. PiecesOf(n + 1, d + 1) = PiecesOf(n + 1, d) \cup {d + 1}
    BY <1>2, PiecesNext, Zenon
  <2>1. HeaderIs(<<>>, n + 1, d) /\ PiecesOf(n + 1, d + 1) = PiecesOf(n + 1, d) \cup {d + 1}
    BY <2>0, <2>0a, NoPiecesYet
  <2>2. <<>> \in Seq(Unit2)
    OBVIOUS
  <2>3. HeaderIs(<<>> \o Copied(d + 1), n + 1, d + 1)
    BY <2>1, <2>2, HeaderMore
  <2>4. <<>> \o Copied(d + 1) = Copied(d + 1)
    BY <1>3
  <2> QED BY <2>3, <2>4
<1>5. ASSUME NEW h \in 1..n PROVE HeaderIs(H[h], h, d + 1)
  <2>1. HeaderIs(H[h], h, d)
    BY <1>1 DEF HeadersAre
  <2>2. PiecesOf(h, d + 1) = PiecesOf(h, d)
    <3>1. h # n + 1
      OBVIOUS
    <3> QED BY <1>2, <3>1, PiecesNext
  <2> QED BY <2>1, <2>2, HeaderSame
<1>6. /\ G \in Seq(Seq(Unit2)) /\ Len(G) = n + 1 /\ DOMAIN G = 1..(n + 1) /\ G[n + 1] = Copied(d + 1)
      /\ \A h \in 1..n : G[h] = H[h]
  BY <1>1, <1>3
<1>7. ASSUME NEW h \in DOMAIN G PROVE HeaderIs(G[h], h, d + 1)
  <2>1. h \in 1..n \/ h = n + 1
    BY <1>6
  <2> QED BY <1>4, <1>5, <1>6, <2>1
<1>8. G # <<>>
  BY <1>6
<1> QED BY <1>2, <1>6, <1>7, <1>8 DEF HeadersAre

LEMMA ValueMore ==
  ASSUME PageOK(web), NEW d \in Nat, d + 1 <= Len(web), NEW H \in Seq(Seq(Unit2)), HeadersAre(H, d), H # <<>>,
         web[d + 1].cb = "value", NEW G, G = [H EXCEPT ![Len(H)] = @ \o Copied(d + 1)]
  PROVE  G \in Seq(Seq(Unit2)) /\ HeadersAre(G, d + 1) /\ G # <<>>
<1>1. PICK n \in Nat : n = Len(H) /\ n > 0 /\ DOMAIN H = 1..n
  <2>1. Len(H) \in Nat /\ DOMAIN H = 1..Len(H)
    OBVIOUS
  <2>2. Len(H) # 0
    OBVIOUS
  <2>3. Len(H) \in Nat /\ Len(H) > 0
    BY ONLY <2>1, <2>2
  <2> QED BY <2>1, <2>3
<1>2. n = Cardinality(Fields(d)) /\ Cardinality(Fields(d + 1)) = n
  BY <1>1, FieldsNext DEF HeadersAre
<1>3. H[n] \in Seq(Unit2) /\ n \in DOMAIN H /\ HeaderIs(H[n], n, d)
  BY <1>1 DEF HeadersAre
<1>4. PICK t : t = H[n] \o Copied(d + 1)
  OBVIOUS
<1>5. t \in Seq(Unit2) /\ HeaderIs(t, n, d + 1)
  <2>1. PiecesOf(n, d + 1) = PiecesOf(n, d) \cup {d + 1}
    BY <1>2, PiecesNext
  <2> QED BY <1>3, <1>4, <2>1, HeaderMore
<1>6. ASSUME NEW h \in 1..n, h # n PROVE HeaderIs(H[h], h, d + 1)
  <2>1. HeaderIs(H[h], h, d)
    BY <1>1 DEF HeadersAre
  <2>2. PiecesOf(h, d + 1) = PiecesOf(h, d)
    BY <1>2, <1>6, PiecesNext
  <2> QED BY <2>1, <2>2, HeaderSame
<1>7. G = [H EXCEPT ![n] = t]
  BY <1>1, <1>4
<1>8. /\ G \in Seq(Seq(Unit2)) /\ Len(G) = n /\ DOMAIN G = 1..n /\ G[n] = t
      /\ \A h \in 1..n : h # n => G[h] = H[h]
  <2>0. H \in [1..n -> Seq(Unit2)]
    BY <1>1
  <2>1. G \in [1..n -> Seq(Unit2)]
    BY <1>5, <1>7, <2>0
  <2>2. G \in Seq(Seq(Unit2)) /\ Len(G) = n
    BY ONLY n \in Nat, <2>1
  <2> QED BY <1>1, <1>3, <1>7, <2>1, <2>2
<1>9. ASSUME NEW h \in DOMAIN G PROVE HeaderIs(G[h], h, d + 1)
  BY <1>5, <1>6, <1>8
<1>10. G # <<>>
  <2>1. DOMAIN G # {}
    BY <1>1, <1>8
  <2>2. DOMAIN <<>> = {}
    OBVIOUS
  <2> QED BY <2>1, <2>2
<1> QED BY <1>2, <1>8, <1>9, <1>10 DEF HeadersAre

LEMMA HeadersSame ==
  ASSUME NEW d \in Nat, NEW H, HeadersAre(H, d), web[d + 1].cb = "body"
  PROVE  HeadersAre(H, d + 1)
<1>1. Fields(d + 1) = Fields(d)
  BY FieldsNext
<1>2. ASSUME NEW h \in DOMAIN H PROVE HeaderIs(H[h], h, d + 1)
  <2>1. HeaderIs(H[h], h, d) /\ PiecesOf(h, d + 1) = PiecesOf(h, d)
    BY PiecesNext DEF HeadersAre
  <2> QED BY <2>1, HeaderSame
<1> QED BY <1>1, <1>2 DEF HeadersAre

LEMMA BodyMore ==
  ASSUME PageOK(web), NEW d \in Nat, d + 1 <= Len(web), NEW B \in Seq(Unit2), BodyIs(B, d), web[d + 1].cb = "body",
         NEW c, c = [k \in 1..web[d + 1].size |-> IF k <= web[d + 1].text THEN <<d + 1, k>> ELSE <<0, 0>>],
         NEW C, C = B \o c
  PROVE  C \in Seq(Unit2) /\ BodyIs(C, d + 1)
<1>1. PICK n \in Nat : n = web[d + 1].size
  BY WebAt
<1>2. PICK m \in Nat : m = Len(B)
  OBVIOUS
<1>3. c \in Seq(Unit2) /\ Len(c) = n /\ \A k \in 1..n : c[k] = IF k <= web[d + 1].text THEN <<d + 1, k>> ELSE <<0, 0>>
  <2>1. \A k \in 1..n : (IF k <= web[d + 1].text THEN <<d + 1, k>> ELSE <<0, 0>>) \in Unit2
    BY DEF Unit2
  <2>2. c \in [1..n -> Unit2]
    BY <1>1, <2>1
  <2>3. c \in Seq(Unit2) /\ Len(c) = n
    BY ONLY n \in Nat, <2>2
  <2> QED BY <1>1, <2>3
<1>4. /\ C \in Seq(Unit2) /\ Len(C) = m + n
      /\ \A k \in 1..m : C[k] = B[k]
      /\ \A k \in 1..n : C[m + k] = c[k]
  <2>1. C \in Seq(Unit2) /\ Joins(C, B, c)
    BY <1>3, AppendedIs, Zenon
  <2> QED BY <1>2, <1>3, <2>1 DEF Joins
<1>5. /\ Bodies(d + 1) = Bodies(d) \cup {d + 1}
      /\ Cardinality(UnitsOf(Bodies(d))) = m /\ Cardinality(UnitsOf(Bodies(d + 1))) = m + n
  BY <1>1, <1>2, BodiesNext DEF BodyIs
<1>6. ASSUME NEW i \in Bodies(d) PROVE PlacedIn(C, i, Cardinality(UnitsOf(Bodies(i - 1))))
  <2>1. i \in Nat /\ i >= 1 /\ i <= d /\ i - 1 \in Nat /\ web[i].cb = "body"
    BY DEF Bodies
  <2>2. PICK at : at = Cardinality(UnitsOf(Bodies(i - 1)))
    OBVIOUS
  <2>3. PICK z : z = web[i].size
    OBVIOUS
  <2>4. at \in Nat /\ z \in Nat /\ Cardinality(UnitsOf(Bodies(i))) = at + z
    <3>1. PICK j \in Nat : j = i - 1 /\ j + 1 = i /\ j + 1 <= Len(web)
      BY <2>1 DEF PageOK
    <3>2. at \in Nat /\ Cardinality(UnitsOf(Bodies(i))) = at + z
      BY <2>1, <2>2, <2>3, <3>1, BodiesNext
    <3>3. i <= Len(web)
      BY <3>1
    <3> QED BY <2>1, <2>3, <3>2, <3>3, WebAt
  <2>5. at + z <= m
    <3>1. i \in 0..d
      BY <2>1
    <3> QED BY <1>5, <2>4, <3>1, BodiesNext
  <2>6. PlacedIn(B, i, at)
    BY <2>2 DEF BodyIs
  <2>7. \A u \in 1..z : at + u \in 1..m
    BY ONLY m \in Nat, <2>4, <2>5
  <2> QED BY <1>4, <2>2, <2>3, <2>6, <2>7 DEF PlacedIn
<1>7. PlacedIn(C, d + 1, m)
  BY <1>1, <1>3, <1>4 DEF PlacedIn
<1>8. (d + 1) - 1 = d
  OBVIOUS
<1>9. ASSUME NEW i \in Bodies(d + 1) PROVE PlacedIn(C, i, Cardinality(UnitsOf(Bodies(i - 1))))
  <2>1. i \in Bodies(d) \/ i = d + 1
    BY <1>5
  <2> QED BY <1>5, <1>6, <1>7, <1>8, <2>1
<1> QED BY <1>4, <1>5, <1>9 DEF BodyIs

LEMMA BodySame ==
  ASSUME PageOK(web), NEW d \in Nat, d + 1 <= Len(web), NEW B, BodyIs(B, d), web[d + 1].cb # "body"
  PROVE  BodyIs(B, d + 1)
<1>1. Bodies(d + 1) = Bodies(d)
  BY BodiesNext
<1> QED BY <1>1 DEF BodyIs

\* The message of no callback.
LEMMA NothingYet == HeadersAre(<<>>, 0) /\ BodyIs(<<>>, 0) /\ <<>> \in Seq(Seq(Unit2)) /\ <<>> \in Seq(Unit2)
<1>1. Fields(0) = {} /\ Bodies(0) = {}
  BY DEF Fields, Bodies
<1>2. UnitsOf(Bodies(0)) = {}
  BY <1>1 DEF UnitsOf
<1>3. <<>> \in Seq(Seq(Unit2)) /\ <<>> \in Seq(Unit2) /\ Len(<<>>) = 0 /\ DOMAIN <<>> = {}
  OBVIOUS
<1>4. Cardinality({}) = 0
  BY FS_EmptySet
<1>5. HeadersAre(<<>>, 0)
  BY <1>1, <1>3, <1>4 DEF HeadersAre
<1>6. BodyIs(<<>>, 0)
  BY <1>1, <1>2, <1>3, <1>4 DEF BodyIs
<1> QED BY <1>3, <1>5, <1>6

\* Facts about web are facts about any page.
LEMMA NewPage ==
  ASSUME msg' = Empty, done_cb' = 0, PageOK(web')
  PROVE  HttpInv'
<1>1. Empty.headers = <<>> /\ Empty.body = <<>>
  BY DEF Empty
<1>2. (HeadersAre(<<>>, 0) /\ BodyIs(<<>>, 0) /\ <<>> \in Seq(Seq(Unit2)) /\ <<>> \in Seq(Unit2))'
  BY NothingYet, PTL
<1>3. Len(web') \in Nat
  BY DEF PageOK
<1>4. msg'.headers = <<>> /\ msg'.body = <<>>
  BY <1>1
<1>5. HttpTypes'
  BY <1>2, <1>3, <1>4 DEF HttpTypes, PageOK
<1>6. MsgIs'
  <2>1. HeadersAre(msg.headers, done_cb)' /\ BodyIs(msg.body, done_cb)'
    BY <1>2, <1>4 DEF HeadersAre, BodyIs, HeaderIs
  <2>2. ~(done_cb' > 0)
    OBVIOUS
  <2> QED BY <2>1, <2>2 DEF MsgIs
<1> QED BY <1>5, <1>6 DEF HttpInv

LEMMA HttpInitInv == HttpInit => HttpInv
<1> SUFFICES ASSUME HttpInit PROVE HttpInv
  OBVIOUS
<1>1. web = <<>> /\ done_cb = 0 /\ msg.headers = <<>> /\ msg.body = <<>>
  BY DEF HttpInit, Empty
<1>2. PageOK(web) /\ Len(web) = 0
  <2>1. <<>> \in Seq(Piece) /\ DOMAIN <<>> = {} /\ Len(<<>>) = 0
    OBVIOUS
  <2> QED BY <1>1, <2>1 DEF PageOK
<1>3. HttpTypes
  BY <1>1, <1>2, NothingYet DEF HttpTypes
<1>4. MsgIs
  BY <1>1, NothingYet DEF MsgIs
<1> QED BY <1>3, <1>4 DEF HttpInv

\* Nothing but the page decides what the message should be.
LEMMA PageDecides ==
  ASSUME web' = web, NEW H, NEW B, NEW d
  PROVE  /\ HeadersAre(H, d)' <=> HeadersAre(H, d)
         /\ BodyIs(B, d)' <=> BodyIs(B, d)
<1>1. \A is : UnitsOf(is)' = UnitsOf(is)
  BY DEF UnitsOf
<1>2. \A n : Fields(n)' = Fields(n) /\ Bodies(n)' = Bodies(n)
  BY DEF Fields, Bodies
<1>3. \A h, n : PiecesOf(h, n)' = PiecesOf(h, n)
  BY <1>2 DEF PiecesOf
<1>4. HeadersAre(H, d)' <=> HeadersAre(H, d)
  BY <1>1, <1>2, <1>3 DEF HeadersAre, HeaderIs
<1>5. BodyIs(B, d)' <=> BodyIs(B, d)
  BY <1>1, <1>2 DEF BodyIs, PlacedIn
<1> QED BY <1>4, <1>5

\* The message a callback leaves, where it leaves one.
LEMMA CalledInv ==
  ASSUME HttpTypes, web' = web, done_cb' = done_cb + 1, done_cb + 1 <= Len(web),
         msg'.headers \in Seq(Seq(Unit2)), msg'.body \in Seq(Unit2),
         HeadersAre(msg'.headers, done_cb + 1), BodyIs(msg'.body, done_cb + 1),
         web[done_cb + 1].cb # "body" => msg'.headers # <<>>
  PROVE  HttpInv'
<1>1. HttpTypes'
  BY DEF HttpTypes, PageOK
<1>2. HeadersAre(msg.headers, done_cb)' /\ BodyIs(msg.body, done_cb)'
  <2>1. \A is : UnitsOf(is)' = UnitsOf(is)
    BY DEF UnitsOf
  <2>2. \A n : Fields(n)' = Fields(n) /\ Bodies(n)' = Bodies(n)
    BY DEF Fields, Bodies
  <2>3. \A h, n : PiecesOf(h, n)' = PiecesOf(h, n)
    BY <2>2 DEF PiecesOf
  <2>4. HeadersAre(msg.headers, done_cb)'
    BY <2>1, <2>2, <2>3 DEF HeadersAre, HeaderIs
  <2>5. BodyIs(msg.body, done_cb)'
    BY <2>1, <2>2 DEF BodyIs, PlacedIn
  <2> QED BY <2>4, <2>5
<1>3. MsgIs'
  BY <1>2 DEF MsgIs
<1> QED BY <1>1, <1>3 DEF HttpInv

LEMMA CallBackInv == ASSUME HttpInv, CallBack PROVE HttpInv'
<1>1. /\ parse = "callbacks" /\ done_cb < Len(web) /\ done_cb' = done_cb + 1 /\ web' = web
      /\ Field_cb(done_cb') \/ Value_cb(done_cb') \/ Body_cb(done_cb')
  BY DEF CallBack
<1>2. HttpTypes /\ MsgIs
  BY <1>1 DEF HttpInv, Going
<1>3. /\ PageOK(web) /\ done_cb \in Nat /\ msg.headers \in Seq(Seq(Unit2)) /\ msg.body \in Seq(Unit2)
      /\ HeadersAre(msg.headers, done_cb) /\ BodyIs(msg.body, done_cb)
      /\ done_cb > 0 /\ web[done_cb].cb # "body" => msg.headers # <<>>
  BY <1>2 DEF HttpTypes, MsgIs
<1>4. done_cb + 1 <= Len(web)
  BY <1>1, <1>3 DEF PageOK
<1>5. PICK i : i = done_cb + 1
  OBVIOUS
<1>6. CASE Field_cb(i)
  <2>1. web[i].cb = "field" /\ msg'.headers = Append(msg.headers, Copied(i)) /\ msg'.body = msg.body
    BY <1>6 DEF Field_cb
  <2>2. msg'.headers \in Seq(Seq(Unit2)) /\ HeadersAre(msg'.headers, done_cb + 1) /\ msg'.headers # <<>>
    BY <1>3, <1>4, <1>5, <2>1, FieldMore
  <2>3. BodyIs(msg'.body, done_cb + 1)
    BY <1>3, <1>4, <1>5, <2>1, BodySame
  <2> QED BY <1>1, <1>2, <1>3, <1>4, <2>1, <2>2, <2>3, CalledInv
<1>7. CASE Value_cb(i)
  <2>1. CASE parse' = "callbacks"
    <3>1. /\ web[i].cb = "value"
          /\ msg' = [headers |-> [msg.headers EXCEPT ![Len(msg.headers)] = @ \o Copied(i)],
                      names |-> msg.names, body |-> msg.body]
      BY <1>7, <2>1 DEF Value_cb
    <3>2. msg'.headers = [msg.headers EXCEPT ![Len(msg.headers)] = @ \o Copied(i)] /\ msg'.body = msg.body
      BY <3>1
    <3>3. msg.headers # <<>>
      <4>1. i > 1 /\ web[i - 1].cb # "body"
        BY <1>3, <1>4, <1>5, <3>1, WebAt
      <4>2. i - 1 = done_cb /\ done_cb > 0
        BY <1>3, <1>5, <4>1
      <4> QED BY <1>3, <4>1, <4>2
    <3>4. msg'.headers \in Seq(Seq(Unit2)) /\ HeadersAre(msg'.headers, done_cb + 1) /\ msg'.headers # <<>>
      BY <1>3, <1>4, <1>5, <3>1, <3>2, <3>3, ValueMore
    <3>5. BodyIs(msg'.body, done_cb + 1)
      BY <1>3, <1>4, <1>5, <3>1, <3>2, BodySame
    <3> QED BY <1>1, <1>2, <1>3, <1>4, <3>2, <3>4, <3>5, CalledInv
  <2>2. CASE parse' = "assert"
    BY <2>2 DEF HttpInv, Going
  <2> QED BY <1>7, <2>1, <2>2 DEF Value_cb
<1>8. CASE Body_cb(i)
  <2>1. CASE parse' = "callbacks"
    <3>1. PICK c : c = [k \in 1..web[i].size |-> IF k <= web[i].text THEN <<i, k>> ELSE <<0, 0>>]
      OBVIOUS
    <3>2. web[i].cb = "body" /\ msg' = [headers |-> msg.headers, names |-> msg.names, body |-> msg.body \o c]
      BY <1>8, <2>1, <3>1 DEF Body_cb
    <3>3. msg'.headers = msg.headers /\ msg'.body = msg.body \o c
      BY <3>2
    <3>4. msg'.body \in Seq(Unit2) /\ BodyIs(msg'.body, done_cb + 1)
      BY <1>3, <1>4, <1>5, <3>1, <3>2, <3>3, BodyMore
    <3>5. HeadersAre(msg'.headers, done_cb + 1)
      BY <1>3, <1>5, <3>2, <3>3, HeadersSame
    <3> QED BY <1>1, <1>2, <1>3, <1>4, <1>5, <3>2, <3>3, <3>4, <3>5, CalledInv
  <2>2. CASE parse' = "assert"
    BY <2>2 DEF HttpInv, Going
  <2> QED BY <1>8, <2>1, <2>2 DEF Body_cb
<1> QED BY <1>1, <1>5, <1>6, <1>7, <1>8

LEMMA StoreInv == ASSUME HttpInv, Store PROVE HttpInv'
<1>1. HttpTypes /\ MsgIs /\ web' = web /\ done_cb' = done_cb /\ msg' = msg
  BY DEF HttpInv, Going, Store
<1>2. HttpTypes'
  BY <1>1 DEF HttpTypes, PageOK
<1>3. MsgIs'
  <2>1. HeadersAre(msg.headers, done_cb)' /\ BodyIs(msg.body, done_cb)'
    <3>1. PICK H, B, d : H = msg.headers /\ B = msg.body /\ d = done_cb
      OBVIOUS
    <3>2. HeadersAre(H, d)' /\ BodyIs(B, d)'
      BY <1>1, <3>1, PageDecides DEF MsgIs
    <3> QED BY <1>1, <3>1, <3>2 DEF HeadersAre, HeaderIs, BodyIs
  <2> QED BY <1>1, <2>1 DEF MsgIs
<1> QED BY <1>2, <1>3 DEF HttpInv

LEMMA ParsePageInv == ASSUME HttpInv, ParsePage PROVE HttpInv'
<1>1. msg' = Empty /\ done_cb' = 0 /\ web' \in Web
  BY DEF ParsePage, Reset
<1>2. PageOK(web')
  BY <1>1, PageIs
<1> QED BY <1>1, <1>2, NewPage

LEMMA HttpStutterInv == ASSUME HttpInv, UNCHANGED httpVars PROVE HttpInv'
<1>1. web' = web /\ done_cb' = done_cb /\ msg' = msg /\ parse' = parse
  BY DEF httpVars
<1>2. CASE Going
  <2>1. HttpTypes /\ MsgIs
    BY <1>2 DEF HttpInv
  <2>2. HttpTypes'
    BY <1>1, <2>1 DEF HttpTypes, PageOK
  <2>3. MsgIs'
    <3>1. PICK H, B, d : H = msg.headers /\ B = msg.body /\ d = done_cb
      OBVIOUS
    <3>2. HeadersAre(H, d)' /\ BodyIs(B, d)'
      BY <1>1, <2>1, <3>1, PageDecides DEF MsgIs
    <3>3. HeadersAre(msg.headers, done_cb)' /\ BodyIs(msg.body, done_cb)'
      BY <1>1, <3>1, <3>2 DEF HeadersAre, HeaderIs, BodyIs
    <3> QED BY <1>1, <2>1, <3>3 DEF MsgIs
  <2> QED BY <2>2, <2>3 DEF HttpInv
<1>3. CASE ~Going
  BY <1>1, <1>3 DEF HttpInv, Going
<1> QED BY <1>2, <1>3

(* What is stored of a page whose headers fit header_buf is what its       *)
(* callbacks said, all of it in its place and nothing of an earlier page,  *)
(* for pages, headers and bodies of any size: the message is cleared with  *)
(* the parser.                                                             *)
THEOREM MessagesArePages == HttpSpec => []MessageIsThePage
<1>1. HttpInit => HttpInv
  BY HttpInitInv
<1>2. HttpInv /\ [HttpNext]_httpVars => HttpInv'
  BY CallBackInv, StoreInv, ParsePageInv, HttpStutterInv DEF HttpNext
<1>3. HttpInv => MessageIsThePage
  <2> SUFFICES ASSUME HttpInv, parse = "stored"
               PROVE  HeadersAre(msg.headers, done_cb) /\ BodyIs(msg.body, done_cb)
    BY DEF MessageIsThePage, HeadersAre, HeaderIs, BodyIs, PlacedIn
  <2> QED BY DEF HttpInv, Going, MsgIs
<1> QED BY <1>1, <1>2, <1>3, PTL DEF HttpSpec

-----------------------------------------------------------------------------
(***************************************************************************)
(* The reading of records: k of them are done, none of which blocks, and   *)
(* the buffer's valid units are those of the file behind them, the unit    *)
(* after them is Junk while more of the file is to come.  Behind the last  *)
(* record of a file longer than the buffer, or a torn one, another may     *)
(* have been handled.                                                      *)
(***************************************************************************)
Good(k) == {r \in 1..k : recs[r].kind = "good"}
Done(k) == IF k = 0 THEN 0 ELSE End(k)
Lead(k) == IF k = 0 THEN 0 ELSE 1
First   == IF loop \in {"parse", "abort"} THEN p ELSE 1
Long    == FileLen > RecordBuf - 1

RecTypes ==
    /\ program \in Program /\ recs \in Seq(JsonRec)
    /\ got \in Nat /\ got <= FileLen /\ len \in Int /\ p \in Nat \ {0}
    /\ buf \in [1..RecordBuf -> Nat]
    /\ loop \in {"read", "parse", "end", "abort"}
    /\ handled \in Seq(DOMAIN recs)

Passes(k) == k \in 0..Len(recs) /\ \A e \in 1..k : ~Blocks(e)
HandledAre(k, h) ==
    /\ Cardinality(Good(k)) <= Len(h)
    /\ \A i \in 1..Cardinality(Good(k)) : h[i] \in Good(k) /\ Cardinality(Good(h[i])) = i
HoldsRest(k) ==
    /\ len \in Nat /\ got = Done(k) + len /\ First + len <= RecordBuf
    /\ \A i \in 0..(len - 1) : buf[First + i] = Done(k) + i + 1
    /\ buf[RecordBuf] = Junk
FilledUp(k) ==
    /\ loop = "parse" => got = FileLen \/ First + len = RecordBuf
    /\ loop = "read" /\ k < Len(recs) /\ ~Blocks(k + 1) => got < End(k + 1)
    /\ loop = "end" => k = Len(recs) \/ Blocks(k + 1)
Clean ==
    \/ got = 0 /\ len = 0 /\ \A i \in 1..RecordBuf : buf[i] = Junk
    \/ got = FileLen /\ (loop = "parse" => \A i \in (p + len)..RecordBuf : buf[i] = Junk)
ReadUpTo(k) ==
    /\ Passes(k) /\ HandledAre(k, handled) /\ Len(handled) = Cardinality(Good(k))
    /\ HoldsRest(k) /\ FilledUp(k) /\ (~Long => Clean)
OverAt(k) ==
    /\ k = Len(recs) \/ (k + 1 = Len(recs) /\ Blocks(k + 1))
    /\ Passes(k) /\ HandledAre(k, handled) /\ Len(handled) <= Cardinality(Good(k)) + 1
Over == Long /\ got = FileLen /\ len < 0 /\ \E k \in 0..Len(recs) : OverAt(k)
RecInv == RecTypes /\ (Over \/ \E k \in 0..Len(recs) : ReadUpTo(k))

-----------------------------------------------------------------------------
(* Where the records are in the file.                                      *)
UnitsBefore(r) == UNION {{e} \X (0..recs[e].size) : e \in 1..(r - 1)}
SizeOK == recs \in Seq(JsonRec)

LEMMA RecordIs ==
  ASSUME SizeOK, NEW r \in DOMAIN recs
  PROVE  recs[r].size \in Nat \ {0} /\ recs[r].kind \in {"good", "odd", "torn"}
<1>1. recs[r] \in JsonRec
  BY DEF SizeOK
<1> QED BY <1>1, RecordAssumption DEF JsonRec

LEMMA UnitsNext ==
  ASSUME SizeOK, NEW r \in DOMAIN recs, IsFiniteSet(UnitsBefore(r))
  PROVE  /\ IsFiniteSet(UnitsBefore(r + 1))
         /\ Cardinality(UnitsBefore(r + 1)) = Cardinality(UnitsBefore(r)) + recs[r].size + 1
<1>1. PICK s \in Nat \ {0} : s = recs[r].size
  BY RecordIs
<1> DEFINE U == UnitsBefore(r)
           V == {r} \X (0..s)
<1>2. r \in Nat /\ r >= 1
  BY DEF SizeOK
<1>3. UnitsBefore(r + 1) = U \cup V
  <2>1. 1..((r + 1) - 1) = 1..(r - 1) \cup {r}
    BY <1>2
  <2>2. UnitsBefore(r + 1) = UNION {{e} \X (0..recs[e].size) : e \in 1..(r - 1) \cup {r}}
    BY <2>1 DEF UnitsBefore
  <2> QED BY <1>1, <2>2, Zenon DEF UnitsBefore
<1>4. U \cap V = {}
  <2>1. \A x \in U : \E e \in 1..(r - 1) : x[1] = e
    BY DEF UnitsBefore
  <2>2. \A x \in V : x[1] = r
    OBVIOUS
  <2>3. r \notin 1..(r - 1)
    BY <1>2
  <2> HIDE DEF U, V
  <2> QED BY <2>1, <2>2, <2>3, Zenon
<1>5. IsFiniteSet({r}) /\ Cardinality({r}) = 1
  BY FS_Singleton
<1>6. IsFiniteSet(0..s) /\ Cardinality(0..s) = s + 1
  <2>1. IsFiniteSet(0..s) /\ Cardinality(0..s) = IF 0 > s THEN 0 ELSE s - 0 + 1
    BY FS_Interval
  <2> QED BY <1>1, <2>1
<1>7. IsFiniteSet(V) /\ Cardinality(V) = s + 1
  <2>1. IsFiniteSet(V) /\ Cardinality(V) = Cardinality({r}) * Cardinality(0..s)
    BY <1>5, <1>6, FS_Product
  <2>2. Cardinality(V) = 1 * (s + 1)
    BY <1>5, <1>6, <2>1
  <2> HIDE DEF V
  <2> QED BY <1>1, <2>1, <2>2
<1> HIDE DEF V
<1>8. IsFiniteSet(U \cup V) /\ Cardinality(U \cup V) = Cardinality(U) + Cardinality(V) - Cardinality(U \cap V)
  BY <1>7, FS_Union
<1>9. Cardinality(U) \in Nat /\ Cardinality(U \cap V) = 0
  BY <1>4, FS_CardinalityType, FS_EmptySet
<1>10. PICK c \in Nat : c = Cardinality(U)
  BY <1>9
<1>11. Cardinality(U \cup V) = c + (s + 1)
  BY <1>7, <1>8, <1>9, <1>10
<1>12. Cardinality(UnitsBefore(r + 1)) = c + s + 1
  <2>1. Cardinality(UnitsBefore(r + 1)) = c + (s + 1)
    BY <1>3, <1>11, Zenon
  <2> QED BY ONLY <1>1, <1>10, <2>1
<1>13. IsFiniteSet(UnitsBefore(r + 1))
  BY <1>3, <1>8
<1>14. c = Cardinality(UnitsBefore(r))
  BY <1>10
<1> QED BY ONLY <1>1, <1>12, <1>13, <1>14

LEMMA UnitsFinite ==
  ASSUME SizeOK
  PROVE  \A r \in 1..(Len(recs) + 1) : IsFiniteSet(UnitsBefore(r))
<1>0. Len(recs) \in Nat /\ DOMAIN recs = 1..Len(recs)
  BY DEF SizeOK
<1> DEFINE S == {r \in 1..(Len(recs) + 1) : ~IsFiniteSet(UnitsBefore(r))}
<1> SUFFICES ASSUME S # {} PROVE FALSE
  OBVIOUS
<1>1. S \in SUBSET Nat
  BY <1>0
<1>2. PICK r \in S : \A g \in S : r <= g
  <2> HIDE DEF S
  <2> QED BY <1>1, Least
<1>3. r \in 1..(Len(recs) + 1) /\ ~IsFiniteSet(UnitsBefore(r))
  BY <1>2
<1>4. r # 1
  <2>1. UnitsBefore(1) = {}
    <3>1. 1..(1 - 1) = {}
      OBVIOUS
    <3> QED BY <3>1 DEF UnitsBefore
  <2> QED BY <1>3, <2>1, FS_EmptySet
<1>5. r - 1 \in DOMAIN recs /\ r - 1 \in 1..(Len(recs) + 1) /\ (r - 1) + 1 = r /\ ~(r <= r - 1)
  BY <1>0, <1>3, <1>4
<1>6. r - 1 \notin S
  <2> HIDE DEF S
  <2> QED BY <1>2, <1>5
<1>7. IsFiniteSet(UnitsBefore(r - 1))
  BY <1>5, <1>6
<1> QED BY <1>3, <1>5, <1>7, UnitsNext

\* What is needed of the layout: all of it is said of Begin.
Layout(n) ==
    /\ n = Len(recs) /\ n \in Nat /\ DOMAIN recs = 1..n
    /\ \A r \in 1..(n + 1) : Begin(r) \in Nat \ {0}
    /\ Begin(1) = 1
    /\ \A r \in 1..n : recs[r].size \in Nat \ {0} /\ Begin(r + 1) = Begin(r) + recs[r].size + 1
    /\ \A r, s \in 1..(n + 1) : r <= s => Begin(r) <= Begin(s)

LEMMA LayoutIs == SizeOK => Layout(Len(recs))
<1> SUFFICES ASSUME SizeOK PROVE Layout(Len(recs))
  OBVIOUS
<1>1. PICK n \in Nat : n = Len(recs)
  BY DEF SizeOK
<1>2. DOMAIN recs = 1..n
  BY <1>1 DEF SizeOK
<1>3. \A r : Begin(r) = 1 + Cardinality(UnitsBefore(r))
  BY DEF Begin, UnitsBefore
<1>4. \A r \in 1..(n + 1) : IsFiniteSet(UnitsBefore(r)) /\ Cardinality(UnitsBefore(r)) \in Nat
  BY <1>1, UnitsFinite, FS_CardinalityType
<1>5. \A r \in 1..(n + 1) : Begin(r) \in Nat \ {0}
  BY <1>3, <1>4
<1>6. Begin(1) = 1
  <2>1. UnitsBefore(1) = {}
    <3>1. 1..(1 - 1) = {}
      OBVIOUS
    <3> QED BY <3>1 DEF UnitsBefore
  <2>2. Cardinality(UnitsBefore(1)) = 0
    BY <2>1, FS_EmptySet
  <2> QED BY <1>3, <2>2
<1>7. ASSUME NEW r \in 1..n
      PROVE  recs[r].size \in Nat \ {0} /\ Begin(r + 1) = Begin(r) + recs[r].size + 1
  <2>1. r \in DOMAIN recs /\ r \in 1..(n + 1) /\ r + 1 \in 1..(n + 1)
    BY <1>2
  <2>2. Cardinality(UnitsBefore(r + 1)) = Cardinality(UnitsBefore(r)) + recs[r].size + 1
    BY <1>4, <2>1, UnitsNext
  <2>3. recs[r].size \in Nat \ {0}
    BY <2>1, RecordIs
  <2>4. Begin(r) = 1 + Cardinality(UnitsBefore(r)) /\ Begin(r + 1) = 1 + Cardinality(UnitsBefore(r + 1))
    BY <1>3
  <2>5. PICK c \in Nat, s \in Nat : c = Cardinality(UnitsBefore(r)) /\ s = recs[r].size
    BY <1>4, <2>1, <2>3
  <2> QED BY ONLY <2>2, <2>3, <2>4, <2>5
<1>8. ASSUME NEW r \in 1..(n + 1), NEW s \in 1..(n + 1), r <= s
      PROVE  Begin(r) <= Begin(s)
  <2>1. 1..(r - 1) \subseteq 1..(s - 1)
    BY <1>8
  <2>2. UnitsBefore(r) \subseteq UnitsBefore(s)
    BY <2>1, Zenon DEF UnitsBefore
  <2>3. Cardinality(UnitsBefore(r)) <= Cardinality(UnitsBefore(s))
    BY <1>4, <2>2, FS_Subset
  <2> QED BY <1>3, <1>4, <2>3
<1> QED BY <1>1, <1>2, <1>5, <1>6, <1>7, <1>8 DEF Layout

\* No two records begin at one place, nor one where a newline is.
LEMMA PlacesDiffer ==
  ASSUME NEW n, Layout(n)
  PROVE  /\ FileLen \in Nat /\ \A r \in 1..n : End(r) \in Nat \ {0} /\ End(r) < FileLen
         /\ \A r, s \in 1..n : Begin(r) = Begin(s) => r = s
         /\ \A r \in 1..n : ~Newline(Begin(r)) /\ Newline(End(r) + 1)
         /\ ~Newline(Junk)
<1>1. n \in Nat /\ DOMAIN recs = 1..n /\ n = Len(recs)
  BY DEF Layout
<1>2. ASSUME NEW r \in 1..n
      PROVE  /\ r \in Nat /\ r + 1 \in 1..(n + 1) /\ r \in 1..(n + 1)
             /\ Begin(r) \in Nat \ {0} /\ Begin(r + 1) \in Nat
             /\ End(r) \in Nat \ {0} /\ End(r) + 1 = Begin(r + 1) - 1 /\ Begin(r) <= End(r)
  <2>1. r \in Nat /\ r + 1 \in 1..(n + 1) /\ r \in 1..(n + 1)
    BY <1>1
  <2>2. Begin(r) \in Nat \ {0} /\ Begin(r + 1) \in Nat
    BY <2>1 DEF Layout
  <2>3. recs[r].size \in Nat \ {0} /\ Begin(r + 1) = Begin(r) + recs[r].size + 1
    BY DEF Layout
  <2>4. End(r) = Begin(r) + recs[r].size - 1
    BY DEF End
  <2> HIDE DEF End
  <2> QED BY ONLY <2>1, <2>2, <2>3, <2>4
<1>3. FileLen = Begin(n + 1) - 1 /\ n + 1 \in 1..(n + 1) /\ Begin(n + 1) \in Nat \ {0}
  BY <1>1 DEF FileLen, Layout
<1>4. ASSUME NEW r \in 1..n PROVE End(r) < FileLen
  <2>1. r + 1 <= n + 1
    BY <1>1, <1>2
  <2>2. Begin(r + 1) <= Begin(n + 1)
    BY <1>2, <1>3, <2>1 DEF Layout
  <2>3. End(r) + 1 = Begin(r + 1) - 1 /\ End(r) \in Nat /\ Begin(r + 1) \in Nat
    BY <1>2
  <2> QED BY ONLY <1>3, <2>2, <2>3
<1>5. ASSUME NEW r \in 1..n, NEW s \in 1..n, r < s
      PROVE  End(r) + 1 < Begin(s)
  <2>1. r + 1 <= s
    BY <1>2, <1>5
  <2>2. Begin(r + 1) <= Begin(s)
    BY <1>2, <2>1 DEF Layout
  <2>3. End(r) + 1 = Begin(r + 1) - 1 /\ End(r) \in Nat /\ Begin(r + 1) \in Nat /\ Begin(s) \in Nat
    BY <1>2
  <2> QED BY ONLY <2>2, <2>3
<1>6. ASSUME NEW r \in 1..n, NEW s \in 1..n, Begin(r) = Begin(s) PROVE r = s
  <2>1. CASE r < s
    <3>1. End(r) + 1 < Begin(s) /\ Begin(r) <= End(r) /\ Begin(r) \in Nat /\ End(r) \in Nat
      BY <1>2, <1>5, <2>1
    <3> QED BY ONLY <1>6, <3>1
  <2>2. CASE s < r
    <3>1. End(s) + 1 < Begin(r) /\ Begin(s) <= End(s) /\ Begin(s) \in Nat /\ End(s) \in Nat
      BY <1>2, <1>5, <2>2
    <3> QED BY ONLY <1>6, <3>1
  <2>3. r \in Nat /\ s \in Nat
    BY <1>2
  <2> QED BY <2>1, <2>2, <2>3
<1>7. ASSUME NEW r \in 1..n, NEW s \in 1..n PROVE Begin(r) # End(s) + 1
  <2>1. Begin(r) \in Nat /\ Begin(s) \in Nat /\ End(s) \in Nat /\ Begin(s) <= End(s) /\ r \in Nat /\ s \in Nat
    BY <1>2
  <2>2. CASE r <= s
    <3>1. Begin(r) <= Begin(s)
      BY <1>2, <2>2 DEF Layout
    <3> QED BY ONLY <2>1, <3>1
  <2>3. CASE s < r
    <3>1. End(s) + 1 < Begin(r)
      BY <1>5, <2>3
    <3> QED BY ONLY <2>1, <3>1
  <2> QED BY <2>1, <2>2, <2>3
<1>8. \A r \in 1..n : ~Newline(Begin(r)) /\ Newline(End(r) + 1)
  BY <1>1, <1>7 DEF Newline
<1>9. ~Newline(Junk)
  BY <1>1, <1>2 DEF Newline, Junk
<1> QED BY <1>2, <1>3, <1>4, <1>6, <1>8, <1>9

\* A record is behind those that are done, and a newline unless it is the first.
Behind(k) ==
    /\ Done(k) \in Nat /\ Done(k) + Lead(k) <= FileLen
    /\ k > 0 => Newline(Done(k) + 1)
    /\ k = Len(recs) => FileLen = Done(k) + Lead(k)
    /\ k < Len(recs) => /\ Begin(k + 1) = Done(k) + Lead(k) + 1
                        /\ End(k + 1) = Done(k) + Lead(k) + recs[k + 1].size /\ End(k + 1) < FileLen
                        /\ ~Blocks(k + 1) => recs[k + 1].size + Lead(k) <= RecordBuf - 1

LEMMA BehindDone == ASSUME SizeOK, NEW k \in 0..Len(recs) PROVE Behind(k)
<1>1. PICK n \in Nat : n = Len(recs) /\ DOMAIN recs = 1..n /\ Layout(n)
  BY LayoutIs DEF SizeOK
<1>2. /\ FileLen \in Nat /\ \A r \in 1..n : End(r) \in Nat \ {0} /\ End(r) < FileLen
      /\ \A r \in 1..n : Newline(End(r) + 1)
  BY <1>1, PlacesDiffer
<1>3. FileLen = Begin(n + 1) - 1
  BY <1>1 DEF FileLen
<1>4. CASE k = 0
  <2>1. Done(k) = 0 /\ Lead(k) = 0
    BY <1>4 DEF Done, Lead
  <2>2. k = n => FileLen = 0
    BY <1>1, <1>3, <1>4 DEF Layout
  <2>3. ASSUME k < n
        PROVE  /\ Begin(k + 1) = 1 /\ End(k + 1) = recs[k + 1].size /\ End(k + 1) < FileLen
               /\ ~Blocks(k + 1) => recs[k + 1].size <= RecordBuf - 1
    <3>1. k + 1 = 1 /\ 1 \in 1..n
      BY <1>1, <1>4, <2>3
    <3>2. Begin(1) = 1 /\ recs[1].size \in Nat
      BY <1>1, <3>1 DEF Layout
    <3>3. End(1) = recs[1].size
      BY <3>2 DEF End
    <3>4. ~Blocks(1) => recs[1].size <= RecordBuf - 1
      BY <3>2, RecordAssumption DEF Blocks
    <3> QED BY <1>2, <3>1, <3>2, <3>3, <3>4
  <2>4. k < n => recs[k + 1].size \in Nat
    BY <1>1, <1>4 DEF Layout
  <2> QED BY <1>1, <1>2, <1>4, <2>1, <2>2, <2>3, <2>4 DEF Behind
<1>5. CASE k # 0
  <2>1. k \in 1..n /\ Done(k) = End(k) /\ Lead(k) = 1
    BY <1>1, <1>5 DEF Done, Lead
  <2>2. End(k) = Begin(k + 1) - 2 /\ Begin(k + 1) \in Nat
    <3>1. Begin(k) \in Nat /\ recs[k].size \in Nat /\ Begin(k + 1) = Begin(k) + recs[k].size + 1
      BY <1>1, <2>1 DEF Layout
    <3> QED BY <3>1 DEF End
  <2>3. k = n => FileLen = End(k) + 1
    BY <1>1, <1>3, <2>2
  <2>4. ASSUME k < n
        PROVE  /\ Begin(k + 1) = End(k) + 2 /\ End(k + 1) = End(k) + 1 + recs[k + 1].size /\ End(k + 1) < FileLen
               /\ recs[k + 1].size \in Nat
               /\ ~Blocks(k + 1) => recs[k + 1].size + 1 <= RecordBuf - 1
    <3>1. k + 1 \in 1..n /\ k + 1 # 1
      BY <1>1, <2>1, <2>4
    <3>2. recs[k + 1].size \in Nat
      BY <1>1, <3>1 DEF Layout
    <3>3. End(k + 1) = Begin(k + 1) + recs[k + 1].size - 1
      BY DEF End
    <3>4. ~Blocks(k + 1) => recs[k + 1].size + 1 <= RecordBuf - 1
      BY <3>1, <3>2, RecordAssumption DEF Blocks
    <3>5. End(k) \in Nat /\ End(k + 1) < FileLen
      BY <1>2, <2>1, <3>1
    <3> QED BY <2>2, <3>2, <3>3, <3>4, <3>5
  <2>5. End(k) \in Nat /\ End(k) < FileLen /\ Newline(End(k) + 1)
    BY <1>2, <2>1
  <2>6. End(k) + 1 <= FileLen
    BY <1>2, <2>5
  <2> QED BY <1>1, <2>1, <2>3, <2>4, <2>5, <2>6 DEF Behind
<1> QED BY <1>4, <1>5

-----------------------------------------------------------------------------
\* The file, and with it all that is said of it alone, never changes.
Unchanging == program' = program /\ recs' = recs
LEMMA FileStays ==
  ASSUME Unchanging
  PROVE  /\ FileLen' = FileLen /\ Long' = Long /\ Wanted' = Wanted
         /\ \A k : End(k)' = End(k) /\ Done(k)' = Done(k) /\ Good(k)' = Good(k)
         /\ \A k : Blocks(k)' = Blocks(k) /\ Passes(k)' = Passes(k)
         /\ \A k, h : HandledAre(k, h)' = HandledAre(k, h)
<1>1. program' = program /\ recs' = recs
  BY DEF Unchanging
<1>2. FileLen' = FileLen /\ \A k : End(k)' = End(k)
  BY <1>1 DEF FileLen, End, Begin
<1>3. Long' = Long
  BY <1>2 DEF Long
<1>4. \A k : Done(k)' = Done(k) /\ Good(k)' = Good(k)
  BY <1>1, <1>2 DEF Done, Good
<1>5. \A k : Blocks(k)' = Blocks(k)
  BY <1>1 DEF Blocks
<1>6. Wanted' = Wanted /\ \A k : Passes(k)' = Passes(k)
  BY <1>1, <1>5 DEF Wanted, Passes
<1>7. \A k, h : HandledAre(k, h)' = HandledAre(k, h)
  BY <1>1 DEF HandledAre, Good
<1> QED BY <1>2, <1>3, <1>4, <1>5, <1>6, <1>7

LEMMA OverStays ==
  ASSUME Over, Unchanging, got' = got, len' = len, handled' = handled
  PROVE  Over'
<1>1. PICK k \in 0..Len(recs) : OverAt(k)
  BY DEF Over
<1>2. recs' = recs
  BY DEF Unchanging
<1>3. HandledAre(k, handled)' /\ Good(k)' = Good(k)
  BY <1>1, <1>2 DEF OverAt, HandledAre, Good
<1>4. Passes(k)' /\ Blocks(k + 1)' = Blocks(k + 1)
  BY <1>1, FileStays DEF OverAt
<1>5. OverAt(k)'
  BY <1>1, <1>2, <1>3, <1>4 DEF OverAt
<1>6. Long' /\ got' = FileLen' /\ len' < 0
  BY FileStays DEF Over
<1> QED BY <1>1, <1>2, <1>5, <1>6 DEF Over

LEMMA RecordInitInv == RecordInit => RecInv
<1> SUFFICES ASSUME RecordInit PROVE RecInv
  OBVIOUS
<1>1. PICK n \in 0..MaxRecs : recs \in [1..n -> JsonRec]
  BY DEF RecordInit
<1>2. n \in Nat
  BY RecordAssumption
<1>3. recs \in Seq(JsonRec) /\ Len(recs) \in Nat /\ SizeOK
  BY <1>1, <1>2 DEF SizeOK
<1>4. /\ program \in Program /\ got = 0 /\ buf = [i \in 1..RecordBuf |-> Junk] /\ len = 0 /\ p = 1
      /\ loop = "read" /\ handled = <<>>
  BY DEF RecordInit
<1>5. RecordBuf \in Nat /\ RecordBuf >= 2
  BY RecordAssumption
<1>6. buf \in [1..RecordBuf -> Nat] /\ buf[RecordBuf] = Junk /\ \A i \in 1..RecordBuf : buf[i] = Junk
  BY <1>4, <1>5 DEF Junk
<1>7. FileLen \in Nat
  BY <1>3, LayoutIs, PlacesDiffer
<1>8. RecTypes
  <2>1. <<>> \in Seq(DOMAIN recs)
    OBVIOUS
  <2> QED BY <1>3, <1>4, <1>6, <1>7, <2>1 DEF RecTypes
<1>9. Passes(0) /\ HandledAre(0, handled) /\ Len(handled) = Cardinality(Good(0))
  <2>1. Good(0) = {} /\ Cardinality({}) = 0
    BY FS_EmptySet DEF Good
  <2>2. Len(handled) = 0
    BY <1>4
  <2>3. 1..0 = {}
    OBVIOUS
  <2>4. HandledAre(0, handled)
    <3>1. Cardinality(Good(0)) = 0
      BY <2>1
    <3> QED BY ONLY <2>2, <2>3, <3>1 DEF HandledAre
  <2> QED BY <1>3, <2>1, <2>2, <2>4 DEF Passes
<1>10. HoldsRest(0) /\ Clean
  BY <1>4, <1>5, <1>6 DEF HoldsRest, Clean, Done, First
<1>11. FilledUp(0)
  <2>1. 0 < Len(recs) => End(0 + 1) > 0
    <3>1. 0 < Len(recs) => 1 \in 1..Len(recs)
      BY <1>3
    <3>2. 0 < Len(recs) => End(1) \in Nat \ {0}
      BY <1>3, <3>1, LayoutIs, PlacesDiffer
    <3> QED BY <3>2
  <2> QED BY <1>4, <2>1 DEF FilledUp
<1>12. ReadUpTo(0) /\ 0 \in 0..Len(recs)
  BY <1>3, <1>9, <1>10, <1>11 DEF ReadUpTo
<1> QED BY <1>8, <1>12 DEF RecInv

\* What a step needs of the types, and of the records behind k.
Bounds(k) ==
    /\ RecordBuf \in Nat /\ RecordBuf >= 2 /\ FileLen \in Nat /\ Len(recs) \in Nat
    /\ got \in Nat /\ got <= FileLen /\ p \in Nat \ {0}
    /\ buf \in [1..RecordBuf -> Nat] /\ handled \in Seq(DOMAIN recs)
    /\ DOMAIN recs = 1..Len(recs) /\ k \in 0..Len(recs) /\ k \in Nat /\ Behind(k)
    /\ First \in Nat \ {0} /\ Lead(k) \in {0, 1}

LEMMA BoundsAre == ASSUME RecTypes, NEW k \in 0..Len(recs) PROVE Bounds(k) /\ SizeOK
<1>1. SizeOK /\ Len(recs) \in Nat /\ DOMAIN recs = 1..Len(recs)
  BY DEF RecTypes, SizeOK
<1>2. FileLen \in Nat
  BY <1>1, LayoutIs, PlacesDiffer
<1>3. Behind(k)
  BY <1>1, BehindDone
<1>4. First \in Nat \ {0} /\ Lead(k) \in {0, 1} /\ k \in Nat
  BY <1>1 DEF RecTypes, First, Lead
<1>5. RecordBuf \in Nat /\ RecordBuf >= 2
  BY RecordAssumption
<1> QED BY <1>1, <1>2, <1>3, <1>4, <1>5 DEF Bounds, RecTypes

LEMMA RefillInv == ASSUME RecInv, Refill PROVE RecInv'
<1>1. RecTypes /\ loop = "read" /\ loop' = "parse" /\ p' = 1 /\ Room > 0 /\ got < FileLen
      /\ recs' = recs /\ program' = program /\ handled' = handled
  BY DEF RecInv, Refill
<1>2. PICK n \in Int : /\ n = IF FileLen - got < Room THEN FileLen - got ELSE Room
                       /\ buf' = [i \in 1..RecordBuf |-> IF i \in (len + 1)..(len + n) THEN got + i - len ELSE buf[i]]
                       /\ got' = got + n /\ len' = len + n
  <2>1. FileLen - got \in Int /\ Room \in Int
    <3>1. FileLen \in Nat
      <4>1. SizeOK
        BY <1>1 DEF RecTypes, SizeOK
      <4> QED BY <4>1, LayoutIs, PlacesDiffer
    <3> QED BY <1>1, <3>1, RecordAssumption DEF RecTypes, Room
  <2> QED BY <2>1 DEF Refill
<1>3. ~Over
  <2>1. got # FileLen
    <3>1. got \in Nat
      BY <1>1 DEF RecTypes
    <3> QED BY <1>1, <3>1
  <2> QED BY <2>1 DEF Over
<1>4. PICK k \in 0..Len(recs) : ReadUpTo(k)
  BY <1>3 DEF RecInv
<1>5. Bounds(k)
  BY <1>1, BoundsAre
<1>6. /\ Passes(k) /\ HandledAre(k, handled) /\ Len(handled) = Cardinality(Good(k)) /\ (~Long => Clean)
      /\ len \in Nat /\ got = Done(k) + len /\ \A i \in 0..(len - 1) : buf[1 + i] = Done(k) + i + 1
      /\ buf[RecordBuf] = Junk
  BY <1>1, <1>4 DEF ReadUpTo, HoldsRest, First
<1>6a. RecordBuf \in Nat /\ RecordBuf >= 2 /\ got \in Nat /\ FileLen \in Nat /\ Done(k) \in Nat
  BY <1>5 DEF Bounds, Behind
<1>7. /\ n \in Nat /\ n > 0 /\ got + n <= FileLen /\ 1 + (len + n) <= RecordBuf
      /\ got + n = FileLen \/ 1 + (len + n) = RecordBuf
  <2>1. Room = RecordBuf - 1 - len /\ Room \in Int
    BY <1>5, <1>6 DEF Room, Bounds
  <2>2. FileLen \in Nat /\ got \in Nat /\ RecordBuf \in Nat /\ len \in Nat
    BY <1>5, <1>6 DEF Bounds
  <2>3. n = IF FileLen - got < Room THEN FileLen - got ELSE Room
    BY <1>2
  <2> QED BY ONLY <1>1, <2>1, <2>2, <2>3
<1>8. /\ buf' \in [1..RecordBuf -> Nat]
      /\ \A i \in 1..RecordBuf : buf'[i] = IF i \in (len + 1)..(len + n) THEN got + i - len ELSE buf[i]
  <2>1. \A i \in 1..RecordBuf : buf'[i] = IF i \in (len + 1)..(len + n) THEN got + i - len ELSE buf[i]
    BY <1>2
  <2>2. ASSUME NEW i \in 1..RecordBuf
        PROVE  (IF i \in (len + 1)..(len + n) THEN got + i - len ELSE buf[i]) \in Nat
    BY <1>5, <1>6, <1>7, SMTT(20) DEF Bounds
  <2> QED BY <1>2, <2>1, <2>2
<1>9. First' = 1 /\ Done(k)' = Done(k) /\ FileLen' = FileLen /\ Long' = Long /\ Passes(k)' = Passes(k)
      /\ HandledAre(k, handled)' = HandledAre(k, handled) /\ Good(k)' = Good(k)
  <2>1. Unchanging
    BY <1>1 DEF Unchanging
  <2>2. First' = 1
    BY <1>1 DEF First
  <2>3. HandledAre(k, handled)' = HandledAre(k, handled)
    BY <1>1 DEF HandledAre, Good
  <2> QED BY <2>1, <2>2, <2>3, FileStays
<1>10. HoldsRest(k)'
  <2>1. ASSUME NEW i \in 0..((len + n) - 1) PROVE buf'[1 + i] = Done(k) + i + 1
    <3>1. 1 + i \in 1..RecordBuf /\ i \in Nat /\ i < len + n /\ Done(k) \in Nat
      BY ONLY <1>6, <1>6a, <1>7
    <3>2. CASE i < len
      <4>1. 1 + i \notin (len + 1)..(len + n) /\ i \in 0..(len - 1)
        BY <1>6, <3>1, <3>2
      <4>2. buf'[1 + i] = buf[1 + i]
        BY <1>8, <3>1, <4>1
      <4> QED BY <1>6, <4>1, <4>2
    <3>3. CASE i >= len
      <4>1. 1 + i \in (len + 1)..(len + n)
        BY <1>6, <1>7, <3>1, <3>3
      <4>2. buf'[1 + i] = got + (1 + i) - len
        BY <1>8, <3>1, <4>1
      <4> QED BY ONLY <1>6, <3>1, <4>2
    <3> QED BY <1>6, <3>1, <3>2, <3>3
  <2>2. buf'[RecordBuf] = Junk
    <3>1. RecordBuf \in 1..RecordBuf /\ RecordBuf \notin (len + 1)..(len + n)
      BY <1>5, <1>6, <1>7 DEF Bounds
    <3> QED BY <1>6, <1>8, <3>1
  <2>3. got + n = Done(k) + (len + n) /\ len + n \in Nat
    BY ONLY <1>6, <1>6a, <1>7
  <2> QED BY <1>2, <1>7, <1>9, <2>1, <2>2, <2>3 DEF HoldsRest, Junk
<1>11. FilledUp(k)'
  BY <1>1, <1>2, <1>7, <1>9 DEF FilledUp
<1>12. ~Long => Clean'
  <2> SUFFICES ASSUME ~Long PROVE Clean'
    OBVIOUS
  <2>1. FileLen \in Nat /\ RecordBuf \in Nat /\ ~(FileLen > RecordBuf - 1)
    BY <1>5 DEF Bounds, Long
  <2>2. got = 0 /\ len = 0 /\ \A i \in 1..RecordBuf : buf[i] = Junk
    BY <1>1, <1>5, <1>6 DEF Clean, Bounds
  <2>3. got' = FileLen
    BY <1>2, <1>7, <2>1, <2>2
  <2>4. ASSUME NEW i \in (p' + len')..RecordBuf PROVE buf'[i] = Junk
    <3>1. i \in 1..RecordBuf /\ i \notin (len + 1)..(len + n)
      BY <1>1, <1>2, <1>7, <2>1, <2>2
    <3> QED BY <1>8, <2>2, <3>1
  <2> QED BY <1>9, <2>3, <2>4 DEF Clean, Junk
<1>13. RecTypes'
  <2>1. got' \in Nat /\ got' <= FileLen' /\ len' \in Int /\ p' \in Nat \ {0}
    <3>1. got' = got + n /\ len' = len + n /\ p' = 1 /\ FileLen' = FileLen
      BY <1>1, <1>2, <1>9
    <3>2. got + n \in Nat /\ len + n \in Int /\ 1 \in Nat \ {0}
      BY ONLY <1>6, <1>6a, <1>7
    <3> QED BY <1>7, <3>1, <3>2
  <2> QED BY <1>1, <1>8, <2>1 DEF RecTypes
<1>14. ReadUpTo(k)'
  BY <1>1, <1>6, <1>9, <1>10, <1>11, <1>12 DEF ReadUpTo
<1> QED BY <1>1, <1>13, <1>14 DEF RecInv

LEMMA NumbersAre ==
  ASSUME RecTypes, NEW k \in 0..Len(recs), HoldsRest(k)
  PROVE  /\ RecordBuf \in Nat /\ FileLen \in Nat /\ got \in Nat /\ got <= FileLen
         /\ k \in Nat /\ Len(recs) \in Nat /\ k <= Len(recs)
         /\ First \in Nat \ {0} /\ Lead(k) \in {0, 1} /\ Done(k) \in Nat
         /\ len \in Nat /\ First + len <= RecordBuf /\ got = Done(k) + len
<1>1. Bounds(k)
  BY BoundsAre
<1>2. /\ RecordBuf \in Nat /\ FileLen \in Nat /\ got \in Nat /\ got <= FileLen
      /\ k \in Nat /\ Len(recs) \in Nat /\ First \in Nat \ {0} /\ Lead(k) \in {0, 1} /\ Behind(k)
  BY <1>1 DEF Bounds
<1>3. Done(k) \in Nat
  BY <1>2 DEF Behind
<1>4. len \in Nat /\ First + len <= RecordBuf /\ got = Done(k) + len
  BY DEF HoldsRest
<1> QED BY <1>2, <1>3, <1>4

LEMMA NextIs ==
  ASSUME RecTypes, NEW k \in 0..Len(recs), k < Len(recs)
  PROVE  /\ k + 1 \in DOMAIN recs /\ k + 1 \in 1..Len(recs) /\ recs[k + 1].size \in Nat \ {0}
         /\ Begin(k + 1) = Done(k) + Lead(k) + 1 /\ ~Newline(Begin(k + 1))
         /\ End(k + 1) = Done(k) + Lead(k) + recs[k + 1].size /\ End(k + 1) < FileLen
         /\ ~Blocks(k + 1) => recs[k + 1].size + Lead(k) <= RecordBuf - 1
<1>1. Bounds(k) /\ SizeOK
  BY BoundsAre
<1>2. k + 1 \in DOMAIN recs /\ k + 1 \in 1..Len(recs) /\ Behind(k)
  BY <1>1 DEF Bounds
<1>3. recs[k + 1].size \in Nat \ {0}
  BY <1>1, <1>2, RecordIs
<1>4. ~Newline(Begin(k + 1))
  BY <1>1, <1>2, LayoutIs, PlacesDiffer
<1> QED BY <1>2, <1>3, <1>4 DEF Behind

\* Steps that leave the records handled, and what is valid, as they are.
LEMMA EndOfFileInv == ASSUME RecInv, EndOfFile PROVE RecInv'
<1>1. /\ RecTypes /\ loop = "read" /\ loop' = "end" /\ (Room = 0 \/ got = FileLen) /\ Unchanging
      /\ got' = got /\ buf' = buf /\ len' = len /\ p' = p /\ handled' = handled
  BY DEF RecInv, EndOfFile, Unchanging
<1>2. RecTypes'
  <2>1. FileLen' = FileLen
    BY <1>1, FileStays
  <2> QED BY <1>1, <2>1 DEF RecTypes, Unchanging
<1>3. CASE Over
  <2>1. Over'
    BY <1>1, <1>3, OverStays
  <2> QED BY <1>2, <2>1 DEF RecInv
<1>4. ASSUME NEW k \in 0..Len(recs), ReadUpTo(k) PROVE RecInv'
  <2>1. Bounds(k)
    BY <1>1, BoundsAre
  <2>2. First = 1 /\ First' = 1
    BY <1>1 DEF First
  <2>3. HoldsRest(k)'
    BY <1>1, <1>4, <2>2, FileStays DEF ReadUpTo, HoldsRest, Junk
  <2>4. k = Len(recs) \/ Blocks(k + 1)
    <3>0. HoldsRest(k)
      BY <1>4 DEF ReadUpTo
    <3>0a. k = Len(recs) \/ k < Len(recs)
      BY <1>1, <3>0, NumbersAre
    <3> SUFFICES ASSUME k < Len(recs), ~Blocks(k + 1) PROVE FALSE
      BY <3>0a
    <3>1. got < End(k + 1)
      BY <1>1, <1>4 DEF ReadUpTo, FilledUp
    <3>2. /\ End(k + 1) = Done(k) + Lead(k) + recs[k + 1].size /\ End(k + 1) < FileLen
          /\ recs[k + 1].size + Lead(k) <= RecordBuf - 1 /\ recs[k + 1].size \in Nat
      BY <1>1, NextIs
    <3>3. Done(k) \in Nat /\ Lead(k) \in {0, 1} /\ got \in Nat /\ RecordBuf \in Nat /\ FileLen \in Nat /\ len \in Nat
          /\ got = Done(k) + len
      BY <1>1, <3>0, NumbersAre
    <3>4. Room = 0 \/ got = FileLen
      BY <1>1
    <3>5. Room = 0 => len = RecordBuf - 1
      <4>1. Room = RecordBuf - 1 - len
        BY DEF Room
      <4> QED BY ONLY <3>3, <4>1
    <3>6. PICK s \in Nat, d \in Nat, l \in Nat : s = recs[k + 1].size /\ d = Done(k) /\ l = Lead(k)
      <4>1. Lead(k) \in Nat
        BY ONLY <3>3
      <4> QED BY ONLY <3>2, <3>3, <4>1
    <3>7. d + l + s < FileLen /\ s + l <= RecordBuf - 1 /\ got = d + len /\ got < d + l + s
      BY ONLY <3>1, <3>2, <3>3, <3>6
    <3>8. RecordBuf \in Nat /\ FileLen \in Nat /\ got \in Nat /\ len \in Nat /\ s \in Nat /\ d \in Nat /\ l \in Nat
      BY <3>3
    <3>9. got # FileLen
      BY ONLY <3>7, <3>8
    <3>10. len # RecordBuf - 1
      BY ONLY <3>7, <3>8
    <3> QED BY ONLY <3>4, <3>5, <3>9, <3>10
  <2>5. FilledUp(k)'
    BY <1>1, <2>4, FileStays DEF FilledUp, Unchanging
  <2>6. ~Long => Clean'
    <3> SUFFICES ASSUME ~Long PROVE Clean'
      OBVIOUS
    <3>1. Clean
      BY <1>4 DEF ReadUpTo
    <3>2. FileLen' = FileLen
      BY <1>1, FileStays
    <3> QED BY <1>1, <3>1, <3>2 DEF Clean, Junk
  <2>7. ReadUpTo(k)'
    <3>1. Passes(k)' /\ HandledAre(k, handled)' /\ Len(handled') = Cardinality(Good(k))'
      BY <1>1, <1>4, FileStays DEF ReadUpTo, HandledAre
    <3> QED BY <1>1, <2>3, <2>5, <2>6, <3>1, FileStays DEF ReadUpTo
  <2>8. k \in 0..Len(recs')
    BY <1>1 DEF Unchanging
  <2> QED BY <1>2, <2>7, <2>8 DEF RecInv
<1> QED BY <1>3, <1>4 DEF RecInv

LEMMA AssertFieldInv == ASSUME RecInv, AssertField PROVE RecInv'
<1>1. /\ RecTypes /\ loop = "parse" /\ loop' = "abort" /\ len > 0 /\ Unchanging
      /\ got' = got /\ buf' = buf /\ len' = len /\ p' = p /\ handled' = handled
  BY DEF RecInv, AssertField, Unchanging
<1>2. RecTypes'
  <2>1. FileLen' = FileLen
    BY <1>1, FileStays
  <2> QED BY <1>1, <2>1 DEF RecTypes, Unchanging
<1>3. ~Over
  <2>1. ~(len < 0)
    BY <1>1 DEF RecTypes
  <2> QED BY <2>1 DEF Over
<1>4. PICK k \in 0..Len(recs) : ReadUpTo(k)
  BY <1>3 DEF RecInv
<1>5. First = p /\ First' = p
  BY <1>1 DEF First
<1>6. HoldsRest(k)'
  BY <1>1, <1>4, <1>5, FileStays DEF ReadUpTo, HoldsRest, Junk
<1>7. FilledUp(k)'
  BY <1>1 DEF FilledUp
<1>8. ~Long => Clean'
  <2> SUFFICES ASSUME ~Long PROVE Clean'
    OBVIOUS
  <2>1. Clean
    BY <1>4 DEF ReadUpTo
  <2>2. FileLen' = FileLen
    BY <1>1, FileStays
  <2> QED BY <1>1, <2>1, <2>2 DEF Clean, Junk
<1>9. ReadUpTo(k)'
  <2>1. Passes(k)' /\ HandledAre(k, handled)' /\ Len(handled') = Cardinality(Good(k))'
    BY <1>1, <1>4, FileStays DEF ReadUpTo, HandledAre
  <2> QED BY <1>1, <1>6, <1>7, <1>8, <2>1, FileStays DEF ReadUpTo
<1>10. k \in 0..Len(recs')
  BY <1>1 DEF Unchanging
<1> QED BY <1>2, <1>9, <1>10 DEF RecInv

LEMMA RecordStutterInv == ASSUME RecInv, UNCHANGED readVars PROVE RecInv'
<1>1. /\ loop' = loop /\ Unchanging /\ recs' = recs
      /\ got' = got /\ buf' = buf /\ len' = len /\ p' = p /\ handled' = handled
  BY DEF readVars, Unchanging
<1>2. RecTypes' /\ First' = First
  <2>1. FileLen' = FileLen
    BY <1>1, FileStays
  <2>2. First' = First
    BY <1>1 DEF First
  <2> QED BY <1>1, <2>1, <2>2 DEF RecInv, RecTypes, Unchanging
<1>3. Over => Over'
  BY <1>1, OverStays
<1>4. ASSUME NEW k \in 0..Len(recs), ReadUpTo(k) PROVE ReadUpTo(k)'
  <2>1. HoldsRest(k)'
    BY <1>1, <1>2, <1>4, FileStays DEF ReadUpTo, HoldsRest, Junk
  <2>2. FilledUp(k)'
    BY <1>1, <1>2, <1>4, FileStays DEF ReadUpTo, FilledUp
  <2>3. Clean => Clean'
    BY <1>1, FileStays DEF Clean, Junk
  <2>4. Passes(k)' /\ HandledAre(k, handled)' /\ Len(handled') = Cardinality(Good(k))'
    BY <1>1, <1>4, FileStays DEF ReadUpTo, HandledAre
  <2> QED BY <1>1, <1>4, <2>1, <2>2, <2>3, <2>4, FileStays DEF ReadUpTo
<1> QED BY <1>1, <1>2, <1>3, <1>4 DEF RecInv

\* The record behind k parses at one place, once it is read.
LeadsTo(k, s) ==
    /\ s = First + Lead(k) /\ s \in Starts(First)
    /\ \A t \in Starts(First) : t = s
LEMMA OneStart ==
  ASSUME RecTypes, NEW k \in 0..Len(recs), HoldsRest(k), k < Len(recs), len > Lead(k)
  PROVE  LeadsTo(k, First + Lead(k)) /\ buf[First + Lead(k)] = Begin(k + 1)
<1>1. Bounds(k) /\ SizeOK
  BY BoundsAre
<1>2. PICK s \in Nat : s = First + Lead(k)
  BY <1>1 DEF Bounds
<1>3. /\ RecordBuf \in Nat /\ First \in Nat \ {0} /\ Lead(k) \in {0, 1} /\ len \in Nat /\ First + len <= RecordBuf
      /\ Done(k) \in Nat
  BY <1>1 DEF Bounds, HoldsRest, Behind
<1>4. s \in First..RecordBuf
  BY ONLY <1>2, <1>3, len > Lead(k)
<1>5. buf[s] = Begin(k + 1)
  <2>1. Lead(k) \in 0..(len - 1)
    BY <1>3
  <2>2. buf[First + Lead(k)] = Done(k) + Lead(k) + 1
    BY <2>1 DEF HoldsRest
  <2>3. Begin(k + 1) = Done(k) + Lead(k) + 1
    BY <1>1 DEF Bounds, Behind
  <2> QED BY <1>2, <2>2, <2>3
<1>6. ~Newline(buf[s])
  <2>1. k + 1 \in 1..Len(recs)
    BY <1>1 DEF Bounds
  <2>2. ~Newline(Begin(k + 1))
    BY <1>1, <2>1, LayoutIs, PlacesDiffer
  <2> QED BY <1>5, <2>2
<1>7. \A i \in First..(s - 1) : Newline(buf[i])
  <2> SUFFICES ASSUME NEW i \in First..(s - 1) PROVE Newline(buf[i])
    OBVIOUS
  <2>1. Lead(k) = 1 /\ i = First /\ 0 \in 0..(len - 1)
    BY <1>2, <1>3
  <2>2. buf[First] = Done(k) + 1
    <3>1. buf[First + 0] = Done(k) + 0 + 1
      BY <2>1 DEF HoldsRest
    <3> QED BY <1>3, <3>1
  <2>3. k > 0
    BY <1>1, <2>1 DEF Lead, Bounds
  <2>4. Newline(Done(k) + 1)
    BY <1>1, <2>3 DEF Bounds, Behind
  <2> QED BY <2>1, <2>2, <2>4
<1>8. s \in Starts(First)
  BY <1>4, <1>6, <1>7 DEF Starts
<1>9. ASSUME NEW t \in Starts(First) PROVE t = s
  <2>1. t \in First..RecordBuf /\ ~Newline(buf[t]) /\ \A i \in First..(t - 1) : Newline(buf[i])
    BY DEF Starts
  <2>2. t \notin First..(s - 1)
    BY <1>7, <2>1
  <2>3. s \notin First..(t - 1)
    BY <1>6, <2>1
  <2> QED BY <1>2, <1>3, <1>4, <2>1, <2>2, <2>3
<1> QED BY <1>2, <1>5, <1>8, <1>9 DEF LeadsTo

\* What is left when nothing more can be taken is not a record that fits.
LEMMA NotYetRead ==
  ASSUME RecTypes, NEW k \in 0..Len(recs), HoldsRest(k), k < Len(recs), ~Blocks(k + 1), loop = "parse",
         len > 0 => \A s \in Starts(p), r \in DOMAIN recs : ~Taken(s, r)
  PROVE  got < End(k + 1)
<1> SUFFICES ASSUME got >= End(k + 1) PROVE FALSE
  <2>1. Bounds(k) /\ SizeOK
    BY BoundsAre
  <2>2. k + 1 \in 1..Len(recs) /\ got \in Nat
    BY <2>1 DEF Bounds
  <2>3. End(k + 1) \in Nat
    BY <2>1, <2>2, LayoutIs, PlacesDiffer
  <2> QED BY <2>2, <2>3
<1>1. Bounds(k) /\ SizeOK
  BY BoundsAre
<1>2. First = p
  BY DEF First
<1>3. /\ RecordBuf \in Nat /\ p \in Nat \ {0} /\ Lead(k) \in {0, 1} /\ len \in Nat /\ p + len <= RecordBuf
      /\ Done(k) \in Nat /\ got = Done(k) + len /\ k + 1 \in DOMAIN recs
      /\ End(k + 1) = Done(k) + Lead(k) + recs[k + 1].size
  BY <1>2, NumbersAre, NextIs
<1>4. PICK z : z \in Nat \ {0} /\ z = recs[k + 1].size
  BY NextIs
<1>5. len >= Lead(k) + z /\ len > Lead(k) /\ len > 0
  BY ONLY <1>3, <1>4, got >= End(k + 1), SMTT(20)
<1>6. PICK s : s \in Nat /\ s = p + Lead(k)
  BY <1>3
<1>6a. PICK l, d : l = Lead(k) /\ d = Done(k)
  OBVIOUS
<1>6b. l \in Nat /\ d \in Nat /\ p \in Nat \ {0} /\ z \in Nat \ {0} /\ s = p + l /\ len \in Nat /\ len >= l + z
       /\ p + len <= RecordBuf /\ RecordBuf \in Nat
  BY <1>3, <1>4, <1>5, <1>6, <1>6a, SMTT(20)
<1>7. s \in Starts(p)
  BY <1>2, <1>5, <1>6, OneStart DEF LeadsTo
<1>8. Parses(s, k + 1)
  <2>1. recs[k + 1].kind # "torn"
    BY DEF Blocks
  <2>2. s + z - 1 <= RecordBuf
    BY ONLY <1>6b
  <2>3. ASSUME NEW i \in 0..(z - 1) PROVE buf[s + i] = Begin(k + 1) + i
    <3>1. l + i \in 0..(len - 1) /\ s + i = p + (l + i) /\ i \in Nat
      BY ONLY <1>6b, i \in 0..(z - 1)
    <3>2. buf[p + (l + i)] = d + (l + i) + 1
      BY <1>2, <1>6a, <3>1 DEF HoldsRest
    <3>3. Begin(k + 1) = d + l + 1
      BY <1>6a, NextIs
    <3>4. d + (l + i) + 1 = (d + l + 1) + i
      BY ONLY <1>6b, <3>1
    <3> QED BY <3>1, <3>2, <3>3, <3>4
  <2> QED BY <1>4, <2>1, <2>2, <2>3 DEF Parses
<1>9. Taken(s, k + 1)
  BY <1>8 DEF Taken, Blocks
<1> QED BY <1>3, <1>5, <1>7, <1>9

LEMMA MoveRestInv == ASSUME RecInv, MoveRest PROVE RecInv'
<1>1. /\ RecTypes /\ loop = "parse" /\ loop' = "read" /\ Unchanging /\ recs' = recs
      /\ got' = got /\ len' = len /\ p' = p /\ handled' = handled
      /\ len > 0 => \A s \in Starts(p), r \in DOMAIN recs : ~Taken(s, r)
      /\ buf' = [i \in 1..RecordBuf |-> IF i <= len THEN buf[p + i - 1] ELSE buf[i]]
  BY DEF RecInv, MoveRest, Unchanging
<1>2. /\ First = p /\ First' = 1 /\ FileLen' = FileLen /\ len \in Int /\ p \in Nat \ {0}
      /\ buf \in [1..RecordBuf -> Nat] /\ RecordBuf \in Nat /\ RecordBuf >= 2
  BY <1>1, FileStays, RecordAssumption DEF First, RecTypes
<1>3. ASSUME p + len <= RecordBuf \/ len < 0
      PROVE  RecTypes'
  <2>1. ASSUME NEW i \in 1..RecordBuf
        PROVE  (IF i <= len THEN buf[p + i - 1] ELSE buf[i]) \in Nat
    <3>1. i <= len => p + i - 1 \in 1..RecordBuf
      BY ONLY <1>2, <1>3, i \in 1..RecordBuf
    <3> QED BY <1>2, <3>1
  <2>2. buf' \in [1..RecordBuf -> Nat]
    BY <1>1, <2>1
  <2> QED BY <1>1, <1>2, <2>2 DEF RecTypes, Unchanging
<1>4. CASE Over
  <2>1. Over'
    BY <1>1, <1>4, OverStays
  <2>2. len < 0
    BY <1>4 DEF Over
  <2> QED BY <1>3, <2>1, <2>2 DEF RecInv
<1>5. ASSUME NEW k \in 0..Len(recs), ReadUpTo(k) PROVE RecInv'
  <2>1. HoldsRest(k)
    BY <1>5 DEF ReadUpTo
  <2>2. PICK d : d = Done(k)
    OBVIOUS
  <2>3. d \in Nat /\ len \in Nat /\ p + len <= RecordBuf /\ got = d + len
    BY <1>1, <1>2, <2>1, <2>2, NumbersAre
  <2>4. RecTypes'
    BY <1>3, <2>3
  <2>5. \A i \in 1..RecordBuf : buf'[i] = IF i <= len THEN buf[p + i - 1] ELSE buf[i]
    BY <1>1
  <2>6. 1 + len <= RecordBuf
    BY ONLY <1>2, <2>3
  <2>7. ASSUME NEW i \in 0..(len - 1) PROVE buf'[1 + i] = d + i + 1
    <3>1. 1 + i \in 1..RecordBuf /\ 1 + i <= len /\ p + (1 + i) - 1 = p + i
      BY ONLY <1>2, <2>3, <2>6, i \in 0..(len - 1)
    <3>2. buf'[1 + i] = buf[p + i]
      BY <2>5, <3>1
    <3>3. buf[p + i] = d + i + 1
      BY <1>2, <2>1, <2>2 DEF HoldsRest
    <3> QED BY <3>2, <3>3
  <2>8. buf'[RecordBuf] = Junk
    <3>1. RecordBuf \in 1..RecordBuf /\ ~(RecordBuf <= len)
      BY ONLY <1>2, <2>3, <2>6
    <3>2. buf[RecordBuf] = Junk
      BY <2>1 DEF HoldsRest
    <3> QED BY <2>5, <3>1, <3>2
  <2>9. HoldsRest(k)'
    <3>1. d = Done(k)'
      BY <1>1, <2>2, FileStays
    <3> QED BY <1>1, <1>2, <2>3, <2>6, <2>7, <2>8, <3>1 DEF HoldsRest, Junk
  <2>10. FilledUp(k)'
    <3>1. k < Len(recs) /\ ~Blocks(k + 1) => got < End(k + 1)
      BY <1>1, <2>1, NotYetRead
    <3> QED BY <1>1, <3>1, FileStays DEF FilledUp
  <2>11. ~Long => Clean'
    <3> SUFFICES ASSUME ~Long PROVE Clean'
      OBVIOUS
    <3>1. Clean
      BY <1>5 DEF ReadUpTo
    <3>2. CASE got = FileLen
      BY <1>1, <1>2, <3>2 DEF Clean
    <3>3. CASE got = 0 /\ len = 0 /\ \A i \in 1..RecordBuf : buf[i] = Junk
      <4>1. \A i \in 1..RecordBuf : ~(i <= len)
        BY <3>3
      <4>2. \A i \in 1..RecordBuf : buf'[i] = Junk
        BY <2>5, <3>3, <4>1
      <4> QED BY <1>1, <3>3, <4>2 DEF Clean, Junk
    <3> QED BY <3>1, <3>2, <3>3 DEF Clean
  <2>12. ReadUpTo(k)'
    <3>1. Passes(k)' /\ HandledAre(k, handled)' /\ Len(handled') = Cardinality(Good(k))'
      BY <1>1, <1>5, FileStays DEF ReadUpTo, HandledAre
    <3> QED BY <1>1, <2>9, <2>10, <2>11, <3>1, FileStays DEF ReadUpTo
  <2>13. k \in 0..Len(recs')
    BY <1>1
  <2> QED BY <2>4, <2>12, <2>13 DEF RecInv
<1> QED BY <1>4, <1>5 DEF RecInv

-----------------------------------------------------------------------------
\* A record more is done, and handled if it is good.
LEMMA GoodNext ==
  ASSUME SizeOK, NEW k \in 0..Len(recs)
  PROVE  /\ IsFiniteSet(Good(k)) /\ Cardinality(Good(k)) \in Nat
         /\ k < Len(recs) => IF recs[k + 1].kind = "good"
                               THEN Good(k + 1) = Good(k) \cup {k + 1} /\ Cardinality(Good(k + 1)) = Cardinality(Good(k)) + 1
                               ELSE Good(k + 1) = Good(k)
<1>1. Len(recs) \in Nat /\ k \in Nat /\ k + 1 \notin Good(k)
  BY DEF SizeOK, Good
<1>2. IsFiniteSet(1..k) /\ Good(k) \subseteq 1..k
  BY <1>1, FS_Interval DEF Good
<1>3. IsFiniteSet(Good(k)) /\ Cardinality(Good(k)) \in Nat
  BY <1>2, FS_Subset, FS_CardinalityType
<1>4. Good(k + 1) = IF recs[k + 1].kind = "good" THEN Good(k) \cup {k + 1} ELSE Good(k)
  <2>1. 1..(k + 1) = 1..k \cup {k + 1}
    BY <1>1
  <2> QED BY <2>1, Zenon DEF Good
<1>5. Cardinality(Good(k) \cup {k + 1}) = Cardinality(Good(k)) + 1
  BY <1>1, <1>3, FS_AddElement
<1> QED BY <1>3, <1>4, <1>5

LEMMA HandledMore ==
  ASSUME NEW h \in Seq(DOMAIN recs), NEW x \in DOMAIN recs, NEW k, HandledAre(k, h), Cardinality(Good(k)) \in Nat
  PROVE  HandledAre(k, Append(h, x)) /\ Append(h, x) \in Seq(DOMAIN recs) /\ Len(Append(h, x)) = Len(h) + 1
<1>1. PICK g : g = Append(h, x)
  OBVIOUS
<1>2. /\ g \in Seq(DOMAIN recs) /\ Len(h) \in Nat /\ Len(g) = Len(h) + 1
      /\ \A i \in 1..Len(h) : g[i] = h[i]
  BY <1>1
<1>3. PICK c : c \in Nat /\ c = Cardinality(Good(k))
  OBVIOUS
<1>4. c <= Len(h) /\ \A i \in 1..c : h[i] \in Good(k) /\ Cardinality(Good(h[i])) = i
  BY <1>3 DEF HandledAre
<1>5. c <= Len(g) /\ \A i \in 1..c : g[i] = h[i]
  BY <1>2, <1>3, <1>4
<1>6. \A i \in 1..c : g[i] \in Good(k) /\ Cardinality(Good(g[i])) = i
  BY <1>4, <1>5
<1>7. HandledAre(k, g)
  BY <1>3, <1>5, <1>6 DEF HandledAre
<1> QED BY <1>1, <1>2, <1>7

LEMMA HandledNext ==
  ASSUME SizeOK, NEW k \in 0..Len(recs), k < Len(recs), recs[k + 1].kind # "torn",
         NEW h \in Seq(DOMAIN recs), HandledAre(k, h), Len(h) = Cardinality(Good(k)),
         NEW g, g = IF recs[k + 1].kind = "odd" THEN h ELSE Append(h, k + 1)
  PROVE  HandledAre(k + 1, g) /\ Len(g) = Cardinality(Good(k + 1)) /\ g \in Seq(DOMAIN recs)
<1>1. k + 1 \in DOMAIN recs /\ k \in Nat
  BY DEF SizeOK
<1>2. recs[k + 1].kind \in {"good", "odd"}
  BY <1>1, RecordIs
<1>3. CASE recs[k + 1].kind = "odd"
  <2>1. Good(k + 1) = Good(k)
    BY <1>3, GoodNext
  <2>2. g = h
    BY <1>3
  <2> QED BY <2>1, <2>2 DEF HandledAre
<1>4. CASE recs[k + 1].kind = "good"
  <2>1. PICK c : c \in Nat /\ c = Cardinality(Good(k))
    BY GoodNext
  <2>2. Good(k + 1) = Good(k) \cup {k + 1} /\ Cardinality(Good(k + 1)) = c + 1
    BY <1>4, <2>1, GoodNext
  <2>3. g = Append(h, k + 1)
    BY <1>4
  <2>4. HandledAre(k, g) /\ g \in Seq(DOMAIN recs) /\ Len(g) = c + 1 /\ g[c + 1] = k + 1
    <3>1. HandledAre(k, g) /\ g \in Seq(DOMAIN recs) /\ Len(g) = Len(h) + 1
      BY <1>1, <2>1, <2>3, HandledMore
    <3>2. g[Len(h) + 1] = k + 1
      BY <2>3
    <3> QED BY <2>1, <3>1, <3>2
  <2>5. \A i \in 1..c : g[i] \in Good(k) /\ Cardinality(Good(g[i])) = i
    BY <2>1, <2>4 DEF HandledAre
  <2>6. ASSUME NEW i \in 1..(c + 1) PROVE g[i] \in Good(k + 1) /\ Cardinality(Good(g[i])) = i
    <3>1. CASE i = c + 1
      BY <2>2, <2>4, <3>1
    <3>2. CASE i # c + 1
      <4>1. i \in 1..c
        BY <2>1, <3>2
      <4> QED BY <2>2, <2>5, <4>1
    <3> QED BY <3>1, <3>2
  <2>7. c + 1 <= Len(g)
    BY <2>1, <2>4
  <2>8. HandledAre(k + 1, g)
    BY <2>2, <2>6, <2>7 DEF HandledAre
  <2> QED BY <2>2, <2>4, <2>8
<1> QED BY <1>2, <1>3, <1>4

\* The record taken is the next one, and all of it has been read.
LEMMA TakesNext ==
  ASSUME RecTypes, NEW k \in 0..Len(recs), ReadUpTo(k), k < Len(recs), loop = "parse", len > 0,
         NEW s \in Starts(p), NEW r \in DOMAIN recs, Taken(s, r)
  PROVE  /\ r = k + 1 /\ s = p + Lead(k) /\ ~Blocks(k + 1) /\ recs[k + 1].kind # "torn"
         /\ Lead(k) + recs[k + 1].size <= len
<1>1. HoldsRest(k) /\ FilledUp(k) /\ SizeOK /\ First = p
  BY DEF ReadUpTo, RecTypes, SizeOK, First
<1>2. PICK l, d, z : l = Lead(k) /\ d = Done(k) /\ z = recs[k + 1].size
  OBVIOUS
<1>3. /\ RecordBuf \in Nat /\ FileLen \in Nat /\ got \in Nat /\ p \in Nat \ {0} /\ l \in {0, 1} /\ d \in Nat
      /\ len \in Nat /\ p + len <= RecordBuf /\ got = d + len /\ k \in Nat
  BY <1>1, <1>2, NumbersAre
<1>4. /\ k + 1 \in 1..Len(recs) /\ z \in Nat \ {0} /\ Begin(k + 1) = d + l + 1
      /\ End(k + 1) = d + l + z /\ End(k + 1) < FileLen
  BY <1>2, NextIs
<1>5. got = FileLen \/ p + len = RecordBuf
  BY <1>1 DEF FilledUp
<1>6. buf[RecordBuf] = 0 /\ \A i \in 0..(len - 1) : buf[p + i] = d + i + 1
  BY <1>1, <1>2 DEF HoldsRest, Junk
<1>7. Layout(Len(recs)) /\ DOMAIN recs = 1..Len(recs)
  BY <1>1, LayoutIs DEF Layout
<1>8. Begin(r) \in Nat \ {0} /\ recs[r].size \in Nat \ {0}
  BY <1>7 DEF Layout
<1>9. recs[r].kind # "torn" /\ (recs[r].kind = "odd" => program = "merge")
      /\ \A i \in 0..(recs[r].size - 1) : buf[s + i] = Begin(r) + i
  BY DEF Taken, Parses
<1>10. s \in Nat /\ s \in p..RecordBuf /\ ~Newline(buf[s])
  BY <1>3 DEF Starts
<1>11. buf[s] = Begin(r)
  <2>1. 0 \in 0..(recs[r].size - 1) /\ s + 0 = s /\ Begin(r) + 0 = Begin(r)
    BY ONLY <1>8, <1>10
  <2> QED BY <1>9, <2>1
<1>12. len > l
  <2> SUFFICES ASSUME len <= l PROVE FALSE
    BY <1>3
  <2>1. len = 1 /\ l = 1
    BY ONLY <1>3, len <= l, len > 0
  <2>2. got # FileLen
    BY ONLY <1>3, <1>4, <2>1
  <2>3. p + 1 = RecordBuf
    BY <1>5, <2>1, <2>2
  <2>4. buf[p] = d + 1
    <3>1. 0 \in 0..(len - 1) /\ p + 0 = p /\ d + 0 + 1 = d + 1
      BY ONLY <1>3, <2>1
    <3> QED BY <1>6, <3>1
  <2>5. Newline(buf[p])
    <3>1. k > 0
      BY <1>2, <1>3, <2>1 DEF Lead
    <3>2. Behind(k)
      BY <1>1, BehindDone
    <3> QED BY <1>2, <2>4, <3>1, <3>2 DEF Behind
  <2>6. s = RecordBuf
    <3>1. s # p
      BY <1>10, <2>5
    <3> QED BY ONLY <1>3, <1>10, <2>3, <3>1
  <2> QED BY <1>6, <1>8, <1>11, <2>6
<1>13. s = p + l /\ buf[s] = Begin(k + 1)
  <2>1. LeadsTo(k, p + l) /\ buf[p + l] = Begin(k + 1)
    BY <1>1, <1>2, <1>12, OneStart
  <2>2. s = p + l
    BY <1>1, <2>1 DEF LeadsTo
  <2> QED BY <2>1, <2>2
<1>14. r = k + 1
  <2>1. r \in 1..Len(recs) /\ Begin(r) = Begin(k + 1)
    BY <1>7, <1>11, <1>13
  <2> QED BY <1>4, <1>7, <2>1, PlacesDiffer
<1>15. l + z <= len
  <2> SUFFICES ASSUME len < l + z PROVE FALSE
    BY <1>3, <1>4
  <2>1. PICK i : i \in Int /\ i = len - l
    BY <1>3
  <2>2. i \in 0..(z - 1) /\ s + i = p + len /\ (d + l + 1) + i = got + 1
    BY ONLY <1>3, <1>4, <1>12, <1>13, <2>1, len < l + z
  <2>3. buf[p + len] = got + 1
    <3>1. buf[s + i] = Begin(k + 1) + i
      BY <1>2, <1>9, <1>14, <2>2
    <3> QED BY <1>4, <2>2, <3>1
  <2>4. got # FileLen
    BY ONLY <1>3, <1>4, len < l + z
  <2>5. buf[p + len] = 0
    BY <1>5, <1>6, <2>4
  <2> QED BY <1>3, <2>3, <2>5
<1>16. ~Blocks(k + 1)
  <2>1. (IF k + 1 = 1 THEN 0 ELSE 1) = l
    BY <1>2, <1>3 DEF Lead
  <2>2. ~(z + l > RecordBuf - 1)
    BY ONLY <1>3, <1>4, <1>15
  <2> QED BY <1>2, <1>9, <1>14, <2>1, <2>2 DEF Blocks
<1> QED BY <1>2, <1>9, <1>13, <1>14, <1>15, <1>16

\* Behind the last record only a stale one can be taken, in a long file.
LEMMA TakesStale ==
  ASSUME RecTypes, ReadUpTo(Len(recs)), loop = "parse", len > 0,
         NEW s \in Starts(p), NEW r \in DOMAIN recs, Taken(s, r)
  PROVE  Long /\ got = FileLen /\ len = 1 /\ p < s /\ s \in Nat
<1>1. PICK k : k = Len(recs)
  OBVIOUS
<1>2. k \in 0..Len(recs) /\ HoldsRest(k) /\ SizeOK /\ First = p /\ (~Long => Clean)
  BY <1>1 DEF ReadUpTo, RecTypes, SizeOK, First
<1>3. PICK l, d : l = Lead(k) /\ d = Done(k)
  OBVIOUS
<1>4. /\ RecordBuf \in Nat /\ FileLen \in Nat /\ got \in Nat /\ got <= FileLen /\ p \in Nat \ {0} /\ l \in {0, 1} /\ d \in Nat
      /\ len \in Nat /\ p + len <= RecordBuf /\ got = d + len /\ k \in Nat
  BY <1>2, <1>3, NumbersAre
<1>5. Behind(k)
  BY <1>2, BehindDone
<1>6. FileLen = d + l
  BY <1>1, <1>3, <1>5 DEF Behind
<1>7. len = 1 /\ l = 1 /\ got = FileLen
  BY ONLY <1>4, <1>6, len > 0
<1>8. s \in Nat /\ s \in p..RecordBuf /\ ~Newline(buf[s])
  BY <1>4 DEF Starts
<1>9. Newline(buf[p])
  <2>1. k > 0
    BY <1>3, <1>4, <1>7 DEF Lead
  <2>2. 0 \in 0..(len - 1) /\ p + 0 = p /\ d + 0 + 1 = d + 1
    BY ONLY <1>4, <1>7
  <2>3. buf[p + 0] = d + 0 + 1
    BY <1>2, <1>3, <2>2 DEF HoldsRest
  <2> QED BY <1>3, <1>5, <2>1, <2>2, <2>3 DEF Behind
<1>10. p < s
  <2>1. s # p
    BY <1>8, <1>9
  <2> QED BY ONLY <1>4, <1>8, <2>1
<1>11. Long
  <2> SUFFICES ASSUME ~Long PROVE FALSE
    OBVIOUS
  <2>1. s \in (p + len)..RecordBuf
    BY ONLY <1>4, <1>7, <1>8, <1>10
  <2>2. len # 0
    BY <1>7
  <2>3. buf[s] = 0
    BY <1>2, <2>1, <2>2 DEF Clean, Junk
  <2>4. Begin(r) \in Nat \ {0} /\ recs[r].size \in Nat \ {0}
    BY <1>2, LayoutIs DEF Layout
  <2>5. 0 \in 0..(recs[r].size - 1) /\ s + 0 = s /\ Begin(r) + 0 = Begin(r)
    BY ONLY <1>8, <2>4
  <2>6. buf[s + 0] = Begin(r) + 0
    BY <2>5 DEF Taken, Parses
  <2> QED BY <2>3, <2>4, <2>5, <2>6
<1> QED BY <1>7, <1>8, <1>10, <1>11

LEMMA HandleInv == ASSUME RecInv, Handle PROVE RecInv'
<1>1. /\ RecTypes /\ loop = "parse" /\ loop' = "parse" /\ len > 0 /\ Unchanging /\ recs' = recs
      /\ got' = got /\ buf' = buf
  BY DEF RecInv, Handle, Unchanging
<1>2. PICK s \in Starts(p), r \in DOMAIN recs :
         /\ Taken(s, r)
         /\ handled' = IF recs[r].kind = "odd" THEN handled ELSE Append(handled, r)
         /\ len' = len - (s + recs[r].size - p)
         /\ p' = s + recs[r].size
  BY DEF Handle
<1>3. ~Over
  <2>1. ~(len < 0)
    BY <1>1 DEF RecTypes
  <2> QED BY <2>1 DEF Over
<1>4. PICK k \in 0..Len(recs) : ReadUpTo(k)
  BY <1>3 DEF RecInv
<1>5. HoldsRest(k) /\ FilledUp(k) /\ SizeOK /\ First = p /\ First' = p' /\ (~Long => Clean)
      /\ Passes(k) /\ HandledAre(k, handled) /\ Len(handled) = Cardinality(Good(k)) /\ handled \in Seq(DOMAIN recs)
  BY <1>1, <1>4 DEF ReadUpTo, RecTypes, SizeOK, First
<1>6. /\ RecordBuf \in Nat /\ FileLen \in Nat /\ got \in Nat /\ got <= FileLen /\ p \in Nat \ {0}
      /\ len \in Nat /\ p + len <= RecordBuf /\ k \in Nat /\ k <= Len(recs) /\ Len(recs) \in Nat
  BY <1>1, <1>5, NumbersAre
<1>7. FileLen' = FileLen
  BY <1>1, FileStays
<1>8. ASSUME handled' \in Seq(DOMAIN recs), p' \in Nat \ {0}, len' \in Int
      PROVE  RecTypes'
  BY <1>1, <1>7, <1>8 DEF RecTypes, Unchanging
<1>9. CASE k < Len(recs)
  <2>1. /\ r = k + 1 /\ s = p + Lead(k) /\ ~Blocks(k + 1) /\ recs[k + 1].kind # "torn"
        /\ Lead(k) + recs[k + 1].size <= len
    BY <1>1, <1>2, <1>4, <1>9, TakesNext
  <2>2. PICK l, d, z, e : l = Lead(k) /\ d = Done(k) /\ z = recs[k + 1].size /\ e = l + z
    OBVIOUS
  <2>3. l \in {0, 1} /\ d \in Nat /\ z \in Nat \ {0} /\ got = d + len /\ End(k + 1) = d + l + z
    BY <1>1, <1>5, <1>9, <2>2, NumbersAre, NextIs
  <2>4. e \in Nat \ {0} /\ e <= len /\ e = l + z
    <3>1. e = l + z /\ l + z <= len
      BY <2>1, <2>2
    <3> QED BY ONLY <2>3, <3>1
  <2>5. len' = len - e /\ p' = p + e /\ End(k + 1) = d + e
    <3>1. s = p + l /\ len' = len - (s + z - p) /\ p' = s + z
      BY <1>2, <2>1, <2>2
    <3> QED BY ONLY <1>6, <2>3, <2>4, <3>1
  <2>6. HandledAre(k + 1, handled') /\ Len(handled') = Cardinality(Good(k + 1)) /\ handled' \in Seq(DOMAIN recs)
    BY <1>2, <1>5, <1>9, <2>1, HandledNext
  <2>7. RecTypes'
    <3>1. p + e \in Nat \ {0} /\ len - e \in Int
      BY ONLY <1>6, <2>4
    <3> QED BY <1>8, <2>5, <2>6, <3>1
  <2>8. Passes(k + 1)
    <3>1. 1..(k + 1) = 1..k \cup {k + 1} /\ k + 1 \in 0..Len(recs)
      BY <1>6, <1>9
    <3> QED BY <1>5, <2>1, <3>1 DEF Passes
  <2>9. Done(k + 1) = d + e
    BY <1>6, <2>5 DEF Done
  <2>10. HoldsRest(k + 1)'
    <3>1. Done(k + 1)' = d + e
      BY <1>1, <2>9, FileStays
    <3>2. len - e \in Nat /\ got = (d + e) + (len - e) /\ (p + e) + (len - e) <= RecordBuf
      BY ONLY <1>6, <2>3, <2>4
    <3>3. ASSUME NEW i \in 0..((len - e) - 1) PROVE buf[(p + e) + i] = (d + e) + i + 1
      <4>1. e + i \in 0..(len - 1) /\ p + (e + i) = (p + e) + i /\ d + (e + i) + 1 = (d + e) + i + 1
        BY ONLY <1>6, <2>3, <2>4, i \in 0..((len - e) - 1)
      <4>2. buf[p + (e + i)] = d + (e + i) + 1
        BY <1>5, <2>2, <4>1 DEF HoldsRest
      <4> QED BY <4>1, <4>2
    <3>4. buf[RecordBuf] = Junk
      BY <1>5 DEF HoldsRest
    <3>5. len' = len - e /\ First' = p + e /\ got' = got /\ buf' = buf
      BY <1>1, <1>5, <2>5
    <3> QED BY <3>1, <3>2, <3>3, <3>4, <3>5 DEF HoldsRest, Junk
  <2>11. First' + len' = p + len
    <3>1. (p + e) + (len - e) = p + len
      BY ONLY <1>6, <2>4
    <3> QED BY <1>5, <2>5, <3>1
  <2>12. FilledUp(k + 1)'
    <3>1. got = FileLen \/ p + len = RecordBuf
      BY <1>1, <1>5 DEF FilledUp
    <3> QED BY <1>1, <1>7, <2>11, <3>1 DEF FilledUp
  <2>13. ~Long => Clean'
    <3> SUFFICES ASSUME ~Long PROVE Clean'
      OBVIOUS
    <3>1. len # 0
      BY <1>1, <1>6
    <3>2. got = FileLen /\ \A i \in (p + len)..RecordBuf : buf[i] = Junk
      BY <1>1, <1>5, <3>1 DEF Clean
    <3>3. p' + len' = p + len
      BY <1>5, <2>11
    <3> QED BY <1>1, <1>7, <3>2, <3>3 DEF Clean, Junk
  <2>14. ReadUpTo(k + 1)'
    <3>1. Passes(k + 1)' /\ Good(k + 1)' = Good(k + 1) /\ Long' = Long
      BY <1>1, <2>8, FileStays
    <3>2. HandledAre(k + 1, handled)'
      <4>1. \A h : HandledAre(k + 1, h)' = HandledAre(k + 1, h)
        BY <1>1, FileStays
      <4> QED BY <1>1, <2>6, <3>1 DEF HandledAre, Good
    <3> QED BY <2>6, <2>10, <2>12, <2>13, <3>1, <3>2 DEF ReadUpTo
  <2>15. k + 1 \in 0..Len(recs')
    BY <1>1, <1>6, <1>9
  <2> QED BY <2>7, <2>14, <2>15 DEF RecInv
<1>10. CASE k = Len(recs)
  <2>1. Long /\ got = FileLen /\ len = 1 /\ p < s /\ s \in Nat
    BY <1>1, <1>2, <1>4, <1>10, TakesStale
  <2>2. PICK z : z = recs[r].size
    OBVIOUS
  <2>3. z \in Nat \ {0}
    BY <1>5, <2>2, RecordIs
  <2>4. p' = s + z /\ len' = len - (s + z - p)
    BY <1>2, <2>2
  <2>5. s + z \in Nat \ {0} /\ len - (s + z - p) \in Int /\ len - (s + z - p) < 0
    BY ONLY <1>6, <2>1, <2>3
  <2>6. PICK c : c \in Nat /\ c = Cardinality(Good(k))
    BY <1>5, GoodNext
  <2>7. HandledAre(k, handled') /\ Len(handled') <= c + 1 /\ handled' \in Seq(DOMAIN recs)
    <3>1. CASE recs[r].kind = "odd"
      BY <1>2, <1>5, <2>6, <3>1
    <3>2. CASE recs[r].kind # "odd"
      <4>1. handled' = Append(handled, r)
        BY <1>2, <3>2
      <4>2. HandledAre(k, handled') /\ handled' \in Seq(DOMAIN recs) /\ Len(handled') = Len(handled) + 1
        BY <1>5, <2>6, <4>1, HandledMore
      <4> QED BY <1>5, <2>6, <4>2
    <3> QED BY <3>1, <3>2
  <2>8. RecTypes'
    BY <1>8, <2>4, <2>5, <2>7
  <2>9. Over'
    <3>1. Long' = Long /\ Passes(k)' = Passes(k) /\ Good(k)' = Good(k)
      BY <1>1, FileStays
    <3>2. HandledAre(k, handled)'
      BY <1>1, <2>7 DEF HandledAre, Good
    <3>3. len' < 0
      BY <2>4, <2>5
    <3>4. k = Len(recs') /\ k \in 0..Len(recs')
      BY <1>1, <1>10
    <3>5. Len(handled') <= Cardinality(Good(k))' + 1
      BY <2>6, <2>7, <3>1
    <3>6. OverAt(k)'
      BY <1>5, <3>1, <3>2, <3>4, <3>5 DEF OverAt
    <3> QED BY <1>1, <1>7, <2>1, <3>1, <3>3, <3>4, <3>6 DEF Over
  <2> QED BY <2>8, <2>9 DEF RecInv
<1> QED BY <1>6, <1>9, <1>10

\* A torn record is the last, and what stands behind it is from a long file.
LEMMA HandleMixedInv == ASSUME RecInv, HandleMixed PROVE RecInv'
<1>1. /\ RecTypes /\ loop = "parse" /\ loop' = "parse" /\ len > 0 /\ Unchanging /\ recs' = recs
      /\ got' = got /\ buf' = buf
  BY DEF RecInv, HandleMixed, Unchanging
<1>2. PICK s \in Starts(p) : Mixed(s)
  BY DEF HandleMixed
<1>3. PICK e \in (p + len)..RecordBuf : p' = e + 1 /\ len' = len - (p' - p)
  BY DEF HandleMixed
<1>4. ~Over
  <2>1. ~(len < 0)
    BY <1>1 DEF RecTypes
  <2> QED BY <2>1 DEF Over
<1>5. PICK k \in 0..Len(recs) : ReadUpTo(k)
  BY <1>4 DEF RecInv
<1>6. HoldsRest(k) /\ SizeOK /\ First = p /\ (~Long => Clean)
      /\ Passes(k) /\ HandledAre(k, handled) /\ Len(handled) = Cardinality(Good(k)) /\ handled \in Seq(DOMAIN recs)
  BY <1>1, <1>5 DEF ReadUpTo, RecTypes, SizeOK, First
<1>7. /\ RecordBuf \in Nat /\ FileLen \in Nat /\ got \in Nat /\ p \in Nat \ {0}
      /\ len \in Nat /\ p + len <= RecordBuf /\ k \in Nat /\ k <= Len(recs) /\ Len(recs) \in Nat
      /\ Lead(k) \in {0, 1} /\ Done(k) \in Nat /\ got = Done(k) + len
  BY <1>1, <1>6, NumbersAre
<1>8. /\ got = FileLen /\ Len(recs) > 0 /\ recs[Len(recs)].kind = "torn"
      /\ buf[s] = Begin(Len(recs)) /\ buf[p + len] # Junk
  BY <1>2 DEF Mixed, Torn
<1>9. Blocks(Len(recs)) /\ k < Len(recs)
  <2>1. Blocks(Len(recs))
    BY <1>8 DEF Blocks
  <2>2. k # Len(recs)
    <3>1. k = Len(recs) => k \in 1..k
      BY <1>7, <1>8
    <3> QED BY <1>6, <2>1, <3>1 DEF Passes
  <2> QED BY <1>7, <2>1, <2>2
<1>10. k + 1 = Len(recs)
  <2>1. /\ k + 1 \in 1..Len(recs) /\ recs[k + 1].size \in Nat \ {0}
        /\ End(k + 1) = Done(k) + Lead(k) + recs[k + 1].size /\ End(k + 1) < FileLen
    BY <1>1, <1>9, NextIs
  <2>2. len > Lead(k)
    <3>1. PICK z \in Nat \ {0}, l \in {0, 1}, d \in Nat : z = recs[k + 1].size /\ l = Lead(k) /\ d = Done(k)
      BY <1>7, <2>1
    <3>2. d + l + z < d + len /\ len \in Nat
      BY <1>7, <1>8, <2>1, <3>1
    <3>3. z \in Nat \ {0} /\ l \in {0, 1} /\ d \in Nat
      BY <3>1
    <3>4. len > l
      BY ONLY <3>2, <3>3
    <3> QED BY <3>1, <3>4
  <2>3. LeadsTo(k, p + Lead(k)) /\ buf[p + Lead(k)] = Begin(k + 1)
    BY <1>1, <1>6, <1>9, <2>2, OneStart
  <2>4. s = p + Lead(k)
    BY <1>6, <2>3 DEF LeadsTo
  <2>5. Begin(k + 1) = Begin(Len(recs)) /\ Len(recs) \in 1..Len(recs)
    <3>1. Begin(k + 1) = Begin(Len(recs))
      BY <1>8, <2>3, <2>4
    <3> QED BY ONLY <1>7, <1>8, <3>1
  <2>6. Layout(Len(recs)) /\ DOMAIN recs = 1..Len(recs)
    BY <1>6, LayoutIs DEF Layout
  <2> QED BY <1>6, <2>1, <2>5, <2>6, PlacesDiffer
<1>11. Long
  <2> SUFFICES ASSUME ~Long PROVE FALSE
    OBVIOUS
  <2>1. p + len \in (p + len)..RecordBuf /\ len # 0
    BY <1>1, <1>7
  <2> QED BY <1>1, <1>6, <1>8, <2>1 DEF Clean
<1>12. p' \in Nat \ {0} /\ len' \in Int /\ len' < 0
  <2>1. e \in (p + len)..RecordBuf
    BY <1>3
  <2> QED BY ONLY <1>3, <1>7, <2>1
<1>13. PICK c : c \in Nat /\ c = Cardinality(Good(k))
  BY <1>6, GoodNext
<1>14. HandledAre(k, handled') /\ Len(handled') <= c + 1 /\ handled' \in Seq(DOMAIN recs)
  <2>1. CASE handled' = handled
    BY <1>6, <1>13, <2>1
  <2>2. CASE handled' = Append(handled, Len(recs))
    <3>1. Len(recs) \in DOMAIN recs
      BY <1>6, <1>7, <1>8 DEF SizeOK
    <3>2. HandledAre(k, handled') /\ handled' \in Seq(DOMAIN recs) /\ Len(handled') = Len(handled) + 1
      BY <1>6, <1>13, <2>2, <3>1, HandledMore
    <3> QED BY <1>6, <1>13, <3>2
  <2> QED BY <2>1, <2>2 DEF HandleMixed
<1>15. FileLen' = FileLen /\ Long' = Long /\ Good(k)' = Good(k) /\ Passes(k)' = Passes(k)
       /\ Blocks(k + 1)' = Blocks(k + 1)
  BY <1>1, FileStays
<1>16. RecTypes'
  BY <1>1, <1>12, <1>14, <1>15 DEF RecTypes, Unchanging
<1>17. OverAt(k)'
  <2>1. HandledAre(k, handled)'
    BY <1>1, <1>14 DEF HandledAre, Good
  <2> QED BY <1>1, <1>6, <1>9, <1>10, <1>13, <1>14, <1>15, <2>1 DEF OverAt
<1> QED BY <1>1, <1>8, <1>11, <1>12, <1>15, <1>16, <1>17 DEF RecInv, Over

-----------------------------------------------------------------------------
LEMMA RecInvOnce == RecInv => RecordsOnce
<1> SUFFICES ASSUME RecInv PROVE RecordsOnce
  OBVIOUS
<1>1. RecTypes /\ SizeOK
  BY DEF RecInv, RecTypes, SizeOK
<1>2. PICK n : n \in Nat /\ n = Len(recs) /\ DOMAIN recs = 1..n
  BY <1>1 DEF SizeOK
<1>3. handled \in Seq(DOMAIN recs) /\ Len(handled) \in Nat /\ DOMAIN handled = 1..Len(handled)
  BY <1>1 DEF RecTypes
<1>4. IsFiniteSet(Wanted) /\ Cardinality(Wanted) \in Nat
  <2>1. Wanted \subseteq 1..n /\ IsFiniteSet(1..n)
    BY <1>2, FS_Interval DEF Wanted
  <2> QED BY <2>1, FS_Subset, FS_CardinalityType
<1>5. ASSUME NEW k \in 0..n, Passes(k), HandledAre(k, handled)
      PROVE  /\ Good(k) \subseteq Wanted /\ Cardinality(Good(k)) \in Nat /\ Cardinality(Good(k)) <= Cardinality(Wanted)
             /\ Cardinality(Good(k)) <= Len(handled)
             /\ \A i \in 1..Cardinality(Good(k)) :
                  handled[i] \in Wanted /\ Cardinality({r \in Wanted : r <= handled[i]}) = i
  <2>1. Good(k) \subseteq Wanted
    <3> SUFFICES ASSUME NEW r \in Good(k) PROVE r \in Wanted
      OBVIOUS
    <3>1. r \in 1..k /\ recs[r].kind = "good" /\ r \in DOMAIN recs /\ \A e \in 1..r : e \in 1..k
      BY <1>2 DEF Good
    <3> QED BY <1>5, <3>1 DEF Wanted, Passes
  <2>2. Cardinality(Good(k)) \in Nat /\ Cardinality(Good(k)) <= Cardinality(Wanted)
    <3>1. Cardinality(Good(k)) \in Nat
      BY <1>1, <1>2, GoodNext
    <3> QED BY <1>4, <2>1, <3>1, FS_Subset
  <2>3. ASSUME NEW i \in 1..Cardinality(Good(k))
        PROVE  handled[i] \in Wanted /\ Cardinality({r \in Wanted : r <= handled[i]}) = i
    <3>1. PICK h : h = handled[i]
      OBVIOUS
    <3>2. h \in Good(k) /\ Cardinality(Good(h)) = i
      BY <1>5, <3>1 DEF HandledAre
    <3>3. {r \in Wanted : r <= h} = Good(h)
      <4>1. h \in 1..k /\ h \in Nat
        BY <3>2 DEF Good
      <4>2. ASSUME NEW r \in Wanted, r <= h PROVE r \in Good(h)
        BY <1>2, <4>1, <4>2 DEF Wanted, Good
      <4>3. ASSUME NEW r \in Good(h) PROVE r \in Wanted /\ r <= h
        <5>1. r \in 1..h /\ recs[r].kind = "good"
          BY DEF Good
        <5>2. r \in Good(k) /\ r <= h
          BY <4>1, <5>1 DEF Good
        <5> QED BY <2>1, <5>2
      <4> QED BY <4>2, <4>3
    <3> QED BY <2>1, <3>1, <3>2, <3>3
  <2>4. Cardinality(Good(k)) <= Len(handled)
    BY <1>5 DEF HandledAre
  <2> QED BY <2>1, <2>2, <2>3, <2>4
<1>6. ASSUME NEW k \in 0..n, Passes(k), k = n \/ Blocks(k + 1)
      PROVE  Wanted \subseteq Good(k)
  <2> SUFFICES ASSUME NEW r \in Wanted PROVE r \in Good(k)
    OBVIOUS
  <2>1. r \in 1..n /\ recs[r].kind = "good" /\ \A e \in 1..r : ~Blocks(e)
    BY <1>2 DEF Wanted
  <2>2. r <= k
    <3> SUFFICES ASSUME ~(r <= k) PROVE FALSE
      OBVIOUS
    <3>1. k # n /\ k + 1 \in 1..r
      BY <1>2, <2>1
    <3> QED BY <1>6, <2>1, <3>1
  <2> QED BY <2>1, <2>2 DEF Good
<1>7. ASSUME NEW k \in 0..n, ReadUpTo(k) PROVE RecordsOnce
  <2>1. PICK c, w : c = Cardinality(Good(k)) /\ w = Cardinality(Wanted)
    OBVIOUS
  <2>2. Passes(k) /\ HandledAre(k, handled) /\ Len(handled) = c
    BY <1>7, <2>1 DEF ReadUpTo
  <2>3. c \in Nat /\ w \in Nat /\ c <= w
    BY <1>4, <1>5, <2>1, <2>2
  <2>4. \A i \in 1..c : handled[i] \in Wanted /\ Cardinality({r \in Wanted : r <= handled[i]}) = i
    BY <1>5, <2>1, <2>2
  <2>5. ASSUME loop = "end" PROVE w <= Len(handled)
    <3>1. k = n \/ Blocks(k + 1)
      BY <1>2, <1>7, <2>5 DEF ReadUpTo, FilledUp
    <3>2. Good(k) = Wanted
      BY <1>5, <1>6, <2>2, <3>1
    <3> QED BY <2>1, <2>2, <2>3, <3>2
  <2> QED BY <1>3, <2>1, <2>2, <2>3, <2>4, <2>5 DEF RecordsOnce
<1>8. ASSUME Over PROVE RecordsOnce
  <2>1. PICK k \in 0..n : OverAt(k)
    BY <1>2, <1>8 DEF Over
  <2>1a. Passes(k) /\ HandledAre(k, handled) /\ (k = n \/ Blocks(k + 1))
    BY <1>2, <2>1 DEF OverAt
  <2>2. Good(k) = Wanted
    BY <1>5, <1>6, <2>1a
  <2>3. PICK c : c \in Nat /\ c = Cardinality(Wanted)
    BY <1>4
  <2>4. \A i \in 1..c : handled[i] \in Wanted /\ Cardinality({r \in Wanted : r <= handled[i]}) = i
    BY <1>5, <2>1a, <2>2, <2>3
  <2>5. c <= Len(handled) /\ Len(handled) <= c + 1
    BY <1>2, <1>5, <2>1, <2>1a, <2>2, <2>3 DEF OverAt
  <2>6. FileLen > RecordBuf - 1 /\ got = FileLen
    BY <1>8 DEF Over, Long
  <2> QED BY <1>3, <2>3, <2>4, <2>5, <2>6 DEF RecordsOnce
<1> QED BY <1>2, <1>7, <1>8 DEF RecInv

(* The readers of JSON records handle each record that parses and fits the *)
(* buffer once and in order, for any file and any buffer, wherever its     *)
(* ends fall; only at the end of a file longer than the buffer may one     *)
(* more be handled.                                                        *)
THEOREM RecordsAreHandledOnce == RecordSpec => []RecordsOnce
<1>1. RecordInit => RecInv
  BY RecordInitInv
<1>2. RecInv /\ [RecordNext]_readVars => RecInv'
  BY RefillInv, EndOfFileInv, HandleInv, HandleMixedInv, AssertFieldInv, MoveRestInv, RecordStutterInv DEF RecordNext
<1>3. RecInv => RecordsOnce
  BY RecInvOnce
<1> QED BY <1>1, <1>2, <1>3, PTL DEF RecordSpec

-----------------------------------------------------------------------------
(* Of two keys of the file.                                                *)
Shares(i, j, n) == n <= Len(dt[i]) /\ n <= Len(dt[j]) /\ \A m \in 1..n : dt[i][m] = dt[j][m]
Sorted == \A i, j \in DOMAIN dt : i < j => UpTo(dt[i], dt[j])
\* the first n characters of the i-th key are in the array
Built(i, n) == i \in DOMAIN dt /\ n \in 0..Len(dt[i]) /\ (n <= off \/ (n = off + 1 /\ i <= at_))
IsKey(j, i, n) == j \in DOMAIN dt /\ Len(dt[j]) = n /\ Shares(i, j, n)
FirstIs(v, i, n) == /\ IsKey(v, i, n) /\ \A j \in DOMAIN dt : IsKey(j, i, n) => v <= j

LEMMA KeyIs ==
  ASSUME NEW k \in Key
  PROVE  /\ Len(k) \in Nat \ {0} /\ Len(k) <= KSIZE_MAX /\ DOMAIN k = 1..Len(k) /\ k \in Seq(Char)
         /\ \A m \in 1..Len(k) : k[m] \in Nat /\ 1 <= k[m] /\ k[m] <= SCALE_NODES
<1>1. PICK n \in 1..KSIZE_MAX : k \in [1..n -> Char]
  BY DEF Key
<1>2. SCALE_NODES \in Nat /\ KSIZE_MAX \in Nat
  BY TrieAssumption
<1>3. n \in Nat \ {0} /\ n <= KSIZE_MAX
  BY <1>1, <1>2
<1>4. k \in Seq(Char) /\ Len(k) = n /\ DOMAIN k = 1..n
  BY <1>1, <1>3
<1>5. \A m \in 1..n : k[m] \in Nat /\ 1 <= k[m] /\ k[m] <= SCALE_NODES
  BY <1>1, <1>2 DEF Char
<1> QED BY <1>3, <1>4, <1>5

LEMMA KeysIs ==
  ASSUME dt \in Seq(Key), NEW i \in DOMAIN dt
  PROVE  /\ i \in Nat \ {0} /\ i <= Len(dt) /\ dt[i] \in Key
         /\ Len(dt[i]) \in Nat \ {0} /\ Len(dt[i]) <= KSIZE_MAX /\ DOMAIN dt[i] = 1..Len(dt[i])
         /\ \A m \in 1..Len(dt[i]) : dt[i][m] \in Nat /\ 1 <= dt[i][m] /\ dt[i][m] <= SCALE_NODES
<1>1. i \in Nat \ {0} /\ i <= Len(dt) /\ dt[i] \in Key
  OBVIOUS
<1> QED BY <1>1, KeyIs

\* strcmp is transitive.
LEMMA UpToMore ==
  ASSUME NEW a \in Key, NEW b \in Key, NEW c \in Key, UpTo(a, b), UpTo(b, c)
  PROVE  UpTo(a, c)
<1>1. /\ Len(a) \in Nat /\ Len(b) \in Nat /\ Len(c) \in Nat
      /\ DOMAIN a = 1..Len(a) /\ DOMAIN b = 1..Len(b) /\ DOMAIN c = 1..Len(c)
      /\ \A m \in 1..Len(a) : a[m] \in Nat
      /\ \A m \in 1..Len(b) : b[m] \in Nat
      /\ \A m \in 1..Len(c) : c[m] \in Nat
  BY KeyIs
<1>2. CASE Begins(a, b) /\ Begins(b, c)
  <2>1. Begins(a, c)
    BY <1>1, <1>2 DEF Begins
  <2> QED BY <2>1 DEF UpTo
<1>3. CASE Begins(a, b) /\ ~Begins(b, c)
  <2>1. PICK n \in 1..Len(b) : n <= Len(c) /\ b[n] < c[n] /\ \A m \in 1..(n - 1) : b[m] = c[m]
    BY <1>3 DEF UpTo
  <2>2. Len(a) <= Len(b) /\ \A m \in 1..Len(a) : a[m] = b[m]
    BY <1>1, <1>3 DEF Begins
  <2>3. CASE Len(a) < n
    <3>1. Begins(a, c)
      BY <1>1, <2>1, <2>2, <2>3 DEF Begins
    <3> QED BY <3>1 DEF UpTo
  <2>4. CASE n <= Len(a)
    <3>1. n \in 1..Len(a) /\ a[n] < c[n] /\ \A m \in 1..(n - 1) : a[m] = c[m]
      BY <1>1, <2>1, <2>2, <2>4
    <3> QED BY <2>1, <3>1 DEF UpTo
  <2> QED BY <1>1, <2>1, <2>3, <2>4
<1>4. CASE ~Begins(a, b)
  <2>1. PICK n \in 1..Len(a) : n <= Len(b) /\ a[n] < b[n] /\ \A m \in 1..(n - 1) : a[m] = b[m]
    BY <1>4 DEF UpTo
  <2>2. CASE Begins(b, c)
    <3>0. Len(b) <= Len(c) /\ \A m \in 1..Len(b) : b[m] = c[m]
      BY <1>1, <2>2 DEF Begins
    <3>1. n <= Len(c) /\ a[n] < c[n] /\ \A m \in 1..(n - 1) : a[m] = c[m]
      <4>1. n \in 1..Len(b) /\ \A m \in 1..(n - 1) : m \in 1..Len(b)
        BY <1>1, <2>1
      <4> QED BY <1>1, <2>1, <3>0, <4>1
    <3> QED BY <2>1, <3>1 DEF UpTo
  <2>3. CASE ~Begins(b, c)
    <3>1. PICK q \in 1..Len(b) : q <= Len(c) /\ b[q] < c[q] /\ \A m \in 1..(q - 1) : b[m] = c[m]
      BY <2>3 DEF UpTo
    <3>2. CASE q < n
      <4>1. q \in 1..Len(a) /\ a[q] < c[q] /\ \A m \in 1..(q - 1) : a[m] = c[m]
        BY <1>1, <2>1, <3>1, <3>2
      <4> QED BY <3>1, <4>1 DEF UpTo
    <3>3. CASE n <= q
      <4>1. n <= Len(c) /\ \A m \in 1..(n - 1) : a[m] = c[m]
        BY <1>1, <2>1, <3>1, <3>3
      <4>2. a[n] < c[n]
        <5>1. CASE n = q
          BY <1>1, <2>1, <3>1, <5>1
        <5>2. CASE n < q
          BY <1>1, <2>1, <3>1, <5>2
        <5> QED BY <1>1, <2>1, <3>1, <3>3, <5>1, <5>2
      <4> QED BY <2>1, <4>1, <4>2 DEF UpTo
    <3> QED BY <1>1, <2>1, <3>1, <3>2, <3>3
  <2> QED BY <2>2, <2>3
<1> QED BY <1>2, <1>3, <1>4

\* What the order says of two keys that begin alike.
LEMMA OrderIs ==
  ASSUME NEW a \in Key, NEW b \in Key, UpTo(a, b), NEW n \in Nat, \A m \in 1..n : a[m] = b[m]
  PROVE  /\ n < Len(a) /\ n < Len(b) => a[n + 1] <= b[n + 1]
         /\ n <= Len(a) /\ n = Len(b) => n = Len(a)
<1>1. /\ Len(a) \in Nat /\ Len(b) \in Nat /\ DOMAIN a = 1..Len(a) /\ DOMAIN b = 1..Len(b)
      /\ \A m \in 1..Len(a) : a[m] \in Nat
      /\ \A m \in 1..Len(b) : b[m] \in Nat
  BY KeyIs
<1>2. CASE Begins(a, b)
  <2>1. Len(a) <= Len(b) /\ \A m \in 1..Len(a) : a[m] = b[m]
    BY <1>1, <1>2 DEF Begins
  <2>2. n < Len(a) => a[n + 1] <= b[n + 1]
    <3>1. SUFFICES ASSUME n < Len(a) PROVE a[n + 1] <= b[n + 1]
      OBVIOUS
    <3>2. n + 1 \in 1..Len(a)
      BY <1>1, <3>1
    <3>3. a[n + 1] = b[n + 1] /\ a[n + 1] \in Nat
      BY <1>1, <2>1, <3>2
    <3> QED BY <3>3
  <2>3. n <= Len(a) /\ n = Len(b) => n = Len(a)
    <3>1. Len(a) \in Nat /\ Len(b) \in Nat /\ Len(a) <= Len(b)
      BY <1>1, <2>1
    <3> QED BY <3>1
  <2> QED BY <2>2, <2>3
<1>3. CASE ~Begins(a, b)
  <2>1. PICK q \in 1..Len(a) : q <= Len(b) /\ a[q] < b[q] /\ \A m \in 1..(q - 1) : a[m] = b[m]
    BY <1>3 DEF UpTo
  <2>2. q \in Nat /\ q > n
    <3>1. q \in Nat /\ a[q] # b[q]
      BY <1>1, <2>1
    <3>2. q \notin 1..n
      BY <3>1
    <3> QED BY <2>1, <3>1, <3>2
  <2>3. ~ (n = Len(b))
    <3>1. q <= Len(b) /\ Len(b) \in Nat
      BY <1>1, <2>1
    <3> QED BY <2>2, <3>1
  <2>4. a[n + 1] <= b[n + 1]
    <3>1. CASE q = n + 1
      BY <1>1, <2>1, <3>1
    <3>2. CASE q > n + 1
      <4>1. n + 1 \in 1..(q - 1) /\ n + 1 \in 1..Len(a)
        BY <1>1, <2>1, <2>2, <3>2
      <4> QED BY <1>1, <2>1, <4>1
    <3> QED BY <2>2, <3>1, <3>2
  <2> QED BY <2>3, <2>4
<1> QED BY <1>2, <1>3

\* A key between two that begin alike begins like them.
LEMMA BetweenIs ==
  ASSUME NEW a \in Key, NEW b \in Key, NEW c \in Key, UpTo(a, b), UpTo(b, c),
         NEW n \in Nat, n <= Len(a), n <= Len(c), \A m \in 1..n : a[m] = c[m]
  PROVE  n <= Len(b) /\ \A m \in 1..n : a[m] = b[m]
<1>1. /\ Len(a) \in Nat /\ Len(b) \in Nat /\ Len(c) \in Nat
      /\ DOMAIN a = 1..Len(a) /\ DOMAIN b = 1..Len(b) /\ DOMAIN c = 1..Len(c)
      /\ \A m \in 1..Len(a) : a[m] \in Nat
      /\ \A m \in 1..Len(b) : b[m] \in Nat
      /\ \A m \in 1..Len(c) : c[m] \in Nat
  BY KeyIs
<1>2. CASE Begins(a, b)
  BY <1>1, <1>2 DEF Begins
<1>3. CASE ~Begins(a, b)
  <2>1. PICK q \in 1..Len(a) : q <= Len(b) /\ a[q] < b[q] /\ \A m \in 1..(q - 1) : a[m] = b[m]
    BY <1>3 DEF UpTo
  <2>2. CASE q > n
    BY <1>1, <2>1, <2>2
  <2>3. CASE q <= n
    <3>1. q \in Nat /\ a[q] = c[q] /\ c[q] < b[q] /\ q <= Len(c) /\ \A m \in 1..(q - 1) : b[m] = c[m]
      BY <1>1, <2>1, <2>3
    <3>2. CASE Begins(b, c)
      BY <1>1, <2>1, <3>1, <3>2 DEF Begins
    <3>3. CASE ~Begins(b, c)
      <4>1. PICK r \in 1..Len(b) : r <= Len(c) /\ b[r] < c[r] /\ \A m \in 1..(r - 1) : b[m] = c[m]
        BY <3>3 DEF UpTo
      <4>2. r \in Nat /\ (r < q \/ r = q \/ q < r)
        BY <1>1, <3>1, <4>1
      <4> QED BY <1>1, <2>1, <3>1, <4>1, <4>2
    <3> QED BY <3>2, <3>3
  <2> QED BY <1>1, <2>1, <2>2, <2>3
<1> QED BY <1>2, <1>3

LEMMA BetweenShares ==
  ASSUME dt \in Seq(Key), Sorted, NEW i \in DOMAIN dt, NEW j \in DOMAIN dt, NEW h \in DOMAIN dt, i < j, j < h,
         NEW n \in Nat, Shares(i, h, n)
  PROVE  Shares(i, j, n) /\ Shares(j, h, n)
<1>1. dt[i] \in Key /\ dt[j] \in Key /\ dt[h] \in Key /\ UpTo(dt[i], dt[j]) /\ UpTo(dt[j], dt[h])
  BY KeysIs DEF Sorted
<1>2. n <= Len(dt[i]) /\ n <= Len(dt[h]) /\ \A m \in 1..n : dt[i][m] = dt[h][m]
  BY DEF Shares
<1>3. n <= Len(dt[j]) /\ \A m \in 1..n : dt[i][m] = dt[j][m]
  BY <1>1, <1>2, BetweenIs
<1> QED BY <1>2, <1>3 DEF Shares

-----------------------------------------------------------------------------
(* The array: F[i][n] is the cell of the first n characters of the i-th    *)
(* key, t the number of cells there are.                                   *)
Cells(F, t) ==
    /\ t \in Nat /\ da \in [0..(t - 1) -> [base : Nat, check : Nat, value : Nat]]
    /\ nodes \in Nat /\ nodes + SCALE_NODES < t /\ SCALE_NODES + ROOT + 1 < t /\ (nodes = 0 \/ nodes > ROOT + 1)
    /\ \A c \in 0..(t - 1) : da[c].base + SCALE_NODES < t
    /\ da[ROOT].check = 0
    /\ \A c \in 0..(t - 1) : da[c] = Clear \/ \E i \in DOMAIN dt, n \in Nat : Built(i, n) /\ c = F[i][n]
Edge(F, i, n) ==
    /\ da[F[i][n]].base > 0 /\ F[i][n + 1] = da[F[i][n]].base + dt[i][n + 1]
    /\ da[F[i][n + 1]].check = F[i][n]
    /\ ROOT + 1 < F[i][n + 1] /\ F[i][n + 1] < nodes /\ F[i][n + 1] \notin wild
Edges(F) ==
    /\ F \in [DOMAIN dt -> [Nat -> Nat]]
    /\ \A i \in DOMAIN dt : F[i][0] = ROOT
    /\ \A i \in DOMAIN dt, n \in Nat : Built(i, n + 1) => Edge(F, i, n)
\* a cell belongs to keys that begin alike, and has a base if one of them goes on
Apart(F) ==
    \A i, j \in DOMAIN dt, n, m \in Nat : Built(i, n) /\ Built(j, m) =>
        (F[i][n] = F[j][m] <=> n = m /\ Shares(i, j, n))
Used(F) ==
    \A i \in DOMAIN dt, n \in Nat : Built(i, n) /\ da[F[i][n]].base # 0 =>
        \E j \in DOMAIN dt : Built(j, n + 1) /\ Shares(i, j, n)
Valued(F) ==
    \A i \in DOMAIN dt, n \in Nat : Built(i, n + 1) =>
        IF \E j \in DOMAIN dt : IsKey(j, i, n + 1) THEN FirstIs(da[F[i][n + 1]].value, i, n + 1)
        ELSE da[F[i][n + 1]].value = 0
\* the last cell in use is that of the last key done
Newest(F) == at_ # 0 => at_ \in DOMAIN dt /\ off < Len(dt[at_]) /\ F[at_][off + 1] = nodes - 1
Tree(F, t) == Cells(F, t) /\ Edges(F) /\ Apart(F) /\ Used(F) /\ Valued(F) /\ Newest(F)
TrieTypes == dt \in Seq(Key) /\ off \in Nat /\ at_ \in Nat

LEMMA BuiltIs ==
  ASSUME TrieTypes, NEW i \in DOMAIN dt
  PROVE  /\ Built(i, 0)
         /\ \A n \in Nat : Built(i, n) => n <= Len(dt[i])
         /\ \A n \in Nat : Built(i, n + 1) => Built(i, n)
<1>1. Len(dt[i]) \in Nat /\ off \in Nat /\ at_ \in Nat /\ i \in Nat
  BY KeysIs DEF TrieTypes
<1> QED BY <1>1 DEF Built

-----------------------------------------------------------------------------
(* The cells a look-up goes through, f[m] after m characters.              *)
Walks(f, k, n) == f = [m \in 0..n |-> IF m = 0 THEN ROOT ELSE Child(f[m - 1], k[m])]

LEMMA WalkIs == ASSUME NEW k, NEW n PROVE Walk(k, n) = (CHOOSE f : Walks(f, k, n))[n]
BY DEF Walk, Walks

LEMMA WalksSteps ==
  ASSUME NEW f, NEW k, NEW n \in Nat
  PROVE  Walks(f, k, n) <=>
            /\ f = [m \in 0..n |-> f[m]] /\ f[0] = ROOT
            /\ \A m \in 1..n : f[m] = Child(f[m - 1], k[m])
<1> DEFINE W(m) == IF m = 0 THEN ROOT ELSE Child(f[m - 1], k[m])
<1>1. Walks(f, k, n) <=> f = [m \in 0..n |-> W(m)]
  BY DEF Walks
<1>2. W(0) = ROOT /\ \A m \in 1..n : W(m) = Child(f[m - 1], k[m])
  OBVIOUS
<1>3. 0 \in 0..n /\ (\A m \in 1..n : m \in 0..n) /\ \A m \in 0..n : m = 0 \/ m \in 1..n
  OBVIOUS
<1> HIDE DEF W
<1>4. f = [m \in 0..n |-> W(m)] <=> f = [m \in 0..n |-> f[m]] /\ \A m \in 0..n : f[m] = W(m)
  OBVIOUS
<1> QED BY <1>1, <1>2, <1>3, <1>4

LEMMA WalksSome ==
  ASSUME NEW k
  PROVE  \A n \in Nat : \E f : Walks(f, k, n)
<1> DEFINE S == {n \in Nat : ~ \E f : Walks(f, k, n)}
<1>1. SUFFICES ASSUME S # {} PROVE FALSE
  OBVIOUS
<1>2. PICK h \in S : \A g \in S : h <= g
  BY <1>1, Least
<1>3. h \in Nat /\ ~ \E f : Walks(f, k, h)
  OBVIOUS
<1>4. CASE h = 0
  <2> DEFINE f == [m \in 0..0 |-> ROOT]
  <2>1. f[0] = ROOT /\ f = [m \in 0..0 |-> f[m]] /\ \A m \in 1..0 : FALSE
    OBVIOUS
  <2> HIDE DEF f
  <2>2. Walks(f, k, 0)
    BY <2>1, WalksSteps
  <2> QED BY <1>3, <1>4, <2>2
<1>5. CASE h # 0
  <2>1. h - 1 \in Nat /\ ~ (h <= h - 1)
    BY <1>3, <1>5
  <2>2. PICK f : Walks(f, k, h - 1)
    BY <1>2, <2>1
  <2>3. /\ f[0] = ROOT
        /\ \A m \in 1..(h - 1) : f[m] = Child(f[m - 1], k[m])
    BY <2>1, <2>2, WalksSteps
  <2> DEFINE g == [m \in 0..h |-> IF m = h THEN Child(f[h - 1], k[h]) ELSE f[m]]
  <2>4. \A m \in 0..(h - 1) : g[m] = f[m]
    BY <1>3, <2>1
  <2>5. g[h] = Child(f[h - 1], k[h]) /\ g = [m \in 0..h |-> g[m]]
    BY <1>3
  <2> HIDE DEF g
  <2>6. /\ 0 \in 0..(h - 1) /\ h - 1 \in 0..(h - 1)
        /\ \A m \in 1..h : m = h \/ (m \in 1..(h - 1) /\ m \in 0..(h - 1) /\ m - 1 \in 0..(h - 1))
    BY <1>3, <2>1
  <2>7. ASSUME NEW m \in 1..h PROVE g[m] = Child(g[m - 1], k[m])
    BY <2>3, <2>4, <2>5, <2>6
  <2>8. Walks(g, k, h)
    <3>1. g[0] = ROOT
      BY <2>3, <2>4, <2>6
    <3>2. Walks(g, k, h) <=> /\ g = [m \in 0..h |-> g[m]] /\ g[0] = ROOT
                             /\ \A m \in 1..h : g[m] = Child(g[m - 1], k[m])
      BY ONLY <1>3, WalksSteps
    <3> QED BY ONLY <2>5, <2>7, <3>1, <3>2
  <2> QED BY <1>3, <2>8
<1> QED BY <1>4, <1>5

-----------------------------------------------------------------------------
LEMMA SizesAre == SCALE_NODES \in Nat \ {0} /\ BLOCK_NODES \in Nat \ {0} /\ KSIZE_MAX \in Nat \ {0} /\ SCALE_NODES + ROOT + 1 < BLOCK_NODES
BY TrieAssumption

LEMMA CellIs ==
  ASSUME TrieTypes, NEW F, NEW t, Cells(F, t), Edges(F), NEW i \in DOMAIN dt, NEW n \in Nat, Built(i, n)
  PROVE  /\ F[i][n] \in Nat \ {0} /\ F[i][n] \in 0..(t - 1)
         /\ n = 0 => F[i][n] = ROOT
         /\ n # 0 => F[i][n] > ROOT + 1 /\ F[i][n] < nodes
<1>1. F[i][n] \in Nat /\ t \in Nat /\ nodes \in Nat /\ SCALE_NODES \in Nat /\ nodes + SCALE_NODES < t /\ SCALE_NODES + ROOT + 1 < t
  BY SizesAre DEF Cells, Edges
<1>2. CASE n = 0
  <2>1. F[i][n] = 1
    BY <1>2 DEF Edges, ROOT
  <2> QED BY <1>1, <1>2, <2>1 DEF ROOT
<1>3. CASE n # 0
  <2>1. n - 1 \in Nat /\ n = (n - 1) + 1
    BY <1>3
  <2>2. Edge(F, i, n - 1)
    BY <2>1 DEF Edges
  <2>3. F[i][n] > 2 /\ F[i][n] < nodes
    BY <1>1, <2>1, <2>2 DEF Edge, ROOT
  <2> QED BY <1>1, <1>3, <2>3 DEF ROOT
<1> QED BY <1>2, <1>3

\* The i-th key is in the array with its first n characters, which are those of k.
Begun(i, k, n) == Built(i, n) /\ \A m \in 1..n : dt[i][m] = k[m]

LEMMA ChildFound ==
  ASSUME TrieTypes, NEW F, NEW t, Tree(F, t), NEW i \in DOMAIN dt, NEW n \in Nat, Built(i, n + 1)
  PROVE  Built(i, n) /\ Child(F[i][n], dt[i][n + 1]) = F[i][n + 1]
<1>1. Built(i, n) /\ Edge(F, i, n)
  BY BuiltIs DEF Tree, Edges
<1>2. F[i][n] \in Nat \ {0} /\ F[i][n + 1] \in Nat \ {0} /\ F[i][n + 1] < nodes /\ nodes \in Nat
  <2>1. n + 1 \in Nat /\ n + 1 # 0
    OBVIOUS
  <2>2. Cells(F, t) /\ Edges(F)
    BY DEF Tree
  <2>3. F[i][n] \in Nat \ {0}
    BY <1>1, <2>2, CellIs
  <2>4. F[i][n + 1] \in Nat \ {0} /\ F[i][n + 1] < nodes
    BY <2>1, <2>2, CellIs
  <2>5. nodes \in Nat
    BY <2>2 DEF Cells
  <2> QED BY <2>3, <2>4, <2>5
<1>3. /\ da[F[i][n]].base + dt[i][n + 1] = F[i][n + 1] /\ da[F[i][n + 1]].check = F[i][n]
      /\ F[i][n + 1] \notin wild
  BY <1>1 DEF Edge
<1>4. ~ (F[i][n] < 0) /\ ~ (F[i][n + 1] >= nodes)
  BY <1>2
<1> QED BY <1>1, <1>3, <1>4 DEF Child

LEMMA ChildMissing ==
  ASSUME TrieTypes, dt # <<>>, NEW F, NEW t, Tree(F, t), NEW k \in Key, NEW n \in Nat, n < Len(k),
         NEW i \in DOMAIN dt, Begun(i, k, n), \A j \in DOMAIN dt : ~Begun(j, k, n + 1)
  PROVE  Child(F[i][n], k[n + 1]) < 0
<1> DEFINE cell == F[i][n]
           c == da[cell].base + k[n + 1]
<1>1. /\ cell \in Nat \ {0} /\ cell \in 0..(t - 1) /\ t \in Nat /\ nodes \in Nat /\ nodes < t
      /\ da[cell].base \in Nat /\ k[n + 1] \in Nat /\ 1 <= k[n + 1]
  <2>1. cell \in Nat \ {0} /\ cell \in 0..(t - 1)
    BY CellIs DEF Tree, Begun
  <2>2. t \in Nat /\ nodes \in Nat /\ nodes < t /\ da[cell].base \in Nat
    <3>1. /\ t \in Nat /\ nodes \in Nat /\ nodes + SCALE_NODES < t
          /\ da \in [0..(t - 1) -> [base : Nat, check : Nat, value : Nat]]
      BY DEF Tree, Cells
    <3>2. nodes < t
      BY <3>1, SizesAre
    <3>3. da[cell].base \in Nat
      BY <2>1, <3>1
    <3> QED BY <3>1, <3>2, <3>3
  <2>3. n + 1 \in 1..Len(k)
    BY KeyIs
  <2> QED BY <2>1, <2>2, <2>3, KeyIs
<1>2. c \in Nat
  BY <1>1, SMTT(20)
<1> HIDE DEF cell
<1>3. ASSUME c < nodes, c \notin wild, da[c].check = cell PROVE FALSE
  <2>1. c \in 0..(t - 1)
    BY <1>1, <1>2, <1>3
  <2>2. da[c] # Clear
    BY <1>1, <1>3 DEF Clear
  <2>3. PICK j \in DOMAIN dt, m \in Nat : Built(j, m) /\ c = F[j][m]
    BY <2>1, <2>2 DEF Tree, Cells
  <2>4. m # 0
    <3>1. SUFFICES ASSUME m = 0 PROVE FALSE
      OBVIOUS
    <3>2. c = ROOT
      BY <2>3, <3>1 DEF Tree, Edges
    <3> QED BY <1>1, <1>3, <3>2 DEF Tree, Cells
  <2>5. PICK q \in Nat : m = q + 1
    <3>1. m - 1 \in Nat /\ m = (m - 1) + 1
      BY <2>4
    <3> QED BY <3>1
  <2>6. Edge(F, j, q) /\ Built(j, q)
    BY <2>3, <2>5, BuiltIs DEF Tree, Edges
  <2>7. F[j][q] = F[i][n]
    BY <1>3, <2>3, <2>5, <2>6 DEF Edge, cell
  <2>8. q = n /\ Shares(j, i, n)
    BY <2>6, <2>7 DEF Tree, Apart, Begun
  <2>9. c = da[cell].base + dt[j][n + 1]
    BY <2>3, <2>5, <2>6, <2>7, <2>8 DEF Edge, cell
  <2>10. dt[j][n + 1] \in Nat
    <3>1. n + 1 \in 1..Len(dt[j]) /\ Len(dt[j]) \in Nat
      BY <2>3, <2>5, <2>8, KeysIs, BuiltIs DEF TrieTypes
    <3> QED BY <3>1, KeysIs DEF TrieTypes
  <2>11. dt[j][n + 1] = k[n + 1]
    BY <1>1, <2>9, <2>10
  <2>12. \A l \in 1..n : dt[j][l] = k[l]
    BY <2>8 DEF Shares, Begun
  <2>13. \A l \in 1..(n + 1) : l \in 1..n \/ l = n + 1
    OBVIOUS
  <2>14. Begun(j, k, n + 1)
    BY <2>3, <2>5, <2>8, <2>11, <2>12, <2>13 DEF Begun
  <2> QED BY <2>14
<1>4. Child(cell, k[n + 1]) = NULL \/ Child(cell, k[n + 1]) = UNSET
  <2>1. ~ (cell < 0) /\ (c >= nodes \/ c < nodes)
    BY <1>1, <1>2
  <2>2. CASE c >= nodes
    BY <2>2 DEF Child
  <2>3. CASE c < nodes
    <3>1. ~ (c >= nodes)
      BY <1>1, <1>2, <2>3
    <3> QED BY <1>3, <2>1, <2>3, <3>1 DEF Child
  <2> QED BY <2>1, <2>2, <2>3
<1> QED BY <1>4 DEF NULL, UNSET, cell

\* A look-up goes through the cells of the keys that begin like it.
LEMMA TreeWalks ==
  ASSUME TrieTypes, dt # <<>>, NEW F, NEW t, Tree(F, t), NEW k \in Key, NEW n \in 0..Len(k)
  PROVE  /\ \A i \in DOMAIN dt : Begun(i, k, n) => Walk(k, n) = F[i][n]
         /\ (\A i \in DOMAIN dt : ~Begun(i, k, n)) => Walk(k, n) < 0
<1>1. n \in Nat /\ Len(k) \in Nat /\ n <= Len(k)
  BY KeyIs
<1> DEFINE f == CHOOSE g : Walks(g, k, n)
<1>2. Walks(f, k, n) /\ Walk(k, n) = f[n]
  BY <1>1, WalksSome, WalkIs
<1> HIDE DEF f
<1>3. f[0] = ROOT /\ \A m \in 1..n : f[m] = Child(f[m - 1], k[m])
  BY <1>1, <1>2, WalksSteps
<1> DEFINE Right(m) == /\ \A i \in DOMAIN dt : Begun(i, k, m) => f[m] = F[i][m]
                       /\ (\A i \in DOMAIN dt : ~Begun(i, k, m)) => f[m] < 0
           S == {m \in Nat : m <= n /\ ~Right(m)}
<1>4. SUFFICES S = {}
  <2>1. n \notin S => Right(n)
    BY <1>1
  <2> QED BY <1>2, <2>1
<1>5. SUFFICES ASSUME S # {} PROVE FALSE
  OBVIOUS
<1>6. PICK h \in S : \A g \in S : h <= g
  <2> HIDE DEF Right
  <2> QED BY <1>5, Least
<1>7. h \in Nat /\ h <= n /\ ~Right(h)
  OBVIOUS
<1>8. h # 0
  <2>1. SUFFICES ASSUME h = 0 PROVE FALSE
    OBVIOUS
  <2>2. \A i \in DOMAIN dt : f[0] = F[i][0]
    BY <1>3 DEF Tree, Edges
  <2>3. PICK i \in DOMAIN dt : TRUE
    <3>1. dt \in Seq(Key) /\ Len(dt) \in Nat /\ DOMAIN dt = 1..Len(dt)
      BY DEF TrieTypes
    <3>2. Len(dt) # 0
      BY <3>1
    <3>3. 1 \in DOMAIN dt
      BY <3>1, <3>2
    <3> QED BY <3>3
  <2>4. Begun(i, k, 0)
    BY BuiltIs DEF Begun
  <2> QED BY <1>7, <2>1, <2>2, <2>4
<1>9. PICK q \in Nat : h = q + 1
  <2>1. h - 1 \in Nat /\ h = (h - 1) + 1
    BY <1>7, <1>8
  <2> QED BY <2>1
<1>10. Right(q) /\ q < n /\ q < Len(k) /\ q + 1 \in 1..n
  <2>1. q < n /\ q < Len(k) /\ q + 1 \in 1..n /\ q <= n /\ ~ (h <= q)
    BY <1>1, <1>7, <1>9
  <2>2. q \notin S
    BY <1>6, <2>1
  <2>3. Right(q)
    <3> HIDE DEF Right
    <3> QED BY <2>1, <2>2
  <2> QED BY <2>1, <2>3
<1>11. f[q + 1] = Child(f[q], k[q + 1])
  <2>1. (q + 1) - 1 = q
    OBVIOUS
  <2> QED BY <1>3, <1>10, <2>1
<1>12. ASSUME NEW i \in DOMAIN dt, Begun(i, k, q + 1) PROVE f[q + 1] = F[i][q + 1]
  <2>1. Built(i, q) /\ Child(F[i][q], dt[i][q + 1]) = F[i][q + 1]
    BY <1>12, ChildFound DEF Begun
  <2>2. q + 1 \in 1..(q + 1) /\ \A m \in 1..q : m \in 1..(q + 1)
    OBVIOUS
  <2>3. dt[i][q + 1] = k[q + 1] /\ Begun(i, k, q)
    BY <1>12, <2>1, <2>2 DEF Begun
  <2> QED BY <1>10, <1>11, <2>1, <2>3
<1>13. ASSUME \A i \in DOMAIN dt : ~Begun(i, k, q + 1) PROVE f[q + 1] < 0
  <2>1. CASE \A i \in DOMAIN dt : ~Begun(i, k, q)
    <3>1. f[q] < 0
      BY <1>10, <2>1
    <3>2. f[q + 1] = NULL
      BY <1>11, <3>1 DEF Child
    <3> QED BY <3>2 DEF NULL
  <2>2. CASE \E i \in DOMAIN dt : Begun(i, k, q)
    <3>1. PICK i \in DOMAIN dt : Begun(i, k, q)
      BY <2>2
    <3>2. f[q] = F[i][q]
      BY <1>10, <3>1
    <3>3. Child(F[i][q], k[q + 1]) < 0
      BY <1>10, <1>13, <3>1, ChildMissing
    <3> QED BY <1>11, <3>2, <3>3
  <2> QED BY <2>1, <2>2
<1> QED BY <1>7, <1>9, <1>12, <1>13

-----------------------------------------------------------------------------
TrieInv ==
    /\ TrieTypes /\ Sorted /\ build # "abort"
    /\ build = "file" => nodes = 0 /\ wild = {} /\ off = 0 /\ at_ = 0
    /\ build \in {"nodes", "built"} => dt # <<>> /\ off < KSIZE_MAX /\ \E F, t : Tree(F, t)
    /\ build = "built" => \A i \in DOMAIN dt : \A n \in 0..Len(dt[i]) : Built(i, n)

LEMMA KeysEqual ==
  ASSUME NEW a \in Key, NEW b \in Key, Len(a) = Len(b), \A m \in 1..Len(a) : a[m] = b[m]
  PROVE  a = b
<1>1. a \in Seq(Char) /\ b \in Seq(Char) /\ DOMAIN a = 1..Len(a) /\ DOMAIN b = 1..Len(b)
  BY KeyIs
<1> QED BY <1>1

LEMMA TrieInvFinds == TrieInv => TrieFinds
<1> SUFFICES ASSUME TrieInv, build = "built", NEW k \in Key
             PROVE  IF \E i \in DOMAIN dt : Begins(k, dt[i])
                    THEN LET same == {i \in DOMAIN dt : dt[i] = k}
                         IN /\ Walk(k, Len(k)) >= 0
                            /\ da[Walk(k, Len(k))].value =
                                  IF same = {} THEN 0 ELSE CHOOSE i \in same : \A j \in same : i <= j
                    ELSE Walk(k, Len(k)) < 0
  BY DEF TrieInv, TrieFinds
<1>1. TrieTypes /\ dt \in Seq(Key) /\ dt # <<>> /\ \A i \in DOMAIN dt : \A n \in 0..Len(dt[i]) : Built(i, n)
  BY DEF TrieInv, TrieTypes
<1>2. PICK F, t : Tree(F, t)
  BY DEF TrieInv
<1> DEFINE n == Len(k)
<1>3. n \in Nat \ {0} /\ n \in 0..Len(k) /\ DOMAIN k = 1..n
  BY KeyIs
<1>4. ASSUME NEW i \in DOMAIN dt PROVE Begins(k, dt[i]) <=> Begun(i, k, n)
  <2>1. Len(dt[i]) \in Nat /\ \A m \in 0..Len(dt[i]) : Built(i, m)
    BY <1>1, KeysIs
  <2>2. Built(i, n) => n <= Len(dt[i])
    BY <1>1, <1>3, BuiltIs
  <2>3. n <= Len(dt[i]) => Built(i, n)
    BY <1>3, <2>1
  <2> QED BY <1>3, <2>2, <2>3 DEF Begins, Begun
<1>5. CASE \A i \in DOMAIN dt : ~Begins(k, dt[i])
  <2>1. Walk(k, n) < 0
    BY <1>1, <1>2, <1>3, <1>4, <1>5, TreeWalks
  <2> QED BY <1>5, <2>1
<1>6. ASSUME NEW i \in DOMAIN dt, Begins(k, dt[i])
      PROVE  LET same == {j \in DOMAIN dt : dt[j] = k}
             IN /\ Walk(k, n) >= 0
                /\ da[Walk(k, n)].value =
                      IF same = {} THEN 0 ELSE CHOOSE j \in same : \A h \in same : j <= h
  <2> DEFINE same == {j \in DOMAIN dt : dt[j] = k}
             v    == da[F[i][n]].value
  <2>1. Begun(i, k, n) /\ Walk(k, n) = F[i][n]
    BY <1>1, <1>2, <1>3, <1>4, <1>6, TreeWalks
  <2>2. F[i][n] \in Nat
    BY <1>1, <1>2, <1>3, <2>1, CellIs DEF Tree, Begun
  <2>3. ASSUME NEW j \in DOMAIN dt PROVE IsKey(j, i, n) <=> j \in same
    <3>1. dt[j] \in Key /\ dt[i] \in Key /\ n <= Len(dt[i]) /\ \A m \in 1..n : dt[i][m] = k[m]
      BY <1>1, <1>3, <2>1, KeysIs, BuiltIs DEF Begun
    <3>2. CASE dt[j] = k
      <4>1. Len(dt[j]) = n /\ n <= n
        BY <1>3, <3>2
      <4> QED BY <3>1, <3>2, <4>1 DEF IsKey, Shares
    <3>3. CASE IsKey(j, i, n)
      <4>1. Len(dt[j]) = n /\ \A m \in 1..n : dt[j][m] = k[m]
        BY <3>1, <3>3 DEF IsKey, Shares
      <4>2. dt[j] = k
        BY <3>1, <4>1, KeysEqual
      <4> QED BY <3>3, <4>2
    <3> QED BY <3>2, <3>3
  <2>4. PICK q \in Nat : n = q + 1
    <3>1. n - 1 \in Nat /\ n = (n - 1) + 1
      BY <1>3
    <3> QED BY <3>1
  <2>5. IF \E j \in DOMAIN dt : IsKey(j, i, n) THEN FirstIs(v, i, n) ELSE v = 0
    BY <1>2, <2>1, <2>4 DEF Tree, Valued, Begun
  <2>6. \A j : IsKey(j, i, n) => j \in DOMAIN dt
    BY DEF IsKey
  <2> HIDE DEF v, n
  <2>7. CASE same = {}
    BY <2>1, <2>2, <2>3, <2>5, <2>7 DEF v
  <2>8. CASE same # {}
    <3>1. FirstIs(v, i, n)
      BY <2>3, <2>5, <2>8
    <3>2. v \in same /\ \A j \in same : v <= j
      BY <2>3, <2>6, <3>1 DEF FirstIs
    <3>3. \A j \in same : j \in Nat
      BY <1>1, KeysIs
    <3> HIDE DEF same
    <3> DEFINE w == CHOOSE j \in same : \A h \in same : j <= h
    <3>4. w \in same /\ \A h \in same : w <= h
      BY <3>2
    <3> HIDE DEF w
    <3>5. w = v
      BY <3>2, <3>3, <3>4
    <3>6. v = CHOOSE j \in same : \A h \in same : j <= h
      BY <3>5 DEF w
    <3>7. F[i][n] >= 0
      BY <2>2
    <3>8. /\ Walk(k, n) >= 0
          /\ da[Walk(k, n)].value = IF same = {} THEN 0 ELSE CHOOSE j \in same : \A h \in same : j <= h
      BY <2>1, <2>8, <3>6, <3>7 DEF v
    <3> QED BY <3>8 DEF same
  <2> QED BY <2>7, <2>8
<1> QED BY <1>5, <1>6

-----------------------------------------------------------------------------
(* grow()                                                                  *)
LEMMA GrownIs ==
  ASSUME NEW n \in Nat
  PROVE  Grown(n) \in Nat /\ Grown(n) > n + SCALE_NODES /\ Grown(n) >= BLOCK_NODES
<1> DEFINE u == n + SCALE_NODES
           d == BLOCK_NODES
           q == u \div d
           r == u % d
<1>1. u \in Nat /\ d \in Nat \ {0}
  BY SizesAre
<1>2. Grown(n) = (q + 1) * d
  BY DEF Grown
<1> HIDE DEF u, d
<1>3. q \in Nat /\ r \in 0..(d - 1) /\ u = d * q + r
  BY <1>1
<1> HIDE DEF q, r
<1>4. (q + 1) * d = d * q + d /\ d * q \in Nat
  BY <1>1, <1>3
<1>5. Grown(n) \in Nat /\ Grown(n) > u /\ Grown(n) >= d
  BY <1>1, <1>2, <1>3, <1>4
<1> QED BY <1>5 DEF u, d

LEMMA SizeIs == ASSUME NEW t \in Nat, NEW a, DOMAIN a = 0..(t - 1) PROVE Cardinality(DOMAIN a) = t
<1> DEFINE b == t - 1
<1>1. 0 \in Int /\ b \in Int
  OBVIOUS
<1>2. (0 > b => t = 0) /\ (~ (0 > b) => b - 0 + 1 = t)
  OBVIOUS
<1> HIDE DEF b
<1>3. Cardinality(0..b) = IF 0 > b THEN 0 ELSE b - 0 + 1
  BY <1>1, FS_Interval
<1>4. Cardinality(0..b) = t
  BY <1>2, <1>3
<1> QED BY <1>4 DEF b

LEMMA GrowIs ==
  ASSUME NEW t \in Nat, NEW a, DOMAIN a = 0..(t - 1), a = [c \in 0..(t - 1) |-> a[c]],
         NEW n \in Nat, NEW unset
  PROVE  \E s \in Nat : /\ t <= s /\ n + SCALE_NODES < s
                        /\ Grow(a, n, unset).cells = [c \in 0..(s - 1) |-> IF c < n \/ s = t THEN a[c] ELSE Clear]
                        /\ \A c \in Nat : c < n => (c \in Grow(a, n, unset).wild <=> c \in unset)
<1> DEFINE g == Grow(a, n, unset)
           Fits(s) == /\ t <= s /\ n + SCALE_NODES < s
                      /\ g.cells = [c \in 0..(s - 1) |-> IF c < n \/ s = t THEN a[c] ELSE Clear]
                      /\ \A c \in Nat : c < n => (c \in g.wild <=> c \in unset)
<1> SUFFICES \E s \in Nat : Fits(s)
  OBVIOUS
<1>1. Cardinality(DOMAIN a) = t
  BY SizeIs
<1>2. SCALE_NODES \in Nat /\ Grown(n) \in Nat /\ Grown(n) > n + SCALE_NODES
  BY SizesAre, GrownIs
<1>3. CASE n + SCALE_NODES < t
  <2>1. Grow(a, n, unset) = [cells |-> a, wild |-> unset]
    BY <1>1, <1>3 DEF Grow
  <2>2. a = [c \in 0..(t - 1) |-> IF c < n \/ t = t THEN a[c] ELSE Clear]
    OBVIOUS
  <2>3. g.cells = a /\ g.wild = unset
    BY <2>1
  <2> HIDE DEF g
  <2>4. t <= t
    OBVIOUS
  <2>5. Fits(t)
    BY <1>3, <2>2, <2>3, <2>4
  <2> QED BY <2>5
<1>4. CASE ~ (n + SCALE_NODES < t)
  <2> DEFINE s == Grown(n)
  <2>1. s \in Nat /\ t < s /\ n + SCALE_NODES < s
    BY <1>2, <1>4
  <2>2. /\ Grow(a, n, unset).cells = [c \in 0..(s - 1) |-> IF c < n THEN a[c] ELSE Clear]
        /\ Grow(a, n, unset).wild = {c \in unset : c < n} \cup (n + s - t)..(s - 1)
    BY <1>1, <1>4 DEF Grow
  <2> HIDE DEF s
  <2>3. s # t
    BY <2>1
  <2>4. ASSUME NEW c \in Nat, c < n
        PROVE  c \notin (n + s - t)..(s - 1)
    BY <2>1, <2>4
  <2>5. t <= s /\ n + SCALE_NODES < s
    BY <2>1
  <2>6. g.cells = [c \in 0..(s - 1) |-> IF c < n \/ s = t THEN a[c] ELSE Clear]
    BY <2>2, <2>3
  <2>7. \A c \in Nat : c < n => (c \in g.wild <=> c \in unset)
    BY <2>2, <2>4
  <2> HIDE DEF g
  <2>8. Fits(s)
    BY <2>5, <2>6, <2>7
  <2> QED BY <2>1, <2>8
<1> QED BY <1>3, <1>4

LEMMA BaseIs ==
  ASSUME NEW F, NEW t, Cells(F, t), NEW ch \in Nat, 1 <= ch
  PROVE  /\ Base(ch) \in Nat \ {0} /\ Base(ch) + SCALE_NODES < t
         /\ nodes <= Base(ch) + ch /\ ROOT + 1 < Base(ch) + ch
<1>1. /\ nodes \in Nat /\ t \in Nat /\ nodes + SCALE_NODES < t /\ SCALE_NODES + 1 + 1 < t
      /\ (nodes = 0 \/ nodes > 1 + 1) /\ SCALE_NODES \in Nat
  BY SizesAre DEF Cells, ROOT
<1>2. CASE nodes <= ch
  <2>1. Base(ch) = 1 + 1
    BY <1>2 DEF Base, ROOT
  <2> QED BY ONLY ch \in Nat, 1 <= ch, <1>1, <1>2, <2>1 DEF ROOT
<1>3. CASE ~ (nodes <= ch)
  <2>1. Base(ch) = nodes - ch
    BY <1>3 DEF Base
  <2>2. nodes - ch \in Nat \ {0} /\ (nodes - ch) + SCALE_NODES < t /\ nodes = (nodes - ch) + ch /\ 1 + 1 < nodes
    BY <1>1, <1>3
  <2> QED BY ONLY ch \in Nat, 1 <= ch, <1>1, <2>1, <2>2 DEF ROOT
<1> QED BY <1>2, <1>3

LEMMA SharesSame ==
  ASSUME TrieTypes, NEW i \in DOMAIN dt, NEW n \in Nat, n <= Len(dt[i])
  PROVE  Shares(i, i, n)
BY DEF Shares

LEMMA SharesBack ==
  ASSUME NEW i, NEW j, NEW n, Shares(i, j, n)
  PROVE  Shares(j, i, n)
BY DEF Shares

LEMMA SharesOn ==
  ASSUME NEW i, NEW j, NEW h, NEW n, Shares(i, j, n), Shares(j, h, n)
  PROVE  Shares(i, h, n)
BY DEF Shares

LEMMA SharesLess ==
  ASSUME NEW i \in DOMAIN dt, NEW j \in DOMAIN dt, dt \in Seq(Key), NEW n \in Nat, Shares(i, j, n + 1)
  PROVE  Shares(i, j, n) /\ dt[i][n + 1] = dt[j][n + 1]
<1>1. Len(dt[i]) \in Nat /\ Len(dt[j]) \in Nat /\ n + 1 \in 1..(n + 1) /\ \A m \in 1..n : m \in 1..(n + 1)
  BY KeysIs
<1>2. n + 1 <= Len(dt[i]) /\ n + 1 <= Len(dt[j]) /\ \A m \in 1..(n + 1) : dt[i][m] = dt[j][m]
  BY DEF Shares
<1>3. n <= Len(dt[i]) /\ n <= Len(dt[j])
  BY <1>1, <1>2
<1> QED BY <1>1, <1>2, <1>3 DEF Shares

LEMMA SharesAll ==
  ASSUME NEW i \in DOMAIN dt, NEW j \in DOMAIN dt, dt \in Seq(Key), NEW n \in Nat, Shares(i, j, n),
         n < Len(dt[i]), n < Len(dt[j]), dt[i][n + 1] = dt[j][n + 1]
  PROVE  Shares(i, j, n + 1)
<1>1. Len(dt[i]) \in Nat /\ Len(dt[j]) \in Nat /\ \A m \in 1..(n + 1) : m = n + 1 \/ m \in 1..n
  BY KeysIs
<1>2. \A m \in 1..n : dt[i][m] = dt[j][m]
  BY DEF Shares
<1>3. n + 1 <= Len(dt[i]) /\ n + 1 <= Len(dt[j])
  BY <1>1
<1> QED BY <1>1, <1>2, <1>3 DEF Shares

-----------------------------------------------------------------------------
(* The key that is added next.                                             *)
NextKey(i) == i \in Keys(off) /\ i > at_ /\ \A j \in Keys(off) : j > at_ => i <= j

LEMMA NextIsAKey ==
  ASSUME TrieTypes, NEW i, NextKey(i)
  PROVE  /\ i \in DOMAIN dt /\ i \in Nat \ {0} /\ off \in Nat /\ at_ \in Nat /\ at_ < i
         /\ Len(dt[i]) \in Nat /\ off < Len(dt[i]) /\ off + 1 \in 1..Len(dt[i])
         /\ Built(i, off) /\ ~Built(i, off + 1)
         /\ \A j \in DOMAIN dt : j < i /\ off < Len(dt[j]) => Built(j, off + 1)
<1>1. i \in DOMAIN dt /\ Len(dt[i]) > off /\ i > at_ /\ off \in Nat /\ at_ \in Nat /\ dt \in Seq(Key)
  BY DEF NextKey, Keys, TrieTypes
<1>2. i \in Nat \ {0} /\ Len(dt[i]) \in Nat
  BY <1>1, KeysIs
<1>3. at_ < i /\ off < Len(dt[i]) /\ off + 1 \in 1..Len(dt[i])
  BY <1>1, <1>2
<1>4. Built(i, off) /\ ~Built(i, off + 1)
  BY <1>1, <1>2 DEF Built
<1>5. ASSUME NEW j \in DOMAIN dt, j < i, off < Len(dt[j]) PROVE Built(j, off + 1)
  <2>1. j \in Nat /\ Len(dt[j]) \in Nat
    BY <1>1, KeysIs
  <2>2. j \in Keys(off)
    BY <1>1, <1>5, <2>1 DEF Keys
  <2>3. j <= at_
    BY <1>1, <1>2, <1>5, <2>1, <2>2 DEF NextKey
  <2>4. off + 1 \in 0..Len(dt[j])
    BY <1>1, <1>5, <2>1
  <2> QED BY <2>3, <2>4 DEF Built
<1> QED BY <1>1, <1>2, <1>3, <1>4, <1>5

\* Keys that begin alike stand together: one of them that has its cell is the last key done.
LEMMA LastShares ==
  ASSUME TrieTypes, Sorted, NEW i, NextKey(i), NEW F, Newest(F), NEW n \in {off, off + 1},
         NEW j \in DOMAIN dt, Built(j, off + 1), Shares(j, i, n)
  PROVE  at_ # 0 /\ at_ \in DOMAIN dt /\ Built(at_, off + 1) /\ Shares(at_, i, n)
<1>1. /\ i \in DOMAIN dt /\ i \in Nat /\ off \in Nat /\ at_ \in Nat /\ at_ < i /\ dt \in Seq(Key)
  BY NextIsAKey DEF TrieTypes
<1>2. j \in Nat \ {0} /\ j <= at_
  BY <1>1, KeysIs DEF Built
<1>3. at_ # 0 /\ at_ \in DOMAIN dt /\ off < Len(dt[at_])
  BY <1>1, <1>2 DEF Newest
<1>4. Built(at_, off + 1)
  <2>1. Len(dt[at_]) \in Nat
    BY <1>1, <1>3, KeysIs
  <2>2. off + 1 \in 0..Len(dt[at_])
    BY <1>1, <1>3, <2>1
  <2> QED BY <1>1, <1>3, <2>2 DEF Built
<1>5. n \in Nat
  BY <1>1
<1>6. CASE j = at_
  BY <1>3, <1>4, <1>6
<1>7. CASE j < at_
  <2>1. Shares(at_, i, n)
    BY <1>1, <1>3, <1>5, <1>7, BetweenShares
  <2> QED BY <1>3, <1>4, <2>1
<1> QED BY <1>1, <1>2, <1>6, <1>7

\* Where dat_add_internal looks, and what it meets there: either the last key done
\* has the characters looked for, or no key done has.
LooksAt(F, i, ch, parent, base, cell) ==
    /\ ch = dt[i][off + 1] /\ parent = F[i][off] /\ cell = base + ch
    /\ base = IF da[parent].base = 0 THEN Base(ch) ELSE da[parent].base
Meets(F, t, i, ch, parent, base, cell) ==
    /\ parent \in Nat \ {0} /\ parent \in 0..(t - 1) /\ (parent = ROOT \/ parent < nodes)
    /\ base \in Nat \ {0} /\ base + SCALE_NODES < t /\ da[parent].base \in {0, base}
    /\ ch \in Nat /\ cell \in 0..(t - 1) /\ ROOT + 1 < cell
    /\ \/ /\ at_ \in DOMAIN dt /\ Built(at_, off + 1) /\ Shares(at_, i, off + 1)
          /\ cell = F[at_][off + 1]
       \/ /\ nodes <= cell
          /\ \A j \in DOMAIN dt : Built(j, off + 1) => ~Shares(j, i, off + 1)

LEMMA NextCell ==
  ASSUME TrieTypes, Sorted, dt # <<>>, NEW F, NEW t, Tree(F, t), NEW i, NextKey(i),
         NEW ch, NEW parent, NEW base, NEW cell, LooksAt(F, i, ch, parent, base, cell)
  PROVE  Meets(F, t, i, ch, parent, base, cell)
<1> SUFFICES
     ASSUME ch = dt[i][off + 1], parent = F[i][off], base = IF da[parent].base = 0 THEN Base(ch) ELSE da[parent].base,
            cell = base + ch
     PROVE  /\ parent \in Nat \ {0} /\ parent \in 0..(t - 1) /\ (parent = ROOT \/ parent < nodes)
            /\ base \in Nat \ {0} /\ base + SCALE_NODES < t /\ da[parent].base \in {0, base}
            /\ ch \in Nat /\ base + ch \in 0..(t - 1) /\ ROOT + 1 < base + ch
            /\ \/ /\ at_ \in DOMAIN dt /\ Built(at_, off + 1) /\ Shares(at_, i, off + 1)
                  /\ base + ch = F[at_][off + 1]
               \/ /\ nodes <= base + ch
                  /\ \A j \in DOMAIN dt : Built(j, off + 1) => ~Shares(j, i, off + 1)
  BY DEF LooksAt, Meets
<1>1. /\ i \in DOMAIN dt /\ i \in Nat \ {0} /\ off \in Nat /\ at_ \in Nat /\ at_ < i /\ dt \in Seq(Key)
      /\ Len(dt[i]) \in Nat /\ off < Len(dt[i]) /\ off + 1 \in 1..Len(dt[i]) /\ Built(i, off)
  BY NextIsAKey DEF TrieTypes
<1>2. /\ t \in Nat /\ nodes \in Nat /\ SCALE_NODES \in Nat /\ nodes + SCALE_NODES < t /\ SCALE_NODES + 2 < t
      /\ \A c \in 0..(t - 1) : da[c].base \in Nat /\ da[c].base + SCALE_NODES < t
  <2>1. /\ t \in Nat /\ nodes \in Nat /\ nodes + SCALE_NODES < t /\ SCALE_NODES + 1 + 1 < t
        /\ da \in [0..(t - 1) -> [base : Nat, check : Nat, value : Nat]]
        /\ \A c \in 0..(t - 1) : da[c].base + SCALE_NODES < t
    BY DEF Tree, Cells, ROOT
  <2>2. SCALE_NODES + 2 < t
    BY <2>1, SizesAre
  <2>3. \A c \in 0..(t - 1) : da[c].base \in Nat
    BY <2>1
  <2> QED BY <2>1, <2>2, <2>3, SizesAre
<1>3. parent \in Nat \ {0} /\ parent \in 0..(t - 1) /\ (parent = ROOT \/ parent < nodes)
  <2>1. Cells(F, t) /\ Edges(F)
    BY DEF Tree
  <2> QED BY <1>1, <2>1, CellIs
<1>4. ch \in Nat /\ 1 <= ch /\ ch <= SCALE_NODES
  BY <1>1, KeysIs
<1>5. da[parent].base \in Nat /\ da[parent].base + SCALE_NODES < t
  BY <1>2, <1>3
<1>6. /\ Base(ch) \in Nat \ {0} /\ Base(ch) + SCALE_NODES < t
      /\ nodes <= Base(ch) + ch /\ ROOT + 1 < Base(ch) + ch
  BY <1>4, BaseIs DEF Tree
<1>7. /\ base \in Nat \ {0} /\ base + SCALE_NODES < t /\ da[parent].base \in {0, base}
  BY <1>5, <1>6
<1>8. base + ch \in 0..(t - 1)
  <2>1. t \in Nat /\ SCALE_NODES \in Nat /\ ch \in Nat /\ ch <= SCALE_NODES /\ base \in Nat /\ base + SCALE_NODES < t
    BY <1>2, <1>4, <1>7
  <2> QED BY ONLY <2>1
<1>9. Newest(F) /\ Apart(F) /\ Used(F) /\ Edges(F)
  BY DEF Tree
<1>10. CASE at_ # 0 /\ Shares(at_, i, off)
  <2>1. at_ \in DOMAIN dt /\ off < Len(dt[at_]) /\ F[at_][off + 1] = nodes - 1
    BY <1>9, <1>10 DEF Newest
  <2>2. Built(at_, off + 1) /\ Built(at_, off)
    <3>1. off + 1 \in 0..Len(dt[at_])
      BY <1>1, <2>1, KeysIs
    <3>2. Built(at_, off + 1)
      BY <1>1, <2>1, <3>1 DEF Built
    <3> QED BY <1>1, <2>1, <3>2, BuiltIs
  <2>3. F[at_][off] = parent
    BY <1>1, <1>9, <1>10, <2>1, <2>2 DEF Apart
  <2>4. /\ da[parent].base > 0 /\ F[at_][off + 1] = da[parent].base + dt[at_][off + 1]
        /\ ROOT + 1 < F[at_][off + 1]
    <3>1. Edge(F, at_, off)
      BY ONLY <1>1, <1>9, <2>1, <2>2 DEF Edges
    <3> QED BY ONLY <2>3, <3>1 DEF Edge
  <2>5. base = da[parent].base /\ F[at_][off + 1] = base + dt[at_][off + 1]
    <3>1. da[parent].base # 0
      BY <1>5, <2>4
    <3> QED BY <2>4, <3>1
  <2>6. dt[at_][off + 1] \in Nat
    <3>1. off + 1 \in 1..Len(dt[at_])
      BY <1>1, <2>1, KeysIs
    <3> QED BY <1>1, <2>1, <3>1, KeysIs
  <2>7. CASE dt[at_][off + 1] = ch
    <3>1. Shares(at_, i, off + 1)
      BY <1>1, <1>10, <2>1, <2>7, SharesAll
    <3> QED BY <1>3, <1>4, <1>7, <1>8, <2>1, <2>2, <2>4, <2>5, <2>7, <3>1
  <2>8. CASE dt[at_][off + 1] # ch
    <3>1. dt[at_][off + 1] <= ch
      <4>1. UpTo(dt[at_], dt[i]) /\ dt[at_] \in Key /\ dt[i] \in Key
        BY <1>1, <2>1, KeysIs DEF Sorted
      <4>2. \A m \in 1..off : dt[at_][m] = dt[i][m]
        BY <1>10 DEF Shares
      <4> QED BY <1>1, <2>1, <4>1, <4>2, OrderIs
    <3>2. dt[at_][off + 1] < ch
      BY <1>4, <2>6, <2>8, <3>1
    <3>3. nodes <= base + ch /\ ROOT + 1 < base + ch
      <4>1. nodes - 1 = base + dt[at_][off + 1] /\ 1 + 1 < nodes - 1
        BY <2>1, <2>4, <2>5 DEF ROOT
      <4>2. nodes \in Nat /\ base \in Nat /\ ch \in Nat /\ dt[at_][off + 1] \in Nat
        BY <1>2, <1>4, <1>7, <2>6
      <4>3. nodes <= base + ch /\ 1 + 1 < base + ch
        BY ONLY <3>2, <4>1, <4>2
      <4> QED BY <4>3 DEF ROOT
    <3>4. ASSUME NEW j \in DOMAIN dt, Built(j, off + 1), Shares(j, i, off + 1) PROVE FALSE
      <4>1. Shares(at_, i, off + 1)
        BY <1>9, <3>4, LastShares
      <4>2. dt[at_][off + 1] = dt[i][off + 1]
        BY ONLY <1>1, <2>1, <4>1, SharesLess
      <4> QED BY ONLY <2>8, <4>2, ch = dt[i][off + 1]
    <3> QED BY <1>3, <1>4, <1>7, <1>8, <3>3, <3>4
  <2> QED BY <2>7, <2>8
<1>11. CASE ~ (at_ # 0 /\ Shares(at_, i, off))
  <2>1. ASSUME NEW j \in DOMAIN dt, Built(j, off + 1), Shares(j, i, off) PROVE FALSE
    BY <1>9, <1>11, <2>1, LastShares
  <2>2. da[parent].base = 0
    <3>1. SUFFICES ASSUME da[parent].base # 0 PROVE FALSE
      OBVIOUS
    <3>2. PICK j \in DOMAIN dt : Built(j, off + 1) /\ Shares(i, j, off)
      BY <1>1, <1>9, <3>1 DEF Used
    <3> QED BY <2>1, <3>2, SharesBack
  <2>3. base = Base(ch)
    BY <2>2
  <2>4. ASSUME NEW j \in DOMAIN dt, Built(j, off + 1), Shares(j, i, off + 1) PROVE FALSE
    BY <1>1, <2>1, <2>4, SharesLess
  <2> QED BY <1>3, <1>4, <1>6, <1>7, <1>8, <2>3, <2>4
<1> QED BY <1>10, <1>11

-----------------------------------------------------------------------------
(* A key is added on one level.                                            *)
LEMMA BuiltNext ==
  ASSUME TrieTypes, NEW i, NextKey(i), dt' = dt, off' = off, at_' = i
  PROVE  \A j \in DOMAIN dt, n \in Nat : Built(j, n)' <=> Built(j, n) \/ (j = i /\ n = off + 1)
<1> SUFFICES ASSUME NEW j \in DOMAIN dt, NEW n \in Nat
             PROVE  Built(j, n)' <=> Built(j, n) \/ (j = i /\ n = off + 1)
  OBVIOUS
<1>1. /\ i \in DOMAIN dt /\ i \in Nat /\ off \in Nat /\ at_ \in Nat /\ at_ < i
      /\ j \in Nat /\ Len(dt[j]) \in Nat /\ off + 1 \in 1..Len(dt[i]) /\ Len(dt[i]) \in Nat
  <2>1. j \in Nat /\ Len(dt[j]) \in Nat
    BY KeysIs DEF TrieTypes
  <2> QED BY <2>1, NextIsAKey
<1>2. Built(j, n)' <=> j \in DOMAIN dt /\ n \in 0..Len(dt[j]) /\ (n <= off \/ (n = off + 1 /\ j <= i))
  BY DEF Built
<1>3. ASSUME n \in 0..Len(dt[j]), n = off + 1, j <= i PROVE Built(j, n) \/ (j = i /\ n = off + 1)
  <2>1. CASE j = i
    BY <1>3, <2>1
  <2>2. CASE j < i
    <3>1. off < Len(dt[j])
      BY <1>1, <1>3
    <3> QED BY <1>3, <2>2, <3>1, NextIsAKey
  <2> QED BY <1>1, <1>3, <2>1, <2>2
<1>4. Built(j, n) => Built(j, n)'
  <2>1. j <= at_ => j <= i
    BY <1>1
  <2> QED BY <1>2, <2>1 DEF Built
<1>5. j = i /\ n = off + 1 => Built(j, n)'
  <2>1. n = off + 1 /\ j = i => n \in 0..Len(dt[j]) /\ j <= i
    BY <1>1
  <2> QED BY <1>2, <2>1
<1>6. n \in 0..Len(dt[j]) /\ n <= off => Built(j, n)
  BY DEF Built
<1> QED BY <1>2, <1>3, <1>4, <1>5, <1>6

LEMMA SharesKept == ASSUME dt' = dt, NEW i, NEW j, NEW n PROVE Shares(i, j, n)' <=> Shares(i, j, n)
BY DEF Shares

LEMMA FirstKept ==
  ASSUME dt' = dt, NEW v, NEW i, NEW n
  PROVE  /\ \A j : IsKey(j, i, n)' <=> IsKey(j, i, n)
         /\ FirstIs(v, i, n)' <=> FirstIs(v, i, n)
<1>2. ASSUME NEW j PROVE IsKey(j, i, n)' <=> IsKey(j, i, n)
  <2>1. Shares(i, j, n)' <=> Shares(i, j, n)
    BY SharesKept
  <2>2. IsKey(j, i, n)' <=> j \in DOMAIN dt' /\ Len(dt'[j]) = n /\ Shares(i, j, n)'
    BY DEF IsKey
  <2>3. IsKey(j, i, n) <=> j \in DOMAIN dt /\ Len(dt[j]) = n /\ Shares(i, j, n)
    BY DEF IsKey
  <2> QED BY <2>1, <2>2, <2>3
<1> QED BY <1>2 DEF FirstIs

\* The key has its cell from the key before it: the array stays as it is.
LEMMA AddOld ==
  ASSUME TrieTypes, NEW F, NEW t, Tree(F, t), NEW i, NextKey(i),
         NEW a \in DOMAIN dt, Built(a, off + 1), Shares(a, i, off + 1), F[a][off + 1] = nodes - 1,
         dt' = dt, off' = off, at_' = i, da' = da, nodes' = nodes, wild' = wild
  PROVE  \E G : Tree(G, t)'
<1> PICK cell, d : cell = F[a][off + 1] /\ d = off
  OBVIOUS
<1>1. /\ i \in DOMAIN dt /\ d \in Nat /\ dt \in Seq(Key) /\ Built(i, d) /\ ~Built(i, d + 1) /\ d + 1 \in Nat /\ d + 1 # 0
      /\ d < Len(dt[i])
  BY NextIsAKey DEF TrieTypes
<1>2. Cells(F, t) /\ Edges(F) /\ Apart(F) /\ Used(F) /\ Valued(F)
  BY DEF Tree
<1>3. \A j \in DOMAIN dt, n \in Nat : Built(j, n)' <=> Built(j, n) \/ (j = i /\ n = d + 1)
  BY BuiltNext
<1>4. Built(a, d + 1) /\ Built(a, d) /\ Shares(a, i, d + 1) /\ Shares(a, i, d) /\ dt[a][d + 1] = dt[i][d + 1]
  BY <1>1, BuiltIs, SharesLess
<1>5. F \in [DOMAIN dt -> [Nat -> Nat]] /\ cell \in Nat /\ cell = F[a][d + 1]
  BY <1>1, <1>2 DEF Edges
<1>6. PICK G : G \in [DOMAIN dt -> [Nat -> Nat]] /\ \A j \in DOMAIN dt, n \in Nat :
               G[j][n] = IF j = i /\ n = d + 1 THEN cell ELSE F[j][n]
  <2> DEFINE H == [j \in DOMAIN dt |-> [n \in Nat |-> IF j = i /\ n = d + 1 THEN cell ELSE F[j][n]]]
  <2>1. H \in [DOMAIN dt -> [Nat -> Nat]]
    BY <1>5
  <2>2. \A j \in DOMAIN dt, n \in Nat : H[j][n] = IF j = i /\ n = d + 1 THEN cell ELSE F[j][n]
    OBVIOUS
  <2> HIDE DEF H
  <2>3. H \in [DOMAIN dt -> [Nat -> Nat]] /\ \A j \in DOMAIN dt, n \in Nat :
             H[j][n] = IF j = i /\ n = d + 1 THEN cell ELSE F[j][n]
    BY ONLY <2>1, <2>2
  <2> QED BY ONLY <2>3
<1>7. \A j \in DOMAIN dt, n \in Nat : G[j][n] = IF j = i /\ n = d + 1 THEN cell ELSE F[j][n]
  BY <1>6
<1>8. \A j \in DOMAIN dt, n \in Nat : Built(j, n) => G[j][n] = F[j][n]
  BY <1>1, <1>7
<1>9. G[i][d + 1] = cell /\ G[i][d] = F[i][d] /\ F[i][d] = F[a][d]
  <2>1. F[i][d] = F[a][d]
    BY <1>1, <1>2, <1>4 DEF Apart
  <2>2. d # d + 1
    BY <1>1
  <2> QED BY <1>1, <1>7, <2>1, <2>2
<1>10. Cells(G, t)'
  <2>1. ASSUME NEW c \in 0..(t - 1)
        PROVE  da[c] = Clear \/ \E j \in DOMAIN dt, n \in Nat : Built(j, n)' /\ c = G[j][n]
    <3>1. da[c] = Clear \/ \E j \in DOMAIN dt, n \in Nat : Built(j, n) /\ c = F[j][n]
      BY <1>2 DEF Cells
    <3> QED BY <1>3, <1>8, <3>1
  <2>2. /\ t \in Nat /\ da \in [0..(t - 1) -> [base : Nat, check : Nat, value : Nat]]
        /\ nodes \in Nat /\ nodes + SCALE_NODES < t /\ SCALE_NODES + ROOT + 1 < t /\ (nodes = 0 \/ nodes > ROOT + 1)
        /\ \A c \in 0..(t - 1) : da[c].base + SCALE_NODES < t
        /\ da[ROOT].check = 0
    BY <1>2 DEF Cells
  <2> QED BY <2>1, <2>2 DEF Cells
<1>11. Edges(G)'
  <2>1. ASSUME NEW j \in DOMAIN dt PROVE G[j][0] = ROOT
    BY <1>1, <1>2, <1>7 DEF Edges
  <2>2. ASSUME NEW j \in DOMAIN dt, NEW n \in Nat, Built(j, n + 1)' PROVE Edge(G, j, n)'
    <3>1. n + 1 \in Nat
      OBVIOUS
    <3>2. CASE Built(j, n + 1)
      <4>1. G[j][n + 1] = F[j][n + 1] /\ G[j][n] = F[j][n] /\ Edge(F, j, n)
        BY <1>2, <1>8, <3>1, <3>2, BuiltIs DEF Edges
      <4> QED BY <4>1 DEF Edge
    <3>3. CASE j = i /\ n + 1 = d + 1
      <4>1. n = d
        BY <1>1, <3>3
      <4>2. Edge(F, a, d)
        BY <1>1, <1>2, <1>4 DEF Edges
      <4>3. G[j][n + 1] = F[a][d + 1] /\ G[j][n] = F[a][d] /\ dt[j][n + 1] = dt[a][d + 1]
        BY <1>4, <1>5, <1>9, <3>3, <4>1
      <4> QED BY <4>2, <4>3 DEF Edge
    <3> QED BY <1>3, <2>2, <3>1, <3>2, <3>3
  <2> QED BY <1>6, <2>1, <2>2 DEF Edges
<1>12. ASSUME NEW j \in DOMAIN dt, NEW n \in Nat, Built(j, n)'
       PROVE  \E h \in DOMAIN dt : Built(h, n) /\ G[j][n] = F[h][n] /\ Shares(h, j, n) /\ (j = h \/ (j = i /\ h = a /\ n = d + 1))
  <2>1. CASE Built(j, n)
    <3>1. Shares(j, j, n)
      BY <2>1, BuiltIs, SharesSame
    <3> QED BY <1>8, <2>1, <3>1
  <2>2. CASE j = i /\ n = d + 1
    BY <1>4, <1>5, <1>9, <2>2
  <2> QED BY <1>3, <1>12, <2>1, <2>2
<1>13. Apart(G)'
  <2>1. ASSUME NEW j \in DOMAIN dt, NEW h \in DOMAIN dt, NEW n \in Nat, NEW m \in Nat, Built(j, n)', Built(h, m)'
        PROVE  G[j][n] = G[h][m] <=> n = m /\ Shares(j, h, n)
    <3>1. PICK j1 \in DOMAIN dt : Built(j1, n) /\ G[j][n] = F[j1][n] /\ Shares(j1, j, n)
      BY <1>12, <2>1
    <3>2. PICK h1 \in DOMAIN dt : Built(h1, m) /\ G[h][m] = F[h1][m] /\ Shares(h1, h, m)
      BY <1>12, <2>1
    <3>3. F[j1][n] = F[h1][m] <=> n = m /\ Shares(j1, h1, n)
      BY <1>2, <3>1, <3>2 DEF Apart
    <3>4. n = m => (Shares(j1, h1, n) <=> Shares(j, h, n))
      BY <3>1, <3>2, SharesBack, SharesOn
    <3> QED BY <3>1, <3>2, <3>3, <3>4
  <2>2. \A j, h, n : Shares(j, h, n)' <=> Shares(j, h, n)
    BY SharesKept
  <2> QED BY <2>1, <2>2 DEF Apart
<1>14. Used(G)'
  <2>1. ASSUME NEW j \in DOMAIN dt, NEW n \in Nat, Built(j, n)', da[G[j][n]].base # 0
        PROVE  \E h \in DOMAIN dt : Built(h, n + 1)' /\ Shares(j, h, n)
    <3>1. PICK j1 \in DOMAIN dt : Built(j1, n) /\ G[j][n] = F[j1][n] /\ Shares(j1, j, n)
      BY <1>12, <2>1
    <3>2. PICK h \in DOMAIN dt : Built(h, n + 1) /\ Shares(j1, h, n)
      BY <1>2, <2>1, <3>1 DEF Used
    <3>3. Built(h, n + 1)'
      BY <1>3, <3>2
    <3>4. Shares(j, h, n)
      BY <3>1, <3>2, SharesBack, SharesOn
    <3> QED BY <3>3, <3>4
  <2>2. \A j, h, n : Shares(j, h, n)' <=> Shares(j, h, n)
    BY SharesKept
  <2> QED BY <2>1, <2>2 DEF Used
<1>15. Valued(G)'
  <2>1. ASSUME NEW j \in DOMAIN dt, NEW n \in Nat, Built(j, n + 1)'
        PROVE  IF \E h \in DOMAIN dt : IsKey(h, j, n + 1) THEN FirstIs(da[G[j][n + 1]].value, j, n + 1)
               ELSE da[G[j][n + 1]].value = 0
    <3>1. n + 1 \in Nat
      OBVIOUS
    <3>2. PICK j1 \in DOMAIN dt : Built(j1, n + 1) /\ G[j][n + 1] = F[j1][n + 1] /\ Shares(j1, j, n + 1)
      BY <1>12, <2>1, <3>1
    <3>3. IF \E h \in DOMAIN dt : IsKey(h, j1, n + 1) THEN FirstIs(da[F[j1][n + 1]].value, j1, n + 1)
          ELSE da[F[j1][n + 1]].value = 0
      BY <1>2, <3>2 DEF Valued
    <3>4. ASSUME NEW h PROVE IsKey(h, j1, n + 1) <=> IsKey(h, j, n + 1)
      <4>1. Shares(j1, h, n + 1) <=> Shares(j, h, n + 1)
        BY <3>2, SharesBack, SharesOn
      <4> QED BY <4>1 DEF IsKey
    <3> QED BY <3>2, <3>3, <3>4 DEF FirstIs
  <2>2. ASSUME NEW j \in DOMAIN dt, NEW n \in Nat
        PROVE  /\ \A h : IsKey(h, j, n + 1)' <=> IsKey(h, j, n + 1)
               /\ \A v : FirstIs(v, j, n + 1)' <=> FirstIs(v, j, n + 1)
    BY FirstKept
  <2> QED BY <2>1, <2>2 DEF Valued
<1>16. Newest(G)'
  BY <1>1, <1>5, <1>9 DEF Newest
<1> QED BY <1>10, <1>11, <1>13, <1>14, <1>15, <1>16 DEF Tree

\* The key needs a cell behind all that are in use, and what becomes of the array, of s cells then.
NewCell(F, t, i, parent, base, cell) ==
    /\ parent = F[i][off] /\ base \in Nat \ {0} /\ base + SCALE_NODES < t /\ da[parent].base \in {0, base}
    /\ cell = base + dt[i][off + 1] /\ cell \in 0..(t - 1) /\ nodes <= cell /\ ROOT + 1 < cell /\ cell \notin wild
    /\ \A j \in DOMAIN dt : Built(j, off + 1) => ~Shares(j, i, off + 1)
Stored(t, i, parent, base, cell, s) ==
    /\ s \in Nat /\ t <= s /\ cell + 1 + SCALE_NODES < s
    /\ da' \in [0..(s - 1) -> [base : Nat, check : Nat, value : Nat]]
    /\ da'[cell] = [base |-> 0, check |-> parent, value |-> IF Len(dt[i]) = off + 1 THEN i ELSE 0]
    /\ da'[parent] = [base |-> base, check |-> da[parent].check, value |-> da[parent].value]
    /\ \A c \in 0..(t - 1) : c # cell /\ c # parent => da'[c] = da[c]
    /\ \A c \in 0..(s - 1) : ~ (c < t) => da'[c] = Clear
    /\ nodes' = cell + 1 /\ \A c \in Nat : c < cell + 1 => (c \in wild' <=> c \in wild)

LEMMA AddNew ==
  ASSUME TrieTypes, Sorted, NEW F, NEW t, Tree(F, t), NEW i, NextKey(i),
         NEW parent, NEW base, NEW cell, NewCell(F, t, i, parent, base, cell), NEW s, Stored(t, i, parent, base, cell, s),
         dt' = dt, off' = off, at_' = i
  PROVE  \E G : Tree(G, s)'
<1> SUFFICES
     ASSUME parent = F[i][off], base \in Nat \ {0}, base + SCALE_NODES < t, da[parent].base \in {0, base},
            cell = base + dt[i][off + 1], cell \in 0..(t - 1), nodes <= cell, ROOT + 1 < cell, cell \notin wild,
            \A j \in DOMAIN dt : Built(j, off + 1) => ~Shares(j, i, off + 1),
            s \in Nat, t <= s, cell + 1 + SCALE_NODES < s,
            da' \in [0..(s - 1) -> [base : Nat, check : Nat, value : Nat]],
            da'[cell] = [base |-> 0, check |-> parent, value |-> IF Len(dt[i]) = off + 1 THEN i ELSE 0],
            da'[parent] = [base |-> base, check |-> da[parent].check, value |-> da[parent].value],
            \A c \in 0..(t - 1) : c # cell /\ c # parent => da'[c] = da[c],
            \A c \in 0..(s - 1) : ~ (c < t) => da'[c] = Clear,
            nodes' = cell + 1, \A c \in Nat : c < cell + 1 => (c \in wild' <=> c \in wild)
     PROVE  \E G : Tree(G, s)'
  BY DEF NewCell, Stored
<1> PICK d : d = off
  OBVIOUS
<1>1. /\ i \in DOMAIN dt /\ d \in Nat /\ dt \in Seq(Key) /\ Built(i, d) /\ ~Built(i, d + 1) /\ d + 1 \in Nat /\ d + 1 # 0
      /\ d < Len(dt[i]) /\ d + 1 \in 1..Len(dt[i]) /\ i \in Nat \ {0} /\ Len(dt[i]) \in Nat
  BY ONLY TrieTypes, NextKey(i), d = off, NextIsAKey DEF TrieTypes
<1>2. Cells(F, t) /\ Edges(F) /\ Apart(F) /\ Used(F) /\ Valued(F)
  BY DEF Tree
<1>3. \A j \in DOMAIN dt, n \in Nat : Built(j, n)' <=> Built(j, n) \/ (j = i /\ n = d + 1)
  BY ONLY TrieTypes, NextKey(i), dt' = dt, off' = off, at_' = i, d = off, BuiltNext
<1>4. /\ cell \in Nat /\ t \in Nat /\ nodes \in Nat /\ SCALE_NODES \in Nat /\ s \in Nat /\ base \in Nat \ {0}
      /\ cell < t /\ nodes <= cell /\ t <= s /\ cell + 1 + SCALE_NODES < s /\ base + SCALE_NODES < t
      /\ ROOT + 1 < cell /\ nodes' = cell + 1
  <2>1. t \in Nat /\ nodes \in Nat
    BY <1>2 DEF Cells
  <2>2. /\ s \in Nat /\ base \in Nat \ {0} /\ nodes <= cell /\ t <= s /\ cell + 1 + SCALE_NODES < s /\ base + SCALE_NODES < t
        /\ ROOT + 1 < cell /\ nodes' = cell + 1 /\ cell \in 0..(t - 1)
    OBVIOUS
  <2>3. cell \in Nat /\ cell < t
    BY ONLY <2>1, <2>2
  <2> QED BY ONLY <2>1, <2>2, <2>3, SizesAre
<1>5. F \in [DOMAIN dt -> [Nat -> Nat]]
  BY <1>2 DEF Edges
<1>6. PICK G : G \in [DOMAIN dt -> [Nat -> Nat]] /\ \A j \in DOMAIN dt, n \in Nat :
               G[j][n] = IF j = i /\ n = d + 1 THEN cell ELSE F[j][n]
  <2> DEFINE H == [j \in DOMAIN dt |-> [n \in Nat |-> IF j = i /\ n = d + 1 THEN cell ELSE F[j][n]]]
  <2>1. H \in [DOMAIN dt -> [Nat -> Nat]]
    BY <1>4, <1>5
  <2>2. \A j \in DOMAIN dt, n \in Nat : H[j][n] = IF j = i /\ n = d + 1 THEN cell ELSE F[j][n]
    OBVIOUS
  <2> HIDE DEF H
  <2>3. H \in [DOMAIN dt -> [Nat -> Nat]] /\ \A j \in DOMAIN dt, n \in Nat :
             H[j][n] = IF j = i /\ n = d + 1 THEN cell ELSE F[j][n]
    BY ONLY <2>1, <2>2
  <2> QED BY ONLY <2>3
<1>7. \A j \in DOMAIN dt, n \in Nat : G[j][n] = IF j = i /\ n = d + 1 THEN cell ELSE F[j][n]
  BY <1>6
<1>8. \A j \in DOMAIN dt, n \in Nat : Built(j, n) => G[j][n] = F[j][n]
  BY <1>1, <1>7
<1>9. G[i][d + 1] = cell /\ G[i][d] = parent /\ parent = F[i][d]
  <2>1. d # d + 1
    BY <1>1
  <2> QED BY <1>1, <1>7, <2>1
<1>10. ASSUME NEW j \in DOMAIN dt, NEW n \in Nat, Built(j, n)
       PROVE  /\ F[j][n] \in Nat \ {0} /\ F[j][n] \in 0..(t - 1) /\ F[j][n] # cell
              /\ F[j][n] = ROOT \/ (F[j][n] > ROOT + 1 /\ F[j][n] < nodes)
  <2>1. /\ F[j][n] \in Nat \ {0} /\ F[j][n] \in 0..(t - 1)
        /\ F[j][n] = ROOT \/ (F[j][n] > ROOT + 1 /\ F[j][n] < nodes)
    BY <1>2, <1>10, CellIs
  <2>2. F[j][n] # cell
    <3>1. ROOT \in Nat
      BY DEF ROOT
    <3> QED BY ONLY <1>4, <2>1, <3>1
  <2> QED BY <2>1, <2>2
<1>11. parent \in Nat \ {0} /\ parent \in 0..(t - 1) /\ parent # cell
  BY <1>1, <1>9, <1>10
<1>12. /\ da'[cell].base = 0 /\ da'[cell].check = parent /\ da'[cell].value = IF Len(dt[i]) = d + 1 THEN i ELSE 0
       /\ da'[parent].base = base /\ da'[parent].check = da[parent].check /\ da'[parent].value = da[parent].value
  OBVIOUS
<1>13. \A c \in 0..(t - 1) : c # cell => da'[c].check = da[c].check /\ da'[c].value = da[c].value
  BY <1>12
<1>14. \A c \in 0..(t - 1) : c # cell /\ da[c].base # 0 => da'[c].base = da[c].base
  BY <1>12
<1>15. Cells(G, s)'
  <2>1. ASSUME NEW c \in 0..(s - 1)
        PROVE  da'[c] = Clear \/ \E j \in DOMAIN dt, n \in Nat : Built(j, n)' /\ c = G[j][n]
    <3>1. CASE c = cell
      <4>1. Built(i, d + 1)'
        BY <1>1, <1>3
      <4> QED BY <1>1, <1>9, <3>1, <4>1
    <3>2. CASE c = parent
      <4>1. Built(i, d)'
        BY <1>1, <1>3
      <4> QED BY <1>1, <1>9, <3>2, <4>1
    <3>3. CASE c \in 0..(t - 1) /\ c # cell /\ c # parent
      <4>1. da[c] = Clear \/ \E j \in DOMAIN dt, n \in Nat : Built(j, n) /\ c = F[j][n]
        BY <1>2, <3>3 DEF Cells
      <4>2. da'[c] = da[c]
        BY <3>3
      <4>3. ASSUME NEW j \in DOMAIN dt, NEW n \in Nat, Built(j, n), c = F[j][n]
            PROVE  Built(j, n)' /\ c = G[j][n]
        BY <1>3, <1>8, <4>3
      <4>4. CASE da[c] = Clear
        BY <4>2, <4>4
      <4>5. CASE \E j \in DOMAIN dt, n \in Nat : Built(j, n) /\ c = F[j][n]
        BY <4>3, <4>5
      <4> QED BY <4>1, <4>4, <4>5
    <3>4. CASE ~ (c < t)
      BY <3>4
    <3>5. c < t => c \in 0..(t - 1)
      BY <1>4
    <3> QED BY <3>1, <3>2, <3>3, <3>4, <3>5
  <2>2. ASSUME NEW c \in 0..(s - 1) PROVE da'[c].base + SCALE_NODES < s
    <3>1. CASE c < t
      <4>1. c \in 0..(t - 1)
        BY <1>4, <3>1
      <4>2. da[c].base \in Nat /\ da[c].base + SCALE_NODES < t
        BY <1>2, <4>1 DEF Cells
      <4>3. da'[c].base \in {da[c].base, base, 0}
        BY <1>12, <4>1
      <4>4. 0 + SCALE_NODES < t
        BY <1>4, <4>2
      <4>5. \A b \in Nat : b + SCALE_NODES < t => b + SCALE_NODES < s
        BY ONLY <1>4
      <4> QED BY <1>4, <4>2, <4>3, <4>4, <4>5
    <3>2. CASE ~ (c < t)
      <4>1. da'[c].base = 0
        BY <3>2 DEF Clear
      <4>2. SCALE_NODES < s
        BY <1>4
      <4> QED BY <1>4, <4>1, <4>2
    <3> QED BY <3>1, <3>2
  <2>3. nodes' \in Nat /\ nodes' + SCALE_NODES < s /\ nodes' > ROOT + 1
    <3>1. ROOT \in Nat
      BY DEF ROOT
    <3> QED BY ONLY <1>4, <3>1
  <2>4. SCALE_NODES + ROOT + 1 < s
    <3>1. SCALE_NODES + 1 + 1 < t
      BY <1>2 DEF Cells, ROOT
    <3> QED BY <1>4, <3>1 DEF ROOT
  <2>5. da'[ROOT].check = 0
    <3>1. ROOT \in 0..(t - 1) /\ ROOT # cell
      <4>1. SCALE_NODES + 1 + 1 < t
        BY <1>2 DEF Cells, ROOT
      <4>2. 1 \in 0..(t - 1) /\ 1 # cell
        BY ONLY <1>4, <4>1 DEF ROOT
      <4> QED BY ONLY <4>2 DEF ROOT
    <3>2. da[ROOT].check = 0
      BY <1>2 DEF Cells
    <3> QED BY <1>13, <3>1, <3>2
  <2> QED BY <2>1, <2>2, <2>3, <2>4, <2>5 DEF Cells
<1>16. Edges(G)'
  <2>1. ASSUME NEW j \in DOMAIN dt PROVE G[j][0] = ROOT
    BY ONLY <1>1, <1>2, <1>7, j \in DOMAIN dt DEF Edges
  <2>2. ASSUME NEW j \in DOMAIN dt, NEW n \in Nat, Built(j, n + 1)' PROVE Edge(G, j, n)'
    <3>1. n + 1 \in Nat /\ n + 1 # 0
      BY ONLY n \in Nat
    <3>2. CASE Built(j, n + 1)
      <4>1. G[j][n + 1] = F[j][n + 1] /\ G[j][n] = F[j][n] /\ Edge(F, j, n) /\ Built(j, n)
        BY <1>2, <1>8, <3>1, <3>2, BuiltIs DEF Edges
      <4>2. /\ F[j][n] \in 0..(t - 1) /\ F[j][n] # cell
            /\ F[j][n + 1] \in 0..(t - 1) /\ F[j][n + 1] # cell /\ F[j][n + 1] \in Nat
        BY <1>10, <3>1, <3>2, <4>1
      <4>3. /\ da[F[j][n]].base > 0 /\ F[j][n + 1] = da[F[j][n]].base + dt[j][n + 1]
            /\ da[F[j][n + 1]].check = F[j][n]
            /\ ROOT + 1 < F[j][n + 1] /\ F[j][n + 1] < nodes /\ F[j][n + 1] \notin wild
        BY <4>1 DEF Edge
      <4>4. da[F[j][n]].base \in Nat
        BY <1>2, <4>2 DEF Cells
      <4>5. da'[F[j][n]].base = da[F[j][n]].base
        <5>1. da[F[j][n]].base # 0
          BY ONLY <4>3, <4>4
        <5> QED BY <1>14, <4>2, <5>1
      <4>6. da'[F[j][n + 1]].check = F[j][n]
        BY <1>13, <4>2, <4>3
      <4>7. F[j][n + 1] < cell + 1
        BY ONLY <1>4, <4>2, <4>3
      <4>8. F[j][n + 1] \notin wild'
        BY <4>2, <4>3, <4>7
      <4> QED BY <4>1, <4>3, <4>5, <4>6, <4>7, <4>8 DEF Edge
    <3>3. CASE j = i /\ n + 1 = d + 1
      <4>1. n = d
        BY <1>1, <3>3
      <4>2. G[j][n + 1] = cell /\ G[j][n] = parent /\ dt[j][n + 1] = dt[i][off + 1]
        BY <1>9, <3>3, <4>1
      <4>3. base > 0 /\ cell < cell + 1
        BY ONLY <1>4
      <4>4. cell \notin wild'
        BY <1>4, <4>3
      <4> QED BY <1>12, <4>2, <4>3, <4>4 DEF Edge
    <3> QED BY <1>3, <2>2, <3>1, <3>2, <3>3
  <2> QED BY <1>6, <2>1, <2>2 DEF Edges
<1>17. Apart(G)'
  <2>1. ASSUME NEW j \in DOMAIN dt, NEW n \in Nat, Built(j, n)
        PROVE  F[j][n] # cell /\ ~ (n = d + 1 /\ Shares(j, i, n)) /\ ~ (n = d + 1 /\ Shares(i, j, n))
    BY <1>10, <2>1, SharesBack
  <2>2. ASSUME NEW j \in DOMAIN dt, NEW h \in DOMAIN dt, NEW n \in Nat, NEW m \in Nat, Built(j, n)', Built(h, m)'
        PROVE  G[j][n] = G[h][m] <=> n = m /\ Shares(j, h, n)
    <3>1. CASE Built(j, n) /\ Built(h, m)
      BY ONLY <1>2, <1>8, <3>1, j \in DOMAIN dt, h \in DOMAIN dt, n \in Nat, m \in Nat DEF Apart
    <3>2. CASE Built(j, n) /\ h = i /\ m = d + 1
      <4>1. G[j][n] = F[j][n] /\ G[h][m] = cell
        BY <1>8, <1>9, <3>2
      <4>2. F[j][n] # cell /\ ~ (n = d + 1 /\ Shares(j, i, n))
        BY <2>1, <3>2
      <4> QED BY ONLY <3>2, <4>1, <4>2
    <3>3. CASE j = i /\ n = d + 1 /\ Built(h, m)
      <4>1. G[j][n] = cell /\ G[h][m] = F[h][m]
        BY <1>8, <1>9, <3>3
      <4>2. F[h][m] # cell /\ ~ (m = d + 1 /\ Shares(i, h, m))
        BY <2>1, <3>3
      <4> QED BY ONLY <3>3, <4>1, <4>2
    <3>4. CASE j = i /\ n = d + 1 /\ h = i /\ m = d + 1
      <4>1. d + 1 <= Len(dt[i])
        BY <1>1
      <4>2. Shares(i, i, d + 1)
        BY <1>1, <4>1, SharesSame
      <4> QED BY <3>4, <4>2
    <3> QED BY <1>3, <2>2, <3>1, <3>2, <3>3, <3>4
  <2>3. \A j, h, n : Shares(j, h, n)' <=> Shares(j, h, n)
    BY SharesKept
  <2> QED BY ONLY <2>2, <2>3, dt' = dt DEF Apart
<1>18. Used(G)'
  <2>1. ASSUME NEW j \in DOMAIN dt, NEW n \in Nat, Built(j, n)', da'[G[j][n]].base # 0
        PROVE  \E h \in DOMAIN dt : Built(h, n + 1)' /\ Shares(j, h, n)
    <3>1. ~ (j = i /\ n = d + 1)
      BY <1>9, <1>12, <2>1
    <3>2. Built(j, n) /\ G[j][n] = F[j][n]
      BY <1>3, <1>8, <2>1, <3>1
    <3>3. CASE F[j][n] = parent
      <4>1. n = d /\ Shares(j, i, n)
        BY <1>1, <1>2, <1>9, <3>2, <3>3 DEF Apart
      <4>2. Built(i, n + 1)'
        BY <1>1, <1>3, <4>1
      <4> QED BY <1>1, <4>1, <4>2
    <3>4. CASE F[j][n] # parent
      <4>1. da'[F[j][n]] = da[F[j][n]]
        BY <1>10, <3>2, <3>4
      <4>2. PICK h \in DOMAIN dt : Built(h, n + 1) /\ Shares(j, h, n)
        BY <1>2, <2>1, <3>2, <4>1 DEF Used
      <4>3. Built(h, n + 1)'
        BY <1>3, <4>2
      <4> QED BY <4>2, <4>3
    <3> QED BY <3>3, <3>4
  <2>2. \A j, h, n : Shares(j, h, n)' <=> Shares(j, h, n)
    BY SharesKept
  <2> QED BY <2>1, <2>2 DEF Used
<1>19. ASSUME NEW h \in DOMAIN dt, IsKey(h, i, d + 1) PROVE ~ (h < i)
  <2>1. Len(dt[h]) = d + 1 /\ Shares(i, h, d + 1)
    BY <1>19 DEF IsKey
  <2>2. SUFFICES ASSUME h < i PROVE FALSE
    OBVIOUS
  <2>3. d < Len(dt[h])
    BY <1>1, <2>1
  <2>4. Built(h, d + 1)
    BY <2>2, <2>3, NextIsAKey
  <2> QED BY <2>1, <2>4, SharesBack
<1>20. IF \E h \in DOMAIN dt : IsKey(h, i, d + 1) THEN FirstIs(da'[cell].value, i, d + 1)
       ELSE da'[cell].value = 0
  <2>1. CASE Len(dt[i]) = d + 1
    <3>1. Shares(i, i, d + 1)
      BY <1>1, <2>1, SharesSame
    <3>2. IsKey(i, i, d + 1)
      BY <1>1, <2>1, <3>1 DEF IsKey
    <3>3. \A h \in DOMAIN dt : IsKey(h, i, d + 1) => i <= h
      <4>1. \A h \in DOMAIN dt : h \in Nat
        BY <1>1, KeysIs
      <4> QED BY <1>1, <1>19, <4>1
    <3>4. da'[cell].value = i
      BY <1>12, <2>1
    <3> QED BY <1>1, <3>2, <3>3, <3>4 DEF FirstIs
  <2>2. CASE Len(dt[i]) # d + 1
    <3>1. ASSUME NEW h \in DOMAIN dt, IsKey(h, i, d + 1) PROVE FALSE
      <4>1. Len(dt[h]) = d + 1 /\ Shares(i, h, d + 1) /\ h \in Nat
        BY <1>1, <3>1, KeysIs DEF IsKey
      <4>2. i < h
        <5>1. h # i
          BY <2>2, <4>1
        <5> QED BY <1>1, <1>19, <3>1, <4>1, <5>1
      <4>3. UpTo(dt[i], dt[h]) /\ dt[i] \in Key /\ dt[h] \in Key
        BY <1>1, <4>2, KeysIs DEF Sorted
      <4>4. d + 1 <= Len(dt[i]) /\ \A m \in 1..(d + 1) : dt[i][m] = dt[h][m]
        BY <4>1 DEF Shares
      <4>5. d + 1 = Len(dt[i])
        BY <1>1, <4>1, <4>3, <4>4, OrderIs
      <4> QED BY <2>2, <4>5
    <3> QED BY <1>12, <2>2, <3>1
  <2> QED BY <2>1, <2>2
<1>21. Valued(G)'
  <2>1. ASSUME NEW j \in DOMAIN dt, NEW n \in Nat, Built(j, n + 1)'
        PROVE  IF \E h \in DOMAIN dt : IsKey(h, j, n + 1) THEN FirstIs(da'[G[j][n + 1]].value, j, n + 1)
               ELSE da'[G[j][n + 1]].value = 0
    <3>1. n + 1 \in Nat
      OBVIOUS
    <3>2. CASE Built(j, n + 1)
      <4>1. G[j][n + 1] = F[j][n + 1] /\ F[j][n + 1] \in 0..(t - 1) /\ F[j][n + 1] # cell
        BY <1>8, <1>10, <3>1, <3>2
      <4>2. da'[G[j][n + 1]].value = da[F[j][n + 1]].value
        BY <1>13, <4>1
      <4> QED BY <1>2, <3>2, <4>2 DEF Valued
    <3>3. CASE j = i /\ n + 1 = d + 1
      BY <1>9, <1>20, <3>3
    <3> QED BY <1>3, <2>1, <3>1, <3>2, <3>3
  <2>2. ASSUME NEW j \in DOMAIN dt, NEW n \in Nat
        PROVE  /\ \A h : IsKey(h, j, n + 1)' <=> IsKey(h, j, n + 1)
               /\ \A v : FirstIs(v, j, n + 1)' <=> FirstIs(v, j, n + 1)
    BY FirstKept
  <2>3. ASSUME NEW j \in DOMAIN dt, NEW n \in Nat, Built(j, n + 1)'
        PROVE  IF \E h \in DOMAIN dt : IsKey(h, j, n + 1)' THEN FirstIs(da[G[j][n + 1]].value, j, n + 1)'
               ELSE da'[G[j][n + 1]].value = 0
    BY ONLY <2>1, <2>2, <2>3, j \in DOMAIN dt, n \in Nat, Zenon
  <2> QED BY ONLY <2>3, dt' = dt DEF Valued
<1>22. Newest(G)'
  <2>1. cell = nodes' - 1
    BY ONLY <1>4
  <2> QED BY <1>1, <1>9, <2>1 DEF Newest
<1> QED BY <1>15, <1>16, <1>17, <1>18, <1>21, <1>22 DEF Tree

\* What dat_add_internal does, with the cells it uses under a name.
Adds(parent, base, cell, node) ==
    LET grown == Grow([da EXCEPT ![parent].base = base, ![cell] = node], cell + 1, wild)
        sound == parent >= 0 /\ cell \in DOMAIN da
        new   == /\ da[cell].check = 0 /\ nodes <= cell
                 /\ Cardinality(DOMAIN da) >= base + SCALE_NODES
    IN /\ build' = IF sound /\ cell \in wild THEN "unset"
                   ELSE IF sound /\ (new \/ da[cell].check = parent) THEN "nodes" ELSE "abort"
       /\ IF build' = "nodes" /\ new
          THEN nodes' = cell + 1 /\ da' = grown.cells /\ wild' = grown.wild
          ELSE UNCHANGED <<da, nodes, wild>>

LEMMA AddIs ==
  ASSUME NEW i, AddInternal(i), NEW ch, ch = dt[i][off + 1], NEW parent, parent = Walk(dt[i], off),
         NEW base, base = IF da[parent].base = 0 THEN Base(ch) ELSE da[parent].base,
         NEW cell, cell = base + ch,
         NEW node, node = [base |-> 0, check |-> parent, value |-> IF Len(dt[i]) = off + 1 THEN i ELSE 0]
  PROVE  Adds(parent, base, cell, node)
BY DEF AddInternal, Adds

LEMMA BuildKeyInv == ASSUME TrieInv, BuildKey PROVE TrieInv'
<1>1. PICK i : NextKey(i) /\ AddInternal(i) /\ at_' = i /\ dt' = dt /\ off' = off /\ build = "nodes"
  BY DEF BuildKey, NextKey
<1>2. TrieTypes /\ Sorted /\ dt # <<>> /\ off < KSIZE_MAX /\ dt \in Seq(Key)
  BY <1>1 DEF TrieInv, TrieTypes
<1>3. PICK F, t : Tree(F, t)
  BY <1>1 DEF TrieInv
<1>4. TrieTypes' /\ Sorted'
  BY <1>1, <1>2, NextIsAKey DEF TrieTypes, Sorted
<1> PICK ch, parent : ch = dt[i][off + 1] /\ parent = Walk(dt[i], off)
  OBVIOUS
<1> PICK base : base = IF da[parent].base = 0 THEN Base(ch) ELSE da[parent].base
  OBVIOUS
<1> PICK cell, node :
      /\ cell = base + ch
      /\ node = [base |-> 0, check |-> parent, value |-> IF Len(dt[i]) = off + 1 THEN i ELSE 0]
  OBVIOUS
<1>5. Adds(parent, base, cell, node)
  BY <1>1, AddIs
<1>6. /\ i \in DOMAIN dt /\ i \in Nat /\ off \in Nat /\ Len(dt[i]) \in Nat /\ off + 1 \in 1..Len(dt[i]) /\ off < Len(dt[i])
      /\ Built(i, off) /\ dt[i] \in Key
  BY <1>1, <1>2, NextIsAKey, KeysIs
<1>7. parent = F[i][off]
  <2>1. off \in 0..Len(dt[i]) /\ Begun(i, dt[i], off)
    BY <1>6 DEF Begun
  <2> QED BY <1>2, <1>3, <1>6, <2>1, TreeWalks
<1>8. /\ parent \in Nat \ {0} /\ parent \in 0..(t - 1) /\ (parent = ROOT \/ parent < nodes)
      /\ base \in Nat \ {0} /\ base + SCALE_NODES < t /\ da[parent].base \in {0, base}
      /\ ch \in Nat /\ cell \in 0..(t - 1) /\ ROOT + 1 < cell
      /\ \/ /\ at_ \in DOMAIN dt /\ Built(at_, off + 1) /\ Shares(at_, i, off + 1)
            /\ cell = F[at_][off + 1]
         \/ /\ nodes <= cell
            /\ \A j \in DOMAIN dt : Built(j, off + 1) => ~Shares(j, i, off + 1)
  <2>1. LooksAt(F, i, ch, parent, base, cell)
    BY <1>7 DEF LooksAt
  <2>2. Meets(F, t, i, ch, parent, base, cell)
    BY <1>1, <1>2, <1>3, <2>1, NextCell
  <2> QED BY <2>2 DEF Meets
<1>9. /\ t \in Nat /\ da \in [0..(t - 1) -> [base : Nat, check : Nat, value : Nat]] /\ DOMAIN da = 0..(t - 1)
      /\ nodes \in Nat /\ Cells(F, t) /\ Edges(F) /\ Apart(F) /\ Newest(F)
  BY <1>3 DEF Tree, Cells
<1>10. Cardinality(DOMAIN da) = t
  BY <1>9, SizeIs
<1>11. parent >= 0 /\ cell \in DOMAIN da /\ t >= base + SCALE_NODES
  <2>1. parent >= 0 /\ cell \in DOMAIN da
    BY ONLY <1>8, <1>9
  <2>2. t \in Nat /\ base \in Nat /\ base + SCALE_NODES < t
    BY <1>8, <1>9
  <2> QED BY ONLY <2>1, <2>2, SizesAre
<1>12. SUFFICES build' \in {"nodes", "unset"} /\ (build' = "nodes" => \E G, s : Tree(G, s)')
  BY <1>1, <1>2, <1>4 DEF TrieInv
<1>13. CASE at_ \in DOMAIN dt /\ Built(at_, off + 1) /\ Shares(at_, i, off + 1) /\ cell = F[at_][off + 1]
  <2>1. at_ # 0
    BY <1>2, <1>13, KeysIs
  <2>2. F[at_][off + 1] = nodes - 1
    BY <1>9, <2>1 DEF Newest
  <2>3. Edge(F, at_, off) /\ Built(at_, off)
    BY <1>2, <1>6, <1>9, <1>13, BuiltIs DEF Edges
  <2>4. F[at_][off] = parent
    <3>1. Shares(at_, i, off)
      BY <1>2, <1>6, <1>13, SharesLess
    <3>2. \A h, j \in DOMAIN dt, n, m \in Nat : Built(h, n) /\ Built(j, m) =>
              (F[h][n] = F[j][m] <=> n = m /\ Shares(h, j, n))
      BY <1>9 DEF Apart
    <3>3. F[at_][off] = F[i][off]
      BY ONLY <1>6, <1>13, <2>3, <3>1, <3>2
    <3> QED BY <1>7, <3>3
  <2>5. da[cell].check = parent /\ da[cell].check # 0 /\ cell \notin wild
    BY <1>8, <1>13, <2>3, <2>4 DEF Edge
  <2>6. build' = "nodes" /\ da' = da /\ nodes' = nodes /\ wild' = wild
    BY <1>5, <1>11, <2>5 DEF Adds
  <2>7. \E G : Tree(G, t)'
    BY <1>1, <1>2, <1>3, <1>13, <2>2, <2>6, AddOld
  <2> QED BY <2>6, <2>7
<1>14. CASE nodes <= cell /\ \A j \in DOMAIN dt : Built(j, off + 1) => ~Shares(j, i, off + 1)
  <2>1. da[cell] = Clear
    <3>1. SUFFICES ASSUME da[cell] # Clear PROVE FALSE
      OBVIOUS
    <3>2. PICK j \in DOMAIN dt, n \in Nat : Built(j, n) /\ cell = F[j][n]
      BY <1>8, <1>9, <3>1 DEF Cells
    <3>3. cell = ROOT \/ cell < nodes
      BY <1>2, <1>9, <3>2, CellIs
    <3>4. ROOT \in Nat /\ cell \in Nat
      BY <1>8 DEF ROOT
    <3> QED BY ONLY <1>8, <1>9, <1>14, <3>3, <3>4
  <2>2. da[cell].check = 0
    BY <2>1 DEF Clear
  <2>3. CASE cell \in wild
    <3>1. build' = "unset"
      BY <1>5, <1>11, <2>3 DEF Adds
    <3> QED BY <3>1
  <2>4. CASE cell \notin wild
    <3>1. build' = "nodes" /\ nodes' = cell + 1
      BY <1>5, <1>10, <1>11, <1>14, <2>2, <2>4 DEF Adds
    <3> DEFINE e == [da EXCEPT ![parent].base = base, ![cell] = node]
               g == Grow(e, cell + 1, wild)
    <3>2. da' = g.cells /\ wild' = g.wild
      BY <1>5, <1>10, <1>11, <1>14, <2>2, <2>4 DEF Adds
    <3>3. node \in [base : Nat, check : Nat, value : Nat]
      BY <1>6, <1>8
    <3> PICK o : o = ROOT
      OBVIOUS
    <3>4. /\ parent \in Nat /\ cell \in Nat /\ nodes \in Nat /\ t \in Nat /\ o \in Nat /\ parent # cell
          /\ nodes <= cell /\ cell < t /\ o + 1 < cell /\ (parent = o \/ parent < nodes)
      <4>1. parent \in Nat /\ cell \in 0..(t - 1) /\ nodes \in Nat /\ t \in Nat
        BY <1>8, <1>9
      <4>2. o \in Nat /\ o + 1 < cell /\ (parent = o \/ parent < nodes)
        BY <1>8 DEF ROOT
      <4>3. nodes <= cell
        BY <1>14
      <4> QED BY ONLY <4>1, <4>2, <4>3
    <3>5. /\ e \in [0..(t - 1) -> [base : Nat, check : Nat, value : Nat]]
          /\ e[cell] = node /\ e[parent] = [base |-> base, check |-> da[parent].check, value |-> da[parent].value]
          /\ \A y \in 0..(t - 1) : y # cell /\ y # parent => e[y] = da[y]
      <4>1. /\ t \in Nat /\ da \in [0..(t - 1) -> [base : Nat, check : Nat, value : Nat]] /\ base \in Nat
            /\ parent \in 0..(t - 1) /\ cell \in 0..(t - 1)
        BY <1>8, <1>9
      <4>2. e \in [0..(t - 1) -> [base : Nat, check : Nat, value : Nat]]
        BY ONLY <3>3, <3>4, <4>1
      <4>3. e[cell] = node
        BY ONLY <3>4, <4>1
      <4>4. e[parent] = [base |-> base, check |-> da[parent].check, value |-> da[parent].value]
        BY ONLY <3>4, <4>1
      <4>5. \A y \in 0..(t - 1) : y # cell /\ y # parent => e[y] = da[y]
        BY ONLY <3>4, <4>1
      <4> QED BY ONLY <4>2, <4>3, <4>4, <4>5
    <3> HIDE DEF e
    <3>6. DOMAIN e = 0..(t - 1) /\ e = [c \in 0..(t - 1) |-> e[c]] /\ cell + 1 \in Nat
      BY <1>8, <3>5
    <3>7. PICK s \in Nat : /\ t <= s /\ cell + 1 + SCALE_NODES < s
                           /\ g.cells = [c \in 0..(s - 1) |-> IF c < cell + 1 \/ s = t THEN e[c] ELSE Clear]
                           /\ \A c \in Nat : c < cell + 1 => (c \in g.wild <=> c \in wild)
      BY <1>9, <3>6, GrowIs
    <3> HIDE DEF g
    <3>8. ASSUME NEW c \in 0..(s - 1)
          PROVE  /\ da'[c] = IF c < t THEN e[c] ELSE Clear
                 /\ c < t => c \in 0..(t - 1)
                 /\ da'[c] \in [base : Nat, check : Nat, value : Nat]
      <4>1. c \in Nat /\ cell \in Nat /\ cell < t /\ t \in Nat /\ s \in Nat /\ (c < t => c \in 0..(t - 1))
        BY ONLY <3>4, s \in Nat, c \in 0..(s - 1)
      <4>2. da'[c] = IF c < cell + 1 \/ s = t THEN e[c] ELSE Clear
        BY <3>2, <3>7
      <4>3. c < cell + 1 \/ s = t => c < t
        BY <4>1
      <4>4. ASSUME ~ (c < cell + 1), c < t PROVE e[c] = Clear
        <5>1. c # cell /\ c # parent
          BY ONLY <3>4, <4>1, <4>4
        <5>2. e[c] = da[c]
          BY <3>5, <4>1, <4>4, <5>1
        <5>3. da[c] = Clear
          <6>1. SUFFICES ASSUME da[c] # Clear PROVE FALSE
            OBVIOUS
          <6>2. PICK j \in DOMAIN dt, n \in Nat : Built(j, n) /\ c = F[j][n]
            BY <1>9, <4>1, <4>4, <6>1 DEF Cells
          <6>3. c = o \/ c < nodes
            BY <1>2, <1>9, <6>2, CellIs
          <6> QED BY ONLY <3>4, <4>1, <4>4, <6>3
        <5> QED BY <5>2, <5>3
      <4>5. Clear \in [base : Nat, check : Nat, value : Nat]
        BY DEF Clear
      <4>6. c < t => e[c] \in [base : Nat, check : Nat, value : Nat]
        BY <3>5, <4>1
      <4> QED BY <4>1, <4>2, <4>3, <4>4, <4>5, <4>6
    <3>9. da' \in [0..(s - 1) -> [base : Nat, check : Nat, value : Nat]]
      <4>1. da' = [c \in 0..(s - 1) |-> da'[c]]
        BY <3>2, <3>7
      <4> QED BY <3>8, <4>1
    <3>10. \A c \in 0..(t - 1) : c \in 0..(s - 1) /\ c < t
      BY <1>9, <3>7
    <3>11. /\ da'[cell] = node
           /\ da'[parent] = [base |-> base, check |-> da[parent].check, value |-> da[parent].value]
           /\ \A c \in 0..(t - 1) : c # cell /\ c # parent => da'[c] = da[c]
           /\ \A c \in 0..(s - 1) : ~ (c < t) => da'[c] = Clear
      BY <1>8, <3>5, <3>8, <3>10
    <3>12. da'[cell] = [base |-> 0, check |-> parent, value |-> IF Len(dt[i]) = off + 1 THEN i ELSE 0]
      BY <3>11
    <3>13. \A c \in Nat : c < cell + 1 => (c \in wild' <=> c \in wild)
      BY <3>2, <3>7
    <3>14. NewCell(F, t, i, parent, base, cell)
      BY <1>7, <1>8, <1>14, <2>4 DEF NewCell
    <3>15. Stored(t, i, parent, base, cell, s)
      BY <3>1, <3>7, <3>9, <3>11, <3>12, <3>13 DEF Stored
    <3>16. \E G : Tree(G, s)'
      BY <1>1, <1>2, <1>3, <3>14, <3>15, AddNew
    <3> QED BY <3>1, <3>16
  <2> QED BY <2>3, <2>4
<1> QED BY <1>8, <1>13, <1>14

\* The tree stays when the array does and no key is added, though another level may begin.
LEMMA SameTree ==
  ASSUME NEW F, NEW t, Tree(F, t), dt' = dt, da' = da, nodes' = nodes, wild' = wild,
         \A i \in DOMAIN dt, n \in Nat : Built(i, n)' <=> Built(i, n),
         at_' = 0 \/ (at_' = at_ /\ off' = off)
  PROVE  Tree(F, t)'
<1>1. Cells(F, t) /\ Edges(F) /\ Apart(F) /\ Used(F) /\ Valued(F) /\ Newest(F)
  BY DEF Tree
<1>2. Cells(F, t)'
  <2>1. ASSUME NEW c \in 0..(t - 1)
        PROVE  da'[c] = Clear \/ \E i \in DOMAIN dt, n \in Nat : Built(i, n)' /\ c = F[i][n]
    BY <1>1, SMTT(20) DEF Cells
  <2> QED BY <1>1, <2>1 DEF Cells
<1>3. Edges(F)'
  <2>1. ASSUME NEW i \in DOMAIN dt, NEW n \in Nat, Built(i, n + 1)' PROVE Edge(F, i, n)'
    <3>1. n + 1 \in Nat
      OBVIOUS
    <3>2. Edge(F, i, n)
      BY <1>1, <2>1, <3>1 DEF Edges
    <3> QED BY <3>2 DEF Edge
  <2> QED BY <1>1, <2>1 DEF Edges
<1>4. \A i, j, n : Shares(i, j, n)' <=> Shares(i, j, n)
  BY SharesKept
<1>5. Apart(F)'
  BY <1>1, <1>4 DEF Apart
<1>6. Used(F)'
  <2>1. ASSUME NEW i \in DOMAIN dt, NEW n \in Nat, Built(i, n)', da'[F[i][n]].base # 0
        PROVE  \E j \in DOMAIN dt : Built(j, n + 1)' /\ Shares(i, j, n)'
    <3>1. PICK j \in DOMAIN dt : Built(j, n + 1) /\ Shares(i, j, n)
      BY <1>1, <2>1 DEF Used
    <3>2. n + 1 \in Nat
      OBVIOUS
    <3> QED BY <1>4, <3>1, <3>2
  <2> QED BY <2>1 DEF Used
<1>7. Valued(F)'
  <2>1. ASSUME NEW i \in DOMAIN dt, NEW n \in Nat, Built(i, n + 1)'
        PROVE  IF \E j \in DOMAIN dt : IsKey(j, i, n + 1) THEN FirstIs(da'[F[i][n + 1]].value, i, n + 1)
               ELSE da'[F[i][n + 1]].value = 0
    <3>1. n + 1 \in Nat
      OBVIOUS
    <3>2. Built(i, n + 1)
      BY <2>1, <3>1
    <3> QED BY <1>1, <3>2 DEF Valued
  <2>2. ASSUME NEW j \in DOMAIN dt, NEW n \in Nat
        PROVE  /\ \A h : IsKey(h, j, n + 1)' <=> IsKey(h, j, n + 1)
               /\ \A v : FirstIs(v, j, n + 1)' <=> FirstIs(v, j, n + 1)
    BY FirstKept
  <2>3. ASSUME NEW j \in DOMAIN dt, NEW n \in Nat, Built(j, n + 1)'
        PROVE  IF \E h \in DOMAIN dt : IsKey(h, j, n + 1)' THEN FirstIs(da[F[j][n + 1]].value, j, n + 1)'
               ELSE da'[F[j][n + 1]].value = 0
    BY ONLY <2>1, <2>2, <2>3, j \in DOMAIN dt, n \in Nat, Zenon
  <2> QED BY ONLY <2>3, dt' = dt DEF Valued
<1>8. Newest(F)'
  BY <1>1 DEF Newest
<1> QED BY <1>2, <1>3, <1>5, <1>6, <1>7, <1>8 DEF Tree

LEMMA TrieInitInv == TrieInit => TrieInv
<1> SUFFICES ASSUME TrieInit PROVE TrieInv
  OBVIOUS
<1>1. /\ dt = <<>> /\ nodes = 0 /\ wild = {} /\ off = 0 /\ at_ = 0 /\ build = "file"
  BY DEF TrieInit
<1>2. TrieTypes
  BY <1>1 DEF TrieTypes
<1>3. Sorted
  BY <1>1 DEF Sorted
<1> QED BY <1>1, <1>2, <1>3 DEF TrieInv

LEMMA ReadKeyInv == ASSUME TrieInv, NEW k \in Key, ReadKey(k) PROVE TrieInv'
<1>1. /\ build = "file" /\ dt' = Append(dt, k) /\ dt \in Seq(Key) /\ (dt # <<>> => UpTo(dt[Len(dt)], k))
      /\ nodes' = nodes /\ wild' = wild /\ off' = off /\ at_' = at_ /\ build' = build
      /\ nodes = 0 /\ wild = {} /\ off = 0 /\ at_ = 0 /\ Sorted
  BY DEF ReadKey, TrieInv, TrieTypes
<1>2. dt' \in Seq(Key)
  BY <1>1
<1>3. PICK n : n = Len(dt) /\ n \in Nat
  BY <1>1
<1>4. /\ DOMAIN dt = 1..n /\ DOMAIN (dt') = 1..(n + 1) /\ dt'[n + 1] = k
      /\ \A i \in 1..n : dt'[i] = dt[i] /\ dt[i] \in Key
  BY <1>1, <1>3
<1>5. ASSUME NEW i \in 1..(n + 1), NEW j \in 1..(n + 1), i < j PROVE UpTo(dt'[i], dt'[j])
  <2>1. i \in 1..n
    BY <1>3, <1>5
  <2>2. CASE j \in 1..n
    BY <1>1, <1>4, <1>5, <2>1, <2>2 DEF Sorted
  <2>3. CASE j = n + 1
    <3>1. n \in 1..n /\ dt # <<>>
      BY <1>3, <1>4, <2>1
    <3>2. UpTo(dt[n], k)
      BY <1>1, <1>3, <3>1
    <3>3. i = n \/ UpTo(dt[i], dt[n])
      BY <1>1, <1>3, <1>4, <2>1, <3>1 DEF Sorted
    <3>4. UpTo(dt[i], k)
      BY <1>4, <2>1, <3>1, <3>2, <3>3, UpToMore
    <3> QED BY <1>4, <2>1, <2>3, <3>4
  <2> QED BY <1>3, <2>2, <2>3
<1>6. Sorted'
  BY <1>4, <1>5 DEF Sorted
<1>7. TrieTypes'
  BY <1>1, <1>2 DEF TrieTypes
<1> QED BY <1>1, <1>6, <1>7 DEF TrieInv

LEMMA StartInv == ASSUME TrieInv, Start PROVE TrieInv'
<1>1. /\ build = "file" /\ build' = "nodes" /\ dt' = dt /\ nodes' = nodes /\ wild' = wild /\ off' = off /\ at_' = at_
      /\ dt # <<>> /\ TrieTypes /\ Sorted /\ nodes = 0 /\ wild = {} /\ off = 0 /\ at_ = 0
      /\ da' = [c \in 0..(Grown(0) - 1) |-> Clear]
  BY DEF Start, TrieInv
<1>2. TrieTypes' /\ Sorted' /\ off' < KSIZE_MAX
  BY <1>1, SizesAre DEF TrieTypes, Sorted, UpTo, Begins
<1> PICK t : t = Grown(0)
  OBVIOUS
<1> PICK F : F = [i \in DOMAIN dt |-> [n \in Nat |-> ROOT]]
  OBVIOUS
<1>3. t \in Nat /\ SCALE_NODES \in Nat /\ SCALE_NODES < t /\ SCALE_NODES + ROOT + 1 < t /\ 1 \in 0..(t - 1)
  <2>1. Grown(0) \in Nat /\ Grown(0) > 0 + SCALE_NODES /\ Grown(0) >= BLOCK_NODES
    BY GrownIs
  <2> QED BY <2>1, SizesAre DEF ROOT
<1>4. da' = [c \in 0..(t - 1) |-> Clear]
  BY <1>1
<1>5. \A c \in 0..(t - 1) : da'[c] = Clear /\ da'[c].base = 0 /\ da'[c].check = 0
  BY <1>4 DEF Clear
<1>6. ASSUME NEW i, NEW n, Built(i, n)' PROVE i \in DOMAIN dt /\ n = 0
  <2>1. i \in DOMAIN dt /\ n \in 0..Len(dt[i]) /\ (n <= 0 \/ (n = 0 + 1 /\ i <= 0))
    BY <1>1, <1>6 DEF Built
  <2>2. i \in Nat \ {0} /\ Len(dt[i]) \in Nat
    BY <1>1, <2>1, KeysIs DEF TrieTypes
  <2> QED BY <2>1, <2>2
<1>7. \A i \in DOMAIN dt, n \in Nat : F[i][n] = ROOT
  OBVIOUS
<1>8. Cells(F, t)'
  <2>1. da' \in [0..(t - 1) -> [base : Nat, check : Nat, value : Nat]]
    BY <1>4 DEF Clear
  <2>2. da'[ROOT].check = 0
    BY <1>3, <1>5 DEF ROOT
  <2> QED BY <1>1, <1>3, <1>5, <2>1, <2>2 DEF Cells
<1>9. Edges(F)'
  <2>1. F \in [DOMAIN dt -> [Nat -> Nat]]
    BY DEF ROOT
  <2>2. \A i \in DOMAIN dt, n \in Nat : ~ Built(i, n + 1)'
    BY <1>6
  <2> QED BY <1>1, <1>7, <2>1, <2>2 DEF Edges
<1>10. Apart(F)'
  <2>1. ASSUME NEW i \in DOMAIN dt, NEW j \in DOMAIN dt PROVE Shares(i, j, 0)'
    BY <1>1, KeysIs DEF Shares, TrieTypes
  <2> QED BY <1>1, <1>6, <1>7, <2>1 DEF Apart
<1>11. Used(F)'
  <2>1. da'[ROOT].base = 0
    BY <1>3, <1>5 DEF ROOT
  <2> QED BY <1>1, <1>7, <2>1 DEF Used
<1>12. Valued(F)'
  <2>1. \A i \in DOMAIN dt, n \in Nat : ~ Built(i, n + 1)'
    BY <1>6
  <2> QED BY <1>1, <2>1 DEF Valued
<1>13. Newest(F)'
  BY <1>1 DEF Newest
<1>14. Tree(F, t)'
  BY <1>8, <1>9, <1>10, <1>11, <1>12, <1>13 DEF Tree
<1> QED BY <1>1, <1>2, <1>14 DEF TrieInv

LEMMA NextLevelInv == ASSUME TrieInv, NextLevel PROVE TrieInv'
<1>1. /\ build = "nodes" /\ \A i \in Keys(off) : i <= at_
      /\ dt' = dt /\ da' = da /\ nodes' = nodes /\ wild' = wild
      /\ IF Keys(off) = {} \/ off + 1 = KSIZE_MAX
         THEN build' = "built" /\ off' = off /\ at_' = at_
         ELSE off' = off + 1 /\ at_' = 0 /\ build' = build
      /\ dt # <<>> /\ off < KSIZE_MAX /\ TrieTypes /\ Sorted /\ off \in Nat /\ at_ \in Nat /\ dt \in Seq(Key)
  BY DEF NextLevel, TrieInv, TrieTypes
<1>2. PICK F, t : Tree(F, t)
  BY <1>1 DEF TrieInv
<1>3. Sorted'
  BY <1>1 DEF Sorted, UpTo, Begins
<1>4. ASSUME NEW i \in DOMAIN dt, NEW n \in 0..Len(dt[i]), n <= off + 1 PROVE Built(i, n)
  <2>1. Len(dt[i]) \in Nat /\ i \in Nat
    BY <1>1, KeysIs
  <2>2. CASE n <= off
    BY <2>2 DEF Built
  <2>3. CASE n = off + 1
    <3>1. i \in Keys(off)
      BY <1>1, <2>1, <2>3 DEF Keys
    <3> QED BY <1>1, <2>3, <3>1 DEF Built
  <2> QED BY <1>1, <1>4, <2>1, <2>2, <2>3
<1>5. CASE Keys(off) = {} \/ off + 1 = KSIZE_MAX
  <2>1. build' = "built" /\ off' = off /\ at_' = at_
    BY <1>1, <1>5
  <2>2. ASSUME NEW i \in DOMAIN dt, NEW n \in 0..Len(dt[i]) PROVE Built(i, n)
    <3>1. Len(dt[i]) \in Nat /\ Len(dt[i]) <= KSIZE_MAX
      BY <1>1, KeysIs
    <3>2. Keys(off) = {} => Len(dt[i]) <= off
      BY <1>1, <3>1 DEF Keys
    <3>3. n <= off + 1
      BY <1>1, <1>5, <3>1, <3>2
    <3> QED BY <1>4, <3>3
  <2>3. Tree(F, t)'
    <3>1. \A i \in DOMAIN dt, n \in Nat : Built(i, n)' <=> Built(i, n)
      BY <1>1, <2>1 DEF Built
    <3>2. dt' = dt /\ da' = da /\ nodes' = nodes /\ wild' = wild /\ off' = off /\ at_' = at_
      BY <1>1, <2>1
    <3> QED BY ONLY <1>2, <3>1, <3>2, SameTree
  <2>4. \A i \in DOMAIN dt : \A n \in 0..Len(dt[i]) : Built(i, n)' <=> Built(i, n)
    BY <1>1, <2>1 DEF Built
  <2>5. TrieTypes' /\ off' < KSIZE_MAX
    BY <1>1, <2>1 DEF TrieTypes
  <2> QED BY <1>1, <1>3, <2>1, <2>2, <2>3, <2>4, <2>5 DEF TrieInv
<1>6. CASE ~ (Keys(off) = {} \/ off + 1 = KSIZE_MAX)
  <2>1. build' = "nodes" /\ off' = off + 1 /\ at_' = 0
    BY <1>1, <1>6
  <2>2. ASSUME NEW i, NEW n PROVE Built(i, n)' <=> Built(i, n)
    <3>1. Built(i, n)' <=> i \in DOMAIN dt /\ n \in 0..Len(dt[i]) /\ (n <= off + 1 \/ (n = off + 1 + 1 /\ i <= 0))
      BY <1>1, <2>1 DEF Built
    <3>2. Built(i, n) <=> i \in DOMAIN dt /\ n \in 0..Len(dt[i]) /\ (n <= off \/ (n = off + 1 /\ i <= at_))
      BY DEF Built
    <3>3. i \in DOMAIN dt => i \in Nat \ {0} /\ Len(dt[i]) \in Nat
      BY <1>1, KeysIs
    <3>4. Built(i, n)' => i \in DOMAIN dt /\ n \in 0..Len(dt[i]) /\ n <= off + 1
      BY <1>1, <3>1, <3>3
    <3>5. Built(i, n) => Built(i, n)'
      BY <1>1, <3>1, <3>2, <3>3
    <3> QED BY <1>4, <3>4, <3>5
  <2>3. Tree(F, t)'
    BY <1>1, <1>2, <2>1, <2>2, SameTree
  <2>4. TrieTypes' /\ off' < KSIZE_MAX
    BY <1>1, <1>6, <2>1, SizesAre DEF TrieTypes
  <2> QED BY <1>1, <1>3, <2>1, <2>3, <2>4 DEF TrieInv
<1> QED BY <1>5, <1>6

LEMMA TrieStep == TrieInv /\ [TrieNext]_trieVars => TrieInv'
<1> SUFFICES ASSUME TrieInv, [TrieNext]_trieVars PROVE TrieInv'
  OBVIOUS
<1>1. CASE UNCHANGED trieVars
  <2>1. /\ dt' = dt /\ da' = da /\ nodes' = nodes /\ wild' = wild /\ off' = off /\ at_' = at_ /\ build' = build
    BY <1>1 DEF trieVars
  <2>2. TrieTypes' /\ Sorted'
    BY <2>1 DEF TrieInv, TrieTypes, Sorted, UpTo, Begins
  <2>3. ASSUME build \in {"nodes", "built"} PROVE \E F, t : Tree(F, t)'
    <3>1. PICK F, t : Tree(F, t)
      BY <2>3 DEF TrieInv
    <3>2. Tree(F, t)'
      BY <2>1, <3>1, SameTree DEF Built
    <3> QED BY <3>2
  <2>4. build = "built" => \A i \in DOMAIN dt : \A n \in 0..Len(dt[i]) : Built(i, n)'
    BY <2>1 DEF TrieInv, Built
  <2> QED BY <2>1, <2>2, <2>3, <2>4 DEF TrieInv
<1>2. CASE \E k \in Key : ReadKey(k)
  BY <1>2, ReadKeyInv
<1>3. CASE Start
  BY <1>3, StartInv
<1>4. CASE BuildKey
  BY <1>4, BuildKeyInv
<1>5. CASE NextLevel
  BY <1>5, NextLevelInv
<1> QED BY <1>1, <1>2, <1>3, <1>4, <1>5 DEF TrieNext

\* TrieFinds, for every alphabet and every file of sorted keys: the build meets no assertion,
\* and dat_get then finds the keys of the file and what they begin with, each with the first
\* value it has there, and nothing else.
THEOREM KeysAreFound == TrieSpec => []TrieFinds
<1>1. TrieSpec => []TrieInv
  <2>1. TrieInit => TrieInv
    BY TrieInitInv
  <2>2. TrieInv /\ [TrieNext]_trieVars => TrieInv'
    BY TrieStep
  <2> QED BY <2>1, <2>2, PTL DEF TrieSpec
<1>2. TrieInv => TrieFinds
  BY TrieInvFinds
<1> QED BY <1>1, <1>2, PTL

=============================================================================
