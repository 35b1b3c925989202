--------------------------- MODULE MCSimpleQueue ---------------------------
(* Instances of SimpleQueue for TLC. *)
EXTENDS SimpleQueue, TLC

Symmetric == Permutations(PushWaiter) \cup Permutations(WaitPopper) \cup Permutations(Item)
=============================================================================
