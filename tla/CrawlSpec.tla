----------------------------- MODULE CrawlSpec -----------------------------
(***************************************************************************)
(* What the spider promises its clients: a resource that has been accepted *)
(* gets one record, for a page or for a failure, the record never changes, *)
(* and it does come.                                                       *)
(***************************************************************************)
CONSTANT Res
VARIABLE answer

Answers == {"OK", "ERROR"}
CTypeOK == answer \in [Res -> {"new", "pending"} \cup Answers]

CInit == answer = [r \in Res |-> "new"]

Accept(r) == answer[r] = "new" /\ answer' = [answer EXCEPT ![r] = "pending"]
Record(r) == /\ answer[r] = "pending"
             /\ \E a \in Answers : answer' = [answer EXCEPT ![r] = a]

CNext == \E r \in Res : Accept(r) \/ Record(r)
CSafe == CInit /\ [][CNext]_answer
CSpec == CSafe /\ \A r \in Res : WF_answer(Record(r))
=============================================================================
