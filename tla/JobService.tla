----------------------------- MODULE JobService -----------------------------
(***************************************************************************)
(* What the job API promises to admin_be, per request key: a registration  *)
(* that was accepted is answered by exactly one verdict, a verdict is      *)
(* never replaced by another one unless the request was registered again,  *)
(* and (JobService!FairSpec) every accepted registration gets its verdict. *)
(* `status' is what GET /operations/<kind>/<request_id> reports: the last  *)
(* row of the operation_log for that request.                              *)
(***************************************************************************)
CONSTANTS Keys,      \* (action, request_id) pairs
          Verdicts   \* the ways a job can end

VARIABLE status      \* status[k]: "none", "accepted", or a verdict

TypeOK == status \in [Keys -> {"none", "accepted"} \cup Verdicts]

Init == status = [k \in Keys |-> "none"]

\* A registration answered 202: the request is open (again).
Accept(k) ==
  /\ status[k] # "accepted"
  /\ status' = [status EXCEPT ![k] = "accepted"]

\* The verdict of an open request; a closed one has no further verdict.
Conclude(k) ==
  /\ status[k] = "accepted"
  /\ \E v \in Verdicts : status' = [status EXCEPT ![k] = v]

Next == \E k \in Keys : Accept(k) \/ Conclude(k)

Spec == Init /\ [][Next]_status

FairSpec == Spec /\ \A k \in Keys : WF_status(Conclude(k))
=============================================================================
