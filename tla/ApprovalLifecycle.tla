------------------------- MODULE ApprovalLifecycle -------------------------
(* What the approval workflow promises: a request is decided at most once,  *)
(* and a job runs on a request's behalf only together with its approval.    *)

CONSTANTS Request, Call

VARIABLES status,   \* of each request
          jobs      \* the jobs enqueued, as pairs of a call and a request

vars == <<status, jobs>>

Init == /\ status = [r \in Request |-> "absent"]
        /\ jobs = {}

Decide(r, decision) == /\ status[r] = "pending"
                       /\ status' = [status EXCEPT ![r] = decision]

Create(r) == /\ status[r] = "absent"
             /\ status' = [status EXCEPT ![r] = "pending"]
             /\ UNCHANGED jobs

Approve(r) == /\ Decide(r, "approved")
              /\ jobs' = jobs \/ \E c \in Call : jobs' = jobs \cup {<<c, r>>}

Reject(r) == Decide(r, "rejected") /\ UNCHANGED jobs

Next == \E r \in Request : Create(r) \/ Approve(r) \/ Reject(r)

Spec == Init /\ [][Next]_vars
=============================================================================
