------------------------------ MODULE Workflow ------------------------------
(* Approval requests (packages/workflow-core and apps/api/src/workflows):   *)
(* the API checks a reviewer against the stored request, waits for the rest *)
(* of the HTTP body, and then decides on the copy it checked.  The API is   *)
(* one single-threaded process: handlers interleave at their awaits only.   *)
(* A handler that throws after its check is not caught (apps/api/src/index  *)
(* has no catch on the promise), so a failing enqueue or save ends the      *)
(* process: the crashes inside a handler stand for them too.                *)
EXTENDS Integers, FiniteSets

CONSTANTS Request, Reviewer,
          Call,         \* HTTP calls that approve or reject, each made once
          NoRecord, NoReviewer, NoCall,
          MaxCrashes,        \* bound: API crashes between handler steps
          MaxInnerCrashes    \* bound: API crashes inside a handler step

ASSUME NullAssumption == NoReviewer \notin Reviewer /\ NoCall \notin Call
ASSUME BoundAssumption == MaxCrashes \in Nat /\ MaxInnerCrashes \in Nat

VARIABLES requests,  \* the repository: its file, and its cache of the file
          created,   \* history: request ids ever used
          pc,        \* each call: not made, waiting for its body, finished, cut off
          decision, about, by,   \* each call's verb, request and reviewer
          held,      \* the record each call read before its body arrived
          jobs,      \* jobs enqueued, as pairs of the call and the request
          audit,     \* how many entries each call has in the audit trail
          overlapped,   \* history: have two calls about one request been open at once?
          crashes, innerCrashes

callVars == <<decision, about, by, held>>
vars == <<requests, created, pc, decision, about, by, held, jobs, audit, overlapped,
          crashes, innerCrashes>>

-----------------------------------------------------------------------------
ApprovalStatus == {"pending", "approved", "rejected"}

ApprovalRequest ==
    [status : ApprovalStatus, assignedTo : SUBSET Reviewer, executable : BOOLEAN,
     decidedBy : Reviewer \cup {NoReviewer}, triggeredJob : Call \cup {NoCall}]

ASSUME RecordAssumption ==
    NoRecord \notin [status : {"pending", "approved", "rejected"},
                     assignedTo : SUBSET Reviewer, executable : BOOLEAN,
                     decidedBy : Reviewer \cup {NoReviewer}, triggeredJob : Call \cup {NoCall}]

TypeOK ==
    /\ requests \in [Request -> ApprovalRequest \cup {NoRecord}]
    /\ created \in SUBSET Request
    /\ pc \in [Call -> {"unused", "body", "done", "lost"}]
    /\ decision \in [Call -> {"approved", "rejected"}]
    /\ about \in [Call -> Request]
    /\ by \in [Call -> Reviewer]
    /\ held \in [Call -> ApprovalRequest \cup {NoRecord}]
    /\ jobs \in SUBSET (Call \X Request)
    /\ audit \in [Call -> Nat]
    /\ overlapped \in BOOLEAN
    /\ crashes \in 0 .. MaxCrashes
    /\ innerCrashes \in 0 .. MaxInnerCrashes

Init ==
    /\ requests = [r \in Request |-> NoRecord]
    /\ created = {}
    /\ pc = [c \in Call |-> "unused"]
    /\ decision \in [Call -> {"approved", "rejected"}]
    /\ about \in [Call -> Request]
    /\ by \in [Call -> Reviewer]
    /\ held = [c \in Call |-> NoRecord]
    /\ jobs = {}
    /\ audit = [c \in Call |-> 0]
    /\ overlapped = FALSE
    /\ crashes = 0
    /\ innerCrashes = 0

-----------------------------------------------------------------------------
(* createApprovalRequest *)
NewRequest(assigned, executable) ==
    [status |-> "pending", assignedTo |-> assigned, executable |-> executable,
     decidedBy |-> NoReviewer, triggeredJob |-> NoCall]

(* canReviewApproval without its first condition. *)
CanReviewAgain(record, v) == v \in record.assignedTo

(* canReviewApproval: the tenant, user and role conditions come down to who *)
(* the request is assigned to, which nothing changes later.                 *)
CanReview(record, v) == record.status = "pending" /\ v \in record.assignedTo

(* What call c makes of the record it holds: approveRequest, rejectRequest. *)
Decided(c) ==
    [held[c] EXCEPT !.status = decision[c],
                    !.decidedBy = by[c],
                    !.triggeredJob = IF decision[c] = "approved" /\ held[c].executable
                                     THEN c ELSE @]

Enqueued(c) ==
    IF decision[c] = "approved" /\ held[c].executable THEN {<<c, about[c]>>} ELSE {}

(* handleCreateWorkflow, once the body is in and valid. *)
CreateRequest(r) ==
    /\ r \notin created
    /\ created' = created \cup {r}
    /\ \E assigned \in SUBSET Reviewer, executable \in BOOLEAN :
          requests' = [requests EXCEPT ![r] = NewRequest(assigned, executable)]
    /\ UNCHANGED <<pc, callVars, jobs, audit, overlapped, crashes, innerCrashes>>

(* handleApproveWorkflow and handleRejectWorkflow up to await parseJsonBody. *)
StartReview(c) ==
    /\ pc[c] = "unused"
    /\ requests[about[c]] # NoRecord
    /\ CanReview(requests[about[c]], by[c])
    /\ overlapped' = (overlapped \/ \E d \in Call : pc[d] = "body" /\ about[d] = about[c])
    /\ pc' = [pc EXCEPT ![c] = "body"]
    /\ held' = [held EXCEPT ![c] = requests[about[c]]]
    /\ UNCHANGED <<requests, created, decision, about, by, jobs, audit, crashes, innerCrashes>>

(* The rest of the handler: no check is made again, and nothing awaited.    *)
(* A body that cannot be read or parsed counts as an empty one.             *)
FinishReview(c) ==
    /\ pc[c] = "body"
    /\ pc' = [pc EXCEPT ![c] = "done"]
    /\ jobs' = jobs \cup Enqueued(c)
    /\ requests' = [requests EXCEPT ![about[c]] = Decided(c)]
    /\ audit' = [audit EXCEPT ![c] = @ + 1]
    /\ UNCHANGED <<created, callVars, overlapped, crashes, innerCrashes>>

(* The API is down and up again: the calls it had open are cut off. *)
LoseCalls == pc' = [c \in Call |-> IF pc[c] = "body" THEN "lost" ELSE pc[c]]

Crash ==
    /\ \E c \in Call : pc[c] = "body"
    /\ crashes < MaxCrashes
    /\ crashes' = crashes + 1
    /\ LoseCalls
    /\ UNCHANGED <<requests, created, callVars, jobs, audit, overlapped, innerCrashes>>

(* A handler that saves the decision before it enqueues the job. *)
InnerCrashUnqueued(c) ==
    /\ pc[c] = "body"
    /\ innerCrashes < MaxInnerCrashes
    /\ innerCrashes' = innerCrashes + 1
    /\ LoseCalls
    /\ UNCHANGED <<jobs, created, callVars, audit, overlapped, crashes>>

(* The API dies inside a handler, the job enqueued, ... *)
InnerCrash(c) ==
    /\ pc[c] = "body"
    /\ innerCrashes < MaxInnerCrashes
    /\ innerCrashes' = innerCrashes + 1
    /\ LoseCalls
    /\ jobs' = jobs \cup Enqueued(c)
    /\ UNCHANGED <<created, callVars, audit, overlapped, crashes>>

(* ... after jobQueue.enqueue, before saveRequest has touched the file *)
CrashBeforeSave(c) == InnerCrash(c) /\ UNCHANGED requests

(* ... while saveRequest writes: #loadState takes the torn file for an      *)
(* empty repository and writes that back.                                   *)
CrashInSave(c) == InnerCrash(c) /\ requests' = [r \in Request |-> NoRecord]

(* ... or while handleCreateWorkflow's saveRequest writes *)
CrashInCreate(r) ==
    /\ r \notin created
    /\ created' = created \cup {r}
    /\ innerCrashes < MaxInnerCrashes
    /\ innerCrashes' = innerCrashes + 1
    /\ LoseCalls
    /\ requests' = [q \in Request |-> NoRecord]
    /\ UNCHANGED <<callVars, jobs, audit, overlapped, crashes>>

(* ... after saveRequest, before appendAuditRecord *)
CrashBeforeAudit(c) ==
    InnerCrash(c) /\ requests' = [requests EXCEPT ![about[c]] = Decided(c)]

Next ==
    \/ \E r \in Request : CreateRequest(r) \/ CrashInCreate(r)
    \/ \E c \in Call : \/ StartReview(c) \/ FinishReview(c)
                       \/ CrashBeforeSave(c) \/ CrashInSave(c) \/ CrashBeforeAudit(c)
    \/ Crash

Spec == Init /\ [][Next]_vars

-----------------------------------------------------------------------------
(* Whoever is recorded as having decided a request was assigned to it, also *)
(* when decisions overtake each other (canReviewApproval is evaluated long  *)
(* before approveRequest and rejectRequest use its answer).                 *)
DecidedByAssignee ==
    \A r \in Request : requests[r] # NoRecord /\ requests[r].status # "pending"
                       => requests[r].decidedBy \in requests[r].assignedTo

(* A request on record as approved names a job that was enqueued for it:    *)
(* the job is enqueued before the approval is saved, so no crash in between *)
(* leaves an approval without its job (handleApproveWorkflow).              *)
ApprovedHasItsJob ==
    \A r \in Request :
        requests[r] # NoRecord /\ requests[r].status = "approved" /\ requests[r].executable
        => <<requests[r].triggeredJob, r>> \in jobs

(* Every job that was enqueued was enqueued for a request on record as      *)
(* approved: none runs for one that is pending or rejected.                 *)
JobsHaveApprovals ==
    \A job \in jobs :
        requests[job[2]] # NoRecord /\ requests[job[2]].status = "approved"

(* No two calls about one request have been open at the same time, and no   *)
(* crash has hit a handler between its writes.                              *)
Serial == ~overlapped /\ innerCrashes = 0

(* As long as that is so, a job runs only for an approved request, and is   *)
(* the one the request's approval names, so that none has two               *)
(* (handleApproveWorkflow's check before its await).                        *)
EveryJobHasApproval ==
    Serial => JobsHaveApprovals /\ \A job \in jobs : requests[job[2]].triggeredJob = job[1]

(* Under the same condition the decision on a request has one entry in the  *)
(* audit trail: that of one call, which was made by the reviewer on record  *)
(* with the decision on record; and a pending request has none.             *)
AuditMatchesRecord ==
    Serial => \A r \in Request : requests[r] # NoRecord =>
        LET Entries(d) == IF about[d] = r THEN audit[d] ELSE 0 IN
        IF requests[r].status = "pending" THEN \A d \in Call : Entries(d) = 0
        ELSE \E c \in Call :
                /\ about[c] = r
                /\ by[c] = requests[r].decidedBy /\ decision[c] = requests[r].status
                /\ \A d \in Call : Entries(d) = IF d = c THEN 1 ELSE 0

(* The workflow implements the lifecycle its callers rely on: as long as    *)
(* the condition holds, each of its steps is a step of the lifecycle or     *)
(* leaves that unchanged.                                                   *)
StatusOf == [r \in Request |-> IF requests[r] = NoRecord THEN "absent" ELSE requests[r].status]

Lifecycle == INSTANCE ApprovalLifecycle WITH status <- StatusOf

ImplementsLifecycle ==
    Lifecycle!Init /\ [][Serial' => Lifecycle!Next]_<<StatusOf, jobs>>
=============================================================================
