--------------------------- MODULE WorkflowProofs ---------------------------
(* Proofs about Workflow for any requests, reviewers and calls.             *)
EXTENDS Workflow, TLAPS

(* A call that waits for its body holds a record its reviewer may review.  *)
HeldInv ==
    \A c \in Call : pc[c] = "body" => /\ held[c] \in ApprovalRequest
                                      /\ CanReview(held[c], by[c])

IInv == TypeOK /\ HeldInv /\ DecidedByAssignee /\ ApprovedHasItsJob

LEMMA NoRecordOutside == NoRecord \notin ApprovalRequest
BY RecordAssumption DEF ApprovalRequest, ApprovalStatus

LEMMA NewRequestType ==
    ASSUME NEW assigned \in SUBSET Reviewer, NEW executable \in BOOLEAN
    PROVE  /\ NewRequest(assigned, executable) \in ApprovalRequest
           /\ NewRequest(assigned, executable).status = "pending"
BY DEF NewRequest, ApprovalRequest, ApprovalStatus

(* What a call saves: a decision by an assignee, with its job if it has one.*)
LEMMA DecidedType ==
    ASSUME IInv, NEW c \in Call, pc[c] = "body"
    PROVE  /\ Decided(c) \in ApprovalRequest
           /\ Decided(c).status = decision[c]
           /\ Decided(c).status # "pending"
           /\ Decided(c).decidedBy \in Decided(c).assignedTo
           /\ Decided(c).status = "approved" /\ Decided(c).executable
              => Decided(c).triggeredJob = c /\ <<c, about[c]>> \in Enqueued(c)
           /\ Enqueued(c) \subseteq {<<c, about[c]>>}
           /\ Enqueued(c) # {} => Decided(c).status = "approved" /\ Decided(c).triggeredJob = c
<1>1. /\ held[c] \in ApprovalRequest
      /\ by[c] \in Reviewer /\ by[c] \in held[c].assignedTo
      /\ decision[c] \in {"approved", "rejected"}
  BY DEF IInv, TypeOK, HeldInv, CanReview
<1> DEFINE job == IF decision[c] = "approved" /\ held[c].executable
                  THEN c ELSE held[c].triggeredJob
<1>2. job \in Call \cup {NoCall}
  BY <1>1 DEF ApprovalRequest
<1>3. Decided(c) = [held[c] EXCEPT !.status = decision[c], !.decidedBy = by[c],
                                   !.triggeredJob = job]
  BY <1>1 DEF Decided, ApprovalRequest
<1>4. /\ Decided(c) \in ApprovalRequest
      /\ Decided(c).status = decision[c]
      /\ Decided(c).decidedBy = by[c]
      /\ Decided(c).assignedTo = held[c].assignedTo
      /\ Decided(c).executable = held[c].executable
      /\ Decided(c).triggeredJob = job
  <2> HIDE DEF job
  <2> QED
    BY <1>1, <1>2, <1>3 DEF ApprovalRequest, ApprovalStatus
<1> QED
  BY <1>1, <1>4 DEF Enqueued

(* A step that decides call c, or that forgets everything, keeps IInv. *)
LEMMA DecideStep ==
    ASSUME IInv, NEW c \in Call, pc[c] = "body",
           pc' \in [Call -> {"unused", "body", "done", "lost"}],
           \A d \in Call : pc'[d] = "body" => pc[d] = "body",
           UNCHANGED <<created, callVars, overlapped>>,
           jobs' = jobs \cup Enqueued(c),
           \/ requests' = [requests EXCEPT ![about[c]] = Decided(c)]
           \/ requests' = [r \in Request |-> NoRecord]
           \/ UNCHANGED requests,
           audit' \in [Call -> Nat],
           crashes' \in 0 .. MaxCrashes, innerCrashes' \in 0 .. MaxInnerCrashes
    PROVE  IInv'
<1> USE DEF IInv, callVars
<1>1. about[c] \in Request
  BY DEF TypeOK
<1>2. HeldInv'
  BY DEF HeldInv, CanReview
<1>3. jobs' \in SUBSET (Call \X Request) /\ jobs \subseteq jobs'
  <2>1. Enqueued(c) \subseteq {<<c, about[c]>>}
    BY DEF Enqueued
  <2>2. jobs \in SUBSET (Call \X Request) /\ <<c, about[c]>> \in Call \X Request
    BY <1>1 DEF TypeOK
  <2> QED
    BY <2>1, <2>2
<1>4. CASE requests' = [requests EXCEPT ![about[c]] = Decided(c)]
  <2>1. requests' \in [Request -> ApprovalRequest \cup {NoRecord}]
    BY <1>1, <1>4, DecidedType DEF TypeOK
  <2>2. \A r \in Request : requests'[r] = IF r = about[c] THEN Decided(c) ELSE requests[r]
    BY <1>1, <1>4 DEF TypeOK
  <2>3. TypeOK'
    BY <1>3, <2>1 DEF TypeOK
  <2>4. DecidedByAssignee'
    BY <2>2, DecidedType DEF DecidedByAssignee
  <2>5. ASSUME NEW r \in Request, requests'[r] # NoRecord,
               requests'[r].status = "approved", requests'[r].executable
        PROVE  <<requests'[r].triggeredJob, r>> \in jobs'
    <3>1. CASE r = about[c]
      <4>1. requests'[r] = Decided(c)
        BY <2>2, <3>1
      <4>2. Decided(c).triggeredJob = c /\ <<c, about[c]>> \in Enqueued(c)
        BY <2>5, <4>1, DecidedType
      <4> QED
        BY <3>1, <4>1, <4>2
    <3>2. CASE r # about[c]
      <4>1. requests'[r] = requests[r]
        BY <2>2, <3>2
      <4> QED
        BY <1>3, <2>5, <4>1 DEF ApprovedHasItsJob
    <3> QED
      BY <3>1, <3>2
  <2> QED
    BY <1>2, <2>3, <2>4, <2>5 DEF ApprovedHasItsJob
<1>5. CASE requests' = [r \in Request |-> NoRecord]
  BY <1>2, <1>3, <1>5 DEF TypeOK, DecidedByAssignee, ApprovedHasItsJob
<1>6. CASE UNCHANGED requests
  BY <1>2, <1>3, <1>6 DEF TypeOK, DecidedByAssignee, ApprovedHasItsJob
<1> QED
  BY <1>4, <1>5, <1>6

LEMMA LoseCallsType ==
    ASSUME TypeOK, LoseCalls
    PROVE  /\ pc' \in [Call -> {"unused", "body", "done", "lost"}]
           /\ \A c \in Call : pc'[c] # "body"
BY DEF TypeOK, LoseCalls

LEMMA InitIInv == Init => IInv
<1> SUFFICES ASSUME Init PROVE IInv
  OBVIOUS
<1>1. 0 \in 0 .. MaxCrashes /\ 0 \in 0 .. MaxInnerCrashes
  BY BoundAssumption
<1>2. TypeOK
  BY <1>1 DEF Init, TypeOK
<1>3. HeldInv /\ DecidedByAssignee /\ ApprovedHasItsJob
  BY DEF Init, HeldInv, DecidedByAssignee, ApprovedHasItsJob
<1> QED
  BY <1>2, <1>3 DEF IInv

LEMMA NextStep == IInv /\ [Next]_vars => IInv'
<1> SUFFICES ASSUME IInv, [Next]_vars PROVE IInv'
  OBVIOUS
<1> USE DEF IInv
<1>1. CASE UNCHANGED vars
  BY <1>1 DEF vars, TypeOK, HeldInv, CanReview, DecidedByAssignee, ApprovedHasItsJob
<1>2. ASSUME NEW r \in Request, CreateRequest(r) PROVE IInv'
  <2>1. PICK new \in ApprovalRequest : /\ requests' = [requests EXCEPT ![r] = new]
                                       /\ new.status = "pending"
    BY <1>2, NewRequestType DEF CreateRequest
  <2>2. TypeOK'
    BY <1>2, <2>1 DEF CreateRequest, TypeOK, callVars
  <2>3. HeldInv'
    BY <1>2 DEF CreateRequest, HeldInv, CanReview, callVars
  <2>4. DecidedByAssignee' /\ ApprovedHasItsJob'
    BY <1>2, <2>1 DEF CreateRequest, TypeOK, DecidedByAssignee, ApprovedHasItsJob
  <2> QED
    BY <2>2, <2>3, <2>4
<1>3. ASSUME NEW r \in Request, CrashInCreate(r) PROVE IInv'
  <2>1. innerCrashes' \in 0 .. MaxInnerCrashes
    BY <1>3, BoundAssumption DEF CrashInCreate, TypeOK
  <2>2. TypeOK'
    BY <1>3, <2>1, LoseCallsType DEF CrashInCreate, TypeOK, callVars
  <2>3. HeldInv' /\ DecidedByAssignee' /\ ApprovedHasItsJob'
    BY <1>3, LoseCallsType
    DEF CrashInCreate, HeldInv, DecidedByAssignee, ApprovedHasItsJob
  <2> QED
    BY <2>2, <2>3
<1>4. ASSUME NEW c \in Call, StartReview(c) PROVE IInv'
  <2>1. about[c] \in Request /\ requests[about[c]] \in ApprovalRequest
    BY <1>4 DEF StartReview, TypeOK
  <2>2. TypeOK'
    BY <1>4, <2>1 DEF StartReview, TypeOK
  <2>3. HeldInv'
    BY <1>4, <2>1 DEF StartReview, TypeOK, HeldInv, CanReview
  <2>4. DecidedByAssignee' /\ ApprovedHasItsJob'
    BY <1>4 DEF StartReview, DecidedByAssignee, ApprovedHasItsJob
  <2> QED
    BY <2>2, <2>3, <2>4
<1>5. ASSUME NEW c \in Call, FinishReview(c) PROVE IInv'
  <2>1. /\ pc' \in [Call -> {"unused", "body", "done", "lost"}]
        /\ \A d \in Call : pc'[d] = "body" => pc[d] = "body"
        /\ audit' \in [Call -> Nat]
        /\ crashes' \in 0 .. MaxCrashes /\ innerCrashes' \in 0 .. MaxInnerCrashes
    BY <1>5 DEF FinishReview, TypeOK
  <2> QED
    BY <1>5, <2>1, DecideStep DEF FinishReview
<1>6. ASSUME NEW c \in Call, CrashBeforeSave(c) \/ CrashInSave(c) \/ CrashBeforeAudit(c)
      PROVE  IInv'
  <2>1. InnerCrash(c)
    BY <1>6 DEF CrashBeforeSave, CrashInSave, CrashBeforeAudit
  <2>2. /\ audit' \in [Call -> Nat]
        /\ crashes' \in 0 .. MaxCrashes /\ innerCrashes' \in 0 .. MaxInnerCrashes
    BY <2>1, BoundAssumption DEF InnerCrash, TypeOK
  <2> QED
    BY <1>6, <2>1, <2>2, LoseCallsType, DecideStep
    DEF InnerCrash, CrashBeforeSave, CrashInSave, CrashBeforeAudit
<1>7. CASE Crash
  <2>1. crashes' \in 0 .. MaxCrashes
    BY <1>7, BoundAssumption DEF Crash, TypeOK
  <2>2. TypeOK'
    BY <1>7, <2>1, LoseCallsType DEF Crash, TypeOK, callVars
  <2>3. HeldInv' /\ DecidedByAssignee' /\ ApprovedHasItsJob'
    BY <1>7, LoseCallsType DEF Crash, HeldInv, DecidedByAssignee, ApprovedHasItsJob
  <2> QED
    BY <2>2, <2>3
<1> QED
  BY <1>1, <1>2, <1>3, <1>4, <1>5, <1>6, <1>7 DEF Next

LEMMA Invariant == Spec => []IInv
BY InitIInv, NextStep, PTL DEF Spec

(* The approval workflow keeps its variables in their types. *)
THEOREM TypeCorrect == Spec => []TypeOK
<1>1. IInv => TypeOK
  BY DEF IInv
<1> QED
  BY <1>1, Invariant, PTL

(* Overlapping reviews and crashes at any point never put on record a      *)
(* decision by someone who was not assigned.                               *)
THEOREM OnlyAssigneesDecide == Spec => []DecidedByAssignee
<1>1. IInv => DecidedByAssignee
  BY DEF IInv
<1> QED
  BY <1>1, Invariant, PTL

(* ... nor an approval of executable work whose job was never enqueued. *)
THEOREM ApprovalsHaveJobs == Spec => []ApprovedHasItsJob
<1>1. IInv => ApprovedHasItsJob
  BY DEF IInv
<1> QED
  BY <1>1, Invariant, PTL

-----------------------------------------------------------------------------
(* As long as reviews have not overlapped and no crash has hit a handler, a *)
(* waiting call holds the request as it is on record.                       *)
HeldIsRecord ==
    /\ \A c \in Call : pc[c] = "body" => held[c] = requests[about[c]]
    /\ \A c, d \in Call : pc[c] = "body" /\ pc[d] = "body" /\ about[c] = about[d] => c = d
    /\ \A r \in Request : r \notin created => requests[r] = NoRecord

SerialInv == Serial => HeldIsRecord

(* What spoils seriality spoils it for good. *)
LEMMA SerialYet ==
    ASSUME IInv, [Next]_vars, Serial'
    PROVE  /\ Serial
           /\ \A c \in Call : ~InnerCrash(c)
           /\ \A r \in Request : ~CrashInCreate(r)
           /\ \A c, d \in Call : StartReview(c) /\ pc[d] = "body" => about[d] # about[c]
<1> USE DEF Serial
<1>1. innerCrashes \in Nat /\ overlapped \in BOOLEAN
  BY BoundAssumption DEF IInv, TypeOK
<1>2. CASE UNCHANGED vars
  BY <1>1, <1>2 DEF vars, InnerCrash, CrashInCreate, StartReview
<1>3. ASSUME NEW r \in Request, CreateRequest(r)
      PROVE  UNCHANGED <<overlapped, innerCrashes>>
  BY <1>3 DEF CreateRequest
<1>4. ASSUME NEW r \in Request, CrashInCreate(r) PROVE FALSE
  BY <1>1, <1>4 DEF CrashInCreate
<1>5. ASSUME NEW c \in Call, InnerCrash(c) PROVE FALSE
  BY <1>1, <1>5 DEF InnerCrash
<1>6. ASSUME NEW c \in Call, StartReview(c)
      PROVE  /\ ~overlapped /\ innerCrashes = 0
             /\ \A d \in Call : pc[d] = "body" => about[d] # about[c]
  BY <1>6 DEF StartReview
<1>7. ASSUME NEW c \in Call, FinishReview(c)
      PROVE  UNCHANGED <<overlapped, innerCrashes>>
  BY <1>7 DEF FinishReview
<1>8. ASSUME Crash PROVE UNCHANGED <<overlapped, innerCrashes>>
  BY <1>8 DEF Crash
<1>9. CASE Next
  BY <1>3, <1>4, <1>5, <1>6, <1>7, <1>8, <1>9
  DEF Next, CrashBeforeSave, CrashInSave, CrashBeforeAudit
<1>10. Serial
  BY <1>2, <1>9 DEF vars
<1> QED
  BY <1>4, <1>5, <1>6, <1>10

LEMMA SerialStep == IInv /\ SerialInv /\ [Next]_vars => SerialInv'
<1> SUFFICES ASSUME IInv, SerialInv, [Next]_vars, Serial' PROVE HeldIsRecord'
  BY DEF SerialInv
<1>0. HeldIsRecord
  BY SerialYet DEF SerialInv
<1> USE <1>0 DEF IInv, HeldIsRecord, callVars
<1>1. CASE UNCHANGED vars
  BY <1>1 DEF vars
<1>2. ASSUME NEW r \in Request, CreateRequest(r) PROVE HeldIsRecord'
  <2>1. \A c \in Call : pc[c] = "body" => about[c] # r
    BY <1>2, NoRecordOutside DEF CreateRequest, HeldInv
  <2>2. \A q \in Request : q # r => requests'[q] = requests[q]
    BY <1>2 DEF CreateRequest, TypeOK
  <2> QED
    BY <1>2, <2>1, <2>2 DEF CreateRequest, TypeOK
<1>3. ASSUME NEW c \in Call, StartReview(c) PROVE HeldIsRecord'
  <2>1. \A d \in Call : pc[d] = "body" => about[d] # about[c]
    BY <1>3, SerialYet
  <2>2. /\ pc' = [pc EXCEPT ![c] = "body"]
        /\ held' = [held EXCEPT ![c] = requests[about[c]]]
        /\ UNCHANGED <<requests, created, about>>
    BY <1>3 DEF StartReview
  <2> QED
    BY <2>1, <2>2 DEF TypeOK
<1>4. ASSUME NEW c \in Call, FinishReview(c) PROVE HeldIsRecord'
  <2>1. /\ pc[c] = "body" /\ about[c] \in Request
        /\ requests[about[c]] \in ApprovalRequest
    BY <1>4 DEF FinishReview, HeldInv, TypeOK
  <2>2. about[c] \in created
    BY <2>1, NoRecordOutside
  <2>3. \A q \in Request : q # about[c] => requests'[q] = requests[q]
    BY <1>4, <2>1 DEF FinishReview, TypeOK
  <2>4. \A d \in Call : pc'[d] = "body" => d # c /\ pc[d] = "body"
    BY <1>4 DEF FinishReview, TypeOK
  <2>5. \A d \in Call : pc'[d] = "body" => about[d] # about[c] /\ about[d] \in Request
    BY <2>1, <2>4 DEF TypeOK
  <2> QED
    BY <1>4, <2>2, <2>3, <2>4, <2>5 DEF FinishReview
<1>5. \A c \in Call : ~InnerCrash(c)
  BY SerialYet
<1>6. \A r \in Request : ~CrashInCreate(r)
  BY SerialYet
<1>7. CASE Crash
  BY <1>7, LoseCallsType DEF Crash
<1> QED
  BY <1>1, <1>2, <1>3, <1>4, <1>5, <1>6, <1>7
  DEF Next, CrashBeforeSave, CrashInSave, CrashBeforeAudit

LEMMA SerialInvariant == Spec => [](IInv /\ SerialInv)
<1>1. Init => SerialInv
  BY DEF Init, SerialInv, HeldIsRecord
<1> QED
  BY <1>1, SerialStep, Invariant, PTL DEF Spec

EachIsNamed ==
    \A job \in jobs : LET record == requests[job[2]]
                      IN  record # NoRecord /\ record.status = "approved" /\ record.triggeredJob = job[1]

LEMMA JobStep ==
    IInv /\ SerialInv /\ EveryJobHasApproval /\ [Next]_vars => EveryJobHasApproval'
<1> SUFFICES ASSUME IInv, SerialInv, EveryJobHasApproval, [Next]_vars, Serial'
             PROVE  EachIsNamed'
  BY DEF EveryJobHasApproval, EachIsNamed, JobsHaveApprovals
<1>a. HeldIsRecord /\ EachIsNamed
  BY SerialYet DEF SerialInv, EveryJobHasApproval, EachIsNamed, JobsHaveApprovals
<1> USE <1>a DEF IInv, EachIsNamed
<1>0. \A job \in jobs : job[2] \in Request
  BY DEF TypeOK
<1>1. CASE UNCHANGED vars
  BY <1>1 DEF vars
<1>2. ASSUME NEW r \in Request, CreateRequest(r) PROVE EachIsNamed'
  <2>1. requests[r] = NoRecord
    BY <1>2 DEF CreateRequest, HeldIsRecord
  <2>2. \A q \in Request : q # r => requests'[q] = requests[q]
    BY <1>2 DEF CreateRequest, TypeOK
  <2> QED
    BY <1>0, <1>2, <2>1, <2>2 DEF CreateRequest
<1>3. ASSUME NEW c \in Call, StartReview(c) PROVE EachIsNamed'
  BY <1>3 DEF StartReview
<1>4. ASSUME NEW c \in Call, FinishReview(c) PROVE EachIsNamed'
  <2>1. /\ about[c] \in Request
        /\ requests[about[c]] = held[c] /\ held[c].status = "pending"
    BY <1>4 DEF FinishReview, HeldIsRecord, HeldInv, CanReview, TypeOK
  <2>2. \A q \in Request : requests'[q] = IF q = about[c] THEN Decided(c) ELSE requests[q]
    BY <1>4, <2>1 DEF FinishReview, TypeOK
  <2>3. Decided(c) # NoRecord
    BY <1>4, DecidedType, NoRecordOutside DEF FinishReview
  <2>4. ASSUME NEW job \in jobs
        PROVE  requests'[job[2]] = requests[job[2]]
    BY <1>0, <2>1, <2>2
  <2>5. ASSUME NEW job \in Enqueued(c)
        PROVE  /\ job[1] = c /\ requests'[job[2]] = Decided(c)
               /\ Decided(c).status = "approved" /\ Decided(c).triggeredJob = c
    <3>1. job = <<c, about[c]>> /\ Enqueued(c) # {}
      BY DEF Enqueued
    <3> QED
      BY <1>4, <2>1, <2>2, <3>1, DecidedType DEF FinishReview
  <2> QED
    BY <1>4, <2>3, <2>4, <2>5 DEF FinishReview
<1>5. \A c \in Call : ~InnerCrash(c)
  BY SerialYet
<1>6. \A r \in Request : ~CrashInCreate(r)
  BY SerialYet
<1>7. CASE Crash
  BY <1>7 DEF Crash
<1> QED
  BY <1>1, <1>2, <1>3, <1>4, <1>5, <1>6, <1>7
  DEF Next, CrashBeforeSave, CrashInSave, CrashBeforeAudit

(* As long as reviews have not overlapped and no crash has hit a handler,  *)
(* every job is the one that its request's approval names.                 *)
THEOREM JobsAreApproved == Spec => []EveryJobHasApproval
<1>1. Init => EveryJobHasApproval
  BY DEF Init, EveryJobHasApproval, JobsHaveApprovals
<1> QED
  BY <1>1, JobStep, SerialInvariant, PTL DEF Spec

(* What the trail has for the decision on a request, were it to read        *)
(* record; requests off record have no entry as long as no crash has hit a  *)
(* handler.                                                                 *)
Unentered(r) == \A d \in Call : about[d] = r => audit[d] = 0

EnteredOnce(r, record) ==
    \E c \in Call : /\ about[c] = r
                    /\ by[c] = record.decidedBy /\ decision[c] = record.status
                    /\ \A d \in Call : about[d] = r => audit[d] = IF d = c THEN 1 ELSE 0

AuditInv ==
    Serial => \A r \in Request :
        /\ requests[r] = NoRecord => Unentered(r)
        /\ requests[r] # NoRecord => IF requests[r].status = "pending" THEN Unentered(r)
                                     ELSE EnteredOnce(r, requests[r])

LEMMA AuditStep == IInv /\ SerialInv /\ AuditInv /\ [Next]_vars => AuditInv'
<1> SUFFICES ASSUME IInv, SerialInv, AuditInv, [Next]_vars, Serial' PROVE AuditInv'
  BY DEF AuditInv
<1>a. HeldIsRecord /\ Serial
  BY SerialYet DEF SerialInv
<1> USE <1>a DEF IInv
<1>1. ASSUME UNCHANGED <<requests, audit, about, by, decision>> PROVE AuditInv'
  BY <1>1 DEF AuditInv, Unentered, EnteredOnce
<1>2. ASSUME NEW r \in Request, CreateRequest(r) PROVE AuditInv'
  <2>1. /\ requests[r] = NoRecord /\ UNCHANGED <<audit, about, by, decision>>
        /\ \A q \in Request : q # r => requests'[q] = requests[q]
    BY <1>2 DEF CreateRequest, HeldIsRecord, TypeOK, callVars
  <2>2. requests'[r].status = "pending"
    BY <1>2, NewRequestType DEF CreateRequest, TypeOK
  <2>3. Unentered(r)
    BY <2>1 DEF AuditInv
  <2>4. \A q \in Request : /\ Unentered(q)' = Unentered(q)
                           /\ \A record : EnteredOnce(q, record)' = EnteredOnce(q, record)
    BY <2>1 DEF Unentered, EnteredOnce
  <2> QED
    BY <2>1, <2>2, <2>3, <2>4 DEF AuditInv
<1>3. ASSUME NEW c \in Call, FinishReview(c) PROVE AuditInv'
  <2>1. PICK r \in Request : r = about[c]
    BY DEF TypeOK
  <2>2. /\ requests[r] = held[c] /\ held[c] \in ApprovalRequest /\ held[c].status = "pending"
        /\ audit' = [audit EXCEPT ![c] = audit[c] + 1] /\ audit \in [Call -> Nat]
        /\ UNCHANGED <<about, by, decision>>
    BY <1>3, <2>1 DEF FinishReview, HeldIsRecord, HeldInv, CanReview, TypeOK, callVars
  <2>3. \A q \in Request : requests'[q] = IF q = r THEN Decided(c) ELSE requests[q]
    BY <1>3, <2>1 DEF FinishReview, TypeOK
  <2>4. /\ Decided(c) # NoRecord /\ Decided(c).status # "pending"
        /\ Decided(c).decidedBy = by[c] /\ Decided(c).status = decision[c]
    <3>1. Decided(c).decidedBy = by[c] /\ Decided(c).status = decision[c]
      BY <2>2 DEF Decided, ApprovalRequest
    <3> QED
      BY <1>3, <3>1, DecidedType, NoRecordOutside DEF FinishReview
  <2>5. Unentered(r)
    BY <2>2, NoRecordOutside DEF AuditInv
  <2>6. EnteredOnce(r, Decided(c))'
    <3>1. about'[c] = r /\ by'[c] = Decided(c).decidedBy /\ decision'[c] = Decided(c).status
      BY <2>1, <2>2, <2>4
    <3>2. \A d \in Call : about'[d] = r => audit'[d] = IF d = c THEN 1 ELSE 0
      BY <2>1, <2>2, <2>5 DEF Unentered
    <3>3. Decided(c)' = Decided(c)
      BY <1>3 DEF FinishReview, Decided, callVars
    <3> QED
      BY <3>1, <3>2, <3>3 DEF EnteredOnce
  <2>7. Decided(c)' = Decided(c)
    BY <1>3 DEF FinishReview, Decided, callVars
  <2>8. ASSUME NEW q \in Request, q # r
        PROVE  /\ Unentered(q)' = Unentered(q)
               /\ \A record : EnteredOnce(q, record)' = EnteredOnce(q, record)
    BY <2>1, <2>2, <2>8 DEF Unentered, EnteredOnce
  <2>9. ASSUME NEW q \in Request
        PROVE  /\ requests'[q] = NoRecord => Unentered(q)'
               /\ requests'[q] # NoRecord => IF requests'[q].status = "pending" THEN Unentered(q)'
                                             ELSE EnteredOnce(q, requests[q])'
    <3>1. CASE q = r
      BY <2>3, <2>4, <2>6, <2>7, <3>1 DEF EnteredOnce
    <3>2. CASE q # r
      BY <2>3, <2>8, <3>2 DEF AuditInv, EnteredOnce
    <3> QED
      BY <3>1, <3>2
  <2> QED
    BY <2>9 DEF AuditInv
<1>4. \A c \in Call : ~InnerCrash(c)
  BY SerialYet
<1>5. \A r \in Request : ~CrashInCreate(r)
  BY SerialYet
<1>6. ASSUME NEW c \in Call, StartReview(c) PROVE AuditInv'
  BY <1>1, <1>6 DEF StartReview
<1>7. CASE Crash \/ UNCHANGED vars
  BY <1>1, <1>7 DEF Crash, vars, callVars
<1> QED
  BY <1>2, <1>3, <1>4, <1>5, <1>6, <1>7
  DEF Next, CrashBeforeSave, CrashInSave, CrashBeforeAudit

(* As long as reviews have not overlapped and no crash has hit a handler,   *)
(* the audit trail has one entry for the decision on each decided request,  *)
(* with the reviewer and the decision on record, and none for a pending one *)
(* (appendAuditRecord after saveRequest).                                   *)
THEOREM AuditTheorem == Spec => []AuditMatchesRecord
<1>1. AuditInv => AuditMatchesRecord
  BY DEF AuditInv, Unentered, EnteredOnce, AuditMatchesRecord
<1>2. Init => AuditInv
  BY DEF Init, AuditInv, Unentered
<1> QED
  BY <1>1, <1>2, AuditStep, SerialInvariant, PTL DEF Spec

-----------------------------------------------------------------------------
LEMMA StepRefines ==
    ASSUME IInv, SerialInv, [Next]_vars, Serial'
    PROVE  [Lifecycle!Next]_(Lifecycle!vars)
<1>a. HeldIsRecord
  BY SerialYet DEF SerialInv
<1> USE <1>a DEF IInv, HeldIsRecord, Lifecycle!vars
<1>1. CASE UNCHANGED vars
  BY <1>1 DEF vars, StatusOf
<1>2. ASSUME NEW r \in Request, CreateRequest(r) PROVE Lifecycle!Create(r)
  <2>1. PICK new \in ApprovalRequest : /\ requests' = [requests EXCEPT ![r] = new]
                                       /\ new.status = "pending"
    BY <1>2, NewRequestType DEF CreateRequest
  <2>2. requests[r] = NoRecord /\ UNCHANGED jobs
    BY <1>2 DEF CreateRequest
  <2>3. StatusOf[r] = "absent" /\ StatusOf' = [StatusOf EXCEPT ![r] = "pending"]
    BY <2>1, <2>2, NoRecordOutside DEF StatusOf, TypeOK
  <2> QED
    BY <2>2, <2>3 DEF Lifecycle!Create, StatusOf
<1>3. ASSUME NEW c \in Call, StartReview(c) PROVE UNCHANGED Lifecycle!vars
  BY <1>3 DEF StartReview, StatusOf
<1>4. ASSUME NEW c \in Call, FinishReview(c)
      PROVE  \E r \in Request : Lifecycle!Approve(r) \/ Lifecycle!Reject(r)
  <2>0. PICK r \in Request : r = about[c]
    BY DEF TypeOK
  <2>1. /\ requests[r] \in ApprovalRequest
        /\ requests[r].status = "pending"
        /\ decision[c] \in {"approved", "rejected"}
    BY <1>4, <2>0 DEF FinishReview, HeldInv, CanReview, TypeOK
  <2>2. /\ requests' = [requests EXCEPT ![r] = Decided(c)]
        /\ Decided(c) \in ApprovalRequest
        /\ Decided(c).status = decision[c]
    BY <1>4, <2>0, DecidedType DEF FinishReview
  <2>3. StatusOf[r] = "pending" /\ StatusOf' = [StatusOf EXCEPT ![r] = decision[c]]
    BY <2>1, <2>2, NoRecordOutside DEF StatusOf, TypeOK
  <2>4. CASE decision[c] = "rejected"
    <3>1. jobs' = jobs
      BY <1>4, <2>4 DEF FinishReview, Enqueued
    <3>2. Lifecycle!Reject(r)
      BY <2>3, <2>4, <3>1 DEF Lifecycle!Reject, Lifecycle!Decide, StatusOf
    <3> QED
      BY <3>2
  <2>5. CASE decision[c] = "approved"
    <3>1. jobs' = jobs \/ jobs' = jobs \cup {<<c, r>>}
      BY <1>4, <2>0 DEF FinishReview, Enqueued
    <3>2. Lifecycle!Approve(r)
      BY <2>3, <2>5, <3>1 DEF Lifecycle!Approve, Lifecycle!Decide, StatusOf
    <3> QED
      BY <3>2
  <2> QED
    BY <2>1, <2>4, <2>5
<1>5. \A c \in Call : ~InnerCrash(c)
  BY SerialYet
<1>6. \A r \in Request : ~CrashInCreate(r)
  BY SerialYet
<1>7. CASE Crash
  BY <1>7 DEF Crash, StatusOf
<1> QED
  BY <1>1, <1>2, <1>3, <1>4, <1>5, <1>6, <1>7
  DEF Next, CrashBeforeSave, CrashInSave, CrashBeforeAudit, Lifecycle!Next

(* As long as reviews have not overlapped and no crash has hit a handler,  *)
(* every request is decided at most once, and a job runs only together     *)
(* with an approval.                                                       *)
THEOREM Refinement == Spec => ImplementsLifecycle
<1>1. Init => Lifecycle!Init
  BY DEF Init, Lifecycle!Init, StatusOf
<1>2. IInv /\ SerialInv /\ [Next]_vars => [Serial' => Lifecycle!Next]_<<StatusOf, jobs>>
  BY StepRefines DEF Lifecycle!vars
<1> QED
  BY <1>1, <1>2, SerialInvariant, PTL DEF Spec, ImplementsLifecycle
=============================================================================
