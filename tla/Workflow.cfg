CONSTANTS
    NoRecord = NoRecord
    NoReviewer = NoReviewer
    NoCall = NoCall
    Request = {r1, r2}
    Reviewer = {v1, v2}
    Call = {c1, c2, c3}
    MaxCrashes = 1
    MaxInnerCrashes = 2
SPECIFICATION Spec
SYMMETRY Symmetry
INVARIANTS
    ApprovedHasItsJob
    EveryJobHasApproval
    AuditMatchesRecord
PROPERTIES
    ImplementsLifecycle
CHECK_DEADLOCK FALSE
