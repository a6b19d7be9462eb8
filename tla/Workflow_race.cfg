CONSTANTS
    NoRecord = NoRecord
    NoReviewer = NoReviewer
    NoCall = NoCall
    Request = {r1}
    Reviewer = {v1, v2}
    Call = {c1, c2}
    MaxCrashes = 0
    MaxInnerCrashes = 0
SPECIFICATION Spec
INVARIANT JobsHaveApprovals
CHECK_DEADLOCK FALSE
