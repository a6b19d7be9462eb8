CONSTANTS
    NoJob = NoJob
    NoRecord = NoRecord
    NoWorker = NoWorker
    Job = {j1}
    Worker = {w1, w2}
    MaxApiCrashes = 1
    MaxWorkerCrashes = 2
    MaxLockFailures = 1
    MaxLostRenewals = 2
    MaxAddFailures = 1
    MaxTornReads = 1
    MaxRetries = 2
    MaxStalled = 1
SPECIFICATION FairSpec
INVARIANTS
    StartsBounded
    FailedOnLastAttempt
    RecordAgreesWithQueue
PROPERTIES
    TerminalIsFinal
    JobsSettle
CHECK_DEADLOCK FALSE
