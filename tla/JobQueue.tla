------------------------------ MODULE JobQueue ------------------------------
(* Background jobs: the metadata file the API and the workers share         *)
(* (packages/job-queue, packages/job-core) and the BullMQ queue that decides *)
(* who runs a job and when.  The two are updated one after the other and    *)
(* never together.                                                          *)
(*                                                                          *)
(* A locked operation on the metadata file is one step here, as FileStore   *)
(* shows it may be; it can throw when the lock cannot be had.  A worker     *)
(* reads the file without the lock, so a read that meets any other          *)
(* process's rewrite finds the file empty.  A worker is one concurrent job  *)
(* slot: a process of concurrency 1, or one of the two of the worker loop.  *)
EXTENDS Integers, FiniteSets

CONSTANTS Job, Worker,
          NoJob, NoRecord, NoWorker,
          MaxRetries,       \* defaultJobRetryPolicy.maxRetries
          MaxStalled,       \* BullMQ's maxStalledCount
          MaxApiCrashes, MaxWorkerCrashes,
          MaxLockFailures,  \* bound: metadata operations that throw
          MaxLostRenewals,  \* bound: live workers whose BullMQ lock lapses
          MaxAddFailures,   \* bound: queue.add calls that are rejected
          MaxTornReads      \* bound: reads that meet a rewrite of the file

ASSUME NullAssumption == NoJob \notin Job /\ NoWorker \notin Worker
ASSUME RecordAssumption ==
    NoRecord \notin [status : {"pending", "running", "success", "failed"},
                     retryCount : 0 .. MaxRetries + 1, createdBy : {"requester", "system"}]
ASSUME PolicyAssumption == MaxRetries \in Nat /\ MaxStalled \in Nat
ASSUME BoundAssumption == /\ MaxApiCrashes \in Nat
                          /\ MaxWorkerCrashes \in Nat
                          /\ MaxLockFailures \in Nat
                          /\ MaxLostRenewals \in Nat
                          /\ MaxAddFailures \in Nat
                          /\ MaxTornReads \in Nat

VARIABLES meta,       \* the metadata file's record of each job
          adding,     \* jobs whose queue.add has been called, not answered
          bull, made, stalls, owner,   \* BullMQ's state of each job
          pc, task, record,            \* each worker's position, job and
                                       \* in-memory copy of the job's record
          starts,     \* history: how often a job was handed to a worker
          used        \* how much of each bound is used

bullVars == <<bull, made, stalls, owner>>
workerVars == <<pc, task, record>>
vars == <<meta, adding, bull, made, stalls, owner, pc, task, record, starts, used>>

-----------------------------------------------------------------------------
Attempts == MaxRetries + 1

Status == {"pending", "running", "success", "failed"}
Terminal == {"success", "failed"}

JobRecord == [status : Status, retryCount : 0 .. Attempts, createdBy : {"requester", "system"}]

BullState == {"absent", "waiting", "active", "delayed", "completed", "failed"}

PC == {"idle", "begin", "logStart", "handler", "saveSuccess", "logSuccess",
       "saveFailure", "logFailure", "ack", "nack", "down"}

Bounds == [apiCrashes : 0 .. MaxApiCrashes, workerCrashes : 0 .. MaxWorkerCrashes,
           lockFailures : 0 .. MaxLockFailures, lostRenewals : 0 .. MaxLostRenewals,
           addFailures : 0 .. MaxAddFailures, tornReads : 0 .. MaxTornReads]

TypeOK ==
    /\ meta \in [Job -> JobRecord \cup {NoRecord}]
    /\ adding \in SUBSET Job
    /\ bull \in [Job -> BullState]
    /\ made \in [Job -> 0 .. Attempts]
    /\ stalls \in [Job -> 0 .. MaxStalled + 1]
    /\ owner \in [Job -> Worker \cup {NoWorker}]
    /\ pc \in [Worker -> PC]
    /\ task \in [Worker -> Job \cup {NoJob}]
    /\ record \in [Worker -> JobRecord \cup {NoRecord}]
    /\ starts \in [Job -> Nat]
    /\ used \in Bounds

Init ==
    /\ meta = [j \in Job |-> NoRecord]
    /\ adding = {}
    /\ bull = [j \in Job |-> "absent"]
    /\ made = [j \in Job |-> 0]
    /\ stalls = [j \in Job |-> 0]
    /\ owner = [j \in Job |-> NoWorker]
    /\ pc = [w \in Worker |-> "idle"]
    /\ task = [w \in Worker |-> NoJob]
    /\ record = [w \in Worker |-> NoRecord]
    /\ starts = [j \in Job |-> 0]
    /\ used = [apiCrashes |-> 0, workerCrashes |-> 0, lockFailures |-> 0,
               lostRenewals |-> 0, addFailures |-> 0, tornReads |-> 0]

-----------------------------------------------------------------------------
(* createJobRecord *)
NewRecord == [status |-> "pending", retryCount |-> 0, createdBy |-> "requester"]

(* markJobSucceeded *)
Succeeded(r) == [r EXCEPT !.status = "success"]

(* Does registerJobFailure leave the job pending?  Next to it, the          *)
(* comparison off by one in each direction.                                 *)
WillRetryOnceLess(r) == r.retryCount + 1 < MaxRetries
WillRetryOnceMore(r) == r.retryCount <= MaxRetries

WillRetry(r) == r.retryCount + 1 <= MaxRetries

(* registerJobFailure *)
Failed(r) == [r EXCEPT !.status = IF WillRetry(r) THEN "pending" ELSE "failed",
                       !.retryCount = r.retryCount + 1]

(* enqueue writes the record, calls queue.add and returns without waiting   *)
(* for it.                                                                  *)
Enqueue(j) ==
    /\ meta[j] = NoRecord
    /\ meta' = [meta EXCEPT ![j] = NewRecord]
    /\ adding' = adding \cup {j}
    /\ UNCHANGED <<bullVars, workerVars, starts, used>>

QueueAdd(j) ==
    /\ j \in adding
    /\ adding' = adding \ {j}
    /\ bull' = [bull EXCEPT ![j] = "waiting"]
    /\ UNCHANGED <<meta, made, stalls, owner, workerVars, starts, used>>

(* queue.add is rejected: the catch appends a log line, the record stays.  *)
QueueAddRejected(j) ==
    /\ j \in adding
    /\ used.addFailures < MaxAddFailures
    /\ used' = [used EXCEPT !.addFailures = @ + 1]
    /\ adding' = adding \ {j}
    /\ UNCHANGED <<meta, bullVars, workerVars, starts>>

(* The API dies between requests; calls it had not sent are gone.  (Death  *)
(* while it writes leaves the lock file behind: see FileStore.)            *)
ApiCrash ==
    /\ adding # {}
    /\ used.apiCrashes < MaxApiCrashes
    /\ used' = [used EXCEPT !.apiCrashes = @ + 1]
    /\ adding' = {}
    /\ UNCHANGED <<meta, bullVars, workerVars, starts>>

-----------------------------------------------------------------------------
Goto(w, l) == pc' = [pc EXCEPT ![w] = l]

(* The retry count the processor works with is BullMQ's, not the record's. *)
RecordedRetries(j, current) == current.retryCount

RetriesSoFar(j, current) == made[j]

(* BullMQ hands job j to worker w, whose processor makes its working copy   *)
(* of the job's record out of current.                                      *)
HandOver(w, j, current) ==
    /\ pc[w] = "idle"
    /\ bull[j] = "waiting"
    /\ bull' = [bull EXCEPT ![j] = "active"]
    /\ owner' = [owner EXCEPT ![j] = w]
    /\ Goto(w, "begin")
    /\ task' = [task EXCEPT ![w] = j]
    /\ record' = [record EXCEPT ![w] =
                    [current EXCEPT !.status = "running", !.retryCount = RetriesSoFar(j, current)]]
    /\ starts' = [starts EXCEPT ![j] = @ + 1]
    /\ UNCHANGED <<meta, adding, made, stalls>>

(* The record made up when getJob finds none. *)
UnknownRecord == [status |-> "pending", retryCount |-> 0, createdBy |-> "system"]

Start(w, j) ==
    /\ HandOver(w, j, IF meta[j] = NoRecord THEN UnknownRecord ELSE meta[j])
    /\ UNCHANGED used

(* getJob reads while another process is between truncating the metadata   *)
(* file and writing it.                                                    *)
StartWithTornRead(w, j) ==
    /\ used.tornReads < MaxTornReads
    /\ used' = [used EXCEPT !.tornReads = @ + 1]
    /\ HandOver(w, j, UnknownRecord)

(* saveJob replaces the record of a job the file has, and adds none. *)
Save(j, r) ==
    meta' = IF meta[j] = NoRecord THEN meta ELSE [meta EXCEPT ![j] = r]

SaveRunning(w) ==
    /\ pc[w] = "begin"
    /\ Save(task[w], record[w])
    /\ Goto(w, "logStart")
    /\ UNCHANGED <<adding, bullVars, task, record, starts, used>>

(* appendLogs: only the lines it adds change, and they are not modelled. *)
AppendLogs(w) ==
    /\ \/ pc[w] = "logStart" /\ Goto(w, "handler")
       \/ pc[w] = "logSuccess" /\ Goto(w, "ack")
       \/ pc[w] = "logFailure" /\ Goto(w, "nack")
    /\ UNCHANGED <<meta, adding, bullVars, task, record, starts, used>>

(* options.processor(running): the job type's handler resolves or rejects. *)
HandlerEnds(w) ==
    /\ pc[w] = "handler"
    /\ Goto(w, "saveSuccess") \/ Goto(w, "saveFailure")
    /\ UNCHANGED <<meta, adding, bullVars, task, record, starts, used>>

SaveSuccess(w) ==
    /\ pc[w] = "saveSuccess"
    /\ Save(task[w], Succeeded(record[w]))
    /\ Goto(w, "logSuccess")
    /\ UNCHANGED <<adding, bullVars, task, record, starts, used>>

SaveFailure(w) ==
    /\ pc[w] = "saveFailure"
    /\ Save(task[w], Failed(record[w]))
    /\ Goto(w, "logFailure")
    /\ UNCHANGED <<adding, bullVars, task, record, starts, used>>

(* A metadata operation throws.  Inside the try block the catch clause      *)
(* takes it for a failure of the handler; outside, the job just fails.      *)
MetadataThrows(w) ==
    /\ used.lockFailures < MaxLockFailures
    /\ used' = [used EXCEPT !.lockFailures = @ + 1]
    /\ \/ pc[w] \in {"saveSuccess", "logSuccess"} /\ Goto(w, "saveFailure")
       \/ pc[w] \in {"begin", "logStart", "saveFailure", "logFailure"} /\ Goto(w, "nack")
    /\ UNCHANGED <<meta, adding, bullVars, task, record, starts>>

(* The worker forgets its job when the processor has settled. *)
Done(w) ==
    /\ Goto(w, "idle")
    /\ task' = [task EXCEPT ![w] = NoJob]
    /\ record' = [record EXCEPT ![w] = NoRecord]
    /\ UNCHANGED <<meta, adding, stalls, starts, used>>

(* The processor resolved or rejected but BullMQ has given the job away:    *)
(* the worker's lock token no longer counts.                               *)
Disowned(w) ==
    /\ pc[w] \in {"ack", "nack"}
    /\ owner[task[w]] # w
    /\ Done(w)
    /\ UNCHANGED <<bull, made, owner>>

Settle(w, j, state) ==
    /\ owner[j] = w
    /\ bull' = [bull EXCEPT ![j] = state]
    /\ made' = [made EXCEPT ![j] = @ + 1]
    /\ owner' = [owner EXCEPT ![j] = NoWorker]
    /\ Done(w)

(* moveToCompleted *)
Complete(w) == pc[w] = "ack" /\ Settle(w, task[w], "completed")

(* toBullMqJobOptions' attempts, and one too many. *)
OneAttemptMore == MaxRetries + 2

BullAttempts == MaxRetries + 1

(* moveToFailed: back off and retry, or fail for good, by BullMQ's count. *)
Retry(w) == pc[w] = "nack" /\ made[task[w]] + 1 < BullAttempts /\ Settle(w, task[w], "delayed")
Exhaust(w) == pc[w] = "nack" /\ made[task[w]] + 1 >= BullAttempts /\ Settle(w, task[w], "failed")

BackoffElapses(j) ==
    /\ bull[j] = "delayed"
    /\ bull' = [bull EXCEPT ![j] = "waiting"]
    /\ UNCHANGED <<meta, adding, made, stalls, owner, workerVars, starts, used>>

(* BullMQ's stalled-job check: the job waits again, or fails when it has    *)
(* stalled too often.                                                       *)
Stall(j) ==
    /\ bull[j] = "active"
    /\ stalls' = [stalls EXCEPT ![j] = @ + 1]
    /\ bull' = [bull EXCEPT ![j] = IF stalls[j] + 1 > MaxStalled THEN "failed" ELSE "waiting"]
    /\ owner' = [owner EXCEPT ![j] = NoWorker]
    /\ UNCHANGED <<meta, adding, made, workerVars, starts>>

(* ... because its worker died, ... *)
StallsAfterCrash(j) ==
    /\ owner[j] # NoWorker
    /\ task[owner[j]] # j
    /\ Stall(j)
    /\ UNCHANGED used

(* ... or because a live worker, blocked in a synchronous wait, did not    *)
(* renew its lock in time.                                                 *)
StallsWhileRunning(j) ==
    /\ owner[j] # NoWorker
    /\ task[owner[j]] = j
    /\ used.lostRenewals < MaxLostRenewals
    /\ used' = [used EXCEPT !.lostRenewals = @ + 1]
    /\ Stall(j)

WorkerCrash(w) ==
    /\ pc[w] # "down"
    /\ used.workerCrashes < MaxWorkerCrashes
    /\ used' = [used EXCEPT !.workerCrashes = @ + 1]
    /\ Goto(w, "down")
    /\ task' = [task EXCEPT ![w] = NoJob]
    /\ record' = [record EXCEPT ![w] = NoRecord]
    /\ UNCHANGED <<meta, adding, bullVars, starts>>

WorkerRestart(w) ==
    /\ pc[w] = "down"
    /\ Goto(w, "idle")
    /\ UNCHANGED <<meta, adding, bullVars, task, record, starts, used>>

-----------------------------------------------------------------------------
(* The part of the processor between the hand-over and BullMQ's verdict. *)
Process(w) ==
    \/ SaveRunning(w) \/ AppendLogs(w) \/ HandlerEnds(w)
    \/ SaveSuccess(w) \/ SaveFailure(w)
    \/ Disowned(w) \/ Complete(w) \/ Retry(w) \/ Exhaust(w)

Next ==
    \/ \E j \in Job : \/ Enqueue(j) \/ QueueAdd(j) \/ QueueAddRejected(j)
                      \/ BackoffElapses(j) \/ StallsAfterCrash(j) \/ StallsWhileRunning(j)
    \/ ApiCrash
    \/ \E w \in Worker : \/ \E j \in Job : Start(w, j)
                         \/ \E j \in Job : StartWithTornRead(w, j)
                         \/ Process(w) \/ MetadataThrows(w)
                         \/ WorkerCrash(w) \/ WorkerRestart(w)

Spec == Init /\ [][Next]_vars

(* Processes keep running, Redis answers, and BullMQ's timers fire; nothing*)
(* makes a client enqueue, a process crash or a lock fail.                 *)
Fairness ==
    /\ \A j \in Job : /\ WF_vars(QueueAdd(j))
                      /\ WF_vars(BackoffElapses(j))
                      /\ WF_vars(StallsAfterCrash(j))
                      /\ WF_vars(\E w \in Worker : Start(w, j))
    /\ \A w \in Worker : WF_vars(Process(w)) /\ WF_vars(WorkerRestart(w))

FairSpec == Spec /\ Fairness

-----------------------------------------------------------------------------
(* The processor is called for a job at most once per attempt and once      *)
(* more per tolerated stall, whatever crashes and however often its         *)
(* metadata cannot be saved: the retry count the code keeps itself has no   *)
(* say in it (toBullMqJobOptions, createBullMqJobWorker).                   *)
StartsBounded == \A j \in Job : starts[j] <= Attempts + MaxStalled

(* The metadata calls a job failed only in or after its last attempt:       *)
(* registerJobFailure counts the retries BullMQ will still make right, also *)
(* for a worker that has lost the job, and after torn reads.                *)
FailedOnLastAttempt ==
    \A j \in Job : meta[j] # NoRecord /\ meta[j].status = "failed" => made[j] >= MaxRetries

(* BullMQ never has a job the metadata file does not know, whatever is lost *)
(* between enqueue's write and its queue.add.                               *)
QueuedJobsAreRecorded == \A j \in Job : bull[j] # "absent" => meta[j] # NoRecord

Busy(j) == \E w \in Worker : task[w] = j

(* No metadata operation has thrown, and no live worker has lost its job.   *)
Undisturbed == used.lockFailures = 0 /\ used.lostRenewals = 0

(* When no worker is on a job and it has not stalled too often, its record  *)
(* says what BullMQ says: finished jobs are final in both, and a job that   *)
(* backs off is pending with the number of failures so far.  Holds across   *)
(* worker crashes and torn reads.                                           *)
RecordAgreesWithQueue ==
    \A j \in Job : Undisturbed /\ ~Busy(j) /\ stalls[j] <= MaxStalled =>
        /\ bull[j] = "completed" => meta[j].status = "success"
        /\ bull[j] = "failed"    => meta[j].status = "failed"
        /\ bull[j] = "delayed"   => meta[j].status = "pending" /\ meta[j].retryCount = made[j]

(* isTerminalJobStatus: a finished record never changes again, as long as   *)
(* no worker dies between saving it and telling BullMQ, and no append to    *)
(* the job's log throws in between.                                         *)
TerminalIsFinal ==
    [][Undisturbed' /\ used'.workerCrashes = 0 =>
          \A j \in Job : meta[j] # NoRecord /\ meta[j].status \in Terminal => meta'[j] = meta[j]]_vars

(* Something has happened that may cost a job its place in BullMQ or its    *)
(* record's agreement with it.                                              *)
Spoiled == \/ ~Undisturbed \/ used.apiCrashes > 0 \/ used.addFailures > 0
           \/ used.workerCrashes > MaxStalled

(* A job whose record is open is one that something will still take up: its *)
(* queue.add is under way, BullMQ has it waiting or backing off, or a worker *)
(* has it, at work or dead and to be found stalled.  What JobsSettle rests   *)
(* on, apart from those steps being taken.                                   *)
InHand(j) == \/ j \in adding
             \/ bull[j] \in {"waiting", "delayed"}
             \/ bull[j] = "active" /\ owner[j] # NoWorker

NoJobIsStranded ==
    \A j \in Job : meta[j] # NoRecord => Spoiled \/ meta[j].status \in Terminal \/ InHand(j)

(* An enqueued job is eventually finished, in the metadata and for good,    *)
(* across as many worker crashes as BullMQ tolerates stalls: its stalled    *)
(* check hands the job out again.                                           *)
JobsSettle ==
    \A j \in Job : meta[j] # NoRecord ~>
        [](Spoiled \/ (meta[j] # NoRecord /\ meta[j].status \in Terminal))
=============================================================================
