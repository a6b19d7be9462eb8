--------------------------- MODULE JobQueueProofs ---------------------------
(* Proofs about JobQueue for any number of jobs and workers, any retry      *)
(* policy and any bound on the faults.                                      *)
EXTENDS JobQueue, TLAPS

Working(w) == pc[w] \notin {"idle", "down"}

(* A worker's copy of a record is one it was handed in an attempt that      *)
(* BullMQ has counted no further than that since.                           *)
WorkerInv ==
    \A w \in Worker : Working(w) =>
        /\ task[w] \in Job
        /\ record[w] \in JobRecord
        /\ record[w].status = "running"
        /\ record[w].retryCount <= made[task[w]]
        /\ record[w].retryCount <= MaxRetries

Live(j) == bull[j] \in {"absent", "waiting", "active", "delayed"}

(* Each start of a job is paid for by an attempt, a stall, or the run that  *)
(* is under way.                                                            *)
QueueInv ==
    \A j \in Job :
        /\ Live(j) => made[j] <= MaxRetries /\ stalls[j] <= MaxStalled
        /\ made[j] + stalls[j] <= Attempts + MaxStalled
        /\ bull[j] # "active" => starts[j] <= made[j] + stalls[j]
        /\ bull[j] = "active" => starts[j] <= made[j] + stalls[j] + 1
        /\ owner[j] # NoWorker => bull[j] = "active"
        /\ j \in adding => bull[j] = "absent"
        /\ meta[j] = NoRecord => bull[j] = "absent" /\ j \notin adding

IInv == TypeOK /\ WorkerInv /\ QueueInv /\ FailedOnLastAttempt

(* Where no metadata operation has thrown and no renewal was lost, a worker *)
(* that has a job owns it, and what it has saved is what BullMQ will count. *)
Reported(w) ==
    /\ pc[w] \in {"logSuccess", "ack"} => meta[task[w]].status = "success"
    /\ pc[w] \in {"logFailure", "nack"} =>
          /\ meta[task[w]].retryCount = made[task[w]] + 1
          /\ meta[task[w]].status = IF made[task[w]] + 1 <= MaxRetries THEN "pending" ELSE "failed"

Owned ==
    \A w \in Worker :
        /\ ~ Working(w) => task[w] = NoJob
        /\ Undisturbed /\ Working(w) =>
              /\ owner[task[w]] = w
              /\ record[w].retryCount = made[task[w]]
              /\ Reported(w)

Agree(j) ==
    /\ bull[j] = "completed" => meta[j].status = "success"
    /\ bull[j] = "failed"    => meta[j].status = "failed"
    /\ bull[j] = "delayed"   => meta[j].status = "pending" /\ meta[j].retryCount = made[j]

Agreement == Undisturbed => \A j \in Job : stalls[j] <= MaxStalled => Agree(j)

(* ... and where no worker has died either, a record that is final belongs  *)
(* to a job that is about to be settled or has been.                        *)
Calm == Undisturbed /\ used.workerCrashes = 0

Unfinished(j) == meta[j] # NoRecord => meta[j].status \notin Terminal

Writing(w) == pc[w] \in {"begin", "logStart", "handler", "saveSuccess", "saveFailure"}

FinalOnce ==
    Calm => /\ \A w \in Worker : Writing(w) => Unfinished(task[w])
            /\ \A j \in Job : /\ owner[j] # NoWorker => task[owner[j]] = j
                              /\ bull[j] \in {"absent", "waiting", "delayed"} => Unfinished(j)

QuietInv == Owned /\ Agreement /\ FinalOnce

(* Each stall of a job, and each job left behind by its worker, is paid for *)
(* by a worker that died or lost its lock; a recorded job that BullMQ was   *)
(* never given is about to be, or its queue.add was lost.                   *)
Lapses == used.workerCrashes + used.lostRenewals

Orphaned(j) == owner[j] # NoWorker /\ task[owner[j]] # j

PaidInv ==
    \A j \in Job :
        /\ stalls[j] <= Lapses
        /\ Orphaned(j) => stalls[j] + 1 <= Lapses
        /\ bull[j] = "active" => owner[j] # NoWorker
        /\ meta[j] # NoRecord /\ bull[j] = "absent" /\ j \notin adding =>
              used.apiCrashes > 0 \/ used.addFailures > 0

-----------------------------------------------------------------------------
LEMMA NewRecordType == NewRecord \in JobRecord /\ UnknownRecord \in JobRecord
BY PolicyAssumption DEF NewRecord, UnknownRecord, JobRecord, Status, Attempts

LEMMA SucceededType ==
    ASSUME NEW r \in JobRecord
    PROVE  Succeeded(r) \in JobRecord /\ Succeeded(r).status = "success"
BY DEF Succeeded, JobRecord, Status

(* registerJobFailure reports "failed" only for a last attempt. *)
LEMMA FailedType ==
    ASSUME NEW r \in JobRecord, r.retryCount <= MaxRetries
    PROVE  /\ Failed(r) \in JobRecord
           /\ Failed(r).status = "failed" => r.retryCount = MaxRetries
<1> DEFINE n == r.retryCount + 1
           s == IF n <= MaxRetries THEN "pending" ELSE "failed"
<1>1. n \in 0 .. Attempts /\ s \in Status
  BY PolicyAssumption DEF JobRecord, Status, Attempts
<1>2. Failed(r) = [r EXCEPT !.status = s, !.retryCount = n]
  BY DEF Failed, WillRetry
<1>3. Failed(r) \in JobRecord /\ Failed(r).status = s
  <2> HIDE DEF n, s
  <2> QED
    BY <1>1, <1>2 DEF JobRecord
<1>4. s = "failed" => r.retryCount = MaxRetries
  BY PolicyAssumption DEF JobRecord, Attempts
<1> QED
  BY <1>3, <1>4

LEMMA RunningType ==
    ASSUME NEW r \in JobRecord, NEW n \in 0 .. Attempts
    PROVE  LET run == [r EXCEPT !.status = "running", !.retryCount = n]
           IN  run \in JobRecord /\ run.status = "running" /\ run.retryCount = n
BY DEF JobRecord, Status

LEMMA NoRecordOutside == NoRecord \notin JobRecord
BY RecordAssumption DEF JobRecord, Status, Attempts

(* Saving a record keeps the metadata in its type and never forgets a job. *)
LEMMA SaveType ==
    ASSUME TypeOK, NEW j \in Job, NEW r \in JobRecord, Save(j, r)
    PROVE  /\ meta' \in [Job -> JobRecord \cup {NoRecord}]
           /\ \A i \in Job : meta'[i] = NoRecord <=> meta[i] = NoRecord
           /\ \A i \in Job : meta'[i] = meta[i] \/ (i = j /\ meta'[i] = r)
BY NoRecordOutside DEF TypeOK, Save

-----------------------------------------------------------------------------
LEMMA InitIInv == Init => IInv
<1> SUFFICES ASSUME Init PROVE IInv
  OBVIOUS
<1> USE PolicyAssumption, BoundAssumption DEF Init, Attempts
<1>1. TypeOK
  <2>1. used \in Bounds
    BY DEF Bounds
  <2> QED
    BY <2>1 DEF TypeOK, BullState, PC
<1>2. WorkerInv
  BY DEF WorkerInv, Working
<1>3. QueueInv
  BY DEF QueueInv, Live
<1>4. FailedOnLastAttempt
  BY DEF FailedOnLastAttempt
<1> QED
  BY <1>1, <1>2, <1>3, <1>4 DEF IInv

(* A step of a worker that leaves BullMQ alone and writes to the metadata   *)
(* no record, or one that may be there after its attempt.                   *)
LEMMA ProcessStep ==
    ASSUME IInv, NEW w \in Worker, Working(w), NEW l \in PC, Goto(w, l),
           UNCHANGED <<adding, bullVars, task, record, starts>>,
           used' \in Bounds,
           \/ UNCHANGED meta
           \/ \E r \in JobRecord : /\ Save(task[w], r)
                                   /\ r.status = "failed" => made[task[w]] >= MaxRetries
    PROVE  IInv'
<1> USE DEF IInv, bullVars
<1>1. /\ meta' \in [Job -> JobRecord \cup {NoRecord}]
      /\ \A i \in Job : meta'[i] = NoRecord <=> meta[i] = NoRecord
      /\ FailedOnLastAttempt'
  <2>1. CASE UNCHANGED meta
    BY <2>1 DEF FailedOnLastAttempt, TypeOK
  <2>2. CASE \E r \in JobRecord : /\ Save(task[w], r)
                                  /\ r.status = "failed" => made[task[w]] >= MaxRetries
    <3>1. PICK r \in JobRecord : /\ Save(task[w], r)
                                 /\ r.status = "failed" => made[task[w]] >= MaxRetries
      BY <2>2
    <3>2. task[w] \in Job
      BY DEF WorkerInv
    <3> QED
      BY <3>1, <3>2, SaveType DEF FailedOnLastAttempt
  <2> QED
    BY <2>1, <2>2
<1>2. TypeOK'
  BY <1>1 DEF TypeOK, Goto
<1>3. WorkerInv'
  BY DEF WorkerInv, Working, Goto, TypeOK
<1>4. QueueInv'
  BY <1>1 DEF QueueInv, Live
<1> QED
  BY <1>1, <1>2, <1>3, <1>4

(* BullMQ stops counting worker w as the one that runs its job: the worker *)
(* becomes idle, and the job may have moved on.                            *)
LEMMA DoneStep ==
    ASSUME IInv, NEW w \in Worker, Done(w), pc[w] \in {"ack", "nack"},
           \/ UNCHANGED <<bull, made, owner>>
           \/ \E state \in {"completed", "delayed", "failed"} :
                  /\ Settle(w, task[w], state)
                  /\ state = "delayed" => made[task[w]] + 1 < Attempts
    PROVE  IInv'
<1> USE DEF IInv, Done
<1>0. task[w] \in Job
  BY DEF WorkerInv, Working
<1>1. CASE UNCHANGED <<bull, made, owner>>
  <2>1. TypeOK'
    BY <1>1 DEF TypeOK, Goto, PC
  <2>2. WorkerInv'
    BY <1>1 DEF WorkerInv, Working, Goto, TypeOK
  <2>3. QueueInv' /\ FailedOnLastAttempt'
    BY <1>1 DEF QueueInv, Live, FailedOnLastAttempt
  <2> QED
    BY <2>1, <2>2, <2>3
<1>2. ASSUME NEW state \in {"completed", "delayed", "failed"},
             Settle(w, task[w], state),
             state = "delayed" => made[task[w]] + 1 < Attempts
      PROVE  IInv'
  <2> DEFINE j == task[w]
  <2>1. bull[j] = "active" /\ made[j] <= MaxRetries /\ stalls[j] <= MaxStalled
    BY <1>0, <1>2, NullAssumption DEF Settle, QueueInv, Live, TypeOK
  <2>2. \A i \in Job : made'[i] = IF i = j THEN made[i] + 1 ELSE made[i]
    BY <1>2 DEF Settle, TypeOK
  <2>3. TypeOK'
    BY <1>0, <1>2, <2>1, PolicyAssumption DEF TypeOK, Goto, PC, Settle, BullState, Attempts
  <2>4. WorkerInv'
    <3>1. \A i \in Job : made[i] \in Nat /\ made'[i] >= made[i]
      BY <2>2, PolicyAssumption DEF TypeOK, Attempts
    <3>2. \A v \in Worker : record[v] \in JobRecord => record[v].retryCount \in Nat
      BY DEF JobRecord
    <3>3. ASSUME NEW v \in Worker, Working(v)'
          PROVE  /\ v # w /\ Working(v)
                 /\ task'[v] = task[v] /\ record'[v] = record[v]
      BY <3>3 DEF Working, Goto, TypeOK
    <3>4. ASSUME NEW v \in Worker, Working(v)'
          PROVE  record[v].retryCount <= made'[task[v]]
      <4>1. record[v] \in JobRecord /\ task[v] \in Job
            /\ record[v].retryCount <= made[task[v]]
        BY <3>3, <3>4 DEF WorkerInv
      <4> DEFINE a == record[v].retryCount
                 b == made[task[v]]
                 c == made'[task[v]]
      <4>2. a \in Nat /\ b \in Nat /\ a <= b /\ c >= b
        BY <3>1, <3>2, <4>1
      <4>3. c \in Nat
        BY <2>2, <4>1, <4>2
      <4> QED
        BY <4>2, <4>3
    <3> QED
      BY <3>3, <3>4 DEF WorkerInv
  <2>5. QueueInv'
    BY <1>0, <1>2, <2>1, <2>2, PolicyAssumption DEF QueueInv, Live, Settle, TypeOK, Attempts
  <2>6. FailedOnLastAttempt'
    BY <2>2, PolicyAssumption DEF FailedOnLastAttempt, TypeOK, Attempts
  <2> QED
    BY <2>3, <2>4, <2>5, <2>6
<1> QED
  BY <1>1, <1>2

LEMMA HandOverStep ==
    ASSUME IInv, NEW w \in Worker, NEW j \in Job, NEW current \in JobRecord,
           HandOver(w, j, current), used' \in Bounds
    PROVE  IInv'
<1> USE DEF IInv, HandOver, RetriesSoFar
<1> DEFINE run == [current EXCEPT !.status = "running", !.retryCount = made[j]]
<1>1. made[j] \in 0 .. Attempts /\ made[j] <= MaxRetries /\ stalls[j] <= MaxStalled
  BY DEF TypeOK, QueueInv, Live
<1>2. run \in JobRecord /\ run.status = "running" /\ run.retryCount = made[j]
  BY <1>1, RunningType
<1>3. record' = [record EXCEPT ![w] = run]
  OBVIOUS
<1> HIDE DEF run
<1>4. TypeOK'
  BY <1>2, <1>3 DEF TypeOK, Goto, PC, BullState
<1>5. WorkerInv'
  BY <1>1, <1>2, <1>3 DEF WorkerInv, Working, Goto, TypeOK
<1>6. QueueInv'
  BY <1>1 DEF QueueInv, Live, TypeOK
<1>7. FailedOnLastAttempt'
  BY DEF FailedOnLastAttempt
<1> QED
  BY <1>4, <1>5, <1>6, <1>7

LEMMA StallStep ==
    ASSUME IInv, NEW j \in Job, Stall(j), used' \in Bounds
    PROVE  IInv'
<1> USE DEF IInv, Stall, workerVars
<1>1. made[j] <= MaxRetries /\ stalls[j] <= MaxStalled
  BY DEF QueueInv, Live
<1>2. TypeOK'
  BY <1>1, PolicyAssumption DEF TypeOK, BullState
<1>3. WorkerInv'
  BY DEF WorkerInv, Working
<1>4. QueueInv'
  BY <1>1, PolicyAssumption DEF QueueInv, Live, TypeOK, Attempts
<1>5. FailedOnLastAttempt'
  BY DEF FailedOnLastAttempt
<1> QED
  BY <1>2, <1>3, <1>4, <1>5
-----------------------------------------------------------------------------
LEMMA NextStep == IInv /\ [Next]_vars => IInv'
<1> SUFFICES ASSUME IInv, [Next]_vars PROVE IInv'
  OBVIOUS
<1> USE DEF IInv
<1>1. CASE UNCHANGED vars
  BY <1>1 DEF vars, TypeOK, WorkerInv, Working, QueueInv, Live, FailedOnLastAttempt
<1>2. ASSUME NEW j \in Job, Enqueue(j) PROVE IInv'
  <2> USE <1>2 DEF Enqueue, bullVars, workerVars
  <2>1. TypeOK'
    BY NewRecordType DEF TypeOK
  <2>2. WorkerInv'
    BY DEF WorkerInv, Working
  <2>3. QueueInv'
    BY NewRecordType, NoRecordOutside DEF QueueInv, Live, TypeOK
  <2>4. FailedOnLastAttempt'
    BY DEF FailedOnLastAttempt, NewRecord, TypeOK
  <2> QED
    BY <2>1, <2>2, <2>3, <2>4
<1>3. ASSUME NEW j \in Job, QueueAdd(j) PROVE IInv'
  <2> USE <1>3 DEF QueueAdd, workerVars
  <2>1. TypeOK'
    BY DEF TypeOK, BullState
  <2>2. WorkerInv' /\ FailedOnLastAttempt'
    BY DEF WorkerInv, Working, FailedOnLastAttempt
  <2>3. QueueInv'
    BY DEF QueueInv, Live, TypeOK
  <2> QED
    BY <2>1, <2>2, <2>3
<1>4. ASSUME NEW j \in Job, QueueAddRejected(j) PROVE IInv'
  <2> USE <1>4 DEF QueueAddRejected, workerVars, bullVars
  <2>1. TypeOK'
    BY BoundAssumption DEF TypeOK, Bounds
  <2>2. WorkerInv' /\ FailedOnLastAttempt' /\ QueueInv'
    BY DEF WorkerInv, Working, FailedOnLastAttempt, QueueInv, Live
  <2> QED
    BY <2>1, <2>2
<1>5. CASE ApiCrash
  <2> USE <1>5 DEF ApiCrash, workerVars, bullVars
  <2>1. TypeOK'
    BY BoundAssumption DEF TypeOK, Bounds
  <2>2. WorkerInv' /\ FailedOnLastAttempt' /\ QueueInv'
    BY DEF WorkerInv, Working, FailedOnLastAttempt, QueueInv, Live
  <2> QED
    BY <2>1, <2>2
<1>6. ASSUME NEW j \in Job, BackoffElapses(j) PROVE IInv'
  <2> USE <1>6 DEF BackoffElapses, workerVars
  <2>1. TypeOK'
    BY DEF TypeOK, BullState
  <2>2. WorkerInv' /\ FailedOnLastAttempt'
    BY DEF WorkerInv, Working, FailedOnLastAttempt
  <2>3. QueueInv'
    BY DEF QueueInv, Live, TypeOK
  <2> QED
    BY <2>1, <2>2, <2>3
<1>7. ASSUME NEW j \in Job, StallsAfterCrash(j) \/ StallsWhileRunning(j) PROVE IInv'
  <2>1. used' \in Bounds
    BY <1>7, BoundAssumption DEF StallsAfterCrash, StallsWhileRunning, TypeOK, Bounds
  <2> QED
    BY <1>7, <2>1, StallStep DEF StallsAfterCrash, StallsWhileRunning
<1>8. ASSUME NEW w \in Worker, NEW j \in Job, Start(w, j) \/ StartWithTornRead(w, j)
      PROVE  IInv'
  <2>1. used' \in Bounds
    BY <1>8, BoundAssumption DEF Start, StartWithTornRead, TypeOK, Bounds
  <2>2. PICK current \in JobRecord : HandOver(w, j, current)
    BY <1>8, NewRecordType DEF Start, StartWithTornRead, TypeOK
  <2> QED
    BY <2>1, <2>2, HandOverStep
<1>9. ASSUME NEW w \in Worker, Process(w) PROVE IInv'
  <2> USE DEF PC
  <2>1. CASE SaveRunning(w)
    <3>1. Working(w) /\ record[w] \in JobRecord /\ record[w].status = "running"
      BY <2>1 DEF SaveRunning, Working, WorkerInv
    <3> QED
      BY <2>1, <3>1, ProcessStep DEF SaveRunning, TypeOK
  <2>2. CASE AppendLogs(w)
    BY <2>2, ProcessStep DEF AppendLogs, Working, TypeOK
  <2>3. CASE HandlerEnds(w)
    BY <2>3, ProcessStep DEF HandlerEnds, Working, TypeOK
  <2>4. CASE SaveSuccess(w)
    <3>1. Working(w) /\ record[w] \in JobRecord
      BY <2>4 DEF SaveSuccess, Working, WorkerInv
    <3>2. Succeeded(record[w]) \in JobRecord /\ Succeeded(record[w]).status # "failed"
      BY <3>1, SucceededType
    <3> QED
      BY <2>4, <3>1, <3>2, ProcessStep DEF SaveSuccess, TypeOK
  <2>5. CASE SaveFailure(w)
    <3>1. /\ Working(w)
          /\ record[w] \in JobRecord
          /\ record[w].retryCount <= MaxRetries
          /\ record[w].retryCount <= made[task[w]]
      BY <2>5 DEF SaveFailure, Working, WorkerInv
    <3>2. /\ Failed(record[w]) \in JobRecord
          /\ Failed(record[w]).status = "failed" => made[task[w]] >= MaxRetries
      BY <3>1, FailedType
    <3> QED
      BY <2>5, <3>1, <3>2, ProcessStep DEF SaveFailure, TypeOK
  <2>6. CASE Disowned(w)
    BY <2>6, DoneStep DEF Disowned
  <2>7. CASE Complete(w)
    BY <2>7, DoneStep DEF Complete, Settle
  <2>8. CASE Retry(w)
    BY <2>8, DoneStep DEF Retry, Settle, BullAttempts, Attempts
  <2>9. CASE Exhaust(w)
    BY <2>9, DoneStep DEF Exhaust, Settle, BullAttempts, Attempts
  <2> QED
    BY <1>9, <2>1, <2>2, <2>3, <2>4, <2>5, <2>6, <2>7, <2>8, <2>9 DEF Process
<1>10. ASSUME NEW w \in Worker, MetadataThrows(w) PROVE IInv'
  <2>1. used' \in Bounds
    BY <1>10, BoundAssumption DEF MetadataThrows, TypeOK, Bounds
  <2> QED
    BY <1>10, <2>1, ProcessStep DEF MetadataThrows, Working, PC
<1>11. ASSUME NEW w \in Worker, WorkerCrash(w) PROVE IInv'
  <2> USE <1>11 DEF WorkerCrash, bullVars, Goto
  <2>1. used' \in Bounds
    BY BoundAssumption DEF TypeOK, Bounds
  <2>2. TypeOK'
    BY <2>1 DEF TypeOK, PC
  <2>3. WorkerInv'
    BY DEF WorkerInv, Working, TypeOK
  <2>4. QueueInv' /\ FailedOnLastAttempt'
    BY DEF QueueInv, Live, FailedOnLastAttempt
  <2> QED
    BY <2>2, <2>3, <2>4
<1>12. ASSUME NEW w \in Worker, WorkerRestart(w) PROVE IInv'
  <2> USE <1>12 DEF WorkerRestart, bullVars, Goto
  <2>1. TypeOK'
    BY DEF TypeOK, PC
  <2>2. WorkerInv'
    BY DEF WorkerInv, Working, TypeOK
  <2>3. QueueInv' /\ FailedOnLastAttempt'
    BY DEF QueueInv, Live, FailedOnLastAttempt
  <2> QED
    BY <2>1, <2>2, <2>3
<1> QED
  BY <1>1, <1>2, <1>3, <1>4, <1>5, <1>6, <1>7, <1>8, <1>9, <1>10, <1>11, <1>12 DEF Next

LEMMA Invariant == Spec => []IInv
BY InitIInv, NextStep, PTL DEF Spec

-----------------------------------------------------------------------------
(* Agreement of the record with BullMQ.                                     *)

LEMMA QuietType ==
    ASSUME IInv
    PROVE  /\ meta \in [Job -> JobRecord \cup {NoRecord}] /\ made \in [Job -> Nat]
           /\ bull \in [Job -> BullState] /\ owner \in [Job -> Worker \cup {NoWorker}]
           /\ pc \in [Worker -> PC] /\ task \in [Worker -> Job \cup {NoJob}]
           /\ record \in [Worker -> JobRecord \cup {NoRecord}]
           /\ \A j \in Job : owner[j] # NoWorker => bull[j] = "active"
           /\ \A j \in Job : meta[j] = NoRecord => bull[j] = "absent"
BY PolicyAssumption DEF IInv, TypeOK, QueueInv, Attempts

(* Two workers never have one job while no renewal is lost. *)
LEMMA Alone ==
    ASSUME IInv, QuietInv, Undisturbed, NEW w \in Worker, Working(w)
    PROVE  /\ task[w] \in Job /\ owner[task[w]] = w /\ bull[task[w]] = "active"
           /\ meta[task[w]] \in JobRecord
           /\ \A v \in Worker : Working(v) /\ task[v] = task[w] => v = w
<1>1. task[w] \in Job /\ owner[task[w]] = w
  BY DEF IInv, WorkerInv, QuietInv, Owned
<1>2. w # NoWorker
  BY NullAssumption
<1>3. bull[task[w]] = "active" /\ meta[task[w]] \in JobRecord
  BY <1>1, <1>2, QuietType
<1> QED
  BY <1>1, <1>3 DEF QuietInv, Owned

(* A step of the processor that touches no record but that of its job. *)
LEMMA QuietProcessStep ==
    ASSUME IInv, QuietInv, NEW w \in Worker, Working(w),
           NEW l \in PC \ {"idle", "down"}, Goto(w, l),
           UNCHANGED <<bullVars, task, record>>,
           Undisturbed' => /\ Undisturbed /\ (Calm' => Calm)
                           /\ \A i \in Job : i # task[w] => meta'[i] = meta[i]
                           /\ Reported(w)'
                           /\ Calm /\ Writing(w)' => Unfinished(task[w])'
    PROVE  QuietInv'
<1> USE DEF bullVars
<1>1. /\ pc' = [pc EXCEPT ![w] = l] /\ pc \in [Worker -> PC]
      /\ \A v \in Worker : Working(v)' <=> Working(v)
      /\ \A v \in Worker : v # w => pc'[v] = pc[v]
  BY QuietType DEF Goto, Working
<1>2. ASSUME Undisturbed', NEW v \in Worker, v # w, Working(v)
      PROVE  task[v] \in Job /\ task[v] # task[w] /\ meta'[task[v]] = meta[task[v]]
  BY <1>2, Alone
<1>3. Owned'
  <2>1. ASSUME Undisturbed', NEW v \in Worker, Working(v) PROVE Reported(v)'
    <3>1. CASE v = w
      BY <2>1, <3>1
    <3>2. CASE v # w
      <4>1. Reported(v)
        BY <2>1 DEF QuietInv, Owned
      <4> QED
        BY <1>1, <1>2, <2>1, <3>2, <4>1 DEF Reported
    <3> QED
      BY <3>1, <3>2
  <2> QED
    BY <1>1, <2>1 DEF QuietInv, Owned
<1>4. Agreement'
  <2>1. ASSUME Undisturbed' PROVE bull[task[w]] = "active"
    BY <2>1, Alone
  <2> QED
    BY <2>1 DEF QuietInv, Agreement, Agree
<1>5. FinalOnce'
  <2>1. ASSUME Calm' PROVE Calm /\ Undisturbed' /\ bull[task[w]] = "active"
    BY <2>1, Alone DEF Calm
  <2>2. ASSUME Calm', NEW v \in Worker, Writing(v)' PROVE Unfinished(task[v])'
    <3>1. CASE v = w
      BY <2>1, <2>2, <3>1
    <3>2. CASE v # w
      <4>1. Writing(v) /\ Working(v)
        BY <1>1, <2>2, <3>2 DEF Writing, Working
      <4> QED
        BY <1>2, <2>1, <2>2, <3>2, <4>1 DEF QuietInv, FinalOnce, Unfinished
    <3> QED
      BY <3>1, <3>2
  <2>3. ASSUME Calm', NEW j \in Job, bull[j] \in {"absent", "waiting", "delayed"} PROVE Unfinished(j)'
    BY <2>1, <2>3 DEF QuietInv, FinalOnce, Unfinished
  <2> QED
    BY <2>1, <2>2, <2>3 DEF QuietInv, FinalOnce
<1> QED
  BY <1>3, <1>4, <1>5 DEF QuietInv

(* saveJob changes the record of the worker's job, which has one. *)
LEMMA QuietSave ==
    ASSUME IInv, QuietInv, Undisturbed, NEW w \in Worker, Working(w),
           NEW r \in JobRecord, Save(task[w], r)
    PROVE  /\ meta'[task[w]] = r
           /\ \A i \in Job : i # task[w] => meta'[i] = meta[i]
BY Alone, NoRecordOutside, QuietType DEF Save

(* What registerJobFailure makes of a record whose count is BullMQ's. *)
LEMMA FailedFields ==
    ASSUME NEW r \in JobRecord
    PROVE  /\ Failed(r).retryCount = r.retryCount + 1
           /\ Failed(r).status = IF r.retryCount + 1 <= MaxRetries THEN "pending" ELSE "failed"
BY DEF Failed, WillRetry, JobRecord

LEMMA QuietSaves ==
    ASSUME IInv, QuietInv, NEW w \in Worker,
           SaveRunning(w) \/ SaveSuccess(w) \/ SaveFailure(w)
    PROVE  QuietInv'
<1>1. Working(w) /\ UNCHANGED <<bullVars, task, record, used>>
  BY DEF SaveRunning, SaveSuccess, SaveFailure, Working
<1>2. record[w] \in JobRecord /\ record[w].status = "running"
  BY <1>1 DEF IInv, WorkerInv
<1>3. (Undisturbed' <=> Undisturbed) /\ (Calm' <=> Calm)
  BY <1>1 DEF Undisturbed, Calm
<1>4. CASE SaveRunning(w)
  <2>1. pc' = [pc EXCEPT ![w] = "logStart"] /\ pc'[w] = "logStart" /\ Save(task[w], record[w])
    BY <1>4, QuietType DEF SaveRunning, Goto
  <2>2. ASSUME Undisturbed PROVE meta'[task[w]] = record[w] /\ \A i \in Job : i # task[w] => meta'[i] = meta[i]
    BY <1>1, <1>2, <2>1, <2>2, QuietSave
  <2>3. Undisturbed => Reported(w)' /\ Unfinished(task[w])'
    BY <1>1, <1>2, <2>1, <2>2 DEF Reported, Unfinished, Terminal
  <2> QED
    BY <1>1, <1>3, <1>4, <2>2, <2>3, QuietProcessStep DEF SaveRunning, PC
<1>5. CASE SaveSuccess(w)
  <2>1. pc'[w] = "logSuccess" /\ Save(task[w], Succeeded(record[w]))
    BY <1>5, QuietType DEF SaveSuccess, Goto
  <2>2. ASSUME Undisturbed
        PROVE  meta'[task[w]] = Succeeded(record[w]) /\ \A i \in Job : i # task[w] => meta'[i] = meta[i]
    BY <1>1, <1>2, <2>1, <2>2, QuietSave, SucceededType
  <2>3. (Undisturbed => Reported(w)') /\ ~ Writing(w)'
    BY <1>1, <1>2, <2>1, <2>2, SucceededType DEF Reported, Writing
  <2> QED
    BY <1>1, <1>3, <1>5, <2>2, <2>3, QuietProcessStep DEF SaveSuccess, PC
<1>6. CASE SaveFailure(w)
  <2>1. pc'[w] = "logFailure" /\ Save(task[w], Failed(record[w]))
    BY <1>6, QuietType DEF SaveFailure, Goto
  <2>2. ASSUME Undisturbed
        PROVE  meta'[task[w]] = Failed(record[w]) /\ \A i \in Job : i # task[w] => meta'[i] = meta[i]
    <3>1. record[w].retryCount <= MaxRetries
      BY <1>1 DEF IInv, WorkerInv
    <3> QED
      BY <1>1, <1>2, <2>1, <2>2, <3>1, QuietSave, FailedType
  <2>3. ASSUME Undisturbed PROVE Reported(w)'
    <3>1. record[w].retryCount = made[task[w]] /\ made' = made /\ task' = task
      BY <1>1, <2>3 DEF QuietInv, Owned, bullVars
    <3> QED
      BY <1>2, <2>1, <2>2, <2>3, <3>1, FailedFields DEF Reported
  <2>4. ~ Writing(w)'
    BY <2>1 DEF Writing
  <2> QED
    BY <1>1, <1>3, <1>6, <2>2, <2>3, <2>4, QuietProcessStep DEF SaveFailure, PC
<1> QED
  BY <1>4, <1>5, <1>6

LEMMA QuietMoves ==
    ASSUME IInv, QuietInv, NEW w \in Worker,
           AppendLogs(w) \/ HandlerEnds(w) \/ MetadataThrows(w)
    PROVE  QuietInv'
<1>1. Working(w) /\ UNCHANGED <<bullVars, task, record, meta>>
  BY DEF AppendLogs, HandlerEnds, MetadataThrows, Working
<1>2. PICK l \in PC \ {"idle", "down"} :
         /\ Goto(w, l)
         /\ \/ pc[w] = "logStart" /\ l = "handler" /\ used' = used
            \/ pc[w] = "logSuccess" /\ l = "ack" /\ used' = used
            \/ pc[w] = "logFailure" /\ l = "nack" /\ used' = used
            \/ pc[w] = "handler" /\ l \in {"saveSuccess", "saveFailure"} /\ used' = used
            \/ used'.lockFailures # 0
  <2>1. CASE AppendLogs(w)
    BY <2>1 DEF AppendLogs, PC
  <2>2. CASE HandlerEnds(w)
    BY <2>2 DEF HandlerEnds, PC
  <2>3. CASE MetadataThrows(w)
    <3>1. used' = [used EXCEPT !.lockFailures = @ + 1] /\ used \in Bounds
      BY <2>3 DEF MetadataThrows, IInv, TypeOK
    <3>2. used'.lockFailures # 0
      BY <3>1, BoundAssumption DEF Bounds
    <3> QED
      BY <2>3, <3>2 DEF MetadataThrows, PC
  <2> QED
    BY <2>1, <2>2, <2>3
<1>3. pc'[w] = l
  BY <1>2, QuietType DEF Goto
<1>4. ASSUME Undisturbed'
      PROVE  /\ Undisturbed /\ (Calm' => Calm) /\ Reported(w)'
             /\ Calm /\ Writing(w)' => Unfinished(task[w])'
  <2>1. used' = used /\ Undisturbed /\ (Calm' => Calm)
    BY <1>2, <1>4 DEF Undisturbed, Calm
  <2>2. Reported(w)
    BY <1>1, <2>1 DEF QuietInv, Owned
  <2>3. Reported(w)'
    BY <1>1, <1>2, <1>3, <1>4, <2>2 DEF Reported, Undisturbed, bullVars
  <2>4. Calm /\ Writing(w)' => Unfinished(task[w])'
    BY <1>1, <1>2, <1>3, <1>4 DEF Writing, QuietInv, FinalOnce, Unfinished, Undisturbed
  <2> QED
    BY <2>1, <2>3, <2>4
<1> QED
  BY <1>1, <1>2, <1>4, QuietProcessStep

(* A step of the API or of BullMQ's timers: no job that a worker is on, or  *)
(* that is settled, changes.                                                *)
LEMMA QuietQueueStep ==
    ASSUME IInv, QuietInv, UNCHANGED <<workerVars, made, owner, stalls>>,
           Undisturbed' => Undisturbed, Calm' => Calm,
           \A j \in Job : \/ meta'[j] = meta[j]
                          \/ bull[j] = "absent" /\ bull'[j] = "absent" /\ Unfinished(j)',
           \A j \in Job : \/ bull'[j] = bull[j]
                          \/ bull'[j] = "waiting" /\ bull[j] \in {"absent", "delayed"}
    PROVE  QuietInv'
<1> USE DEF workerVars
<1>1. Owned'
  <2>1. ASSUME Undisturbed', NEW v \in Worker, Working(v) PROVE Reported(v)'
    <3>1. Reported(v) /\ meta'[task[v]] = meta[task[v]]
      BY <2>1, Alone DEF QuietInv, Owned
    <3> QED
      BY <3>1 DEF Reported
  <2> QED
    BY <2>1 DEF QuietInv, Owned, Working
<1>2. Agreement'
  BY DEF QuietInv, Agreement, Agree
<1>3. FinalOnce'
  <2>1. ASSUME Calm', NEW v \in Worker, Writing(v) PROVE Unfinished(task[v])'
    <3>1. Working(v) /\ Undisturbed
      BY <2>1 DEF Writing, Working, Calm
    <3>2. meta'[task[v]] = meta[task[v]]
      BY <3>1, Alone
    <3> QED
      BY <2>1, <3>2 DEF QuietInv, FinalOnce, Unfinished
  <2>2. ASSUME Calm', NEW j \in Job, bull'[j] \in {"absent", "waiting", "delayed"} PROVE Unfinished(j)'
    BY <2>2 DEF QuietInv, FinalOnce, Unfinished
  <2> QED
    BY <2>1, <2>2 DEF QuietInv, FinalOnce, Writing
<1> QED
  BY <1>1, <1>2, <1>3 DEF QuietInv

LEMMA QuietQueue ==
    ASSUME IInv, QuietInv, NEW j \in Job,
           \/ Enqueue(j) \/ QueueAdd(j) \/ QueueAddRejected(j) \/ BackoffElapses(j)
           \/ ApiCrash \/ UNCHANGED vars
    PROVE  QuietInv'
<1> USE DEF bullVars
<1>1. /\ UNCHANGED <<workerVars, made, owner, stalls>>
      /\ used'.lockFailures = used.lockFailures /\ used'.lostRenewals = used.lostRenewals
      /\ used'.workerCrashes = used.workerCrashes
  BY DEF Enqueue, QueueAdd, QueueAddRejected, BackoffElapses, ApiCrash, vars, workerVars, IInv, TypeOK, Bounds
<1>2. (Undisturbed' => Undisturbed) /\ (Calm' => Calm)
  BY <1>1 DEF Undisturbed, Calm
<1>3. CASE Enqueue(j)
  <2>1. bull[j] = "absent" /\ bull' = bull
    BY <1>3, QuietType DEF Enqueue
  <2>2. meta'[j] = NewRecord /\ \A i \in Job : i # j => meta'[i] = meta[i]
    BY <1>3, QuietType DEF Enqueue
  <2>3. Unfinished(j)'
    BY <2>2 DEF Unfinished, NewRecord, Terminal
  <2> QED
    BY <1>1, <1>2, <2>1, <2>2, <2>3, QuietQueueStep
<1>4. CASE QueueAdd(j) \/ BackoffElapses(j)
  <2>1. bull[j] \in {"absent", "delayed"} /\ meta' = meta
    BY <1>4 DEF QueueAdd, BackoffElapses, IInv, QueueInv
  <2>2. bull'[j] = "waiting" /\ \A i \in Job : i # j => bull'[i] = bull[i]
    BY <1>4, QuietType DEF QueueAdd, BackoffElapses
  <2> QED
    BY <1>1, <1>2, <2>1, <2>2, QuietQueueStep
<1>5. CASE QueueAddRejected(j) \/ ApiCrash \/ UNCHANGED vars
  <2>1. meta' = meta /\ bull' = bull
    BY <1>5 DEF QueueAddRejected, ApiCrash, vars
  <2> QED
    BY <1>1, <1>2, <2>1, QuietQueueStep
<1> QED
  BY <1>3, <1>4, <1>5

LEMMA QuietStall ==
    ASSUME IInv, QuietInv, NEW j \in Job, StallsAfterCrash(j) \/ StallsWhileRunning(j)
    PROVE  QuietInv'
<1>1. /\ Stall(j) /\ UNCHANGED <<meta, made, workerVars>>
      /\ owner[j] \in Worker /\ owner[j] # NoWorker
  BY QuietType DEF StallsAfterCrash, StallsWhileRunning, Stall
<1>2. StallsWhileRunning(j) => ~ Undisturbed'
  BY BoundAssumption DEF StallsWhileRunning, Undisturbed, IInv, TypeOK, Bounds
<1>3. StallsAfterCrash(j) => task[owner[j]] # j /\ used' = used
  BY DEF StallsAfterCrash
<1>4. ASSUME Undisturbed' PROVE Undisturbed /\ ~ Calm /\ ~ Calm' /\ \A v \in Worker : Working(v) => task[v] # j
  <2>1. Undisturbed /\ task[owner[j]] # j /\ used' = used
    BY <1>2, <1>3, <1>4 DEF Undisturbed
  <2>2. ~ Calm
    BY <1>1, <2>1 DEF QuietInv, FinalOnce
  <2> QED
    BY <2>1, <2>2 DEF QuietInv, Owned, Calm, Undisturbed
<1>5. /\ bull'[j] = IF stalls[j] + 1 > MaxStalled THEN "failed" ELSE "waiting"
      /\ stalls'[j] = stalls[j] + 1
      /\ owner' = [owner EXCEPT ![j] = NoWorker]
      /\ \A i \in Job : i # j => bull'[i] = bull[i] /\ stalls'[i] = stalls[i]
  BY <1>1, QuietType DEF Stall, IInv, TypeOK
<1>6. Owned'
  <2>1. ASSUME Undisturbed', NEW v \in Worker, Working(v)
        PROVE  owner'[task[v]] = v /\ record[v].retryCount = made[task[v]] /\ Reported(v)
    <3>1. task[v] \in Job /\ task[v] # j
      BY <1>4, <2>1, Alone
    <3> QED
      BY <1>4, <1>5, <2>1, <3>1, QuietType DEF QuietInv, Owned
  <2> QED
    BY <1>1, <2>1 DEF QuietInv, Owned, Working, Reported, workerVars
<1>7. Agreement'
  <2>1. ASSUME Undisturbed', NEW i \in Job, stalls'[i] <= MaxStalled PROVE Agree(i)'
    <3>1. CASE i = j
      <4>1. bull'[j] = "waiting"
        BY <1>5, <2>1, <3>1, QuietType, PolicyAssumption DEF IInv, TypeOK
      <4> QED
        BY <3>1, <4>1 DEF Agree
    <3>2. CASE i # j
      BY <1>1, <1>4, <1>5, <2>1, <3>2 DEF QuietInv, Agreement, Agree
    <3> QED
      BY <3>1, <3>2
  <2> QED
    BY <2>1 DEF Agreement
<1>8. FinalOnce'
  BY <1>4 DEF FinalOnce, Calm
<1> QED
  BY <1>6, <1>7, <1>8 DEF QuietInv

LEMMA QuietHandOver ==
    ASSUME IInv, QuietInv, NEW w \in Worker, NEW j \in Job,
           Start(w, j) \/ StartWithTornRead(w, j)
    PROVE  QuietInv'
<1>1. PICK current \in JobRecord : HandOver(w, j, current)
  BY NewRecordType, QuietType DEF Start, StartWithTornRead
<1>2. (Undisturbed' => Undisturbed) /\ (Calm' => Calm)
  BY DEF Start, StartWithTornRead, Undisturbed, Calm, IInv, TypeOK, Bounds
<1> DEFINE run == [current EXCEPT !.status = "running", !.retryCount = made[j]]
<1>3. /\ pc[w] = "idle" /\ bull[j] = "waiting" /\ UNCHANGED <<meta, made, stalls>>
      /\ bull' = [bull EXCEPT ![j] = "active"] /\ owner' = [owner EXCEPT ![j] = w]
      /\ pc' = [pc EXCEPT ![w] = "begin"] /\ task' = [task EXCEPT ![w] = j]
      /\ record' = [record EXCEPT ![w] = run]
  BY <1>1 DEF HandOver, Goto, RetriesSoFar
<1>4. run.retryCount = made[j]
  BY DEF JobRecord
<1> HIDE DEF run
<1>5. /\ Working(w)' /\ task'[w] = j /\ owner'[j] = w /\ record'[w].retryCount = made[j]
      /\ Reported(w)' /\ Writing(w)' /\ bull'[j] = "active"
  BY <1>3, <1>4, QuietType DEF Working, Reported, Writing
<1>6. owner[j] = NoWorker
  BY <1>3, QuietType
<1>7. ASSUME NEW v \in Worker, v # w
      PROVE  /\ pc'[v] = pc[v] /\ task'[v] = task[v] /\ record'[v] = record[v]
             /\ Undisturbed /\ Working(v) => task[v] # j /\ owner'[task[v]] = owner[task[v]]
  <2>1. pc'[v] = pc[v] /\ task'[v] = task[v] /\ record'[v] = record[v]
    BY <1>3, <1>7, QuietType
  <2>2. ASSUME Undisturbed, Working(v) PROVE task[v] # j /\ owner'[task[v]] = owner[task[v]]
    <3>1. task[v] \in Job /\ owner[task[v]] = v /\ v # NoWorker
      BY <2>2, Alone, NullAssumption
    <3> QED
      BY <1>3, <1>6, <3>1, QuietType
  <2> QED
    BY <2>1, <2>2
<1>8. Owned'
  <2>1. ASSUME NEW v \in Worker, v # w
        PROVE  /\ ~ Working(v)' => task'[v] = NoJob
               /\ Undisturbed' /\ Working(v)' => /\ owner'[task'[v]] = v
                                                 /\ record'[v].retryCount = made[task'[v]]
                                                 /\ Reported(v)'
    BY <1>2, <1>3, <1>7, <2>1 DEF QuietInv, Owned, Working, Reported
  <2>2. /\ ~ Working(w)' => task'[w] = NoJob
        /\ Undisturbed' /\ Working(w)' => /\ owner'[task'[w]] = w
                                          /\ record'[w].retryCount = made[task'[w]]
                                          /\ Reported(w)'
    BY <1>5
  <2>3. made' = made
    BY <1>3
  <2> QED
    BY <2>1, <2>2, <2>3 DEF Owned
<1>9. Agreement'
  BY <1>2, <1>3, <1>5, QuietType DEF QuietInv, Agreement, Agree
<1>10. FinalOnce'
  <2>1. ASSUME Calm' PROVE Calm /\ Undisturbed /\ Unfinished(j)'
    BY <1>2, <1>3, <2>1 DEF Calm, QuietInv, FinalOnce, Unfinished
  <2>2. ASSUME Calm', NEW v \in Worker, Writing(v)' PROVE Unfinished(task[v])'
    <3>1. CASE v = w
      BY <1>5, <2>1, <2>2, <3>1 DEF Unfinished
    <3>2. CASE v # w
      BY <1>3, <1>7, <2>1, <2>2, <3>2 DEF QuietInv, FinalOnce, Unfinished, Writing
    <3> QED
      BY <3>1, <3>2
  <2>3. ASSUME Calm', NEW i \in Job, owner'[i] # NoWorker PROVE task'[owner'[i]] = i
    <3>1. CASE i = j
      BY <1>5, <3>1
    <3>2. CASE i # j
      <4>1. owner'[i] = owner[i] /\ owner[i] \in Worker /\ task[owner[i]] = i
        BY <1>3, <2>1, <2>3, <3>2, QuietType DEF QuietInv, FinalOnce
      <4>2. owner[i] # w
        BY <1>3, <4>1, NullAssumption DEF QuietInv, Owned, Working
      <4> QED
        BY <1>7, <4>1, <4>2
    <3> QED
      BY <3>1, <3>2
  <2>4. ASSUME Calm', NEW i \in Job, bull'[i] \in {"absent", "waiting", "delayed"} PROVE Unfinished(i)'
    <3>1. i # j /\ bull'[i] = bull[i]
      BY <1>3, <1>5, <2>4, QuietType
    <3> QED
      BY <1>3, <2>1, <2>4, <3>1 DEF QuietInv, FinalOnce, Unfinished
  <2> QED
    BY <2>2, <2>3, <2>4 DEF FinalOnce
<1> QED
  BY <1>8, <1>9, <1>10 DEF QuietInv

(* A worker that has nothing to do any more: the others are as they were. *)
LEMMA Forgotten ==
    ASSUME IInv, QuietInv, NEW w \in Worker, NEW l \in {"idle", "down"}, Goto(w, l),
           task' = [task EXCEPT ![w] = NoJob], record' = [record EXCEPT ![w] = NoRecord]
    PROVE  /\ ~ Working(w)' /\ ~ Writing(w)' /\ task'[w] = NoJob
           /\ \A v \in Worker : v # w =>
                 /\ pc'[v] = pc[v] /\ task'[v] = task[v] /\ record'[v] = record[v]
                 /\ (Working(v)' <=> Working(v)) /\ (Writing(v)' <=> Writing(v))
BY QuietType DEF Goto, Working, Writing

LEMMA QuietSettle ==
    ASSUME IInv, QuietInv, NEW w \in Worker, Complete(w) \/ Retry(w) \/ Exhaust(w)
    PROVE  QuietInv'
<1>1. PICK state \in {"completed", "delayed", "failed"} :
         /\ Settle(w, task[w], state)
         /\ state = "completed" => pc[w] = "ack"
         /\ state = "delayed" => pc[w] = "nack" /\ made[task[w]] + 1 < MaxRetries + 1
         /\ state = "failed" => pc[w] = "nack" /\ made[task[w]] + 1 >= MaxRetries + 1
  BY DEF Complete, Retry, Exhaust, BullAttempts
<1>2. /\ Working(w) /\ Goto(w, "idle") /\ UNCHANGED <<meta, stalls, used>>
      /\ task' = [task EXCEPT ![w] = NoJob] /\ record' = [record EXCEPT ![w] = NoRecord]
  BY <1>1 DEF Settle, Done, Working
<1>3. PICK j \in Job : j = task[w]
  BY <1>2 DEF IInv, WorkerInv
<1>4. /\ owner[j] = w
      /\ bull' = [bull EXCEPT ![j] = state] /\ made' = [made EXCEPT ![j] = @ + 1]
      /\ owner' = [owner EXCEPT ![j] = NoWorker]
  BY <1>1, <1>3 DEF Settle
<1>5. /\ bull'[j] = state /\ made'[j] = made[j] + 1 /\ owner'[j] = NoWorker /\ made[j] \in Nat
      /\ \A i \in Job : i # j => bull'[i] = bull[i] /\ made'[i] = made[i] /\ owner'[i] = owner[i]
  BY <1>4, QuietType
<1>6. (Undisturbed' <=> Undisturbed) /\ (Calm' <=> Calm)
  BY <1>2 DEF Undisturbed, Calm
<1>7. ASSUME Undisturbed, NEW v \in Worker, v # w, Working(v) PROVE task[v] \in Job /\ task[v] # j
  BY <1>2, <1>3, <1>7, Alone
<1>8. Owned'
  <2>1. ASSUME NEW v \in Worker, v # w
        PROVE  /\ ~ Working(v)' => task'[v] = NoJob
               /\ Undisturbed' /\ Working(v)' => /\ owner'[task'[v]] = v
                                                 /\ record'[v].retryCount = made'[task'[v]]
                                                 /\ Reported(v)'
    <3>1. ~ Working(v)' => task'[v] = NoJob
      BY <1>2, <2>1, Forgotten DEF QuietInv, Owned
    <3>2. ASSUME Undisturbed', Working(v)'
          PROVE  /\ owner'[task'[v]] = v /\ record'[v].retryCount = made'[task'[v]] /\ Reported(v)'
      <4>1. /\ Undisturbed /\ Working(v) /\ pc'[v] = pc[v] /\ task'[v] = task[v] /\ record'[v] = record[v]
        BY <1>2, <1>6, <2>1, <3>2, Forgotten
      <4>2. task[v] \in Job /\ task[v] # j
        BY <1>7, <2>1, <4>1
      <4>3. owner[task[v]] = v /\ record[v].retryCount = made[task[v]] /\ Reported(v)
        BY <4>1 DEF QuietInv, Owned
      <4>4. owner'[task[v]] = owner[task[v]] /\ made'[task[v]] = made[task[v]] /\ meta' = meta
        BY <1>2, <1>5, <4>2
      <4>5. Reported(v)'
        BY <4>1, <4>3, <4>4 DEF Reported
      <4> QED
        BY <4>1, <4>3, <4>4, <4>5
    <3> QED
      BY <3>1, <3>2
  <2>2. ~ Working(w)' /\ task'[w] = NoJob
    BY <1>2, Forgotten
  <2> QED
    BY <2>1, <2>2 DEF Owned
<1>9. Agreement'
  <2>1. ASSUME Undisturbed PROVE Agree(j)'
    <3>1. Reported(w)
      BY <1>2, <2>1 DEF QuietInv, Owned
    <3> QED
      BY <1>1, <1>2, <1>3, <1>5, <3>1, PolicyAssumption DEF Reported, Agree
  <2>2. ASSUME Undisturbed', NEW i \in Job, i # j, stalls'[i] <= MaxStalled PROVE Agree(i)'
    BY <1>2, <1>5, <1>6, <2>2 DEF QuietInv, Agreement, Agree
  <2> QED
    BY <1>6, <2>1, <2>2 DEF Agreement
<1>10. FinalOnce'
  <2>1. ASSUME Calm' PROVE Calm /\ Undisturbed
    BY <1>6, <2>1 DEF Calm
  <2>2. ASSUME Calm', NEW v \in Worker, Writing(v)' PROVE Unfinished(task[v])'
    <3>1. v # w /\ Writing(v) /\ task'[v] = task[v]
      BY <1>2, <2>2, Forgotten
    <3> QED
      BY <1>2, <2>1, <2>2, <3>1 DEF QuietInv, FinalOnce, Unfinished
  <2>3. ASSUME Calm', NEW i \in Job, owner'[i] # NoWorker PROVE task'[owner'[i]] = i
    <3>1. i # j /\ owner'[i] = owner[i] /\ owner[i] \in Worker
      BY <1>5, <2>3, QuietType
    <3>2. task[owner[i]] = i
      BY <2>1, <2>3, <3>1 DEF QuietInv, FinalOnce
    <3> QED
      BY <1>2, <1>3, <3>1, <3>2, Forgotten
  <2>4. ASSUME Calm', NEW i \in Job, bull'[i] \in {"absent", "waiting", "delayed"} PROVE Unfinished(i)'
    <3>1. CASE i # j
      BY <1>2, <1>5, <2>1, <2>4, <3>1 DEF QuietInv, FinalOnce, Unfinished
    <3>2. CASE i = j
      <4>1. bull'[j] = "delayed" /\ stalls'[j] <= MaxStalled
        <5>1. bull[j] = "active"
          BY <1>2, <1>3, <2>1, <2>4, Alone
        <5> QED
          BY <1>2, <1>5, <2>4, <3>2, <5>1 DEF IInv, QueueInv, Live
      <4>2. Agree(j)'
        BY <1>6, <1>9, <2>1, <2>4, <4>1 DEF Agreement
      <4> QED
        BY <3>2, <4>1, <4>2 DEF Agree, Unfinished, Terminal
    <3> QED
      BY <3>1, <3>2
  <2> QED
    BY <2>2, <2>3, <2>4 DEF FinalOnce
<1> QED
  BY <1>8, <1>9, <1>10 DEF QuietInv

(* A worker that has lost its job has done so by a lapse. *)
LEMMA QuietDisowned ==
    ASSUME IInv, QuietInv, NEW w \in Worker, Disowned(w)
    PROVE  QuietInv'
<1>1. /\ Working(w) /\ Goto(w, "idle") /\ used' = used
      /\ task' = [task EXCEPT ![w] = NoJob] /\ record' = [record EXCEPT ![w] = NoRecord]
  BY DEF Disowned, Done, Working
<1>2. ~ Undisturbed' /\ ~ Calm'
  BY <1>1 DEF Disowned, QuietInv, Owned, Undisturbed, Calm
<1>3. Owned'
  BY <1>1, <1>2, Forgotten DEF QuietInv, Owned
<1> QED
  BY <1>2, <1>3 DEF QuietInv, Agreement, FinalOnce

LEMMA QuietCrash ==
    ASSUME IInv, QuietInv, NEW w \in Worker, WorkerCrash(w)
    PROVE  QuietInv'
<1>1. /\ Goto(w, "down") /\ UNCHANGED <<meta, bullVars>>
      /\ task' = [task EXCEPT ![w] = NoJob] /\ record' = [record EXCEPT ![w] = NoRecord]
  BY DEF WorkerCrash
<1>2. ~ Calm' /\ (Undisturbed' <=> Undisturbed)
  BY BoundAssumption DEF WorkerCrash, Calm, Undisturbed, IInv, TypeOK, Bounds
<1>3. Owned'
  <2>1. \A v \in Worker : v # w /\ Reported(v) => Reported(v)'
    BY <1>1, Forgotten DEF Reported, bullVars
  <2>2. ASSUME NEW v \in Worker
        PROVE  /\ ~ Working(v)' => task'[v] = NoJob
               /\ Undisturbed' /\ Working(v)' =>
                     owner[task'[v]] = v /\ record'[v].retryCount = made[task'[v]] /\ Reported(v)'
    <3>1. CASE v = w
      BY <1>1, <3>1, Forgotten, QuietType DEF Goto, Working
    <3>2. CASE v # w
      <4>1. /\ Working(v)' <=> Working(v)
            /\ task'[v] = task[v] /\ record'[v] = record[v]
        BY <1>1, <3>2, QuietType DEF Goto, Working
      <4> QED
        BY <1>2, <2>1, <3>2, <4>1 DEF QuietInv, Owned
    <3> QED
      BY <3>1, <3>2
  <2> QED
    BY <1>1, <2>2 DEF Owned, bullVars
<1>4. Agreement'
  BY <1>1, <1>2 DEF QuietInv, Agreement, Agree, bullVars
<1> QED
  BY <1>2, <1>3, <1>4 DEF QuietInv, FinalOnce

LEMMA QuietRestart ==
    ASSUME IInv, QuietInv, NEW w \in Worker, WorkerRestart(w)
    PROVE  QuietInv'
<1>1. /\ pc[w] = "down" /\ pc' = [pc EXCEPT ![w] = "idle"]
      /\ UNCHANGED <<meta, bullVars, task, record, used>>
  BY DEF WorkerRestart, Goto
<1>2. \A v \in Worker : /\ (Working(v)' <=> Working(v)) /\ (Writing(v)' <=> Writing(v))
                        /\ (Reported(v)' <=> Reported(v))
  BY <1>1, QuietType DEF Working, Writing, Reported, bullVars
<1>3. (Undisturbed' <=> Undisturbed) /\ (Calm' <=> Calm)
  BY <1>1 DEF Undisturbed, Calm
<1>4. Owned'
  BY <1>1, <1>2, <1>3 DEF QuietInv, Owned, bullVars
<1>5. Agreement'
  BY <1>1, <1>3 DEF QuietInv, Agreement, Agree, bullVars
<1>6. FinalOnce'
  BY <1>1, <1>2, <1>3 DEF QuietInv, FinalOnce, Unfinished, bullVars
<1> QED
  BY <1>4, <1>5, <1>6 DEF QuietInv

LEMMA QuietInit == Init => QuietInv
<1> SUFFICES ASSUME Init PROVE QuietInv
  OBVIOUS
<1>1. Owned
  BY DEF Init, Owned, Working
<1>2. Agreement
  BY DEF Init, Agreement, Agree
<1>3. FinalOnce
  BY DEF Init, FinalOnce, Writing, Unfinished
<1> QED
  BY <1>1, <1>2, <1>3 DEF QuietInv

LEMMA QuietStep == IInv /\ QuietInv /\ [Next]_vars => QuietInv'
<1> SUFFICES ASSUME IInv, QuietInv, [Next]_vars PROVE QuietInv'
  OBVIOUS
<1>1. CASE ApiCrash \/ UNCHANGED vars
  <2>1. CASE Job = {}
    <3>1. ~ ApiCrash
      BY <2>1 DEF ApiCrash, IInv, TypeOK
    <3> QED
      BY <1>1, <3>1 DEF vars, QuietInv, Owned, Agreement, FinalOnce, Agree, Reported, Working, Writing,
                        Unfinished, Undisturbed, Calm
  <2>2. CASE Job # {}
    BY <1>1, <2>2, QuietQueue
  <2> QED
    BY <2>1, <2>2
<1>2. ASSUME NEW j \in Job, Enqueue(j) \/ QueueAdd(j) \/ QueueAddRejected(j) \/ BackoffElapses(j)
      PROVE  QuietInv'
  BY <1>2, QuietQueue
<1>3. ASSUME NEW j \in Job, StallsAfterCrash(j) \/ StallsWhileRunning(j) PROVE QuietInv'
  BY <1>3, QuietStall
<1>4. ASSUME NEW w \in Worker, NEW j \in Job, Start(w, j) \/ StartWithTornRead(w, j) PROVE QuietInv'
  BY <1>4, QuietHandOver
<1>5. ASSUME NEW w \in Worker, Process(w) PROVE QuietInv'
  BY <1>5, QuietSaves, QuietMoves, QuietDisowned, QuietSettle DEF Process
<1>6. ASSUME NEW w \in Worker, MetadataThrows(w) \/ WorkerCrash(w) \/ WorkerRestart(w) PROVE QuietInv'
  BY <1>6, QuietMoves, QuietCrash, QuietRestart
<1> QED
  BY <1>1, <1>2, <1>3, <1>4, <1>5, <1>6 DEF Next

LEMMA QuietInvariant == Spec => []QuietInv
BY Invariant, QuietInit, QuietStep, PTL DEF Spec

-----------------------------------------------------------------------------
(* A job's place in the queue.                                              *)

LEMMA PaidType ==
    ASSUME IInv, QuietInv
    PROVE  /\ used \in Bounds /\ Lapses \in Nat /\ stalls \in [Job -> Nat]
           /\ used.workerCrashes \in Nat /\ used.lostRenewals \in Nat
           /\ used.apiCrashes \in Nat /\ used.addFailures \in Nat
           /\ adding \subseteq Job
           /\ \A w \in Worker : ~ Working(w) => task[w] = NoJob
BY PolicyAssumption, BoundAssumption DEF IInv, TypeOK, QuietInv, Owned, Bounds, Lapses

(* A step that moves no job between workers. *)
LEMMA PaidKept ==
    ASSUME IInv, QuietInv, PaidInv, UNCHANGED <<owner, stalls>>,
           Lapses' \in Nat, Lapses <= Lapses',
           \A j \in Job : task'[owner[j]] # j /\ owner[j] # NoWorker =>
                             task[owner[j]] # j \/ Lapses + 1 <= Lapses',
           \A j \in Job : bull'[j] = "active" => bull[j] = "active",
           \A j \in Job : meta'[j] # NoRecord /\ bull'[j] = "absent" /\ j \notin adding' =>
                             \/ meta[j] # NoRecord /\ bull[j] = "absent" /\ j \notin adding
                             \/ used'.apiCrashes > 0 \/ used'.addFailures > 0,
           used.apiCrashes > 0 \/ used.addFailures > 0 => used'.apiCrashes > 0 \/ used'.addFailures > 0
    PROVE  PaidInv'
<1> SUFFICES ASSUME NEW j \in Job
             PROVE  /\ stalls[j] <= Lapses'
                    /\ Orphaned(j)' => stalls[j] + 1 <= Lapses'
                    /\ bull'[j] = "active" => owner[j] # NoWorker
                    /\ meta'[j] # NoRecord /\ bull'[j] = "absent" /\ j \notin adding' =>
                          used'.apiCrashes > 0 \/ used'.addFailures > 0
  BY DEF PaidInv
<1>1. stalls[j] \in Nat /\ Lapses \in Nat /\ stalls[j] <= Lapses
  BY PaidType DEF PaidInv
<1>2. ASSUME Orphaned(j)' PROVE stalls[j] + 1 <= Lapses'
  <2>1. CASE task[owner[j]] # j
    BY <1>1, <1>2, <2>1 DEF Orphaned, PaidInv
  <2>2. CASE Lapses + 1 <= Lapses'
    BY <1>1, <2>2
  <2> QED
    BY <1>2, <2>1, <2>2 DEF Orphaned
<1> QED
  BY <1>1, <1>2 DEF PaidInv

LEMMA PaidQueue ==
    ASSUME IInv, QuietInv, PaidInv, NEW j \in Job,
           Enqueue(j) \/ QueueAdd(j) \/ QueueAddRejected(j) \/ BackoffElapses(j) \/ ApiCrash
    PROVE  PaidInv'
<1>1. /\ UNCHANGED <<owner, stalls, task>>
      /\ Lapses' = Lapses /\ Lapses \in Nat
      /\ used'.apiCrashes \in Nat /\ used'.addFailures \in Nat
      /\ used.apiCrashes <= used'.apiCrashes /\ used.addFailures <= used'.addFailures
  BY PaidType DEF Enqueue, QueueAdd, QueueAddRejected, BackoffElapses, ApiCrash, bullVars, workerVars,
                  Lapses, Bounds
<1>2. used.apiCrashes > 0 \/ used.addFailures > 0 => used'.apiCrashes > 0 \/ used'.addFailures > 0
  BY <1>1, PaidType
<1>3. CASE Enqueue(j)
  BY <1>1, <1>2, <1>3, QuietType, PaidKept DEF Enqueue, bullVars
<1>4. CASE QueueAdd(j) \/ BackoffElapses(j)
  <2>1. bull'[j] = "waiting" /\ \A i \in Job : i # j => bull'[i] = bull[i] /\ (i \in adding' <=> i \in adding)
    BY <1>4, QuietType DEF QueueAdd, BackoffElapses
  <2>2. meta' = meta
    BY <1>4 DEF QueueAdd, BackoffElapses
  <2> QED
    BY <1>1, <1>2, <2>1, <2>2, PaidKept
<1>5. CASE QueueAddRejected(j) \/ ApiCrash
  <2>1. used'.apiCrashes > 0 \/ used'.addFailures > 0
    BY <1>5, PaidType DEF QueueAddRejected, ApiCrash, Bounds
  <2>2. meta' = meta /\ bull' = bull
    BY <1>5 DEF QueueAddRejected, ApiCrash, bullVars
  <2> QED
    BY <1>1, <1>2, <2>1, <2>2, PaidKept
<1> QED
  BY <1>3, <1>4, <1>5

LEMMA PaidWork ==
    ASSUME IInv, QuietInv, PaidInv, NEW w \in Worker,
           \/ SaveRunning(w) \/ SaveSuccess(w) \/ SaveFailure(w) \/ AppendLogs(w) \/ HandlerEnds(w)
           \/ MetadataThrows(w) \/ WorkerRestart(w)
    PROVE  PaidInv'
<1>1. /\ UNCHANGED <<bullVars, adding, task>> /\ Lapses' = Lapses
      /\ used'.apiCrashes = used.apiCrashes /\ used'.addFailures = used.addFailures
  BY PaidType DEF SaveRunning, SaveSuccess, SaveFailure, AppendLogs, HandlerEnds, MetadataThrows,
                  WorkerRestart, Lapses, Bounds
<1>2. \A j \in Job : meta[j] = NoRecord => meta'[j] = NoRecord
  <2>1. CASE SaveRunning(w) \/ SaveSuccess(w) \/ SaveFailure(w)
    <3>1. meta' = meta \/ \E r : meta[task[w]] # NoRecord /\ meta' = [meta EXCEPT ![task[w]] = r]
      BY <2>1 DEF SaveRunning, SaveSuccess, SaveFailure, Save
    <3> QED
      BY <3>1, QuietType
  <2>2. CASE AppendLogs(w) \/ HandlerEnds(w) \/ MetadataThrows(w) \/ WorkerRestart(w)
    BY <2>2 DEF AppendLogs, HandlerEnds, MetadataThrows, WorkerRestart
  <2> QED
    BY <2>1, <2>2
<1> QED
  BY <1>1, <1>2, PaidType, PaidKept DEF bullVars

LEMMA PaidCrash ==
    ASSUME IInv, QuietInv, PaidInv, NEW w \in Worker, WorkerCrash(w)
    PROVE  PaidInv'
<1>1. /\ UNCHANGED <<bullVars, adding, meta>> /\ Lapses' = Lapses + 1 /\ Lapses' \in Nat
      /\ used'.apiCrashes = used.apiCrashes /\ used'.addFailures = used.addFailures
  BY PaidType DEF WorkerCrash, Lapses, Bounds
<1> QED
  BY <1>1, PaidType, PaidKept DEF bullVars

LEMMA PaidDone ==
    ASSUME IInv, QuietInv, PaidInv, NEW w \in Worker,
           Disowned(w) \/ Complete(w) \/ Retry(w) \/ Exhaust(w)
    PROVE  PaidInv'
<1>1. /\ UNCHANGED <<meta, adding, stalls, used>> /\ task' = [task EXCEPT ![w] = NoJob]
      /\ task[w] \in Job
  BY DEF Disowned, Complete, Retry, Exhaust, Settle, Done, IInv, WorkerInv, Working
<1>2. Lapses' = Lapses /\ w # NoWorker
  BY <1>1, NullAssumption DEF Lapses
<1>3. \/ owner' = owner /\ bull' = bull /\ owner[task[w]] # w
      \/ /\ owner' = [owner EXCEPT ![task[w]] = NoWorker] /\ owner[task[w]] = w
         /\ \E l \in {"completed", "delayed", "failed"} : bull' = [bull EXCEPT ![task[w]] = l]
  BY DEF Disowned, Complete, Retry, Exhaust, Settle
<1>4. ASSUME NEW j \in Job
      PROVE  /\ Orphaned(j)' => Orphaned(j)
             /\ bull'[j] = "active" => bull[j] = "active" /\ owner'[j] = owner[j]
             /\ bull'[j] = "absent" => bull[j] = "absent"
  <2>1. owner'[j] = owner[j] \/ (j = task[w] /\ owner'[j] = NoWorker)
    BY <1>1, <1>3, QuietType
  <2>2. owner'[j] = w => j # task[w]
    BY <1>1, <1>2, <1>3, QuietType
  <2>3. \/ bull'[j] = bull[j] /\ owner'[j] = owner[j]
        \/ j = task[w] /\ bull'[j] \in {"completed", "delayed", "failed"}
    <3>1. CASE owner' = owner /\ bull' = bull
      BY <3>1
    <3>2. ASSUME NEW l \in {"completed", "delayed", "failed"}, bull' = [bull EXCEPT ![task[w]] = l],
                 owner' = [owner EXCEPT ![task[w]] = NoWorker]
          PROVE  \/ bull'[j] = bull[j] /\ owner'[j] = owner[j]
                 \/ j = task[w] /\ bull'[j] \in {"completed", "delayed", "failed"}
      BY <1>1, <3>2, QuietType
    <3> QED
      BY <1>3, <3>1, <3>2
  <2> QED
    BY <1>1, <2>1, <2>2, <2>3, QuietType DEF Orphaned
<1> QED
  BY <1>1, <1>2, <1>4 DEF PaidInv

LEMMA PaidHandOver ==
    ASSUME IInv, QuietInv, PaidInv, NEW w \in Worker, NEW j \in Job,
           Start(w, j) \/ StartWithTornRead(w, j)
    PROVE  PaidInv'
<1>1. /\ pc[w] = "idle" /\ bull[j] = "waiting" /\ UNCHANGED <<meta, adding, stalls>>
      /\ bull' = [bull EXCEPT ![j] = "active"] /\ owner' = [owner EXCEPT ![j] = w]
      /\ task' = [task EXCEPT ![w] = j]
  BY DEF Start, StartWithTornRead, HandOver
<1>2. /\ Lapses' = Lapses /\ w # NoWorker /\ w \in Worker
      /\ used'.apiCrashes = used.apiCrashes /\ used'.addFailures = used.addFailures
  BY PaidType, NullAssumption DEF Start, StartWithTornRead, Lapses, Bounds
<1>3. task[w] = NoJob /\ NoJob \notin Job
  BY <1>1, PaidType, NullAssumption DEF Working
<1>4. ASSUME NEW i \in Job
      PROVE  /\ Orphaned(i)' => Orphaned(i)
             /\ bull'[i] = "active" => owner'[i] # NoWorker
             /\ bull'[i] = "absent" => bull[i] = "absent"
  <2>1. CASE i = j
    BY <1>1, <1>2, <2>1, QuietType DEF Orphaned
  <2>2. CASE i # j
    BY <1>1, <1>2, <1>3, <2>2, QuietType DEF Orphaned, PaidInv
  <2> QED
    BY <2>1, <2>2
<1> QED
  BY <1>1, <1>2, <1>4 DEF PaidInv

LEMMA PaidStall ==
    ASSUME IInv, QuietInv, PaidInv, NEW j \in Job, StallsAfterCrash(j) \/ StallsWhileRunning(j)
    PROVE  PaidInv'
<1>1. /\ UNCHANGED <<meta, adding, task>> /\ bull[j] = "active" /\ owner[j] # NoWorker
      /\ stalls' = [stalls EXCEPT ![j] = @ + 1] /\ owner' = [owner EXCEPT ![j] = NoWorker]
      /\ \E l \in {"failed", "waiting"} : bull' = [bull EXCEPT ![j] = l]
  BY DEF StallsAfterCrash, StallsWhileRunning, Stall, workerVars
<1>2. \/ Orphaned(j) /\ used' = used
      \/ Lapses' = Lapses + 1 /\ used'.apiCrashes = used.apiCrashes /\ used'.addFailures = used.addFailures
  BY PaidType DEF StallsAfterCrash, StallsWhileRunning, Orphaned, Lapses, Bounds
<1>3. /\ Lapses \in Nat /\ stalls[j] \in Nat /\ stalls[j] <= Lapses
      /\ Orphaned(j) => stalls[j] + 1 <= Lapses
  BY PaidType DEF PaidInv
<1>4. Lapses' \in Nat /\ Lapses <= Lapses' /\ stalls[j] + 1 <= Lapses'
  BY <1>2, <1>3 DEF Lapses
<1>5. used.apiCrashes > 0 \/ used.addFailures > 0 => used'.apiCrashes > 0 \/ used'.addFailures > 0
  BY <1>2
<1>6. stalls'[j] = stalls[j] + 1 /\ owner'[j] = NoWorker /\ bull'[j] \in {"failed", "waiting"}
  BY <1>1, QuietType, PaidType
<1>7. ASSUME NEW i \in Job, i # j
      PROVE  /\ stalls'[i] = stalls[i] /\ owner'[i] = owner[i] /\ bull'[i] = bull[i]
             /\ stalls[i] \in Nat /\ (Orphaned(i)' <=> Orphaned(i))
  BY <1>1, <1>7, QuietType, PaidType DEF Orphaned
<1>8. ASSUME NEW i \in Job, i # j
      PROVE  stalls'[i] <= Lapses' /\ (Orphaned(i)' => stalls'[i] + 1 <= Lapses')
  <2>1. stalls[i] <= Lapses /\ (Orphaned(i) => stalls[i] + 1 <= Lapses)
    BY DEF PaidInv
  <2> QED
    BY <1>3, <1>4, <1>7, <1>8, <2>1
<1>9. ASSUME NEW i \in Job
      PROVE  /\ stalls'[i] <= Lapses'
             /\ Orphaned(i)' => stalls'[i] + 1 <= Lapses'
             /\ bull'[i] = "active" => owner'[i] # NoWorker
             /\ bull'[i] = "absent" => bull[i] = "absent"
  <2>1. CASE i = j
    BY <1>4, <1>6, <2>1 DEF Orphaned
  <2>2. CASE i # j
    BY <1>7, <1>8, <2>2 DEF PaidInv
  <2> QED
    BY <2>1, <2>2
<1> QED
  BY <1>1, <1>5, <1>9 DEF PaidInv

LEMMA PaidInvariant == Spec => []PaidInv
<1>1. Init => PaidInv
  BY DEF Init, PaidInv, Orphaned, Lapses
<1>2. IInv /\ QuietInv /\ PaidInv /\ [Next]_vars => PaidInv'
  <2> SUFFICES ASSUME IInv, QuietInv, PaidInv, [Next]_vars PROVE PaidInv'
    OBVIOUS
  <2>1. CASE UNCHANGED vars
    BY <2>1 DEF vars, bullVars, workerVars, PaidInv, Orphaned, Lapses
  <2>2. ASSUME NEW j \in Job,
               \/ Enqueue(j) \/ QueueAdd(j) \/ QueueAddRejected(j) \/ BackoffElapses(j)
               \/ StallsAfterCrash(j) \/ StallsWhileRunning(j)
        PROVE  PaidInv'
    BY <2>2, PaidQueue, PaidStall
  <2>3. CASE ApiCrash
    BY <2>3, PaidType, PaidQueue DEF ApiCrash
  <2>4. ASSUME NEW w \in Worker, NEW j \in Job, Start(w, j) \/ StartWithTornRead(w, j) PROVE PaidInv'
    BY <2>4, PaidHandOver
  <2>5. ASSUME NEW w \in Worker, Process(w) \/ MetadataThrows(w) \/ WorkerRestart(w) PROVE PaidInv'
    BY <2>5, PaidWork, PaidDone DEF Process
  <2>6. ASSUME NEW w \in Worker, WorkerCrash(w) PROVE PaidInv'
    BY <2>6, PaidCrash
  <2> QED
    BY <2>1, <2>2, <2>3, <2>4, <2>5, <2>6 DEF Next
<1> QED
  BY <1>1, <1>2, Invariant, QuietInvariant, PTL DEF Spec

-----------------------------------------------------------------------------
(* The job queue keeps its variables in their types. *)
THEOREM TypeCorrect == Spec => []TypeOK
<1>1. IInv => TypeOK
  BY DEF IInv
<1> QED
  BY <1>1, Invariant, PTL

(* No fault makes a job start more often than its attempts and the stalls  *)
(* BullMQ tolerates.                                                       *)
THEOREM BoundedStarts == Spec => []StartsBounded
<1>1. IInv => StartsBounded
  <2> SUFFICES ASSUME IInv, NEW j \in Job PROVE starts[j] <= Attempts + MaxStalled
    BY DEF StartsBounded
  <2>1. /\ starts[j] \in Nat /\ made[j] \in Nat /\ stalls[j] \in Nat
        /\ MaxRetries \in Nat /\ MaxStalled \in Nat
    BY PolicyAssumption DEF IInv, TypeOK, Attempts
  <2> QED
    BY <2>1 DEF IInv, QueueInv, Live, Attempts
<1> QED
  BY <1>1, Invariant, PTL

(* A job is called failed only in or after its last attempt. *)
THEOREM FailureIsLast == Spec => []FailedOnLastAttempt
<1>1. IInv => FailedOnLastAttempt
  BY DEF IInv
<1> QED
  BY <1>1, Invariant, PTL

(* BullMQ never runs a job that has no metadata record. *)
THEOREM NoUnrecordedJob == Spec => []QueuedJobsAreRecorded
<1>1. IInv => QueuedJobsAreRecorded
  BY DEF IInv, QueueInv, QueuedJobsAreRecorded
<1> QED
  BY <1>1, Invariant, PTL

(* While nothing is disturbed, what the metadata says of a job that no      *)
(* worker is on is what BullMQ says of it: createBullMqJobWorker counts the *)
(* retries BullMQ counts and settles a job only after saving its record.    *)
THEOREM AgreementTheorem == Spec => []RecordAgreesWithQueue
<1>1. QuietInv => RecordAgreesWithQueue
  BY DEF QuietInv, Agreement, Agree, RecordAgreesWithQueue
<1> QED
  BY <1>1, QuietInvariant, PTL

(* No open record is stranded: until something costs a job its place, some  *)
(* step of BullMQ's or a worker's is due that takes the job further.  The   *)
(* stalls BullMQ tolerates cover the workers that may die.                  *)
THEOREM NothingStranded == Spec => []NoJobIsStranded
<1>1. ASSUME IInv, QuietInv, PaidInv, NEW j \in Job, meta[j] # NoRecord, ~ Spoiled,
             meta[j].status \notin Terminal
      PROVE  InHand(j)
  <2>1. /\ Undisturbed /\ used.lostRenewals = 0 /\ used.workerCrashes <= MaxStalled
        /\ used.apiCrashes = 0 /\ used.addFailures = 0
    BY <1>1, PaidType, PolicyAssumption DEF Spoiled, Undisturbed
  <2>2. stalls[j] <= MaxStalled
    BY <1>1, <2>1, PaidType, PolicyAssumption DEF PaidInv, Lapses
  <2>3. bull[j] \notin {"completed", "failed"}
    BY <1>1, <2>1, <2>2 DEF QuietInv, Agreement, Agree, Terminal
  <2>4. bull[j] = "absent" => j \in adding
    BY <1>1, <2>1 DEF PaidInv
  <2>5. bull[j] = "active" => owner[j] # NoWorker
    BY <1>1 DEF PaidInv
  <2> QED
    BY <1>1, <2>3, <2>4, <2>5, QuietType DEF InHand, BullState
<1>2. IInv /\ QuietInv /\ PaidInv => NoJobIsStranded
  BY <1>1 DEF NoJobIsStranded
<1> QED
  BY <1>2, Invariant, QuietInvariant, PaidInvariant, PTL

(* A record that is final is never written again while no worker dies and   *)
(* nothing is disturbed.                                                    *)
THEOREM FinalTheorem == Spec => TerminalIsFinal
<1> DEFINE Final == Undisturbed' /\ used'.workerCrashes = 0 =>
                      \A j \in Job : meta[j] # NoRecord /\ meta[j].status \in Terminal => meta'[j] = meta[j]
<1>1. ASSUME IInv, QuietInv, Next, Undisturbed', used'.workerCrashes = 0,
             NEW j \in Job, meta[j] # NoRecord, meta[j].status \in Terminal, meta'[j] # meta[j]
      PROVE  FALSE
  <2>1. PICK w \in Worker : SaveRunning(w) \/ SaveSuccess(w) \/ SaveFailure(w)
    <3>1. \A i \in Job : ~ Enqueue(i)
      BY <1>1, QuietType DEF Enqueue
    <3> QED
      BY <1>1, <3>1 DEF Next, Process, QueueAdd, QueueAddRejected, BackoffElapses, StallsAfterCrash,
                        StallsWhileRunning, Stall, ApiCrash, Start, StartWithTornRead, HandOver,
                        AppendLogs, HandlerEnds, MetadataThrows, Disowned, Complete, Retry, Exhaust,
                        Settle, Done, WorkerCrash, WorkerRestart
  <2>2. Writing(w) /\ Working(w) /\ Calm
    BY <1>1, <2>1 DEF SaveRunning, SaveSuccess, SaveFailure, Writing, Working, Calm, Undisturbed
  <2>3. meta' = meta \/ \E r \in {record[w], Succeeded(record[w]), Failed(record[w])} :
                            meta' = [meta EXCEPT ![task[w]] = r]
    BY <2>1 DEF SaveRunning, SaveSuccess, SaveFailure, Save
  <2>4. j = task[w]
    BY <1>1, <2>3, QuietType
  <2> QED
    BY <1>1, <2>2, <2>4 DEF QuietInv, FinalOnce, Unfinished
<1>2. IInv /\ QuietInv /\ [Next]_vars => [Final]_vars
  BY <1>1
<1>3. TerminalIsFinal <=> [][Final]_vars
  BY DEF TerminalIsFinal
<1> HIDE DEF Final
<1> QED
  BY <1>2, <1>3, Invariant, QuietInvariant, PTL DEF Spec
=============================================================================
