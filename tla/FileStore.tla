----------------------------- MODULE FileStore -----------------------------
(* The lock file + whole-file rewrite protocol that the job queue, the      *)
(* scheduler and the backup store use to change a JSON state file from      *)
(* several operating-system processes (packages/job-queue/src/index.ts,     *)
(* #withLockedState and its four helpers; the scheduler and the backup      *)
(* package hold the same text).                                             *)
(*                                                                          *)
(* A process is single threaded and the protocol has no await, so a process *)
(* is inside at most one call.  An update is abstracted to its identity and *)
(* the file's content to the set of updates it reflects.                    *)
EXTENDS Integers, FiniteSets

CONSTANTS NoUpdate,     \* no update is being applied
          Proc,         \* operating-system processes that share the file
          Update,       \* the mutating calls of a run, each issued at most once
          MaxAttempts,  \* attempts to create the lock file (20 in the code)
          MaxCrashes,   \* bound: process crashes in a run
          MaxIoFaults,  \* bound: file-system calls that fail without effect
          MaxTornWrites \* bound: writes that fail after the truncation

ASSUME AttemptsAssumption == MaxAttempts \in Nat \ {0}
ASSUME BudgetAssumption == /\ MaxCrashes \in Nat
                           /\ MaxIoFaults \in Nat
                           /\ MaxTornWrites \in Nat

ASSUME NullsAssumption == NoUpdate \notin Update

VARIABLES lock,      \* does the lock file exist?
          file,      \* the updates in the last document written completely
          torn,      \* has a truncating open cut that document short since?
          pc,        \* where each process is in its call
          op,        \* the update each process is applying
          tries,     \* failed attempts of the current #acquireLock
          loaded,    \* the state the process holds in memory
          seen,      \* what the process's last unlocked read returned
          returned,  \* history: calls that returned normally
          thrown,    \* history: calls that threw
          crashes, ioFaults, tornWrites   \* how much of each bound is used

vars == <<lock, file, torn, pc, op, tries, loaded, seen, returned, thrown,
          crashes, ioFaults, tornWrites>>

faults == <<crashes, ioFaults, tornWrites>>

-----------------------------------------------------------------------------
PC == {"idle", "acquire", "load", "callback", "truncated", "written",
       "failed", "down"}

InSection == {"load", "callback", "truncated", "written", "failed"}

Inside(p) == pc[p] \in InSection

(* The lock file outlived the process that created it, or its call. *)
StaleLock == lock /\ \A p \in Proc : ~Inside(p)

(* #loadState: JSON.parse rejects every proper prefix of the document, and *)
(* a document it rejects is read as an empty one.                          *)
Readable == IF torn THEN {} ELSE file

TypeOK == /\ lock \in BOOLEAN
          /\ file \in SUBSET Update
          /\ torn \in BOOLEAN
          /\ pc \in [Proc -> PC]
          /\ op \in [Proc -> Update \cup {NoUpdate}]
          /\ tries \in [Proc -> 0 .. MaxAttempts]
          /\ loaded \in [Proc -> SUBSET Update]
          /\ seen \in [Proc -> SUBSET Update]
          /\ returned \in SUBSET Update
          /\ thrown \in SUBSET Update
          /\ crashes \in 0 .. MaxCrashes
          /\ ioFaults \in 0 .. MaxIoFaults
          /\ tornWrites \in 0 .. MaxTornWrites

Init == /\ lock = FALSE
        /\ file = {}
        /\ torn = FALSE
        /\ pc = [p \in Proc |-> "idle"]
        /\ op = [p \in Proc |-> NoUpdate]
        /\ tries = [p \in Proc |-> 0]
        /\ loaded = [p \in Proc |-> {}]
        /\ seen = [p \in Proc |-> {}]
        /\ returned = {}
        /\ thrown = {}
        /\ crashes = 0
        /\ ioFaults = 0
        /\ tornWrites = 0

-----------------------------------------------------------------------------
Goto(p, l) == pc' = [pc EXCEPT ![p] = l]

Issued == returned \cup thrown \cup {op[p] : p \in Proc} \cup file

(* The caller enters #withLockedState with update u. *)
Call(p, u) ==
    /\ pc[p] = "idle"
    /\ u \notin Issued
    /\ Goto(p, "acquire")
    /\ op' = [op EXCEPT ![p] = u]
    /\ tries' = [tries EXCEPT ![p] = 0]
    /\ UNCHANGED <<lock, file, torn, loaded, seen, returned, thrown, faults>>

(* The loop of #acquireLock goes on. *)
Retrying(p) == pc[p] = "acquire" /\ tries[p] < MaxAttempts

(* The flag "wx", and a create that forgets it. *)
CreatesAnyway == TRUE

CreatesExclusively == ~lock

(* writeFileSync(lockPath, pid, {flag: "wx"}) creates the lock file. *)
LockCreated(p) ==
    /\ Retrying(p)
    /\ CreatesExclusively
    /\ lock' = TRUE
    /\ Goto(p, "load")
    /\ UNCHANGED <<file, torn, op, tries, loaded, seen, returned, thrown, faults>>

(* A mistaken #acquireLock that does not count its attempts. *)
LockBusyUncounted(p) ==
    /\ Retrying(p)
    /\ lock
    /\ UNCHANGED vars

(* The exclusive create fails because the lock file exists: sleep, retry. *)
LockBusy(p) ==
    /\ Retrying(p)
    /\ lock
    /\ tries' = [tries EXCEPT ![p] = @ + 1]
    /\ UNCHANGED <<lock, file, torn, pc, op, loaded, seen, returned, thrown, faults>>

(* It fails for another reason, at the open or, with the lock file there,   *)
(* at the write of the pid: the same bare catch.                            *)
LockCreateFails(p) ==
    /\ Retrying(p)
    /\ ~lock
    /\ ioFaults < MaxIoFaults
    /\ ioFaults' = ioFaults + 1
    /\ lock' \in BOOLEAN
    /\ tries' = [tries EXCEPT ![p] = @ + 1]
    /\ UNCHANGED <<file, torn, pc, op, loaded, seen, returned, thrown, crashes, tornWrites>>

(* All attempts are used up: "unable to acquire ... lock" leaves           *)
(* #withLockedState before its try block.                                  *)
LockTimeout(p) ==
    /\ pc[p] = "acquire"
    /\ tries[p] = MaxAttempts
    /\ Goto(p, "idle")
    /\ thrown' = thrown \cup {op[p]}
    /\ op' = [op EXCEPT ![p] = NoUpdate]
    /\ UNCHANGED <<lock, file, torn, tries, loaded, seen, returned, faults>>

Load(p) ==
    /\ pc[p] = "load"
    /\ loaded' = [loaded EXCEPT ![p] = Readable]
    /\ Goto(p, "callback")
    /\ UNCHANGED <<lock, file, torn, op, tries, seen, returned, thrown, faults>>

(* The callback throws before anything is persisted. *)
CallbackThrows(p) ==
    /\ pc[p] = "callback"
    /\ Goto(p, "failed")
    /\ UNCHANGED <<lock, file, torn, op, tries, loaded, seen, returned, thrown, faults>>

(* #persistState, first half: writeFileSync opens the file and truncates it. *)
Truncate(p) ==
    /\ pc[p] = "callback"
    /\ torn' = TRUE
    /\ Goto(p, "truncated")
    /\ UNCHANGED <<lock, file, op, tries, loaded, seen, returned, thrown, faults>>

(* #persistState, second half: the whole next state is in the file. *)
Write(p) ==
    /\ pc[p] = "truncated"
    /\ file' = loaded[p] \cup {op[p]}
    /\ torn' = FALSE
    /\ Goto(p, "written")
    /\ UNCHANGED <<lock, op, tries, loaded, seen, returned, thrown, faults>>

(* #persistState throws at the open: the file is as it was.  As for every  *)
(* throw inside the try block, finally still releases the lock.            *)
OpenFails(p) ==
    /\ pc[p] = "callback"
    /\ ioFaults < MaxIoFaults
    /\ ioFaults' = ioFaults + 1
    /\ Goto(p, "failed")
    /\ UNCHANGED <<lock, file, torn, op, tries, loaded, seen, returned, thrown, crashes, tornWrites>>

(* #persistState throws after the truncation: the file stays torn. *)
WriteFails(p) ==
    /\ pc[p] = "truncated"
    /\ tornWrites < MaxTornWrites
    /\ tornWrites' = tornWrites + 1
    /\ Goto(p, "failed")
    /\ UNCHANGED <<lock, file, torn, op, tries, loaded, seen, returned, thrown, crashes, ioFaults>>

(* The finally block, then the call's outcome reaches the caller. *)
Finish(p) ==
    /\ Goto(p, "idle")
    /\ IF pc[p] = "written"
       THEN returned' = returned \cup {op[p]} /\ UNCHANGED thrown
       ELSE thrown' = thrown \cup {op[p]} /\ UNCHANGED returned
    /\ op' = [op EXCEPT ![p] = NoUpdate]
    /\ UNCHANGED <<file, torn, tries, loaded, seen, crashes, tornWrites>>

Release(p) ==
    /\ pc[p] \in {"written", "failed"}
    /\ lock' = FALSE
    /\ Finish(p)
    /\ UNCHANGED ioFaults

(* A mistaken #releaseLock that lets the error reach the caller. *)
ReleaseThrows(p) ==
    /\ pc[p] \in {"written", "failed"}
    /\ ioFaults < MaxIoFaults
    /\ ioFaults' = ioFaults + 1
    /\ Goto(p, "idle")
    /\ thrown' = thrown \cup {op[p]}
    /\ op' = [op EXCEPT ![p] = NoUpdate]
    /\ UNCHANGED <<lock, file, torn, tries, loaded, seen, returned, crashes, tornWrites>>

(* unlinkSync throws; the error is swallowed and the lock file stays. *)
ReleaseFails(p) ==
    /\ pc[p] \in {"written", "failed"}
    /\ ioFaults < MaxIoFaults
    /\ ioFaults' = ioFaults + 1
    /\ Finish(p)
    /\ UNCHANGED lock

(* getJob, listJobs, listLogs, ... read the file without the lock. *)
Read(p) ==
    /\ pc[p] = "idle"
    /\ seen' = [seen EXCEPT ![p] = Readable]
    /\ UNCHANGED <<lock, file, torn, pc, op, tries, loaded, returned, thrown, faults>>

(* The process dies; what is on disk stays as it is. *)
Crash(p) ==
    /\ pc[p] # "down"
    /\ crashes < MaxCrashes
    /\ crashes' = crashes + 1
    /\ Goto(p, "down")
    /\ UNCHANGED <<lock, file, torn, op, tries, loaded, seen, returned, thrown, ioFaults, tornWrites>>

(* A new process takes its place; nothing in the code removes a lock file  *)
(* at start-up.                                                            *)
Restart(p) ==
    /\ pc[p] = "down"
    /\ Goto(p, "idle")
    /\ op' = [op EXCEPT ![p] = NoUpdate]
    /\ seen' = [seen EXCEPT ![p] = {}]
    /\ UNCHANGED <<lock, file, torn, tries, loaded, returned, thrown, faults>>

(* One step of the code a process runs once it is inside a call. *)
Step(p) ==
    \/ LockCreated(p) \/ LockBusy(p) \/ LockCreateFails(p) \/ LockTimeout(p)
    \/ Load(p) \/ CallbackThrows(p) \/ Truncate(p) \/ Write(p)
    \/ OpenFails(p) \/ WriteFails(p) \/ Release(p) \/ ReleaseFails(p)

Next == \E p \in Proc :
            \/ \E u \in Update : Call(p, u)
            \/ Step(p)
            \/ Read(p)
            \/ Crash(p)
            \/ Restart(p)

Spec == Init /\ [][Next]_vars

(* A process that is inside a call keeps executing: the operating system   *)
(* schedules it and the code has no await there.                           *)
FairSpec == Spec /\ \A p \in Proc : WF_vars(Step(p))

-----------------------------------------------------------------------------
(* At most one process at a time is between creating the lock file and      *)
(* removing it, and the lock file exists while one is (#acquireLock and     *)
(* #releaseLock), whatever crashes and whatever file-system call fails.     *)
MutualExclusion ==
    \A p, q \in Proc : Inside(p) => lock /\ (Inside(q) => p = q)

(* No write has failed half way, which empties the store for good: the     *)
(* call that threw releases the lock over a torn file.                     *)
NoTornWrite == tornWrites = 0

(* A call that returned to its caller is in every later document: no       *)
(* interleaving of two processes' load-modify-write, and no crash at any   *)
(* point of it, loses it.                                                  *)
ReturnedSurvive ==
    NoTornWrite => returned \subseteq file

(* A read without the lock (getJob, listJobs, ...) returns either nothing   *)
(* at all, as long as somebody's rewrite is half way, or every update whose *)
(* call has returned; never a part of them.                                 *)
ReadsAllOrNothing ==
    [][NoTornWrite => \A p \in Proc : seen'[p] # seen[p] =>
                          seen'[p] = {} \/ returned \subseteq seen'[p]]_vars

(* A torn file is never up for rewriting: whoever tore it is still inside, *)
(* or died there and left the lock file, so that no later call can load    *)
(* the torn file as an empty store and persist that.                       *)
TornIsLocked == NoTornWrite /\ torn => lock

(* A call that threw - it found the lock taken, or its callback or the     *)
(* persist threw - has no effect that a later reader could see.            *)
ThrownHaveNoEffect == thrown \cap file = {}

(* A lock file left behind, by a dead process or a failing call, stays for  *)
(* ever, and from then on no call succeeds: #acquireLock neither reads the  *)
(* pid it wrote nor looks at the file's age.                                *)
StaleLockIsForever ==
    [][StaleLock => StaleLock' /\ returned' = returned /\ file' = file]_vars

(* Every call comes back to its caller, by returning or by throwing,       *)
(* unless its process dies: also when the lock is never released, because  *)
(* #acquireLock gives up after MaxAttempts.                                *)
CallsEnd ==
    \A p \in Proc : (pc[p] \notin {"idle", "down"}) ~> (pc[p] \in {"idle", "down"})

(* What bounds a call: the steps it has left at most. *)
StepsLeft(p) ==
    CASE pc[p] = "acquire" -> MaxAttempts - tries[p] + 5
      [] pc[p] = "load" -> 4
      [] pc[p] = "callback" -> 3
      [] pc[p] = "truncated" -> 2
      [] pc[p] \in {"written", "failed"} -> 1
      [] pc[p] \in {"idle", "down"} -> 0

Shortens ==
    \A p \in Proc :
       /\ Step(p) => StepsLeft(p)' < StepsLeft(p)
       /\ pc[p] \notin {"idle", "down"} => StepsLeft(p)' <= StepsLeft(p)

(* Each of a call's own steps leaves it fewer, and no other process's, also *)
(* by taking the lock, leaves it more (#acquireLock gives up).              *)
CallsAreShort == [][Shortens]_vars

(* The protocol implements the store its callers rely on: as long as no    *)
(* write has failed half way, each of its steps is a step of the abstract  *)
(* store or leaves that unchanged.                                         *)
Store == INSTANCE AtomicStore WITH content <- file

ImplementsAtomicStore ==
    Store!Init /\ [][NoTornWrite' => Store!Next]_<<file, returned, thrown>>
=============================================================================
