----------------------------- MODULE Scheduler -----------------------------
(* Schedules that enqueue jobs (packages/scheduler): the state file the API *)
(* edits, and the two ways a worker runs it - the node-cron runtime of its  *)
(* loop mode and the due-run of its "once" mode.  Time is in minutes, the   *)
(* resolution of a cron expression; a locked operation on the state file is *)
(* one step (see FileStore), except the due-run, which enqueues its jobs    *)
(* while it holds the lock.                                                 *)
EXTENDS Integers, FiniteSets, FiniteSetsExt

CONSTANTS Sched, Cron,
          Fires,       \* the minutes each cron expression matches
          Horizon,     \* bound: the last minute of a run
          NoSchedule, NoFiring, NoRun, Off,
          RuntimeOn,   \* is there a worker in loop mode?
          OnceOn,      \* is the worker invoked in "once" mode?
          MaxThrows    \* bound: enqueue or updateSchedule calls that throw

Minute == 0 .. Horizon

ASSUME TimeAssumption == Horizon \in Nat /\ Fires \in [Cron -> SUBSET Minute]
ASSUME OffAssumption == Off \notin Cron
ASSUME ModeAssumption == RuntimeOn \in BOOLEAN /\ OnceOn \in BOOLEAN /\ MaxThrows \in Nat

VARIABLES now,
          schedules,  \* the state file
          used,       \* history: schedule ids ever created
          tasks,      \* the cron each node-cron task was started with, or Off
          firedAt,    \* the minute each task last fired in
          firing,     \* the callback between its enqueue and its update
          run,        \* the due-run that holds the scheduler lock
          enqueued,   \* history: jobs enqueued, per schedule and scheduledFor
          throws

runtimeVars == <<tasks, firedAt, firing>>
vars == <<now, schedules, used, tasks, firedAt, firing, run, enqueued, throws>>

-----------------------------------------------------------------------------
(* A time that is null; it is smaller than every minute. *)
Never == -1
Time == Minute \cup {Never}

Schedule == [cron : Cron, enabled : BOOLEAN, lastRun : Time, nextRun : Time]

(* A due-run under way: its timestamp, the state it loaded, and which of the *)
(* due schedules it has yet to enqueue.                                      *)
Run == [at : Minute, state : [Sched -> Schedule \cup {NoSchedule}],
        todo : SUBSET Sched, done : SUBSET Sched]

ASSUME RunAssumption == NoRun \notin Run

Exists(s) == schedules[s] # NoSchedule

TypeOK ==
    /\ now \in Minute
    /\ schedules \in [Sched -> Schedule \cup {NoSchedule}]
    /\ used \in SUBSET Sched
    /\ tasks \in [Sched -> Cron \cup {Off}]
    /\ firedAt \in [Sched -> Time]
    /\ firing \in [sched : Sched, at : Minute] \cup {NoFiring}
    /\ run \in Run \cup {NoRun}
    /\ enqueued \in [Sched -> [Minute -> Nat]]
    /\ throws \in 0 .. MaxThrows

Init ==
    /\ now = 0
    /\ schedules = [s \in Sched |-> NoSchedule]
    /\ used = {}
    /\ tasks = [s \in Sched |-> Off]
    /\ firedAt = [s \in Sched |-> Never]
    /\ firing = NoFiring
    /\ run = NoRun
    /\ enqueued = [s \in Sched |-> [m \in Minute |-> 0]]
    /\ throws = 0

-----------------------------------------------------------------------------
(* A mistake calculateNextRun could make: a minute too early. *)
NextRunFrom(c, t) ==
    LET due == {m \in Fires[c] : m >= t}
    IN  IF due = {} THEN Never ELSE Min(due)

(* calculateNextRun: the first matching minute strictly after t, or null. *)
NextRun(c, t) ==
    LET later == {m \in Fires[c] : m > t}
    IN  IF later = {} THEN Never ELSE Min(later)

(* ... and a mistake of #withLockedState. *)
LockIgnored == TRUE

(* The scheduler lock is free: no due-run is under way. *)
Unlocked == run = NoRun


(* createSchedule *)
CreateSchedule(s, c, enabled) ==
    /\ Unlocked
    /\ s \notin used
    /\ used' = used \cup {s}
    /\ schedules' = [schedules EXCEPT ![s] =
                       [cron |-> c, enabled |-> enabled, lastRun |-> Never,
                        nextRun |-> IF enabled THEN NextRun(c, now) ELSE Never]]
    /\ UNCHANGED <<now, runtimeVars, run, enqueued, throws>>

(* What updateSchedule stores for a patch of cron, enabled and lastRun: the *)
(* next run is recomputed from the stored lastRun, or from now without one; *)
(* the patch's own lastRun and nextRun have no say in it.                   *)
Updated(s, c, enabled, lastRun) ==
    [cron |-> c, enabled |-> enabled, lastRun |-> lastRun,
     nextRun |-> IF ~enabled THEN Never
                 ELSE NextRun(c, IF schedules[s].lastRun = Never THEN now
                                 ELSE schedules[s].lastRun)]

(* handleUpdateSchedule *)
EditSchedule(s, c, enabled) ==
    /\ Unlocked
    /\ Exists(s)
    /\ schedules' = [schedules EXCEPT ![s] = Updated(s, c, enabled, schedules[s].lastRun)]
    /\ UNCHANGED <<now, used, runtimeVars, run, enqueued, throws>>

DeleteSchedule(s) ==
    /\ Unlocked
    /\ Exists(s)
    /\ schedules' = [schedules EXCEPT ![s] = NoSchedule]
    /\ UNCHANGED <<now, used, runtimeVars, run, enqueued, throws>>

Count(s, m) == enqueued' = [enqueued EXCEPT ![s][m] = @ + 1]

Throw == throws < MaxThrows /\ throws' = throws + 1

-----------------------------------------------------------------------------
(* startSchedulerRuntime: a task for each schedule that is enabled now. *)
StartRuntime ==
    /\ RuntimeOn
    /\ \A s \in Sched : tasks[s] = Off
    /\ tasks' = [s \in Sched |-> IF Exists(s) /\ schedules[s].enabled
                                 THEN schedules[s].cron ELSE Off]
    /\ UNCHANGED <<now, schedules, used, firedAt, firing, run, enqueued, throws>>

(* The worker stops its tasks, or dies, maybe inside a callback. *)
StopRuntime ==
    /\ \E s \in Sched : tasks[s] # Off
    /\ tasks' = [s \in Sched |-> Off]
    /\ firing' = NoFiring
    /\ UNCHANGED <<now, schedules, used, firedAt, run, enqueued, throws>>

(* A task's minute has come: its callback enqueues the job ... *)
FireEnqueues(s) ==
    /\ firing = NoFiring
    /\ tasks[s] # Off
    /\ now \in Fires[tasks[s]]
    /\ firedAt[s] # now
    /\ firedAt' = [firedAt EXCEPT ![s] = now]
    /\ firing' = [sched |-> s, at |-> now]
    /\ Count(s, now)
    /\ UNCHANGED <<now, schedules, used, tasks, run, throws>>

(* ... and then updates the schedule, if it still exists. *)
FireUpdates ==
    /\ firing # NoFiring
    /\ Unlocked
    /\ LET s == firing.sched
       IN  schedules' = IF Exists(s)
                        THEN [schedules EXCEPT ![s] = Updated(s, @.cron, @.enabled, firing.at)]
                        ELSE schedules
    /\ firing' = NoFiring
    /\ UNCHANGED <<now, used, tasks, firedAt, run, enqueued, throws>>

FireUpdateThrows ==
    /\ firing # NoFiring
    /\ Throw
    /\ firing' = NoFiring
    /\ UNCHANGED <<now, schedules, used, tasks, firedAt, run, enqueued>>

-----------------------------------------------------------------------------
DueAt(s, t) == /\ Exists(s)
               /\ schedules[s].enabled
               /\ schedules[s].nextRun # Never
               /\ schedules[s].nextRun <= t

Due(s) == DueAt(s, now)

(* A mistake of runDueSchedules: what is due this very minute is left out. *)
RunBeginsLate ==
    /\ OnceOn
    /\ Unlocked
    /\ \E s \in Sched : Due(s)
    /\ run' = [at |-> now, state |-> schedules, done |-> {},
               todo |-> {s \in Sched : Due(s) /\ schedules[s].nextRun < now}]
    /\ UNCHANGED <<now, schedules, used, runtimeVars, enqueued, throws>>

(* runDueSchedules takes the lock and finds what is due. *)
RunBegins ==
    /\ OnceOn
    /\ Unlocked
    /\ \E s \in Sched : Due(s)
    /\ run' = [at |-> now, state |-> schedules, todo |-> {s \in Sched : Due(s)}, done |-> {}]
    /\ UNCHANGED <<now, schedules, used, runtimeVars, enqueued, throws>>

(* One turn of its loop: the due schedules are taken by their next run. *)
RunEnqueues(s) ==
    /\ run # NoRun
    /\ s \in run.todo
    /\ \A other \in run.todo : run.state[s].nextRun <= run.state[other].nextRun
    /\ Count(s, run.state[s].nextRun)
    /\ run' = [run EXCEPT !.todo = @ \ {s}, !.done = @ \cup {s}]
    /\ UNCHANGED <<now, schedules, used, runtimeVars, throws>>

(* The state the run loaded, with the schedules in ran marked as run. *)
Ran(ran) ==
    [s \in Sched |->
        IF s \in ran THEN [run.state[s] EXCEPT !.lastRun = run.at, !.nextRun = NextRun(run.state[s].cron, run.at)]
        ELSE run.state[s]]

(* The whole state is written once every due schedule has its job. *)
RunPersists ==
    /\ run # NoRun
    /\ run.todo = {}
    /\ schedules' = Ran(run.done)
    /\ run' = NoRun
    /\ UNCHANGED <<now, used, runtimeVars, enqueued, throws>>

(* A mistaken finally clause: what was not enqueued is marked as run, too. *)
RunThrowsPersisting ==
    /\ run # NoRun
    /\ run.todo # {}
    /\ Throw
    /\ schedules' = Ran(run.todo \cup run.done)
    /\ run' = NoRun
    /\ UNCHANGED <<now, used, runtimeVars, enqueued>>

(* An enqueue or, after the last one, the write throws: the lock is released *)
(* and nothing is written, though some jobs may have been enqueued.          *)
RunThrows ==
    /\ run # NoRun
    /\ Throw
    /\ run' = NoRun
    /\ UNCHANGED <<now, schedules, used, runtimeVars, enqueued>>

Tick == /\ now < Horizon
        /\ now' = now + 1
        /\ UNCHANGED <<schedules, used, runtimeVars, run, enqueued, throws>>

Next ==
    \/ \E s \in Sched : \/ \E c \in Cron, enabled \in BOOLEAN :
                              CreateSchedule(s, c, enabled) \/ EditSchedule(s, c, enabled)
                        \/ DeleteSchedule(s) \/ FireEnqueues(s) \/ RunEnqueues(s)
    \/ StartRuntime \/ StopRuntime \/ FireUpdates \/ FireUpdateThrows
    \/ RunBegins \/ RunPersists \/ RunThrows
    \/ Tick

Spec == Init /\ [][Next]_vars

(* Somebody keeps invoking the worker in "once" mode, and it is not killed *)
(* half way; nothing makes time pass or anybody edit.                      *)
Fairness == WF_vars(RunBegins) /\ WF_vars(RunPersists \/ \E s \in Sched : RunEnqueues(s))

FairSpec == Spec /\ Fairness

-----------------------------------------------------------------------------
(* The due-run enqueues a job for an occurrence (a schedule and the minute  *)
(* in scheduledFor) at most once, and once more for each run that threw     *)
(* after it had enqueued jobs and recorded none of them, whatever is edited *)
(* in between; edits recompute nextRun from the stored lastRun              *)
(* (updateSchedule), never from before it.  Once mode alone.                *)
OncePerOccurrence == \A s \in Sched, m \in Minute : enqueued[s][m] <= 1 + throws

(* A schedule that has run is next due strictly after its last run, which   *)
(* is what the update at the end of a firing passes to updateSchedule.      *)
NextRunAfterLast ==
    \A s \in Sched : Exists(s) /\ schedules[s].nextRun # Never
                     => schedules[s].nextRun > schedules[s].lastRun

(* A schedule says it has run only if it enqueued a job no later than that: *)
(* both modes record a run after its enqueue, and a throw records nothing.  *)
LastRunHasJob ==
    \A s \in Sched : Exists(s) /\ schedules[s].lastRun # Never
                     => \E m \in 0 .. schedules[s].lastRun : enqueued[s][m] > 0

(* The due-run, which writes back the whole state it loaded before it       *)
(* enqueued, undoes no edit, deletion or firing that other processes made   *)
(* meanwhile: runDueSchedules holds the lock across its enqueues.           *)
RunKeepsEdits ==
    [][run # NoRun /\ run' = NoRun =>
          \A s \in Sched : \/ schedules'[s] = schedules[s]
                           \/ s \in run.done /\ schedules[s] = run.state[s]]_vars

(* A due-run that ends without a throw has enqueued the job of every        *)
(* schedule that was due at its timestamp and leaves none of them due: the  *)
(* schedules that other processes edit or fire meanwhile, in either mode,   *)
(* included (runDueSchedules).  What DueIsServed rests on, apart from the   *)
(* run being made.                                                          *)
RunServesDue ==
    [][run # NoRun /\ run' = NoRun /\ throws' = throws =>
          \A s \in Sched : DueAt(s, run.at) =>
              /\ enqueued[s][schedules[s].nextRun] > 0
              /\ schedules'[s].lastRun = run.at
              /\ schedules'[s].nextRun = Never \/ schedules'[s].nextRun > run.at]_vars

(* An occurrence that is due does not stay due for ever: it is enqueued, or *)
(* an edit takes it away.  Once mode, and not every run throws.             *)
DueIsServed ==
    \A s \in Sched, m \in Minute :
        Due(s) /\ schedules[s].nextRun = m ~> ~(Due(s) /\ schedules[s].nextRun = m)
=============================================================================
