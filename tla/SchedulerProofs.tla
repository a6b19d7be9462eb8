-------------------------- MODULE SchedulerProofs --------------------------
(* Proofs about Scheduler, for every set of schedules, cron table and       *)
(* horizon.                                                                 *)
EXTENDS Scheduler, WellFoundedInduction, TLAPS

(* A nonempty set of numbers has a least one. *)
LEMMA LeastExists ==
    ASSUME NEW S \in SUBSET Nat, S # {}
    PROVE  \E x \in S : \A y \in S : x =< y
<1> DEFINE R == OpToRel(<, Nat)
<1>1. IsWellFoundedOn(R, Nat)
  BY NatLessThanWellFounded
<1>2. \E x \in S : \A y \in S : ~(<<y, x>> \in R)
  <2> HIDE DEF R
  <2> QED
    BY <1>1, WFMin, Zenon
<1>3. \A x, y \in Nat : ~(<<y, x>> \in R) => x =< y
  BY DEF OpToRel
<1> QED
  BY <1>2, <1>3

(* calculateNextRun returns null or a minute strictly after its argument. *)
LEMMA NextRunLater ==
    ASSUME NEW c \in Cron, NEW t \in Time
    PROVE  \/ NextRun(c, t) = Never
           \/ NextRun(c, t) \in Minute /\ NextRun(c, t) > t
<1> DEFINE later == {m \in Fires[c] : m > t}
<1>1. CASE later = {}
  BY <1>1 DEF NextRun
<1>2. CASE later # {}
  <2>1. later \subseteq Minute
    BY TimeAssumption
  <2>2. later \in SUBSET Nat
    BY <2>1, TimeAssumption DEF Minute
  <2>3. PICK x \in later : \A y \in later : x =< y
    <3> HIDE DEF later
    <3> QED
      BY <1>2, <2>2, LeastExists
  <2>4. Min(later) \in later
    <3> HIDE DEF later
    <3> QED
      BY <2>3 DEF Min
  <2> QED
    BY <1>2, <2>1, <2>4 DEF NextRun
<1> QED
  BY <1>1, <1>2

LEMMA NextRunType == ASSUME NEW c \in Cron, NEW t \in Time PROVE NextRun(c, t) \in Time
BY NextRunLater DEF Time

(* What updateSchedule stores for an existing schedule is a schedule. *)
LEMMA UpdatedType ==
    ASSUME TypeOK, NEW s \in Sched, Exists(s),
           NEW c \in Cron, NEW enabled \in BOOLEAN, NEW lastRun \in Time
    PROVE  Updated(s, c, enabled, lastRun) \in Schedule
<1> DEFINE from == IF schedules[s].lastRun = Never THEN now ELSE schedules[s].lastRun
<1>1. from \in Time
  BY DEF TypeOK, Exists, Schedule, Time
<1>2. NextRun(c, from) \in Time
  BY <1>1, NextRunType
<1> QED
  BY <1>2 DEF Updated, Schedule, Time

-----------------------------------------------------------------------------
(* The run that holds the lock works on what is still the stored state.    *)
LoadedInv ==
    run # NoRun =>
        /\ run.state = schedules
        /\ run.todo \cap run.done = {}
        /\ \A s \in run.todo \cup run.done :
              /\ Exists(s)
              /\ schedules[s].nextRun \in Minute
              /\ schedules[s].nextRun <= run.at

RunInv == TypeOK /\ LoadedInv

LEMMA RanType ==
    ASSUME RunInv, run # NoRun, NEW ran \in SUBSET (run.todo \cup run.done)
    PROVE  Ran(ran) \in [Sched -> Schedule \cup {NoSchedule}]
<1> SUFFICES ASSUME NEW s \in Sched
             PROVE  (IF s \in ran
                     THEN [run.state[s] EXCEPT !.lastRun = run.at,
                                               !.nextRun = NextRun(run.state[s].cron, run.at)]
                     ELSE run.state[s]) \in Schedule \cup {NoSchedule}
  BY DEF Ran
<1>1. run.state[s] \in Schedule \cup {NoSchedule} /\ run.at \in Time
  BY DEF RunInv, TypeOK, Run, Time
<1>2. CASE s \in ran
  <2>1. run.state[s] \in Schedule
    BY <1>1, <1>2 DEF RunInv, LoadedInv, Exists
  <2>2. NextRun(run.state[s].cron, run.at) \in Time
    BY <1>1, <2>1, NextRunType DEF Schedule
  <2> QED
    BY <1>1, <1>2, <2>1, <2>2 DEF Schedule
<1> QED
  BY <1>1, <1>2

LEMMA RunInit == Init => RunInv
BY TimeAssumption, ModeAssumption
DEF Init, RunInv, TypeOK, LoadedInv, Minute, Time, Never

LEMMA RunStep == RunInv /\ [Next]_vars => RunInv'
<1> SUFFICES ASSUME RunInv, [Next]_vars PROVE RunInv'
  OBVIOUS
<1> USE DEF RunInv
<1>1. CASE UNCHANGED vars
  BY <1>1 DEF vars, runtimeVars, TypeOK, LoadedInv, Exists
<1>2. ASSUME NEW s \in Sched, NEW c \in Cron, NEW enabled \in BOOLEAN, CreateSchedule(s, c, enabled)
      PROVE  RunInv'
  <2>1. now \in Time /\ Never \in Time
    BY DEF TypeOK, Time
  <2>2. NextRun(c, now) \in Time
    BY <2>1, NextRunType
  <2> QED
    BY <1>2, <2>1, <2>2 DEF CreateSchedule, runtimeVars, Unlocked, TypeOK, LoadedInv, Schedule
<1>3. ASSUME NEW s \in Sched, NEW c \in Cron, NEW enabled \in BOOLEAN, EditSchedule(s, c, enabled)
      PROVE  RunInv'
  <2>1. Exists(s) /\ schedules[s].lastRun \in Time
    BY <1>3 DEF EditSchedule, TypeOK, Exists, Schedule
  <2>2. Updated(s, c, enabled, schedules[s].lastRun) \in Schedule
    BY <2>1, UpdatedType
  <2> QED
    BY <1>3, <2>2 DEF EditSchedule, runtimeVars, Unlocked, TypeOK, LoadedInv
<1>4. ASSUME NEW s \in Sched, DeleteSchedule(s) PROVE RunInv'
  BY <1>4 DEF DeleteSchedule, runtimeVars, Unlocked, TypeOK, LoadedInv
<1>5. ASSUME NEW s \in Sched, FireEnqueues(s) PROVE RunInv'
  <2>1. now \in Minute /\ now \in Time
    BY DEF TypeOK, Time
  <2>2. enqueued' \in [Sched -> [Minute -> Nat]]
    BY <1>5, <2>1 DEF FireEnqueues, Count, TypeOK
  <2> QED
    BY <1>5, <2>1, <2>2 DEF FireEnqueues, TypeOK, LoadedInv, Exists
<1>6. ASSUME NEW s \in Sched, RunEnqueues(s) PROVE RunInv'
  <2>1. run # NoRun /\ schedules[s].nextRun \in Minute /\ run.state = schedules
    BY <1>6 DEF RunEnqueues, LoadedInv
  <2>2. enqueued' \in [Sched -> [Minute -> Nat]]
    BY <1>6, <2>1 DEF RunEnqueues, Count, TypeOK
  <2>3. run' \in Run
        /\ run'.state = run.state /\ run'.at = run.at
        /\ run'.todo = run.todo \ {s} /\ run'.done = run.done \cup {s}
    BY <1>6, <2>1 DEF RunEnqueues, TypeOK, Run
  <2>4. TypeOK'
    BY <1>6, <2>2, <2>3 DEF RunEnqueues, runtimeVars, TypeOK
  <2>5. LoadedInv'
    BY <1>6, <2>1, <2>3 DEF RunEnqueues, LoadedInv, Exists
  <2> QED
    BY <2>4, <2>5
<1>7. CASE StartRuntime
  BY <1>7 DEF StartRuntime, TypeOK, LoadedInv, Exists, Schedule
<1>8. CASE StopRuntime
  BY <1>8 DEF StopRuntime, TypeOK, LoadedInv, Exists
<1>9. CASE FireUpdates
  <2> DEFINE s == firing.sched
  <2>1. s \in Sched /\ firing.at \in Time
    BY <1>9 DEF FireUpdates, TypeOK, Time
  <2>2. CASE Exists(s)
    <3>1. schedules[s].cron \in Cron /\ schedules[s].enabled \in BOOLEAN
      BY <2>1, <2>2 DEF Exists, TypeOK, Schedule
    <3>2. Updated(s, schedules[s].cron, schedules[s].enabled, firing.at) \in Schedule
      BY <2>1, <2>2, <3>1, UpdatedType
    <3>3. schedules' \in [Sched -> Schedule \cup {NoSchedule}]
      BY <1>9, <2>1, <2>2, <3>2 DEF FireUpdates, TypeOK
    <3> QED
      BY <1>9, <3>3 DEF FireUpdates, Unlocked, TypeOK, LoadedInv
  <2>3. CASE ~Exists(s)
    BY <1>9, <2>3 DEF FireUpdates, Unlocked, TypeOK, LoadedInv
  <2> QED
    BY <2>2, <2>3
<1>10. CASE FireUpdateThrows
  BY <1>10, ModeAssumption DEF FireUpdateThrows, Throw, TypeOK, LoadedInv, Exists
<1>11. CASE RunBegins
  <2>1. run' = [at |-> now, state |-> schedules, todo |-> {s \in Sched : Due(s)}, done |-> {}]
    BY <1>11 DEF RunBegins
  <2>2. \A s \in Sched : Due(s) => Exists(s) /\ schedules[s].nextRun \in Minute /\ schedules[s].nextRun <= now
    BY DEF Due, DueAt, Exists, TypeOK, Schedule, Time
  <2>3. TypeOK'
    BY <1>11, <2>1 DEF RunBegins, runtimeVars, TypeOK, Run
  <2> QED
    BY <1>11, <2>1, <2>2, <2>3 DEF RunBegins, LoadedInv, Exists
<1>12. CASE RunPersists
  <2>1. schedules' \in [Sched -> Schedule \cup {NoSchedule}]
    BY <1>12, RanType DEF RunPersists
  <2> QED
    BY <1>12, <2>1 DEF RunPersists, runtimeVars, TypeOK, LoadedInv
<1>13. CASE RunThrows
  BY <1>13, ModeAssumption DEF RunThrows, runtimeVars, Throw, TypeOK, LoadedInv
<1>14. CASE Tick
  BY <1>14, TimeAssumption DEF Tick, runtimeVars, TypeOK, LoadedInv, Exists, Minute
<1> QED
  BY <1>1, <1>2, <1>3, <1>4, <1>5, <1>6, <1>7, <1>8, <1>9, <1>10, <1>11, <1>12, <1>13, <1>14
  DEF Next

LEMMA RunInvariant == Spec => []RunInv
BY RunInit, RunStep, PTL DEF Spec

(* Every variable of the scheduler keeps its type. *)
THEOREM TypeCorrect == Spec => []TypeOK
<1>1. RunInv => TypeOK
  BY DEF RunInv
<1> QED
  BY <1>1, RunInvariant, PTL

(* The due-run's write-back undoes nothing: what it loaded is still what is *)
(* stored, because every other writer waits for the lock (runDueSchedules). *)
THEOREM WriteBackKeepsEdits == Spec => RunKeepsEdits
<1>1. RunInv /\ [Next]_vars =>
         [run # NoRun /\ run' = NoRun =>
             \A s \in Sched : \/ schedules'[s] = schedules[s]
                              \/ s \in run.done /\ schedules[s] = run.state[s]]_vars
  <2> SUFFICES ASSUME RunInv, Next, run # NoRun, run' = NoRun, NEW s \in Sched
               PROVE  \/ schedules'[s] = schedules[s]
                      \/ s \in run.done /\ schedules[s] = run.state[s]
    BY DEF vars
  <2>1. run.state = schedules
    BY DEF RunInv, LoadedInv
  <2>2. CASE RunPersists
    BY <2>1, <2>2 DEF RunPersists, Ran
  <2>3. CASE UNCHANGED schedules
    BY <2>3
  <2>4. RunPersists \/ UNCHANGED schedules
    BY DEF Next, CreateSchedule, EditSchedule, DeleteSchedule, FireEnqueues, RunEnqueues, StartRuntime,
           StopRuntime, FireUpdates, FireUpdateThrows, RunBegins, RunThrows, Tick, Unlocked
  <2> QED
    BY <2>2, <2>3, <2>4
<1> QED
  BY <1>1, RunInvariant, PTL DEF Spec, RunKeepsEdits

-----------------------------------------------------------------------------
(* Once mode alone: no task runs; what a schedule was enqueued for more     *)
(* often than runs threw lies at or before its last run, or it is the       *)
(* occurrence the present run has just enqueued; and the next run lies      *)
(* after the last.                                                          *)
Quiet == (\A s \in Sched : tasks[s] = Off) /\ firing = NoFiring

Unused == \A s \in Sched \ used : ~Exists(s) /\ \A m \in Minute : enqueued[s][m] = 0

Behind(s, m) ==
    \/ m <= schedules[s].lastRun
    \/ run # NoRun /\ s \in run.done /\ m = schedules[s].nextRun

EnqueuedBehind ==
    \A s \in Sched, m \in Minute : Exists(s) /\ enqueued[s][m] > throws => Behind(s, m)

OnceInv == Quiet /\ Unused /\ EnqueuedBehind /\ OncePerOccurrence /\ NextRunAfterLast

LEMMA OnceInit == Init => OnceInv
BY TimeAssumption
DEF Init, OnceInv, Quiet, Unused, EnqueuedBehind, OncePerOccurrence, NextRunAfterLast, Exists, Minute

(* A minute the schedule is due at is one it was enqueued for only by runs  *)
(* that threw.                                                              *)
LEMMA DueIsNew ==
    ASSUME RunInv, OnceInv, run # NoRun, NEW s \in run.todo
    PROVE  schedules[s].nextRun \in Minute /\ enqueued[s][schedules[s].nextRun] <= throws
<1> DEFINE m == schedules[s].nextRun
<1>1. s \in Sched /\ Exists(s) /\ m \in Minute /\ s \notin run.done
  BY DEF RunInv, LoadedInv, TypeOK, Run
<1>2. m > schedules[s].lastRun
  BY <1>1, TimeAssumption DEF OnceInv, NextRunAfterLast, Minute, Never
<1>3. schedules[s].lastRun \in Int /\ m \in Int
  BY <1>1, TimeAssumption DEF RunInv, TypeOK, Exists, Schedule, Time, Minute, Never
<1>4. ~Behind(s, m)
  BY <1>1, <1>2, <1>3 DEF Behind
<1>5. enqueued[s][m] \in Nat /\ throws \in Nat
  BY <1>1, ModeAssumption DEF RunInv, TypeOK
<1> QED
  BY <1>1, <1>4, <1>5 DEF OnceInv, EnqueuedBehind

LEMMA OnceStep ==
    ASSUME ~RuntimeOn, RunInv, OnceInv, [Next]_vars
    PROVE  OnceInv'
<1> USE DEF OnceInv
<1>1. CASE UNCHANGED vars
  BY <1>1 DEF vars, runtimeVars, Quiet, Unused, EnqueuedBehind, Behind, OncePerOccurrence,
              NextRunAfterLast, Exists
<1>2. ASSUME NEW s \in Sched, NEW c \in Cron, NEW enabled \in BOOLEAN, CreateSchedule(s, c, enabled)
      PROVE  OnceInv'
  <2> DEFINE new == [cron |-> c, enabled |-> enabled, lastRun |-> Never,
                     nextRun |-> IF enabled THEN NextRun(c, now) ELSE Never]
  <2>1. /\ \A q \in Sched \ {s} : schedules'[q] = schedules[q]
        /\ schedules'[s] = new /\ enqueued' = enqueued /\ throws' = throws
        /\ run' = run /\ run = NoRun
        /\ used' = used \cup {s} /\ s \notin used /\ tasks' = tasks /\ firing' = firing
    BY <1>2 DEF CreateSchedule, runtimeVars, Unlocked, RunInv, TypeOK
  <2>2. NextRun(c, now) = Never \/ NextRun(c, now) > Never
    <3>1. now \in Time /\ Never \in Int
      BY DEF RunInv, TypeOK, Time, Never
    <3>2. now \in Nat
      BY TimeAssumption DEF RunInv, TypeOK, Minute
    <3>3. NextRun(c, now) = Never \/ NextRun(c, now) \in Minute
      BY <3>1, NextRunLater
    <3> QED
      BY <3>3, TimeAssumption DEF Minute, Never
  <2>3. NextRunAfterLast'
    BY <2>1, <2>2 DEF NextRunAfterLast, Exists
  <2>4. EnqueuedBehind'
    BY <2>1, ModeAssumption DEF EnqueuedBehind, Behind, Unused, Exists, RunInv, TypeOK
  <2> QED
    BY <2>1, <2>3, <2>4 DEF Quiet, Unused, OncePerOccurrence, Exists
<1>3. ASSUME NEW s \in Sched, NEW c \in Cron, NEW enabled \in BOOLEAN, EditSchedule(s, c, enabled)
      PROVE  OnceInv'
  <2> DEFINE from == IF schedules[s].lastRun = Never THEN now ELSE schedules[s].lastRun
  <2>1. Exists(s) /\ schedules[s] \in Schedule /\ run = NoRun
    BY <1>3 DEF EditSchedule, Unlocked, RunInv, TypeOK, Exists
  <2>2. /\ \A q \in Sched \ {s} : schedules'[q] = schedules[q]
        /\ schedules'[s].lastRun = schedules[s].lastRun
        /\ schedules'[s].nextRun \in {Never, NextRun(c, from)}
        /\ enqueued' = enqueued /\ throws' = throws /\ run' = run
        /\ used' = used /\ tasks' = tasks /\ firing' = firing
    BY <1>3 DEF EditSchedule, Updated, runtimeVars, RunInv, TypeOK
  <2>3. NextRun(c, from) = Never \/ NextRun(c, from) > schedules[s].lastRun
    <3>1. from \in Time /\ from \in Int /\ schedules[s].lastRun \in Int /\ schedules[s].lastRun <= from
      BY <2>1, TimeAssumption DEF RunInv, TypeOK, Schedule, Time, Minute, Never
    <3>2. NextRun(c, from) # Never => NextRun(c, from) \in Minute /\ NextRun(c, from) > from
      BY <3>1, NextRunLater
    <3> HIDE DEF from
    <3> QED
      BY <3>1, <3>2, TimeAssumption DEF Minute
  <2>4. NextRunAfterLast'
    BY <2>1, <2>2, <2>3 DEF NextRunAfterLast, Exists
  <2>5. EnqueuedBehind'
    BY <2>1, <2>2 DEF EnqueuedBehind, Behind, Exists
  <2>6. s \in used
    BY <2>1 DEF Unused
  <2> QED
    BY <2>1, <2>2, <2>4, <2>5, <2>6 DEF Quiet, Unused, OncePerOccurrence, Exists
<1>4. ASSUME NEW s \in Sched, DeleteSchedule(s) PROVE OnceInv'
  <2>1. /\ \A q \in Sched \ {s} : schedules'[q] = schedules[q]
        /\ schedules'[s] = NoSchedule /\ enqueued' = enqueued /\ throws' = throws /\ run' = run
        /\ used' = used /\ tasks' = tasks /\ firing' = firing
    BY <1>4 DEF DeleteSchedule, runtimeVars, RunInv, TypeOK
  <2> QED
    BY <2>1 DEF Quiet, Unused, EnqueuedBehind, Behind, OncePerOccurrence, NextRunAfterLast, Exists
<1>5. ~(\E s \in Sched : FireEnqueues(s)) /\ ~StartRuntime /\ ~StopRuntime
      /\ ~FireUpdates /\ ~FireUpdateThrows
  BY DEF FireEnqueues, StartRuntime, StopRuntime, FireUpdates, FireUpdateThrows, Quiet
<1>6. ASSUME NEW s \in Sched, RunEnqueues(s) PROVE OnceInv'
  <2> DEFINE m == schedules[s].nextRun
  <2>1. run # NoRun /\ s \in run.todo /\ run.state = schedules
    BY <1>6 DEF RunEnqueues, RunInv, LoadedInv
  <2>2. /\ m \in Minute /\ enqueued[s][m] <= throws
        /\ enqueued[s][m] \in Nat /\ throws \in Nat /\ throws' = throws
    BY <1>6, <2>1, DueIsNew, ModeAssumption DEF RunEnqueues, RunInv, TypeOK
  <2>3. \A q \in Sched, n \in Minute :
            enqueued'[q][n] = IF q = s /\ n = m THEN enqueued[s][m] + 1 ELSE enqueued[q][n]
    BY <1>6, <2>1, <2>2 DEF RunEnqueues, Count, RunInv, TypeOK
  <2>4. run'.done = run.done \cup {s} /\ run' # NoRun
    <3>1. run' = [run EXCEPT !.todo = run.todo \ {s}, !.done = run.done \cup {s}]
      BY <1>6 DEF RunEnqueues
    <3>2. run \in Run /\ run.todo \ {s} \in SUBSET Sched /\ run.done \cup {s} \in SUBSET Sched
      BY <2>1 DEF RunInv, TypeOK, Run
    <3>3. run' \in Run /\ run'.done = run.done \cup {s}
      BY <3>1, <3>2 DEF Run
    <3> QED
      BY <3>3, RunAssumption
  <2>5. schedules' = schedules /\ used' = used /\ tasks' = tasks /\ firing' = firing
    BY <1>6 DEF RunEnqueues, runtimeVars
  <2>6. EnqueuedBehind'
    BY <2>1, <2>2, <2>3, <2>4, <2>5 DEF EnqueuedBehind, Behind, Exists
  <2>7. s \in used
    BY <2>1 DEF Unused, RunInv, LoadedInv
  <2> QED
    BY <2>2, <2>3, <2>5, <2>6, <2>7 DEF Quiet, Unused, OncePerOccurrence, NextRunAfterLast, Exists
<1>7. CASE RunBegins
  BY <1>7 DEF RunBegins, Unlocked, runtimeVars, Quiet, Unused, EnqueuedBehind, Behind,
              OncePerOccurrence, NextRunAfterLast, Exists
<1>8. CASE RunPersists
  <2>1. run # NoRun /\ run.state = schedules /\ run' = NoRun /\ schedules' = Ran(run.done)
        /\ enqueued' = enqueued /\ throws' = throws
        /\ used' = used /\ tasks' = tasks /\ firing' = firing
    BY <1>8 DEF RunPersists, runtimeVars, RunInv, LoadedInv
  <2>2. \A s \in Sched \ run.done : schedules'[s] = schedules[s]
    BY <2>1 DEF Ran
  <2>3. ASSUME NEW s \in run.done
        PROVE  /\ Exists(s) /\ s \in used /\ s \in Sched
               /\ schedules'[s].lastRun = run.at
               /\ schedules'[s].nextRun = Never \/ schedules'[s].nextRun > run.at
               /\ schedules[s].nextRun <= run.at /\ schedules[s].lastRun <= run.at
    <3>1. /\ s \in Sched /\ Exists(s) /\ schedules[s] \in Schedule
          /\ schedules[s].nextRun \in Minute /\ schedules[s].nextRun <= run.at
      BY <2>1, <2>3 DEF RunInv, LoadedInv, TypeOK, Run, Exists
    <3>2. run.at \in Time /\ run.at \in Int
      BY <2>1, TimeAssumption DEF RunInv, TypeOK, Run, Time, Minute
    <3>3. schedules[s].lastRun < schedules[s].nextRun /\ schedules[s].lastRun \in Int
          /\ schedules[s].nextRun \in Int
      BY <3>1, TimeAssumption DEF NextRunAfterLast, Schedule, Time, Minute, Never
    <3>4. schedules'[s] = [schedules[s] EXCEPT !.lastRun = run.at,
                                               !.nextRun = NextRun(schedules[s].cron, run.at)]
      BY <2>1, <2>3, <3>1 DEF Ran
    <3>5. NextRun(schedules[s].cron, run.at) = Never \/ NextRun(schedules[s].cron, run.at) > run.at
      BY <3>1, <3>2, NextRunLater DEF Schedule
    <3>6. s \in used
      BY <3>1 DEF Unused
    <3>7. schedules'[s].lastRun = run.at /\ schedules'[s].nextRun = NextRun(schedules[s].cron, run.at)
      BY <3>1, <3>4 DEF Schedule
    <3> QED
      BY <3>1, <3>2, <3>3, <3>5, <3>6, <3>7
  <2>4. NextRunAfterLast'
    BY <2>1, <2>2, <2>3 DEF NextRunAfterLast, Exists
  <2>5. EnqueuedBehind'
    <3> SUFFICES ASSUME NEW s \in Sched, NEW m \in Minute, Exists(s)', enqueued[s][m] > throws
                 PROVE  m <= schedules'[s].lastRun
      BY <2>1 DEF EnqueuedBehind, Behind
    <3>1. CASE s \in run.done
      <4>1. Behind(s, m) /\ m \in Int /\ run.at \in Int /\ schedules[s].lastRun \in Int
        BY <2>1, <2>3, <3>1, TimeAssumption
        DEF EnqueuedBehind, RunInv, TypeOK, Run, Exists, Schedule, Time, Minute, Never
      <4> QED
        BY <2>3, <3>1, <4>1 DEF Behind
    <3>2. CASE s \notin run.done
      BY <2>1, <2>2, <3>2 DEF EnqueuedBehind, Behind, Exists
    <3> QED
      BY <3>1, <3>2
  <2>6. Unused'
    BY <2>1, <2>2, <2>3 DEF Unused, Exists
  <2> QED
    BY <2>1, <2>4, <2>5, <2>6 DEF Quiet, OncePerOccurrence
<1>9. CASE RunThrows
  <2>1. /\ schedules' = schedules /\ enqueued' = enqueued /\ run' = NoRun
        /\ used' = used /\ tasks' = tasks /\ firing' = firing
        /\ throws \in Nat /\ throws' = throws + 1
    BY <1>9, ModeAssumption DEF RunThrows, Throw, runtimeVars, RunInv, TypeOK
  <2>2. \A s \in Sched, m \in Minute : enqueued[s][m] \in Nat /\ enqueued[s][m] <= throws'
    BY <2>1 DEF OncePerOccurrence, RunInv, TypeOK
  <2>3. EnqueuedBehind' /\ OncePerOccurrence'
    BY <2>1, <2>2 DEF EnqueuedBehind, OncePerOccurrence
  <2> QED
    BY <2>1, <2>3 DEF Quiet, Unused, NextRunAfterLast, Exists
<1>10. CASE Tick
  BY <1>10 DEF Tick, runtimeVars, Quiet, Unused, EnqueuedBehind, Behind, OncePerOccurrence,
               NextRunAfterLast, Exists
<1> QED
  BY <1>1, <1>2, <1>3, <1>4, <1>5, <1>6, <1>7, <1>8, <1>9, <1>10 DEF Next

LEMMA OnceInvariant ==
    ASSUME ~RuntimeOn
    PROVE  Spec => [](RunInv /\ OnceInv)
<1>1. RunInv /\ OnceInv /\ [Next]_vars => RunInv' /\ OnceInv'
  BY RunStep, OnceStep
<1> QED
  BY <1>1, RunInit, OnceInit, PTL DEF Spec

(* The due-run enqueues at most one job for an occurrence, and one more for *)
(* each run that threw, whatever is created, edited and deleted, in once    *)
(* mode (runDueSchedules).                                                  *)
THEOREM OccurrencesOnce ==
    ASSUME ~RuntimeOn
    PROVE  Spec => []OncePerOccurrence
<1>1. OnceInv => OncePerOccurrence
  BY DEF OnceInv
<1> QED
  BY <1>1, OnceInvariant, PTL

(* In once mode a schedule is next due strictly after its last run: edits   *)
(* never move it back to an occurrence it has had.                          *)
THEOREM NextRunIsLater ==
    ASSUME ~RuntimeOn
    PROVE  Spec => []NextRunAfterLast
<1>1. OnceInv => NextRunAfterLast
  BY DEF OnceInv
<1> QED
  BY <1>1, OnceInvariant, PTL

-----------------------------------------------------------------------------
(* In both modes, a run that is recorded, or is about to be, has its job:   *)
(* a callback that has enqueued, and the part of a due-run that is done.    *)
Enqueued(s, m) == enqueued[s][m] > 0

HasJob(s) ==
    Exists(s) /\ schedules[s].lastRun # Never
        => \E m \in 0 .. schedules[s].lastRun : Enqueued(s, m)

JobInv ==
    /\ \A s \in Sched : HasJob(s)
    /\ firing # NoFiring => Enqueued(firing.sched, firing.at)
    /\ run # NoRun => \A s \in run.done : Enqueued(s, schedules[s].nextRun)

(* enqueueJob for a schedule: no job enqueued before is lost. *)
LEMMA CountKeeps ==
    ASSUME RunInv, NEW s \in Sched, NEW m \in Minute, Count(s, m)
    PROVE  /\ Enqueued(s, m)'
           /\ \A q \in Sched, n \in Minute : Enqueued(q, n) => Enqueued(q, n)'
<1>1. enqueued \in [Sched -> [Minute -> Nat]]
  BY DEF RunInv, TypeOK
<1>2. \A q \in Sched, n \in Minute :
         enqueued'[q][n] = IF q = s /\ n = m THEN enqueued[q][n] + 1 ELSE enqueued[q][n]
  BY <1>1 DEF Count
<1> QED
  BY <1>1, <1>2 DEF Enqueued

(* A step that stores nothing about a run and counts no job down. *)
LEMMA KeepsJobs ==
    ASSUME RunInv, JobInv,
           \A q \in Sched, n \in Minute : Enqueued(q, n) => Enqueued(q, n)',
           NEW s \in Sched,
           Exists(s)' => \/ schedules'[s].lastRun = Never
                         \/ Exists(s) /\ schedules'[s].lastRun = schedules[s].lastRun
    PROVE  HasJob(s)'
<1> SUFFICES ASSUME Exists(s)', schedules'[s].lastRun # Never
             PROVE  \E m \in 0 .. schedules'[s].lastRun : Enqueued(s, m)'
  BY DEF HasJob
<1>1. Exists(s) /\ schedules'[s].lastRun = schedules[s].lastRun /\ schedules[s].lastRun \in Minute
  BY DEF RunInv, TypeOK, Exists, Schedule, Time
<1>2. PICK m \in 0 .. schedules[s].lastRun : Enqueued(s, m)
  BY <1>1 DEF JobInv, HasJob
<1>3. m \in Minute
  BY <1>1, <1>2, TimeAssumption DEF Minute
<1> QED
  BY <1>1, <1>2, <1>3

LEMMA JobInit == Init => JobInv
BY DEF Init, JobInv, HasJob, Exists

LEMMA JobStep ==
    ASSUME RunInv, JobInv, [Next]_vars
    PROVE  JobInv'
<1> DEFINE Kept == \A q \in Sched, n \in Minute : Enqueued(q, n) => Enqueued(q, n)'
<1>1. ASSUME NEW s \in Sched, NEW schedule \in Schedule \cup {NoSchedule},
             schedules' = [schedules EXCEPT ![s] = schedule], run = NoRun, run' = NoRun,
             firing' = firing, enqueued' = enqueued,
             schedule # NoSchedule => \/ schedule.lastRun = Never
                                      \/ Exists(s) /\ schedule.lastRun = schedules[s].lastRun
      PROVE  JobInv'
  <2>1. Kept
    BY <1>1 DEF Enqueued
  <2>2. /\ schedules'[s] = schedule
        /\ \A q \in Sched : q # s => schedules'[q] = schedules[q]
    BY <1>1 DEF RunInv, TypeOK
  <2>3. ASSUME NEW q \in Sched PROVE HasJob(q)'
    <3>1. Exists(q)' => \/ schedules'[q].lastRun = Never
                        \/ Exists(q) /\ schedules'[q].lastRun = schedules[q].lastRun
      BY <1>1, <2>2 DEF Exists
    <3> QED
      BY <2>1, <3>1, KeepsJobs
  <2> QED
    BY <1>1, <2>3 DEF JobInv, Enqueued
<1>2. ASSUME NEW s \in Sched, NEW c \in Cron, NEW enabled \in BOOLEAN, CreateSchedule(s, c, enabled)
      PROVE  JobInv'
  <2> DEFINE new == [cron |-> c, enabled |-> enabled, lastRun |-> Never,
                     nextRun |-> IF enabled THEN NextRun(c, now) ELSE Never]
  <2>1. now \in Time
    BY DEF RunInv, TypeOK, Time
  <2>2. new \in Schedule /\ new.lastRun = Never
    BY <2>1, NextRunType DEF Schedule, Time
  <2>3. /\ schedules' = [schedules EXCEPT ![s] = new] /\ run = NoRun /\ run' = NoRun
        /\ firing' = firing /\ enqueued' = enqueued
    BY <1>2 DEF CreateSchedule, Unlocked, runtimeVars
  <2> HIDE DEF new
  <2> QED
    BY <1>1, <2>2, <2>3
<1>3. ASSUME NEW s \in Sched, NEW c \in Cron, NEW enabled \in BOOLEAN, EditSchedule(s, c, enabled)
      PROVE  JobInv'
  <2> DEFINE new == Updated(s, c, enabled, schedules[s].lastRun)
  <2>1. Exists(s) /\ schedules[s].lastRun \in Time /\ TypeOK
    BY <1>3 DEF EditSchedule, RunInv, TypeOK, Exists, Schedule
  <2>2. new \in Schedule /\ new.lastRun = schedules[s].lastRun
    BY <2>1, UpdatedType DEF Updated
  <2>3. /\ schedules' = [schedules EXCEPT ![s] = new] /\ run = NoRun /\ run' = NoRun
        /\ firing' = firing /\ enqueued' = enqueued
    BY <1>3 DEF EditSchedule, Unlocked, runtimeVars
  <2> HIDE DEF new
  <2> QED
    BY <1>1, <2>1, <2>2, <2>3
<1>4. ASSUME NEW s \in Sched, DeleteSchedule(s) PROVE JobInv'
  BY <1>1, <1>4 DEF DeleteSchedule, Unlocked, runtimeVars
<1>5. ASSUME UNCHANGED schedules, Kept,
             firing' # NoFiring => \/ firing' = firing
                                   \/ Enqueued(firing.sched, firing.at)',
             run' # NoRun => \A s \in run'.done : Enqueued(s, schedules[s].nextRun)'
      PROVE  JobInv'
  <2>1. ASSUME NEW s \in Sched PROVE HasJob(s)'
    BY <1>5, <2>1, KeepsJobs DEF Exists
  <2>2. ASSUME firing' # NoFiring, firing' = firing PROVE Enqueued(firing.sched, firing.at)'
    <3>1. firing.sched \in Sched /\ firing.at \in Minute /\ Enqueued(firing.sched, firing.at)
      BY <2>2 DEF RunInv, TypeOK, JobInv
    <3>2. enqueued'[firing.sched][firing.at] > 0
      BY <1>5, <3>1 DEF Enqueued
    <3> QED
      BY <2>2, <3>2 DEF Enqueued
  <2> QED
    BY <1>5, <2>1, <2>2 DEF JobInv, Enqueued
<1>6. ASSUME UNCHANGED enqueued, run' # NoRun => run' = run PROVE
             /\ Kept
             /\ UNCHANGED schedules =>
                   (run' # NoRun => \A s \in run'.done : Enqueued(s, schedules[s].nextRun)')
  BY <1>6 DEF JobInv, Enqueued
<1>7. CASE StartRuntime \/ StopRuntime \/ FireUpdateThrows \/ RunThrows \/ Tick \/ UNCHANGED vars
  <2>1. /\ UNCHANGED <<schedules, enqueued>> /\ (run' # NoRun => run' = run)
        /\ (firing' # NoFiring => firing' = firing)
    BY <1>7 DEF StartRuntime, StopRuntime, FireUpdateThrows, RunThrows, Tick, vars, runtimeVars
  <2> HIDE DEF Kept
  <2> QED
    BY <1>5, <1>6, <2>1
<1>8. CASE RunBegins
  <2>1. Kept
    BY <1>8 DEF RunBegins, Enqueued
  <2> HIDE DEF Kept
  <2> QED
    BY <1>5, <1>8, <2>1 DEF RunBegins, runtimeVars
<1>9. ASSUME NEW s \in Sched, FireEnqueues(s) PROVE JobInv'
  <2>1. now \in Minute /\ Count(s, now) /\ firing' = [sched |-> s, at |-> now]
        /\ UNCHANGED <<now, schedules, run>>
    BY <1>9 DEF FireEnqueues, RunInv, TypeOK
  <2>2. Kept /\ Enqueued(s, now)'
    BY <2>1, CountKeeps
  <2>3. firing'.sched = s /\ firing'.at = now /\ enqueued'[s][now] > 0
    BY <2>1, <2>2, <1>9 DEF FireEnqueues, Enqueued
  <2>4. ASSUME run # NoRun, NEW q \in run.done PROVE Enqueued(q, schedules[q].nextRun)'
    <3>1. q \in Sched /\ schedules[q].nextRun \in Minute /\ Enqueued(q, schedules[q].nextRun)
      BY <2>4 DEF RunInv, LoadedInv, TypeOK, Run, JobInv
    <3>2. enqueued'[q][schedules[q].nextRun] > 0
      BY <2>2, <3>1 DEF Enqueued
    <3> QED
      BY <2>1, <3>2 DEF Enqueued
  <2>5. Enqueued(firing.sched, firing.at)'
    BY <2>3 DEF Enqueued
  <2> HIDE DEF Kept
  <2> QED
    BY <1>5, <2>1, <2>2, <2>4, <2>5
<1>10. ASSUME NEW s \in Sched, RunEnqueues(s) PROVE JobInv'
  <2>1. run # NoRun /\ run \in Run /\ run.state = schedules /\ s \in run.todo
        /\ schedules[s].nextRun \in Minute
    BY <1>10 DEF RunEnqueues, RunInv, LoadedInv, TypeOK
  <2>2. Count(s, schedules[s].nextRun) /\ UNCHANGED <<schedules, firing>>
    BY <1>10, <2>1 DEF RunEnqueues, runtimeVars
  <2>3. Kept /\ Enqueued(s, schedules[s].nextRun)'
    BY <2>1, <2>2, CountKeeps
  <2>4. run'.done = run.done \cup {s}
    BY <1>10, <2>1 DEF RunEnqueues, Run
  <2>5. ASSUME NEW q \in run'.done PROVE Enqueued(q, schedules[q].nextRun)'
    <3>1. CASE q = s
      BY <2>3, <3>1
    <3>2. CASE q # s
      <4>1. q \in Sched /\ schedules[q].nextRun \in Minute /\ Enqueued(q, schedules[q].nextRun)
        BY <2>1, <2>4, <2>5, <3>2 DEF RunInv, LoadedInv, TypeOK, Run, JobInv
      <4>2. enqueued'[q][schedules[q].nextRun] > 0
        BY <2>3, <4>1 DEF Enqueued
      <4> QED
        BY <2>2, <4>2 DEF Enqueued
    <3> QED
      BY <3>1, <3>2
  <2> HIDE DEF Kept
  <2> QED
    BY <1>5, <2>2, <2>3, <2>5
<1>11. CASE FireUpdates
  <2>1. PICK s \in Sched, at \in Minute : s = firing.sched /\ at = firing.at
    BY <1>11 DEF FireUpdates, RunInv, TypeOK
  <2>2. /\ Enqueued(s, at) /\ firing' = NoFiring /\ run = NoRun /\ UNCHANGED <<enqueued, run>>
        /\ schedules' = IF Exists(s)
                        THEN [schedules EXCEPT ![s] = Updated(s, @.cron, @.enabled, at)]
                        ELSE schedules
    BY <1>11, <2>1 DEF FireUpdates, Unlocked, JobInv
  <2>3. Kept
    BY <2>2 DEF Enqueued
  <2>4. CASE Exists(s)
    <3>1. schedules'[s].lastRun = at /\ \A q \in Sched : q # s => schedules'[q] = schedules[q]
      BY <2>2, <2>4 DEF Updated, RunInv, TypeOK
    <3>2. HasJob(s)'
      <4>1. at \in 0 .. at
        BY TimeAssumption DEF Minute
      <4>2. enqueued'[s][at] > 0
        BY <2>2 DEF Enqueued
      <4> QED
        BY <3>1, <4>1, <4>2 DEF HasJob, Enqueued
    <3>3. ASSUME NEW q \in Sched, q # s PROVE HasJob(q)'
      BY <2>3, <3>1, <3>3, KeepsJobs DEF Exists
    <3> QED
      BY <2>2, <3>2, <3>3 DEF JobInv
  <2>5. CASE ~Exists(s)
    BY <1>5, <2>2, <2>3, <2>5
  <2> QED
    BY <2>4, <2>5
<1>12. CASE RunPersists
  <2>1. run # NoRun /\ run' = NoRun /\ schedules' = Ran(run.done) /\ UNCHANGED <<enqueued, firing>>
    BY <1>12 DEF RunPersists, runtimeVars
  <2>2. Kept
    BY <2>1 DEF Enqueued
  <2>3. run \in Run /\ run.state = schedules
    BY <2>1 DEF RunInv, TypeOK, LoadedInv
  <2>4. ASSUME NEW s \in Sched PROVE HasJob(s)'
    <3>1. CASE s \in run.done
      <4>1. /\ Exists(s) /\ schedules[s] \in Schedule /\ schedules[s].nextRun \in Minute
            /\ schedules[s].nextRun <= run.at /\ Enqueued(s, schedules[s].nextRun)
        BY <2>1, <3>1 DEF RunInv, LoadedInv, TypeOK, Exists, JobInv
      <4>2. schedules'[s].lastRun = run.at
        BY <2>1, <2>3, <3>1, <4>1 DEF Ran, Schedule
      <4>3. PICK m \in Minute : m = schedules[s].nextRun /\ m <= run.at
        BY <4>1
      <4>4. m \in 0 .. run.at /\ enqueued'[s][m] > 0
        BY <2>1, <2>3, <4>1, <4>3, TimeAssumption DEF Minute, Run, Enqueued
      <4> QED
        BY <4>2, <4>4 DEF HasJob, Enqueued
    <3>2. CASE s \notin run.done
      BY <2>1, <2>2, <2>3, <2>4, <3>2, KeepsJobs DEF Ran, Exists
    <3> QED
      BY <3>1, <3>2
  <2> QED
    BY <2>1, <2>4 DEF JobInv, Enqueued
<1> QED
  BY <1>2, <1>3, <1>4, <1>7, <1>8, <1>9, <1>10, <1>11, <1>12 DEF Next

(* A schedule that says it has run has had a job no later than that, in     *)
(* either mode or both at once, whatever is edited or throws: the callback  *)
(* of node-cron and runDueSchedules record a run only after enqueueJob.     *)
THEOREM RecordedRunsHaveJobs == Spec => []LastRunHasJob
<1>1. JobInv => LastRunHasJob
  BY DEF JobInv, HasJob, LastRunHasJob, Enqueued
<1>2. RunInv /\ JobInv /\ [Next]_vars => JobInv'
  BY JobStep
<1> QED
  BY <1>1, <1>2, JobInit, RunInvariant, PTL DEF Spec
-----------------------------------------------------------------------------
(* What is due at a run's timestamp is in its hands: nobody edits a         *)
(* schedule while the run holds the lock.                                   *)
TakenInv ==
    run # NoRun => \A s \in Sched : DueAt(s, run.at) => s \in run.todo \cup run.done

LEMMA TakenStep == RunInv /\ TakenInv /\ [Next]_vars => TakenInv'
<1> SUFFICES ASSUME RunInv, TakenInv, [Next]_vars, run' # NoRun
             PROVE  \A s \in Sched : DueAt(s, run.at)' => s \in run'.todo \cup run'.done
  BY DEF TakenInv
<1>1. CASE RunBegins
  BY <1>1 DEF RunBegins, Due, DueAt, Exists
<1>2. ASSUME NEW s \in Sched, RunEnqueues(s)
      PROVE  \A q \in Sched : DueAt(q, run.at)' => q \in run'.todo \cup run'.done
  <2>1. run \in Run /\ run # NoRun /\ schedules' = schedules
    BY <1>2 DEF RunEnqueues, RunInv, TypeOK
  <2>2. run'.at = run.at /\ run'.todo = run.todo \ {s} /\ run'.done = run.done \cup {s}
    BY <1>2, <2>1 DEF RunEnqueues, Run
  <2> QED
    BY <2>1, <2>2 DEF TakenInv, DueAt, Exists
<1>3. CASE run' = run /\ schedules' = schedules
  BY <1>3 DEF TakenInv, DueAt, Exists
<1>4. RunBegins \/ (\E s \in Sched : RunEnqueues(s)) \/ (run' = run /\ schedules' = schedules)
  BY DEF Next, vars, CreateSchedule, EditSchedule, DeleteSchedule, FireEnqueues, StartRuntime, StopRuntime,
         FireUpdates, FireUpdateThrows, RunPersists, RunThrows, Tick, Unlocked
<1> QED
  BY <1>1, <1>2, <1>3, <1>4

(* A due-run that ends without a throw has served everything that was due   *)
(* at its timestamp, in both modes, for any schedules, edits and firings    *)
(* (runDueSchedules).                                                       *)
THEOREM RunsServeWhatIsDue == Spec => RunServesDue
<1> DEFINE Served(s) == /\ enqueued[s][schedules[s].nextRun] > 0
                        /\ schedules'[s].lastRun = run.at
                        /\ schedules'[s].nextRun = Never \/ schedules'[s].nextRun > run.at
           Serves == run # NoRun /\ run' = NoRun /\ throws' = throws =>
                        \A s \in Sched : DueAt(s, run.at) => Served(s)
<1>1. Init => TakenInv
  BY DEF Init, TakenInv
<1>2. ASSUME RunInv, JobInv, TakenInv, Next, run # NoRun, run' = NoRun, throws' = throws,
             NEW s \in Sched, DueAt(s, run.at)
      PROVE  Served(s)
  <2>1. ~ RunThrows
    BY <1>2, ModeAssumption DEF RunThrows, Throw, RunInv, TypeOK
  <2>2. RunPersists
    <3>1. ASSUME NEW q \in Sched, NEW c \in Cron, NEW enabled \in BOOLEAN,
                 CreateSchedule(q, c, enabled) \/ EditSchedule(q, c, enabled)
          PROVE  run' = run
      BY <3>1 DEF CreateSchedule, EditSchedule
    <3>2. ASSUME NEW q \in Sched, RunEnqueues(q) PROVE run' \in Run
      <4>1. run \in Run /\ q \in run.todo
        BY <1>2, <3>2 DEF RunEnqueues, RunInv, TypeOK
      <4> QED
        BY <3>2, <4>1 DEF RunEnqueues, Run
    <3>3. ASSUME NEW q \in Sched, DeleteSchedule(q) \/ FireEnqueues(q) PROVE run' = run
      BY <3>3 DEF DeleteSchedule, FireEnqueues
    <3>4. CASE StartRuntime \/ StopRuntime \/ FireUpdates \/ FireUpdateThrows \/ Tick
      BY <1>2, <3>4 DEF StartRuntime, StopRuntime, FireUpdates, FireUpdateThrows, Tick
    <3>5. ~ RunBegins
      BY <1>2 DEF RunBegins, Unlocked
    <3> HIDE DEF Served
    <3> QED
      BY <1>2, <2>1, <3>1, <3>2, <3>3, <3>4, <3>5, RunAssumption DEF Next
  <2>3. s \in run.done /\ run.state = schedules /\ run \in Run
    BY <1>2, <2>2 DEF RunPersists, TakenInv, RunInv, LoadedInv, TypeOK
  <2>4. /\ enqueued[s][schedules[s].nextRun] > 0 /\ schedules[s] \in Schedule
        /\ schedules[s].cron \in Cron /\ run.at \in Time
    BY <1>2, <2>3 DEF JobInv, Enqueued, DueAt, Exists, RunInv, TypeOK, Schedule, Run, Time
  <2>5. schedules'[s].lastRun = run.at /\ schedules'[s].nextRun = NextRun(schedules[s].cron, run.at)
    BY <2>2, <2>3, <2>4 DEF RunPersists, Ran, Schedule
  <2> QED
    BY <2>4, <2>5, NextRunLater
<1>3. RunInv /\ JobInv /\ TakenInv /\ [Next]_vars => [Serves]_vars
  BY <1>2 DEF vars
<1>4. RunServesDue <=> [][Serves]_vars
  BY DEF RunServesDue
<1>5. RunInv /\ JobInv /\ [Next]_vars => JobInv'
  BY JobStep
<1> HIDE DEF Serves
<1> QED
  BY <1>1, <1>3, <1>4, <1>5, TakenStep, JobInit, RunInvariant, PTL DEF Spec
=============================================================================
