---------------------------- MODULE MCScheduler ----------------------------
(* Two schedules make a due-run that has a job yet to enqueue when another  *)
(* is enqueued; two expressions with different minutes let an edit move the *)
(* next run both ways.                                                      *)
EXTENDS Scheduler, TLC

CONSTANTS often, rare

Occurrences == often :> 1 .. Horizon @@ rare :> {m \in 1 .. Horizon : m % 2 = 0}

Symmetry == Permutations(Sched)
=============================================================================
