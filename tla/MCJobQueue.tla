----------------------------- MODULE MCJobQueue -----------------------------
(* Two workers make a second one that takes over a job the first still has. *)
(* Jobs share nothing but the workers, so one is enough.                    *)
EXTENDS JobQueue
=============================================================================
