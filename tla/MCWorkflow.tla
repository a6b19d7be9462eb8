----------------------------- MODULE MCWorkflow -----------------------------
(* Two requests, so that one call can decide one while another waits, and   *)
(* three calls, so that two can overlap and a third come after both.        *)
EXTENDS Workflow, TLC

Symmetry == Permutations(Request) \cup Permutations(Reviewer) \cup Permutations(Call)
=============================================================================
