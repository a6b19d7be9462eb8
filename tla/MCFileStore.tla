---------------------------- MODULE MCFileStore ----------------------------
(* Two processes (the API and the worker) and three updates, the fewest     *)
(* with which one process can complete a call between two of another's.     *)
EXTENDS FileStore, TLC

UpdateSymmetry == Permutations(Update)
=============================================================================
