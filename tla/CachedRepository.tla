-------------------------- MODULE CachedRepository --------------------------
(* A file a repository object reads once and from then on overwrites with   *)
(* the copy it keeps: packages/audit, event-core, webhooks and media-core.  *)
(* There is no lock; several instances may keep copies of one file.         *)
CONSTANTS Instance, Empty, None

VARIABLES file,   \* the document, or None: missing or cut off within a write
          copy    \* what each instance has loaded, or None

OnFile == IF file = None THEN Empty ELSE file

View(i) == IF copy[i] = None THEN OnFile ELSE copy[i]

Unchanged == UNCHANGED <<file, copy>>

(* The first use.  One that falls into another process's write of the file  *)
(* finds no document it can parse, and takes that for an empty one, which   *)
(* audit's repository goes on to write.                                     *)
Missing(i, torn) == copy[i] = None /\ (torn \/ file = None)

Load(i, torn) ==
    /\ UNCHANGED file
    /\ copy' = [copy EXCEPT ![i] = IF @ # None THEN @ ELSE IF torn THEN Empty ELSE OnFile]

Save(i, doc) ==
    /\ file' = doc
    /\ copy' = [copy EXCEPT ![i] = doc]

(* The process of some instances ends, perhaps within a write. *)
Restart(I, torn) ==
    /\ file' = IF torn THEN None ELSE file
    /\ copy' = [i \in Instance |-> IF i \in I THEN None ELSE copy[i]]
=============================================================================
