---------------------------- MODULE AtomicStore ----------------------------
(* What a file-backed store of the platform promises to the code that calls *)
(* one of its mutating operations: every call takes effect at one instant   *)
(* or not at all, an effect is never undone, and a call that returns        *)
(* without throwing has taken effect.  FileStore implements this with a     *)
(* lock file and a whole-file rewrite.                                      *)

CONSTANT Update     \* the calls that may be issued, each one at most once

VARIABLES content,  \* the effects the store holds
          returned, \* the calls that returned normally
          thrown    \* the calls that threw

vars == <<content, returned, thrown>>

Init == /\ content = {}
        /\ returned = {}
        /\ thrown = {}

(* The effect of call u becomes visible. *)
TakeEffect(u) == /\ u \notin content \cup returned \cup thrown
                 /\ content' = content \cup {u}
                 /\ UNCHANGED <<returned, thrown>>

(* Call u reports success: only after its effect. *)
Return(u) == /\ u \in content \ returned
             /\ returned' = returned \cup {u}
             /\ UNCHANGED <<content, thrown>>

(* Call u throws: it never took effect and never will. *)
Throw(u) == /\ u \notin content \cup thrown
            /\ thrown' = thrown \cup {u}
            /\ UNCHANGED <<content, returned>>

Next == \E u \in Update : TakeEffect(u) \/ Return(u) \/ Throw(u)

Spec == Init /\ [][Next]_vars
=============================================================================
