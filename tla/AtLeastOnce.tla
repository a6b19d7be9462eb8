---------------------------- MODULE AtLeastOnce ----------------------------
(* What the platform promises the receivers of its webhooks: whatever is    *)
(* posted is an event on record; nothing is posted again, nor given up,     *)
(* that its receiver has accepted, unless a failing write or the end of the *)
(* worker has put that in doubt; and what counts as delivered was accepted. *)

CONSTANTS Event, Receiver

VARIABLES events,     \* the events on record
          status,     \* of each delivery
          accepted,   \* the deliveries their receivers have accepted
          doubted     \* those of them the platform may not know of

vars == <<events, status, accepted, doubted>>

Delivery == Event \X Receiver

Init == /\ events = {}
        /\ status = [d \in Delivery |-> "none"]
        /\ accepted = {}
        /\ doubted = {}

Moves(d, from, to) == status[d] = from /\ status' = [status EXCEPT ![d] = to]

KnownAccepted(d) == d \in accepted \ doubted

Record(e) == /\ events' = events \cup {e}
             /\ UNCHANGED <<status, accepted, doubted>>

Order(d) == /\ Moves(d, "none", "waiting")
            /\ d[1] \in events
            /\ UNCHANGED <<events, accepted, doubted>>

Post(d) == /\ Moves(d, "waiting", "posted")
           /\ d[1] \in events
           /\ ~ KnownAccepted(d)
           /\ UNCHANGED <<events, accepted, doubted>>

(* An attempt may also fail before anything is posted. *)
Fail(d) == /\ Moves(d, "waiting", "answered")
           /\ UNCHANGED <<events, accepted, doubted>>

Answer(d, ok) == /\ Moves(d, "posted", "answered")
                 /\ accepted' = IF ok THEN accepted \cup {d} ELSE accepted
                 /\ UNCHANGED <<events, doubted>>

Doubt(d) == /\ status[d] = "answered" /\ d \in accepted
            /\ doubted' = doubted \cup {d}
            /\ UNCHANGED <<events, status, accepted>>

Retry(d) == /\ Moves(d, "answered", "waiting")
            /\ ~ KnownAccepted(d)
            /\ UNCHANGED <<events, accepted, doubted>>

Deliver(d) == /\ Moves(d, "answered", "delivered")
              /\ d \in accepted
              /\ UNCHANGED <<events, accepted, doubted>>

GiveUp(d) == /\ Moves(d, "answered", "failed")
             /\ ~ KnownAccepted(d)
             /\ UNCHANGED <<events, accepted, doubted>>

(* The worker ends: what it was at is to be made again, or given up. *)
UnderWay == {d \in Delivery : status[d] \in {"posted", "answered"}}

Interrupt ==
    /\ \E again \in SUBSET UnderWay :
          status' = [d \in Delivery |-> IF d \notin UnderWay THEN status[d]
                                        ELSE IF d \in again THEN "waiting" ELSE "failed"]
    /\ doubted' = doubted \cup (accepted \cap UnderWay)
    /\ UNCHANGED <<events, accepted>>

Next ==
    \/ \E e \in Event : Record(e)
    \/ \E d \in Delivery : \/ Order(d) \/ Post(d) \/ Fail(d)
                           \/ \E ok \in BOOLEAN : Answer(d, ok)
                           \/ Doubt(d) \/ Retry(d) \/ Deliver(d) \/ GiveUp(d)
    \/ Interrupt

Spec == Init /\ [][Next]_vars
=============================================================================
