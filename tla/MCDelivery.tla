----------------------------- MODULE MCDelivery -----------------------------
(* A behaviour exercises one part: the API alone, with every call on        *)
(* webhooks; deliveries, next to the events that cause them; one delivery   *)
(* with every call and both processes; or the audit trail of one delivery.  *)
(* Only in the first and the last does an author find the audit file        *)
(* missing or in the middle of a write.                                     *)
EXTENDS Delivery, FiniteSets, TLC

VARIABLES part,     \* bound: the part that changes
          crashed   \* bound: where both processes run, one of them ends once

mcVars == <<vars, part, crashed>>

Parts == {"registry", "deliveries", "together", "trail"}

AllTypes == {Type}

Queued == {j \in Job : job'[j].at # "none"}
Made == {w \in Webhook : \E i \in Process : Hooks!View(i)'.webhooks[w] # None}

MCInit ==
    /\ Init /\ part \in Parts /\ crashed = FALSE
    /\ part \in {"registry", "trail"} <=> auditFile = None

Crash == crashed = FALSE /\ crashed' = TRUE /\ (ApiCrash \/ WorkerCrash)

(* The deliveries, and what queues them. *)
Work ==
    \/ JobNext
    \/ \E w \in Webhook : Enqueue(w)
    \/ \E e \in Event : SaveEvent(e)
    \/ AuditApi
    \/ api.at = "enqueueing" /\ ReadAudit
    \/ \E j \in Job : ReadAuditToAppend(j)
    \/ \E a \in Author : ResetAudit(a)

MCNext ==
    /\ \/ part = "registry" /\ ApiNext /\ UNCHANGED crashed
       \/ /\ part = "deliveries"
          /\ \/ /\ \/ Work \/ Emit
                   \/ \E w \in Webhook :
                         CreateWebhook(w, [types |-> {"job.created"}, enabled |-> TRUE])
                /\ UNCHANGED crashed
             \/ Crash
          /\ Cardinality(Made) <= 1
       \/ /\ part = "together"
          /\ \/ /\ \/ Work
                   \/ \E w \in Webhook, on \in BOOLEAN : CreateWebhook(w, [types |-> Type, enabled |-> on])
                   \/ \E u \in Update, w \in Webhook : BeginUpdate(u, w)
                   \/ \E u \in Update : FinishUpdate(u, Type, TRUE)
                   \/ \E w \in Webhook : DeleteWebhook(w)
                /\ UNCHANGED crashed
             \/ Crash
          /\ Cardinality(Queued) <= 1 /\ Cardinality(Made) <= 1
       \/ /\ part = "trail"
          /\ \/ /\ \/ Work \/ Emit \/ ReadAudit
                   \/ \E w \in Webhook : CreateWebhook(w, [types |-> Type, enabled |-> TRUE])
                /\ UNCHANGED crashed
             \/ Crash
          /\ Cardinality(Queued) <= 1 /\ Cardinality(Made) <= 1
    /\ part \in {"deliveries", "together"} => resetting' = {}
    /\ UNCHANGED part

MCSpec == MCInit /\ [][MCNext]_mcVars

Symmetry == Permutations(Webhook) \cup Permutations(Event)
=============================================================================
