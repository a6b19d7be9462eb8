------------------------------ MODULE Delivery ------------------------------
(* Webhooks, events, their deliveries and the audit trail                   *)
(* (packages/webhooks, event-core, audit, apps/api/src/webhooks and audit,  *)
(* apps/worker/src/jobs).  The API process records what its handlers do as  *)
(* an event, queues a delivery for every webhook that asked for it, and     *)
(* writes an audit record; the worker process posts the deliveries and      *)
(* records them.  Both keep copies of the webhook and the event file; the   *)
(* API and, twice, the worker keep a copy of the audit file.  The queue is  *)
(* JobQueue's, reduced to what a delivery needs.                            *)
EXTENDS Naturals

CONSTANTS Webhook, Event,
          Update,         \* updates that wait for their request's body
          Subscriptions,  \* the sets of types webhooks are made with
          MaxAttempts,    \* the attempts a job has
          None

Type == {"webhook.created", "webhook.updated", "webhook.deleted", "job.created"}
Process == {"api", "worker"}
Author == {"api", "handlers", "loop"}  \* the instances that keep audit records
Job == Event \X Webhook
Result == {"success", "failed"}

Record == [types : SUBSET Type, enabled : BOOLEAN]
HookDocument == [webhooks : [Webhook -> Record \cup {None}],
                 deliveries : SUBSET (Job \X Result)]
NoHooks == [webhooks |-> [w \in Webhook |-> None], deliveries |-> {}]

AuditRecord == Author \X (Event \cup Job)

ASSUME DeliveryAssumption ==
    /\ MaxAttempts \in Nat \ {0}
    /\ Subscriptions \subseteq SUBSET Type
    /\ None \notin Webhook \cup Event

(* None stands for null and for a file that holds no document.              *)
ASSUME NoneIsNothing ==
    /\ None \notin Record \cup HookDocument
    /\ \A events \in SUBSET Event : events # None
    /\ \A records \in SUBSET AuditRecord : records # None

VARIABLES hookFile, hookCopy, eventFile, eventCopy, auditFile, auditCopy,
          api,       \* what the API process is in the middle of
          update,    \* the webhook and the record each open update has read
          job,
          deleted,   \* history: webhooks deleted since the API process started
          accepted,  \* history: jobs whose receiver answered 2xx
          cutShort,  \* history: those of them a failed write or a crash cut off
          eventsTorn, \* history: was an event file cut off?
          resetting, \* authors that have yet to write the empty document
          own,       \* history: what each author appended since it started
          lastAuthor \* history: who wrote the audit file last

hookVars == <<hookFile, hookCopy>>
eventVars == <<eventFile, eventCopy>>
auditVars == <<auditFile, auditCopy, resetting, own, lastAuthor>>
jobVars == <<job, accepted, cutShort>>
apiVars == <<api, update, deleted, eventsTorn>>
vars == <<hookVars, eventVars, auditVars, jobVars, apiVars>>

Hooks == INSTANCE CachedRepository WITH
    Instance <- Process, Empty <- NoHooks, file <- hookFile, copy <- hookCopy
Events == INSTANCE CachedRepository WITH
    Instance <- Process, Empty <- {}, file <- eventFile, copy <- eventCopy
Audit == INSTANCE CachedRepository WITH
    Instance <- Author, Empty <- {}, file <- auditFile, copy <- auditCopy

InFlight == {"posting", "answered", "recorded", "concluding"}

TypeOK ==
    /\ hookFile \in HookDocument \cup {None}
    /\ hookCopy \in [Process -> HookDocument \cup {None}]
    /\ eventFile \in (SUBSET Event) \cup {None}
    /\ eventCopy \in [Process -> (SUBSET Event) \cup {None}]
    /\ auditFile \in (SUBSET AuditRecord) \cup {None}
    /\ auditCopy \in [Author -> (SUBSET AuditRecord) \cup {None}]
    /\ api \in [at : {"idle", "emitting", "enqueueing"}, type : Type,
                event : Event \cup {None}, left : SUBSET Webhook]
    /\ update \in [Update -> [webhook : Webhook \cup {None}, existing : Record \cup {None}]]
    /\ job \in [Job -> [at : {"none", "queued", "done", "failed"} \cup InFlight,
                        ok : BOOLEAN, attempts : 0..MaxAttempts]]
    /\ deleted \in SUBSET Webhook
    /\ accepted \in SUBSET Job /\ cutShort \in SUBSET Job
    /\ eventsTorn \in BOOLEAN
    /\ resetting \in SUBSET Author
    /\ own \in [Author -> SUBSET AuditRecord]
    /\ lastAuthor \in Author

-----------------------------------------------------------------------------
(* The API process: a handler's call runs to its end without an await, from *)
(* its change over the event and the deliveries to the audit record.        *)

ApiIdle == [at |-> "idle", type |-> "job.created", event |-> None, left |-> {}]

Emitting(type) == [ApiIdle EXCEPT !.at = "emitting", !.type = type]

NoUpdate == [webhook |-> None, existing |-> None]

ApiFree == api.at = "idle" /\ "api" \notin resetting

Stored(w) == Hooks!View("api").webhooks[w]

(* An id no process has seen. *)
NewWebhook(w) ==
    /\ w \notin deleted
    /\ \A i \in Process : Hooks!View(i).webhooks[w] = None
    /\ \A e \in Event : job[<<e, w>>].at = "none"
    /\ \A u \in Update : update[u].webhook # w

NewEvent(e) ==
    /\ \A i \in Process : e \notin Events!View(i)
    /\ \A w \in Webhook : job[<<e, w>>].at = "none"
    /\ \A a \in Author : <<"api", e>> \notin Audit!View(a)

SaveWebhook(w, record) ==
    Hooks!Save("api", [Hooks!View("api") EXCEPT !.webhooks[w] = record])

CreateWebhook(w, record) ==
    /\ ApiFree /\ NewWebhook(w)
    /\ SaveWebhook(w, record)
    /\ api' = Emitting("webhook.created")
    /\ UNCHANGED <<eventVars, auditVars, jobVars, update, deleted, eventsTorn>>

(* handleUpdateWebhook reads the record and then awaits the body. *)
BeginUpdate(u, w) ==
    /\ ApiFree /\ update[u] = NoUpdate
    /\ Hooks!Load("api", FALSE)
    /\ Stored(w) # None
    /\ update' = [update EXCEPT ![u] = [webhook |-> w, existing |-> Stored(w)]]
    /\ UNCHANGED <<eventVars, auditVars, jobVars, api, deleted, eventsTorn>>

(* updateWebhook as one that adds a record it does not find. *)
AddOrReplace(w, record) ==
    Hooks!Save("api", [Hooks!View("api") EXCEPT !.webhooks[w] = record])

(* updateWebhook maps the records it has: one deleted meanwhile stays so,   *)
(* and the update is reported all the same.                                 *)
Replace(w, record) ==
    Hooks!Save("api", [Hooks!View("api") EXCEPT
        !.webhooks[w] = IF @ = None THEN None ELSE record])

FinishUpdate(u, types, enabled) ==
    /\ ApiFree /\ update[u] # NoUpdate
    /\ types \in Subscriptions \cup {update[u].existing.types}
    /\ Replace(update[u].webhook, [types |-> types, enabled |-> enabled])
    /\ update' = [update EXCEPT ![u] = NoUpdate]
    /\ api' = Emitting("webhook.updated")
    /\ UNCHANGED <<eventVars, auditVars, jobVars, deleted, eventsTorn>>

RejectUpdate(u) ==
    /\ ApiFree /\ update[u] # NoUpdate
    /\ update' = [update EXCEPT ![u] = NoUpdate]
    /\ UNCHANGED <<hookVars, eventVars, auditVars, jobVars, api, deleted, eventsTorn>>

DeleteWebhook(w) ==
    /\ ApiFree /\ Stored(w) # None
    /\ SaveWebhook(w, None)
    /\ deleted' = deleted \cup {w}
    /\ api' = Emitting("webhook.deleted")
    /\ UNCHANGED <<eventVars, auditVars, jobVars, update, eventsTorn>>

(* A handler of another component emits: a job was made, a record changed. *)
Emit ==
    /\ ApiFree
    /\ api' = Emitting("job.created")
    /\ UNCHANGED <<hookVars, eventVars, auditVars, jobVars, update, deleted, eventsTorn>>

WebhookMatchesEvent(record, type) == record # None /\ record.enabled /\ type \in record.types

Matching(type) == {w \in Webhook : WebhookMatchesEvent(Stored(w), type)}

(* saveEvent, and the webhooks to deliver to; and one that leaves the event *)
(* to be saved with the audit record.                                       *)
DeferEvent(e) ==
    /\ api.at = "emitting" /\ NewEvent(e)
    /\ Hooks!Load("api", FALSE)
    /\ api' = [api EXCEPT !.at = "enqueueing", !.event = e, !.left = Matching(api.type)]
    /\ UNCHANGED <<eventVars, auditVars, jobVars, update, deleted, eventsTorn>>

SaveEvent(e) ==
    /\ api.at = "emitting" /\ NewEvent(e)
    /\ Events!Save("api", Events!View("api") \cup {e})
    /\ Hooks!Load("api", FALSE)
    /\ api' = [api EXCEPT !.at = "enqueueing", !.event = e, !.left = Matching(api.type)]
    /\ UNCHANGED <<auditVars, jobVars, update, deleted, eventsTorn>>

Enqueue(w) ==
    /\ api.at = "enqueueing" /\ w \in api.left
    /\ job' = [job EXCEPT ![<<api.event, w>>].at = "queued"]
    /\ api' = [api EXCEPT !.left = @ \ {w}]
    /\ UNCHANGED <<hookVars, eventVars, auditVars, accepted, cutShort, update, deleted,
                   eventsTorn>>

ApiAppends == api.at = "enqueueing" /\ api.left = {}

(* A first read that is a query's or finds nothing to parse, and what the   *)
(* latter writes.  Another process may be writing while it reads, and may   *)
(* have finished before the empty document is written.                      *)
OpenAudit(a, torn) ==
    /\ auditCopy[a] = None
    /\ Audit!Load(a, torn)
    /\ resetting' = IF Audit!Missing(a, torn) THEN resetting \cup {a} ELSE resetting
    /\ UNCHANGED <<own, lastAuthor>>

ResetAudit(a) ==
    /\ a \in resetting
    /\ Audit!Save(a, {})
    /\ resetting' = resetting \ {a} /\ lastAuthor' = a
    /\ UNCHANGED <<own, hookVars, eventVars, jobVars, apiVars>>

(* append: the author's copy, or what it reads, and one record more; one    *)
(* that appends to what the file has; and one that throws.                  *)
AppendToFile(a, x) ==
    /\ a \notin resetting /\ ~ Audit!Missing(a, FALSE)
    /\ Audit!Save(a, Audit!OnFile \cup {<<a, x>>})
    /\ own' = [own EXCEPT ![a] = @ \cup {<<a, x>>}]
    /\ lastAuthor' = a /\ UNCHANGED resetting

Append(a, x) ==
    /\ a \notin resetting /\ ~ Audit!Missing(a, FALSE)
    /\ Audit!Save(a, Audit!View(a) \cup {<<a, x>>})
    /\ own' = [own EXCEPT ![a] = @ \cup {<<a, x>>}]
    /\ lastAuthor' = a /\ UNCHANGED resetting

GiveUpAudit(A) == resetting' = resetting \ A /\ UNCHANGED <<auditFile, auditCopy, own, lastAuthor>>

AuditApi ==
    /\ ApiAppends
    /\ Append("api", api.event)
    /\ api' = ApiIdle
    /\ UNCHANGED <<hookVars, eventVars, jobVars, update, deleted, eventsTorn>>

(* The readers: GET of webhooks, of events and of audit records. *)
Writing == {j \in Job : job[j].at = "answered"}

ReadWebhooks ==
    /\ ApiFree
    /\ \E torn \in {FALSE, Writing # {}} : Hooks!Load("api", torn)
    /\ UNCHANGED <<eventVars, auditVars, jobVars, apiVars>>

ReadEvents ==
    /\ ApiFree
    /\ Events!Load("api", FALSE)
    /\ UNCHANGED <<hookVars, auditVars, jobVars, apiVars>>

ReadAudit ==
    /\ ApiFree \/ ApiAppends
    /\ \E torn \in {FALSE, \E j \in Job : job[j].at \in {"recorded", "concluding"}} :
          OpenAudit("api", torn) /\ (ApiAppends => Audit!Missing("api", torn))
    /\ UNCHANGED <<hookVars, eventVars, jobVars, apiVars>>

(* The process ends, by an enqueue that throws or otherwise, and starts     *)
(* again; the write it ended in is the one its stage comes to.              *)
ApiCrash ==
    \E torn \in BOOLEAN :
        /\ Hooks!Restart({"api"}, torn /\ api.at = "idle")
        /\ Events!Restart({"api"}, torn /\ api.at = "emitting")
        /\ Audit!Restart({"api"}, torn /\ (ApiAppends \/ "api" \in resetting))
        /\ eventsTorn' = (eventsTorn \/ (torn /\ api.at = "emitting"))
        /\ api' = ApiIdle
        /\ update' = [u \in Update |-> NoUpdate]
        /\ deleted' = {}
        /\ own' = [own EXCEPT !["api"] = {}] /\ resetting' = resetting \ {"api"}
        /\ UNCHANGED <<jobVars, lastAuthor>>

-----------------------------------------------------------------------------
(* The worker process: the handler of a delivery up to its post, and from   *)
(* the answer to the end, which no other job's step comes between.          *)

Synchronous == \A j \in Job : job[j].at \notin {"answered", "recorded", "concluding"}

To(j, at, ok) == job' = [job EXCEPT ![j].at = at, ![j].ok = ok]

(* An event or a webhook the worker's copies do not have fails the attempt  *)
(* without a delivery record.                                               *)
Take(j) ==
    /\ job[j].at = "queued" /\ Synchronous
    /\ \E torn \in {FALSE, api.at = "emitting"} : Events!Load("worker", torn)
    /\ \E torn \in {FALSE, api.at = "idle"} : Hooks!Load("worker", torn)
    /\ To(j, IF j[1] \in eventCopy'["worker"] /\ hookCopy'["worker"].webhooks[j[2]] # None
             THEN "posting" ELSE "concluding", FALSE)
    /\ UNCHANGED <<auditVars, accepted, cutShort, apiVars>>

Answer(j, ok) ==
    /\ job[j].at = "posting" /\ Synchronous
    /\ To(j, "answered", ok)
    /\ accepted' = IF ok THEN accepted \cup {j} ELSE accepted
    /\ UNCHANGED <<hookVars, eventVars, auditVars, cutShort, apiVars>>

SaveDelivery(j) ==
    /\ job[j].at = "answered"
    /\ Hooks!Save("worker", [Hooks!View("worker") EXCEPT
            !.deliveries = @ \cup {<<j, IF job[j].ok THEN "success" ELSE "failed">>}])
    /\ To(j, "recorded", job[j].ok)
    /\ UNCHANGED <<eventVars, auditVars, accepted, cutShort, apiVars>>

ReadAuditToAppend(j) ==
    /\ job[j].at \in {"recorded", "concluding"}
    /\ \E torn \in {FALSE, ApiAppends \/ "api" \in resetting} :
          LET a == IF job[j].at = "recorded" THEN "handlers" ELSE "loop" IN
          Audit!Missing(a, torn) /\ OpenAudit(a, torn)
    /\ UNCHANGED <<hookVars, eventVars, jobVars, apiVars>>

AuditDelivery(j) ==
    /\ job[j].at = "recorded"
    /\ Append("handlers", j)
    /\ To(j, "concluding", job[j].ok)
    /\ UNCHANGED <<hookVars, eventVars, accepted, cutShort, apiVars>>

(* A mistake the handler could make: to return when it has recorded the     *)
(* failure, so that the queue takes the job for done.                       *)
SettleRecorded(j) == To(j, "done", job[j].ok)

(* The queue's answer to a job that returned and to one that threw. *)
Settle(j) ==
    IF job[j].ok THEN To(j, "done", TRUE)
    ELSE IF job[j].attempts + 1 < MaxAttempts
    THEN job' = [job EXCEPT ![j].at = "queued", ![j].attempts = @ + 1]
    ELSE To(j, "failed", FALSE)

(* The processor's own record; one of a failure may fail to be written. *)
Conclude(j) ==
    /\ job[j].at = "concluding"
    /\ Append("loop", j) \/ (~ job[j].ok /\ GiveUpAudit({"loop"}))
    /\ Settle(j)
    /\ UNCHANGED <<hookVars, eventVars, accepted, cutShort, apiVars>>

(* A write throws.  After a success the handler goes on as if the post had  *)
(* failed, and so does the processor; after a failure the record is given   *)
(* up.                                                                      *)
WriteFails(j) ==
    /\ job[j].at \in {"answered", "recorded", "concluding"}
    /\ \/ /\ job[j].ok
          /\ To(j, IF job[j].at = "concluding" THEN "concluding" ELSE "answered", FALSE)
          /\ cutShort' = cutShort \cup {j}
       \/ /\ ~ job[j].ok /\ job[j].at # "concluding"
          /\ To(j, "concluding", FALSE)
          /\ UNCHANGED cutShort
    /\ GiveUpAudit({"handlers", "loop"})
    /\ UNCHANGED <<hookVars, eventVars, accepted, apiVars>>

(* The worker ends and starts again: the queue finds its jobs stalled and   *)
(* queues them, or fails the ones that stalled before.                      *)
WorkerCrash ==
    LET stalled == {j \in Job : job[j].at \in InFlight}
        writes(at) == \E j \in Job : job[j].at = at
    IN
    \E torn \in BOOLEAN, again \in SUBSET stalled :
        /\ Hooks!Restart({"worker"}, torn /\ writes("answered"))
        /\ Events!Restart({"worker"}, FALSE)
        /\ Audit!Restart({"handlers", "loop"}, torn /\ (writes("recorded") \/ writes("concluding")))
        /\ job' = [j \in Job |->
              IF j \notin stalled THEN job[j]
              ELSE [job[j] EXCEPT !.at = IF j \in again THEN "queued" ELSE "failed", !.ok = FALSE]]
        /\ cutShort' = cutShort \cup {j \in stalled : job[j].ok}
        /\ own' = [own EXCEPT !["handlers"] = {}, !["loop"] = {}]
        /\ resetting' = resetting \ {"handlers", "loop"}
        /\ UNCHANGED <<accepted, apiVars, lastAuthor>>

-----------------------------------------------------------------------------
Init ==
    /\ hookFile = None /\ hookCopy = [i \in Process |-> None]
    /\ eventFile = None /\ eventCopy = [i \in Process |-> None]
    /\ auditFile \in {None, {}} /\ auditCopy = [a \in Author |-> None]
    /\ api = ApiIdle /\ update = [u \in Update |-> NoUpdate]
    /\ job = [j \in Job |-> [at |-> "none", ok |-> FALSE, attempts |-> 0]]
    /\ deleted = {} /\ accepted = {} /\ cutShort = {} /\ eventsTorn = FALSE
    /\ own = [a \in Author |-> {}] /\ lastAuthor = "api" /\ resetting = {}

ApiNext ==
    \/ \E w \in Webhook, types \in Subscriptions, enabled \in BOOLEAN :
          CreateWebhook(w, [types |-> types, enabled |-> enabled])
    \/ \E u \in Update, w \in Webhook : BeginUpdate(u, w)
    \/ \E u \in Update, types \in SUBSET Type, enabled \in BOOLEAN :
          FinishUpdate(u, types, enabled)
    \/ \E u \in Update : RejectUpdate(u)
    \/ \E w \in Webhook : DeleteWebhook(w) \/ Enqueue(w)
    \/ \E e \in Event : SaveEvent(e)
    \/ Emit \/ AuditApi
    \/ ReadWebhooks \/ ReadEvents \/ ReadAudit \/ ResetAudit("api")
    \/ ApiCrash

JobNext ==
    \E j \in Job : \/ Take(j) \/ SaveDelivery(j) \/ AuditDelivery(j)
                   \/ Conclude(j) \/ WriteFails(j)
                   \/ \E ok \in BOOLEAN : Answer(j, ok)

WorkerNext ==
    \/ JobNext
    \/ \E j \in Job : ReadAuditToAppend(j)
    \/ \E a \in {"handlers", "loop"} : ResetAudit(a)
    \/ WorkerCrash

Next == ApiNext \/ WorkerNext

Spec == Init /\ [][Next]_vars

-----------------------------------------------------------------------------
(* A delivery in the queue has its event on file, so that a worker which    *)
(* starts now finds it: the event is saved before the first delivery is     *)
(* queued, and no later write, nor one after a restart, drops it; unless an *)
(* event file was cut off.                                                  *)
QueuedEventsOnFile ==
    \A j \in Job :
        job[j].at \in {"queued"} \cup InFlight => eventsTorn \/ j[1] \in Events!OnFile

(* A delivery whose receiver has answered 2xx is not waiting to be made     *)
(* again, unless a write failed after the answer or the worker ended before *)
(* the job was settled.                                                     *)
ResentOnlyIfCut ==
    \A j \in accepted : job[j].at \in {"queued", "posting"} => j \in cutShort

(* A webhook that was deleted does not come back in the process that        *)
(* deleted it, though an update read it before.                             *)
DeletedStaysDeleted == \A w \in deleted : Stored(w) = None

(* Instances overwrite each other's audit records, and one whose first read *)
(* falls into another's write empties the file; but none loses its own:     *)
(* what an author has appended since it started is in its copy, and in the  *)
(* file when it was the last to write it.                                   *)
AuthorKeepsRecords ==
    \A a \in Author :
        /\ own[a] \subseteq Audit!View(a)
        /\ lastAuthor = a /\ auditFile # None => own[a] \subseteq auditFile

(* How the abstract specification sees a job of the queue. *)
StatusAt(at) ==
    CASE at = "none" -> "none"
      [] at = "queued" -> "waiting"
      [] at = "posting" -> "posted"
      [] at \in {"answered", "recorded", "concluding"} -> "answered"
      [] at = "done" -> "delivered"
      [] at = "failed" -> "failed"

Status == [j \in Job |-> StatusAt(job[j].at)]

Promise == INSTANCE AtLeastOnce WITH
    Receiver <- Webhook, events <- Events!OnFile, status <- Status, doubted <- cutShort

(* Seen from outside, the registry, the queue and the worker deliver at     *)
(* least once and report no delivery wrongly: each step is a step of        *)
(* AtLeastOnce or leaves that unchanged, until an event file is cut off.    *)
ImplementsAtLeastOnce ==
    Promise!Init /\ [][~ eventsTorn' => Promise!Next]_(Promise!vars)
=============================================================================
