--------------------------- MODULE DeliveryProofs ---------------------------
(* Proofs about Delivery, for any webhooks, events, updates and attempts.   *)
EXTENDS Delivery, TLAPS

UpdateRecord == [webhook : Webhook \cup {None}, existing : Record \cup {None}]
ApiRecord == [at : {"idle", "emitting", "enqueueing"}, type : Type,
              event : Event \cup {None}, left : SUBSET Webhook]
JobRecord == [at : {"none", "queued", "done", "failed"} \cup InFlight,
              ok : BOOLEAN, attempts : 0..MaxAttempts]

(* The webhook file, its copies, and the updates that are open. *)
HooksTyped ==
    /\ hookFile \in HookDocument \cup {None}
    /\ hookCopy \in [Process -> HookDocument \cup {None}]

HeldUpdate(held) == held = NoUpdate \/ (held.webhook \in Webhook /\ held.existing \in Record)

UpdatesHeld ==
    /\ update \in [Update -> UpdateRecord]
    /\ \A u \in Update : HeldUpdate(update[u])

(* Only a process with a copy has deleted anything. *)
DeletedGone ==
    /\ deleted \in SUBSET Webhook
    /\ deleted # {} => hookCopy["api"] # None
    /\ DeletedStaysDeleted

(* Only the API process writes the event file. *)
EventsKept ==
    /\ eventFile \in (SUBSET Event) \cup {None}
    /\ eventCopy \in [Process -> (SUBSET Event) \cup {None}]
    /\ eventsTorn \in BOOLEAN
    /\ ~ eventsTorn /\ eventCopy["api"] # None => eventCopy["api"] = Events!OnFile

(* Only an author with a copy has appended anything, and none that has yet  *)
(* to write the empty document.                                             *)
AuditKept ==
    /\ auditFile \in (SUBSET AuditRecord) \cup {None}
    /\ auditCopy \in [Author -> (SUBSET AuditRecord) \cup {None}]
    /\ own \in [Author -> SUBSET AuditRecord] /\ lastAuthor \in Author
    /\ resetting \in SUBSET Author
    /\ \A a \in Author : own[a] # {} => auditCopy[a] # None
    /\ \A a \in resetting : own[a] = {} /\ auditCopy[a] # None
    /\ AuthorKeepsRecords

(* A call that queues deliveries has saved its event and queues each once. *)
ApiTyped ==
    /\ api \in ApiRecord
    /\ api.at = "enqueueing" => api.event \in Event

Active(j) == job[j].at \in {"queued"} \cup InFlight

EventSaved ==
    /\ api.at = "enqueueing" => eventsTorn \/ api.event \in Events!OnFile
    /\ QueuedEventsOnFile

FreshJobs == api.at = "enqueueing" => \A w \in api.left : job[<<api.event, w>>].at = "none"

(* Where a job is whose receiver has accepted it. *)
Settling(j) ==
    \/ job[j].at \in {"answered", "recorded", "concluding"} /\ job[j].ok
    \/ job[j].at = "done"

JobsTyped ==
    /\ job \in [Job -> JobRecord]
    /\ accepted \in SUBSET Job /\ cutShort \in SUBSET Job

AcceptedSettle == \A j \in accepted \ cutShort : Settling(j)

DeliveryInv ==
    /\ HooksTyped /\ UpdatesHeld /\ DeletedGone
    /\ EventsKept /\ AuditKept
    /\ ApiTyped /\ EventSaved /\ FreshJobs
    /\ JobsTyped /\ AcceptedSettle

-----------------------------------------------------------------------------
LEMMA InvImplies ==
    DeliveryInv => /\ TypeOK /\ QueuedEventsOnFile /\ ResentOnlyIfCut
                   /\ DeletedStaysDeleted /\ AuthorKeepsRecords
<1> SUFFICES ASSUME DeliveryInv
             PROVE  /\ TypeOK /\ QueuedEventsOnFile /\ ResentOnlyIfCut
                    /\ DeletedStaysDeleted /\ AuthorKeepsRecords
  OBVIOUS
<1>1. TypeOK
  BY DEF DeliveryInv, HooksTyped, UpdatesHeld, DeletedGone, EventsKept, AuditKept, ApiTyped, JobsTyped,
         TypeOK, UpdateRecord, ApiRecord, JobRecord
<1>2. ResentOnlyIfCut
  BY DEF DeliveryInv, AcceptedSettle, Settling, ResentOnlyIfCut
<1> QED
  BY <1>1, <1>2 DEF DeliveryInv, DeletedGone, EventSaved, AuditKept

LEMMA NoHooksTyped ==
    /\ NoHooks \in HookDocument /\ NoHooks # None
    /\ \A w \in Webhook : NoHooks.webhooks[w] = None
BY NoneIsNothing DEF NoHooks, HookDocument

LEMMA InitInv == Init => DeliveryInv
<1> SUFFICES ASSUME Init PROVE DeliveryInv
  OBVIOUS
<1>1. HooksTyped /\ UpdatesHeld /\ DeletedGone
  BY DEF Init, HooksTyped, UpdatesHeld, HeldUpdate, UpdateRecord, NoUpdate, DeletedGone,
         DeletedStaysDeleted
<1>2. EventsKept /\ AuditKept
  BY DEF Init, EventsKept, AuditKept, AuthorKeepsRecords, Process, Author
<1>3. ApiTyped /\ EventSaved /\ FreshJobs
  BY DEF Init, ApiTyped, ApiRecord, ApiIdle, Type, EventSaved, QueuedEventsOnFile, InFlight, FreshJobs
<1>4. JobsTyped /\ AcceptedSettle
  BY DeliveryAssumption DEF Init, JobsTyped, JobRecord, AcceptedSettle
<1> QED
  BY <1>1, <1>2, <1>3, <1>4 DEF DeliveryInv

-----------------------------------------------------------------------------
(* What the repositories' operations keep.                                  *)

LEMMA HookViews ==
    ASSUME HooksTyped, NEW i \in Process
    PROVE  Hooks!View(i) \in HookDocument /\ Hooks!View(i) # None /\ Hooks!OnFile \in HookDocument
BY NoHooksTyped, NoneIsNothing DEF HooksTyped, Hooks!View, Hooks!OnFile

LEMMA HooksSaved ==
    ASSUME HooksTyped, NEW i \in Process, NEW doc \in HookDocument, Hooks!Save(i, doc)
    PROVE  /\ HooksTyped' /\ hookCopy'[i] = doc /\ Hooks!View(i)' = doc
           /\ \A k \in Process : k # i => hookCopy'[k] = hookCopy[k]
BY NoneIsNothing DEF HooksTyped, Hooks!Save, Hooks!View

LEMMA HooksLoaded ==
    ASSUME HooksTyped, NEW i \in Process, NEW torn \in BOOLEAN, Hooks!Load(i, torn)
    PROVE  /\ HooksTyped' /\ hookCopy'[i] # None
           /\ Hooks!View(i)' \in {Hooks!View(i), NoHooks}
           /\ ~ torn => Hooks!View(i)' = Hooks!View(i)
           /\ \A k \in Process : k # i => hookCopy'[k] = hookCopy[k] /\ Hooks!View(k)' = Hooks!View(k)
<1>1. hookFile' = hookFile
  BY DEF Hooks!Load
<1>2. /\ hookCopy'[i] = IF hookCopy[i] # None THEN hookCopy[i]
                        ELSE IF torn THEN NoHooks ELSE Hooks!OnFile
      /\ \A k \in Process : k # i => hookCopy'[k] = hookCopy[k]
  BY DEF Hooks!Load, HooksTyped
<1>3. NoHooks \in HookDocument /\ NoHooks # None /\ Hooks!OnFile \in HookDocument /\ Hooks!OnFile # None
  BY NoHooksTyped, HookViews, NoneIsNothing
<1>4. HooksTyped'
  BY <1>1, <1>3 DEF Hooks!Load, HooksTyped
<1> QED
  BY <1>1, <1>2, <1>3, <1>4 DEF Hooks!View, Hooks!OnFile

(* A view of the API process that gains no webhook it has deleted. *)
LEMMA DeletedKept ==
    ASSUME HooksTyped, DeletedGone, deleted' = deleted,
           deleted # {} => hookCopy'["api"] # None,
           \A w \in deleted : Stored(w)' = None
    PROVE  DeletedGone'
BY DEF DeletedGone, DeletedStaysDeleted

LEMMA LoadKeepsDeleted ==
    ASSUME HooksTyped, DeletedGone, deleted' = deleted,
           NEW i \in Process, NEW torn \in BOOLEAN, Hooks!Load(i, torn)
    PROVE  DeletedGone'
<1>1. deleted # {} => hookCopy'["api"] # None
  BY HooksLoaded DEF DeletedGone, Process
<1>2. Hooks!View("api")' \in {Hooks!View("api"), NoHooks}
  BY HooksLoaded DEF Process
<1>3. \A w \in deleted : Stored(w)' = None
  BY <1>2, NoHooksTyped DEF DeletedGone, DeletedStaysDeleted, Stored
<1> QED
  BY <1>1, <1>3, DeletedKept

LEMMA SameHooks ==
    ASSUME HooksTyped, DeletedGone, UNCHANGED <<hookVars, deleted>>
    PROVE  HooksTyped' /\ DeletedGone'
BY DEF HooksTyped, DeletedGone, hookVars, DeletedStaysDeleted, Stored, Hooks!View, Hooks!OnFile

LEMMA SameEvents ==
    ASSUME EventsKept, UNCHANGED <<eventVars, eventsTorn>>
    PROVE  EventsKept' /\ Events!OnFile' = Events!OnFile
BY DEF EventsKept, eventVars, Events!OnFile

LEMMA SameAudit ==
    ASSUME AuditKept, UNCHANGED auditVars
    PROVE  AuditKept'
BY DEF AuditKept, auditVars, AuthorKeepsRecords, Audit!View, Audit!OnFile

LEMMA EventsLoaded ==
    ASSUME EventsKept, NEW i \in Process, NEW torn \in BOOLEAN, Events!Load(i, torn),
           i = "api" => ~ torn, eventsTorn' = eventsTorn
    PROVE  EventsKept' /\ Events!OnFile' = Events!OnFile
<1>1. eventFile' = eventFile /\ Events!OnFile' = Events!OnFile /\ Events!OnFile \in SUBSET Event
  BY DEF Events!Load, Events!OnFile, EventsKept
<1>2. eventCopy' = [eventCopy EXCEPT ![i] = IF @ # None THEN @ ELSE IF torn THEN {} ELSE Events!OnFile]
  BY DEF Events!Load
<1> QED
  BY <1>1, <1>2 DEF EventsKept, Process

LEMMA Appended ==
    ASSUME AuditKept, NEW a \in Author, NEW x \in Event \cup Job, Append(a, x)
    PROVE  AuditKept'
<1> DEFINE doc == Audit!View(a) \cup {<<a, x>>}
<1>1. doc \in SUBSET AuditRecord
  BY DEF AuditKept, Audit!View, Audit!OnFile, AuditRecord
<1>2. /\ auditFile' = doc /\ auditCopy' = [auditCopy EXCEPT ![a] = doc]
      /\ own' = [own EXCEPT ![a] = own[a] \cup {<<a, x>>}] /\ lastAuthor' = a
      /\ resetting' = resetting /\ a \notin resetting
  BY DEF Append, Audit!Save
<1>3. doc # None /\ own[a] \cup {<<a, x>>} \subseteq doc /\ <<a, x>> \in AuditRecord
  BY <1>1, NoneIsNothing DEF AuditKept, AuthorKeepsRecords, AuditRecord
<1> HIDE DEF doc
<1>4. ASSUME NEW b \in Author, b # a PROVE own'[b] \subseteq Audit!View(b)'
  <2>1. own'[b] = own[b] /\ auditCopy'[b] = auditCopy[b]
    BY <1>2, <1>4 DEF AuditKept
  <2>2. CASE own[b] = {}
    BY <2>1, <2>2
  <2>3. CASE auditCopy[b] # None
    BY <2>1, <2>3 DEF AuditKept, AuthorKeepsRecords, Audit!View
  <2> QED
    BY <2>2, <2>3 DEF AuditKept
<1>5. own'[a] \subseteq Audit!View(a)' /\ own'[a] \subseteq auditFile'
  BY <1>2, <1>3 DEF AuditKept, Audit!View
<1>6. AuthorKeepsRecords'
  BY <1>2, <1>4, <1>5 DEF AuthorKeepsRecords
<1> QED
  BY <1>1, <1>2, <1>3, <1>6 DEF AuditKept

(* A first read, and the empty document that follows one which failed.      *)
LEMMA Opened ==
    ASSUME AuditKept, NEW a \in Author, NEW torn \in BOOLEAN, OpenAudit(a, torn)
    PROVE  AuditKept'
<1> DEFINE doc == IF torn THEN {} ELSE Audit!OnFile
<1>1. doc \in SUBSET AuditRecord /\ doc # None
  BY NoneIsNothing DEF AuditKept, Audit!OnFile
<1>2. /\ auditCopy[a] = None /\ auditFile' = auditFile /\ UNCHANGED <<own, lastAuthor>>
      /\ resetting' \in SUBSET Author /\ resetting' \subseteq resetting \cup {a}
  BY DEF OpenAudit, Audit!Load, AuditKept
<1>3. auditCopy' = [auditCopy EXCEPT ![a] = doc]
  BY DEF OpenAudit, Audit!Load
<1> HIDE DEF doc
<1>4. /\ auditCopy' \in [Author -> (SUBSET AuditRecord) \cup {None}] /\ auditCopy'[a] # None
      /\ \A b \in Author : auditCopy[b] # None => auditCopy'[b] = auditCopy[b]
  BY <1>1, <1>2, <1>3 DEF AuditKept
<1>5. own[a] = {}
  BY <1>2 DEF AuditKept
<1>6. \A b \in Author : own[b] \subseteq Audit!View(b)'
  BY <1>4 DEF AuditKept, AuthorKeepsRecords, Audit!View
<1> QED
  BY <1>2, <1>4, <1>5, <1>6 DEF AuditKept, AuthorKeepsRecords

LEMMA WasReset ==
    ASSUME AuditKept, NEW a \in Author, ResetAudit(a)
    PROVE  AuditKept'
<1>1. /\ a \in resetting /\ own[a] = {} /\ own' = own /\ lastAuthor' = a
      /\ auditFile' = {} /\ auditCopy' = [auditCopy EXCEPT ![a] = {}]
      /\ resetting' = resetting \ {a}
  BY DEF ResetAudit, Audit!Save, AuditKept
<1>2. /\ auditCopy' \in [Author -> (SUBSET AuditRecord) \cup {None}] /\ auditCopy'[a] = {}
      /\ \A b \in Author : b # a => auditCopy'[b] = auditCopy[b]
  BY <1>1 DEF AuditKept
<1>3. {} # None
  BY NoneIsNothing
<1>4. \A b \in Author : own[b] \subseteq Audit!View(b)'
  BY <1>1, <1>2 DEF AuditKept, AuthorKeepsRecords, Audit!View
<1> QED
  BY <1>1, <1>2, <1>3, <1>4 DEF AuditKept, AuthorKeepsRecords

LEMMA GivenUp ==
    ASSUME AuditKept, NEW A, GiveUpAudit(A)
    PROVE  AuditKept'
BY DEF GiveUpAudit, AuditKept, AuthorKeepsRecords, Audit!View, Audit!OnFile

-----------------------------------------------------------------------------
(* The API process.                                                         *)

(* A step of the API that queues nothing: no event gets lost by it unless   *)
(* the file is cut off.                                                     *)
LEMMA ApiStep ==
    ASSUME DeliveryInv, api' \in ApiRecord, api'.at # "enqueueing" \/ api' = api,
           UNCHANGED jobVars,
           eventsTorn => eventsTorn',
           eventsTorn' \/ Events!OnFile \subseteq Events!OnFile'
    PROVE  ApiTyped' /\ EventSaved' /\ FreshJobs' /\ JobsTyped' /\ AcceptedSettle'
<1> USE DEF DeliveryInv, jobVars
<1>1. ApiTyped'
  BY DEF ApiTyped
<1>2. EventSaved'
  BY DEF EventSaved, QueuedEventsOnFile
<1>3. FreshJobs'
  BY DEF FreshJobs
<1>4. JobsTyped' /\ AcceptedSettle'
  BY DEF JobsTyped, AcceptedSettle, Settling
<1> QED
  BY <1>1, <1>2, <1>3, <1>4

LEMMA EmittingTyped ==
    /\ ApiIdle \in ApiRecord /\ ApiIdle.at = "idle"
    /\ \A type \in Type : Emitting(type) \in ApiRecord /\ Emitting(type).at = "emitting"
BY DEF ApiIdle, Emitting, ApiRecord, Type

(* A call on webhooks: the registry changes, an event is to be emitted.     *)
LEMMA RegistryStep ==
    ASSUME DeliveryInv, NEW w \in Webhook, NEW record \in Record \cup {None}, SaveWebhook(w, record),
           UpdatesHeld',
           \/ w \notin deleted /\ deleted' = deleted
           \/ record = None /\ deleted' = deleted \cup {w}
           \/ (w \in deleted => record = None) /\ deleted' = deleted,
           NEW type \in Type, api' = Emitting(type),
           UNCHANGED <<eventVars, auditVars, jobVars, eventsTorn>>
    PROVE  DeliveryInv'
<1> USE DEF DeliveryInv
<1>1. PICK doc \in HookDocument :
          /\ Hooks!Save("api", doc)
          /\ \A v \in Webhook : doc.webhooks[v] = IF v = w THEN record ELSE Stored(v)
  <2> DEFINE doc == [Hooks!View("api") EXCEPT !.webhooks[w] = record]
  <2>1. Hooks!View("api") \in HookDocument
    BY HookViews DEF Process
  <2>2. doc \in HookDocument /\ \A v \in Webhook : doc.webhooks[v] = IF v = w THEN record ELSE Stored(v)
    BY <2>1 DEF HookDocument, Stored
  <2>3. Hooks!Save("api", doc)
    BY DEF SaveWebhook
  <2> HIDE DEF doc
  <2> QED
    BY <2>2, <2>3
<1>2. HooksTyped' /\ hookCopy'["api"] = doc /\ Hooks!View("api")' = doc
  BY <1>1, HooksSaved DEF Process
<1>3. DeletedGone'
  <2>1. \A v \in Webhook : Stored(v)' = doc.webhooks[v]
    BY <1>2 DEF Stored
  <2>2. hookCopy'["api"] # None
    BY <1>2, NoneIsNothing
  <2> QED
    BY <1>1, <2>1, <2>2 DEF DeletedGone, DeletedStaysDeleted
<1>4. EventsKept' /\ Events!OnFile' = Events!OnFile /\ AuditKept'
  BY SameEvents, SameAudit
<1>5. ApiTyped' /\ EventSaved' /\ FreshJobs' /\ JobsTyped' /\ AcceptedSettle'
  BY <1>4, ApiStep, EmittingTyped
<1> QED
  BY <1>2, <1>3, <1>4, <1>5

LEMMA UpdateKept ==
    ASSUME DeliveryInv, NEW u \in Update, NEW held \in UpdateRecord, HeldUpdate(held),
           update' = [update EXCEPT ![u] = held]
    PROVE  UpdatesHeld'
BY DEF DeliveryInv, UpdatesHeld

LEMMA NoUpdateHeld == NoUpdate \in UpdateRecord /\ HeldUpdate(NoUpdate)
BY DEF NoUpdate, UpdateRecord, HeldUpdate

LEMMA WebhooksStep ==
    ASSUME DeliveryInv,
           \/ \E w \in Webhook, types \in Subscriptions, enabled \in BOOLEAN :
                 CreateWebhook(w, [types |-> types, enabled |-> enabled])
           \/ \E w \in Webhook : DeleteWebhook(w)
           \/ \E u \in Update, types \in SUBSET Type, enabled \in BOOLEAN :
                 FinishUpdate(u, types, enabled)
    PROVE  DeliveryInv'
<1> USE DEF DeliveryInv
<1>1. ASSUME UNCHANGED update PROVE UpdatesHeld'
  BY <1>1 DEF UpdatesHeld
<1>2. ASSUME NEW w \in Webhook, NEW types \in Subscriptions, NEW enabled \in BOOLEAN,
             CreateWebhook(w, [types |-> types, enabled |-> enabled])
      PROVE  DeliveryInv'
  <2>1. [types |-> types, enabled |-> enabled] \in Record
    BY DeliveryAssumption DEF Record
  <2> QED
    BY <1>1, <1>2, <2>1, RegistryStep DEF CreateWebhook, NewWebhook, Type
<1>3. ASSUME NEW w \in Webhook, DeleteWebhook(w) PROVE DeliveryInv'
  BY <1>1, <1>3, RegistryStep DEF DeleteWebhook, Type
<1>4. ASSUME NEW u \in Update, NEW types \in SUBSET Type, NEW enabled \in BOOLEAN,
             FinishUpdate(u, types, enabled)
      PROVE  DeliveryInv'
  <2> DEFINE record == [types |-> types, enabled |-> enabled]
  <2>1. update[u].webhook \in Webhook
    BY <1>4 DEF FinishUpdate, UpdatesHeld, HeldUpdate
  <2>2. PICK w \in Webhook : w = update[u].webhook
    BY <2>1
  <2>3. PICK kept \in Record \cup {None} : kept = IF Stored(w) = None THEN None ELSE record
    BY DEF Record
  <2>4. SaveWebhook(w, kept)
    <3>1. Hooks!View("api") \in HookDocument
      BY HookViews DEF Process
    <3>2. [Hooks!View("api") EXCEPT !.webhooks[w] = IF @ = None THEN None ELSE record]
            = [Hooks!View("api") EXCEPT !.webhooks[w] = kept]
      BY <2>3, <3>1 DEF Stored, HookDocument
    <3> QED
      BY <1>4, <2>2, <3>2 DEF FinishUpdate, Replace, SaveWebhook
  <2>5. w \in deleted => kept = None
    BY <2>3 DEF DeletedGone, DeletedStaysDeleted
  <2>6. UpdatesHeld'
    BY <1>4, UpdateKept, NoUpdateHeld DEF FinishUpdate
  <2>7. /\ api' = Emitting("webhook.updated") /\ deleted' = deleted
        /\ UNCHANGED <<eventVars, auditVars, jobVars, eventsTorn>>
    BY <1>4 DEF FinishUpdate
  <2> HIDE DEF record
  <2> QED
    BY <2>4, <2>5, <2>6, <2>7, RegistryStep DEF Type
<1> QED
  BY <1>2, <1>3, <1>4

LEMMA BodyStep ==
    ASSUME DeliveryInv, NEW u \in Update,
           RejectUpdate(u) \/ \E w \in Webhook : BeginUpdate(u, w)
    PROVE  DeliveryInv'
<1> USE DEF DeliveryInv
<1>1. EventsKept' /\ Events!OnFile' = Events!OnFile /\ AuditKept'
  BY SameEvents, SameAudit DEF RejectUpdate, BeginUpdate
<1>2. ApiTyped' /\ EventSaved' /\ FreshJobs' /\ JobsTyped' /\ AcceptedSettle'
  <2>1. api' = api /\ UNCHANGED jobVars /\ eventsTorn' = eventsTorn
    BY DEF RejectUpdate, BeginUpdate
  <2>2. api' \in ApiRecord
    BY <2>1 DEF ApiTyped
  <2> QED
    BY <1>1, <2>1, <2>2, ApiStep
<1>3. CASE RejectUpdate(u)
  <2>1. UpdatesHeld'
    BY <1>3, UpdateKept, NoUpdateHeld DEF RejectUpdate
  <2>2. HooksTyped' /\ DeletedGone'
    BY <1>3, SameHooks DEF RejectUpdate
  <2> QED
    BY <1>1, <1>2, <2>1, <2>2
<1>4. ASSUME NEW w \in Webhook, BeginUpdate(u, w) PROVE DeliveryInv'
  <2>1. Stored(w) \in Record
    BY <1>4, HookViews DEF BeginUpdate, Stored, HookDocument, Process
  <2>2. PICK held \in UpdateRecord : held = [webhook |-> w, existing |-> Stored(w)]
    BY <2>1 DEF UpdateRecord
  <2>3. UpdatesHeld'
    BY <1>4, <2>1, <2>2, UpdateKept DEF BeginUpdate, HeldUpdate
  <2>4. HooksTyped' /\ DeletedGone'
    BY <1>4, HooksLoaded, LoadKeepsDeleted DEF BeginUpdate, Process
  <2> QED
    BY <1>1, <1>2, <2>3, <2>4
<1> QED
  BY <1>3, <1>4

LEMMA SavedEventStep ==
    ASSUME DeliveryInv, NEW e \in Event, SaveEvent(e)
    PROVE  DeliveryInv'
<1> USE DEF DeliveryInv
<1>1. HooksTyped' /\ DeletedGone' /\ UpdatesHeld' /\ AuditKept'
  BY HooksLoaded, LoadKeepsDeleted, SameAudit DEF SaveEvent, UpdatesHeld, Process
<1>2. PICK events \in SUBSET Event :
          events = Events!View("api") \cup {e} /\ Events!Save("api", events)
  BY DEF SaveEvent, EventsKept, Events!View, Events!OnFile, Process
<1>3. /\ events # None /\ eventFile' = events
      /\ eventCopy' = [eventCopy EXCEPT !["api"] = events]
      /\ eventsTorn' = eventsTorn
  BY <1>2, NoneIsNothing DEF SaveEvent, Events!Save
<1>4. Events!OnFile' = events /\ e \in events
  BY <1>2, <1>3 DEF Events!OnFile
<1>5. eventsTorn \/ Events!OnFile \subseteq events
  BY <1>2 DEF EventsKept, Events!View
<1>6. EventsKept'
  BY <1>3, <1>4 DEF EventsKept, Process
<1>7. /\ api.at = "emitting" /\ NewEvent(e)
      /\ api' = [api EXCEPT !.at = "enqueueing", !.event = e, !.left = Matching(api.type)]
      /\ UNCHANGED <<job, accepted, cutShort>>
  BY DEF SaveEvent, jobVars
<1>8. Matching(api.type) \in SUBSET Webhook
  BY DEF Matching
<1>9. /\ api' \in ApiRecord /\ api'.at = "enqueueing" /\ api'.event = e
      /\ api'.left \in SUBSET Webhook
  BY <1>7, <1>8 DEF ApiTyped, ApiRecord
<1>10. ApiTyped' /\ FreshJobs'
  BY <1>7, <1>9 DEF ApiTyped, FreshJobs, NewEvent
<1>11. EventSaved'
  BY <1>3, <1>4, <1>5, <1>7, <1>9 DEF EventSaved, QueuedEventsOnFile
<1>12. JobsTyped' /\ AcceptedSettle'
  BY <1>7 DEF JobsTyped, AcceptedSettle, Settling
<1> QED
  BY <1>1, <1>6, <1>10, <1>11, <1>12

LEMMA EnqueueStep ==
    ASSUME DeliveryInv, NEW w \in Webhook, Enqueue(w)
    PROVE  DeliveryInv'
<1> USE DEF DeliveryInv
<1>1. PICK j \in Job : j = <<api.event, w>>
  BY DEF Enqueue, ApiTyped, Job
<1>2. /\ api.at = "enqueueing" /\ w \in api.left /\ job[j].at = "none"
      /\ j[1] = api.event
  BY <1>1 DEF Enqueue, FreshJobs
<1>3. /\ job' = [job EXCEPT ![j].at = "queued"]
      /\ api' = [api EXCEPT !.left = @ \ {w}]
      /\ UNCHANGED <<hookVars, eventVars, auditVars, accepted, cutShort, update, deleted, eventsTorn>>
  BY <1>1 DEF Enqueue
<1>4. /\ job' \in [Job -> JobRecord] /\ job'[j].at = "queued"
      /\ \A k \in Job : k # j => job'[k] = job[k]
  BY <1>3 DEF JobsTyped, JobRecord
<1>5. /\ api' \in ApiRecord /\ api'.at = "enqueueing" /\ api'.event = api.event
      /\ api'.left = api.left \ {w}
  BY <1>2, <1>3 DEF ApiTyped, ApiRecord
<1>6. HooksTyped' /\ DeletedGone' /\ UpdatesHeld' /\ EventsKept' /\ AuditKept'
      /\ Events!OnFile' = Events!OnFile
  BY <1>3, SameHooks, SameEvents, SameAudit DEF UpdatesHeld
<1>7. ApiTyped'
  BY <1>2, <1>5 DEF ApiTyped
<1>8. EventSaved'
  BY <1>2, <1>3, <1>4, <1>5, <1>6 DEF EventSaved, QueuedEventsOnFile
<1>9. FreshJobs'
  <2>1. ASSUME NEW v \in api.left \ {w} PROVE job'[<<api.event, v>>].at = "none"
    <3>1. <<api.event, v>> \in Job /\ <<api.event, v>> # j
      BY <1>1, <1>2 DEF Job, ApiTyped, ApiRecord
    <3> QED
      BY <1>2, <1>4, <3>1 DEF FreshJobs
  <2> QED
    BY <1>5, <2>1 DEF FreshJobs
<1>10. JobsTyped' /\ AcceptedSettle'
  BY <1>2, <1>3, <1>4 DEF JobsTyped, AcceptedSettle, Settling
<1> QED
  BY <1>6, <1>7, <1>8, <1>9, <1>10

LEMMA ApiRestStep ==
    ASSUME DeliveryInv, Emit \/ AuditApi \/ ReadWebhooks \/ ReadEvents
    PROVE  DeliveryInv'
<1> USE DEF DeliveryInv
<1>1. UNCHANGED <<update, deleted, jobVars, eventsTorn>>
  BY DEF Emit, AuditApi, ReadWebhooks, ReadEvents, apiVars
<1>2. UpdatesHeld'
  BY <1>1 DEF UpdatesHeld
<1>3. api' \in ApiRecord /\ (api'.at # "enqueueing" \/ api' = api)
  <2>1. api' = api \/ api' = Emitting("job.created") \/ api' = ApiIdle
    BY DEF Emit, AuditApi, ReadWebhooks, ReadEvents, apiVars
  <2> QED
    BY <2>1, EmittingTyped DEF ApiTyped, Type
<1>4. HooksTyped' /\ DeletedGone'
  <2>1. CASE UNCHANGED hookVars
    BY <1>1, <2>1, SameHooks
  <2>2. CASE ReadWebhooks
    BY <1>1, <2>2, HooksLoaded, LoadKeepsDeleted DEF ReadWebhooks, Process
  <2> QED
    BY <2>1, <2>2 DEF Emit, AuditApi, ReadEvents
<1>5. EventsKept' /\ Events!OnFile' = Events!OnFile
  <2>1. CASE UNCHANGED eventVars
    BY <1>1, <2>1, SameEvents
  <2>2. CASE ReadEvents
    BY <1>1, <2>2, EventsLoaded DEF ReadEvents, Process
  <2> QED
    BY <2>1, <2>2 DEF Emit, AuditApi, ReadWebhooks
<1>6. AuditKept'
  <2>1. CASE UNCHANGED auditVars
    BY <2>1, SameAudit
  <2>2. CASE AuditApi
    BY <2>2, Appended DEF AuditApi, ApiAppends, ApiTyped, Author
  <2> QED
    BY <2>1, <2>2 DEF Emit, ReadWebhooks, ReadEvents
<1> QED
  BY <1>1, <1>2, <1>3, <1>4, <1>5, <1>6, ApiStep

(* A first read of the audit file, by any of its authors, and a reset. *)
TrailStep ==
    \/ ReadAudit
    \/ \E j \in Job : ReadAuditToAppend(j)
    \/ \E a \in Author : ResetAudit(a)

LEMMA TrailUnchanged ==
    ASSUME TrailStep PROVE UNCHANGED <<hookVars, eventVars, jobVars, apiVars>>
BY DEF TrailStep, ReadAudit, ReadAuditToAppend, ResetAudit

LEMMA TrailKept ==
    ASSUME DeliveryInv, TrailStep PROVE DeliveryInv'
<1> USE DEF DeliveryInv
<1>1. UNCHANGED <<hookVars, eventVars, jobVars, api, update, deleted, eventsTorn>>
  BY TrailUnchanged DEF apiVars
<1>2. HooksTyped' /\ DeletedGone' /\ EventsKept' /\ Events!OnFile' = Events!OnFile
  BY <1>1, SameHooks, SameEvents
<1>3. UpdatesHeld'
  BY <1>1 DEF UpdatesHeld
<1>4. ApiTyped' /\ EventSaved' /\ FreshJobs' /\ JobsTyped' /\ AcceptedSettle'
  <2>1. api' = api /\ api' \in ApiRecord
    BY <1>1 DEF ApiTyped
  <2> QED
    BY <1>1, <1>2, <2>1, ApiStep
<1>5. AuditKept'
  <2>1. ASSUME ReadAudit PROVE \E torn \in BOOLEAN : OpenAudit("api", torn)
    BY <2>1 DEF ReadAudit
  <2>2. ASSUME NEW j \in Job, ReadAuditToAppend(j)
        PROVE  \E a \in Author, torn \in BOOLEAN : OpenAudit(a, torn)
    <3>1. PICK a \in {"handlers", "loop"} : a = IF job[j].at = "recorded" THEN "handlers" ELSE "loop"
      OBVIOUS
    <3>2. PICK torn \in BOOLEAN : OpenAudit(a, torn)
      BY <2>2, <3>1 DEF ReadAuditToAppend
    <3> QED
      BY <3>2 DEF Author
  <2>3. ASSUME NEW a \in Author, NEW torn \in BOOLEAN, OpenAudit(a, torn) PROVE AuditKept'
    BY <2>3, Opened
  <2>4. ASSUME NEW a \in Author, ResetAudit(a) PROVE AuditKept'
    BY <2>4, WasReset
  <2>5. CASE ReadAudit
    BY <2>1, <2>3, <2>5 DEF Author
  <2>6. CASE \E j \in Job : ReadAuditToAppend(j)
    BY <2>2, <2>3, <2>6
  <2> QED
    BY <2>4, <2>5, <2>6 DEF TrailStep
<1> QED
  BY <1>1, <1>2, <1>3, <1>4, <1>5

(* Instances that start again: they have no copy and have appended nothing. *)
LEMMA AuditRestarted ==
    ASSUME AuditKept, NEW I \in SUBSET Author, NEW torn \in BOOLEAN, Audit!Restart(I, torn),
           lastAuthor' = lastAuthor,
           own' \in [Author -> SUBSET AuditRecord],
           \A a \in Author : own'[a] = IF a \in I THEN {} ELSE own[a],
           resetting' = resetting \ I
    PROVE  AuditKept'
<1>1. /\ auditFile' = IF torn THEN None ELSE auditFile
      /\ \A a \in Author : auditCopy'[a] = IF a \in I THEN None ELSE auditCopy[a]
      /\ auditCopy' \in [Author -> (SUBSET AuditRecord) \cup {None}]
  BY DEF Audit!Restart, AuditKept
<1>2. ASSUME NEW a \in Author, a \notin I PROVE own'[a] \subseteq Audit!View(a)'
  <2>1. own'[a] = own[a] /\ auditCopy'[a] = auditCopy[a]
    BY <1>1, <1>2
  <2>2. CASE own[a] = {}
    BY <2>1, <2>2
  <2>3. CASE auditCopy[a] # None
    BY <2>1, <2>3 DEF AuditKept, AuthorKeepsRecords, Audit!View
  <2> QED
    BY <2>2, <2>3 DEF AuditKept
<1>3. AuthorKeepsRecords'
  BY <1>1, <1>2 DEF AuditKept, AuthorKeepsRecords
<1> QED
  BY <1>1, <1>3 DEF AuditKept

LEMMA HooksRestarted ==
    ASSUME HooksTyped, NEW I \in SUBSET Process, NEW torn \in BOOLEAN, Hooks!Restart(I, torn)
    PROVE  HooksTyped' /\ \A i \in Process : hookCopy'[i] = IF i \in I THEN None ELSE hookCopy[i]
BY DEF HooksTyped, Hooks!Restart

LEMMA ApiCrashStep ==
    ASSUME DeliveryInv, ApiCrash PROVE DeliveryInv'
<1> USE DEF DeliveryInv
<1>1. PICK torn \in BOOLEAN :
          /\ Hooks!Restart({"api"}, torn /\ api.at = "idle")
          /\ Events!Restart({"api"}, torn /\ api.at = "emitting")
          /\ Audit!Restart({"api"}, torn /\ (ApiAppends \/ "api" \in resetting))
          /\ eventsTorn' = (eventsTorn \/ (torn /\ api.at = "emitting"))
          /\ api' = ApiIdle
          /\ update' = [u \in Update |-> NoUpdate]
          /\ deleted' = {}
          /\ own' = [own EXCEPT !["api"] = {}] /\ resetting' = resetting \ {"api"}
          /\ UNCHANGED <<jobVars, lastAuthor>>
  BY DEF ApiCrash
<1>2. /\ (torn /\ api.at = "idle") \in BOOLEAN
      /\ (torn /\ (ApiAppends \/ "api" \in resetting)) \in BOOLEAN
      /\ {"api"} \in SUBSET Process /\ {"api"} \in SUBSET Author
  BY DEF Process, Author
<1>3. HooksTyped'
  BY <1>1, <1>2, HooksRestarted
<1>4. DeletedGone' /\ UpdatesHeld'
  BY <1>1, NoUpdateHeld DEF DeletedGone, DeletedStaysDeleted, UpdatesHeld
<1>5. /\ eventFile' = IF torn /\ api.at = "emitting" THEN None ELSE eventFile
      /\ eventCopy' = [i \in Process |-> IF i \in {"api"} THEN None ELSE eventCopy[i]]
  BY <1>1 DEF Events!Restart
<1>6. EventsKept' /\ (eventsTorn' \/ Events!OnFile \subseteq Events!OnFile')
  BY <1>1, <1>5 DEF EventsKept, Events!OnFile, Process
<1>7. own' \in [Author -> SUBSET AuditRecord] /\ \A a \in Author : own'[a] = IF a \in {"api"} THEN {} ELSE own[a]
  BY <1>1 DEF AuditKept
<1>8. AuditKept'
  BY <1>1, <1>2, <1>7, AuditRestarted
<1>9. ApiTyped' /\ EventSaved' /\ FreshJobs' /\ JobsTyped' /\ AcceptedSettle'
  BY <1>1, <1>6, ApiStep, EmittingTyped
<1> QED
  BY <1>3, <1>4, <1>6, <1>8, <1>9

-----------------------------------------------------------------------------
(* The worker process.                                                      *)

(* A step of one job that was queued; the API is where it was. *)
LEMMA JobStep ==
    ASSUME DeliveryInv, NEW j \in Job, Active(j), NEW next \in JobRecord,
           job' = [job EXCEPT ![j] = next],
           UNCHANGED <<api, update, deleted, eventsTorn>>,
           Events!OnFile' = Events!OnFile,
           accepted' \in SUBSET Job, cutShort' \in SUBSET Job,
           accepted' \ cutShort' \subseteq (accepted \ cutShort) \cup {j},
           j \in accepted' \ cutShort' => \/ next.at \in {"answered", "recorded", "concluding"} /\ next.ok
                                          \/ next.at = "done"
    PROVE  UpdatesHeld' /\ ApiTyped' /\ EventSaved' /\ FreshJobs' /\ JobsTyped' /\ AcceptedSettle'
<1> USE DEF DeliveryInv
<1>1. /\ job' \in [Job -> JobRecord] /\ job'[j] = next
      /\ \A k \in Job : k # j => job'[k] = job[k]
  BY DEF JobsTyped
<1>2. UpdatesHeld' /\ ApiTyped'
  BY DEF UpdatesHeld, ApiTyped
<1>3. EventSaved'
  BY <1>1 DEF EventSaved, QueuedEventsOnFile, Active
<1>4. FreshJobs'
  <2>1. ASSUME NEW w \in api.left, api.at = "enqueueing" PROVE <<api.event, w>> \in Job /\ <<api.event, w>> # j
    BY <2>1 DEF ApiTyped, ApiRecord, Job, FreshJobs, Active, InFlight
  <2> QED
    BY <1>1, <2>1 DEF FreshJobs
<1>5. JobsTyped' /\ AcceptedSettle'
  BY <1>1 DEF JobsTyped, AcceptedSettle, Settling
<1> QED
  BY <1>2, <1>3, <1>4, <1>5

LEMMA JobMoved ==
    ASSUME JobsTyped, NEW j \in Job, NEW at \in {"queued", "done", "failed"} \cup InFlight,
           NEW ok \in BOOLEAN, To(j, at, ok)
    PROVE  \E next \in JobRecord : /\ next.at = at /\ next.ok = ok
                                   /\ job' = [job EXCEPT ![j] = next]
<1> DEFINE next == [job[j] EXCEPT !.at = at, !.ok = ok]
<1>1. next \in JobRecord /\ next.at = at /\ next.ok = ok
  BY DEF JobsTyped, JobRecord
<1>2. job' = [job EXCEPT ![j] = next]
  BY DEF To
<1> HIDE DEF next
<1> QED
  BY <1>1, <1>2

LEMMA TakeStep ==
    ASSUME DeliveryInv, NEW j \in Job, Take(j) PROVE DeliveryInv'
<1> USE DEF DeliveryInv
<1>1. job[j].at = "queued" /\ UNCHANGED <<auditVars, accepted, cutShort, apiVars>>
  BY DEF Take
<1>2. PICK at \in {"posting", "concluding"} : To(j, at, FALSE)
  BY DEF Take
<1>3. HooksTyped' /\ DeletedGone'
  <2>1. PICK torn \in BOOLEAN : Hooks!Load("worker", torn)
    BY DEF Take
  <2> QED
    BY <1>1, <2>1, HooksLoaded, LoadKeepsDeleted DEF Process, apiVars
<1>4. EventsKept' /\ Events!OnFile' = Events!OnFile
  <2>1. PICK torn \in BOOLEAN : Events!Load("worker", torn)
    BY DEF Take
  <2> QED
    BY <1>1, <2>1, EventsLoaded DEF Process, apiVars
<1>5. AuditKept'
  BY <1>1, SameAudit
<1>6. j \notin accepted \ cutShort
  BY <1>1 DEF AcceptedSettle, Settling
<1>7. UpdatesHeld' /\ ApiTyped' /\ EventSaved' /\ FreshJobs' /\ JobsTyped' /\ AcceptedSettle'
  <2>1. PICK next \in JobRecord : job' = [job EXCEPT ![j] = next]
    BY <1>2, JobMoved DEF InFlight
  <2>2. accepted' \in SUBSET Job /\ cutShort' \in SUBSET Job /\ Active(j)
    BY <1>1 DEF JobsTyped, Active
  <2> QED
    BY <1>1, <1>4, <1>6, <2>1, <2>2, JobStep DEF apiVars
<1> QED
  BY <1>3, <1>4, <1>5, <1>7

LEMMA AnswerStep ==
    ASSUME DeliveryInv, NEW j \in Job, NEW ok \in BOOLEAN, Answer(j, ok) PROVE DeliveryInv'
<1> USE DEF DeliveryInv
<1>1. /\ job[j].at = "posting" /\ To(j, "answered", ok)
      /\ accepted' = (IF ok THEN accepted \cup {j} ELSE accepted)
      /\ UNCHANGED <<hookVars, eventVars, auditVars, cutShort, apiVars>>
  BY DEF Answer
<1>2. HooksTyped' /\ DeletedGone' /\ EventsKept' /\ AuditKept' /\ Events!OnFile' = Events!OnFile
  BY <1>1, SameHooks, SameEvents, SameAudit DEF apiVars
<1>3. PICK next \in JobRecord : /\ next.at = "answered" /\ next.ok = ok
                                /\ job' = [job EXCEPT ![j] = next]
  BY <1>1, JobMoved DEF InFlight
<1>4. j \notin accepted \ cutShort /\ Active(j) /\ accepted' \in SUBSET Job /\ cutShort' \in SUBSET Job
  BY <1>1 DEF AcceptedSettle, Settling, Active, InFlight, JobsTyped
<1>5. UpdatesHeld' /\ ApiTyped' /\ EventSaved' /\ FreshJobs' /\ JobsTyped' /\ AcceptedSettle'
  BY <1>1, <1>2, <1>3, <1>4, JobStep DEF apiVars
<1> QED
  BY <1>2, <1>5

LEMMA RecordStep ==
    ASSUME DeliveryInv, NEW j \in Job, SaveDelivery(j) \/ AuditDelivery(j) PROVE DeliveryInv'
<1> USE DEF DeliveryInv
<1>1. /\ job[j].at \in {"answered", "recorded"}
      /\ To(j, "recorded", job[j].ok) \/ To(j, "concluding", job[j].ok)
      /\ UNCHANGED <<eventVars, accepted, cutShort, apiVars>>
  BY DEF SaveDelivery, AuditDelivery
<1>2. EventsKept' /\ Events!OnFile' = Events!OnFile
  BY <1>1, SameEvents DEF apiVars
<1>3. PICK next \in JobRecord : /\ next.at \in {"recorded", "concluding"} /\ next.ok = job[j].ok
                                /\ job' = [job EXCEPT ![j] = next]
  <2>1. job[j].ok \in BOOLEAN
    BY DEF JobsTyped, JobRecord
  <2>2. PICK at \in {"recorded", "concluding"} : To(j, at, job[j].ok)
    BY <1>1
  <2>3. PICK ok \in BOOLEAN : ok = job[j].ok
    BY <2>1
  <2> QED
    BY <2>2, <2>3, JobMoved DEF InFlight
<1>4. /\ j \in accepted \ cutShort => job[j].ok
      /\ Active(j) /\ accepted' \in SUBSET Job /\ cutShort' \in SUBSET Job
  BY <1>1 DEF AcceptedSettle, Settling, Active, InFlight, JobsTyped
<1>5. UpdatesHeld' /\ ApiTyped' /\ EventSaved' /\ FreshJobs' /\ JobsTyped' /\ AcceptedSettle'
  BY <1>1, <1>2, <1>3, <1>4, JobStep DEF apiVars
<1>6. CASE SaveDelivery(j)
  <2> DEFINE doc == [Hooks!View("worker") EXCEPT
                        !.deliveries = @ \cup {<<j, IF job[j].ok THEN "success" ELSE "failed">>}]
  <2>1. AuditKept'
    BY <1>6, SameAudit DEF SaveDelivery
  <2>2. Hooks!Save("worker", doc)
    BY <1>6 DEF SaveDelivery
  <2>3. doc \in HookDocument
    <3>1. Hooks!View("worker") \in HookDocument
      BY HookViews DEF Process
    <3>2. <<j, IF job[j].ok THEN "success" ELSE "failed">> \in Job \X Result
      BY DEF Result
    <3> QED
      BY <3>1, <3>2 DEF HookDocument
  <2> HIDE DEF doc
  <2>4. HooksTyped' /\ hookCopy'["api"] = hookCopy["api"]
    BY <2>2, <2>3, HooksSaved DEF Process
  <2>5. deleted # {} => Hooks!View("api")' = Hooks!View("api")
    BY <2>4 DEF DeletedGone, Hooks!View
  <2>6. DeletedGone'
    BY <1>1, <2>4, <2>5 DEF DeletedGone, DeletedStaysDeleted, Stored, apiVars
  <2> QED
    BY <1>2, <1>5, <2>1, <2>4, <2>6
<1>7. CASE AuditDelivery(j)
  <2>1. HooksTyped' /\ DeletedGone'
    BY <1>1, <1>7, SameHooks DEF AuditDelivery, apiVars
  <2>2. AuditKept'
    BY <1>7, Appended DEF AuditDelivery, Author
  <2> QED
    BY <1>2, <1>5, <2>1, <2>2
<1> QED
  BY <1>6, <1>7

LEMMA ConcludeStep ==
    ASSUME DeliveryInv, NEW j \in Job, Conclude(j) PROVE DeliveryInv'
<1> USE DEF DeliveryInv
<1>1. /\ job[j].at = "concluding" /\ Settle(j)
      /\ UNCHANGED <<hookVars, eventVars, accepted, cutShort, apiVars>>
  BY DEF Conclude
<1>2. HooksTyped' /\ DeletedGone' /\ EventsKept' /\ Events!OnFile' = Events!OnFile
  BY <1>1, SameHooks, SameEvents DEF apiVars
<1>3. AuditKept'
  BY GivenUp, Appended DEF Conclude, Author
<1>4. /\ j \in accepted \ cutShort => job[j].ok
      /\ Active(j) /\ accepted' \in SUBSET Job /\ cutShort' \in SUBSET Job
  BY <1>1 DEF AcceptedSettle, Settling, Active, InFlight, JobsTyped
<1>5. PICK next \in JobRecord : (job[j].ok => next.at = "done") /\ job' = [job EXCEPT ![j] = next]
  <2>1. CASE job[j].ok
    <3>1. PICK at \in {"done"}, ok \in BOOLEAN : To(j, at, ok)
      BY <1>1, <2>1 DEF Settle
    <3> QED
      BY <3>1, JobMoved DEF InFlight
  <2>2. CASE ~ job[j].ok /\ job[j].attempts + 1 < MaxAttempts
    <3> DEFINE next == [job[j] EXCEPT !.at = "queued", !.attempts = @ + 1]
    <3>1. job[j] \in JobRecord /\ job[j].attempts + 1 \in 0..MaxAttempts
      BY <2>2, DeliveryAssumption DEF JobsTyped, JobRecord
    <3>2. next \in JobRecord
      BY <3>1 DEF JobRecord
    <3>3. job' = [job EXCEPT ![j] = next]
      BY <1>1, <2>2 DEF Settle, JobsTyped
    <3> HIDE DEF next
    <3> QED
      BY <2>2, <3>2, <3>3
  <2>3. CASE ~ job[j].ok /\ ~ (job[j].attempts + 1 < MaxAttempts)
    BY <1>1, <2>3, JobMoved DEF Settle
  <2> QED
    BY <2>1, <2>2, <2>3
<1>6. UpdatesHeld' /\ ApiTyped' /\ EventSaved' /\ FreshJobs' /\ JobsTyped' /\ AcceptedSettle'
  BY <1>1, <1>2, <1>4, <1>5, JobStep DEF apiVars
<1> QED
  BY <1>2, <1>3, <1>6

LEMMA WriteFailsStep ==
    ASSUME DeliveryInv, NEW j \in Job, WriteFails(j) PROVE DeliveryInv'
<1> USE DEF DeliveryInv
<1>1. /\ job[j].at \in {"answered", "recorded", "concluding"}
      /\ GiveUpAudit({"handlers", "loop"}) /\ UNCHANGED <<hookVars, eventVars, accepted, apiVars>>
      /\ cutShort' = cutShort \cup {j} \/ (~ job[j].ok /\ cutShort' = cutShort)
  BY DEF WriteFails
<1>2. HooksTyped' /\ DeletedGone' /\ EventsKept' /\ AuditKept' /\ Events!OnFile' = Events!OnFile
  BY <1>1, SameHooks, SameEvents, GivenUp DEF apiVars
<1>3. PICK at \in {"answered", "concluding"} : To(j, at, FALSE)
  BY DEF WriteFails
<1>4. PICK next \in JobRecord : job' = [job EXCEPT ![j] = next]
  BY <1>3, JobMoved DEF InFlight
<1>5. /\ accepted' \in SUBSET Job /\ cutShort' \in SUBSET Job /\ Active(j)
      /\ j \notin accepted' \ cutShort'
      /\ accepted' \ cutShort' \subseteq (accepted \ cutShort) \cup {j}
  BY <1>1 DEF AcceptedSettle, Settling, Active, InFlight, JobsTyped
<1>6. UpdatesHeld' /\ ApiTyped' /\ EventSaved' /\ FreshJobs' /\ JobsTyped' /\ AcceptedSettle'
  BY <1>1, <1>2, <1>4, <1>5, JobStep DEF apiVars
<1> QED
  BY <1>2, <1>6

LEMMA WorkerCrashStep ==
    ASSUME DeliveryInv, WorkerCrash PROVE DeliveryInv'
<1> USE DEF DeliveryInv
<1> DEFINE stalled == {j \in Job : job[j].at \in InFlight}
<1>1. PICK hooksTorn \in BOOLEAN, auditTorn \in BOOLEAN, again \in SUBSET stalled :
          /\ Hooks!Restart({"worker"}, hooksTorn)
          /\ Events!Restart({"worker"}, FALSE)
          /\ Audit!Restart({"handlers", "loop"}, auditTorn)
          /\ job' = [j \in Job |->
                IF j \notin stalled THEN job[j]
                ELSE [job[j] EXCEPT !.at = IF j \in again THEN "queued" ELSE "failed", !.ok = FALSE]]
          /\ cutShort' = cutShort \cup {j \in stalled : job[j].ok}
          /\ own' = [own EXCEPT !["handlers"] = {}, !["loop"] = {}]
          /\ resetting' = resetting \ {"handlers", "loop"}
          /\ UNCHANGED <<accepted, apiVars, lastAuthor>>
  <2>1. PICK torn \in BOOLEAN, again \in SUBSET stalled :
          /\ Hooks!Restart({"worker"}, torn /\ \E j \in Job : job[j].at = "answered")
          /\ Events!Restart({"worker"}, FALSE)
          /\ Audit!Restart({"handlers", "loop"},
                           torn /\ (\/ \E j \in Job : job[j].at = "recorded"
                                    \/ \E j \in Job : job[j].at = "concluding"))
          /\ job' = [j \in Job |->
                IF j \notin stalled THEN job[j]
                ELSE [job[j] EXCEPT !.at = IF j \in again THEN "queued" ELSE "failed", !.ok = FALSE]]
          /\ cutShort' = cutShort \cup {j \in stalled : job[j].ok}
          /\ own' = [own EXCEPT !["handlers"] = {}, !["loop"] = {}]
          /\ resetting' = resetting \ {"handlers", "loop"}
          /\ UNCHANGED <<accepted, apiVars, lastAuthor>>
    BY DEF WorkerCrash
  <2>2. PICK hooksTorn \in BOOLEAN : hooksTorn = (torn /\ \E j \in Job : job[j].at = "answered")
    OBVIOUS
  <2>3. PICK auditTorn \in BOOLEAN :
          auditTorn = (torn /\ (\/ \E j \in Job : job[j].at = "recorded"
                                \/ \E j \in Job : job[j].at = "concluding"))
    OBVIOUS
  <2> HIDE DEF stalled
  <2> QED
    BY <2>1, <2>2, <2>3
<1>2. HooksTyped' /\ hookCopy'["api"] = hookCopy["api"]
  <2>1. {"worker"} \in SUBSET Process /\ "api" \in Process /\ "api" \notin {"worker"}
    BY DEF Process
  <2>2. /\ HooksTyped'
        /\ \A i \in Process : hookCopy'[i] = IF i \in {"worker"} THEN None ELSE hookCopy[i]
    <3>1. Hooks!Restart({"worker"}, hooksTorn) /\ HooksTyped
      BY <1>1
    <3> QED
      BY <2>1, <3>1, HooksRestarted
  <2> QED
    BY <2>1, <2>2
<1>3. DeletedGone'
  <2>1. deleted' = deleted
    BY <1>1 DEF apiVars
  <2>2. deleted # {} => Hooks!View("api")' = Hooks!View("api")
    BY <1>2 DEF DeletedGone, Hooks!View
  <2> QED
    BY <1>2, <2>1, <2>2 DEF DeletedGone, DeletedStaysDeleted, Stored
<1>4. EventsKept' /\ Events!OnFile' = Events!OnFile
  BY <1>1 DEF Events!Restart, Events!OnFile, EventsKept, Process, apiVars
<1>5. AuditKept'
  <2>1. {"handlers", "loop"} \in SUBSET Author
    BY DEF Author
  <2>2. /\ own' \in [Author -> SUBSET AuditRecord]
        /\ \A a \in Author : own'[a] = IF a \in {"handlers", "loop"} THEN {} ELSE own[a]
    BY <1>1 DEF AuditKept
  <2> QED
    BY <1>1, <2>1, <2>2, AuditRestarted
<1>6. ASSUME NEW j \in Job
      PROVE  /\ job'[j] \in JobRecord
             /\ j \notin stalled => job'[j] = job[j]
  <2>1. job[j] \in JobRecord
    BY DEF JobsTyped
  <2> QED
    BY <1>1, <2>1 DEF JobRecord
<1>7. JobsTyped'
  BY <1>1, <1>6 DEF JobsTyped
<1>8. UpdatesHeld' /\ ApiTyped'
  BY <1>1 DEF UpdatesHeld, ApiTyped, apiVars
<1>9. UNCHANGED <<api, accepted, eventsTorn>>
  BY <1>1 DEF apiVars
<1>10. EventSaved'
  <2>1. ASSUME NEW j \in Job, Active(j)' PROVE Active(j)
    BY <1>6, <2>1 DEF Active
  <2> QED
    BY <1>4, <1>9, <2>1 DEF EventSaved, QueuedEventsOnFile, Active
<1>11. FreshJobs'
  <2>1. ASSUME NEW w \in api.left, api.at = "enqueueing"
        PROVE  <<api.event, w>> \in Job /\ <<api.event, w>> \notin stalled
    BY <2>1 DEF ApiTyped, ApiRecord, Job, FreshJobs, InFlight
  <2> QED
    BY <1>6, <1>9, <2>1 DEF FreshJobs
<1>12. AcceptedSettle'
  <2>1. ASSUME NEW j \in accepted' \ cutShort' PROVE Settling(j)'
    <3>1. j \in Job /\ j \in accepted \ cutShort /\ ~ (j \in stalled /\ job[j].ok)
      BY <1>1, <1>9, <2>1 DEF JobsTyped
    <3>2. j \notin stalled
      BY <3>1 DEF AcceptedSettle, Settling, InFlight
    <3> QED
      BY <1>6, <3>1, <3>2 DEF AcceptedSettle, Settling
  <2> QED
    BY <2>1 DEF AcceptedSettle
<1> QED
  BY <1>2, <1>3, <1>4, <1>5, <1>7, <1>8, <1>10, <1>11, <1>12

LEMMA StutterStep ==
    ASSUME DeliveryInv, UNCHANGED vars PROVE DeliveryInv'
<1> USE DEF DeliveryInv
<1>1. UNCHANGED <<hookVars, eventVars, auditVars, jobVars, api, update, deleted, eventsTorn>>
  BY DEF vars, apiVars
<1>2. HooksTyped' /\ DeletedGone' /\ EventsKept' /\ AuditKept' /\ Events!OnFile' = Events!OnFile
  BY <1>1, SameHooks, SameEvents, SameAudit
<1>3. UpdatesHeld'
  BY <1>1 DEF UpdatesHeld
<1>4. ApiTyped' /\ EventSaved' /\ FreshJobs' /\ JobsTyped' /\ AcceptedSettle'
  <2>1. api' = api /\ api' \in ApiRecord
    BY <1>1 DEF ApiTyped
  <2> QED
    BY <1>1, <1>2, <2>1, ApiStep
<1> QED
  BY <1>2, <1>3, <1>4

-----------------------------------------------------------------------------
LEMMA DeliveryInvariant == Spec => []DeliveryInv
<1>1. Init => DeliveryInv
  BY InitInv
<1>2. DeliveryInv /\ [Next]_vars => DeliveryInv'
  <2> SUFFICES ASSUME DeliveryInv, [Next]_vars PROVE DeliveryInv'
    OBVIOUS
  <2>1. CASE ApiNext
    <3>1. CASE \/ \E w \in Webhook, types \in Subscriptions, enabled \in BOOLEAN :
                     CreateWebhook(w, [types |-> types, enabled |-> enabled])
               \/ \E w \in Webhook : DeleteWebhook(w)
               \/ \E u \in Update, types \in SUBSET Type, enabled \in BOOLEAN :
                     FinishUpdate(u, types, enabled)
      BY <3>1, WebhooksStep
    <3>2. CASE \E u \in Update : RejectUpdate(u) \/ \E w \in Webhook : BeginUpdate(u, w)
      BY <3>2, BodyStep
    <3>3. CASE \E w \in Webhook : Enqueue(w)
      BY <3>3, EnqueueStep
    <3>4. CASE \E e \in Event : SaveEvent(e)
      BY <3>4, SavedEventStep
    <3>5. CASE Emit \/ AuditApi \/ ReadWebhooks \/ ReadEvents
      BY <3>5, ApiRestStep
    <3>6. CASE ApiCrash
      BY <3>6, ApiCrashStep
    <3>7. CASE ReadAudit \/ ResetAudit("api")
      BY <3>7, TrailKept DEF TrailStep, Author
    <3> QED
      BY <2>1, <3>1, <3>2, <3>3, <3>4, <3>5, <3>6, <3>7 DEF ApiNext
  <2>2. CASE JobNext
    <3>1. PICK j \in Job : \/ Take(j) \/ SaveDelivery(j) \/ AuditDelivery(j)
                           \/ Conclude(j) \/ WriteFails(j)
                           \/ \E ok \in BOOLEAN : Answer(j, ok)
      BY <2>2 DEF JobNext
    <3> QED
      BY <3>1, TakeStep, AnswerStep, RecordStep, ConcludeStep, WriteFailsStep
  <2>3. CASE WorkerCrash
    BY <2>3, WorkerCrashStep
  <2>4. CASE \/ \E j \in Job : ReadAuditToAppend(j)
             \/ \E a \in {"handlers", "loop"} : ResetAudit(a)
    BY <2>4, TrailKept DEF TrailStep, Author
  <2>5. CASE UNCHANGED vars
    BY <2>5, StutterStep
  <2> QED
    BY <2>1, <2>2, <2>3, <2>4, <2>5 DEF Next, WorkerNext
<1> QED
  BY <1>1, <1>2, PTL DEF Spec

(* The files, their copies, the calls and the jobs keep their form whatever *)
(* is torn, read stale or lost with a process.                              *)
THEOREM TypeCorrect == Spec => []TypeOK
<1>1. DeliveryInv => TypeOK
  BY InvImplies
<1> QED
  BY <1>1, DeliveryInvariant, PTL

(* emitEvent saves the event before it queues the first delivery: a worker  *)
(* that reads the event file afresh finds the event of every job it takes.  *)
THEOREM EventsTheorem == Spec => []QueuedEventsOnFile
<1>1. DeliveryInv => QueuedEventsOnFile
  BY InvImplies
<1> QED
  BY <1>1, DeliveryInvariant, PTL

(* A post that was answered 2xx is made again only when a write failed      *)
(* after it or the worker ended before the queue heard of it.               *)
THEOREM ResentTheorem == Spec => []ResentOnlyIfCut
<1>1. DeliveryInv => ResentOnlyIfCut
  BY InvImplies
<1> QED
  BY <1>1, DeliveryInvariant, PTL

(* updateWebhook adds nothing: an update whose body comes after a DELETE    *)
(* does not bring the webhook back.                                         *)
THEOREM DeletedTheorem == Spec => []DeletedStaysDeleted
<1>1. DeliveryInv => DeletedStaysDeleted
  BY InvImplies
<1> QED
  BY <1>1, DeliveryInvariant, PTL

(* Three instances write one audit file from copies of their own, and one   *)
(* whose first read fails writes an empty one; what an instance has         *)
(* appended is in every file it writes afterwards.                          *)
THEOREM AuthorTheorem == Spec => []AuthorKeepsRecords
<1>1. DeliveryInv => AuthorKeepsRecords
  BY InvImplies
<1> QED
  BY <1>1, DeliveryInvariant, PTL

-----------------------------------------------------------------------------
(* The refinement of AtLeastOnce.                                           *)

(* What a worker takes for a success was one. *)
OkAccepted ==
    \A j \in Job :
        job[j].ok => j \in accepted /\ job[j].at \in {"answered", "recorded", "concluding", "done"}

LEMMA OkInit == Init => OkAccepted
BY DEF Init, OkAccepted

(* A step that moves one job, and has it accepted if it takes it for that. *)
LEMMA OkMoved ==
    ASSUME JobsTyped, OkAccepted, NEW j \in Job, NEW next \in JobRecord,
           job' = [job EXCEPT ![j] = next], accepted \subseteq accepted',
           next.ok => j \in accepted' /\ next.at \in {"answered", "recorded", "concluding", "done"}
    PROVE  OkAccepted'
BY DEF JobsTyped, OkAccepted

LEMMA OkJobStep ==
    ASSUME JobsTyped, OkAccepted, JobNext PROVE OkAccepted'
<1>1. PICK j \in Job : \/ Take(j) \/ SaveDelivery(j) \/ AuditDelivery(j)
                       \/ Conclude(j) \/ WriteFails(j)
                       \/ \E ok \in BOOLEAN : Answer(j, ok)
  BY DEF JobNext
<1>2. job[j] \in JobRecord /\ job[j].ok \in BOOLEAN
  BY DEF JobsTyped, JobRecord
<1>3. ASSUME NEW at \in {"queued", "done", "failed"} \cup InFlight, NEW ok \in BOOLEAN, To(j, at, ok),
             accepted \subseteq accepted',
             ok => j \in accepted' /\ at \in {"answered", "recorded", "concluding", "done"}
      PROVE  OkAccepted'
  BY <1>3, JobMoved, OkMoved
<1>4. CASE Take(j)
  <2>1. PICK at \in {"posting", "concluding"} : To(j, at, FALSE)
    BY <1>4 DEF Take
  <2> QED
    BY <1>3, <1>4, <2>1 DEF Take, InFlight
<1>5. ASSUME NEW ok \in BOOLEAN, Answer(j, ok) PROVE OkAccepted'
  BY <1>3, <1>5 DEF Answer, InFlight
<1>6. CASE SaveDelivery(j) \/ AuditDelivery(j)
  <2>1. PICK at \in {"recorded", "concluding"}, ok \in BOOLEAN : To(j, at, ok) /\ ok = job[j].ok
    BY <1>2, <1>6 DEF SaveDelivery, AuditDelivery
  <2> QED
    BY <1>3, <1>6, <2>1 DEF SaveDelivery, AuditDelivery, OkAccepted, InFlight
<1>7. CASE WriteFails(j)
  <2>1. PICK at \in {"answered", "concluding"} : To(j, at, FALSE)
    BY <1>7 DEF WriteFails
  <2> QED
    BY <1>3, <1>7, <2>1 DEF WriteFails, InFlight
<1>8. CASE Conclude(j)
  <2>1. Settle(j) /\ accepted' = accepted
    BY <1>8 DEF Conclude
  <2>2. CASE job[j].ok
    BY <1>3, <2>1, <2>2 DEF Settle, OkAccepted
  <2>3. CASE ~ job[j].ok /\ job[j].attempts + 1 < MaxAttempts
    BY <2>1, <2>3 DEF Settle, OkAccepted, JobsTyped, JobRecord
  <2>4. CASE ~ job[j].ok /\ ~ (job[j].attempts + 1 < MaxAttempts)
    BY <1>3, <2>1, <2>4 DEF Settle
  <2> QED
    BY <2>2, <2>3, <2>4
<1> QED
  BY <1>1, <1>4, <1>5, <1>6, <1>7, <1>8

(* Only Enqueue, of what the API process does, changes a job. *)
LEMMA ApiKeepsJobs ==
    ASSUME ApiNext, \A w \in Webhook : ~ Enqueue(w) PROVE UNCHANGED jobVars
<1>1. ASSUME \E w \in Webhook, types \in Subscriptions, enabled \in BOOLEAN :
                CreateWebhook(w, [types |-> types, enabled |-> enabled])
      PROVE  UNCHANGED jobVars
  BY <1>1 DEF CreateWebhook
<1>2. ASSUME \E u \in Update, w \in Webhook : BeginUpdate(u, w)
      PROVE  UNCHANGED jobVars
  BY <1>2 DEF BeginUpdate
<1>3. ASSUME \E u \in Update, types \in SUBSET Type, enabled \in BOOLEAN :
                FinishUpdate(u, types, enabled)
      PROVE  UNCHANGED jobVars
  BY <1>3 DEF FinishUpdate
<1>4. ASSUME \/ \E u \in Update : RejectUpdate(u)
             \/ \E w \in Webhook : DeleteWebhook(w)
             \/ \E e \in Event : SaveEvent(e)
      PROVE  UNCHANGED jobVars
  BY <1>4 DEF RejectUpdate, DeleteWebhook, SaveEvent
<1>5. ASSUME \/ Emit \/ AuditApi \/ ReadWebhooks \/ ReadEvents \/ ApiCrash
             \/ ReadAudit \/ ResetAudit("api")
      PROVE  UNCHANGED jobVars
  BY <1>5 DEF Emit, AuditApi, ReadWebhooks, ReadEvents, ReadAudit, ResetAudit, ApiCrash
<1> QED
  BY <1>1, <1>2, <1>3, <1>4, <1>5 DEF ApiNext

(* What the end of the worker does to its jobs. *)
Stalled == {j \in Job : job[j].at \in InFlight}

LEMMA JobsStall ==
    ASSUME WorkerCrash
    PROVE  \E again \in SUBSET Stalled :
              /\ Events!Restart({"worker"}, FALSE)
              /\ job' = [j \in Job |->
                    IF j \notin Stalled THEN job[j]
                    ELSE [job[j] EXCEPT !.at = IF j \in again THEN "queued" ELSE "failed", !.ok = FALSE]]
              /\ cutShort' = cutShort \cup {j \in Stalled : job[j].ok}
              /\ UNCHANGED <<accepted, apiVars>>
<1>1. PICK torn \in BOOLEAN, again \in SUBSET Stalled :
        /\ Hooks!Restart({"worker"}, torn /\ \E j \in Job : job[j].at = "answered")
        /\ Events!Restart({"worker"}, FALSE)
        /\ Audit!Restart({"handlers", "loop"},
                         torn /\ (\/ \E j \in Job : job[j].at = "recorded"
                                  \/ \E j \in Job : job[j].at = "concluding"))
        /\ job' = [j \in Job |->
              IF j \notin Stalled THEN job[j]
              ELSE [job[j] EXCEPT !.at = IF j \in again THEN "queued" ELSE "failed", !.ok = FALSE]]
        /\ cutShort' = cutShort \cup {j \in Stalled : job[j].ok}
        /\ own' = [own EXCEPT !["handlers"] = {}, !["loop"] = {}]
        /\ resetting' = resetting \ {"handlers", "loop"}
        /\ UNCHANGED <<accepted, apiVars, lastAuthor>>
  BY DEF WorkerCrash, Stalled
<1> QED
  BY <1>1

LEMMA OkStep ==
    ASSUME DeliveryInv, OkAccepted, [Next]_vars PROVE OkAccepted'
<1>a. JobsTyped
  BY DEF DeliveryInv
<1>1. CASE UNCHANGED <<job, accepted>>
  BY <1>1 DEF OkAccepted
<1>2. ASSUME NEW w \in Webhook, Enqueue(w) PROVE OkAccepted'
  <2>1. PICK k : k = <<api.event, w>>
    OBVIOUS
  <2>2. job' = [job EXCEPT ![k].at = "queued"] /\ accepted' = accepted /\ job[k].at = "none"
    BY <1>2, <2>1 DEF Enqueue, DeliveryInv, FreshJobs
  <2>3. ASSUME NEW j \in Job, job'[j].ok PROVE job'[j] = job[j] /\ job[j].ok
    BY <1>a, <2>2, <2>3 DEF OkAccepted, JobsTyped, JobRecord
  <2> QED
    BY <2>2, <2>3 DEF OkAccepted
<1>3. CASE JobNext
  BY <1>a, <1>3, OkJobStep
<1>4. CASE WorkerCrash
  <2>1. PICK again \in SUBSET Stalled :
          job' = [j \in Job |->
                IF j \notin Stalled THEN job[j]
                ELSE [job[j] EXCEPT !.at = IF j \in again THEN "queued" ELSE "failed", !.ok = FALSE]]
    BY <1>4, JobsStall
  <2>2. ASSUME NEW j \in Job, job'[j].ok PROVE job'[j] = job[j]
    BY <1>a, <2>1, <2>2 DEF JobsTyped, JobRecord
  <2>3. accepted' = accepted
    BY <1>4, JobsStall
  <2> QED
    BY <2>2, <2>3 DEF OkAccepted
<1>5. CASE ApiNext
  BY <1>1, <1>2, <1>5, ApiKeepsJobs DEF jobVars
<1>6. CASE \/ \E j \in Job : ReadAuditToAppend(j)
          \/ \E a \in {"handlers", "loop"} : ResetAudit(a)
  BY <1>1, <1>6, TrailUnchanged DEF jobVars, TrailStep, Author
<1>7. CASE UNCHANGED vars
  BY <1>1, <1>7 DEF vars, jobVars
<1> QED
  BY <1>3, <1>4, <1>5, <1>6, <1>7 DEF Next, WorkerNext

(* The status of a job that moves, and of the others. *)
LEMMA StatusMoved ==
    ASSUME JobsTyped, NEW j \in Job, NEW next \in JobRecord, job' = [job EXCEPT ![j] = next]
    PROVE  Status' = [Status EXCEPT ![j] = StatusAt(next.at)]
<1>1. ASSUME NEW k \in Job
      PROVE  StatusAt(job'[k].at) = IF k = j THEN StatusAt(next.at) ELSE StatusAt(job[k].at)
  <2>1. job'[k] = IF k = j THEN next ELSE job[k]
    BY DEF JobsTyped
  <2> QED
    BY <2>1
<1>2. Status' = [k \in Job |-> IF k = j THEN StatusAt(next.at) ELSE StatusAt(job[k].at)]
  BY <1>1 DEF Status
<1> QED
  BY <1>2 DEF Status

LEMMA StatusSame == ASSUME job' = job PROVE Status' = Status
BY DEF Status

(* What the worker knows of a job it may post again or give up. *)
LEMMA KnownSettles ==
    ASSUME AcceptedSettle, NEW j \in Job, job[j].at = "queued" \/ (job[j].at \in InFlight /\ ~ job[j].ok)
    PROVE  ~ Promise!KnownAccepted(j)
BY DEF AcceptedSettle, Settling, InFlight, Promise!KnownAccepted

LEMMA JobRefines ==
    ASSUME DeliveryInv, OkAccepted, ~ eventsTorn', JobNext
    PROVE  [Promise!Next]_(Promise!vars)
<1> USE DEF DeliveryInv, Promise!vars
<1> DEFINE OnFile == Events!OnFile
<1>1. PICK j \in Job : \/ Take(j) \/ SaveDelivery(j) \/ AuditDelivery(j)
                       \/ Conclude(j) \/ WriteFails(j)
                       \/ \E ok \in BOOLEAN : Answer(j, ok)
  BY DEF JobNext
<1>2. job[j] \in JobRecord /\ job[j].ok \in BOOLEAN /\ j \in Promise!Delivery /\ Status[j] = StatusAt(job[j].at)
  BY DEF JobsTyped, JobRecord, Job, Promise!Delivery, Status
<1>3. eventsTorn' = eventsTorn /\ OnFile' = OnFile
  <2>1. eventsTorn' = eventsTorn
    BY <1>1 DEF Take, SaveDelivery, AuditDelivery, Conclude, WriteFails, Answer, apiVars
  <2>2. CASE Take(j)
    <3>1. PICK torn \in BOOLEAN : Events!Load("worker", torn)
      BY <2>2 DEF Take
    <3> QED
      BY <2>1, <3>1, EventsLoaded DEF Process
  <2>3. CASE UNCHANGED eventVars
    BY <2>1, <2>3, SameEvents
  <2> QED
    BY <1>1, <2>2, <2>3 DEF SaveDelivery, AuditDelivery, Conclude, WriteFails, Answer
<1>4. Active(j) => j[1] \in OnFile
  BY <1>3 DEF EventSaved, QueuedEventsOnFile, Active
<1>5. ASSUME NEW at \in {"queued", "done", "failed"} \cup InFlight, NEW ok \in BOOLEAN, To(j, at, ok)
      PROVE  Status' = [Status EXCEPT ![j] = StatusAt(at)]
  BY <1>5, JobMoved, StatusMoved
<1> HIDE DEF OnFile
<1>6. CASE Take(j)
  <2>1. PICK at \in {"posting", "concluding"} : To(j, at, FALSE)
    BY <1>6 DEF Take
  <2>2. /\ Status[j] = "waiting" /\ Status' = [Status EXCEPT ![j] = StatusAt(at)]
        /\ job[j].at = "queued" /\ UNCHANGED <<accepted, cutShort>>
    BY <1>2, <1>5, <1>6, <2>1 DEF Take, StatusAt, InFlight
  <2>3. CASE at = "posting"
    <3>1. Status' = [Status EXCEPT ![j] = "posted"] /\ j[1] \in OnFile /\ ~ Promise!KnownAccepted(j)
      BY <1>4, <2>2, <2>3, KnownSettles DEF StatusAt, Active
    <3>2. Promise!Post(j)
      BY <1>3, <2>2, <3>1 DEF Promise!Post, Promise!Moves, OnFile
    <3> QED
      BY <1>2, <3>2 DEF Promise!Next
  <2>4. CASE at = "concluding"
    <3>1. Promise!Fail(j)
      BY <1>3, <2>2, <2>4 DEF Promise!Fail, Promise!Moves, OnFile, StatusAt
    <3> QED
      BY <1>2, <3>1 DEF Promise!Next
  <2> QED
    BY <2>3, <2>4
<1>7. ASSUME NEW ok \in BOOLEAN, Answer(j, ok) PROVE Promise!Next
  <2>1. /\ Status[j] = "posted" /\ Status' = [Status EXCEPT ![j] = "answered"]
        /\ accepted' = (IF ok THEN accepted \cup {j} ELSE accepted) /\ cutShort' = cutShort
    BY <1>2, <1>5, <1>7 DEF Answer, StatusAt, InFlight
  <2>2. Promise!Answer(j, ok)
    BY <1>3, <2>1 DEF Promise!Answer, Promise!Moves, OnFile
  <2> QED
    BY <1>2, <2>2 DEF Promise!Next
<1>8. CASE SaveDelivery(j) \/ AuditDelivery(j)
  <2>1. PICK at \in {"recorded", "concluding"} : To(j, at, job[j].ok)
    BY <1>8 DEF SaveDelivery, AuditDelivery
  <2>2. Status[j] = "answered" /\ Status' = [Status EXCEPT ![j] = "answered"]
    BY <1>2, <1>5, <1>8, <2>1 DEF SaveDelivery, AuditDelivery, StatusAt, InFlight
  <2>3. Status' = Status /\ UNCHANGED <<accepted, cutShort>>
    BY <1>8, <2>2 DEF SaveDelivery, AuditDelivery, Status
  <2> QED
    BY <1>3, <2>3 DEF OnFile
<1>9. CASE WriteFails(j)
  <2>1. PICK at \in {"answered", "concluding"} : To(j, at, FALSE)
    BY <1>9 DEF WriteFails
  <2>2. Status[j] = "answered" /\ Status' = [Status EXCEPT ![j] = "answered"] /\ accepted' = accepted
    BY <1>2, <1>5, <1>9, <2>1 DEF WriteFails, StatusAt, InFlight
  <2>3. Status' = Status
    BY <2>2 DEF Status
  <2>4. CASE job[j].ok /\ cutShort' = cutShort \cup {j}
    <3>1. Promise!Doubt(j)
      BY <1>3, <2>2, <2>3, <2>4 DEF Promise!Doubt, OkAccepted, OnFile
    <3> QED
      BY <1>2, <3>1 DEF Promise!Next
  <2>5. CASE cutShort' = cutShort
    BY <1>3, <2>2, <2>3, <2>5 DEF OnFile
  <2> QED
    BY <1>9, <2>4, <2>5 DEF WriteFails
<1>10. CASE Conclude(j)
  <2>1. Settle(j) /\ UNCHANGED <<accepted, cutShort>> /\ job[j].at = "concluding" /\ Status[j] = "answered"
    BY <1>2, <1>10 DEF Conclude, StatusAt
  <2>2. CASE job[j].ok
    <3>1. Status' = [Status EXCEPT ![j] = "delivered"]
      BY <1>5, <2>1, <2>2 DEF Settle, StatusAt
    <3>2. Promise!Deliver(j)
      BY <1>3, <2>1, <2>2, <3>1 DEF Promise!Deliver, Promise!Moves, OkAccepted, OnFile
    <3> QED
      BY <1>2, <3>2 DEF Promise!Next
  <2>3. CASE ~ job[j].ok
    <3>1. ~ Promise!KnownAccepted(j)
      BY <2>1, <2>3, KnownSettles DEF InFlight
    <3>2. CASE job[j].attempts + 1 < MaxAttempts
      <4>1. job' = [job EXCEPT ![j].at = "queued", ![j].attempts = @ + 1]
        BY <2>1, <2>3, <3>2 DEF Settle
      <4>2. Status' = [Status EXCEPT ![j] = "waiting"]
        BY <4>1 DEF Status, StatusAt, JobsTyped, JobRecord
      <4>3. Promise!Retry(j)
        BY <1>3, <2>1, <3>1, <4>2 DEF Promise!Retry, Promise!Moves, OnFile
      <4> QED
        BY <1>2, <4>3 DEF Promise!Next
    <3>3. CASE ~ (job[j].attempts + 1 < MaxAttempts)
      <4>1. Status' = [Status EXCEPT ![j] = "failed"]
        BY <1>5, <2>1, <2>3, <3>3 DEF Settle, StatusAt
      <4>2. Promise!GiveUp(j)
        BY <1>3, <2>1, <3>1, <4>1 DEF Promise!GiveUp, Promise!Moves, OnFile
      <4> QED
        BY <1>2, <4>2 DEF Promise!Next
    <3> QED
      BY <3>2, <3>3
  <2> QED
    BY <2>2, <2>3
<1> QED
  BY <1>1, <1>6, <1>7, <1>8, <1>9, <1>10

LEMMA Requeued ==
    ASSUME JobsTyped, NEW j \in Job, job' = [job EXCEPT ![j].at = "queued"]
    PROVE  \E next \in JobRecord : next.at = "queued" /\ job' = [job EXCEPT ![j] = next]
<1> DEFINE next == [job[j] EXCEPT !.at = "queued"]
<1>1. next \in JobRecord /\ next.at = "queued"
  BY DEF JobsTyped, JobRecord
<1>2. job' = [job EXCEPT ![j] = next]
  OBVIOUS
<1> HIDE DEF next
<1> QED
  BY <1>1, <1>2

LEMMA InterruptRefines ==
    ASSUME DeliveryInv, OkAccepted, WorkerCrash
    PROVE  Promise!Interrupt
<1> USE DEF DeliveryInv
<1>1. PICK again \in SUBSET Stalled :
              /\ Events!Restart({"worker"}, FALSE)
              /\ job' = [j \in Job |->
                    IF j \notin Stalled THEN job[j]
                    ELSE [job[j] EXCEPT !.at = IF j \in again THEN "queued" ELSE "failed", !.ok = FALSE]]
              /\ cutShort' = cutShort \cup {j \in Stalled : job[j].ok}
              /\ UNCHANGED <<accepted, apiVars>>
  BY JobsStall
<1>2. Promise!Delivery = Job /\ Promise!UnderWay = Stalled
  <2>1. ASSUME NEW j \in Job PROVE Status[j] \in {"posted", "answered"} <=> j \in Stalled
    <3>1. job[j] \in JobRecord
      BY DEF JobsTyped
    <3> QED
      BY <3>1 DEF Status, StatusAt, Stalled, JobRecord, InFlight
  <2>2. Promise!Delivery = Job
    BY DEF Job, Promise!Delivery
  <2> QED
    BY <2>1, <2>2 DEF Promise!UnderWay, Stalled
<1>3. Status' = [j \in Job |-> IF j \notin Stalled THEN Status[j]
                               ELSE IF j \in again THEN "waiting" ELSE "failed"]
  <2>1. ASSUME NEW j \in Job
        PROVE  StatusAt(job'[j].at) = IF j \notin Stalled THEN Status[j]
                                      ELSE IF j \in again THEN "waiting" ELSE "failed"
    <3>1. CASE j \notin Stalled
      BY <1>1, <3>1 DEF Status
    <3>2. CASE j \in Stalled
      <4>1. job'[j].at = IF j \in again THEN "queued" ELSE "failed"
        BY <1>1, <3>2 DEF JobsTyped, JobRecord
      <4> QED
        BY <3>2, <4>1 DEF StatusAt
    <3> QED
      BY <3>1, <3>2
  <2> QED
    BY <2>1 DEF Status
<1>4. cutShort' = cutShort \cup (accepted \cap Stalled)
  <2>1. ASSUME NEW j \in Stalled PROVE j \in accepted /\ j \notin cutShort => job[j].ok
    BY <2>1 DEF AcceptedSettle, Settling, Stalled, InFlight
  <2>2. ASSUME NEW j \in Stalled, job[j].ok PROVE j \in accepted
    BY <2>2 DEF OkAccepted, Stalled
  <2> QED
    BY <1>1, <2>1, <2>2
<1>5. Events!OnFile' = Events!OnFile /\ accepted' = accepted
  BY <1>1 DEF Events!Restart, Events!OnFile
<1> QED
  BY <1>2, <1>3, <1>4, <1>5 DEF Promise!Interrupt

(* What the API process does, but for a crash that cuts the event file off. *)
LEMMA ApiRefines ==
    ASSUME DeliveryInv, ~ eventsTorn', ApiNext
    PROVE  [Promise!Next]_(Promise!vars)
<1> USE DEF DeliveryInv, Promise!vars
<1>1. ASSUME NEW e \in Event, SaveEvent(e) PROVE Promise!Next
  <2>1. ~ eventsTorn /\ UNCHANGED jobVars
    BY <1>1 DEF SaveEvent
  <2>2. Events!View("api") = Events!OnFile
    BY <2>1 DEF EventsKept, Events!View
  <2>3. PICK events \in SUBSET Event : events = Events!OnFile \cup {e} /\ Events!Save("api", events)
    BY <1>1, <2>2 DEF SaveEvent, EventsKept, Events!OnFile
  <2>4. Events!OnFile' = events
    BY <2>3, NoneIsNothing DEF Events!Save, Events!OnFile
  <2>5. Promise!Record(e)
    BY <2>1, <2>3, <2>4, StatusSame DEF Promise!Record, jobVars
  <2> QED
    BY <2>5 DEF Promise!Next
<1>2. ASSUME NEW w \in Webhook, Enqueue(w) PROVE Promise!Next
  <2>1. PICK j \in Job : j = <<api.event, w>>
    BY <1>2 DEF Enqueue, ApiTyped, Job
  <2>2. /\ job[j].at = "none" /\ job' = [job EXCEPT ![j].at = "queued"]
        /\ UNCHANGED <<eventVars, accepted, cutShort, eventsTorn>>
    BY <1>2, <2>1 DEF Enqueue, FreshJobs
  <2>3. Events!OnFile' = Events!OnFile
    BY <2>2, SameEvents
  <2>4. j[1] \in Events!OnFile
    BY <1>2, <2>1, <2>2 DEF Enqueue, EventSaved
  <2>5. Status[j] = "none" /\ Status' = [Status EXCEPT ![j] = "waiting"]
    <3>1. PICK next \in JobRecord : next.at = "queued" /\ job' = [job EXCEPT ![j] = next]
      BY <2>2, Requeued
    <3> QED
      BY <2>2, <3>1, StatusMoved DEF Status, StatusAt
  <2>6. j \in Promise!Delivery
    BY DEF Job, Promise!Delivery
  <2>7. Promise!Order(j)
    BY <2>2, <2>3, <2>4, <2>5 DEF Promise!Order, Promise!Moves
  <2> QED
    BY <2>6, <2>7 DEF Promise!Next
<1>3. ASSUME UNCHANGED jobVars, Events!OnFile' = Events!OnFile PROVE UNCHANGED Promise!vars
  BY <1>3, StatusSame DEF jobVars
<1>4. CASE ApiCrash
  <2>1. PICK torn \in BOOLEAN :
          /\ Events!Restart({"api"}, torn /\ api.at = "emitting")
          /\ eventsTorn' = (eventsTorn \/ (torn /\ api.at = "emitting"))
          /\ UNCHANGED jobVars
    BY <1>4 DEF ApiCrash
  <2>2. Events!OnFile' = Events!OnFile
    BY <2>1 DEF Events!Restart, Events!OnFile
  <2> QED
    BY <1>3, <2>1, <2>2
<1>5. CASE ReadEvents
  <2>1. Events!OnFile' = Events!OnFile /\ UNCHANGED jobVars
    BY <1>5 DEF ReadEvents, Events!Load, Events!OnFile
  <2> QED
    BY <1>3, <2>1
<1>6. ASSUME UNCHANGED <<eventVars, jobVars>> PROVE UNCHANGED Promise!vars
  <2>1. Events!OnFile' = Events!OnFile
    BY <1>6 DEF eventVars, Events!OnFile
  <2> QED
    BY <1>3, <1>6, <2>1
<1>7. ASSUME \/ \E w \in Webhook, types \in Subscriptions, enabled \in BOOLEAN :
                   CreateWebhook(w, [types |-> types, enabled |-> enabled])
             \/ \E u \in Update, w \in Webhook : BeginUpdate(u, w)
             \/ \E u \in Update, types \in SUBSET Type, enabled \in BOOLEAN :
                   FinishUpdate(u, types, enabled)
      PROVE  UNCHANGED <<eventVars, jobVars>>
  BY <1>7 DEF CreateWebhook, BeginUpdate, FinishUpdate
<1>8. ASSUME \/ \E u \in Update : RejectUpdate(u)
             \/ \E w \in Webhook : DeleteWebhook(w)
             \/ Emit \/ AuditApi \/ ReadWebhooks \/ ReadAudit \/ ResetAudit("api")
      PROVE  UNCHANGED <<eventVars, jobVars>>
  BY <1>8 DEF RejectUpdate, DeleteWebhook, Emit, AuditApi, ReadWebhooks, ReadAudit, ResetAudit
<1> QED
  BY <1>1, <1>2, <1>4, <1>5, <1>6, <1>7, <1>8 DEF ApiNext

LEMMA StepRefines ==
    ASSUME DeliveryInv, OkAccepted, [Next]_vars, ~ eventsTorn'
    PROVE  [Promise!Next]_(Promise!vars)
<1>1. CASE WorkerCrash
  BY <1>1, InterruptRefines DEF Promise!Next
<1>2. CASE UNCHANGED vars \/ TrailStep
  <2>1. UNCHANGED <<jobVars, eventVars>>
    BY <1>2, TrailUnchanged DEF vars
  <2> QED
    BY <2>1, StatusSame DEF jobVars, eventVars, Events!OnFile, Promise!vars
<1>3. CASE JobNext
  BY <1>3, JobRefines
<1>4. CASE ApiNext
  BY <1>4, ApiRefines
<1>5. WorkerNext => JobNext \/ TrailStep \/ WorkerCrash
  BY DEF WorkerNext, TrailStep, Author
<1>6. UNCHANGED vars \/ ApiNext \/ WorkerNext
  BY DEF Next
<1> QED
  BY <1>1, <1>2, <1>3, <1>4, <1>5, <1>6

(* Until a crash cuts the event file off, whatever is posted is an event    *)
(* that is on record; a delivery is posted again or given up after it was   *)
(* accepted only when a failed write or the end of the worker hid that from *)
(* the queue; and a job counts as done only if its receiver accepted it.    *)
THEOREM Refinement == Spec => ImplementsAtLeastOnce
<1>1. Init => Promise!Init
  BY DEF Init, Promise!Init, Promise!Delivery, Job, Status, StatusAt, Events!OnFile
<1>2. DeliveryInv /\ OkAccepted /\ [Next]_vars => [~ eventsTorn' => Promise!Next]_(Promise!vars)
  BY StepRefines
<1> QED
  BY <1>1, <1>2, OkInit, OkStep, DeliveryInvariant, PTL DEF Spec, ImplementsAtLeastOnce
=============================================================================
