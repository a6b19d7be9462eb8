# InfraLynx platform: a TLA+ verification

InfraLynx is an infrastructure inventory (sites, racks, devices, prefixes, IP
addresses) with a TypeScript API process, a worker process and JSON state files
that both of them read and write. This directory models the parts where the
interesting behaviour comes from more than one actor: processes that share a
file, handlers that interleave at their awaits, a queue that hands a job out
again, crashes between two writes. TLC checks the models on small instances;
TLAPS proves the safety results for every instance.

## The system

| component | state | operations | interacts with |
|---|---|---|---|
| state files (`packages/job-queue`, `scheduler`, `backup`, `apps/api/src/inventory`) | one JSON file each, a lock file next to it | locked load-modify-write, lock-free reads | every process that opens the file |
| job queue (`packages/job-core`, `job-queue`) | a record per job, BullMQ's own state | enqueue, the worker's processor, retries | API, scheduler, workflow, worker handlers |
| scheduler (`packages/scheduler`) | schedules with last and next run; cron tasks in a worker's memory | create, edit, delete, fire (loop mode), due-run (once mode) | API, job queue |
| approval workflow (`packages/workflow-core`, `apps/api/src/workflows`) | requests, cached per process | create, approve, reject | job queue, audit trail |
| worker (`apps/worker`) | none of its own | a handler per job type | job queue and every store a handler writes |
| inventory (`apps/api/src/inventory`, `packages/validation`) | five collections in one file | create, update, delete with integrity checks | response cache, webhooks, audit |
| response cache (`packages/cache-core`, `apps/api/src/cache`) | Redis keys with a lifetime | remember, delete by prefix | inventory, auth, RBAC handlers |
| webhooks, events (`packages/webhooks`, `event-core`) | webhooks, deliveries, events, each cached per process | register, emit, deliver, redeliver | inventory, job queue, audit |
| audit trail (`packages/audit`) | records, cached per process | append, query | everything that mutates |
| backup (`packages/backup`) | archives, a list of them | create, restore, delete | every state file |
| authentication (`packages/auth-core`, `auth-providers`, `apps/api/src/auth`) | users, sessions, transactions, cached per process | login, refresh, logout, provider edits | response cache, RBAC |
| RBAC (`packages/core-domain/src/rbac`, `apps/api/src/rbac`) | role assignments (in the auth file, through a second repository) | decide, assign | every handler |
| data transfer (`packages/data-transfer`, `apps/api/src/import`, `export`) | three datasets in one file | validate, import now or as a job, export | job queue |
| media (`packages/media-core`, `media-storage`) | content, records and links | upload, download, list | - |
| IPAM, DCIM, network domain | none (pure functions) | CIDR arithmetic, rack placement, path tracing | inventory, validation |
| user interface (`apps/web`, `packages/ui`) | what each page asked for and shows, what is expanded, filtered, selected | ask, abort, answer, toggle, select, filter | the API |
| routing, search ranking, budgets, SQL migrations, shared types | none | - | - |

What is hard in it, and what each component must get right, is listed with its
place in the code under "hazards" in `PROJECT.json`. In short:

* *Files shared by processes.* Exclusion by a lock file, crashes that leave the
  lock file or half a document behind, readers that take no lock.
* *Two records of one fact.* BullMQ and the metadata file both count a job's
  retries; a request and its job, a firing and the schedule's last run, an event
  and its deliveries are written one after the other.
* *Checks before an await.* Handlers of one process interleave at every await;
  what was checked before it may not hold after it.
* *Copies in memory.* Repositories that read their file once and write their copy
  (two of them in one process for the auth file); cron tasks made from schedules that
  are edited later; cached responses and identities.
* *Several writes of one request.* An upload's content, record and links; a backup's
  archive and record; a restore's sections and their undoing; an event, its
  deliveries and its audit record.
* *Answers out of order.* Pages whose requests overlap, aborts that come late.

## The modules

| module | models | abstract specification | proofs |
|---|---|---|---|
| `FileStore` | `#withLockedState` and its helpers in `packages/job-queue/src/index.ts`; the scheduler and the backup store hold copies | `AtomicStore` | `FileStoreProofs` |
| `JobQueue` | enqueue, `createBullMqJobWorker`, the record operations, BullMQ as seen from them | - | `JobQueueProofs` |
| `Scheduler` | `FileBackedSchedulerStore`, `startSchedulerRuntime`, `runDueSchedules` | - | `SchedulerProofs` |
| `Workflow` | `handleCreateWorkflow`, `handleApproveWorkflow`, `handleRejectWorkflow`, `canReviewApproval` | `ApprovalLifecycle` | `WorkflowProofs` |
| `Inventory` | create, update and delete in `apps/api/src/inventory`, `validateInventorySnapshot`, `validatePrefixHierarchy`, rack positions and occupancy | - | `InventoryProofs` |
| `Access` | `packages/auth-core`, `auth-providers`, `apps/api/src/auth`, `rbac`, the cached identities | - | `AccessProofs` |
| `CachedRepository` | what the repositories of audit, event-core, webhooks and media-core have in common | - | with `Delivery` |
| `Delivery` | `packages/webhooks`, `event-core`, `audit`, `apps/api/src/webhooks`, `events` and `audit`, the worker's `webhook.delivery` | `AtLeastOnce` | `DeliveryProofs` |
| `Backup` | `packages/backup`, `apps/api/src/backup`, the worker's `backup.create` | - | `StoresProofs` |
| `Media` | `packages/media-core`, `media-storage`, `apps/api/src/media` | - | `StoresProofs` |
| `Transfer` | `packages/data-transfer`, `apps/api/src/import`, the worker's `data-transfer.import` | - | `StoresProofs` |
| `Reads` | lists, details, counts and their permissions in `apps/api/src/inventory`; `cache-core`, `apps/api/src/cache`; the decision functions of RBAC | - | `StoresProofs` |
| `Pages` | the request life cycle of the pages and hooks of `apps/web` | - | `StoresProofs` |
| `Views` | the prefix tree with its utilization, the topology filter, what the client keeps selected | a recursive definition of the utilization | `StoresProofs` |
| `PathTrace` | `tracePath` of `packages/network-domain` | walks of n edges | `StoresProofs` |
| `Stores` | the last six and `Backup` side by side, what their constants must be, their properties | - | `StoresProofs` |

Which composes which: `Delivery` has three instances of `CachedRepository` (webhooks,
events, audit), `Media` one. `JobQueue`, `Scheduler`, `Backup` and `Inventory` each take
a locked operation for one step where the code holds the lock without an await, which is
what `FileStore` shows; `Backup` has the lock itself, because its operations hold it
over several writes. `Delivery` carries the queue reduced to what a delivery needs
(attempts, stalls), `Transfer` to a job that may run twice; `JobQueue` has all of it.
`Reads` leaves open which writes are valid, which is `Inventory`'s subject.

`MC*` modules give the constants values, cut the behaviours into parts and name the
symmetries; each `.cfg` is one run. An operator whose comment sets it beside another
("and one that ...") or calls it a mistake (`OneAttemptMore`, `WillRetryOnceLess`,
`ProvidedAtStart`, ...) is no part of a specification: it is the plausible slip next to
the definition it would replace, kept to show which property notices it.

**FileStore.** A process is single threaded and the protocol has no await, so a
process is at one program point of at most one call: `LockCreated`, `LockBusy`,
`LockTimeout` are the turns of `#acquireLock`, `Load`, `Truncate` and `Write` the
load and the two halves of a `writeFileSync`, `Release` the `finally` block. An
update is its identity, the document the set of updates it reflects. Every
file-system call may fail, `WriteFails` with the file already truncated, and a
process may die anywhere. A creation that fails is taken for a lock that is held and
tried again, whatever made it fail (`LockCreateFails`). What FileStore shows is what lets the other modules
treat a locked operation as one step; where a caller holds the lock longer than
that (the due-run) its module has the steps.

**JobQueue.** `meta` is the metadata file, `bull`, `made`, `stalls`, `owner` are
BullMQ's view of a job, `adding` is the `queue.add` that nobody awaits. The
processor is one action per metadata operation, with the `catch` that takes a
failing save for a failing handler. BullMQ is external: its actions are what the
code relies on it for (attempts, backoff, the stalled-job check, lock tokens). A
worker is one concurrent job slot.

**Scheduler.** Time is in minutes. A cron expression is the set of minutes it
matches, so `NextRun` is `calculateNextRun` without the parsing. The due-run is
four actions because it enqueues while it holds the lock; edits are guarded by the
lock being free. A run may throw at an enqueue and at the save that follows the last
one (`RunThrows`): no last run is recorded then, and the next run enqueues the same
occurrences again. The cron tasks of loop mode keep the expression they were started
with, as in the code.

**Workflow.** A review is two actions, before and after `await parseJsonBody`;
the second decides on the record the first one read. The crashes inside a handler
are one action for each place between its writes. `audit` counts the entries each call
has appended to the trail.

**Inventory.** `inventory` is the content of the state file, `answer` the last
mutation's outcome: done, refused for the request alone (400, 404 and a blocked
deletion), or the 409 that lists conflicts. A create and an update are one action
per collection (`Save*`, a create has no old id), with the payload check first and
`Sound`, the snapshot check, on the inventory it would give; a deletion (`Delete*`)
only looks at what needs the record. A mutation runs under the inventory's lock
without an await, so it is one step; what a crash does to the file is `FileStore`'s
subject. Three simplifications: the face of a rack is front or rear, though the code takes
any string and only asks whether two are equal; a payload that is malformed (missing names, unknown
enum values, tenants, VRFs) is refused before anything is read and left out; a CIDR
is its family, the number its address part parses to and its length. The code's
limits are kept: IPv6 is not compared, `parseIpv4Number` may return null, an update
that does not repeat its placement takes the device out of its rack, and an id may
change in an update.

**Access.** `file` is the auth file, `copy["auth"]` and `copy["rbac"]` the two
repositories the process makes on it (`apps/api/src/auth/index.ts:49`,
`apps/api/src/rbac/index.ts:37`): each reads the file once and then writes its copy of
all of it, so that each takes back what the other wrote. A call is at the await it
waits at: the body, the directory or the identity provider, the scan and the deletion
of an invalidation. `Enter` is the end of an external login, with the check that its
provider still exists (`StillProvided`), the user, the mapping, the groups' roles and
the session. `FirstRead`, `Log` are the writes a mere question causes. Passwords,
tokens, encryption and the protocols of the providers are external: a provider vouches
for a person or refuses. `cache` is the identities in Redis; `Lookup`, `Resolve`,
`Store` are a request that fills it, `Scan` and `Delete` an invalidation. `Crash` loses
the copies, `spent`, `told`, `reverted` and `excused` are history.

**Delivery.** Two processes. The API's handlers run from the change of the registry over
the event and one `Enqueue` a webhook to the audit record without an await; `ApiCrash`
is an enqueue that throws or a process that ends, at any of them, and cuts off the file
that is being written. An update reads its webhook and then awaits its body. The worker
posts a delivery (`Take`, `Answer`), saves it, writes two audit records and settles the
job; any of the writes may throw (`WriteFails`), and the queue finds a dead worker's
jobs stalled. A file that is read while the other process writes it is empty for the
reader (`Load(i, TRUE)`), as the `catch` in every repository has it. The audit trail
does more: a first read, to append or to answer a query, that finds nothing it can parse
writes an empty document (`OpenAudit`, `ReadAudit`, `ReadAuditToAppend`), and until that
write is through (`ResetAudit`) or given up (`GiveUpAudit`) the file may hold what
another instance appends meanwhile, which is then lost.

**Backup.** A section is what its directory holds. `Create`, `Delete` and `Restore` take
the lock file and then go one write at a time (`Holding` names the stages); every one may
throw, a restore then undoes what it did, and the undoing may throw in turn. `Change` is
any other component that writes a section meanwhile: the lock does not keep it out.

**Media, Transfer.** An upload is three writes, content, record, links, and nothing takes
any of them back. A record with an empty tenant id is open to callers of every tenant. An import loads the
store's file and saves it without a lock, in either process; a job's may run twice, and is
then the import that saved last. `clobbered` are the datasets somebody saved between the
load and the save of another import, which writes them as it loaded them.

**Reads.** A request for a read is judged, looks for its key, loads and fills; a mutation
is judged, awaits its body, saves, answers, and then scans and deletes kind of key by
kind of key. A handler that throws between its save and its invalidation, at the event or at
the audit record, answers an error and invalidates nothing (`InvalidationThrows`). What
the code does not promise is named in `excused`: an entry that was stored after the scan
that had to see it, or that such a throw, a restore or a restart left old with nothing
left to delete it.

**Pages, Views, PathTrace.** A request is out, has its headers or is answered; a hook
aborts its request when it asks again, `CrudResourcePage` ignores an aborted answer, the
others take any. `Views` has the client's reducers and the utilization of a forest of
prefixes of both families: `validatePrefixHierarchy` compares lengths only, so that an
IPv6 prefix may be under an IPv4 one. `tracePath` is a step a queue entry,
with the order in which a node's edges are taken left open.

## The runs

| run | bounds | shows |
|---|---|---|
| `FileStore` | 2 processes, 3 updates, 1 attempt, 2 crashes, 1 failing call, 1 half write (223,667 states) | the lock excludes; what throws has no effect; the atomic store is implemented; calls end, also the ones a dead process's lock file blocks |
| `JobQueue` | 1 job, 2 workers, 2 retries, 1 tolerated stall, 1-2 of each fault | starts are bounded, `failed` is not said early, BullMQ and the metadata agree, final states are final, jobs settle |
| `Scheduler_once` | 2 schedules, 2 expressions, 4 minutes, 1 throw (39,286 states) | no occurrence twice but for a run that threw, what is due is served |
| `Scheduler_both` | 2 schedules, 2 expressions, 3 minutes, 1 throw (1,286,410 states) | a recorded run has its job, the due-run loses no edit |
| `Scheduler_runtime` | 1 schedule, loop mode | *violation*: the next run equals the last run from the second firing on |
| `Workflow` | 2 requests, 2 reviewers, 3 calls, 1 crash between and 2 inside handlers (152,819 states) | which jobs exist, that a decision has one entry in the audit trail, the life cycle |
| `Workflow_race` | 1 request, 2 reviewers, 2 calls | *violation*: two reviews overlap, one approves, the other's rejection is recorded over it, and a job runs for a request on record as rejected |
| `Inventory` | 2 sites, 1 rack of at most 2 units, 2 devices, 2 VRFs, 3 prefixes (1 next to 2 addresses), 4 CIDRs of 2-bit addresses | references resolve, racked devices are at their site, units and hosts are taken once, overlapping prefixes are parent and child; only a resized rack is outgrown; a conflict is the request's own |
| `Inventory_reference` | the same, with a connection like the repository's | *violation*: a conflict that was there before refuses every save |
| `Access` | 2 persons, 2 providers, 1 role, 2 scopes, 2 sessions, 2 transactions, 2 calls, 1 reader; in four parts (380,293 states) | documents refer to what they have; what is redeemed or logged out stays so; a cached identity is current or about to be deleted |
| `Delivery` | 2 webhooks, 2 events, 1 update, 2 attempts, 1 crash where both processes run; in four parts (1,057,481 states) | a queued delivery has its event on file; the promise of `AtLeastOnce` is kept; a deleted webhook stays deleted; an author keeps its own records |
| `Stores` | 2 backups of 2 sections with 2 mishaps, 2 uploads, 2 datasets with 1 job, 13 records under 6 topics of reads, 2 requests on one page, 3 prefixes of either family and 7 lengths, 3 nodes, 6 edges; in nine parts (393,481 states) | a restore is whole; records have content; imports stay but for the overlapping; answers are current and granted; pages show what they asked; selections are on the screen; utilization counts once; traces are shortest |

Why the bounds are enough. Two processes and three updates are the fewest with
which one process can complete a call between two calls of another; one attempt is
enough to give up, and more attempts only stutter. A job shares nothing with
another job but the workers, and two workers are what a takeover needs. The job
policy is the code's own (two retries) with BullMQ's default of one tolerated
stall. Two schedules let a due-run have one left to enqueue when it throws; four
minutes hold two occurrences of the rarer expression, and one throw lets one occurrence
be enqueued twice and a second run follow it. Three calls are two that
overlap and one that comes after both. An inventory's checks compare two records at a
time, or a prefix with its parent: a behaviour changes either the DCIM records, up to
three prefixes (what a grandparent takes), or two addresses and the prefix they may
be in (`part` and `MaxPrefixes` in `MCInventory`); the parts meet only in the
interfaces, which no request changes. The four CIDRs are everything, a half of it
named by its second host, a host in that half, and an IPv6 network. Prefix ids,
address ids and VRFs are symmetric: the seed has no prefix or address, and no check
tells the global table from a VRF. A behaviour of `Access`, of `Delivery` and of `Stores` keeps to one part, chosen in its
first state. In `MCAccess` the parts are open sessions (two of them, two calls), the roles
and the cached identity of one session, the providers (one call at a time, since only
logins wait for a provider) and logins through a directory of each kind while it is
edited: every pair of calls that share a record meets in one of them. In `MCDelivery` they
are the API alone with every call and any number of restarts; one webhook's deliveries of two
events, next to what queues them, with one end of either process; one delivery with
every call on webhooks; and one delivery over an audit file that is missing or read in the
middle of a write, by instances that then write it (`trail`). Two attempts are what tells a retry from the end. The parts of
`Stores` share no variable (`MCStores` makes nine of them, three with the views'
variables), and are one run because each is small; what a restore does to another store is
an action of that store (`Restored` in `Reads`) or among the observations below.
Two mishaps let a restore fail and its undoing fail, or let another component write
between the two; one more only repeats. Each topic of the reads has the records one kind of
answer depends on, with a filter, a search, a page beyond the first and two texts that
share a key. Two requests on a page are the fewest that arrive out of order, three prefixes
the fewest with a grandparent, their lengths are at the edges of what is counted in either
family, and six edges on four points hold a detour, a cycle and two
kinds. `StoresTypeOK` gathers the type invariants of the modules in `MCStores` for whoever
changes one of them; all but that of `Transfer`, which rests on the length of what
`SelectSeq` leaves, are theorems, as are those of the other modules.

Runs that stop because their bounds are
used up have deadlock checking off: the bounds are the model's, not the code's. In
`Delivery` these are the events and webhook ids, in `Stores` the ids of backups, uploads and
jobs, and a trace that has its answer.

Fairness. `FileStore!FairSpec`: a process inside a call keeps executing (no await
there). `JobQueue!FairSpec`: processes run, Redis answers, BullMQ's timers fire, a
worker is restarted; nobody has to enqueue, crash or fail. `Scheduler!FairSpec`:
somebody keeps invoking once mode and the invocation is not killed half way. None
of them lets anything fail or anybody edit. The other modules state no fairness and no
liveness: whether a receiver, a directory, Redis or a client answers is not the code's to
promise, and what has to follow an answer is covered by `JobsSettle` and `CallsEnd`.

Properties that hold only under a condition name it in the formula (`NoTornWrite`,
`Undisturbed`, `Spoiled`, `Serial`): a fault that has not happened *so far*, so one
run covers the behaviours on both sides of it. The condition's negation is what the
code does not survive: a write that fails after the truncation empties the store
(`WriteFails`), a log append that throws after a success turns it into a failure
(`MetadataThrows`), reviews that overlap. In the later modules the conditions are history variables:
`eventsTorn` and `lost` (a file that was cut off), `cutShort` (a delivery whose write
failed after the answer), `reverted` (a restart that loaded what the other repository
wrote), `excused` (a fill after a scan, a throw before an invalidation), `clobbered` (what was
saved within another import), `overlap` (requests of a page that takes every answer);
`throws` in `Scheduler` counts the runs that threw, each of which may enqueue an
occurrence once more.

## The proofs

All for any number of processes, jobs, schedules, requests and any bounds, from the
named assumptions on the constants only.

* `FileStoreProofs`: `TypeInv` and `MutualExclusion` are inductive; `OpInv` ties a
  call's program point to where its update is; `DurableInv` says that until a write
  fails half way only the process inside has the file torn and what it loaded is
  what the file holds. From them `ThrowsAreClean`, `CallsAreDurable`,
  `ReadsAreWhole`, and the refinement of `AtomicStore` (`Write` is `TakeEffect`,
  `Release` is `Return` or `Throw`). `LockFileStays`: from the lock file of a dead
  process on, nothing is written and no call returns. `CallsEndSoon`: `StepsLeft`, at
  most `MaxAttempts + 5`, shrinks with every step of the call's own process and with no
  other's grows, so that a call ends if only its process is scheduled.
* `JobQueueProofs`: the bound on starts needs an invariant that charges every start
  to an attempt made, a stall, or the hand-over under way; `failed` in the metadata
  needs that no worker's copy of the record counts more retries than BullMQ made.
  `QuietInv` adds what `RecordAgreesWithQueue` and `TerminalIsFinal` rest on: while
  nothing has disturbed a job its worker owns it (`Owned`), every stage of the processor
  has a record that fits what BullMQ will be told next (`Agreement`), and a record that
  is final belongs to a job that is, or is about to be told to BullMQ (`FinalOnce`).
  `NothingStranded` needs `PaidInv`: every stall of a job, and every job whose worker is
  no longer at it, is paid for by a worker that died or lost its lock. While no more have
  died than BullMQ tolerates stalls, a job is therefore never failed by its stalls alone,
  and with the agreement of record and queue an open record has a job that is taken up.
* `SchedulerProofs`: `WriteBackKeepsEdits` for both modes; `OccurrencesOnce` and
  `NextRunIsLater` for once mode with any number of throws, from an invariant that what
  lies at or after the schedule's next run has been enqueued by runs that threw only. `JobInv` says that every
  last run, also one a waiting process is about to write, has its job, and gives
  `LastRunHasJob` in both modes. `RunsServeWhatIsDue` adds `TakenInv`: what is due at a
  due-run's timestamp is in its hands, since nobody edits while it has the lock; what the
  edits and firings after it see is therefore a schedule that is no longer due. That the least element of a set of minutes exists is
  proved from the well-foundedness of the naturals.
* `WorkflowProofs`: `HeldInv` says that what a waiting call holds was reviewable
  when it was read; it is enough for `DecidedByAssignee` and `ApprovedHasItsJob`
  whatever overlaps. `HeldIsRecord`, that it is still what is on record, holds while
  `Serial` does and gives `EveryJobHasApproval` and the refinement of
  `ApprovalLifecycle` (`FinishReview` is `Approve` or `Reject`). `AuditInv` counts the
  trail: a pending request has no entry, a decided one has exactly one, of a call made by
  the reviewer on record with the decision on record.
* `InventoryProofs`: the invariant is `Integrity`: the snapshot check finds nothing,
  every parent exists, no two devices share a unit. `IntegrityKept` says that no
  mutation breaks it, with no assumption on where the inventory starts; the
  properties of the run follow for a seed that has it. For a save most of it is what
  was checked; a deletion runs no check, and the argument is that its three
  questions name everything that could come to dangle. `LevelsTheorem` is not among
  the checks: it needs that a network contains its own address (`OwnHost`), so a
  grandchild overlaps its grandparent, and that lengths grow downwards, so the
  grandparent is not its child. `OnlyResizingOutgrows` needs no invariant and holds
  from any start: of all saves, that of a rack alone does not look at what it holds.
  `ConflictIsNew` needs `Integrity` of the start. The repository's own default data does
  not satisfy `Integrity` (see the disagreements). What holds from any seed is
  `IntegrityKept`, `OnlyResizingOutgrows` and `HostsTheorem`: the hosts are placed, or
  nothing but deletions has touched the seed's prefixes and addresses (`AsSeeded`), and
  no step misplaces one. The argument is that whatever else changes them is checked
  (`StepChecksHosts`).
* `AccessProofs`: `AccessInv` says of every document and of what every waiting call
  holds that its provider, person, session and transaction exist in it, and gives
  `DocumentsSound`; the step that needs it is `Enter`, whose provider may have been
  deleted within its await, and which looks again. `SpentStaysSpent` needs `SoleCopy` (a
  repository that has not read yet would read what the other holds) and that what is
  spent was once told. `CachedIdentityIsCurrent` needs `FillsCurrent`: what a request is
  about to store is current, or a mutation has been announced since it was loaded.
* `DeliveryProofs`: `EventsKept` (the API's copy is what is on file, since it alone
  writes) gives `QueuedEventsOnFile`; `AcceptedSettle` (an accepted job that was not cut
  short is past its answer) gives `ResentOnlyIfCut`, with `FreshJobs`, that a job is
  queued once; `DeletedGone` gives `DeletedStaysDeleted`, since an update whose record
  has gone replaces nothing; `AuditKept` gives `AuthorKeepsRecords` for all three
  instances that overwrite each other. `Refinement` of `AtLeastOnce`: the events are what
  the event file holds, a delivery's status is where its job is (`StatusAt`: whatever
  follows the answer is `answered`), what is in doubt is `cutShort`. `OkAccepted` is the
  invariant it needs beyond the others: a job that takes its post for a success has been
  accepted. Then `Conclude` is `Deliver`, `Retry` or `GiveUp`, by what `Settle` decides;
  `WriteFails` is `Doubt` or nothing; `WorkerCrash` is `Interrupt`. The one precondition is that
  no event file has been cut off: from then on a delivery may be queued whose event
  is gone.
* `StoresProofs`, one section for each part of `Stores`:
  * *Backup.* `Exclusive` (one call holds the lock), `Stages` (what a call at a stage has)
    and `Restores` (which sections are still as before, which already as in the archive)
    give `RestoreIsWhole` for any number of sections; `Lists` gives `BackupsRestorable`.
  * *Media.* `MediaInv`: the file and the copy are complete documents, and an upload that
    has come to its record or its links has what they refer to. With the backup's half it
    gives `RecordsHaveContent`.
  * *Transfer.* `TransferInv`: what a load that overlaps no save has seen is what was saved
    last, of every dataset that was not saved since; so that its save of the whole file
    costs only the datasets it has `missed`.
  * *Pages.* `PagesInv`: of a view's requests one at most is not superseded, it has the
    view's last question, and the view is not fresh before it is answered. A bare page also
    takes the answers of superseded requests, and is in `overlap` while it has one out.
  * *Views.* `SelectionIsShown` is its own invariant; what a click may do is the argument:
    `FirstRow` shows that the row taken when the selection is hidden is a row, and None only if no prefix is
    one. `PrefixRows` is stated as the least set that holds the roots of open groups and
    the children of open rows, which is what the stack in `flattenIpamTree` collects.
    `UtilizationTheorem` is an induction over the `Room` of a prefix, 128 less its length,
    since a child is longer than its parent whatever its family, and its host bits need not
    be fewer. The library's
    induction theorems cannot be used here, but the claim is one fixed definition: the
    numbers n such that it holds of every prefix with room for less than n are a set, and
    the set has every number because no number is the least it lacks (`EveryNumber`, from
    `LeastExists`). The same shows that the recursive functions `UsedAddresses` and `Under`
    are what their equations say (`UsesExist`, `SubtreesExist`) and, over cardinalities,
    that `SumOver`, a fold, does not depend on the order of its elements (`SumTakes`) and
    that sums over disjoint sets add up. What the code has to have right is then
    `SiblingsApart`: a prefix is under one of two siblings at most, so no address counts twice; and that without a `Foreign` child what is under a prefix that
    can be counted can be counted (`KinAreKnown`).
  * *PathTrace.* The breadth-first search is correct on every graph. `QueueInv`: the queue
    has shortest paths, in order of length, at most one longer than its head's.
    `VisitedInv`: everything as near as the head has been visited, and what was visited is
    queued or done with. That a node at the next distance has been visited when the head
    grows longer is the step that needs the least distance missed (`LeastExists`).
  * *Reads.* `ReadsInv` says, of each entry and of what each request is about to store,
    that it was granted to its identity and that it is current, excused, or of a kind an
    invalidation still has to scan or has found; a throw excuses what is old and nobody
    else will delete (`Outdating`). The argument is that of
    `CachedIdentityIsCurrent`, over answers that depend on the whole inventory.

`StoresAssumption` is what these theorems need of the constants, and TLC evaluates it in
the run: None is no media document; the default datasets are tables of records
(`DefaultsAreRecords`); a view is not both a hook and a bare page; the rows and nodes are
drawn in sequences and None is not one of them (`OrdersAreDrawn`); edges lead from point to
point and `MaxHops` is a number (`LinksAreEdges`); a question is a navigation, a list or a
detail, and the inventory starts as one of its versions (`QuestionsAreKnown`); a prefix
is at most 128 bits long and None is no number (`CapacitiesAreKnown`).

Three things these proofs assume of `None` (`NoneIsNothing` in `Access` and `Delivery`,
part of `BackupAssumption`): that it is no document, record or set. TLC evaluates the
assumptions in every run of the module.

Proved without a run that repeats it: `DecidedByAssignee`, `LevelsTheorem`,
`ReadsAreWhole`, `CallsAreDurable`, `NextRunIsLater` for once mode, `ResentOnlyIfCut` (which
`ImplementsAtLeastOnce` contains), the type invariants, and `CallsAreShort`,
`NoJobIsStranded` and `RunServesDue`.

Only model-checked: the liveness properties (`CallsEnd`, `JobsSettle`, `DueIsServed`),
because fairness needs ENABLED, which the prover does not have. What of them is safety is
proved for every value of the constants by the last three: a bound on what a call has left,
that an open job always has a step due, and that a due-run serves what is due. What stays
with TLC is that the steps that are due are taken, and for `JobsSettle` also that they come to
an end. The type invariant of `Transfer` is not proved either: it is about the length of what
`SelectSeq` leaves, of which the provers know nothing; no theorem rests on that length.

## Disagreements met

* Loop mode's update at the end of a firing computes a next run that
  `updateSchedule` discards (`Scheduler_runtime`).
* `canReviewApproval` is asked before the body is awaited and not again
  (`Workflow_race`).
* `CHANGELOG.md:114` has the write path reject what is invalid; two of the reference
  connections name interfaces that are not among the reference interfaces, the
  snapshot check covers them on every save, and so creates and updates are all
  refused (`Inventory_reference`). The default addresses of the two leaf switches
  are, besides, outside the prefix they name.

Seen while modelling, with nothing in the documents that says otherwise: a
prefix under a child prefix always conflicts with its grandparent, so that IPv4
hierarchies have two levels (`LevelsTheorem`); an IPv6 address can be left naming a
prefix id that a rename took away; a rack can be made smaller than what it holds
(`OnlyResizingOutgrows` says that this is the only way); a refused mutation writes
the file all the same, unchanged.

Known to go wrong and left out of every property, because nothing in the repository
promises otherwise and a property that says so would only repeat it:

* *State files.* A workflow, webhook, event, audit, media, import or auth file that cannot
  be parsed is an empty store, and the next write keeps it so
  (`packages/workflow-core/src/index.ts:233`); an inventory that cannot be read is the
  defaults (`apps/api/src/inventory/index.ts:566`). A lock file left behind stops the
  backup store (`packages/backup/src/index.ts:586`), and a restore may bring back or remove
  the lock files of others.
* *Scheduler, inventory.* Cron tasks keep the schedules of the start
  (`packages/scheduler/src/index.ts:613`); loop mode and once mode on one file enqueue the same
  occurrence (`:609`); a partial update takes a device out of its rack
  (`apps/api/src/inventory/index.ts:1306`); updates and deletions are judged before the body is
  awaited (`:2141`); a throw between the save and the invalidation leaves Redis as it was
  (`:1699`; excused in `Reads`). An IPv6 prefix can be saved under an IPv4 parent, of which
  the hierarchy check compares the length only (`packages/ipam-domain/src/index.ts:239`); when
  it is too large to count, so is its parent.
* *Sign-in.* A restart brings back sessions and transactions the other repository had not
  heard were spent (`packages/auth-core/src/index.ts:652`); handlers that ask rbac do not know
  sessions made after its copy was loaded; the last role assignment of a person taken away
  leaves the global roles the session was made with; a deleted provider leaves its role
  mappings and sessions; after an await a provider's existence is checked, its `enabled`
  and `kind` are not.
* *Events.* The worker's copies of events and webhooks are those of its first job: later
  events are "not found", deleted webhooks are delivered to, and its save of a delivery
  overwrites webhooks registered since, as the API's overwrites deliveries. A delivery
  whose audit record cannot be written is made again. An update of a webhook deleted
  meanwhile answers 200 and emits `webhook.updated`. An enqueue that throws leaves the
  remaining webhooks without a delivery. A first read of the audit file that falls into
  another's write empties it (`packages/audit/src/index.ts:169`).
* *Stores.* A restore whose last write throws answers 409 though it was applied; what it
  restored is overwritten by the next write of every repository with a copy, and no cached
  response is deleted (`apps/api/src/backup/index.ts:195`). A backup is not a snapshot of one
  moment. The media section is not where the API keeps its media
  (`packages/backup/src/index.ts:113`). An import job that is accepted earlier and run later, or
  run again, takes back what was imported in between; an import that overlaps another
  takes back what that one saved. `associations` of an upload is parsed outside the `try`
  (`apps/api/src/media/index.ts:272`).
* *Reads.* Two texts may share a key of the cache (`d.2`, `d_2`), and what is right for one
  is then answered to the other (`AnsweredWithinGrants` is about who is answered); lists are asked for the
  tenant `tenant-ops` whatever they hold; a record without a tenant counts as the caller's
  own (`packages/auth-core/src/index.ts:725`); a deletion answers before it invalidates.
* *Web.* Jobs, read-only lists, providers, workflows and RBAC pages take answers out of
  order; `CrudResourcePage` shows the record before while the next one loads, with one
  loading flag for list and detail; `createRackUnitSlots` takes a device's start unit for
  its top one.

## Not modelled

* Parsing, formatting, cryptography, HTTP (the routing table, the response contract of the
  gateway in `apps/api/src/index.ts`), rendering and styling: no state that two actors share.
* Search ranking, `db-performance` and `performance-tests`: pure functions over text and static
  tables. `db-abstraction` and the SQL migrations, which no code runs. Type declarations.
* `leaseNextPendingJob`, which only a test calls; cable bundles, VLAN and port checks and the
  drawing of a rack, which nothing on the server calls; `summarizeVrfUtilization`.
* The queries of the audit trail and the downloads and previews of backups, exports and media,
  which change nothing. The reasons are in `PROJECT.json` under "components".

## Plan

Done: every component with a state of its own has its module, and every invariant, action
property and refinement of a passing run is a theorem. What is left:

1. An abstract append-only log that `CachedRepository` implements for one instance, and that
   its several instances implement each for its own records.
2. The lemmas the two caches share (`Access`, `Reads`), stated once for both.
3. Larger parts for `Access` (two open logins next to a provider's edit) when a faster check
   allows them.
