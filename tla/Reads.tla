-------------------------------- MODULE Reads --------------------------------
(* What the inventory API answers to reads (apps/api/src/inventory): lists, *)
(* details and the navigation counts, under the grants of the request's     *)
(* identity (core-domain/rbac, auth-core, apps/api/src/rbac), through the   *)
(* response cache (apps/api/src/cache, cache-core).  Which writes are valid *)
(* is module Inventory's; here a write keeps the references that the code   *)
(* checks.  The grants of an identity do not change meanwhile.              *)
EXTENDS Integers, Sequences, FiniteSets

CONSTANTS Id,           \* ids of records of every resource
          Versions,     \* what each id may be: records, and None if it may not be
          Start,        \* the inventory a new installation has
          Order,        \* the ids in the order lists are sorted in
          Named,        \* for each search text, the ids whose own names contain it
          Identity, HomeOf, RolesOf,   \* a request's tenant and role assignments
          PermissionsOf,               \* the permissions of the roles there are
          OpsTenant,    \* the tenant lists and creates are asked for
          Question, KeyPart,   \* list queries, and what normalizeKeyPart makes of each
          PageSize,
          Reader, Writer,      \* requests open at once
          None

Writable == {"sites", "racks", "devices", "prefixes", "ip-addresses"}
Resource == Writable \cup {"tenants", "users", "vrfs", "interfaces", "connections"}

VARIABLES inventory, cache, reader, writer,
          excused   \* history: entries stored after the scan they had to be seen by,
                    \* or outdated with no invalidation to come: by one that threw,
                    \* by a restored backup or by a restart

readsVars == <<inventory, cache, reader, writer, excused>>

Of(s, resource) == {x \in Id : s[x] # None /\ s[x].resource = resource}

-----------------------------------------------------------------------------
(* The ids a record names, and the records of a resource that name x.       *)
Names(s, x) ==
    LET r == s[x] IN
    CASE r.resource \in {"sites", "vrfs", "users"} -> {r.tenant}
      [] r.resource = "racks" -> {r.site}
      [] r.resource = "devices" -> {r.site, r.rack}
      [] r.resource = "prefixes" -> {r.tenant, r.vrf, r.parent}
      [] r.resource = "ip-addresses" -> {r.vrf, r.prefix, r.interface}
      [] r.resource = "interfaces" -> {r.device}
      [] r.resource = "connections" -> {r.from, r.to} \cup r.interfaces
      [] OTHER -> {}

Naming(s, resource, x) == {y \in Of(s, resource) : x \in Names(s, y)}

Known(s, ids) == {x \in ids \ {None} : s[x] # None}

OnInterfaces(s, d) ==
    UNION {Naming(s, "ip-addresses", i) : i \in Naming(s, "interfaces", d)}

HostOf(s, a) == UNION {Known(s, {s[i].device}) : i \in Known(s, {s[a].interface})}

(* buildSiteDetail, buildRackDetail, ..., and the cases of                  *)
(* getInventoryDetail: a record and the records related to it.  The         *)
(* addresses of an interface are those its own list names.  A prefix comes  *)
(* with its utilization too, which is module Views'.                        *)
Related(s, x) ==
    LET own == Known(s, Names(s, x)) IN
    CASE s[x].resource = "sites" -> own \cup Naming(s, "racks", x) \cup Naming(s, "devices", x)
      [] s[x].resource = "racks" -> own \cup Naming(s, "devices", x)
      [] s[x].resource = "devices" ->
            own \cup Naming(s, "interfaces", x) \cup Naming(s, "connections", x)
                \cup OnInterfaces(s, x)
      [] s[x].resource = "prefixes" ->
            Known(s, {s[x].vrf, s[x].parent})
                \cup Naming(s, "prefixes", x) \cup Naming(s, "ip-addresses", x)
      [] s[x].resource = "ip-addresses" -> own \cup HostOf(s, x)
      [] s[x].resource = "vrfs" -> Naming(s, "prefixes", x)
      [] s[x].resource = "interfaces" ->
            own \cup Known(s, s[x].addresses) \cup Naming(s, "connections", x)
      [] OTHER -> {}

Detail(s, resource, x) ==
    IF x \in Of(s, resource) THEN [y \in {x} \cup Related(s, x) |-> s[y]] ELSE None

(* listSites, listRacks, ...: a row is the record, what it borrows from the *)
(* records it names, and what it counts.                                    *)
Borrowed(s, x) ==
    CASE s[x].resource \in {"racks", "devices"} -> Known(s, Names(s, x))
      [] s[x].resource = "prefixes" -> Known(s, {s[x].vrf})
      [] s[x].resource = "ip-addresses" ->
            Known(s, {s[x].prefix, s[x].interface}) \cup HostOf(s, x)
      [] OTHER -> {}

Counted(s, x) ==
    CASE s[x].resource = "racks" -> <<Cardinality(Naming(s, "devices", x))>>
      [] s[x].resource = "devices" ->
            <<Cardinality(Naming(s, "interfaces", x)), Cardinality(OnInterfaces(s, x))>>
      [] s[x].resource = "prefixes" ->
            <<Cardinality(Naming(s, "prefixes", x)), Cardinality(Naming(s, "ip-addresses", x))>>
      [] OTHER -> <<>>

Row(s, x) ==
    [id |-> x, record |-> s[x], beside |-> [y \in Borrowed(s, x) |-> s[y]],
     counts |-> Counted(s, x)]

(* A text is looked for in a row's own names and in some it borrows.        *)
Searched(s, x) ==
    {x} \cup CASE s[x].resource \in {"racks", "devices"} -> Known(s, {s[x].site})
               [] s[x].resource = "prefixes" -> Known(s, {s[x].vrf})
               [] s[x].resource = "ip-addresses" -> Known(s, {s[x].interface}) \cup HostOf(s, x)
               [] OTHER -> {}

(* Each list has a filter; the ones of reference data take a text only.     *)
Passes(s, x, filter) ==
    CASE s[x].resource = "sites" -> s[x].tenant = filter
      [] s[x].resource \in {"racks", "devices"} -> s[x].site = filter
      [] s[x].resource = "prefixes" -> s[x].vrf = filter
      [] s[x].resource = "ip-addresses" -> s[x].prefix = filter
      [] OTHER -> TRUE

Selected(s, resource, query) ==
    {x \in Of(s, resource) :
        /\ query.filter # None => Passes(s, x, query.filter)
        /\ query.text # None => Searched(s, x) \cap Named[query.text] # {}}

(* sortRecordsByField and paginateRecords: a page past the end is empty.    *)
List(s, resource, query) ==
    LET Wanted(x) == x \in Selected(s, resource, query)
        sorted == SelectSeq(Order, Wanted)
        first == (query.page - 1) * PageSize + 1
        page == {n \in DOMAIN sorted : first <= n /\ n < first + PageSize}
    IN  [total |-> Len(sorted), items |-> [n \in page |-> Row(s, sorted[n])]]

(* buildPhaseNavigationSummary *)
Navigation(s) == [resource \in Resource |-> Cardinality(Of(s, resource))]

Answer(s, question) ==
    CASE question.kind = "detail" -> Detail(s, question.resource, question.id)
      [] question.kind = "list" -> List(s, question.resource, question.query)
      [] question.kind = "navigation" -> Navigation(s)

-----------------------------------------------------------------------------
(* getScopeContextForRecord: where a record is.                             *)
Nowhere == [tenant |-> None, site |-> None, device |-> None]

AtSite(s, x) ==
    IF x \in Of(s, "sites") THEN [Nowhere EXCEPT !.tenant = s[x].tenant, !.site = x] ELSE Nowhere

AtDevice(s, d) ==
    IF d \in Of(s, "devices") THEN [AtSite(s, s[d].site) EXCEPT !.device = d] ELSE Nowhere

AtInterface(s, i) ==
    IF i \in Of(s, "interfaces") THEN [AtDevice(s, s[i].device) EXCEPT !.device = s[i].device]
    ELSE Nowhere

ScopeOf(s, resource, x) ==
    CASE resource = "tenants" -> [Nowhere EXCEPT !.tenant = x]
      [] resource # "tenants" /\ x \notin Of(s, resource) -> Nowhere
      [] resource = "sites" /\ x \in Of(s, resource) ->
            [AtSite(s, x) EXCEPT !.tenant = IF @ \in Of(s, "tenants") THEN @ ELSE None]
      [] resource = "racks" /\ x \in Of(s, resource) -> AtSite(s, s[x].site)
      [] resource = "devices" /\ x \in Of(s, resource) -> AtDevice(s, x)
      [] resource \in {"prefixes", "vrfs", "users"} /\ x \in Of(s, resource) ->
            [Nowhere EXCEPT !.tenant = s[x].tenant]
      [] resource = "ip-addresses" /\ x \in Of(s, resource) -> AtInterface(s, s[x].interface)
      [] resource = "interfaces" /\ x \in Of(s, resource) -> AtDevice(s, s[x].device)
      [] resource = "connections" /\ x \in Of(s, resource) -> AtDevice(s, s[x].from)

OpsScope == [Nowhere EXCEPT !.tenant = OpsTenant]

(* expandRoleAssignmentsToGrants: a role there is not grants nothing.       *)
GrantsOf(i) ==
    UNION {{[permission |-> p, type |-> a.type, scope |-> a.scope] : p \in PermissionsOf[a.role]} :
           a \in {b \in RolesOf[i] : b.role \in DOMAIN PermissionsOf}}

(* grantMatchesContext *)
Matches(grant, scope) ==
    \/ grant.type = "global"
    \/ /\ grant.type \in {"tenant", "site", "device"}
       /\ grant.scope # None /\ grant.scope = scope[grant.type]

(* evaluateScopedAccess *)
Permitted(grants, permission, scope) ==
    \E grant \in grants : grant.permission = permission /\ Matches(grant, scope)

(* resolveAccessDecision: a record of no tenant counts as the caller's own. *)
Allowed(i, action, resource, scope) ==
    Permitted(GrantsOf(i), <<resource, action>>,
              [scope EXCEPT !.tenant = IF @ = None THEN HomeOf[i] ELSE @])

-----------------------------------------------------------------------------
(* The cache: an entry's key has the identity's headers, and the kind, the  *)
(* record or the query asked for; queries that differ in a character that   *)
(* is neither letter, digit, colon, underscore nor dash have one key.       *)
(* A key without the identity: *)
SharedKey(i, question) ==
    <<question.kind, question.resource,
      IF question.kind = "list" THEN KeyPart[question.query] ELSE question.id>>

CacheKey(i, question) ==
    <<i, question.kind, question.resource,
      IF question.kind = "list" THEN KeyPart[question.query] ELSE question.id>>

Keys == {CacheKey(i, question) : i \in Identity, question \in Question}

KeysOfKind(kind) ==
    {CacheKey(i, question) : i \in Identity, question \in {q \in Question : q.kind = kind}}

ScopeAsked(s, question) ==
    IF question.kind = "detail" THEN ScopeOf(s, question.resource, question.id) ELSE OpsScope

IdleReader == [at |-> "idle"]

(* A request is read; of a detail the inventory it is answered from and     *)
(* judged by is read with it, before the identity is waited for.            *)
Ask(q, i, question) ==
    /\ reader[q].at = "idle"
    /\ reader' = [reader EXCEPT ![q] =
          [at |-> "deciding", by |-> i, question |-> question,
           scope |-> ScopeAsked(inventory, question),
           value |-> IF question.kind = "detail" THEN Answer(inventory, question) ELSE None,
           overtaken |-> FALSE]]
    /\ UNCHANGED <<inventory, cache, writer, excused>>

(* 403, 404, an answer from the cache, or none there. *)
Decide(q) ==
    LET r == reader[q] IN
    /\ r.at = "deciding"
    /\ LET answered ==
              \/ ~Allowed(r.by, "read", r.question.resource, r.scope)
              \/ r.question.kind = "detail" /\ r.value = None
              \/ cache[CacheKey(r.by, r.question)] # None
       IN  reader' = [reader EXCEPT ![q] = IF answered THEN IdleReader ELSE [@ EXCEPT !.at = "loading"]]
    /\ UNCHANGED <<inventory, cache, writer, excused>>

(* The loader of rememberJson: a list is read now, a detail was before.     *)
Load(q) ==
    LET r == reader[q] IN
    /\ r.at = "loading"
    /\ reader' = [reader EXCEPT ![q].at = "storing",
                                ![q].value = IF r.question.kind = "detail" THEN @
                                             ELSE Answer(inventory, r.question)]
    /\ UNCHANGED <<inventory, cache, writer, excused>>

(* The scope an answer was judged by is kept with it, for the properties. *)
Store(q) ==
    LET r == reader[q]
        k == CacheKey(r.by, r.question)
    IN
    /\ r.at = "storing"
    /\ cache' = [cache EXCEPT ![k] = [value |-> r.value, under |-> r.scope]]
    /\ excused' = IF r.overtaken THEN excused \cup {k} ELSE excused \ {k}
    /\ reader' = [reader EXCEPT ![q] = IdleReader]
    /\ UNCHANGED <<inventory, writer>>

Expire(k) ==
    /\ cache[k] # None
    /\ cache' = [cache EXCEPT ![k] = None]
    /\ excused' = excused \ {k}
    /\ UNCHANGED <<inventory, reader, writer>>

-----------------------------------------------------------------------------
(* Writes.  A request is judged by where the record is when it arrives; the *)
(* identity and the body are waited for, then the inventory is written.     *)
IdleWriter == [at |-> "idle"]

(* bound: the ids that requests to write name *)
Written == {x \in Id : Versions[x] # {Start[x]}}

RequestWrite(w, i, action, resource, x) ==
    /\ writer[w].at = "idle"
    /\ resource \in Writable
    /\ Allowed(i, IF action = "delete" THEN "delete" ELSE "write", resource,
               IF action = "create" THEN OpsScope ELSE ScopeOf(inventory, resource, x))
    /\ writer' = [writer EXCEPT ![w] =
                    [at |-> "asked", action |-> action, resource |-> resource, id |-> x]]
    /\ UNCHANGED <<inventory, cache, reader, excused>>

(* invalidateInventoryCache: one kind of key after the other; one that      *)
(* forgets the lists.                                                       *)
DetailsOnly == <<"navigation", "detail">>
Invalidated == <<"navigation", "list", "detail">>

Invalidating == [at |-> "scanning", left |-> Invalidated, found |-> {}]

(* Inventory's checks leave no reference to what there is not. *)
Holds(s) == \A x \in Id : s[x] # None => Names(s, x) \ {None} \subseteq Known(s, Id)

(* A created or updated record may come under another id of its resource.   *)
Write(w, new, record) ==
    LET r == writer[w]
        next == [inventory EXCEPT ![r.id] = IF r.action = "update" THEN None ELSE @,
                                  ![new] = record]
        fits == /\ record.resource = r.resource
                /\ r.action = "create" => inventory[new] = None
                /\ r.action = "update" => /\ r.id \in Of(inventory, r.resource)
                                          /\ new # r.id => inventory[new] = None
    IN
    /\ r.at = "asked" /\ r.action \in {"create", "update"}
    /\ IF fits /\ Holds(next)
       THEN inventory' = next /\ writer' = [writer EXCEPT ![w] = Invalidating]
       ELSE UNCHANGED inventory /\ writer' = [writer EXCEPT ![w] = IdleWriter]
    /\ UNCHANGED <<cache, reader, excused>>

(* A delete is answered before it invalidates, and does so all the same.    *)
Remove(w) ==
    LET r == writer[w]
        needed == \E y \in Known(inventory, Id) : r.id \in Names(inventory, y)
    IN
    /\ r.at = "asked" /\ r.action = "delete"
    /\ IF r.id \in Of(inventory, r.resource) /\ ~needed
       THEN inventory' = [inventory EXCEPT ![r.id] = None] /\ writer' = [writer EXCEPT ![w] = Invalidating]
       ELSE UNCHANGED inventory /\ writer' = [writer EXCEPT ![w] = IdleWriter]
    /\ UNCHANGED <<cache, reader, excused>>

(* A request will store an answer that the inventory s does not give.       *)
HoldsOld(s, r) ==
    /\ r.at # "idle"
    /\ r.at = "storing" \/ r.question.kind = "detail"
    /\ r.value # Answer(s, r.question)

Scan(w) ==
    LET kind == Head(writer[w].left)
        Outdated(q) == HoldsOld(inventory, reader[q]) /\ reader[q].question.kind = kind
    IN
    /\ writer[w].at = "scanning"
    /\ writer' = [writer EXCEPT ![w].at = "deleting",
                                ![w].found = {k \in KeysOfKind(kind) : cache[k] # None}]
    /\ reader' = [q \in Reader |-> IF Outdated(q) THEN [reader[q] EXCEPT !.overtaken = TRUE]
                                   ELSE reader[q]]
    /\ UNCHANGED <<inventory, cache, excused>>

Delete(w) ==
    LET found == writer[w].found
        left == Tail(writer[w].left)
    IN
    /\ writer[w].at = "deleting"
    /\ cache' = [k \in Keys |-> IF k \in found THEN None ELSE cache[k]]
    /\ excused' = excused \ found
    /\ writer' = [writer EXCEPT ![w] = IF left = <<>> THEN IdleWriter
                                       ELSE [at |-> "scanning", left |-> left, found |-> {}]]
    /\ UNCHANGED <<inventory, reader>>

(* An entry is no answer to any question of its key. *)
Old(k) ==
    /\ cache[k] # None
    /\ \A i \in Identity, question \in Question :
          CacheKey(i, question) = k => cache[k].value # Answer(inventory, question)

(* For what is old now no invalidation need be to come. *)
Outdating == excused' = {k \in Keys : Old(k)'}

OvertakenBy(s) ==
    reader' = [q \in Reader |-> IF HoldsOld(s, reader[q]) THEN [reader[q] EXCEPT !.overtaken = TRUE]
                                ELSE reader[q]]

(* A request whose change is saved ends in an error: emitting the event,    *)
(* appending to the audit trail or the cache's store throws, and what is    *)
(* not yet invalidated stays.                                               *)
InvalidationThrows(w) ==
    /\ writer[w].at \in {"scanning", "deleting"}
    /\ writer' = [writer EXCEPT ![w] = IdleWriter]
    /\ OvertakenBy(inventory)
    /\ UNCHANGED <<inventory, cache>>
    /\ Outdating

(* The process ends and starts again, with the inventory or with a file cut *)
(* off, which reads as the one of a new installation.                       *)
Restart ==
    /\ inventory' \in {inventory, Start}
    /\ cache' \in {cache, [k \in Keys |-> None]}
    /\ reader' = [q \in Reader |-> IdleReader]
    /\ writer' = [w \in Writer |-> IdleWriter]
    /\ Outdating

(* A restored backup brings the inventory file with it, and no handler then *)
(* invalidates.                                                             *)
Restored ==
    /\ inventory' = Start
    /\ OvertakenBy(Start)
    /\ UNCHANGED <<cache, writer>>
    /\ Outdating

ReadsInit ==
    /\ inventory = Start
    /\ cache = [k \in Keys |-> None]
    /\ reader = [q \in Reader |-> IdleReader]
    /\ writer = [w \in Writer |-> IdleWriter]
    /\ excused = {}

ReadsNext ==
    \/ \E q \in Reader :
          \/ \E i \in Identity, question \in Question : Ask(q, i, question)
          \/ Decide(q) \/ Load(q) \/ Store(q)
    \/ \E w \in Writer :
          \/ \E i \in Identity, action \in {"create", "update", "delete"},
                resource \in Writable, x \in Written : RequestWrite(w, i, action, resource, x)
          \/ \E new \in Written : \E record \in Versions[new] \ {None} : Write(w, new, record)
          \/ Remove(w) \/ Scan(w) \/ Delete(w) \/ InvalidationThrows(w)
    \/ \E k \in Keys : Expire(k)
    \/ Restored \/ Restart

ReadsSpec == ReadsInit /\ [][ReadsNext]_readsVars

-----------------------------------------------------------------------------
(* What the cache answers a request with is what the inventory gives now    *)
(* for it or for another query of the same key, or an invalidation that     *)
(* will delete it is under way; except for an entry that was stored after   *)
(* the scan it should have been found by, or that was old when a handler    *)
(* threw between its save and the end of its invalidation, when a backup    *)
(* was restored or when the process was started.                            *)
Pending(k) ==
    \E w \in Writer :
        \/ writer[w].at = "scanning" /\ \E n \in DOMAIN writer[w].left : k \in KeysOfKind(writer[w].left[n])
        \/ writer[w].at = "deleting" /\
             \/ k \in writer[w].found
             \/ \E n \in DOMAIN Tail(writer[w].left) : k \in KeysOfKind(Tail(writer[w].left)[n])

ReadsAreCurrent == \A k \in Keys : Old(k) => k \in excused \/ Pending(k)

(* Whoever may be answered from an entry of the cache had a grant for it    *)
(* where the record was when the entry was made, though the request that    *)
(* finds it was judged by where the record is now.                          *)
AnsweredWithinGrants ==
    \A i \in Identity, question \in Question :
        LET entry == cache[CacheKey(i, question)]
        IN  entry # None => Allowed(i, "read", question.resource, entry.under)
=============================================================================
