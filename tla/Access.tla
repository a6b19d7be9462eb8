------------------------------- MODULE Access -------------------------------
(* Sign-in, sessions, roles and the cached identities of the API process    *)
(* (packages/auth-core, packages/cache-core, apps/api/src/auth, rbac and    *)
(* cache).  The process makes two repositories on one file, one for the     *)
(* auth handlers and one for every handler that asks rbac; each reads the   *)
(* file once and from then on writes its own copy of all of it.  Handlers   *)
(* interleave at their awaits.  Every handler lets a request without a      *)
(* session name its own roles in headers, so calls are not guarded by the   *)
(* permissions they ask for.  The logs in the document are left out, the    *)
(* writes of the document they cause are not.                               *)
EXTENDS FiniteSets

CONSTANTS Person, Provider, Role, Scope, Session, Transaction,
          Call,          \* calls that change a repository, as many as are open at once
          Reader,        \* requests that carry a session's token
          Admin,         \* the one person with a password
          LocalProvider, \* the provider made with the document
          DefaultRole,   \* the role of a person first seen at a provider
          AdminRole, Global,
          Seeds,         \* what the file may hold when the first process starts
          None

Repo == {"auth", "rbac"}
Grant == [role : Role, scope : Scope]
Kind == {"local", "ldap", "oidc", "saml"}

ProviderRecord == [kind : Kind, enabled : BOOLEAN, default : BOOLEAN]
SessionRecord == [user : Person, roles : SUBSET Role]
TransactionRecord == [provider : Provider, kind : {"oidc", "saml"}]

Document ==
    [providers : [Provider -> ProviderRecord \cup {None}],
     users : [Person -> (SUBSET Role) \cup {None}],       \* the role ids of each
     mappings : SUBSET (Provider \X Person),
     assignments : SUBSET (Person \X Grant),
     roleMappings : SUBSET (Provider \X Grant),
     sessions : [Session -> SessionRecord \cup {None}],
     transactions : [Transaction -> TransactionRecord \cup {None}]]

ASSUME AccessAssumption ==
    /\ Admin \in Person /\ LocalProvider \in Provider
    /\ AdminRole \in Role /\ DefaultRole \in Role /\ Global \in Scope
    /\ Session \cap Transaction = {}

(* None stands for null and undefined: no record or set of roles is. *)
ASSUME NoneIsNothing ==
    /\ None \notin Session \cup Transaction
    /\ None \notin ProviderRecord \cup Document
    /\ \A roles \in SUBSET Role : roles # None

VARIABLES file,     \* the document, or None: missing or cut off
          copy,     \* what each repository has loaded, or None
          call, reader,
          cache,    \* the identity cached for each session, or None
          told,     \* sessions and transactions their client has been given
          spent,    \* history: transactions redeemed, sessions logged out
          reverted, \* history: has a restart loaded another document than auth's?
          excused   \* history: entries stored after a scan they had to be seen by,
                    \* or kept by the cache over a restart

authVars == <<file, copy>>
vars == <<file, copy, call, reader, cache, told, spent, reverted, excused>>

Stage == {"idle", "binding", "discovering", "redirecting", "exchanging", "verifying",
          "issuing", "scanning", "deleting"}

TypeOK ==
    /\ file \in Document \cup {None}
    /\ copy \in [Repo -> Document \cup {None}]
    /\ call \in [Call -> [at : Stage, provider : Provider \cup {None},
                          subject : Session \cup Transaction \cup {None},
                          found : SUBSET Session]]
    /\ reader \in [Reader -> [at : {"idle", "loading", "storing"}, repo : Repo,
                              session : Session \cup {None},
                              value : (SUBSET Grant) \cup {None}, overtaken : BOOLEAN]]
    /\ cache \in [Session -> (SUBSET Grant) \cup {None}]
    /\ told \in SUBSET (Session \cup Transaction)
    /\ spent \in SUBSET (Session \cup Transaction)
    /\ reverted \in BOOLEAN
    /\ excused \in SUBSET Session

-----------------------------------------------------------------------------
(* The document and its two copies.                                         *)

Fresh ==
    [providers |-> [v \in Provider |->
        IF v = LocalProvider THEN [kind |-> "local", enabled |-> TRUE, default |-> TRUE]
        ELSE None],
     users |-> [p \in Person |-> IF p = Admin THEN {AdminRole} ELSE None],
     mappings |-> {<<LocalProvider, Admin>>},
     assignments |-> {<<Admin, [role |-> AdminRole, scope |-> Global]>>},
     roleMappings |-> {},
     sessions |-> [s \in Session |-> None],
     transactions |-> [t \in Transaction |-> None]]

OnFile == IF file = None THEN Fresh ELSE file

View(r) == IF copy[r] = None THEN OnFile ELSE copy[r]

Write(r, doc) ==
    /\ file' = doc
    /\ copy' = [copy EXCEPT ![r] = doc]

(* The first read of a process makes the copy, and writes a document where  *)
(* it found none it could parse.                                            *)
FirstRead(r) ==
    /\ copy[r] = None
    /\ copy' = [copy EXCEPT ![r] = OnFile]
    /\ file' = OnFile
    /\ UNCHANGED <<call, reader, cache, told, spent, reverted, excused>>

IdentityOf(doc, s) ==
    IF doc.sessions[s] = None THEN None
    ELSE LET session == doc.sessions[s]
             own == {g \in Grant : <<session.user, g>> \in doc.assignments}
         IN  IF own # {} THEN own ELSE [role : session.roles, scope : {Global}]

Available(doc, v, kinds) ==
    /\ doc.providers[v] # None
    /\ doc.providers[v].kind \in kinds
    /\ doc.providers[v].enabled

WithSession(doc, s, p) ==
    [doc EXCEPT !.sessions[s] = [user |-> p, roles |-> doc.users[p]]]

(* mapExternalIdentityToUser: the person is saved before the provider is    *)
(* looked up; G are the grants the provider's answer maps to.               *)
WithPerson(doc, p) ==
    IF doc.users[p] = None THEN [doc EXCEPT !.users[p] = {DefaultRole}] ELSE doc

MapExternalIdentity(doc, v, p, G) ==
    LET known == WithPerson(doc, p)
        assigned == known.assignments \cup ({p} \X G)
        roles == {g.role : g \in {h \in Grant : <<p, h>> \in assigned}}
    IN  [known EXCEPT !.mappings = @ \cup {<<v, p>>},
                      !.assignments = assigned,
                      !.users[p] = IF G = {} THEN @ ELSE @ \cup roles]

WithoutSession(doc, s) == [doc EXCEPT !.sessions[s] = None]

WithTransaction(doc, t, v, kind) ==
    [doc EXCEPT !.transactions[t] = [provider |-> v, kind |-> kind]]

WithoutTransaction(doc, t) == [doc EXCEPT !.transactions[t] = None]

(* A default provider takes the place of the one before. *)
WithProvider(doc, v, record) ==
    LET others == [w \in Provider |->
                    IF record.default /\ doc.providers[w] # None
                    THEN [doc.providers[w] EXCEPT !.default = FALSE]
                    ELSE doc.providers[w]]
    IN  [doc EXCEPT !.providers = [others EXCEPT ![v] = record]]

(* Its mappings go with a provider, its role mappings and sessions stay. *)
WithoutProvider(doc, v) ==
    [doc EXCEPT !.providers[v] = None, !.mappings = {m \in @ : m[1] # v}]

WithAssignment(doc, p, g) == [doc EXCEPT !.assignments = @ \cup {<<p, g>>}]
WithoutAssignment(doc, p, g) == [doc EXCEPT !.assignments = @ \ {<<p, g>>}]

WithRoleMapping(doc, v, g) == [doc EXCEPT !.roleMappings = @ \cup {<<v, g>>}]
WithoutRoleMapping(doc, v, g) == [doc EXCEPT !.roleMappings = @ \ {<<v, g>>}]

MappedGrants(doc, v) == {g \in Grant : <<v, g>> \in doc.roleMappings}

-----------------------------------------------------------------------------
(* Calls.  The steps of one: from a check to an await, to the writes of the *)
(* auth file and the log of a session made, to the scan of the cache for    *)
(* the keys to delete, to their deletion and the answer.                    *)

Doing(stage, v, x) == [at |-> stage, provider |-> v, subject |-> x, found |-> {}]

Idle == Doing("idle", None, None)

To(c, next) == call' = [call EXCEPT ![c] = next]

(* invalidateAuthCache and invalidateRbacCache; and one that forgets the    *)
(* identities.                                                              *)
InvalidatingTheRest == Idle
Invalidating == Doing("scanning", None, None)

callVars == <<reader, cache, told, spent, reverted, excused>>

(* An id of randomUUID: no document, call or client knows it. *)
NewSession(s) ==
    /\ s \notin told
    /\ \A r \in Repo : View(r).sessions[s] = None
    /\ \A c \in Call : call[c].subject # s

NewTransaction(t) ==
    /\ t \notin told
    /\ \A r \in Repo : View(r).transactions[t] = None
    /\ \A c \in Call : call[c].subject # t

LocalLogin(c, s) ==
    LET doc == View("auth") IN
    /\ call[c].at = "idle" /\ NewSession(s)
    /\ Available(doc, LocalProvider, Kind) /\ doc.users[Admin] # None
    /\ Write("auth", WithSession(doc, s, Admin))
    /\ To(c, Doing("issuing", None, s))
    /\ UNCHANGED callVars

LdapLogin(c, v) ==
    /\ call[c].at = "idle"
    /\ Available(View("auth"), v, {"ldap"})
    /\ To(c, Doing("binding", v, None))
    /\ UNCHANGED <<authVars, callVars>>

OidcStart(c, v) ==
    /\ call[c].at = "idle"
    /\ Available(View("auth"), v, {"oidc"})
    /\ To(c, Doing("discovering", v, None))
    /\ UNCHANGED <<authVars, callVars>>

(* The issuer's metadata has arrived; the answer follows in the same step. *)
OidcStarted(c, t) ==
    /\ call[c].at = "discovering" /\ NewTransaction(t)
    /\ Write("auth", WithTransaction(View("auth"), t, call[c].provider, "oidc"))
    /\ told' = told \cup {t}
    /\ To(c, Idle)
    /\ UNCHANGED <<reader, cache, spent, reverted, excused>>

SamlStart(c, v, t) ==
    /\ call[c].at = "idle" /\ NewTransaction(t)
    /\ Available(View("auth"), v, {"saml"})
    /\ Write("auth", WithTransaction(View("auth"), t, v, "saml"))
    /\ To(c, Doing("redirecting", None, t))
    /\ UNCHANGED callVars

SamlStarted(c) ==
    /\ call[c].at = "redirecting"
    /\ told' = told \cup {call[c].subject}
    /\ To(c, Idle)
    /\ UNCHANGED <<authVars, reader, cache, spent, reverted, excused>>

(* A transaction is taken out before it is looked at: one that is expired,  *)
(* comes to the other protocol's address or names a provider that is gone   *)
(* is spent all the same.                                                   *)
Callback(c, t) ==
    LET doc == View("auth")
        transaction == doc.transactions[t]
    IN
    /\ call[c].at = "idle" /\ t \in told
    /\ transaction # None
    /\ Write("auth", WithoutTransaction(doc, t))
    /\ spent' = spent \cup {t}
    /\ \/ To(c, Idle)
       \/ /\ doc.providers[transaction.provider] # None
          /\ To(c, Doing("exchanging", transaction.provider, None))
    /\ UNCHANGED <<reader, cache, told, reverted, excused>>

(* The provider is looked up again once it has answered; or it is not.      *)
ProvidedAtStart(c) == TRUE
StillProvided(c) == View("auth").providers[call[c].provider] # None

(* The provider has vouched for a person. *)
Enter(c, s, p, G) ==
    LET doc == View("auth")
        v == call[c].provider
    IN
    /\ call[c].at \in {"binding", "exchanging"} /\ NewSession(s)
    /\ StillProvided(c)
    /\ G \subseteq MappedGrants(doc, v)
    /\ Write("auth", WithSession(MapExternalIdentity(doc, v, p, G), s, p))
    /\ To(c, Doing("issuing", None, s))
    /\ UNCHANGED callVars

(* It has refused, or it is no provider any more.  A failing LDAP login is  *)
(* logged in the document, a failing callback is not.                       *)
Refused(c, p) ==
    LET doc == View("auth")
        gone == ~ StillProvided(c)
        kept == IF gone THEN WithPerson(doc, p) ELSE doc
    IN
    /\ call[c].at \in {"binding", "exchanging"}
    /\ IF gone \/ call[c].at = "binding" THEN Write("auth", kept) ELSE UNCHANGED authVars
    /\ To(c, Idle)
    /\ UNCHANGED callVars

Refresh(c, s) ==
    /\ call[c].at = "idle" /\ s \in told
    /\ To(c, Doing("verifying", None, s))
    /\ UNCHANGED <<authVars, callVars>>

(* A refresh that took the session from its token. *)
RefreshedFromToken(c) ==
    /\ call[c].at = "verifying"
    /\ \E p \in {q \in Person : View("auth").users[q] # None} :
          Write("auth", WithSession(View("auth"), call[c].subject, p))
    /\ To(c, Doing("issuing", None, call[c].subject))
    /\ UNCHANGED callVars

(* Its token verified, a session that is still in the document is written   *)
(* back and gets new tokens; one that is gone or expired gets none.         *)
Refreshed(c) ==
    LET doc == View("auth") IN
    /\ call[c].at = "verifying"
    /\ \/ /\ doc.sessions[call[c].subject] # None
          /\ Write("auth", doc)
          /\ To(c, Doing("issuing", None, call[c].subject))
       \/ To(c, Idle) /\ UNCHANGED authVars
    /\ UNCHANGED callVars

(* The tokens are signed and logged, and the cache has to forget. *)
Issue(c) ==
    /\ call[c].at = "issuing"
    /\ Write("auth", View("auth"))
    /\ To(c, Doing("scanning", None, call[c].subject))
    /\ UNCHANGED callVars

Logout(c, s) ==
    LET doc == View("auth") IN
    /\ call[c].at = "idle" /\ s \in told
    /\ IF doc.sessions[s] = None THEN UNCHANGED authVars
       ELSE Write("auth", WithoutSession(doc, s))
    /\ spent' = spent \cup {s}
    /\ To(c, Invalidating)
    /\ UNCHANGED <<reader, cache, told, reverted, excused>>

SaveProvider(c, v, record) ==
    /\ call[c].at = "idle"
    /\ Write("auth", WithProvider(View("auth"), v, record))
    /\ To(c, Invalidating)
    /\ UNCHANGED callVars

DeleteProvider(c, v) ==
    LET doc == View("auth") IN
    /\ call[c].at = "idle"
    /\ doc.providers[v] # None /\ doc.providers[v].kind # "local"
    /\ Write("auth", WithoutProvider(doc, v))
    /\ To(c, Invalidating)
    /\ UNCHANGED callVars

(* A provider's test and a refused local login only log. *)
Log == Write("auth", View("auth")) /\ UNCHANGED <<call, callVars>>

(* The handlers of rbac, on the other copy.                                 *)

Assign(c, p, g) ==
    LET doc == View("rbac") IN
    /\ call[c].at = "idle"
    /\ doc.users[p] # None
    /\ Write("rbac", WithAssignment(doc, p, g))
    /\ To(c, Invalidating)
    /\ UNCHANGED callVars

Unassign(c, p, g) ==
    LET doc == View("rbac") IN
    /\ call[c].at = "idle"
    /\ <<p, g>> \in doc.assignments
    /\ Write("rbac", WithoutAssignment(doc, p, g))
    /\ To(c, Invalidating)
    /\ UNCHANGED callVars

MapRole(c, v, g) ==
    LET doc == View("rbac") IN
    /\ call[c].at = "idle"
    /\ doc.providers[v] # None
    /\ Write("rbac", WithRoleMapping(doc, v, g))
    /\ To(c, Invalidating)
    /\ UNCHANGED callVars

UnmapRole(c, v, g) ==
    LET doc == View("rbac") IN
    /\ call[c].at = "idle"
    /\ <<v, g>> \in doc.roleMappings
    /\ Write("rbac", WithoutRoleMapping(doc, v, g))
    /\ To(c, Invalidating)
    /\ UNCHANGED callVars

-----------------------------------------------------------------------------
(* The cache: a request looks its session up, resolves it on a miss by the  *)
(* repository of the handler it came to, and stores what it found; an       *)
(* invalidation scans for keys and deletes the ones it found, by name.      *)

Lookup(q, r, s) ==
    /\ reader[q].at = "idle" /\ s \in told
    /\ cache[s] = None
    /\ reader' = [reader EXCEPT ![q] = [at |-> "loading", repo |-> r, session |-> s,
                                        value |-> None, overtaken |-> FALSE]]
    /\ UNCHANGED <<authVars, call, cache, told, spent, reverted, excused>>

(* A session whose access has expired is no identity: null, which the cache *)
(* keeps and reads as a miss.                                               *)
Resolve(q) ==
    /\ reader[q].at = "loading"
    /\ \E value \in {None, IdentityOf(View(reader[q].repo), reader[q].session)} :
          reader' = [reader EXCEPT ![q].at = "storing", ![q].value = value]
    /\ UNCHANGED <<authVars, call, cache, told, spent, reverted, excused>>

IdleReader == [at |-> "idle", repo |-> "auth", session |-> None, value |-> None,
               overtaken |-> FALSE]

Store(q) ==
    LET s == reader[q].session IN
    /\ reader[q].at = "storing"
    /\ cache' = [cache EXCEPT ![s] = reader[q].value]
    /\ excused' = IF reader[q].overtaken THEN excused \cup {s} ELSE excused \ {s}
    /\ reader' = [reader EXCEPT ![q] = IdleReader]
    /\ UNCHANGED <<authVars, call, told, spent, reverted>>

Evict(s) ==
    /\ cache[s] # None
    /\ cache' = [cache EXCEPT ![s] = None]
    /\ excused' = excused \ {s}
    /\ UNCHANGED <<authVars, call, reader, told, spent, reverted>>

Scan(c) ==
    /\ call[c].at = "scanning"
    /\ To(c, [call[c] EXCEPT !.at = "deleting", !.found = {s \in Session : cache[s] # None}])
    /\ reader' = [q \in Reader |-> [reader[q] EXCEPT !.overtaken = (reader[q].at = "storing")]]
    /\ UNCHANGED <<authVars, cache, told, spent, reverted, excused>>

Delete(c) ==
    LET found == call[c].found IN
    /\ call[c].at = "deleting"
    /\ cache' = [s \in Session |-> IF s \in found THEN None ELSE cache[s]]
    /\ excused' = excused \ found
    /\ told' = told \cup ({call[c].subject} \ {None})
    /\ To(c, Idle)
    /\ UNCHANGED <<authVars, reader, spent, reverted>>

(* The process ends, perhaps within a write, and starts again.  A cache in  *)
(* Redis survives it, the one in memory does not.                           *)
Crash ==
    /\ file' \in {file, None}
    /\ copy' = [r \in Repo |-> None]
    /\ call' = [c \in Call |-> Idle]
    /\ reader' = [q \in Reader |-> IdleReader]
    /\ cache' \in {cache, [s \in Session |-> None]}
    /\ excused' = {s \in Session : cache'[s] # None}
    /\ reverted' = (reverted \/ file' # View("auth"))
    /\ UNCHANGED <<told, spent>>

-----------------------------------------------------------------------------
Init ==
    /\ file \in Seeds
    /\ copy = [r \in Repo |-> None]
    /\ call = [c \in Call |-> Idle]
    /\ reader = [q \in Reader |-> IdleReader]
    /\ cache = [s \in Session |-> None]
    /\ told = {} /\ spent = {} /\ excused = {}
    /\ reverted = FALSE

SessionNext ==
    \/ \E c \in Call, s \in Session : LocalLogin(c, s) \/ Refresh(c, s) \/ Logout(c, s)
    \/ \E c \in Call : Refreshed(c) \/ Issue(c)

ProviderNext ==
    \E c \in Call, v \in Provider :
        \/ \E record \in ProviderRecord : SaveProvider(c, v, record)
        \/ DeleteProvider(c, v)

ExternalNext ==
    \/ \E c \in Call, v \in Provider :
          \/ LdapLogin(c, v) \/ OidcStart(c, v)
          \/ \E t \in Transaction : SamlStart(c, v, t)
    \/ \E c \in Call, t \in Transaction : OidcStarted(c, t) \/ Callback(c, t)
    \/ \E c \in Call, s \in Session, p \in Person, G \in SUBSET Grant : Enter(c, s, p, G)
    \/ \E c \in Call, p \in Person : Refused(c, p)
    \/ \E c \in Call : SamlStarted(c)

RbacNext ==
    \E c \in Call, g \in Grant :
        \/ \E p \in Person : Assign(c, p, g) \/ Unassign(c, p, g)
        \/ \E v \in Provider : MapRole(c, v, g) \/ UnmapRole(c, v, g)

CacheNext ==
    \/ \E q \in Reader, r \in Repo, s \in Session : Lookup(q, r, s)
    \/ \E q \in Reader : Resolve(q) \/ Store(q)
    \/ \E s \in Session : Evict(s)

ServerNext ==
    \/ \E c \in Call : Scan(c) \/ Delete(c)
    \/ \E r \in Repo : FirstRead(r)
    \/ Log
    \/ Crash

Next == SessionNext \/ ProviderNext \/ ExternalNext \/ RbacNext \/ CacheNext \/ ServerNext

Spec == Init /\ [][Next]_vars

-----------------------------------------------------------------------------
(* A document refers only to what it has, and has one default provider.     *)
Sound(doc) ==
    /\ \A m \in doc.mappings : doc.providers[m[1]] # None /\ doc.users[m[2]] # None
    /\ \A a \in doc.assignments : doc.users[a[1]] # None
    /\ \A s \in Session : doc.sessions[s] # None => doc.users[doc.sessions[s].user] # None
    /\ \A v, w \in Provider :
          /\ doc.providers[v] # None /\ doc.providers[v].default
          /\ doc.providers[w] # None /\ doc.providers[w].default
          => v = w

ASSUME SeedsSound == \A doc \in Seeds : doc \in Document /\ Sound(doc)

(* Every document the process holds or has written refers only to what it   *)
(* has: mappings to its providers and persons, assignments and sessions to  *)
(* its persons; and it has one default provider at most.  A login spans an  *)
(* await in which its provider can be deleted, and two repositories write.  *)
DocumentsSound == \A doc \in {file, copy["auth"], copy["rbac"]} \ {None} : Sound(doc)

(* A transaction that was redeemed and a session that was logged out are    *)
(* never again in the document the auth handlers work on, whatever refresh  *)
(* or callback is open at the time, unless a restart has loaded what the    *)
(* other repository wrote.                                                  *)
SpentStaysSpent ==
    ~ reverted =>
        /\ \A t \in Transaction \cap spent : View("auth").transactions[t] = None
        /\ \A s \in Session \cap spent : View("auth").sessions[s] = None

(* An identity in the cache is the one a repository would give now, or an   *)
(* invalidation that will delete it is under way; except for an entry that  *)
(* was stored after the scan it should have been found by, or that outlived *)
(* the process.                                                             *)
Pending(s) ==
    \E c \in Call : \/ call[c].at \in {"issuing", "scanning"}
                    \/ call[c].at = "deleting" /\ s \in call[c].found

CachedIdentityIsCurrent ==
    \A s \in Session :
        cache[s] # None /\ s \notin excused =>
            Pending(s) \/ \E r \in Repo : cache[s] = IdentityOf(View(r), s)
=============================================================================
