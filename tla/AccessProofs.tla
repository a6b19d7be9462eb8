---------------------------- MODULE AccessProofs ----------------------------
(* Proofs about Access, for any number of persons, providers, sessions,     *)
(* transactions, calls and readers.                                         *)
EXTENDS Access, TLAPS

SoundDocument(doc) == doc \in Document /\ Sound(doc)

Documents ==
    /\ file # None => SoundDocument(file)
    /\ copy \in [Repo -> Document \cup {None}]
    /\ \A r \in Repo : copy[r] # None => SoundDocument(copy[r])

CallRecord == [at : Stage, provider : Provider \cup {None},
               subject : Session \cup Transaction \cup {None}, found : SUBSET Session]

(* A call that waits for a provider has one, and one that is about a        *)
(* session or a transaction has that.                                       *)
Placed(k) ==
    /\ k \in CallRecord
    /\ k.at \in {"binding", "discovering", "exchanging"} => k.provider \in Provider
    /\ k.at = "redirecting" => k.subject \in Transaction
    /\ k.at \in {"verifying", "issuing"} => k.subject \in Session

Calls == call \in [Call -> CallRecord] /\ \A c \in Call : Placed(call[c])

ReaderRecord == [at : {"idle", "loading", "storing"}, repo : Repo,
                 session : Session \cup {None}, value : (SUBSET Grant) \cup {None},
                 overtaken : BOOLEAN]

Readers ==
    /\ reader \in [Reader -> ReaderRecord]
    /\ \A q \in Reader : reader[q].at # "idle" => reader[q].session \in Session

History ==
    /\ cache \in [Session -> (SUBSET Grant) \cup {None}]
    /\ told \in SUBSET (Session \cup Transaction)
    /\ spent \in SUBSET (Session \cup Transaction)
    /\ reverted \in BOOLEAN
    /\ excused \in SUBSET Session

AccessInv == Documents /\ Calls /\ Readers /\ History

-----------------------------------------------------------------------------
(* What the operations on a document make of a sound one.                   *)

LEMMA FreshIsSound == SoundDocument(Fresh)
<1>1. Fresh \in Document
  BY AccessAssumption DEF Fresh, Document, ProviderRecord, Kind, Grant
<1>2. [kind |-> "local", enabled |-> TRUE, default |-> TRUE] # None /\ {AdminRole} # None
  <2>1. [kind |-> "local", enabled |-> TRUE, default |-> TRUE] \in ProviderRecord
    BY DEF ProviderRecord, Kind
  <2> QED
    BY <2>1, AccessAssumption, NoneIsNothing
<1>3. /\ Fresh.providers[LocalProvider] # None /\ Fresh.users[Admin] # None
      /\ \A v \in Provider : Fresh.providers[v] # None => v = LocalProvider
      /\ Fresh.mappings = {<<LocalProvider, Admin>>}
      /\ \A a \in Fresh.assignments : a[1] = Admin
      /\ \A s \in Session : Fresh.sessions[s] = None
  BY <1>2, AccessAssumption DEF Fresh
<1>4. Sound(Fresh)
  BY <1>3 DEF Sound
<1> QED
  BY <1>1, <1>4 DEF SoundDocument

LEMMA SessionKeepsSound ==
    ASSUME NEW doc, SoundDocument(doc), NEW s \in Session, NEW p \in Person, doc.users[p] # None
    PROVE  SoundDocument(WithSession(doc, s, p))
<1> DEFINE session == [user |-> p, roles |-> doc.users[p]]
<1>1. session \in SessionRecord
  BY DEF SoundDocument, Document, SessionRecord
<1>2. session.user = p
  OBVIOUS
<1>3. WithSession(doc, s, p) = [doc EXCEPT !.sessions[s] = session]
  BY DEF WithSession
<1> HIDE DEF session
<1>4. [doc EXCEPT !.sessions[s] = session] \in Document
  BY <1>1 DEF SoundDocument, Document
<1>5. Sound([doc EXCEPT !.sessions[s] = session])
  BY <1>1, <1>2 DEF SoundDocument, Document, Sound
<1> QED
  BY <1>3, <1>4, <1>5 DEF SoundDocument

LEMMA PersonKeepsSound ==
    ASSUME NEW doc, SoundDocument(doc), NEW p \in Person
    PROVE  /\ SoundDocument(WithPerson(doc, p))
           /\ WithPerson(doc, p).users[p] # None
           /\ WithPerson(doc, p).providers = doc.providers
           /\ WithPerson(doc, p).sessions = doc.sessions
           /\ WithPerson(doc, p).transactions = doc.transactions
           /\ WithPerson(doc, p).assignments = doc.assignments
<1>0. {DefaultRole} \in SUBSET Role /\ {DefaultRole} # None
  BY AccessAssumption, NoneIsNothing
<1>1. WithPerson(doc, p) \in Document
  BY <1>0 DEF WithPerson, SoundDocument, Document
<1>2. Sound(WithPerson(doc, p))
  BY <1>0 DEF WithPerson, SoundDocument, Document, Sound, SessionRecord
<1> QED
  BY <1>0, <1>1, <1>2 DEF SoundDocument, WithPerson, Document

LEMMA MappingKeepsSound ==
    ASSUME NEW doc, SoundDocument(doc), NEW v \in Provider, NEW p \in Person,
           NEW G \in SUBSET Grant, doc.providers[v] # None
    PROVE  /\ SoundDocument(MapExternalIdentity(doc, v, p, G))
           /\ MapExternalIdentity(doc, v, p, G).users[p] # None
           /\ MapExternalIdentity(doc, v, p, G).sessions = doc.sessions
           /\ MapExternalIdentity(doc, v, p, G).transactions = doc.transactions
<1> DEFINE known == WithPerson(doc, p)
           assigned == known.assignments \cup ({p} \X G)
           roles == {g.role : g \in {h \in Grant : <<p, h>> \in assigned}}
           users == IF G = {} THEN known.users[p] ELSE known.users[p] \cup roles
           next == [known EXCEPT !.mappings = @ \cup {<<v, p>>},
                                 !.assignments = assigned,
                                 !.users[p] = users]
<1>1. SoundDocument(known) /\ known.users[p] # None /\ known.providers = doc.providers
      /\ known.sessions = doc.sessions /\ known.transactions = doc.transactions
  BY PersonKeepsSound
<1>2. MapExternalIdentity(doc, v, p, G) = next
  BY <1>1 DEF MapExternalIdentity, SoundDocument, Document
<1> HIDE DEF known
<1>3. roles \in SUBSET Role
  BY DEF Grant
<1>4. known.users[p] \in SUBSET Role
  <2>1. known.users \in [Person -> (SUBSET Role) \cup {None}]
    BY <1>1 DEF SoundDocument, Document
  <2>2. known.users[p] \in (SUBSET Role) \cup {None}
    BY <2>1
  <2> QED
    BY <1>1, <2>2
<1>5. users \in SUBSET Role /\ users # None
  BY <1>1, <1>3, <1>4, NoneIsNothing
<1>6. assigned \in SUBSET (Person \X Grant)
  BY <1>1 DEF SoundDocument, Document
<1> HIDE DEF roles, users, assigned
<1>7. next \in Document
  <2>1. known \in Document
    BY <1>1 DEF SoundDocument
  <2>2. <<v, p>> \in Provider \X Person
    OBVIOUS
  <2> QED
    BY <2>1, <2>2, <1>5, <1>6 DEF Document
<1>8. /\ next.providers = doc.providers /\ next.sessions = doc.sessions
      /\ next.transactions = doc.transactions
      /\ next.mappings = known.mappings \cup {<<v, p>>} /\ next.assignments = assigned
      /\ next.users[p] = users
      /\ \A r \in Person : next.users[r] # None <=> (r = p \/ known.users[r] # None)
  BY <1>1, <1>5 DEF SoundDocument, Document
<1>9. Sound(next)
  <2>1. \A m \in next.mappings : next.providers[m[1]] # None /\ next.users[m[2]] # None
    BY <1>1, <1>8 DEF SoundDocument, Document, Sound
  <2>2. \A a \in assigned : a[1] \in Person /\ (a[1] = p \/ known.users[a[1]] # None)
    BY <1>1 DEF assigned, SoundDocument, Document, Sound
  <2>3. \A a \in next.assignments : next.users[a[1]] # None
    BY <1>8, <2>2
  <2>4. \A s \in Session : next.sessions[s] # None => next.users[next.sessions[s].user] # None
    <3> TAKE s \in Session
    <3> HAVE next.sessions[s] # None
    <3>1. known.sessions[s] \in SessionRecord /\ known.users[known.sessions[s].user] # None
      BY <1>1, <1>8 DEF SoundDocument, Document, Sound
    <3> QED
      BY <3>1, <1>1, <1>8 DEF SessionRecord
  <2> QED
    BY <1>1, <1>8, <2>1, <2>3, <2>4 DEF SoundDocument, Sound
<1> QED
  BY <1>2, <1>5, <1>7, <1>8, <1>9 DEF SoundDocument

LEMMA TransactionKeepsSound ==
    ASSUME NEW doc, SoundDocument(doc), NEW t \in Transaction, NEW v \in Provider,
           NEW kind \in {"oidc", "saml"}
    PROVE  SoundDocument(WithTransaction(doc, t, v, kind)) /\ SoundDocument(WithoutTransaction(doc, t))
<1>1. WithTransaction(doc, t, v, kind) \in Document /\ WithoutTransaction(doc, t) \in Document
  BY DEF WithTransaction, WithoutTransaction, SoundDocument, Document, TransactionRecord
<1> QED
  BY <1>1 DEF WithTransaction, WithoutTransaction, SoundDocument, Document, Sound

LEMMA WithoutTransactionKeepsSound ==
    ASSUME NEW doc, SoundDocument(doc), NEW t \in Transaction
    PROVE  SoundDocument(WithoutTransaction(doc, t))
<1>1. WithoutTransaction(doc, t) \in Document
  BY DEF WithoutTransaction, SoundDocument, Document
<1> QED
  BY <1>1 DEF WithoutTransaction, SoundDocument, Document, Sound

LEMMA LogoutKeepsSound ==
    ASSUME NEW doc, SoundDocument(doc), NEW s \in Session
    PROVE  SoundDocument(WithoutSession(doc, s))
<1>1. WithoutSession(doc, s) \in Document
  BY DEF WithoutSession, SoundDocument, Document
<1> QED
  BY <1>1 DEF WithoutSession, SoundDocument, Document, Sound

LEMMA ProviderKeepsSound ==
    ASSUME NEW doc, SoundDocument(doc), NEW v \in Provider, NEW record \in ProviderRecord
    PROVE  SoundDocument(WithProvider(doc, v, record))
<1> DEFINE others == [w \in Provider |->
                        IF record.default /\ doc.providers[w] # None
                        THEN [doc.providers[w] EXCEPT !.default = FALSE]
                        ELSE doc.providers[w]]
           next == [doc EXCEPT !.providers = [others EXCEPT ![v] = record]]
<1>1. \A w \in Provider : /\ others[w] \in ProviderRecord \cup {None}
                          /\ others[w] = None <=> doc.providers[w] = None
                          /\ others[w] # None /\ others[w].default
                             => ~ record.default /\ others[w] = doc.providers[w]
  <2> TAKE w \in Provider
  <2>1. doc.providers[w] \in ProviderRecord \cup {None}
    BY DEF SoundDocument, Document
  <2>2. CASE record.default /\ doc.providers[w] # None
    <3>1. [doc.providers[w] EXCEPT !.default = FALSE] \in ProviderRecord
      BY <2>1, <2>2 DEF ProviderRecord
    <3>2. [doc.providers[w] EXCEPT !.default = FALSE].default = FALSE
      BY <2>1, <2>2 DEF ProviderRecord
    <3> QED
      BY <2>2, <3>1, <3>2, NoneIsNothing
  <2>3. CASE ~ (record.default /\ doc.providers[w] # None)
    <3>1. others[w] = doc.providers[w]
      BY <2>3
    <3>2. record.default \in BOOLEAN
      BY DEF ProviderRecord
    <3> QED
      BY <2>1, <2>3, <3>1, <3>2
  <2> QED
    BY <2>2, <2>3
<1>2. WithProvider(doc, v, record) = next
  BY DEF WithProvider
<1>3. others \in [Provider -> ProviderRecord \cup {None}]
  BY <1>1
<1> HIDE DEF others
<1>4. /\ next \in Document
      /\ next.providers = [others EXCEPT ![v] = record]
      /\ next.users = doc.users /\ next.mappings = doc.mappings
      /\ next.assignments = doc.assignments /\ next.sessions = doc.sessions
  BY <1>3 DEF SoundDocument, Document
<1>5. \A w \in Provider : next.providers[w] = IF w = v THEN record ELSE others[w]
  BY <1>3, <1>4
<1>6. \A m \in next.mappings : next.providers[m[1]] # None /\ next.users[m[2]] # None
  BY <1>1, <1>4, <1>5, NoneIsNothing DEF SoundDocument, Document, Sound
<1>7. ASSUME NEW x \in Provider, NEW y \in Provider,
             next.providers[x] # None, next.providers[x].default,
             next.providers[y] # None, next.providers[y].default
      PROVE  x = y
  BY <1>1, <1>5, <1>7 DEF SoundDocument, Sound
<1> QED
  BY <1>2, <1>4, <1>6, <1>7 DEF SoundDocument, Sound

LEMMA ProviderGoneKeepsSound ==
    ASSUME NEW doc, SoundDocument(doc), NEW v \in Provider
    PROVE  SoundDocument(WithoutProvider(doc, v))
<1>1. WithoutProvider(doc, v) \in Document
  BY DEF WithoutProvider, SoundDocument, Document
<1> QED
  BY <1>1 DEF WithoutProvider, SoundDocument, Document, Sound

LEMMA AssignmentKeepsSound ==
    ASSUME NEW doc, SoundDocument(doc), NEW p \in Person, NEW g \in Grant
    PROVE  /\ doc.users[p] # None => SoundDocument(WithAssignment(doc, p, g))
           /\ SoundDocument(WithoutAssignment(doc, p, g))
<1>1. WithAssignment(doc, p, g) \in Document /\ WithoutAssignment(doc, p, g) \in Document
  BY DEF WithAssignment, WithoutAssignment, SoundDocument, Document
<1>2. ASSUME doc.users[p] # None PROVE Sound(WithAssignment(doc, p, g))
  <2> DEFINE next == [doc EXCEPT !.assignments = @ \cup {<<p, g>>}]
  <2>1. /\ next.assignments = doc.assignments \cup {<<p, g>>} /\ next.users = doc.users
        /\ next.providers = doc.providers /\ next.mappings = doc.mappings
        /\ next.sessions = doc.sessions
    BY DEF SoundDocument, Document
  <2>2. \A a \in next.assignments : next.users[a[1]] # None
    BY <1>2, <2>1 DEF SoundDocument, Sound
  <2> QED
    BY <2>1, <2>2 DEF SoundDocument, Sound, WithAssignment
<1>3. Sound(WithoutAssignment(doc, p, g))
  BY <1>1 DEF WithoutAssignment, SoundDocument, Document, Sound
<1> QED
  BY <1>1, <1>2, <1>3 DEF SoundDocument

LEMMA RoleMappingKeepsSound ==
    ASSUME NEW doc, SoundDocument(doc), NEW v \in Provider, NEW g \in Grant
    PROVE  SoundDocument(WithRoleMapping(doc, v, g)) /\ SoundDocument(WithoutRoleMapping(doc, v, g))
<1>1. WithRoleMapping(doc, v, g) \in Document /\ WithoutRoleMapping(doc, v, g) \in Document
  BY DEF WithRoleMapping, WithoutRoleMapping, SoundDocument, Document
<1> QED
  BY <1>1 DEF WithRoleMapping, WithoutRoleMapping, SoundDocument, Document, Sound

-----------------------------------------------------------------------------
(* Types and documents.                                                     *)

LEMMA ViewIsSound ==
    ASSUME Documents, NEW r \in Repo
    PROVE  SoundDocument(View(r)) /\ SoundDocument(OnFile)
BY FreshIsSound DEF Documents, View, OnFile

LEMMA WriteKeeps ==
    ASSUME Documents, NEW r \in Repo, NEW doc, SoundDocument(doc), Write(r, doc)
    PROVE  Documents'
BY DEF Documents, Write, SoundDocument

LEMMA CallKept ==
    ASSUME Calls, NEW c \in Call, NEW next, Placed(next), To(c, next)
    PROVE  Calls'
BY DEF Calls, To, Placed

LEMMA StagesPlaced ==
    /\ Placed(Idle) /\ Placed(Invalidating)
    /\ \A v \in Provider : \A stage \in {"binding", "discovering", "exchanging"} :
          Placed(Doing(stage, v, None))
    /\ \A t \in Transaction : Placed(Doing("redirecting", None, t))
    /\ \A s \in Session : \A stage \in {"verifying", "issuing", "scanning"} :
          Placed(Doing(stage, None, s))
<1>1. {} \in SUBSET Session
  OBVIOUS
<1> QED
  BY <1>1 DEF Placed, Idle, Invalidating, Doing, CallRecord, Stage

LEMMA InvIsType == AccessInv => TypeOK /\ DocumentsSound
BY DEF AccessInv, Documents, Calls, Readers, History, SoundDocument, TypeOK, DocumentsSound,
       CallRecord, ReaderRecord, Repo

LEMMA InitInv == Init => AccessInv
<1> SUFFICES ASSUME Init PROVE AccessInv
  OBVIOUS
<1>1. Documents
  BY SeedsSound, NoneIsNothing DEF Init, Documents, SoundDocument
<1>2. Calls
  BY StagesPlaced DEF Init, Calls, Placed
<1>3. Readers /\ History
  BY DEF Init, Readers, ReaderRecord, IdleReader, History, Repo
<1> QED
  BY <1>1, <1>2, <1>3 DEF AccessInv

LEMMA SessionStep ==
    ASSUME AccessInv, SessionNext PROVE AccessInv'
<1> USE DEF AccessInv
<1>1. SoundDocument(View("auth"))
  BY ViewIsSound DEF Repo
<1>2. Readers' /\ History'
  <2>1. UNCHANGED <<reader, cache, told, reverted, excused>>
    BY DEF SessionNext, LocalLogin, Refresh, Logout, Refreshed, Issue, callVars
  <2>2. spent' = spent \/ \E s \in Session : spent' = spent \cup {s}
    BY DEF SessionNext, LocalLogin, Refresh, Logout, Refreshed, Issue, callVars
  <2> QED
    BY <2>1, <2>2 DEF Readers, History
<1>3. ASSUME NEW c \in Call, NEW s \in Session, LocalLogin(c, s) PROVE Documents' /\ Calls'
  <2>1. SoundDocument(WithSession(View("auth"), s, Admin))
    BY <1>1, <1>3, SessionKeepsSound, AccessAssumption DEF LocalLogin
  <2> QED
    BY <1>3, <2>1, WriteKeeps, CallKept, StagesPlaced DEF LocalLogin, Repo
<1>4. ASSUME NEW c \in Call, NEW s \in Session, Refresh(c, s) PROVE Documents' /\ Calls'
  BY <1>4, CallKept, StagesPlaced DEF Refresh, authVars, Documents
<1>5. ASSUME NEW c \in Call, NEW s \in Session, Logout(c, s) PROVE Documents' /\ Calls'
  <2>1. Calls'
    BY <1>5, CallKept, StagesPlaced DEF Logout
  <2>2. CASE UNCHANGED authVars
    BY <2>1, <2>2 DEF authVars, Documents
  <2>3. CASE Write("auth", WithoutSession(View("auth"), s))
    BY <1>1, <2>1, <2>3, WriteKeeps, LogoutKeepsSound DEF Repo
  <2> QED
    BY <1>5, <2>2, <2>3 DEF Logout
<1>6. ASSUME NEW c \in Call, Refreshed(c) PROVE Documents' /\ Calls'
  <2>1. CASE /\ Write("auth", View("auth"))
             /\ To(c, Doing("issuing", None, call[c].subject))
    <3>1. call[c].subject \in Session
      BY <1>6 DEF Refreshed, Calls, Placed
    <3> QED
      BY <1>1, <2>1, <3>1, WriteKeeps, CallKept, StagesPlaced DEF Repo
  <2>2. CASE To(c, Idle) /\ UNCHANGED authVars
    BY <2>2, CallKept, StagesPlaced DEF authVars, Documents
  <2> QED
    BY <1>6, <2>1, <2>2 DEF Refreshed
<1>7. ASSUME NEW c \in Call, Issue(c) PROVE Documents' /\ Calls'
  <2>1. call[c].subject \in Session
    BY <1>7 DEF Issue, Calls, Placed
  <2> QED
    BY <1>1, <1>7, <2>1, WriteKeeps, CallKept, StagesPlaced DEF Issue, Repo
<1> QED
  BY <1>2, <1>3, <1>4, <1>5, <1>6, <1>7 DEF SessionNext

LEMMA ProviderStep ==
    ASSUME AccessInv, ProviderNext \/ RbacNext PROVE AccessInv'
<1> USE DEF AccessInv
<1>1. SoundDocument(View("auth")) /\ SoundDocument(View("rbac"))
  BY ViewIsSound DEF Repo
<1>2. Readers' /\ History'
  BY DEF ProviderNext, RbacNext, SaveProvider, DeleteProvider, Assign, Unassign, MapRole, UnmapRole,
         callVars, Readers, History
<1>3. ASSUME NEW c \in Call, NEW v \in Provider, NEW record \in ProviderRecord,
             SaveProvider(c, v, record)
      PROVE  Documents' /\ Calls'
  BY <1>1, <1>3, WriteKeeps, CallKept, StagesPlaced, ProviderKeepsSound DEF SaveProvider, Repo
<1>4. ASSUME NEW c \in Call, NEW v \in Provider, DeleteProvider(c, v) PROVE Documents' /\ Calls'
  BY <1>1, <1>4, WriteKeeps, CallKept, StagesPlaced, ProviderGoneKeepsSound DEF DeleteProvider, Repo
<1>5. ASSUME NEW c \in Call, NEW p \in Person, NEW g \in Grant, Assign(c, p, g) \/ Unassign(c, p, g)
      PROVE  Documents' /\ Calls'
  BY <1>1, <1>5, WriteKeeps, CallKept, StagesPlaced, AssignmentKeepsSound
  DEF Assign, Unassign, Repo
<1>6. ASSUME NEW c \in Call, NEW v \in Provider, NEW g \in Grant, MapRole(c, v, g) \/ UnmapRole(c, v, g)
      PROVE  Documents' /\ Calls'
  BY <1>1, <1>6, WriteKeeps, CallKept, StagesPlaced, RoleMappingKeepsSound
  DEF MapRole, UnmapRole, Repo
<1> QED
  BY <1>2, <1>3, <1>4, <1>5, <1>6 DEF ProviderNext, RbacNext

LEMMA ExternalStep ==
    ASSUME AccessInv, ExternalNext PROVE AccessInv'
<1> USE DEF AccessInv
<1>1. SoundDocument(View("auth"))
  BY ViewIsSound DEF Repo
<1>2. ASSUME NEW c \in Call, NEW v \in Provider, LdapLogin(c, v) \/ OidcStart(c, v)
      PROVE  AccessInv'
  <2>1. Calls'
    BY <1>2, CallKept, StagesPlaced DEF LdapLogin, OidcStart
  <2> QED
    BY <1>2, <2>1 DEF LdapLogin, OidcStart, authVars, callVars, Documents, Readers, History
<1>3. ASSUME NEW c \in Call, NEW v \in Provider, NEW t \in Transaction, SamlStart(c, v, t)
      PROVE  AccessInv'
  <2>1. Documents' /\ Calls'
    BY <1>1, <1>3, WriteKeeps, CallKept, StagesPlaced, TransactionKeepsSound DEF SamlStart, Repo
  <2> QED
    BY <1>3, <2>1 DEF SamlStart, callVars, Readers, History
<1>4. ASSUME NEW c \in Call, NEW t \in Transaction, OidcStarted(c, t) PROVE AccessInv'
  <2>1. call[c].provider \in Provider
    BY <1>4 DEF OidcStarted, Calls, Placed
  <2>2. Documents' /\ Calls'
    BY <1>1, <1>4, <2>1, WriteKeeps, CallKept, StagesPlaced, TransactionKeepsSound
    DEF OidcStarted, Repo
  <2> QED
    BY <1>4, <2>2 DEF OidcStarted, Readers, History
<1>5. ASSUME NEW c \in Call, NEW t \in Transaction, Callback(c, t) PROVE AccessInv'
  <2> DEFINE transaction == View("auth").transactions[t]
  <2>1. transaction \in TransactionRecord
    BY <1>1, <1>5 DEF Callback, SoundDocument, Document
  <2>2. transaction.provider \in Provider
    BY <2>1 DEF TransactionRecord
  <2>3. Calls'
    BY <1>5, <2>2, CallKept, StagesPlaced DEF Callback
  <2>4. Documents'
    BY <1>1, <1>5, WriteKeeps, WithoutTransactionKeepsSound DEF Callback, Repo
  <2> QED
    BY <1>5, <2>3, <2>4 DEF Callback, Readers, History
<1>6. ASSUME NEW c \in Call, NEW s \in Session, NEW p \in Person, NEW G \in SUBSET Grant,
             Enter(c, s, p, G)
      PROVE  AccessInv'
  <2> DEFINE mapped == MapExternalIdentity(View("auth"), call[c].provider, p, G)
  <2>1. call[c].provider \in Provider /\ View("auth").providers[call[c].provider] # None
    BY <1>6 DEF Enter, StillProvided, Calls, Placed
  <2>2. SoundDocument(mapped) /\ mapped.users[p] # None
    BY <1>1, <2>1, MappingKeepsSound
  <2>3. SoundDocument(WithSession(mapped, s, p))
    BY <2>2, SessionKeepsSound
  <2>4. Documents' /\ Calls'
    BY <1>6, <2>3, WriteKeeps, CallKept, StagesPlaced DEF Enter, Repo
  <2> QED
    BY <1>6, <2>4 DEF Enter, callVars, Readers, History
<1>7. ASSUME NEW c \in Call, NEW p \in Person, Refused(c, p) PROVE AccessInv'
  <2>1. Calls' /\ Readers' /\ History'
    BY <1>7, CallKept, StagesPlaced DEF Refused, callVars, Readers, History
  <2>2. CASE UNCHANGED authVars
    BY <2>1, <2>2 DEF authVars, Documents
  <2>3. CASE Write("auth", IF ~ StillProvided(c) THEN WithPerson(View("auth"), p) ELSE View("auth"))
    BY <1>1, <2>1, <2>3, WriteKeeps, PersonKeepsSound DEF Repo
  <2> QED
    BY <1>7, <2>2, <2>3 DEF Refused
<1>8. ASSUME NEW c \in Call, SamlStarted(c) PROVE AccessInv'
  <2>1. call[c].subject \in Transaction
    BY <1>8 DEF SamlStarted, Calls, Placed
  <2>2. Calls'
    BY <1>8, CallKept, StagesPlaced DEF SamlStarted
  <2> QED
    BY <1>8, <2>1, <2>2 DEF SamlStarted, authVars, Documents, Readers, History
<1> QED
  BY <1>2, <1>3, <1>4, <1>5, <1>6, <1>7, <1>8 DEF ExternalNext

LEMMA IdentityTyped ==
    ASSUME NEW doc, SoundDocument(doc), NEW s \in Session
    PROVE  IdentityOf(doc, s) \in (SUBSET Grant) \cup {None}
<1> DEFINE session == doc.sessions[s]
<1>1. CASE session = None
  BY <1>1 DEF IdentityOf
<1>2. CASE session # None
  <2>1. session.roles \in SUBSET Role
    BY <1>2 DEF SoundDocument, Document, SessionRecord
  <2>2. [role : session.roles, scope : {Global}] \in SUBSET Grant
    BY <2>1, AccessAssumption DEF Grant
  <2> HIDE DEF session
  <2> QED
    BY <1>2, <2>2 DEF IdentityOf, session
<1> QED
  BY <1>1, <1>2

LEMMA CacheStep ==
    ASSUME AccessInv, CacheNext PROVE AccessInv'
<1> USE DEF AccessInv
<1>1. Documents' /\ Calls'
  BY DEF CacheNext, Lookup, Resolve, Store, Evict, authVars, Documents, Calls
<1>2. ASSUME NEW q \in Reader, NEW r \in Repo, NEW s \in Session, Lookup(q, r, s)
      PROVE  Readers' /\ History'
  BY <1>2 DEF Lookup, Readers, ReaderRecord, History
<1>3. ASSUME NEW q \in Reader, Resolve(q) PROVE Readers' /\ History'
  <2>1. reader[q].session \in Session /\ reader[q].repo \in Repo
    BY <1>3 DEF Resolve, Readers, ReaderRecord
  <2>2. IdentityOf(View(reader[q].repo), reader[q].session) \in (SUBSET Grant) \cup {None}
    BY <2>1, ViewIsSound, IdentityTyped
  <2>3. PICK value \in (SUBSET Grant) \cup {None} :
            reader' = [reader EXCEPT ![q].at = "storing", ![q].value = value]
    BY <1>3, <2>2 DEF Resolve
  <2>4. reader' = [reader EXCEPT ![q] = [@ EXCEPT !.at = "storing", !.value = value]]
    BY <2>3 DEF Readers, ReaderRecord
  <2>5. [reader[q] EXCEPT !.at = "storing", !.value = value] \in ReaderRecord
    BY DEF Readers, ReaderRecord
  <2>6. [reader[q] EXCEPT !.at = "storing", !.value = value].session = reader[q].session
    BY DEF Readers, ReaderRecord
  <2>7. Readers'
    BY <2>1, <2>4, <2>5, <2>6 DEF Readers
  <2> QED
    BY <1>3, <2>7 DEF Resolve, History
<1>4. ASSUME NEW q \in Reader, Store(q) PROVE Readers' /\ History'
  <2>1. reader[q].session \in Session /\ reader[q].value \in (SUBSET Grant) \cup {None}
    BY <1>4 DEF Store, Readers, ReaderRecord
  <2>2. IdleReader \in ReaderRecord /\ IdleReader.at = "idle"
    BY DEF IdleReader, ReaderRecord, Repo
  <2> QED
    BY <1>4, <2>1, <2>2 DEF Store, Readers, History
<1>5. ASSUME NEW s \in Session, Evict(s) PROVE Readers' /\ History'
  BY <1>5 DEF Evict, Readers, History
<1> QED
  BY <1>1, <1>2, <1>3, <1>4, <1>5 DEF CacheNext

LEMMA ServerStep ==
    ASSUME AccessInv, ServerNext PROVE AccessInv'
<1> USE DEF AccessInv
<1>1. ASSUME NEW c \in Call, Scan(c) PROVE AccessInv'
  <2> DEFINE found == {s \in Session : cache[s] # None}
             next == [call[c] EXCEPT !.at = "deleting", !.found = found]
  <2>1. Placed(next)
    <3>1. call[c] \in CallRecord /\ found \in SUBSET Session
      BY DEF Calls
    <3> HIDE DEF found
    <3> QED
      BY <3>1 DEF Placed, CallRecord, Stage
  <2>2. Calls'
    BY <1>1, <2>1, CallKept DEF Scan
  <2>3. Readers'
    BY <1>1 DEF Scan, Readers, ReaderRecord
  <2> QED
    BY <1>1, <2>2, <2>3 DEF Scan, authVars, Documents, History
<1>2. ASSUME NEW c \in Call, Delete(c) PROVE AccessInv'
  <2>1. Calls'
    BY <1>2, CallKept, StagesPlaced DEF Delete
  <2>2. call[c].subject \in Session \cup Transaction \cup {None}
    BY DEF Calls, CallRecord
  <2>3. History'
    BY <1>2, <2>2 DEF Delete, History
  <2> QED
    BY <1>2, <2>1, <2>3 DEF Delete, authVars, Documents, Readers
<1>3. ASSUME NEW r \in Repo, FirstRead(r) PROVE AccessInv'
  <2>1. SoundDocument(OnFile)
    BY ViewIsSound
  <2>2. Documents'
    BY <1>3, <2>1 DEF FirstRead, Documents, SoundDocument
  <2> QED
    BY <1>3, <2>2 DEF FirstRead, Calls, Readers, History
<1>4. ASSUME Log PROVE AccessInv'
  <2>1. Documents'
    BY <1>4, ViewIsSound, WriteKeeps DEF Log, Repo
  <2> QED
    BY <1>4, <2>1 DEF Log, callVars, Calls, Readers, History
<1>5. ASSUME Crash PROVE AccessInv'
  <2>1. Documents'
    BY <1>5 DEF Crash, Documents
  <2>2. Calls'
    BY <1>5, StagesPlaced DEF Crash, Calls, Placed
  <2>3. Readers'
    BY <1>5 DEF Crash, Readers, ReaderRecord, IdleReader, Repo
  <2>4. cache' \in [Session -> (SUBSET Grant) \cup {None}] /\ excused' \in SUBSET Session
    BY <1>5 DEF Crash, History
  <2>5. (file' # View("auth")) \in BOOLEAN
    OBVIOUS
  <2> QED
    BY <1>5, <2>1, <2>2, <2>3, <2>4, <2>5 DEF Crash, History
<1> QED
  BY <1>1, <1>2, <1>3, <1>4, <1>5 DEF ServerNext

LEMMA AccessInvariant == Spec => []AccessInv
<1>1. AccessInv /\ [Next]_vars => AccessInv'
  <2>1. CASE UNCHANGED vars
    BY <2>1 DEF vars, AccessInv, Documents, Calls, Readers, History
  <2> QED
    BY <2>1, SessionStep, ProviderStep, ExternalStep, CacheStep, ServerStep DEF Next
<1> QED
  BY <1>1, InitInv, PTL DEF Spec

(* Every variable of the model keeps its type, the copies and the calls     *)
(* that wait for a provider included.                                       *)
THEOREM TypeCorrect == Spec => []TypeOK
BY AccessInvariant, InvIsType, PTL

(* The documents the process holds and writes refer only to what they have, *)
(* whatever logins, deletions and edits overlap.                            *)
THEOREM DocumentsTheorem == Spec => []DocumentsSound
BY AccessInvariant, InvIsType, PTL

-----------------------------------------------------------------------------
(* What the two copies have of each other: where one repository has loaded  *)
(* and the other has not, the file holds what the one has.                  *)

SoleCopy == \A r, q \in Repo : copy[r] = None /\ copy[q] # None => file = copy[q]

LEMMA WriteViews ==
    ASSUME Documents, SoleCopy, NEW r \in Repo, NEW doc, SoundDocument(doc), Write(r, doc)
    PROVE  /\ SoleCopy'
           /\ View(r)' = doc
           /\ \A q \in Repo : \/ View(q)' = doc /\ View(q) = View(r)
                              \/ View(q)' = View(q)
<1>1. doc # None
  BY NoneIsNothing DEF SoundDocument
<1>2. /\ file' = doc /\ copy'[r] = doc
      /\ \A q \in Repo : q # r => copy'[q] = copy[q]
  BY DEF Write, Documents
<1>3. SoleCopy'
  BY <1>1, <1>2 DEF SoleCopy, Repo
<1>4. View(r)' = doc
  BY <1>1, <1>2 DEF View
<1>5. ASSUME NEW q \in Repo, q # r PROVE (View(q)' = doc /\ View(q) = View(r)) \/ View(q)' = View(q)
  <2>1. CASE copy[q] # None
    BY <1>2, <1>5, <2>1 DEF View
  <2>2. CASE copy[q] = None
    <3>1. View(q)' = doc
      BY <1>1, <1>2, <1>5, <2>2 DEF View, OnFile
    <3>2. View(q) = View(r)
      BY <2>2 DEF View, OnFile, SoleCopy
    <3> QED
      BY <3>1, <3>2
  <2> QED
    BY <2>1, <2>2
<1> QED
  BY <1>3, <1>4, <1>5

LEMMA ReadViews ==
    ASSUME Documents, SoleCopy, NEW r \in Repo, FirstRead(r)
    PROVE  SoleCopy' /\ \A q \in Repo : View(q)' = View(q)
<1>1. OnFile # None
  BY ViewIsSound, NoneIsNothing DEF SoundDocument
<1>2. /\ file' = OnFile /\ copy'[r] = OnFile /\ copy[r] = None
      /\ \A q \in Repo : q # r => copy'[q] = copy[q]
  BY DEF FirstRead, Documents
<1>3. SoleCopy'
  BY <1>1, <1>2 DEF SoleCopy, Repo, OnFile
<1>4. ASSUME NEW q \in Repo PROVE View(q)' = View(q)
  <2>1. View(q)' = IF copy'[q] = None THEN IF file' = None THEN Fresh ELSE file' ELSE copy'[q]
    BY DEF View, OnFile, Fresh
  <2>2. CASE q = r
    BY <1>1, <1>2, <2>1, <2>2 DEF View
  <2>3. CASE q # r /\ copy[q] # None
    BY <1>2, <2>1, <2>3 DEF View
  <2>4. CASE q # r /\ copy[q] = None
    BY <1>1, <1>2, <2>1, <2>4 DEF View
  <2> QED
    BY <2>2, <2>3, <2>4
<1> QED
  BY <1>3, <1>4

-----------------------------------------------------------------------------
(* What was spent stays spent: whatever writes a document, only an id that  *)
(* no client has been told comes into it.                                   *)

Follows(old, new) ==
    /\ \A s \in Session : new.sessions[s] # None => old.sessions[s] # None \/ s \notin told
    /\ \A t \in Transaction : new.transactions[t] # None => old.transactions[t] # None \/ t \notin told

SpentInv == SoleCopy /\ spent \subseteq told /\ SpentStaysSpent

LEMMA FollowingKeepsSpent ==
    ASSUME AccessInv, SpentInv, NEW r \in Repo, NEW doc, SoundDocument(doc), Write(r, doc),
           Follows(View(r), doc), told \subseteq told', spent' = spent, reverted' = reverted
    PROVE  SpentInv'
<1>1. SoleCopy' /\ ((View("auth")' = doc /\ View("auth") = View(r)) \/ View("auth")' = View("auth"))
  BY WriteViews DEF AccessInv, SpentInv, Repo
<1>2. SpentStaysSpent'
  BY <1>1 DEF SpentInv, SpentStaysSpent, Follows
<1> QED
  BY <1>1, <1>2 DEF SpentInv

LEMMA QuietKeepsSpent ==
    ASSUME SpentInv, UNCHANGED <<file, copy>>, told \subseteq told', spent' = spent, reverted' = reverted
    PROVE  SpentInv'
BY DEF SpentInv, SoleCopy, SpentStaysSpent, View, OnFile, Fresh

LEMMA SpendingKeepsSpent ==
    ASSUME AccessInv, SpentInv, NEW x \in told, NEW doc, SoundDocument(doc),
           (Write("auth", doc) \/ (UNCHANGED <<file, copy>> /\ doc = View("auth"))),
           Follows(View("auth"), doc),
           x \in Session => doc.sessions[x] = None,
           x \in Transaction => doc.transactions[x] = None,
           told' = told, spent' = spent \cup {x}, reverted' = reverted
    PROVE  SpentInv'
<1>1. SoleCopy' /\ View("auth")' = doc
  <2>1. CASE Write("auth", doc)
    BY <2>1, WriteViews DEF AccessInv, SpentInv, Repo
  <2>2. CASE UNCHANGED <<file, copy>> /\ doc = View("auth")
    BY <2>2 DEF SpentInv, SoleCopy, View, OnFile, Fresh
  <2> QED
    BY <2>1, <2>2
<1>2. SpentStaysSpent'
  BY <1>1 DEF SpentInv, SpentStaysSpent, Follows
<1> QED
  BY <1>1, <1>2 DEF SpentInv

LEMMA OperationsFollow ==
    ASSUME NEW doc, SoundDocument(doc)
    PROVE  /\ Follows(doc, doc)
           /\ \A s \in Session, p \in Person : s \notin told => Follows(doc, WithSession(doc, s, p))
           /\ \A s \in Session : Follows(doc, WithoutSession(doc, s))
           /\ \A t \in Transaction : Follows(doc, WithoutTransaction(doc, t))
           /\ \A t \in Transaction, v \in Provider, kind \in {"oidc", "saml"} :
                 t \notin told => Follows(doc, WithTransaction(doc, t, v, kind))
<1> USE DEF SoundDocument, Document, Follows
<1>1. ASSUME NEW s \in Session, NEW p \in Person, s \notin told PROVE Follows(doc, WithSession(doc, s, p))
  BY <1>1 DEF WithSession
<1>2. ASSUME NEW s \in Session PROVE Follows(doc, WithoutSession(doc, s))
  BY DEF WithoutSession
<1>3. ASSUME NEW t \in Transaction PROVE Follows(doc, WithoutTransaction(doc, t))
  BY DEF WithoutTransaction
<1>4. ASSUME NEW t \in Transaction, NEW v \in Provider, NEW kind \in {"oidc", "saml"}, t \notin told
      PROVE Follows(doc, WithTransaction(doc, t, v, kind))
  BY <1>4 DEF WithTransaction
<1> QED
  BY <1>1, <1>2, <1>3, <1>4

(* The operations that leave sessions and transactions alone. *)
Aside(old, new) == new.sessions = old.sessions /\ new.transactions = old.transactions

LEMMA OperationsAside ==
    ASSUME NEW doc, SoundDocument(doc)
    PROVE  /\ \A v \in Provider, record \in ProviderRecord : Aside(doc, WithProvider(doc, v, record))
           /\ \A v \in Provider : Aside(doc, WithoutProvider(doc, v))
           /\ \A p \in Person, g \in Grant : /\ Aside(doc, WithAssignment(doc, p, g))
                                             /\ Aside(doc, WithoutAssignment(doc, p, g))
           /\ \A v \in Provider, g \in Grant : /\ Aside(doc, WithRoleMapping(doc, v, g))
                                               /\ Aside(doc, WithoutRoleMapping(doc, v, g))
<1>1. doc \in Document
  BY DEF SoundDocument
<1>2. ASSUME NEW v \in Provider, NEW record \in ProviderRecord PROVE Aside(doc, WithProvider(doc, v, record))
  BY <1>1 DEF Aside, WithProvider, Document
<1>3. ASSUME NEW v \in Provider PROVE Aside(doc, WithoutProvider(doc, v))
  BY <1>1 DEF Aside, WithoutProvider, Document
<1>4. ASSUME NEW p \in Person, NEW g \in Grant
      PROVE  Aside(doc, WithAssignment(doc, p, g)) /\ Aside(doc, WithoutAssignment(doc, p, g))
  BY <1>1 DEF Aside, WithAssignment, WithoutAssignment, Document
<1>5. ASSUME NEW v \in Provider, NEW g \in Grant
      PROVE  Aside(doc, WithRoleMapping(doc, v, g)) /\ Aside(doc, WithoutRoleMapping(doc, v, g))
  BY <1>1 DEF Aside, WithRoleMapping, WithoutRoleMapping, Document
<1> QED
  BY <1>2, <1>3, <1>4, <1>5

LEMMA AsideKeepsSpent ==
    ASSUME AccessInv, SpentInv, NEW r \in Repo, NEW doc, SoundDocument(doc), Write(r, doc),
           Aside(View(r), doc), told' = told, spent' = spent, reverted' = reverted
    PROVE  SpentInv'
BY FollowingKeepsSpent DEF Aside, Follows

LEMMA SpentStep ==
    ASSUME AccessInv, SpentInv, Next PROVE SpentInv'
<1> USE DEF AccessInv
<1>1. \A r \in Repo : SoundDocument(View(r))
  BY ViewIsSound
<1>a. SoundDocument(View("auth")) /\ SoundDocument(View("rbac"))
  BY <1>1 DEF Repo
<1>2. CASE SessionNext
  <2>1. ASSUME NEW c \in Call, NEW s \in Session, LocalLogin(c, s) PROVE SpentInv'
    <3> DEFINE doc == WithSession(View("auth"), s, Admin)
    <3>1. SoundDocument(doc) /\ Follows(View("auth"), doc)
      BY <1>a, <2>1, SessionKeepsSound, OperationsFollow, AccessAssumption DEF LocalLogin, NewSession
    <3>2. Write("auth", doc) /\ UNCHANGED <<told, spent, reverted>>
      BY <2>1 DEF LocalLogin, callVars
    <3> HIDE DEF doc
    <3> QED
      BY <3>1, <3>2, FollowingKeepsSpent DEF Repo
  <2>2. ASSUME NEW c \in Call, NEW s \in Session, Refresh(c, s) PROVE SpentInv'
    BY <2>2, QuietKeepsSpent DEF Refresh, authVars, callVars
  <2>3. ASSUME NEW c \in Call, NEW s \in Session, Logout(c, s) PROVE SpentInv'
    <3>1. CASE View("auth").sessions[s] = None
      <4>1. /\ UNCHANGED <<file, copy, told, reverted>>
            /\ s \in told /\ spent' = spent \cup {s}
        BY <2>3, <3>1 DEF Logout, authVars
      <4>2. Follows(View("auth"), View("auth")) /\ s \notin Transaction
        BY <1>a, OperationsFollow, AccessAssumption
      <4> QED
        BY <1>a, <3>1, <4>1, <4>2, SpendingKeepsSpent
    <3>2. CASE View("auth").sessions[s] # None
      <4> DEFINE doc == WithoutSession(View("auth"), s)
      <4>1. /\ Write("auth", doc) /\ UNCHANGED <<told, reverted>>
            /\ s \in told /\ spent' = spent \cup {s}
        BY <2>3, <3>2 DEF Logout
      <4>2. SoundDocument(doc) /\ Follows(View("auth"), doc) /\ s \notin Transaction
        BY <1>a, LogoutKeepsSound, OperationsFollow, AccessAssumption
      <4>3. doc.sessions[s] = None
        BY <1>a DEF WithoutSession, SoundDocument, Document
      <4> HIDE DEF doc
      <4> QED
        BY <4>1, <4>2, <4>3, SpendingKeepsSpent
    <3> QED
      BY <3>1, <3>2
  <2>4. ASSUME NEW c \in Call, Refreshed(c) PROVE SpentInv'
    <3>1. CASE Write("auth", View("auth"))
      BY <1>a, <2>4, <3>1, FollowingKeepsSpent, OperationsFollow DEF Refreshed, callVars, Repo
    <3>2. CASE UNCHANGED authVars
      BY <2>4, <3>2, QuietKeepsSpent DEF Refreshed, authVars, callVars
    <3> QED
      BY <2>4, <3>1, <3>2 DEF Refreshed
  <2>5. ASSUME NEW c \in Call, Issue(c) PROVE SpentInv'
    BY <1>a, <2>5, FollowingKeepsSpent, OperationsFollow DEF Issue, callVars, Repo
  <2> QED
    BY <1>2, <2>1, <2>2, <2>3, <2>4, <2>5 DEF SessionNext
<1>3. CASE ProviderNext \/ RbacNext
  <2>1. ASSUME NEW c \in Call, NEW v \in Provider, NEW record \in ProviderRecord, SaveProvider(c, v, record)
        PROVE  SpentInv'
    BY <1>a, <2>1, AsideKeepsSpent, ProviderKeepsSound, OperationsAside DEF SaveProvider, callVars, Repo
  <2>2. ASSUME NEW c \in Call, NEW v \in Provider, DeleteProvider(c, v) PROVE SpentInv'
    BY <1>a, <2>2, AsideKeepsSpent, ProviderGoneKeepsSound, OperationsAside
    DEF DeleteProvider, callVars, Repo
  <2>3. ASSUME NEW c \in Call, NEW p \in Person, NEW g \in Grant, Assign(c, p, g) \/ Unassign(c, p, g)
        PROVE  SpentInv'
    BY <1>a, <2>3, AsideKeepsSpent, AssignmentKeepsSound, OperationsAside
    DEF Assign, Unassign, callVars, Repo
  <2>4. ASSUME NEW c \in Call, NEW v \in Provider, NEW g \in Grant, MapRole(c, v, g) \/ UnmapRole(c, v, g)
        PROVE  SpentInv'
    BY <1>a, <2>4, AsideKeepsSpent, RoleMappingKeepsSound, OperationsAside
    DEF MapRole, UnmapRole, callVars, Repo
  <2> QED
    BY <1>3, <2>1, <2>2, <2>3, <2>4 DEF ProviderNext, RbacNext
<1>4. CASE ExternalNext
  <2>1. ASSUME NEW c \in Call, NEW v \in Provider, LdapLogin(c, v) \/ OidcStart(c, v) PROVE SpentInv'
    BY <2>1, QuietKeepsSpent DEF LdapLogin, OidcStart, authVars, callVars
  <2>2. ASSUME NEW c \in Call, NEW v \in Provider, NEW t \in Transaction, SamlStart(c, v, t) PROVE SpentInv'
    <3> DEFINE doc == WithTransaction(View("auth"), t, v, "saml")
    <3>1. SoundDocument(doc) /\ Follows(View("auth"), doc)
      BY <1>a, <2>2, TransactionKeepsSound, OperationsFollow DEF SamlStart, NewTransaction
    <3>2. Write("auth", doc) /\ UNCHANGED <<told, spent, reverted>>
      BY <2>2 DEF SamlStart, callVars
    <3> HIDE DEF doc
    <3> QED
      BY <3>1, <3>2, FollowingKeepsSpent DEF Repo
  <2>3. ASSUME NEW c \in Call, NEW t \in Transaction, OidcStarted(c, t) PROVE SpentInv'
    <3> DEFINE doc == WithTransaction(View("auth"), t, call[c].provider, "oidc")
    <3>1. call[c].provider \in Provider
      BY <2>3 DEF OidcStarted, Calls, Placed
    <3>2. SoundDocument(doc) /\ Follows(View("auth"), doc)
      BY <1>a, <2>3, <3>1, TransactionKeepsSound, OperationsFollow DEF OidcStarted, NewTransaction
    <3>3. Write("auth", doc) /\ told \subseteq told' /\ UNCHANGED <<spent, reverted>>
      BY <2>3 DEF OidcStarted
    <3> HIDE DEF doc
    <3> QED
      BY <3>2, <3>3, FollowingKeepsSpent DEF Repo
  <2>4. ASSUME NEW c \in Call, NEW t \in Transaction, Callback(c, t) PROVE SpentInv'
    <3> DEFINE doc == WithoutTransaction(View("auth"), t)
    <3>1. /\ Write("auth", doc) /\ UNCHANGED <<told, reverted>>
          /\ t \in told /\ spent' = spent \cup {t}
      BY <2>4 DEF Callback
    <3>2. SoundDocument(doc) /\ Follows(View("auth"), doc) /\ t \notin Session
      BY <1>a, WithoutTransactionKeepsSound, OperationsFollow, AccessAssumption
    <3>3. doc.transactions[t] = None
      BY <1>a DEF WithoutTransaction, SoundDocument, Document
    <3> HIDE DEF doc
    <3> QED
      BY <3>1, <3>2, <3>3, SpendingKeepsSpent
  <2>5. ASSUME NEW c \in Call, NEW s \in Session, NEW p \in Person, NEW G \in SUBSET Grant,
               Enter(c, s, p, G)
        PROVE  SpentInv'
    <3> DEFINE mapped == MapExternalIdentity(View("auth"), call[c].provider, p, G)
               doc == WithSession(mapped, s, p)
    <3>1. call[c].provider \in Provider /\ View("auth").providers[call[c].provider] # None
      BY <2>5 DEF Enter, StillProvided, Calls, Placed
    <3>2. SoundDocument(mapped) /\ mapped.users[p] # None /\ Aside(View("auth"), mapped)
      BY <1>a, <3>1, MappingKeepsSound DEF Aside
    <3>3. s \notin told /\ Write("auth", doc) /\ UNCHANGED <<told, spent, reverted>>
      BY <2>5 DEF Enter, NewSession, callVars
    <3> HIDE DEF mapped
    <3>4. SoundDocument(doc) /\ Follows(mapped, doc)
      BY <3>2, <3>3, SessionKeepsSound, OperationsFollow
    <3> HIDE DEF doc
    <3>5. Follows(View("auth"), doc)
      BY <3>2, <3>4 DEF Aside, Follows
    <3> QED
      BY <3>3, <3>4, <3>5, FollowingKeepsSpent DEF Repo
  <2>6. ASSUME NEW c \in Call, NEW p \in Person, Refused(c, p) PROVE SpentInv'
    <3>1. UNCHANGED <<told, spent, reverted>>
      BY <2>6 DEF Refused, callVars
    <3>2. CASE UNCHANGED authVars
      BY <3>1, <3>2, QuietKeepsSpent DEF authVars
    <3>3. CASE Write("auth", WithPerson(View("auth"), p)) \/ Write("auth", View("auth"))
      BY <1>a, <3>1, <3>3, PersonKeepsSound, AsideKeepsSpent DEF Aside, Repo
    <3> QED
      BY <2>6, <3>2, <3>3 DEF Refused
  <2>7. ASSUME NEW c \in Call, SamlStarted(c) PROVE SpentInv'
    BY <2>7, QuietKeepsSpent DEF SamlStarted, authVars
  <2> QED
    BY <1>4, <2>1, <2>2, <2>3, <2>4, <2>5, <2>6, <2>7 DEF ExternalNext
<1>5. CASE CacheNext
  BY <1>5, QuietKeepsSpent DEF CacheNext, Lookup, Resolve, Store, Evict, authVars
<1>6. CASE ServerNext
  <2>1. ASSUME NEW c \in Call, Scan(c) \/ Delete(c) PROVE SpentInv'
    BY <2>1, QuietKeepsSpent DEF Scan, Delete, authVars
  <2>2. ASSUME NEW r \in Repo, FirstRead(r) PROVE SpentInv'
    <3>1. SoleCopy' /\ View("auth")' = View("auth")
      BY <2>2, ReadViews DEF SpentInv, Repo
    <3>2. UNCHANGED <<told, spent, reverted>>
      BY <2>2 DEF FirstRead
    <3> QED
      BY <3>1, <3>2 DEF SpentInv, SpentStaysSpent
  <2>3. ASSUME Log PROVE SpentInv'
    BY <1>a, <2>3, FollowingKeepsSpent, OperationsFollow DEF Log, callVars, Repo
  <2>4. ASSUME Crash PROVE SpentInv'
    <3>1. /\ \A r \in Repo : copy'[r] = None
          /\ UNCHANGED <<told, spent>>
          /\ ~ reverted' => ~ reverted /\ file' = View("auth")
      BY <2>4 DEF Crash
    <3>2. SoleCopy'
      BY <3>1 DEF SoleCopy
    <3>3. ASSUME ~ reverted' PROVE View("auth")' = View("auth") /\ ~ reverted
      <4>1. View("auth") # None
        BY <1>a, NoneIsNothing DEF SoundDocument
      <4> QED
        BY <3>1, <3>3, <4>1 DEF View, OnFile, Repo
    <3> QED
      BY <3>1, <3>2, <3>3 DEF SpentInv, SpentStaysSpent
  <2> QED
    BY <1>6, <2>1, <2>2, <2>3, <2>4 DEF ServerNext
<1> QED
  BY <1>2, <1>3, <1>4, <1>5, <1>6 DEF Next

LEMMA SpentInvariant == Spec => [](AccessInv /\ SpentInv)
<1>1. Init => SpentInv
  BY DEF Init, SpentInv, SoleCopy, SpentStaysSpent
<1>2. AccessInv /\ SpentInv /\ [Next]_vars => SpentInv'
  <2>1. CASE UNCHANGED vars
    BY <2>1, QuietKeepsSpent DEF vars
  <2> QED
    BY <2>1, SpentStep
<1> QED
  BY <1>1, <1>2, AccessInvariant, PTL DEF Spec

(* A redeemed transaction and a session that was logged out never come back *)
(* into the document the auth handlers work on, whatever overlaps, until a  *)
(* restart loads what the other repository wrote.                           *)
THEOREM SpentTheorem == Spec => []SpentStaysSpent
<1>1. SpentInv => SpentStaysSpent
  BY DEF SpentInv
<1> QED
  BY <1>1, SpentInvariant, PTL

-----------------------------------------------------------------------------
(* The cached identities.  While a call has still to scan, every entry and  *)
(* every fill will be seen; afterwards what is in the cache and what is     *)
(* about to be stored is what a repository says.                            *)

Announced == \E c \in Call : call[c].at \in {"issuing", "scanning"}

Current(s, value) == \E r \in Repo : value = IdentityOf(View(r), s)

FillsCurrent ==
    \A q \in Reader :
        reader[q].at = "storing" /\ ~ reader[q].overtaken /\ reader[q].value # None
        => Announced \/ Current(reader[q].session, reader[q].value)

CacheInv == CachedIdentityIsCurrent /\ FillsCurrent

LEMMA AnnouncedSuffices == Announced => CacheInv
BY DEF Announced, CacheInv, CachedIdentityIsCurrent, Pending, FillsCurrent

LEMMA AnnouncingStep ==
    ASSUME AccessInv, NEW c \in Call, NEW next, To(c, next), next.at \in {"issuing", "scanning"}
    PROVE  CacheInv'
<1>1. Announced'
  BY DEF AccessInv, Calls, To, Announced
<1> QED
  BY <1>1, AnnouncedSuffices, PTL

(* A step that changes no identity and no call that has to invalidate. *)
SameIdentities ==
    \A r \in Repo : /\ View(r)'.sessions = View(r).sessions
                    /\ View(r)'.assignments = View(r).assignments

SameInvalidations ==
    \A c \in Call : call[c].at \in {"issuing", "scanning", "deleting"} => call'[c] = call[c]

LEMMA EntryKept ==
    ASSUME CacheInv, SameIdentities, SameInvalidations,
           NEW s \in Session, cache[s] # None, s \notin excused
    PROVE  Pending(s)' \/ \E r \in Repo : cache[s] = IdentityOf(View(r)', s)
<1>1. \A r \in Repo : IdentityOf(View(r)', s) = IdentityOf(View(r), s)
  BY DEF SameIdentities, IdentityOf
<1>2. Pending(s) => Pending(s)'
  BY DEF Pending, SameInvalidations
<1> QED
  BY <1>1, <1>2 DEF CacheInv, CachedIdentityIsCurrent

LEMMA FillKept ==
    ASSUME CacheInv, SameIdentities, SameInvalidations,
           NEW q \in Reader, reader[q].at = "storing", ~ reader[q].overtaken, reader[q].value # None
    PROVE  \/ Announced'
           \/ \E r \in Repo : reader[q].value = IdentityOf(View(r)', reader[q].session)
<1>1. \A r \in Repo : \A s : IdentityOf(View(r)', s) = IdentityOf(View(r), s)
  BY DEF SameIdentities, IdentityOf
<1>2. Announced => Announced'
  BY DEF Announced, SameInvalidations
<1>3. Announced \/ Current(reader[q].session, reader[q].value)
  BY DEF CacheInv, FillsCurrent
<1> QED
  BY <1>1, <1>2, <1>3 DEF Current

LEMMA QuietKeepsCache ==
    ASSUME CacheInv, SameIdentities, SameInvalidations, UNCHANGED <<reader, cache, excused>>
    PROVE  CacheInv'
<1>1. CachedIdentityIsCurrent'
  BY EntryKept DEF CachedIdentityIsCurrent
<1>2. FillsCurrent'
  BY FillKept DEF FillsCurrent, Current
<1> QED
  BY <1>1, <1>2 DEF CacheInv

LEMMA SameViews ==
    ASSUME UNCHANGED authVars PROVE SameIdentities
BY DEF SameIdentities, View, OnFile, Fresh, authVars

LEMMA WriteKeepsIdentities ==
    ASSUME AccessInv, SoleCopy, NEW r \in Repo, NEW doc, SoundDocument(doc), Write(r, doc),
           doc.sessions = View(r).sessions, doc.assignments = View(r).assignments
    PROVE  SameIdentities
<1>1. \A q \in Repo : (View(q)' = doc /\ View(q) = View(r)) \/ View(q)' = View(q)
  BY WriteViews DEF AccessInv
<1> QED
  BY <1>1 DEF SameIdentities

LEMMA OtherCallsKept ==
    ASSUME AccessInv, NEW c \in Call, NEW next, To(c, next),
           call[c].at \notin {"issuing", "scanning", "deleting"}
    PROVE  SameInvalidations
BY DEF AccessInv, Calls, To, SameInvalidations

LEMMA TransactionsAside ==
    ASSUME NEW doc, SoundDocument(doc), NEW t \in Transaction
    PROVE  /\ WithoutTransaction(doc, t).sessions = doc.sessions
           /\ WithoutTransaction(doc, t).assignments = doc.assignments
           /\ \A v, kind : /\ WithTransaction(doc, t, v, kind).sessions = doc.sessions
                           /\ WithTransaction(doc, t, v, kind).assignments = doc.assignments
BY DEF WithoutTransaction, WithTransaction, SoundDocument, Document

LEMMA CallsKeepCache ==
    ASSUME AccessInv, SpentInv, CacheInv, SessionNext \/ ProviderNext \/ RbacNext PROVE CacheInv'
<1>1. ASSUME NEW c \in Call, NEW s \in Session, LocalLogin(c, s) \/ Logout(c, s) PROVE CacheInv'
  BY <1>1, AnnouncingStep DEF LocalLogin, Logout, Doing, Invalidating
<1>2. ASSUME NEW c \in Call, NEW s \in Session, Refresh(c, s) PROVE CacheInv'
  BY <1>2, SameViews, OtherCallsKept, QuietKeepsCache DEF Refresh, callVars
<1>3. ASSUME NEW c \in Call, Refreshed(c) PROVE CacheInv'
  <2>1. CASE To(c, Doing("issuing", None, call[c].subject))
    BY <2>1, AnnouncingStep DEF Doing
  <2>2. CASE To(c, Idle) /\ UNCHANGED authVars
    BY <1>3, <2>2, SameViews, OtherCallsKept, QuietKeepsCache DEF Refreshed, callVars
  <2> QED
    BY <1>3, <2>1, <2>2 DEF Refreshed
<1>4. ASSUME NEW c \in Call, Issue(c) PROVE CacheInv'
  BY <1>4, AnnouncingStep DEF Issue, Doing
<1>5. ASSUME NEW c \in Call, NEW v \in Provider,
             DeleteProvider(c, v) \/ \E record \in ProviderRecord : SaveProvider(c, v, record)
      PROVE  CacheInv'
  BY <1>5, AnnouncingStep DEF SaveProvider, DeleteProvider, Doing, Invalidating
<1>6. ASSUME NEW c \in Call, NEW g \in Grant,
             \/ \E p \in Person : Assign(c, p, g) \/ Unassign(c, p, g)
             \/ \E v \in Provider : MapRole(c, v, g) \/ UnmapRole(c, v, g)
      PROVE  CacheInv'
  BY <1>6, AnnouncingStep DEF Assign, Unassign, MapRole, UnmapRole, Doing, Invalidating
<1> QED
  BY <1>1, <1>2, <1>3, <1>4, <1>5, <1>6 DEF SessionNext, ProviderNext, RbacNext

LEMMA LoginsKeepCache ==
    ASSUME AccessInv, SpentInv, CacheInv, ExternalNext PROVE CacheInv'
<1>0. SoundDocument(View("auth")) /\ SoleCopy
  BY ViewIsSound DEF AccessInv, SpentInv, Repo
<1>1. ASSUME NEW c \in Call, NEW v \in Provider, LdapLogin(c, v) \/ OidcStart(c, v) PROVE CacheInv'
  BY <1>1, SameViews, OtherCallsKept, QuietKeepsCache DEF LdapLogin, OidcStart, callVars
<1>2. ASSUME NEW c \in Call, NEW v \in Provider, NEW t \in Transaction, SamlStart(c, v, t)
      PROVE  CacheInv'
  <2>1. SameIdentities
    <3> DEFINE doc == WithTransaction(View("auth"), t, v, "saml")
    <3>1. SoundDocument(doc) /\ doc.sessions = View("auth").sessions
          /\ doc.assignments = View("auth").assignments
      BY <1>0, TransactionKeepsSound, TransactionsAside
    <3>2. Write("auth", doc)
      BY <1>2 DEF SamlStart
    <3> HIDE DEF doc
    <3> QED
      BY <1>0, <3>1, <3>2, WriteKeepsIdentities DEF Repo
  <2> QED
    BY <1>2, <2>1, OtherCallsKept, QuietKeepsCache DEF SamlStart, callVars
<1>3. ASSUME NEW c \in Call, NEW t \in Transaction, OidcStarted(c, t) PROVE CacheInv'
  <2>1. SameIdentities
    <3> DEFINE doc == WithTransaction(View("auth"), t, call[c].provider, "oidc")
    <3>0. call[c].provider \in Provider
      BY <1>3 DEF OidcStarted, AccessInv, Calls, Placed
    <3>1. SoundDocument(doc) /\ doc.sessions = View("auth").sessions
          /\ doc.assignments = View("auth").assignments
      BY <1>0, <3>0, TransactionKeepsSound, TransactionsAside
    <3>2. Write("auth", doc)
      BY <1>3 DEF OidcStarted
    <3> HIDE DEF doc
    <3> QED
      BY <1>0, <3>1, <3>2, WriteKeepsIdentities DEF Repo
  <2> QED
    BY <1>3, <2>1, OtherCallsKept, QuietKeepsCache DEF OidcStarted
<1>4. ASSUME NEW c \in Call, NEW t \in Transaction, Callback(c, t) PROVE CacheInv'
  <2>1. SameIdentities
    <3> DEFINE doc == WithoutTransaction(View("auth"), t)
    <3>1. SoundDocument(doc) /\ doc.sessions = View("auth").sessions
          /\ doc.assignments = View("auth").assignments
      BY <1>0, WithoutTransactionKeepsSound, TransactionsAside
    <3>2. Write("auth", doc)
      BY <1>4 DEF Callback
    <3> HIDE DEF doc
    <3> QED
      BY <1>0, <3>1, <3>2, WriteKeepsIdentities DEF Repo
  <2>2. SameInvalidations
    BY <1>4, OtherCallsKept DEF Callback
  <2> QED
    BY <1>4, <2>1, <2>2, QuietKeepsCache DEF Callback
<1>5. ASSUME NEW c \in Call, NEW s \in Session, NEW p \in Person, NEW G \in SUBSET Grant,
             Enter(c, s, p, G)
      PROVE  CacheInv'
  BY <1>5, AnnouncingStep DEF Enter, Doing
<1>6. ASSUME NEW c \in Call, NEW p \in Person, Refused(c, p) PROVE CacheInv'
  <2>1. SameIdentities
    <3>1. CASE UNCHANGED authVars
      BY <3>1, SameViews
    <3>2. CASE Write("auth", WithPerson(View("auth"), p))
      BY <1>0, <3>2, PersonKeepsSound, WriteKeepsIdentities DEF Repo
    <3>3. CASE Write("auth", View("auth"))
      BY <1>0, <3>3, WriteKeepsIdentities DEF Repo
    <3> QED
      BY <1>6, <3>1, <3>2, <3>3 DEF Refused
  <2> QED
    BY <1>6, <2>1, OtherCallsKept, QuietKeepsCache DEF Refused, callVars
<1>7. ASSUME NEW c \in Call, SamlStarted(c) PROVE CacheInv'
  BY <1>7, SameViews, OtherCallsKept, QuietKeepsCache DEF SamlStarted
<1> QED
  BY <1>1, <1>2, <1>3, <1>4, <1>5, <1>6, <1>7 DEF ExternalNext

(* The cache's own steps change no view, so what was current stays so.      *)
LEMMA ReadersKeepCache ==
    ASSUME AccessInv, CacheInv, CacheNext PROVE CacheInv'
<1> USE DEF AccessInv
<1>1. UNCHANGED authVars /\ call' = call
  BY DEF CacheNext, Lookup, Resolve, Store, Evict, authVars
<1>2. SameIdentities /\ SameInvalidations
  BY <1>1, SameViews DEF SameInvalidations
<1>3. ASSUME NEW q \in Reader, NEW r \in Repo, NEW s \in Session, Lookup(q, r, s) PROVE CacheInv'
  <2>1. /\ UNCHANGED <<cache, excused>>
        /\ reader'[q].at = "loading"
        /\ \A z \in Reader : z # q => reader'[z] = reader[z]
    BY <1>3 DEF Lookup, Readers
  <2>2. CachedIdentityIsCurrent'
    BY <1>2, <2>1, EntryKept DEF CachedIdentityIsCurrent
  <2>3. FillsCurrent'
    BY <1>2, <2>1, FillKept DEF FillsCurrent, Current
  <2> QED
    BY <2>2, <2>3 DEF CacheInv
<1>4. ASSUME NEW q \in Reader, Resolve(q) PROVE CacheInv'
  <2>1. PICK s \in Session, r \in Repo : reader[q].session = s /\ reader[q].repo = r
    BY <1>4 DEF Resolve, Readers, ReaderRecord
  <2>2. UNCHANGED <<authVars, cache, excused>>
    BY <1>4 DEF Resolve
  <2>3. PICK value \in {None, IdentityOf(View(r), s)} :
            reader' = [reader EXCEPT ![q].at = "storing", ![q].value = value]
    BY <1>4, <2>1 DEF Resolve
  <2>4. /\ reader'[q].session = s /\ reader'[q].value = value
        /\ \A z \in Reader : z # q => reader'[z] = reader[z]
    BY <2>1, <2>3 DEF Readers, ReaderRecord
  <2>5. value # None => value = IdentityOf(View(r)', s)
    <3>1. View(r)' = View(r)
      BY <2>2 DEF View, OnFile, Fresh, authVars
    <3> QED
      BY <2>3, <3>1
  <2>6. CachedIdentityIsCurrent'
    BY <1>2, <2>2, EntryKept DEF CachedIdentityIsCurrent
  <2>7. FillsCurrent'
    BY <1>2, <2>4, <2>5, FillKept DEF FillsCurrent, Current
  <2> QED
    BY <2>6, <2>7 DEF CacheInv
<1>5. ASSUME NEW q \in Reader, Store(q) PROVE CacheInv'
  <2>1. PICK s \in Session : s = reader[q].session
    BY <1>5 DEF Store, Readers
  <2>2. /\ cache'[s] = reader[q].value
        /\ \A z \in Session : z # s => cache'[z] = cache[z]
    BY <1>5, <2>1 DEF Store, History
  <2>3. excused' = IF reader[q].overtaken THEN excused \cup {s} ELSE excused \ {s}
    BY <1>5, <2>1 DEF Store
  <2>4. /\ reader'[q].at = "idle"
        /\ \A z \in Reader : z # q => reader'[z] = reader[z]
    BY <1>5 DEF Store, Readers, IdleReader
  <2>5. ASSUME cache'[s] # None, s \notin excused'
        PROVE  Pending(s)' \/ \E r \in Repo : cache'[s] = IdentityOf(View(r)', s)
    <3>1. \/ Announced'
          \/ \E r \in Repo : reader[q].value = IdentityOf(View(r)', s)
      BY <1>2, <1>5, <2>1, <2>2, <2>3, <2>5, FillKept DEF Store
    <3>2. Announced' => Pending(s)'
      BY DEF Announced, Pending
    <3> QED
      BY <2>2, <3>1, <3>2
  <2>6. CachedIdentityIsCurrent'
    <3>1. ASSUME NEW z \in Session, z # s, cache'[z] # None, z \notin excused'
          PROVE  Pending(z)' \/ \E r \in Repo : cache'[z] = IdentityOf(View(r)', z)
      BY <1>2, <2>2, <2>3, <3>1, EntryKept
    <3> QED
      BY <2>5, <3>1 DEF CachedIdentityIsCurrent
  <2>7. FillsCurrent'
    BY <1>2, <2>4, FillKept DEF FillsCurrent, Current
  <2> QED
    BY <2>6, <2>7 DEF CacheInv
<1>6. ASSUME NEW s \in Session, Evict(s) PROVE CacheInv'
  <2>1. /\ cache'[s] = None /\ excused' = excused \ {s} /\ reader' = reader
        /\ \A z \in Session : z # s => cache'[z] = cache[z]
    BY <1>6 DEF Evict, History
  <2>2. CachedIdentityIsCurrent'
    BY <1>2, <2>1, EntryKept DEF CachedIdentityIsCurrent
  <2>3. FillsCurrent'
    BY <1>2, <2>1, FillKept DEF FillsCurrent, Current
  <2> QED
    BY <2>2, <2>3 DEF CacheInv
<1> QED
  BY <1>3, <1>4, <1>5, <1>6 DEF CacheNext

LEMMA ServerKeepsCache ==
    ASSUME AccessInv, SpentInv, CacheInv, ServerNext PROVE CacheInv'
<1> USE DEF AccessInv
<1>1. ASSUME NEW c \in Call, Scan(c) PROVE CacheInv'
  <2> DEFINE found == {s \in Session : cache[s] # None}
  <2>1. call'[c].at = "deleting" /\ call'[c].found = found /\ cache' = cache
    BY <1>1 DEF Scan, To, Calls, CallRecord
  <2>2. \A q \in Reader : reader'[q].at = "storing" => reader'[q].overtaken
    BY <1>1 DEF Scan, Readers, ReaderRecord
  <2>3. CachedIdentityIsCurrent'
    BY <2>1 DEF CachedIdentityIsCurrent, Pending
  <2> QED
    BY <2>2, <2>3 DEF CacheInv, FillsCurrent
<1>2. ASSUME NEW c \in Call, Delete(c) PROVE CacheInv'
  <2> DEFINE found == call[c].found
  <2>1. SameIdentities
    BY <1>2, SameViews DEF Delete
  <2>2. /\ \A d \in Call : d # c => call'[d] = call[d]
        /\ call[c].at = "deleting"
        /\ \A s \in Session : cache'[s] = IF s \in found THEN None ELSE cache[s]
        /\ excused' = excused \ found /\ reader' = reader
    BY <1>2 DEF Delete, To, Calls
  <2>3. \A r \in Repo : \A s : IdentityOf(View(r)', s) = IdentityOf(View(r), s)
    BY <2>1 DEF SameIdentities, IdentityOf
  <2>4. ASSUME NEW s \in Session, cache'[s] # None, s \notin excused'
        PROVE  Pending(s)' \/ \E r \in Repo : cache'[s] = IdentityOf(View(r)', s)
    <3>1. s \notin found /\ cache'[s] = cache[s] /\ s \notin excused
      BY <2>2, <2>4
    <3>2. Pending(s) => Pending(s)'
      BY <2>2, <3>1 DEF Pending
    <3> QED
      BY <2>3, <2>4, <3>1, <3>2 DEF CacheInv, CachedIdentityIsCurrent
  <2>5. CachedIdentityIsCurrent'
    BY <2>4 DEF CachedIdentityIsCurrent
  <2>6. Announced => Announced'
    BY <2>2 DEF Announced
  <2>7. FillsCurrent'
    BY <2>2, <2>3, <2>6 DEF CacheInv, FillsCurrent, Current
  <2> QED
    BY <2>5, <2>7 DEF CacheInv
<1>3. ASSUME NEW r \in Repo, FirstRead(r) PROVE CacheInv'
  <2>1. SameIdentities
    BY <1>3, ReadViews DEF SpentInv, SameIdentities
  <2> QED
    BY <1>3, <2>1, QuietKeepsCache DEF FirstRead, SameInvalidations
<1>4. ASSUME Log PROVE CacheInv'
  <2>1. SameIdentities
    BY <1>4, ViewIsSound, WriteKeepsIdentities DEF Log, SpentInv, Repo
  <2> QED
    BY <1>4, <2>1, QuietKeepsCache DEF Log, callVars, SameInvalidations
<1>5. ASSUME Crash PROVE CacheInv'
  BY <1>5 DEF Crash, IdleReader, CacheInv, CachedIdentityIsCurrent, FillsCurrent
<1> QED
  BY <1>1, <1>2, <1>3, <1>4, <1>5 DEF ServerNext

(* An identity in the cache is one a repository would give, or a call that  *)
(* will delete it is under way: every change of an identity is followed by  *)
(* a scan, and a fill that the scan cannot see is marked by it.             *)
THEOREM CachedIdentityTheorem == Spec => []CachedIdentityIsCurrent
<1>1. Init => CacheInv
  BY DEF Init, IdleReader, CacheInv, CachedIdentityIsCurrent, FillsCurrent
<1>2. AccessInv /\ SpentInv /\ CacheInv /\ [Next]_vars => CacheInv'
  <2>1. CASE UNCHANGED vars
    BY <2>1, SameViews, QuietKeepsCache DEF vars, authVars, SameInvalidations
  <2> QED
    BY <2>1, CallsKeepCache, LoginsKeepCache, ReadersKeepCache, ServerKeepsCache DEF Next
<1>3. CacheInv => CachedIdentityIsCurrent
  BY DEF CacheInv
<1> QED
  BY <1>1, <1>2, <1>3, SpentInvariant, PTL DEF Spec
=============================================================================
