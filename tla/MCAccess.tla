------------------------------ MODULE MCAccess ------------------------------
(* A behaviour exercises one part: open sessions; roles and the identities  *)
(* that are cached; the providers; or the logins through one of them.       *)
EXTENDS Access, Integers, TLC

CONSTANTS admin, guest, local, directory, role1, global, site, s1, s2

VARIABLE part   \* bound: the part that changes

mcVars == <<vars, part>>

Parts == {"sessions", "identities", "providers", "logins"}

Everywhere == [role |-> role1, scope |-> global]
AtSite == [role |-> role1, scope |-> site]

(* A directory whose users get a role at one site. *)
Directory(kind) ==
    [Fresh EXCEPT !.providers[directory] = [kind |-> kind, enabled |-> TRUE, default |-> FALSE],
                  !.roleMappings = {<<directory, AtSite>>}]

Installed == {Fresh} \cup {Directory(kind) : kind \in {"ldap", "oidc", "saml"}}

MCInit == Init /\ part \in Parts /\ (part = "logins" <=> file # Fresh)

(* bound: calls open at once, where their providers change *)
OneCall == Cardinality({c \in Call : call'[c].at # "idle"}) <= 1

OneSession == \A c \in Call : call'[c].subject \in {None, s1}

(* bound: what providers are saved as, where nobody logs in through them *)
Plain == {record \in ProviderRecord : record.enabled /\ record.kind \in {"local", "ldap"}}

MCNext ==
    /\ \/ part = "sessions" /\ SessionNext
       \/ /\ part = "identities"
          /\ \/ SessionNext
             \/ CacheNext
             \/ \E c \in Call, g \in Grant : Assign(c, admin, g) \/ Unassign(c, admin, g)
          /\ OneSession
       \/ /\ part = "providers"
          /\ \/ \E c \in Call, v \in Provider, record \in Plain : SaveProvider(c, v, record)
             \/ \E c \in Call, v \in Provider : DeleteProvider(c, v)
             \/ \E c \in Call : MapRole(c, directory, AtSite) \/ UnmapRole(c, directory, AtSite)
          /\ OneCall
       \/ /\ part = "logins"
          /\ \/ ExternalNext
             \/ \E c \in Call : DeleteProvider(c, directory) \/ Issue(c)
       \/ ServerNext
    /\ UNCHANGED part

MCSpec == MCInit /\ [][MCNext]_mcVars

Symmetry == Permutations(Call) \cup Permutations(Transaction)
=============================================================================
