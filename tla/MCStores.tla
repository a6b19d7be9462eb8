------------------------------ MODULE MCStores ------------------------------
(* A behaviour exercises one part: backups, uploads, imports, reads of the  *)
(* inventory, or the client's pages, its tree or graph, the utilization, a  *)
(* trace.                                                                   *)
EXTENDS Stores, FiniteSets, TLC

VARIABLES part,   \* bound: the part that changes
          mishaps, \* bound: the writes, failures and ends that disturb backups
          topic   \* bound: what is asked and changes

DefaultData == [d \in Dataset |-> <<"x">>]

Rows == <<"p1", "p2", "p3">>
Groups == <<"red", "vrf-unscoped">>
Nodes == <<"n1", "n2", "n3">>
NodeAttributes ==
    [n1 |-> [site |-> "s1", role |-> "spine", vlans |-> {}],
     n2 |-> [site |-> "s1", role |-> "leaf", vlans |-> {"v1"}],
     n3 |-> [site |-> "s2", role |-> "leaf", vlans |-> {}]]

Along(from, to, kind) == [from |-> from, to |-> to, kind |-> kind]

Links ==
    {Along("a", "b", "cable"), Along("b", "c", "cable"), Along("c", "d", "cable"),
     Along("a", "c", "l2"), Along("b", "d", "l2"), Along("d", "b", "cable")}

(* The inventory of the reads: two sites of two tenants, a rack, devices on  *)
(* one of which there is an interface, prefixes and an address.             *)
Tenants == [resource |-> "tenants"]
SiteOf(tenant) == [resource |-> "sites", tenant |-> tenant]
DeviceAt(site, rack) == [resource |-> "devices", site |-> site, rack |-> rack]
PrefixUnder(parent) ==
    [resource |-> "prefixes", tenant |-> None, vrf |-> "vrf", parent |-> parent]
AddressIn(prefix, interface) ==
    [resource |-> "ip-addresses", vrf |-> None, prefix |-> prefix, interface |-> interface]

Started ==
    [home |-> Tenants, ops |-> Tenants, s1 |-> SiteOf("home"), s2 |-> SiteOf("ops"),
     r1 |-> [resource |-> "racks", site |-> "s1"], d1 |-> DeviceAt("s1", "r1"), d2 |-> None,
     if |-> [resource |-> "interfaces", device |-> "d1", addresses |-> {"a1"}],
     link |-> [resource |-> "connections", from |-> "d1", to |-> "d1", interfaces |-> {"if"}],
     vrf |-> [resource |-> "vrfs", tenant |-> "ops"],
     p1 |-> PrefixUnder(None), p2 |-> PrefixUnder("p1"), a1 |-> AddressIn("p2", "if")]

Changing ==
    [s1 |-> {SiteOf("home"), SiteOf("ops")},
     d1 |-> {DeviceAt("s1", "r1"), DeviceAt("s2", None)},
     d2 |-> {DeviceAt("s2", None), None},
     p2 |-> {PrefixUnder("p1"), PrefixUnder(None)},
     a1 |-> {AddressIn("p2", "if"), AddressIn("p1", None), None}]

Searching(by, text, page) == [filter |-> by, text |-> text, page |-> page]
Plain == Searching(None, None, 1)

About(resource, id) == [kind |-> "detail", resource |-> resource, id |-> id]
Listing(resource, query) == [kind |-> "list", resource |-> resource, query |-> query]
Counts == [kind |-> "navigation", resource |-> "tenants", id |-> None]

(* bound: what changes and is asked in one behaviour *)
Topics ==
    {[ids |-> {"s1"}, asked |-> {About("sites", "s1")}],
     [ids |-> {"d1"}, asked |-> {About("devices", "d1")}],
     [ids |-> {"d1"}, asked |-> {Listing("devices", Searching("s1", None, 1))}],
     [ids |-> {"d2"}, asked |-> {Counts} \cup
         {Listing("devices", Searching(None, text, 1)) : text \in {"d.2", "d_2"}}],
     [ids |-> {"p2"}, asked |-> {Listing("prefixes", Searching(None, "vrf", 2))}],
     [ids |-> {"a1"}, asked |-> {Listing("ip-addresses", Plain)}]}

AllResources ==
    {"sites", "racks", "devices", "prefixes", "ip-addresses", "tenants", "users", "vrfs",
     "interfaces", "connections"}

Asked == UNION {t.asked : t \in Topics}
Queries == {question.query : question \in {a \in Asked : a.kind = "list"}}
PartOf == [query \in Queries |-> [query EXCEPT !.text = IF @ = "d.2" THEN "d_2" ELSE @]]
Spelt == [text \in {"d.2", "d_2", "vrf"} |-> IF text = "vrf" THEN {"vrf"}
                                            ELSE IF text = "d.2" THEN {"d2"} ELSE {}]
Saved ==
    [x \in DOMAIN Started |-> IF x \in DOMAIN Changing THEN Changing[x] ELSE {Started[x]}]

AllOf(actions) == AllResources \X actions

HoldsRole(role, type, scope) == [role |-> role, type |-> type, scope |-> scope]
RolesHeld ==
    [root |-> {HoldsRole("admin", "global", None)},
     local |-> {HoldsRole("owner", "site", "s1"), HoldsRole("owner", "tenant", "home"),
                HoldsRole("unknown", "global", None)}]
RolePermissions == [admin |-> AllOf({"read", "write", "delete"}), owner |-> AllOf({"read", "write"})]

Records == DOMAIN Started
ReadOrder ==
    <<"home", "ops", "s1", "s2", "r1", "d1", "d2", "if", "link", "vrf", "p1", "p2", "a1">>
Homes == [root |-> "ops", local |-> "home"]

Parts == {"backup", "media", "transfer", "pages", "tree", "graph", "utilization", "trace", "reads"}

-----------------------------------------------------------------------------
Ids == {"p1", "p2", "p3"}

(* What the prefixes are: for the tree, the deeper the longer; for the      *)
(* utilization, all are in one VRF, and of each family some are counted.    *)
Depth(parent, p) == IF parent[p] = None THEN 0 ELSE IF parent[parent[p]] = None THEN 1 ELSE 2

Block(family, length) == [family |-> family, length |-> length]

PrefixRow(block, parent, vrf, direct) ==
    [family |-> block.family, length |-> block.length, parent |-> parent, vrf |-> vrf,
     direct |-> direct]

Trees ==
    {[p \in Ids |-> PrefixRow(Block(4, <<11, 12, 31>>[Depth(parent, p) + 1]), parent[p], vrf[p], 0)] :
     parent \in [Ids -> Ids \cup {None}], vrf \in [Ids -> {"red", None}]}

Blocks ==
    {Block(4, length) : length \in {11, 12, 31, 32}} \cup
    {Block(6, length) : length \in {64, 108, 128}}

Hierarchies ==
    [Ids -> {PrefixRow(block, parent, None, direct) :
             block \in Blocks, parent \in Ids \cup {None}, direct \in 0 .. 1}]

OneRoot == [p \in Ids |-> PrefixRow(Block(4, 31), None, None, 0)]

MCInit ==
    /\ part \in Parts /\ mishaps = 0
    /\ BackupInit /\ (part = "backup" \/ section = Nothing)
    /\ Media!MediaInit /\ Transfer!TransferInit /\ Pages!PagesInit
    /\ prefixes \in CASE part = "tree" -> Trees
                      [] part = "utilization" -> Hierarchies
                      [] OTHER -> {OneRoot}
    /\ Views!ViewsInit
    /\ Reads!ReadsInit /\ topic \in Topics /\ (part = "reads" \/ topic.ids = {"s1"})
    /\ IF part = "trace" THEN Trace!TraceInit
       ELSE /\ links = {} /\ queue = <<>> /\ visited = {} /\ answer = Trace!NoAnswer
            /\ asked = [start |-> "a", target |-> "a", kinds |-> {}, depth |-> 0]

(* bound: two of the writes of other components, the failures and the ends *)
Disturbs ==
    \E p \in BackupProcess :
        \/ proc[p].at = "idle" /\ proc'[p].at = "idle" /\ section' # section
        \/ proc'[p].outcome \in {"thrown", "undone", "ruined"} /\ proc[p].outcome = "none"
        \/ proc[p].at \notin {"idle", "releasing"} /\ proc'[p].at = "idle"

Counted ==
    /\ mishaps' = IF Disturbs THEN mishaps + 1 ELSE mishaps
    /\ mishaps' <= 2

MediaVars == <<mediaFile, mediaCopy, content, upload>>
TransferVars == <<store, importing, queued, latest, clobbered>>
PagesVars == <<pane, loading, failed, request, fresh, overlap>>
ViewsVars == <<prefixes, expanded, selectedRow, filter, selectedNode>>
TraceVars == <<links, asked, queue, visited, answer>>

ReadsVars == <<inventory, cache, reader, writer, excused>>

mcVars == <<backupVars, MediaVars, TransferVars, PagesVars, ViewsVars, TraceVars, ReadsVars,
            part, mishaps, topic>>

OnTopic ==
    /\ \A x \in DOMAIN inventory \ topic.ids : inventory'[x] = inventory[x]
    /\ \A q \in DOMAIN reader : reader'[q].at # "idle" => reader'[q].question \in topic.asked
    /\ \A w \in DOMAIN writer : writer'[w].at = "asked" => writer'[w].id \in topic.ids

(* bound: one page is open at a time *)
OnePage ==
    \E page \in {{"search"}, {"list", "detail"}, {"jobs"}} :
        \A v \in DOMAIN pane \ page : pane'[v] = Pages!NewPane

MCNext ==
    /\ IF part = "backup" THEN BackupNext /\ Counted ELSE UNCHANGED <<backupVars, mishaps>>
    /\ IF part = "media" THEN Media!MediaNext ELSE UNCHANGED MediaVars
    /\ IF part = "transfer" THEN Transfer!TransferNext ELSE UNCHANGED TransferVars
    /\ IF part = "pages" THEN Pages!PagesNext /\ OnePage ELSE UNCHANGED PagesVars
    /\ \/ part = "tree" /\ (Views!TreeNext \/ Views!Retry)
       \/ part = "graph" /\ (Views!GraphNext \/ Views!Retry)
       \/ part \notin {"tree", "graph"} /\ UNCHANGED ViewsVars
    /\ IF part = "trace" THEN Trace!TraceNext ELSE UNCHANGED TraceVars
    /\ IF part = "reads" THEN Reads!ReadsNext /\ OnTopic ELSE UNCHANGED ReadsVars
    /\ UNCHANGED <<part, topic>>

MCSpec == MCInit /\ [][MCNext]_mcVars

-----------------------------------------------------------------------------
Symmetry ==
    Permutations(BackupId) \cup Permutations(Request)

StoresTypeOK ==
    /\ BackupTypeOK /\ Media!MediaTypeOK /\ Transfer!TransferTypeOK
    /\ Pages!PagesTypeOK
    /\ part \in {"tree", "graph"} => Views!ViewsTypeOK
    /\ part = "trace" => Trace!TraceTypeOK
=============================================================================
