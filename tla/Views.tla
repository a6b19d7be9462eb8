-------------------------------- MODULE Views --------------------------------
(* What the tree and graph views make of their data: the prefix hierarchy   *)
(* with its utilization (packages/ipam-domain), the IPAM tree and the       *)
(* topology filter (packages/ui), and the selection the client keeps while  *)
(* their user opens, closes and filters (apps/web/src/state).               *)
EXTENDS Integers, Sequences, FiniteSets, SequencesExt, FiniteSetsExt

CONSTANTS Order,     \* the prefixes' ids, in the order of comparePrefixSpecificity
          GroupOrder, \* the VRFs' ids and "vrf-unscoped", in the order of their labels
          NodeOrder, \* the devices' ids, in the order of the graph
          Lengths, MaxDirect,
          Site, Role, Vlan,
          Attributes, \* the site, role and VLANs of each node
          None

VARIABLES prefixes,  \* the inventory's prefixes, once loaded
          expanded, selectedRow,
          filter, selectedNode

viewsVars == <<prefixes, expanded, selectedRow, filter, selectedNode>>

Unscoped == "vrf-unscoped"

Prefix == ToSet(Order)
Group == ToSet(GroupOrder)
Vrf == Group \ {Unscoped}
Node == ToSet(NodeOrder)

Family == {4, 6}

Plan == [Prefix -> [family : Family, length : Lengths, parent : Prefix \cup {None},
                    vrf : Vrf \cup {None}, direct : 0 .. MaxDirect]]
Filter == [site : Site \cup {None}, role : Role \cup {None}, vlan : Vlan \cup {None}]

ViewsTypeOK ==
    /\ prefixes \in Plan
    /\ expanded \subseteq Prefix \cup Group
    /\ selectedRow \in Prefix \cup Group \cup {None}
    /\ filter \in Filter
    /\ selectedNode \in Node \cup {None}

-----------------------------------------------------------------------------
(* isValidPrefixLength. *)
Width(family) == IF family = 4 THEN 32 ELSE 128

ValidLength(plan, p) == plan[p].length <= Width(plan[p].family)

(* estimatePrefixCapacity: nothing above twenty host bits is counted. *)
HostBits(p) == Width(prefixes[p].family) - prefixes[p].length

Capacity(p) == IF HostBits(p) > 20 THEN None ELSE 2 ^ HostBits(p)

(* validatePrefixHierarchy, for one prefix: it is in its parent's VRF, more *)
(* specific by its length, and not above itself; nothing compares the       *)
(* families.  And without the second of the rules.                          *)
Top(plan, p) ==
    LET up[n \in 0 .. Len(Order)] ==
            IF n = 0 THEN plan[p].parent
            ELSE IF up[n - 1] = None THEN None ELSE plan[up[n - 1]].parent
    IN  up[Len(Order)]

WithinItsVrf(plan, p) ==
    LET parent == plan[p].parent
    IN  parent # None => plan[parent].vrf = plan[p].vrf /\ Top(plan, p) = None

ValidatePrefixHierarchy(plan, p) ==
    LET parent == plan[p].parent
    IN  parent # None => /\ plan[parent].vrf = plan[p].vrf
                         /\ plan[p].length > plan[parent].length
                         /\ Top(plan, p) = None

(* buildPrefixHierarchy. *)
Children(p) == {c \in Prefix : prefixes[c].parent = p}
Roots == {p \in Prefix : prefixes[p].parent = None}

(* createPrefixUtilizationDirectory, from the deepest prefixes up.  A child *)
(* whose use is not known counts with its capacity.                         *)
SumOver(f, S) == MapThenSumSet(LAMBDA x : f[x], S)

UsedAddresses[p \in Prefix] ==
    LET consumed == [c \in Children(p) |->
                        IF UsedAddresses[c] = None THEN Capacity(c) ELSE UsedAddresses[c]]
    IN  IF Capacity(p) = None \/ \E c \in Children(p) : consumed[c] = None THEN None
        ELSE Min({Capacity(p), prefixes[p].direct + SumOver(consumed, Children(p))})

-----------------------------------------------------------------------------
(* createIpamTreeModel: a group for each VRF that has roots. *)
GroupOf(p) == IF prefixes[p].vrf = None THEN Unscoped ELSE prefixes[p].vrf
RootsOf(g) == {p \in Roots : GroupOf(p) = g}
Groups == {g \in Group : RootsOf(g) # {}}
OpenGroups == Groups \cap expanded

(* flattenIpamTree: a group is a row, the roots of an open group are, and    *)
(* the children of an open row.  Depth first, so that the first prefix is   *)
(* the first root of the first open group.                                  *)
OpenRoots == UNION {RootsOf(g) : g \in OpenGroups}
Below(A) == UNION {Children(p) : p \in A \cap expanded}

PrefixRows ==
    LET roots == OpenRoots
        flattened == {A \in SUBSET Prefix : roots \subseteq A /\ Below(A) \subseteq A}
    IN  {p \in Prefix : \A A \in flattened : p \in A}

Rows == Groups \cup PrefixRows

FirstIn(order, S) ==
    IF S = {} THEN None ELSE order[Min({i \in DOMAIN order : order[i] \in S})]

FirstPrefixRow ==
    IF OpenGroups = {} THEN None
    ELSE FirstIn(Order, RootsOf(FirstIn(GroupOrder, OpenGroups)))

(* createInitialExpandedIpamTree. *)
InitiallyExpanded == Groups \cup Roots

(* node_selected and node_toggled, on a row; and a toggle that leaves the   *)
(* selection where it is.                                                   *)
SelectRow(id) ==
    /\ id \in Rows
    /\ selectedRow' = id
    /\ UNCHANGED <<prefixes, expanded, filter, selectedNode>>

Toggled(id) == IF id \in expanded THEN expanded \ {id} ELSE expanded \cup {id}

ToggleOnly(id) ==
    /\ id \in Rows
    /\ expanded' = Toggled(id)
    /\ UNCHANGED <<prefixes, selectedRow, filter, selectedNode>>

ToggleRow(id) ==
    /\ id \in Rows
    /\ UNCHANGED <<prefixes, filter, selectedNode>>
    /\ expanded' = Toggled(id)
    /\ selectedRow' = IF selectedRow \in Rows' THEN selectedRow ELSE FirstPrefixRow'

-----------------------------------------------------------------------------
(* filterTopologyGraph, as far as the nodes go. *)
ShownNodes(f) ==
    {n \in Node : /\ f.site \in {None, Attributes[n].site}
                  /\ f.role \in {None, Attributes[n].role}
                  /\ f.vlan \in Attributes[n].vlans \cup {None}}

Unfiltered == [site |-> None, role |-> None, vlan |-> None]

FirstNode(f) == FirstIn(NodeOrder, ShownNodes(f))

SelectNode(n) ==
    /\ n \in ShownNodes(filter)
    /\ selectedNode' = n
    /\ UNCHANGED <<prefixes, expanded, selectedRow, filter>>

(* filter_changed, one field at a time. *)
ChangeFilter(field, value) ==
    /\ filter' = [filter EXCEPT ![field] = value]
    /\ filter' \in Filter
    /\ selectedNode' = IF selectedNode \in ShownNodes(filter') THEN selectedNode
                       ELSE FirstNode(filter')
    /\ UNCHANGED <<prefixes, expanded, selectedRow>>

(* load_succeeded: the first, and that of a retry. *)
Loaded ==
    /\ expanded = InitiallyExpanded
    /\ selectedRow = FirstPrefixRow
    /\ filter = Unfiltered
    /\ selectedNode = FirstNode(Unfiltered)

Retry ==
    /\ UNCHANGED prefixes
    /\ expanded' = InitiallyExpanded
    /\ selectedRow' = FirstPrefixRow'
    /\ filter' = Unfiltered
    /\ selectedNode' = FirstNode(Unfiltered)

-----------------------------------------------------------------------------
ViewsInit ==
    /\ prefixes \in Plan
    /\ \A p \in Prefix : ValidLength(prefixes, p) /\ ValidatePrefixHierarchy(prefixes, p)
    /\ Loaded

TreeNext == \E id \in Prefix \cup Group : SelectRow(id) \/ ToggleRow(id)

GraphNext ==
    \/ \E n \in Node : SelectNode(n)
    \/ \E field \in DOMAIN Unfiltered, value \in Site \cup Role \cup Vlan \cup {None} :
          ChangeFilter(field, value)

ViewsNext == TreeNext \/ GraphNext \/ Retry

ViewsSpec == ViewsInit /\ [][ViewsNext]_viewsVars

-----------------------------------------------------------------------------
(* What is selected is on the screen, whatever is closed, opened and        *)
(* filtered around it, and nothing is selected only if there is nothing.    *)
SelectionIsShown ==
    /\ IF selectedRow = None THEN PrefixRows = {} ELSE selectedRow \in Rows
    /\ IF selectedNode = None THEN ShownNodes(filter) = {} ELSE selectedNode \in ShownNodes(filter)

Under[p \in Prefix] == {p} \cup UNION {Under[c] : c \in Children(p)}

AddressesUnder(p) == SumOver([q \in Prefix |-> prefixes[q].direct], Under[p])

Foreign(p) == {c \in Children(p) : prefixes[c].family # prefixes[p].family}

(* A prefix small enough to be counted has a utilization, never above its   *)
(* capacity, unless a prefix of the other family that is too large lies     *)
(* right under it; and where all that is in it can be counted and holds no  *)
(* more addresses than it has room for, each address counts once.           *)
UtilizationCounts ==
    \A p \in Prefix :
        /\ UsedAddresses[p] = None <=>
              Capacity(p) = None \/ \E c \in Foreign(p) : Capacity(c) = None
        /\ UsedAddresses[p] # None => UsedAddresses[p] <= Capacity(p)
        /\ (\A q \in Under[p] : Capacity(q) # None /\ AddressesUnder(q) <= Capacity(q))
           => UsedAddresses[p] = AddressesUnder(p)
=============================================================================
