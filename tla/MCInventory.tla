---------------------------- MODULE MCInventory ----------------------------
(* A behaviour changes one part of an inventory: the DCIM records, the      *)
(* prefixes, or the addresses and the prefixes they are in.  The first      *)
(* meets the others only in the interfaces, which nothing changes.          *)
EXTENDS Inventory, FiniteSets, TLC

VARIABLE part   \* bound: the part that changes

mcVars == <<vars, part>>

MaxPrefixes == 1   \* bound: prefixes next to addresses

MCInit == Init /\ part \in {"dcim", "prefixes", "addresses"}

MCNext ==
    /\ \/ part = "dcim" /\ DcimNext
       \/ part = "prefixes" /\ PrefixNext /\ Addresses(inventory') = {}
       \/ part = "addresses" /\ IpamNext /\ Cardinality(Prefixes(inventory')) <= MaxPrefixes
    /\ UNCHANGED part

MCSpec == MCInit /\ [][MCNext]_mcVars

CONSTANTS site1, site2, rack1, device1, device2, prefix1, prefix2, prefix3,
          address1, address2, port, global, vrf1

Net(family, host, length) == [family |-> family, host |-> host, length |-> length]

(* Of two-bit addresses: everything, a half named by its second host, a     *)
(* host in it; and a network of IPv6.                                       *)
Cidrs == {Net(4, 0, 0), Net(4, 1, 1), Net(4, 0, 2), Net(6, Unreadable, 1)}

PortOf == port :> device1

Cable == {[fromDevice |-> device1, fromInterface |-> port,
           toDevice |-> device1, toInterface |-> port]}

(* The repository's reference data has a connection like this one: the      *)
(* interface it starts from is not among the interfaces.                    *)
LooseCable == {[c EXCEPT !.fromInterface = None] : c \in Cable}

Installed ==
    [sites |-> {site1},
     racks |-> rack1 :> [site |-> site1, units |-> 2],
     devices |-> device1 :> [site |-> site1, place |->
                               [rack |-> rack1, face |-> "front", start |-> 1, height |-> 1]]
                 @@ device2 :> None,
     prefixes |-> [p \in Prefix |-> None],
     addresses |-> [a \in Address |-> None]]

(* The ids the seed does not name. *)
Symmetry == Permutations(Prefix) \cup Permutations(Address) \cup Permutations(Vrf)
=============================================================================
