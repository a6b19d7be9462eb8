------------------------------ MODULE Inventory ------------------------------
(* The inventory write path (apps/api/src/inventory) with the checks it     *)
(* calls (packages/validation, dcim-domain and ipam-domain).  A create or   *)
(* an update is checked as a payload, and the inventory it would give is    *)
(* then checked as a whole; a delete only looks for the records that still  *)
(* need what it removes.  Each runs under the inventory lock, as one step;  *)
(* interfaces and connections are reference data that no request changes.   *)
EXTENDS Integers

CONSTANTS Site, Rack, Device, Prefix, Address,   \* ids a client may use
          Units,        \* rack sizes, device heights and rack units
          Cidr,         \* what clients write as a CIDR or as a host address
          Width,        \* bits of an IPv4 address (32 in the code)
          Vrf,          \* the VRFs, and null: the global table
          Interface, DeviceOf,   \* reference interfaces, and whose they are
          Connection,   \* reference connections
          Seed,         \* the inventory of a new installation
          None

Host == 0 .. 2 ^ Width - 1
Unreadable == -1   \* an address parseIpv4Number returns null for
Face == {"front", "rear"}

Place == [rack : Rack, face : Face, start : Units, height : Units]
RackRecord == [site : Site, units : Units]
DeviceRecord == [site : Site, place : Place \cup {None}]
PrefixRecord == [vrf : Vrf, parent : Prefix \cup {None}, cidr : Cidr]
AddressRecord == [vrf : Vrf, prefix : Prefix \cup {None}, cidr : Cidr,
                  interface : Interface \cup {None}]

Inventories ==
    [sites : SUBSET Site,
     racks : [Rack -> RackRecord \cup {None}],
     devices : [Device -> DeviceRecord \cup {None}],
     prefixes : [Prefix -> PrefixRecord \cup {None}],
     addresses : [Address -> AddressRecord \cup {None}]]

ASSUME UnitAssumption == Units \subseteq Nat \ {0} /\ Width \in Nat
ASSUME CidrAssumption ==
    /\ Cidr \subseteq [family : {4, 6}, host : Host \cup {Unreadable}, length : Nat]
    /\ \A c \in Cidr : c.family = 4 => c.length <= Width
ASSUME NoneAssumption ==
    /\ None \notin Site \cup Rack \cup Device \cup Prefix \cup Address \cup Interface
    /\ None \notin Place
    /\ None \notin RackRecord /\ None \notin DeviceRecord
    /\ None \notin PrefixRecord /\ None \notin AddressRecord
ASSUME ReferenceAssumption ==
    /\ DeviceOf \in [Interface -> Device]
    /\ \A c \in Connection : c.fromDevice \in Device /\ c.toDevice \in Device
    /\ Seed \in Inventories

VARIABLES inventory,   \* the state file
          answer       \* what the last mutation was answered with

vars == <<inventory, answer>>

(* Done, refused for the request alone, or 409 with the conflicts found. *)
Answer == {"done", "refused", "conflict"}

TypeOK == inventory \in Inventories /\ answer \in Answer

Init == inventory = Seed /\ answer = "done"

-----------------------------------------------------------------------------
Racks(s) == {r \in Rack : s.racks[r] # None}
Devices(s) == {d \in Device : s.devices[d] # None}
Prefixes(s) == {p \in Prefix : s.prefixes[p] # None}
Addresses(s) == {a \in Address : s.addresses[a] # None}

(* Only what is IPv4 and parses is compared with anything else. *)
Readable(c) == c.family = 4 /\ c.host # Unreadable

(* parseIpv4Range: the hosts that agree with c under its mask. *)
Hosts ==
    [c \in Cidr |->
        IF Readable(c)
        THEN {h \in Host : h \div 2 ^ (Width - c.length) = c.host \div 2 ^ (Width - c.length)}
        ELSE {}]

(* A mistake isContainedByDeclaredRelationship could make: any parent will  *)
(* do.                                                                      *)
AnyParent(s, p, q) == s.prefixes[q].parent # None \/ s.prefixes[p].parent # None

(* isContainedByDeclaredRelationship; a grandparent is no declared parent. *)
Declared(s, p, q) ==
    \/ s.prefixes[q].parent = p /\ Hosts[s.prefixes[q].cidr] \subseteq Hosts[s.prefixes[p].cidr]
    \/ s.prefixes[p].parent = q /\ Hosts[s.prefixes[p].cidr] \subseteq Hosts[s.prefixes[q].cidr]

(* Two conflicts it could overlook: a device and its rack at two sites, and *)
(* one host written with two masks.                                         *)
DevicesHoused(s) ==
    \A d \in Devices(s) :
        /\ s.devices[d].site \in s.sites
        /\ s.devices[d].place # None => s.devices[d].place.rack \in Racks(s)

HostsSpeltApart(s) ==
    \A a, b \in Addresses(s) :
        a # b => \/ s.addresses[a].vrf # s.addresses[b].vrf
                 \/ s.addresses[a].cidr # s.addresses[b].cidr

(* validateInventorySnapshot, the kinds of conflict it looks for in turn. *)
RacksSound(s) == \A r \in Racks(s) : s.racks[r].site \in s.sites

DevicesSound(s) ==
    \A d \in Devices(s) :
        /\ s.devices[d].site \in s.sites
        /\ s.devices[d].place # None =>
             LET r == s.devices[d].place.rack
             IN  r \in Racks(s) /\ s.racks[r].site = s.devices[d].site

InterfacesSound(s) == \A i \in Interface : DeviceOf[i] \in Devices(s)

ConnectionsSound(s) ==
    \A c \in Connection :
        /\ c.fromDevice \in Devices(s) /\ c.toDevice \in Devices(s)
        /\ c.fromInterface \in Interface /\ DeviceOf[c.fromInterface] = c.fromDevice
        /\ c.toInterface \in Interface /\ DeviceOf[c.toInterface] = c.toDevice

ParentsSound(s) ==
    \A p \in Prefixes(s) :
        LET child == s.prefixes[p]
        IN  Readable(child.cidr) /\ child.parent # None =>
              /\ child.parent \in Prefixes(s)
              /\ LET parent == s.prefixes[child.parent]
                 IN  /\ parent.cidr.family = 4 /\ parent.vrf = child.vrf
                     /\ Readable(parent.cidr) => Hosts[child.cidr] \subseteq Hosts[parent.cidr]

OverlapsSound(s) ==
    \A p, q \in Prefixes(s) :
        p # q /\ s.prefixes[p].vrf = s.prefixes[q].vrf
              /\ Hosts[s.prefixes[p].cidr] \cap Hosts[s.prefixes[q].cidr] # {}
            => Declared(s, p, q)

AddressesSound(s) ==
    \A a \in Addresses(s) :
        LET address == s.addresses[a]
        IN  Readable(address.cidr) =>
              /\ address.prefix # None =>
                   /\ address.prefix \in Prefixes(s)
                   /\ LET prefix == s.prefixes[address.prefix]
                      IN  /\ prefix.cidr.family = 4 /\ prefix.vrf = address.vrf
                          /\ Readable(prefix.cidr) => address.cidr.host \in Hosts[prefix.cidr]
              /\ address.interface # None => DeviceOf[address.interface] \in Devices(s)

HostsSound(s) ==
    \A a, b \in Addresses(s) :
        /\ a # b
        /\ Readable(s.addresses[a].cidr) /\ Readable(s.addresses[b].cidr)
        /\ s.addresses[a].vrf = s.addresses[b].vrf
        => s.addresses[a].cidr.host # s.addresses[b].cidr.host

Sound(s) ==
    /\ RacksSound(s) /\ DevicesSound(s) /\ InterfacesSound(s) /\ ConnectionsSound(s)
    /\ ParentsSound(s) /\ OverlapsSound(s) /\ AddressesSound(s) /\ HostsSound(s)

-----------------------------------------------------------------------------
(* Two mistakes: a device may end above its rack, or start in another.      *)
ValidStart(rack, place) == place.start <= rack.units

StartsApart(s, place, others) ==
    \A d \in others :
        s.devices[d].place = None
        \/ [s.devices[d].place EXCEPT !.height = 1] # [place EXCEPT !.height = 1]

(* validateRackPosition *)
ValidPosition(rack, place) ==
    place.start <= rack.units /\ place.start + place.height - 1 <= rack.units

(* The overlap canOccupyRackPosition looks for. *)
Share(p, q) ==
    /\ p.rack = q.rack /\ p.face = q.face
    /\ p.start <= q.start + q.height - 1
    /\ q.start <= p.start + p.height - 1

(* canOccupyRackPosition, given the devices that are not being updated. *)
CanOccupy(s, place, others) ==
    \A d \in others : s.devices[d].place # None => ~Share(place, s.devices[d].place)

(* validatePrefixHierarchy; lengths that grow downwards leave no cycle. *)
Nested(prefixes) ==
    \A p \in Prefix :
        prefixes[p] # None /\ prefixes[p].parent # None =>
            LET parent == prefixes[prefixes[p].parent]
            IN  /\ parent # None
                /\ parent.vrf = prefixes[p].vrf
                /\ prefixes[p].cidr.length > parent.cidr.length

(* An id is new, or that of the record being updated; old is None, the      *)
(* undefined existingId, in a create.                                       *)
Unique(f, old, new) == new # old => f[new] = None

(* buildNextInventoryState: an update replaces the record, whose id may     *)
(* change with it; a create adds one.                                       *)
Put(f, old, new, record) ==
    [x \in DOMAIN f |-> IF x = new THEN record ELSE IF x = old THEN None ELSE f[x]]

(* validateDevicePayload; a payload with no placement removes the device    *)
(* from its rack, on an update too: the stored placement is not merged in.  *)
ValidDevice(s, old, new, device) ==
    /\ Unique(s.devices, old, new)
    /\ device.site \in s.sites
    /\ device.place # None =>
         /\ device.place.rack \in Racks(s)
         /\ ValidPosition(s.racks[device.place.rack], device.place)
         /\ CanOccupy(s, device.place, Devices(s) \ {old})

(* validatePrefixPayload *)
ValidPrefix(s, old, new, prefix) ==
    /\ Unique(s.prefixes, old, new)
    /\ prefix.parent # None => prefix.parent \in Prefixes(s) \ {old}
    /\ Nested(Put(s.prefixes, old, new, prefix))

(* validateIpAddressPayload *)
ValidAddress(s, old, new, address) ==
    /\ Unique(s.addresses, old, new)
    /\ address.prefix # None => /\ address.prefix \in Prefixes(s)
                                /\ s.prefixes[address.prefix].vrf = address.vrf

-----------------------------------------------------------------------------
(* handleUpdateWritableResource looks the record up; either handler then    *)
(* has validateInventoryMutationPayload decide what is written.             *)
Save(found, valid, next) ==
    \/ ~(found /\ valid) /\ answer' = "refused" /\ UNCHANGED inventory
    \/ found /\ valid /\ ~Sound(next) /\ answer' = "conflict" /\ UNCHANGED inventory
    \/ found /\ valid /\ Sound(next) /\ answer' = "done" /\ inventory' = next

SaveSite(old, new) ==
    Save(old \in inventory.sites \cup {None},
         new # old => new \notin inventory.sites,
         [inventory EXCEPT !.sites = (@ \ {old}) \cup {new}])

SaveRack(old, new, rack) ==
    Save(old \in Racks(inventory) \cup {None},
         Unique(inventory.racks, old, new) /\ rack.site \in inventory.sites,
         [inventory EXCEPT !.racks = Put(@, old, new, rack)])

SaveDevice(old, new, device) ==
    Save(old \in Devices(inventory) \cup {None},
         ValidDevice(inventory, old, new, device),
         [inventory EXCEPT !.devices = Put(@, old, new, device)])

SavePrefix(old, new, prefix) ==
    Save(old \in Prefixes(inventory) \cup {None},
         ValidPrefix(inventory, old, new, prefix),
         [inventory EXCEPT !.prefixes = Put(@, old, new, prefix)])

SaveAddress(old, new, address) ==
    Save(old \in Addresses(inventory) \cup {None},
         ValidAddress(inventory, old, new, address),
         [inventory EXCEPT !.addresses = Put(@, old, new, address)])

(* deleteWritableResource *)
Delete(found, needed, next) ==
    \/ (~found \/ needed) /\ answer' = "refused" /\ UNCHANGED inventory
    \/ found /\ ~needed /\ answer' = "done" /\ inventory' = next

SiteNeeded(x) == \/ \E r \in Racks(inventory) : inventory.racks[r].site = x
                 \/ \E d \in Devices(inventory) : inventory.devices[d].site = x

RackNeeded(r) == \E d \in Devices(inventory) :
                    /\ inventory.devices[d].place # None
                    /\ inventory.devices[d].place.rack = r

DeviceNeeded(d) == \/ \E i \in Interface : DeviceOf[i] = d
                   \/ \E c \in Connection : c.fromDevice = d \/ c.toDevice = d

PrefixHasChildren(p) == \E q \in Prefixes(inventory) : inventory.prefixes[q].parent = p

PrefixNeeded(p) == \/ \E q \in Prefixes(inventory) : inventory.prefixes[q].parent = p
                   \/ \E a \in Addresses(inventory) : inventory.addresses[a].prefix = p

DeleteSite(x) ==
    Delete(x \in inventory.sites, SiteNeeded(x), [inventory EXCEPT !.sites = @ \ {x}])

DeleteRack(r) ==
    Delete(r \in Racks(inventory), RackNeeded(r), [inventory EXCEPT !.racks[r] = None])

DeleteDevice(d) ==
    Delete(d \in Devices(inventory), DeviceNeeded(d), [inventory EXCEPT !.devices[d] = None])

DeletePrefix(p) ==
    Delete(p \in Prefixes(inventory), PrefixNeeded(p), [inventory EXCEPT !.prefixes[p] = None])

DeleteAddress(a) ==
    Delete(a \in Addresses(inventory), FALSE, [inventory EXCEPT !.addresses[a] = None])

DcimNext ==
    \/ \E new \in Site : DeleteSite(new) \/ \E old \in Site \cup {None} : SaveSite(old, new)
    \/ \E new \in Rack : \/ DeleteRack(new)
                          \/ \E old \in Rack \cup {None}, rack \in RackRecord :
                                SaveRack(old, new, rack)
    \/ \E new \in Device : \/ DeleteDevice(new)
                            \/ \E old \in Device \cup {None}, device \in DeviceRecord :
                                  SaveDevice(old, new, device)

PrefixNext ==
    \E new \in Prefix : \/ DeletePrefix(new)
                         \/ \E old \in Prefix \cup {None}, prefix \in PrefixRecord :
                               SavePrefix(old, new, prefix)

AddressNext ==
    \E new \in Address : \/ DeleteAddress(new)
                          \/ \E old \in Address \cup {None}, address \in AddressRecord :
                                SaveAddress(old, new, address)

IpamNext == PrefixNext \/ AddressNext

Next == DcimNext \/ IpamNext

Spec == Init /\ [][Next]_vars

-----------------------------------------------------------------------------
(* Whatever a record refers to exists.  Deletes never run the checks of a   *)
(* save (deleteWritableResource); renames are not looked for by any check.  *)
(* An IPv6 address is left out: the snapshot check skips it, so that a      *)
(* prefix can be renamed or change its family under it.                     *)
ReferencesResolve ==
    /\ \A r \in Racks(inventory) : inventory.racks[r].site \in inventory.sites
    /\ \A d \in Devices(inventory) :
          /\ inventory.devices[d].site \in inventory.sites
          /\ inventory.devices[d].place # None =>
               inventory.devices[d].place.rack \in Racks(inventory)
    /\ \A i \in Interface : DeviceOf[i] \in Devices(inventory)
    /\ \A p \in Prefixes(inventory) :
          inventory.prefixes[p].parent \in Prefixes(inventory) \cup {None}
    /\ \A a \in Addresses(inventory) :
          Readable(inventory.addresses[a].cidr) =>
             inventory.addresses[a].prefix \in Prefixes(inventory) \cup {None}

(* A racked device stands at its own site: validateDevicePayload never      *)
(* compares the two sites, and a rack can move after its devices.           *)
RackedAtHome ==
    \A d \in Devices(inventory) :
        inventory.devices[d].place # None =>
            inventory.racks[inventory.devices[d].place.rack].site = inventory.devices[d].site

(* No unit of a rack face is taken twice: only the device being saved is    *)
(* compared (canOccupyRackPosition), and the snapshot check does not look.  *)
UnitsApart ==
    \A d, e \in Devices(inventory) :
        d # e /\ inventory.devices[d].place # None /\ inventory.devices[e].place # None
            => ~Share(inventory.devices[d].place, inventory.devices[e].place)

(* A device comes to stick out of its rack only when the rack is resized:   *)
(* validateRackPayload does not look at what the rack holds.                *)
Fits(s, d) ==
    s.devices[d].place # None =>
        LET top == s.devices[d].place.start + s.devices[d].place.height - 1
        IN  1 .. top \subseteq 1 .. s.racks[s.devices[d].place.rack].units

OnlyResizingOutgrows ==
    [][\A d \in Device :
          /\ inventory'.devices[d] # None /\ ~Fits(inventory', d)
          => /\ inventory.devices[d] = inventory'.devices[d]
             /\ Fits(inventory, d) => inventory'.racks # inventory.racks]_vars

(* Prefixes of a VRF that share an address are parent and child, whichever  *)
(* is saved or moved last.                                                  *)
OverlapIsParenthood ==
    \A p, q \in Prefixes(inventory) :
        LET one == inventory.prefixes[p]
            two == inventory.prefixes[q]
        IN  p # q /\ one.vrf = two.vrf /\ Hosts[one.cidr] \cap Hosts[two.cidr] # {}
            => one.parent = q \/ two.parent = p

(* A consequence: IPv4 hierarchies have two levels, since a grandparent     *)
(* overlaps its grandchild and is not declared to be its parent.            *)
TwoLevels ==
    \A p \in Prefixes(inventory) :
        LET parent == inventory.prefixes[p].parent
        IN  /\ Readable(inventory.prefixes[p].cidr) /\ parent # None
            /\ Readable(inventory.prefixes[parent].cidr)
            /\ inventory.prefixes[parent].parent # None
            => ~Readable(inventory.prefixes[inventory.prefixes[parent].parent].cidr)

(* An IPv4 host is recorded once in a VRF, and inside the prefix it names,  *)
(* though the prefix can be resized or moved after it.                      *)
HostsPlaced ==
    \A a \in Addresses(inventory) :
        LET address == inventory.addresses[a]
        IN  Readable(address.cidr) =>
              /\ \A b \in Addresses(inventory) \ {a} :
                    Readable(inventory.addresses[b].cidr) /\ inventory.addresses[b].vrf = address.vrf
                        => inventory.addresses[b].cidr.host # address.cidr.host
              /\ address.prefix # None /\ Readable(inventory.prefixes[address.prefix].cidr)
                   => address.cidr.host \in Hosts[inventory.prefixes[address.prefix].cidr]

(* A save is refused as a conflict only for what it would bring in: the     *)
(* inventory as it stands has none.                                         *)
ConflictIsNew ==
    [][answer' = "conflict" => Sound(inventory)]_vars
=============================================================================
