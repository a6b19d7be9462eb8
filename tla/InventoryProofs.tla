-------------------------- MODULE InventoryProofs --------------------------
(* Proofs about Inventory for any ids, CIDRs and reference data.            *)
EXTENDS Inventory, TLAPS

(* What a save checks and a delete does not: the snapshot has no conflict,  *)
(* every parent exists, and no two devices share a unit.                    *)
Apart(s) ==
    \A d, e \in Devices(s) :
        d # e /\ s.devices[d].place # None /\ s.devices[e].place # None
            => ~Share(s.devices[d].place, s.devices[e].place)

Integrity(s) == Sound(s) /\ Nested(s.prefixes) /\ Apart(s)

LEMMA PutType ==
    ASSUME NEW Id, NEW Record, NEW f \in [Id -> Record \cup {None}],
           NEW old, NEW new \in Id, NEW record \in Record
    PROVE  Put(f, old, new, record) \in [Id -> Record \cup {None}]
BY DEF Put

(* The inventory and the last answer keep their types, whatever is saved    *)
(* and deleted.                                                             *)
THEOREM TypeCorrect == Spec => []TypeOK
<1>1. Init => TypeOK
  BY ReferenceAssumption DEF Init, TypeOK, Answer
<1>2. TypeOK /\ [Next]_vars => TypeOK'
  <2> SUFFICES ASSUME TypeOK, [Next]_vars PROVE TypeOK'
    OBVIOUS
  <2> USE DEF TypeOK
  <2>1. CASE UNCHANGED vars
    BY <2>1 DEF vars, Answer
  <2>2. ASSUME NEW new \in Site, NEW old \in Site \cup {None}, SaveSite(old, new)
        PROVE  TypeOK'
    <3>1. [inventory EXCEPT !.sites = (@ \ {old}) \cup {new}] \in Inventories
      BY DEF Inventories
    <3> QED
      BY <2>2, <3>1 DEF SaveSite, Save, Answer
  <2>3. ASSUME NEW new \in Rack, NEW old \in Rack \cup {None}, NEW rack \in RackRecord,
               SaveRack(old, new, rack)
        PROVE  TypeOK'
    <3>1. Put(inventory.racks, old, new, rack) \in [Rack -> RackRecord \cup {None}]
      BY PutType DEF Inventories
    <3>2. [inventory EXCEPT !.racks = Put(@, old, new, rack)] \in Inventories
      BY <3>1 DEF Inventories
    <3> QED
      BY <2>3, <3>2 DEF SaveRack, Save, Answer
  <2>4. ASSUME NEW new \in Device, NEW old \in Device \cup {None}, NEW device \in DeviceRecord,
               SaveDevice(old, new, device)
        PROVE  TypeOK'
    <3>1. Put(inventory.devices, old, new, device) \in [Device -> DeviceRecord \cup {None}]
      BY PutType DEF Inventories
    <3>2. [inventory EXCEPT !.devices = Put(@, old, new, device)] \in Inventories
      BY <3>1 DEF Inventories
    <3> QED
      BY <2>4, <3>2 DEF SaveDevice, Save, Answer
  <2>5. ASSUME NEW new \in Prefix, NEW old \in Prefix \cup {None}, NEW prefix \in PrefixRecord,
               SavePrefix(old, new, prefix)
        PROVE  TypeOK'
    <3>1. Put(inventory.prefixes, old, new, prefix) \in [Prefix -> PrefixRecord \cup {None}]
      BY PutType DEF Inventories
    <3>2. [inventory EXCEPT !.prefixes = Put(@, old, new, prefix)] \in Inventories
      BY <3>1 DEF Inventories
    <3> QED
      BY <2>5, <3>2 DEF SavePrefix, Save, Answer
  <2>6. ASSUME NEW new \in Address, NEW old \in Address \cup {None},
               NEW address \in AddressRecord, SaveAddress(old, new, address)
        PROVE  TypeOK'
    <3>1. Put(inventory.addresses, old, new, address) \in [Address -> AddressRecord \cup {None}]
      BY PutType DEF Inventories
    <3>2. [inventory EXCEPT !.addresses = Put(@, old, new, address)] \in Inventories
      BY <3>1 DEF Inventories
    <3> QED
      BY <2>6, <3>2 DEF SaveAddress, Save, Answer
  <2>7. ASSUME NEW new \in Site, DeleteSite(new) PROVE TypeOK'
    <3>1. [inventory EXCEPT !.sites = @ \ {new}] \in Inventories
      BY DEF Inventories
    <3> QED
      BY <2>7, <3>1 DEF DeleteSite, Delete, Answer
  <2>8. ASSUME NEW new \in Rack, DeleteRack(new) PROVE TypeOK'
    <3>1. [inventory EXCEPT !.racks[new] = None] \in Inventories
      BY DEF Inventories
    <3> QED
      BY <2>8, <3>1 DEF DeleteRack, Delete, Answer
  <2>9. ASSUME NEW new \in Device, DeleteDevice(new) PROVE TypeOK'
    <3>1. [inventory EXCEPT !.devices[new] = None] \in Inventories
      BY DEF Inventories
    <3> QED
      BY <2>9, <3>1 DEF DeleteDevice, Delete, Answer
  <2>10. ASSUME NEW new \in Prefix, DeletePrefix(new) PROVE TypeOK'
    <3>1. [inventory EXCEPT !.prefixes[new] = None] \in Inventories
      BY DEF Inventories
    <3> QED
      BY <2>10, <3>1 DEF DeletePrefix, Delete, Answer
  <2>11. ASSUME NEW new \in Address, DeleteAddress(new) PROVE TypeOK'
    <3>1. [inventory EXCEPT !.addresses[new] = None] \in Inventories
      BY DEF Inventories
    <3> QED
      BY <2>11, <3>1 DEF DeleteAddress, Delete, Answer
  <2> QED
    BY <2>1, <2>2, <2>3, <2>4, <2>5, <2>6, <2>7, <2>8, <2>9, <2>10, <2>11
       DEF Next, DcimNext, IpamNext, PrefixNext, AddressNext
<1> QED
  BY <1>1, <1>2, PTL DEF Spec

-----------------------------------------------------------------------------
(* Each check reads some of the collections only.                           *)
LEMMA Frame ==
    ASSUME NEW s, NEW t
    PROVE  /\ t.sites = s.sites /\ t.racks = s.racks /\ RacksSound(s) => RacksSound(t)
           /\ t.sites = s.sites /\ t.racks = s.racks /\ t.devices = s.devices /\ DevicesSound(s)
              => DevicesSound(t)
           /\ t.devices = s.devices /\ InterfacesSound(s) => InterfacesSound(t)
           /\ t.devices = s.devices /\ ConnectionsSound(s) => ConnectionsSound(t)
           /\ t.devices = s.devices /\ Apart(s) => Apart(t)
           /\ t.prefixes = s.prefixes /\ ParentsSound(s) => ParentsSound(t)
           /\ t.prefixes = s.prefixes /\ OverlapsSound(s) => OverlapsSound(t)
           /\ t.addresses = s.addresses /\ HostsSound(s) => HostsSound(t)
           /\ t.addresses = s.addresses /\ t.prefixes = s.prefixes /\ t.devices = s.devices
              /\ AddressesSound(s) => AddressesSound(t)
<1>1. t.sites = s.sites /\ t.racks = s.racks /\ RacksSound(s) => RacksSound(t)
  BY DEF RacksSound, Racks
<1>2. t.sites = s.sites /\ t.racks = s.racks /\ t.devices = s.devices /\ DevicesSound(s)
      => DevicesSound(t)
  BY DEF DevicesSound, Racks, Devices
<1>3. t.devices = s.devices /\ InterfacesSound(s) => InterfacesSound(t)
  BY DEF InterfacesSound, Devices
<1>4. t.devices = s.devices /\ ConnectionsSound(s) => ConnectionsSound(t)
  BY DEF ConnectionsSound, Devices
<1>5. t.devices = s.devices /\ Apart(s) => Apart(t)
  BY DEF Apart, Devices
<1>6. t.prefixes = s.prefixes /\ ParentsSound(s) => ParentsSound(t)
  BY DEF ParentsSound, Prefixes
<1>7. t.prefixes = s.prefixes /\ OverlapsSound(s) => OverlapsSound(t)
  BY DEF OverlapsSound, Prefixes, Declared
<1>8. t.addresses = s.addresses /\ HostsSound(s) => HostsSound(t)
  BY DEF HostsSound, Addresses
<1>9. t.addresses = s.addresses /\ t.prefixes = s.prefixes /\ t.devices = s.devices
      /\ AddressesSound(s) => AddressesSound(t)
  BY DEF AddressesSound, Addresses, Prefixes, Devices
<1> QED
  BY <1>1, <1>2, <1>3, <1>4, <1>5, <1>6, <1>7, <1>8, <1>9

(* A device that occupies its position leaves all devices apart.            *)
LEMMA SavedDeviceApart ==
    ASSUME TypeOK, Apart(inventory), NEW old \in Device \cup {None}, NEW new \in Device,
           NEW device \in DeviceRecord, ValidDevice(inventory, old, new, device)
    PROVE  Apart([inventory EXCEPT !.devices = Put(@, old, new, device)])
<1> DEFINE t == [inventory EXCEPT !.devices = Put(@, old, new, device)]
<1>1. inventory.devices \in [Device -> DeviceRecord \cup {None}]
      /\ t.devices = Put(inventory.devices, old, new, device)
  BY DEF TypeOK, Inventories
<1>2. \A d \in Devices(t) : \/ d = new /\ t.devices[d] = device
                            \/ /\ d \in Devices(inventory) \ {old, new}
                               /\ t.devices[d] = inventory.devices[d]
  BY <1>1 DEF Put, Devices
<1>3. \A d \in Devices(inventory) \ {old} :
          device.place # None /\ inventory.devices[d].place # None
              => ~Share(device.place, inventory.devices[d].place)
  BY DEF ValidDevice, CanOccupy
<1>4. \A p, q \in Place : Share(p, q) => Share(q, p)
  BY DEF Share
<1>5. \A d \in Devices(t) : t.devices[d].place # None => t.devices[d].place \in Place
  BY <1>1, <1>2 DEF Devices, DeviceRecord
<1> HIDE DEF t
<1>6. Apart(t)
  BY <1>2, <1>3, <1>4, <1>5 DEF Apart
<1> QED
  BY <1>6 DEF t

-----------------------------------------------------------------------------
(* The checks that precede a delete leave nothing behind that needs it.     *)
LEMMA DeleteSiteKeeps ==
    ASSUME TypeOK, Integrity(inventory), NEW x \in Site, ~SiteNeeded(x)
    PROVE  Integrity([inventory EXCEPT !.sites = @ \ {x}])
<1> DEFINE t == [inventory EXCEPT !.sites = @ \ {x}]
<1>1. /\ t.sites = inventory.sites \ {x}
      /\ t.racks = inventory.racks /\ t.devices = inventory.devices
      /\ t.prefixes = inventory.prefixes /\ t.addresses = inventory.addresses
  BY DEF TypeOK, Inventories
<1> HIDE DEF t
<1>2. RacksSound(t)
  BY <1>1 DEF Integrity, Sound, RacksSound, Racks, SiteNeeded
<1>3. DevicesSound(t)
  BY <1>1 DEF Integrity, Sound, DevicesSound, Racks, Devices, SiteNeeded
<1>4. Integrity(t)
  BY <1>1, <1>2, <1>3, Frame DEF Integrity, Sound
<1> QED
  BY <1>4 DEF t

LEMMA DeleteRackKeeps ==
    ASSUME TypeOK, Integrity(inventory), NEW r \in Rack, ~RackNeeded(r)
    PROVE  Integrity([inventory EXCEPT !.racks[r] = None])
<1> DEFINE t == [inventory EXCEPT !.racks[r] = None]
<1>1. /\ t.sites = inventory.sites /\ t.devices = inventory.devices
      /\ t.prefixes = inventory.prefixes /\ t.addresses = inventory.addresses
      /\ Racks(t) = Racks(inventory) \ {r}
      /\ \A q \in Rack \ {r} : t.racks[q] = inventory.racks[q]
  BY DEF TypeOK, Inventories, Racks
<1> HIDE DEF t
<1>2. Racks(inventory) \subseteq Rack
  BY DEF Racks
<1>3. RacksSound(t)
  BY <1>1, <1>2 DEF Integrity, Sound, RacksSound
<1>4. DevicesSound(t)
  BY <1>1, <1>2 DEF Integrity, Sound, DevicesSound, Devices, RackNeeded
<1>5. Integrity(t)
  BY <1>1, <1>3, <1>4, Frame DEF Integrity, Sound
<1> QED
  BY <1>5 DEF t

LEMMA DeleteDeviceKeeps ==
    ASSUME TypeOK, Integrity(inventory), NEW d \in Device, ~DeviceNeeded(d)
    PROVE  Integrity([inventory EXCEPT !.devices[d] = None])
<1> DEFINE t == [inventory EXCEPT !.devices[d] = None]
<1>1. /\ t.sites = inventory.sites /\ t.racks = inventory.racks
      /\ t.prefixes = inventory.prefixes /\ t.addresses = inventory.addresses
      /\ Devices(t) = Devices(inventory) \ {d}
      /\ \A e \in Device \ {d} : t.devices[e] = inventory.devices[e]
  BY DEF TypeOK, Inventories, Devices
<1> HIDE DEF t
<1>2. Devices(inventory) \subseteq Device
  BY DEF Devices
<1>3. DevicesSound(t)
  BY <1>1, <1>2 DEF Integrity, Sound, DevicesSound, Racks
<1>4. InterfacesSound(t)
  BY <1>1 DEF Integrity, Sound, InterfacesSound, DeviceNeeded
<1>5. ConnectionsSound(t)
  BY <1>1 DEF Integrity, Sound, ConnectionsSound, DeviceNeeded
<1>6. Apart(t)
  BY <1>1, <1>2 DEF Integrity, Apart
<1>7. AddressesSound(t)
  <2>1. \A a \in Addresses(inventory) :
           Readable(inventory.addresses[a].cidr) /\ inventory.addresses[a].interface # None
              => DeviceOf[inventory.addresses[a].interface] \in Devices(t)
    <3> SUFFICES ASSUME NEW a \in Addresses(inventory),
                        Readable(inventory.addresses[a].cidr),
                        inventory.addresses[a].interface # None
                 PROVE  DeviceOf[inventory.addresses[a].interface] \in Devices(t)
      OBVIOUS
    <3>1. inventory.addresses[a].interface \in Interface
      BY DEF Addresses, TypeOK, Inventories, AddressRecord
    <3> QED
      BY <1>4, <3>1 DEF InterfacesSound
  <2> QED
    BY <1>1, <2>1 DEF Integrity, Sound, AddressesSound, Addresses, Prefixes
<1>8. Integrity(t)
  BY <1>1, <1>3, <1>4, <1>5, <1>6, <1>7, Frame DEF Integrity, Sound
<1> QED
  BY <1>8 DEF t

LEMMA DeletePrefixKeeps ==
    ASSUME TypeOK, Integrity(inventory), NEW p \in Prefix, ~PrefixNeeded(p)
    PROVE  Integrity([inventory EXCEPT !.prefixes[p] = None])
<1> DEFINE t == [inventory EXCEPT !.prefixes[p] = None]
<1>1. /\ t.sites = inventory.sites /\ t.racks = inventory.racks
      /\ t.devices = inventory.devices /\ t.addresses = inventory.addresses
      /\ Prefixes(t) = Prefixes(inventory) \ {p}
      /\ t.prefixes[p] = None
      /\ \A q \in Prefix \ {p} : t.prefixes[q] = inventory.prefixes[q]
  BY DEF TypeOK, Inventories, Prefixes
<1> HIDE DEF t
<1>2. \A q \in Prefixes(inventory) : q \in Prefix /\ inventory.prefixes[q].parent # p
                                    /\ inventory.prefixes[q].parent \in Prefix \cup {None}
  BY DEF PrefixNeeded, Prefixes, TypeOK, Inventories, PrefixRecord
<1>3. ParentsSound(t)
  <2> SUFFICES ASSUME NEW q \in Prefixes(t), Readable(t.prefixes[q].cidr),
                      t.prefixes[q].parent # None
               PROVE  /\ t.prefixes[q].parent \in Prefixes(t)
                      /\ LET parent == t.prefixes[t.prefixes[q].parent]
                         IN  /\ parent.cidr.family = 4 /\ parent.vrf = t.prefixes[q].vrf
                             /\ Readable(parent.cidr)
                                  => Hosts[t.prefixes[q].cidr] \subseteq Hosts[parent.cidr]
    BY DEF ParentsSound
  <2>1. /\ q \in Prefixes(inventory) /\ t.prefixes[q] = inventory.prefixes[q]
        /\ t.prefixes[q].parent # p /\ t.prefixes[q].parent \in Prefix
    BY <1>1, <1>2
  <2>2. t.prefixes[t.prefixes[q].parent] = inventory.prefixes[inventory.prefixes[q].parent]
    BY <1>1, <2>1
  <2> QED
    BY <1>1, <2>1, <2>2 DEF Integrity, Sound, ParentsSound
<1>4. OverlapsSound(t)
  BY <1>1, <1>2 DEF Integrity, Sound, OverlapsSound, Declared
<1>5. Nested(t.prefixes)
  <2> SUFFICES ASSUME NEW q \in Prefix, t.prefixes[q] # None, t.prefixes[q].parent # None
               PROVE  LET parent == t.prefixes[t.prefixes[q].parent]
                      IN  /\ parent # None /\ parent.vrf = t.prefixes[q].vrf
                          /\ t.prefixes[q].cidr.length > parent.cidr.length
    BY DEF Nested
  <2>1. /\ q \in Prefixes(inventory) /\ t.prefixes[q] = inventory.prefixes[q]
        /\ t.prefixes[q].parent # p /\ t.prefixes[q].parent \in Prefix
    BY <1>1, <1>2 DEF Prefixes
  <2>2. t.prefixes[t.prefixes[q].parent] = inventory.prefixes[inventory.prefixes[q].parent]
    BY <1>1, <2>1
  <2> QED
    BY <2>1, <2>2 DEF Integrity, Nested
<1>6. AddressesSound(t)
  <2>1. \A a \in Addresses(inventory) :
          /\ inventory.addresses[a].prefix # p
          /\ inventory.addresses[a].prefix \in Prefix \cup {None}
    BY DEF PrefixNeeded, Addresses, TypeOK, Inventories, AddressRecord
  <2> QED
    BY <1>1, <2>1 DEF Integrity, Sound, AddressesSound, Addresses, Devices
<1>7. Integrity(t)
  BY <1>1, <1>3, <1>4, <1>5, <1>6, Frame DEF Integrity, Sound
<1> QED
  BY <1>7 DEF t

LEMMA DeleteAddressKeeps ==
    ASSUME TypeOK, Integrity(inventory), NEW a \in Address
    PROVE  Integrity([inventory EXCEPT !.addresses[a] = None])
<1> DEFINE t == [inventory EXCEPT !.addresses[a] = None]
<1>1. /\ t.sites = inventory.sites /\ t.racks = inventory.racks
      /\ t.devices = inventory.devices /\ t.prefixes = inventory.prefixes
      /\ Addresses(t) = Addresses(inventory) \ {a}
      /\ \A b \in Address \ {a} : t.addresses[b] = inventory.addresses[b]
  BY DEF TypeOK, Inventories, Addresses
<1> HIDE DEF t
<1>2. Addresses(inventory) \subseteq Address
  BY DEF Addresses
<1>3. HostsSound(t)
  BY <1>1, <1>2 DEF Integrity, Sound, HostsSound
<1>4. AddressesSound(t)
  BY <1>1, <1>2 DEF Integrity, Sound, AddressesSound, Prefixes, Devices
<1>5. Integrity(t)
  BY <1>1, <1>3, <1>4, Frame DEF Integrity, Sound
<1> QED
  BY <1>5 DEF t

-----------------------------------------------------------------------------
(* Every mutation keeps the integrity of an inventory that has it: a save   *)
(* because of what it checks, a delete because of what it looks for.        *)
LEMMA StepKeepsIntegrity ==
    TypeOK /\ Integrity(inventory) /\ [Next]_vars => Integrity(inventory')
<1> SUFFICES ASSUME TypeOK, Integrity(inventory), [Next]_vars PROVE Integrity(inventory')
  OBVIOUS
<1> USE DEF Integrity
<1>1. CASE UNCHANGED inventory
  BY <1>1
<1>2. ASSUME NEW new \in Site, NEW old \in Site \cup {None}, SaveSite(old, new)
      PROVE  Integrity(inventory')
  <2> DEFINE t == [inventory EXCEPT !.sites = (@ \ {old}) \cup {new}]
  <2>1. t.devices = inventory.devices /\ t.prefixes = inventory.prefixes
    BY DEF TypeOK, Inventories
  <2>2. UNCHANGED inventory \/ (Sound(t) /\ inventory' = t)
    BY <1>2 DEF SaveSite, Save
  <2> QED
    BY <1>1, <2>1, <2>2, Frame
<1>3. ASSUME NEW new \in Rack, NEW old \in Rack \cup {None}, NEW rack \in RackRecord,
             SaveRack(old, new, rack)
      PROVE  Integrity(inventory')
  <2> DEFINE t == [inventory EXCEPT !.racks = Put(@, old, new, rack)]
  <2>1. t.devices = inventory.devices /\ t.prefixes = inventory.prefixes
    BY DEF TypeOK, Inventories
  <2>2. UNCHANGED inventory \/ (Sound(t) /\ inventory' = t)
    BY <1>3 DEF SaveRack, Save
  <2> QED
    BY <1>1, <2>1, <2>2, Frame
<1>4. ASSUME NEW new \in Device, NEW old \in Device \cup {None}, NEW device \in DeviceRecord,
             SaveDevice(old, new, device)
      PROVE  Integrity(inventory')
  <2> DEFINE t == [inventory EXCEPT !.devices = Put(@, old, new, device)]
  <2>1. t.prefixes = inventory.prefixes
    BY DEF TypeOK, Inventories
  <2>2. \/ UNCHANGED inventory
        \/ Sound(t) /\ inventory' = t /\ ValidDevice(inventory, old, new, device)
    BY <1>4 DEF SaveDevice, Save
  <2> QED
    BY <1>1, <2>1, <2>2, SavedDeviceApart
<1>5. ASSUME NEW new \in Prefix, NEW old \in Prefix \cup {None}, NEW prefix \in PrefixRecord,
             SavePrefix(old, new, prefix)
      PROVE  Integrity(inventory')
  <2> DEFINE t == [inventory EXCEPT !.prefixes = Put(@, old, new, prefix)]
  <2>1. t.devices = inventory.devices /\ t.prefixes = Put(inventory.prefixes, old, new, prefix)
    BY DEF TypeOK, Inventories
  <2>2. \/ UNCHANGED inventory
        \/ Sound(t) /\ inventory' = t /\ ValidPrefix(inventory, old, new, prefix)
    BY <1>5 DEF SavePrefix, Save
  <2> QED
    BY <1>1, <2>1, <2>2, Frame DEF ValidPrefix
<1>6. ASSUME NEW new \in Address, NEW old \in Address \cup {None},
             NEW address \in AddressRecord, SaveAddress(old, new, address)
      PROVE  Integrity(inventory')
  <2> DEFINE t == [inventory EXCEPT !.addresses = Put(@, old, new, address)]
  <2>1. t.devices = inventory.devices /\ t.prefixes = inventory.prefixes
    BY DEF TypeOK, Inventories
  <2>2. UNCHANGED inventory \/ (Sound(t) /\ inventory' = t)
    BY <1>6 DEF SaveAddress, Save
  <2> QED
    BY <1>1, <2>1, <2>2, Frame
<1>7. ASSUME NEW new \in Site, DeleteSite(new) PROVE Integrity(inventory')
  BY <1>1, <1>7, DeleteSiteKeeps DEF DeleteSite, Delete
<1>8. ASSUME NEW new \in Rack, DeleteRack(new) PROVE Integrity(inventory')
  BY <1>1, <1>8, DeleteRackKeeps DEF DeleteRack, Delete
<1>9. ASSUME NEW new \in Device, DeleteDevice(new) PROVE Integrity(inventory')
  BY <1>1, <1>9, DeleteDeviceKeeps DEF DeleteDevice, Delete
<1>10. ASSUME NEW new \in Prefix, DeletePrefix(new) PROVE Integrity(inventory')
  BY <1>1, <1>10, DeletePrefixKeeps DEF DeletePrefix, Delete
<1>11. ASSUME NEW new \in Address, DeleteAddress(new) PROVE Integrity(inventory')
  BY <1>1, <1>11, DeleteAddressKeeps DEF DeleteAddress, Delete
<1>12. CASE UNCHANGED vars
  BY <1>1, <1>12 DEF vars
<1> QED
  BY <1>2, <1>3, <1>4, <1>5, <1>6, <1>7, <1>8, <1>9, <1>10, <1>11, <1>12
     DEF Next, DcimNext, IpamNext, PrefixNext, AddressNext

(* From any inventory at all, no step loses its integrity.                  *)
THEOREM IntegrityKept == Spec => [][Integrity(inventory) => Integrity(inventory')]_vars
<1>1. TypeOK /\ [Next]_vars => [Integrity(inventory) => Integrity(inventory')]_vars
  BY StepKeepsIntegrity
<1> QED
  BY <1>1, TypeCorrect, PTL DEF Spec

(* An installation whose seed has integrity keeps it.                       *)
LEMMA AlwaysIntegrity == Spec /\ Integrity(Seed) => [](TypeOK /\ Integrity(inventory))
<1>1. Init /\ Integrity(Seed) => Integrity(inventory)
  BY DEF Init
<1>2. TypeOK /\ Integrity(inventory) /\ [Next]_vars => Integrity(inventory)'
  BY StepKeepsIntegrity
<1> QED
  BY <1>1, <1>2, TypeCorrect, PTL DEF Spec

(* Nothing a request saves or deletes leaves a reference dangling.          *)
THEOREM ReferencesTheorem == Spec /\ Integrity(Seed) => []ReferencesResolve
<1>1. TypeOK /\ Integrity(inventory) => ReferencesResolve
  <2> SUFFICES ASSUME TypeOK, Integrity(inventory) PROVE ReferencesResolve
    OBVIOUS
  <2>1. \A p \in Prefixes(inventory) :
           inventory.prefixes[p].parent \in Prefixes(inventory) \cup {None}
    BY DEF Integrity, Nested, Prefixes, TypeOK, Inventories, PrefixRecord
  <2> QED
    BY <2>1 DEF ReferencesResolve, Integrity, Sound, RacksSound, DevicesSound,
                InterfacesSound, AddressesSound
<1> QED
  BY <1>1, AlwaysIntegrity, PTL

(* A racked device stands at the site of its rack.                          *)
THEOREM RackedTheorem == Spec /\ Integrity(Seed) => []RackedAtHome
<1>1. Integrity(inventory) => RackedAtHome
  BY DEF RackedAtHome, Integrity, Sound, DevicesSound
<1> QED
  BY <1>1, AlwaysIntegrity, PTL

(* No two devices take the same unit of a rack face.                        *)
THEOREM UnitsTheorem == Spec /\ Integrity(Seed) => []UnitsApart
<1>1. Integrity(inventory) => UnitsApart
  BY DEF UnitsApart, Integrity, Apart
<1> QED
  BY <1>1, AlwaysIntegrity, PTL

(* Prefixes of a VRF that share an address are parent and child.            *)
THEOREM OverlapTheorem == Spec /\ Integrity(Seed) => []OverlapIsParenthood
<1>1. Integrity(inventory) => OverlapIsParenthood
  BY DEF OverlapIsParenthood, Integrity, Sound, OverlapsSound, Declared
<1> QED
  BY <1>1, AlwaysIntegrity, PTL

(* A prefix that can be read holds the address it is written with.          *)
LEMMA OwnHost ==
    ASSUME NEW c \in Cidr, Readable(c)
    PROVE  c.host \in Hosts[c]
BY CidrAssumption DEF Hosts, Readable, Host

LEMMA Descending ==
    \A a, b, c \in Nat : a > b /\ b > c => a # c /\ c # b /\ ~(c > a)
OBVIOUS

(* IPv4 hierarchies have two levels: a third would overlap the first, whose *)
(* child it is not, and a longer chain of parents never closes.             *)
THEOREM LevelsTheorem == Spec /\ Integrity(Seed) => []TwoLevels
<1>1. TypeOK /\ Integrity(inventory) => TwoLevels
  <2> SUFFICES ASSUME TypeOK, Integrity(inventory), NEW p \in Prefixes(inventory),
                      NEW q, q = inventory.prefixes[p].parent, q # None,
                      NEW r, r = inventory.prefixes[q].parent, r # None,
                      Readable(inventory.prefixes[p].cidr),
                      Readable(inventory.prefixes[q].cidr),
                      Readable(inventory.prefixes[r].cidr)
               PROVE  FALSE
    BY DEF TwoLevels
  <2> DEFINE P == inventory.prefixes[p]
             Q == inventory.prefixes[q]
             R == inventory.prefixes[r]
  <2>1. /\ \A x \in Prefixes(inventory) :
              /\ x \in Prefix /\ inventory.prefixes[x] \in PrefixRecord
              /\ inventory.prefixes[x].parent \in Prefix \cup {None}
        /\ \A x \in Prefixes(inventory) :
              inventory.prefixes[x].parent # None =>
                /\ inventory.prefixes[x].parent \in Prefixes(inventory)
                /\ inventory.prefixes[inventory.prefixes[x].parent].vrf = inventory.prefixes[x].vrf
                /\ inventory.prefixes[x].cidr.length
                     > inventory.prefixes[inventory.prefixes[x].parent].cidr.length
    BY DEF Integrity, Nested, Prefixes, TypeOK, Inventories, PrefixRecord
  <2>2. /\ q \in Prefixes(inventory) /\ r \in Prefixes(inventory)
        /\ P.vrf = Q.vrf /\ Q.vrf = R.vrf
        /\ P.cidr.length > Q.cidr.length /\ Q.cidr.length > R.cidr.length
    BY <2>1
  <2>3. /\ P.cidr \in Cidr /\ Q.cidr \in Cidr /\ R.cidr \in Cidr
        /\ P.cidr.length \in Nat /\ Q.cidr.length \in Nat /\ R.cidr.length \in Nat
    BY <2>1, <2>2, CidrAssumption DEF PrefixRecord
  <2>4. \A x \in Prefixes(inventory) :
           LET y == inventory.prefixes[x].parent
           IN  /\ Readable(inventory.prefixes[x].cidr) /\ y # None
               /\ Readable(inventory.prefixes[y].cidr)
               => Hosts[inventory.prefixes[x].cidr] \subseteq Hosts[inventory.prefixes[y].cidr]
    BY DEF Integrity, Sound, ParentsSound
  <2>5. /\ Hosts[P.cidr] \subseteq Hosts[Q.cidr] /\ Hosts[Q.cidr] \subseteq Hosts[R.cidr]
        /\ P.cidr.host \in Hosts[P.cidr]
    <3>1. Hosts[P.cidr] \subseteq Hosts[Q.cidr]
      BY <2>2, <2>4
    <3>2. Hosts[Q.cidr] \subseteq Hosts[R.cidr]
      BY <2>2, <2>4
    <3> QED
      BY <2>3, <3>1, <3>2, OwnHost
  <2>6. p # r /\ r # q
    <3>1. P.cidr.length # R.cidr.length /\ R.cidr.length # Q.cidr.length
      BY <2>2, <2>3, Descending
    <3> QED
      BY <3>1
  <2>7. P.parent = r \/ R.parent = p
    <3>1. \A x, y \in Prefixes(inventory) :
             /\ x # y /\ inventory.prefixes[x].vrf = inventory.prefixes[y].vrf
             /\ Hosts[inventory.prefixes[x].cidr] \cap Hosts[inventory.prefixes[y].cidr] # {}
             => inventory.prefixes[x].parent = y \/ inventory.prefixes[y].parent = x
      BY DEF Integrity, Sound, OverlapsSound, Declared
    <3> QED
      BY <2>2, <2>5, <2>6, <3>1
  <2>8. R.parent = p
    BY <2>6, <2>7
  <2>9. R.cidr.length > P.cidr.length
    <3>1. R.parent # None
      BY <2>8, NoneAssumption, <2>1
    <3> QED
      BY <2>1, <2>2, <2>8, <3>1
  <2> QED
    BY <2>2, <2>3, <2>9, Descending
<1> QED
  BY <1>1, AlwaysIntegrity, PTL

(* What there is of prefixes and addresses is the seed's.                   *)
AsSeeded ==
    /\ \A p \in Prefixes(inventory) : inventory.prefixes[p] = Seed.prefixes[p]
    /\ \A a \in Addresses(inventory) : inventory.addresses[a] = Seed.addresses[a]

(* A step writes what was checked as a whole, removes a prefix no address   *)
(* names or an address, or touches neither.                                 *)
LEMMA StepChecksHosts ==
    ASSUME TypeOK, [Next]_vars
    PROVE  \/ Sound(inventory')
           \/ inventory'.prefixes = inventory.prefixes /\ inventory'.addresses = inventory.addresses
           \/ /\ inventory'.addresses = inventory.addresses
              /\ \E p \in Prefix : /\ ~PrefixNeeded(p)
                                   /\ inventory'.prefixes = [inventory.prefixes EXCEPT ![p] = None]
           \/ /\ inventory'.prefixes = inventory.prefixes
              /\ \E a \in Address : inventory'.addresses = [inventory.addresses EXCEPT ![a] = None]
<1> DEFINE Kept == /\ inventory'.prefixes = inventory.prefixes
                   /\ inventory'.addresses = inventory.addresses
<1>1. CASE UNCHANGED inventory
  BY <1>1
<1>2. ASSUME NEW found, NEW valid, NEW next, Save(found, valid, next)
      PROVE  Sound(inventory') \/ UNCHANGED inventory
  BY <1>2 DEF Save
<1>3. ASSUME NEW new \in Site, NEW old \in Site \cup {None}, SaveSite(old, new)
      PROVE  Sound(inventory') \/ UNCHANGED inventory
  BY <1>2, <1>3 DEF SaveSite
<1>4. ASSUME NEW new \in Rack, NEW old \in Rack \cup {None}, NEW rack \in RackRecord,
             SaveRack(old, new, rack)
      PROVE  Sound(inventory') \/ UNCHANGED inventory
  BY <1>2, <1>4 DEF SaveRack
<1>5. ASSUME NEW new \in Device, NEW old \in Device \cup {None}, NEW device \in DeviceRecord,
             SaveDevice(old, new, device)
      PROVE  Sound(inventory') \/ UNCHANGED inventory
  BY <1>2, <1>5 DEF SaveDevice
<1>6. ASSUME NEW new \in Prefix, NEW old \in Prefix \cup {None}, NEW prefix \in PrefixRecord,
             SavePrefix(old, new, prefix)
      PROVE  Sound(inventory') \/ UNCHANGED inventory
  BY <1>2, <1>6 DEF SavePrefix
<1>7. ASSUME NEW new \in Address, NEW old \in Address \cup {None},
             NEW address \in AddressRecord, SaveAddress(old, new, address)
      PROVE  Sound(inventory') \/ UNCHANGED inventory
  BY <1>2, <1>7 DEF SaveAddress
<1>8. ASSUME NEW new \in Site, DeleteSite(new) PROVE Kept
  BY <1>8 DEF DeleteSite, Delete, TypeOK, Inventories
<1>9. ASSUME NEW new \in Rack, DeleteRack(new) PROVE Kept
  BY <1>9 DEF DeleteRack, Delete, TypeOK, Inventories
<1>10. ASSUME NEW new \in Device, DeleteDevice(new) PROVE Kept
  BY <1>10 DEF DeleteDevice, Delete, TypeOK, Inventories
<1>11. ASSUME NEW p \in Prefix, DeletePrefix(p)
       PROVE  \/ UNCHANGED inventory
              \/ /\ inventory'.addresses = inventory.addresses /\ ~PrefixNeeded(p)
                 /\ inventory'.prefixes = [inventory.prefixes EXCEPT ![p] = None]
  BY <1>11 DEF DeletePrefix, Delete, TypeOK, Inventories
<1>12. ASSUME NEW a \in Address, DeleteAddress(a)
       PROVE  \/ UNCHANGED inventory
              \/ /\ inventory'.prefixes = inventory.prefixes
                 /\ inventory'.addresses = [inventory.addresses EXCEPT ![a] = None]
  BY <1>12 DEF DeleteAddress, Delete, TypeOK, Inventories
<1>13. CASE UNCHANGED vars
  BY <1>1, <1>13 DEF vars
<1> HIDE DEF Kept
<1>14. \/ Sound(inventory') \/ UNCHANGED inventory \/ Kept
       \/ /\ inventory'.addresses = inventory.addresses
          /\ \E p \in Prefix : /\ ~PrefixNeeded(p)
                               /\ inventory'.prefixes = [inventory.prefixes EXCEPT ![p] = None]
       \/ /\ inventory'.prefixes = inventory.prefixes
          /\ \E a \in Address : inventory'.addresses = [inventory.addresses EXCEPT ![a] = None]
  BY <1>3, <1>4, <1>5, <1>6, <1>7, <1>8, <1>9, <1>10, <1>11, <1>12, <1>13
     DEF Next, DcimNext, IpamNext, PrefixNext, AddressNext, vars
<1> QED
  BY <1>14 DEF Kept

(* Whatever the seed, an IPv4 host is recorded once in a VRF, and inside its *)
(* prefix, unless nothing but deletes has changed the prefixes and addresses *)
(* of the seed; and no step, a delete that checks next to nothing included,  *)
(* misplaces one where all were in place.  (In the default data the hosts of *)
(* the two leaf switches lie outside the prefix they name.)                  *)
THEOREM HostsTheorem ==
    Spec => [](HostsPlaced \/ AsSeeded) /\ [][HostsPlaced => HostsPlaced']_vars
<1>1. Init => AsSeeded
  BY DEF Init, AsSeeded
<1>2. TypeOK /\ [Next]_vars => (HostsPlaced => HostsPlaced') /\ (HostsPlaced' \/ (AsSeeded => AsSeeded'))
  <2> SUFFICES ASSUME TypeOK, [Next]_vars
               PROVE  (HostsPlaced => HostsPlaced') /\ (HostsPlaced' \/ (AsSeeded => AsSeeded'))
    OBVIOUS
  <2>1. CASE Sound(inventory')
    BY <2>1 DEF Sound, HostsSound, AddressesSound, HostsPlaced
  <2>2. CASE inventory'.prefixes = inventory.prefixes /\ inventory'.addresses = inventory.addresses
    BY <2>2 DEF HostsPlaced, AsSeeded, Prefixes, Addresses
  <2>3. ASSUME NEW p \in Prefix, inventory'.addresses = inventory.addresses, ~PrefixNeeded(p),
               inventory'.prefixes = [inventory.prefixes EXCEPT ![p] = None]
        PROVE  (HostsPlaced => HostsPlaced') /\ (AsSeeded => AsSeeded')
    <3>1. \A q \in Prefix : inventory'.prefixes[q] = IF q = p THEN None ELSE inventory.prefixes[q]
      BY <2>3 DEF TypeOK, Inventories
    <3>2. \A a \in Addresses(inventory) :
             /\ inventory.addresses[a].prefix \in Prefix \cup {None}
             /\ inventory.addresses[a].prefix # p
      BY <2>3 DEF PrefixNeeded, Addresses, TypeOK, Inventories, AddressRecord
    <3>3. \A a \in Addresses(inventory) :
             inventory.addresses[a].prefix # None =>
                inventory'.prefixes[inventory.addresses[a].prefix]
                  = inventory.prefixes[inventory.addresses[a].prefix]
      BY <3>1, <3>2
    <3>4. Addresses(inventory') = Addresses(inventory)
      BY <2>3 DEF Addresses
    <3>5. HostsPlaced => HostsPlaced'
      BY <2>3, <3>3, <3>4 DEF HostsPlaced
    <3>6. AsSeeded => AsSeeded'
      BY <2>3, <3>1, <3>4 DEF AsSeeded, Prefixes
    <3> QED
      BY <3>5, <3>6
  <2>4. ASSUME NEW a \in Address, inventory'.prefixes = inventory.prefixes,
               inventory'.addresses = [inventory.addresses EXCEPT ![a] = None]
        PROVE  (HostsPlaced => HostsPlaced') /\ (AsSeeded => AsSeeded')
    <3>1. /\ Addresses(inventory') \subseteq Addresses(inventory)
          /\ \A b \in Addresses(inventory') : inventory'.addresses[b] = inventory.addresses[b]
      BY <2>4 DEF Addresses, TypeOK, Inventories
    <3>2. HostsPlaced => HostsPlaced'
      BY <2>4, <3>1 DEF HostsPlaced
    <3>3. AsSeeded => AsSeeded'
      BY <2>4, <3>1 DEF AsSeeded, Prefixes
    <3> QED
      BY <3>2, <3>3
  <2> QED
    BY <2>1, <2>2, <2>3, <2>4, StepChecksHosts
<1> QED
  BY <1>1, <1>2, TypeCorrect, PTL DEF Spec

-----------------------------------------------------------------------------
(* A device that is saved as validateDevicePayload allows fits its rack.    *)
LEMMA SavedDeviceFits ==
    ASSUME TypeOK, NEW old \in Device \cup {None}, NEW new \in Device, NEW device \in DeviceRecord,
           ValidDevice(inventory, old, new, device)
    PROVE  Fits([inventory EXCEPT !.devices = Put(@, old, new, device)], new)
<1> DEFINE t == [inventory EXCEPT !.devices = Put(@, old, new, device)]
<1>1. t.devices[new] = device /\ t.racks = inventory.racks
  BY DEF TypeOK, Inventories, Put
<1>2. CASE device.place = None
  BY <1>1, <1>2 DEF Fits
<1>3. CASE device.place # None
  <2>1. PICK place \in Place : place = device.place
    BY <1>3 DEF DeviceRecord
  <2>2. PICK rack \in RackRecord : rack = inventory.racks[place.rack] /\ ValidPosition(rack, place)
    BY <1>3, <2>1 DEF ValidDevice, Racks, TypeOK, Inventories
  <2>3. place.start + place.height - 1 <= rack.units
    BY <2>2 DEF ValidPosition
  <2>4. place.start \in Nat /\ place.height \in Nat /\ rack.units \in Nat
    BY UnitAssumption DEF Place, RackRecord
  <2>5. 1 .. (place.start + place.height - 1) \subseteq 1 .. rack.units
    BY <2>3, <2>4
  <2> HIDE DEF t
  <2>6. Fits(t, new)
    BY <1>1, <2>1, <2>2, <2>5 DEF Fits
  <2> QED
    BY <2>6 DEF t
<1> QED
  BY <1>2, <1>3

LEMMA DeviceKept ==
    ASSUME TypeOK, [Next]_vars, NEW d \in Device, inventory'.devices[d] # None
    PROVE  inventory'.devices[d] = inventory.devices[d] \/ Fits(inventory', d)
<1>1. ASSUME inventory'.devices = inventory.devices PROVE inventory'.devices[d] = inventory.devices[d]
  BY <1>1
<1>2. ASSUME NEW new \in Device, NEW old \in Device \cup {None}, NEW device \in DeviceRecord,
             SaveDevice(old, new, device)
      PROVE  inventory'.devices[d] = inventory.devices[d] \/ Fits(inventory', d)
  <2> DEFINE t == [inventory EXCEPT !.devices = Put(@, old, new, device)]
  <2>1. CASE inventory' = t /\ ValidDevice(inventory, old, new, device)
    <3>1. CASE d = new
      BY <2>1, <3>1, SavedDeviceFits
    <3>2. CASE d # new
      <4>1. t.devices[d] = IF d = old THEN None ELSE inventory.devices[d]
        BY <3>2 DEF TypeOK, Inventories, Put
      <4> QED
        BY <2>1, <4>1
    <3> QED
      BY <3>1, <3>2
  <2> QED
    BY <1>1, <1>2, <2>1 DEF SaveDevice, Save
<1>3. ASSUME NEW e \in Device, DeleteDevice(e) PROVE inventory'.devices[d] = inventory.devices[d]
  <2>1. inventory' = inventory \/ inventory'.devices = [inventory.devices EXCEPT ![e] = None]
    BY <1>3 DEF DeleteDevice, Delete, TypeOK, Inventories
  <2> QED
    BY <2>1 DEF TypeOK, Inventories
<1>4. ASSUME ~ \E new \in Device : \/ DeleteDevice(new)
                                   \/ \E old \in Device \cup {None}, device \in DeviceRecord :
                                         SaveDevice(old, new, device)
      PROVE  inventory'.devices = inventory.devices
  <2>1. CASE UNCHANGED vars
    BY <2>1 DEF vars
  <2>2. ASSUME NEW new \in Site, NEW old \in Site \cup {None}, SaveSite(old, new) \/ DeleteSite(new)
        PROVE  inventory'.devices = inventory.devices
    BY <2>2 DEF SaveSite, DeleteSite, Save, Delete, TypeOK, Inventories
  <2>3. ASSUME NEW new \in Rack, NEW old \in Rack \cup {None}, NEW rack \in RackRecord, SaveRack(old, new, rack)
        PROVE  inventory'.devices = inventory.devices
    BY <2>3 DEF SaveRack, Save, TypeOK, Inventories
  <2>4. ASSUME NEW r \in Rack, DeleteRack(r) PROVE inventory'.devices = inventory.devices
    BY <2>4 DEF DeleteRack, Delete, TypeOK, Inventories
  <2>5. ASSUME NEW new \in Prefix, NEW old \in Prefix \cup {None}, NEW prefix \in PrefixRecord,
               SavePrefix(old, new, prefix)
        PROVE  inventory'.devices = inventory.devices
    BY <2>5 DEF SavePrefix, Save, TypeOK, Inventories
  <2>6. ASSUME NEW p \in Prefix, DeletePrefix(p) PROVE inventory'.devices = inventory.devices
    BY <2>6 DEF DeletePrefix, Delete, TypeOK, Inventories
  <2>7. ASSUME NEW new \in Address, NEW old \in Address \cup {None}, NEW address \in AddressRecord,
               SaveAddress(old, new, address)
        PROVE  inventory'.devices = inventory.devices
    BY <2>7 DEF SaveAddress, Save, TypeOK, Inventories
  <2>8. ASSUME NEW a \in Address, DeleteAddress(a) PROVE inventory'.devices = inventory.devices
    BY <2>8 DEF DeleteAddress, Delete, TypeOK, Inventories
  <2> QED
    BY <1>4, <2>1, <2>2, <2>3, <2>4, <2>5, <2>6, <2>7, <2>8
       DEF Next, DcimNext, IpamNext, PrefixNext, AddressNext
<1> QED
  BY <1>1, <1>2, <1>3, <1>4

(* A device that a step leaves in its place sticks out of its rack after it *)
(* only if it did before or the step changed a rack: whatever the seed, a   *)
(* device is never saved into units its rack does not have.                 *)
THEOREM OutgrowTheorem == Spec => OnlyResizingOutgrows
<1> DEFINE Step == \A d \in Device :
                      /\ inventory'.devices[d] # None /\ ~Fits(inventory', d)
                      => /\ inventory.devices[d] = inventory'.devices[d]
                         /\ Fits(inventory, d) => inventory'.racks # inventory.racks
<1>1. TypeOK /\ [Next]_vars => [Step]_vars
  <2> SUFFICES ASSUME TypeOK, [Next]_vars, NEW d \in Device,
                      inventory'.devices[d] # None, ~Fits(inventory', d)
               PROVE  /\ inventory.devices[d] = inventory'.devices[d]
                      /\ Fits(inventory, d) => inventory'.racks # inventory.racks
    OBVIOUS
  <2>1. inventory.devices[d] = inventory'.devices[d]
    BY DeviceKept
  <2>2. ASSUME inventory'.racks = inventory.racks PROVE Fits(inventory', d) <=> Fits(inventory, d)
    BY <2>1, <2>2 DEF Fits
  <2> QED
    BY <2>1, <2>2
<1>2. OnlyResizingOutgrows <=> [][Step]_vars
  BY DEF OnlyResizingOutgrows
<1> HIDE DEF Step
<1> QED
  BY <1>1, <1>2, TypeCorrect, PTL DEF Spec

(* A conflict is never answered for what the inventory had already: nothing *)
(* a delete or an accepted save leaves behind blocks the saves to come.     *)
THEOREM ConflictTheorem == Spec /\ Integrity(Seed) => ConflictIsNew
<1>1. TypeOK /\ Integrity(inventory) => [answer' = "conflict" => Sound(inventory)]_vars
  BY DEF Integrity
<1>2. ConflictIsNew <=> [][answer' = "conflict" => Sound(inventory)]_vars
  BY DEF ConflictIsNew
<1> QED
  BY <1>1, <1>2, AlwaysIntegrity, PTL
=============================================================================
