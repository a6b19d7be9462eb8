CONSTANTS
    site1 = site1
    site2 = site2
    rack1 = rack1
    device1 = device1
    device2 = device2
    prefix1 = prefix1
    prefix2 = prefix2
    prefix3 = prefix3
    address1 = address1
    address2 = address2
    port = port
    global = global
    vrf1 = vrf1
    None = None
    Site = {site1, site2}
    Rack = {rack1}
    Device = {device1, device2}
    Prefix = {prefix1, prefix2, prefix3}
    Address = {address1, address2}
    Units = {1, 2}
    Cidr <- Cidrs
    Width = 2
    Vrf = {global, vrf1}
    Interface = {port}
    DeviceOf <- PortOf
    Connection <- Cable
    Seed <- Installed
SYMMETRY Symmetry
SPECIFICATION MCSpec
INVARIANTS
    ReferencesResolve
    RackedAtHome
    UnitsApart
    OverlapIsParenthood
    HostsPlaced
PROPERTIES
    OnlyResizingOutgrows
    ConflictIsNew
