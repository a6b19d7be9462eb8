CONSTANTS
    None = None
    Section = {"inventory", "jobs"}
    Content = {"good", "bad"}
    Inventory = "inventory"
    Sound = {"good"}
    BackupId = {b1, b2}
    MediaId = {m1, m2}
    Tenant = {"t1", "t2"}
    LinkObject = {"device"}
    MaxBytes = 3
    Dataset = {"sites", "prefixes"}
    RecordId = {"x"}
    MaxRows = 2
    SyncLimit = 0
    ImportJob = {j1}
    Default <- DefaultData
    Hook = {"search"}
    Crud = {"list", "detail"}
    Bare = {"jobs"}
    Clearable = {"search", "detail"}
    Key = {"a", "b"}
    Request = {r1, r2}
    RowOrder <- Rows
    GroupOrder <- Groups
    NodeOrder <- Nodes
    Lengths = {11, 12, 31, 32, 64, 108, 128}
    MaxDirect = 1
    Site = {"s1", "s2"}
    Role = {"spine", "leaf"}
    Vlan = {"v1"}
    Attributes <- NodeAttributes
    Point = {"a", "b", "c", "d"}
    Kind = {"cable", "l2"}
    Link <- Links
    MaxHops = 3
    InventoryId <- Records
    Versions <- Saved
    Start <- Started
    Order <- ReadOrder
    Named <- Spelt
    Identity = {"root", "local"}
    HomeOf <- Homes
    RolesOf <- RolesHeld
    PermissionsOf <- RolePermissions
    OpsTenant = "ops"
    Question <- Asked
    KeyPart <- PartOf
    PageSize = 1
    Reader = {"q1"}
    Writer = {"w1"}
SYMMETRY Symmetry
SPECIFICATION MCSpec
INVARIANTS
    RestoreIsWhole
    RecordsHaveContent
    ImportsStay
    ShownIsAsked
    SelectionIsShown
    UtilizationCounts
    TraceIsShortest
    ReadsAreCurrent
    AnsweredWithinGrants
CHECK_DEADLOCK FALSE
