CONSTANTS
    admin = admin
    guest = guest
    local = local
    directory = directory
    role1 = role1
    global = global
    site = site
    s1 = s1
    s2 = s2
    None = None
    Person = {admin, guest}
    Provider = {local, directory}
    Role = {role1}
    Scope = {global, site}
    Session = {s1, s2}
    Transaction = {t1, t2}
    Call = {c1, c2}
    Reader = {q1}
    Admin = admin
    LocalProvider = local
    DefaultRole = role1
    AdminRole = role1
    Global = global
    Seeds <- Installed
SYMMETRY Symmetry
SPECIFICATION MCSpec
INVARIANTS
    DocumentsSound
    SpentStaysSpent
    CachedIdentityIsCurrent
