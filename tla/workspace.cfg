SPECIFICATION Spec
CONSTANTS
    o1 = o1
    o2 = o2
    c1 = c1
    c2 = c2
    r1 = r1
    r2 = r2
    p1 = p1
    p2 = p2
    None = None
    Torn = Torn
    Runs <- OneRun
    Specs <- AllSpecs
    Configs <- AllConfigs
    Contents <- TwoContents
    RoleNames <- TwoRoles
    Versions <- TwoVersions
    Paths <- TwoPaths
    RolesPath = None
    EnvRolesPath = None
    DefaultRolesPath = p1
    MaxReconciles = 1
    MaxEdits = 2
INVARIANTS
    TypeOK
    RunsOwnContent
    OwnCredentials
