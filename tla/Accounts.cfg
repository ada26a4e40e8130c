\* Accounts, sessions and the HR feed.
CONSTANTS
    None = None
    Department = {"dha", "gp-health"}
    Branch = {"dha-digital"}
    Province = {"gp"}
    Parent <- MCParent
    ProvinceDepts <- MCProvinceDepts
    Employee = {"emp1", "80000003"}
    Number = {"emp1", "80000003"}
    ShapeOf <- MCShapeOf
    External <- MCExternal
    User = {1, 2, 3}
    Superadmin = "root"
    Demo <- MCDemo
    Grant <- MCGrant
    FirstRow <- MCFirstRow
    Staff <- MCStaff
    StaffNumbers <- MCStaffNumbers
    Batch <- MCBatch
    Asked <- MCAsked
    Handler = {"h1", "h2"}
    Feeder = {"f1", "f2"}
    TTL = 2
    MaxSessions = 2
    MaxRequests = 2
SPECIFICATION Spec
INVARIANTS
    TypeOK
    SessionWithinEntitlement
    StaleAuthorityExpires
    NoNewSuperusers
PROPERTIES
    CreatedWithinCreator
    SyncClosesLeavers
    IdentifiersNeverMove
    AuthorityDrains
CHECK_DEADLOCK FALSE
