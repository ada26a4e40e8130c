\* Signed evidence of two replicas, over crashes and redeployments.
CONSTANTS
    None = None
    Replica = {"r1", "r2"}
    Key = {"k0", "k1", "k2", "k3"}
    Deployments <- Bare
    Data = {"d"}
    MaxRows = 2
    MaxRequests = 2
    MaxLives = 2
SPECIFICATION Spec
INVARIANT
    StaticKeyNeverMinted
CHECK_DEADLOCK FALSE
