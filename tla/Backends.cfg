CONSTANTS
    Id = {1, 2}
    Queue = {1, 2}
    Claimant = {alice, bob}
    First = alice
    NoOne = NoOne
    NoTask = NoTask
    ArrivalPastWindow = 1
    DocId = {1, 2}
    Set = {1, 2}
    Place = {1, 2}
    NoDoc = NoDoc
    Modifications <- SmallModifications
    Stores <- SmallStores
    Leases = {1, 2}
    Holds = {1, 2}
    MaxNow = 1
    Requests <- SmallRequests
    ViaService <- SmallViaService
    Claims <- SmallClaims
    DocClaims <- SmallDocClaims
    MaxFaults = 1
    MaxTries = 2
    MaxClaimRetries = 2
    Protocol = 2
    Releases <- SmallReleases
    Floor = 2
    Ceiling = 2
    QueueGrants <- SmallQueueGrants
    DocGrants <- SmallDocGrants
    MaxReplaced = 1
SPECIFICATION Spec
 
 
INVARIANT StatsAgree
PROPERTY BackendSpec
PROPERTY CollectedWhole
PROPERTY WithinGrants
CHECK_DEADLOCK FALSE
