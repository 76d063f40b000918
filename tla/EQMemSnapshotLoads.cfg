\* Two calls over one task, restarts, and snapshots at any time.
CONSTANTS
    Id = {i1}
    i1 = i1
    i2 = i2
    alice = alice
    bob = bob
    Queue = {1, 2}
    Claimant = {alice, bob}
    NoOne = NoOne
    NoTask = NoTask
    ArrivalPastWindow = 1
    Call = {c1, c2}
    Struct = {s1, s2}
    Nil = Nil
    Requests <- OneTask
    Initial <- OneTaskInitial
    Leases = {1}
    ExplicitIDs = FALSE
    MaxVersion = 1000
    MaxNow = 1
SPECIFICATION SnapSpec
SYMMETRY Symmetry
INVARIANT Durable
CHECK_DEADLOCK FALSE
