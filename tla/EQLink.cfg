\* One exchange; the thresholds keep the order of the defaults.
CONSTANTS
    Length <- Bodies
    Lifetime = 6
    PiggybackBefore = 4
    ForceBefore = 3
    HeartbeatAfter = 1
    PeerTimeout = 2
    MaxNow = 9
    MaxFaults = 1
    None = None
SPECIFICATION Spec
INVARIANTS   KeepsUp
PROPERTIES Returns
\* An exchange ends.
CHECK_DEADLOCK FALSE
