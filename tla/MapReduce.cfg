\* Two splits, two partitions and two handlers.  A run that has ended is left.
CONSTANTS
    s1 = s1
    s2 = s2
    p1 = p1
    p2 = p2
    Split = {s1, s2}
    Partition = {p1, p2}
    Scenarios <- SmallScenarios
    Handler = {h1, h2}
    Copy = {1, 2}
    MaxTries = 3
    None = None
SPECIFICATION Spec
INVARIANTS  PublishedReadable OutputComplete ResultsStand
 
CHECK_DEADLOCK FALSE
