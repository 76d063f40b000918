\* Two clients of two docs in two sets, and of one set beside a reader and the collector; restarts.
CONSTANTS
    d1 = d1
    d2 = d2
    s1 = s1
    s2 = s2
    p1 = p1
    p2 = p2
    c1 = c1
    c2 = c2
    DocId = {d1, d2}
    Set = {s1, s2}
    Place = {p1, p2}
    Claimant = {c1, c2}
    NoOne = NoOne
    NoDoc = NoDoc
    Idle = Idle
    DocRequests <- SingleAndDouble
    Holds = {0, 1}
    Batch = 1
    MaxVersion = 3
    MaxNow = 1
SPECIFICATION SceneSpec
SYMMETRY Symmetry
INVARIANTS MembersCounted SetIsMap DocDurable
PROPERTIES HolderKeepsSet SeenIsCurrent
