\* A lock is collected, the set is written anew, and the removal is journaled last.
CONSTANTS
    d1 = d1
    d2 = d2
    s1 = s1
    s2 = s2
    p1 = p1
    p2 = p2
    c1 = c1
    c2 = c2
    DocId = {d1, d2}
    Set = {s1}
    Place = {p1, p2}
    Claimant = {c1, c2}
    NoOne = NoOne
    NoDoc = NoDoc
    Idle = Idle
    DocRequests <- Plain
    Holds = {0, 1}
    Batch = 1
    MaxVersion = 2
    MaxNow = 1
SPECIFICATION DocSpec
INVARIANTS DurableThroughout
