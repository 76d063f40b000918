\* Two calls over two tasks in two queues, and a process that dies at any step.
\* Every call is made once, so the system stops.
CONSTANTS
    Id = {i1, i2}
    i1 = i1
    i2 = i2
    alice = alice
    bob = bob
    Queue = {1, 2}
    Claimant = {alice, bob}
    NoOne = NoOne
    NoTask = NoTask
    ArrivalPastWindow = 1
    Call = {c1, c2}
    Struct = {s1, s2}
    Nil = Nil
    Requests <- TwoTasks
    Initial <- TwoTasksInitial
    Leases = {1}
    ExplicitIDs = FALSE
    MaxVersion = 1000
    MaxNow = 1
SPECIFICATION Spec
SYMMETRY Symmetry
INVARIANTS UniqueIDs IndexAgrees Durable
PROPERTIES ImplementsLocks ImplementsStore
CHECK_DEADLOCK FALSE
