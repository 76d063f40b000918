\* Two requests over two queues and a namespace, scheduled fairly.  Every
\* request runs once, so the system stops.
CONSTANTS
    Call = {c1, c2}
    Queue = {1, 2}
    Namespace = {3}
    Struct = {s1, s2}
    Content = {empty, full}
    Empty = empty
    Nil = Nil
SPECIFICATION FairLocksSpec
INVARIANTS Exclusive NothingLost LocksInv
PROPERTIES Served
CHECK_DEADLOCK FALSE
