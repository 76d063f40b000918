\* Claims of one queue, and claims that overlap in their queues.  The claims are made once each, so the
\* system stops.
CONSTANTS
    w1 = w1
    w2 = w2
    w3 = w3
    Waiter = {w1, w2, w3}
    Queue = {1, 2}
    Plans <- SmallPlans
    Sub = {s1, s2, s3}
    Nil = Nil
    MaxTasks = 2
    MaxSenders = 1
SPECIFICATION FairSpec
INVARIANTS NoLostWakeup
PROPERTIES Woken Drained
CHECK_DEADLOCK FALSE
