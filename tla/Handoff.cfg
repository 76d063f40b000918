\* Two workers and one task, with faults of every kind.
CONSTANTS
    Id = {i1}
    Queue = {inbox, outbox, errors}
    Inbox = inbox
    Outbox = outbox
    ErrorQueue = errors
    Claimant = {alice, bob}
    NoOne = NoOne
    NoTask = NoTask
    None = None
    ArrivalPastWindow = 1
    Requests = {}
    Initial <- Waiting
    Leases = {1}
    MaxVersion = 1000
    MaxNow = 0
    MaxClaims = 2
    MaxAttempts = 2
    MaxFaults = 2
    MaxRenewals = 2
SPECIFICATION HandoffSpec
INVARIANTS WorkBounded ExactlyOnce
PROPERTIES LatestClaimWins Handled
\* Idle workers wait in Claim once every task is handled.
CHECK_DEADLOCK FALSE
