\* Two dispatchers, one endpoint and one event, two crashes or lost UPDATEs, two
\* edits of the endpoint.
SPECIFICATION FairSpec
CONSTANTS
    Dispatchers = {w1, w2}
    Endpoints = {e1}
    Events = {v1}
    BatchSize = 2
    Retries = 2
    Threshold = 2
    MaxFaults = 2
    MaxEdits = 2
INVARIANTS
    TypeOK
    AutoDisable
    AttemptsDistinct
    FailedAfterAllAttempts
PROPERTIES
    ResentOnlyIfDisturbed
    ReopenedOnlyIfDoubled
    EverySettled
CHECK_DEADLOCK FALSE
