\* Requests that do not overlap, nothing fails: time alone expires a user.
CONSTANTS
    Users = {u1}
    Handlers = {h1}
    Poller = poller
    Limits = {0}
    MaxUsed = 0
    Never = never
    Keep = keep
    MaxTime = 1
    Faults = {}
    Serial = TRUE
SPECIFICATION FairSpec
PROPERTY ExpiredRemoved
CHECK_DEADLOCK FALSE
