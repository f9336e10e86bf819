\* Two users, requests that do not overlap, nothing fails, no time passes.
CONSTANTS
    Users = {u1, u2}
    Handlers = {h1}
    Poller = poller
    Limits = {0, 1}
    MaxUsed = 2
    Never = never
    Keep = keep
    MaxTime = 0
    Faults = {}
    Serial = TRUE
SPECIFICATION FairSpec
PROPERTIES OnlyWhatWasAsked Removed Restored RaiseRestores
CHECK_DEADLOCK FALSE
