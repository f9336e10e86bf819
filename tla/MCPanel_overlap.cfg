\* One user; a handler and the loop overlap; everything fails; time passes.
CONSTANTS
    Users = {u1}
    Handlers = {h1}
    Poller = poller
    Limits = {0, 1}
    MaxUsed = 1
    Never = never
    Keep = keep
    MaxTime = 1
    Faults = {"core", "telegram", "db", "collide"}
    Serial = FALSE
SPECIFICATION Spec
INVARIANTS TypeOK LoneApplyRepairs
PROPERTY UsageKept
CHECK_DEADLOCK FALSE
