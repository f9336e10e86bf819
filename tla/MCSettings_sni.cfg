\* One goroutine, nothing fails: a domain that is the fake domain.
CONSTANTS
    Names = {n1, n2, n3}
    NoName = none
    Users = {u1}
    Handlers = {h1}
    h1 = h1
    Keep = keep
    MaxFields = 1
    Faults = {}
    Modes = {FALSE}
    MaxRequests = 0
    MaxNames = 0
SPECIFICATION MCSpec
SYMMETRY MCSymmetry
INVARIANTS OursReachPanel
