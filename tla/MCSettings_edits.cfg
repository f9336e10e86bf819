\* Either requests that do not overlap and name up to two settings, or two
\* goroutines and three requests that do; statements and both proxies may fail.
CONSTANTS
    Names = {n1, n2, n3}
    NoName = none
    Users = {u1, u2}
    Handlers = {h1, h2}
    h1 = h1
    Keep = keep
    MaxFields = 2
    Faults = {"db", "proxy", "collide"}
    Modes = {TRUE, FALSE}
    MaxRequests = 3
    MaxNames = 2
SPECIFICATION MCSpec
SYMMETRY MCSymmetry
INVARIANTS TypeOK VettedNamesApart SecretsFit AcceptedIsApplied
