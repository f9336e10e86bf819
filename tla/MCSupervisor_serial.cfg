\* One goroutine calls Apply; writes fail, the binary vanishes, checks reject.
CONSTANTS
    Appliers = {a1}
    Main = main
    Configs = {c1, c2, bad}
    Valid = {c1, c2}
    Children = {k1, k2, k3}
    Nil = Nil
    Faults = {"write", "lookpath"}
    Modes = {"embed"}
SPECIFICATION FairSpec
INVARIANTS TypeOK NoOrphan KeepsServing
PROPERTY ImplementsContract
CHECK_DEADLOCK FALSE
