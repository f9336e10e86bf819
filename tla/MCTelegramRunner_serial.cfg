\* One goroutine calls Apply; every fault.
CONSTANTS
    Appliers = {a1}
    Main = main
    Configs = {c1, c2}
    Off = off
    Children = {k1, k2, k3}
    Nil = Nil
    Faults = {"write", "lookpath", "reload", "start", "crash", "slowload", "slowdeath"}
    Modes = {"embed", "noop"}
SPECIFICATION FairSpec
INVARIANTS TypeOK CacheTruthful AppliedHolds OffStops
PROPERTY Installed
CHECK_DEADLOCK FALSE
