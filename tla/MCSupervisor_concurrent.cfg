\* Two goroutines inside Apply at once, main's shutdown, every fault, both modes.
CONSTANTS
    Appliers = {a1, a2}
    Main = main
    Configs = {c1, bad}
    Valid = {c1}
    Children = {k1, k2, k3}
    Nil = Nil
    Faults = {"write", "lookpath", "start", "crash", "slowload", "slowdeath"}
    Modes = {"embed", "noop"}
SPECIFICATION Spec
SYMMETRY MCSymmetry
INVARIANTS RunningTruthful StatusExact
CHECK_DEADLOCK FALSE
