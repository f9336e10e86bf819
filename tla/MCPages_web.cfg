SPECIFICATION FairSpec
CONSTANTS
    Kilo = 4
    Cents = 4
    Day = 2
    Never = Never
    Views = {"users", "dash", "inbounds", "domains"}
    Now = 5
    Names = {n1, n2}
    Empty = Empty
    Existing <- MCExisting
    Typed <- MCTyped
    MaxUsed = 1
    MaxId = 2
    Slots = {s1, s2}
    n1 = n1
    n2 = n2
    s1 = s1
    s2 = s2
    MaxClicks = 2
    MaxOdd = 1
INVARIANTS TypeOK RestShowsTable
PROPERTIES WritesHitTheirRow UntouchedSaveKeeps ListConverges
CHECK_DEADLOCK FALSE
