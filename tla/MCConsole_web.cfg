SPECIFICATION MCSpec
CONSTANTS
    Tabs = {t1, t2}
    Paths = {a, b}
    Typing = {a, b, slashB, bad}
    Normal <- MCNormal
    Fakes = {f, g}
    Invalid = Invalid
    Absent = Absent
    a = a
    b = b
    slashB = slashB
    bad = bad
    f = f
    g = g
    t1 = t1
    t2 = t2
    MaxUnderWay = 2
    MaxToken = 2
    MaxPw = 2
    MaxClicks = 4
    FewClicks = 3
    MaxOdd = 1
INVARIANTS TypeOK ResetEvicts CopyShowsStored
PROPERTIES RotatesOnlyWhenAsked TabDecides LoginReleased
CHECK_DEADLOCK FALSE
