SPECIFICATION MCSpec
CONSTANTS
    Tabs = {t1, t2}
    Paths = {a, b}
    Typing = {a, b, slashB, bad}
    Normal <- MCNormal
    Fakes = {f, g}
    Invalid = Invalid
    Absent = Absent
    a = a
    b = b
    slashB = slashB
    bad = bad
    f = f
    g = g
    t1 = t1
    t2 = t2
    MaxUnderWay = 2
    MaxToken = 1
    MaxPw = 2
    MaxClicks = 3
    FewClicks = 3
    MaxOdd = 0
PROPERTY LogsIntoNewURL
CHECK_DEADLOCK FALSE
