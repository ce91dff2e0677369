CONSTANTS
    Scope = {s1}
    Class = {c1, c2}
    Blank = Blank
    MaxGen = 3
    MaxUint64 = 7
SPECIFICATION GenSpec
PROPERTY NeverRewinds
CHECK_DEADLOCK FALSE
