CONSTANTS
    Scope = {s1, s2}
    Class = {c1}
    Blank = Blank
    MaxGen = 2
    MaxUint64 = 6
SPECIFICATION RSpec
PROPERTY ImplementsStore
CHECK_DEADLOCK FALSE
