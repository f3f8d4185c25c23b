SPECIFICATION Spec
CONSTANTS
    Tabs = {t1, t2}
    Parts = {"tokens", "servers"}
    Values = {1, 2}
    Inodes = {i1, i2, i3}
    Unset = Unset
    Absent = Absent
    Blank = Blank
    Torn = Torn
    Seriality = {TRUE, FALSE}
SYMMETRY Alike
INVARIANTS
    ReadableIfSerial
    PartsKept
PROPERTY ImplementsStore
CHECK_DEADLOCK FALSE
