SPECIFICATION Spec
CONSTANTS
    Tabs = {t1, t2}
    Parts = {"tokens", "servers"}
    Values = {1, 2}
    Inodes = {i1, i2, i3}
    Unset = Unset
    Absent = Absent
    Blank = Blank
    Torn = Torn
    Seriality = {FALSE}
SYMMETRY Alike
INVARIANT Readable
CHECK_DEADLOCK FALSE
