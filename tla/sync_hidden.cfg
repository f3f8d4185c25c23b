SPECIFICATION Spec
CONSTANTS
    MaxUid = 3
    MaxGen = 1
    Flags = {}
    NoValidity = NoValidity
    Conns = {a}
    Uncached = {}
    Limits = {2}
    Worlds <- OnlyPlain
    MaxFaults = 0
INVARIANT ServeCachedHoldsAll
