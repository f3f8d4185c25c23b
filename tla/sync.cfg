SPECIFICATION FairSpec
CONSTANTS
    MaxUid = 3
    MaxGen = 2
    Flags = {"seen"}
    NoValidity = NoValidity
    Conns = {a, b}
    Uncached = {b}
    Limits = {2}
    Worlds <- AllWorlds
    MaxFaults = 2
INVARIANTS
    TypeOK
    CountMatchesRows
    ListedOfSelected
    NoHole
    ListIsNewest
    FlagsSettle
PROPERTY NewMailListed
