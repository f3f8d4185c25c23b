SPECIFICATION FairSpec
CONSTANTS
    Messages = {m1, m2, m3}
    NoMessage = NoMessage
    Tasks = {t1, t2}
    Answers = {"body", "none", "error"}
    MaxPanics = 2
    Patience = {TRUE, FALSE}
INVARIANTS
    KeyInFlightIfPatient
    ShownIsOpen
PROPERTIES
    NoSecondFetch
    LoadingEnds
