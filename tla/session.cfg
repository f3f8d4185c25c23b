SPECIFICATION FairSpec
CONSTANTS
    Accounts = {A, B}
    None = None
    Tasks = {t1, t2}
    MaxTokens = 3
    AnyTokens = 2
    MaxTroubles = 1
    Calmness = {TRUE, FALSE}
INVARIANTS
    ConnectionsCurrent
    OneAccountIfCalm
    OneRefreshIfCalm
    IdleTokenIfCalm
    LoggedOutStays
PROPERTIES
    AnswerKept
    LoadingEnds
CHECK_DEADLOCK FALSE
