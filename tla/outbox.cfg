SPECIFICATION FairSpec
CONSTANTS
    Drafts = {d1, d2}
    Blank = Blank
    Tasks = {t1, t2}
    Folders = {"sent", "drafts"}
    MaxFailures = 1
    MaxAccepts = 2
    LostAnswers = TRUE
    MaxPanics = 1
    Calm = {TRUE, FALSE}
INVARIANTS
    OneSendAtATime
    CalmKeepsDrafts
    CalmSendsOnce
    CalmRetriesPressed
PROPERTIES
    CalmSendSettles
