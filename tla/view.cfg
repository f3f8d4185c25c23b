SPECIFICATION FairSpec
CONSTANTS
    Folders = {"inbox", "archive"}
    Inbox = "inbox"
    Root = "root"
    MaxTasks = 2
    MaxMail = 1
    MaxLimit = 1
    MaxErrors = 0
    MaxPanics = 1
    Calm = {TRUE}
    MailIn = {TRUE}
INVARIANTS
    CalmListCurrent
PROPERTIES
    CalmLoadingEnds
    CalmNewsListed
    RendersSettle
CHECK_DEADLOCK FALSE
