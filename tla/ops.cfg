SPECIFICATION Spec
CONSTANTS
    Messages = {m1}
    Folders = {"inbox", "trash", "archive"}
    Inbox = "inbox"
    Trash = "trash"
    MaxTasks = 3
    MaxFaults = 1
    MaxResets = 1
    Calm = {TRUE, FALSE}
INVARIANTS
    NothingLost
    OneCopy
    CalmLandsOrReports
PROPERTY ImplementsStore
CHECK_DEADLOCK FALSE
