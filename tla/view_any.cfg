SPECIFICATION Spec
CONSTANTS
    Folders = {"inbox", "archive"}
    Inbox = "inbox"
    Root = "root"
    MaxTasks = 2
    MaxMail = 0
    MaxLimit = 2
    MaxErrors = 1
    MaxPanics = 0
    Calm = {FALSE}
    MailIn = {}
INVARIANT RowsOfView
PROPERTY NoSecondListing
CHECK_DEADLOCK FALSE
