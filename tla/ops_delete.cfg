SPECIFICATION Spec
CONSTANTS
    Messages = {m1}
    Folders = {"inbox", "trash"}
    Inbox = "inbox"
    Trash = "trash"
    MaxTasks = 3
    MaxFaults = 0
    MaxResets = 0
    Calm = {TRUE}
INVARIANTS
    DeletedIsExpunged
CHECK_DEADLOCK FALSE
