SPECIFICATION Spec
CONSTANTS
    Symbols <- AllSymbols
    Trees <- AllTrees
    Files <- AllFiles
    Mails <- AllMails
    Message <- AllMessages
    Username = "me"
    Fields = {"To", "Subject"}
    MaxFiles = 1
    Worlds <- AllWorlds
INVARIANTS
    NothingLive
    AnswersOpenMessage
    EditLandsOnRow
PROPERTIES
    ImplementsLetter
