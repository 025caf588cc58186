SPECIFICATION FairSpec
CONSTANTS
    MaxQuestions = 2
    MaxConversations = 2
    MaxChunks = 2
    MaxCrashes = 1
CHECK_DEADLOCK FALSE
INVARIANTS
    Inv
    AnswersInPlace
    HistoryStored
PROPERTIES
    AskAgain
