SPECIFICATION FairSpec
CONSTANTS
    Chain <- ProviderPriority
    MaxAttempts = 2
    Capacity = 1
    ReplyLen = 1
INVARIANTS DoneIsLast
PROPERTIES IsOneStream CallIsAnswered
CHECK_DEADLOCK FALSE
