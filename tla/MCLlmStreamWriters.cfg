SPECIFICATION FairSpec
CONSTANTS
    Chain <- ProviderPriority
    MaxAttempts = 2
    Capacity = 1
    ReplyLen = 1
PROPERTIES NobodyLeftWriting
CHECK_DEADLOCK FALSE
