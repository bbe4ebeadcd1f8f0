CONSTANTS
    Appenders = {a1}
    Clearers = {c1}
    Compressions = {j1, j2}
    SegSize = 2
    KeepRecent = 1
    MaxMessages = 4
SPECIFICATION ContextSpec
INVARIANTS
  NothingLost
  SummaryWhole
  SummaryOfThese
CHECK_DEADLOCK FALSE
