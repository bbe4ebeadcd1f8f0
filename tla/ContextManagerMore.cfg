CONSTANTS
    Appenders = {a1}
    Clearers = {c1}
    Compressions = {j1, j2}
    SegSize = 2
    KeepRecent = 1
    MaxMessages = 4
SPECIFICATION ContextSpec
INVARIANTS
  ContextTypeOK
PROPERTIES
  CompressionEnds
CHECK_DEADLOCK FALSE
