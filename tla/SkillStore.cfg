CONSTANTS
    Loaders = {g1, g2}
    Misnamed = {1}
    MaxChanges = 2
    MaxReports = 2
    ChangesSize = 1
SPECIFICATION SkillSpec
INVARIANTS
    CacheIsCurrent
    ChangesOpenWhileTold
CHECK_DEADLOCK FALSE
