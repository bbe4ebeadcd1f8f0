\* What the skills do not keep, one line at a time.
CONSTANTS
    Loaders = {g1}
    Misnamed = {}
    MaxChanges = 3
    MaxReports = 2
    ChangesSize = 1
SPECIFICATION SkillSpec
INVARIANT CacheFollowsFiles
\* INVARIANT ListedIsLoadable
CHECK_DEADLOCK FALSE
