SPECIFICATION Spec
CONSTANTS
    Goroutines = {"g1"}
    Events <- MCEvents
    Listeners <- MCListeners
    EventOf <- MCEventOf
    IsOnce <- MCIsOnce
    Tools = {"bash", "read"}
    Rules <- MCRules
    Hooks = {"format", "auditHook"}
    AuditHook = "auditHook"
    RoleOf <- MCRoleOf
    HasTracker = TRUE
    Answers <- MCAnswers
    Renames <- MCRenames
    Setups <- MCBypassed
    MaxChanges = 0
\* Each is violated, one line at a time.
INVARIANT DeniedNeverRuns
\* INVARIANT DeniedNeverPasses
CHECK_DEADLOCK FALSE
