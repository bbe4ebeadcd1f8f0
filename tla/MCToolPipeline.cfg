SPECIFICATION Spec
CONSTANTS
    Goroutines = {"g1", "g2"}
    Events <- MCEvents
    Listeners <- MCListeners
    EventOf <- MCEventOf
    IsOnce <- MCIsOnce
    Tools = {"bash", "read"}
    Rules <- MCRules
    Hooks = {"format", "auditHook"}
    AuditHook = "auditHook"
    RoleOf <- MCRoleOf
    HasTracker = TRUE
    Answers <- MCAnswers
    Renames <- MCRenames
    Setups <- MCSetups
    MaxChanges = 1
INVARIANTS OnceIsOver VetoHolds AfterHooksRun EveryRunReported
CHECK_DEADLOCK FALSE
