SPECIFICATION FairSpec
CONSTANTS
    Test = {1, 2}
    Order = {0}
    AttemptLimit = {0, 1, 2}
    Fixture = {"F"}
INVARIANTS
    TypeOK
    Accounting
    ReturnTellsHookErrors
    RetryContract
    HooksPaired
    DisabledNeverExecuted
    VerdictOfLastAttempt
    DurationCoversThisRun
PROPERTIES
    ReportsAsPromised
    Terminates
