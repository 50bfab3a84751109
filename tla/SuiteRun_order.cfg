SPECIFICATION PlainOrOneSpec
CONSTANTS
    Test = {1, 2, 3}
    Order <- MCOrder
    AttemptLimit = {0, 1, 3}
    Fixture = {"F", "G"}
INVARIANTS
    RetryContract
PROPERTIES
    RunsInOrder
