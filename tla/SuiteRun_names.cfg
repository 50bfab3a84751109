SPECIFICATION Spec
CONSTANTS
    Test = {1, 2}
    Order = {0}
    AttemptLimit = {1}
    Fixture = {}
PROPERTIES
    SameOrderRunsInNameOrder
