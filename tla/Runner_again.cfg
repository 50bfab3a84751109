SPECIFICATION Spec
CONSTANTS
    Thread = {t1}
    Suite = {1, 2}
    Order <- MCOrder
    Handler = {h1, h2}
    MaxCalls = 2
SYMMETRY Symmetry
INVARIANTS
    ExitCodeTellsTrouble
    EverySuiteOnce
    ConfigurationErrorsReject
PROPERTIES
    SuitesInOrder
