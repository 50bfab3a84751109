SPECIFICATION BothSpec
CONSTANTS
    Test = {t1, t2}
    Suite = {A, B}
    Path = {p, q}
SYMMETRY Symmetry
INVARIANTS
    FollowsTheRun
    ReportAgreesWithRun
    LossIsReported
    ConsoleAgrees
