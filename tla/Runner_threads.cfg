SPECIFICATION FairSpec
CONSTANTS
    Thread = {t1, t2}
    Suite = {1}
    Order = {0}
    Handler = {h1}
    MaxCalls = 2
INVARIANTS
    RunsDoNotInterleave
PROPERTIES
    EveryCallReturns
