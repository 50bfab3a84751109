----------------------------- MODULE MCSuiteRun -----------------------------
(* SuiteRun on small instances: two tests with every outcome of every call *)
(* to user code; three plain tests with orders below, at and above the     *)
(* default, or one test with up to three attempts and two fixture types.   *)
EXTENDS SuiteRun

MCOrder == {-1, 0, 1}

PlainTests ==
    /\ fixtureType = "none"
    /\ \A t \in Range(tests) : options[t].maxAttempts = 1 /\ options[t].fixture = "none"

OneTest == tests = <<>> \/ (tests = <<1>> /\ options[1].order = 0)

PlainOrOneNext == Next /\ (PlainTests \/ OneTest)'

PlainOrOneSpec == Init /\ [][PlainOrOneNext]_vars
=============================================================================
