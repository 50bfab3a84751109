----------------------------- MODULE SuiteReport -----------------------------
(***************************************************************************)
(* What a TestEventHandler may rely on while one suite runs: the contract  *)
(* of Testament/TestEventHandler.hpp, as one state machine over the facts  *)
(* a handler has been told. InternalSuite::run implements it (SuiteRun),   *)
(* and the handlers behind it (the JUnit reporter) assume it.              *)
(*                                                                         *)
(* There is one action per callback of the interface. A suite that is not  *)
(* running may change which tests its next run reports (Select).           *)
(***************************************************************************)
EXTENDS TestResults

VARIABLES
    open,              \* between onSuiteStart and onSuiteEnd
    aborted,           \* onSuiteAbort was called in this run
    expected,          \* the tests this run must report
    running,           \* tests started and not yet reported: at most one
    outcome,           \* the result reported for each test in this run
    info               \* the counters of the last SuiteInfo received

reportVars == <<open, aborted, expected, running, outcome, info>>

Reported == {t \in Test : outcome[t] # "NotRun"}
Complete == running = {} /\ Reported = expected

-----------------------------------------------------------------------------

Init == /\ open = FALSE
        /\ aborted = FALSE
        /\ expected \in SUBSET Test
        /\ running = {}
        /\ outcome = NothingRun
        /\ info = Tally(NothingRun)

(* Tests are added and filters set between runs only. *)
Select(S) ==
    /\ ~open
    /\ expected' = S
    /\ UNCHANGED <<open, aborted, running, outcome, info>>

(* A suite starts with every counter at zero. *)
OnSuiteStart ==
    /\ ~open
    /\ open' = TRUE
    /\ aborted' = FALSE
    /\ running' = {}
    /\ outcome' = NothingRun
    /\ info' = Tally(NothingRun)
    /\ UNCHANGED expected

(* A test starts once, and no two tests run at the same time. *)
OnTestStart(t) ==
    /\ open /\ ~aborted
    /\ t \in expected \ Reported
    /\ running = {}
    /\ running' = {t}
    /\ UNCHANGED <<open, aborted, expected, outcome, info>>

(* The result of a test: onTestPassed or onTestFailed for the test that    *)
(* was started, onTestSkipped for one that was not.                        *)
Report(t, s) ==
    /\ open /\ ~aborted
    /\ outcome' = [outcome EXCEPT ![t] = s]
    /\ info' = Tally(outcome')
    /\ running' = {}
    /\ UNCHANGED <<open, aborted, expected>>

OnTestResult(t, s) == running = {t} /\ Report(t, s)

OnTestSkipped(t) ==
    /\ running = {}
    /\ t \in expected \ Reported
    /\ Report(t, "Skipped")

(* A suite-level error is announced once every expected test has a result. *)
OnSuiteAbort ==
    /\ open /\ ~aborted
    /\ Complete
    /\ aborted' = TRUE
    /\ UNCHANGED <<open, expected, running, outcome, info>>

OnSuiteEnd ==
    /\ open
    /\ Complete
    /\ open' = FALSE
    /\ UNCHANGED <<aborted, expected, running, outcome, info>>

Next ==
    \/ \E S \in SUBSET Test : Select(S)
    \/ OnSuiteStart
    \/ \E t \in Test : OnTestStart(t)
    \/ \E t \in Test, s \in Verdict \ {"Skipped"} : OnTestResult(t, s)
    \/ \E t \in Test : OnTestSkipped(t)
    \/ OnSuiteAbort
    \/ OnSuiteEnd

Spec == Init /\ [][Next]_reportVars
=============================================================================
