----------------------------- MODULE TestResults -----------------------------
(* The vocabulary of Testament/TestEventHandler.hpp shared by the suite, its *)
(* contract and the reporters: results of tests and the counters over them.  *)
EXTENDS Integers, FiniteSets

CONSTANT Test          \* the tests of a suite

(* TestEventHandler::TestResultStatus. *)
Verdict == {"Passed", "Failed", "Skipped", "LifecycleError"}
Outcome == Verdict \cup {"NotRun"}
NothingRun == [t \in Test |-> "NotRun"]

(* The counters of TestEventHandler::SuiteInfo and of TestStatistics. *)
Counter == {"passed", "failed", "skipped"}
NoResults == [c \in Counter |-> 0]

(* The counter a result adds to: a lifecycle error counts as a failure. *)
CounterOf(s) == CASE s = "Passed"  -> "passed"
                  [] s = "Skipped" -> "skipped"
                  [] OTHER         -> "failed"

(* The tests of an outcome that a counter counts, and all three counters. *)
Counted(o, c) == {t \in Test : o[t] # "NotRun" /\ CounterOf(o[t]) = c}
Tally(o) == [c \in Counter |-> Cardinality(Counted(o, c))]
=============================================================================
