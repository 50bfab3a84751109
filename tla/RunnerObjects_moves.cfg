SPECIFICATION Spec
CONSTANTS
  RunnerObject = {"r", "s", "t"}
  Handler = {"g", "h", "i"}
  MaxCallbacks = 2
INVARIANTS WholeReports FailuresSurvive
