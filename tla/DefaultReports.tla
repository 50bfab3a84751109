--------------------------- MODULE DefaultReports ---------------------------
(***************************************************************************)
(* The two handlers of Testament::run(argc, argv): every callback reaches  *)
(* ConsoleTestEventHandler, then the JUnit reporter (JUnitReport). The     *)
(* console handler keeps nothing; its state is what it has printed: lines  *)
(* for results, and the numbers of its summaries.                          *)
(***************************************************************************)
EXTENDS JUnitReport

VARIABLES
    lines,             \* result lines of each kind since the suite's header
    allLines,          \* and since the header of the report
    abortLines,        \* lines that announce an aborted suite, since then
    summary            \* the numbers of the last summary, of a suite or final

consoleVars == <<lines, allLines, abortLines, summary>>

NoLines == [v \in Verdict |-> 0]

(* Fault: a failure is printed by the status of the test, and a lifecycle  *)
(* error is taken for a failure.                                           *)
LineOf_Failure(v) == IF v = "LifecycleError" THEN "Failed" ELSE v

(* onTestPassed, onTestSkipped, and the two kinds of onTestFailed. *)
LineOf(v) == v

PrintsNothing == UNCHANGED consoleVars

PrintsReportHeader ==
    /\ allLines' = NoLines /\ abortLines' = 0
    /\ UNCHANGED <<lines, summary>>

PrintsSuiteHeader ==
    /\ lines' = NoLines
    /\ UNCHANGED <<allLines, abortLines, summary>>

PrintsResult(v) ==
    /\ lines' = [lines EXCEPT ![LineOf(v)] = @ + 1]
    /\ allLines' = [allLines EXCEPT ![LineOf(v)] = @ + 1]
    /\ UNCHANGED <<abortLines, summary>>

PrintsAbort ==
    /\ abortLines' = abortLines + 1
    /\ UNCHANGED <<lines, allLines, summary>>

PrintsSummary(numbers) ==
    /\ summary' = numbers
    /\ UNCHANGED <<lines, allLines, abortLines>>

-----------------------------------------------------------------------------

BothInit == Init /\ lines = NoLines /\ allLines = NoLines /\ abortLines = 0
                 /\ summary = NoResults

BothNext ==
    \/ \E path \in Path \cup {"none"}, wellFormed \in BOOLEAN :
          Configure(path, wellFormed) /\ PrintsNothing
    \/ Reject /\ PrintsNothing
    \/ OnStartReport /\ PrintsReportHeader
    \/ \E S \in SUBSET Test : Select(S) /\ PrintsNothing
    \/ \E s \in Suite : OnSuiteStart(s) /\ PrintsSuiteHeader
    \/ \E t \in Test : OnTestStart(t) /\ PrintsNothing
    \/ \E t \in Test, v \in Verdict : OnTestResult(t, v) /\ PrintsResult(v)
    \/ OnSuiteAbort /\ PrintsAbort
    \/ OnSuiteEnd /\ PrintsSummary(info)
    \/ \E result \in Outcomes : OnFinalReport(result) /\ PrintsSummary(totals)
    \/ Return /\ PrintsNothing

BothSpec == BothInit /\ [][BothNext]_<<vars, consoleVars>>

-----------------------------------------------------------------------------
(* Properties. *)

(* The counters a summary of these lines shows. *)
Summed(printed) ==
    [passed |-> printed["Passed"], skipped |-> printed["Skipped"],
     failed |-> printed["Failed"] + printed["LifecycleError"]]

(* What a reader of the console adds up is what it says: the lines of a    *)
(* suite agree with its summary, those of the whole report with the final  *)
(* one, and the report file, written by the other handler, shows the same  *)
(* tests, failures, errors and skipped tests, suite errors included.       *)
ConsoleAgrees ==
    /\ pc = "report" /\ ~open /\ finished # {} => summary = Summed(lines)
    /\ pc = "done" => summary = Summed(allLines)
    /\ pc = "done" /\ outputPath # "none" /\ reportWritten =>
          report.whole = [tests |-> abortLines + SumFunction(allLines),
                          failures |-> allLines["Failed"],
                          errors |-> abortLines + allLines["LifecycleError"],
                          skipped |-> allLines["Skipped"]]
=============================================================================
