---------------------------- MODULE JUnitReport ----------------------------
(***************************************************************************)
(* JUnitTestEventHandler behind a Runner that runs again and again. What a *)
(* suite tells it is any behaviour of the contract SuiteReport, one suite  *)
(* at a time; the reporter collects it and writes one file at the end.     *)
(*                                                                         *)
(* A file is known by how old it is: written by an earlier report, cut     *)
(* short, or written by this one. Its content is the counts the reporter   *)
(* puts in it; layout, escaping and durations are left out.                *)
(***************************************************************************)
EXTENDS TestResults, SequencesExt

CONSTANTS Suite,       \* names of suites
          Path         \* paths a report may be written to

ASSUME TestAssumption == IsFiniteSet(Test)
ASSUME SuiteAssumption == IsFiniteSet(Suite) /\ "none" \notin Suite
ASSUME PathAssumption == "none" \notin Path

VARIABLES
    (* The reporter. *)
    outputPath, outputPathIsFixed,
    suiteResults, reportWritten,
    writeError,        \* whether the string is not empty
    (* What it does to the world. *)
    file,              \* per path: absent, earlier, partial or current
    report,            \* the counts last written
    (* The run it is part of, and the suite that reports to it. *)
    pc, current, finished,
    open, aborted, expected, running, outcome, info,
    totals, aborts     \* Runner's statistics, and the suites with an error

reporterVars == <<outputPath, outputPathIsFixed, suiteResults, reportWritten, writeError>>
worldVars == <<file, report>>
suiteVars == <<open, aborted, expected, running, outcome, info>>
runVars == <<pc, current, finished, totals, aborts>>
vars == <<reporterVars, worldVars, suiteVars, runVars>>

Contract == INSTANCE SuiteReport

NoReport == [whole |-> NoResults, suites |-> <<>>]

-----------------------------------------------------------------------------
(* The results of a suite go to the last entry, or to a new one if that    *)
(* belongs to another suite.                                               *)

NewEntry(s) == [name |-> s, tests |-> <<>>, lifecycleErrors |-> 0]

WithEntry(rs, s) ==
    IF rs = <<>> \/ Last(rs).name # s THEN Append(rs, NewEntry(s)) ELSE rs

(* Fault: a lifecycle error is reported as a failure. *)
StatusOf_Failure(v) == IF v = "LifecycleError" THEN "Failed" ELSE v

StatusOf(v) == IF v = "LifecycleError" THEN "Error" ELSE v

AddResult(t, v) ==
    LET rs == WithEntry(suiteResults, current)
    IN  suiteResults' = [rs EXCEPT ![Len(rs)].tests =
                            Append(@, [test |-> t, status |-> StatusOf(v)])]

AddError ==
    LET rs == WithEntry(suiteResults, current)
    IN  suiteResults' = [rs EXCEPT ![Len(rs)].lifecycleErrors = @ + 1]

-----------------------------------------------------------------------------
(* What writeReport counts: once over all suites, and once in each.        *)

Having(e, s) == Cardinality({i \in DOMAIN e.tests : e.tests[i].status = s})

SuiteCounts(e) == [tests |-> Len(e.tests) + e.lifecycleErrors,
                   failures |-> Having(e, "Failed"),
                   errors |-> Having(e, "Error") + e.lifecycleErrors,
                   skipped |-> Having(e, "Skipped")]

SumOver(rs, Count(_)) == SumFunction([i \in DOMAIN rs |-> Count(rs[i])])

(* Fault: a suite error is counted as an error but not as a test. *)
WholeCounts_OnlyTests(rs) ==
    [tests |-> SumOver(rs, LAMBDA e : Len(e.tests)),
     failures |-> SumOver(rs, LAMBDA e : Having(e, "Failed")),
     errors |-> SumOver(rs, LAMBDA e : e.lifecycleErrors + Having(e, "Error")),
     skipped |-> SumOver(rs, LAMBDA e : Having(e, "Skipped"))]

WholeCounts(rs) ==
    [tests |-> SumOver(rs, LAMBDA e : Len(e.tests) + e.lifecycleErrors),
     failures |-> SumOver(rs, LAMBDA e : Having(e, "Failed")),
     errors |-> SumOver(rs, LAMBDA e : e.lifecycleErrors + Having(e, "Error")),
     skipped |-> SumOver(rs, LAMBDA e : Having(e, "Skipped"))]

ReportOf(rs) == [whole |-> WholeCounts(rs),
                 suites |-> [i \in DOMAIN rs |-> SuiteCounts(rs[i])]]

-----------------------------------------------------------------------------

Init ==
    /\ outputPathIsFixed \in BOOLEAN
    /\ outputPath \in IF outputPathIsFixed THEN Path ELSE {"none"}
    /\ suiteResults = <<>>
    /\ reportWritten = FALSE /\ writeError = FALSE
    /\ file \in [Path -> {"absent", "earlier"}]
    /\ report = NoReport
    /\ pc = "idle" /\ current = "none" /\ finished = {}
    /\ Contract!Init /\ expected = {}
    /\ totals = NoResults /\ aborts = 0

Cleared(rs) == <<>>

(* Runner calls configure. A path given to the constructor outlives every  *)
(* call; without one the arguments name the path, the last --junit counts, *)
(* and one without a path rejects the run, whatever stood before it.       *)
Configure(path, wellFormed) ==
    /\ pc = "idle"
    /\ IF outputPathIsFixed
       THEN pc' = "configured" /\ UNCHANGED reporterVars
       ELSE /\ outputPath' = path
            /\ suiteResults' = <<>>
            /\ reportWritten' = FALSE /\ writeError' = FALSE
            /\ pc' = IF wellFormed THEN "configured" ELSE "idle"
            /\ UNCHANGED outputPathIsFixed
    /\ UNCHANGED <<worldVars, suiteVars, current, finished, totals, aborts>>

(* Another handler, or a configuration error, rejects the run. *)
Reject ==
    /\ pc = "configured"
    /\ pc' = "idle"
    /\ UNCHANGED <<reporterVars, worldVars, suiteVars, current, finished, totals, aborts>>

OnStartReport ==
    /\ pc = "configured"
    /\ pc' = "report"
    /\ IF outputPath = "none"
       THEN UNCHANGED <<suiteResults, reportWritten, writeError>>
       ELSE /\ suiteResults' = Cleared(suiteResults)
            /\ reportWritten' = FALSE
            /\ writeError' = FALSE
    /\ file' = [p \in Path |-> IF file[p] = "absent" THEN "absent" ELSE "earlier"]
    /\ report' = NoReport
    /\ finished' = {} /\ totals' = NoResults /\ aborts' = 0
    /\ UNCHANGED <<outputPath, outputPathIsFixed, current, suiteVars>>

(* The tests the next suite has to report. *)
Select(S) ==
    /\ pc = "report"
    /\ Contract!Select(S)
    /\ UNCHANGED <<reporterVars, worldVars, runVars>>

OnSuiteStart(s) ==
    /\ pc = "report" /\ s \notin finished
    /\ Contract!OnSuiteStart
    /\ current' = s
    /\ suiteResults' = IF outputPath = "none" THEN suiteResults
                       ELSE Append(suiteResults, NewEntry(s))
    /\ UNCHANGED <<outputPath, outputPathIsFixed, reportWritten, writeError,
                   worldVars, pc, finished, totals, aborts>>

(* The reporter ignores onTestStart and onSuiteEnd. *)
OnTestStart(t) ==
    /\ Contract!OnTestStart(t)
    /\ UNCHANGED <<reporterVars, worldVars, runVars>>

OnTestResult(t, v) ==
    /\ IF v = "Skipped" THEN Contract!OnTestSkipped(t) ELSE Contract!OnTestResult(t, v)
    /\ IF outputPath = "none" THEN UNCHANGED suiteResults ELSE AddResult(t, v)
    /\ UNCHANGED <<outputPath, outputPathIsFixed, reportWritten, writeError,
                   worldVars, runVars>>

OnSuiteAbort ==
    /\ Contract!OnSuiteAbort
    /\ aborts' = aborts + 1
    /\ IF outputPath = "none" THEN UNCHANGED suiteResults ELSE AddError
    /\ UNCHANGED <<outputPath, outputPathIsFixed, reportWritten, writeError,
                   worldVars, pc, current, finished, totals>>

(* The suite ends, and the Runner adds its statistic to the totals. *)
OnSuiteEnd ==
    /\ Contract!OnSuiteEnd
    /\ finished' = finished \cup {current}
    /\ totals' = [c \in Counter |-> totals[c] + info[c]]
    /\ UNCHANGED <<reporterVars, worldVars, pc, current, aborts>>

(* The outcomes of writeReport: the directory cannot be created, the file  *)
(* cannot be opened, a write to it fails, or none of these.                *)
Outcomes == {"directory", "open", "write", "written"}

(* Fault: the file is not checked again after it is closed. *)
IsError_Unchecked(result) == result \in {"directory", "open"}

IsError(result) == result # "written"

WriteReport(result) ==
    /\ file' = [file EXCEPT ![outputPath] =
                   CASE result = "written" -> "current"
                     [] result = "write"   -> "partial"
                     [] OTHER              -> @]
    /\ report' = IF result \in {"written", "write"} THEN ReportOf(suiteResults) ELSE report
    /\ writeError' = (writeError \/ IsError(result))
    /\ reportWritten' = (reportWritten \/ ~IsError(result))

OnFinalReport(result) ==
    /\ pc = "report" /\ ~open
    /\ pc' = "done"
    /\ IF outputPath = "none"
       THEN UNCHANGED <<file, report, writeError, reportWritten>>
       ELSE WriteReport(result)
    /\ UNCHANGED <<outputPath, outputPathIsFixed, suiteResults, suiteVars,
                   current, finished, totals, aborts>>

(* The Runner reads errorMessage and returns. *)
Return ==
    /\ pc = "done"
    /\ pc' = "idle"
    /\ UNCHANGED <<reporterVars, worldVars, suiteVars, current, finished, totals, aborts>>

Next ==
    \/ \E path \in Path \cup {"none"}, wellFormed \in BOOLEAN : Configure(path, wellFormed)
    \/ Reject \/ OnStartReport
    \/ \E S \in SUBSET Test : Select(S)
    \/ \E s \in Suite : OnSuiteStart(s)
    \/ \E t \in Test : OnTestStart(t)
    \/ \E t \in Test, v \in Verdict : OnTestResult(t, v)
    \/ OnSuiteAbort \/ OnSuiteEnd
    \/ \E result \in Outcomes : OnFinalReport(result)
    \/ Return

Spec == Init /\ [][Next]_vars

-----------------------------------------------------------------------------

Status == {"Passed", "Failed", "Skipped", "Error"}
Entry == [name : Suite, tests : Seq([test : Test, status : Status]), lifecycleErrors : Nat]
Counts == [tests : Nat, failures : Nat, errors : Nat, skipped : Nat]

(* Every variable stays in its range, and the results fit the space that   *)
(* onStartReport reserves, one entry for each suite.                       *)
TypeOK ==
    /\ outputPath \in Path \cup {"none"}
    /\ outputPathIsFixed \in BOOLEAN
    /\ suiteResults \in Seq(Entry) /\ Len(suiteResults) <= Cardinality(Suite)
    /\ reportWritten \in BOOLEAN /\ writeError \in BOOLEAN
    /\ file \in [Path -> {"absent", "earlier", "partial", "current"}]
    /\ report = NoReport \/ report \in [whole : Counts, suites : Seq(Counts)]
    /\ pc \in {"idle", "configured", "report", "done"}
    /\ current \in Suite \cup {"none"}
    /\ finished \subseteq Suite
    /\ totals \in [Counter -> Nat] /\ aborts \in Nat

-----------------------------------------------------------------------------
(* Properties. *)

(* What the reporter holds during a report is what it was told: one entry  *)
(* per suite that started in this run, none from an earlier run, and in    *)
(* the last one each result of the current suite once, with its status.    *)
FollowsTheRun ==
    outputPath # "none" /\ pc = "report" =>
        /\ {suiteResults[i].name : i \in DOMAIN suiteResults} =
              finished \cup IF open THEN {current} ELSE {}
        /\ \A i, j \in DOMAIN suiteResults :
              suiteResults[i].name = suiteResults[j].name => i = j
        /\ open => LET e == Last(suiteResults)
                   IN  /\ e.name = current
                       /\ e.lifecycleErrors = IF aborted THEN 1 ELSE 0
                       /\ Len(e.tests) = Cardinality(Contract!Reported)
                       /\ \A t \in Contract!Reported : \E i \in DOMAIN e.tests :
                             e.tests[i] = [test |-> t,
                                           status |-> IF outcome[t] = "LifecycleError"
                                                      THEN "Error" ELSE outcome[t]]

(* The counts of a written report agree with the statistics the Runner     *)
(* derives the exit code from, as a whole and summed over its suites: it   *)
(* shows a failure or an error exactly if a test or a hook failed.         *)
ReportAgreesWithRun ==
    pc = "done" /\ outputPath # "none" /\ reportWritten =>
        /\ report.whole.skipped = totals["skipped"]
        /\ report.whole.failures + report.whole.errors = totals["failed"] + aborts
        /\ report.whole.tests = totals["passed"] + totals["failed"]
                                  + totals["skipped"] + aborts
        /\ Len(report.suites) = Cardinality(finished)
        /\ \A c \in {"tests", "failures", "errors", "skipped"} :
              report.whole[c] = SumOver(report.suites, LAMBDA counts : counts[c])

(* When run() asks for errorMessage, there is one exactly if a report was  *)
(* wanted and its file is not the complete report of this run: neither an  *)
(* error nor a success of an earlier report is taken for this one's.       *)
LossIsReported ==
    pc = "done" =>
        /\ reportWritten <=> outputPath # "none" /\ file[outputPath] = "current"
        /\ writeError <=> outputPath # "none" /\ ~reportWritten
        /\ \A p \in Path \ {outputPath} : file[p] \in {"absent", "earlier"}
=============================================================================
