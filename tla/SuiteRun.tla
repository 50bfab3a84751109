------------------------------ MODULE SuiteRun ------------------------------
(***************************************************************************)
(* One suite of the framework: InternalSuite with its HookManager, its     *)
(* TestManager, the InternalTests it owns and the TestEventHandler it      *)
(* reports to. Tests are added, filters are set, and the suite is run any  *)
(* number of times; every call run() makes to user code (a hook, a test    *)
(* body) may return or throw.                                              *)
(*                                                                         *)
(* run() is a sequential procedure. It is cut into one action per call to  *)
(* user code and one per callback to the handler, the points at which      *)
(* other code observes it; pc names the next one.                          *)
(***************************************************************************)
EXTENDS TestResults, Functions, Sequences

CONSTANTS Order,       \* values of TestOptions::order; an unset order is 0
          AttemptLimit,\* values of TestOptions::maxAttempts
          Fixture      \* types of LifecycleSuite

(* A test is the rank of its name among the names of the suite: t < u says *)
(* that the name of t is lexicographically smaller.                        *)
ASSUME TestAssumption == Test \subseteq Int /\ IsFiniteSet(Test)
ASSUME OrderAssumption == Order \subseteq Int /\ 0 \in Order
ASSUME AttemptLimitAssumption == AttemptLimit \subseteq Nat /\ 1 \in AttemptLimit
ASSUME FixtureAssumption == "none" \notin Fixture

VARIABLES
    (* The suite. *)
    tests,             \* InternalSuite::tests, in registration or run order
    options,           \* the TestOptions and fixture type of each test
    fixtureType,       \* type of the suite's fixture, "none" without one
    testFilter,        \* the tests whose name the filter accepts
    statistic,         \* InternalSuite::statistic
    lastError,         \* HookManager::errors.back()
    status,            \* InternalTest::status of each test
    executionTimer,    \* body executions InternalTest::executionTimer holds
    (* The call of run(). *)
    pc, pos,           \* where run() is, and the test its loop is at
    frame,             \* the locals of one iteration of the loop
    hooksSucceeded,    \* the local of that name
    returned,          \* what the last run() returned
    (* What the handler was told. *)
    open, aborted, running, outcome, info,
    details,           \* duration and exception of the last TestInfo
    (* What user code saw: kept for the properties only. *)
    added,             \* the tests in the order they were added
    calls,             \* per test: calls to its hooks and body in this run
    suiteHooks         \* the suite-level hooks called, and those that threw

suiteVars == <<tests, options, fixtureType, testFilter, added>>
testVars  == <<status, executionTimer>>
callVars  == <<calls, suiteHooks>>
handlerVars == <<open, aborted, running, outcome, info, details>>
vars == <<suiteVars, statistic, lastError, testVars, pc, pos, frame,
          hooksSucceeded, returned, handlerVars, callVars>>

TestOption == [order : Order, disabled : BOOLEAN, maxAttempts : AttemptLimit,
               fixture : Fixture \cup {"none"}]
DefaultOption == [order |-> 0, disabled |-> FALSE, maxAttempts |-> 1,
                  fixture |-> "none"]

Hook == {"beforeSuite", "beforeEach", "afterEach", "afterSuite"}
Cause == Hook \cup {"body"}

NoDetail == [duration |-> 0, cause |-> {}]
NoCalls == [attempts |-> 0, beforeEach |-> 0, body |-> 0, afterEach |-> 0,
            threw |-> {}]
NoFrame == [remaining |-> 0, duration |-> 0, lifecycleError |-> {},
            result |-> "returned", status |-> "Failed", exception |-> {}]

-----------------------------------------------------------------------------
(* User code. A suite without a fixture has no hooks: invoking one returns *)
(* true and calls nothing. Every exception of a hook is caught, recorded   *)
(* and turned into false.                                                  *)

HasHooks == fixtureType # "none"
HookResult == IF HasHooks THEN {"returns", "throws"} ELSE {"returns"}
HookCall == IF HasHooks THEN 1 ELSE 0

InvokeHook(hook, o) ==
    /\ o \in HookResult
    /\ lastError' = IF o = "throws" THEN hook ELSE lastError

Threw(what, o) == IF o = "throws" THEN {what} ELSE {}

(* A body that needs the fixture throws without being entered when there   *)
(* is none.                                                                *)
BodyResult(t) == IF options[t].fixture # "none" /\ ~HasHooks
                 THEN {"throws"} ELSE {"returns", "throws"}

(* The calls made to a test's user code, after one more of them. An        *)
(* attempt begins with beforeEach, and forgets what the last one threw.    *)
WithBeforeEach(c, o) ==
    [c EXCEPT !.attempts = @ + 1, !.beforeEach = @ + HookCall,
              !.threw = Threw("beforeEach", o)]
WithBody(c, o) ==
    [c EXCEPT !.body = @ + 1, !.threw = @ \cup Threw("body", o)]
WithAfterEach(c, o) ==
    [c EXCEPT !.afterEach = @ + HookCall, !.threw = @ \cup Threw("afterEach", o)]

-----------------------------------------------------------------------------
(* The order tests run in. *)

Index(s, t) == CHOOSE i \in 1..Len(s) : s[i] = t

(* t comes before u in a stable sort of s by order. *)
Precedes(s, t, u) ==
    \/ options[t].order < options[u].order
    \/ options[t].order = options[u].order /\ Index(s, t) < Index(s, u)

(* Fault: the sort is not stable. *)
UnstableSorts(s) ==
    {r \in Bijection(1..Len(s), Range(s)) :
        \A i, j \in 1..Len(s) : i < j => options[r[i]].order <= options[r[j]].order}

(* The stable sort of s by order: one sequence, stated by what it is.      *)
StableSorts(s) ==
    {r \in Bijection(1..Len(s), Range(s)) :
        \A i, j \in 1..Len(s) : i < j => Precedes(s, r[i], r[j])}

-----------------------------------------------------------------------------
(* Where run() is. *)

(* Fault: the loop stops before the last test. *)
AtEnd_Early == pos >= Len(tests)

AtEnd == pos > Len(tests)
CurrentTest == tests[pos]
Expected == {t \in Range(tests) : t \in testFilter}
At(location) == pc = location /\ ~AtEnd
AtSelected(location) == At(location) /\ CurrentTest \in testFilter

(* Callbacks of the handler; testInfo fields are the last two arguments.   *)
(* SuiteInfo is taken from the statistic before it is updated, and only    *)
(* the counter of this result is patched afterwards.                       *)
ReportStart(t) ==
    /\ running' = running \cup {t}
    /\ info' = statistic
    /\ UNCHANGED <<open, aborted, outcome, details, statistic>>


(* Fault: the counter of the result is not patched. *)
ReportResult_Unpatched(t, s, duration, cause) ==
    LET c == CounterOf(s)
    IN  /\ statistic' = [statistic EXCEPT ![c] = @ + 1]
        /\ info' = statistic
        /\ outcome' = [outcome EXCEPT ![t] = s]
        /\ details' = [details EXCEPT ![t] = [duration |-> duration, cause |-> cause]]
        /\ running' = running \ {t}
        /\ UNCHANGED <<open, aborted>>

ReportResult(t, s, duration, cause) ==
    LET c == CounterOf(s)
    IN  /\ statistic' = [statistic EXCEPT ![c] = @ + 1]
        /\ info' = [statistic EXCEPT ![c] = statistic'[c]]
        /\ outcome' = [outcome EXCEPT ![t] = s]
        /\ details' = [details EXCEPT ![t] = [duration |-> duration, cause |-> cause]]
        /\ running' = running \ {t}
        /\ UNCHANGED <<open, aborted>>

ReportSuiteError ==
    /\ aborted' = TRUE
    /\ info' = statistic
    /\ UNCHANGED <<open, running, outcome, details>>

-----------------------------------------------------------------------------

Init ==
    /\ tests = <<>> /\ added = <<>>
    /\ options = [t \in Test |-> DefaultOption]
    /\ fixtureType \in Fixture \cup {"none"}
    /\ testFilter = Test
    /\ statistic = NoResults
    /\ lastError = "none"
    /\ status = NothingRun
    /\ executionTimer = [t \in Test |-> 0]
    /\ pc = "idle" /\ pos = 1
    /\ frame = NoFrame
    /\ hooksSucceeded = TRUE
    /\ returned = "none"
    /\ open = FALSE /\ aborted = FALSE /\ running = {}
    /\ outcome = NothingRun
    /\ info = NoResults
    /\ details = [t \in Test |-> NoDetail]
    /\ calls = [t \in Test |-> NoCalls]
    /\ suiteHooks = [called |-> {}, threw |-> {}]

(* Fault: addTest accepts a test without attempts. *)
Accepts_NoAttempts(t, option) ==
    option.fixture \in {"none", fixtureType} /\ t \notin Range(tests)

(* What addTest accepts: a name the suite does not have, at least one      *)
(* attempt, and no fixture type other than the suite's. It throws for any  *)
(* other test, and the suite is unchanged.                                 *)
Accepts(t, option) ==
    /\ option.fixture \in {"none", fixtureType}
    /\ option.maxAttempts # 0
    /\ t \notin Range(tests)

(* SuiteAssembler adds every test before the suite can be run. *)
AddTest(t, option) ==
    /\ pc = "idle" /\ returned = "none"
    /\ Accepts(t, option)
    /\ tests' = Append(tests, t)
    /\ added' = Append(added, t)
    /\ options' = [options EXCEPT ![t] = option]
    /\ status' = [status EXCEPT ![t] = IF option.disabled THEN "Skipped" ELSE "NotRun"]
    /\ UNCHANGED <<fixtureType, testFilter, statistic, lastError, executionTimer,
                   pc, pos, frame, hooksSucceeded, returned, handlerVars, callVars>>

(* An exact name accepts one test or none, a regular expression any set.   *)
SetTestFilter(S) ==
    /\ pc = "idle"
    /\ testFilter' = S
    /\ UNCHANGED <<tests, options, fixtureType, added, statistic, lastError,
                   testVars, pc, pos, frame, hooksSucceeded, returned,
                   handlerVars, callVars>>

(* run() up to and including onSuiteStart. *)
Begin ==
    /\ pc = "idle"
    /\ pc' = "beforeSuite" /\ pos' = 1
    /\ statistic' = NoResults
    /\ lastError' = "none"
    /\ tests' \in StableSorts(tests)
    /\ hooksSucceeded' = TRUE
    /\ open' = TRUE /\ aborted' = FALSE /\ running' = {}
    /\ outcome' = NothingRun
    /\ info' = NoResults
    /\ details' = [t \in Test |-> NoDetail]
    /\ calls' = [t \in Test |-> NoCalls]
    /\ suiteHooks' = [called |-> {}, threw |-> {}]
    /\ UNCHANGED <<options, fixtureType, testFilter, added, testVars, frame, returned>>

SuiteHook(hook, o) ==
    /\ InvokeHook(hook, o)
    /\ suiteHooks' = [called |-> suiteHooks.called \cup IF HasHooks THEN {hook} ELSE {},
                      threw  |-> suiteHooks.threw \cup Threw(hook, o)]

BeforeSuite(o) ==
    /\ pc = "beforeSuite"
    /\ SuiteHook("beforeSuite", o)
    /\ pc' = IF o = "throws" THEN "abort" ELSE "select"
    /\ UNCHANGED <<suiteVars, statistic, testVars, pos, frame, hooksSucceeded,
                   returned, handlerVars, calls>>

(* Fault: a test that is left out is not stepped over. *)
AfterUnselected_Same == pos

AfterUnselected == pos + 1

(* Both loops of run() go over the tests the filter accepts. *)
SkipUnselected ==
    /\ At("abort") \/ At("select")
    /\ CurrentTest \notin testFilter
    /\ pos' = AfterUnselected
    /\ UNCHANGED <<suiteVars, statistic, lastError, testVars, pc, frame,
                   hooksSucceeded, returned, handlerVars, callVars>>

(* beforeSuite threw: every selected test, disabled or not, is reported as *)
(* a lifecycle error without being run, and afterSuite is not called.      *)
AbortTestStart ==
    /\ AtSelected("abort")
    /\ ReportStart(CurrentTest)
    /\ pc' = "abortResult"
    /\ UNCHANGED <<suiteVars, lastError, testVars, pos, frame, hooksSucceeded,
                   returned, callVars>>

AbortTestResult ==
    /\ At("abortResult")
    /\ ReportResult(CurrentTest, "LifecycleError", 0, {lastError})
    /\ pc' = "abort" /\ pos' = pos + 1
    /\ UNCHANGED <<suiteVars, lastError, testVars, frame, hooksSucceeded,
                   returned, callVars>>

AbortSuite ==
    /\ pc = "abort" /\ AtEnd
    /\ ReportSuiteError
    /\ hooksSucceeded' = FALSE
    /\ pc' = "end"
    /\ UNCHANGED <<suiteVars, statistic, lastError, testVars, pos, frame,
                   returned, callVars>>

(* Fault: disabled tests are run. *)
IsDisabled_Never(t) == FALSE

IsDisabled(t) == options[t].disabled

(* A disabled test is reported without onTestStart. *)
SkipDisabled ==
    /\ AtSelected("select")
    /\ IsDisabled(CurrentTest)
    /\ ReportResult(CurrentTest, "Skipped", 0, {})
    /\ pos' = pos + 1
    /\ UNCHANGED <<suiteVars, lastError, testVars, pc, frame, hooksSucceeded,
                   returned, callVars>>

StartTest ==
    /\ AtSelected("select")
    /\ ~IsDisabled(CurrentTest)
    /\ ReportStart(CurrentTest)
    /\ frame' = [NoFrame EXCEPT !.remaining = options[CurrentTest].maxAttempts]
    /\ pc' = "beforeEach"
    /\ UNCHANGED <<suiteVars, lastError, testVars, pos, hooksSucceeded,
                   returned, callVars>>

(* Fault: afterEach is left out when beforeEach throws. *)
AfterBeforeEach_Skip(o) == IF o = "throws" THEN "report" ELSE "execute"

AfterBeforeEach(o) == IF o = "throws" THEN "afterEach" ELSE "execute"

(* An attempt starts with an empty lifecycleError and a successful result; *)
(* the body is left out when beforeEach throws.                            *)
BeforeEach(o) ==
    /\ At("beforeEach")
    /\ InvokeHook("beforeEach", o)
    /\ frame' = [frame EXCEPT !.lifecycleError = IF o = "throws" THEN {lastError'} ELSE {},
                              !.result = "returned"]
    /\ calls' = [calls EXCEPT ![CurrentTest] = WithBeforeEach(calls[CurrentTest], o)]
    /\ pc' = AfterBeforeEach(o)
    /\ UNCHANGED <<suiteVars, statistic, testVars, pos, hooksSucceeded, returned,
                   handlerVars, suiteHooks>>

(* Fault: the timer is started without being reset. *)
Restarted_Accumulates(t) == executionTimer[t] + 1

(* What the timer of a test holds after reset, start and stop. *)
Restarted(t) == 1

(* InternalTest::execute, and its timer added to the duration. A test with *)
(* status Skipped returns success at once.                                 *)
Execute(o) ==
    /\ At("execute")
    /\ LET t == CurrentTest
           runs == status[t] # "Skipped"
       IN  /\ o \in BodyResult(t)
           /\ executionTimer' = IF runs THEN [executionTimer EXCEPT ![t] = Restarted(t)]
                                        ELSE executionTimer
           /\ status' = IF runs
                        THEN [status EXCEPT ![t] = IF o = "throws" THEN "Failed" ELSE "Passed"]
                        ELSE status
           /\ frame' = [frame EXCEPT !.result = IF runs /\ o = "throws" THEN "threw" ELSE "returned",
                                     !.duration = @ + executionTimer'[t]]
           /\ calls' = IF runs
                       THEN [calls EXCEPT ![t] = WithBody(calls[t], o)]
                       ELSE calls
    /\ pc' = "afterEach"
    /\ UNCHANGED <<suiteVars, statistic, lastError, pos, hooksSucceeded, returned,
                   handlerVars, suiteHooks>>

(* Fault: a failing body outranks an error of a hook. *)
AttemptStatus_BodyFirst(error, result) ==
    IF result = "threw" THEN "Failed"
    ELSE IF error # {} THEN "LifecycleError" ELSE "Passed"

(* The result of an attempt: any error of a hook outranks the body.        *)
AttemptStatus(error, result) ==
    IF error # {} THEN "LifecycleError"
    ELSE IF result = "threw" THEN "Failed" ELSE "Passed"

Exception(error, result) ==
    IF error # {} THEN error ELSE IF result = "threw" THEN {"body"} ELSE {}

(* Faults: one attempt less; retries not bounded. *)
LastAttempt_OneLess(s, remaining) == s = "Passed" \/ remaining <= 2
LastAttempt_Forever(s, remaining) == s = "Passed"

(* The loop leaves on success or on the last attempt, and retries else.    *)
LastAttempt(s, remaining) == s = "Passed" \/ remaining <= 1

AfterEach(o) ==
    /\ At("afterEach")
    /\ InvokeHook("afterEach", o)
    /\ calls' = [calls EXCEPT ![CurrentTest] = WithAfterEach(calls[CurrentTest], o)]
    /\ LET error == frame.lifecycleError \cup IF o = "throws" THEN {lastError'} ELSE {}
           s == AttemptStatus(error, frame.result)
           last == LastAttempt(s, frame.remaining)
       IN  /\ frame' = [frame EXCEPT !.lifecycleError = error,
                                     !.status = s,
                                     !.exception = Exception(error, frame.result),
                                     !.remaining = IF last THEN @ ELSE @ - 1]
           /\ pc' = IF last THEN "report" ELSE "beforeEach"
    /\ UNCHANGED <<suiteVars, statistic, testVars, pos, hooksSucceeded, returned,
                   handlerVars, suiteHooks>>

(* Fault: only the last test of the suite counts. *)
StillSucceeded_Last(s) == s # "LifecycleError"

(* Only the status of the last attempt counts for hooksSucceeded. *)
StillSucceeded(s) == s # "LifecycleError" /\ hooksSucceeded

FinishTest ==
    /\ At("report")
    /\ hooksSucceeded' = StillSucceeded(frame.status)
    /\ ReportResult(CurrentTest, frame.status, frame.duration, frame.exception)
    /\ pc' = "select" /\ pos' = pos + 1
    /\ UNCHANGED <<suiteVars, lastError, testVars, frame, returned, callVars>>

AfterSuite(o) ==
    /\ pc = "select" /\ AtEnd
    /\ SuiteHook("afterSuite", o)
    /\ IF o = "throws"
       THEN hooksSucceeded' = FALSE /\ ReportSuiteError
       ELSE UNCHANGED <<hooksSucceeded, handlerVars>>
    /\ pc' = "end"
    /\ UNCHANGED <<suiteVars, statistic, testVars, pos, frame, returned, calls>>

(* onSuiteEnd, and run() returns. *)
EndSuite ==
    /\ pc = "end"
    /\ open' = FALSE
    /\ info' = statistic
    /\ returned' = IF hooksSucceeded THEN "true" ELSE "false"
    /\ pc' = "idle"
    /\ UNCHANGED <<suiteVars, statistic, lastError, testVars, pos, frame,
                   hooksSucceeded, aborted, running, outcome, details, callVars>>

(* The steps of run() once it was called. *)
RunStep ==
    \/ \E o \in {"returns", "throws"} :
          BeforeSuite(o) \/ BeforeEach(o) \/ Execute(o) \/ AfterEach(o) \/ AfterSuite(o)
    \/ SkipUnselected \/ SkipDisabled \/ StartTest \/ FinishTest
    \/ AbortTestStart \/ AbortTestResult \/ AbortSuite
    \/ EndSuite

Next ==
    \/ \E t \in Test, option \in TestOption : AddTest(t, option)
    \/ \E S \in SUBSET Test : SetTestFilter(S)
    \/ Begin
    \/ RunStep

Spec == Init /\ [][Next]_vars

(* User code returns, so a run that was started goes on. *)
FairSpec == Spec /\ WF_vars(RunStep)

-----------------------------------------------------------------------------

Location == {"idle", "beforeSuite", "abort", "abortResult", "select",
             "beforeEach", "execute", "afterEach", "report", "end"}

Frame == [remaining : Nat, duration : Nat, lifecycleError : SUBSET Hook,
          result : {"returned", "threw"},
          status : {"Passed", "Failed", "LifecycleError"}, exception : SUBSET Cause]
Detail == [duration : Nat, cause : SUBSET Cause]
CallCount == [attempts : Nat, beforeEach : Nat, body : Nat, afterEach : Nat,
              threw : SUBSET Cause]

(* Every variable stays in its range: counters and attempts never wrap     *)
(* below zero (they are unsigned in the code), and back() is read from a   *)
(* vector of errors that has one.                                          *)
TypeOK ==
    /\ tests \in Seq(Test) /\ added \in Seq(Test)
    /\ options \in [Test -> TestOption]
    /\ fixtureType \in Fixture \cup {"none"}
    /\ testFilter \subseteq Test
    /\ statistic \in [Counter -> Nat]
    /\ lastError \in Hook \cup {"none"}
    /\ pc \in {"abort", "abortResult"} => lastError # "none"
    /\ status \in [Test -> {"NotRun", "Passed", "Failed", "Skipped"}]
    /\ executionTimer \in [Test -> Nat]
    /\ pc \in Location
    /\ pos \in 1..(Len(tests) + 1)
    /\ frame \in Frame
    /\ hooksSucceeded \in BOOLEAN
    /\ returned \in {"none", "true", "false"}
    /\ open \in BOOLEAN /\ aborted \in BOOLEAN
    /\ running \subseteq Test
    /\ outcome \in [Test -> Outcome]
    /\ info \in [Counter -> Nat]
    /\ details \in [Test -> Detail]
    /\ calls \in [Test -> CallCount]
    /\ suiteHooks \in [called : SUBSET Hook, threw : SUBSET Hook]

-----------------------------------------------------------------------------
(* Properties. *)

Reported == {t \in Test : outcome[t] # "NotRun"}
SetupFailed == "beforeSuite" \in suiteHooks.threw

(* The counters are the tally of the results reported in this run, in the  *)
(* suite and in what the handler was told, and when run() ends they add up *)
(* to the number of tests the filter selected. A counter survives a retry, *)
(* an early return or a second run only if one of them is wrong.           *)
Accounting ==
    /\ statistic = Tally(outcome)
    /\ info = statistic
    /\ pc = "end" => statistic["passed"] + statistic["failed"] + statistic["skipped"]
                        = Cardinality(Expected)

(* run() returns true exactly if no suite-level hook threw and no hook     *)
(* threw in the last attempt of a test, and the handler is told of a suite *)
(* error exactly if a suite-level hook threw.                              *)
ReturnTellsHookErrors ==
    pc = "idle" /\ returned # "none" =>
        /\ returned = "true" <=> /\ suiteHooks.threw = {}
                                  /\ \A t \in Test : calls[t].threw \subseteq {"body"}
        /\ aborted <=> suiteHooks.threw # {}

(* A test reported as failing used all its attempts, one reported as       *)
(* passing at least one, and none more than it has (guide.md, maxAttempts). *)
RetryContract ==
    \A t \in Test :
        /\ calls[t].attempts <= options[t].maxAttempts
        /\ outcome[t] \in {"Failed", "LifecycleError"} /\ ~SetupFailed =>
               calls[t].attempts = options[t].maxAttempts
        /\ outcome[t] = "Passed" => calls[t].attempts >= 1

(* Each attempt whose beforeEach was called has its afterEach called, also *)
(* when beforeEach or the body threw; and afterSuite is called exactly if  *)
(* beforeSuite succeeded, which is also when tests may run at all.         *)
HooksPaired ==
    /\ \A t \in Reported : /\ calls[t].beforeEach = calls[t].attempts * HookCall
                           /\ calls[t].afterEach = calls[t].beforeEach
    /\ SetupFailed => \A t \in Test : calls[t] = NoCalls
    /\ pc = "end" => ("afterSuite" \in suiteHooks.called <=> HasHooks /\ ~SetupFailed)

(* A disabled test, or one the filter leaves out, reaches no user code; it *)
(* keeps the status Skipped through every run, and is reported skipped     *)
(* unless the suite could not be set up.                                   *)
DisabledNeverExecuted ==
    \A t \in Test :
        /\ status[t] = "Skipped" <=> options[t].disabled
        /\ options[t].disabled \/ t \notin running \cup Reported => calls[t] = NoCalls
        /\ options[t].disabled /\ t \in Reported =>
              outcome[t] = IF SetupFailed THEN "LifecycleError" ELSE "Skipped"

(* The reported result and exception are those of the last attempt: what   *)
(* an earlier attempt threw leaves no trace, a hook's exception hides the  *)
(* body's, and a test passes only if its body was entered and returned.    *)
VerdictOfLastAttempt ==
    \A t \in Reported : calls[t].attempts > 0 =>
        LET threw == calls[t].threw
            cause == details[t].cause
        IN  /\ outcome[t] = "Passed" <=> threw = {} /\ calls[t].body > 0
            /\ outcome[t] = "Failed" <=> threw = {"body"}
            /\ cause = IF threw = {"body"} THEN threw ELSE threw \ {"body"}

(* The reported duration covers every execution of the body in this run    *)
(* and none of an earlier run.                                             *)
DurationCoversThisRun ==
    \A t \in Reported : details[t].duration = calls[t].body

(* Results are reported by ascending order, and in the order of            *)
(* registration among equal ones, in every run of the suite.               *)
RunsInOrder ==
    [][\A t \in Reported' \ Reported, u \in Reported :
           open /\ open' => Precedes(added, u, t)]_vars

(* guide.md: entries with the same order run in name order.                *)
SameOrderRunsInNameOrder ==
    [][\A t \in Reported' \ Reported, u \in Reported :
           open /\ open' /\ options[t].order = options[u].order => u < t]_vars

(* A run that was started returns. *)
Terminates == (pc # "idle") ~> (pc = "idle")

(* The callbacks keep the contract of SuiteReport: one result per selected *)
(* test, after its start unless it is skipped, no overlap, every test      *)
(* before a suite error and before the end, correct counters throughout.   *)
Contract == INSTANCE SuiteReport WITH expected <- Expected
ReportsAsPromised == Contract!Spec
=============================================================================
