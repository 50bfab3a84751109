--------------------------- MODULE SuiteRunProofs ---------------------------
(* What holds of a suite for every set of tests, options and attempts.      *)
EXTENDS SuiteRun, FiniteSetTheorems, TLAPS

-----------------------------------------------------------------------------
(* The tally of an outcome: what it is before any result, what one more     *)
(* result changes, and that its counters partition the results.             *)

LEMMA CountedFinite ==
    ASSUME IsFiniteSet(Test), NEW o, NEW c
    PROVE  /\ IsFiniteSet(Counted(o, c))
           /\ Cardinality(Counted(o, c)) \in Nat
<1>1. Counted(o, c) \in SUBSET Test
  BY DEF Counted
<1>2. IsFiniteSet(Counted(o, c))
  BY <1>1, FS_Subset
<1>3. QED
  BY <1>2, FS_CardinalityType

(* The counter of a result is one of the three. *)
LEMMA CounterOfType == \A s : CounterOf(s) \in Counter
  BY DEF CounterOf, Counter

(* A tally has three natural numbers. *)
LEMMA TallyType ==
    ASSUME IsFiniteSet(Test), NEW o
    PROVE  Tally(o) \in [Counter -> Nat]
  BY CountedFinite DEF Tally

(* Before any result every counter is zero. *)
LEMMA TallyNothing == Tally(NothingRun) = NoResults
<1>1. \A c \in Counter : Counted(NothingRun, c) = {}
  BY DEF Counted, NothingRun
<1>2. QED
  BY <1>1, FS_EmptySet DEF Tally, NoResults

(* The result of a test that had none adds one to its counter.              *)
LEMMA TallyReport ==
    ASSUME IsFiniteSet(Test), NEW o \in [Test -> Outcome],
           NEW t \in Test, o[t] = "NotRun", NEW s \in Verdict
    PROVE  Tally([o EXCEPT ![t] = s])
             = [Tally(o) EXCEPT ![CounterOf(s)] = @ + 1]
<1> DEFINE p == [o EXCEPT ![t] = s]
<1>1. s # "NotRun"
  BY DEF Verdict
<1>2. Counted(p, CounterOf(s)) = Counted(o, CounterOf(s)) \cup {t}
  BY <1>1 DEF Counted
<1>3. \A c \in Counter : c # CounterOf(s) => Counted(p, c) = Counted(o, c)
  BY <1>1 DEF Counted
<1>4. t \notin Counted(o, CounterOf(s))
  BY DEF Counted
<1>5. Cardinality(Counted(p, CounterOf(s)))
        = Cardinality(Counted(o, CounterOf(s))) + 1
  BY <1>2, <1>4, CountedFinite, FS_AddElement
<1>6. \A c \in Counter :
         Tally(p)[c] = [Tally(o) EXCEPT ![CounterOf(s)] = @ + 1][c]
  BY <1>3, <1>5, CounterOfType DEF Tally
<1>7. DOMAIN Tally(p) = Counter /\ DOMAIN Tally(o) = Counter
  BY DEF Tally
<1> HIDE DEF p
<1>8. Tally(p) = [Tally(o) EXCEPT ![CounterOf(s)] = @ + 1]
  BY <1>6, <1>7 DEF Tally
<1>9. QED
  BY <1>8 DEF p

(* The three counters together count every test with a result.              *)
LEMMA TallySum ==
    ASSUME IsFiniteSet(Test), NEW o
    PROVE  Tally(o)["passed"] + Tally(o)["failed"] + Tally(o)["skipped"]
             = Cardinality({t \in Test : o[t] # "NotRun"})
<1> DEFINE P == Counted(o, "passed")
           F == Counted(o, "failed")
           S == Counted(o, "skipped")
<1>1. IsFiniteSet(P) /\ IsFiniteSet(F) /\ IsFiniteSet(S)
  BY CountedFinite
<1>2. P \cap F = {} /\ (P \cup F) \cap S = {}
  BY DEF Counted
<1>3. (P \cup F) \cup S = {t \in Test : o[t] # "NotRun"}
  BY CounterOfType DEF Counted, Counter
<1>4. Tally(o)["passed"] = Cardinality(P) /\ Tally(o)["failed"] = Cardinality(F)
        /\ Tally(o)["skipped"] = Cardinality(S)
  BY DEF Tally, Counter
<1>5. Cardinality(P) \in Nat /\ Cardinality(F) \in Nat /\ Cardinality(S) \in Nat
  BY CountedFinite
<1> HIDE DEF P, F, S
<1>6. /\ IsFiniteSet(P \cup F)
      /\ Cardinality(P \cup F) = Cardinality(P) + Cardinality(F)
  <2>1. Cardinality(P \cup F) = Cardinality(P) + Cardinality(F) - Cardinality(P \cap F)
    BY <1>1, FS_Union
  <2>2. Cardinality(P \cap F) = 0
    BY <1>2, FS_EmptySet
  <2>3. IsFiniteSet(P \cup F)
    BY <1>1, FS_Union
  <2>4. QED
    BY <1>5, <2>1, <2>2, <2>3
<1>7. Cardinality((P \cup F) \cup S) = Cardinality(P \cup F) + Cardinality(S)
  <2>1. Cardinality((P \cup F) \cup S)
          = Cardinality(P \cup F) + Cardinality(S) - Cardinality((P \cup F) \cap S)
    BY <1>1, <1>6, FS_Union
  <2>2. Cardinality((P \cup F) \cap S) = 0
    BY <1>2, FS_EmptySet
  <2>3. QED
    BY <1>5, <1>6, <2>1, <2>2
<1>8. QED
  BY <1>3, <1>4, <1>6, <1>7

USE TestAssumption, OrderAssumption, AttemptLimitAssumption

-----------------------------------------------------------------------------
(* The sort permutes the tests. *)

LEMMA SortPermutes ==
    ASSUME NEW s \in Seq(Test), NEW r \in StableSorts(s)
    PROVE  /\ r \in Seq(Test)
           /\ Len(r) = Len(s)
           /\ Range(r) = Range(s)
           /\ \A i, j \in 1..Len(r) : r[i] = r[j] => i = j
<1>1. r \in [1..Len(s) -> Range(s)]
  BY DEF StableSorts, Bijection, Injection
<1>2. /\ \A i, j \in 1..Len(s) : r[i] = r[j] => i = j
      /\ \A t \in Range(s) : \E i \in 1..Len(s) : r[i] = t
  BY DEF StableSorts, Bijection, Injection, Surjection, IsInjective
<1>3. Range(s) \subseteq Test
  BY DEF Range
<1>4. Len(s) \in Nat
  OBVIOUS
<1>5. r \in Seq(Test) /\ Len(r) = Len(s)
  BY <1>1, <1>3, <1>4
<1>6. DOMAIN r = 1..Len(s)
  BY <1>1
<1>7. Range(r) = Range(s)
  <2>1. Range(r) = {r[i] : i \in 1..Len(s)}
    BY <1>6 DEF Range
  <2>2. QED
    BY <1>1, <1>2, <2>1
<1>8. QED
  BY <1>2, <1>5, <1>7

LEMMA CurrentTestType ==
    ASSUME TypeOK, ~AtEnd
    PROVE  CurrentTest \in Test
  BY DEF TypeOK, AtEnd, CurrentTest

-----------------------------------------------------------------------------
(* Every reachable state is well typed: no location, counter, attempt or    *)
(* position of run() leaves its range, whatever user code does.             *)

LEMMA InitialRecords == NoCalls \in CallCount /\ NoFrame \in Frame /\ NoDetail \in Detail
  BY DEF NoCalls, CallCount, NoFrame, Frame, NoDetail, Detail

LEMMA TypeInit == Init => TypeOK
<1> SUFFICES ASSUME Init PROVE TypeOK
  OBVIOUS
<1>1. DefaultOption \in TestOption
  BY DEF DefaultOption, TestOption
<1>2. NoCalls \in CallCount /\ NoFrame \in Frame /\ NoDetail \in Detail
  BY InitialRecords
<1>3. tests \in Seq(Test) /\ added \in Seq(Test) /\ pos \in 1..(Len(tests) + 1)
  BY DEF Init
<1>4. /\ status \in [Test -> {"NotRun", "Passed", "Failed", "Skipped"}]
      /\ outcome \in [Test -> Outcome]
  BY DEF Init, NothingRun, Outcome
<1>5. statistic \in [Counter -> Nat] /\ info \in [Counter -> Nat]
  BY DEF Init, NoResults
<1>6. QED
  BY <1>1, <1>2, <1>3, <1>4, <1>5 DEF Init, TypeOK, Location

LEMMA CallTypes ==
    ASSUME NEW c \in CallCount, NEW o
    PROVE  /\ WithBeforeEach(c, o) \in CallCount
           /\ WithBody(c, o) \in CallCount
           /\ WithAfterEach(c, o) \in CallCount
<1>1. /\ c.attempts + 1 \in Nat /\ c.beforeEach + HookCall \in Nat
      /\ c.body + 1 \in Nat /\ c.afterEach + HookCall \in Nat
      /\ c.threw \in SUBSET Cause
  BY DEF CallCount, HookCall
<1>2. \A what \in Cause : Threw(what, o) \in SUBSET Cause
  BY DEF Threw
<1>3. WithBeforeEach(c, o) \in CallCount
  BY <1>1, <1>2 DEF WithBeforeEach, CallCount, Cause, Hook
<1>4. WithBody(c, o) \in CallCount
  BY <1>1, <1>2 DEF WithBody, CallCount, Cause
<1>5. WithAfterEach(c, o) \in CallCount
  BY <1>1, <1>2 DEF WithAfterEach, CallCount, Cause, Hook
<1>6. QED
  BY <1>3, <1>4, <1>5

LEMMA ReportType ==
    ASSUME TypeOK, NEW t \in Test, NEW s \in Verdict, NEW duration \in Nat,
           NEW cause \in SUBSET Cause, ReportResult(t, s, duration, cause)
    PROVE  /\ statistic' \in [Counter -> Nat] /\ info' \in [Counter -> Nat]
           /\ outcome' \in [Test -> Outcome] /\ details' \in [Test -> Detail]
           /\ running' \subseteq Test
           /\ open' = open /\ aborted' = aborted
<1>1. statistic' \in [Counter -> Nat]
  BY CounterOfType DEF TypeOK, ReportResult
<1>2. info' \in [Counter -> Nat]
  BY <1>1, CounterOfType DEF TypeOK, ReportResult
<1>3. [duration |-> duration, cause |-> cause] \in Detail
  BY DEF Detail
<1>4. QED
  BY <1>1, <1>2, <1>3 DEF TypeOK, ReportResult, Outcome

LEMMA TypeNext == TypeOK /\ [Next]_vars => TypeOK'
<1> SUFFICES ASSUME TypeOK, [Next]_vars PROVE TypeOK'
  OBVIOUS
<1> USE CurrentTestType DEF suiteVars, testVars, callVars, handlerVars
<1>1. ASSUME NEW t \in Test, NEW option \in TestOption, AddTest(t, option)
      PROVE  TypeOK'
  <2>1. /\ tests' \in Seq(Test) /\ added' \in Seq(Test)
        /\ pos' \in 1..(Len(tests') + 1)
    BY <1>1 DEF TypeOK, AddTest
  <2>2. /\ options' \in [Test -> TestOption]
        /\ status' \in [Test -> {"NotRun", "Passed", "Failed", "Skipped"}]
    BY <1>1 DEF TypeOK, AddTest
  <2>3. QED
    BY <1>1, <2>1, <2>2 DEF TypeOK, AddTest
<1>2. ASSUME NEW S \in SUBSET Test, SetTestFilter(S) PROVE TypeOK'
  BY <1>2 DEF TypeOK, SetTestFilter
<1>3. CASE Begin
  <2>1. tests \in Seq(Test) /\ tests' \in StableSorts(tests)
    BY <1>3 DEF TypeOK, Begin
  <2>2. tests' \in Seq(Test) /\ pos' \in 1..(Len(tests') + 1)
    BY <1>3, <2>1, SortPermutes DEF Begin
  <2>3. outcome' \in [Test -> Outcome] /\ info' \in [Counter -> Nat]
        /\ statistic' \in [Counter -> Nat]
    BY <1>3 DEF Begin, NothingRun, NoResults, Outcome
  <2>4. details' \in [Test -> Detail] /\ calls' \in [Test -> CallCount]
    BY <1>3, InitialRecords DEF Begin
  <2>5. QED
    BY <1>3, <2>2, <2>3, <2>4 DEF TypeOK, Begin, Location
<1>4. ASSUME NEW o, BeforeSuite(o) PROVE TypeOK'
  <2>1. /\ lastError' \in Hook \cup {"none"}
        /\ pc' \in {"abort", "select"} /\ (pc' = "abort" => lastError' # "none")
        /\ suiteHooks' \in [called : SUBSET Hook, threw : SUBSET Hook]
    BY <1>4 DEF TypeOK, BeforeSuite, SuiteHook, InvokeHook, Threw, Hook
  <2>2. QED
    BY <1>4, <2>1 DEF TypeOK, BeforeSuite, Location
<1>5. CASE SkipUnselected
  <2>1. pos' \in 1..(Len(tests') + 1)
    BY <1>5 DEF TypeOK, SkipUnselected, AfterUnselected, At, AtEnd
  <2>2. QED
    BY <1>5, <2>1 DEF TypeOK, SkipUnselected, AfterUnselected
<1>6. CASE AbortTestStart
  BY <1>6 DEF TypeOK, AbortTestStart, AtSelected, At, ReportStart, Location
<1>7. CASE AbortTestResult
  <2>1. ~AtEnd /\ CurrentTest \in Test /\ pos' \in 1..(Len(tests') + 1)
    BY <1>7 DEF TypeOK, AbortTestResult, At, AtEnd
  <2>2. {lastError} \in SUBSET Cause
    BY <1>7 DEF TypeOK, AbortTestResult, At, Cause
  <2>3. QED
    <3>1. /\ statistic' \in [Counter -> Nat] /\ info' \in [Counter -> Nat]
          /\ outcome' \in [Test -> Outcome] /\ details' \in [Test -> Detail]
          /\ running' \subseteq Test
          /\ open' = open /\ aborted' = aborted
      BY <1>7, <2>1, <2>2, ReportType DEF AbortTestResult, Verdict
    <3>2. QED
      BY <1>7, <2>1, <3>1 DEF TypeOK, AbortTestResult, At, Location
<1>8. CASE AbortSuite
  BY <1>8 DEF TypeOK, AbortSuite, ReportSuiteError, Location
<1>9. CASE SkipDisabled
  <2>1. ~AtEnd /\ CurrentTest \in Test /\ pos' \in 1..(Len(tests') + 1)
    BY <1>9 DEF TypeOK, SkipDisabled, AtSelected, At, AtEnd
  <2>2. /\ statistic' \in [Counter -> Nat] /\ info' \in [Counter -> Nat]
        /\ outcome' \in [Test -> Outcome] /\ details' \in [Test -> Detail]
        /\ running' \subseteq Test
        /\ open' = open /\ aborted' = aborted
    BY <1>9, <2>1, ReportType DEF SkipDisabled, Verdict
  <2>3. QED
    BY <1>9, <2>1, <2>2 DEF TypeOK, SkipDisabled
<1>10. CASE StartTest
  <2>1. CurrentTest \in Test
    BY <1>10 DEF StartTest, AtSelected, At
  <2>2. frame' \in Frame
    BY <1>10, <2>1 DEF TypeOK, StartTest, Frame, NoFrame, TestOption
  <2>3. QED
    BY <1>10, <2>1, <2>2 DEF TypeOK, StartTest, ReportStart, Location
<1>11. ASSUME NEW o, BeforeEach(o) PROVE TypeOK'
  <2>0. calls \in [Test -> CallCount]
    BY DEF TypeOK
  <2>1. CurrentTest \in Test
    BY <1>11 DEF BeforeEach, At
  <2>2. lastError' \in Hook \cup {"none"} /\ (o = "throws" => lastError' \in Hook)
    BY <1>11 DEF TypeOK, BeforeEach, InvokeHook, Hook
  <2>3. frame' \in Frame
    BY <1>11, <2>2 DEF TypeOK, BeforeEach, Frame
  <2>4. calls' \in [Test -> CallCount]
    BY <1>11, <2>0, <2>1, CallTypes DEF BeforeEach
  <2>5. QED
    BY <1>11, <2>2, <2>3, <2>4 DEF TypeOK, BeforeEach, AfterBeforeEach, Location
<1>12. ASSUME NEW o, Execute(o) PROVE TypeOK'
  <2>0. calls \in [Test -> CallCount]
    BY DEF TypeOK
  <2>1. CurrentTest \in Test
    BY <1>12 DEF Execute, At
  <2>2. executionTimer' \in [Test -> Nat]
    BY <1>12, <2>1 DEF TypeOK, Execute, Restarted
  <2>3. status' \in [Test -> {"NotRun", "Passed", "Failed", "Skipped"}]
    BY <1>12, <2>1 DEF TypeOK, Execute
  <2>4. frame' \in Frame
    <3>1. frame \in Frame /\ executionTimer'[CurrentTest] \in Nat
      BY <2>1, <2>2 DEF TypeOK
    <3>2. \E r \in {"returned", "threw"} :
             frame' = [frame EXCEPT !.result = r, !.duration = @ + executionTimer'[CurrentTest]]
      BY <1>12 DEF Execute
    <3>3. frame.duration + executionTimer'[CurrentTest] \in Nat
      BY <3>1 DEF Frame
    <3>4. QED
      BY <3>1, <3>2, <3>3 DEF Frame
  <2>5. calls' \in [Test -> CallCount]
    BY <1>12, <2>0, <2>1, CallTypes DEF Execute
  <2>6. QED
    BY <1>12, <2>2, <2>3, <2>4, <2>5 DEF TypeOK, Execute, Location
<1>13. ASSUME NEW o, AfterEach(o) PROVE TypeOK'
  <2>0. calls \in [Test -> CallCount]
    BY DEF TypeOK
  <2>1. CurrentTest \in Test
    BY <1>13 DEF AfterEach, At
  <2>2. lastError' \in Hook \cup {"none"} /\ (o = "throws" => lastError' \in Hook)
    BY <1>13 DEF TypeOK, AfterEach, InvokeHook, Hook
  <2>3. frame' \in Frame
    <3> DEFINE error == frame.lifecycleError \cup IF o = "throws" THEN {lastError'} ELSE {}
               s == AttemptStatus(error, frame.result)
    <3>1. error \in SUBSET Hook /\ frame.remaining \in Nat
      BY <2>2 DEF TypeOK, Frame
    <3>2. s \in {"Passed", "Failed", "LifecycleError"}
      BY DEF AttemptStatus
    <3>3. Exception(error, frame.result) \in SUBSET Cause
      BY <3>1 DEF Exception, Cause
    <3>4. (IF LastAttempt(s, frame.remaining) THEN frame.remaining
                                              ELSE frame.remaining - 1) \in Nat
      BY <3>1 DEF LastAttempt
    <3>5. frame' = [frame EXCEPT !.lifecycleError = error, !.status = s,
                                 !.exception = Exception(error, frame.result),
                                 !.remaining = IF LastAttempt(s, frame.remaining)
                                               THEN @ ELSE @ - 1]
      BY <1>13 DEF AfterEach
    <3> HIDE DEF error, s
    <3>6. QED
      BY <3>1, <3>2, <3>3, <3>4, <3>5 DEF TypeOK, Frame
  <2>4. calls' \in [Test -> CallCount]
    BY <1>13, <2>0, <2>1, CallTypes DEF AfterEach
  <2>5. pc' \in Location
    BY <1>13 DEF AfterEach, Location
  <2>6. QED
    BY <1>13, <2>2, <2>3, <2>4, <2>5 DEF TypeOK, AfterEach
<1>14. CASE FinishTest
  <2>1. ~AtEnd /\ CurrentTest \in Test /\ pos' \in 1..(Len(tests') + 1)
    BY <1>14 DEF TypeOK, FinishTest, At, AtEnd
  <2>2. /\ frame.status \in Verdict /\ frame.duration \in Nat
        /\ frame.exception \in SUBSET Cause
    BY DEF TypeOK, Frame, Verdict
  <2>3. QED
    BY <1>14, <2>1, <2>2, ReportType DEF TypeOK, FinishTest, StillSucceeded, Location
<1>15. ASSUME NEW o, AfterSuite(o) PROVE TypeOK'
  <2>1. lastError' \in Hook \cup {"none"} /\ suiteHooks' \in [called : SUBSET Hook, threw : SUBSET Hook]
    BY <1>15 DEF TypeOK, AfterSuite, SuiteHook, InvokeHook, Threw, Hook
  <2>2. QED
    BY <1>15, <2>1 DEF TypeOK, AfterSuite, ReportSuiteError, Location
<1>16. CASE EndSuite
  BY <1>16 DEF TypeOK, EndSuite, Location
<1>17. CASE UNCHANGED vars
  BY <1>17 DEF TypeOK, vars
<1>18. QED
  BY <1>1, <1>2, <1>3, <1>4, <1>5, <1>6, <1>7, <1>8, <1>9, <1>10, <1>11, <1>12,
     <1>13, <1>14, <1>15, <1>16, <1>17 DEF Next, RunStep

(* Every variable of a suite stays in its range, its counters too, and the  *)
(* loop over the tests never leaves them.                                    *)
THEOREM TypeCorrect == Spec => []TypeOK
<1>1. QED
  BY TypeInit, TypeNext, PTL DEF Spec

-----------------------------------------------------------------------------
(* The inductive invariant. The loop of run() has reported exactly the      *)
(* selected tests before pos; as no test occurs twice, the one at pos has   *)
(* no result yet, so one more result adds one to one counter.               *)

InTest == {"abortResult", "beforeEach", "execute", "afterEach", "report"}
Done == {tests[i] : i \in 1..(pos - 1)} \cap testFilter

NoTestTwice == \A i, j \in 1..Len(tests) : tests[i] = tests[j] => i = j

Position ==
    /\ pc \in InTest => ~AtEnd /\ CurrentTest \in testFilter
    /\ pc = "end" => AtEnd

Reporting ==
    /\ open <=> pc # "idle"
    /\ pc \notin {"idle", "end"} => ~aborted
    /\ running = IF pc \in InTest THEN {CurrentTest} ELSE {}
    /\ pc # "idle" => Reported = Done

Counting == statistic = Tally(outcome) /\ info = statistic

Inv == TypeOK /\ NoTestTwice /\ Position /\ Reporting /\ Counting

LEMMA CurrentNotReported ==
    ASSUME Inv, pc # "idle", ~AtEnd
    PROVE  CurrentTest \in Test /\ CurrentTest \notin Reported
           /\ outcome[CurrentTest] = "NotRun"
<1>1. CurrentTest \in Test
  BY CurrentTestType DEF Inv
<1>2. tests \in Seq(Test) /\ pos \in 1..Len(tests)
  BY DEF Inv, TypeOK, AtEnd
<1>3. \A i \in 1..(pos - 1) : tests[i] # tests[pos]
  BY <1>2 DEF Inv, NoTestTwice
<1>4. CurrentTest \notin Done
  BY <1>3 DEF Done, CurrentTest
<1>5. QED
  BY <1>1, <1>4 DEF Inv, Reporting, Reported

LEMMA AllReportedAtEnd ==
    ASSUME Inv, pc # "idle", AtEnd
    PROVE  Reported = Expected
<1>1. tests \in Seq(Test) /\ pos = Len(tests) + 1
  BY DEF Inv, TypeOK, AtEnd
<1>2. Range(tests) = {tests[i] : i \in 1..(pos - 1)}
  BY <1>1 DEF Range
<1>3. QED
  BY <1>2 DEF Inv, Reporting, Done, Expected

(* One iteration of a loop that reports the test at pos.                    *)
LEMMA ReportAdvances ==
    ASSUME Inv, TypeOK', pc # "idle", ~AtEnd, CurrentTest \in testFilter,
           tests' = tests, testFilter' = testFilter, pos' = pos + 1,
           NEW s \in Verdict, NEW duration, NEW cause,
           ReportResult(CurrentTest, s, duration, cause)
    PROVE  /\ Reported' = Done'
           /\ Reported' = Reported \cup {CurrentTest}
           /\ Counting'
           /\ running' = {}
<1>1. CurrentTest \in Test /\ outcome[CurrentTest] = "NotRun"
  BY CurrentNotReported
<1>2. outcome \in [Test -> Outcome] /\ outcome' = [outcome EXCEPT ![CurrentTest] = s]
  BY DEF Inv, TypeOK, ReportResult
<1>3. Reported' = Reported \cup {CurrentTest}
  BY <1>1, <1>2 DEF Reported, Verdict
<1>4. pos \in 1..Len(tests)
  BY DEF Inv, TypeOK, AtEnd
<1>5. Done' = Done \cup {CurrentTest}
  BY <1>4 DEF Done, CurrentTest
<1>6. Tally(outcome') = [Tally(outcome) EXCEPT ![CounterOf(s)] = @ + 1]
  BY <1>1, <1>2, TallyReport
<1>7. statistic' = Tally(outcome')
  BY <1>6 DEF ReportResult, Inv, Counting
<1>8. info' = statistic'
  <2>1. CounterOf(s) \in Counter /\ statistic \in [Counter -> Nat]
    BY CounterOfType DEF Inv, TypeOK
  <2>2. QED
    BY <2>1 DEF ReportResult
<1>9. running' = {}
  BY DEF ReportResult, Inv, Reporting
<1>10. QED
  BY <1>3, <1>5, <1>7, <1>8, <1>9 DEF Inv, Reporting, Counting

LEMMA InvInit == Init => Inv
<1> SUFFICES ASSUME Init PROVE Inv
  OBVIOUS
<1>1. TypeOK
  BY TypeInit
<1>2. NoTestTwice /\ Position /\ Reporting
  BY DEF Init, NoTestTwice, Position, Reporting, InTest, Reported
<1>3. Counting
  BY TallyNothing DEF Init, Counting
<1>4. QED
  BY <1>1, <1>2, <1>3 DEF Inv

LEMMA InvNext == Inv /\ [Next]_vars => Inv'
<1> SUFFICES ASSUME Inv, [Next]_vars PROVE Inv'
  OBVIOUS
<1>0. TypeOK /\ TypeOK'
  BY TypeNext DEF Inv
<1> DEFINE Rest == NoTestTwice' /\ Position' /\ Reporting' /\ Counting'
<1> USE DEF suiteVars, testVars, callVars, handlerVars
(* The steps of run() that change neither what was reported nor pos.        *)
<1>S. ASSUME UNCHANGED <<tests, testFilter, pos, statistic, open, aborted,
                         running, outcome, info>>,
             Position', pc \notin {"idle", "end"}, pc' \notin {"idle", "end"},
             pc \in InTest <=> pc' \in InTest
      PROVE  Rest
  <2>1. NoTestTwice' /\ Counting'
    BY <1>S DEF Inv, NoTestTwice, Counting
  <2>2. Reporting'
    <3>1. CurrentTest' = CurrentTest /\ Reported' = Reported /\ Done' = Done
      BY <1>S DEF CurrentTest, Reported, Done
    <3>2. InTest' = InTest
      BY DEF InTest
    <3>3. QED
      BY <1>S, <3>1, <3>2 DEF Inv, Reporting
  <2>3. QED
    BY <1>S, <2>1, <2>2
<1>1. ASSUME NEW t \in Test, NEW option \in TestOption, AddTest(t, option)
      PROVE  Rest
  <2>1. NoTestTwice'
    <3>1. tests \in Seq(Test) /\ tests' = Append(tests, t) /\ t \notin Range(tests)
      BY <1>0, <1>1 DEF TypeOK, AddTest, Accepts
    <3>2. \A i \in 1..Len(tests) : tests[i] # t
      BY <3>1 DEF Range
    <3>3. /\ Len(tests') = Len(tests) + 1
          /\ \A i \in 1..Len(tests) : tests'[i] = tests[i]
          /\ tests'[Len(tests) + 1] = t
      BY <3>1
    <3>4. Len(tests) \in Nat
      BY <3>1
    <3>5. \A i, j \in 1..Len(tests) : tests[i] = tests[j] => i = j
      BY DEF Inv, NoTestTwice
    <3>6. QED
      BY <3>2, <3>3, <3>4, <3>5 DEF NoTestTwice
  <2>2. Position' /\ Reporting' /\ Counting'
    BY <1>1 DEF AddTest, Inv, Position, Reporting, Counting, InTest
  <2>3. QED
    BY <2>1, <2>2
<1>2. ASSUME NEW S \in SUBSET Test, SetTestFilter(S) PROVE Rest
  BY <1>2 DEF SetTestFilter, Inv, NoTestTwice, Position, Reporting, Counting, InTest
<1>3. ASSUME Begin PROVE Rest
  <2>1. NoTestTwice'
    BY <1>0, <1>3, SortPermutes DEF Begin, TypeOK, NoTestTwice
  <2>2. Position' /\ Reporting'
    BY <1>3 DEF Begin, Position, Reporting, InTest, Reported, Done, NothingRun
  <2>3. Counting'
    BY <1>3, TallyNothing DEF Begin, Counting
  <2>4. QED
    BY <2>1, <2>2, <2>3
<1>4. ASSUME NEW o, BeforeSuite(o) PROVE Rest
  <2>1. pc = "beforeSuite" /\ pc' \in {"abort", "select"}
    BY <1>4 DEF BeforeSuite
  <2>2. Position'
    BY <2>1 DEF Position, InTest
  <2>3. QED
    BY <1>4, <1>S, <2>1, <2>2 DEF BeforeSuite, InTest
<1>5. ASSUME SkipUnselected PROVE Rest
  <2>1. /\ pc' = pc /\ pc \in {"abort", "select"} /\ ~AtEnd
        /\ CurrentTest \notin testFilter
    BY <1>5 DEF SkipUnselected, AfterUnselected, At
  <2>2. pos \in 1..Len(tests)
    BY <1>0, <2>1 DEF TypeOK, AtEnd
  <2>3. Done' = Done
    BY <1>5, <2>1, <2>2 DEF SkipUnselected, AfterUnselected, Done, CurrentTest
  <2>4. Reporting'
    BY <1>5, <2>1, <2>3 DEF SkipUnselected, AfterUnselected, Inv, Reporting, InTest, Reported
  <2>5. NoTestTwice' /\ Position' /\ Counting'
    BY <1>5, <2>1 DEF SkipUnselected, AfterUnselected, Inv, NoTestTwice, Position, Counting, InTest
  <2>6. QED
    BY <2>4, <2>5
<1>6. ASSUME AbortTestStart PROVE Rest
  <2>1. /\ pc = "abort" /\ pc' = "abortResult" /\ ~AtEnd
        /\ CurrentTest \in testFilter /\ ReportStart(CurrentTest)
    BY <1>6 DEF AbortTestStart, AtSelected, At
  <2>2. UNCHANGED <<tests, testFilter, pos>>
    BY <1>6 DEF AbortTestStart
  <2>3. QED
    BY <2>1, <2>2 DEF ReportStart, Inv, NoTestTwice, Position, Reporting, Counting,
       InTest, Reported, Done, AtEnd, CurrentTest
<1>7. ASSUME AbortTestResult PROVE Rest
  <2>1. /\ pc = "abortResult" /\ pc' = "abort" /\ ~AtEnd /\ CurrentTest \in testFilter
    BY <1>7 DEF AbortTestResult, At, Inv, Position, InTest
  <2>2. /\ Reported' = Done' /\ Counting' /\ running' = {}
    BY <1>0, <1>7, <2>1, ReportAdvances DEF AbortTestResult, Verdict
  <2>3. QED
    BY <1>7, <2>1, <2>2 DEF AbortTestResult, ReportResult, Inv, NoTestTwice, Position,
       Reporting, InTest
<1>8. ASSUME AbortSuite PROVE Rest
  BY <1>8 DEF AbortSuite, ReportSuiteError, Inv, NoTestTwice, Position, Reporting,
     Counting, InTest, Reported, Done, AtEnd
<1>9. ASSUME SkipDisabled PROVE Rest
  <2>1. /\ pc = "select" /\ pc' = "select" /\ ~AtEnd /\ CurrentTest \in testFilter
    BY <1>9 DEF SkipDisabled, AtSelected, At
  <2>2. /\ Reported' = Done' /\ Counting' /\ running' = {}
    BY <1>0, <1>9, <2>1, ReportAdvances DEF SkipDisabled, Verdict
  <2>3. QED
    BY <1>9, <2>1, <2>2 DEF SkipDisabled, ReportResult, Inv, NoTestTwice, Position,
       Reporting, InTest
<1>10. ASSUME StartTest PROVE Rest
  <2>1. /\ pc = "select" /\ pc' = "beforeEach" /\ ~AtEnd
        /\ CurrentTest \in testFilter /\ ReportStart(CurrentTest)
    BY <1>10 DEF StartTest, AtSelected, At
  <2>2. UNCHANGED <<tests, testFilter, pos>>
    BY <1>10 DEF StartTest
  <2>3. QED
    BY <2>1, <2>2 DEF ReportStart, Inv, NoTestTwice, Position, Reporting, Counting,
       InTest, Reported, Done, AtEnd, CurrentTest
<1>11. ASSUME NEW o, BeforeEach(o) PROVE Rest
  <2>1. pc = "beforeEach" /\ pc' \in {"afterEach", "execute"}
    BY <1>11 DEF BeforeEach, At, AfterBeforeEach
  <2>2. Position'
    BY <1>11, <2>1 DEF BeforeEach, Inv, Position, InTest, AtEnd, CurrentTest
  <2>3. QED
    BY <1>11, <1>S, <2>1, <2>2 DEF BeforeEach, InTest
<1>12. ASSUME NEW o, Execute(o) PROVE Rest
  <2>1. pc = "execute" /\ pc' = "afterEach"
    BY <1>12 DEF Execute, At
  <2>2. Position'
    BY <1>12, <2>1 DEF Execute, Inv, Position, InTest, AtEnd, CurrentTest
  <2>3. QED
    BY <1>12, <1>S, <2>1, <2>2 DEF Execute, InTest
<1>13. ASSUME NEW o, AfterEach(o) PROVE Rest
  <2>1. pc = "afterEach" /\ pc' \in {"report", "beforeEach"}
    BY <1>13 DEF AfterEach, At
  <2>2. Position'
    BY <1>13, <2>1 DEF AfterEach, Inv, Position, InTest, AtEnd, CurrentTest
  <2>3. QED
    BY <1>13, <1>S, <2>1, <2>2 DEF AfterEach, InTest
<1>14. ASSUME FinishTest PROVE Rest
  <2>1. /\ pc = "report" /\ pc' = "select" /\ ~AtEnd /\ CurrentTest \in testFilter
    BY <1>14 DEF FinishTest, At, Inv, Position, InTest
  <2>2. frame.status \in Verdict
    BY <1>0 DEF TypeOK, Frame, Verdict
  <2>3. /\ Reported' = Done' /\ Counting' /\ running' = {}
    BY <1>0, <1>14, <2>1, <2>2, ReportAdvances DEF FinishTest
  <2>4. QED
    BY <1>14, <2>1, <2>3 DEF FinishTest, ReportResult, Inv, NoTestTwice, Position,
       Reporting, InTest
<1>15. ASSUME NEW o, AfterSuite(o) PROVE Rest
  <2>1. /\ pc = "select" /\ pc' = "end" /\ AtEnd
        /\ UNCHANGED <<tests, testFilter, pos, statistic, open, running, outcome>>
        /\ info' \in {info, statistic}
    BY <1>15 DEF AfterSuite, ReportSuiteError
  <2>2. QED
    BY <2>1 DEF Inv, NoTestTwice, Position, Reporting, Counting, InTest, Reported,
       Done, AtEnd
<1>16. ASSUME EndSuite PROVE Rest
  BY <1>16 DEF EndSuite, Inv, NoTestTwice, Position, Reporting, Counting, InTest
<1>17. ASSUME UNCHANGED vars PROVE Rest
  BY <1>17 DEF vars, Inv, NoTestTwice, Position, Reporting, Counting, InTest, Reported,
     Done, AtEnd, CurrentTest
<1>18. Rest
  BY <1>1, <1>2, <1>3, <1>4, <1>5, <1>6, <1>7, <1>8, <1>9, <1>10, <1>11, <1>12,
     <1>13, <1>14, <1>15, <1>16, <1>17 DEF Next, RunStep
<1>19. QED
  BY <1>0, <1>18 DEF Inv

(* The counters of the suite and of the handler are the tally of the        *)
(* reported results at every moment, and add up to the number of selected   *)
(* tests when run() ends, for every number of tests and of runs.            *)
THEOREM AccountingHolds == Spec => []Accounting
<1>1. Inv => Accounting
  <2> SUFFICES ASSUME Inv PROVE Accounting
    OBVIOUS
  <2>1. ASSUME pc = "end"
        PROVE  statistic["passed"] + statistic["failed"] + statistic["skipped"]
                 = Cardinality(Expected)
    <3>1. Reported = Expected
      BY <2>1, AllReportedAtEnd DEF Inv, Position
    <3>2. QED
      BY <3>1, TallySum DEF Inv, Counting, Reported
  <2>2. QED
    BY <2>1 DEF Inv, Counting, Accounting
<1>2. QED
  BY <1>1, InvInit, InvNext, PTL DEF Spec

-----------------------------------------------------------------------------
(* The suite implements the contract of SuiteReport. Both modules take their *)
(* vocabulary from TestResults, so the contract's copy of it is this one.    *)

LEMMA SameVocabulary ==
    /\ \A o : Contract!Tally(o) = Tally(o)
    /\ Contract!NothingRun = NothingRun
    /\ Contract!Verdict = Verdict
    /\ Contract!Reported = Reported
<1>1. \A S : Contract!Cardinality(S) = Cardinality(S)
  BY DEF Contract!Cardinality, Cardinality
<1>2. \A o, c : Contract!Counted(o, c) = Counted(o, c)
  BY DEF Contract!Counted, Counted, Contract!CounterOf, CounterOf
<1>3. \A o : Contract!Tally(o) = Tally(o)
  BY <1>1, <1>2 DEF Contract!Tally, Tally, Contract!Counter, Counter
<1>4. QED
  BY <1>3 DEF Contract!NothingRun, NothingRun, Contract!Verdict, Verdict,
     Contract!Reported, Reported

LEMMA ExpectedType == TypeOK => Expected \in SUBSET Test
  BY DEF TypeOK, Expected

LEMMA ContractInit == Init => Contract!Init
<1> SUFFICES ASSUME Init PROVE Contract!Init
  OBVIOUS
<1>1. Expected \in SUBSET Test
  BY TypeInit, ExpectedType
<1>2. info = Contract!Tally(Contract!NothingRun) /\ outcome = Contract!NothingRun
  BY SameVocabulary, TallyNothing DEF Init
<1>3. QED
  BY <1>1, <1>2 DEF Init, Contract!Init

(* A step that leaves the expected tests and everything the handler was     *)
(* told alone is a stutter of the contract.                                 *)
LEMMA ContractStutter ==
    ASSUME UNCHANGED <<tests, testFilter, open, aborted, running, outcome, info>>
    PROVE  UNCHANGED Contract!reportVars
  BY DEF Contract!reportVars, Expected

LEMMA ContractTestStart ==
    ASSUME Inv, pc \in {"abort", "select"}, ~AtEnd, CurrentTest \in testFilter,
           UNCHANGED <<tests, testFilter>>, ReportStart(CurrentTest)
    PROVE  Contract!OnTestStart(CurrentTest)
<1>1. CurrentTest \notin Reported
  BY CurrentNotReported
<1>2. CurrentTest \in Expected
  BY DEF Inv, TypeOK, AtEnd, CurrentTest, Expected, Range
<1>3. open /\ ~aborted /\ running = {}
  BY DEF Inv, Reporting, InTest
<1>4. info' = info
  BY DEF ReportStart, Inv, Counting
<1>5. Expected' = Expected
  BY DEF Expected
<1>6. QED
  BY <1>1, <1>2, <1>3, <1>4, <1>5, SameVocabulary DEF ReportStart, Contract!OnTestStart

LEMMA ContractReport ==
    ASSUME Inv, TypeOK', pc \in InTest \cup {"select"}, ~AtEnd, CurrentTest \in testFilter,
           UNCHANGED <<tests, testFilter>>, pos' = pos + 1,
           NEW s \in Verdict, NEW duration, NEW cause,
           ReportResult(CurrentTest, s, duration, cause)
    PROVE  /\ Contract!Report(CurrentTest, s)
           /\ CurrentTest \in Expected \ Reported
<1>1. CurrentTest \in Expected \ Reported
  <2>1. CurrentTest \notin Reported
    BY CurrentNotReported DEF InTest
  <2>2. QED
    BY <2>1 DEF Inv, TypeOK, AtEnd, CurrentTest, Expected, Range
<1>2. Counting' /\ running' = {}
  BY ReportAdvances DEF InTest
<1>3. open /\ ~aborted
  BY DEF Inv, Reporting, InTest
<1>4. Expected' = Expected
  BY DEF Expected
<1>5. info' = Contract!Tally(outcome')
  BY <1>2, SameVocabulary DEF Counting
<1>6. QED
  BY <1>1, <1>2, <1>3, <1>4, <1>5 DEF ReportResult, Contract!Report

LEMMA ContractNext == Inv /\ TypeOK' /\ [Next]_vars => [Contract!Next]_(Contract!reportVars)
<1> SUFFICES ASSUME Inv, TypeOK', [Next]_vars
             PROVE  Contract!Next \/ UNCHANGED Contract!reportVars
  OBVIOUS
<1> DEFINE Goal == Contract!Next \/ UNCHANGED Contract!reportVars
<1> USE DEF suiteVars, testVars, callVars, handlerVars
<1>1. ASSUME NEW t \in Test, NEW option \in TestOption, AddTest(t, option) PROVE Goal
  <2>1. Expected' \in SUBSET Test
    BY DEF TypeOK, Expected
  <2>2. Contract!Select(Expected')
    BY <1>1 DEF AddTest, Inv, Reporting, Contract!Select
  <2>3. QED
    BY <2>1, <2>2 DEF Contract!Next
<1>2. ASSUME NEW S \in SUBSET Test, SetTestFilter(S) PROVE Goal
  <2>1. Expected' \in SUBSET Test
    BY DEF TypeOK, Expected
  <2>2. Contract!Select(Expected')
    BY <1>2 DEF SetTestFilter, Inv, Reporting, Contract!Select
  <2>3. QED
    BY <2>1, <2>2 DEF Contract!Next
<1>3. ASSUME Begin PROVE Goal
  <2>1. Expected' = Expected
    BY <1>3, SortPermutes DEF Begin, Expected, Inv, TypeOK
  <2>2. /\ outcome' = Contract!NothingRun
        /\ info' = Contract!Tally(Contract!NothingRun)
    BY <1>3, SameVocabulary, TallyNothing DEF Begin
  <2>3. Contract!OnSuiteStart
    BY <1>3, <2>1, <2>2 DEF Begin, Inv, Reporting, Contract!OnSuiteStart
  <2>4. QED
    BY <2>3 DEF Contract!Next
<1>4. ASSUME NEW o, BeforeSuite(o) PROVE Goal
  BY <1>4, ContractStutter DEF BeforeSuite
<1>5. ASSUME SkipUnselected PROVE Goal
  BY <1>5, ContractStutter DEF SkipUnselected, AfterUnselected
<1>6. ASSUME AbortTestStart PROVE Goal
  <2>1. Contract!OnTestStart(CurrentTest) /\ CurrentTest \in Test
    BY <1>6, ContractTestStart, CurrentNotReported DEF AbortTestStart, AtSelected, At
  <2>2. QED
    BY <2>1 DEF Contract!Next
<1>7. ASSUME AbortTestResult PROVE Goal
  <2>1. pc = "abortResult" /\ ~AtEnd /\ CurrentTest \in testFilter /\ running = {CurrentTest}
    BY <1>7 DEF AbortTestResult, At, Inv, Position, Reporting, InTest
  <2>2. Contract!Report(CurrentTest, "LifecycleError") /\ CurrentTest \in Test
    BY <1>7, <2>1, ContractReport, CurrentNotReported DEF AbortTestResult, Verdict, InTest
  <2>3. Contract!OnTestResult(CurrentTest, "LifecycleError")
    BY <2>1, <2>2 DEF Contract!OnTestResult
  <2>4. "LifecycleError" \in Contract!Verdict \ {"Skipped"}
    BY DEF Contract!Verdict
  <2>5. QED
    BY <2>2, <2>3, <2>4 DEF Contract!Next
<1>8. ASSUME AbortSuite PROVE Goal
  <2>1. open /\ ~aborted /\ running = {} /\ Reported = Expected /\ info = statistic
    BY <1>8, AllReportedAtEnd DEF AbortSuite, Inv, Reporting, Counting, InTest
  <2>2. Contract!OnSuiteAbort
    BY <1>8, <2>1, SameVocabulary DEF AbortSuite, ReportSuiteError, Contract!OnSuiteAbort,
       Contract!Complete, Expected
  <2>3. QED
    BY <2>2 DEF Contract!Next
<1>9. ASSUME SkipDisabled PROVE Goal
  <2>1. pc = "select" /\ ~AtEnd /\ CurrentTest \in testFilter /\ running = {}
    BY <1>9 DEF SkipDisabled, AtSelected, At, Inv, Reporting, InTest
  <2>2. /\ Contract!Report(CurrentTest, "Skipped")
        /\ CurrentTest \in Expected \ Reported /\ CurrentTest \in Test
    BY <1>9, <2>1, ContractReport, CurrentNotReported DEF SkipDisabled, Verdict
  <2>3. Contract!OnTestSkipped(CurrentTest)
    BY <2>1, <2>2, SameVocabulary DEF Contract!OnTestSkipped
  <2>4. QED
    BY <2>2, <2>3 DEF Contract!Next
<1>10. ASSUME StartTest PROVE Goal
  <2>1. Contract!OnTestStart(CurrentTest) /\ CurrentTest \in Test
    BY <1>10, ContractTestStart, CurrentNotReported DEF StartTest, AtSelected, At
  <2>2. QED
    BY <2>1 DEF Contract!Next
<1>11. ASSUME NEW o, BeforeEach(o) PROVE Goal
  BY <1>11, ContractStutter DEF BeforeEach
<1>12. ASSUME NEW o, Execute(o) PROVE Goal
  BY <1>12, ContractStutter DEF Execute
<1>13. ASSUME NEW o, AfterEach(o) PROVE Goal
  BY <1>13, ContractStutter DEF AfterEach
<1>14. ASSUME FinishTest PROVE Goal
  <2>1. pc = "report" /\ ~AtEnd /\ CurrentTest \in testFilter /\ running = {CurrentTest}
    BY <1>14 DEF FinishTest, At, Inv, Position, Reporting, InTest
  <2>2. frame.status \in Verdict \ {"Skipped"}
    BY DEF Inv, TypeOK, Frame, Verdict
  <2>3. Contract!Report(CurrentTest, frame.status) /\ CurrentTest \in Test
    BY <1>14, <2>1, <2>2, ContractReport, CurrentNotReported DEF FinishTest, InTest
  <2>4. Contract!OnTestResult(CurrentTest, frame.status)
    BY <2>1, <2>3 DEF Contract!OnTestResult
  <2>5. QED
    BY <2>2, <2>3, <2>4, SameVocabulary DEF Contract!Next
<1>15. ASSUME NEW o, AfterSuite(o) PROVE Goal
  <2>1. open /\ ~aborted /\ running = {} /\ Reported = Expected /\ info = statistic
    BY <1>15, AllReportedAtEnd DEF AfterSuite, Inv, Reporting, Counting, InTest
  <2>2. CASE o = "throws"
    <3>1. Contract!OnSuiteAbort
      BY <1>15, <2>1, <2>2, SameVocabulary DEF AfterSuite, ReportSuiteError,
         Contract!OnSuiteAbort, Contract!Complete, Expected
    <3>2. QED
      BY <3>1 DEF Contract!Next
  <2>3. CASE o # "throws"
    BY <1>15, <2>3, ContractStutter DEF AfterSuite
  <2>4. QED
    BY <2>2, <2>3
<1>16. ASSUME EndSuite PROVE Goal
  <2>1. open /\ running = {} /\ Reported = Expected /\ info = statistic
    BY <1>16, AllReportedAtEnd DEF EndSuite, Inv, Position, Reporting, Counting, InTest
  <2>2. Contract!OnSuiteEnd
    BY <1>16, <2>1, SameVocabulary DEF EndSuite, Contract!OnSuiteEnd, Contract!Complete,
       Expected
  <2>3. QED
    BY <2>2 DEF Contract!Next
<1>17. ASSUME UNCHANGED vars PROVE Goal
  BY <1>17, ContractStutter DEF vars
<1>18. QED
  BY <1>1, <1>2, <1>3, <1>4, <1>5, <1>6, <1>7, <1>8, <1>9, <1>10, <1>11, <1>12,
     <1>13, <1>14, <1>15, <1>16, <1>17 DEF Next, RunStep

(* run() keeps the contract of the handler interface: each step is one       *)
(* callback the contract allows at that moment, or none.                     *)
THEOREM SuiteKeepsContract == Spec => ReportsAsPromised
<1>1. Inv => TypeOK
  BY DEF Inv
<1>2. QED
  BY <1>1, InvInit, InvNext, ContractInit, ContractNext, PTL
     DEF Spec, Contract!Spec, ReportsAsPromised

-----------------------------------------------------------------------------
(* What user code was called for, and what was reported of it. The second    *)
(* invariant relates the locals of run() and what is kept of a test to the   *)
(* calls that were really made.                                              *)

Attempting == pc \in {"beforeEach", "execute", "afterEach", "report"}
Attempted == IF Attempting THEN {CurrentTest} ELSE {}
PerAttempt(n) == IF HasHooks THEN n ELSE 0
OnlyBodies == \A t \in Reported : calls[t].threw \subseteq {"body"}

(* The verdict on an attempt that threw what is in a set, and its cause.     *)
VerdictOn(threw) ==
    IF threw = {} THEN "Passed" ELSE IF threw = {"body"} THEN "Failed" ELSE "LifecycleError"
CauseOf(threw) == IF threw = {"body"} THEN threw ELSE threw \ {"body"}

(* The hooks of the suite, hooksSucceeded and what becomes of it.            *)
SuiteHooksSoFar ==
    /\ pc = "beforeSuite" =>
          suiteHooks.called = {} /\ suiteHooks.threw = {} /\ Reported = {} /\ hooksSucceeded
    /\ pc \in {"abort", "abortResult"} =>
          HasHooks /\ suiteHooks.called = {"beforeSuite"} /\ suiteHooks.threw = {"beforeSuite"}
    /\ pc = "select" \/ Attempting =>
          /\ suiteHooks.called = IF HasHooks THEN {"beforeSuite"} ELSE {}
          /\ suiteHooks.threw = {}
          /\ hooksSucceeded <=> OnlyBodies
    /\ pc = "end" =>
          /\ "afterSuite" \in suiteHooks.called <=> HasHooks /\ ~SetupFailed
          /\ aborted <=> suiteHooks.threw # {}
          /\ hooksSucceeded <=> suiteHooks.threw = {} /\ OnlyBodies
    /\ pc = "idle" /\ returned # "none" =>
          /\ aborted <=> suiteHooks.threw # {}
          /\ returned = "true" <=> suiteHooks.threw = {} /\ OnlyBodies
    /\ pc = "idle" /\ returned = "none" => Reported = {}

(* Tests that no user code was called for. *)
Untouched ==
    /\ \A t \in Test :
          /\ options[t].maxAttempts # 0
          /\ status[t] = "Skipped" <=> options[t].disabled
          /\ options[t].disabled \/ SetupFailed \/ t \notin Reported \cup Attempted =>
                calls[t] = NoCalls
    /\ Attempting => ~options[CurrentTest].disabled

(* The attempts on the current test, and the locals that remember them.      *)
Attempt ==
    LET c == calls[CurrentTest]
        left == options[CurrentTest].maxAttempts - c.attempts
    IN  Attempting =>
        /\ frame.duration = c.body
        /\ c.beforeEach = PerAttempt(c.attempts)
        /\ IF pc = "beforeEach"
           THEN frame.remaining = left /\ left >= 1 /\ c.afterEach = c.beforeEach
           ELSE frame.remaining = left + 1 /\ left >= 0 /\ c.attempts >= 1
        /\ pc \in {"execute", "afterEach"} => c.afterEach = PerAttempt(c.attempts - 1)
        /\ pc = "execute" => c.threw = {} /\ frame.lifecycleError = {}
        /\ pc = "afterEach" =>
              /\ c.threw \in {{}, {"beforeEach"}, {"body"}}
              /\ frame.lifecycleError = c.threw \ {"body"}
              /\ frame.result = IF "body" \in c.threw THEN "threw" ELSE "returned"
              /\ c.threw = {} => c.body > 0
        /\ pc = "report" =>
              /\ c.afterEach = c.beforeEach
              /\ frame.status = VerdictOn(c.threw)
              /\ frame.exception = CauseOf(c.threw)
              /\ c.threw = {} => c.body > 0
              /\ c.threw # {} => left = 0

(* What was reported of a test. *)
ResultOf(t) ==
    LET c == calls[t]
        left == options[t].maxAttempts - c.attempts
    IN  /\ details[t].duration = c.body
        /\ c.beforeEach = PerAttempt(c.attempts)
        /\ c.afterEach = c.beforeEach
        /\ left >= 0
        /\ IF c.attempts = 0
           THEN outcome[t] = IF SetupFailed THEN "LifecycleError" ELSE "Skipped"
           ELSE /\ outcome[t] = VerdictOn(c.threw)
                /\ details[t].cause = CauseOf(c.threw)
                /\ c.threw = {} => c.body > 0
                /\ c.threw # {} => left = 0

Results == \A t \in Reported : ResultOf(t)

RunInv == Inv /\ SuiteHooksSoFar /\ Untouched /\ Attempt /\ Results

LEMMA CallFields ==
    ASSUME NEW c \in CallCount, NEW o
    PROVE  /\ WithBeforeEach(c, o).attempts = c.attempts + 1
           /\ WithBeforeEach(c, o).beforeEach = c.beforeEach + HookCall
           /\ WithBeforeEach(c, o).body = c.body
           /\ WithBeforeEach(c, o).afterEach = c.afterEach
           /\ WithBeforeEach(c, o).threw = Threw("beforeEach", o)
           /\ WithBody(c, o).attempts = c.attempts
           /\ WithBody(c, o).beforeEach = c.beforeEach
           /\ WithBody(c, o).body = c.body + 1
           /\ WithBody(c, o).afterEach = c.afterEach
           /\ WithBody(c, o).threw = c.threw \cup Threw("body", o)
           /\ WithAfterEach(c, o).attempts = c.attempts
           /\ WithAfterEach(c, o).beforeEach = c.beforeEach
           /\ WithAfterEach(c, o).body = c.body
           /\ WithAfterEach(c, o).afterEach = c.afterEach + HookCall
           /\ WithAfterEach(c, o).threw = c.threw \cup Threw("afterEach", o)
<1>1. /\ WithBeforeEach(c, o).attempts = c.attempts + 1
      /\ WithBeforeEach(c, o).beforeEach = c.beforeEach + HookCall
      /\ WithBeforeEach(c, o).body = c.body
      /\ WithBeforeEach(c, o).afterEach = c.afterEach
      /\ WithBeforeEach(c, o).threw = Threw("beforeEach", o)
  BY DEF WithBeforeEach, CallCount
<1>2. /\ WithBody(c, o).attempts = c.attempts
      /\ WithBody(c, o).beforeEach = c.beforeEach
      /\ WithBody(c, o).body = c.body + 1
      /\ WithBody(c, o).afterEach = c.afterEach
      /\ WithBody(c, o).threw = c.threw \cup Threw("body", o)
  BY DEF WithBody, CallCount
<1>3. /\ WithAfterEach(c, o).attempts = c.attempts
      /\ WithAfterEach(c, o).beforeEach = c.beforeEach
      /\ WithAfterEach(c, o).body = c.body
      /\ WithAfterEach(c, o).afterEach = c.afterEach + HookCall
      /\ WithAfterEach(c, o).threw = c.threw \cup Threw("afterEach", o)
  BY DEF WithAfterEach, CallCount
<1> QED
  BY <1>1, <1>2, <1>3

LEMMA RunInvInit == Init => RunInv
<1> SUFFICES ASSUME Init PROVE RunInv
  OBVIOUS
<1>1. Inv
  BY InvInit
<1>2. Reported = {} /\ ~Attempting /\ SetupFailed = FALSE
  BY DEF Init, Reported, NothingRun, Attempting, SetupFailed
<1>3. SuiteHooksSoFar /\ Attempt /\ Results
  BY <1>2 DEF Init, SuiteHooksSoFar, Attempt, Results, Attempting
<1>4. Untouched
  BY <1>2 DEF Init, Untouched, DefaultOption, NothingRun
<1> QED
  BY <1>1, <1>3, <1>4 DEF RunInv

(* A step that reports nothing and calls no test.                            *)
LEMMA QuietStep ==
    ASSUME RunInv, TypeOK', ~Attempting, ~Attempting',
           UNCHANGED <<options, fixtureType, status, outcome, details, calls>>,
           SetupFailed' <=> SetupFailed, SuiteHooksSoFar'
    PROVE  (SuiteHooksSoFar /\ Untouched /\ Attempt /\ Results)'
<1>1. Reported' = Reported /\ Attempted' = Attempted
  BY DEF Reported, Attempted
<1>2. HasHooks' = HasHooks
  BY DEF HasHooks
<1>3. Untouched'
  BY <1>1 DEF RunInv, Untouched
<1>4. Attempt'
  BY DEF Attempt
<1>5. Results'
  BY <1>1, <1>2 DEF RunInv, Results, ResultOf, PerAttempt
<1> QED
  BY <1>3, <1>4, <1>5

(* A step of an attempt reaches user code of the current test alone.         *)
LEMMA AttemptStep ==
    ASSUME RunInv, TypeOK', Attempting, Attempting', NEW c,
           calls' = [calls EXCEPT ![CurrentTest] = c],
           UNCHANGED <<tests, pos, options, fixtureType, outcome, details, suiteHooks,
                       hooksSucceeded>>,
           \A t \in Test : status'[t] = "Skipped" <=> status[t] = "Skipped"
    PROVE  /\ (SuiteHooksSoFar /\ Untouched /\ Results)'
           /\ CurrentTest' = CurrentTest /\ CurrentTest \in Test
           /\ calls'[CurrentTest] = c /\ HasHooks' = HasHooks
           /\ calls[CurrentTest] \in CallCount
           /\ options[CurrentTest].maxAttempts \in Nat
           /\ frame \in Frame
<1>1. pc \in InTest /\ pc # "idle" /\ pc' \notin {"idle", "beforeSuite", "abort", "abortResult", "end"}
  BY DEF Attempting, InTest
<1>2. ~AtEnd
  BY <1>1 DEF RunInv, Inv, Position
<1>3. CurrentTest \in Test /\ CurrentTest \notin Reported
  BY <1>1, <1>2, CurrentNotReported DEF RunInv
<1>4. /\ CurrentTest' = CurrentTest /\ Reported' = Reported /\ SetupFailed' = SetupFailed
      /\ HasHooks' = HasHooks /\ Attempted' = Attempted /\ Attempted = {CurrentTest}
  BY DEF CurrentTest, Reported, SetupFailed, HasHooks, Attempted
<1>5. calls'[CurrentTest] = c /\ \A t \in Test \ {CurrentTest} : calls'[t] = calls[t]
  BY <1>3 DEF RunInv, Inv, TypeOK
<1>6. suiteHooks.threw = {} /\ ~SetupFailed
  BY DEF RunInv, SuiteHooksSoFar, SetupFailed
<1>7. \A t \in Reported : t \in Test /\ calls'[t] = calls[t]
  BY <1>3, <1>5 DEF Reported
<1>8. OnlyBodies' <=> OnlyBodies
  BY <1>4, <1>7 DEF OnlyBodies
<1>9. SuiteHooksSoFar'
  BY <1>1, <1>4, <1>8 DEF RunInv, SuiteHooksSoFar
<1>10. Untouched'
  BY <1>4, <1>5, <1>6 DEF RunInv, Untouched
<1>11. Results'
  BY <1>4, <1>7 DEF RunInv, Results, ResultOf, PerAttempt
<1>12. /\ calls[CurrentTest] \in CallCount /\ options[CurrentTest].maxAttempts \in Nat
       /\ frame \in Frame
  BY <1>3 DEF RunInv, Inv, TypeOK, TestOption
<1> QED
  BY <1>3, <1>4, <1>5, <1>9, <1>10, <1>11, <1>12

(* A step that reports the current test, with what was seen of it.           *)
LEMMA ReportStep ==
    ASSUME RunInv, TypeOK', pc # "idle", ~AtEnd, ~Attempting',
           NEW s \in Verdict, NEW duration \in Nat, NEW cause,
           ReportResult(CurrentTest, s, duration, cause),
           UNCHANGED <<tests, options, fixtureType, status, calls, suiteHooks>>,
           LET c == calls[CurrentTest]
               left == options[CurrentTest].maxAttempts - c.attempts
           IN  /\ duration = c.body
               /\ c.beforeEach = PerAttempt(c.attempts)
               /\ c.afterEach = c.beforeEach
               /\ left >= 0
               /\ IF c.attempts = 0
                  THEN s = IF SetupFailed THEN "LifecycleError" ELSE "Skipped"
                  ELSE /\ s = VerdictOn(c.threw)
                       /\ cause = CauseOf(c.threw)
                       /\ c.threw = {} => c.body > 0
                       /\ c.threw # {} => left = 0
    PROVE  /\ (Untouched /\ Attempt /\ Results)'
           /\ Reported' = Reported \cup {CurrentTest}
           /\ OnlyBodies' <=> OnlyBodies /\ calls[CurrentTest].threw \subseteq {"body"}
<1> DEFINE t == CurrentTest
<1>1. t \in Test /\ t \notin Reported /\ outcome[t] = "NotRun"
  BY CurrentNotReported DEF RunInv
<1>2. /\ outcome' = [outcome EXCEPT ![t] = s]
      /\ details' = [details EXCEPT ![t] = [duration |-> duration, cause |-> cause]]
  BY DEF ReportResult
<1>3. /\ outcome'[t] = s /\ details'[t] = [duration |-> duration, cause |-> cause]
      /\ \A u \in Test \ {t} : outcome'[u] = outcome[u] /\ details'[u] = details[u]
  BY <1>1, <1>2 DEF RunInv, Inv, TypeOK
<1> HIDE DEF t
<1>4. Reported' = Reported \cup {t}
  BY <1>1, <1>3 DEF Reported, Verdict
<1>5. SetupFailed' = SetupFailed /\ HasHooks' = HasHooks /\ Attempted' = {}
  BY DEF SetupFailed, HasHooks, Attempted
<1>6. \A u \in Test : u \notin Reported' => u \notin Reported \cup Attempted
  BY <1>1, <1>4 DEF Attempted, t
<1>7. Untouched'
  BY <1>5, <1>6 DEF RunInv, Untouched
<1>8. Attempt'
  BY DEF Attempt
<1>9. ASSUME NEW u \in Reported' PROVE ResultOf(u)'
  <2>1. CASE u = t
    BY <1>3, <1>5, <2>1 DEF ResultOf, PerAttempt, t
  <2>2. CASE u # t
    <3>1. u \in Reported /\ u \in Test
      BY <1>4, <2>2 DEF Reported
    <3> QED
      BY <1>3, <1>5, <2>2, <3>1 DEF RunInv, Results, ResultOf, PerAttempt
  <2> QED
    BY <2>1, <2>2
<1>10. OnlyBodies' <=> OnlyBodies /\ calls[t].threw \subseteq {"body"}
  BY <1>4 DEF OnlyBodies
<1> QED
  BY <1>4, <1>7, <1>8, <1>9, <1>10 DEF Results, t

(* A test no user code was called for, reported as skipped or aborted.       *)
LEMMA ReportUntouched ==
    ASSUME RunInv, TypeOK', pc # "idle", ~AtEnd, ~Attempting',
           calls[CurrentTest] = NoCalls,
           NEW cause, NEW s \in Verdict,
           s = IF SetupFailed THEN "LifecycleError" ELSE "Skipped",
           ReportResult(CurrentTest, s, 0, cause),
           UNCHANGED <<tests, options, fixtureType, status, calls, suiteHooks>>
    PROVE  /\ (Untouched /\ Attempt /\ Results)'
           /\ OnlyBodies' <=> OnlyBodies
<1>1. CurrentTest \in Test /\ options[CurrentTest].maxAttempts \in Nat
  BY CurrentTestType DEF RunInv, Inv, TypeOK, TestOption
<1>2. /\ calls[CurrentTest].attempts = 0 /\ calls[CurrentTest].body = 0
      /\ calls[CurrentTest].beforeEach = PerAttempt(calls[CurrentTest].attempts)
      /\ calls[CurrentTest].afterEach = calls[CurrentTest].beforeEach
      /\ calls[CurrentTest].threw = {}
  BY DEF NoCalls, PerAttempt
<1>3. options[CurrentTest].maxAttempts - calls[CurrentTest].attempts >= 0
  BY <1>1, <1>2
<1> QED
  BY <1>2, <1>3, ReportStep

-----------------------------------------------------------------------------
(* One lemma per group of actions. *)

LEMMA DefinitionKeepsRunInv ==
    ASSUME RunInv, Inv', NEW t \in Test, NEW option \in TestOption, AddTest(t, option)
    PROVE  RunInv'
<1>1. /\ pc = "idle" /\ returned = "none" /\ option.maxAttempts # 0
      /\ options' = [options EXCEPT ![t] = option]
      /\ status' = [status EXCEPT ![t] = IF option.disabled THEN "Skipped" ELSE "NotRun"]
      /\ UNCHANGED <<fixtureType, pc, returned, outcome, calls, suiteHooks>>
  BY DEF AddTest, Accepts, handlerVars, callVars
<1>2. Reported = {} /\ Reported' = {} /\ ~Attempting /\ ~Attempting'
  BY <1>1 DEF RunInv, SuiteHooksSoFar, Attempting, Reported
<1>3. SuiteHooksSoFar' /\ Attempt' /\ Results'
  BY <1>1, <1>2 DEF SuiteHooksSoFar, Attempt, Results
<1>4. \A u \in Test : calls[u] = NoCalls
  BY <1>2 DEF RunInv, Untouched, Attempted
<1>5. Untouched'
  BY <1>1, <1>2, <1>4 DEF RunInv, Inv, TypeOK, Untouched
<1> QED
  BY <1>3, <1>5 DEF RunInv

LEMMA BeginKeepsRunInv ==
    ASSUME RunInv, Inv', Begin
    PROVE  RunInv'
<1>1. /\ pc' = "beforeSuite" /\ outcome' = NothingRun /\ calls' = [t \in Test |-> NoCalls]
      /\ suiteHooks' = [called |-> {}, threw |-> {}] /\ hooksSucceeded'
      /\ UNCHANGED <<options, status>>
  BY DEF Begin, testVars
<1>2. Reported' = {} /\ ~Attempting' /\ ~SetupFailed'
  BY <1>1 DEF Reported, NothingRun, Attempting, SetupFailed
<1>3. SuiteHooksSoFar' /\ Attempt' /\ Results'
  BY <1>1, <1>2 DEF SuiteHooksSoFar, Attempt, Results
<1>4. Untouched'
  BY <1>1, <1>2 DEF RunInv, Untouched
<1> QED
  BY <1>3, <1>4 DEF RunInv

LEMMA SuiteHookKeepsRunInv ==
    ASSUME RunInv, Inv', NEW o \in {"returns", "throws"}, BeforeSuite(o) \/ AfterSuite(o)
    PROVE  RunInv'
<1>0. TypeOK' /\ TypeOK
  BY DEF Inv, RunInv
<1>1. CASE BeforeSuite(o)
  <2>1. /\ pc = "beforeSuite" /\ pc' = (IF o = "throws" THEN "abort" ELSE "select")
        /\ (o = "throws" => HasHooks)
        /\ suiteHooks' = [called |-> suiteHooks.called \cup IF HasHooks THEN {"beforeSuite"} ELSE {},
                          threw  |-> suiteHooks.threw \cup IF o = "throws" THEN {"beforeSuite"} ELSE {}]
        /\ UNCHANGED <<options, fixtureType, status, outcome, details, calls, hooksSucceeded>>
    BY <1>1 DEF BeforeSuite, SuiteHook, InvokeHook, HookResult, Threw, suiteVars, testVars, handlerVars
  <2>2. /\ suiteHooks.called = {} /\ suiteHooks.threw = {} /\ Reported = {} /\ hooksSucceeded
        /\ ~Attempting /\ ~Attempting' /\ ~SetupFailed
    BY <2>1 DEF RunInv, SuiteHooksSoFar, Attempting, SetupFailed
  <2>3. Reported' = {} /\ HasHooks' = HasHooks
    BY <2>1, <2>2 DEF Reported, HasHooks
  <2>4. SuiteHooksSoFar'
    BY <2>1, <2>2, <2>3 DEF SuiteHooksSoFar, OnlyBodies
  <2>5. \A t \in Test : calls'[t] = NoCalls
    BY <2>1, <2>2 DEF RunInv, Untouched, Attempted
  <2>6. Untouched' /\ Attempt' /\ Results'
    BY <2>1, <2>2, <2>3, <2>5 DEF RunInv, Untouched, Attempt, Results
  <2> QED
    BY <2>4, <2>6 DEF RunInv
<1>2. CASE AfterSuite(o)
  <2>1. /\ pc = "select" /\ pc' = "end" /\ AtEnd
        /\ suiteHooks' = [called |-> suiteHooks.called \cup IF HasHooks THEN {"afterSuite"} ELSE {},
                          threw  |-> suiteHooks.threw \cup IF o = "throws" THEN {"afterSuite"} ELSE {}]
        /\ IF o = "throws" THEN ~hooksSucceeded' /\ aborted'
           ELSE UNCHANGED <<hooksSucceeded, aborted>>
        /\ UNCHANGED <<options, fixtureType, status, outcome, details, calls>>
    <3>1. IF o = "throws" THEN ~hooksSucceeded' /\ aborted' /\ UNCHANGED <<outcome, details>>
          ELSE UNCHANGED <<hooksSucceeded, aborted, outcome, details>>
      BY <1>2 DEF AfterSuite, ReportSuiteError, handlerVars
    <3> QED
      BY <1>2, <3>1 DEF AfterSuite, SuiteHook, Threw, suiteVars, testVars
  <2>2. /\ suiteHooks.called = IF HasHooks THEN {"beforeSuite"} ELSE {}
        /\ suiteHooks.threw = {} /\ (hooksSucceeded <=> OnlyBodies)
        /\ ~Attempting /\ ~Attempting' /\ ~aborted
    BY <2>1 DEF RunInv, Inv, Reporting, SuiteHooksSoFar, Attempting
  <2>3. /\ SetupFailed = FALSE /\ SetupFailed' = FALSE /\ HasHooks' = HasHooks
        /\ (OnlyBodies' <=> OnlyBodies)
    BY <2>1, <2>2 DEF SetupFailed, HasHooks, OnlyBodies, Reported
  <2>4. SuiteHooksSoFar'
    <3>1. "afterSuite" \in suiteHooks'.called <=> HasHooks
      BY <2>1, <2>2
    <3>2. suiteHooks'.threw # {} <=> o = "throws"
      BY <2>1, <2>2
    <3> QED
      BY <2>1, <2>2, <2>3, <3>1, <3>2 DEF SuiteHooksSoFar
  <2> QED
    BY <1>0, <2>1, <2>2, <2>3, <2>4, QuietStep DEF RunInv
<1> QED
  BY <1>1, <1>2

LEMMA QuietKeepsRunInv ==
    ASSUME RunInv, Inv', SkipUnselected \/ AbortTestStart \/ AbortSuite \/ EndSuite
    PROVE  RunInv'
<1> USE DEF suiteVars, testVars, callVars, handlerVars, At, AtSelected
<1>0. TypeOK' /\ (Reporting /\ Reporting')
  BY DEF Inv, RunInv
<1>1. UNCHANGED <<options, fixtureType, status, outcome, details, calls, suiteHooks>>
  BY DEF SkipUnselected, AbortTestStart, AbortSuite, EndSuite, ReportStart, ReportSuiteError
<1>2. ~Attempting /\ ~Attempting'
  BY DEF SkipUnselected, AbortTestStart, AbortSuite, EndSuite, Attempting
<1>3. /\ SetupFailed' = SetupFailed /\ HasHooks' = HasHooks /\ Reported' = Reported
      /\ (OnlyBodies' <=> OnlyBodies)
  BY <1>1 DEF SetupFailed, HasHooks, Reported, OnlyBodies
<1>4. CASE SkipUnselected
  <2>1. pc \in {"abort", "select"} /\ UNCHANGED <<pc, hooksSucceeded>>
    BY <1>4 DEF SkipUnselected
  <2>2. SuiteHooksSoFar'
    BY <1>1, <1>2, <1>3, <2>1 DEF RunInv, SuiteHooksSoFar
  <2> QED
    BY <1>0, <1>1, <1>2, <1>3, <2>2, QuietStep DEF RunInv
<1>5. CASE AbortTestStart
  <2>1. pc = "abort" /\ pc' = "abortResult"
    BY <1>5 DEF AbortTestStart
  <2>2. SuiteHooksSoFar'
    BY <1>1, <1>2, <1>3, <2>1 DEF RunInv, SuiteHooksSoFar
  <2> QED
    BY <1>0, <1>1, <1>2, <1>3, <2>2, QuietStep DEF RunInv
<1>6. CASE AbortSuite
  <2>1. pc = "abort" /\ pc' = "end" /\ ~hooksSucceeded' /\ aborted'
    BY <1>6 DEF AbortSuite, ReportSuiteError
  <2>2. SuiteHooksSoFar'
    BY <1>1, <1>2, <1>3, <2>1 DEF RunInv, SuiteHooksSoFar, SetupFailed
  <2> QED
    BY <1>0, <1>1, <1>2, <1>3, <2>2, QuietStep DEF RunInv
<1>7. CASE EndSuite
  <2>1. /\ pc = "end" /\ pc' = "idle" /\ aborted' = aborted
        /\ returned' = IF hooksSucceeded THEN "true" ELSE "false"
    BY <1>7 DEF EndSuite
  <2>2. SuiteHooksSoFar'
    BY <1>1, <1>2, <1>3, <2>1 DEF RunInv, SuiteHooksSoFar
  <2> QED
    BY <1>0, <1>1, <1>2, <1>3, <2>2, QuietStep DEF RunInv
<1> QED
  BY <1>4, <1>5, <1>6, <1>7

LEMMA UnrunKeepsRunInv ==
    ASSUME RunInv, Inv', AbortTestResult \/ SkipDisabled
    PROVE  RunInv'
<1> USE DEF suiteVars, testVars, callVars, At, AtSelected
<1>0. TypeOK' /\ ~AtEnd /\ CurrentTest \in Test
  BY CurrentTestType DEF Inv, RunInv, AbortTestResult, SkipDisabled
<1>1. UNCHANGED <<tests, options, fixtureType, status, calls, suiteHooks, hooksSucceeded>>
  BY DEF AbortTestResult, SkipDisabled
<1>2. CASE AbortTestResult
  <2>1. /\ pc = "abortResult" /\ pc' = "abort" /\ ~Attempting' /\ SetupFailed
        /\ ReportResult(CurrentTest, "LifecycleError", 0, {lastError})
    BY <1>2 DEF AbortTestResult, Attempting, RunInv, SuiteHooksSoFar, SetupFailed
  <2>2. calls[CurrentTest] = NoCalls
    BY <1>0, <2>1 DEF RunInv, Untouched
  <2>3. Untouched' /\ Attempt' /\ Results'
    BY <1>0, <1>1, <2>1, <2>2, ReportUntouched DEF Verdict
  <2>4. SuiteHooksSoFar'
    BY <1>1, <2>1 DEF RunInv, SuiteHooksSoFar, HasHooks, Attempting
  <2> QED
    BY <2>3, <2>4 DEF RunInv
<1>3. CASE SkipDisabled
  <2>1. /\ pc = "select" /\ pc' = "select" /\ ~Attempting' /\ ~SetupFailed
        /\ ReportResult(CurrentTest, "Skipped", 0, {}) /\ options[CurrentTest].disabled
    BY <1>3 DEF SkipDisabled, IsDisabled, Attempting, RunInv, SuiteHooksSoFar, SetupFailed
  <2>2. calls[CurrentTest] = NoCalls
    BY <1>0, <2>1 DEF RunInv, Untouched
  <2>3. Untouched' /\ Attempt' /\ Results' /\ (OnlyBodies' <=> OnlyBodies)
    BY <1>0, <1>1, <2>1, <2>2, ReportUntouched DEF Verdict
  <2>4. SuiteHooksSoFar'
    BY <1>1, <2>1, <2>3 DEF RunInv, SuiteHooksSoFar, HasHooks, Attempting
  <2> QED
    BY <2>3, <2>4 DEF RunInv
<1> QED
  BY <1>2, <1>3

(* What TypeOK and Attempt say at the beginning of a step of an attempt.     *)
LEMMA HookCallIsPerAttempt == HookCall = PerAttempt(1) /\ \A n \in Nat : PerAttempt(n) \in Nat
BY DEF HookCall, PerAttempt

LEMMA StartTestKeepsRunInv ==
    ASSUME RunInv, Inv', StartTest
    PROVE  RunInv'
<1> USE DEF suiteVars, testVars, callVars, At, AtSelected
<1>1. /\ pc = "select" /\ pc' = "beforeEach" /\ ~AtEnd /\ ~IsDisabled(CurrentTest)
      /\ frame' = [NoFrame EXCEPT !.remaining = options[CurrentTest].maxAttempts]
      /\ UNCHANGED <<tests, pos, options, fixtureType, status, outcome, details, calls,
                     suiteHooks, hooksSucceeded>>
  BY DEF StartTest, ReportStart
<1>2. CurrentTest \in Test /\ CurrentTest \notin Reported
  BY <1>1, CurrentNotReported DEF RunInv
<1>3. /\ ~Attempting /\ Attempting' /\ CurrentTest' = CurrentTest /\ SetupFailed' = SetupFailed
      /\ HasHooks' = HasHooks /\ Reported' = Reported /\ (OnlyBodies' <=> OnlyBodies)
  BY <1>1 DEF Attempting, CurrentTest, SetupFailed, HasHooks, Reported, OnlyBodies
<1>4. calls[CurrentTest] = NoCalls
  BY <1>2, <1>3 DEF RunInv, Untouched, Attempted
<1>5. options[CurrentTest].maxAttempts \in Nat \ {0}
  BY <1>2 DEF RunInv, Inv, TypeOK, TestOption, Untouched
<1>6. SuiteHooksSoFar'
  BY <1>1, <1>3 DEF RunInv, SuiteHooksSoFar
<1>7. Untouched'
  BY <1>1, <1>3 DEF RunInv, Untouched, IsDisabled, Attempted
<1>8. Attempt'
  <2>1. frame'.remaining = options[CurrentTest].maxAttempts /\ frame'.duration = 0
    BY <1>1 DEF NoFrame
  <2> QED
    BY <1>1, <1>3, <1>4, <1>5, <2>1 DEF Attempt, NoCalls, PerAttempt
<1>9. Results'
  BY <1>1, <1>3 DEF RunInv, Results, ResultOf, PerAttempt
<1> QED
  BY <1>6, <1>7, <1>8, <1>9 DEF RunInv

LEMMA BeforeEachKeepsRunInv ==
    ASSUME RunInv, Inv', NEW o \in {"returns", "throws"}, BeforeEach(o)
    PROVE  RunInv'
<1> DEFINE t == CurrentTest
           c == calls[t]
           d == WithBeforeEach(c, o)
<1> USE DEF suiteVars, testVars, handlerVars, At
<1>1. /\ pc = "beforeEach" /\ pc' = (IF o = "throws" THEN "afterEach" ELSE "execute")
      /\ (o = "throws" => HasHooks /\ lastError' = "beforeEach")
      /\ frame' = [frame EXCEPT !.lifecycleError = IF o = "throws" THEN {lastError'} ELSE {},
                                !.result = "returned"]
      /\ calls' = [calls EXCEPT ![t] = d]
      /\ UNCHANGED <<tests, pos, options, fixtureType, status, outcome, details, suiteHooks,
                     hooksSucceeded>>
  BY DEF BeforeEach, InvokeHook, HookResult, AfterBeforeEach
<1>2. Attempting /\ Attempting' /\ TypeOK'
  BY <1>1 DEF Attempting, Inv
<1>3. /\ (SuiteHooksSoFar /\ Untouched /\ Results)'
      /\ t' = t /\ t \in Test /\ calls'[t] = d /\ HasHooks' = HasHooks /\ c \in CallCount
      /\ options[t].maxAttempts \in Nat /\ frame \in Frame
  <2> HIDE DEF d
  <2> QED
    BY <1>1, <1>2, AttemptStep
<1>4. /\ frame.duration = c.body /\ c.beforeEach = PerAttempt(c.attempts)
      /\ frame.remaining = options[t].maxAttempts - c.attempts /\ frame.remaining >= 1
      /\ c.afterEach = c.beforeEach
  BY <1>1, <1>2 DEF RunInv, Attempt
<1>5. /\ d.attempts = c.attempts + 1 /\ d.beforeEach = c.beforeEach + HookCall
      /\ d.body = c.body /\ d.afterEach = c.afterEach
      /\ d.threw = IF o = "throws" THEN {"beforeEach"} ELSE {}
  BY <1>3, CallFields DEF Threw
<1>6. c.attempts \in Nat /\ c.beforeEach \in Nat /\ c.body \in Nat /\ frame.remaining \in Nat
  BY <1>3 DEF CallCount, Frame
<1>7. /\ frame'.remaining = frame.remaining /\ frame'.duration = frame.duration
      /\ frame'.lifecycleError = (IF o = "throws" THEN {"beforeEach"} ELSE {})
      /\ frame'.result = "returned"
  BY <1>1, <1>3 DEF Frame
<1> HIDE DEF t, c, d
<1>8. Attempt'
  <2>1. CurrentTest' = t /\ calls'[t] = d /\ options'[t] = options[t]
    BY <1>1, <1>3 DEF t
  <2> QED
    BY <1>1, <1>3, <1>4, <1>5, <1>6, <1>7, <2>1 DEF Attempt, PerAttempt, HookCall
<1> QED
  BY <1>3, <1>8 DEF RunInv

LEMMA ExecuteKeepsRunInv ==
    ASSUME RunInv, Inv', NEW o \in {"returns", "throws"}, Execute(o)
    PROVE  RunInv'
<1> DEFINE t == CurrentTest
           c == calls[t]
           d == WithBody(c, o)
<1> USE DEF suiteVars, handlerVars, At
<1>0. pc = "execute" /\ ~AtEnd /\ pc' = "afterEach" /\ t \in Test
  BY CurrentTestType DEF Execute, RunInv, Inv
<1>1. Attempting /\ Attempting' /\ TypeOK'
  BY <1>0 DEF Attempting, Inv
<1>2. status[t] # "Skipped"
  BY <1>0, <1>1 DEF RunInv, Untouched
<1>3. /\ executionTimer' = [executionTimer EXCEPT ![t] = 1]
      /\ status' = [status EXCEPT ![t] = IF o = "throws" THEN "Failed" ELSE "Passed"]
      /\ frame' = [frame EXCEPT !.result = IF o = "throws" THEN "threw" ELSE "returned",
                                !.duration = @ + executionTimer'[t]]
      /\ calls' = [calls EXCEPT ![t] = d]
      /\ UNCHANGED <<tests, pos, options, fixtureType, outcome, details, suiteHooks,
                     hooksSucceeded>>
  BY <1>2 DEF Execute, Restarted
<1>4. /\ (SuiteHooksSoFar /\ Untouched /\ Results)'
      /\ t' = t /\ t \in Test /\ calls'[t] = d /\ HasHooks' = HasHooks /\ c \in CallCount
      /\ options[t].maxAttempts \in Nat /\ frame \in Frame
  <2>1. \A u \in Test : status'[u] = "Skipped" <=> status[u] = "Skipped"
    BY <1>0, <1>2, <1>3 DEF RunInv, Inv, TypeOK
  <2> HIDE DEF d
  <2> QED
    BY <1>1, <1>3, <2>1, AttemptStep
<1>5. /\ frame.duration = c.body /\ c.beforeEach = PerAttempt(c.attempts)
      /\ frame.remaining = options[t].maxAttempts - c.attempts + 1
      /\ options[t].maxAttempts - c.attempts >= 0 /\ c.attempts >= 1
      /\ c.afterEach = PerAttempt(c.attempts - 1)
      /\ c.threw = {} /\ frame.lifecycleError = {}
  BY <1>0, <1>1 DEF RunInv, Attempt
<1>6. /\ d.attempts = c.attempts /\ d.beforeEach = c.beforeEach
      /\ d.body = c.body + 1 /\ d.afterEach = c.afterEach
      /\ d.threw = IF o = "throws" THEN {"body"} ELSE {}
  <2>1. /\ d.attempts = c.attempts /\ d.beforeEach = c.beforeEach
        /\ d.body = c.body + 1 /\ d.afterEach = c.afterEach
        /\ d.threw = c.threw \cup Threw("body", o)
    BY <1>4, CallFields
  <2>2. c.threw \cup Threw("body", o) = IF o = "throws" THEN {"body"} ELSE {}
    BY <1>5 DEF Threw
  <2> HIDE DEF d, c
  <2> QED
    BY <2>1, <2>2
<1>7. c.body \in Nat
  BY <1>4 DEF CallCount
<1>8. /\ frame'.remaining = frame.remaining /\ frame'.duration = frame.duration + 1
      /\ frame'.lifecycleError = frame.lifecycleError
      /\ frame'.result = IF o = "throws" THEN "threw" ELSE "returned"
  <2>1. executionTimer'[t] = 1
    BY <1>0, <1>3 DEF RunInv, Inv, TypeOK
  <2> QED
    BY <1>3, <1>4, <2>1 DEF Frame
<1> HIDE DEF t, c, d
<1>9. Attempt'
  <2>1. CurrentTest' = t /\ calls'[t] = d /\ options'[t] = options[t]
    BY <1>3, <1>4 DEF t
  <2> QED
    BY <1>0, <1>4, <1>5, <1>6, <1>7, <1>8, <2>1 DEF Attempt, PerAttempt
<1> QED
  BY <1>4, <1>9 DEF RunInv

LEMMA AfterEachKeepsRunInv ==
    ASSUME RunInv, Inv', NEW o \in {"returns", "throws"}, AfterEach(o)
    PROVE  RunInv'
<1> DEFINE t == CurrentTest
           c == calls[t]
           d == WithAfterEach(c, o)
           error == frame.lifecycleError \cup IF o = "throws" THEN {"afterEach"} ELSE {}
           s == AttemptStatus(error, frame.result)
           last == LastAttempt(s, frame.remaining)
<1> USE DEF suiteVars, testVars, handlerVars, At
<1>1. /\ pc = "afterEach" /\ pc' = (IF last THEN "report" ELSE "beforeEach")
      /\ frame' = [frame EXCEPT !.lifecycleError = error, !.status = s,
                                !.exception = Exception(error, frame.result),
                                !.remaining = IF last THEN @ ELSE @ - 1]
      /\ calls' = [calls EXCEPT ![t] = d]
      /\ UNCHANGED <<tests, pos, options, fixtureType, status, outcome, details, suiteHooks,
                     hooksSucceeded>>
  BY DEF AfterEach, InvokeHook, HookResult
<1>2. Attempting /\ Attempting' /\ TypeOK'
  BY <1>1 DEF Attempting, Inv
<1>3. /\ (SuiteHooksSoFar /\ Untouched /\ Results)'
      /\ t' = t /\ t \in Test /\ calls'[t] = d /\ HasHooks' = HasHooks /\ c \in CallCount
      /\ options[t].maxAttempts \in Nat /\ frame \in Frame
  <2> HIDE DEF d, last, s, error
  <2> QED
    BY <1>1, <1>2, AttemptStep
<1>4. /\ frame.duration = c.body /\ c.beforeEach = PerAttempt(c.attempts)
      /\ frame.remaining = options[t].maxAttempts - c.attempts + 1
      /\ options[t].maxAttempts - c.attempts >= 0 /\ c.attempts >= 1
      /\ c.afterEach = PerAttempt(c.attempts - 1)
      /\ c.threw \in {{}, {"beforeEach"}, {"body"}}
      /\ frame.lifecycleError = c.threw \ {"body"}
      /\ frame.result = (IF "body" \in c.threw THEN "threw" ELSE "returned")
      /\ c.threw = {} => c.body > 0
  BY <1>1, <1>2 DEF RunInv, Attempt
<1>5. /\ d.attempts = c.attempts /\ d.beforeEach = c.beforeEach
      /\ d.body = c.body /\ d.afterEach = c.afterEach + HookCall
      /\ d.threw = c.threw \cup IF o = "throws" THEN {"afterEach"} ELSE {}
  BY <1>3, CallFields DEF Threw
<1>6. c.attempts \in Nat /\ c.body \in Nat
  BY <1>3 DEF CallCount
<1>7. error = d.threw \ {"body"}
  BY <1>4, <1>5
<1>8. s = VerdictOn(d.threw) /\ Exception(error, frame.result) = CauseOf(d.threw)
  <2>1. CASE c.threw = {}
    BY <1>4, <1>5, <2>1 DEF AttemptStatus, VerdictOn, Exception, CauseOf
  <2>2. CASE c.threw = {"beforeEach"}
    BY <1>4, <1>5, <2>2 DEF AttemptStatus, VerdictOn, Exception, CauseOf
  <2>3. CASE c.threw = {"body"}
    BY <1>4, <1>5, <2>3 DEF AttemptStatus, VerdictOn, Exception, CauseOf
  <2> QED
    BY <1>4, <2>1, <2>2, <2>3
<1>9. d.threw = {} => c.body > 0
  BY <1>4, <1>5
<1>10. last <=> d.threw = {} \/ frame.remaining <= 1
  BY <1>8 DEF LastAttempt, VerdictOn
<1>11. d.afterEach = d.beforeEach
  BY <1>4, <1>5, <1>6 DEF PerAttempt, HookCall
<1>12. /\ frame'.remaining = (IF last THEN frame.remaining ELSE frame.remaining - 1)
       /\ frame'.duration = frame.duration /\ frame'.status = s
       /\ frame'.exception = Exception(error, frame.result)
  <2> HIDE DEF last, s, error
  <2> QED
    BY <1>1, <1>3 DEF Frame
<1>13. frame.remaining \in Nat
  BY <1>3 DEF Frame
<1> HIDE DEF t, c, d, last, s, error
<1>14. Attempt'
  <2>1. CurrentTest' = t /\ calls'[t] = d /\ options'[t] = options[t]
    BY <1>1, <1>3 DEF t
  <2>3. CASE last
    <3>1. d.threw # {} => options[t].maxAttempts - d.attempts = 0
      BY <1>3, <1>4, <1>5, <1>6, <1>10, <1>13, <2>3
    <3>2. /\ pc' = "report" /\ frame'.duration = d.body /\ d.beforeEach = PerAttempt(d.attempts)
          /\ frame'.remaining = options[t].maxAttempts - d.attempts + 1
          /\ options[t].maxAttempts - d.attempts >= 0 /\ d.attempts >= 1
          /\ frame'.status = VerdictOn(d.threw) /\ frame'.exception = CauseOf(d.threw)
          /\ d.threw = {} => d.body > 0
      BY <1>1, <1>4, <1>5, <1>8, <1>9, <1>12, <2>3
    <3> QED
      BY <1>3, <1>11, <2>1, <3>1, <3>2 DEF Attempt, PerAttempt
  <2>4. CASE ~last
    BY <1>1, <1>3, <1>4, <1>5, <1>6, <1>10, <1>11, <1>12, <1>13, <2>1, <2>4
       DEF Attempt, PerAttempt
  <2> QED
    BY <2>3, <2>4
<1> QED
  BY <1>3, <1>14 DEF RunInv

LEMMA FinishTestKeepsRunInv ==
    ASSUME RunInv, Inv', FinishTest
    PROVE  RunInv'
<1> DEFINE t == CurrentTest
           c == calls[t]
<1> USE DEF suiteVars, testVars, callVars, At
<1>1. /\ pc = "report" /\ pc' = "select" /\ ~AtEnd
      /\ hooksSucceeded' = (frame.status # "LifecycleError" /\ hooksSucceeded)
      /\ ReportResult(t, frame.status, frame.duration, frame.exception)
      /\ UNCHANGED <<tests, options, fixtureType, status, calls, suiteHooks>>
  BY DEF FinishTest, StillSucceeded
<1>2. Attempting /\ ~Attempting' /\ TypeOK'
  BY <1>1 DEF Attempting, Inv
<1>3. /\ frame.duration = c.body /\ c.beforeEach = PerAttempt(c.attempts)
      /\ c.afterEach = c.beforeEach /\ c.attempts >= 1
      /\ options[t].maxAttempts - c.attempts >= 0
      /\ frame.status = VerdictOn(c.threw) /\ frame.exception = CauseOf(c.threw)
      /\ c.threw = {} => c.body > 0
      /\ c.threw # {} => options[t].maxAttempts - c.attempts = 0
  BY <1>1, <1>2 DEF RunInv, Attempt
<1>4. frame.status \in Verdict /\ frame.duration \in Nat
  BY DEF RunInv, Inv, TypeOK, Frame, Verdict
<1>5. c.attempts # 0
  BY <1>3
<1>6. /\ (Untouched /\ Attempt /\ Results)'
      /\ OnlyBodies' <=> OnlyBodies /\ c.threw \subseteq {"body"}
  BY <1>1, <1>2, <1>3, <1>4, <1>5, ReportStep
<1>7. c.threw \subseteq {"body"} <=> frame.status # "LifecycleError"
  BY <1>3 DEF VerdictOn
<1>8. SuiteHooksSoFar'
  BY <1>1, <1>2, <1>6, <1>7 DEF RunInv, SuiteHooksSoFar, HasHooks
<1> QED
  BY <1>6, <1>8 DEF RunInv

LEMMA RunInvNext == RunInv /\ [Next]_vars => RunInv'
<1> SUFFICES ASSUME RunInv, [Next]_vars PROVE RunInv'
  OBVIOUS
<1>0. Inv'
  BY InvNext DEF RunInv
<1>1. ASSUME NEW t \in Test, NEW option \in TestOption, AddTest(t, option) PROVE RunInv'
  BY <1>0, <1>1, DefinitionKeepsRunInv
<1>2. ASSUME NEW S \in SUBSET Test, SetTestFilter(S) PROVE RunInv'
  <2>1. /\ pc = "idle" /\ ~Attempting /\ ~Attempting' /\ TypeOK'
        /\ UNCHANGED <<options, fixtureType, status, outcome, details, calls, suiteHooks,
                       hooksSucceeded, pc, returned, aborted>>
    BY <1>0, <1>2 DEF SetTestFilter, Attempting, testVars, handlerVars, callVars, Inv
  <2>2. SetupFailed' = SetupFailed /\ SuiteHooksSoFar'
    BY <2>1 DEF RunInv, SuiteHooksSoFar, SetupFailed, HasHooks, OnlyBodies, Reported
  <2> QED
    BY <1>0, <2>1, <2>2, QuietStep DEF RunInv
<1>3. CASE Begin
  BY <1>0, <1>3, BeginKeepsRunInv
<1>4. ASSUME NEW o \in {"returns", "throws"}, BeforeSuite(o) \/ AfterSuite(o) PROVE RunInv'
  BY <1>0, <1>4, SuiteHookKeepsRunInv
<1>5. CASE SkipUnselected \/ AbortTestStart \/ AbortSuite \/ EndSuite
  BY <1>0, <1>5, QuietKeepsRunInv
<1>6. CASE AbortTestResult \/ SkipDisabled
  BY <1>0, <1>6, UnrunKeepsRunInv
<1>7. CASE StartTest
  BY <1>0, <1>7, StartTestKeepsRunInv
<1>8. ASSUME NEW o \in {"returns", "throws"}, BeforeEach(o) PROVE RunInv'
  BY <1>0, <1>8, BeforeEachKeepsRunInv
<1>9. ASSUME NEW o \in {"returns", "throws"}, Execute(o) PROVE RunInv'
  BY <1>0, <1>9, ExecuteKeepsRunInv
<1>10. ASSUME NEW o \in {"returns", "throws"}, AfterEach(o) PROVE RunInv'
  BY <1>0, <1>10, AfterEachKeepsRunInv
<1>11. CASE FinishTest
  BY <1>0, <1>11, FinishTestKeepsRunInv
<1>12. CASE UNCHANGED vars
  <2>1. UNCHANGED <<tests, pos, options, fixtureType, status, outcome, details, calls, suiteHooks,
                    hooksSucceeded, pc, returned, aborted, frame>>
    BY <1>12 DEF vars, suiteVars, testVars, handlerVars, callVars
  <2>2. /\ SetupFailed' = SetupFailed /\ HasHooks' = HasHooks /\ Reported' = Reported
        /\ (Attempting' <=> Attempting) /\ Attempted' = Attempted /\ CurrentTest' = CurrentTest
        /\ (OnlyBodies' <=> OnlyBodies)
    BY <2>1 DEF SetupFailed, HasHooks, Reported, Attempting, Attempted, CurrentTest, OnlyBodies
  <2>3. SuiteHooksSoFar' /\ Untouched'
    BY <2>1, <2>2 DEF RunInv, SuiteHooksSoFar, Untouched
  <2>4. Attempt'
    BY <2>1, <2>2 DEF RunInv, Attempt, PerAttempt
  <2>5. Results'
    BY <2>1, <2>2 DEF RunInv, Results, ResultOf, PerAttempt
  <2> QED
    BY <1>0, <2>3, <2>4, <2>5 DEF RunInv
<1> QED
  BY <1>1, <1>2, <1>3, <1>4, <1>5, <1>6, <1>7, <1>8, <1>9, <1>10, <1>11, <1>12
     DEF Next, RunStep

LEMMA RunInvHolds == Spec => []RunInv
BY RunInvInit, RunInvNext, PTL DEF Spec

(* Counts of an attempt are numbers, and tests without attempts have none.   *)
LEMMA CountTypes ==
    ASSUME RunInv, NEW t \in Test
    PROVE  /\ calls[t] \in CallCount /\ calls[t].attempts \in Nat /\ calls[t].body \in Nat
           /\ options[t].maxAttempts \in Nat \ {0}
           /\ calls[t] = NoCalls => /\ calls[t].attempts = 0 /\ calls[t].beforeEach = 0
                                    /\ calls[t].body = 0 /\ calls[t].afterEach = 0
                                    /\ calls[t].threw = {}
<1>1. calls[t] \in CallCount /\ options[t] \in TestOption /\ options[t].maxAttempts # 0
  BY DEF RunInv, Inv, TypeOK, Untouched
<1>2. calls[t] = NoCalls => /\ calls[t].attempts = 0 /\ calls[t].beforeEach = 0
                            /\ calls[t].body = 0 /\ calls[t].afterEach = 0
                            /\ calls[t].threw = {}
  BY DEF NoCalls
<1> QED
  BY <1>1, <1>2 DEF CallCount, TestOption

(* run() tells its caller exactly whether a hook threw where no retry made   *)
(* up for it, and the handler whether one of the suite did.                  *)
THEOREM ReturnValueTold == Spec => []ReturnTellsHookErrors
<1>1. RunInv => ReturnTellsHookErrors
  <2> SUFFICES ASSUME RunInv, pc = "idle", returned # "none"
               PROVE  /\ returned = "true" <=> /\ suiteHooks.threw = {}
                                               /\ \A t \in Test : calls[t].threw \subseteq {"body"}
                      /\ aborted <=> suiteHooks.threw # {}
    BY DEF ReturnTellsHookErrors
  <2>1. Attempted = {}
    BY DEF Attempted, Attempting
  <2>2. \A t \in Test : t \in Reported \/ calls[t].threw = {}
    BY <2>1, CountTypes DEF RunInv, Untouched
  <2>3. OnlyBodies <=> \A t \in Test : calls[t].threw \subseteq {"body"}
    BY <2>2 DEF OnlyBodies, Reported
  <2> QED
    BY <2>3 DEF RunInv, SuiteHooksSoFar
<1> QED
  BY <1>1, RunInvHolds, PTL

(* However many attempts a test may have: none is made after it is used up,  *)
(* and a failing test has used them all.                                     *)
THEOREM RetriesKeepContract == Spec => []RetryContract
<1>1. RunInv => RetryContract
  <2> SUFFICES ASSUME RunInv, NEW t \in Test
               PROVE  /\ calls[t].attempts <= options[t].maxAttempts
                      /\ outcome[t] \in {"Failed", "LifecycleError"} /\ ~SetupFailed =>
                            calls[t].attempts = options[t].maxAttempts
                      /\ outcome[t] = "Passed" => calls[t].attempts >= 1
    BY DEF RetryContract
  <2>0. calls[t].attempts \in Nat /\ options[t].maxAttempts \in Nat \ {0}
    BY CountTypes
  <2>1. CASE t \in Reported
    <3>1. ResultOf(t)
      BY <2>1 DEF RunInv, Results
    <3> QED
      BY <2>0, <3>1 DEF ResultOf, VerdictOn
  <2>2. CASE t \notin Reported
    <3>1. outcome[t] = "NotRun"
      BY <2>2 DEF Reported
    <3>2. CASE t \in Attempted
      <4>1. options[t].maxAttempts - calls[t].attempts >= 0
        <5>1. Attempting /\ t = CurrentTest
          BY <3>2 DEF Attempted
        <5>2. /\ pc # "beforeEach" => options[t].maxAttempts - calls[t].attempts >= 0
              /\ pc = "beforeEach" => options[t].maxAttempts - calls[t].attempts >= 1
          BY <5>1 DEF RunInv, Attempt
        <5> QED
          BY <2>0, <5>2
      <4> QED
        BY <2>0, <3>1, <4>1
    <3>3. CASE t \notin Attempted
      <4>1. calls[t] = NoCalls
        BY <2>2, <3>3 DEF RunInv, Untouched
      <4>2. calls[t].attempts = 0
        BY <4>1, CountTypes
      <4> QED
        BY <2>0, <3>1, <4>2
    <3> QED
      BY <3>2, <3>3
  <2> QED
    BY <2>1, <2>2
<1> QED
  BY <1>1, RunInvHolds, PTL

(* afterEach is called once for each beforeEach, whatever threw in between,  *)
(* and afterSuite exactly after a beforeSuite that succeeded.                *)
THEOREM HooksArePaired == Spec => []HooksPaired
<1>1. RunInv => HooksPaired
  <2> SUFFICES ASSUME RunInv PROVE HooksPaired
    OBVIOUS
  <2>1. ASSUME NEW t \in Reported
        PROVE  /\ calls[t].beforeEach = calls[t].attempts * HookCall
               /\ calls[t].afterEach = calls[t].beforeEach
    <3>1. ResultOf(t) /\ calls[t].attempts \in Nat
      BY <2>1, CountTypes DEF RunInv, Results, Reported
    <3>2. calls[t].attempts * HookCall = PerAttempt(calls[t].attempts)
      BY <3>1 DEF HookCall, PerAttempt
    <3> QED
      BY <3>1, <3>2 DEF ResultOf
  <2>2. SetupFailed => \A t \in Test : calls[t] = NoCalls
    BY DEF RunInv, Untouched
  <2>3. pc = "end" => ("afterSuite" \in suiteHooks.called <=> HasHooks /\ ~SetupFailed)
    BY DEF RunInv, SuiteHooksSoFar
  <2> QED
    BY <2>1, <2>2, <2>3 DEF HooksPaired
<1> QED
  BY <1>1, RunInvHolds, PTL

(* No order of definitions, filters and runs reaches the code of a disabled  *)
(* test, or makes it run once it was skipped.                                *)
THEOREM DisabledStayUntouched == Spec => []DisabledNeverExecuted
<1>1. RunInv => DisabledNeverExecuted
  <2> SUFFICES ASSUME RunInv, NEW t \in Test
               PROVE  /\ status[t] = "Skipped" <=> options[t].disabled
                      /\ options[t].disabled \/ t \notin running \cup Reported => calls[t] = NoCalls
                      /\ options[t].disabled /\ t \in Reported =>
                            outcome[t] = IF SetupFailed THEN "LifecycleError" ELSE "Skipped"
    BY DEF DisabledNeverExecuted
  <2>1. Attempted \subseteq running
    BY DEF RunInv, Inv, Reporting, InTest, Attempted, Attempting
  <2>2. options[t].disabled \/ t \notin running \cup Reported => calls[t] = NoCalls
    BY <2>1 DEF RunInv, Untouched
  <2>3. ASSUME options[t].disabled, t \in Reported
        PROVE  outcome[t] = IF SetupFailed THEN "LifecycleError" ELSE "Skipped"
    BY <2>2, <2>3, CountTypes DEF RunInv, Results, ResultOf
  <2>4. status[t] = "Skipped" <=> options[t].disabled
    BY DEF RunInv, Untouched
  <2> QED
    BY <2>2, <2>3, <2>4
<1> QED
  BY <1>1, RunInvHolds, PTL

(* The verdict and the exception reported are those of the last attempt,     *)
(* however many there were and whatever the earlier ones threw.              *)
THEOREM LastAttemptDecides == Spec => []VerdictOfLastAttempt
<1>1. RunInv => VerdictOfLastAttempt
  <2> SUFFICES ASSUME RunInv, NEW t \in Reported, calls[t].attempts > 0
               PROVE  /\ outcome[t] = "Passed" <=> calls[t].threw = {} /\ calls[t].body > 0
                      /\ outcome[t] = "Failed" <=> calls[t].threw = {"body"}
                      /\ details[t].cause = IF calls[t].threw = {"body"} THEN calls[t].threw
                                            ELSE calls[t].threw \ {"body"}
    BY DEF VerdictOfLastAttempt
  <2>1. ResultOf(t) /\ calls[t].attempts # 0
    BY CountTypes DEF RunInv, Results, Reported
  <2> QED
    BY <2>1 DEF ResultOf, VerdictOn, CauseOf
<1> QED
  BY <1>1, RunInvHolds, PTL

(* The duration reported is that of this run's executions of the body.       *)
THEOREM DurationIsThisRuns == Spec => []DurationCoversThisRun
<1>1. RunInv => DurationCoversThisRun
  BY DEF RunInv, Results, ResultOf, DurationCoversThisRun
<1> QED
  BY <1>1, RunInvHolds, PTL

-----------------------------------------------------------------------------
(* The order of the results. However often the suite was run, its tests are  *)
(* in the order of one stable sort of the tests as they were added.          *)

Sorted ==
    IF pc = "idle" /\ returned = "none" THEN tests = added
    ELSE \A i, j \in 1..Len(tests) : i < j => Precedes(added, tests[i], tests[j])

(* In a sequence that has no element twice, Index finds the place of each.   *)
LEMMA IndexOf ==
    ASSUME NEW s \in Seq(Test), \A i, j \in 1..Len(s) : s[i] = s[j] => i = j,
           NEW i \in 1..Len(s)
    PROVE  Index(s, s[i]) = i
<1>1. \E k \in 1..Len(s) : s[k] = s[i]
  OBVIOUS
<1>2. Index(s, s[i]) \in 1..Len(s) /\ s[Index(s, s[i])] = s[i]
  BY <1>1 DEF Index
<1> QED
  BY <1>2

LEMMA SortedNext == Inv /\ Sorted /\ [Next]_vars => Sorted'
<1> SUFFICES ASSUME Inv, Sorted, [Next]_vars PROVE Sorted'
  OBVIOUS
<1> USE DEF suiteVars
<1>1. CASE \E t \in Test, option \in TestOption : AddTest(t, option)
  <2>1. PICK t \in Test, option \in TestOption : AddTest(t, option)
    BY <1>1
  <2> QED
    BY <2>1 DEF AddTest, Sorted
<1>2. CASE Begin
  <2>1. /\ pc = "idle" /\ pc' = "beforeSuite" /\ tests' \in StableSorts(tests)
        /\ added' = added /\ options' = options
    BY <1>2 DEF Begin
  <2>2. tests \in Seq(Test) /\ \A i, j \in 1..Len(tests) : tests[i] = tests[j] => i = j
    BY DEF Inv, TypeOK, NoTestTwice
  <2>3. /\ tests' \in Seq(Test) /\ Len(tests') = Len(tests) /\ Range(tests') = Range(tests)
        /\ \A i, j \in 1..Len(tests) : i < j => Precedes(tests, tests'[i], tests'[j])
    BY <2>1, <2>2, SortPermutes DEF StableSorts
  <2>4. ASSUME NEW t \in Range(tests), NEW u \in Range(tests), Precedes(tests, t, u)
        PROVE  Precedes(added, t, u)
    <3>1. CASE tests = added
      BY <2>4, <3>1
    <3>2. CASE tests # added
      <4>1. \A i, j \in 1..Len(tests) : i < j => Precedes(added, tests[i], tests[j])
        BY <3>2 DEF Sorted
      <4>2. PICK i, j \in 1..Len(tests) : tests[i] = t /\ tests[j] = u
        BY <2>2 DEF Range
      <4>3. Index(tests, t) = i /\ Index(tests, u) = j
        BY <2>2, <4>2, IndexOf
      <4>4. options[t].order < options[u].order \/ i < j
        BY <2>4, <4>3 DEF Precedes
      <4>5. CASE i < j
        BY <4>1, <4>2, <4>5
      <4>6. CASE options[t].order < options[u].order
        BY <4>6 DEF Precedes
      <4> QED
        BY <4>4, <4>5, <4>6
    <3> QED
      BY <3>1, <3>2
  <2>5. ASSUME NEW i \in 1..Len(tests'), NEW j \in 1..Len(tests'), i < j
        PROVE  Precedes(added, tests'[i], tests'[j])
    <3>1. tests'[i] \in Range(tests) /\ tests'[j] \in Range(tests)
      BY <2>3 DEF Range
    <3> QED
      BY <2>3, <2>4, <2>5, <3>1
  <2>6. ASSUME NEW t, NEW u, Precedes(added, t, u) PROVE Precedes(added, t, u)'
    BY <2>1, <2>6 DEF Precedes
  <2> QED
    BY <2>1, <2>5, <2>6 DEF Sorted
<1>3. CASE \/ \E S \in SUBSET Test : SetTestFilter(S)
           \/ RunStep
           \/ UNCHANGED vars
  <2>1. /\ UNCHANGED <<tests, added, options>>
        /\ (pc' = "idle" /\ returned' = "none") <=> (pc = "idle" /\ returned = "none")
    <3>1. ASSUME NEW S \in SUBSET Test, SetTestFilter(S)
          PROVE  UNCHANGED <<tests, added, options, pc, returned>>
      BY <3>1 DEF SetTestFilter
    <3>2. ASSUME NEW o, BeforeSuite(o) \/ BeforeEach(o) \/ Execute(o) \/ AfterEach(o) \/ AfterSuite(o)
          PROVE  UNCHANGED <<tests, added, options, returned>> /\ pc # "idle" /\ pc' # "idle"
      BY <3>2 DEF BeforeSuite, BeforeEach, AfterBeforeEach, Execute, AfterEach, AfterSuite, At
    <3>3. ASSUME \/ SkipUnselected \/ SkipDisabled \/ StartTest \/ FinishTest
                 \/ AbortTestStart \/ AbortTestResult \/ AbortSuite
          PROVE  UNCHANGED <<tests, added, options, returned>> /\ pc # "idle" /\ pc' # "idle"
      BY <3>3 DEF SkipUnselected, SkipDisabled, StartTest, FinishTest, AbortTestStart,
                  AbortTestResult, AbortSuite, At, AtSelected
    <3>4. ASSUME EndSuite
          PROVE  UNCHANGED <<tests, added, options>> /\ pc # "idle" /\ returned' # "none"
      BY <3>4 DEF EndSuite
    <3>5. ASSUME UNCHANGED vars PROVE UNCHANGED <<tests, added, options, pc, returned>>
      BY <3>5 DEF vars
    <3> QED
      BY <1>3, <3>1, <3>2, <3>3, <3>4, <3>5 DEF RunStep
  <2> QED
    BY <2>1 DEF Sorted, Precedes
<1> QED
  BY <1>1, <1>2, <1>3 DEF Next

(* Results come by ascending order of their tests, and in the order of       *)
(* registration among equal ones, in every run: the sort of an earlier run   *)
(* does not show.                                                            *)
THEOREM ResultsInOrder == Spec => RunsInOrder
<1> DEFINE InOrder == \A t \in Reported' \ Reported, u \in Reported :
                          open /\ open' => Precedes(added, u, t)
<1>1. Inv /\ Inv' /\ Sorted /\ [Next]_vars => [InOrder]_vars
  <2> SUFFICES ASSUME Inv, Inv', Sorted, [Next]_vars,
                      NEW t \in Reported' \ Reported, NEW u \in Reported, open, open'
               PROVE  Precedes(added, u, t)
    OBVIOUS
  <2>1. pc # "idle" /\ pc' # "idle" /\ Reported = Done /\ Reported' = Done'
    BY DEF Inv, Reporting
  <2>2. tests' = tests /\ testFilter' = testFilter /\ pos' \in {pos, pos + 1}
    <3>1. ASSUME NEW o, BeforeSuite(o) \/ BeforeEach(o) \/ Execute(o) \/ AfterEach(o) \/ AfterSuite(o)
          PROVE  UNCHANGED <<tests, testFilter, pos>>
      BY <3>1 DEF BeforeSuite, BeforeEach, Execute, AfterEach, AfterSuite, suiteVars
    <3>2. ASSUME \/ SkipUnselected \/ SkipDisabled \/ StartTest \/ FinishTest
                 \/ AbortTestStart \/ AbortTestResult \/ AbortSuite \/ EndSuite
          PROVE  tests' = tests /\ testFilter' = testFilter /\ pos' \in {pos, pos + 1}
      BY <3>2 DEF SkipUnselected, AfterUnselected, SkipDisabled, StartTest, FinishTest,
                  AbortTestStart, AbortTestResult, AbortSuite, EndSuite, suiteVars
    <3>3. UNCHANGED vars => UNCHANGED <<tests, testFilter, pos>>
      BY DEF vars, suiteVars
    <3> QED
      BY <2>1, <3>1, <3>2, <3>3 DEF Next, RunStep, AddTest, SetTestFilter, Begin
  <2>3. tests \in Seq(Test) /\ pos \in Nat /\ pos' <= Len(tests) + 1 /\ Len(tests) \in Nat
    BY <2>2 DEF Inv, TypeOK
  <2>4. PICK i \in 1..(pos - 1) : u = tests[i]
    BY <2>1 DEF Done
  <2>5. PICK j \in 1..(pos' - 1) : t = tests[j]
    BY <2>1, <2>2 DEF Done
  <2>6. t \in testFilter /\ t \notin Done
    BY <2>1, <2>2 DEF Done
  <2>7. j \notin 1..(pos - 1)
    BY <2>5, <2>6 DEF Done
  <2>8. i < j /\ i \in 1..Len(tests) /\ j \in 1..Len(tests)
    <3>1. i \in 1..(pos - 1) /\ j \in 1..(pos' - 1)
      BY <2>4, <2>5
    <3>2. CASE pos' = pos
      BY <2>7, <3>1, <3>2
    <3>3. CASE pos' = pos + 1
      <4>1. j \in 1..pos
        BY <2>3, <3>1, <3>3
      <4>2. j = pos
        BY <2>3, <2>7, <4>1
      <4> QED
        BY <2>3, <3>1, <3>3, <4>2
    <3> QED
      BY <2>2, <3>2, <3>3
  <2> QED
    BY <2>1, <2>4, <2>5, <2>8 DEF Sorted
<1>2. Init => Sorted
  BY DEF Init, Sorted
<1> QED
  BY <1>1, <1>2, InvInit, InvNext, SortedNext, PTL DEF Spec, RunsInOrder
=============================================================================
