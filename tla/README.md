# CoreTestament in TLA+

A verification project for CoreTestament, a C++ framework in which test suites
are defined in code, registered at static initialization, and run by a `Runner`
that reports to event handlers. The modules are translated from the sources
under `src/`; TLC checks them on small instances and TLAPS proves all of their safety
properties that hold, and the refinements, for all instances.

## The system

| part | state | operations | interacts with |
| --- | --- | --- | --- |
| `InternalSuite` | its tests, counters, filter, hook errors, handler pointer | `addTest`, `setTestFilter`, `setHandler`, `run` | calls hooks and test bodies; calls back its handler |
| `InternalTest`, `ExecutionTimer` | status, exception, time of the last execution | `execute` | calls the test body |
| `HookManager` | four hooks, recorded errors | `invoke*Hook`, `resetErrors` | calls the fixture, turns exceptions into errors |
| `TestManager`, `TestStatistics` | three counters | `reportStart`, `reportResult`, `+=` | calls the handler |
| `TestEventHandler` | (interface) | nine callbacks, `configure`, `errorMessage` | implemented by the chain, JUnit and console reporters, and users |
| `TestEventHandlerChain` | handlers, errors | `configure`, callbacks, `errorMessage` | on the stack of `Runner::run`; isolates handlers from each other |
| `Runner` | its handlers; one process-wide run lock | `addHandler`, `run`, moves | reads the registry, runs suites through one chain |
| `InternalRegistry`, `ConfigurationDiagnostics` | registered suites; configuration errors | register, unregister, snapshots | process-wide, each behind a lock of its own |
| `SuiteRegistration`, `SuiteAssembler` | RAII handle of a registered suite | register, move, destroy | turn errors of a definition into configuration errors |
| `TestOptions`, `SuiteOptions` | copy-on-write storage | setters, getters | read by suite, runner, handlers |
| JUnit reporter | results per suite, output path, write error | callbacks, `writeReport` | relies on the order of callbacks |
| console reporter | none, but for what it printed | callbacks | hears every callback before the JUnit reporter |
| definition templates: `Suite`, `Test`, `ParameterizedTest` | none after initialization | build and register a suite | produce what `addTest` receives; turn errors into configuration errors |
| assertions | none | throw | called by test bodies |
| `ServiceLocator` (separate library) | services by type | register, unregister, get, move | behind a lock of its own |

What is hard here: user code may throw at every call, and each place has its own
way out (an early return, a retry, an accumulated flag, a recorded error); the
same suite is run again with part of its state reset and part kept; counters
reach handlers as snapshots patched by hand; several threads may call `run()`
while others register and destroy suites; the handler of a suite points into the
stack frame of a run; variables that own suites are initialized before `main`, in an
order the program does not choose, and destroyed after it, next to the registry they
refer to; an entry of the service locator is looked up first and used after that.
`PROJECT.json` lists these hazards line by line, with the
properties that cover them.

What makes each part correct: a suite reports every selected test once, with the
right verdict, in order, within its contract, and returns whether a hook failed;
a run is serialized, covers every suite once, in order, and its exit code tells
whether anything went wrong; the chain loses no callback; a rejected definition
rejects every run, and leaves nothing else behind; the two default reporters show the
same numbers; a service that was found is still there when it is used.

## Modules

- `TestResults`: verdicts, counters and the tally of a set of results.
- `SuiteReport`: the abstract specification. What a handler may rely on while a
  suite runs, one action per callback: every selected test gets one result,
  after its start unless it is skipped; tests do not overlap; a suite error comes
  after the last result; every `SuiteInfo` carries the exact counters.
- `SuiteRun`: `InternalSuite` with everything it owns. `run()` is cut where other
  code can observe it, at each hook, test body and callback, and `pc` names the
  next cut. `pos` is the position of the loop over tests, `frame` the locals of one
  iteration (`remaining`, `duration`, `lifecycleError`, `result`, `status`,
  `exception`). `open`, `aborted`, `running`, `outcome`, `info` and `details` are what
  the handler has been told; `added`, `calls` and `suiteHooks` only record what user
  code saw, for the properties.
- `Runner`: `Runner::run`, the chain, and as much of the registry as `run()` sees.
  Threads are between `Call` and one of the returns. A suite is three steps
  (`StartSuite`, `RunTests`, `EndSuite`), with a result and a number of failed tests
  chosen freely: what `SuiteRun` says about the inside is not repeated. A handler
  may throw at every callback, and report or throw in `errorMessage`; `Dispatch` is a
  whole pass of the chain over its handlers, for the exit code only. The pass itself,
  handler by handler, is in `RunnerObjects`.
- `JUnitReport`: the JUnit reporter, run after run. What a suite tells it is any
  behaviour of `SuiteReport`, whose variables it composes with the reporter's own: the
  contract that `SuiteRun` is shown to implement is what the reporter may assume. A
  file is known by its age (absent, earlier, partial, current), a report by its counts.
- `DefaultReports`: the two handlers of `Testament::run`, `JUnitReport` and the console
  handler. Each action is a callback that both hear; the console's state is what it
  printed, the lines of each kind and the numbers of the last summary.
- `RunnerObjects`: the objects themselves, in one thread: which `Runner` owns which
  handlers while they are constructed, moved and destroyed, from callbacks too, and who
  hears a report whose chain was copied before. The chain calls one handler after
  another (`Dispatch`, then `Hear` for each), `configure` first, then the callbacks, then
  `errorMessage`. Each of them may throw or return an error, and each may act on the
  Runners before the next is called. `emitted` counts the calls to the chain, `failures`
  remembers which kind of call failed, and `errors` is whether the chain recorded any.
- `XmlText`: `decodeUtf8` and `escapeXml`, the loop as a state machine over one value,
  and the reference against which the code's arithmetic is compared: the Unicode table
  of well-formed byte sequences and an encoder.
- `Registry`: `InternalRegistry` and the handles that own its suites, for several
  threads. A step is what happens under one lock or between two, but for a filter, which is
  called suite by suite, and for registration, which compares the names and appends the suite
  in two steps: others wait because of the lock (`MayRead`, `MayWrite`), not because the
  model says so. A definition is `Define`, `CompareNames`, `AppendSuite` or
  `RecordConfigurationError`, `Assign`, and the destructor of what the handle held,
  `UnregisterSuite`, comes last. `getSuitesByFilter` and
  `getAllSuites` hand out suites which a thread keeps while the registry changes; an
  object that neither a handle nor a thread holds is free to be used again.
- `DefinedSuites`: the abstract specification of a definition: a complete suite, or one
  configuration error and nothing else. `SuiteDefinition`: the life of a program that
  defines suites. Before `main`, in any order, each variable is initialized by
  `Suite(...)`: tests and cases are materialized, the fixture is constructed, the suite
  is assembled test by test and registered, and any of it may fail. `main` moves suites
  and runs them. Then static objects are destroyed, the last constructed first, the
  registry among them: `alive` is the order of construction.
- `ServiceMap`: the abstract specification of the service locator, where a call takes
  effect at one moment. `ServiceLocator`: the code, where it is a lookup and a use under
  a shared mutex, on an `Impl` that moves from locator to locator.
- `OptionValues`: the abstract specification of options, a value for each object.
  `OptionsStorage`: `TestOptions` as handles on reference-counted storage, where a setter
  is `Detach`, `Clone` and a write, with other handles acting in between.
  `SuiteOptions` repeats the code of `TestOptions` with fewer fields and is covered by it.
- `MCSuiteRun`, `MCRunner`, `MCDefaultReports`, `MCXmlText`, `MCRegistry`,
  `MCOptionsStorage`, `MCSuiteDefinition`: instances for TLC. The other runs need no definition and name
  their module directly.
- `SuiteRunProofs`, `RunnerProofs`, `RunnerObjectsProofs`, `DefaultReportsProofs` (which
  covers `JUnitReport` and `XmlText`), `OptionsStorageProofs`, `RegistryProofs`,
  `SuiteDefinitionProofs`, `ServiceLocatorProofs`: theorems and proofs about the module
  of that name.

| code | action |
| --- | --- |
| `addTest`, `setTestFilter` | `AddTest`, `SetTestFilter` |
| `run`, to `onSuiteStart` | `Begin` |
| hooks | `BeforeSuite`, `BeforeEach`, `AfterEach`, `AfterSuite` |
| `InternalTest::execute` | `Execute` |
| loop over tests, `views::filter` | `SkipUnselected`, `SkipDisabled`, `StartTest`, `FinishTest` |
| failed `beforeSuite` | `AbortTestStart`, `AbortTestResult`, `AbortSuite` |
| `onSuiteEnd` and return | `EndSuite` |
| `Runner::run` | `Call`, `Lock`, `Configure`, `CheckConfiguration`, `Snapshot`, `StartSuite`, `RunTests`, `EndSuite`, `Finish` |
| a registration is created, destroyed | `RegisterSuite`, `UnregisterSuite` (of `Runner`, one step each) |
| JUnit callbacks, `writeReport`, `errorMessage` | actions of `JUnitReport` of the same names, `Return` |
| `Suite(...)` and `RuntimeBridge::registerSuite` | `Define`, `CompareNames`, `AppendSuite`, `RecordConfigurationError`, `Assign` (of `Registry`) |
| moves and destructor of `SuiteRegistration` | `Move`, `Destroy`, `UnregisterSuite` |
| `getSuitesByFilter`, `getAllSuites` | `BeginFilter`, `CallFilter`, `ReturnFiltered`; `GetAllSuites`; `DropFound` when the caller is done |
| `Suite(...)` in detail | `Begin`, `Materialize`, `ConstructFixture`, `ConstructSuite`, `AddTest`, `Assembled`, `RegisterSuite`, `Refuse`, `Complete` (of `SuiteDefinition`) |
| static objects before and after `main` | `ConstructHolder`, `EnterMain`, `Exit`, `DestroyStatic` |
| construction, `addHandler`, moves and destruction of a `Runner` | actions of `RunnerObjects` of these names |
| the chain of a `run` | `RejectArguments` or `Run`; `Dispatch` and `Hear`; `Reject` or `Finish` (of `RunnerObjects`) |
| console callbacks | `Prints...`, joined to the actions of `JUnitReport` |
| calls of a `ServiceLocator` | `Call`, `Enter`, `Lock`, `Find`, then `Register`, `Unregister` or `Get`, and `Return` |
| setters of options | `Detach`, `Clone`, then `SetOrder`, `AddTag`, `SetAttribute`, `SetDisabled`, `SetMaxAttempts` |

Abstractions. A name is its lexicographic rank; in `SuiteDefinition`, where names are
joined by a slash, it is a sequence of tokens. Exceptions and error texts are named by
the code that threw; several hook errors of one attempt, joined by `; ` in the code, are
a set. A duration is the number of body executions it covers. Tests have one of the
fixture types a suite may have, or none. All four hooks come from a fixture, as they do
for every suite a program can define; setting single hooks on an `InternalSuite` is only
possible in the framework's own unit tests. `InternalSuite::totalTimer` is left out:
nothing reads it. Regular-expression filters are arbitrary sets of tests.

Definitions whose comment begins with "Fault" are mutations: plausible bugs in one
definition, put in its place to confirm that a property notices. No specification
uses them.

## Model checking

| run | instance | question |
| --- | --- | --- |
| `suite_full` | 2 tests, 0 to 2 attempts, with and without a fixture | all properties of a suite, the contract as a refinement, and termination |
| `suite_order` | 3 plain tests of orders -1, 0, 1; or 1 test, 0, 1 or 3 attempts, 2 fixture types | the stable sort, over repeated runs; retries beyond the second |
| `suite_names` | 2 tests, no fixture | whether tests of equal order run in name order: they do not |
| `runner_threads` | 2 threads, 1 suite, 1 handler, 2 calls each | runs are serialized and every call returns |
| `runner_again` | 1 thread, 2 calls, 2 handlers, 2 suites of 3 orders | what survives from one run to the next, exit code, suites once and in order |
| `runner_objects` | 3 runners, 3 handlers, reports of 2 callbacks | who hears a report while runners move and handlers throw; what their failures do to the exit code |
| `default_reports` | 2 tests, 2 suites, 2 paths, any number of runs | what the JUnit reporter holds, its report against the run's statistics and against the console, lost reports |
| `junit_text` | texts of up to 4 bytes over 17 bytes | decoding and escaping against the reference |
| `options_values` | 2 handles, 3 addresses | independent values, as a refinement |
| `registry_handles` | 2 threads, 2 handles, 4 objects, 3 names | unique names, ownership, filters, suites that were handed out |
| `suite_definition` | 2 suite variables, 1 holder, 65 definitions | whole definitions, as a refinement; tests that get lost; the registry's life |
| `service_locator` | 2 threads, 2 locators, 1 type, 2 services, 2 calls each | the locator as an atomic map, as a refinement; entries in use; every call returns |

The suite's runs are unbounded in the number of times a suite is run: every variable
is reset or bounded, so the state space is finite without a constraint. Two tests
are enough for one to influence the other and for a filter to split them; two
attempts for one to follow another, and three for the middle one; three tests for a
sort to separate two equal ones. `suite_order` starts from three plain tests or one
test of any kind (`PlainOrOneSpec`), since sorting does not depend on what the tests do,
nor a retry on the other tests.

In `Runner`, `MaxCalls` bounds the calls of each thread: two show that a run inherits
nothing, and two threads any interference, since a third one only waits as well. Suites
are unregistered and registered without bound. In `JUnitReport`, `DefaultReports` and
`Registry` nothing is bounded beyond the sets of the instance; `registry_handles` has
more objects than handles, for a suite that only a caller still keeps, and a name more than
handles, for a definition that does not collide. `RunnerObjects` bounds the callbacks of one
report by `MaxCallbacks`, besides `configure` and `errorMessage`: a second one shows what a
change between the two does, or a failure in the first, and
three runners are enough for handlers to move on. A text of four bytes holds the
longest character, or a truncated one and what follows it; the 17 bytes are every kind of
lead byte, the limits of the second byte in each row of the table, markup, and characters
XML forbids. (The proof is for all bytes and lengths.) `options_values` bounds the tags by `MaxTags`; there is one address more than
handles, for the copy that `Clone` makes, and two handles are enough to share, the proof
being for any number.

`suite_definition` takes its definitions from a catalog: up to two tests of six forms
(plain, parameterized, without a name, a case without a name, no attempts, a plain test
named like another one's case), and suites with and without name and test over every
outcome of a fixture's constructor. Two variables are enough for the second to collide with
the first, and the holder is a variable that is older than the registry or not. A
program ends, so this run alone does not check for deadlock. In `ServiceLocator`,
`MaxCalls` bounds the calls of each thread; two let one of them find what another one
removes, and an entry of one type never touches that of another.

`runner_again`, `default_reports`, `options_values` and `registry_handles` treat equal
parts as symmetric; the runs that check liveness do not.

Fairness. `SuiteRun!FairSpec` is weakly fair for the steps of a `run()` that was
called: user code returns or throws, as the framework requires, and the loop then goes
on. `Runner!FairSpec` is weakly fair for the steps of each thread inside `run()`. The
lock is a `std::mutex` without fairness, but the number of calls is bounded, so it is
free for good in the end and weak fairness suffices; with unboundedly many calls of
one thread another one could wait for ever. `ServiceLocator!FairSpec` is weakly fair for
each thread's steps for the same reason: the `std::shared_mutex` promises nobody a turn,
but readers and writers run out of calls.

### What the runs found

`suite_names` is violated. `docs/guide.md:176-178` says that entries with the same order
run in name order. That is so for suites, which `Runner::run` sorts by order and name;
tests are only sorted by order (`InternalSuite.cpp:84`), stably, and keep the order of
registration. `RunsInOrder` states what the code does.

## Proofs

All theorems hold for every value of the constants under the named assumptions of the
modules: sets of tests, suites and handles are finite; tests and suites are ranks, so
integers, where they are sorted, and orders are integers; an attempt limit is a natural
number; the values that stand for nothing (`"none"`, `"null"`, `"absent"`) name no thread,
locator, service, object, path or fixture. `CatalogAssumption` says what the templates of
the definition language guarantee of any definition: tests and cases are written one
after the other, `Cases` takes a first case (`TestCase.hpp:21-25`), and a plain test has
one. No theorem assumes a bound on threads, runs, tests, attempts or the length of a
sequence other than the `MaxCalls`, `MaxCallbacks` and `MaxLength` of the modules that have
one, which may be any number.

| theorem of | states |
| --- | --- |
| `SuiteRunProofs` | `TypeOK`, `Accounting`, `ReportsAsPromised`, `ReturnTellsHookErrors`, `RetryContract`, `HooksPaired`, `DisabledNeverExecuted`, `VerdictOfLastAttempt`, `DurationCoversThisRun`, `RunsInOrder` |
| `RunnerProofs` | `TypeOK`, `RunsDoNotInterleave`, `ExitCodeTellsTrouble`, `ConfigurationErrorsReject`, `EverySuiteOnce`, `SuitesInOrder` |
| `RunnerObjectsProofs` | `TypeOK`, `MovesTransferAll`, `WholeReports`, `FailuresSurvive` |
| `DefaultReportsProofs` | of the reports: `TypeOK`, `FollowsTheRun`, `ReportAgreesWithRun`, `LossIsReported`, `ConsoleAgrees`; of the text: `DecodeIs`, `TextTypeOK`, `OutputIsXmlText`, `KeepsEveryCharacter` |
| `OptionsStorageProofs` | `TypeOK`, `WritesAlone`, `IndependentValues` |
| `RegistryProofs` | `TypeOK`, `NamesUnique`, `OwnedWhileRegistered`, `SnapshotStaysTrue`, `FilterSeesOneRegistry` |
| `SuiteDefinitionProofs` | `TypeOK`, `DefinedAtOnce`, `NothingLostSilently`, `RegistryOutlivesHandles` |
| `ServiceLocatorProofs` | `TypeOK`, `NeverDangles`, `AsAMap` |

`ReportsAsPromised`, `IndependentValues`, `DefinedAtOnce` and `AsAMap` are refinements.

### A suite

That a counter is the tally of the results depends on no test being reported twice, hence
on the tests of the list being distinct and on where the loop is. `Inv` adds that no test
is in the list twice (`addTest` rejects it and the sort permutes), that the reported tests
are the selected ones before `pos` (`Position`), that the test in progress is the one
started and not reported (`Reporting`), and that the counters are the tally (`Counting`).
The lemmas on tallies are about finite cardinalities: reporting a new test raises one
counter by one, and the three add up to the reported tests. The refinement follows action
by action: `Begin` is `OnSuiteStart`, a report is `OnTestResult` or `OnTestSkipped`, hooks
and bodies stutter.

`RunInv` is what the code that was called, the errors a hook left behind and the locals of
`run()` have to do with each other. `SuiteHooksSoFar` says it of the suite's own hooks;
`Untouched` of a test that was not reached, of which nothing was called; `Attempt` of the
test in progress, at each cut of its attempt: how often beforeEach, body and afterEach were
called in this run, what the last attempt threw, and where of that the frame and the hook
manager keep it; `Results` of the tests reported before, whose details must be those of
their last attempt. With it all properties of a run are read off. `Sorted` is another
invariant, for the order: before its first run the list is in order of registration, and
from then on sorted by order and, among equals, by registration; sorting a sorted list
again keeps that, whatever a run did in between.

### The runner

`Inv` says that the threads inside the lock are the one that holds it, that the run in a
report owns the handlers and the current suite's chain pointer, and that the failures so
far are exactly those in `total`, `hooksSucceeded` and `chainErrors`, plus, until `EndSuite`
adds them, those of the current suite. A step of one thread leaves the others' accounts
alone (`Others`), so only its own needs an argument (`OwnStep`). `ScheduleInv` adds what a
run knows of the registry: a configuration error that was there before the call is still there (`Warned`), and the
suites that ran and those still in the snapshot are together the ones it was taken of, each
once, sorted (`Schedule`).

### Runners that move

`Inv` of `RunnerObjectsProofs` says that the lists of handlers and their owners agree and
that no list has a handler twice (`Owners`), that the chain of a report has exactly the
handlers the Runner had when it began, each once, whatever became of the Runner since
(`ChainIsMembers`), and that of those, the ones before `next` have heard one callback more
than the others (`HeardSoFar`). A handler that throws takes part in a step of `Hear` like
any other, after which `next` moves on. Two more parts are about the exit code: a
failure of this run is still among the chain's errors while it runs (`Remembered`), and a
run that returned has told it (`Told`). The actions that construct, move and destroy leave the
report alone, and those of a report leave the lists alone, so each part needs
an argument for a few actions only.

### The default handlers

The reporter's totals are sums over the suites, and the library adds them with a fold in
an arbitrary order. The first part proves what a sum is: that the fold is one function on
the subsets (`SumIsOne`), that any element may be added last (`SumInAnyOrder`), and that
appending to a sequence adds one value. `Inv` then relates the two handlers, the contract
of the suite that is running, and the run: the reporter's entries are those of the suites
that started, the last of them open (`Follows`), with counts that are the tally the suite
has told so far; the sums over the entries, the console's lines and the statistics of the
run differ by nothing but the suite in progress (`SumsFollow`, `Printed`); and a file is
current only if it was written by this run (`Unwritten`, `WrittenAgrees`).

### The text of the report

Three arguments meet here. The first is arithmetic: the digits base 64 of a code point are
its encoding, and a lead byte with its continuation bytes passes the code's tests (not
below the minimum, no surrogate, not beyond U+10FFFF) exactly if the table has a row for
its first two bytes (`TwoAllowed`, `ThreeAllowed`, `FourAllowed`). The second is that
`decodeUtf8` therefore finds a character exactly where the table has one, and nothing
elsewhere (`DecodeIs`); the code points it passes on are those whose bytes are no control
and no non-character (`XmlBytes`). The third is the loop. The reference, `Pieces`, is a
recursion from the end of the text to its start; it is shown to exist and to satisfy its
equation (`FromExists`, `FromIs`). `TextInv` then says that what was written so far is
the first pieces of the text, in order, and that the pieces not yet written are those of
the text from `offset` on (`Kept`): an iteration moves one piece from the second part to the
first, and at the end the second part is empty.

### Options

`WritesAlone` is the inductive invariant: between detach and the write no other handle
can reach the storage, because a new sharer could only come from the handle itself. It
also says that no key occurs twice in a list of attributes, which makes the list a map
(`WithAttributeIsUpdate`). A write then changes one value (`WriteIsChange`), and every
other step none or one as a whole. `last` records the call of the last setter in
both modules, so that a setter without effect is not taken for a stutter.

### The registry

A suite has at most one owner, a handle or an operation in progress (`OneOwner`), and is
registered, once, if that owner is past `registerSuite` and not past `unregisterSuite`
(`Registered`). An object that is handed out has its name as long as anybody keeps it
(`Named`, `Operations`). A filter is a loop over the registered suites which has kept those
it wants of the first i: the definition `Selected` is that loop, a function of i, and
`SelectedElements` says what it keeps. The registered suites do not change while a filter
runs, since a writer waits for the shared lock. A thread that has compared a name and not
yet appended its suite is alone with the registry, so the name is still free (`Locked`);
every step that takes a lock keeps that (`LockTaken`, `LockKept`). Unregistering is the same loop, for all
suites but one.

### Definitions

`AllTests(d)` is what a definition is turned into; the first part proves that it reads the
cases of the definition one after the other, each once (`AllTestsRead`), and so that a
definition is sound exactly if its names, its fixture and all steps of the assembly are in
order (`SoundIsAddable`), and that the complete suite of the abstract specification is the
set of those tests (`CompleteIsAll`). `Inv` says that in the middle of an assembly the suite
has the first n of them (`AddedTests`), which can all be added to one suite, and that the
rest is `toAdd`; that a refusal has a reason which the abstract specification knows, too
(`Assembling`); that a registered suite is the complete one of its definition and is owned
once (`Registered`); that without an error every definition which took effect is registered
or dropped (`Accounted`). `RegisterSuite` and `Refuse` are then `Define`, moves and
destructors that end a suite are `Drop`, and all other steps are invisible.
`NothingLostSilently` follows since `result` is forgotten when something changes.
`RegistryFirst` is the argument for the registry's life: the initialization of a variable
calls `getInstance` on each of its paths, and the variable is constructed afterwards.

### The service locator

A thread between lock and unlock is among the holders of its mutex, which has several only
if they all read (`Locked`), and an `Impl` belongs to one locator (`OneOwner`). So what was
found is still there (`NeverDangles`), and the refinement maps the step that uses the entry
to the one in which the call takes effect.

### Induction

TLAPS cannot instantiate the library's induction theorems, whose parameter is an
operator. Induction is done by a least counterexample (`LeastElement`, from the
well-foundedness of the natural numbers): the set of the numbers for which the statement
fails has a least element, and that leads to a contradiction. A recursive function that a
definition chooses is shown to exist in the same way (`JoinsExist`, `SumsExist`,
`FromExists`).

### Only model-checked

- Termination (`Terminates`, `EveryCallReturns`): liveness under fairness is beyond the
  prover.
- `SameOrderRunsInNameOrder`, which is false.

`MovesTransferAll`, and `TypeOK` of the modules whose runs do not list it, are proved only;
they hold on the instances above, too.

## Not modelled

- Assertions: expressions without state; a failing one is a body that throws.
  `assertInRange` compares twice and so accepts a NaN in every range, which is listed among
  the hazards.
- `Concepts.hpp` and the choice of overloads: they happen at compile time.
- `addHandler` and moves of a `Runner` in one thread while another one is in its `run`: a
  data race that `Runner.hpp` leaves to the caller. `RunnerObjects` has one thread. A test
  body that calls `run()` waits for its own thread.
- A service whose destructor uses the locator it is removed from, and a filter that
  registers a suite: both wait for a lock of their own thread, and nobody does it. A
  locator that was moved from may not be called; the code does not check it, and the
  guard of `Call` excludes it.
- State that the callables of one parameterized test share between its cases.
- Definitions made by threads that `main` starts: they are the business of `Registry`,
  while `SuiteDefinition` has one thread.
- Allocation failure, and counters beyond 2^32 tests.
- `InternalRegistry::createFilter`, which makes a predicate or rejects an unknown type before
  any lock is taken; `BeginFilter` has the predicate.
- Messages, durations and layout of both reporters; `exceptionMessage`.

## Plan

Done, in this order: `TestResults`, `SuiteReport`, `SuiteRun` with its refinement and
proofs, `Runner` with its proofs, `JUnitReport`, `XmlText`, `OptionsStorage` with its
refinement and proofs, `Registry`, `ServiceLocator` and `SuiteDefinition` with their
refinements, `RunnerObjects`, `DefaultReports`; then the proofs of `ServiceLocator` and
`Registry`, the remaining ones of `SuiteRun` and `Runner`, those of `DefaultReports`, of
`SuiteDefinition`, of `RunnerObjects` and of `XmlText`. Every safety property of the runs is
a theorem now.

What could follow: the messages of both reporters, which are left out of their models, and
`SuiteOptions` as a module of its own once it differs from `TestOptions` in more than its
fields.
