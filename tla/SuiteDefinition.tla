-------------------------- MODULE SuiteDefinition --------------------------
(***************************************************************************)
(* The life of a test program. Before main, namespace-scope variables are  *)
(* initialized by Suite(...), in some order: its definitions are turned    *)
(* into tests, the suite is assembled test by test and registered, or      *)
(* something on the way throws a logic_error, which becomes an error of    *)
(* the configuration. In main, suites are moved between variables and run  *)
(* is called. After main, variables are destroyed in the reverse order of  *)
(* their construction; so is the registry, a static variable of            *)
(* getInstance.                                                            *)
(***************************************************************************)
EXTENDS Integers, Sequences, SequencesExt

CONSTANTS Variable,    \* variables initialized by a call of Suite
          Holder,      \* other variables, into which a suite may be moved
          Catalog      \* definitions, as in DefinedSuites

ASSUME VariableAssumption ==
    /\ Variable \cap Holder = {}
    /\ {"registry", "none"} \cap (Variable \cup Holder) = {}

(* Tests are written one after the other, and Cases takes a first case; a  *)
(* plain test is the case of itself.                                       *)
IsSequence(s) == s \in Seq(ToSet(s))

ASSUME CatalogAssumption ==
    \A d \in Catalog :
        /\ d # <<>> /\ IsSequence(d.tests)
        /\ d.fixture \in {"none", "constructs", "logic_error", "other_error"}
        /\ \A i \in DOMAIN d.tests :
              /\ d.tests[i].plain \in BOOLEAN /\ d.tests[i].attempts \in Nat
              /\ IsSequence(d.tests[i].cases) /\ d.tests[i].cases # <<>>
              /\ d.tests[i].plain => Len(d.tests[i].cases) = 1

VARIABLES
    phase,             \* of the program
    alive,             \* static objects, in the order of their construction
    written,           \* the definition each variable was initialized with
    current,           \* the variable being initialized
    step,              \* what its initialization does next
    toAdd,             \* the tests it has not added yet
    suite,             \* the InternalSuite made for each variable
    handle,            \* whose suite each variable and holder owns
    registeredSuites,  \* those in the registry
    errors,            \* how many errors the configuration has
    result,            \* what run() returned, -1 if something changed since
    executed,          \* the tests it ran, with the name of their suite
    dropped            \* suites whose owner was destroyed or got another one

vars == <<phase, alive, written, current, step, toAdd, suite, handle,
          registeredSuites, errors, result, executed, dropped>>

Defined == INSTANCE DefinedSuites WITH
    defined <- {v \in Variable : written[v] # <<>> /\ (v = current => step = "complete")},
    suites <- [v \in Variable |->
                 IF v \notin registeredSuites THEN [name |-> <<>>, tests |-> {}]
                 ELSE [name |-> suite[v].name, tests |-> ToSet(suite[v].tests)]],
    refusals <- errors

definitionVars == <<written, current, step, toAdd, suite>>
runVars == <<result, executed>>

-----------------------------------------------------------------------------

Init ==
    /\ phase = "start" /\ alive = <<>>
    /\ written = [v \in Variable |-> <<>>]
    /\ current = "none" /\ step = "none" /\ toAdd = <<>>
    /\ suite = [v \in Variable |-> [name |-> <<>>, tests |-> <<>>]]
    /\ handle = [v \in Variable \cup Holder |-> "none"]
    /\ registeredSuites = {} /\ errors = 0
    /\ result = -1 /\ executed = {} /\ dropped = {}

(* Fault: diagnostics are kept elsewhere, and a refused definition does    *)
(* not touch the registry.                                                 *)
WithRegistry_Registering ==
    IF step # "register" \/ Contains(alive, "registry") THEN alive
    ELSE Append(alive, "registry")

(* getInstance constructs the registry when it is called first. *)
WithRegistry == IF Contains(alive, "registry") THEN alive ELSE Append(alive, "registry")

(* A holder is constructed, empty. *)
ConstructHolder(h) ==
    /\ phase \in {"start", "main"} /\ step = "none" /\ ~Contains(alive, h)
    /\ alive' = Append(alive, h)
    /\ UNCHANGED <<phase, definitionVars, handle, registeredSuites, errors, runVars, dropped>>

-----------------------------------------------------------------------------
(* The initialization of one variable. *)

(* Suite(...) is called. *)
Begin(v, d) ==
    /\ phase = "start" /\ step = "none" /\ written[v] = <<>>
    /\ written' = [written EXCEPT ![v] = d]
    /\ current' = v /\ step' = "materialize"
    /\ UNCHANGED <<phase, alive, toAdd, suite, handle, registeredSuites, errors,
                   runVars, dropped>>

MaterializeTest(test) ==
    <<[name |-> test.name, attempts |-> test.attempts, value |-> test.cases[1].value]>>

MaterializeCases(test) ==
    [i \in DOMAIN test.cases |->
        [name |-> test.name \o <<"/">> \o test.cases[i].name,
         attempts |-> test.attempts, value |-> test.cases[i].value]]

Materialized(test) == IF test.plain THEN MaterializeTest(test) ELSE MaterializeCases(test)

(* An empty name throws, that of a test or that of a case; a parameterized *)
(* test itself may go without one.                                         *)
Unnamed(test) ==
    IF test.plain THEN test.name = <<>>
    ELSE \E i \in DOMAIN test.cases : test.cases[i].name = <<>>

Definition == written[current]

(* Every argument is materialized, in an order the language leaves open;   *)
(* the tests are appended in the order they were written.                  *)
Materialize ==
    /\ step = "materialize"
    /\ IF \E i \in DOMAIN Definition.tests : Unnamed(Definition.tests[i])
       THEN step' = "refuse" /\ UNCHANGED toAdd
       ELSE /\ step' = "fixture"
            /\ toAdd' = FlattenSeq([i \in DOMAIN Definition.tests |->
                                       Materialized(Definition.tests[i])])
    /\ UNCHANGED <<phase, alive, written, current, suite, handle, registeredSuites,
                   errors, runVars, dropped>>

(* The constructor of the fixture may throw a logic_error; of any other    *)
(* exception the program dies.                                             *)
ConstructFixture ==
    /\ step = "fixture"
    /\ \/ Definition.fixture \in {"none", "constructs"} /\ step' = "assemble" /\ UNCHANGED phase
       \/ Definition.fixture = "logic_error" /\ step' = "refuse" /\ UNCHANGED phase
       \/ Definition.fixture = "other_error" /\ step' = "none" /\ phase' = "terminated"
    /\ UNCHANGED <<alive, written, current, toAdd, suite, handle, registeredSuites,
                   errors, runVars, dropped>>

ConstructSuite ==
    /\ step = "assemble"
    /\ suite' = [suite EXCEPT ![current].name = Definition.name]
    /\ step' = IF Definition.name = <<>> THEN "refuse" ELSE "add"
    /\ UNCHANGED <<phase, alive, written, current, toAdd, handle, registeredSuites,
                   errors, runVars, dropped>>

(* Fault: a second test of a name is left out, and that is all. *)
AfterDuplicate_Ignored == "add"

AfterDuplicate == "refuse"

AddTest ==
    /\ step = "add" /\ toAdd # <<>>
    /\ LET test == Head(toAdd)
           tests == suite[current].tests
           taken == \E i \in DOMAIN tests : tests[i].name = test.name
       IN  /\ step' = IF test.attempts = 0 THEN "refuse"
                      ELSE IF taken THEN AfterDuplicate ELSE "add"
           /\ suite' = IF test.attempts = 0 \/ taken THEN suite
                       ELSE [suite EXCEPT ![current].tests =
                                Append(@, [name |-> test.name, value |-> test.value])]
    /\ toAdd' = Tail(toAdd)
    /\ UNCHANGED <<phase, alive, written, current, handle, registeredSuites, errors,
                   runVars, dropped>>

Assembled ==
    /\ step = "add" /\ toAdd = <<>>
    /\ step' = "register"
    /\ UNCHANGED <<phase, alive, written, current, toAdd, suite, handle,
                   registeredSuites, errors, runVars, dropped>>

RegisterSuite ==
    /\ step = "register"
    /\ alive' = WithRegistry
    /\ IF \E s \in registeredSuites : suite[s].name = suite[current].name
       THEN step' = "refuse" /\ UNCHANGED <<registeredSuites, handle>>
       ELSE /\ registeredSuites' = registeredSuites \cup {current}
            /\ handle' = [handle EXCEPT ![current] = current]
            /\ step' = "complete"
    /\ UNCHANGED <<phase, written, current, toAdd, suite, errors, runVars, dropped>>

(* Fault: the error is caught where the suite is registered, thrown again  *)
(* and caught once more by Suite.                                          *)
ErrorsOfRefusal_Rethrown == IF suite[current].name = <<>> THEN 1 ELSE 2

ErrorsOfRefusal == 1

(* A logic_error is caught once, recorded, and the handle stays empty. *)
Refuse ==
    /\ step = "refuse"
    /\ alive' = WithRegistry
    /\ errors' = errors + ErrorsOfRefusal
    /\ suite' = [suite EXCEPT ![current] = [name |-> <<>>, tests |-> <<>>]]
    /\ toAdd' = <<>> /\ step' = "complete"
    /\ UNCHANGED <<phase, written, current, handle, registeredSuites, runVars, dropped>>

(* The variable is constructed. *)
Complete ==
    /\ step = "complete"
    /\ alive' = Append(alive, current)
    /\ current' = "none" /\ step' = "none"
    /\ UNCHANGED <<phase, written, toAdd, suite, handle, registeredSuites, errors,
                   runVars, dropped>>

-----------------------------------------------------------------------------
(* main, and what comes after it. *)

(* All variables that are initialized before main have been. *)
EnterMain ==
    /\ phase = "start" /\ step = "none"
    /\ phase' = "main"
    /\ UNCHANGED <<alive, definitionVars, handle, registeredSuites, errors, runVars, dropped>>

(* What becomes of a suite whose Impl is destroyed. *)
Released(s) == {s} \ {"none"}

(* A suite is moved; the one it replaces is unregistered. *)
Move(a, b) ==
    /\ phase = "main" /\ a # b /\ handle[b] # "none" /\ Contains(alive, a) /\ Contains(alive, b)
    /\ handle' = [handle EXCEPT ![a] = handle[b], ![b] = "none"]
    /\ registeredSuites' = registeredSuites \ Released(handle[a])
    /\ dropped' = dropped \cup Released(handle[a])
    /\ result' = -1 /\ executed' = {}
    /\ UNCHANGED <<phase, alive, definitionVars, errors>>

TestsOf(s) == {[suite |-> suite[s].name, test |-> suite[s].tests[i]] : i \in DOMAIN suite[s].tests}

(* run() is called; nothing a test does matters here. *)
Run ==
    /\ phase = "main" /\ result = -1
    /\ result' = IF errors > 0 THEN 2 ELSE 0
    /\ executed' = IF errors > 0 THEN {} ELSE UNION {TestsOf(s) : s \in registeredSuites}
    /\ UNCHANGED <<phase, alive, definitionVars, handle, registeredSuites, errors, dropped>>

Exit ==
    /\ phase = "main"
    /\ phase' = "exit"
    /\ UNCHANGED <<alive, definitionVars, handle, registeredSuites, errors, runVars, dropped>>

(* The static object that was constructed last is destroyed; a suite it    *)
(* owns is unregistered. To do so after the registry was destroyed is      *)
(* undefined, and here the end.                                            *)
DestroyStatic ==
    /\ phase = "exit" /\ alive # <<>>
    /\ LET last == Last(alive)
           s == IF last = "registry" THEN "none" ELSE handle[last]
       IN  IF s # "none" /\ ~Contains(alive, "registry")
           THEN phase' = "undefined" /\ UNCHANGED <<alive, handle, registeredSuites, dropped>>
           ELSE /\ alive' = Front(alive)
                /\ handle' = IF s = "none" THEN handle ELSE [handle EXCEPT ![last] = "none"]
                /\ registeredSuites' = registeredSuites \ Released(s)
                /\ dropped' = dropped \cup Released(s)
                /\ UNCHANGED phase
    /\ result' = -1 /\ executed' = {}
    /\ UNCHANGED <<definitionVars, errors>>

Next ==
    \/ \E v \in Variable, d \in Catalog : Begin(v, d)
    \/ Materialize \/ ConstructFixture \/ ConstructSuite \/ AddTest \/ Assembled
    \/ RegisterSuite \/ Refuse \/ Complete
    \/ \E h \in Holder : ConstructHolder(h)
    \/ \E a, b \in Variable \cup Holder : Move(a, b)
    \/ EnterMain \/ Run \/ Exit \/ DestroyStatic

Spec == Init /\ [][Next]_vars

-----------------------------------------------------------------------------
(* Properties. *)

(* Every variable stays in its range. *)
TypeOK ==
    /\ phase \in {"start", "main", "exit", "terminated", "undefined"}
    /\ alive \in Seq(Variable \cup Holder \cup {"registry"})
    /\ written \in [Variable -> Catalog \cup {<<>>}]
    /\ current \in Variable \cup {"none"}
    /\ step \in {"none", "materialize", "fixture", "assemble", "add", "register",
                 "refuse", "complete"}
    /\ handle \in [Variable \cup Holder -> Variable \cup {"none"}]
    /\ registeredSuites \subseteq Variable /\ dropped \subseteq Variable
    /\ errors \in Nat /\ result \in {-1, 0, 2}

(* However a definition fails, and at whichever of its steps, it acts as   *)
(* if it took effect at once: the suite with all its tests, one for each   *)
(* case, or one error and nothing (CHANGELOG.md, guide.md "registers it    *)
(* atomically").                                                           *)
DefinedAtOnce == Defined!Spec

(* A run that is not rejected executes every test that was written, case   *)
(* by case and with the values of that case, of every suite that was not   *)
(* dropped; nothing is lost by a name that collides or a suite that moves. *)
NothingLostSilently ==
    result = 0 =>
        LET kept == {v \in Variable : written[v] # <<>>} \ dropped
        IN  executed = UNION {{[suite |-> written[v].name, test |-> test] :
                                  test \in Defined!Complete(written[v]).tests} : v \in kept}

(* No variable that Suite(...) initialized is destroyed after the          *)
(* registry, though its definition may have failed and its suite come from *)
(* another variable. Only a holder that is older than the registry is.     *)
RegistryOutlivesHandles ==
    /\ \A i \in DOMAIN alive : alive[i] \in Variable =>
          \E j \in 1..(i - 1) : alive[j] = "registry"
    /\ phase = "undefined" => Last(alive) \in Holder
=============================================================================
