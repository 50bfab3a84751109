---------------------------- MODULE DefinedSuites ----------------------------
(***************************************************************************)
(* What Suite(...) promises (CHANGELOG.md, "Suite registration is atomic;  *)
(* invalid suites leave no partial registry state"): a definition takes    *)
(* effect at once. Either the complete suite is registered, or nothing is  *)
(* and one configuration error tells of it.                                *)
(*                                                                         *)
(* A name is a sequence of tokens, so that names can be joined.            *)
(***************************************************************************)
EXTENDS Integers, Sequences

CONSTANTS Variable,    \* variables initialized by a call of Suite
          Catalog      \* definitions that may be written, see Sound

VARIABLES
    defined,           \* variables whose definition took effect
    suites,            \* the suite each variable registered, or NoSuite
    refusals           \* configuration errors recorded

vars == <<defined, suites, refusals>>

NoSuite == [name |-> <<>>, tests |-> {}]

-----------------------------------------------------------------------------
(* A definition d is written as a name, a fixture and tests; a test has a  *)
(* name, a number of attempts and cases. A plain test has one case without *)
(* a name.                                                                 *)

Case(d, p) == d.tests[p[1]].cases[p[2]]

Positions(d) ==
    UNION {{<<i, j>> : j \in DOMAIN d.tests[i].cases} : i \in DOMAIN d.tests}

NameAt(d, p) ==
    LET test == d.tests[p[1]]
    IN  IF test.plain THEN test.name ELSE test.name \o <<"/">> \o Case(d, p).name

(* Every case is a test of its own, with its own values. *)
Complete(d) ==
    [name |-> d.name,
     tests |-> {[name |-> NameAt(d, p), value |-> Case(d, p).value] : p \in Positions(d)}]

Sound(d) ==
    /\ d.name # <<>>
    /\ d.fixture \in {"none", "constructs"}
    /\ \A i \in DOMAIN d.tests : d.tests[i].attempts > 0
    /\ \A p \in Positions(d) :
          IF d.tests[p[1]].plain THEN NameAt(d, p) # <<>> ELSE Case(d, p).name # <<>>
    /\ \A p, q \in Positions(d) : NameAt(d, p) = NameAt(d, q) => p = q

-----------------------------------------------------------------------------

Init ==
    /\ defined = {}
    /\ suites = [v \in Variable |-> NoSuite]
    /\ refusals = 0

Free(name) == \A v \in Variable : suites[v].name # name

Define(v, d) ==
    /\ v \notin defined
    /\ defined' = defined \cup {v}
    /\ \/ /\ Sound(d) /\ Free(d.name)
          /\ suites' = [suites EXCEPT ![v] = Complete(d)]
          /\ UNCHANGED refusals
       \/ /\ ~(Sound(d) /\ Free(d.name))
          /\ refusals' = refusals + 1
          /\ UNCHANGED suites

(* The owner of a suite drops it. *)
Drop(v) ==
    /\ suites[v] # NoSuite
    /\ suites' = [suites EXCEPT ![v] = NoSuite]
    /\ UNCHANGED <<defined, refusals>>

Next == \E v \in Variable : Drop(v) \/ \E d \in Catalog : Define(v, d)

Spec == Init /\ [][Next]_vars
=============================================================================
