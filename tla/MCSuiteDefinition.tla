-------------------------- MODULE MCSuiteDefinition --------------------------
(* SuiteDefinition for a catalog with every kind of flaw, and names that     *)
(* collide though they are written differently.                              *)
EXTENDS SuiteDefinition

PlainTest(name, attempts, value) ==
    [plain |-> TRUE, name |-> name, attempts |-> attempts,
     cases |-> <<[name |-> <<>>, value |-> value]>>]

TwoCases(name, first, second) ==
    [plain |-> FALSE, name |-> name, attempts |-> 1,
     cases |-> <<[name |-> first, value |-> 1], [name |-> second, value |-> 2]>>]

Tests == {PlainTest(<<"a", "/", "b">>, 1, 3), PlainTest(<<"c">>, 0, 3), PlainTest(<<>>, 1, 3),
          TwoCases(<<"a">>, <<"b">>, <<"c">>), TwoCases(<<"a">>, <<"b">>, <<>>),
          TwoCases(<<>>, <<"b">>, <<"c">>)}

MCCatalog ==
    [name : {<<"S">>}, fixture : {"none"}, tests : SeqOf(Tests, 2)]
    \cup [name : {<<"S">>, <<"T">>, <<>>},
          fixture : {"none", "constructs", "logic_error", "other_error"},
          tests : {<<>>, <<TwoCases(<<"a">>, <<"b">>, <<"c">>)>>}]
=============================================================================
