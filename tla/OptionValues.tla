---------------------------- MODULE OptionValues ----------------------------
(***************************************************************************)
(* What TestOptions and SuiteOptions promise: an options object is a value *)
(* of its own. A copy has the value of its source at that moment, a setter *)
(* changes one object only, and a source that was moved from keeps its     *)
(* value.                                                                  *)
(***************************************************************************)
EXTENDS Sequences

CONSTANTS Handle,      \* the options objects of a program, over all threads
          Order, Tag, Key, Text, Attempts   \* arguments of the setters

VARIABLES live,        \* the objects between constructor and destructor
          value,       \* the value of each; the default for one that is not live
          last         \* the last call of a setter, so that none can go unnoticed

valueVars == <<live, value, last>>

(* An optional is a sequence of at most one element; attributes map keys   *)
(* to texts.                                                               *)
NoAttributes == [k \in {} |-> k]
Default == [order |-> <<>>, tags |-> <<>>, attributes |-> NoAttributes,
            disabled |-> FALSE, maxAttempts |-> 1]

-----------------------------------------------------------------------------

Init == live = {} /\ value = [h \in Handle |-> Default] /\ last = <<>>

Construct(h) ==
    /\ h \in Handle \ live
    /\ live' = live \cup {h}
    /\ UNCHANGED <<value, last>>

(* Construction and assignment, copying and moving alike. *)
Copy(h, g) ==
    /\ g \in live
    /\ live' = live \cup {h}
    /\ value' = [value EXCEPT ![h] = value[g]]
    /\ UNCHANGED last

Destroy(h) ==
    /\ h \in live
    /\ live' = live \ {h}
    /\ value' = [value EXCEPT ![h] = Default]
    /\ UNCHANGED last

Change(h, new, call) ==
    /\ h \in live
    /\ value' = [value EXCEPT ![h] = new]
    /\ last' = <<h, call>>
    /\ UNCHANGED live

SetOrder(h, n) == Change(h, [value[h] EXCEPT !.order = <<n>>], <<"order", n>>)
AddTag(h, t) == Change(h, [value[h] EXCEPT !.tags = Append(@, t)], <<"tag", t>>)
SetAttribute(h, k, v) ==
    LET old == value[h].attributes
    IN  Change(h, [value[h] EXCEPT !.attributes =
                      [x \in DOMAIN old \cup {k} |-> IF x = k THEN v ELSE old[x]]],
               <<"attribute", k, v>>)
SetDisabled(h, b) == Change(h, [value[h] EXCEPT !.disabled = b], <<"disabled", b>>)
SetMaxAttempts(h, n) ==
    Change(h, [value[h] EXCEPT !.maxAttempts = n], <<"maxAttempts", n>>)

Next ==
    \E h \in Handle :
        \/ Construct(h) \/ Destroy(h)
        \/ \E g \in Handle : Copy(h, g)
        \/ \E n \in Order : SetOrder(h, n)
        \/ \E t \in Tag : AddTag(h, t)
        \/ \E k \in Key, v \in Text : SetAttribute(h, k, v)
        \/ \E b \in BOOLEAN : SetDisabled(h, b)
        \/ \E n \in Attempts : SetMaxAttempts(h, n)

Spec == Init /\ [][Next]_valueVars
=============================================================================
