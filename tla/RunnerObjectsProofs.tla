------------------------ MODULE RunnerObjectsProofs ------------------------
(***************************************************************************)
(* Proofs about Runner objects, for any number of runners, handlers and    *)
(* callbacks: a handler belongs to one Runner, and a report is heard whole *)
(* by those its Runner had when it began, whichever of them throw, and     *)
(* the failures decide what run() returns.                                 *)
(*                                                                         *)
(* WholeReports speaks of the moments between two calls. Inv says who was  *)
(* called in the middle of one, why the chain has no handler twice, and    *)
(* what the chain knows of the failures before run() returns.              *)
(***************************************************************************)
EXTENDS RunnerObjects, TLAPS

(* The chain has the members of the report, each once. *)
ChainIsMembers ==
    IF running = "none" THEN next = 0
    ELSE IsInjective(chain) /\ ToSet(chain) = members /\ next <= Len(chain)

(* The call in progress has yet to reach h. *)
Waiting(h) == next > 0 /\ \E i \in next .. Len(chain) : chain[i] = h

HeardSoFar ==
    \A h \in Handler :
        heard[h] = IF h \notin members THEN 0
                   ELSE IF Waiting(h) THEN emitted - 1 ELSE emitted

(* Within the run the chain has an error exactly if a handler failed. It   *)
(* was in configure as long as that is the only call, and never later.     *)
Remembered ==
    running # "none" =>
        /\ exit = -1 /\ emitted > 0
        /\ errors <=> failures # {}
        /\ Configuring => "report" \notin failures
        /\ ~Configuring => "configure" \notin failures

Told == running = "none" => FailuresSurvive

Owners == TypeOK /\ MovesTransferAll

Inv == Owners /\ ChainIsMembers /\ HeardSoFar /\ Remembered /\ Told

-----------------------------------------------------------------------------

LEMMA ToSetType ==
  ASSUME NEW S, NEW q \in Seq(S)
  PROVE  /\ ToSet(q) \subseteq S
         /\ \A h : h \in ToSet(q) <=> \E i \in 1 .. Len(q) : q[i] = h
  BY DEF ToSet

LEMMA EmptyList == ToSet(<<>>) = {} /\ IsInjective(<<>>)
  BY DEF ToSet, IsInjective

(* Appending a handler that is not in the list.                            *)
LEMMA AppendOne ==
  ASSUME NEW S, NEW q \in Seq(S), NEW h \in S
  PROVE  /\ ToSet(Append(q, h)) = ToSet(q) \cup {h}
         /\ IsInjective(q) /\ h \notin ToSet(q) => IsInjective(Append(q, h))
<1>1. Append(q, h) \in Seq(S) /\ Len(q) \in Nat /\ Len(Append(q, h)) = Len(q) + 1
  OBVIOUS
<1>2. /\ \A i \in 1 .. Len(q) : Append(q, h)[i] = q[i]
      /\ Append(q, h)[Len(q) + 1] = h
  OBVIOUS
<1>3. ToSet(Append(q, h)) = ToSet(q) \cup {h}
  <2>1. \A g : g \in ToSet(Append(q, h)) <=> \E i \in 1 .. Len(q) + 1 : Append(q, h)[i] = g
    BY <1>1, ToSetType
  <2>2. \A g : (\E i \in 1 .. Len(q) + 1 : Append(q, h)[i] = g)
                 <=> g = h \/ \E i \in 1 .. Len(q) : q[i] = g
    BY <1>1, <1>2
  <2> QED
    BY <2>1, <2>2, ToSetType
<1>4. ASSUME IsInjective(q), h \notin ToSet(q) PROVE IsInjective(Append(q, h))
  <2>1. \A i \in 1 .. Len(q) : q[i] # h
    BY <1>4, ToSetType
  <2> QED
    BY <1>1, <1>2, <1>4, <2>1 DEF IsInjective
<1> QED
  BY <1>3, <1>4

-----------------------------------------------------------------------------
(* The owners of the handlers. *)

(* Steps that leave the lists and owners alone, and take no Impl away.     *)
LEMMA SameLists ==
  ASSUME Owners, UNCHANGED <<handlers, owner>>, TypeOK',
         \A q \in RunnerObject : impl'[q] = impl[q] \/ impl'[q] = "owned"
  PROVE  Owners'
<1>1. MovesTransferAll'
  BY DEF Owners, MovesTransferAll
<1> QED
  BY <1>1 DEF Owners

(* A Runner is destroyed with its handlers.                                *)
LEMMA DestroyOwns ==
  ASSUME Owners, NEW r \in RunnerObject, Destroy(r)
  PROVE  Owners'
<1>1. TypeOK'
  BY EmptyList DEF Owners, TypeOK, Destroy, Deleted, reportVars, failureVars
<1>2. /\ handlers'[r] = <<>>
      /\ \A q \in RunnerObject : q # r => handlers'[q] = handlers[q] /\ impl'[q] = impl[q]
      /\ \A h \in Handler : owner'[h] = IF owner[h] = r THEN "none" ELSE owner[h]
  BY DEF Owners, TypeOK, Destroy, Deleted
<1>3. MovesTransferAll'
  <2> SUFFICES ASSUME NEW q \in RunnerObject
               PROVE  /\ ToSet(handlers'[q]) = {h \in Handler : owner'[h] = q}
                      /\ IsInjective(handlers'[q])
                      /\ impl'[q] # "owned" => handlers'[q] = <<>>
    BY DEF MovesTransferAll
  <2>1. CASE q = r
    BY <1>2, <2>1, EmptyList, RunnerObjectAssumption
  <2>2. CASE q # r
    BY <1>2, <2>2, RunnerObjectAssumption DEF Owners, MovesTransferAll
  <2> QED
    BY <2>1, <2>2
<1> QED
  BY <1>1, <1>3 DEF Owners

(* An added handler is the last of its Runner.                             *)
LEMMA AddHandlerOwns ==
  ASSUME Owners, NEW r \in RunnerObject, NEW h \in Handler, AddHandler(r, h)
  PROVE  Owners'
<1>1. TypeOK'
  BY DEF Owners, TypeOK, AddHandler, reportVars, failureVars
<1>2. /\ handlers'[r] = Append(handlers[r], h) /\ impl'[r] = "owned"
      /\ handlers[r] \in Seq(Handler)
      /\ \A q \in RunnerObject : q # r => handlers'[q] = handlers[q] /\ impl'[q] = impl[q]
      /\ \A g \in Handler : owner'[g] = IF g = h THEN r ELSE owner[g]
      /\ owner[h] = "none"
  BY DEF Owners, TypeOK, AddHandler
<1>3. h \notin ToSet(handlers[r])
  BY <1>2, RunnerObjectAssumption DEF Owners, MovesTransferAll
<1>4. /\ ToSet(handlers'[r]) = ToSet(handlers[r]) \cup {h}
      /\ IsInjective(handlers'[r])
  BY <1>2, <1>3, AppendOne DEF Owners, MovesTransferAll
<1>5. MovesTransferAll'
  <2> SUFFICES ASSUME NEW q \in RunnerObject
               PROVE  /\ ToSet(handlers'[q]) = {g \in Handler : owner'[g] = q}
                      /\ IsInjective(handlers'[q])
                      /\ impl'[q] # "owned" => handlers'[q] = <<>>
    BY DEF MovesTransferAll
  <2>1. CASE q = r
    BY <1>2, <1>4, <2>1 DEF Owners, MovesTransferAll
  <2>2. CASE q # r
    BY <1>2, <2>2, RunnerObjectAssumption DEF Owners, MovesTransferAll
  <2> QED
    BY <2>1, <2>2
<1> QED
  BY <1>1, <1>5 DEF Owners

(* A move takes the whole list, and ends the one that was there.           *)
LEMMA MoveOwns ==
  ASSUME Owners, NEW r \in RunnerObject, NEW s \in RunnerObject, Move(r, s)
  PROVE  Owners'
<1>1. TypeOK'
  <2>1. impl' \in [RunnerObject -> {"absent", "null", "owned"}]
    BY DEF Owners, TypeOK, Move
  <2>2. handlers' \in [RunnerObject -> Seq(Handler)]
    <3>1. <<>> \in Seq(Handler) /\ handlers[s] \in Seq(Handler)
      BY DEF Owners, TypeOK
    <3> QED
      BY <3>1 DEF Owners, TypeOK, Move, HandlersAfterMove
  <2>3. owner' \in [Handler -> RunnerObject \cup {"none"}]
    BY DEF Owners, TypeOK, Move, Deleted
  <2> QED
    BY <2>1, <2>2, <2>3 DEF Owners, TypeOK, Move, reportVars, failureVars
<1>2. /\ r # s
      /\ handlers'[r] = handlers[s] /\ impl'[r] = impl[s]
      /\ handlers'[s] = <<>>
      /\ \A q \in RunnerObject :
            q \notin {r, s} => handlers'[q] = handlers[q] /\ impl'[q] = impl[q]
      /\ \A h \in Handler :
            owner'[h] = IF owner[h] = s THEN r ELSE IF owner[h] = r THEN "none" ELSE owner[h]
  BY DEF Owners, TypeOK, Move, HandlersAfterMove, Deleted
<1>3. MovesTransferAll'
  <2> SUFFICES ASSUME NEW q \in RunnerObject
               PROVE  /\ ToSet(handlers'[q]) = {h \in Handler : owner'[h] = q}
                      /\ IsInjective(handlers'[q])
                      /\ impl'[q] # "owned" => handlers'[q] = <<>>
    BY DEF MovesTransferAll
  <2>1. CASE q = r
    BY <1>2, <2>1, RunnerObjectAssumption DEF Owners, MovesTransferAll
  <2>2. CASE q = s
    BY <1>2, <2>2, EmptyList, RunnerObjectAssumption
  <2>3. CASE q \notin {r, s}
    BY <1>2, <2>3, RunnerObjectAssumption DEF Owners, MovesTransferAll
  <2> QED
    BY <2>1, <2>2, <2>3
<1> QED
  BY <1>1, <1>3 DEF Owners

-----------------------------------------------------------------------------
(* The report in progress. *)

(* Steps that leave the report alone.                                      *)
LEMMA SameReport ==
  ASSUME ChainIsMembers, HeardSoFar, Remembered, Told, UNCHANGED reportVars
  PROVE  ChainIsMembers' /\ HeardSoFar' /\ Remembered' /\ Told'
<1>1. /\ running' = running /\ chain' = chain /\ next' = next
      /\ emitted' = emitted /\ heard' = heard /\ members' = members
      /\ errors' = errors /\ failures' = failures /\ exit' = exit
  BY DEF reportVars, failureVars
<1> QED
  BY <1>1 DEF ChainIsMembers, HeardSoFar, Waiting, Remembered, Told, FailuresSurvive,
              Configuring

(* A run that is rejected for its arguments is heard by nobody.            *)
LEMMA RejectedSilently ==
  ASSUME TypeOK, ChainIsMembers, NEW r \in RunnerObject, NEW argc, NEW argv,
         RejectArguments(r, argc, argv)
  PROVE  TypeOK' /\ ChainIsMembers' /\ HeardSoFar' /\ Remembered' /\ Told'
<1>1. /\ running = "none" /\ exit' = 2 /\ emitted' = 0 /\ heard' = [h \in Handler |-> 0]
      /\ members' = {} /\ failures' = {}
      /\ UNCHANGED <<running, chain, next, errors, impl, handlers, owner>>
  BY DEF RejectArguments, objectVars
<1>2. TypeOK'
  BY <1>1 DEF TypeOK
<1>3. ChainIsMembers' /\ HeardSoFar'
  BY <1>1 DEF ChainIsMembers, HeardSoFar
<1>4. Remembered' /\ Told'
  BY <1>1 DEF Remembered, Told, FailuresSurvive
<1> QED
  BY <1>2, <1>3, <1>4

(* A run begins with a copy of the list, and its configure has reached no  *)
(* member.                                                                 *)
LEMMA RunBegins ==
  ASSUME Owners, NEW r \in RunnerObject, NEW argc, NEW argv, Run(r, argc, argv)
  PROVE  Owners' /\ ChainIsMembers' /\ HeardSoFar' /\ Remembered' /\ Told'
<1> DEFINE list == handlers[r]
<1>1. /\ running' = r /\ chain' = list /\ next' = (IF list = <<>> THEN 0 ELSE 1)
      /\ emitted' = 1 /\ heard' = [h \in Handler |-> 0]
      /\ errors' = FALSE /\ failures' = {} /\ exit' = -1
      /\ members' = {h \in Handler : owner[h] = r}
      /\ impl' = [impl EXCEPT ![r] = "owned"] /\ UNCHANGED <<handlers, owner>>
  BY DEF Run, First
<1>2. list \in Seq(Handler) /\ Len(list) \in Nat /\ (list = <<>> <=> Len(list) = 0)
  BY DEF Owners, TypeOK
<1>3. TypeOK'
  BY <1>1, <1>2 DEF Owners, TypeOK
<1>4. \A q \in RunnerObject : impl'[q] = impl[q] \/ impl'[q] = "owned"
  BY <1>1 DEF Owners, TypeOK
<1>5. Owners'
  BY <1>1, <1>3, <1>4, SameLists
<1>6. ToSet(list) = members' /\ IsInjective(list)
  BY <1>1 DEF Owners, MovesTransferAll
<1>7. ChainIsMembers'
  BY <1>1, <1>2, <1>6, RunnerObjectAssumption DEF ChainIsMembers
<1>8. \A h : h \in members' <=> \E i \in 1 .. Len(list) : list[i] = h
  BY <1>2, <1>6, ToSetType
<1>9. \A h : h \in members' => Waiting(h)'
  <2> HIDE DEF list
  <2> QED
    BY <1>1, <1>2, <1>8 DEF Waiting
<1>10. HeardSoFar'
  BY <1>1, <1>9 DEF HeardSoFar
<1>11. Remembered' /\ Told'
  BY <1>1, RunnerObjectAssumption DEF Remembered, Told, Configuring
<1> QED
  BY <1>5, <1>7, <1>10, <1>11

(* A call that begins has reached no member.                               *)
LEMMA DispatchBegins ==
  ASSUME TypeOK, ChainIsMembers, HeardSoFar, Remembered, Dispatch
  PROVE  TypeOK' /\ ChainIsMembers' /\ HeardSoFar' /\ Remembered' /\ Told'
<1>1. /\ running # "none" /\ next = 0 /\ emitted' = emitted + 1
      /\ next' = IF chain = <<>> THEN 0 ELSE 1
      /\ Configuring => ~errors
      /\ UNCHANGED <<running, chain, heard, members, impl, handlers, owner,
                     errors, failures, exit>>
  BY DEF Dispatch, Dispatched, First, objectVars, failureVars
<1>2. chain \in Seq(Handler) /\ Len(chain) \in Nat /\ emitted \in Nat
  BY DEF TypeOK
<1>3. TypeOK'
  BY <1>1 DEF TypeOK
<1>4. chain = <<>> <=> Len(chain) = 0
  BY <1>2
<1>5. ChainIsMembers'
  BY <1>1, <1>2, <1>4 DEF ChainIsMembers
<1>6. \A h : h \in members <=> \E i \in 1 .. Len(chain) : chain[i] = h
  BY <1>1, <1>2, ToSetType DEF ChainIsMembers
<1>7. \A h \in Handler : heard[h] = IF h \in members THEN emitted ELSE 0
  BY <1>1 DEF HeardSoFar, Waiting
<1>8. \A h \in Handler : h \in members => Waiting(h)'
  BY <1>1, <1>2, <1>4, <1>6 DEF Waiting
<1>9. HeardSoFar'
  BY <1>1, <1>2, <1>7, <1>8 DEF HeardSoFar
<1>10. Remembered' /\ Told'
  BY <1>1, <1>2 DEF Remembered, Told, Configuring
<1> QED
  BY <1>3, <1>5, <1>9, <1>10

(* One member is called, and whether it fails or not the next one will be; *)
(* all of them were when the call is over.                                 *)
LEMMA HearReachesOne ==
  ASSUME TypeOK, ChainIsMembers, HeardSoFar, Remembered, NEW fails \in BOOLEAN, Hear(fails)
  PROVE  TypeOK' /\ ChainIsMembers' /\ HeardSoFar' /\ Remembered' /\ Told'
<1>1. /\ running # "none" /\ next \in Nat /\ next > 0
      /\ UNCHANGED <<running, chain, emitted, members, impl, handlers, owner, exit>>
  BY DEF Hear, Dispatched, objectVars, ChainIsMembers, TypeOK
<1>2. /\ IsInjective(chain) /\ ToSet(chain) = members /\ next <= Len(chain)
      /\ chain \in Seq(Handler) /\ Len(chain) \in Nat /\ next \in 1 .. Len(chain)
  BY <1>1 DEF ChainIsMembers, TypeOK
<1>3. /\ heard' = [heard EXCEPT ![chain[next]] = @ + 1]
      /\ next' = IF next < Len(chain) THEN next + 1 ELSE 0
  BY <1>2 DEF Hear, NextHandler, Dispatched
<1>4. chain[next] \in Handler /\ chain[next] \in members
  BY <1>2, ToSetType
<1>5. /\ errors' = (errors \/ fails)
      /\ failures' = failures \cup IF fails THEN {IF Configuring THEN "configure" ELSE "report"}
                                            ELSE {}
  BY DEF Hear, Recorded
<1>6. TypeOK'
  <2>1. errors' \in BOOLEAN /\ failures' \subseteq {"configure", "report"}
    BY <1>5 DEF TypeOK
  <2> QED
    BY <1>1, <1>2, <1>3, <1>4, <2>1 DEF TypeOK
<1>7. ChainIsMembers'
  BY <1>1, <1>2, <1>3 DEF ChainIsMembers
<1>8. Waiting(chain[next])
  BY <1>1, <1>2 DEF Waiting
<1>9. ASSUME NEW h \in Handler
      PROVE  Waiting(h)' <=> Waiting(h) /\ h # chain[next]
  <2>1. Waiting(h)' <=> \E i \in next + 1 .. Len(chain) : chain[i] = h
    BY <1>1, <1>2, <1>3 DEF Waiting
  <2>2. Waiting(h) <=> \E i \in next .. Len(chain) : chain[i] = h
    BY <1>1 DEF Waiting
  <2>3. \A i \in next + 1 .. Len(chain) : chain[i] # chain[next]
    BY <1>2 DEF IsInjective
  <2>4. \A i \in next .. Len(chain) : i = next \/ i \in next + 1 .. Len(chain)
    BY <1>2
  <2>5. \A i \in next + 1 .. Len(chain) : i \in next .. Len(chain)
    BY <1>2
  <2> QED
    BY <2>1, <2>2, <2>3, <2>4, <2>5
<1>10. HeardSoFar'
  <2> SUFFICES ASSUME NEW h \in Handler
               PROVE  heard'[h] = IF h \notin members' THEN 0
                                  ELSE IF Waiting(h)' THEN emitted' - 1 ELSE emitted'
    BY DEF HeardSoFar
  <2>1. /\ heard[h] = IF h \notin members THEN 0
                      ELSE IF Waiting(h) THEN emitted - 1 ELSE emitted
        /\ emitted \in Nat /\ heard \in [Handler -> Nat]
    BY DEF HeardSoFar, TypeOK
  <2>2. heard'[h] = IF h = chain[next] THEN heard[h] + 1 ELSE heard[h]
    BY <1>3, <1>4, <2>1
  <2> QED
    BY <1>1, <1>4, <1>8, <1>9, <2>1, <2>2
<1>11. Remembered' /\ Told'
  BY <1>1, <1>5 DEF Remembered, Told, Configuring
<1> QED
  BY <1>6, <1>7, <1>10, <1>11

(* When run() returns the chain is gone, and what was heard stays.         *)
LEMMA ReturnKeepsHeard ==
  ASSUME TypeOK, HeardSoFar, Remembered, Reject \/ \E passed \in BOOLEAN : Finish(passed)
  PROVE  TypeOK' /\ ChainIsMembers' /\ HeardSoFar' /\ Remembered' /\ Told'
<1>1. /\ running # "none" /\ next = 0 /\ running' = "none" /\ chain' = <<>>
      /\ UNCHANGED <<next, emitted, heard, members, errors, failures, impl, handlers, owner>>
  BY DEF Reject, Finish, Return, objectVars
<1>2. \/ exit' = 2 /\ Configuring
      \/ /\ exit' \in {0, 1} /\ (errors => exit' = 1)
         /\ emitted = LastCall
  BY DEF Reject, Finish, Return
<1>3. <<>> \in Seq(Handler)
  OBVIOUS
<1>4. TypeOK'
  BY <1>1, <1>2, <1>3 DEF TypeOK
<1>5. ChainIsMembers'
  BY <1>1 DEF ChainIsMembers
<1>6. HeardSoFar'
  BY <1>1 DEF HeardSoFar, Waiting
<1>7. emitted = LastCall => ~Configuring
  BY MaxCallbacksAssumption DEF LastCall, Configuring
<1>8. FailuresSurvive'
  BY <1>1, <1>2, <1>7 DEF Remembered, Configuring, FailuresSurvive
<1> QED
  BY <1>1, <1>4, <1>5, <1>6, <1>8 DEF Remembered, Told

-----------------------------------------------------------------------------

LEMMA InitInv == Init => Inv
<1> SUFFICES ASSUME Init PROVE Inv
  OBVIOUS
<1>1. <<>> \in Seq(Handler)
  OBVIOUS
<1>2. TypeOK
  BY <1>1 DEF Init, TypeOK
<1>3. MovesTransferAll
  BY EmptyList, RunnerObjectAssumption DEF Init, MovesTransferAll
<1>4. ChainIsMembers /\ HeardSoFar /\ Remembered /\ Told
  BY DEF Init, ChainIsMembers, HeardSoFar, Remembered, Told, FailuresSurvive
<1> QED
  BY <1>2, <1>3, <1>4 DEF Inv, Owners

LEMMA NextInv == Inv /\ [Next]_vars => Inv'
<1> SUFFICES ASSUME Inv, [Next]_vars PROVE Inv'
  OBVIOUS
<1>0. Owners /\ TypeOK /\ ChainIsMembers /\ HeardSoFar /\ Remembered /\ Told
  BY DEF Inv, Owners
<1>1. ASSUME NEW r \in RunnerObject, Construct(r) PROVE Inv'
  <2>1. TypeOK' /\ UNCHANGED <<handlers, owner>> /\ UNCHANGED reportVars
    BY <1>0, <1>1 DEF Construct, TypeOK, reportVars, failureVars
  <2>2. \A q \in RunnerObject : impl'[q] = impl[q] \/ impl'[q] = "owned"
    BY <1>0, <1>1 DEF Construct, TypeOK
  <2> QED
    BY <1>0, <2>1, <2>2, SameLists, SameReport DEF Inv
<1>2. ASSUME NEW r \in RunnerObject, Destroy(r) PROVE Inv'
  BY <1>0, <1>2, DestroyOwns, SameReport DEF Inv, Destroy
<1>3. ASSUME NEW r \in RunnerObject, NEW h \in Handler, AddHandler(r, h) PROVE Inv'
  BY <1>0, <1>3, AddHandlerOwns, SameReport DEF Inv, AddHandler
<1>4. ASSUME NEW r \in RunnerObject, NEW s \in RunnerObject, Move(r, s) PROVE Inv'
  BY <1>0, <1>4, MoveOwns, SameReport DEF Inv, Move
<1>5. ASSUME NEW r \in RunnerObject, NEW argc, NEW argv, RejectArguments(r, argc, argv)
      PROVE  Inv'
  <2>1. UNCHANGED <<handlers, owner>> /\ impl' = impl
    BY <1>5 DEF RejectArguments, objectVars
  <2>2. TypeOK' /\ ChainIsMembers' /\ HeardSoFar' /\ Remembered' /\ Told'
    BY <1>0, <1>5, RejectedSilently
  <2> QED
    BY <1>0, <2>1, <2>2, SameLists DEF Inv
<1>6. ASSUME NEW r \in RunnerObject, NEW argc, NEW argv, Run(r, argc, argv) PROVE Inv'
  BY <1>0, <1>6, RunBegins DEF Inv
<1>7. ASSUME \/ Dispatch \/ Reject
             \/ \E fails \in BOOLEAN : Hear(fails)
             \/ \E passed \in BOOLEAN : Finish(passed)
      PROVE  Inv'
  <2>1. UNCHANGED <<handlers, owner>> /\ impl' = impl
    BY <1>7 DEF Dispatch, Hear, Reject, Finish, Return, objectVars
  <2>2. TypeOK' /\ ChainIsMembers' /\ HeardSoFar' /\ Remembered' /\ Told'
    BY <1>0, <1>7, DispatchBegins, HearReachesOne, ReturnKeepsHeard
  <2> QED
    BY <1>0, <2>1, <2>2, SameLists DEF Inv
<1>8. CASE UNCHANGED vars
  <2>1. UNCHANGED <<handlers, owner>> /\ impl' = impl /\ UNCHANGED reportVars
    BY <1>8 DEF vars, objectVars
  <2>2. TypeOK'
    BY <1>0, <2>1 DEF TypeOK, reportVars, failureVars
  <2> QED
    BY <1>0, <2>1, <2>2, SameLists, SameReport DEF Inv
<1> QED
  BY <1>1, <1>2, <1>3, <1>4, <1>5, <1>6, <1>7, <1>8 DEF Next

LEMMA InvHolds == Spec => []Inv
  BY InitInv, NextInv, PTL DEF Spec

(* Every variable of the objects and of the report stays in its range.     *)
THEOREM TypeCorrect == Spec => []TypeOK
<1>1. Inv => TypeOK
  BY DEF Inv, Owners
<1> QED
  BY <1>1, InvHolds, PTL

(* However Runners are moved, filled and destroyed, also by the callbacks  *)
(* of a report, a handler is once in the list of its one owner and in no   *)
(* other, and a Runner without an Impl has none (Runner.cpp, addHandler    *)
(* and the moves).                                                         *)
THEOREM MovesTransfer == Spec => []MovesTransferAll
<1>1. Inv => MovesTransferAll
  BY DEF Inv, Owners
<1> QED
  BY <1>1, InvHolds, PTL

(* Between two calls the handlers that the Runner had when the report      *)
(* began have heard all of it, each call once, and no other handler        *)
(* anything: run() dispatches to the chain it copied (Runner.cpp), and the *)
(* chain goes on after a handler that throws (TestEventHandlerChain.hpp).  *)
THEOREM ReportsHeardWhole == Spec => []WholeReports
<1>1. Inv => WholeReports
  BY DEF Inv, HeardSoFar, Waiting, WholeReports
<1> QED
  BY <1>1, InvHolds, PTL

(* run() returns a failure of any handler, for any number of handlers and  *)
(* of calls that succeed after it.                                         *)
THEOREM FailuresReturned == Spec => []FailuresSurvive
<1>1. Inv => FailuresSurvive
  BY DEF Inv, Remembered, Told, FailuresSurvive
<1> QED
  BY <1>1, InvHolds, PTL
=============================================================================
