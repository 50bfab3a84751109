------------------------ MODULE ServiceLocatorProofs ------------------------
(* Proofs about ServiceLocator: what a thread found is there when it uses    *)
(* it, and calls of any number of threads implement an atomic map.           *)
EXTENDS ServiceLocator, TLAPS

(* A thread in a call has a locator that owns an Impl, and no result before *)
(* it returns; a null service does not get as far as the mutex.             *)
CallsInProgress ==
    \A t \in Thread :
        /\ pc[t] = "idle" <=> call[t] = Map!NoCall
        /\ pc[t] # "idle" => /\ call[t].on \in Locator /\ pImpl[call[t].on] \in Impl
                             /\ call[t].kind # "none" /\ call[t].type \in Type
        /\ call[t].result # "none" <=> pc[t] = "return"
        /\ pc[t] \in {"lock", "find", "use"} => call[t].service # "null"
        /\ pc[t] # "idle" /\ call[t].kind = "register" => call[t].service # "none"
        /\ call[t].service = "null" => call[t].kind = "register"

(* No Impl belongs to two locators. *)
OneOwner ==
    \A l, k \in Locator : pImpl[l] \in Impl /\ pImpl[l] = pImpl[k] => l = k

(* The threads between lock and unlock are the holders of their mutex, and *)
(* share it only if they all read.                                         *)
Locked ==
    /\ \A t \in Thread : pc[t] \in {"find", "use"} => t \in holders[Mine(t)]
    /\ \A i \in Impl : \A t \in holders[i] :
          /\ pc[t] \in {"find", "use", "return"} /\ Mine(t) = i
          /\ \A u \in holders[i] : u = t \/ (call[t].kind = "get" /\ call[u].kind = "get")

Inv == TypeOK /\ CallsInProgress /\ OneOwner /\ Locked /\ NeverDangles

(* A result keeps a call well-formed. *)
LEMMA AnswerType ==
    ASSUME NEW c \in CallRecord,
           NEW r \in Service \cup {"none", "done", "invalid_argument", "runtime_error"}
    PROVE  [c EXCEPT !.result = r] \in CallRecord
BY DEF CallRecord

LEMMA InvInit == Init => Inv
BY LocatorAssumption, ImplAssumption, ServiceAssumption, MaxCallsAssumption
   DEF Init, Inv, TypeOK, CallRecord, CallsInProgress, OneOwner, Locked, NeverDangles,
       Map!NoCall, Empty

-----------------------------------------------------------------------------
(* The owner of a locator. *)

(* A locator that is not in use is not the one of any call. *)
LEMMA NotInUse ==
    ASSUME Inv, NEW l \in Locator, ~Map!InUse(l), NEW t \in Thread, pc[t] # "idle"
    PROVE  call[t].on # l /\ call[t].on \in Locator /\ Mine(t) \in Impl
BY DEF Inv, CallsInProgress, Map!InUse, Mine

LEMMA CreateInv ==
    ASSUME Inv, NEW l \in Locator, Create(l)
    PROVE  Inv'
<1>1. PICK i \in Impl \ {pImpl[k] : k \in Locator} :
          /\ pImpl' = [pImpl EXCEPT ![l] = i]
          /\ services' = [services EXCEPT ![i] = Empty]
          /\ holders' = [holders EXCEPT ![i] = {}]
  BY DEF Create
<1>2. UNCHANGED <<call, pc, found, callsLeft>> /\ pImpl[l] = "absent"
  BY DEF Create
<1>3. ASSUME NEW t \in Thread, pc[t] # "idle"
      PROVE  /\ call[t].on \in Locator /\ call[t].on # l /\ Mine(t)' = Mine(t)
             /\ Mine(t) \in Impl /\ Mine(t) # i /\ call[t].type \in Type
  BY <1>1, <1>2, <1>3, ImplAssumption DEF Inv, CallsInProgress, Mine, TypeOK
<1>4. TypeOK'
  BY <1>1, <1>2 DEF Inv, TypeOK, Empty
<1>5. CallsInProgress'
  BY <1>1, <1>2, <1>3 DEF Inv, CallsInProgress, Mine
<1>6. OneOwner'
  BY <1>1 DEF Inv, OneOwner, TypeOK
<1>7. Locked'
  <2>1. ASSUME NEW t \in Thread, pc[t] \in {"find", "use"} PROVE t \in holders'[Mine(t)']
    BY <1>1, <1>2, <1>3, <2>1 DEF Inv, Locked, TypeOK
  <2>2. ASSUME NEW j \in Impl, NEW t \in holders'[j] PROVE j # i /\ t \in holders[j]
    BY <1>1, <2>2 DEF Inv, TypeOK
  <2>3. ASSUME NEW j \in Impl, NEW t \in holders'[j] PROVE Mine(t)' = j
    BY <1>3, <2>2 DEF Inv, Locked, TypeOK
  <2> QED
    BY <1>1, <1>2, <2>1, <2>2, <2>3 DEF Inv, Locked, TypeOK
<1>8. NeverDangles'
  BY <1>1, <1>2, <1>3 DEF Inv, NeverDangles, Entry, TypeOK
<1> QED
  BY <1>4, <1>5, <1>6, <1>7, <1>8 DEF Inv

(* Moving and destroying a locator that is not in use keeps the Impl of    *)
(* every call.                                                             *)
LEMMA MoveInv ==
    ASSUME Inv, NEW l \in Locator, NEW k \in Locator, Move(l, k)
    PROVE  Inv'
<1>1. pImpl' = [pImpl EXCEPT ![l] = pImpl[k], ![k] = "null"] /\ l # k
  BY DEF Move, AfterMove
<1>2. UNCHANGED <<services, holders, call, pc, found, callsLeft>>
  BY DEF Move
<1>3. ASSUME NEW t \in Thread, pc[t] # "idle"
      PROVE  Mine(t)' = Mine(t) /\ pImpl'[call[t].on] \in Impl
  BY <1>1, <1>2, <1>3, NotInUse DEF Move, Mine, Inv, TypeOK
<1>4. TypeOK'
  BY <1>1, <1>2 DEF Inv, TypeOK
<1>5. CallsInProgress'
  BY <1>2, <1>3 DEF Inv, CallsInProgress
<1>6. OneOwner'
  BY <1>1, ImplAssumption DEF Inv, OneOwner, TypeOK
<1>7. Locked'
  BY <1>2, <1>3 DEF Inv, Locked, TypeOK
<1>8. NeverDangles'
  BY <1>2, <1>3 DEF Inv, NeverDangles, Entry, TypeOK
<1> QED
  BY <1>4, <1>5, <1>6, <1>7, <1>8 DEF Inv

LEMMA DestroyInv ==
    ASSUME Inv, NEW l \in Locator, Destroy(l)
    PROVE  Inv'
<1>1. pImpl' = [pImpl EXCEPT ![l] = "absent"]
  BY DEF Destroy
<1>2. UNCHANGED <<services, holders, call, pc, found, callsLeft>>
  BY DEF Destroy
<1>3. ASSUME NEW t \in Thread, pc[t] # "idle"
      PROVE  Mine(t)' = Mine(t) /\ pImpl'[call[t].on] \in Impl
  BY <1>1, <1>2, <1>3, NotInUse DEF Destroy, Mine, Inv, TypeOK
<1>4. TypeOK'
  BY <1>1, <1>2 DEF Inv, TypeOK
<1>5. CallsInProgress'
  BY <1>2, <1>3 DEF Inv, CallsInProgress
<1>6. OneOwner'
  BY <1>1, ImplAssumption DEF Inv, OneOwner, TypeOK
<1>7. Locked'
  BY <1>2, <1>3 DEF Inv, Locked, TypeOK
<1>8. NeverDangles'
  BY <1>2, <1>3 DEF Inv, NeverDangles, Entry, TypeOK
<1> QED
  BY <1>4, <1>5, <1>6, <1>7, <1>8 DEF Inv

-----------------------------------------------------------------------------
(* One call. *)

LEMMA CallInv ==
    ASSUME Inv, NEW t \in Thread, NEW c \in Map!Calls, Call(t, c)
    PROVE  Inv'
<1>1. /\ pc[t] = "idle" /\ pImpl[c.on] \in Impl
      /\ call' = [call EXCEPT ![t] = c] /\ pc' = [pc EXCEPT ![t] = "enter"]
      /\ callsLeft' = [callsLeft EXCEPT ![t] = @ - 1] /\ callsLeft[t] > 0
      /\ UNCHANGED <<pImpl, services, holders, found>>
  BY DEF Call, Goto
<1>2. /\ c \in [kind : {"register", "unregister", "get"}, on : Locator, type : Type,
                service : Service \cup {"null", "none"}, result : {"none"}]
      /\ c.kind = "register" => c.service # "none"
      /\ c.service = "null" => c.kind = "register"
  BY ServiceAssumption DEF Map!Calls
<1>3. c # Map!NoCall
  BY <1>2 DEF Map!NoCall
<1>4. TypeOK'
  BY <1>1, <1>2, MaxCallsAssumption DEF Inv, TypeOK, CallRecord
<1>5. CallsInProgress'
  BY <1>1, <1>2, <1>3 DEF Inv, TypeOK, CallsInProgress
<1>6. OneOwner'
  BY <1>1 DEF Inv, OneOwner
<1>7. Locked'
  <2>1. \A i \in Impl : t \notin holders[i]
    BY <1>1 DEF Inv, Locked
  <2>2. \A u \in Thread : u # t => Mine(u)' = Mine(u) /\ pc'[u] = pc[u] /\ call'[u] = call[u]
    BY <1>1 DEF Mine, Inv, TypeOK
  <2> QED
    BY <1>1, <2>1, <2>2 DEF Inv, Locked, TypeOK
<1>8. NeverDangles'
  BY <1>1 DEF Inv, NeverDangles, Entry, Mine, TypeOK
<1> QED
  BY <1>4, <1>5, <1>6, <1>7, <1>8 DEF Inv

LEMMA EnterInv ==
    ASSUME Inv, NEW t \in Thread, Enter(t)
    PROVE  Inv'
<1>1. pc[t] = "enter" /\ UNCHANGED <<pImpl, services, holders, found, callsLeft>>
  BY DEF Enter
<1>2. CASE /\ call[t].service = "null"
           /\ call' = [call EXCEPT ![t].result = "invalid_argument"]
           /\ pc' = [pc EXCEPT ![t] = "return"]
  <2>1. TypeOK'
    <3>1. call[t] \in CallRecord
      BY DEF Inv, TypeOK
    <3>2. [call[t] EXCEPT !.result = "invalid_argument"] \in CallRecord
      BY <3>1, AnswerType
    <3> QED
      BY <1>1, <1>2, <3>2 DEF Inv, TypeOK
  <2>2. CallsInProgress'
    BY <1>1, <1>2 DEF Inv, TypeOK, CallsInProgress, Map!NoCall
  <2>3. Locked' /\ OneOwner' /\ NeverDangles'
    BY <1>1, <1>2 DEF Inv, TypeOK, OneOwner, Locked, NeverDangles, Mine, Entry
  <2> QED
    BY <2>1, <2>2, <2>3 DEF Inv
<1>3. CASE /\ call[t].service # "null" /\ UNCHANGED call
           /\ pc' = [pc EXCEPT ![t] = "lock"]
  BY <1>1, <1>3
     DEF Inv, TypeOK, CallsInProgress, OneOwner, Locked, NeverDangles, Mine, Entry
<1> QED
  BY <1>2, <1>3 DEF Enter, Answer, Goto

LEMMA LockInv ==
    ASSUME Inv, NEW t \in Thread, Lock(t)
    PROVE  Inv'
<1>1. /\ pc[t] = "lock" /\ UNCHANGED <<pImpl, services, call, found, callsLeft>>
      /\ holders' = [holders EXCEPT ![Mine(t)] = @ \cup {t}]
      /\ pc' = [pc EXCEPT ![t] = "find"]
      /\ \A u \in holders[Mine(t)] : call[t].kind = "get" /\ call[u].kind = "get"
  BY DEF Lock, Goto, MayLock
<1>2. Mine(t) \in Impl /\ Mine(t)' = Mine(t)
  BY <1>1 DEF Inv, CallsInProgress, Mine
<1>3. TypeOK'
  BY <1>1, <1>2 DEF Inv, TypeOK
<1>4. CallsInProgress' /\ OneOwner' /\ NeverDangles'
  BY <1>1 DEF Inv, TypeOK, CallsInProgress, OneOwner, NeverDangles, Mine, Entry
<1>5. Locked'
  BY <1>1, <1>2 DEF Inv, TypeOK, Locked, Mine
<1> QED
  BY <1>3, <1>4, <1>5 DEF Inv

LEMMA FindInv ==
    ASSUME Inv, NEW t \in Thread, Find(t)
    PROVE  Inv'
<1>1. /\ pc[t] = "find" /\ UNCHANGED <<pImpl, services, holders, call, callsLeft>>
      /\ found' = [found EXCEPT ![t] = Entry(t) # "none"]
      /\ pc' = [pc EXCEPT ![t] = "use"]
  BY DEF Find, Goto
<1>2. TypeOK'
  BY <1>1 DEF Inv, TypeOK
<1>3. CallsInProgress' /\ OneOwner' /\ Locked'
  BY <1>1 DEF Inv, TypeOK, CallsInProgress, OneOwner, Locked, Mine
<1>4. NeverDangles'
  BY <1>1 DEF Inv, TypeOK, NeverDangles, Mine, Entry
<1> QED
  BY <1>2, <1>3, <1>4 DEF Inv

(* Only readers hold a mutex together, so that a thread that changes an    *)
(* entry is alone with it.                                                 *)
LEMMA WriterAlone ==
    ASSUME Inv, NEW t \in Thread, pc[t] = "use", call[t].kind # "get",
           NEW u \in Thread, pc[u] = "use", u # t
    PROVE  Mine(u) # Mine(t)
BY DEF Inv, Locked, CallsInProgress, Mine

(* Register, Unregister and Get. *)
LEMMA UseInv ==
    ASSUME Inv, NEW t \in Thread, Register(t) \/ Unregister(t) \/ Get(t)
    PROVE  Inv'
<1>0. pc[t] = "use" /\ UNCHANGED <<pImpl, holders, found, callsLeft>>
  BY DEF Register, Unregister, Get
<1>1. Mine(t) \in Impl /\ call[t].type \in Type /\ call[t].service # "null"
      /\ (call[t].kind = "register" => call[t].service \in Service)
  BY <1>0, ServiceAssumption DEF Inv, CallsInProgress, Mine, TypeOK, CallRecord
<1>2. PICK result \in Service \cup {"done", "runtime_error"} :
          call' = [call EXCEPT ![t].result = result] /\ pc' = [pc EXCEPT ![t] = "return"]
  <2>1. found[t] => Entry(t) \in Service
    BY <1>0, <1>1 DEF Inv, TypeOK, NeverDangles, Entry
  <2>2. CASE Register(t)
    BY <2>2 DEF Register, Answer, Goto
  <2>3. CASE Unregister(t)
    BY <2>3 DEF Unregister, Answer, Goto
  <2>4. CASE Get(t)
    BY <2>1, <2>4 DEF Get, Answer, Goto
  <2> QED
    BY <2>2, <2>3, <2>4
<1>3. result # "none"
  BY ServiceAssumption
<1>4. \/ services' = services
      \/ /\ call[t].kind # "get"
         /\ \E s \in Service \cup {"none"} :
               services' = [services EXCEPT ![Mine(t)][call[t].type] = s]
  BY <1>1 DEF Register, Unregister, Get
<1>5. TypeOK'
  <2>1. [call[t] EXCEPT !.result = result] \in CallRecord
    BY AnswerType DEF Inv, TypeOK
  <2>2. call' \in [Thread -> CallRecord]
    BY <1>2, <2>1 DEF Inv, TypeOK
  <2>3. services' \in [Impl -> [Type -> Service \cup {"none"}]]
    BY <1>1, <1>4 DEF Inv, TypeOK
  <2> QED
    BY <1>0, <1>2, <2>2, <2>3 DEF Inv, TypeOK
<1>6. CallsInProgress'
  BY <1>0, <1>2, <1>3 DEF Inv, TypeOK, CallsInProgress, Map!NoCall
<1>7. OneOwner' /\ Locked'
  BY <1>0, <1>2 DEF Inv, TypeOK, OneOwner, Locked, Mine
<1>8. ASSUME NEW u \in Thread, pc'[u] = "use" PROVE found'[u] <=> Entry(u)' # "none"
  <2>1. u # t /\ pc[u] = "use" /\ Mine(u)' = Mine(u) /\ call'[u] = call[u]
    BY <1>0, <1>2, <1>8 DEF Inv, TypeOK, Mine
  <2>2. services'[Mine(u)] = services[Mine(u)]
    <3>1. call[t].kind # "get" => Mine(u) # Mine(t)
      BY <1>0, <2>1, WriterAlone
    <3>2. Mine(u) \in Impl
      BY <2>1 DEF Inv, CallsInProgress, Mine
    <3> QED
      BY <1>1, <1>4, <3>1, <3>2 DEF Inv, TypeOK
  <2> QED
    BY <1>0, <2>1, <2>2 DEF Inv, NeverDangles, Entry
<1>9. NeverDangles'
  BY <1>8 DEF NeverDangles
<1> QED
  BY <1>5, <1>6, <1>7, <1>9 DEF Inv

LEMMA ReturnInv ==
    ASSUME Inv, NEW t \in Thread, Return(t)
    PROVE  Inv'
<1>1. /\ pc[t] = "return" /\ UNCHANGED <<pImpl, services, callsLeft>>
      /\ holders' = [holders EXCEPT ![Mine(t)] = holders[Mine(t)] \ {t}]
      /\ call' = [call EXCEPT ![t] = Map!NoCall]
      /\ found' = [found EXCEPT ![t] = FALSE]
      /\ pc' = [pc EXCEPT ![t] = "idle"]
  BY DEF Return, Unlocked, Goto
<1>2. Mine(t) \in Impl
  BY <1>1 DEF Inv, CallsInProgress, Mine
<1>3. TypeOK'
  BY <1>1, <1>2 DEF Inv, TypeOK, CallRecord, Map!NoCall
<1>4. CallsInProgress'
  BY <1>1 DEF Inv, TypeOK, CallsInProgress, Map!NoCall
<1>5. OneOwner' /\ NeverDangles'
  BY <1>1 DEF Inv, TypeOK, OneOwner, NeverDangles, Mine, Entry
<1>6. Locked'
  BY <1>1, <1>2 DEF Inv, TypeOK, Locked, Mine
<1> QED
  BY <1>3, <1>4, <1>5, <1>6 DEF Inv

LEMMA InvStep == Inv /\ [Next]_vars => Inv'
<1> SUFFICES ASSUME Inv, [Next]_vars PROVE Inv'
  OBVIOUS
<1>1. CASE UNCHANGED vars
  BY <1>1 DEF vars, Inv, TypeOK, CallsInProgress, OneOwner, Locked, NeverDangles, Mine, Entry
<1>2. CASE Next
  BY <1>2, CreateInv, MoveInv, DestroyInv, CallInv, EnterInv, LockInv, FindInv, UseInv,
     ReturnInv DEF Next, Step
<1> QED
  BY <1>1, <1>2

LEMMA Invariant == Spec => []Inv
BY InvInit, InvStep, PTL DEF Spec

(* The variables stay in their ranges. *)
THEOREM TypeCorrect == Spec => []TypeOK
<1>1. Inv => TypeOK
  BY DEF Inv
<1> QED
  BY <1>1, Invariant, PTL

(* For any number of threads, locators and types: what a thread found is   *)
(* still so when it uses it (ServiceLocator.cpp).                          *)
THEOREM FoundIsThere == Spec => []NeverDangles
<1>1. Inv => NeverDangles
  BY DEF Inv
<1> QED
  BY <1>1, Invariant, PTL

-----------------------------------------------------------------------------
(* The refinement: a call takes effect in its action Register, Unregister  *)
(* or Get, or in Enter if it passes a null service.                        *)

(* A locator as the refinement sees it. *)
StateOf(l) == CASE pImpl[l] = "absent" -> "absent"
                [] pImpl[l] = "null" -> "moved"
                [] OTHER -> "live"
RegisteredOf(l) == IF pImpl[l] \in Impl THEN services[pImpl[l]]
                   ELSE [type \in Type |-> "none"]

LEMMA InitRefined == Init => Map!Init
BY ImplAssumption DEF Init, Map!Init, Map!Empty

LEMMA CreateRefined ==
    ASSUME Inv, NEW l \in Locator, Create(l)
    PROVE  Map!Create(l)
<1>1. PICK i \in Impl \ {pImpl[k] : k \in Locator} :
          /\ pImpl' = [pImpl EXCEPT ![l] = i]
          /\ services' = [services EXCEPT ![i] = Empty]
  BY DEF Create
<1>2. pImpl[l] = "absent" /\ UNCHANGED call
  BY DEF Create
<1>3. StateOf(l)' = "live" /\ StateOf(l) = "absent"
  BY <1>1, <1>2, ImplAssumption DEF StateOf, Inv, TypeOK
<1>4. ASSUME NEW k \in Locator, k # l PROVE StateOf(k)' = StateOf(k)
  BY <1>1, <1>4 DEF StateOf, Inv, TypeOK
<1>5. ASSUME NEW k \in Locator PROVE RegisteredOf(k)' = RegisteredOf(k)
  BY <1>1, <1>2, ImplAssumption DEF RegisteredOf, Inv, TypeOK, Empty
<1> QED
  BY <1>2, <1>3, <1>4, <1>5 DEF Map!Create, StateOf, RegisteredOf

LEMMA MoveRefined ==
    ASSUME Inv, NEW l \in Locator, NEW k \in Locator, Move(l, k)
    PROVE  Map!Move(l, k)
<1>1. /\ l # k /\ pImpl[k] # "absent" /\ ~Map!InUse(l) /\ ~Map!InUse(k)
      /\ pImpl' = [pImpl EXCEPT ![l] = pImpl[k], ![k] = "null"]
      /\ UNCHANGED <<services, call>>
  BY DEF Move, AfterMove
<1>2. StateOf(l)' = StateOf(k) /\ StateOf(k)' = "moved" /\ StateOf(k) # "absent"
  BY <1>1 DEF StateOf, Inv, TypeOK
<1>3. RegisteredOf(l)' = RegisteredOf(k) /\ RegisteredOf(k)' = Map!Empty
  BY <1>1, ImplAssumption DEF RegisteredOf, Map!Empty, Inv, TypeOK
<1>4. ASSUME NEW m \in Locator, m # l, m # k
      PROVE  StateOf(m)' = StateOf(m) /\ RegisteredOf(m)' = RegisteredOf(m)
  BY <1>1, <1>4 DEF StateOf, RegisteredOf, Inv, TypeOK
<1>5. [m \in Locator |-> StateOf(m)]' =
         [[m \in Locator |-> StateOf(m)] EXCEPT ![l] = StateOf(k), ![k] = "moved"]
  BY <1>1, <1>2, <1>4
<1>6. [m \in Locator |-> RegisteredOf(m)]' =
         [[m \in Locator |-> RegisteredOf(m)] EXCEPT ![l] = RegisteredOf(k), ![k] = Map!Empty]
  BY <1>1, <1>3, <1>4
<1> QED
  BY <1>1, <1>2, <1>5, <1>6 DEF Map!Move, StateOf, RegisteredOf

LEMMA DestroyRefined ==
    ASSUME Inv, NEW l \in Locator, Destroy(l)
    PROVE  Map!Destroy(l)
<1>1. /\ pImpl[l] # "absent" /\ ~Map!InUse(l)
      /\ pImpl' = [pImpl EXCEPT ![l] = "absent"]
      /\ UNCHANGED <<services, call>>
  BY DEF Destroy
<1>2. StateOf(l) # "absent" /\ StateOf(l)' = "absent" /\ RegisteredOf(l)' = Map!Empty
  BY <1>1, ImplAssumption DEF StateOf, RegisteredOf, Map!Empty, Inv, TypeOK
<1>3. ASSUME NEW m \in Locator, m # l
      PROVE  StateOf(m)' = StateOf(m) /\ RegisteredOf(m)' = RegisteredOf(m)
  BY <1>1, <1>3 DEF StateOf, RegisteredOf, Inv, TypeOK
<1>4. [m \in Locator |-> StateOf(m)]' =
         [[m \in Locator |-> StateOf(m)] EXCEPT ![l] = "absent"]
  BY <1>2, <1>3
<1>5. [m \in Locator |-> RegisteredOf(m)]' =
         [[m \in Locator |-> RegisteredOf(m)] EXCEPT ![l] = Map!Empty]
  BY <1>2, <1>3
<1> QED
  BY <1>1, <1>2, <1>4, <1>5 DEF Map!Destroy, StateOf, RegisteredOf

LEMMA CallRefined ==
    ASSUME Inv, NEW t \in Thread, NEW c \in Map!Calls, Call(t, c)
    PROVE  Map!Call(t, c)
<1>1. /\ call[t] = Map!NoCall /\ pImpl[c.on] \in Impl /\ call' = [call EXCEPT ![t] = c]
      /\ UNCHANGED <<pImpl, services>>
  BY DEF Call, Inv, CallsInProgress
<1>2. c.on \in Locator
  BY DEF Map!Calls
<1>3. StateOf(c.on) = "live"
  BY <1>1, <1>2, ImplAssumption DEF StateOf
<1> QED
  BY <1>1, <1>2, <1>3 DEF Map!Call, StateOf

LEMMA EnterRefined ==
    ASSUME Inv, NEW t \in Thread, Enter(t)
    PROVE  Map!Register(t) \/ UNCHANGED Map!vars
<1>1. pc[t] = "enter" /\ UNCHANGED <<pImpl, services>>
  BY DEF Enter
<1>2. CASE call[t].service = "null" /\ call' = [call EXCEPT ![t].result = "invalid_argument"]
  <2>1. call[t].kind = "register" /\ call[t].result = "none"
    BY <1>1, <1>2 DEF Inv, CallsInProgress
  <2> QED
    BY <1>1, <1>2, <2>1 DEF Map!Register, Map!Pending, Map!Answer
<1>3. CASE UNCHANGED call
  BY <1>1, <1>3 DEF Map!vars
<1> QED
  BY <1>2, <1>3 DEF Enter, Answer

(* What the entry of a call is for the map. *)
LEMMA UsesEntry ==
    ASSUME Inv, NEW t \in Thread, pc[t] = "use"
    PROVE  /\ call[t].on \in Locator /\ call[t].type \in Type /\ Mine(t) \in Impl
           /\ Map!Entry(t) = Entry(t) /\ (found[t] <=> Entry(t) # "none")
           /\ Map!Pending(t, call[t].kind) /\ call[t].service # "null"
BY DEF Inv, CallsInProgress, NeverDangles, Map!Entry, Map!Pending, Entry, Mine

(* A change of a locator's Impl is seen in that locator only. *)
LEMMA WriteRefined ==
    ASSUME Inv, NEW t \in Thread, pc[t] = "use", UNCHANGED pImpl, NEW s,
           services' = [services EXCEPT ![Mine(t)][call[t].type] = s]
    PROVE  [l \in Locator |-> RegisteredOf(l)]' =
              [[l \in Locator |-> RegisteredOf(l)] EXCEPT ![call[t].on][call[t].type] = s]
<1>1. PICK m \in Locator : m = call[t].on
  BY UsesEntry
<1>2. pImpl[m] = Mine(t) /\ Mine(t) \in Impl
  BY <1>1, UsesEntry DEF Mine
<1>3. ASSUME NEW l \in Locator, l # m PROVE RegisteredOf(l)' = RegisteredOf(l)
  <2>1. pImpl[l] \in Impl => pImpl[l] # Mine(t)
    BY <1>2, <1>3 DEF Inv, OneOwner
  <2> QED
    BY <2>1 DEF RegisteredOf, Inv, TypeOK
<1>4. RegisteredOf(m)' = [RegisteredOf(m) EXCEPT ![call[t].type] = s]
  <2>1. RegisteredOf(m) = services[Mine(t)]
    BY <1>2 DEF RegisteredOf
  <2>2. services'[Mine(t)] = [services[Mine(t)] EXCEPT ![call[t].type] = s]
    BY <1>2 DEF Inv, TypeOK
  <2> QED
    BY <1>2, <2>1, <2>2 DEF RegisteredOf
<1> QED
  BY <1>1, <1>3, <1>4

LEMMA RegisterRefined ==
    ASSUME Inv, NEW t \in Thread, Register(t)
    PROVE  Map!Register(t)
<1>1. /\ pc[t] = "use" /\ call[t].kind = "register" /\ UNCHANGED pImpl
      /\ \/ /\ ~found[t] /\ call' = [call EXCEPT ![t].result = "done"]
            /\ services' = [services EXCEPT ![Mine(t)][call[t].type] = call[t].service]
         \/ /\ found[t] /\ call' = [call EXCEPT ![t].result = "runtime_error"]
            /\ UNCHANGED services
  BY DEF Register, Emplaces, Answer
<1>2. /\ Map!Pending(t, "register") /\ call[t].service # "null"
      /\ (found[t] <=> Map!Entry(t) # "none")
  BY <1>1, UsesEntry
<1>3. CASE found[t]
  BY <1>1, <1>2, <1>3 DEF Map!Register, Map!Answer
<1>4. CASE ~found[t]
  <2>1. [l \in Locator |-> RegisteredOf(l)]' =
           [[l \in Locator |-> RegisteredOf(l)] EXCEPT ![call[t].on][call[t].type] =
               call[t].service]
    BY <1>1, <1>4, WriteRefined
  <2> QED
    BY <1>1, <1>2, <1>4, <2>1 DEF Map!Register, Map!Answer, RegisteredOf
<1> QED
  BY <1>3, <1>4

LEMMA UnregisterRefined ==
    ASSUME Inv, NEW t \in Thread, Unregister(t)
    PROVE  Map!Unregister(t)
<1>1. /\ pc[t] = "use" /\ call[t].kind = "unregister" /\ UNCHANGED pImpl
      /\ services' = [services EXCEPT ![Mine(t)][call[t].type] = "none"]
      /\ call' = [call EXCEPT ![t].result = IF found[t] THEN "done" ELSE "runtime_error"]
  BY DEF Unregister, Answer
<1>2. Map!Pending(t, "unregister") /\ (found[t] <=> Map!Entry(t) # "none")
  BY <1>1, UsesEntry
<1>3. [l \in Locator |-> RegisteredOf(l)]' =
         [[l \in Locator |-> RegisteredOf(l)] EXCEPT ![call[t].on][call[t].type] = "none"]
  BY <1>1, WriteRefined
<1> QED
  BY <1>1, <1>2, <1>3 DEF Map!Unregister, Map!Answer, RegisteredOf

LEMMA GetRefined ==
    ASSUME Inv, NEW t \in Thread, Get(t)
    PROVE  Map!Get(t)
<1>1. /\ pc[t] = "use" /\ call[t].kind = "get" /\ UNCHANGED <<pImpl, services>>
      /\ call' = [call EXCEPT ![t].result = IF found[t] THEN Entry(t) ELSE "runtime_error"]
  BY DEF Get, Answer
<1>2. /\ Map!Pending(t, "get") /\ (found[t] <=> Map!Entry(t) # "none")
      /\ Map!Entry(t) = Entry(t)
  BY <1>1, UsesEntry
<1> QED
  BY <1>1, <1>2 DEF Map!Get, Map!Answer

LEMMA StepRefined == Inv /\ [Next]_vars => [Map!Next]_(Map!vars)
<1> SUFFICES ASSUME Inv, [Next]_vars PROVE Map!Next \/ UNCHANGED Map!vars
  OBVIOUS
<1>1. CASE UNCHANGED vars
  BY <1>1 DEF vars, Map!vars
<1>2. ASSUME NEW t \in Thread, Lock(t) \/ Find(t) PROVE UNCHANGED Map!vars
  BY <1>2 DEF Lock, Find, Map!vars
<1>3. ASSUME NEW t \in Thread, Return(t) PROVE Map!Return(t)
  BY <1>3 DEF Return, Map!Return, Inv, CallsInProgress
<1>4. CASE Next
  BY <1>2, <1>3, <1>4, CreateRefined, MoveRefined, DestroyRefined, CallRefined, EnterRefined,
     RegisterRefined, UnregisterRefined, GetRefined DEF Next, Step, Map!Next
<1> QED
  BY <1>1, <1>4

(* For any number of threads, locators, types and services, the lookup and *)
(* the use under the mutex act as one step: ServiceLocator implements      *)
(* ServiceMap.                                                             *)
THEOREM LocatorIsAMap == Spec => AsAMap
BY Invariant, InitRefined, StepRefined, PTL DEF Spec, AsAMap, Map!Spec
=============================================================================
