-------------------------- MODULE Registration_proof --------------------------
(* Proofs about the registration script, for any locations and servers.     *)
EXTENDS Registration, TLAPS

RegisterSteps == {"clsid", "server", "threading", "namespace", "registered"}
RemoveSteps   == {"removeNamespace", "removeClsid", "unregistered"}

(* What each step may count on: that the run was admitted, and what the     *)
(* steps before it wrote or removed.                                        *)
StepInv ==
    /\ pc \in RegisterSteps => args.server # NoServer /\ result = "none"
    /\ pc = "clsid" => server \in {NoServer, args.server} \/ args.force
    /\ pc = "server" => clsidKey /\ server = NoServer
    /\ pc \in {"threading", "namespace", "registered"} => clsidKey /\ server = args.server
    /\ pc \in {"namespace", "registered"} => threading
    /\ pc = "registered" => args.location \in namespace
    /\ pc \in RemoveSteps => MayUnregister(args) /\ result = "none"
    /\ pc \in {"removeClsid", "unregistered"} => args.location \notin namespace
    /\ pc = "unregistered" => ~clsidKey
    /\ ~clsidKey => server = NoServer

IInv == TypeOK /\ StepInv /\ RegisteredIsWhole

USE RegistrationAssumption

-----------------------------------------------------------------------------
(* The invariant holds of a clean registry.                                 *)
LEMMA InitIInv == Init => IInv
<1> SUFFICES ASSUME Init PROVE IInv OBVIOUS
<1>1. TypeOK BY DEF Init, TypeOK, After
<1>2. StepInv BY DEF Init, StepInv, RegisterSteps, RemoveSteps
<1>3. RegisteredIsWhole BY DEF Init, RegisteredIsWhole
<1> QED BY <1>1, <1>2, <1>3 DEF IInv

(* A run is admitted by its checks, or changes nothing.                     *)
LEMMA StartIInv ==
    ASSUME IInv, NEW a \in Arguments, Register(a) \/ Unregister(a) PROVE IInv'
<1>0. TypeOK /\ StepInv BY DEF IInv
<1>1. CASE Register(a)
  <2>1. TypeOK' BY <1>0, <1>1 DEF TypeOK, Register, Start, keys, After
  <2>2. StepInv'
    BY <1>0, <1>1 DEF StepInv, Register, Start, MayRegister, keys, RegisterSteps, RemoveSteps
  <2>3. RegisteredIsWhole' BY <1>1 DEF RegisteredIsWhole, Register, Start
  <2> QED BY <2>1, <2>2, <2>3 DEF IInv
<1>2. CASE Unregister(a)
  <2>1. TypeOK' BY <1>0, <1>2 DEF TypeOK, Unregister, Start, keys, After
  <2>2. StepInv'
    BY <1>0, <1>2 DEF StepInv, Unregister, Start, MayUnregister, keys, RegisterSteps, RemoveSteps
  <2>3. RegisteredIsWhole' BY <1>2 DEF RegisteredIsWhole, Unregister, Start
  <2> QED BY <2>1, <2>2, <2>3 DEF IInv
<1> QED BY <1>1, <1>2

(* WriteClsid keeps the invariant.                                          *)
LEMMA WriteClsidIInv == ASSUME IInv, WriteClsid PROVE IInv'
<1>0. TypeOK /\ StepInv BY DEF IInv
<1>1. TypeOK' BY <1>0 DEF TypeOK, WriteClsid, Step, After
<1>2. StepInv' BY <1>0 DEF StepInv, WriteClsid, Step, After, RegisterSteps, RemoveSteps
<1>3. RegisteredIsWhole' BY <1>0 DEF StepInv, RegisterSteps, RegisteredIsWhole, WriteClsid, Step
<1> QED BY <1>1, <1>2, <1>3 DEF IInv

(* WriteServer keeps the invariant.                                         *)
LEMMA WriteServerIInv == ASSUME IInv, WriteServer PROVE IInv'
<1>0. TypeOK /\ StepInv BY DEF IInv
<1>1. TypeOK' BY <1>0 DEF TypeOK, WriteServer, Step, After, Arguments
<1>2. StepInv' BY <1>0 DEF StepInv, WriteServer, Step, After, RegisterSteps, RemoveSteps
<1>3. RegisteredIsWhole' BY <1>0 DEF StepInv, RegisterSteps, RegisteredIsWhole, WriteServer, Step
<1> QED BY <1>1, <1>2, <1>3 DEF IInv

(* WriteThreading keeps the invariant.                                      *)
LEMMA WriteThreadingIInv == ASSUME IInv, WriteThreading PROVE IInv'
<1>0. TypeOK /\ StepInv BY DEF IInv
<1>1. TypeOK' BY <1>0 DEF TypeOK, WriteThreading, Step, After
<1>2. StepInv' BY <1>0 DEF StepInv, WriteThreading, Step, After, RegisterSteps, RemoveSteps
<1>3. RegisteredIsWhole' BY <1>0 DEF StepInv, RegisterSteps, RegisteredIsWhole, WriteThreading, Step
<1> QED BY <1>1, <1>2, <1>3 DEF IInv

(* WriteNamespace keeps the invariant.                                      *)
LEMMA WriteNamespaceIInv == ASSUME IInv, WriteNamespace PROVE IInv'
<1>0. TypeOK /\ StepInv BY DEF IInv
<1>1. TypeOK' BY <1>0 DEF TypeOK, WriteNamespace, Step, After, Arguments
<1>2. StepInv' BY <1>0 DEF StepInv, WriteNamespace, Step, After, RegisterSteps, RemoveSteps
<1>3. RegisteredIsWhole'
  BY <1>0 DEF StepInv, RegisterSteps, RegisteredIsWhole, WriteNamespace, Step
<1> QED BY <1>1, <1>2, <1>3 DEF IInv

(* RemoveNamespace keeps the invariant.                                     *)
LEMMA RemoveNamespaceIInv == ASSUME IInv, RemoveNamespace PROVE IInv'
<1>0. TypeOK /\ StepInv BY DEF IInv
<1>1. TypeOK' BY <1>0 DEF TypeOK, RemoveNamespace, Step, After
<1>2. StepInv'
  BY <1>0 DEF StepInv, MayUnregister, RemoveNamespace, Step, After, RegisterSteps, RemoveSteps
<1>3. RegisteredIsWhole' BY <1>0 DEF StepInv, RemoveSteps, RegisteredIsWhole, RemoveNamespace, Step
<1> QED BY <1>1, <1>2, <1>3 DEF IInv

(* RemoveClsid keeps the invariant.                                         *)
LEMMA RemoveClsidIInv == ASSUME IInv, RemoveClsid PROVE IInv'
<1>0. TypeOK /\ StepInv BY DEF IInv
<1>1. TypeOK' BY <1>0 DEF TypeOK, RemoveClsid, Step, After
<1>2. StepInv'
  BY <1>0 DEF StepInv, MayUnregister, RemoveClsid, Step, After, RegisterSteps, RemoveSteps
<1>3. RegisteredIsWhole' BY <1>0 DEF StepInv, RemoveSteps, RegisteredIsWhole, RemoveClsid, Step
<1> QED BY <1>1, <1>2, <1>3 DEF IInv

(* The refresh of Explorer reports what the steps before it have done.      *)
LEMMA ShellRefreshIInv == ASSUME IInv, InvokeShellAssociationRefresh PROVE IInv'
<1>0. TypeOK /\ StepInv BY DEF IInv
<1>1. TypeOK' BY <1>0 DEF TypeOK, InvokeShellAssociationRefresh, Step, After, keys
<1>2. StepInv'
  BY <1>0 DEF StepInv, InvokeShellAssociationRefresh, Step, After, keys, RegisterSteps, RemoveSteps
<1>3. RegisteredIsWhole'
  BY <1>0 DEF StepInv, RegisterSteps, RegisteredIsWhole, InvokeShellAssociationRefresh, Step, keys
<1> QED BY <1>1, <1>2, <1>3 DEF IInv

(* Fail keeps the invariant.                                                *)
LEMMA FailIInv == ASSUME IInv, Fail PROVE IInv'
<1>0. TypeOK /\ StepInv BY DEF IInv
<1>1. TypeOK' BY <1>0 DEF TypeOK, Fail, keys
<1>2. StepInv' BY <1>0 DEF StepInv, Fail, keys, RegisterSteps, RemoveSteps
<1>3. RegisteredIsWhole' BY DEF RegisteredIsWhole, Fail
<1> QED BY <1>1, <1>2, <1>3 DEF IInv

(* So does a step that changes nothing.                                     *)
LEMMA StutterIInv == ASSUME IInv, UNCHANGED vars PROVE IInv'
BY DEF IInv, vars, TypeOK, StepInv, MayUnregister, RegisteredIsWhole

(* IInv is inductive.                                                       *)
THEOREM Inductive == Spec => []IInv
<1>1. IInv /\ [Next]_vars => IInv'
  BY StartIInv, WriteClsidIInv, WriteServerIInv, WriteThreadingIInv, WriteNamespaceIInv,
     RemoveNamespaceIInv, RemoveClsidIInv, ShellRefreshIInv, FailIInv, StutterIInv DEF Next
<1> QED BY InitIInv, <1>1, PTL DEF Spec

(* Every variable keeps its type.                                           *)
THEOREM TypeCorrect == Spec => []TypeOK
<1>1. IInv => TypeOK BY DEF IInv
<1> QED BY Inductive, <1>1, PTL

(* "Registered" means whole, after any history of runs.                     *)
THEOREM RegisteredIsWholeHolds == Spec => []RegisteredIsWhole
<1>1. IInv => RegisteredIsWhole BY DEF IInv
<1> QED BY Inductive, <1>1, PTL

(* The entry is published last.                                             *)
THEOREM EntryPublishedLastHolds == Spec => EntryPublishedLast
<1>1. IInv /\ [Next]_vars
      => [namespace' \subseteq namespace \/ (clsidKey /\ server # NoServer /\ threading)]_vars
  <2> SUFFICES ASSUME IInv, Next
               PROVE  namespace' \subseteq namespace \/ (clsidKey /\ server # NoServer /\ threading)
    OBVIOUS
  <2>1. CASE WriteNamespace BY <2>1 DEF IInv, StepInv, RegisterSteps, WriteNamespace, Step
  <2>2. CASE ~WriteNamespace
    BY <2>2 DEF Next, Register, Unregister, Start, keys, WriteClsid, WriteServer, WriteThreading,
                RemoveNamespace, RemoveClsid, InvokeShellAssociationRefresh, Fail
  <2> QED BY <2>1, <2>2
<1> QED BY Inductive, <1>1, PTL DEF Spec, EntryPublishedLast

(* A server registered by others is not touched unasked.                    *)
THEOREM ForeignServerKeptHolds == Spec => ForeignServerKept
<1> DEFINE Kept == server # NoServer /\ server' # server
                   => args.force \/ args.server \in {server, NoServer}
<1>1. IInv /\ [Next]_vars => [Kept]_vars
  <2> SUFFICES ASSUME IInv, Next PROVE Kept OBVIOUS
  <2>1. CASE WriteClsid BY <2>1 DEF IInv, StepInv, WriteClsid, Step
  <2>2. CASE WriteServer BY <2>2 DEF IInv, StepInv, WriteServer, Step
  <2>3. CASE RemoveClsid BY <2>3 DEF IInv, StepInv, MayUnregister, RemoveSteps, RemoveClsid, Step
  <2>4. CASE ~WriteClsid /\ ~WriteServer /\ ~RemoveClsid
    BY <2>4 DEF Next, Register, Unregister, Start, keys, WriteThreading, WriteNamespace,
                RemoveNamespace, InvokeShellAssociationRefresh, Fail
  <2> QED BY <2>1, <2>2, <2>3, <2>4
<1> QED BY Inductive, <1>1, PTL DEF Spec, ForeignServerKept

(* An Unregister run that completes leaves no class and no entry where it   *)
(* was asked to remove it, whatever failed before it.                       *)
THEOREM UnregisteredHereHolds == Spec => []UnregisteredHere
<1>1. Init => UnregisteredHere BY DEF Init, UnregisteredHere
<1>2. IInv /\ UnregisteredHere /\ [Next]_vars => UnregisteredHere'
  <2> SUFFICES ASSUME IInv, UnregisteredHere, [Next]_vars
               PROVE  UnregisteredHere'
    OBVIOUS
  <2>1. ASSUME NEW a \in Arguments, Register(a) PROVE UnregisteredHere'
    BY <2>1 DEF Register, Start, UnregisteredHere
  <2>2. ASSUME NEW a \in Arguments, Unregister(a) PROVE UnregisteredHere'
    BY <2>2 DEF Unregister, Start, UnregisteredHere, keys, IInv, StepInv
  <2>3. CASE InvokeShellAssociationRefresh
    BY <2>3 DEF IInv, StepInv, InvokeShellAssociationRefresh, Step, keys, UnregisteredHere
  <2>4. CASE WriteClsid \/ WriteServer \/ WriteThreading \/ WriteNamespace
             \/ RemoveNamespace \/ RemoveClsid
    BY <2>4 DEF WriteClsid, WriteServer, WriteThreading, WriteNamespace, RemoveNamespace,
                RemoveClsid, Step, IInv, StepInv, RegisterSteps, RemoveSteps, UnregisteredHere
  <2>5. CASE Fail BY <2>5 DEF Fail, UnregisteredHere
  <2>6. CASE UNCHANGED vars BY <2>6 DEF vars, UnregisteredHere
  <2> QED BY <2>1, <2>2, <2>3, <2>4, <2>5, <2>6 DEF Next
<1> QED BY Inductive, <1>1, <1>2, PTL DEF Spec
=============================================================================
