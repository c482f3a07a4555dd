------------------------ MODULE NamespaceExtension_proof ------------------------
(* Proofs about the COM server, for any number of objects.                  *)
EXTENDS NamespaceExtension, FiniteSetTheorems, TLAPS

(* An object alive has a reference. With BrowserHeld it is what the steps   *)
(* that count down need: no count goes below zero.                          *)
RefInv ==
    /\ \A o \in Objects : kind[o] # Free => refCount[o] >= 1
    /\ BrowserHeld

IInv == ObjectsOK /\ RefInv /\ CountExact /\ NothingLeftBehind /\ WindowInsideView

USE ExtensionAssumption DEF Free, Kinds

-----------------------------------------------------------------------------
(* The number of objects alive as one is made or deleted.                   *)
LEMMA LiveFinite == IsFiniteSet(Live) /\ Cardinality(Live) \in Nat
<1>1. Live \subseteq Objects BY DEF Live
<1>2. IsFiniteSet(Live) BY <1>1, FS_Subset
<1> QED BY <1>2, FS_CardinalityType

(* A new object adds one.                                                   *)
LEMMA OneMore ==
    ASSUME ObjectsOK, NEW o \in Objects, kind[o] = Free,
           NEW k \in Kinds, kind' = [kind EXCEPT ![o] = k]
    PROVE  Live' = Live \cup {o} /\ Cardinality(Live') = Cardinality(Live) + 1
<1>1. Live' = Live \cup {o} BY DEF Live, ObjectsOK
<1>2. o \notin Live BY DEF Live
<1> QED BY <1>1, <1>2, LiveFinite, FS_AddElement

(* A deleted object takes one off.                                          *)
LEMMA OneLess ==
    ASSUME ObjectsOK, NEW o \in Objects, kind[o] # Free, kind' = [kind EXCEPT ![o] = Free]
    PROVE  Live' = Live \ {o} /\ Cardinality(Live') = Cardinality(Live) - 1
<1>1. Live' = Live \ {o} BY DEF Live, ObjectsOK
<1>2. o \in Live BY DEF Live
<1> QED BY <1>1, <1>2, LiveFinite, FS_RemoveElement

(* The invariant holds before the DLL is loaded.                            *)
LEMMA InitIInv == Init => IInv
<1> SUFFICES ASSUME Init PROVE IInv OBVIOUS
<1>a. ObjectsOK
  <2>1. loaded \in BOOLEAN /\ kind \in [Objects -> Kinds \cup {Free}] BY DEF Init
  <2>2. refCount \in [Objects -> Nat] /\ objectCount \in Int /\ serverLocks \in Nat
        /\ grants \in [Objects -> Nat]
    BY DEF Init
  <2>3. viewWindow \in [Objects -> BOOLEAN] /\ liveWindow \in [Objects -> BOOLEAN]
        /\ xaml \in [Objects -> BOOLEAN] /\ browser \in [Objects -> BOOLEAN]
    BY DEF Init
  <2> QED BY <2>1, <2>2, <2>3 DEF ObjectsOK
<1>b. RefInv BY DEF Init, RefInv, BrowserHeld
<1>c. WindowInsideView BY DEF Init, WindowInsideView
<1>2. Live = {} BY DEF Init, Live
<1>3. CountExact BY <1>2, FS_EmptySet DEF Init, CountExact
<1>4. NothingLeftBehind BY <1>2 DEF Init, NothingLeftBehind
<1> QED BY <1>a, <1>b, <1>c, <1>3, <1>4 DEF IInv

(* An object made in a loaded DLL.                                          *)
LEMMA ConstructIInv ==
    ASSUME IInv, NEW o \in Objects, NEW k \in Kinds, kind[o] = Free, loaded',
           kind' = [kind EXCEPT ![o] = k],
           refCount' = [refCount EXCEPT ![o] = 1],
           objectCount' = objectCount + 1,
           loaded' \in BOOLEAN,
           UNCHANGED <<serverLocks, viewVars>>
    PROVE  IInv'
<1>0. ObjectsOK /\ RefInv /\ CountExact /\ WindowInsideView BY DEF IInv
<1>1. ObjectsOK' BY <1>0 DEF ObjectsOK, viewVars
<1>2. RefInv' BY <1>0 DEF RefInv, BrowserHeld, Views, ObjectsOK, viewVars
<1>3. CountExact' BY <1>0, OneMore DEF CountExact
<1>4. NothingLeftBehind' BY DEF NothingLeftBehind
<1>5. WindowInsideView' BY <1>0 DEF WindowInsideView, ObjectsOK, Views, viewVars
<1> QED BY <1>1, <1>2, <1>3, <1>4, <1>5 DEF IInv

(* Whatever lives, lives in a loaded DLL.                                   *)
LEMMA LiveLoaded == ASSUME IInv, NEW o \in Objects, kind[o] # Free PROVE loaded = TRUE
BY DEF IInv, NothingLeftBehind, Live, ObjectsOK

(* Every call that makes an object keeps the invariant.                     *)
LEMMA MakersIInv ==
    ASSUME IInv, NEW o \in Objects, NEW f \in Objects,
           DllGetClassObject(o) \/ CreateInstance(f, o) \/ EnumObjects(f, o)
              \/ CreateViewObject(f, o) \/ Clone(f, o)
    PROVE  IInv'
<1>1. CASE DllGetClassObject(o)
  BY <1>1, ConstructIInv DEF DllGetClassObject
<1>2. CASE CreateInstance(f, o)
  <2>1. loaded = TRUE BY <1>2, LiveLoaded DEF CreateInstance
  <2> QED BY <1>2, <2>1, ConstructIInv DEF CreateInstance, Construct
<1>3. CASE EnumObjects(f, o)
  <2>1. loaded = TRUE BY <1>3, LiveLoaded DEF EnumObjects
  <2> QED BY <1>3, <2>1, ConstructIInv DEF EnumObjects, Construct
<1>4. CASE CreateViewObject(f, o)
  <2>1. loaded = TRUE BY <1>4, LiveLoaded DEF CreateViewObject
  <2> QED BY <1>4, <2>1, ConstructIInv DEF CreateViewObject, Construct
<1>5. CASE Clone(f, o)
  <2>1. loaded = TRUE BY <1>5, LiveLoaded DEF Clone
  <2> QED BY <1>5, <2>1, ConstructIInv DEF Clone, Construct
<1> QED BY <1>1, <1>2, <1>3, <1>4, <1>5

(* AddRef keeps the invariant.                                              *)
LEMMA AddRefIInv == ASSUME IInv, NEW o \in Objects, AddRef(o) PROVE IInv'
<1>0. ObjectsOK /\ RefInv /\ CountExact /\ NothingLeftBehind /\ WindowInsideView BY DEF IInv
<1>1. ObjectsOK' BY <1>0 DEF ObjectsOK, AddRef, viewVars
<1>2. RefInv' BY <1>0 DEF RefInv, BrowserHeld, Views, ObjectsOK, AddRef, viewVars
<1>3. CountExact' BY <1>0 DEF CountExact, AddRef, Live
<1>4. NothingLeftBehind' BY <1>0 DEF NothingLeftBehind, AddRef, Live, viewVars
<1>5. WindowInsideView' BY <1>0 DEF WindowInsideView, AddRef, Views, viewVars
<1> QED BY <1>1, <1>2, <1>3, <1>4, <1>5 DEF IInv

(* The view's variables at every other address.                             *)
Untouched(o) ==
    \A p \in Objects \ {o} :
        /\ liveWindow'[p] = liveWindow[p] /\ viewWindow'[p] = viewWindow[p]
        /\ xaml'[p] = xaml[p]
        /\ browser'[p] = browser[p] /\ grants'[p] = grants[p]

(* What DestroyViewWindow does to the view's variables keeps their facts,   *)
(* and leaves the view with no window and no island.                        *)
LEMMA DestroyedFacts ==
    ASSUME ObjectsOK, BrowserHeld, NEW o \in Objects, DestroyedView(o)
    PROVE  /\ viewWindow' \in [Objects -> BOOLEAN] /\ liveWindow' \in [Objects -> BOOLEAN]
           /\ xaml' \in [Objects -> BOOLEAN] /\ browser' \in [Objects -> BOOLEAN]
           /\ grants' \in [Objects -> Nat]
           /\ ~liveWindow'[o] /\ ~xaml'[o] /\ ~browser'[o]
           /\ Untouched(o)
<1>1. browser[o] => grants[o] - 1 \in Nat BY DEF ObjectsOK, BrowserHeld
<1> QED BY <1>1 DEF ObjectsOK, DestroyedView, Untouched

(* DestroyViewWindow keeps the invariant.                                   *)
LEMMA DestroyIInv == ASSUME IInv, NEW o \in Objects, DestroyViewWindow(o) PROVE IInv'
<1>0. ObjectsOK /\ RefInv /\ CountExact /\ NothingLeftBehind /\ WindowInsideView BY DEF IInv
<1>a. DestroyedView(o) /\ UNCHANGED <<loaded, kind, refCount, objectCount, serverLocks>>
  BY DEF DestroyViewWindow
<1>b. /\ viewWindow' \in [Objects -> BOOLEAN] /\ liveWindow' \in [Objects -> BOOLEAN]
      /\ xaml' \in [Objects -> BOOLEAN] /\ browser' \in [Objects -> BOOLEAN]
      /\ grants' \in [Objects -> Nat]
      /\ ~liveWindow'[o] /\ ~xaml'[o] /\ ~browser'[o]
      /\ Untouched(o)
  BY <1>0, <1>a, DestroyedFacts DEF RefInv
<1>1. ObjectsOK' BY <1>0, <1>a, <1>b DEF ObjectsOK
<1>2. RefInv' BY <1>0, <1>a, <1>b DEF RefInv, BrowserHeld, Views, Untouched
<1>3. CountExact' BY <1>0, <1>a DEF CountExact, Live
<1>4. NothingLeftBehind' BY <1>0, <1>a, <1>b DEF NothingLeftBehind, Live, Untouched
<1>5. WindowInsideView' BY <1>0, <1>a, <1>b DEF WindowInsideView, Views, Untouched
<1> QED BY <1>1, <1>2, <1>3, <1>4, <1>5 DEF IInv

(* Release, with and without the destructor.                                *)
LEMMA ReleaseIInv == ASSUME IInv, NEW o \in Objects, Release(o) PROVE IInv'
<1>0. ObjectsOK /\ RefInv /\ CountExact /\ NothingLeftBehind /\ WindowInsideView BY DEF IInv
<1>1. CASE refCount[o] > 1
  <2>0. /\ refCount' = [refCount EXCEPT ![o] = @ - 1]
        /\ UNCHANGED <<kind, objectCount, viewVars, loaded, serverLocks>>
    BY <1>1 DEF Release
  <2>a. refCount[o] - 1 \in Nat /\ refCount[o] - 1 >= 1 BY <1>0, <1>1 DEF ObjectsOK
  <2>1. ObjectsOK' BY <1>0, <2>0, <2>a DEF ObjectsOK, viewVars
  <2>2. RefInv' BY <1>0, <2>0, <2>a DEF RefInv, BrowserHeld, Views, ObjectsOK, viewVars
  <2>3. CountExact' BY <1>0, <2>0 DEF CountExact, Live
  <2>4. NothingLeftBehind' BY <1>0, <2>0 DEF NothingLeftBehind, Live, viewVars
  <2>5. WindowInsideView' BY <1>0, <2>0 DEF WindowInsideView, Views, viewVars
  <2> QED BY <2>1, <2>2, <2>3, <2>4, <2>5 DEF IInv
<1>2. CASE refCount[o] = 1
  <2>0. /\ kind[o] # Free
        /\ refCount' = [refCount EXCEPT ![o] = @ - 1]
        /\ kind' = [kind EXCEPT ![o] = Free]
        /\ objectCount' = objectCount - 1
        /\ UNCHANGED <<loaded, serverLocks>>
        /\ IF o \in Views THEN DestroyedView(o) ELSE UNCHANGED viewVars
    BY <1>2 DEF Release
  <2>b. /\ viewWindow' \in [Objects -> BOOLEAN] /\ liveWindow' \in [Objects -> BOOLEAN]
        /\ xaml' \in [Objects -> BOOLEAN] /\ browser' \in [Objects -> BOOLEAN]
        /\ grants' \in [Objects -> Nat]
        /\ ~liveWindow'[o] /\ ~xaml'[o] /\ ~browser'[o]
        /\ Untouched(o)
    <3>1. CASE o \in Views BY <1>0, <2>0, <3>1, DestroyedFacts DEF RefInv
    <3>2. CASE o \notin Views
      BY <1>0, <2>0, <3>2 DEF ObjectsOK, RefInv, BrowserHeld, WindowInsideView, viewVars, Untouched
    <3> QED BY <3>1, <3>2
  <2>c. loaded = TRUE BY <2>0, LiveLoaded
  <2>1. ObjectsOK'
    <3>1. refCount' \in [Objects -> Nat] BY <1>0, <1>2, <2>0 DEF ObjectsOK
    <3>2. kind' \in [Objects -> Kinds \cup {Free}] BY <1>0, <2>0 DEF ObjectsOK
    <3>3. objectCount' \in Int BY <1>0, <2>0 DEF ObjectsOK
    <3> QED BY <1>0, <2>0, <2>b, <3>1, <3>2, <3>3 DEF ObjectsOK
  <2>2. RefInv' BY <1>0, <2>0, <2>b DEF RefInv, BrowserHeld, Views, ObjectsOK, Untouched
  <2>3. CountExact' BY <1>0, <2>0, OneLess DEF CountExact
  <2>4. NothingLeftBehind' BY <2>0, <2>c DEF NothingLeftBehind
  <2>5. WindowInsideView' BY <1>0, <2>0, <2>b DEF WindowInsideView, Views, ObjectsOK, Untouched
  <2> QED BY <2>1, <2>2, <2>3, <2>4, <2>5 DEF IInv
<1> QED BY <1>1, <1>2 DEF Release

(* The outcomes of CreateViewWindow.                                        *)
LEMMA CreateViewIInv ==
    ASSUME IInv, NEW o \in Objects,
           NoParentWindow(o) \/ NoViewWindow(o) \/ CreateViewWindow(o)
    PROVE  IInv'
<1>0. ObjectsOK /\ RefInv /\ CountExact /\ NothingLeftBehind /\ WindowInsideView BY DEF IInv
<1>a. /\ o \in Views /\ UNCHANGED <<loaded, kind, refCount, objectCount, serverLocks>>
      /\ ~viewWindow[o]
  BY DEF NoParentWindow, NoViewWindow, CreateViewWindow, TakeBrowser
<1>b. loaded = TRUE BY <1>a, LiveLoaded DEF Views
<1>1. ObjectsOK'
  <2>1. CASE NoParentWindow(o)
    <3>1. grants[o] + 1 \in Nat BY <1>0 DEF ObjectsOK
    <3> QED BY <1>0, <1>a, <2>1, <3>1 DEF ObjectsOK, NoParentWindow
  <2>2. CASE NoViewWindow(o) BY <1>0, <1>a, <2>2 DEF ObjectsOK, NoViewWindow
  <2>3. CASE CreateViewWindow(o)
    <3>1. grants[o] + 1 \in Nat BY <1>0 DEF ObjectsOK
    <3> QED BY <1>0, <1>a, <2>3, <3>1 DEF ObjectsOK, CreateViewWindow
  <2> QED BY <2>1, <2>2, <2>3
<1>2. RefInv'
  BY <1>0, <1>a DEF RefInv, BrowserHeld, Views, ObjectsOK, NoParentWindow, NoViewWindow,
                    CreateViewWindow
<1>3. CountExact' BY <1>0, <1>a DEF CountExact, Live
<1>4. NothingLeftBehind' BY <1>a, <1>b DEF NothingLeftBehind
<1>5. WindowInsideView'
  BY <1>0, <1>a DEF WindowInsideView, ObjectsOK, Views, NoParentWindow, NoViewWindow,
                    CreateViewWindow
<1> QED BY <1>1, <1>2, <1>3, <1>4, <1>5 DEF IInv

(* ParentDestroyed keeps the invariant.                                     *)
LEMMA ParentIInv == ASSUME IInv, NEW o \in Objects, ParentDestroyed(o) PROVE IInv'
<1>0. ObjectsOK /\ RefInv /\ CountExact /\ NothingLeftBehind /\ WindowInsideView BY DEF IInv
<1>1. ObjectsOK' BY <1>0 DEF ObjectsOK, ParentDestroyed
<1>2. RefInv' BY <1>0 DEF RefInv, BrowserHeld, Views, ParentDestroyed
<1>3. CountExact' BY <1>0 DEF CountExact, Live, ParentDestroyed
<1>4. NothingLeftBehind' BY <1>0 DEF NothingLeftBehind, Live, ObjectsOK, ParentDestroyed
<1>5. WindowInsideView' BY <1>0 DEF WindowInsideView, Views, ObjectsOK, ParentDestroyed
<1> QED BY <1>1, <1>2, <1>3, <1>4, <1>5 DEF IInv

(* LockServer keeps the invariant.                                          *)
LEMMA LockIInv ==
    ASSUME IInv, NEW o \in Objects, NEW lock \in BOOLEAN, LockServer(o, lock) PROVE IInv'
<1>0. ObjectsOK /\ RefInv /\ CountExact /\ NothingLeftBehind /\ WindowInsideView BY DEF IInv
<1>a. loaded = TRUE BY LiveLoaded DEF LockServer
<1>1. ObjectsOK' BY <1>0 DEF ObjectsOK, LockServer, viewVars
<1>2. RefInv' BY <1>0 DEF RefInv, BrowserHeld, Views, LockServer, viewVars
<1>3. CountExact' BY <1>0 DEF CountExact, Live, LockServer
<1>4. NothingLeftBehind' BY <1>a DEF NothingLeftBehind, LockServer
<1>5. WindowInsideView' BY <1>0 DEF WindowInsideView, Views, LockServer, viewVars
<1> QED BY <1>1, <1>2, <1>3, <1>4, <1>5 DEF IInv

(* The DLL agrees to go when both counters are zero: then nothing lives,    *)
(* and with no view there is no window and no island.                       *)
LEMMA UnloadIInv == ASSUME IInv, Unload PROVE IInv'
<1>0. ObjectsOK /\ RefInv /\ CountExact /\ WindowInsideView BY DEF IInv
<1>a. objectCount = 0 /\ serverLocks = 0
      /\ UNCHANGED <<kind, refCount, objectCount, serverLocks, viewVars>>
  BY DEF Unload, DllCanUnloadNow
<1>b. Live = {}
  <2>1. Cardinality(Live) = 0 BY <1>0, <1>a DEF CountExact
  <2> QED BY <2>1, LiveFinite, FS_EmptySet
<1>1. ObjectsOK' BY <1>0 DEF ObjectsOK, Unload, viewVars
<1>2. RefInv' BY <1>0, <1>a DEF RefInv, BrowserHeld, Views, viewVars
<1>3. CountExact' BY <1>0, <1>a DEF CountExact, Live
<1>c. \A o \in Objects : ~liveWindow[o] /\ ~xaml[o]
  BY <1>0, <1>b DEF WindowInsideView, Views, Live
<1>4. NothingLeftBehind' BY <1>a, <1>b, <1>c DEF NothingLeftBehind, Live, viewVars
<1>5. WindowInsideView' BY <1>0, <1>a DEF WindowInsideView, Views, viewVars
<1> QED BY <1>1, <1>2, <1>3, <1>4, <1>5 DEF IInv

(* ClassRefused keeps the invariant.                                        *)
LEMMA ClassRefusedIInv == ASSUME IInv, ClassRefused PROVE IInv'
<1>0. ObjectsOK /\ RefInv /\ CountExact /\ WindowInsideView BY DEF IInv
<1>1. ObjectsOK' BY <1>0 DEF ObjectsOK, ClassRefused, viewVars
<1>2. RefInv' BY <1>0 DEF RefInv, BrowserHeld, Views, ClassRefused, viewVars
<1>3. CountExact' BY <1>0 DEF CountExact, Live, ClassRefused
<1>4. NothingLeftBehind' BY DEF NothingLeftBehind, ClassRefused
<1>5. WindowInsideView' BY <1>0 DEF WindowInsideView, Views, ClassRefused, viewVars
<1> QED BY <1>1, <1>2, <1>3, <1>4, <1>5 DEF IInv

(* So does a step that leaves the objects alone: a thread, a click.         *)
LEMMA StutterIInv == ASSUME IInv, UNCHANGED objectVars PROVE IInv'
BY DEF IInv, objectVars, ObjectsOK, RefInv, BrowserHeld, CountExact, Live, NothingLeftBehind, WindowInsideView, Views

(* IInv is inductive.                                                       *)
THEOREM Inductive == Spec => []IInv
<1>1. ASSUME IInv, [Next]_vars PROVE IInv'
  <2>1. CASE ObjectStep
    BY <1>1, <2>1, MakersIInv, AddRefIInv, DestroyIInv, ReleaseIInv, CreateViewIInv,
       ParentIInv, LockIInv, UnloadIInv, ClassRefusedIInv DEF ObjectStep
  <2>2. CASE UNCHANGED objectVars BY <1>1, <2>2, StutterIInv
  <2> QED BY <1>1, <2>1, <2>2 DEF Next, vars
<1> QED BY InitIInv, <1>1, PTL DEF Spec

CallsOK == threads \in Nat /\ browsing \in BOOLEAN

(* Threads are counted in Nat: one ends only where one runs.                *)
LEMMA CallsCounted == Spec => []CallsOK
<1>1. Init => CallsOK
  <2>1. Init => threads \in Nat BY DEF Init
  <2>2. Init => browsing \in BOOLEAN BY DEF Init
  <2> QED BY <2>1, <2>2 DEF CallsOK
<1>2. ASSUME CallsOK, [Next]_vars PROVE CallsOK'
  <2>1. CASE UNCHANGED callVars BY <1>2, <2>1 DEF CallsOK, callVars
  <2>2. CASE CallStep
    <3>1. threads \in Nat /\ browsing \in BOOLEAN BY <1>2 DEF CallsOK
    <3>2. \/ threads' \in {threads, threads + 1}
          \/ threads' = threads
          \/ threads > 0 /\ threads' = threads - 1
      BY <2>2 DEF CallStep, PageStartsThread, NavigateFolder, BrowseReturns,
                  ThreadEnds, LaunchActionAsync
    <3>3. threads' \in Nat BY <3>1, <3>2
    <3>4. browsing' \in {TRUE, FALSE, browsing}
      BY <2>2 DEF CallStep, PageStartsThread, NavigateFolder, BrowseReturns, ThreadEnds
    <3> QED BY <3>1, <3>3, <3>4 DEF CallsOK
  <2> QED BY <1>2, <2>1, <2>2 DEF Next, vars
<1> QED BY <1>1, <1>2, PTL DEF Spec

(* Every variable keeps its type.                                           *)
THEOREM TypeCorrect == Spec => []TypeOK
<1>1. IInv => ObjectsOK BY DEF IInv
<1>2. ObjectsOK /\ CallsOK => TypeOK BY DEF TypeOK, CallsOK
<1> QED BY Inductive, CallsCounted, <1>1, <1>2, PTL

(* g_objectCount is exact.                                                  *)
THEOREM CountExactHolds == Spec => []CountExact
<1>1. IInv => CountExact BY DEF IInv
<1> QED BY Inductive, <1>1, PTL

(* Nothing of the DLL outlives it.                                          *)
THEOREM NothingLeftBehindHolds == Spec => []NothingLeftBehind
<1>1. IInv => NothingLeftBehind BY DEF IInv
<1> QED BY Inductive, <1>1, PTL

(* Windows and islands stay within the life of their views.                 *)
THEOREM WindowInsideViewHolds == Spec => []WindowInsideView
<1>1. IInv => WindowInsideView BY DEF IInv
<1> QED BY Inductive, <1>1, PTL

(* m_browser never dangles.                                                 *)
THEOREM BrowserHeldHolds == Spec => []BrowserHeld
<1>1. IInv => BrowserHeld BY DEF IInv, RefInv
<1> QED BY Inductive, <1>1, PTL
=============================================================================
