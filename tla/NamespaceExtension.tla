-------------------------- MODULE NamespaceExtension --------------------------
(***************************************************************************)
(* The in-process COM server Explorer loads: the objects it hands out,     *)
(* their reference counts, the view's window, XAML island and reference to *)
(* Explorer's browser, and the two counters that decide whether the DLL    *)
(* may be unloaded. Explorer calls in any order the COM rules allow: only  *)
(* on objects it holds a reference to, one call of an apartment at a time. *)
(* Beside them run the detached threads a shown page starts, and a click   *)
(* on a folder may be inside Explorer's browser while anything happens.    *)
(***************************************************************************)
EXTENDS Integers, FiniteSets

CONSTANTS
    Objects,   \* addresses: an object lives at one of them
    MaxRefs,   \* bound: references Explorer holds to one object
    MaxLocks,  \* bound: LockServer(TRUE) calls outstanding
    MaxGrants, \* bound: references to the browser one view has taken
    MaxThreads \* bound: detached threads at a time

ASSUME ExtensionAssumption ==
    /\ IsFiniteSet(Objects)
    /\ MaxRefs \in Nat \ {0}
    /\ MaxLocks \in Nat
    /\ MaxGrants \in Nat \ {0}
    /\ MaxThreads \in Nat

Free   == "free"
Kinds  == {"EmptyEnum", "WelcomeShellView", "WelcomeFolder", "ShellClassFactory"}
Clones == {"EmptyEnum"}

VARIABLES
    loaded,      \* is the DLL in the process?
    kind,        \* what lives at each address
    refCount,    \* m_refCount
    objectCount, \* g_objectCount
    serverLocks, \* g_serverLocks
    viewWindow,  \* m_viewWindow is set: a handle, live or stale
    liveWindow,  \* the window made by the view at this address exists
    xaml,        \* m_xamlSource is set
    browser,     \* m_browser is set
    grants,      \* references to the browser the view took and did not give back
    threads,     \* detached refresh and action threads that run the DLL's code
    browsing     \* a click handler of a page is inside BrowseObject

objectVars == <<loaded, kind, refCount, objectCount, serverLocks,
                viewWindow, liveWindow, xaml, browser, grants>>
callVars   == <<threads, browsing>>
vars == <<objectVars, callVars>>
viewVars == <<viewWindow, liveWindow, xaml, browser, grants>>

Live  == {o \in Objects : kind[o] # Free}
Views == {o \in Objects : kind[o] = "WelcomeShellView"}

ObjectsOK ==
    /\ loaded \in BOOLEAN
    /\ kind \in [Objects -> Kinds \cup {Free}]
    /\ refCount \in [Objects -> Nat]
    /\ objectCount \in Int
    /\ serverLocks \in Nat
    /\ viewWindow \in [Objects -> BOOLEAN]
    /\ liveWindow \in [Objects -> BOOLEAN]
    /\ xaml \in [Objects -> BOOLEAN]
    /\ browser \in [Objects -> BOOLEAN]
    /\ grants \in [Objects -> Nat]

TypeOK == ObjectsOK /\ threads \in Nat /\ browsing \in BOOLEAN

Init ==
    /\ loaded = FALSE
    /\ kind = [o \in Objects |-> Free]
    /\ refCount = [o \in Objects |-> 0]
    /\ objectCount = 0
    /\ serverLocks = 0
    /\ viewWindow = [o \in Objects |-> FALSE]
    /\ liveWindow = [o \in Objects |-> FALSE]
    /\ xaml = [o \in Objects |-> FALSE]
    /\ browser = [o \in Objects |-> FALSE]
    /\ grants = [o \in Objects |-> 0]
    /\ threads = 0
    /\ browsing = FALSE

-----------------------------------------------------------------------------
(* A constructor and the one reference the caller ends up with. The view's *)
(* members start null.                                                     *)
Construct(o, k) ==
    /\ kind[o] = Free
    /\ kind' = [kind EXCEPT ![o] = k]
    /\ refCount' = [refCount EXCEPT ![o] = 1]
    /\ objectCount' = objectCount + 1
    /\ UNCHANGED <<loaded, serverLocks, viewVars>>

(* CoGetClassObject: the DLL is loaded if it is not, and makes a factory.  *)
DllGetClassObject(o) ==
    /\ kind[o] = Free
    /\ loaded' = TRUE
    /\ kind' = [kind EXCEPT ![o] = "ShellClassFactory"]
    /\ refCount' = [refCount EXCEPT ![o] = 1]
    /\ objectCount' = objectCount + 1
    /\ UNCHANGED <<serverLocks, viewVars>>

(* An unknown class or interface: the factory, if any, is gone again.      *)
ClassRefused ==
    /\ loaded' = TRUE
    /\ UNCHANGED <<kind, refCount, objectCount, serverLocks, viewVars>>

(* IClassFactory::CreateInstance: the folder's own reference is given up   *)
(* once QueryInterface has added the caller's. A refused interface         *)
(* deletes the folder again, and nothing is left.                          *)
CreateInstance(f, o) == kind[f] = "ShellClassFactory" /\ Construct(o, "WelcomeFolder")

EnumObjects(f, o)      == kind[f] = "WelcomeFolder" /\ Construct(o, "EmptyEnum")
CreateViewObject(f, o) == kind[f] = "WelcomeFolder" /\ Construct(o, "WelcomeShellView")

CloneUncounted(e, o) ==                                             \* mutant
    /\ kind[e] = "EmptyEnum"
    /\ kind[o] = Free
    /\ kind' = [kind EXCEPT ![o] = "EmptyEnum"]
    /\ refCount' = [refCount EXCEPT ![o] = 1]
    /\ UNCHANGED <<loaded, objectCount, serverLocks, viewVars>>
Clone(e, o) == kind[e] = "EmptyEnum" /\ Construct(o, "EmptyEnum")

(* QueryInterface of an implemented interface, and AddRef.                 *)
AddRef(o) ==
    /\ kind[o] # Free /\ refCount[o] < MaxRefs
    /\ refCount' = [refCount EXCEPT ![o] = @ + 1]
    /\ UNCHANGED <<loaded, kind, objectCount, serverLocks, viewVars>>

(* DestroyViewWindow: the window goes first, and its WM_DESTROY closes the *)
(* island; CloseXaml then does what is still to do, and the browser is     *)
(* released once.                                                          *)
DestroyedView(o) ==
    /\ viewWindow' = [viewWindow EXCEPT ![o] = FALSE]
    /\ liveWindow' = [liveWindow EXCEPT ![o] = FALSE]
    /\ xaml' = [xaml EXCEPT ![o] = FALSE]
    /\ browser' = [browser EXCEPT ![o] = FALSE]
    /\ grants' = [grants EXCEPT ![o] = IF browser[o] THEN @ - 1 ELSE @]

DestroyViewWindow(o) ==
    /\ o \in Views
    /\ DestroyedView(o)
    /\ UNCHANGED <<loaded, kind, refCount, objectCount, serverLocks>>

(* Release: at zero the object is deleted, and the destructor of a view    *)
(* destroys its window first.                                              *)
ReleaseKeepsWindow(o) ==                                            \* mutant
    /\ kind[o] # Free
    /\ refCount' = [refCount EXCEPT ![o] = @ - 1]
    /\ kind' = IF refCount[o] > 1 THEN kind ELSE [kind EXCEPT ![o] = Free]
    /\ objectCount' = IF refCount[o] > 1 THEN objectCount ELSE objectCount - 1
    /\ UNCHANGED <<loaded, serverLocks, viewVars>>

ReleaseTwice(o) ==                                              \* mutant
    /\ kind[o] # Free
    /\ refCount' = [refCount EXCEPT ![o] = @ - 2]
    /\ UNCHANGED <<loaded, kind, objectCount, serverLocks, viewVars>>

Release(o) ==
    /\ kind[o] # Free
    /\ refCount' = [refCount EXCEPT ![o] = @ - 1]
    /\ \/ /\ refCount[o] > 1
          /\ UNCHANGED <<kind, objectCount, viewVars>>
       \/ /\ refCount[o] = 1
          /\ kind' = [kind EXCEPT ![o] = Free]
          /\ objectCount' = objectCount - 1
          /\ IF o \in Views THEN DestroyedView(o) ELSE UNCHANGED viewVars
    /\ UNCHANGED <<loaded, serverLocks>>

(* CreateViewWindow, by its outcomes. The reference to the browser is      *)
(* taken before anything can fail.                                         *)
TakeBrowser(o) ==
    /\ o \in Views /\ ~viewWindow[o]
    /\ grants[o] < MaxGrants
    /\ UNCHANGED <<loaded, kind, refCount, objectCount, serverLocks>>

(* The browser's GetWindow fails: the call returns with the reference kept. *)
NoParentWindow(o) ==
    /\ TakeBrowser(o)
    /\ browser' = [browser EXCEPT ![o] = TRUE]
    /\ grants' = [grants EXCEPT ![o] = @ + 1]
    /\ UNCHANGED <<viewWindow, liveWindow, xaml>>

(* CreateWindowExW fails: the reference is given back.                     *)
NoViewWindowKeepsBrowser(o) ==                                      \* mutant
    /\ TakeBrowser(o)
    /\ browser' = [browser EXCEPT ![o] = TRUE]
    /\ UNCHANGED <<grants, viewWindow, liveWindow, xaml>>

NoViewWindow(o) ==
    /\ TakeBrowser(o)
    /\ browser' = [browser EXCEPT ![o] = FALSE]
    /\ UNCHANGED <<grants, viewWindow, liveWindow, xaml>>

(* The window is made. An hresult_error on the way to the island is put in *)
(* the window's text and the call succeeds: before the source was made     *)
(* there is nothing to close, after it there is.                           *)
CreateViewWindow(o) ==
    /\ TakeBrowser(o)
    /\ browser' = [browser EXCEPT ![o] = TRUE]
    /\ grants' = [grants EXCEPT ![o] = @ + 1]
    /\ viewWindow' = [viewWindow EXCEPT ![o] = TRUE]
    /\ liveWindow' = [liveWindow EXCEPT ![o] = TRUE]
    /\ \E made \in BOOLEAN : xaml' = [xaml EXCEPT ![o] = made]

(* Explorer destroys the parent window: WM_DESTROY reaches the view's      *)
(* window procedure, which closes the island; m_viewWindow keeps the       *)
(* handle.                                                                 *)
ParentDestroyed(o) ==
    /\ liveWindow[o]
    /\ liveWindow' = [liveWindow EXCEPT ![o] = FALSE]
    /\ xaml' = [xaml EXCEPT ![o] = FALSE]
    /\ UNCHANGED <<loaded, kind, refCount, objectCount, serverLocks,
                   viewWindow, browser, grants>>

LockServer(f, lock) ==
    /\ kind[f] = "ShellClassFactory"
    /\ IF lock
       THEN serverLocks < MaxLocks /\ serverLocks' = serverLocks + 1
       ELSE serverLocks > 0 /\ serverLocks' = serverLocks - 1
    /\ UNCHANGED <<loaded, kind, refCount, objectCount, viewVars>>

CanUnloadIgnoringLocks == objectCount = 0                           \* mutant
DllCanUnloadNow == objectCount = 0 /\ serverLocks = 0

(* CoFreeUnusedLibraries: Explorer frees the DLL when the DLL agrees.      *)
Unload ==
    /\ loaded /\ DllCanUnloadNow
    /\ loaded' = FALSE
    /\ UNCHANGED <<kind, refCount, objectCount, serverLocks, viewVars>>

-----------------------------------------------------------------------------
(* What a shown page starts, outside both counters.                        *)

(* A detached thread is made, or not: thread creation fails, or the limit  *)
(* of actions is reached.                                                  *)
LaunchActionAsync ==
    threads' \in {threads, threads + 1} /\ threads' <= MaxThreads

(* Loaded, the timer, the retry button; any action but a folder.           *)
PageStartsThread(o) == xaml[o] /\ LaunchActionAsync /\ UNCHANGED browsing

(* A click on a folder: NavigateFolderInCurrentView hands a good target to *)
(* the browser, anything else goes to the broker on a thread.              *)
NavigateFolder(o) ==
    /\ xaml[o] /\ ~browsing
    /\ \/ browser[o] /\ browsing' = TRUE /\ UNCHANGED threads
       \/ LaunchActionAsync /\ UNCHANGED browsing

(* BrowseObject returns to the handler, whose view may be gone by now; if  *)
(* it failed, the target goes to the broker after all.                     *)
BrowseReturns ==
    /\ browsing /\ browsing' = FALSE
    /\ UNCHANGED threads \/ LaunchActionAsync

ThreadEnds == threads > 0 /\ threads' = threads - 1 /\ UNCHANGED browsing

-----------------------------------------------------------------------------
ObjectStep ==
    \/ Unload \/ ClassRefused
    \/ \E o \in Objects :
          \/ DllGetClassObject(o) \/ AddRef(o) \/ Release(o)
          \/ NoParentWindow(o) \/ NoViewWindow(o) \/ CreateViewWindow(o)
          \/ DestroyViewWindow(o) \/ ParentDestroyed(o)
          \/ \E f \in Objects :
                CreateInstance(f, o) \/ EnumObjects(f, o) \/ CreateViewObject(f, o) \/ Clone(f, o)
          \/ \E lock \in BOOLEAN : LockServer(o, lock)

CallStep ==
    \/ \E o \in Objects : PageStartsThread(o) \/ NavigateFolder(o)
    \/ BrowseReturns
    \/ ThreadEnds

Next ==
    \/ ObjectStep /\ UNCHANGED callVars
    \/ CallStep /\ UNCHANGED objectVars

Spec == Init /\ [][Next]_vars

-----------------------------------------------------------------------------
(* The counter DllCanUnloadNow reads is the number of objects alive,       *)
(* whichever way they were made and deleted.                               *)
CountExact == objectCount = Cardinality(Live)

(* The DLL leaves the process only when nothing of it is left there: no    *)
(* object, no lock, no window whose procedure is in it and no island.      *)
NothingLeftBehind ==
    ~loaded => /\ Live = {}
               /\ serverLocks = 0
               /\ \A o \in Objects : ~liveWindow[o] /\ ~xaml[o]

(* A window belongs to a living view that has its handle, since the window *)
(* procedure uses the view's address; an island has its window, and the    *)
(* browser that a click on one of its folders navigates.                   *)
WindowInsideView ==
    \A o \in Objects :
        /\ liveWindow[o] => o \in Views /\ viewWindow[o]
        /\ xaml[o] => liveWindow[o] /\ browser[o]

(* The browser pointer never dangles: where it is set, a living view still *)
(* owns a reference to the browser, whichever of CreateViewWindow's         *)
(* outcomes and which destruction came before.                             *)
BrowserHeld == \A o \in Objects : browser[o] => o \in Views /\ grants[o] >= 1

(* What the specification says of a destroyed view: with the last of them  *)
(* the DLL may leave, so by then no callback a page started still runs in  *)
(* it, on a thread or under a click. (loaded is what DllCanUnloadNow lets  *)
(* COM conclude. The C runtime may hold a reference of its own to the      *)
(* module for a thread it started, which puts off the unmapping under a    *)
(* thread; under a click nothing does.)                                    *)
UnloadedIsQuiet == ~loaded => threads = 0 /\ ~browsing
===============================================================================
