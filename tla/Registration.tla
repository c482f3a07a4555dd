----------------------------- MODULE Registration -----------------------------
(***************************************************************************)
(* register-explorer-component.ps1: the per-user registry keys of one      *)
(* CLSID, written and removed one after the other. Any cmdlet may throw    *)
(* ($ErrorActionPreference = 'Stop') or the window may be closed, and the  *)
(* script may be run again with other arguments.                           *)
(***************************************************************************)
CONSTANTS
    Locations,    \* values of -Location
    Servers,      \* DLL paths that pass the checks of -ServerPath
    NoServer      \* -ServerPath left out; also: no such value in the registry

ASSUME RegistrationAssumption == NoServer \notin Servers

VARIABLES
    clsidKey,     \* does ...\CLSID\{clsid} exist?
    server,       \* the default value of its InprocServer32, or NoServer
    threading,    \* is ThreadingModel set there?
    namespace,    \* the locations with a NameSpace\{clsid} key
    pc,           \* the next step of the running script, or "idle"
    args,         \* the arguments it was given
    result        \* what the last run came to

vars == <<clsidKey, server, threading, namespace, pc, args, result>>
keys == <<clsidKey, server, threading, namespace>>

Arguments == [location : Locations, server : Servers \cup {NoServer}, force : BOOLEAN]

After == [clsid |-> "server", server |-> "threading", threading |-> "namespace",
          namespace |-> "registered", registered |-> "idle",
          removeNamespace |-> "removeClsid", removeClsid |-> "unregistered",
          unregistered |-> "idle"]

TypeOK ==
    /\ clsidKey \in BOOLEAN
    /\ server \in Servers \cup {NoServer}
    /\ threading \in BOOLEAN
    /\ namespace \subseteq Locations
    /\ pc \in {"idle"} \cup DOMAIN After
    /\ args \in Arguments
    /\ result \in {"none", "refused", "failed", "registered", "unregistered"}

Init ==
    /\ clsidKey = FALSE
    /\ server = NoServer
    /\ threading = FALSE
    /\ namespace = {}
    /\ pc = "idle"
    /\ args \in Arguments
    /\ result = "none"

-----------------------------------------------------------------------------
(* Register checks before it writes: a server must be given, and one that  *)
(* is registered already is only replaced with -Force.                     *)
MayReplaceAny(a) == a.server # NoServer                             \* mutant
MayRegister(a) ==
    /\ a.server # NoServer
    /\ server \in {NoServer, a.server} \/ a.force

(* Unregister checks the expected server when one is given.                *)
MayUnregister(a) == server = NoServer \/ a.server \in {NoServer, server} \/ a.force

(* The script ends without a change, or goes on to a first step.           *)
Start(a, step, r) ==
    /\ args' = a /\ pc' = step /\ result' = r
    /\ UNCHANGED keys

Register(a) ==
    /\ pc = "idle"
    /\ IF MayRegister(a) THEN Start(a, "clsid", "none") ELSE Start(a, "idle", "refused")

Unregister(a) ==
    /\ pc = "idle"
    /\ IF ~clsidKey /\ a.location \notin namespace THEN Start(a, "idle", "unregistered")
       ELSE IF MayUnregister(a) THEN Start(a, "removeNamespace", "none")
       ELSE Start(a, "idle", "refused")

Step(s) == pc = s /\ pc' = After[s] /\ UNCHANGED args

(* New-Item -Force makes the CLSID key anew: all that was under it is gone. *)
WriteClsid ==
    /\ Step("clsid")
    /\ clsidKey' = TRUE /\ server' = NoServer /\ threading' = FALSE
    /\ UNCHANGED <<namespace, result>>

WriteServer ==
    /\ Step("server")
    /\ server' = args.server
    /\ UNCHANGED <<clsidKey, threading, namespace, result>>

(* ThreadingModel, and the pin when asked for.                             *)
WriteThreading ==
    /\ Step("threading")
    /\ threading' = TRUE
    /\ UNCHANGED <<clsidKey, server, namespace, result>>

(* The NameSpace key comes last: it is what makes Explorer load the DLL.   *)
WriteNamespace ==
    /\ Step("namespace")
    /\ namespace' = namespace \cup {args.location}
    /\ UNCHANGED <<clsidKey, server, threading, result>>

RemoveNamespace ==
    /\ Step("removeNamespace")
    /\ namespace' = namespace \ {args.location}
    /\ UNCHANGED <<clsidKey, server, threading, result>>

RemoveClsid ==
    /\ Step("removeClsid")
    /\ clsidKey' = FALSE /\ server' = NoServer /\ threading' = FALSE
    /\ UNCHANGED <<namespace, result>>

(* Explorer is told, which may fail like any write (Add-Type compiles);    *)
(* only then does the run say what it came to.                             *)
InvokeShellAssociationRefresh ==
    /\ pc \in {"registered", "unregistered"}
    /\ Step(pc)
    /\ result' = pc
    /\ UNCHANGED keys

(* A cmdlet throws, or the run is stopped: what was written stays.         *)
FailContinues ==                                                    \* mutant
    /\ pc # "idle"
    /\ pc' = After[pc]
    /\ result' = IF After[pc] = "idle" THEN pc ELSE result
    /\ UNCHANGED <<keys, args>>

FailForgotten ==                                                    \* mutant
    /\ pc # "idle"
    /\ pc' = "failed"
    /\ UNCHANGED <<keys, args, result>>

Fail ==
    /\ pc # "idle"
    /\ pc' = "idle" /\ result' = "failed"
    /\ UNCHANGED <<keys, args>>

Next ==
    \/ \E a \in Arguments : Register(a) \/ Unregister(a)
    \/ WriteClsid \/ WriteServer \/ WriteThreading \/ WriteNamespace
    \/ RemoveNamespace \/ RemoveClsid \/ InvokeShellAssociationRefresh \/ Fail

Spec == Init /\ [][Next]_vars

-----------------------------------------------------------------------------
(* Explorer is shown an entry only once there is a complete server behind  *)
(* it, whatever earlier runs left.                                         *)
EntryPublishedLast ==
    [][namespace' \subseteq namespace \/ (clsidKey /\ server # NoServer /\ threading)]_vars

(* A registered server is replaced or removed only by a run that names it, *)
(* by an Unregister that names none, or with -Force.                       *)
ForeignServerKept ==
    [][server # NoServer /\ server' # server
       => args.force \/ args.server \in {server, NoServer}]_vars

(* A run that ends in "Registered" leaves the registration whole, however  *)
(* many failed runs came before.                                           *)
RegisteredIsWhole ==
    result = "registered" =>
        /\ clsidKey /\ threading /\ server = args.server /\ server # NoServer
        /\ args.location \in namespace

(* A run that ends in "Unregistered" (or finds nothing to remove) leaves   *)
(* no CLSID, no server and no entry at the location it was given, however  *)
(* many failed runs came before.                                           *)
UnregisteredHere ==
    result = "unregistered" =>
        ~clsidKey /\ server = NoServer /\ args.location \notin namespace
===============================================================================
