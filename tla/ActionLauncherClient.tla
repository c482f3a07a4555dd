------------------------ MODULE ActionLauncherClient ------------------------
(***************************************************************************)
(* LaunchActionAsync of NativeUi/broker_client.h: the static counter that  *)
(* bounds the detached action threads of one Explorer process.  The views  *)
(* of that process have UI threads of their own, so calls overlap; each    *)
(* atomic operation on the counter is a step.                              *)
(***************************************************************************)
EXTENDS Naturals, FiniteSets

CONSTANTS
    Calls,   \* the calls that may be in progress together
    Limit    \* how many action threads may run: 4 in the source

ASSUME LimitAssumption == Limit \in Nat \ {0}

Steps == {"idle", "starting", "running", "refused"}

VARIABLES
    pc,               \* the step each call is at
    inFlightActions   \* the shared counter

vars == <<pc, inFlightActions>>

TypeOK ==
    /\ pc \in [Calls -> Steps]
    /\ inFlightActions \in Nat

Init ==
    /\ pc = [a \in Calls |-> "idle"]
    /\ inFlightActions = 0

Goto(a, step) == pc' = [pc EXCEPT ![a] = step]

(* fetch_add returns the count before it, which decides.                   *)
FullAfterLimit(count) == count > Limit                              \* mutant
Full(count) == count >= Limit

FetchAdd(a) ==
    /\ pc[a] = "idle"
    /\ Goto(a, IF Full(inFlightActions) THEN "refused" ELSE "starting")
    /\ inFlightActions' = inFlightActions + 1

FetchSubTwice(a) ==                                                 \* mutant
    /\ Goto(a, "idle")
    /\ inFlightActions' = inFlightActions - 2

FetchSub(a) ==
    /\ Goto(a, "idle")
    /\ inFlightActions' = inFlightActions - 1

(* Over the limit: take the increment back and drop the action silently.   *)
Refuse(a) == pc[a] = "refused" /\ FetchSub(a)

StartThread(a) ==
    /\ pc[a] = "starting"
    /\ Goto(a, "running")
    /\ UNCHANGED inFlightActions

(* std::thread throws: the catch block takes the increment back.           *)
ForgetCount(a) ==                                                   \* mutant
    /\ pc[a] = "starting"
    /\ Goto(a, "idle")
    /\ UNCHANGED inFlightActions
StartThreadFails(a) == pc[a] = "starting" /\ FetchSub(a)

(* SendRequest has returned or thrown; its answer is ignored either way.   *)
Finish(a) == pc[a] = "running" /\ FetchSub(a)

Step(a) ==
    \/ Refuse(a)
    \/ StartThread(a)
    \/ StartThreadFails(a)
    \/ Finish(a)

Next == \E a \in Calls : FetchAdd(a) \/ Step(a)

Spec == Init /\ [][Next]_vars

(* Every call under way goes on: threads are scheduled and SendRequest     *)
(* returns.                                                                *)
FairSpec == Spec /\ \A a \in Calls : WF_vars(Step(a))

-----------------------------------------------------------------------------
Busy     == {a \in Calls : pc[a] # "idle"}
Admitted == {a \in Calls : pc[a] \in {"starting", "running"}}

(* The counter is the number of calls between an increment and its         *)
(* decrement: nothing leaks on the refused or the failed path, and the     *)
(* unsigned counter never goes below zero.                                 *)
CounterExact == inFlightActions = Cardinality(Busy)

(* Never more than Limit detached action threads.                          *)
AtMostLimit == Cardinality(Admitted) <= Limit

(* The calls let through, as ActionGate sees them.                         *)
Gate == INSTANCE ActionGate WITH admitted <- Admitted
GateSpec == Gate!Spec

(* A burst does not lock the gate for good: if from some point on nobody   *)
(* clicks, the counter returns to zero and actions are let through again.  *)
CounterDrains ==
    <>[][\A a \in Calls : pc[a] = "idle" => pc'[a] = "idle"]_vars => <>[](inFlightActions = 0)
=============================================================================
