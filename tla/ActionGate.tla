----------------------------- MODULE ActionGate -----------------------------
(***************************************************************************)
(* What LaunchActionAsync promises: of the actions the user starts, some   *)
(* are let through and the others refused, and at most Limit of those let  *)
(* through are ever under way together.                                    *)
(***************************************************************************)
EXTENDS Naturals, FiniteSets

CONSTANTS Calls, Limit

VARIABLE admitted   \* the calls let through and not yet over

Init == admitted = {}

Admit(a) ==
    /\ a \notin admitted
    /\ Cardinality(admitted) < Limit
    /\ admitted' = admitted \cup {a}

Leave(a) ==
    /\ a \in admitted
    /\ admitted' = admitted \ {a}

Next == \E a \in Calls : Admit(a) \/ Leave(a)

Spec == Init /\ [][Next]_admitted
=============================================================================
