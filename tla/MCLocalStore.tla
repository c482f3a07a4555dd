---------------------------- MODULE MCLocalStore ----------------------------
(* Two preferences of two values each and two snapshots: enough for an     *)
(* update to name one preference, both or none.                            *)
EXTENDS LocalStore

MCDefaults == [k \in Keys |-> "default"]
=============================================================================
