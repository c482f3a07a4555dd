----------------------------- MODULE Contracts -----------------------------
(* The requests PipeRequestParser knows, and the replies Program.cs builds  *)
(* of them (ExplorerWelcome.Contracts/PipeContracts.cs).                   *)
EXTENDS Naturals

(* Request types, with "invalid" for a line that is too long, malformed or *)
(* of a type the broker does not know.                                     *)
Kinds == {"ping", "snapshot", "metrics", "action", "preferences", "invalid"}

(* The replies the broker has for each request.                            *)
ReplyTypes(kind) ==
    CASE kind = "ping"        -> {"host.pong"}
      [] kind = "snapshot"    -> {"snapshot.response", "snapshot.error"}
      [] kind = "metrics"     -> {"metrics.response", "metrics.error"}
      [] kind = "action"      -> {"action.accepted", "action.rejected"}
      [] kind = "preferences" -> {"preferences.accepted", "preferences.rejected"}
      [] OTHER                -> {"error"}

(* A reply: its type and, for a snapshot, which one and whether it is      *)
(* marked stale.  Snapshots are numbered in the order of their collection. *)
Reply(type, snap, stale) == [type |-> type, snap |-> snap, stale |-> stale]
Replies == [type : UNION {ReplyTypes(k) : k \in Kinds}, snap : Nat, stale : BOOLEAN]

NoRequest == "none"
NoReply   == [type |-> "none", snap |-> 0, stale |-> FALSE]
=============================================================================
