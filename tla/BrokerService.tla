--------------------------- MODULE BrokerService ---------------------------
(***************************************************************************)
(* What the broker promises those who call it, whatever runs behind the    *)
(* pipe: one request is served at a time, a request is served at most      *)
(* once, and the answer is to what was asked.  A snapshot without the      *)
(* stale mark is the last one collected and nobody has received it yet;    *)
(* the cache offers older ones with the mark.                              *)
(***************************************************************************)
EXTENDS Contracts

CONSTANT Clients

VARIABLES
    asked,      \* the request each client waits with, NoRequest if it has none
    waiting,    \* the clients whose request has not been looked at
    served,     \* the client being served, if there is one
    ready,      \* the answer it can take, if there is one: <<client, reply>>
    cache,      \* the snapshot in the cache file, 0 if there is none
    collected,  \* the number of snapshots collected so far
    delivered   \* the newest snapshot any client has received

vars == <<asked, waiting, served, ready, cache, collected, delivered>>

Init ==
    /\ asked = [c \in Clients |-> NoRequest]
    /\ waiting = {} /\ served = {} /\ ready = {}
    /\ cache = 0 /\ collected = 0 /\ delivered = 0

Ask(c, kind) ==
    /\ asked[c] = NoRequest
    /\ asked' = [asked EXCEPT ![c] = kind]
    /\ waiting' = waiting \cup {c}
    /\ UNCHANGED <<served, ready, cache, collected, delivered>>

(* A request is lost, or its client never sends it.                        *)
Lose(c) ==
    /\ c \in waiting
    /\ waiting' = waiting \ {c}
    /\ UNCHANGED <<asked, served, ready, cache, collected, delivered>>

Serve(c) ==
    /\ served = {}
    /\ c \in waiting
    /\ waiting' = waiting \ {c}
    /\ served' = {c}
    /\ UNCHANGED <<asked, ready, cache, collected, delivered>>

(* A snapshot is collected while no answer is ready; its client may have   *)
(* left meanwhile, and then it is only saved.                              *)
Collect ==
    /\ ready = {}
    /\ collected' = collected + 1
    /\ UNCHANGED <<asked, waiting, served, ready, cache, delivered>>

Save ==
    /\ served = {}
    /\ cache' = collected
    /\ UNCHANGED <<asked, waiting, served, ready, collected, delivered>>

(* The three kinds of answer.                                              *)
AnswerFresh(c) ==
    /\ ready = {} /\ c \in served /\ asked[c] = "snapshot"
    /\ collected > delivered
    /\ ready' = {<<c, Reply("snapshot.response", collected, FALSE)>>}
    /\ cache' \in {cache, collected}
    /\ UNCHANGED <<asked, waiting, served, collected, delivered>>

AnswerStale(c) ==
    /\ ready = {} /\ c \in served /\ asked[c] = "snapshot"
    /\ cache # 0
    /\ ready' = {<<c, Reply("snapshot.response", cache, TRUE)>>}
    /\ UNCHANGED <<asked, waiting, served, cache, collected, delivered>>

AnswerPlain(c, type) ==
    /\ ready = {} /\ c \in served
    /\ type \in ReplyTypes(asked[c]) \ {"snapshot.response"}
    /\ ready' = {<<c, Reply(type, 0, FALSE)>>}
    /\ UNCHANGED <<asked, waiting, served, cache, collected, delivered>>

(* The request is over: its client goes on without it.                     *)
Forget(c) ==
    /\ asked' = [asked EXCEPT ![c] = NoRequest]
    /\ waiting' = waiting \ {c}
    /\ served' = served \ {c}
    /\ ready' = {answer \in ready : answer[1] # c}
    /\ UNCHANGED <<cache, collected>>

Take(c, reply) ==
    /\ <<c, reply>> \in ready
    /\ delivered' = IF reply.snap > delivered THEN reply.snap ELSE delivered
    /\ Forget(c)

GiveUp(c) ==
    /\ asked[c] # NoRequest
    /\ Forget(c)
    /\ UNCHANGED delivered

(* The service breaks off; the request is not served a second time.        *)
BreakOff ==
    /\ served # {}
    /\ served' = {} /\ ready' = {}
    /\ UNCHANGED <<asked, waiting, cache, collected, delivered>>

Next ==
    \/ \E c \in Clients :
          \/ \E kind \in Kinds : Ask(c, kind)
          \/ Lose(c) \/ Serve(c)
          \/ AnswerFresh(c) \/ AnswerStale(c)
          \/ \E type \in ReplyTypes(asked[c]) : AnswerPlain(c, type)
          \/ \E answer \in ready : Take(c, answer[2])
          \/ GiveUp(c)
    \/ Collect \/ Save \/ BreakOff

Spec == Init /\ [][Next]_vars
=============================================================================
