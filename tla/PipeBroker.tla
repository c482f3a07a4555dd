----------------------------- MODULE PipeBroker -----------------------------
(***************************************************************************)
(* The broker's request loop (ExplorerWelcome.Broker/Program.cs) and the   *)
(* native clients that call it (SendRequest in NativeUi/broker_client.h)   *)
(* over one named pipe.                                                    *)
(*                                                                         *)
(* The pipe is Windows': the broker asks for at most ONE instance of it,   *)
(* and an instance exists while either of its two handles is open, so a    *)
(* broker cannot create the next one before the last client has closed its *)
(* handle.  Nothing stops a user from starting a second broker process.    *)
(***************************************************************************)
EXTENDS Contracts, Naturals, FiniteSets

CONSTANTS
    Brokers,      \* broker processes
    Clients,      \* callers of the pipe, one outstanding request each
    NoClient,     \* no client has opened the instance
    ClosedEnd,    \* its client has closed its handle again
    Mute,         \* clients that may connect and wait without sending a line
    Holders,      \* clients that may connect and just keep the handle open
    MayCrash,     \* whether a broker process may die
    MaxSnapshots  \* bound on the snapshots collected

ASSUME PipeAssumption ==
    /\ NoClient \notin Clients
    /\ ClosedEnd \notin Clients
    /\ NoClient # ClosedEnd
    /\ Mute \subseteq Clients
    /\ Holders \subseteq Clients
    /\ MayCrash \in BOOLEAN
    /\ MaxSnapshots \in Nat

BrokerSteps == {"down", "create", "open", "reading", "handling", "saving", "writing"}
ClientSteps == {"idle", "waiting", "opening", "sending", "reading", "holding"}

VARIABLES
    bpc,        \* the step each broker is at
    serverEnd,  \* whether its server handle is open
    peer,       \* the client end of its instance
    toServer,   \* the request line in the pipe
    toClient,   \* the reply line in the pipe
    work,       \* the request being handled
    snap,       \* the snapshot collected for it
    cpc,        \* the step each client is at
    want,       \* the request it makes
    cache,      \* the snapshot in snapshot-cache.json, 0 if there is none
    collected,  \* the number of snapshots collected so far
    delivered   \* history: the newest snapshot any client has received

brokerVars == <<bpc, serverEnd, toServer, work, snap>>
clientVars == <<cpc, want>>
dataVars   == <<cache, collected, delivered>>
vars == <<brokerVars, peer, toClient, clientVars, dataVars>>

TypeOK ==
    /\ bpc \in [Brokers -> BrokerSteps]
    /\ serverEnd \in [Brokers -> BOOLEAN]
    /\ peer \in [Brokers -> Clients \cup {NoClient, ClosedEnd}]
    /\ toServer \in [Brokers -> Kinds \cup {NoRequest}]
    /\ toClient \in [Brokers -> Replies \cup {NoReply}]
    /\ work \in [Brokers -> Kinds \cup {NoRequest}]
    /\ snap \in [Brokers -> Nat]
    /\ cpc \in [Clients -> ClientSteps]
    /\ want \in [Clients -> Kinds]
    /\ cache \in Nat
    /\ collected \in Nat
    /\ delivered \in Nat

Init ==
    /\ bpc = [b \in Brokers |-> "down"]
    /\ serverEnd = [b \in Brokers |-> FALSE]
    /\ peer = [b \in Brokers |-> NoClient]
    /\ toServer = [b \in Brokers |-> NoRequest]
    /\ toClient = [b \in Brokers |-> NoReply]
    /\ work = [b \in Brokers |-> NoRequest]
    /\ snap = [b \in Brokers |-> 0]
    /\ cpc = [c \in Clients |-> "idle"]
    /\ want = [c \in Clients |-> "ping"]
    /\ cache = 0
    /\ collected = 0
    /\ delivered = 0

-----------------------------------------------------------------------------
(* The named pipe.                                                         *)

(* An instance lives while one of its two handles is open.                 *)
InstanceExists(b) == serverEnd[b] \/ peer[b] \in Clients

(* An instance a client can open: no client has it yet.                    *)
Available(b) == serverEnd[b] /\ peer[b] = NoClient

(* The broker's handle is closed, by leaving the "await using" scope or by *)
(* the end of the process: what was in the pipe is gone, and the instance  *)
(* too unless its client still holds the other handle.                     *)
CloseServerEnd(b, next) ==
    /\ peer' = [peer EXCEPT ![b] = IF @ \in Clients THEN @ ELSE NoClient]
    /\ bpc' = [bpc EXCEPT ![b] = next]
    /\ serverEnd' = [serverEnd EXCEPT ![b] = FALSE]
    /\ toServer' = [toServer EXCEPT ![b] = NoRequest]
    /\ toClient' = [toClient EXCEPT ![b] = NoReply]
    /\ work' = [work EXCEPT ![b] = NoRequest]
    /\ snap' = [snap EXCEPT ![b] = 0]

-----------------------------------------------------------------------------
(* The broker.                                                             *)

Start(b) ==
    /\ bpc[b] = "down"
    /\ bpc' = [bpc EXCEPT ![b] = "create"]
    /\ UNCHANGED <<serverEnd, toServer, work, snap, peer, toClient, clientVars, dataVars>>

(* The process dies at any point; Windows closes its handle.               *)
Crash(b) ==
    /\ MayCrash
    /\ bpc[b] # "down"
    /\ CloseServerEnd(b, "down")
    /\ UNCHANGED <<clientVars, dataVars>>

(* new NamedPipeServerStream(..., 1, ...): with an instance left anywhere  *)
(* it throws IOException, and the loop tries again at once.                *)
CreateUnlimited(b) ==                                               \* mutant
    /\ bpc[b] = "create"
    /\ ~InstanceExists(b)
    /\ bpc' = [bpc EXCEPT ![b] = "open"]
    /\ serverEnd' = [serverEnd EXCEPT ![b] = TRUE]
    /\ UNCHANGED <<toServer, work, snap, peer, toClient, clientVars, dataVars>>

Create(b) ==
    /\ bpc[b] = "create"
    /\ \A d \in Brokers : ~InstanceExists(d)
    /\ bpc' = [bpc EXCEPT ![b] = "open"]
    /\ serverEnd' = [serverEnd EXCEPT ![b] = TRUE]
    /\ UNCHANGED <<toServer, work, snap, peer, toClient, clientVars, dataVars>>

(* WaitForConnectionAsync returns.                                         *)
Accept(b) ==
    /\ bpc[b] = "open"
    /\ peer[b] \in Clients
    /\ bpc' = [bpc EXCEPT ![b] = "reading"]
    /\ UNCHANGED <<serverEnd, toServer, work, snap, peer, toClient, clientVars, dataVars>>

(* The connection is lost before the broker has a line: the client came    *)
(* and went before WaitForConnectionAsync or left without sending; writing *)
(* the error reply to an empty line fails on the broken pipe.              *)
ConnectionLost(b) ==
    /\ bpc[b] \in {"open", "reading"}
    /\ peer[b] = ClosedEnd
    /\ bpc[b] = "reading" => toServer[b] = NoRequest
    /\ CloseServerEnd(b, "create")
    /\ UNCHANGED <<clientVars, dataVars>>

(* Five seconds have passed since the connection.                          *)
NoReadTimeout(b) == FALSE /\ UNCHANGED vars                         \* mutant
ReadTimeout(b) ==
    /\ bpc[b] = "reading"
    /\ CloseServerEnd(b, "create")
    /\ UNCHANGED <<clientVars, dataVars>>

ReadLine(b) ==
    /\ bpc[b] = "reading"
    /\ toServer[b] # NoRequest
    /\ work' = [work EXCEPT ![b] = toServer[b]]
    /\ toServer' = [toServer EXCEPT ![b] = NoRequest]
    /\ bpc' = [bpc EXCEPT ![b] = "handling"]
    /\ UNCHANGED <<serverEnd, snap, peer, toClient, clientVars, dataVars>>

(* WriteAsync: the line waits in the pipe until the client takes it; on a  *)
(* pipe whose client is gone it fails instead, which WriteEnds covers.     *)
WriteReply(b, reply) ==
    /\ bpc' = [bpc EXCEPT ![b] = "writing"]
    /\ toClient' = [toClient EXCEPT ![b] = IF peer[b] \in Clients THEN reply ELSE NoReply]

(* Every request but a snapshot: the reply is the outcome of one call.     *)
Handle(b) ==
    /\ bpc[b] = "handling"
    /\ work[b] # "snapshot"
    /\ \E type \in ReplyTypes(work[b]) : WriteReply(b, Reply(type, 0, FALSE))
    /\ UNCHANGED <<serverEnd, toServer, work, snap, peer, clientVars, dataVars>>

(* CollectAsync returns a snapshot within its 1.5 seconds.                 *)
Collect(b) ==
    /\ bpc[b] = "handling"
    /\ work[b] = "snapshot"
    /\ collected < MaxSnapshots
    /\ collected' = collected + 1
    /\ snap' = [snap EXCEPT ![b] = collected + 1]
    /\ bpc' = [bpc EXCEPT ![b] = "saving"]
    /\ UNCHANGED <<serverEnd, toServer, work, peer, toClient, clientVars, cache, delivered>>

(* snapshotCache.TrySave, whose failure is ignored, then the fresh reply.  *)
SaveAndReply(b) ==
    /\ bpc[b] = "saving"
    /\ cache' \in {cache, snap[b]}
    /\ WriteReply(b, Reply("snapshot.response", snap[b], FALSE))
    /\ UNCHANGED <<serverEnd, toServer, work, snap, peer, clientVars, collected, delivered>>

(* What WriteStaleOrErrorAsync sends: the cached snapshot, marked stale.   *)
StaleUnmarked == Reply("snapshot.response", cache, FALSE)           \* mutant
StaleOwnType  == Reply("snapshot.stale", cache, TRUE)               \* mutant
StaleReply == Reply("snapshot.response", cache, TRUE)

(* Collection timed out or failed; the cache may be unreadable as well.    *)
WriteStaleForMetrics(b) ==                                          \* mutant
    /\ bpc[b] = "handling"
    /\ work[b] \in {"snapshot", "metrics"}
    /\ \/ cache # 0 /\ WriteReply(b, StaleReply)
       \/ WriteReply(b, Reply("snapshot.error", 0, FALSE))
    /\ UNCHANGED <<serverEnd, toServer, work, snap, peer, clientVars, dataVars>>

WriteStaleOrError(b) ==
    /\ bpc[b] = "handling"
    /\ work[b] = "snapshot"
    /\ \/ cache # 0 /\ WriteReply(b, StaleReply)
       \/ WriteReply(b, Reply("snapshot.error", 0, FALSE))
    /\ UNCHANGED <<serverEnd, toServer, work, snap, peer, clientVars, dataVars>>

(* The write has completed, or failed because the client is gone. The code *)
(* disposes of its end as soon as the line is written, but the instance    *)
(* lives on until the client, which reads and closes, has closed its own:  *)
(* the endpoint is as unavailable in between, and so one step does for     *)
(* both closes.                                                            *)
WriteEnds(b) ==
    /\ bpc[b] = "writing"
    /\ peer[b] = ClosedEnd
    /\ CloseServerEnd(b, "create")
    /\ UNCHANGED <<clientVars, dataVars>>

BrokerStep(b) ==
    \/ Create(b)
    \/ Accept(b)
    \/ ConnectionLost(b)
    \/ ReadTimeout(b)
    \/ ReadLine(b)
    \/ Handle(b)
    \/ Collect(b)
    \/ SaveAndReply(b)
    \/ WriteStaleOrError(b)
    \/ WriteEnds(b)

-----------------------------------------------------------------------------
(* The clients: SendRequest.                                               *)

(* The client closes its handle and returns to its caller.                 *)
CloseClientEnd(c) ==
    /\ peer' = [b \in Brokers |->
                  IF peer[b] # c THEN peer[b]
                  ELSE IF serverEnd[b] THEN ClosedEnd ELSE NoClient]
    /\ toClient' = [b \in Brokers |-> IF peer[b] = c THEN NoReply ELSE toClient[b]]
    /\ cpc' = [cpc EXCEPT ![c] = "idle"]
    /\ want' = [want EXCEPT ![c] = "ping"]

Goto(c, step) == cpc' = [cpc EXCEPT ![c] = step]

Ask(c) ==
    /\ cpc[c] = "idle"
    /\ \E k \in Kinds : want' = [want EXCEPT ![c] = k]
    /\ Goto(c, "waiting")
    /\ UNCHANGED <<brokerVars, peer, toClient, dataVars>>

(* WaitNamedPipeW finds an instance free; it does not reserve it.          *)
WaitPipe(c) ==
    /\ cpc[c] = "waiting"
    /\ \E b \in Brokers : Available(b)
    /\ Goto(c, "opening")
    /\ UNCHANGED <<brokerVars, peer, toClient, want, dataVars>>

(* WaitNamedPipeW fails: no instance exists, or none is free for 500 ms.   *)
(* CreateFileW fails: another client was faster.                           *)
Offline(c) ==
    /\ cpc[c] \in {"waiting", "opening"}
    /\ \A b \in Brokers : ~Available(b)
    /\ CloseClientEnd(c)
    /\ UNCHANGED <<brokerVars, dataVars>>

Open(c) ==
    /\ cpc[c] = "opening"
    /\ \E b \in Brokers : /\ Available(b)
                          /\ peer' = [peer EXCEPT ![b] = c]
    /\ Goto(c, "sending")
    /\ UNCHANGED <<brokerVars, toClient, want, dataVars>>

Send(c) ==
    /\ cpc[c] = "sending"
    /\ \E b \in Brokers : /\ peer[b] = c
                          /\ serverEnd[b]
                          /\ toServer' = [toServer EXCEPT ![b] = want[c]]
    /\ Goto(c, "reading")
    /\ UNCHANGED <<bpc, serverEnd, work, snap, peer, toClient, want, dataVars>>

(* WriteFile or ReadFile fails: the broker has closed its handle.          *)
BrokenOnWrite(c) ==                                                 \* mutant
    /\ cpc[c] = "sending"
    /\ \E b \in Brokers : peer[b] = c /\ ~serverEnd[b]
    /\ CloseClientEnd(c)
    /\ UNCHANGED <<brokerVars, dataVars>>

Broken(c) ==
    /\ cpc[c] \in {"sending", "reading"}
    /\ \E b \in Brokers : peer[b] = c /\ ~serverEnd[b]
    /\ CloseClientEnd(c)
    /\ UNCHANGED <<brokerVars, dataVars>>

(* ReadFile returns the reply line.                                        *)
Receive(c) ==
    /\ cpc[c] = "reading"
    /\ \E b \in Brokers :
          /\ peer[b] = c
          /\ toClient[b] # NoReply
          /\ delivered' = IF toClient[b].snap > delivered THEN toClient[b].snap
                                                          ELSE delivered
    /\ CloseClientEnd(c)
    /\ UNCHANGED <<brokerVars, cache, collected>>

(* The client process ends in the middle of a call.                        *)
Abandon(c) ==
    /\ cpc[c] # "idle"
    /\ CloseClientEnd(c)
    /\ UNCHANGED <<brokerVars, dataVars>>

(* A client of another kind connects and waits without sending a line.     *)
KeepMute(c) ==
    /\ c \in Mute
    /\ cpc[c] = "sending"
    /\ Goto(c, "reading")
    /\ UNCHANGED <<brokerVars, peer, toClient, want, dataVars>>

(* ... or connects and does nothing at all.                                *)
Hold(c) ==
    /\ c \in Holders
    /\ cpc[c] = "sending"
    /\ Goto(c, "holding")
    /\ UNCHANGED <<brokerVars, peer, toClient, want, dataVars>>

ClientStep(c) ==
    \/ WaitPipe(c)
    \/ Offline(c)
    \/ Open(c)
    \/ Send(c)
    \/ Broken(c)
    \/ Receive(c)

Next ==
    \/ \E b \in Brokers : Start(b) \/ Crash(b) \/ BrokerStep(b)
    \/ \E c \in Clients :
          Ask(c) \/ ClientStep(c) \/ Abandon(c) \/ KeepMute(c) \/ Hold(c)

Spec == Init /\ [][Next]_vars

(* Processes are scheduled and calls return: a broker that runs takes its  *)
(* next step, its timeout included, and so does a client in SendRequest.   *)
(* Nothing obliges anyone to start, to crash or to ask.                    *)
Fairness ==
    /\ \A b \in Brokers : WF_vars(BrokerStep(b))
    /\ \A c \in Clients : WF_vars(ClientStep(c))

FairSpec == Spec /\ Fairness

-----------------------------------------------------------------------------
(* What the clients and the cache file see of all this is BrokerService.   *)

Asked   == [c \in Clients |-> IF cpc[c] = "idle" THEN NoRequest ELSE want[c]]
Waiting == {c \in Clients :
               \/ cpc[c] \in {"waiting", "opening", "sending"}
               \/ \E b \in Brokers : peer[b] = c /\ toServer[b] # NoRequest}
Served  == {c \in Clients :
               \E b \in Brokers : peer[b] = c /\ bpc[b] \in {"handling", "saving", "writing"}}
Ready   == {<<peer[b], toClient[b]>> : b \in {d \in Brokers : toClient[d] # NoReply}}

Service == INSTANCE BrokerService
    WITH asked <- Asked, waiting <- Waiting, served <- Served, ready <- Ready

(* However many brokers run, crash and time out, and whatever the clients  *)
(* do: requests are served one at a time and each at most once, whoever    *)
(* asked gets an answer to what it asked, a snapshot it has not seen comes *)
(* unmarked, and the cache only takes the last snapshot.                   *)
ServiceSpec == Service!Spec

-----------------------------------------------------------------------------
(* Safety.                                                                 *)

(* One pipe instance in the whole session, however many brokers run: so at *)
(* most one request is handled at a time, and the cache and preference     *)
(* files have one writer although no lock guards them.                     *)
OneEndpoint ==
    \A b, d \in Brokers : InstanceExists(b) /\ InstanceExists(d) => b = d

(* A reply reaches the client that asked for it: what lies in the pipe is  *)
(* of a type that answers the request of the client holding the other end, *)
(* across timeouts, crashes and clients that come and go.                  *)
AnswersItsRequest ==
    \A b \in Brokers :
        toClient[b] # NoReply =>
            /\ peer[b] \in Clients
            /\ toClient[b].type \in ReplyTypes(want[peer[b]])

(* An unmarked snapshot is news: newer than all any client has received.   *)
FreshIsNew ==
    \A b \in Brokers :
        toClient[b].type = "snapshot.response" /\ ~toClient[b].stale
            => toClient[b].snap > delivered

(* The cache never goes back to an older snapshot, whichever broker saves, *)
(* and whenever one dies between collecting and saving.                    *)
CacheNeverGoesBack == [][cache' >= cache]_vars

-----------------------------------------------------------------------------
(* Liveness.                                                               *)

(* A broker that stays up keeps an endpoint clients can open coming back,  *)
(* through mute clients, callers that end in mid-call and another broker   *)
(* that crashes again and again, except while a client that connected just *)
(* keeps its handle open.                                                  *)
EndpointUnlessHeld ==
    (\E b \in Brokers : <>[](bpc[b] # "down"))
        => []<>(\/ \E b \in Brokers : Available(b)
                \/ \E c \in Holders : cpc[c] = "holding")

(* The same with no exception: what the specification says of one bad      *)
(* client.                                                                 *)
EndpointReturns ==
    (\E b \in Brokers : <>[](bpc[b] # "down")) => []<>(\E b \in Brokers : Available(b))
=============================================================================
