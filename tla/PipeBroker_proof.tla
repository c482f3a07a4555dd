-------------------------- MODULE PipeBroker_proof --------------------------
(* Proofs about the pipe, for any sets of brokers and of clients.          *)
EXTENDS PipeBroker, TLAPS

(* Where a broker is says whether it holds a handle and what is in its pipe. *)
HandleInv ==
    \A b \in Brokers :
        /\ serverEnd[b] <=> bpc[b] \notin {"down", "create"}
        /\ ~serverEnd[b] => peer[b] # ClosedEnd
        /\ serverEnd[b] /\ peer[b] = NoClient =>
              bpc[b] = "open" /\ toServer[b] = NoRequest
        /\ toServer[b] # NoRequest => bpc[b] \in {"open", "reading"}
        /\ bpc[b] = "handling" => work[b] # NoRequest
        /\ toClient[b] # NoReply => bpc[b] = "writing" /\ peer[b] \in Clients

(* A client whose handle is open is in the middle of a call, and the line  *)
(* it sent is the request it still waits for.                              *)
RequestInv ==
    \A b \in Brokers : peer[b] \in Clients =>
        /\ cpc[peer[b]] \in {"sending", "reading", "holding"}
        /\ cpc[peer[b]] # "reading" =>
              toServer[b] = NoRequest /\ bpc[b] \in {"open", "reading", "down",
              "create"}
        /\ toServer[b] # NoRequest => toServer[b] = want[peer[b]]
        /\ bpc[b] \in {"handling", "saving"} => work[b] = want[peer[b]]

(* Between collection and reply, the snapshot of the one busy broker is the *)
(* last collected and nobody has seen it yet.                              *)
SnapshotInv ==
    /\ cache <= collected
    /\ delivered <= collected
    /\ \A b \in Brokers :
          /\ bpc[b] = "saving" =>
                work[b] = "snapshot" /\ snap[b] = collected /\ snap[b] > delivered
          /\ toClient[b].snap <= collected

IInv ==
    /\ TypeOK
    /\ OneEndpoint
    /\ HandleInv
    /\ RequestInv
    /\ SnapshotInv
    /\ AnswersItsRequest
    /\ FreshIsNew

(* No broker runs at first: the invariant holds.                            *)
LEMMA InitInv == Init => IInv
BY PipeAssumption
   DEF Init, IInv, TypeOK, OneEndpoint, InstanceExists, HandleInv, RequestInv,
       SnapshotInv,
       AnswersItsRequest, FreshIsNew, NoReply, NoRequest, BrokerSteps, ClientSteps,
       Kinds

-----------------------------------------------------------------------------
(* The three effects most steps share, each shown to keep the invariant.   *)

(* A broker that gives up its handle.                                      *)
LEMMA CloseServerKeeps ==
    ASSUME IInv, NEW b \in Brokers, NEW next \in {"down", "create"},
           CloseServerEnd(b, next), UNCHANGED <<clientVars, dataVars>>
    PROVE  IInv'
<1> USE PipeAssumption DEF IInv, CloseServerEnd, clientVars, dataVars
<1>1. TypeOK'
  BY DEF TypeOK, BrokerSteps, ClientSteps
<1>2. OneEndpoint'
  BY DEF TypeOK, OneEndpoint, InstanceExists, HandleInv
<1>3. HandleInv'
  BY DEF TypeOK, HandleInv, NoRequest
<1>4. RequestInv'
  BY DEF TypeOK, RequestInv, OneEndpoint, InstanceExists, HandleInv, NoRequest
<1>5. SnapshotInv'
  BY DEF TypeOK, SnapshotInv, HandleInv, OneEndpoint, InstanceExists, NoReply
<1>6. AnswersItsRequest'
  BY DEF TypeOK, AnswersItsRequest, HandleInv, RequestInv, OneEndpoint, InstanceExists
<1>7. FreshIsNew'
  BY DEF TypeOK, FreshIsNew, SnapshotInv, HandleInv, OneEndpoint, InstanceExists,
         NoReply
<1> QED BY <1>1, <1>2, <1>3, <1>4, <1>5, <1>6, <1>7 DEF IInv

(* A client that gives up its handle, having perhaps received the reply.   *)
LEMMA CloseClientKeeps ==
    ASSUME IInv, NEW c \in Clients, CloseClientEnd(c),
           UNCHANGED <<brokerVars, cache, collected>>,
           \/ delivered' = delivered
           \/ \E b \in Brokers : /\ peer[b] = c
                                 /\ toClient[b] # NoReply
                                 /\ delivered' = toClient[b].snap
    PROVE  IInv'
<1> USE PipeAssumption DEF IInv, CloseClientEnd, brokerVars
<1>1. TypeOK'
  BY DEF TypeOK, BrokerSteps, ClientSteps, Kinds, Replies, NoReply
<1>2. OneEndpoint'
  BY DEF TypeOK, OneEndpoint, InstanceExists, HandleInv
<1>3. HandleInv'
  BY DEF TypeOK, HandleInv, NoRequest, NoReply
<1>4. RequestInv'
  BY DEF TypeOK, RequestInv, OneEndpoint, InstanceExists, HandleInv, NoRequest
<1>5. SnapshotInv'
  BY DEF TypeOK, SnapshotInv, HandleInv, OneEndpoint, InstanceExists, NoReply, Replies
<1>6. AnswersItsRequest'
  BY DEF TypeOK, AnswersItsRequest, HandleInv, RequestInv, OneEndpoint, InstanceExists
<1>7. FreshIsNew'
  BY DEF TypeOK, FreshIsNew, SnapshotInv, HandleInv, OneEndpoint, InstanceExists,
         NoReply, Replies
<1> QED BY <1>1, <1>2, <1>3, <1>4, <1>5, <1>6, <1>7 DEF IInv

(* A broker that writes the reply to the request it works on.              *)
LEMMA ReplyKeeps ==
    ASSUME IInv, NEW b \in Brokers, NEW reply \in Replies,
           bpc[b] \in {"handling", "saving"},
           WriteReply(b, reply),
           reply.type \in ReplyTypes(work[b]),
           reply.snap <= collected,
           reply.type = "snapshot.response" /\ ~reply.stale => reply.snap > delivered,
           UNCHANGED <<serverEnd, toServer, work, snap, peer, clientVars, collected,
           delivered>>,
           cache' \in Nat, cache' <= collected
    PROVE  IInv'
<1> USE PipeAssumption DEF IInv, WriteReply, clientVars
<1>1. TypeOK'
  BY DEF TypeOK, BrokerSteps, ClientSteps
<1>2. OneEndpoint'
  BY DEF TypeOK, OneEndpoint, InstanceExists, HandleInv
<1>3. HandleInv'
  BY DEF TypeOK, HandleInv, NoRequest
<1>4. RequestInv'
  BY DEF TypeOK, RequestInv, OneEndpoint, InstanceExists, HandleInv, NoRequest
<1>5. SnapshotInv'
  BY DEF TypeOK, SnapshotInv, HandleInv, OneEndpoint, InstanceExists, NoReply
<1>6. AnswersItsRequest'
  BY DEF TypeOK, AnswersItsRequest, HandleInv, RequestInv, OneEndpoint, InstanceExists
<1>7. FreshIsNew'
  BY DEF TypeOK, FreshIsNew, SnapshotInv, HandleInv, OneEndpoint, InstanceExists,
         NoReply
<1> QED BY <1>1, <1>2, <1>3, <1>4, <1>5, <1>6, <1>7 DEF IInv

-----------------------------------------------------------------------------
(* What the reply to each kind of request may be.                          *)
LEMMA ReplyTypesTyped ==
    ASSUME NEW kind \in Kinds, NEW type \in ReplyTypes(kind),
           NEW n \in Nat, NEW stale \in BOOLEAN
    PROVE  Reply(type, n, stale) \in Replies
BY DEF Reply, Replies

(* Only a snapshot request has snapshots among its replies.                 *)
LEMMA SnapshotReplies ==
    /\ ReplyTypes("snapshot") = {"snapshot.response", "snapshot.error"}
    /\ \A kind \in Kinds \ {"snapshot"} : "snapshot.response" \notin ReplyTypes(kind)
BY DEF ReplyTypes, Kinds

(* Every step of a broker or a client keeps the invariant.                  *)
LEMMA NextInv == IInv /\ [Next]_vars => IInv'
<1> SUFFICES ASSUME IInv, [Next]_vars PROVE IInv'
  OBVIOUS
<1> USE PipeAssumption DEF IInv
<1>1. ASSUME NEW b \in Brokers, Start(b) PROVE IInv'
  <2>1. TypeOK'
    BY <1>1 DEF Start, clientVars, dataVars, TypeOK, BrokerSteps, ClientSteps
  <2>2. OneEndpoint'
    BY <1>1 DEF Start, clientVars, dataVars, TypeOK, OneEndpoint, InstanceExists,
                HandleInv
  <2>3. HandleInv'
    BY <1>1 DEF Start, clientVars, dataVars, TypeOK, HandleInv, NoRequest
  <2>4. RequestInv'
    BY <1>1 DEF Start, clientVars, dataVars, TypeOK, RequestInv, OneEndpoint,
                InstanceExists, HandleInv, NoRequest
  <2>5. SnapshotInv'
    BY <1>1 DEF Start, clientVars, dataVars, TypeOK, SnapshotInv, HandleInv,
                OneEndpoint, InstanceExists, NoReply
  <2>6. AnswersItsRequest'
    BY <1>1 DEF Start, clientVars, dataVars, TypeOK, AnswersItsRequest, HandleInv,
                RequestInv, OneEndpoint, InstanceExists
  <2>7. FreshIsNew'
    BY <1>1 DEF Start, clientVars, dataVars, TypeOK, FreshIsNew, SnapshotInv,
                HandleInv, OneEndpoint, InstanceExists, NoReply
  <2> QED BY <2>1, <2>2, <2>3, <2>4, <2>5, <2>6, <2>7 DEF IInv
<1>2. ASSUME NEW b \in Brokers, Create(b) PROVE IInv'
  <2>1. TypeOK'
    BY <1>2 DEF Create, clientVars, dataVars, TypeOK, BrokerSteps, ClientSteps
  <2>2. OneEndpoint'
    BY <1>2 DEF Create, clientVars, dataVars, TypeOK, OneEndpoint, InstanceExists,
                HandleInv
  <2>3. HandleInv'
    BY <1>2 DEF Create, clientVars, dataVars, TypeOK, HandleInv, NoRequest
  <2>4. RequestInv'
    BY <1>2 DEF Create, clientVars, dataVars, TypeOK, RequestInv, OneEndpoint,
                InstanceExists, HandleInv, NoRequest
  <2>5. SnapshotInv'
    BY <1>2 DEF Create, clientVars, dataVars, TypeOK, SnapshotInv, HandleInv,
                OneEndpoint, InstanceExists, NoReply
  <2>6. AnswersItsRequest'
    BY <1>2 DEF Create, clientVars, dataVars, TypeOK, AnswersItsRequest, HandleInv,
                RequestInv, OneEndpoint, InstanceExists
  <2>7. FreshIsNew'
    BY <1>2 DEF Create, clientVars, dataVars, TypeOK, FreshIsNew, SnapshotInv,
                HandleInv, OneEndpoint, InstanceExists, NoReply
  <2> QED BY <2>1, <2>2, <2>3, <2>4, <2>5, <2>6, <2>7 DEF IInv
<1>3. ASSUME NEW b \in Brokers, Accept(b) PROVE IInv'
  <2>1. TypeOK'
    BY <1>3 DEF Accept, clientVars, dataVars, TypeOK, BrokerSteps, ClientSteps
  <2>2. OneEndpoint'
    BY <1>3 DEF Accept, clientVars, dataVars, TypeOK, OneEndpoint, InstanceExists,
                HandleInv
  <2>3. HandleInv'
    BY <1>3 DEF Accept, clientVars, dataVars, TypeOK, HandleInv, NoRequest
  <2>4. RequestInv'
    BY <1>3 DEF Accept, clientVars, dataVars, TypeOK, RequestInv, OneEndpoint,
                InstanceExists, HandleInv, NoRequest
  <2>5. SnapshotInv'
    BY <1>3 DEF Accept, clientVars, dataVars, TypeOK, SnapshotInv, HandleInv,
                OneEndpoint, InstanceExists, NoReply
  <2>6. AnswersItsRequest'
    BY <1>3 DEF Accept, clientVars, dataVars, TypeOK, AnswersItsRequest, HandleInv,
                RequestInv, OneEndpoint, InstanceExists
  <2>7. FreshIsNew'
    BY <1>3 DEF Accept, clientVars, dataVars, TypeOK, FreshIsNew, SnapshotInv,
                HandleInv, OneEndpoint, InstanceExists, NoReply
  <2> QED BY <2>1, <2>2, <2>3, <2>4, <2>5, <2>6, <2>7 DEF IInv
<1>4. ASSUME NEW b \in Brokers, ReadLine(b) PROVE IInv'
  <2>1. TypeOK'
    BY <1>4 DEF ReadLine, clientVars, dataVars, TypeOK, BrokerSteps, ClientSteps
  <2>2. OneEndpoint'
    BY <1>4 DEF ReadLine, clientVars, dataVars, TypeOK, OneEndpoint, InstanceExists,
                HandleInv
  <2>3. HandleInv'
    BY <1>4 DEF ReadLine, clientVars, dataVars, TypeOK, HandleInv, NoRequest
  <2>4. RequestInv'
    BY <1>4 DEF ReadLine, clientVars, dataVars, TypeOK, RequestInv, OneEndpoint,
                InstanceExists, HandleInv, NoRequest
  <2>5. SnapshotInv'
    BY <1>4 DEF ReadLine, clientVars, dataVars, TypeOK, SnapshotInv, HandleInv,
                OneEndpoint, InstanceExists, NoReply
  <2>6. AnswersItsRequest'
    BY <1>4 DEF ReadLine, clientVars, dataVars, TypeOK, AnswersItsRequest, HandleInv,
                RequestInv, OneEndpoint, InstanceExists
  <2>7. FreshIsNew'
    BY <1>4 DEF ReadLine, clientVars, dataVars, TypeOK, FreshIsNew, SnapshotInv,
                HandleInv, OneEndpoint, InstanceExists, NoReply
  <2> QED BY <2>1, <2>2, <2>3, <2>4, <2>5, <2>6, <2>7 DEF IInv
<1>5. ASSUME NEW b \in Brokers, Collect(b) PROVE IInv'
  <2>1. TypeOK'
    BY <1>5 DEF Collect, clientVars, dataVars, TypeOK, BrokerSteps, ClientSteps
  <2>2. OneEndpoint'
    BY <1>5 DEF Collect, clientVars, dataVars, TypeOK, OneEndpoint, InstanceExists,
                HandleInv
  <2>3. HandleInv'
    BY <1>5 DEF Collect, clientVars, dataVars, TypeOK, HandleInv, NoRequest
  <2>4. RequestInv'
    BY <1>5 DEF Collect, clientVars, dataVars, TypeOK, RequestInv, OneEndpoint,
                InstanceExists, HandleInv, NoRequest
  <2>5. SnapshotInv'
    BY <1>5 DEF Collect, clientVars, dataVars, TypeOK, SnapshotInv, HandleInv,
                OneEndpoint, InstanceExists, NoReply
  <2>6. AnswersItsRequest'
    BY <1>5 DEF Collect, clientVars, dataVars, TypeOK, AnswersItsRequest, HandleInv,
                RequestInv, OneEndpoint, InstanceExists
  <2>7. FreshIsNew'
    BY <1>5 DEF Collect, clientVars, dataVars, TypeOK, FreshIsNew, SnapshotInv,
                HandleInv, OneEndpoint, InstanceExists, NoReply
  <2> QED BY <2>1, <2>2, <2>3, <2>4, <2>5, <2>6, <2>7 DEF IInv
<1>6. ASSUME NEW b \in Brokers,
             Crash(b) \/ ConnectionLost(b) \/ ReadTimeout(b) \/ WriteEnds(b)
      PROVE  IInv'
  BY <1>6, CloseServerKeeps DEF Crash, ConnectionLost, ReadTimeout, WriteEnds
<1>7. ASSUME NEW b \in Brokers, Handle(b) PROVE IInv'
  <2>1. PICK type \in ReplyTypes(work[b]) : WriteReply(b, Reply(type, 0, FALSE))
    BY <1>7 DEF Handle
  <2>2. work[b] \in Kinds \ {"snapshot"}
    BY <1>7 DEF Handle, TypeOK, HandleInv, NoRequest
  <2>3. Reply(type, 0, FALSE) \in Replies /\ type # "snapshot.response"
    BY <2>2, ReplyTypesTyped, SnapshotReplies
  <2> QED
    BY <1>7, <2>1, <2>3, ReplyKeeps DEF Handle, Reply, TypeOK, SnapshotInv, dataVars
<1>8. ASSUME NEW b \in Brokers, SaveAndReply(b) PROVE IInv'
  <2> DEFINE reply == Reply("snapshot.response", snap[b], FALSE)
  <2>1. work[b] = "snapshot" /\ snap[b] = collected /\ snap[b] > delivered
    BY <1>8 DEF SaveAndReply, SnapshotInv
  <2>2. reply \in Replies
    BY ReplyTypesTyped, SnapshotReplies DEF TypeOK, Kinds
  <2>3. cache' \in Nat /\ cache' <= collected
    BY <1>8, <2>1 DEF SaveAndReply, SnapshotInv, TypeOK
  <2>4. /\ WriteReply(b, reply)
        /\ bpc[b] \in {"handling", "saving"}
        /\ UNCHANGED <<serverEnd, toServer, work, snap, peer, clientVars, collected, delivered>>
    BY <1>8 DEF SaveAndReply
  <2>5. reply.type \in ReplyTypes(work[b]) /\ reply.snap <= collected /\ reply.snap > delivered
    BY <2>1, SnapshotReplies DEF Reply, TypeOK
  <2> HIDE DEF reply
  <2> QED BY <2>2, <2>3, <2>4, <2>5, ReplyKeeps
<1>9. ASSUME NEW b \in Brokers, WriteStaleOrError(b) PROVE IInv'
  <2>1. PICK reply \in {StaleReply, Reply("snapshot.error", 0, FALSE)} : WriteReply(b, reply)
    BY <1>9 DEF WriteStaleOrError
  <2>2. reply \in Replies
    <3>1. \A type \in ReplyTypes("snapshot"), m \in Nat, stale \in BOOLEAN :
              Reply(type, m, stale) \in Replies
      BY ReplyTypesTyped DEF Kinds
    <3>2. /\ Reply("snapshot.response", cache, TRUE) \in Replies
          /\ Reply("snapshot.error", 0, FALSE) \in Replies
      BY <3>1, SnapshotReplies DEF TypeOK
    <3> QED BY <3>2 DEF StaleReply
  <2>3. /\ bpc[b] \in {"handling", "saving"} /\ work[b] = "snapshot"
        /\ UNCHANGED <<serverEnd, toServer, work, snap, peer, clientVars, dataVars>>
    BY <1>9 DEF WriteStaleOrError
  <2>4. /\ reply.type \in ReplyTypes(work[b]) /\ reply.snap <= collected
        /\ reply.type = "snapshot.response" => reply.stale
    BY <2>3, SnapshotReplies DEF Reply, StaleReply, TypeOK, SnapshotInv
  <2>5. cache' \in Nat /\ cache' <= collected /\ UNCHANGED <<collected, delivered>>
    BY <2>3 DEF dataVars, TypeOK, SnapshotInv
  <2> QED BY <2>1, <2>2, <2>3, <2>4, <2>5, ReplyKeeps
<1>10. ASSUME NEW c \in Clients, Ask(c) PROVE IInv'
  <2>1. TypeOK'
    BY <1>10 DEF Ask, Goto, brokerVars, clientVars, dataVars, TypeOK, BrokerSteps,
                 ClientSteps
  <2>2. OneEndpoint'
    BY <1>10 DEF Ask, Goto, brokerVars, clientVars, dataVars, TypeOK, OneEndpoint,
                 InstanceExists, HandleInv
  <2>3. HandleInv'
    BY <1>10 DEF Ask, Goto, brokerVars, clientVars, dataVars, TypeOK, HandleInv,
                 NoRequest
  <2>4. RequestInv'
    BY <1>10 DEF Ask, Goto, brokerVars, clientVars, dataVars, TypeOK, RequestInv,
                 OneEndpoint, InstanceExists, HandleInv, NoRequest
  <2>5. SnapshotInv'
    BY <1>10 DEF Ask, Goto, brokerVars, clientVars, dataVars, TypeOK, SnapshotInv,
                 HandleInv, OneEndpoint, InstanceExists, NoReply
  <2>6. AnswersItsRequest'
    BY <1>10 DEF Ask, Goto, brokerVars, clientVars, dataVars, TypeOK,
                 AnswersItsRequest, HandleInv, RequestInv, OneEndpoint, InstanceExists
  <2>7. FreshIsNew'
    BY <1>10 DEF Ask, Goto, brokerVars, clientVars, dataVars, TypeOK, FreshIsNew,
                 SnapshotInv, HandleInv, OneEndpoint, InstanceExists, NoReply
  <2> QED BY <2>1, <2>2, <2>3, <2>4, <2>5, <2>6, <2>7 DEF IInv
<1>11. ASSUME NEW c \in Clients, Open(c) PROVE IInv'
  <2>1. TypeOK'
    BY <1>11 DEF Open, Goto, Available, brokerVars, clientVars, dataVars, TypeOK,
                 BrokerSteps, ClientSteps
  <2>2. OneEndpoint'
    BY <1>11 DEF Open, Goto, Available, brokerVars, clientVars, dataVars, TypeOK,
                 OneEndpoint, InstanceExists, HandleInv
  <2>3. HandleInv'
    BY <1>11 DEF Open, Goto, Available, brokerVars, clientVars, dataVars, TypeOK,
                 HandleInv, NoRequest
  <2>4. RequestInv'
    BY <1>11 DEF Open, Goto, Available, brokerVars, clientVars, dataVars, TypeOK,
                 RequestInv, OneEndpoint, InstanceExists, HandleInv, NoRequest
  <2>5. SnapshotInv'
    BY <1>11 DEF Open, Goto, Available, brokerVars, clientVars, dataVars, TypeOK,
                 SnapshotInv, HandleInv, OneEndpoint, InstanceExists, NoReply
  <2>6. AnswersItsRequest'
    BY <1>11 DEF Open, Goto, Available, brokerVars, clientVars, dataVars, TypeOK,
                 AnswersItsRequest, HandleInv, RequestInv, OneEndpoint, InstanceExists
  <2>7. FreshIsNew'
    BY <1>11 DEF Open, Goto, Available, brokerVars, clientVars, dataVars, TypeOK,
                 FreshIsNew, SnapshotInv, HandleInv, OneEndpoint, InstanceExists,
                 NoReply
  <2> QED BY <2>1, <2>2, <2>3, <2>4, <2>5, <2>6, <2>7 DEF IInv
<1>12. ASSUME NEW c \in Clients, Send(c) PROVE IInv'
  <2>1. TypeOK'
    BY <1>12 DEF Send, Goto, brokerVars, clientVars, dataVars, TypeOK, BrokerSteps,
                 ClientSteps
  <2>2. OneEndpoint'
    BY <1>12 DEF Send, Goto, brokerVars, clientVars, dataVars, TypeOK, OneEndpoint,
                 InstanceExists, HandleInv
  <2>3. HandleInv'
    BY <1>12 DEF Send, Goto, TypeOK, HandleInv, RequestInv, NoRequest, Kinds
  <2>4. RequestInv'
    BY <1>12 DEF Send, Goto, brokerVars, clientVars, dataVars, TypeOK, RequestInv,
                 OneEndpoint, InstanceExists, HandleInv, NoRequest
  <2>5. SnapshotInv'
    BY <1>12 DEF Send, Goto, brokerVars, clientVars, dataVars, TypeOK, SnapshotInv,
                 HandleInv, OneEndpoint, InstanceExists, NoReply
  <2>6. AnswersItsRequest'
    BY <1>12 DEF Send, Goto, brokerVars, clientVars, dataVars, TypeOK,
                 AnswersItsRequest, HandleInv, RequestInv, OneEndpoint, InstanceExists
  <2>7. FreshIsNew'
    BY <1>12 DEF Send, Goto, brokerVars, clientVars, dataVars, TypeOK, FreshIsNew,
                 SnapshotInv, HandleInv, OneEndpoint, InstanceExists, NoReply
  <2> QED BY <2>1, <2>2, <2>3, <2>4, <2>5, <2>6, <2>7 DEF IInv
<1>13. ASSUME NEW c \in Clients, WaitPipe(c) \/ KeepMute(c) \/ Hold(c) PROVE IInv'
  <2>1. TypeOK'
    BY <1>13 DEF WaitPipe, KeepMute, Hold, Goto, brokerVars, dataVars, TypeOK,
                 BrokerSteps, ClientSteps
  <2>2. OneEndpoint'
    BY <1>13 DEF WaitPipe, KeepMute, Hold, Goto, brokerVars, dataVars, TypeOK,
                 OneEndpoint, InstanceExists, HandleInv
  <2>3. HandleInv'
    BY <1>13 DEF WaitPipe, KeepMute, Hold, Goto, brokerVars, dataVars, TypeOK,
                 HandleInv, NoRequest
  <2>4. RequestInv'
    BY <1>13 DEF WaitPipe, KeepMute, Hold, Goto, brokerVars, dataVars, TypeOK,
                 RequestInv, OneEndpoint, InstanceExists, HandleInv, NoRequest
  <2>5. SnapshotInv'
    BY <1>13 DEF WaitPipe, KeepMute, Hold, Goto, brokerVars, dataVars, TypeOK,
                 SnapshotInv, HandleInv, OneEndpoint, InstanceExists, NoReply
  <2>6. AnswersItsRequest'
    BY <1>13 DEF WaitPipe, KeepMute, Hold, Goto, brokerVars, dataVars, TypeOK,
                 AnswersItsRequest, HandleInv, RequestInv, OneEndpoint, InstanceExists
  <2>7. FreshIsNew'
    BY <1>13 DEF WaitPipe, KeepMute, Hold, Goto, brokerVars, dataVars, TypeOK,
                 FreshIsNew, SnapshotInv, HandleInv, OneEndpoint, InstanceExists,
                 NoReply
  <2> QED BY <2>1, <2>2, <2>3, <2>4, <2>5, <2>6, <2>7 DEF IInv
<1>14. ASSUME NEW c \in Clients, Offline(c) \/ Broken(c) \/ Receive(c) \/ Abandon(c)
      PROVE  IInv'
  BY <1>14, CloseClientKeeps DEF Offline, Broken, Receive, Abandon, dataVars
<1>15. CASE UNCHANGED vars
  BY <1>15 DEF vars, brokerVars, clientVars, dataVars, TypeOK, OneEndpoint,
               InstanceExists,
             HandleInv, RequestInv, SnapshotInv, AnswersItsRequest, FreshIsNew
<1> QED
  BY <1>1, <1>2, <1>3, <1>4, <1>5, <1>6, <1>7, <1>8, <1>9, <1>10, <1>11, <1>12, <1>13, <1>14, <1>15
  DEF Next, BrokerStep, ClientStep

(* The invariant holds throughout.                                          *)
LEMMA Invariance == Spec => []IInv
BY InitInv, NextInv, PTL DEF Spec

(* Every variable keeps its type.                                          *)
THEOREM TypeCorrect == Spec => []TypeOK
<1>1. IInv => TypeOK BY DEF IInv
<1> QED BY <1>1, Invariance, PTL

(* However many broker processes are started, one of them at most holds    *)
(* the pipe: requests, and with them the files, have one server at a time. *)
THEOREM OneEndpointHolds == Spec => []OneEndpoint
<1>1. IInv => OneEndpoint BY DEF IInv
<1> QED BY <1>1, Invariance, PTL

(* Every reply answers the request of the client it lies in front of.      *)
THEOREM AnswersItsRequestHolds == Spec => []AnswersItsRequest
<1>1. IInv => AnswersItsRequest BY DEF IInv
<1> QED BY <1>1, Invariance, PTL

(* A snapshot sent without the stale mark is newer than all received.      *)
THEOREM FreshIsNewHolds == Spec => []FreshIsNew
<1>1. IInv => FreshIsNew BY DEF IInv
<1> QED BY <1>1, Invariance, PTL

(* The cache file only ever moves forward.                                 *)
THEOREM CacheNeverGoesBackHolds == Spec => CacheNeverGoesBack
<1>1. ASSUME IInv, [Next]_vars PROVE [cache' >= cache]_vars
  <2>1. \A b \in Brokers : SaveAndReply(b) => cache' >= cache
    BY <1>1 DEF IInv, SaveAndReply, SnapshotInv, TypeOK
  <2>2. ~(\E b \in Brokers : SaveAndReply(b)) /\ Next => cache' = cache
    BY DEF Next, BrokerStep, ClientStep, dataVars, Start, Crash, Create, Accept,
           ConnectionLost, ReadTimeout, ReadLine, Handle, Collect, WriteStaleOrError,
           WriteEnds, Ask, WaitPipe, Offline, Open, Send, Broken, Receive, Abandon,
           KeepMute, Hold
  <2> QED BY <1>1, <2>1, <2>2 DEF IInv, TypeOK
<1> QED BY <1>1, Invariance, PTL DEF Spec, CacheNeverGoesBack

-----------------------------------------------------------------------------
(* What the host builds on: a snapshot that is on its way without the mark  *)
(* is the last one that was collected, by whichever broker.                 *)
LatestInv ==
    \A b \in Brokers :
        toClient[b].type = "snapshot.response" /\ ~toClient[b].stale
            => toClient[b].snap = collected

LEMMA LatestInit == Init => LatestInv
BY DEF Init, LatestInv, NoReply

(* Collecting again while a reply lies in the pipe would take a second      *)
(* endpoint.                                                                *)
LEMMA LatestKept == IInv /\ LatestInv /\ [Next]_vars => LatestInv'
<1> SUFFICES ASSUME IInv, LatestInv, [Next]_vars PROVE LatestInv'
  OBVIOUS
<1>1. toClient \in [Brokers -> Replies \cup {NoReply}] BY DEF IInv, TypeOK
<1>2. ASSUME collected' = collected,
             \A b \in Brokers : toClient'[b] = toClient[b] \/ toClient'[b] = NoReply
      PROVE  LatestInv'
  BY <1>2 DEF LatestInv, NoReply
<1>3. ASSUME NEW b \in Brokers, NEW reply \in Replies, collected' = collected,
             WriteReply(b, reply),
             reply.type = "snapshot.response" /\ ~reply.stale => reply.snap = collected
      PROVE  LatestInv'
  <2>1. \A d \in Brokers : toClient'[d] \in {toClient[d], reply, NoReply}
    BY <1>1, <1>3 DEF WriteReply
  <2> QED BY <1>3, <2>1 DEF LatestInv, NoReply
<1>4. ASSUME NEW b \in Brokers, Start(b) \/ Create(b) \/ Accept(b) \/ ReadLine(b)
      PROVE  LatestInv'
  BY <1>2, <1>4 DEF Start, Create, Accept, ReadLine, dataVars
<1>5. ASSUME NEW b \in Brokers,
             Crash(b) \/ ConnectionLost(b) \/ ReadTimeout(b) \/ WriteEnds(b)
      PROVE  LatestInv'
  <2>1. \A d \in Brokers : toClient'[d] = toClient[d] \/ toClient'[d] = NoReply
    BY <1>1, <1>5 DEF Crash, ConnectionLost, ReadTimeout, WriteEnds, CloseServerEnd
  <2>2. collected' = collected
    BY <1>5 DEF Crash, ConnectionLost, ReadTimeout, WriteEnds, dataVars
  <2> QED BY <1>2, <2>1, <2>2
<1>6. ASSUME NEW b \in Brokers, Handle(b) PROVE LatestInv'
  <2>1. PICK type \in ReplyTypes(work[b]) : WriteReply(b, Reply(type, 0, FALSE))
    BY <1>6 DEF Handle
  <2>2. work[b] \in Kinds /\ work[b] # "snapshot"
    BY <1>6 DEF Handle, IInv, HandleInv, TypeOK
  <2>3. type # "snapshot.response" BY <2>1, <2>2 DEF ReplyTypes, Kinds
  <2>4. Reply(type, 0, FALSE) \in Replies BY <2>1, <2>2, ReplyTypesTyped
  <2>5. Reply(type, 0, FALSE).type = type BY DEF Reply
  <2>6. collected' = collected BY <1>6 DEF Handle, dataVars
  <2> QED BY <1>3, <2>1, <2>3, <2>4, <2>5, <2>6
<1>7. ASSUME NEW b \in Brokers, Collect(b) PROVE LatestInv'
  <2>1. bpc[b] = "handling" /\ toClient' = toClient BY <1>7 DEF Collect
  <2>2. ASSUME NEW d \in Brokers PROVE toClient[d] = NoReply
    <3> SUFFICES ASSUME toClient[d] # NoReply PROVE FALSE OBVIOUS
    <3>1. bpc[d] = "writing" BY DEF IInv, HandleInv
    <3>2. InstanceExists(b) /\ InstanceExists(d)
      BY <2>1, <3>1 DEF IInv, HandleInv, InstanceExists
    <3> QED BY <2>1, <3>1, <3>2 DEF IInv, OneEndpoint
  <2> QED BY <2>1, <2>2 DEF LatestInv, NoReply
<1>8. ASSUME NEW b \in Brokers, SaveAndReply(b) PROVE LatestInv'
  <2>1. snap[b] = collected /\ collected \in Nat
    BY <1>8 DEF SaveAndReply, IInv, SnapshotInv, TypeOK
  <2>2. Reply("snapshot.response", snap[b], FALSE) \in Replies
    BY <2>1, SnapshotReplies, ReplyTypesTyped DEF Kinds
  <2>3. Reply("snapshot.response", snap[b], FALSE).snap = snap[b] BY DEF Reply
  <2> QED BY <1>3, <1>8, <2>1, <2>2, <2>3 DEF SaveAndReply
<1>9. ASSUME NEW b \in Brokers, WriteStaleOrError(b) PROVE LatestInv'
  <2>1. cache \in Nat BY DEF IInv, TypeOK
  <2>2. StaleReply \in Replies /\ Reply("snapshot.error", 0, FALSE) \in Replies
    BY <2>1, SnapshotReplies, ReplyTypesTyped DEF StaleReply, Kinds
  <2>3. StaleReply.stale /\ Reply("snapshot.error", 0, FALSE).type = "snapshot.error"
    BY DEF StaleReply, Reply
  <2>4. collected' = collected BY <1>9 DEF WriteStaleOrError, dataVars
  <2> QED BY <1>3, <1>9, <2>2, <2>3, <2>4 DEF WriteStaleOrError
<1>10. ASSUME NEW c \in Clients,
              Ask(c) \/ WaitPipe(c) \/ Open(c) \/ Send(c) \/ KeepMute(c) \/ Hold(c)
       PROVE  LatestInv'
  BY <1>2, <1>10 DEF Ask, WaitPipe, Open, Send, KeepMute, Hold, dataVars
<1>11. ASSUME NEW c \in Clients, Offline(c) \/ Broken(c) \/ Receive(c) \/ Abandon(c)
       PROVE  LatestInv'
  <2>1. \A d \in Brokers : toClient'[d] = toClient[d] \/ toClient'[d] = NoReply
    BY <1>11 DEF Offline, Broken, Receive, Abandon, CloseClientEnd
  <2>2. collected' = collected
    BY <1>11 DEF Offline, Broken, Receive, Abandon, dataVars
  <2> QED BY <1>2, <2>1, <2>2
<1>12. CASE UNCHANGED vars BY <1>2, <1>12 DEF vars, dataVars
<1> QED
  BY <1>4, <1>5, <1>6, <1>7, <1>8, <1>9, <1>10, <1>11, <1>12
     DEF Next, BrokerStep, ClientStep

(* Snapshots are only ever added.                                           *)
LEMMA CollectedGrows ==
    ASSUME TypeOK, [Next]_vars
    PROVE  collected' \in Nat /\ collected' >= collected
<1>1. ASSUME NEW b \in Brokers, Collect(b) PROVE collected' = collected + 1
  BY <1>1 DEF Collect
<1>2. ~(\E b \in Brokers : Collect(b)) => collected' = collected
  BY DEF Next, BrokerStep, ClientStep, dataVars, vars, Start, Crash, Create, Accept,
         ConnectionLost, ReadTimeout, ReadLine, Handle, SaveAndReply, WriteStaleOrError,
         WriteEnds, Ask, WaitPipe, Offline, Open, Send, Broken, Receive, Abandon,
         KeepMute, Hold
<1>3. collected \in Nat BY DEF TypeOK
<1> QED BY <1>1, <1>2, <1>3

-----------------------------------------------------------------------------
(* The brokers and the pipe implement BrokerService.                        *)

Busy == {"handling", "saving", "writing"}

(* Two instances are one.                                                   *)
LEMMA SameInstance ==
    ASSUME IInv, NEW b \in Brokers, NEW d \in Brokers,
           serverEnd[b] \/ peer[b] \in Clients, serverEnd[d] \/ peer[d] \in Clients
    PROVE  b = d
BY DEF IInv, OneEndpoint, InstanceExists

(* Where a broker is says what the others do: while it handles a request,   *)
(* nothing else is being served and no reply lies in any pipe.              *)
LEMMA Alone ==
    ASSUME IInv, NEW b \in Brokers, bpc[b] \notin {"down", "create"}
    PROVE  /\ Served = IF bpc[b] \in Busy /\ peer[b] \in Clients THEN {peer[b]} ELSE {}
           /\ Ready = IF toClient[b] = NoReply THEN {} ELSE {<<peer[b], toClient[b]>>}
           /\ bpc[b] # "writing" => toClient[b] = NoReply
<1>1. serverEnd[b] BY DEF IInv, HandleInv
<1>2. \A d \in Brokers : peer[d] \in Clients => d = b BY <1>1, SameInstance
<1>3. \A d \in Brokers : toClient[d] # NoReply => d = b
  BY <1>2 DEF IInv, HandleInv
<1>4. Served = IF bpc[b] \in Busy /\ peer[b] \in Clients THEN {peer[b]} ELSE {}
  BY <1>2 DEF Served, Busy
<1>5. Ready = IF toClient[b] = NoReply THEN {} ELSE {<<peer[b], toClient[b]>>}
  BY <1>3 DEF Ready
<1>6. bpc[b] # "writing" => toClient[b] = NoReply BY DEF IInv, HandleInv
<1> QED BY <1>4, <1>5, <1>6

(* A step of a broker that closes nothing and writes nothing.               *)
LEMMA QuietStep ==
    ASSUME IInv, NEW b \in Brokers, UNCHANGED <<peer, toServer, toClient, clientVars>>,
           \A d \in Brokers : bpc'[d] \in Busy <=> bpc[d] \in Busy
    PROVE  UNCHANGED <<Asked, Waiting, Served, Ready>>
<1>1. Asked' = Asked BY DEF Asked, clientVars
<1>2. Waiting' = Waiting BY DEF Waiting, clientVars
<1>3. Served' = Served BY DEF Served, Busy
<1>4. Ready' = Ready BY DEF Ready
<1> QED BY <1>1, <1>2, <1>3, <1>4

(* A client that leaves forgets its request.                                *)
LEMMA LeavingForgets ==
    ASSUME IInv, NEW c \in Clients, CloseClientEnd(c),
           UNCHANGED <<brokerVars, cache, collected>>
    PROVE  Service!Forget(c)
<1> USE DEF CloseClientEnd
<1>1. cpc \in [Clients -> ClientSteps] /\ want \in [Clients -> Kinds]
      /\ peer \in [Brokers -> Clients \cup {NoClient, ClosedEnd}]
      /\ toClient \in [Brokers -> Replies \cup {NoReply}]
  BY DEF IInv, TypeOK
<1>2. /\ \A x \in Clients \ {c} : cpc'[x] = cpc[x] /\ want'[x] = want[x]
      /\ cpc'[c] = "idle"
  BY <1>1
<1>3. \A b \in Brokers : \A x \in Clients : peer'[b] = x <=> x # c /\ peer[b] = x
  BY <1>1, PipeAssumption
<1>4. Asked' = [Asked EXCEPT ![c] = NoRequest]
  BY <1>2 DEF Asked
<1>5. Waiting' = Waiting \ {c}
  BY <1>2, <1>3 DEF Waiting, brokerVars
<1>6. Served' = Served \ {c}
  BY <1>3 DEF Served, brokerVars
<1>7. Ready' = {answer \in Ready : answer[1] # c}
  <2>1. \A b \in Brokers :
            /\ peer[b] = c => toClient'[b] = NoReply
            /\ peer[b] # c => toClient'[b] = toClient[b] /\ peer'[b] = peer[b]
    BY <1>1
  <2> QED BY <2>1 DEF Ready
<1> QED BY <1>4, <1>5, <1>6, <1>7 DEF Service!Forget, Service!NoRequest, NoRequest

(* A broker that closes its handle loses the request that lies in the pipe, *)
(* or breaks off the one it works on, or nobody notices.                    *)
LEMMA ClosingBreaksOff ==
    ASSUME IInv, NEW b \in Brokers, NEW next \in {"down", "create"},
           CloseServerEnd(b, next), UNCHANGED <<clientVars, dataVars>>
    PROVE  Service!Next \/ UNCHANGED Service!vars
<1> USE DEF CloseServerEnd, clientVars
<1>1. /\ peer \in [Brokers -> Clients \cup {NoClient, ClosedEnd}]
      /\ bpc \in [Brokers -> BrokerSteps]
      /\ toServer \in [Brokers -> Kinds \cup {NoRequest}]
      /\ toClient \in [Brokers -> Replies \cup {NoReply}]
  BY DEF IInv, TypeOK
<1>2. \A d \in Brokers : \A x \in Clients : peer'[d] = x <=> peer[d] = x
  BY <1>1, PipeAssumption
<1>3. /\ bpc'[b] = next /\ toServer'[b] = NoRequest /\ toClient'[b] = NoReply
      /\ \A d \in Brokers \ {b} : /\ bpc'[d] = bpc[d] /\ toServer'[d] = toServer[d]
                                  /\ toClient'[d] = toClient[d] /\ peer'[d] = peer[d]
  BY <1>1
<1>4. Asked' = Asked BY DEF Asked
<1>5. next \notin Busy BY DEF Busy
<1>6. CASE peer[b] \notin Clients
  <2>1. toClient[b] = NoReply BY <1>6 DEF IInv, HandleInv
  <2>2. Waiting' = Waiting BY <1>2, <1>3, <1>6 DEF Waiting
  <2>3. Served' = Served BY <1>2, <1>3, <1>6 DEF Served
  <2>4. Ready' = Ready BY <1>3, <2>1 DEF Ready
  <2> QED BY <1>4, <2>2, <2>3, <2>4 DEF Service!vars, dataVars
<1>7. CASE peer[b] \in Clients
  <2> DEFINE c == peer[b]
  <2>1. \A d \in Brokers : peer[d] \in Clients => d = b BY <1>7, SameInstance
  <2>2. \A d \in Brokers : toClient[d] # NoReply => d = b BY <2>1 DEF IInv, HandleInv
  <2>3. Ready' = {} BY <1>3, <2>2 DEF Ready
  <2>4. Served' = {} BY <1>2, <1>3, <1>5, <2>1 DEF Served, Busy
  <2>5. CASE toServer[b] # NoRequest
    <3>1. bpc[b] \in {"open", "reading"} BY <2>5 DEF IInv, HandleInv
    <3>2. Served = {} /\ Ready = {} BY <3>1, Alone DEF Busy
    <3>3. cpc[c] = "reading" BY <1>7, <2>5 DEF IInv, RequestInv
    <3>4. c \in Waiting BY <1>7, <2>5 DEF Waiting
    <3>5. Waiting' = Waiting \ {c} BY <1>2, <1>3, <2>1, <3>3 DEF Waiting
    <3>6. Service!Lose(c)
      BY <1>4, <2>3, <2>4, <3>2, <3>4, <3>5 DEF Service!Lose, dataVars
    <3> QED BY <1>7, <3>6 DEF Service!Next
  <2>6. CASE toServer[b] = NoRequest
    <3>1. Waiting' = Waiting BY <1>2, <1>3, <2>6 DEF Waiting
    <3>2. CASE Served # {}
      BY <1>4, <2>3, <2>4, <3>1, <3>2 DEF Service!BreakOff, Service!Next, dataVars
    <3>3. CASE Served = {}
      <4>1. bpc[b] \notin Busy BY <1>7, <3>3 DEF Served, Busy
      <4>2. toClient[b] = NoReply BY <4>1 DEF IInv, HandleInv, Busy
      <4>3. Ready = {} BY <2>2, <4>2 DEF Ready
      <4> QED BY <1>4, <2>3, <2>4, <3>1, <3>3, <4>3 DEF Service!vars, dataVars
    <3> QED BY <3>2, <3>3
  <2> QED BY <2>5, <2>6
<1> QED BY <1>6, <1>7

(* Reading a line takes the request of the client that waits for it.        *)
LEMMA ReadingServes ==
    ASSUME IInv, NEW b \in Brokers, ReadLine(b)
    PROVE  Service!Next \/ UNCHANGED Service!vars
<1>1. /\ bpc \in [Brokers -> BrokerSteps]
      /\ toServer \in [Brokers -> Kinds \cup {NoRequest}]
  BY DEF IInv, TypeOK
<1>2. /\ bpc[b] = "reading" /\ toServer[b] # NoRequest
      /\ bpc'[b] = "handling" /\ toServer'[b] = NoRequest
      /\ \A d \in Brokers \ {b} : bpc'[d] = bpc[d] /\ toServer'[d] = toServer[d]
      /\ UNCHANGED <<peer, toClient, cpc, want, cache, collected, delivered>>
  BY <1>1 DEF ReadLine, clientVars, dataVars
<1>3. Asked' = Asked /\ Ready' = Ready BY <1>2 DEF Asked, Ready
<1>4. serverEnd[b] /\ Served = {} BY <1>2, Alone DEF Busy, IInv, HandleInv
<1>5. \A d \in Brokers : peer[d] \in Clients => d = b BY <1>4, SameInstance
<1>6. CASE peer[b] \notin Clients
  <2>1. Waiting' = Waiting BY <1>2, <1>5, <1>6 DEF Waiting
  <2>2. Served' = Served BY <1>2, <1>5, <1>6 DEF Served
  <2> QED BY <1>2, <1>3, <2>1, <2>2 DEF Service!vars
<1>7. CASE peer[b] \in Clients
  <2> DEFINE c == peer[b]
  <2>1. cpc[c] = "reading" BY <1>2, <1>7 DEF IInv, RequestInv
  <2>2. c \in Waiting BY <1>2, <1>7 DEF Waiting
  <2>3. Waiting' = Waiting \ {c} BY <1>2, <1>5, <2>1 DEF Waiting
  <2>4. Served' = {c} BY <1>2, <1>5, <1>7 DEF Served
  <2>5. Service!Serve(c) BY <1>2, <1>3, <1>4, <2>2, <2>3, <2>4 DEF Service!Serve
  <2> QED BY <1>7, <2>5 DEF Service!Next
<1> QED BY <1>6, <1>7

(* What a broker writes reaches the client it serves, if that is still      *)
(* there, and nobody otherwise.                                             *)
LEMMA WritingAnswers ==
    ASSUME IInv, NEW b \in Brokers, NEW reply \in Replies,
           bpc[b] \in {"handling", "saving"}, WriteReply(b, reply),
           UNCHANGED <<toServer, peer, clientVars>>
    PROVE  /\ UNCHANGED <<Asked, Waiting, Served>> /\ Ready = {}
           /\ peer[b] \in Clients =>
                 /\ peer[b] \in Served /\ Asked[peer[b]] = work[b]
                 /\ Ready' = {<<peer[b], reply>>}
           /\ peer[b] \notin Clients => Served = {} /\ Ready' = {}
<1>1. /\ bpc \in [Brokers -> BrokerSteps]
      /\ toClient \in [Brokers -> Replies \cup {NoReply}]
  BY DEF IInv, TypeOK
<1>2. /\ bpc'[b] = "writing"
      /\ toClient'[b] = IF peer[b] \in Clients THEN reply ELSE NoReply
      /\ \A d \in Brokers \ {b} : bpc'[d] = bpc[d] /\ toClient'[d] = toClient[d]
  BY <1>1 DEF WriteReply
<1>3. reply # NoReply
  <2>1. reply.type # "none" BY DEF Replies, ReplyTypes, Kinds
  <2> QED BY <2>1 DEF NoReply
<1>4. Asked' = Asked /\ Waiting' = Waiting BY DEF Asked, Waiting, clientVars
<1>5. Served' = Served BY <1>2 DEF Served
<1>6. Ready = {} /\ (peer[b] \in Clients => peer[b] \in Served)
      /\ (peer[b] \notin Clients => Served = {})
  BY Alone DEF Busy
<1>7. \A d \in Brokers : toClient[d] = NoReply BY <1>6 DEF Ready
<1>8. peer[b] \in Clients => Ready' = {<<peer[b], reply>>}
  BY <1>2, <1>3, <1>7 DEF Ready
<1>9. peer[b] \notin Clients => Ready' = {} BY <1>2, <1>7 DEF Ready
<1>10. peer[b] \in Clients => Asked[peer[b]] = work[b]
  BY DEF Asked, IInv, RequestInv
<1> QED BY <1>4, <1>5, <1>6, <1>8, <1>9, <1>10

(* A reply is one of the three answers.                                     *)
LEMMA ReplyingAnswers ==
    ASSUME IInv, NEW b \in Brokers, Handle(b) \/ SaveAndReply(b) \/ WriteStaleOrError(b)
    PROVE  Service!Next \/ UNCHANGED Service!vars
<1>1. /\ cache \in Nat /\ collected \in Nat /\ delivered \in Nat
      /\ work[b] \in Kinds \cup {NoRequest}
  BY DEF IInv, TypeOK
<1> DEFINE c == peer[b]
<1>2. ASSUME NEW type \in ReplyTypes(work[b]), type # "snapshot.response",
             bpc[b] = "handling", WriteReply(b, Reply(type, 0, FALSE)),
             UNCHANGED <<toServer, peer, clientVars, dataVars>>
      PROVE  Service!Next \/ UNCHANGED Service!vars
  <2>1. work[b] \in Kinds BY <1>1, <1>2 DEF IInv, HandleInv
  <2>2. Reply(type, 0, FALSE) \in Replies BY <2>1, <1>2, ReplyTypesTyped
  <2>3. CASE c \notin Clients
    BY <1>2, <2>2, <2>3, WritingAnswers DEF Service!vars, dataVars
  <2>4. CASE c \in Clients
    <3>1. /\ UNCHANGED <<Asked, Waiting, Served>> /\ Ready = {} /\ c \in Served
          /\ Asked[c] = work[b] /\ Ready' = {<<c, Reply(type, 0, FALSE)>>}
      BY <1>2, <2>2, <2>4, WritingAnswers
    <3>2. type \in Service!ReplyTypes(Asked[c])
      BY <1>2, <3>1 DEF ReplyTypes, Service!ReplyTypes
    <3>3. Ready' = {<<c, Service!Reply(type, 0, FALSE)>>}
      BY <3>1 DEF Reply, Service!Reply
    <3>4. Service!AnswerPlain(c, type)
      BY <1>2, <3>1, <3>2, <3>3 DEF Service!AnswerPlain, dataVars
    <3> QED BY <2>4, <3>2, <3>4 DEF Service!Next
  <2> QED BY <2>3, <2>4
<1>3. CASE Handle(b)
  <2>1. PICK type \in ReplyTypes(work[b]) : WriteReply(b, Reply(type, 0, FALSE))
    BY <1>3 DEF Handle
  <2>2. bpc[b] = "handling" /\ work[b] # "snapshot"
        /\ UNCHANGED <<toServer, peer, clientVars, dataVars>>
    BY <1>3 DEF Handle
  <2>3. work[b] \in Kinds BY <1>1, <2>2 DEF IInv, HandleInv
  <2>4. type # "snapshot.response" BY <2>2, <2>3, SnapshotReplies
  <2> QED BY <1>2, <2>1, <2>2, <2>4
<1>4. CASE SaveAndReply(b)
  <2> DEFINE reply == Reply("snapshot.response", snap[b], FALSE)
  <2>1. /\ bpc[b] = "saving" /\ WriteReply(b, reply) /\ cache' \in {cache, snap[b]}
        /\ UNCHANGED <<toServer, peer, clientVars, collected, delivered>>
    BY <1>4 DEF SaveAndReply
  <2>2. snap[b] = collected /\ collected > delivered /\ work[b] = "snapshot"
    BY <2>1 DEF IInv, SnapshotInv
  <2>3. reply \in Replies
    BY <1>1, <2>2, SnapshotReplies, ReplyTypesTyped DEF Kinds
  <2>4. CASE c \notin Clients
    <3>1. UNCHANGED <<Asked, Waiting, Served, Ready>> /\ Served = {}
      BY <2>1, <2>3, <2>4, WritingAnswers
    <3> QED BY <2>1, <2>2, <3>1 DEF Service!Save, Service!vars, Service!Next
  <2>5. CASE c \in Clients
    <3>1. /\ UNCHANGED <<Asked, Waiting, Served>> /\ Ready = {} /\ c \in Served
          /\ Asked[c] = "snapshot" /\ Ready' = {<<c, reply>>}
      BY <2>1, <2>2, <2>3, <2>5, WritingAnswers
    <3>2. reply = Service!Reply("snapshot.response", collected, FALSE)
      BY <2>2 DEF Reply, Service!Reply
    <3> HIDE DEF reply
    <3>3. Service!AnswerFresh(c)
      BY <2>1, <2>2, <3>1, <3>2 DEF Service!AnswerFresh
    <3> QED BY <2>5, <3>3 DEF Service!Next
  <2> QED BY <2>4, <2>5
<1>5. CASE WriteStaleOrError(b)
  <2>1. /\ bpc[b] = "handling" /\ work[b] = "snapshot"
        /\ UNCHANGED <<toServer, peer, clientVars, dataVars>>
    BY <1>5 DEF WriteStaleOrError
  <2>2. CASE WriteReply(b, Reply("snapshot.error", 0, FALSE))
    BY <1>2, <2>1, <2>2, SnapshotReplies
  <2>3. CASE cache # 0 /\ WriteReply(b, StaleReply)
    <3>1. StaleReply \in Replies
      BY <1>1, SnapshotReplies, ReplyTypesTyped DEF StaleReply, Kinds
    <3>2. CASE c \notin Clients
      BY <2>1, <2>3, <3>1, <3>2, WritingAnswers DEF Service!vars, dataVars
    <3>3. CASE c \in Clients
      <4>1. /\ UNCHANGED <<Asked, Waiting, Served>> /\ Ready = {} /\ c \in Served
            /\ Asked[c] = "snapshot" /\ Ready' = {<<c, StaleReply>>}
        BY <2>1, <2>3, <3>1, <3>3, WritingAnswers
      <4>2. StaleReply = Service!Reply("snapshot.response", cache, TRUE)
        BY DEF StaleReply, Reply, Service!Reply
      <4>3. Service!AnswerStale(c)
        BY <2>1, <2>3, <4>1, <4>2 DEF Service!AnswerStale, dataVars
      <4> QED BY <3>3, <4>3 DEF Service!Next
    <3> QED BY <3>2, <3>3
  <2> QED BY <1>5, <2>2, <2>3 DEF WriteStaleOrError
<1> QED BY <1>3, <1>4, <1>5

(* A client on its way to sending waits; one that will never send, or       *)
(* leaves, does not.                                                        *)
LEMMA ClientsStep ==
    ASSUME IInv, NEW c \in Clients,
           Ask(c) \/ ClientStep(c) \/ Abandon(c) \/ KeepMute(c) \/ Hold(c)
    PROVE  Service!Next \/ UNCHANGED Service!vars
<1>1. /\ cpc \in [Clients -> ClientSteps] /\ want \in [Clients -> Kinds]
      /\ peer \in [Brokers -> Clients \cup {NoClient, ClosedEnd}]
      /\ toServer \in [Brokers -> Kinds \cup {NoRequest}]
      /\ toClient \in [Brokers -> Replies \cup {NoReply}]
  BY DEF IInv, TypeOK
<1>2. ASSUME cpc[c] # "idle", CloseClientEnd(c), UNCHANGED <<brokerVars, dataVars>>
      PROVE  Service!Next
  <2>1. Service!Forget(c) BY <1>2, LeavingForgets DEF dataVars
  <2>2. Asked[c] # Service!NoRequest
    BY <1>1, <1>2 DEF Asked, Kinds, Service!NoRequest
  <2>3. Service!GiveUp(c) BY <1>2, <2>1, <2>2 DEF Service!GiveUp, dataVars
  <2> QED BY <2>3 DEF Service!Next
<1>3. CASE Offline(c) \/ Broken(c) \/ Abandon(c)
  BY <1>2, <1>3 DEF Offline, Broken, Abandon
<1>4. CASE Receive(c)
  <2>1. /\ cpc[c] = "reading" /\ CloseClientEnd(c)
        /\ UNCHANGED <<brokerVars, cache, collected>>
    BY <1>4 DEF Receive
  <2>2. PICK b \in Brokers :
            /\ peer[b] = c /\ toClient[b] # NoReply
            /\ delivered' = IF toClient[b].snap > delivered THEN toClient[b].snap
                                                           ELSE delivered
    BY <1>4 DEF Receive
  <2> DEFINE answer == <<c, toClient[b]>>
  <2>3. answer \in Ready BY <2>2 DEF Ready
  <2>4. Service!Forget(c) BY <2>1, LeavingForgets
  <2>5. Service!Take(c, answer[2]) BY <2>2, <2>3, <2>4 DEF Service!Take
  <2> QED BY <2>3, <2>5 DEF Service!Next
<1>5. ASSUME UNCHANGED <<bpc, peer, toServer, toClient, dataVars>>,
             cpc[c] # "idle", want' = want,
             \E step \in {"opening", "reading", "holding"} :
                 cpc' = [cpc EXCEPT ![c] = step]
      PROVE  Asked' = Asked /\ Served' = Served /\ Ready' = Ready
  <2>1. \A x \in Clients : cpc'[x] = "idle" <=> cpc[x] = "idle" BY <1>1, <1>5
  <2>2. Asked' = Asked BY <1>5, <2>1 DEF Asked
  <2>3. Served' = Served /\ Ready' = Ready BY <1>5 DEF Served, Ready
  <2> QED BY <2>2, <2>3
<1>6. CASE Ask(c)
  <2>1. PICK kind \in Kinds : want' = [want EXCEPT ![c] = kind]
    BY <1>6 DEF Ask
  <2>2. /\ cpc[c] = "idle" /\ cpc' = [cpc EXCEPT ![c] = "waiting"]
        /\ UNCHANGED <<brokerVars, peer, toClient, dataVars>>
    BY <1>6 DEF Ask, Goto
  <2>3. Asked[c] = Service!NoRequest BY <2>2 DEF Asked, NoRequest, Service!NoRequest
  <2>4. Asked' = [Asked EXCEPT ![c] = kind] BY <1>1, <2>1, <2>2 DEF Asked
  <2>5. Waiting' = Waiting \cup {c} BY <1>1, <2>2 DEF Waiting, brokerVars
  <2>6. Served' = Served /\ Ready' = Ready BY <2>2 DEF Served, Ready, brokerVars
  <2>7. kind \in Service!Kinds BY <2>1 DEF Kinds, Service!Kinds
  <2>8. Service!Ask(c, kind)
    BY <2>2, <2>3, <2>4, <2>5, <2>6 DEF Service!Ask, dataVars
  <2> QED BY <2>7, <2>8 DEF Service!Next
<1>7. CASE WaitPipe(c)
  <2>1. /\ cpc[c] = "waiting" /\ cpc' = [cpc EXCEPT ![c] = "opening"] /\ want' = want
        /\ UNCHANGED <<bpc, peer, toServer, toClient, dataVars>>
    BY <1>7 DEF WaitPipe, Goto, brokerVars
  <2>2. Waiting' = Waiting BY <1>1, <2>1 DEF Waiting
  <2> QED BY <1>5, <2>1, <2>2 DEF Service!vars, dataVars
<1>8. CASE Open(c)
  <2>1. PICK b \in Brokers : Available(b) /\ peer' = [peer EXCEPT ![b] = c]
    BY <1>8 DEF Open
  <2>2. /\ cpc[c] = "opening" /\ cpc' = [cpc EXCEPT ![c] = "sending"] /\ want' = want
        /\ UNCHANGED <<bpc, toServer, toClient, dataVars>>
    BY <1>8 DEF Open, Goto, brokerVars
  <2>3. /\ peer[b] = NoClient /\ bpc[b] = "open" /\ toServer[b] = NoRequest
        /\ toClient[b] = NoReply
    BY <2>1 DEF Available, IInv, HandleInv
  <2>4. Asked' = Asked BY <1>1, <2>2 DEF Asked
  <2>5. Waiting' = Waiting BY <1>1, <2>1, <2>2, <2>3, PipeAssumption DEF Waiting
  <2>6. Served' = Served BY <1>1, <2>1, <2>2, <2>3, PipeAssumption DEF Served
  <2>7. Ready' = Ready BY <1>1, <2>1, <2>2, <2>3 DEF Ready
  <2> QED BY <2>2, <2>4, <2>5, <2>6, <2>7 DEF Service!vars, dataVars
<1>9. CASE Send(c)
  <2>1. PICK b \in Brokers : /\ peer[b] = c /\ serverEnd[b]
                             /\ toServer' = [toServer EXCEPT ![b] = want[c]]
    BY <1>9 DEF Send
  <2>2. /\ cpc[c] = "sending" /\ cpc' = [cpc EXCEPT ![c] = "reading"] /\ want' = want
        /\ UNCHANGED <<bpc, peer, toClient, dataVars>>
    BY <1>9 DEF Send, Goto
  <2>3. \A d \in Brokers : peer[d] \in Clients => d = b BY <2>1, SameInstance
  <2>4. toServer'[b] # NoRequest BY <1>1, <2>1 DEF Kinds, NoRequest
  <2>5. Asked' = Asked BY <1>1, <2>2 DEF Asked
  <2>6. Waiting' = Waiting BY <1>1, <2>1, <2>2, <2>3, <2>4 DEF Waiting
  <2>7. Served' = Served /\ Ready' = Ready BY <2>2 DEF Served, Ready
  <2> QED BY <2>2, <2>5, <2>6, <2>7 DEF Service!vars, dataVars
<1>10. CASE KeepMute(c) \/ Hold(c)
  <2>1. PICK step \in {"reading", "holding"} : cpc' = [cpc EXCEPT ![c] = step]
    BY <1>10 DEF KeepMute, Hold, Goto
  <2>2. /\ cpc[c] = "sending" /\ want' = want
        /\ UNCHANGED <<bpc, peer, toServer, toClient, dataVars>>
    BY <1>10 DEF KeepMute, Hold, brokerVars
  <2>3. \A b \in Brokers : peer[b] = c => toServer[b] = NoRequest
    BY <2>2 DEF IInv, RequestInv
  <2>4. c \in Waiting BY <2>2 DEF Waiting
  <2>5. Waiting' = Waiting \ {c} BY <1>1, <2>1, <2>2, <2>3 DEF Waiting
  <2>6. Asked' = Asked /\ Served' = Served /\ Ready' = Ready
    BY <1>5, <2>1, <2>2
  <2>7. Service!Lose(c) BY <2>2, <2>4, <2>5, <2>6 DEF Service!Lose, dataVars
  <2> QED BY <2>7 DEF Service!Next
<1> QED BY <1>3, <1>4, <1>6, <1>7, <1>8, <1>9, <1>10 DEF ClientStep

(* Every step of the brokers and their clients is one of the service, or    *)
(* none.                                                                    *)
LEMMA StepIsServiceStep == IInv /\ [Next]_vars => [Service!Next]_(Service!vars)
<1> SUFFICES ASSUME IInv, [Next]_vars PROVE Service!Next \/ UNCHANGED Service!vars
  OBVIOUS
<1>1. ASSUME NEW b \in Brokers, Start(b) \/ Create(b) \/ Accept(b)
      PROVE  UNCHANGED Service!vars
  <2>1. /\ UNCHANGED <<peer, toServer, toClient, clientVars, dataVars>>
        /\ \A d \in Brokers : bpc'[d] \in Busy <=> bpc[d] \in Busy
    BY <1>1 DEF Start, Create, Accept, Busy, IInv, TypeOK
  <2> QED BY <2>1, QuietStep DEF Service!vars, dataVars
<1>2. ASSUME NEW b \in Brokers,
             Crash(b) \/ ConnectionLost(b) \/ ReadTimeout(b) \/ WriteEnds(b)
      PROVE  Service!Next \/ UNCHANGED Service!vars
  BY <1>2, ClosingBreaksOff DEF Crash, ConnectionLost, ReadTimeout, WriteEnds
<1>3. ASSUME NEW b \in Brokers, Collect(b) PROVE Service!Next
  <2>1. /\ bpc[b] = "handling" /\ bpc' = [bpc EXCEPT ![b] = "saving"]
        /\ collected' = collected + 1
        /\ UNCHANGED <<peer, toServer, toClient, clientVars, cache, delivered>>
    BY <1>3 DEF Collect
  <2>2. Ready = {} BY <2>1, Alone
  <2>3. \A d \in Brokers : bpc'[d] \in Busy <=> bpc[d] \in Busy
    BY <2>1 DEF Busy, IInv, TypeOK
  <2>4. UNCHANGED <<Asked, Waiting, Served, Ready>> BY <2>1, <2>3, QuietStep
  <2> QED BY <2>1, <2>2, <2>4 DEF Service!Collect, Service!Next
<1>4. CASE UNCHANGED vars
  <2>1. /\ UNCHANGED <<peer, toServer, toClient, clientVars, dataVars>> /\ bpc' = bpc
    BY <1>4 DEF vars, brokerVars
  <2>2. Asked' = Asked /\ Waiting' = Waiting BY <2>1 DEF Asked, Waiting, clientVars
  <2>3. Served' = Served /\ Ready' = Ready BY <2>1 DEF Served, Ready
  <2> QED BY <2>1, <2>2, <2>3 DEF Service!vars, dataVars
<1> QED BY <1>1, <1>2, <1>3, <1>4, ReadingServes, ReplyingAnswers, ClientsStep
        DEF Next, BrokerStep

(* However many brokers compete, crash and time out over the one pipe, what *)
(* clients and the cache file see is one service: requests one at a time,   *)
(* each served at most once, answers that match, fresh data that is new.    *)
THEOREM ImplementsService == Spec => ServiceSpec
<1>1. Init => Service!Init
  BY PipeAssumption
     DEF Init, Service!Init, Asked, Waiting, Served, Ready, NoRequest, Service!NoRequest
<1> QED BY <1>1, StepIsServiceStep, Invariance, PTL DEF Spec, ServiceSpec, Service!Spec
=============================================================================
