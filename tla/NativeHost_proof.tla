-------------------------- MODULE NativeHost_proof --------------------------
(* Proofs about the host process and its parts.  The welcome page, for any *)
(* set of thread identities; then the host, which implements the page and  *)
(* the pipe, so that whatever is proved of either alone holds of the       *)
(* process that puts them together; then what takes both.                  *)
EXTENDS NativeHost, TLAPS

-----------------------------------------------------------------------------
(* The welcome page.                                                       *)

(* The lifetime token says whether the page is out of the tree.            *)
LifeToken == pageAlive <=> page # "unloaded"

(* While a snapshot is on its way the status claims no data, so a delivery *)
(* that fails half way cannot leave a false claim behind.                  *)
NoClaimWhileAsking ==
    \A t \in Threads :
        pc[t] # "idle" /\ kind[t] = "snapshot" => status \notin {"fresh", "stale"}

(* SingleFlight in the form the provers use: the token is taken exactly    *)
(* when some thread is busy, and no two threads are.                       *)
OneBusy ==
    /\ refreshRunning <=> \E t \in Threads : pc[t] # "idle"
    /\ \A t, u \in Threads : pc[t] # "idle" /\ pc[u] # "idle" => t = u

IInv ==
    /\ TypeOK
    /\ OneBusy
    /\ LifeToken
    /\ NoClaimWhileAsking
    /\ StatusTruthful

(* OneBusy is SingleFlight in a form the provers use more easily.           *)
LEMMA OneBusyIsSingleFlight == OneBusy <=> SingleFlight
BY DEF OneBusy, SingleFlight, InFlight

(* The page is not shown at first: the invariant holds.                     *)
LEMMA InitInv == Init => IInv
BY ThreadsAssumption
   DEF Init, IInv, TypeOK, OneBusy, LifeToken, NoClaimWhileAsking, StatusTruthful,
       Steps, Kinds, AllAnswers, Statuses, Pending, Shown

(* A refresh request keeps the types and leaves at most one busy thread.   *)
LEMMA RequestKeepsOneBusy ==
    ASSUME IInv, NEW alive \in BOOLEAN, NEW what \in Kinds,
           RunSnapshotRefreshAsync(alive, what)
    PROVE  /\ refreshRunning' \in BOOLEAN
           /\ pc' \in [Threads -> Steps]
           /\ kind' \in [Threads -> Kinds]
           /\ answer' \in [Threads -> AllAnswers]
           /\ OneBusy'
<1> USE DEF IInv, TypeOK, OneBusy, Steps, Kinds
<1>1. CASE MayStart(alive)
  <2>1. PICK t \in Threads : /\ pc[t] = "idle"
                             /\ pc' = [pc EXCEPT ![t] = "asking"]
                             /\ kind' = [kind EXCEPT ![t] = what]
    BY <1>1 DEF RunSnapshotRefreshAsync
  <2>2. refreshRunning' = TRUE /\ answer' = answer
    BY <1>1 DEF RunSnapshotRefreshAsync
  <2>3. \A u \in Threads : pc[u] = "idle"
    BY <1>1 DEF MayStart
  <2>4. \A u \in Threads : pc'[u] # "idle" <=> u = t
    BY <2>1, <2>3
  <2> QED BY <2>1, <2>2, <2>4
<1>2. CASE ~MayStart(alive)
  BY <1>2 DEF RunSnapshotRefreshAsync, threadVars
<1> QED BY <1>1, <1>2

(* What each step leaves of the invariant.  The type, token and lifetime   *)
(* parts are routine; NoClaimWhileAsking carries StatusTruthful through a  *)
(* delivery that throws.                                                   *)
LEMMA NextInv == IInv /\ [Next]_vars => IInv'
<1> SUFFICES ASSUME IInv, [Next]_vars PROVE IInv'
  OBVIOUS
<1> USE DEF IInv
<1>1. CASE Loaded
  <2>1. RunSnapshotRefreshAsync(TRUE, "snapshot") BY <1>1 DEF Loaded
  <2>2. /\ refreshRunning' \in BOOLEAN
        /\ pc' \in [Threads -> Steps]
        /\ kind' \in [Threads -> Kinds]
        /\ answer' \in [Threads -> AllAnswers]
        /\ OneBusy'
    BY <2>1, RequestKeepsOneBusy DEF Kinds
  <2>3. status' = "loading" /\ shown' = shown BY <1>1 DEF Loaded
  <2>4. TypeOK' BY <1>1, <2>2 DEF Loaded, TypeOK, Statuses, Pending
  <2>5. LifeToken' BY <1>1 DEF Loaded, LifeToken
  <2>6. NoClaimWhileAsking' /\ StatusTruthful'
    BY <2>3 DEF NoClaimWhileAsking, StatusTruthful
  <2> QED BY <2>2, <2>4, <2>5, <2>6
<1>2. CASE Unloaded
  BY <1>2 DEF Unloaded, threadVars, viewVars, TypeOK, OneBusy, LifeToken,
              NoClaimWhileAsking, StatusTruthful
<1>3. CASE Tick
  <2>1. RunSnapshotRefreshAsync(pageAlive, "metrics") BY <1>3 DEF Tick
  <2>2. /\ refreshRunning' \in BOOLEAN
        /\ pc' \in [Threads -> Steps]
        /\ kind' \in [Threads -> Kinds]
        /\ answer' \in [Threads -> AllAnswers]
        /\ OneBusy'
    BY <2>1, RequestKeepsOneBusy DEF Kinds, TypeOK
  <2>3. /\ page' = page /\ islandOpen' = islandOpen /\ pageAlive' = pageAlive
        /\ timerOn' = timerOn /\ tickAttached' = tickAttached
        /\ status' = status /\ shown' = shown
    BY <1>3 DEF Tick, pageVars, viewVars
  <2>4. TypeOK' BY <2>2, <2>3 DEF TypeOK
  <2>5. ASSUME NEW t \in Threads, pc'[t] # "idle", kind'[t] = "snapshot"
        PROVE  pc[t] # "idle" /\ kind[t] = "snapshot"
    BY <2>1, <2>5 DEF RunSnapshotRefreshAsync, threadVars, TypeOK
  <2>6. NoClaimWhileAsking' BY <2>3, <2>5 DEF NoClaimWhileAsking
  <2> QED BY <2>2, <2>3, <2>4, <2>6 DEF LifeToken, StatusTruthful
<1>4. CASE RetryClick
  <2>1. RunSnapshotRefreshAsync(pageAlive, "snapshot") BY <1>4 DEF RetryClick
  <2>2. /\ refreshRunning' \in BOOLEAN
        /\ pc' \in [Threads -> Steps]
        /\ kind' \in [Threads -> Kinds]
        /\ answer' \in [Threads -> AllAnswers]
        /\ OneBusy'
    BY <2>1, RequestKeepsOneBusy DEF Kinds, TypeOK
  <2>3. TypeOK' BY <1>4, <2>2 DEF RetryClick, pageVars, TypeOK, Statuses, Pending
  <2>4. LifeToken' BY <1>4 DEF RetryClick, pageVars, LifeToken
  <2>5. status' = "refreshing" BY <1>4 DEF RetryClick
  <2> QED BY <2>2, <2>3, <2>4, <2>5 DEF NoClaimWhileAsking, StatusTruthful
<1>5. CASE ActionClick
  BY <1>5 DEF ActionClick, pageVars, threadVars, TypeOK, Statuses, OneBusy,
              LifeToken, NoClaimWhileAsking, StatusTruthful
<1>6. CASE CloseIsland
  BY <1>6 DEF CloseIsland, threadVars, viewVars, TypeOK, OneBusy, LifeToken,
              NoClaimWhileAsking, StatusTruthful
<1>7. ASSUME NEW t \in Threads, Answer(t) PROVE IInv'
  <2>1. TypeOK'
    BY <1>7 DEF Answer, Answers, AllAnswers, pageVars, viewVars, TypeOK, Steps
  <2>2. \A u \in Threads : pc'[u] # "idle" <=> pc[u] # "idle"
    BY <1>7 DEF Answer, TypeOK
  <2>3. OneBusy' BY <1>7, <2>2 DEF Answer, OneBusy
  <2>4. LifeToken' BY <1>7 DEF Answer, pageVars, LifeToken
  <2>5. NoClaimWhileAsking' BY <1>7, <2>2 DEF Answer, viewVars, NoClaimWhileAsking
  <2>6. StatusTruthful' BY <1>7 DEF Answer, viewVars, StatusTruthful
  <2> QED BY <2>1, <2>3, <2>4, <2>5, <2>6
<1>8. ASSUME NEW t \in Threads, CheckAlive(t) \/ Post(t) PROVE IInv'
  <2>1. TypeOK' BY <1>8 DEF CheckAlive, Post, pageVars, viewVars, TypeOK, Steps
  <2>2. \A u \in Threads : pc'[u] # "idle" <=> pc[u] # "idle"
    BY <1>8 DEF CheckAlive, Post, TypeOK
  <2>3. OneBusy' BY <1>8, <2>2 DEF CheckAlive, Post, OneBusy
  <2>4. LifeToken' BY <1>8 DEF CheckAlive, Post, pageVars, LifeToken
  <2>5. NoClaimWhileAsking'
    BY <1>8, <2>2 DEF CheckAlive, Post, viewVars, NoClaimWhileAsking
  <2>6. StatusTruthful' BY <1>8 DEF CheckAlive, Post, viewVars, StatusTruthful
  <2> QED BY <2>1, <2>3, <2>4, <2>5, <2>6
<1>9. ASSUME NEW t \in Threads, Release(t) \/ PostRejected(t) \/ RunQueued(t)
      PROVE  IInv'
  <2>1. /\ pc[t] # "idle" /\ pc' = [pc EXCEPT ![t] = "idle"]
        /\ refreshRunning' = FALSE
        /\ kind' = [kind EXCEPT ![t] = "metrics"]
        /\ answer' = [answer EXCEPT ![t] = "offline"]
        /\ page' = page /\ islandOpen' = islandOpen /\ pageAlive' = pageAlive
        /\ timerOn' = timerOn /\ tickAttached' = tickAttached
    BY <1>9 DEF Release, PostRejected, RunQueued, Ends, pageVars
  <2>2. \A u \in Threads : pc'[u] = "idle"
    BY <2>1 DEF OneBusy, TypeOK
  <2>3. OneBusy' BY <2>1, <2>2 DEF OneBusy
  <2>4. NoClaimWhileAsking' BY <2>2 DEF NoClaimWhileAsking
  <2>5. \/ UNCHANGED viewVars
        \/ ApplyResult(t) /\ Announce(t)
        \/ ApplyThrows(t)
    BY <1>9 DEF Release, PostRejected, RunQueued, Deliver
  <2>6. status' \in Statuses /\ shown' \in Shown
    BY <2>5 DEF viewVars, ApplyResult, Announce, ApplyThrows, TypeOK, Statuses,
                AllAnswers, Shown
  <2>7. TypeOK' BY <2>1, <2>6 DEF TypeOK, Steps, Kinds, AllAnswers
  <2>8. StatusTruthful'
    <3>1. CASE UNCHANGED viewVars BY <3>1 DEF viewVars, StatusTruthful
    <3>2. CASE ApplyResult(t) /\ Announce(t)
      BY <3>2 DEF ApplyResult, Announce, StatusTruthful
    <3>3. CASE ApplyThrows(t)
      BY <2>1, <3>3 DEF ApplyThrows, NoClaimWhileAsking, StatusTruthful
    <3> QED BY <2>5, <3>1, <3>2, <3>3
  <2> QED BY <2>1, <2>3, <2>4, <2>7, <2>8 DEF LifeToken
<1>10. CASE UNCHANGED vars
  BY <1>10 DEF vars, TypeOK, OneBusy, LifeToken, NoClaimWhileAsking, StatusTruthful
<1> QED
  BY <1>1, <1>2, <1>3, <1>4, <1>5, <1>6, <1>7, <1>8, <1>9, <1>10 DEF Next, ThreadStep

(* The invariant holds throughout.                                          *)
LEMMA Invariance == Spec => []IInv
BY InitInv, NextInv, PTL DEF Spec

(* Every variable keeps its type: atomics stay Boolean, threads stay at    *)
(* the steps of RunSnapshotRefreshAsync.                                   *)
THEOREM TypeCorrect == Spec => []TypeOK
<1>1. IInv => TypeOK BY DEF IInv
<1> QED BY <1>1, Invariance, PTL

(* The token is the presence of exactly one refresh, however many threads  *)
(* the process may create.                                                 *)
THEOREM SingleFlightHolds == Spec => []SingleFlight
<1>1. IInv => SingleFlight BY OneBusyIsSingleFlight DEF IInv
<1> QED BY <1>1, Invariance, PTL

(* The status text never claims data the dashboard does not show.          *)
THEOREM StatusTruthfulHolds == Spec => []StatusTruthful
<1>1. IInv => StatusTruthful BY DEF IInv
<1> QED BY <1>1, Invariance, PTL

(* No completion changes the view of an unloaded page.                     *)
THEOREM LateAnswerIgnoredHolds == Spec => LateAnswerIgnored
<1>1. ASSUME IInv, [Next]_vars
      PROVE  [page = "unloaded" /\ page' = "unloaded" => UNCHANGED viewVars]_vars
  <2> SUFFICES ASSUME Next, page = "unloaded", page' = "unloaded"
               PROVE  UNCHANGED viewVars
    BY <1>1
  <2>1. ~pageAlive BY <1>1 DEF IInv, LifeToken
  <2> QED
    BY <2>1 DEF Next, Loaded, Unloaded, Tick, RetryClick, ActionClick, CloseIsland,
               ThreadStep, Answer, CheckAlive, Release, Post, PostRejected,
               RunQueued, Deliver
<1> QED BY <1>1, Invariance, PTL DEF Spec, LateAnswerIgnored
-----------------------------------------------------------------------------
(* The host implements the page.                                           *)

(* A step of the host is a step of the page, or leaves the page alone.     *)
LEMMA HostStepIsPageStep == [HostNext]_allVars => [Next]_vars
<1> SUFFICES ASSUME [HostNext]_allVars PROVE [Next]_vars
  OBVIOUS
<1>1. CASE Attach BY <1>1 DEF Attach
<1>2. CASE SmokeRound BY <1>2 DEF SmokeRound, Next
<1>3. CASE Show BY <1>3 DEF Show
<1>4. CASE Destroy BY <1>4 DEF Destroy, Next
<1>5. CASE Leave BY <1>5 DEF Leave, Next
<1>6. CASE PageStep BY <1>6 DEF PageStep, UICallback, Next
<1>7. ASSUME NEW t \in Threads, ThreadDies(t) PROVE UNCHANGED vars
  BY <1>7 DEF ThreadDies
<1>8. ASSUME NEW t \in Threads, RunResult(t) PROVE Next
  BY <1>8 DEF RunResult, Next, ThreadStep
<1>9. ASSUME NEW t \in Threads, CallStep(t) PROVE [Next]_vars
  BY <1>9 DEF CallStep, Request, Connect, SendLine, CallFails, CallSucceeds,
              Next, ThreadStep
<1>10. ASSUME NEW t \in Threads, HandBack(t) PROVE Next
  BY <1>10 DEF HandBack, Next, ThreadStep
<1>11. ASSUME NEW b \in Brokers,
              Elsewhere(Pipe!Start(b) \/ Pipe!Crash(b)) \/ BrokerActs(b)
       PROVE  UNCHANGED vars
  BY <1>11 DEF Elsewhere, BrokerActs
<1>12. CASE UNCHANGED allVars BY <1>12 DEF allVars
<1> QED
  BY <1>1, <1>2, <1>3, <1>4, <1>5, <1>6, <1>7, <1>8, <1>9, <1>10, <1>11, <1>12
     DEF HostNext

(* The native host implements the welcome page: the abstract answer of its *)
(* broker callback is what the pipe call of the host comes back with.      *)
THEOREM HostImplementsPage == HostSpec => Spec
<1>1. HostInit => Init BY DEF HostInit
<1> QED BY <1>1, HostStepIsPageStep, PTL DEF HostSpec, Spec

(* So in the host, too, at most one refresh is under way.                  *)
THEOREM HostSingleFlight == HostSpec => []SingleFlight
BY HostImplementsPage, SingleFlightHolds, PTL

(* And the status text claims no data the dashboard does not show.         *)
THEOREM HostStatusTruthful == HostSpec => []StatusTruthful
BY HostImplementsPage, StatusTruthfulHolds, PTL

(* And no late reply changes the view of an unloaded page.                 *)
THEOREM HostLateAnswerIgnored == HostSpec => LateAnswerIgnored
BY HostImplementsPage, LateAnswerIgnoredHolds, PTL

-----------------------------------------------------------------------------
(* A step of the host is a step of the pipe, or leaves the pipe alone.     *)
LEMMA HostStepIsPipeStep == [HostNext]_allVars => [Pipe!Next]_(Pipe!vars)
<1> SUFFICES ASSUME [HostNext]_allVars PROVE Pipe!Next \/ UNCHANGED pipeVars
  BY DEF pipeVars, Pipe!vars, Pipe!brokerVars, Pipe!clientVars, Pipe!dataVars
<1>1. CASE Attach \/ SmokeRound \/ Show \/ Destroy \/ Leave \/ PageStep
  BY <1>1 DEF Attach, SmokeRound, Show, Destroy, Leave, PageStep
<1>2. ASSUME NEW t \in Threads, ThreadDies(t) PROVE Pipe!Next
  BY <1>2 DEF ThreadDies, Pipe!Next
<1>3. ASSUME NEW t \in Threads, RunResult(t) \/ HandBack(t)
      PROVE  UNCHANGED pipeVars
  BY <1>3 DEF RunResult, HandBack
<1>4. ASSUME NEW t \in Threads, CallStep(t) PROVE Pipe!Next
  BY <1>4 DEF CallStep, Request, Connect, SendLine, CallFails, CallSucceeds,
              Pipe!Next, Pipe!ClientStep
<1>5. ASSUME NEW b \in Brokers,
             Elsewhere(Pipe!Start(b) \/ Pipe!Crash(b)) \/ BrokerActs(b)
      PROVE  Pipe!Next
  BY <1>5 DEF Elsewhere, BrokerActs, Pipe!Next
<1>6. CASE UNCHANGED allVars BY <1>6 DEF allVars
<1> QED BY <1>1, <1>2, <1>3, <1>4, <1>5, <1>6 DEF HostNext

(* The native host implements the pipe protocol: its refresh threads are   *)
(* clients that ask, call, take their answer and may end at any point.     *)
THEOREM HostImplementsPipe == HostSpec => Pipe!Spec
<1>1. HostInit => Pipe!Init BY DEF HostInit
<1> QED BY <1>1, HostStepIsPipeStep, PTL DEF HostSpec, Pipe!Spec

-----------------------------------------------------------------------------
(* The theorems about the pipe, for clients that are the refresh threads.  *)
Pipes == INSTANCE PipeBroker_proof WITH Clients <- Threads, Mute <- {}, Holders <- {}

LEMMA PipesAssumption == Pipes!PipeAssumption
BY HostAssumption DEF Pipes!PipeAssumption

(* It is the same pipe.                                                    *)
LEMMA SamePipe ==
    /\ Pipe!Init <=> Pipes!Init
    /\ Pipe!Next <=> Pipes!Next
    /\ Pipe!vars = Pipes!vars
    /\ Pipe!TypeOK <=> Pipes!TypeOK
<1>1. Pipe!vars = Pipes!vars
  BY DEF Pipe!vars, Pipes!vars, Pipe!brokerVars, Pipes!brokerVars, Pipe!clientVars,
         Pipes!clientVars, Pipe!dataVars, Pipes!dataVars
<1>2. Pipe!Init <=> Pipes!Init
  BY DEF Pipe!Init, Pipes!Init, Pipe!NoRequest, Pipes!NoRequest, Pipe!NoReply, Pipes!NoReply
<1>3. Pipe!TypeOK <=> Pipes!TypeOK
  BY DEF Pipe!TypeOK, Pipes!TypeOK, Pipe!BrokerSteps, Pipes!BrokerSteps,
         Pipe!ClientSteps, Pipes!ClientSteps, Pipe!Kinds, Pipes!Kinds,
         Pipe!Replies, Pipes!Replies, Pipe!ReplyTypes, Pipes!ReplyTypes,
         Pipe!NoRequest, Pipes!NoRequest, Pipe!NoReply, Pipes!NoReply
<1>4. Pipe!Next <=> Pipes!Next
  BY DEF Pipe!Next, Pipes!Next,
         Pipe!Start, Pipes!Start, Pipe!Crash, Pipes!Crash,
         Pipe!BrokerStep, Pipes!BrokerStep, Pipe!Create, Pipes!Create,
         Pipe!Accept, Pipes!Accept, Pipe!ConnectionLost, Pipes!ConnectionLost,
         Pipe!ReadTimeout, Pipes!ReadTimeout, Pipe!ReadLine, Pipes!ReadLine,
         Pipe!Handle, Pipes!Handle, Pipe!Collect, Pipes!Collect,
         Pipe!SaveAndReply, Pipes!SaveAndReply,
         Pipe!WriteStaleOrError, Pipes!WriteStaleOrError,
         Pipe!WriteEnds, Pipes!WriteEnds, Pipe!Ask, Pipes!Ask,
         Pipe!ClientStep, Pipes!ClientStep, Pipe!WaitPipe, Pipes!WaitPipe,
         Pipe!Offline, Pipes!Offline, Pipe!Open, Pipes!Open, Pipe!Send, Pipes!Send,
         Pipe!Broken, Pipes!Broken, Pipe!Receive, Pipes!Receive,
         Pipe!Abandon, Pipes!Abandon, Pipe!KeepMute, Pipes!KeepMute,
         Pipe!Hold, Pipes!Hold,
         Pipe!CloseServerEnd, Pipes!CloseServerEnd,
         Pipe!CloseClientEnd, Pipes!CloseClientEnd, Pipe!Goto, Pipes!Goto,
         Pipe!WriteReply, Pipes!WriteReply, Pipe!Reply, Pipes!Reply,
         Pipe!StaleReply, Pipes!StaleReply, Pipe!ReplyTypes, Pipes!ReplyTypes,
         Pipe!Available, Pipes!Available, Pipe!InstanceExists, Pipes!InstanceExists,
         Pipe!NoReply, Pipes!NoReply, Pipe!NoRequest, Pipes!NoRequest,
         Pipe!Kinds, Pipes!Kinds,
         Pipe!brokerVars, Pipes!brokerVars, Pipe!clientVars, Pipes!clientVars,
         Pipe!dataVars, Pipes!dataVars, Pipe!vars, Pipes!vars
<1> QED BY <1>1, <1>2, <1>3, <1>4

(* The refresh threads of the host call one service: their requests are     *)
(* served one at a time, each at most once, and answered by kind.          *)
THEOREM HostImplementsService == HostSpec => Pipes!ServiceSpec
<1>1. Pipe!Spec => Pipes!Spec
  <2>1. [Pipe!Next]_(Pipe!vars) => [Pipes!Next]_(Pipes!vars)
    BY SamePipe
       DEF Pipe!vars, Pipes!vars, Pipe!brokerVars, Pipes!brokerVars, Pipe!clientVars,
           Pipes!clientVars, Pipe!dataVars, Pipes!dataVars
  <2>2. Pipe!Init => Pipes!Init BY SamePipe
  <2> QED BY <2>1, <2>2, PTL DEF Pipe!Spec, Pipes!Spec
<1>2. Pipes!Spec => Pipes!ServiceSpec BY PipesAssumption, Pipes!ImplementsService
<1> QED BY <1>1, <1>2, HostImplementsPipe, PTL

(* A step of the host keeps what is proved of the pipe.                    *)
LEMMA PipeKept ==
    ASSUME Pipes!IInv, Pipes!LatestInv, [HostNext]_allVars
    PROVE  /\ Pipes!IInv' /\ Pipes!LatestInv'
           /\ collected' \in Nat /\ collected' >= collected
<1>1. [Pipes!Next]_(Pipes!vars)
  <2>1. Pipe!Next \/ UNCHANGED Pipe!vars BY HostStepIsPipeStep
  <2>2. CASE Pipe!Next BY <2>2, SamePipe
  <2>3. CASE UNCHANGED Pipe!vars
    BY <2>3 DEF Pipe!vars, Pipes!vars, Pipe!brokerVars, Pipes!brokerVars,
                Pipe!clientVars, Pipes!clientVars, Pipe!dataVars, Pipes!dataVars
  <2> QED BY <2>1, <2>2, <2>3
<1>2. Pipes!IInv' BY <1>1, PipesAssumption, Pipes!NextInv
<1>3. Pipes!LatestInv' BY <1>1, PipesAssumption, Pipes!LatestKept
<1>4. Pipes!TypeOK BY DEF Pipes!IInv
<1>5. collected' \in Nat /\ collected' >= collected
  BY <1>1, <1>4, PipesAssumption, Pipes!CollectedGrows
<1> QED BY <1>2, <1>3, <1>5

-----------------------------------------------------------------------------
(* What takes the page, the pipe and the host together.                    *)

HostType ==
    /\ host \in HostSteps
    /\ built \in 0 .. Iterations
    /\ carried \in [Threads -> Nat]
    /\ seen \in Nat

(* A thread with a handle or a request is in its callback, and asks the    *)
(* broker for what the page started it for.                                *)
WantInv ==
    \A t \in Threads : cpc[t] # "idle" => pc[t] = "asking" /\ want[t] = kind[t]

(* No snapshot is shown or brought that was not collected.                 *)
SeenInv ==
    /\ seen <= collected
    /\ \A t \in Threads : carried[t] <= collected

(* A fresh snapshot on its way to the page is no older than the dashboard. *)
FreshInv ==
    \A t \in Threads :
        /\ pc[t] \in {"answered", "posting", "queued"}
        /\ kind[t] = "snapshot" /\ answer[t] = "fresh"
        => carried[t] >= seen

(* Before the message loop runs, nothing is shown and nothing asked.       *)
EarlyInv ==
    host \in {"starting", "attached", "smoke"} =>
        seen = 0 /\ \A t \in Threads : pc[t] = "idle"

HostIInv ==
    /\ IInv
    /\ Pipes!IInv
    /\ Pipes!LatestInv
    /\ HostType
    /\ WantInv
    /\ SeenInv
    /\ FreshInv
    /\ EarlyInv

(* The process has not started: the invariant holds.                       *)
LEMMA HostInitInv == HostInit => HostIInv
<1> SUFFICES ASSUME HostInit PROVE HostIInv OBVIOUS
<1>1. IInv BY InitInv DEF HostInit
<1>2. Pipes!Init BY SamePipe DEF HostInit
<1>3. Pipes!IInv /\ Pipes!LatestInv
  BY <1>2, PipesAssumption, Pipes!InitInv, Pipes!LatestInit
<1>4. HostType BY HostAssumption DEF HostInit, HostType, HostSteps
<1>5. WantInv BY <1>2 DEF Pipes!Init, WantInv
<1>6. SeenInv BY <1>2 DEF Pipes!Init, HostInit, SeenInv
<1>7. FreshInv BY DEF HostInit, Init, FreshInv
<1>8. EarlyInv BY DEF HostInit, Init, EarlyInv
<1> QED BY <1>1, <1>3, <1>4, <1>5, <1>6, <1>7, <1>8 DEF HostIInv

(* A refresh that a callback of the page starts has no handle yet, and no  *)
(* answer.                                                                 *)
LEMMA RequestKeepsHost ==
    ASSUME HostIInv, NEW alive \in BOOLEAN, NEW what \in Kinds,
           RunSnapshotRefreshAsync(alive, what),
           UNCHANGED pipeVars, UNCHANGED dataSeen
    PROVE  WantInv' /\ FreshInv'
<1> USE DEF HostIInv, pipeVars, dataSeen
<1>1. pc \in [Threads -> Steps] /\ kind \in [Threads -> Kinds] BY DEF IInv, TypeOK
<1>2. CASE MayStart(alive)
  <2>1. PICK t \in Threads : /\ pc[t] = "idle"
                             /\ pc' = [pc EXCEPT ![t] = "asking"]
                             /\ kind' = [kind EXCEPT ![t] = what]
    BY <1>2 DEF RunSnapshotRefreshAsync
  <2>2. answer' = answer BY <1>2 DEF RunSnapshotRefreshAsync
  <2>3. \A u \in Threads : u # t => pc'[u] = pc[u] /\ kind'[u] = kind[u]
    BY <1>1, <2>1
  <2>4. pc'[t] = "asking" BY <1>1, <2>1
  <2>5. cpc[t] = "idle" BY <2>1 DEF WantInv
  <2> QED BY <2>2, <2>3, <2>4, <2>5 DEF WantInv, FreshInv
<1>3. CASE ~MayStart(alive)
  BY <1>3 DEF RunSnapshotRefreshAsync, threadVars, WantInv, FreshInv
<1> QED BY <1>2, <1>3

(* The end of a call: the thread's client is idle, the others are as they  *)
(* were.                                                                   *)
LEMMA ClosedClient ==
    ASSUME HostIInv, NEW t \in Threads, Pipe!CloseClientEnd(t)
    PROVE  /\ cpc'[t] = "idle"
           /\ \A u \in Threads : u # t => cpc'[u] = cpc[u] /\ want'[u] = want[u]
<1>1. cpc \in [Threads -> Pipes!ClientSteps] /\ want \in [Threads -> Pipes!Kinds]
  BY DEF HostIInv, Pipes!IInv, Pipes!TypeOK
<1> QED BY <1>1 DEF Pipe!CloseClientEnd

(* What every step of the host leaves of its own part of the invariant.    *)
LEMMA HostNextInv == HostIInv /\ [HostNext]_allVars => HostIInv'
<1> SUFFICES ASSUME HostIInv, [HostNext]_allVars PROVE HostIInv' OBVIOUS
<1>1. IInv' BY HostStepIsPageStep, NextInv DEF HostIInv
<1>2. /\ Pipes!IInv' /\ Pipes!LatestInv'
      /\ collected' \in Nat /\ collected' >= collected
  BY PipeKept DEF HostIInv
<1>3. /\ pc \in [Threads -> Steps] /\ kind \in [Threads -> Kinds]
      /\ answer \in [Threads -> AllAnswers] /\ pageAlive \in BOOLEAN
      /\ cpc \in [Threads -> Pipes!ClientSteps] /\ want \in [Threads -> Pipes!Kinds]
      /\ collected \in Nat /\ cache \in Nat /\ cache <= collected
      /\ carried \in [Threads -> Nat] /\ seen \in Nat
  BY DEF HostIInv, IInv, TypeOK, Pipes!IInv, Pipes!TypeOK, Pipes!SnapshotInv, HostType
<1>4. SUFFICES HostType' /\ WantInv' /\ SeenInv' /\ FreshInv' /\ EarlyInv'
  BY <1>1, <1>2 DEF HostIInv
<1>5. HostType /\ WantInv /\ SeenInv /\ FreshInv /\ EarlyInv BY DEF HostIInv
<1>6. ASSUME UNCHANGED <<vars, pipeVars, dataSeen>>, HostType',
             host' \in {"starting", "attached", "smoke"} =>
                 host \in {"starting", "attached", "smoke"}
      PROVE  HostType' /\ WantInv' /\ SeenInv' /\ FreshInv' /\ EarlyInv'
  BY <1>5, <1>6 DEF vars, pipeVars, dataSeen, WantInv, SeenInv, FreshInv, EarlyInv
<1>7. CASE Attach
  BY <1>5, <1>6, <1>7 DEF Attach, Fails, dataSeen, HostType, HostSteps
<1>8. CASE SmokeRound
  <2>1. host = "smoke" /\ UNCHANGED <<pipeVars, carried, seen>> BY <1>8 DEF SmokeRound, Fails
  <2>2. UNCHANGED <<pc, kind, answer>>
    BY <1>8 DEF SmokeRound, CloseIsland, vars, threadVars
  <2>3. HostType'
    <3>1. built \in 0..Iterations /\ Iterations \in Nat BY <1>5, HostAssumption DEF HostType
    <3>2. built' \in 0..Iterations BY <1>8, <3>1 DEF SmokeRound, Fails
    <3>3. host' \in HostSteps BY <1>8, <1>5 DEF SmokeRound, Fails, HostSteps, HostType
    <3> QED BY <1>5, <2>1, <3>2, <3>3 DEF HostType
  <2> QED BY <1>5, <2>1, <2>2, <2>3 DEF pipeVars, WantInv, SeenInv, FreshInv, EarlyInv
<1>9. CASE Show
  <2>1. /\ UNCHANGED <<vars, pipeVars, carried, built>> /\ host = "attached"
        /\ \/ host' = "loop" /\ seen' \in {0, cache}
           \/ host' = "failed" /\ seen' = seen
    BY <1>9 DEF Show, Fails
  <2>2. \A t \in Threads : pc[t] = "idle" BY <1>5, <2>1 DEF EarlyInv
  <2>3. seen' \in Nat /\ seen' <= collected BY <1>3, <1>5, <2>1 DEF SeenInv
  <2>4. HostType' BY <1>5, <2>1, <2>3 DEF HostType, HostSteps
  <2>5. SeenInv' BY <1>5, <2>1, <2>3 DEF SeenInv, pipeVars
  <2>6. WantInv' BY <1>5, <2>1 DEF WantInv, vars, pipeVars
  <2>7. FreshInv' BY <2>1, <2>2 DEF FreshInv, vars
  <2>8. EarlyInv' BY <2>1 DEF EarlyInv
  <2> QED BY <2>4, <2>5, <2>6, <2>7, <2>8
<1>10. CASE Destroy \/ Leave
  <2>1. /\ UNCHANGED <<pipeVars, built, dataSeen>> /\ host' \in {"quitting", "gone"}
        /\ UNCHANGED <<pc, kind, answer>>
    BY <1>10 DEF Destroy, Leave, CloseIsland, vars, threadVars
  <2> QED BY <1>5, <2>1 DEF pipeVars, dataSeen, HostType, HostSteps, WantInv, SeenInv,
                            FreshInv, EarlyInv
<1>11. CASE PageStep
  <2>1. UNCHANGED <<pipeVars, hostVars, dataSeen>> /\ host = "loop" BY <1>11 DEF PageStep
  <2>2. HostType' /\ SeenInv' /\ EarlyInv'
    BY <1>5, <2>1 DEF pipeVars, hostVars, dataSeen, HostType, SeenInv, EarlyInv
  <2>3. CASE Unloaded \/ ActionClick
    BY <1>5, <2>1, <2>2, <2>3 DEF Unloaded, ActionClick, threadVars, pipeVars, dataSeen,
                                  WantInv, FreshInv
  <2>4. CASE Loaded \/ Tick \/ RetryClick
    <3>1. PICK alive \in BOOLEAN, what \in Kinds : RunSnapshotRefreshAsync(alive, what)
      BY <1>3, <2>4 DEF Loaded, Tick, RetryClick, Kinds
    <3>2. WantInv' /\ FreshInv' BY <2>1, <3>1, RequestKeepsHost
    <3> QED BY <2>2, <3>2
  <2> QED BY <1>11, <2>3, <2>4 DEF PageStep, UICallback
<1>12. ASSUME NEW t \in Threads, ThreadDies(t)
       PROVE  HostType' /\ WantInv' /\ SeenInv' /\ FreshInv' /\ EarlyInv'
  <2>1. /\ Pipe!CloseClientEnd(t) /\ UNCHANGED <<vars, hostVars, dataSeen>>
        /\ host = "gone"
    BY <1>12 DEF ThreadDies, Pipe!Abandon
  <2>2. WantInv'
    <3>1. /\ cpc'[t] = "idle"
          /\ \A u \in Threads : u # t => cpc'[u] = cpc[u] /\ want'[u] = want[u]
      BY <2>1, ClosedClient
    <3> QED BY <1>5, <2>1, <3>1 DEF WantInv, vars
  <2>3. SeenInv'
    <3>1. seen' = seen /\ carried' = carried BY <2>1 DEF dataSeen
    <3>2. \A n \in Nat : n <= collected => n <= collected' BY <1>2, <1>3
    <3> QED BY <1>3, <1>5, <3>1, <3>2 DEF SeenInv
  <2> QED BY <1>5, <2>1, <2>2, <2>3 DEF vars, hostVars, dataSeen, HostType, FreshInv, EarlyInv
<1>13. ASSUME NEW t \in Threads, RunResult(t)
       PROVE  HostType' /\ WantInv' /\ SeenInv' /\ FreshInv' /\ EarlyInv'
  <2>1. /\ UNCHANGED <<pipeVars, hostVars>> /\ host = "loop"
        /\ pc[t] = "queued" /\ Ends(t)
        /\ seen' \in {seen, carried[t]}
        /\ carried' = [carried EXCEPT ![t] = 0]
    BY <1>13 DEF RunResult, RunQueued
  <2>2. \A u \in Threads : pc'[u] = "idle"
    BY <1>3, <2>1 DEF HostIInv, IInv, OneBusy, Ends
  <2>3. \A u \in Threads : cpc[u] = "idle" BY <1>3, <1>5, <2>1, <2>2 DEF WantInv, HostIInv,
                                                                       IInv, OneBusy
  <2>4. HostType' BY <1>3, <1>5, <2>1 DEF HostType, hostVars
  <2>5. SeenInv' BY <1>3, <1>5, <2>1 DEF SeenInv, pipeVars
  <2>6. WantInv' BY <2>1, <2>3 DEF WantInv, pipeVars
  <2>7. FreshInv' BY <2>2 DEF FreshInv
  <2>8. EarlyInv' BY <2>1 DEF EarlyInv, hostVars
  <2> QED BY <2>4, <2>5, <2>6, <2>7, <2>8
<1>14. ASSUME NEW t \in Threads, Request(t) \/ Connect(t) \/ SendLine(t)
       PROVE  HostType' /\ WantInv' /\ SeenInv' /\ FreshInv' /\ EarlyInv'
  <2>1. UNCHANGED <<vars, hostVars, dataSeen>> /\ UNCHANGED <<collected, cache>>
    BY <1>14 DEF Request, Connect, SendLine, Pipe!Ask, Pipe!WaitPipe, Pipe!Open, Pipe!Send,
                 Pipe!dataVars
  <2>2. HostType' /\ SeenInv' /\ FreshInv' /\ EarlyInv'
    BY <1>5, <2>1 DEF vars, hostVars, dataSeen, HostType, SeenInv, FreshInv, EarlyInv
  <2>3. \A u \in Threads : u # t => cpc'[u] = cpc[u] /\ want'[u] = want[u]
    BY <1>3, <1>14 DEF Request, Connect, SendLine, Pipe!Ask, Pipe!WaitPipe, Pipe!Open,
                       Pipe!Send, Pipe!Goto
  <2>4. pc[t] = "asking" /\ want'[t] = kind[t]
    BY <1>5, <1>14 DEF Request, Connect, SendLine, Pipe!WaitPipe, Pipe!Open, Pipe!Send,
                       WantInv
  <2>5. WantInv' BY <1>5, <2>1, <2>3, <2>4 DEF WantInv, vars
  <2> QED BY <2>2, <2>5
<1>15. ASSUME NEW t \in Threads, CallFails(t)
       PROVE  HostType' /\ WantInv' /\ SeenInv' /\ FreshInv' /\ EarlyInv'
  <2>1. /\ Pipe!CloseClientEnd(t) /\ UNCHANGED <<collected, cache>>
        /\ pc[t] = "asking" /\ pc' = [pc EXCEPT ![t] = "answered"] /\ kind' = kind
        /\ \E a \in AllAnswers : answer' = [answer EXCEPT ![t] = a]
        /\ answer'[t] = "offline"
        /\ carried' = [carried EXCEPT ![t] = 0]
        /\ UNCHANGED <<hostVars, seen>>
    BY <1>15 DEF CallFails, Pipe!Offline, Pipe!Broken, Pipe!dataVars, Answer, Answers, AllAnswers
  <2>2. WantInv'
    <3>1. /\ cpc'[t] = "idle"
          /\ \A u \in Threads : u # t => cpc'[u] = cpc[u] /\ want'[u] = want[u]
      BY <2>1, ClosedClient
    <3> QED BY <1>3, <1>5, <2>1, <3>1 DEF WantInv
  <2>3. FreshInv' BY <1>3, <1>5, <2>1 DEF FreshInv
  <2>4. HostType' /\ SeenInv' BY <1>3, <1>5, <2>1 DEF HostType, SeenInv, hostVars
  <2>5. EarlyInv' BY <1>5, <2>1 DEF EarlyInv, hostVars
  <2> QED BY <2>2, <2>3, <2>4, <2>5
<1>16. ASSUME NEW t \in Threads, CallSucceeds(t)
       PROVE  HostType' /\ WantInv' /\ SeenInv' /\ FreshInv' /\ EarlyInv'
  <2>1. PICK b \in Brokers : /\ peer[b] = t
                             /\ answer'[t] = Understood(toClient[b])
                             /\ carried' = [carried EXCEPT ![t] = toClient[b].snap]
    BY <1>16 DEF CallSucceeds
  <2>2. /\ Pipe!CloseClientEnd(t) /\ collected' = collected /\ cpc[t] = "reading"
        /\ pc[t] = "asking" /\ pc' = [pc EXCEPT ![t] = "answered"] /\ kind' = kind
        /\ \E a \in AllAnswers : answer' = [answer EXCEPT ![t] = a]
        /\ UNCHANGED <<hostVars, seen>>
    BY <1>16 DEF CallSucceeds, Pipe!Receive, Answer, Answers, AllAnswers
  <2>3. toClient[b] \in Pipes!Replies \cup {Pipes!NoReply}
    BY DEF HostIInv, Pipes!IInv, Pipes!TypeOK
  <2>4. toClient[b].snap \in Nat /\ toClient[b].snap <= collected
    BY <2>3 DEF Pipes!Replies, Pipes!NoReply, HostIInv, Pipes!IInv, Pipes!SnapshotInv
  <2>5. WantInv'
    <3>1. /\ cpc'[t] = "idle"
          /\ \A u \in Threads : u # t => cpc'[u] = cpc[u] /\ want'[u] = want[u]
      BY <2>2, ClosedClient
    <3> QED BY <1>3, <1>5, <2>2, <3>1 DEF WantInv
  <2>6. kind[t] = "snapshot" /\ answer'[t] = "fresh" => toClient[b].snap = collected
    <3> SUFFICES ASSUME kind[t] = "snapshot", answer'[t] = "fresh"
                 PROVE  toClient[b].snap = collected
      OBVIOUS
    <3>1. want[t] = "snapshot" BY <1>5, <2>2 DEF WantInv
    <3>2. CASE toClient[b].type = "snapshot.response"
      <4>1. ~toClient[b].stale BY <2>1, <3>2 DEF Understood
      <4> QED BY <3>2, <4>1 DEF HostIInv, Pipes!LatestInv
    <3>3. CASE toClient[b].type # "snapshot.response"
      <4>1. toClient[b].type = "metrics.response" BY <2>1, <3>3 DEF Understood
      <4>2. toClient[b] # Pipes!NoReply BY <4>1 DEF Pipes!NoReply
      <4>3. toClient[b].type \in Pipes!ReplyTypes("snapshot")
        BY <2>1, <3>1, <4>2 DEF HostIInv, Pipes!IInv, Pipes!AnswersItsRequest
      <4> QED BY <4>1, <4>3 DEF Pipes!ReplyTypes
    <3> QED BY <3>2, <3>3
  <2>7. carried'[t] = toClient[b].snap /\ \A u \in Threads : u # t => carried'[u] = carried[u]
    BY <1>3, <2>1
  <2>8. HostType' /\ SeenInv'
    <3>1. carried' \in [Threads -> Nat] BY <1>3, <2>1, <2>4
    <3>2. HostType' BY <1>5, <2>2, <3>1 DEF HostType, hostVars
    <3> QED BY <1>5, <2>2, <2>4, <2>7, <3>2 DEF SeenInv
  <2>9. FreshInv'
    <3> SUFFICES ASSUME NEW u \in Threads,
                        pc'[u] \in {"answered", "posting", "queued"},
                        kind'[u] = "snapshot", answer'[u] = "fresh"
                 PROVE  carried'[u] >= seen'
      BY DEF FreshInv
    <3>1. CASE u = t
      <4>1. carried'[u] = collected BY <2>2, <2>6, <2>7, <3>1
      <4>2. seen <= collected BY <1>5 DEF SeenInv
      <4> QED BY <1>3, <2>2, <4>1, <4>2
    <3>2. CASE u # t
      <4>1. pc'[u] = pc[u] /\ answer'[u] = answer[u] /\ kind'[u] = kind[u]
        BY <1>3, <2>2, <3>2
      <4>2. carried[u] >= seen BY <1>5, <4>1 DEF FreshInv
      <4> QED BY <2>2, <2>7, <3>2, <4>2
    <3> QED BY <3>1, <3>2
  <2>10. EarlyInv' BY <1>5, <2>2 DEF EarlyInv, hostVars
  <2> QED BY <2>5, <2>8, <2>9, <2>10
<1>17. ASSUME NEW t \in Threads, HandBack(t)
       PROVE  HostType' /\ WantInv' /\ SeenInv' /\ FreshInv' /\ EarlyInv'
  <2>1. /\ UNCHANGED <<pipeVars, hostVars, seen>>
        /\ pc[t] \in {"answered", "releasing", "posting"}
        /\ carried' = [carried EXCEPT ![t] = IF pc'[t] = "idle" THEN 0 ELSE @]
        /\ \/ /\ pc'= [pc EXCEPT ![t] = pc'[t]] /\ pc'[t] \in {"posting", "releasing", "queued"}
              /\ UNCHANGED <<kind, answer>>
              /\ pc[t] \in {"answered", "posting"}
           \/ Ends(t)
    BY <1>3, <1>17 DEF HandBack, CheckAlive, Release, Post, PostRejected
  <2>2. /\ pc[t] # "idle" /\ \A u \in Threads : u # t => pc'[u] = pc[u] /\ kind'[u] = kind[u]
                                          /\ answer'[u] = answer[u] /\ carried'[u] = carried[u]
    BY <1>3, <2>1 DEF Ends
  <2>3. cpc[t] = "idle" BY <1>5, <2>1 DEF WantInv
  <2>4. WantInv' BY <1>5, <2>1, <2>2, <2>3 DEF WantInv, pipeVars
  <2>5. carried'[t] \in {0, carried[t]} BY <1>3, <2>1
  <2>6. HostType' /\ SeenInv'
    <3>1. carried' \in [Threads -> Nat] BY <1>3, <2>1
    <3>2. HostType' BY <1>5, <2>1, <3>1 DEF HostType, hostVars
    <3> QED BY <1>3, <1>5, <2>1, <2>2, <2>5, <3>2 DEF SeenInv, pipeVars
  <2>7. FreshInv'
    <3>1. CASE Ends(t)
      <4>1. pc'[t] = "idle" BY <1>3, <3>1 DEF Ends
      <4> QED BY <1>5, <2>1, <2>2, <4>1 DEF FreshInv
    <3>2. CASE ~Ends(t)
      <4>1. /\ pc'[t] # "idle" /\ UNCHANGED <<kind, answer>> /\ pc[t] \in {"answered", "posting"}
        BY <2>1, <3>2
      <4>2. carried'[t] = carried[t] BY <1>3, <2>1, <4>1
      <4> QED BY <1>5, <2>1, <2>2, <4>1, <4>2 DEF FreshInv
    <3> QED BY <3>1, <3>2
  <2>8. EarlyInv' BY <1>5, <2>1, <2>2 DEF EarlyInv, hostVars
  <2> QED BY <2>4, <2>6, <2>7, <2>8
<1>18. ASSUME NEW b \in Brokers,
              Elsewhere(Pipe!Start(b) \/ Pipe!Crash(b)) \/ BrokerActs(b)
       PROVE  HostType' /\ WantInv' /\ SeenInv' /\ FreshInv' /\ EarlyInv'
  <2>1. UNCHANGED <<vars, hostVars, dataSeen>> /\ UNCHANGED <<cpc, want>>
    BY <1>18 DEF Elsewhere, BrokerActs, Pipe!Start, Pipe!Crash, Pipe!BrokerStep, Pipe!Create,
                 Pipe!Accept, Pipe!ConnectionLost, Pipe!ReadTimeout, Pipe!ReadLine, Pipe!Handle,
                 Pipe!Collect, Pipe!SaveAndReply, Pipe!WriteStaleOrError, Pipe!WriteEnds,
                 Pipe!clientVars
  <2>2. SeenInv'
    <3>1. seen' = seen /\ carried' = carried BY <2>1 DEF dataSeen
    <3>2. \A n \in Nat : n <= collected => n <= collected' BY <1>2, <1>3
    <3> QED BY <1>3, <1>5, <3>1, <3>2 DEF SeenInv
  <2> QED BY <1>5, <2>1, <2>2 DEF vars, hostVars, dataSeen, HostType, WantInv, FreshInv, EarlyInv
<1>19. CASE UNCHANGED allVars
  <2>1. UNCHANGED <<vars, pipeVars, dataSeen>> /\ UNCHANGED <<host, built>>
    BY <1>19 DEF allVars, hostVars
  <2>2. HostType' BY <1>5, <2>1 DEF dataSeen, HostType
  <2> QED BY <1>6, <2>1, <2>2
<1> QED
  BY <1>7, <1>8, <1>9, <1>10, <1>11, <1>12, <1>13, <1>14, <1>15, <1>16, <1>17, <1>18, <1>19
     DEF HostNext, CallStep

(* The invariant holds throughout.                                         *)
LEMMA HostInvariance == HostSpec => []HostIInv
BY HostInitInv, HostNextInv, PTL DEF HostSpec

(* Every variable of the page, the pipe and the host keeps its type.       *)
THEOREM HostTypeCorrect == HostSpec => []HostTypeOK
<1>1. HostIInv => HostTypeOK
  BY SamePipe DEF HostIInv, IInv, Pipes!IInv, HostType, HostTypeOK
<1> QED BY <1>1, HostInvariance, PTL

(* An unmarked snapshot that a thread brings back was the last collected   *)
(* when it took it from the pipe, and no other refresh can show a newer    *)
(* one before it: so it is never older than what is shown.                 *)
THEOREM OnlyStaleGoesBackHolds == HostSpec => OnlyStaleGoesBack
<1>1. ASSUME HostIInv, [HostNext]_allVars
      PROVE  [seen' < seen => shown' \in {"stale", "partial"}]_allVars
  <2> SUFFICES ASSUME HostNext, seen' < seen PROVE shown' \in {"stale", "partial"}
    BY <1>1
  <2>1. seen \in Nat /\ carried \in [Threads -> Nat] /\ cache \in Nat
    BY <1>1 DEF HostIInv, HostType, Pipes!IInv, Pipes!TypeOK
  <2>2. ~(seen < seen) BY <2>1
  <2>3. ~Show
    <3> SUFFICES ASSUME Show PROVE FALSE OBVIOUS
    <3>1. seen = 0 BY <1>1 DEF Show, HostIInv, EarlyInv
    <3>2. seen' \in Nat BY <2>1 DEF Show, Fails
    <3> QED BY <3>1, <3>2
  <2>4. PICK t \in Threads : RunResult(t)
    BY <2>2, <2>3 DEF HostNext, Attach, SmokeRound, Fails, Destroy, Leave, PageStep, ThreadDies,
                      CallStep, Request, Connect, SendLine, CallFails, CallSucceeds, HandBack,
                      Elsewhere, BrokerActs, dataSeen
  <2>5. /\ pageAlive /\ answer[t] # "offline" /\ kind[t] = "snapshot" /\ seen' = carried[t]
        /\ pc[t] = "queued" /\ Deliver(t)
    BY <2>2, <2>4 DEF RunResult, RunQueued
  <2>6. answer[t] # "fresh"
    <3> SUFFICES ASSUME answer[t] = "fresh" PROVE FALSE OBVIOUS
    <3>1. carried[t] >= seen BY <1>1, <2>5 DEF HostIInv, FreshInv
    <3>2. carried[t] \in Nat BY <2>1
    <3> QED BY <2>1, <2>5, <3>1, <3>2
  <2>7. answer[t] = "stale" BY <1>1, <2>5, <2>6 DEF HostIInv, IInv, TypeOK, AllAnswers
  <2> QED BY <2>5, <2>7 DEF Deliver, ApplyResult, ApplyThrows
<1> QED BY <1>1, HostInvariance, PTL DEF HostSpec, OnlyStaleGoesBack
=============================================================================
