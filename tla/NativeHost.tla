----------------------------- MODULE NativeHost -----------------------------
(***************************************************************************)
(* The native host process (ExplorerWelcome.NativeHost/main.cpp) with what *)
(* it puts together: the welcome page on its UI thread, and the refresh    *)
(* threads that call a broker process through the named pipe.              *)
(*                                                                         *)
(* The page is WelcomePage, extended here; the pipe and the broker are an  *)
(* instance of PipeBroker whose clients are the page's refresh threads.    *)
(* The page's abstract Answer is here a whole call through the pipe, so    *)
(* that what reaches the page is what a broker wrote, and what the broker  *)
(* waits for is what a page does.                                          *)
(***************************************************************************)
EXTENDS WelcomePage, Naturals

CONSTANTS
    Brokers,      \* broker processes
    NoClient, ClosedEnd, MayCrash, MaxSnapshots,  \* PipeBroker's
    Iterations    \* pages the lifetime smoke test builds (50 in the source)

(* The last four are what PipeBroker assumes of its constants.             *)
ASSUME HostAssumption ==
    /\ Iterations \in Nat
    /\ NoClient \notin Threads
    /\ ClosedEnd \notin Threads
    /\ NoClient # ClosedEnd
    /\ MayCrash \in BOOLEAN /\ MaxSnapshots \in Nat

VARIABLES
    bpc, serverEnd, peer, toServer, toClient, work, snap,   \* PipeBroker's
    cpc, want, cache, collected, delivered,
    host,     \* the step wWinMain is at
    built,    \* the pages the smoke test has built
    carried,  \* the snapshot each refresh thread brings back, 0 for none
    seen      \* the snapshot behind the dashboard, 0 for the mock data

Pipe == INSTANCE PipeBroker WITH Clients <- Threads, Mute <- {}, Holders <- {}

pipeVars == <<bpc, serverEnd, peer, toServer, toClient, work, snap,
              cpc, want, cache, collected, delivered>>
hostVars == <<host, built>>
dataSeen == <<carried, seen>>
allVars  == <<vars, pipeVars, hostVars, dataSeen>>

HostSteps == {"starting", "smoke", "attached", "loop", "quitting", "failed", "gone"}

HostTypeOK ==
    /\ TypeOK
    /\ Pipe!TypeOK
    /\ host \in HostSteps
    /\ built \in 0 .. Iterations
    /\ carried \in [Threads -> Nat]
    /\ seen \in Nat

HostInit ==
    /\ Init
    /\ Pipe!Init
    /\ host = "starting"
    /\ built = 0
    /\ carried = [t \in Threads |-> 0]
    /\ seen = 0

-----------------------------------------------------------------------------
(* wWinMain.  A failing call throws hresult_error: the process reports it  *)
(* and returns 1 without closing anything.                                 *)

Fails == host' = "failed" /\ UNCHANGED <<built, seen>>

(* The window, the XAML manager, the source and their attachment; then the *)
(* --lifetime-smoke run goes its own way.                                  *)
Attach ==
    /\ host = "starting"
    /\ \/ host' \in {"attached", "smoke"} /\ UNCHANGED <<built, seen>>
       \/ Fails
    /\ UNCHANGED <<vars, pipeVars, carried>>

(* One round of the smoke test: a page without callbacks, so that it asks  *)
(* nobody anything, set and removed; after the last the window is          *)
(* destroyed and the process ends.                                         *)
SmokeRound ==
    /\ host = "smoke"
    /\ \/ built < Iterations /\ built' = built + 1 /\ UNCHANGED <<host, seen>>
       \/ built = Iterations /\ host' = "quitting" /\ UNCHANGED <<built, seen>>
       \/ Fails
    /\ IF host' = "quitting" THEN CloseIsland ELSE UNCHANGED vars
    /\ UNCHANGED <<pipeVars, carried>>

(* The page is built over the cached snapshot if that can be read, and the *)
(* window is shown and sized.                                              *)
Show ==
    /\ host = "attached"
    /\ \/ host' = "loop" /\ seen' \in {0, cache} /\ UNCHANGED built
       \/ Fails
    /\ UNCHANGED <<vars, pipeVars, carried>>

(* WM_DESTROY: close the island and post the quit message.                 *)
Destroy ==
    /\ host = "loop"
    /\ CloseIsland
    /\ host' = "quitting"
    /\ UNCHANGED <<pipeVars, built, dataSeen>>

(* wWinMain returns, or the process is killed: the page is gone with it.   *)
Leave ==
    /\ host # "gone"
    /\ host' = "gone"
    /\ IF islandOpen THEN CloseIsland ELSE UNCHANGED vars
    /\ UNCHANGED <<pipeVars, built, dataSeen>>

(* The end of the process stops its threads where they are, and closes the *)
(* handle of one that was in a call.                                       *)
ThreadDies(t) ==
    /\ host = "gone"
    /\ Pipe!Abandon(t)
    /\ UNCHANGED <<vars, hostVars, dataSeen>>

-----------------------------------------------------------------------------
(* The page on the UI thread: only the message loop dispatches to it.      *)

UICallback == Loaded \/ Unloaded \/ Tick \/ RetryClick \/ ActionClick

PageStep ==
    /\ host = "loop"
    /\ UICallback
    /\ UNCHANGED <<pipeVars, hostVars, dataSeen>>

(* An applied snapshot is the one the dashboard shows from then on, all of *)
(* it or, when a XAML call threw, a part.                                  *)
RunResult(t) ==
    /\ host = "loop"
    /\ RunQueued(t)
    /\ seen' = IF pageAlive /\ answer[t] # "offline" /\ kind[t] = "snapshot"
               THEN carried[t] ELSE seen
    /\ carried' = [carried EXCEPT ![t] = 0]
    /\ UNCHANGED <<pipeVars, hostVars>>

-----------------------------------------------------------------------------
(* A refresh thread's call.                                                *)

(* RequestSnapshot or RequestMetrics writes its request line.              *)
Request(t) ==
    /\ host # "gone"
    /\ pc[t] = "asking"
    /\ Pipe!Ask(t)
    /\ want'[t] = kind[t]
    /\ UNCHANGED <<vars, hostVars, dataSeen>>

Connect(t) ==
    /\ host # "gone"
    /\ Pipe!WaitPipe(t) \/ Pipe!Open(t)
    /\ UNCHANGED <<vars, hostVars, dataSeen>>

SendLine(t) ==
    /\ host # "gone"
    /\ Pipe!Send(t)
    /\ UNCHANGED <<vars, hostVars, dataSeen>>

(* What ParseSnapshotResponse and ParseMetricsResponse make of a reply: an *)
(* error reply, of whatever type, is no data.                              *)
Understood(reply) ==
    CASE reply.type = "snapshot.response" -> IF reply.stale THEN "stale" ELSE "fresh"
      [] reply.type = "metrics.response"  -> "fresh"
      [] OTHER                            -> "offline"

(* SendRequest fails.                                                      *)
CallFails(t) ==
    /\ host # "gone"
    /\ Pipe!Offline(t) \/ Pipe!Broken(t)
    /\ Answer(t)
    /\ answer'[t] = "offline"
    /\ carried' = [carried EXCEPT ![t] = 0]
    /\ UNCHANGED <<hostVars, seen>>

(* SendRequest returns the reply.                                          *)
CallSucceeds(t) ==
    /\ host # "gone"
    /\ Pipe!Receive(t)
    /\ Answer(t)
    /\ \E b \in Brokers :
          /\ peer[b] = t
          /\ answer'[t] = Understood(toClient[b])
          /\ carried' = [carried EXCEPT ![t] = toClient[b].snap]
    /\ UNCHANGED <<hostVars, seen>>

CallStep(t) == Request(t) \/ Connect(t) \/ SendLine(t) \/ CallFails(t) \/ CallSucceeds(t)

(* The steps of a thread outside the call and outside the UI thread.       *)
HandBack(t) ==
    /\ host # "gone"
    /\ CheckAlive(t) \/ Release(t) \/ Post(t) \/ PostRejected(t)
    /\ carried' = [carried EXCEPT ![t] = IF pc'[t] = "idle" THEN 0 ELSE @]
    /\ UNCHANGED <<pipeVars, hostVars, seen>>

-----------------------------------------------------------------------------
(* The broker processes.                                                   *)

Elsewhere(A) == A /\ UNCHANGED <<vars, hostVars, dataSeen>>

BrokerActs(b) == Elsewhere(Pipe!BrokerStep(b))

HostNext ==
    \/ Attach
    \/ SmokeRound
    \/ Show
    \/ Destroy
    \/ Leave
    \/ PageStep
    \/ \E t \in Threads : ThreadDies(t) \/ RunResult(t) \/ CallStep(t) \/ HandBack(t)
    \/ \E b \in Brokers : Elsewhere(Pipe!Start(b) \/ Pipe!Crash(b)) \/ BrokerActs(b)

HostSpec == HostInit /\ [][HostNext]_allVars

(* Threads and processes are scheduled, the message loop runs what it is   *)
(* given, and the timer of a loaded page ticks.  Strong fairness says that *)
(* the broker's five seconds do not run out on every single connection: a  *)
(* thread that keeps getting to write its line, or a broker to read it,    *)
(* does so in time once.  Nothing is assumed of calls as a whole.          *)
HostFairness ==
    /\ WF_allVars(PageStep /\ Tick)
    /\ \A t \in Threads :
          /\ WF_allVars(CallStep(t))
          /\ SF_allVars(SendLine(t))
          /\ WF_allVars(HandBack(t))
          /\ WF_allVars(RunResult(t))
          /\ WF_allVars(ThreadDies(t))
    /\ \A b \in Brokers :
          /\ WF_allVars(BrokerActs(b))
          /\ SF_allVars(Elsewhere(Pipe!ReadLine(b)))

FairHostSpec == HostSpec /\ HostFairness

-----------------------------------------------------------------------------
(* Safety.                                                                 *)

(* What the dashboard shows only goes back in time when it says so: an     *)
(* older snapshot is applied only as one the broker marked stale, whatever *)
(* saves failed, brokers restarted and replies were late.                  *)
OnlyStaleGoesBack == [][seen' < seen => shown' \in {"stale", "partial"}]_allVars

-----------------------------------------------------------------------------
(* Liveness.                                                               *)

(* A page that stays loaded while some broker stays up.                    *)
Undisturbed ==
    /\ host = "loop" /\ page = "loaded"
    /\ \E b \in Brokers : bpc[b] # "down"

(* Such a page goes on receiving the broker's replies, whatever crashes,   *)
(* half-made calls and refused refreshes came before: a broker that starts *)
(* again is found again by the next tick.                                  *)
Reconnects == <>[]Undisturbed => []<><<\E t \in Threads : CallSucceeds(t)>>_allVars
=============================================================================
