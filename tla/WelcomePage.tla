---------------------------- MODULE WelcomePage ----------------------------
(***************************************************************************)
(* The welcome page of ExplorerWelcome.NativeUi (welcome_page.h): the page *)
(* lifecycle callbacks, the one-second metrics timer, the retry button and *)
(* the detached threads that ask the broker and hand their answer back to  *)
(* the UI thread through the XAML dispatcher.                              *)
(*                                                                         *)
(* UI callbacks run one at a time on the XAML thread, so each is a single  *)
(* action.  A refresh thread runs beside them: every atomic it reads or    *)
(* writes is a step of its own.                                            *)
(***************************************************************************)
EXTENDS FiniteSets

CONSTANTS
    Threads,        \* identities of the detached refresh threads
    ApplyMayFail    \* whether a XAML call made while applying data may throw

ASSUME ThreadsAssumption == Threads # {} /\ ApplyMayFail \in BOOLEAN

Kinds == {"snapshot", "metrics"}

(* What a refresh callback reports: usable data that is current, usable    *)
(* data the broker marked stale, or no data (offline, malformed, thrown).  *)
Answers(kind) == IF kind = "snapshot" THEN {"fresh", "stale", "offline"}
                                      ELSE {"fresh", "offline"}
AllAnswers == {"fresh", "stale", "offline"}

(* A text that announces a refresh still to be reported on.                *)
Pending  == {"loading", "refreshing"}
Statuses == {"initial", "action"} \cup Pending \cup AllAnswers

Shown == {"initial", "fresh", "stale", "partial"}

Steps == {"idle", "asking", "answered", "posting", "releasing", "queued"}

VARIABLES
    page,           \* where the root element is in its XAML life
    islandOpen,     \* FALSE once the XAML island has been closed
    pageAlive,      \* the atomic page-lifetime token
    refreshRunning, \* the atomic single-flight token
    timerOn,        \* the metrics DispatcherTimer is started
    tickAttached,   \* its Tick handler is attached
    pc,             \* the step each refresh thread is at
    kind,           \* what each refresh thread asks for
    answer,         \* what the broker told it
    status,         \* the status text block
    shown           \* the data behind the full dashboard

vars == <<page, islandOpen, pageAlive, refreshRunning, timerOn, tickAttached,
          pc, kind, answer, status, shown>>

pageVars   == <<page, islandOpen, pageAlive, timerOn, tickAttached>>
threadVars == <<pc, kind, answer>>
viewVars   == <<status, shown>>

TypeOK ==
    /\ page \in {"built", "loaded", "unloaded"}
    /\ islandOpen \in BOOLEAN
    /\ pageAlive \in BOOLEAN
    /\ refreshRunning \in BOOLEAN
    /\ timerOn \in BOOLEAN
    /\ tickAttached \in BOOLEAN
    /\ pc \in [Threads -> Steps]
    /\ kind \in [Threads -> Kinds]
    /\ answer \in [Threads -> AllAnswers]
    /\ status \in Statuses
    /\ shown \in Shown

Init ==
    /\ page = "built"
    /\ islandOpen = TRUE
    /\ pageAlive = TRUE
    /\ refreshRunning = FALSE
    /\ timerOn = FALSE
    /\ tickAttached = FALSE
    /\ pc = [t \in Threads |-> "idle"]
    /\ kind = [t \in Threads |-> "metrics"]
    /\ answer = [t \in Threads |-> "offline"]
    /\ status = "initial"
    /\ shown = "initial"

-----------------------------------------------------------------------------
(* The refresh threads and the page callbacks.                             *)

InFlight == {t \in Threads : pc[t] # "idle"}

(* The guard of a refresh: the page lives and no refresh holds the token.  *)
MayStartUncoalesced(alive) == alive                                 \* mutant
MayStart(alive) == alive /\ ~refreshRunning

(* RunSnapshotRefreshAsync: refused while the page is dead or another      *)
(* refresh holds the token; otherwise takes the token and starts a thread. *)
RunSnapshotRefreshAsync(alive, what) ==
    IF MayStart(alive)
    THEN /\ refreshRunning' = TRUE
         /\ \E t \in Threads :
               /\ pc[t] = "idle"
               /\ pc' = [pc EXCEPT ![t] = "asking"]
               /\ kind' = [kind EXCEPT ![t] = what]
         /\ UNCHANGED answer
    ELSE UNCHANGED <<refreshRunning, threadVars>>

(* root.Loaded: revive the page, ask for a snapshot, start the timer.      *)
Loaded ==
    /\ islandOpen
    /\ page # "loaded"
    /\ page' = "loaded"
    /\ pageAlive' = TRUE
    /\ status' = "loading"
    /\ RunSnapshotRefreshAsync(TRUE, "snapshot")
    /\ tickAttached' = TRUE
    /\ timerOn' = TRUE
    /\ UNCHANGED <<islandOpen, shown>>

(* root.Unloaded: drop the lifetime token, stop and detach the timer.      *)
Unloaded ==
    /\ page = "loaded"
    /\ page' = "unloaded"
    /\ pageAlive' = FALSE
    /\ timerOn' = FALSE
    /\ tickAttached' = FALSE
    /\ UNCHANGED <<islandOpen, refreshRunning, threadVars, viewVars>>

(* A tick of the started timer: a metrics refresh that announces nothing.  *)
Tick ==
    /\ islandOpen
    /\ timerOn
    /\ tickAttached
    /\ RunSnapshotRefreshAsync(pageAlive, "metrics")
    /\ UNCHANGED <<pageVars, viewVars>>

(* The "Aggiorna dati" button: the text changes before the request is made. *)
RetryClick ==
    /\ islandOpen
    /\ page = "loaded"
    /\ status' = "refreshing"
    /\ RunSnapshotRefreshAsync(pageAlive, "snapshot")
    /\ UNCHANGED <<pageVars, shown>>

(* Any other button of the page only reports that its action was sent.     *)
ActionClick ==
    /\ islandOpen
    /\ page = "loaded"
    /\ status' = "action"
    /\ UNCHANGED <<pageVars, refreshRunning, threadVars, shown>>

(* The host closes the XAML island, with or without an Unloaded before.    *)
CloseIsland ==
    /\ islandOpen
    /\ islandOpen' = FALSE
    /\ timerOn' = FALSE
    /\ UNCHANGED <<page, pageAlive, refreshRunning, tickAttached, threadVars, viewVars>>

(* The thread is over, and what it held with it.                           *)
Ends(t) ==
    /\ pc' = [pc EXCEPT ![t] = "idle"]
    /\ kind' = [kind EXCEPT ![t] = "metrics"]
    /\ answer' = [answer EXCEPT ![t] = "offline"]

(* The broker callback returns, or throws (then nothing is available).     *)
Answer(t) ==
    /\ pc[t] = "asking"
    /\ \E a \in Answers(kind[t]) : answer' = [answer EXCEPT ![t] = a]
    /\ pc' = [pc EXCEPT ![t] = "answered"]
    /\ UNCHANGED <<pageVars, refreshRunning, kind, viewVars>>

(* The thread reads the lifetime token once before it posts.               *)
CheckAlive(t) ==
    /\ pc[t] = "answered"
    /\ pc' = [pc EXCEPT ![t] = IF pageAlive THEN "posting" ELSE "releasing"]
    /\ UNCHANGED <<pageVars, refreshRunning, kind, answer, viewVars>>

(* It found the page dead: release the single-flight token and end.        *)
Release(t) ==
    /\ pc[t] = "releasing"
    /\ Ends(t)
    /\ refreshRunning' = FALSE
    /\ UNCHANGED <<pageVars, viewVars>>

(* Dispatcher.RunAsync accepts the result.                                 *)
Post(t) ==
    /\ pc[t] = "posting"
    /\ pc' = [pc EXCEPT ![t] = "queued"]
    /\ UNCHANGED <<pageVars, refreshRunning, kind, answer, viewVars>>

(* Dispatcher.RunAsync throws because the island is closing.               *)
PostRejected(t) ==
    /\ pc[t] = "posting"
    /\ ~islandOpen
    /\ Ends(t)
    /\ refreshRunning' = FALSE
    /\ UNCHANGED <<pageVars, viewVars>>

(* applySnapshot rebuilds the dashboard; applyLiveMetrics only moves the   *)
(* gauges and leaves the dashboard's data what it was.                     *)
ApplyResult(t) ==
    shown' = IF answer[t] # "offline" /\ kind[t] = "snapshot"
             THEN answer[t] ELSE shown

(* Only a snapshot refresh announces its summary in the status text.       *)
AnnounceAlways(t) == status' = answer[t]                            \* mutant
AnnounceNever(t)  == status' = status                               \* mutant
AnnounceKind(t)   == status' = kind[t]                              \* mutant

Announce(t) ==
    status' = IF kind[t] = "snapshot" THEN answer[t] ELSE status

(* A XAML call throws half way: the rest of the update is skipped.         *)
ApplyThrows(t) ==
    /\ ApplyMayFail
    /\ answer[t] # "offline"
    /\ shown' = IF kind[t] = "snapshot" THEN "partial" ELSE shown
    /\ UNCHANGED status

(* What a delivered result does to the page, if the page is still alive.   *)
DeliverUnchecked(t) == ApplyResult(t) /\ Announce(t)                \* mutant

Deliver(t) ==
    IF pageAlive
    THEN \/ ApplyResult(t) /\ Announce(t)
         \/ ApplyThrows(t)
    ELSE UNCHANGED viewVars

(* The queued callback runs on the UI thread and gives the token back.     *)
RunQueued(t) ==
    /\ islandOpen
    /\ pc[t] = "queued"
    /\ Deliver(t)
    /\ Ends(t)
    /\ refreshRunning' = FALSE
    /\ UNCHANGED pageVars

ThreadStep(t) ==
    \/ Answer(t)
    \/ CheckAlive(t)
    \/ Release(t)
    \/ Post(t)
    \/ PostRejected(t)
    \/ RunQueued(t)

Next ==
    \/ Loaded
    \/ Unloaded
    \/ Tick
    \/ RetryClick
    \/ ActionClick
    \/ CloseIsland
    \/ \E t \in Threads : ThreadStep(t)

Spec == Init /\ [][Next]_vars

(* Threads are scheduled and the open dispatcher drains its queue.         *)
SchedulerFairness ==
    \A t \in Threads :
        /\ WF_vars(CheckAlive(t))
        /\ WF_vars(Release(t))
        /\ WF_vars(Post(t))
        /\ WF_vars(RunQueued(t))

(* The pipe call made by the callback returns: an assumption on the broker *)
(* and its pipe, since the code gives ReadFile no timeout.                 *)
BrokerFairness == \A t \in Threads : WF_vars(Answer(t))

FairSpec == Spec /\ SchedulerFairness /\ BrokerFairness

-----------------------------------------------------------------------------
(* Safety.                                                                 *)

(* The single-flight token is exactly the presence of one refresh, from    *)
(* the exchange that starts its thread to the store that ends it, on every *)
(* way out: dead page, refused post, run callback.                         *)
SingleFlight ==
    /\ refreshRunning <=> InFlight # {}
    /\ \A t, u \in InFlight : t = u

(* The status never claims more than the dashboard shows: "updated" and    *)
(* "stale" are only displayed over data of that kind, whichever of ticks,  *)
(* retries, clicks and page reloads came in between.                       *)
StatusTruthful == status \in {"fresh", "stale"} => shown = status

(* A completion that arrives after Unloaded changes nothing on the page.   *)
LateAnswerIgnored ==
    [][page = "unloaded" /\ page' = "unloaded" => UNCHANGED viewVars]_vars

-----------------------------------------------------------------------------
(* Liveness.                                                               *)

Gone == page # "loaded" \/ ~islandOpen

(* A snapshot asked for by a loaded page is reported to the user, unless   *)
(* its thread has already found the page dead. The one other way out is a  *)
(* XAML call that throws half way through the update: then the refresh is  *)
(* over, its thread gone, and the dashboard left half filled.              *)
RefreshReported ==
    (page = "loaded" /\ \E t \in InFlight : kind[t] = "snapshot" /\ pc[t] # "releasing")
        ~> (status \in AllAnswers \/ (shown = "partial" /\ InFlight = {}) \/ Gone)

(* On a page that stays loaded, the text "refreshing" that a retry writes  *)
(* is followed by a report. It is not when a metrics refresh holds the     *)
(* token: the retry is refused after its text is on screen. (A page that   *)
(* is reloaded meets the same with "loading", refused because a thread of  *)
(* its former life holds the token; the hypothesis leaves that out.)       *)
PendingSettles ==
    [](page # "unloaded") =>
        ((page = "loaded" /\ status \in Pending) ~> (status \notin Pending \/ Gone))
=============================================================================
