# Views Explorer Welcome, in TLA+

TLA+ modules of the concurrent and failure-prone parts of this repository, the
TLC configurations that check them on small instances, and TLAPS proofs of their
safety properties for every value of the constants. Paths below are relative to
the repository; `PROJECT.json` maps every definition to the lines it models.

## The system

A page built with XAML islands (`ExplorerWelcome.NativeUi`, header-only) is shown
either by a stand-alone window (`NativeHost`) or inside Explorer by an in-process
COM server (`NamespaceExtension`). It never reads the system itself: it asks a
broker process (`ExplorerWelcome.Broker`) over one named pipe, one line of JSON
per request and per reply. The broker collects snapshots, keeps the last one and
the user's preferences in two files under `%LOCALAPPDATA%\ViewsExplorerWelcome`,
and launches actions. A script registers the COM server per user.

| Component | State it keeps | Operations | Talks to |
|---|---|---|---|
| Page refresh, `NativeUi/welcome_page.h` | lifetime token, single-flight token, timer, status text, data shown | Loaded, Unloaded, tick, retry and action clicks, a detached thread per refresh, its queued completion | broker client (call), XAML dispatcher (queue) |
| Page dashboard, same file | buttons, gauge target, arrangement of hero and cards, lines of the histories | Loaded, SizeChanged, applySnapshot, clicks | broker client (actions), Explorer's browser |
| Native host, `NativeHost/main.cpp` | window, island, message loop | start, smoke test, `WM_DESTROY`, end | page, Windows |
| Pipe client, `NativeUi/broker_client.h` | none per call; a static counter of action threads | `SendRequest`, `LaunchActionAsync`, `LoadCachedSnapshot` | pipe (messages), cache file (reads) |
| Response parsing, `NativeUi/dashboard_snapshot.h` | none | `ParseSnapshotResponse`, `ParseMetricsResponse` | page |
| Broker loop, `Broker/Program.cs` | the connection and the request in hand | accept, read with timeout, handle, write, and again | pipe, collector, stores, launcher |
| Line framing, `Broker/BoundedLineReader.cs` | the line so far | `ReadAsync` | broker loop |
| Request parser, action launcher, `Broker/*.cs` | none | accept or reject | broker loop |
| Collector, `Broker/SnapshotCollector.cs` | the two sample histories | `CollectAsync`, `CollectMetricsAsync` | Windows counters and drives |
| Stores, `Broker/PreferencesStore.cs`, `SnapshotCache.cs` | one file each | load, save by temporary file and move, `TryUpdatePreferences` | file system |
| Shell extension, `namespace_extension.cpp` | reference counts, object and lock counters, window, island, browser pointer | the COM calls Explorer makes, window messages | Explorer, page |
| Registration, `scripts/register-explorer-component.ps1` | registry keys | Register, Unregister, Status | Explorer |

What is hard about it, and what makes each part correct:

* **Interleaving.** UI callbacks, ticks and clicks run beside refresh threads; two
  brokers or several clients compete for one pipe name; the action counter is
  shared by the UI threads of one Explorer. At most one refresh runs per page; one
  broker serves the session; the counter is exact.
* **Staleness.** The page may be gone when an answer arrives; the cache may be older
  than what was seen; the status text is written by several callbacks. A late answer
  changes nothing; old data is marked; the text never claims more than is shown.
* **Timeouts.** Only the broker's read of the request has one: not the client's read
  of the reply, nor the broker's write. A call has to return, and the endpoint has
  to come back.
* **Failure in the middle.** The broker is killed between two file operations; a cmdlet
  throws between two registry writes; a XAML call throws half way through an
  update. No reader finds half a document; Explorer sees no entry without a server
  that a first registration made; the status does not announce half an update.
* **Layout passes.** Cards are built by a refresh and sized by three passes that depend on
  the width at some moment. They fit the width the page has now.
* **Lifetimes.** Explorer releases in any order and may destroy the parent window
  first. The DLL must not leave while anything of it is alive.
* **Boundaries.** Framing at the limit, CR and LF in different reads; histories at their
  limit; counters that fall or come from a changing set of interfaces.

The complete list, with lines, is `hazards` in `PROJECT.json`.

## Modules

| Module | Models | Actions and what they stand for |
|---|---|---|
| `NativeHost` | `wWinMain`, and the composition of page, pipe client and broker | `Attach`, `SmokeRound`, `Show`, `Destroy`, `Leave` and `ThreadDies` are the process; `PageStep` a callback of the page; `Request`, `Connect`, `SendLine`, `CallFails`, `CallSucceeds` a refresh thread inside `SendRequest`; `HandBack`, `RunResult` its way back |
| `WelcomePage` | page lifecycle, timer, refresh threads | `Loaded`, `Unloaded`, `Tick`, `RetryClick`, `ActionClick`, `CloseIsland` are UI callbacks, whole; a thread is `Answer` (the broker call), `CheckAlive`, `Release`, `Post`, and its completion on the UI thread `RunQueued`. Every access to an atomic is a step |
| `PipeBroker` | broker loop and `SendRequest` around the pipe | broker: `Create`, `Accept`, `ReadLine`, `ReadTimeout`, `Handle`, `Collect`, `SaveAndReply`, `WriteStaleOrError`, `WriteEnds`, `ConnectionLost`, `Crash`; client: `Ask`, `WaitPipe`, `Offline`, `Open`, `Send`, `Broken`, `Receive`, `Abandon`, and the ill-behaved `KeepMute` and `Hold` |
| `BrokerService` | the abstract broker, as its clients and the cache file see it | `Ask`, `Serve`, `AnswerFresh`, `AnswerStale`, `AnswerPlain`, `Take`, `GiveUp`; `Collect`, `Save`; `Lose` and `BreakOff` for everything that goes wrong |
| `Contracts` | request kinds and replies, shared by the two modules above | |
| `Dashboard` | what the page shows and where, and what the broker makes of a click | `SizeChanged`, `Loaded`, `Unloaded`, `ApplySnapshot`, `Click`, `ClickPrimaryStorage`; `WorldChanges` is a drive, file or terminal that comes or goes |
| `ActionLauncherClient` | `LaunchActionAsync` | one action per atomic operation on the counter, on its refused, failed and finished paths |
| `ActionGate` | the abstract gate: at most `Limit` admitted | `Admit`, `Leave` |
| `BoundedLineReader` | `ReadAsync` | `ReadPiece` (a read and the loop over its characters), `ReadNothing`, `Cancel` |
| `LocalStore` | both stores and `TryUpdatePreferences` | `BeginUpdate`, `RejectUpdate`, `BeginCache`, then `CreateTmp`, `WriteTmp`, `Move`, or `SaveFails`, or `Crash`. A read of an intact file may fail (`misread`) |
| `NamespaceExtension` | COM objects and the view | one action per COM entry point (`AddRef` includes `QueryInterface`), the three ways `CreateViewWindow` ends, `ParentDestroyed`, `Unload`; and what a shown page starts: `PageStartsThread`, `NavigateFolder`, `BrowseReturns`, `ThreadEnds` |
| `Registration` | the script | one action per registry write or removal, `InvokeShellAssociationRefresh` before the run reports, `Fail` before any of them |
| `SnapshotCollector` | both collections; on the page's side the volume of the storage gauge and the lines of the histories | `Begin` (first reading), `ReadAgain` or `TimeOut`, `BuildMetrics`, `CollectSections` or `SectionsThrow`. `SetSparkline` is the operator that plots a history |

`X_proof` holds the theorems about `X`. `NativeHost_proof` also holds those about `WelcomePage`,
which its proofs rest on, and `Dashboard_proof` those about `ActionLauncherClient`, through which its
buttons act. `MCX` and its `.cfg` files instantiate `X`
for TLC. An operator commented `mutant` is a plausible mistake in the definition
below it. It is part of no specification: putting it in place of that definition
must break the property named beside it in `PROJECT.json`.

`PipeBroker` is itself a composition: the loop and its clients share the pipe, and
the cache appears as the number of its snapshot. `NativeHost` composes further: it extends
`WelcomePage` and instantiates `PipeBroker` with the page's refresh threads as the clients, so that
the page's `Answer` happens exactly with the step in which `SendRequest` fails or returns, and
with what that call returned. `OneEndpoint` is what lets
`LocalStore` take saves one at a time although nothing locks the files. `WriteEnds` is the broker's
and the client's close in one: the code disposes of its end once the line is written, but the
instance, and with it the endpoint, lives on until the client has closed as well.
`ActionLauncherClient` implements `ActionGate` under the mapping `admitted <- Admitted`
(the calls past the comparison). `PipeBroker` implements `BrokerService`: `served <- Served` is the
client at the other end of a broker that handles, saves or writes, `ready <- Ready` the reply in its
pipe, `waiting <- Waiting` the clients that have yet to send and those whose line nobody has read.
`NativeHost` implements `WelcomePage` and `PipeBroker`, each under
the identity on its variables: the page alone sees a broker through the outcomes of a call.
`Dashboard` stands beside `WelcomePage`: the one says when a snapshot is applied, the other what
applying it does to what can be seen and clicked.

## Runs

| Run | Instance | What it shows |
|---|---|---|
| `host` | the host with 2 refresh threads, 1 broker that may crash at any step, 2 snapshots, 2 rounds of the smoke test, XAML calls may throw; 234,960 states | `SingleFlight`: the token is set exactly while one refresh is under way. `StatusTruthful`. `LateAnswerIgnored`, `OnlyStaleGoesBack` (action properties): an unloaded page is left alone, an older snapshot is only applied as a stale one. Liveness: `RefreshReported` (a refresh that ends unreported has left a half-filled dashboard and no thread), and `Reconnects`: a page that stays loaded over a broker that stays up goes on receiving replies |
| `broker` | 2 brokers that may crash, 2 clients that may be mute or hold their handle, 2 snapshots; 368,480 states | `OneEndpoint`, `AnswersItsRequest`, `FreshIsNew`, `ServiceSpec` (refinement of `BrokerService`). Liveness: `EndpointUnlessHeld`: while some broker stays up, the pipe can be connected to again and again, unless a client that holds its handle stands in the way |
| `dashboard` | a share listed before a local volume, a document, a terminal and a setting; 12 widths, on both sides of every break of the layout; 122,364 states | `CardsFit`, `RefusedOnlyIfGone` |
| `actions` | 6 calls, limit 4; 3,648 states | `CounterExact`, `GateSpec` (refinement), `CounterDrains` (liveness) |
| `line_reader` | all streams of up to 6 characters, limit 3, reads of at most 2; 7,102 states | `FramingIndependentOfPieces`: the outcome is that of the framing rule on the whole stream |
| `store` | 2 preferences of 2 values, 2 snapshots; 112,360 states | `NeverTorn`, `AnswerMatchesFile`, `OthersSurvive` (action property): an update leaves what it does not name, or puts it back to its default if it could not read the file |
| `com_objects` | 3 addresses, 2 references each, 1 lock, 2 browser references, 1 thread; 37,936 states up to symmetry | `CountExact`, `NothingLeftBehind`, `WindowInsideView`, `BrowserHeld` |
| `registration` | 2 locations, 2 DLLs, any sequence of runs; 1,044 states | `RegisteredIsWhole`, `EntryPublishedLast`, `ForeignServerKept` (the last two action properties) |
| `collector` | 2 interfaces, 3 CPU times, histories of 2, up to 2 drives of 5 kinds; 718,150 states up to symmetry | `LinesEndNow`: every line stays in its box and ends at the value printed beside it. `ErrorsExplain`, `GaugeAgreesWithoutShares`, `RatesAreTraffic` (action property) |
| `page_retry_refused` | the page alone, never unloaded (the hypothesis of the property), 2 thread identities | violates `PendingSettles`, see finding 1 |
| `broker_idle_client` | 1 broker, 2 clients of which one may hold its handle | violates `EndpointReturns`, see finding 2 |
| `unload_with_threads` | as `com_objects`, 1 browser reference | violates `UnloadedIsQuiet`, see finding 3 |

Each passing run also checks its module's type invariant. `host` takes one to two minutes,
`broker`, `collector` and `dashboard` less than one, the others a few seconds.

**Why the bounds are enough.** Two thread identities are one more than the token admits,
so a second refresh is reachable as soon as the token fails; likewise two brokers
against one instance. Two clients give a request, its timeout and a different
client behind it. In `host` one broker that crashes and starts again stands for a sequence of
them; two at once are the subject of `broker`, which has the same pipe. Other clients than the
page are left to `broker` too: with them the state space of `host` is out of reach. Six calls make
two refused ones overlap four admitted ones. Streams reach twice the limit, in pieces around the
CR LF pair. Two snapshots order old and new. Three addresses hold a factory, a folder and a view at
once. Histories of two are trimmed by the third sample, and have one or two points, equal or
not. The widths of `dashboard` are those at which an arrangement changes, and their neighbours. The
only bounds in guards are `MaxSnapshots` (`PipeBroker`; beyond it collections fail), `MaxRefs`,
`MaxLocks`, `MaxGrants` and `MaxThreads` (`NamespaceExtension`); sets given as constants bound the
rest (`Inputs`, `Drives`, `Statistics`, `CpuTimes`, `Snapshots`, `Widths`). Most states of
`registration` are ends of failed runs: its number is its whole state space.

**Deadlock** is checked except in `host`, `broker`, `broker_idle_client`, `page_retry_refused`,
`actions` and `line_reader`: there the system may come to rest, as a host that has ended over a
broker that is down, a page that was left, or a reader that has returned does.

**Fairness.**
* `NativeHost` (`HostFairness`): refresh threads and brokers are scheduled, the message loop runs
  what is queued, the timer of a loaded page ticks, and a process that has ended takes its threads
  along. These are weak. Two are strong: `SendLine` and the broker's `ReadLine`. A broker may close
  a connection when its five seconds are over although the thread is about to write or the line has
  just arrived, and weak fairness would let that happen on every connection for ever; strong
  fairness says that a thread or a broker that gets its chance again and again takes it once in
  time. Nothing is assumed of a call as a whole, which is what `ReadFile` without a timeout asks
  for: that calls return follows. Starting and crashing a broker, clicks, unloading and closing the
  window have no fairness.
* `WelcomePage` alone, in `page_retry_refused`: the same for its threads, and `BrokerFairness`,
  that calls return. It only makes that violation stronger.
* `PipeBroker`: weak fairness of a running broker's next step, its five-second timeout included,
  and of a client inside `SendRequest`. Starting, crashing, asking, staying mute and holding a handle
  are never forced.
* `ActionLauncherClient`: a call under way goes on; nobody has to click.

## Disagreements found

1. `page_retry_refused`. The retry button writes "Aggiornamento in corso" before it asks
   for a refresh, which is silently refused while a one-second metrics refresh holds
   the token. Metrics refreshes report nothing, so the text stays until something
   else replaces it. In the trace the page stays loaded: its first snapshot is reported, a tick
   starts a metrics refresh, the retry is refused, the metrics refresh ends, and further ticks change
   nothing. `PendingSettles` assumes that the page is never unloaded because a reload has a
   variant of its own: `Loaded` writes the loading text and is refused at the same line while a
   thread of the page's former life still holds the token. `archive.md` says broker work "reports
   updated, stale, or offline state back".
2. `broker_idle_client`. A pipe instance lives while either end is open. The read timeout
   closes the broker's end only; while an idle client keeps its own, the broker cannot create
   the single instance again and retries without pause. `archive.md` says the timeout was added
   "so an idle local pipe client cannot monopolize the single broker endpoint".
3. `unload_with_threads`. `DllCanUnloadNow` reads the counts of objects and of server locks, and
   `DestroyViewWindow` joins nothing. After the last release Explorer may free the DLL while a
   detached refresh or action thread still runs in it, or the click that navigated away has yet
   to return. `SPECIFICATION.md` says "View destruction cancels all callbacks and timers."
   `loaded` in the model follows the answer of `DllCanUnloadNow`. The C runtime may hold a module
   reference for a `std::thread` while it runs, which puts off the unmapping under a thread;
   the answer is no less wrong, and the click that has yet to return has no such reference.

Smaller ones have no run of their own; the properties are stated so that they name them.

* A read of `preferences.json` that throws is taken for a missing file, and the next update saves
  the defaults over every other preference. `OthersSurvive` allows exactly this.
* Unregister removes the NameSpace key of the location it is given, not the one that was
  registered: `UnregisteredHere` speaks of that location, and no property forbids what is left
  at the other.
* The storage gauge takes its percentage from the first drive with a capacity, network drives
  included, and its used and total values from the first local volume. `GaugeAgreesWithoutShares`
  states where the two coincide; they may differ when a network drive is lettered before the system
  volume.
* `CreateViewWindow` keeps the browser when `GetWindow` fails, and a second call overwrites the
  pointer without releasing it. `BrowserHeld` asks for at least one reference, not for exactly one.
* Between 900 and 1080 pixels the hero's identity, gap and metrics take up to 11 pixels more than
  there are, because its minimum of 760 is applied before the cap that leaves 310, and 310 is less
  than what stands beside it. `MetricsFit` makes that exception.
* The wrap grids pass through three columns at page widths from 832 to 1099; `SPECIFICATION.md`
  says that the cards "reflow to two columns and then one column".

## Proofs

Every safety invariant and every action property of the runs is also a theorem, proved with
TLAPS for any values of the constants that satisfy the named assumption of the module. Each proof
has one inductive invariant; it starts with the type invariant and adds what the stated properties
are missing. New strengthenings were checked with TLC before they were proved.

| Theorems about | Stated | Assumption, and what the invariant adds |
|---|---|---|
| `WelcomePage` (in `NativeHost_proof`) | types, `SingleFlight`, `StatusTruthful`, `LateAnswerIgnored` | `ThreadsAssumption`. `NoClaimWhileAsking`: from the request for a snapshot to its end the status claims no data, so an update that throws half way cannot leave a claim behind |
| `NativeHost` | `HostImplementsPage`, `HostImplementsPipe`, `HostImplementsService`, `HostSingleFlight`, `HostStatusTruthful`, `HostLateAnswerIgnored`, types, `OnlyStaleGoesBack` | `HostAssumption`. `HostIInv`, see below |
| `PipeBroker` | types, `OneEndpoint`, `AnswersItsRequest`, `FreshIsNew`, `CacheNeverGoesBack`, `ServiceSpec` | `PipeAssumption`. `HandleInv` (a broker's step tells which handles are open and what is in the pipe), `RequestInv` (the line in the pipe is the request its client waits for), `SnapshotInv` (the snapshot being saved is the last collected). The cache cannot go back because one endpoint leaves one broker to save |
| `Dashboard` | types, `CardsFit`, `RefusedOnlyIfGone` | `DashboardAssumption`: drives are listed once, and a drive, a file, a terminal and a setting are told apart. `LayoutInv`: the layout is that of the present width. `ButtonsOfKind`: a button of one action names no target of another |
| `ActionLauncherClient` (in `Dashboard_proof`) | types, `CounterExact`, `AtMostLimit`, `GateSpec` | `LimitAssumption`. The calls under way are finite: each has raised the counter. Every step admits, ends or stutters |
| `SnapshotCollector` | types, `LinesEndNow`, `ErrorsExplain`, `GaugeAgreesWithoutShares`, `RatesAreTraffic` | `CollectorAssumption`. `HistoryInv` (a history stays within its bound), `CurrentInv` (from the building of the metrics to the end of the collection each history ends at the value just measured), `ErrorsInv` (errors start empty and follow the metrics), `RowInv` (a row was made of a drive) and `FollowsInv` (the second reading comes after the first) |
| `BoundedLineReader` | types, `FramingIndependentOfPieces`, `BoundedAndProgressing` | `ReaderAssumption`. `PrefixInv`: while reading, the builder holds exactly what was taken and no line feed was in it |
| `LocalStore` | types, `NeverTorn`, `AnswerMatchesFile`, `OthersSurvive` | `StoreAssumption`. `SaveInv`: the document being saved was merged from the file as it still is |
| `NamespaceExtension` | types, `CountExact`, `NothingLeftBehind`, `WindowInsideView`, `BrowserHeld` | `ExtensionAssumption`. `RefInv`: an object alive has a reference, a browser pointer a grant, so no count falls below zero |
| `Registration` | types, `RegisteredIsWhole`, `UnregisteredHere`, `EntryPublishedLast`, `ForeignServerKept` | `RegistrationAssumption`. `StepInv`: what the earlier steps of the running script have established |

`AtMostLimit`, `BoundedAndProgressing`, `UnregisteredHere` and `CacheNeverGoesBack` are theorems that
no run checks any more: each is proved from the same inductive invariant as its neighbours.

**The broker as a service** (`ImplementsService`). Under `IInv` a broker past `Create` is alone
(lemma `Alone`): nobody else is served and no other pipe holds a reply. So `ReadLine` is `Serve`, the
three ways of replying are the three answers, closing the broker's end is `Lose` or `BreakOff` or
goes unnoticed, and whatever ends a client's call is `Take` or `GiveUp`. A reply to a client that has
left is no step of the service, except that it may still save the cache.

**The host** (`HostIInv`). Every step of the composition is a step of the page or leaves it alone,
and the same of the pipe, so what is proved of each holds of the process. `OnlyStaleGoesBack` needs
both: `LatestInv` (an unmarked reply in the pipe is the last snapshot collected), `WantInv` (a thread
inside a call asked for what its refresh is about), `SeenInv` (no snapshot is
shown or carried that was not collected), `FreshInv` (a fresh snapshot on its way to the page is no
older than what the page shows) and `EarlyInv` (before the message loop runs, nothing is shown and
nothing asked).

**The layout.** The cards' widths are quotients; that they fit is shown count by count, for one to
four columns, and for the hero range by range of the width (`ArrangementFacts`, `WrapFacts`,
`GridFacts`).

**Sums.** `RatesAreTraffic` speaks of sums over the interfaces, which the library defines by
recursion over a set. The library's induction theorems take an operator, which no prover here can
instantiate; `AllNaturals` and `AllSubsets` say the same of sets (a set of subsets that holds the
empty one and grows by an element holds all), from the well-foundedness of the naturals. With them
`SumExists` shows that the recursion has a solution, `SumOfNaturals` and `SumOfDifferences` what it is.

Only model-checked: liveness (`RefreshReported`, `Reconnects`, `EndpointUnlessHeld`,
`CounterDrains`), which is beyond this prover. No model needs a recursion over data but for those
sums: framing is stated with the position of the first line feed.

## Not modelled

* Texts, colours, icons, wallpaper and the formatting of sizes and rates; live metrics, which
  change no layout and no button.
* In `Dashboard`, clicks that navigate Explorer instead of asking the broker, and those dropped
  at the limit of four: they are the subject of `NamespaceExtension` and `ActionLauncherClient`.
* The bounds `PipeRequestParser` puts on each field, and the caps `ParseSnapshotResponse` puts on
  each collection: pure decisions on one message. `PipeBroker` takes a line for valid or not.
* Machine identity, network locations, recent items, wallpaper and tool discovery: reads
  of Windows without state. A collection ends or throws there. The command lines
  `ActionLauncher` starts.
* A `std::thread` that cannot be made for a refresh: its exception leaves the token set. Threads
  can always be made in `WelcomePage`; `ActionLauncherClient`, where the code catches the failure,
  has it.
* A client that sends a request and never reads the reply: `Hold` is a client that has sent
  nothing.
* Loss of power (files are not flushed before the move), and the time that a drive or registry
  call takes.
* `HeavyApp` (one snapshot request, as a client of the pipe), and the signing, packaging, banner
  and check scripts.

## Plan

Order of work, the most important behaviour first: page, pipe and broker, action counter,
framing, stores, COM lifetimes, registration, collector, then the composition in the host, the
dashboard, the threads against unloading, and the proofs of all safety properties. Done as above.
Next:

1. Abstract specifications of the other two stateful parts, and proofs that they are implemented: a
   store whose updates happen whole or not at all (`LocalStore`), and a registry entry that is absent
   or served (`Registration`).
2. What `BrokerService` promises, proved of it alone, so that the theorems of `PipeBroker` follow
   from the refinement.
3. The safety part of the liveness arguments: that a refresh under way always has a step to take
   unless it waits for a broker.
4. The extension as a second composition: the page of `WelcomePage` inside a view of
   `NamespaceExtension`, whose `threads` are then its refresh threads.
5. A client that never reads, which needs the pipe's buffer; the decisions of
   `PipeRequestParser`; the signing and certificate scripts, whose steps also fail half way.
