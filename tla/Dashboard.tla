----------------------------- MODULE Dashboard -----------------------------
(***************************************************************************)
(* What the home page shows and where: the buttons of the snapshot applied *)
(* last, the volume its storage metric opens, and the layout of the cards, *)
(* for a page that is resized, hidden, shown and refreshed in any order;   *)
(* and what the broker answers when a button is clicked, while drives,     *)
(* files and terminals come and go under a snapshot that may have been     *)
(* cached long ago. When a snapshot reaches the page is the subject of     *)
(* WelcomePage; live metrics change nothing that is modelled here. Lengths *)
(* are device-independent pixels; a card has 4 of them on each side.       *)
(***************************************************************************)
EXTENDS Integers, Sequences, FiniteSetsExt

CONSTANTS
    DriveOrder,     \* the drive letters, in the order Windows lists them
    NetworkDrives,  \* those that are mapped shares
    Files,          \* recent documents
    TerminalIds,    \* the terminals the broker knows
    Catalog,        \* QuickSettingsCatalog
    Label,          \* a display name, which names no target
    Widths,         \* bound: the widths the page is given
    None

Drives  == Range(DriveOrder)
Targets == Drives \cup Files \cup TerminalIds \cup Catalog

(* A drive is listed once, and what a target names shows in its form.      *)
ASSUME DashboardAssumption ==
    /\ DriveOrder \in Seq(Drives)
    /\ \A j, k \in DOMAIN DriveOrder : DriveOrder[j] = DriveOrder[k] => j = k
    /\ NetworkDrives \subseteq Drives
    /\ Drives \cap Files = {} /\ TerminalIds \cap Catalog = {}
    /\ (Drives \cup Files) \cap (TerminalIds \cup Catalog) = {}
    /\ Widths \subseteq Nat \ {0}
    /\ {Label, None} \cap Targets = {}

(* What a snapshot is taken of. A drive may be listed and not be ready.    *)
World == [drive : [Drives -> {"absent", "notReady", "ready"}],
          files : SUBSET Files, terminals : SUBSET TerminalIds]

Actions == {"folder.open", "item.open", "terminal.open", "settings.open"}
Cell    == [column : Nat, row : Nat]
Wrap    == [items : Nat, columns : 1..4, total : Nat]   \* total: columns * card width
Hero    == [beside : BOOLEAN, taken : Nat, metrics : Nat \cup {None}, columns : {1, 2, 4}]

VARIABLES
    world,        \* the drives, files and terminals there are
    width,        \* root.ActualWidth; 0 before the first layout
    loaded,       \* the page is in the visual tree
    buttons,      \* the enabled action buttons: what each asks of the broker
    target,       \* *primaryStorageTarget
    hero,         \* the arrangement of the hero, None before the first layout
    cells,        \* the cells of the four metric cards
    storageWrap,  \* the storage cards
    lowerWrap,    \* the four list cards
    launched      \* what became of the last click

contents == <<buttons, target>>
layout   == <<hero, cells, storageWrap, lowerWrap>>
dashboardVars == <<world, width, loaded, contents, layout, launched>>

Ready(w)   == {d \in Drives : w.drive[d] = "ready"}
Present(w) == Ready(w) \cup w.files \cup w.terminals \cup Catalog

DashboardTypeOK ==
    /\ world \in World
    /\ width \in Widths \cup {0}
    /\ loaded \in BOOLEAN
    /\ buttons \subseteq Actions \X (Targets \cup {Label})
    /\ target \in Drives \cup {None}
    /\ hero \in Hero \cup {None}
    /\ cells \in [1..4 -> Cell]
    /\ storageWrap \in Wrap
    /\ lowerWrap \in Wrap /\ lowerWrap.items = 4
    /\ launched \in [verdict : {"done", "failed", "refused"}, there : BOOLEAN] \cup {None}

Smaller(m, n) == IF m <= n THEN m ELSE n
Larger(m, n)  == IF m >= n THEN m ELSE n

-----------------------------------------------------------------------------
(* The contents of a page that shows a snapshot of w.                      *)
Volumes(w) == {d \in Drives : w.drive[d] # "absent"}

PrimaryStorage(w) ==
    LET local == {k \in DOMAIN DriveOrder : DriveOrder[k] \in Ready(w) \ NetworkDrives}
    IN  IF local = {} THEN None ELSE DriveOrder[Min(local)]

(* MakeNativeListCard enables the rows that are available: shares that are *)
(* connected, documents that exist, terminals that are installed.          *)
LowerButtonsOneKind(w) ==                                           \* mutant
    {"folder.open"} \X ((NetworkDrives \cap Ready(w)) \cup w.files)
    \cup {"terminal.open"} \X w.terminals
LowerButtons(w) ==
    {"folder.open"} \X (NetworkDrives \cap Ready(w))
    \cup {"item.open"} \X w.files
    \cup {"terminal.open"} \X w.terminals

StorageButtons(w) == {"folder.open"} \X Volumes(w)
SettingsButtons   == {"settings.open"} \X Catalog
ButtonsOf(w)      == StorageButtons(w) \cup LowerButtons(w) \cup SettingsButtons

(* The mock-up a page shows without a snapshot: its lists send the names   *)
(* they display, its volumes may happen to exist.                          *)
MockButtons == {"folder.open"} \X Drives
               \cup {"folder.open", "item.open", "terminal.open"} \X {Label}
               \cup SettingsButtons

(* Cards as they are built, before a layout gives them their width.        *)
Built(n, columns) == [items |-> n, columns |-> columns, total |-> 220 * columns]

-----------------------------------------------------------------------------
(* ApplyWrapCardWidths: as many columns of 260 as fit, sharing the width.  *)
ApplyWrapUnguarded(wrap, available) ==                              \* mutant
    LET columns == Smaller(Smaller(4, wrap.items), Larger(1, (available + 8) \div 268))
    IN  [wrap EXCEPT !.columns = columns, !.total = Larger(210 * columns, available - 8 * columns)]
ApplyWrapCardWidths(wrap, available) ==
    LET fitted  == Larger(1, (available + 8) \div 268)
        columns == Smaller(Smaller(4, wrap.items), fitted)
    IN  IF wrap.items = 0 THEN wrap
        ELSE [wrap EXCEPT !.columns = columns,
                          !.total = Larger(210 * columns, available - 8 * columns)]

(* ApplyResponsiveLayout: the metrics beside the identity or below it, and *)
(* what the identity, the gap and the paddings of hero and page take.      *)
Arrangement(w) ==
    LET safe == Larger(320, w)
    IN  IF safe >= 900 THEN
             [beside |-> TRUE, taken |-> 20 + 36 + 230 + 35, columns |-> 4,
              metrics |-> Smaller(Larger(760, Smaller(900, (58 * safe) \div 100)), safe - 310)]
        ELSE IF safe >= 600 THEN
             [beside |-> TRUE, taken |-> 20 + 40 + 210 + 12, columns |-> 2,
              metrics |-> Larger(300, safe - 290)]
        ELSE [beside |-> FALSE, taken |-> 20 + 36, metrics |-> None,
              columns |-> IF safe >= 410 THEN 2 ELSE 1]

(* ConfigureMetricGrid: the four cards row by row.                         *)
ConfigureMetricGrid(columns) ==
    [k \in 1..4 |-> [column |-> (k - 1) % columns, row |-> (k - 1) \div columns]]

ApplyResponsiveLayout(w) ==
    LET available == Larger(280, Larger(320, w) - 36)
    IN  /\ hero' = Arrangement(w)
        /\ cells' = ConfigureMetricGrid(Arrangement(w).columns)
        /\ storageWrap' = ApplyWrapCardWidths(storageWrap, available)
        /\ lowerWrap' = ApplyWrapCardWidths(lowerWrap, available)

-----------------------------------------------------------------------------
(* BuildWelcomePage, with a cached snapshot or without one.                *)
DashboardInit ==
    /\ world \in World
    /\ width = 0 /\ loaded = FALSE /\ hero = None /\ launched = None
    /\ cells = ConfigureMetricGrid(2)
    /\ lowerWrap = Built(4, 4)
    /\ \/ /\ buttons = MockButtons /\ target = None
          /\ storageWrap = Built(4, 4)
       \/ \E w \in World :
             /\ buttons = ButtonsOf(w)
             /\ target = PrimaryStorage(w)
             /\ storageWrap = Built(Cardinality(Volumes(w)), 4)

SizeChanged(w) ==
    /\ w # width
    /\ width' = w
    /\ ApplyResponsiveLayout(w)
    /\ UNCHANGED <<world, loaded, contents, launched>>

Loaded ==
    /\ ~loaded
    /\ loaded' = TRUE
    /\ ApplyResponsiveLayout(width)
    /\ UNCHANGED <<world, width, contents, launched>>

Unloaded ==
    /\ loaded
    /\ loaded' = FALSE
    /\ UNCHANGED <<world, width, contents, layout, launched>>

(* applySnapshot, of a snapshot of any world: it may be out of date. The   *)
(* cards are made anew and then given their width.                         *)
Filled(w) == Larger(1, Cardinality(Volumes(w)))

UnsizedAfterBuild(wrap) == wrap                                     \* mutant
SizedNow(wrap) == ApplyWrapCardWidths(wrap, Larger(280, width - 36))

ApplySnapshot(w) ==
    /\ loaded
    /\ buttons' = ButtonsOf(w)
    /\ target' = PrimaryStorage(w)
    /\ storageWrap' = SizedNow(Built(Filled(w), storageWrap.columns))
    /\ lowerWrap' = SizedNow(Built(4, lowerWrap.columns))
    /\ UNCHANGED <<world, width, loaded, hero, cells, launched>>

-----------------------------------------------------------------------------
(* ActionLauncher.TryLaunch: what the broker accepts is looked up again.   *)
Accepted(action, t) ==
    CASE action = "settings.open" -> t \in Catalog
      [] action = "folder.open"   -> t \in Ready(world)
      [] action = "item.open"     -> t \in world.files \cup Ready(world)
      [] action = "terminal.open" -> t \in TerminalIds \cap world.terminals

(* An accepted action may still fail to start.                             *)
TryLaunch(action, t) ==
    \E verdict \in IF Accepted(action, t) THEN {"done", "failed"} ELSE {"refused"} :
        launched' = [verdict |-> verdict, there |-> t \in Present(world)]

Click(b) ==
    /\ loaded
    /\ b \in buttons
    /\ TryLaunch(b[1], b[2])
    /\ UNCHANGED <<world, width, loaded, contents, layout>>

(* The storage metric's "Apri in Explorer", which asks for nothing when no *)
(* volume is shown.                                                        *)
ClickPrimaryStorage ==
    /\ loaded
    /\ IF target = None THEN UNCHANGED launched ELSE TryLaunch("folder.open", target)
    /\ UNCHANGED <<world, width, loaded, contents, layout>>

(* A drive, a file or a terminal comes, goes, or gets or stops being ready. *)
WorldChanges ==
    /\ \/ \E d \in Drives, s \in {"absent", "notReady", "ready"} :
             world' = [world EXCEPT !.drive[d] = s]
       \/ \E F \in SUBSET Files : world' = [world EXCEPT !.files = F]
       \/ \E T \in SUBSET TerminalIds : world' = [world EXCEPT !.terminals = T]
    /\ UNCHANGED <<width, loaded, contents, layout, launched>>

DashboardNext ==
    \/ \E w \in Widths : SizeChanged(w)
    \/ Loaded \/ Unloaded
    \/ \E w \in World : ApplySnapshot(w)
    \/ \E b \in buttons : Click(b)
    \/ ClickPrimaryStorage
    \/ WorldChanges

DashboardSpec == DashboardInit /\ [][DashboardNext]_dashboardVars

-----------------------------------------------------------------------------
(* The cards of a wrap grid fill its width exactly, in no fewer columns of *)
(* 260 than fit and no more than there are cards.                          *)
WrapFits(wrap) ==
    /\ wrap.columns \in 1..Smaller(4, wrap.items)
    /\ wrap.total + 8 * wrap.columns = width - 36
    /\ wrap.columns < Smaller(4, wrap.items) => 268 * (wrap.columns + 1) - 8 > width - 36

(* The four metric cards have cells of their own in a grid that has them,  *)
(* and the grid fits beside the identity. Between 900 and 1080 pixels the  *)
(* code takes up to 11 more than there are.                                *)
MetricsFit ==
    /\ \A j, k \in 1..4 : cells[j] = cells[k] => j = k
    /\ \A k \in 1..4 : cells[k].column < hero.columns /\ cells[k].row < 4 \div hero.columns
    /\ hero.beside => hero.taken + hero.metrics <= width + IF width \in 900..1080 THEN 11 ELSE 0

(* Whatever the order in which the page was sized, shown and refreshed,    *)
(* its cards fit the width it has now, from the narrowest width the layout *)
(* supports on: no card is cut off and none keeps the width it was built   *)
(* with or had before a resize. The exception is the one of MetricsFit: at *)
(* 900 to 1080 pixels the hero may be up to 11 pixels too wide.            *)
CardsFit ==
    width >= 320 =>
        /\ MetricsFit
        /\ WrapFits(lowerWrap)
        /\ storageWrap.items > 0 => WrapFits(storageWrap)

(* A click comes to nothing exactly if what the button names is not there: *)
(* the page asks for each row the action that the broker takes for it, and *)
(* the broker looks again before it starts anything on the word of a       *)
(* snapshot that may be old.                                               *)
RefusedOnlyIfGone == launched # None => (launched.verdict = "refused" <=> ~launched.there)
=============================================================================
