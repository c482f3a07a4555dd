--------------------------- MODULE Dashboard_proof ---------------------------
(* Proofs about what the user clicks: the home page, for any drives, files, *)
(* terminals and widths, and the limiter every click goes through, for any  *)
(* set of calls, infinite ones included, and any limit.                     *)
EXTENDS Dashboard, ActionLauncherClient, FiniteSetTheorems, WellFoundedInduction, TLAPS

-----------------------------------------------------------------------------
(* The action limiter.                                                      *)

IInv ==
    /\ TypeOK
    /\ IsFiniteSet(Busy)
    /\ CounterExact
    /\ AtMostLimit

(* No call is under way at first: the invariant holds.                      *)
LEMMA InitInv == Init => IInv
<1> SUFFICES ASSUME Init PROVE IInv
  OBVIOUS
<1>1. TypeOK BY DEF Init, TypeOK, Steps
<1>2. Busy = {} /\ Admitted = {} BY DEF Init, Busy, Admitted
<1> QED BY <1>1, <1>2, FS_EmptySet, LimitAssumption DEF Init, IInv, CounterExact, AtMostLimit

(* The calls let through are among the busy ones.                          *)
LEMMA AdmittedFinite ==
    ASSUME IInv
    PROVE  /\ IsFiniteSet(Admitted)
           /\ Cardinality(Admitted) \in Nat
           /\ Cardinality(Admitted) <= inFlightActions
<1>1. Admitted \subseteq Busy BY DEF Admitted, Busy
<1> QED BY <1>1, FS_Subset, FS_CardinalityType DEF IInv, CounterExact

(* An increment: one more busy call; let through only below the limit.     *)
LEMMA FetchAddKeeps ==
    ASSUME IInv, NEW a \in Calls, FetchAdd(a)
    PROVE  /\ IInv'
           /\ \/ /\ Admitted' = Admitted \cup {a}
                 /\ a \notin Admitted
                 /\ Cardinality(Admitted) < Limit
              \/ Admitted' = Admitted
<1> USE DEF IInv
<1>1. TypeOK' BY DEF TypeOK, FetchAdd, Goto, Steps
<1>2. a \notin Busy /\ a \notin Admitted BY DEF FetchAdd, Busy, Admitted
<1>3. Busy' = Busy \cup {a} BY DEF FetchAdd, Goto, TypeOK, Steps, Busy
<1>4. IsFiniteSet(Busy') /\ CounterExact'
  BY <1>2, <1>3, FS_AddElement DEF FetchAdd, CounterExact
<1>5. CASE Full(inFlightActions)
  <2>1. Admitted' = Admitted
    BY <1>5 DEF FetchAdd, Goto, TypeOK, Steps, Admitted
  <2> QED BY <1>1, <1>4, <2>1 DEF AtMostLimit
<1>6. CASE ~Full(inFlightActions)
  <2>1. Admitted' = Admitted \cup {a}
    BY <1>6 DEF FetchAdd, Goto, TypeOK, Steps, Admitted
  <2>2. Cardinality(Admitted) < Limit
    BY <1>6, AdmittedFinite, LimitAssumption DEF Full, TypeOK
  <2>3. Cardinality(Admitted') = Cardinality(Admitted) + 1
    BY <1>2, <2>1, AdmittedFinite, FS_AddElement
  <2>4. AtMostLimit'
    BY <2>2, <2>3, AdmittedFinite, LimitAssumption DEF AtMostLimit
  <2> QED BY <1>1, <1>2, <1>4, <2>1, <2>2, <2>4
<1> QED BY <1>5, <1>6

(* A decrement: one busy call less, and one admitted less if it was one.   *)
LEMMA FetchSubKeeps ==
    ASSUME IInv, NEW a \in Busy, FetchSub(a)
    PROVE  IInv' /\ Admitted' = Admitted \ {a}
<1> USE DEF IInv
<1>1. a \in Calls BY DEF Busy
<1>2. inFlightActions' = inFlightActions - 1 BY DEF FetchSub
<1>3. Busy' = Busy \ {a} BY <1>1 DEF FetchSub, Goto, TypeOK, Busy
<1>4. Admitted' = Admitted \ {a} BY <1>1 DEF FetchSub, Goto, TypeOK, Admitted
<1>5. /\ IsFiniteSet(Busy')
      /\ Cardinality(Busy') = Cardinality(Busy) - 1
      /\ Cardinality(Busy') \in Nat
  BY <1>3, FS_RemoveElement, FS_CardinalityType
<1>6. TypeOK' BY <1>1, <1>2, <1>5 DEF FetchSub, Goto, TypeOK, Steps, CounterExact
<1>7. CounterExact' BY <1>2, <1>5 DEF CounterExact
<1>8. Cardinality(Admitted') <= Cardinality(Admitted)
  BY <1>4, AdmittedFinite, FS_Subset
<1>9. Cardinality(Admitted') \in Nat
  BY <1>4, AdmittedFinite, FS_Subset, FS_CardinalityType
<1>10. AtMostLimit'
  BY <1>8, <1>9, AdmittedFinite, LimitAssumption DEF AtMostLimit
<1> QED BY <1>4, <1>5, <1>6, <1>7, <1>10

(* Every step keeps the invariant and is a step of the gate, or none.       *)
LEMMA NextInv == IInv /\ [Next]_vars => IInv' /\ [Gate!Next]_Admitted
<1> SUFFICES ASSUME IInv, [Next]_vars PROVE IInv' /\ [Gate!Next]_Admitted
  OBVIOUS
<1> USE DEF Gate!Next, Gate!Admit, Gate!Leave
<1>1. ASSUME NEW a \in Calls, FetchAdd(a) PROVE IInv' /\ [Gate!Next]_Admitted
  <2>1. IInv' BY <1>1, FetchAddKeeps
  <2>2. Gate!Cardinality(Admitted) = Cardinality(Admitted)
    BY DEF Gate!Cardinality, Cardinality, Gate!IsFiniteSet, IsFiniteSet
  <2>3. \/ Gate!Admit(a)
        \/ Admitted' = Admitted
    BY <1>1, <2>2, FetchAddKeeps
  <2> QED BY <2>1, <2>3
<1>2. ASSUME NEW a \in Calls, Refuse(a) \/ StartThreadFails(a) \/ Finish(a)
      PROVE  IInv' /\ [Gate!Next]_Admitted
  <2>1. a \in Busy /\ FetchSub(a)
    BY <1>2 DEF Refuse, StartThreadFails, Finish, Busy
  <2>2. IInv' /\ Admitted' = Admitted \ {a} BY <2>1, FetchSubKeeps
  <2>3. CASE a \in Admitted BY <2>2, <2>3
  <2>4. CASE a \notin Admitted BY <2>2, <2>4
  <2> QED BY <2>3, <2>4
<1>3. ASSUME NEW a \in Calls, StartThread(a) PROVE IInv' /\ [Gate!Next]_Admitted
  <2>1. TypeOK' BY <1>3 DEF IInv, TypeOK, StartThread, Goto, Steps
  <2>2. Busy' = Busy BY <1>3 DEF IInv, TypeOK, StartThread, Goto, Busy
  <2>3. Admitted' = Admitted BY <1>3 DEF IInv, TypeOK, StartThread, Goto, Admitted
  <2> QED BY <1>3, <2>1, <2>2, <2>3 DEF IInv, StartThread, CounterExact, AtMostLimit
<1>4. CASE UNCHANGED vars
  BY <1>4 DEF IInv, vars, TypeOK, Busy, Admitted, CounterExact, AtMostLimit
<1> QED BY <1>1, <1>2, <1>3, <1>4 DEF Next, Step

(* The invariant holds throughout.                                          *)
LEMMA Invariance == Spec => []IInv
<1>1. IInv /\ [Next]_vars => IInv' BY NextInv
<1> QED BY <1>1, InitInv, PTL DEF Spec

(* The counter is exact: no path through LaunchActionAsync leaks a slot.   *)
THEOREM CounterExactHolds == Spec => []CounterExact
<1>1. IInv => CounterExact BY DEF IInv
<1> QED BY <1>1, Invariance, PTL

(* At most Limit action threads, however many calls race for the counter.  *)
THEOREM AtMostLimitHolds == Spec => []AtMostLimit
<1>1. IInv => AtMostLimit BY DEF IInv
<1> QED BY <1>1, Invariance, PTL

(* The counter implements the gate: each atomic operation either admits a  *)
(* call below the limit, ends one, or does not show.                       *)
THEOREM ImplementsGate == Spec => GateSpec
<1>1. Init => Gate!Init BY DEF Init, Gate!Init, Admitted
<1>2. IInv /\ [Next]_vars => [Gate!Next]_Admitted BY NextInv
<1> QED BY <1>1, <1>2, Invariance, PTL DEF Spec, GateSpec, Gate!Spec

(* The counter is never negative, so the unsigned one never wraps.          *)
THEOREM TypeCorrect == Spec => []TypeOK
<1>1. IInv => TypeOK BY DEF IInv
<1> QED BY <1>1, Invariance, PTL

-----------------------------------------------------------------------------
(* The contents of the page.                                                *)

(* A set of naturals that has a member has a least one.                     *)
LEMMA LeastNatural ==
    ASSUME NEW T \in SUBSET Nat, T # {}
    PROVE  \E m \in T : \A n \in T : m <= n
<1>1. PICK m \in T : \A n \in T : ~(<<n, m>> \in OpToRel(<, Nat))
  BY NatLessThanWellFounded, WFMin
<1>2. \A n \in T : n < m => <<n, m>> \in OpToRel(<, Nat)
  BY DEF OpToRel
<1>3. \A n \in T : ~(n < m) BY <1>1, <1>2
<1>4. \A n \in T : m <= n BY <1>3
<1> QED BY <1>4

(* The volumes of a snapshot are finitely many, and the first local one     *)
(* among them is a drive.                                                   *)
LEMMA SnapshotContents ==
    ASSUME NEW w \in World
    PROVE  /\ Cardinality(Volumes(w)) \in Nat
           /\ PrimaryStorage(w) \in Drives \cup {None}
<1> DEFINE local == {k \in DOMAIN DriveOrder : DriveOrder[k] \in Ready(w) \ NetworkDrives}
<1>1. DOMAIN DriveOrder = 1..Len(DriveOrder) /\ Len(DriveOrder) \in Nat
  BY DashboardAssumption
<1>2. IsFiniteSet(DOMAIN DriveOrder) BY <1>1, FS_Interval
<1>3. IsFiniteSet(Drives)
  <2>1. DriveOrder \in Surjection(DOMAIN DriveOrder, Drives)
    BY DashboardAssumption DEF Drives, Range, Surjection
  <2> QED BY <1>2, <2>1, FS_Surjection
<1>4. Volumes(w) \subseteq Drives BY DEF Volumes
<1>5. Cardinality(Volumes(w)) \in Nat BY <1>3, <1>4, FS_Subset, FS_CardinalityType
<1>6. ASSUME local # {} PROVE DriveOrder[Min(local)] \in Drives
  <2>1. local \in SUBSET Nat /\ local \subseteq DOMAIN DriveOrder BY <1>1
  <2> HIDE DEF local
  <2>2. PICK m \in local : \A n \in local : m <= n BY <1>6, <2>1, LeastNatural
  <2>3. Min(local) \in local BY <2>2 DEF Min
  <2> QED BY <2>1, <2>3 DEF Drives, Range
<1> QED BY <1>5, <1>6 DEF PrimaryStorage

(* A button asks for a target of the kind its action takes, or for the name *)
(* the mock-up displays.                                                    *)
ButtonsOfKind ==
    {"folder.open"} \X (Drives \cup {Label})
    \cup {"item.open"} \X (Files \cup {Label})
    \cup {"terminal.open"} \X (TerminalIds \cup {Label})
    \cup {"settings.open"} \X Catalog

LEMMA ButtonKinds ==
    /\ \A w \in World : ButtonsOf(w) \subseteq ButtonsOfKind
    /\ MockButtons \subseteq ButtonsOfKind
    /\ ButtonsOfKind \subseteq Actions \X (Targets \cup {Label})
<1>1. \A w \in World : Volumes(w) \subseteq Drives /\ Ready(w) \subseteq Drives
  BY DEF Volumes, Ready
<1>2. \A w \in World : w.files \subseteq Files /\ w.terminals \subseteq TerminalIds
  BY DEF World
<1>3. ASSUME NEW w \in World PROVE ButtonsOf(w) \subseteq ButtonsOfKind
  BY <1>1, <1>2 DEF ButtonsOf, StorageButtons, LowerButtons, SettingsButtons, ButtonsOfKind
<1>4. MockButtons \subseteq ButtonsOfKind
  BY DEF MockButtons, SettingsButtons, ButtonsOfKind
<1>5. ButtonsOfKind \subseteq Actions \X (Targets \cup {Label})
  BY DEF ButtonsOfKind, Actions, Targets
<1> QED BY <1>3, <1>4, <1>5

(* What the broker takes for such a button is what is there.                *)
LEMMA AcceptedIfThere ==
    ASSUME world \in World, NEW b \in ButtonsOfKind
    PROVE  Accepted(b[1], b[2]) <=> b[2] \in Present(world)
<1>1. /\ \A t : Accepted("settings.open", t) <=> t \in Catalog
      /\ \A t : Accepted("folder.open", t) <=> t \in Ready(world)
      /\ \A t : Accepted("item.open", t) <=> t \in world.files \cup Ready(world)
      /\ \A t : Accepted("terminal.open", t) <=> t \in TerminalIds \cap world.terminals
  BY DEF Accepted
<1>2. /\ Ready(world) \subseteq Drives /\ world.files \subseteq Files
      /\ world.terminals \subseteq TerminalIds
  BY DEF Ready, World
<1>3. Label \notin Drives \cup Files \cup TerminalIds \cup Catalog
  BY DashboardAssumption DEF Targets
<1>4. \A t : t \in Present(world) <=>
          t \in Ready(world) \/ t \in world.files \/ t \in world.terminals \/ t \in Catalog
  BY DEF Present
<1>5. CASE b[1] = "folder.open" /\ b[2] \in Drives \cup {Label}
  BY <1>1, <1>2, <1>3, <1>4, <1>5, DashboardAssumption
<1>6. CASE b[1] = "item.open" /\ b[2] \in Files \cup {Label}
  BY <1>1, <1>2, <1>3, <1>4, <1>6, DashboardAssumption
<1>7. CASE b[1] = "terminal.open" /\ b[2] \in TerminalIds \cup {Label}
  BY <1>1, <1>2, <1>3, <1>4, <1>7, DashboardAssumption
<1>8. CASE b[1] = "settings.open" /\ b[2] \in Catalog
  BY <1>1, <1>4, <1>8
<1> QED BY <1>5, <1>6, <1>7, <1>8 DEF ButtonsOfKind

-----------------------------------------------------------------------------
(* The layout.                                                              *)

(* Cards in a given width: WrapFits for any width.                          *)
FitsIn(wrap, available) ==
    /\ wrap.columns \in 1..Smaller(4, wrap.items)
    /\ wrap.total + 8 * wrap.columns = available
    /\ wrap.columns < Smaller(4, wrap.items) => 268 * (wrap.columns + 1) - 8 > available

(* The number of columns that fit is the quotient.                          *)
LEMMA WrapFacts ==
    ASSUME NEW wrap \in Wrap, NEW available \in Nat, available >= 280
    PROVE  LET r == ApplyWrapCardWidths(wrap, available)
           IN  /\ r \in Wrap /\ r.items = wrap.items
               /\ wrap.items > 0 => FitsIn(r, available)
<1> DEFINE r == ApplyWrapCardWidths(wrap, available)
           q == (available + 8) \div 268
           n == Smaller(4, wrap.items)
           c == Smaller(n, Larger(1, q))
           total == Larger(210 * c, available - 8 * c)
<1>1. wrap.items \in Nat /\ wrap.columns \in 1..4 /\ wrap.total \in Nat BY DEF Wrap
<1>2. CASE wrap.items = 0 BY <1>1, <1>2 DEF ApplyWrapCardWidths
<1>3. CASE wrap.items # 0
  <2>1. q \in Nat /\ q >= 1 /\ 268 * q <= available + 8 /\ available + 8 < 268 * (q + 1)
    OBVIOUS
  <2>2. n \in 1..4 BY <1>1, <1>3 DEF Smaller
  <2>3. r = [wrap EXCEPT !.columns = c, !.total = total]
    BY <1>3 DEF ApplyWrapCardWidths
  <2> HIDE DEF q, n
  <2>4. c \in 1..n /\ c <= q /\ (c < n => c = q) BY <2>1, <2>2 DEF Smaller, Larger
  <2> HIDE DEF c
  <2>5. c \in 1..4 BY <2>2, <2>4
  <2>6. 268 * c <= available + 8 BY <2>1, <2>4, <2>5
  <2>7. 210 * c <= available - 8 * c /\ available - 8 * c \in Nat BY <2>5, <2>6
  <2>8. total = available - 8 * c BY <2>5, <2>7 DEF Larger
  <2>9. r = [items |-> wrap.items, columns |-> c, total |-> total] BY <2>3 DEF Wrap
  <2> HIDE DEF r, total
  <2>10. r \in Wrap BY <1>1, <2>5, <2>7, <2>8, <2>9 DEF Wrap
  <2>11. r.items = wrap.items /\ r.columns = c /\ r.total = total BY <2>9
  <2>12. c < n => 268 * (c + 1) - 8 > available BY <2>1, <2>4, <2>5
  <2>13. total + 8 * c = available BY <2>5, <2>8
  <2>14. FitsIn(r, available) BY <2>4, <2>11, <2>12, <2>13 DEF FitsIn, n
  <2> QED BY <2>10, <2>11, <2>14 DEF r
<1> QED BY <1>2, <1>3

(* The arrangement of the hero is one; the metrics fit beside the identity, *)
(* but for the eleven pixels.                                               *)
LEMMA ArrangementFacts ==
    ASSUME NEW w \in Nat
    PROVE  LET h == Arrangement(w)
           IN  /\ h \in Hero
               /\ w >= 320 /\ h.beside =>
                     h.taken + h.metrics <= w + IF w \in 900..1080 THEN 11 ELSE 0
<1> DEFINE safe == Larger(320, w)
           h == Arrangement(w)
<1>1. safe \in Nat /\ safe >= 320 /\ (w >= 320 => safe = w) BY DEF Larger
<1>2. CASE safe >= 900
  <2> DEFINE p == (58 * safe) \div 100
             m == Smaller(Larger(760, Smaller(900, p)), safe - 310)
  <2>1. h = [beside |-> TRUE, taken |-> 321, columns |-> 4, metrics |-> m]
    BY <1>2 DEF Arrangement
  <2> HIDE DEF safe
  <2>2. p \in Nat /\ 100 * p <= 58 * safe BY <1>1
  <2> HIDE DEF p
  <2>3. m \in Nat /\ m <= safe - 310 /\ (safe > 1080 => 321 + m <= safe)
    BY <1>1, <1>2, <2>2 DEF Smaller, Larger
  <2> HIDE DEF m, h
  <2>4. h \in Hero BY <2>1, <2>3 DEF Hero
  <2>5. w >= 320 => h.taken + h.metrics <= w + IF w \in 900..1080 THEN 11 ELSE 0
    BY <1>1, <1>2, <2>1, <2>3
  <2> QED BY <2>4, <2>5 DEF h
<1>3. CASE safe < 900 /\ safe >= 600
  <2> DEFINE m == Larger(300, safe - 290)
  <2>1. h = [beside |-> TRUE, taken |-> 282, columns |-> 2, metrics |-> m]
    BY <1>1, <1>3 DEF Arrangement
  <2> HIDE DEF safe
  <2>2. m \in Nat /\ m = safe - 290 BY <1>1, <1>3 DEF Larger
  <2> HIDE DEF m, h
  <2>3. h \in Hero BY <2>1, <2>2 DEF Hero
  <2>4. w >= 320 => h.taken + h.metrics <= w + IF w \in 900..1080 THEN 11 ELSE 0
    BY <1>1, <1>3, <2>1, <2>2
  <2> QED BY <2>3, <2>4 DEF h
<1>4. CASE safe < 600
  <2> DEFINE c == IF safe >= 410 THEN 2 ELSE 1
  <2>1. h = [beside |-> FALSE, taken |-> 56, metrics |-> None, columns |-> c]
    BY <1>1, <1>4 DEF Arrangement
  <2>2. c \in {1, 2, 4} OBVIOUS
  <2> HIDE DEF c, h
  <2>3. h \in Hero /\ ~h.beside BY <2>1, <2>2 DEF Hero
  <2> QED BY <2>3 DEF h
<1> QED BY <1>1, <1>2, <1>3, <1>4

(* The cells of one, two or four columns: four of them, inside the grid.    *)
LEMMA GridFacts ==
    ASSUME NEW columns \in {1, 2, 4}
    PROVE  LET grid == ConfigureMetricGrid(columns)
           IN  /\ grid \in [1..4 -> Cell]
               /\ \A j, k \in 1..4 : grid[j] = grid[k] => j = k
               /\ \A k \in 1..4 : grid[k].column < columns /\ grid[k].row < 4 \div columns
<1> DEFINE grid == ConfigureMetricGrid(columns)
<1>1. grid = [k \in 1..4 |-> [column |-> (k - 1) % columns, row |-> (k - 1) \div columns]]
  BY DEF ConfigureMetricGrid
<1> HIDE DEF grid
<1>2. \A k \in 1..4 : /\ grid[k].column = (k - 1) % columns
                      /\ grid[k].row = (k - 1) \div columns
  BY <1>1
<1>3. \A k \in 1..4 : /\ (k - 1) % columns \in Nat /\ (k - 1) \div columns \in Nat
                      /\ (k - 1) % columns < columns
                      /\ (k - 1) \div columns < 4 \div columns
  <2>1. CASE columns = 1 BY <2>1
  <2>2. CASE columns = 2 BY <2>2
  <2>3. CASE columns = 4 BY <2>3
  <2> QED BY <2>1, <2>2, <2>3
<1>4. grid \in [1..4 -> Cell] BY <1>1, <1>3 DEF Cell
<1>5. ASSUME NEW j \in 1..4, NEW k \in 1..4, grid[j] = grid[k] PROVE j = k
  <2>1. (j - 1) % columns = (k - 1) % columns /\ (j - 1) \div columns = (k - 1) \div columns
    BY <1>2, <1>5
  <2>2. CASE columns = 1
    <3>1. (j - 1) \div 1 = j - 1 /\ (k - 1) \div 1 = k - 1 OBVIOUS
    <3> QED BY <2>1, <2>2, <3>1
  <2>3. CASE columns = 2
    <3>1. (j - 1) % 2 = (k - 1) % 2 /\ (j - 1) \div 2 = (k - 1) \div 2 BY <2>1, <2>3
    <3> QED BY <3>1
  <2>4. CASE columns = 4
    <3>1. (j - 1) % 4 = (k - 1) % 4 BY <2>1, <2>4
    <3> QED BY <3>1
  <2> QED BY <2>2, <2>3, <2>4
<1>6. \A k \in 1..4 : grid[k].column < columns /\ grid[k].row < 4 \div columns
  BY <1>2, <1>3
<1> QED BY <1>4, <1>5, <1>6 DEF grid

-----------------------------------------------------------------------------
(* The inductive invariant of the page.                                     *)

(* The layout is that of the width the page has now, whatever has happened  *)
(* since it got it.                                                         *)
LayoutInv ==
    width >= 320 =>
        /\ hero = Arrangement(width)
        /\ cells = ConfigureMetricGrid(Arrangement(width).columns)
        /\ FitsIn(lowerWrap, width - 36)
        /\ storageWrap.items > 0 => FitsIn(storageWrap, width - 36)

DashboardIInv ==
    /\ DashboardTypeOK
    /\ buttons \subseteq ButtonsOfKind
    /\ LayoutInv
    /\ RefusedOnlyIfGone

(* Cards as they are built.                                                 *)
LEMMA BuiltWrap ==
    ASSUME NEW n \in Nat, NEW columns \in 1..4
    PROVE  Built(n, columns) \in Wrap /\ Built(n, columns).items = n
<1>1. 220 * columns \in Nat OBVIOUS
<1> QED BY <1>1 DEF Built, Wrap

(* The page as it is built: it has had no layout and no width.              *)
LEMMA DashboardInitInv == DashboardInit => DashboardIInv
<1> SUFFICES ASSUME DashboardInit PROVE DashboardIInv OBVIOUS
<1>1. /\ buttons \subseteq ButtonsOfKind /\ target \in Drives \cup {None}
      /\ storageWrap \in Wrap
  <2>1. CASE /\ buttons = MockButtons /\ target = None
             /\ storageWrap = Built(4, 4)
    BY <2>1, ButtonKinds, BuiltWrap
  <2>2. ASSUME NEW w \in World, buttons = ButtonsOf(w), target = PrimaryStorage(w),
               storageWrap = Built(Cardinality(Volumes(w)), 4)
        PROVE  <1>1
    <3>1. Cardinality(Volumes(w)) \in Nat /\ target \in Drives \cup {None}
      BY <2>2, SnapshotContents
    <3>2. storageWrap \in Wrap BY <2>2, <3>1, BuiltWrap
    <3> QED BY <2>2, <3>1, <3>2, ButtonKinds
  <2> QED BY <2>1, <2>2 DEF DashboardInit
<1>2. lowerWrap \in Wrap /\ lowerWrap.items = 4
  BY BuiltWrap DEF DashboardInit
<1>3. cells \in [1..4 -> Cell] BY GridFacts DEF DashboardInit
<1>4. buttons \subseteq Actions \X (Targets \cup {Label}) BY <1>1, ButtonKinds
<1>5. DashboardTypeOK BY <1>1, <1>2, <1>3, <1>4 DEF DashboardInit, DashboardTypeOK
<1>6. LayoutInv BY DEF DashboardInit, LayoutInv
<1>7. RefusedOnlyIfGone BY DEF DashboardInit, RefusedOnlyIfGone
<1> QED BY <1>1, <1>5, <1>6, <1>7 DEF DashboardIInv

(* A layout: everything it sets is as it should be in the width it is for.  *)
LEMMA LayoutKeeps ==
    ASSUME DashboardIInv, NEW w \in Widths \cup {0}, ApplyResponsiveLayout(w)
    PROVE  /\ hero' \in Hero /\ cells' \in [1..4 -> Cell]
           /\ storageWrap' \in Wrap
           /\ lowerWrap' \in Wrap /\ lowerWrap'.items = 4
           /\ w >= 320 =>
                 /\ hero' = Arrangement(w)
                 /\ cells' = ConfigureMetricGrid(Arrangement(w).columns)
                 /\ FitsIn(lowerWrap', w - 36)
                 /\ storageWrap'.items > 0 => FitsIn(storageWrap', w - 36)
<1> DEFINE available == Larger(280, Larger(320, w) - 36)
<1>1. w \in Nat BY DashboardAssumption
<1>2. available \in Nat /\ available >= 280 /\ (w >= 320 => available = w - 36)
  BY <1>1 DEF Larger
<1>3. /\ hero' = Arrangement(w)
      /\ cells' = ConfigureMetricGrid(Arrangement(w).columns)
      /\ storageWrap' = ApplyWrapCardWidths(storageWrap, available)
      /\ lowerWrap' = ApplyWrapCardWidths(lowerWrap, available)
  BY DEF ApplyResponsiveLayout
<1>4. storageWrap \in Wrap /\ lowerWrap \in Wrap /\ lowerWrap.items = 4
  BY DEF DashboardIInv, DashboardTypeOK
<1> HIDE DEF available
<1>5. /\ storageWrap' \in Wrap /\ storageWrap'.items = storageWrap.items
      /\ storageWrap.items > 0 => FitsIn(storageWrap', available)
  BY <1>2, <1>3, <1>4, WrapFacts
<1>6. lowerWrap' \in Wrap /\ lowerWrap'.items = 4 /\ FitsIn(lowerWrap', available)
  BY <1>2, <1>3, <1>4, WrapFacts
<1>7. hero' \in Hero BY <1>1, <1>3, ArrangementFacts
<1>8. Arrangement(w).columns \in {1, 2, 4} BY <1>3, <1>7 DEF Hero
<1>9. cells' \in [1..4 -> Cell] BY <1>3, <1>8, GridFacts
<1> QED BY <1>2, <1>3, <1>5, <1>6, <1>7, <1>9

(* A click: the verdict follows what is there, if the button is of its kind. *)
LEMMA LaunchKeeps ==
    ASSUME DashboardIInv, NEW b \in ButtonsOfKind, TryLaunch(b[1], b[2])
    PROVE  /\ launched' \in [verdict : {"done", "failed", "refused"}, there : BOOLEAN]
           /\ RefusedOnlyIfGone'
<1>1. PICK verdict \in IF Accepted(b[1], b[2]) THEN {"done", "failed"} ELSE {"refused"} :
          launched' = [verdict |-> verdict, there |-> b[2] \in Present(world)]
  BY DEF TryLaunch
<1>2. Accepted(b[1], b[2]) <=> b[2] \in Present(world)
  BY AcceptedIfThere DEF DashboardIInv, DashboardTypeOK
<1>3. verdict \in {"done", "failed", "refused"}
      /\ (verdict = "refused" <=> ~(b[2] \in Present(world)))
  <2>1. CASE Accepted(b[1], b[2]) BY <1>1, <1>2, <2>1
  <2>2. CASE ~Accepted(b[1], b[2]) BY <1>1, <1>2, <2>2
  <2> QED BY <2>1, <2>2
<1>4. launched'.verdict = verdict /\ launched'.there = (b[2] \in Present(world)) BY <1>1
<1>5. (b[2] \in Present(world)) \in BOOLEAN OBVIOUS
<1>6. launched' \in [verdict : {"done", "failed", "refused"}, there : BOOLEAN]
  BY <1>1, <1>3, <1>5
<1>7. RefusedOnlyIfGone' BY <1>3, <1>4 DEF RefusedOnlyIfGone
<1> QED BY <1>6, <1>7

(* Every step keeps it.                                                     *)
LEMMA DashboardNextInv == DashboardIInv /\ [DashboardNext]_dashboardVars => DashboardIInv'
<1> SUFFICES ASSUME DashboardIInv, [DashboardNext]_dashboardVars PROVE DashboardIInv'
  OBVIOUS
<1>1. /\ world \in World /\ width \in Widths \cup {0} /\ loaded \in BOOLEAN
      /\ buttons \subseteq ButtonsOfKind /\ target \in Drives \cup {None}
      /\ hero \in Hero \cup {None} /\ cells \in [1..4 -> Cell]
      /\ storageWrap \in Wrap /\ lowerWrap \in Wrap /\ lowerWrap.items = 4
      /\ launched \in [verdict : {"done", "failed", "refused"}, there : BOOLEAN] \cup {None}
      /\ LayoutInv /\ RefusedOnlyIfGone
  BY DEF DashboardIInv, DashboardTypeOK
<1>2. ASSUME NEW w \in Widths \cup {0}, width' = w, loaded' \in BOOLEAN,
             ApplyResponsiveLayout(w), UNCHANGED <<world, contents, launched>>
      PROVE  DashboardIInv'
  <2>1. /\ hero' \in Hero /\ cells' \in [1..4 -> Cell]
        /\ storageWrap' \in Wrap
        /\ lowerWrap' \in Wrap /\ lowerWrap'.items = 4
        /\ w >= 320 =>
              /\ hero' = Arrangement(w)
              /\ cells' = ConfigureMetricGrid(Arrangement(w).columns)
              /\ FitsIn(lowerWrap', w - 36)
              /\ storageWrap'.items > 0 => FitsIn(storageWrap', w - 36)
    BY <1>2, LayoutKeeps
  <2>2. LayoutInv' BY <1>2, <2>1 DEF LayoutInv
  <2>3. buttons' = buttons /\ target' = target /\ launched' = launched /\ world' = world
    BY <1>2 DEF contents
  <2>4. DashboardTypeOK'
    BY <1>1, <1>2, <2>1, <2>3, ButtonKinds DEF DashboardTypeOK
  <2>5. RefusedOnlyIfGone' BY <1>1, <2>3 DEF RefusedOnlyIfGone
  <2> QED BY <1>1, <2>2, <2>3, <2>4, <2>5 DEF DashboardIInv
<1>3. ASSUME NEW w \in Widths, SizeChanged(w) PROVE DashboardIInv'
  <2>1. loaded' \in BOOLEAN BY <1>1, <1>3 DEF SizeChanged
  <2> QED BY <1>2, <1>3, <2>1 DEF SizeChanged
<1>4. CASE Loaded
  <2>1. width' = width /\ loaded' \in BOOLEAN /\ ApplyResponsiveLayout(width)
        /\ UNCHANGED <<world, contents, launched>>
    BY <1>4 DEF Loaded
  <2> QED BY <1>1, <1>2, <2>1
<1>5. CASE Unloaded
  <2>1. loaded' = FALSE /\ UNCHANGED <<world, width, contents, layout, launched>>
    BY <1>5 DEF Unloaded
  <2>2. DashboardTypeOK'
    BY <1>1, <2>1, ButtonKinds DEF contents, layout, DashboardTypeOK
  <2>3. LayoutInv' BY <1>1, <2>1 DEF layout, LayoutInv
  <2>4. RefusedOnlyIfGone' BY <1>1, <2>1 DEF RefusedOnlyIfGone
  <2> QED BY <1>1, <2>1, <2>2, <2>3, <2>4 DEF contents, DashboardIInv
<1>6. ASSUME NEW w \in World, ApplySnapshot(w) PROVE DashboardIInv'
  <2>1. /\ buttons' = ButtonsOf(w) /\ target' = PrimaryStorage(w)
        /\ storageWrap' = SizedNow(Built(Filled(w), storageWrap.columns))
        /\ lowerWrap' = SizedNow(Built(4, lowerWrap.columns))
        /\ UNCHANGED <<world, width, loaded, hero, cells, launched>>
    BY <1>6 DEF ApplySnapshot
  <2>2. width \in Nat BY <1>1, DashboardAssumption
  <2> DEFINE available == Larger(280, width - 36)
  <2>3. available \in Nat /\ available >= 280 /\ (width >= 320 => available = width - 36)
    BY <2>2 DEF Larger
  <2>4. Filled(w) \in Nat /\ Filled(w) > 0 BY SnapshotContents DEF Filled, Larger
  <2>5. storageWrap.columns \in 1..4 /\ lowerWrap.columns \in 1..4 BY <1>1 DEF Wrap
  <2>6. ASSUME NEW n \in Nat, n > 0, NEW columns \in 1..4
        PROVE  LET r == SizedNow(Built(n, columns))
               IN  r \in Wrap /\ r.items = n /\ FitsIn(r, available)
    <3>1. Built(n, columns) \in Wrap /\ Built(n, columns).items = n BY BuiltWrap
    <3>2. SizedNow(Built(n, columns)) = ApplyWrapCardWidths(Built(n, columns), available)
      BY DEF SizedNow
    <3> HIDE DEF available
    <3> QED BY <2>3, <2>6, <3>1, <3>2, WrapFacts
  <2> HIDE DEF available
  <2>7. storageWrap' \in Wrap /\ FitsIn(storageWrap', available) BY <2>1, <2>4, <2>5, <2>6
  <2>8. lowerWrap' \in Wrap /\ lowerWrap'.items = 4 /\ FitsIn(lowerWrap', available)
    BY <2>1, <2>5, <2>6
  <2>9. LayoutInv' BY <1>1, <2>1, <2>3, <2>7, <2>8 DEF LayoutInv
  <2>10. buttons' \subseteq ButtonsOfKind /\ target' \in Drives \cup {None}
    BY <2>1, ButtonKinds, SnapshotContents
  <2>11. buttons' \subseteq Actions \X (Targets \cup {Label}) BY <2>10, ButtonKinds
  <2>12. DashboardTypeOK' BY <1>1, <2>1, <2>7, <2>8, <2>10, <2>11 DEF DashboardTypeOK
  <2>13. RefusedOnlyIfGone' BY <1>1, <2>1 DEF RefusedOnlyIfGone
  <2> QED BY <2>9, <2>10, <2>12, <2>13 DEF DashboardIInv
<1>7. ASSUME UNCHANGED <<world, width, loaded, contents, layout>>,
             launched' \in [verdict : {"done", "failed", "refused"}, there : BOOLEAN] \cup {None},
             RefusedOnlyIfGone'
      PROVE  DashboardIInv'
  <2>1. DashboardTypeOK'
    BY <1>1, <1>7, ButtonKinds DEF contents, layout, DashboardTypeOK
  <2>2. LayoutInv' BY <1>1, <1>7 DEF layout, LayoutInv
  <2> QED BY <1>1, <1>7, <2>1, <2>2 DEF contents, DashboardIInv
<1>8. ASSUME NEW b \in buttons, Click(b) PROVE DashboardIInv'
  <2>1. b \in ButtonsOfKind BY <1>1
  <2>2. TryLaunch(b[1], b[2]) /\ UNCHANGED <<world, width, loaded, contents, layout>>
    BY <1>8 DEF Click
  <2> QED BY <1>7, <2>1, <2>2, LaunchKeeps
<1>9. CASE ClickPrimaryStorage
  <2>1. UNCHANGED <<world, width, loaded, contents, layout>>
    BY <1>9 DEF ClickPrimaryStorage
  <2>2. CASE target = None
    <3>1. launched' = launched BY <1>9, <2>2 DEF ClickPrimaryStorage
    <3>2. RefusedOnlyIfGone' BY <1>1, <3>1 DEF RefusedOnlyIfGone
    <3> QED BY <1>1, <1>7, <2>1, <3>1, <3>2
  <2>3. CASE target # None
    <3> DEFINE b == <<"folder.open", target>>
    <3>1. b \in ButtonsOfKind /\ b[1] = "folder.open" /\ b[2] = target
      BY <1>1, <2>3 DEF ButtonsOfKind
    <3>2. TryLaunch("folder.open", target) BY <1>9, <2>3 DEF ClickPrimaryStorage
    <3>3. TryLaunch(b[1], b[2]) BY <3>1, <3>2
    <3> HIDE DEF b
    <3> QED BY <1>7, <2>1, <3>1, <3>3, LaunchKeeps
  <2> QED BY <2>2, <2>3
<1>10. CASE WorldChanges
  <2>1. UNCHANGED <<width, loaded, contents, layout, launched>> BY <1>10 DEF WorldChanges
  <2>2. world' \in World BY <1>1, <1>10 DEF WorldChanges, World
  <2>3. DashboardTypeOK'
    BY <1>1, <2>1, <2>2, ButtonKinds DEF contents, layout, DashboardTypeOK
  <2>4. LayoutInv' /\ RefusedOnlyIfGone'
    BY <1>1, <2>1 DEF layout, LayoutInv, RefusedOnlyIfGone
  <2> QED BY <1>1, <2>1, <2>3, <2>4 DEF contents, DashboardIInv
<1>11. CASE UNCHANGED dashboardVars
  BY <1>1, <1>7, <1>11 DEF dashboardVars, RefusedOnlyIfGone
<1> QED
  BY <1>3, <1>4, <1>5, <1>6, <1>8, <1>9, <1>10, <1>11 DEF DashboardNext

(* The invariant holds throughout.                                          *)
LEMMA DashboardInvariance == DashboardSpec => []DashboardIInv
BY DashboardInitInv, DashboardNextInv, PTL DEF DashboardSpec

(* Every part of the page keeps its type: cards in one to four columns and  *)
(* of natural widths, buttons that ask for what the broker knows.           *)
THEOREM DashboardTypeCorrect == DashboardSpec => []DashboardTypeOK
<1>1. DashboardIInv => DashboardTypeOK BY DEF DashboardIInv
<1> QED BY <1>1, DashboardInvariance, PTL

(* At every width from the narrowest supported one, not only at those of    *)
(* the run, the cards fit the page.                                         *)
THEOREM CardsFitHolds == DashboardSpec => []CardsFit
<1>1. DashboardIInv => CardsFit
  <2> SUFFICES ASSUME DashboardIInv, width >= 320
               PROVE  /\ MetricsFit /\ WrapFits(lowerWrap)
                      /\ storageWrap.items > 0 => WrapFits(storageWrap)
    BY DEF CardsFit
  <2>1. width \in Nat BY DashboardAssumption DEF DashboardIInv, DashboardTypeOK
  <2>2. /\ hero = Arrangement(width)
        /\ cells = ConfigureMetricGrid(Arrangement(width).columns)
        /\ FitsIn(lowerWrap, width - 36)
        /\ storageWrap.items > 0 => FitsIn(storageWrap, width - 36)
    BY DEF DashboardIInv, LayoutInv
  <2>3. hero \in Hero /\ (hero.beside =>
            hero.taken + hero.metrics <= width + IF width \in 900..1080 THEN 11 ELSE 0)
    BY <2>1, <2>2, ArrangementFacts
  <2>4. hero.columns \in {1, 2, 4} BY <2>3 DEF Hero
  <2>5. /\ \A j, k \in 1..4 : cells[j] = cells[k] => j = k
        /\ \A k \in 1..4 : cells[k].column < hero.columns /\ cells[k].row < 4 \div hero.columns
    BY <2>2, <2>4, GridFacts
  <2>6. MetricsFit BY <2>3, <2>5 DEF MetricsFit
  <2> QED BY <2>2, <2>6 DEF WrapFits, FitsIn
<1> QED BY <1>1, DashboardInvariance, PTL

(* For any drives, files and terminals, a click is refused exactly if what  *)
(* its button names is gone.                                                *)
THEOREM RefusedOnlyIfGoneHolds == DashboardSpec => []RefusedOnlyIfGone
<1>1. DashboardIInv => RefusedOnlyIfGone BY DEF DashboardIInv
<1> QED BY <1>1, DashboardInvariance, PTL
=============================================================================
