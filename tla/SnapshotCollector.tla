-------------------------- MODULE SnapshotCollector --------------------------
(***************************************************************************)
(* SnapshotCollector of the broker: two readings of the system's counters  *)
(* 100 ms apart, the rates between them, the histories the sparklines are  *)
(* drawn from, and the drives of a full snapshot; and what the page makes  *)
(* of them: its lines and its storage gauge. The broker collects for one   *)
(* request at a time; network interfaces come, go and restart at any time. *)
(***************************************************************************)
EXTENDS Integers, Sequences, FiniteSetsExt

CONSTANTS
    Interfaces,   \* network interfaces
    CpuTimes,     \* bound: the CPU times a reading may give
    Statistics,   \* bound: the state and counters an interface may give
    Drives,       \* bound: what a reading of one drive may give
    MaxDrives,    \* bound: drives listed; 64 in the source
    MaxSamples,   \* samples a history keeps: 24 in the source
    PerSecond,    \* readings are 1/PerSecond apart: 10 in the source
    MaxSample,    \* the highest network sample kept: 100 MB/s in the source
    LeastRange,   \* the least range of a network line: 0.05 MB/s in the source
    None          \* null

SystemTimes == [idle : Nat, total : Nat]
Statistic   == [up : BOOLEAN, sent : Nat, received : Nat]
Totals      == [sent : Nat, received : Nat]
Drive       == [state : {"ready", "notReady", "throws"}, network : BOOLEAN,
                total : Nat \ {0}, free : Nat]   \* a volume that is ready has a size

ASSUME CollectorAssumption ==
    /\ IsFiniteSet(Interfaces)
    /\ CpuTimes \subseteq SystemTimes
    /\ \A t \in CpuTimes : t.idle <= t.total
    /\ Statistics \subseteq Statistic
    /\ MaxDrives \in Nat
    /\ MaxSamples \in Nat \ {0} /\ PerSecond \in Nat \ {0} /\ MaxSample \in Nat
    /\ LeastRange \in Nat \ {0}
    /\ Drives \subseteq Drive
    /\ \A d \in Drives : d.free <= d.total
    /\ None \notin Nat \cup SystemTimes \cup [Interfaces -> Statistic] \cup Totals

(* One reading: the CPU times, of which only differences matter, and every *)
(* interface; either may fail as a whole.                                  *)
Reading   == [cpu : CpuTimes \cup {None},
              network : [Interfaces -> Statistics] \cup {None}]
NoReading == [cpu |-> None, network |-> None]

(* A row of the snapshot's storage section; free and total may be null.    *)
Row == [ready : BOOLEAN, network : BOOLEAN, total : Nat \cup {None}, free : Nat \cup {None}]
DriveLists == UNION {[1..n -> Drives] : n \in 0..MaxDrives}

NoMetrics == [cpu |-> None, send |-> None, receive |-> None]

VARIABLES
    pc,              \* "idle", or what the collection in progress does next
    want,            \* what was asked for
    before, after,   \* the two readings of the collection in progress
    cpuSamples,      \* _cpuSamples
    networkSamples,  \* _networkSamples
    metrics,         \* the metrics of the last collection
    errors,          \* its section errors
    storage,         \* its storage rows
    outcome          \* what it came to

vars == <<pc, want, before, after, cpuSamples, networkSamples,
          metrics, errors, storage, outcome>>

TypeOK ==
    /\ pc \in {"idle", "sampling", "building", "sections"}
    /\ want \in {"snapshot", "metrics"}
    /\ before \in Reading /\ after \in Reading
    /\ cpuSamples \in Seq(0..100)
    /\ networkSamples \in Seq(0..MaxSample)
    /\ metrics \in [cpu : (0..100) \cup {None}, send : Nat \cup {None}, receive : Nat \cup {None}]
    /\ errors \subseteq {"cpu", "networkMetrics", "storage"}
    /\ storage \in Seq(Row)
    /\ outcome \in {"none", "metrics", "snapshot", "timedOut", "failed"}

Init ==
    /\ pc = "idle" /\ want = "metrics"
    /\ before = NoReading /\ after = NoReading
    /\ cpuSamples = <<>> /\ networkSamples = <<>>
    /\ metrics = NoMetrics /\ errors = {} /\ storage = <<>>
    /\ outcome = "none"

-----------------------------------------------------------------------------
Smaller(m, n) == IF m <= n THEN m ELSE n
Larger(m, n)  == IF m >= n THEN m ELSE n

(* CalculateCpuPercent: busy time over all time, if any went by.           *)
CalculateCpuPercent(b, a) ==
    IF b = None \/ a = None THEN None
    ELSE LET total == a.total - b.total
             idle  == a.idle - b.idle
         IN  IF total <= 0 THEN None
             ELSE Larger(0, Smaller(100, (100 * (total - idle)) \div total))

(* ReadNetworkTotals: the sums over the interfaces that are up.            *)
SentOf(n, I)     == SumFunctionOnSet([i \in Interfaces |-> n[i].sent], I)
ReceivedOf(n, I) == SumFunctionOnSet([i \in Interfaces |-> n[i].received], I)
IsUp(n) == {i \in Interfaces : n[i].up}

NetworkTotalsOfAll(n) ==                                            \* mutant
    IF n = None THEN None
    ELSE [sent |-> SentOf(n, Interfaces), received |-> ReceivedOf(n, Interfaces)]
NetworkTotals(n) ==
    IF n = None THEN None
    ELSE [sent |-> SentOf(n, IsUp(n)), received |-> ReceivedOf(n, IsUp(n))]

(* CalculateRate: null when a reading failed or the counter fell.          *)
RateUnchecked(b, a) == (a - b) * PerSecond                          \* mutant
Rate(b, a) == IF a < b THEN None ELSE Larger(0, (a - b) * PerSecond)

SendRate(b, a)    == IF b = None \/ a = None THEN None ELSE Rate(b.sent, a.sent)
ReceiveRate(b, a) == IF b = None \/ a = None THEN None ELSE Rate(b.received, a.received)

(* TrimSamples after an Add: the oldest sample goes first.                 *)
AddSample(s, x) ==
    LET t == Append(s, x) IN SubSeq(t, Len(t) - Smaller(Len(t), MaxSamples) + 1, Len(t))

(* A request begins a collection with its own error dictionary and takes   *)
(* the first reading.                                                      *)
BeginKeepsErrors(r, w) ==                                           \* mutant
    /\ pc = "idle"
    /\ pc' = "sampling" /\ want' = w /\ before' = r
    /\ metrics' = NoMetrics /\ storage' = <<>> /\ outcome' = "none"
    /\ UNCHANGED <<after, cpuSamples, networkSamples, errors>>

Begin(r, w) ==
    /\ pc = "idle"
    /\ pc' = "sampling" /\ want' = w /\ before' = r
    /\ metrics' = NoMetrics /\ errors' = {} /\ storage' = <<>> /\ outcome' = "none"
    /\ UNCHANGED <<after, cpuSamples, networkSamples>>

(* The request's time is up during the delay.                              *)
TimeOut ==
    /\ pc = "sampling"
    /\ pc' = "idle" /\ outcome' = "timedOut" /\ before' = NoReading
    /\ UNCHANGED <<want, after, cpuSamples, networkSamples, metrics, errors, storage>>

(* What may follow a reading: CPU times grow, the counters of an interface *)
(* that stays up grow, any other interface may have restarted.             *)
Follows(r) ==
    {s \in Reading :
        /\ r.cpu # None /\ s.cpu # None =>
              /\ s.cpu.idle >= r.cpu.idle
              /\ s.cpu.total - s.cpu.idle >= r.cpu.total - r.cpu.idle
        /\ r.network # None /\ s.network # None =>
              \A i \in Interfaces :
                 r.network[i].up /\ s.network[i].up =>
                    /\ s.network[i].sent >= r.network[i].sent
                    /\ s.network[i].received >= r.network[i].received}

ReadAgain ==
    /\ pc = "sampling"
    /\ after' \in Follows(before)
    /\ pc' = "building"
    /\ UNCHANGED <<want, before, cpuSamples, networkSamples, metrics, errors, storage, outcome>>

(* BuildMetrics: a history only grows by what is reported.                 *)
BuildMetrics ==
    LET cpu     == CalculateCpuPercent(before.cpu, after.cpu)
        totals0 == NetworkTotals(before.network)
        totals1 == NetworkTotals(after.network)
        send    == SendRate(totals0, totals1)
        receive == ReceiveRate(totals0, totals1)
        known   == send # None /\ receive # None
    IN  /\ pc = "building"
        /\ metrics' = [cpu |-> cpu, send |-> send, receive |-> receive]
        /\ errors' = errors \cup (IF cpu = None THEN {"cpu"} ELSE {})
                            \cup (IF ~known THEN {"networkMetrics"} ELSE {})
        /\ cpuSamples' = IF cpu = None THEN cpuSamples ELSE AddSample(cpuSamples, cpu)
        /\ networkSamples' =
              IF known THEN AddSample(networkSamples, Smaller(MaxSample, send + receive))
              ELSE networkSamples
        /\ before' = NoReading /\ after' = NoReading
        /\ IF want = "metrics"
           THEN pc' = "idle" /\ outcome' = "metrics"
           ELSE pc' = "sections" /\ outcome' = outcome
        /\ UNCHANGED <<want, storage>>

(* CollectStorage: a drive that cannot be read keeps a row of its own.     *)
RowOf(d) ==
    IF d.state = "ready"
    THEN [ready |-> TRUE, network |-> d.network, total |-> d.total, free |-> d.free]
    ELSE [ready |-> FALSE, network |-> d.state = "notReady" /\ d.network,
          total |-> None, free |-> None]

(* The sections that follow the metrics: the drives are listed, or cannot  *)
(* be.                                                                     *)
CollectSections ==
    /\ pc = "sections"
    /\ pc' = "idle" /\ outcome' = "snapshot"
    /\ \/ /\ \E drives \in DriveLists :
                storage' = [k \in 1..Len(drives) |-> RowOf(drives[k])]
          /\ errors' = errors
       \/ /\ storage' = <<>>
          /\ errors' = errors \cup {"storage"}
    /\ UNCHANGED <<want, before, after, cpuSamples, networkSamples, metrics>>

(* An exception none of the sections catches: the sample stays.            *)
SectionsThrow ==
    /\ pc = "sections"
    /\ pc' = "idle" /\ outcome' = "failed"
    /\ UNCHANGED <<want, before, after, cpuSamples, networkSamples, metrics, errors, storage>>

Next ==
    \/ \E r \in Reading, w \in {"snapshot", "metrics"} : Begin(r, w)
    \/ TimeOut \/ ReadAgain \/ BuildMetrics \/ CollectSections \/ SectionsThrow

Spec == Init /\ [][Next]_vars

-----------------------------------------------------------------------------
(* The storage gauge: the broker computes its percentage, the page chooses *)
(* the volume whose usage it prints beside it and opens on a click.        *)
HasCapacity(k) ==
    storage[k].total # None /\ storage[k].free # None /\ storage[k].total > 0
FirstOf(K)     == IF K = {} THEN None ELSE CHOOSE k \in K : \A j \in K : k <= j
Used(k)        == (100 * (storage[k].total - storage[k].free)) \div storage[k].total

Measured == {k \in DOMAIN storage : HasCapacity(k)}
MeasuredVolumeLast ==                                               \* mutant
    IF Measured = {} THEN None ELSE CHOOSE k \in Measured : \A j \in Measured : k >= j
MeasuredVolume == FirstOf(Measured)

StoragePercent ==
    IF MeasuredVolume = None THEN None
    ELSE IF storage[MeasuredVolume].free = storage[MeasuredVolume].total THEN None
    ELSE Used(MeasuredVolume)

PrimaryStorage ==
    FirstOf({k \in DOMAIN storage :
               /\ ~storage[k].network /\ storage[k].ready
               /\ storage[k].total # None /\ storage[k].free # None})

(* The percentage on the gauge is that of the volume whose usage stands    *)
(* beside it.                                                              *)
GaugeIsOneVolume ==
    StoragePercent # None =>
        PrimaryStorage # None /\ StoragePercent = Used(PrimaryStorage)

(* CollectAsync and the page choose the volume of the gauge apart, one by  *)
(* its capacity and one by its kind: without a network drive that reports  *)
(* its capacity they agree, whichever drives are not ready or throw.       *)
GaugeAgreesWithoutShares ==
    (\A k \in DOMAIN storage : ~(storage[k].network /\ HasCapacity(k))) => GaugeIsOneVolume

-----------------------------------------------------------------------------
(* SetSparkline, the page's line of a history: in eighths, so that every    *)
(* half and quarter is whole. The lowest sample is the bottom of the line's *)
(* box and the highest its top, unless that would blow up a small change.   *)
(* A point is k of the steps across and up of the range above the bottom.   *)
(* The samples are within the bounds the page clamps them to.               *)
Unit == 8

Drawn(samples, now) == IF samples = <<>> /\ now # None THEN <<now>> ELSE samples
LeastSpan(kind, high) ==
    IF kind = "cpu" THEN 18 * Unit ELSE Larger(LeastRange * Unit, high \div 4)
One(kind) == IF kind = "cpu" THEN Unit ELSE 20 * LeastRange * Unit

Widened(kind, low, high) ==
    LET least == LeastSpan(kind, high)
        mid   == (low + high) \div 2
    IN  IF high - low >= least THEN [bottom |-> low, top |-> high]
        ELSE [bottom |-> mid - least \div 2, top |-> mid + least \div 2]

BoxUncut(kind, values) == Widened(kind, Unit * Min(values), Unit * Max(values))   \* mutant
BoxOf(kind, values) ==
    LET wide   == Widened(kind, Unit * Min(values), Unit * Max(values))
        bottom == Larger(0, wide.bottom)
        top    == IF kind = "cpu" THEN Smaller(100 * Unit, wide.top) ELSE wide.top
    IN  [bottom |-> bottom, top |-> IF top <= bottom THEN bottom + One(kind) ELSE top]

NoLine == [bottom |-> 0, range |-> 0, points |-> <<>>]
SetSparkline(kind, samples, now) ==
    LET s   == Drawn(samples, now)
        box == BoxOf(kind, {s[k] : k \in DOMAIN s})
    IN  IF s = <<>> THEN NoLine
        ELSE [bottom |-> box.bottom, range |-> box.top - box.bottom,
              points |-> [k \in 1..Larger(2, Len(s)) |->
                             [across |-> k - 1,
                              up |-> Unit * s[IF Len(s) = 1 THEN 1 ELSE k] - box.bottom]]]

(* A line the page draws stays inside its box, runs from one side to the   *)
(* other, ends at the value printed beside it, never shows a load below    *)
(* nothing or above everything, and is missing only if there is nothing to *)
(* draw: after any number of failed and cancelled collections.             *)
DrawnRight(kind, samples, now) ==
    LET line == SetSparkline(kind, samples, now)
        n    == Len(line.points)
    IN  /\ n = 0 <=> samples = <<>> /\ now = None
        /\ n # 0 =>
              /\ n \in 2..Larger(2, MaxSamples)
              /\ line.range > 0 /\ line.bottom >= 0
              /\ kind = "cpu" => line.bottom + line.range <= 100 * Unit
              /\ \A k \in 1..n : line.points[k].up \in 0..line.range
              /\ line.points[n].across = n - 1
              /\ now # None => line.points[n].up + line.bottom = Unit * now

LinesEndNow ==
    outcome \in {"metrics", "snapshot"} =>
        /\ DrawnRight("cpu", cpuSamples, metrics.cpu)
        /\ DrawnRight("network", networkSamples,
                      IF metrics.send = None \/ metrics.receive = None THEN None
                      ELSE Smaller(MaxSample, metrics.send + metrics.receive))

(* A snapshot's errors are its own: they name a metric exactly when it is  *)
(* missing, and not because an earlier collection missed it.               *)
ErrorsExplain ==
    outcome = "snapshot" =>
        /\ "cpu" \in errors <=> metrics.cpu = None
        /\ "networkMetrics" \in errors <=> metrics.send = None \/ metrics.receive = None
        /\ "storage" \in errors => storage = <<>>

(* While no interface came or went between the readings, the rates are the *)
(* traffic of the interfaces that are up, whatever the others' counters do. *)
Stable ==
    before.network # None /\ after.network # None /\ IsUp(before.network) = IsUp(after.network)

RatesAreTraffic ==
    [][pc = "building" /\ Stable =>
          LET up == IsUp(after.network)
          IN  /\ metrics'.send = PerSecond * SumFunctionOnSet(
                    [i \in Interfaces |-> after.network[i].sent - before.network[i].sent], up)
              /\ metrics'.receive = PerSecond * SumFunctionOnSet(
                    [i \in Interfaces |-> after.network[i].received - before.network[i].received],
                    up)]_vars
=============================================================================
