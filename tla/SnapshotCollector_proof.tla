----------------------- MODULE SnapshotCollector_proof -----------------------
(* Proofs about the collector, for any interfaces, readings, drives and     *)
(* lengths of the histories.                                                *)
EXTENDS SnapshotCollector, FiniteSetTheorems, WellFoundedInduction, TLAPS

-----------------------------------------------------------------------------
(* Induction in the form that needs no operator: over sets.                 *)

(* A set of naturals that has a member has a least one.                     *)
LEMMA LeastNatural ==
    ASSUME NEW T \in SUBSET Nat, T # {}
    PROVE  \E m \in T : \A n \in T : m <= n
<1>1. PICK m \in T : \A n \in T : ~(<<n, m>> \in OpToRel(<, Nat))
  BY NatLessThanWellFounded, WFMin
<1>2. \A n \in T : n < m => <<n, m>> \in OpToRel(<, Nat)
  BY DEF OpToRel
<1>3. \A n \in T : ~(n < m) BY <1>1, <1>2
<1>4. \A n \in T : m <= n BY <1>3
<1> QED BY <1>4

(* A set of naturals with zero and every successor is all of them.          *)
LEMMA AllNaturals ==
    ASSUME NEW T \in SUBSET Nat, 0 \in T, \A n \in T : n + 1 \in T
    PROVE  T = Nat
<1> DEFINE U == Nat \ T
<1> SUFFICES ASSUME U # {} PROVE FALSE
  OBVIOUS
<1>1. PICK m \in U : \A n \in U : m <= n BY LeastNatural
<1>2. m # 0 /\ m \in Nat OBVIOUS
<1>3. m - 1 \in Nat /\ m - 1 \notin U BY <1>1, <1>2
<1>4. (m - 1) + 1 \in T BY <1>3
<1> QED BY <1>2, <1>4

-----------------------------------------------------------------------------
(* Sums over finite sets.                                                   *)

Pick(s) == CHOOSE x \in s : TRUE

Summed(h, f, D) ==
    h = [s \in D |-> IF s = {} THEN 0 ELSE f[Pick(s)] + h[s \ {Pick(s)}]]

(* The library's fold takes one element after the other out of the set.     *)
LEMMA SumIsFold ==
    ASSUME NEW f, NEW S
    PROVE  SumFunctionOnSet(f, S) = (CHOOSE h : Summed(h, f, SUBSET S))[S]
BY DEF SumFunctionOnSet, FoldFunctionOnSet, MapThenFoldSet, Summed, Pick

(* The element taken out of a set is in it.                                 *)
LEMMA PickIn == ASSUME NEW s, s # {} PROVE Pick(s) \in s
BY DEF Pick

(* Induction over the subsets of a finite set, one element at a time.       *)
LEMMA AllSubsets ==
    ASSUME NEW S, IsFiniteSet(S), NEW G \in SUBSET (SUBSET S), {} \in G,
           \A s \in SUBSET S : s # {} /\ s \ {Pick(s)} \in G => s \in G
    PROVE  G = SUBSET S
<1> DEFINE N == {n \in Nat : \A s \in SUBSET S : Cardinality(s) = n => s \in G}
<1>1. \A s \in SUBSET S : IsFiniteSet(s) /\ Cardinality(s) \in Nat
  BY FS_Subset, FS_CardinalityType
<1>2. 0 \in N BY <1>1, FS_EmptySet
<1>3. ASSUME NEW n \in N PROVE n + 1 \in N
  <2>1. ASSUME NEW s \in SUBSET S, Cardinality(s) = n + 1 PROVE s \in G
    <3>1. n \in Nat /\ n + 1 # 0 OBVIOUS
    <3>2. s # {} BY <2>1, <3>1, FS_EmptySet
    <3>3. Pick(s) \in s BY <3>2, PickIn
    <3>4. Cardinality(s \ {Pick(s)}) = n
      <4>1. Cardinality(s \ {Pick(s)}) = Cardinality(s) - 1
        BY <1>1, <3>3, FS_RemoveElement
      <4> QED BY <2>1, <3>1, <4>1
    <3>5. s \ {Pick(s)} \in SUBSET S OBVIOUS
    <3>6. s \ {Pick(s)} \in G BY <3>4, <3>5
    <3> QED BY <3>2, <3>6
  <2>2. n + 1 \in Nat OBVIOUS
  <2> QED BY <2>1, <2>2
<1>4. N = Nat
  <2> HIDE DEF N
  <2>1. N \in SUBSET Nat BY DEF N
  <2> QED BY <1>2, <1>3, <2>1, AllNaturals
<1> QED BY <1>1, <1>4

(* The sum of a finite set is there: the recursion has a solution.          *)
LEMMA SumExists ==
    ASSUME NEW f, NEW S, IsFiniteSet(S)
    PROVE  \E h : Summed(h, f, SUBSET S)
<1> DEFINE D(n) == {s \in SUBSET S : Cardinality(s) <= n}
           N == {n \in Nat : \E h : Summed(h, f, D(n))}
<1>1. \A s \in SUBSET S : IsFiniteSet(s) /\ Cardinality(s) \in Nat
  BY FS_Subset, FS_CardinalityType
<1>2. 0 \in N
  <2> DEFINE h == [s \in D(0) |-> 0]
  <2>1. \A s \in D(0) : s = {} BY <1>1, FS_EmptySet
  <2>2. Summed(h, f, D(0)) BY <2>1 DEF Summed
  <2> QED BY <2>2
<1>3. ASSUME NEW n \in N PROVE n + 1 \in N
  <2>1. PICK h : Summed(h, f, D(n)) OBVIOUS
  <2> DEFINE g == [s \in D(n + 1) |-> IF s = {} THEN 0 ELSE f[Pick(s)] + h[s \ {Pick(s)}]]
  <2>2. D(n) \subseteq D(n + 1) BY <1>1
  <2>3. \A s \in D(n) : h[s] = g[s] BY <2>1, <2>2 DEF Summed
  <2>4. ASSUME NEW s \in D(n + 1), s # {} PROVE s \ {Pick(s)} \in D(n)
    <3>1. Pick(s) \in s BY <2>4, PickIn
    <3>2. Cardinality(s \ {Pick(s)}) = Cardinality(s) - 1
      BY <1>1, <3>1, FS_RemoveElement
    <3> QED BY <1>1, <3>2
  <2>5. Summed(g, f, D(n + 1)) BY <2>3, <2>4 DEF Summed
  <2>6. n + 1 \in Nat OBVIOUS
  <2> QED BY <2>5, <2>6
<1>4. N = Nat
  <2> HIDE DEF N
  <2>1. N \in SUBSET Nat BY DEF N
  <2> QED BY <1>2, <1>3, <2>1, AllNaturals
<1>5. Cardinality(S) \in N BY <1>1, <1>4, FS_CardinalityType
<1>6. D(Cardinality(S)) = SUBSET S BY FS_Subset
<1> QED BY <1>5, <1>6

(* The sum of a function over a finite set, as the last value of a solution *)
(* of the recursion.                                                        *)
LEMMA SumIsLast ==
    ASSUME NEW f, NEW S, IsFiniteSet(S)
    PROVE  \E h : Summed(h, f, SUBSET S) /\ SumFunctionOnSet(f, S) = h[S]
<1> DEFINE h == CHOOSE h : Summed(h, f, SUBSET S)
<1>1. Summed(h, f, SUBSET S) BY SumExists
<1>2. SumFunctionOnSet(f, S) = h[S] BY SumIsFold
<1> QED BY <1>1, <1>2

(* A sum of naturals is a natural.                                          *)
LEMMA SumOfNaturals ==
    ASSUME NEW I, NEW f \in [I -> Nat], NEW S \in SUBSET I, IsFiniteSet(S)
    PROVE  SumFunctionOnSet(f, S) \in Nat
<1>1. PICK h : Summed(h, f, SUBSET S) /\ SumFunctionOnSet(f, S) = h[S]
  BY SumIsLast
<1> DEFINE G == {s \in SUBSET S : h[s] \in Nat}
<1>2. {} \in G BY <1>1 DEF Summed
<1>3. ASSUME NEW s \in SUBSET S, s # {}, s \ {Pick(s)} \in G PROVE s \in G
  <2>1. Pick(s) \in I BY <1>3, PickIn
  <2>2. h[s] = f[Pick(s)] + h[s \ {Pick(s)}] BY <1>1, <1>3 DEF Summed
  <2>3. f[Pick(s)] \in Nat /\ h[s \ {Pick(s)}] \in Nat BY <1>3, <2>1
  <2>4. h[s] \in Nat BY <2>2, <2>3
  <2> QED BY <2>4
<1>4. G = SUBSET S
  <2>1. G \in SUBSET (SUBSET S) OBVIOUS
  <2> HIDE DEF G
  <2> QED BY <1>2, <1>3, <2>1, AllSubsets
<1> QED BY <1>1, <1>4

(* The sum of differences is the difference of the sums; and it is not      *)
(* negative when no difference is.                                          *)
LEMMA SumOfDifferences ==
    ASSUME NEW I, NEW f \in [I -> Nat], NEW g \in [I -> Nat], NEW d \in [I -> Int],
           NEW S \in SUBSET I, IsFiniteSet(S),
           \A i \in S : d[i] = f[i] - g[i] /\ d[i] >= 0
    PROVE  /\ SumFunctionOnSet(d, S) = SumFunctionOnSet(f, S) - SumFunctionOnSet(g, S)
           /\ SumFunctionOnSet(d, S) >= 0
<1>1. PICK u : Summed(u, f, SUBSET S) /\ SumFunctionOnSet(f, S) = u[S]
  BY SumIsLast
<1>2. PICK v : Summed(v, g, SUBSET S) /\ SumFunctionOnSet(g, S) = v[S]
  BY SumIsLast
<1>3. PICK w : Summed(w, d, SUBSET S) /\ SumFunctionOnSet(d, S) = w[S]
  BY SumIsLast
<1> DEFINE G == {s \in SUBSET S : /\ u[s] \in Int /\ v[s] \in Int /\ w[s] \in Int
                                  /\ w[s] = u[s] - v[s] /\ w[s] >= 0}
<1>4. {} \in G BY <1>1, <1>2, <1>3 DEF Summed
<1>5. ASSUME NEW s \in SUBSET S, s # {}, s \ {Pick(s)} \in G PROVE s \in G
  <2> DEFINE x == Pick(s)
             r == s \ {x}
  <2>1. x \in S /\ x \in I BY <1>5, PickIn
  <2>2. u[s] = f[x] + u[r] BY <1>1, <1>5 DEF Summed
  <2>3. v[s] = g[x] + v[r] BY <1>2, <1>5 DEF Summed
  <2>4. w[s] = d[x] + w[r] BY <1>3, <1>5 DEF Summed
  <2>5. f[x] \in Nat /\ g[x] \in Nat /\ d[x] = f[x] - g[x] /\ d[x] >= 0 BY <2>1
  <2>6. /\ u[r] \in Int /\ v[r] \in Int /\ w[r] \in Int
        /\ w[r] = u[r] - v[r] /\ w[r] >= 0
    BY <1>5
  <2> HIDE DEF x, r
  <2>7. d[x] \in Int BY <2>5
  <2>8. u[s] \in Int /\ v[s] \in Int /\ w[s] \in Int
    BY <2>2, <2>3, <2>4, <2>5, <2>6, <2>7
  <2>9. w[s] = (f[x] - g[x]) + (u[r] - v[r]) BY <2>4, <2>5, <2>6
  <2>10. (f[x] - g[x]) + (u[r] - v[r]) = (f[x] + u[r]) - (g[x] + v[r])
    BY <2>5, <2>6
  <2>11. w[s] = u[s] - v[s] BY <2>2, <2>3, <2>9, <2>10
  <2>12. w[s] >= 0 BY <2>4, <2>5, <2>6, <2>7
  <2> QED BY <2>8, <2>11, <2>12
<1>6. G = SUBSET S
  <2>1. G \in SUBSET (SUBSET S) OBVIOUS
  <2> HIDE DEF G
  <2> QED BY <1>4, <1>5, <2>1, AllSubsets
<1> QED BY <1>1, <1>2, <1>3, <1>6

-----------------------------------------------------------------------------
(* What the operators of a collection return.                               *)

(* A percentage or null.                                                    *)
LEMMA CpuPercentType ==
    ASSUME NEW b \in CpuTimes \cup {None}, NEW a \in CpuTimes \cup {None}
    PROVE  CalculateCpuPercent(b, a) \in (0..100) \cup {None}
<1>1. CASE b = None \/ a = None BY <1>1 DEF CalculateCpuPercent
<1>2. CASE ~(b = None \/ a = None)
  <2> DEFINE total == a.total - b.total
             idle  == a.idle - b.idle
  <2>1. b \in SystemTimes /\ a \in SystemTimes BY <1>2, CollectorAssumption
  <2>2. total \in Int /\ idle \in Int BY <2>1 DEF SystemTimes
  <2> HIDE DEF total, idle
  <2>3. CASE total <= 0 BY <1>2, <2>3 DEF CalculateCpuPercent, total
  <2>4. CASE ~(total <= 0)
    <3>1. 100 * (total - idle) \in Int BY <2>2
    <3>2. (100 * (total - idle)) \div total \in Int BY <2>2, <2>4, <3>1
    <3> DEFINE q == (100 * (total - idle)) \div total
    <3>3. CalculateCpuPercent(b, a) = Larger(0, Smaller(100, q))
      BY <1>2, <2>4 DEF CalculateCpuPercent, total, idle
    <3> HIDE DEF q
    <3>4. q \in Int BY <3>2 DEF q
    <3>5. Larger(0, Smaller(100, q)) \in 0..100 BY <3>4 DEF Larger, Smaller
    <3> QED BY <3>3, <3>5
  <2> QED BY <2>3, <2>4
<1> QED BY <1>1, <1>2

Networks == [Interfaces -> Statistics] \cup {None}

(* A reading's counters, as functions of the interfaces, and its totals.    *)
LEMMA TotalsFacts ==
    ASSUME NEW n \in [Interfaces -> Statistics]
    PROVE  /\ [i \in Interfaces |-> n[i].sent] \in [Interfaces -> Nat]
           /\ [i \in Interfaces |-> n[i].received] \in [Interfaces -> Nat]
           /\ IsUp(n) \in SUBSET Interfaces /\ IsFiniteSet(IsUp(n))
           /\ n # None
           /\ NetworkTotals(n) = [sent |-> SentOf(n, IsUp(n)), received |-> ReceivedOf(n, IsUp(n))]
           /\ SentOf(n, IsUp(n)) \in Nat
           /\ ReceivedOf(n, IsUp(n)) \in Nat
<1>1. \A i \in Interfaces : n[i].sent \in Nat /\ n[i].received \in Nat
  BY CollectorAssumption DEF Statistic
<1>2. [i \in Interfaces |-> n[i].sent] \in [Interfaces -> Nat] BY <1>1
<1>3. [i \in Interfaces |-> n[i].received] \in [Interfaces -> Nat] BY <1>1
<1>4. IsUp(n) \in SUBSET Interfaces BY DEF IsUp
<1>5. IsFiniteSet(IsUp(n)) BY <1>4, CollectorAssumption, FS_Subset
<1>6. n # None
  <2>1. n \in [Interfaces -> Statistic] BY CollectorAssumption
  <2> QED BY <2>1, CollectorAssumption
<1>7. NetworkTotals(n) = [sent |-> SentOf(n, IsUp(n)), received |-> ReceivedOf(n, IsUp(n))]
  BY <1>6 DEF NetworkTotals
<1>8. SentOf(n, IsUp(n)) \in Nat BY <1>2, <1>4, <1>5, SumOfNaturals DEF SentOf
<1>9. ReceivedOf(n, IsUp(n)) \in Nat BY <1>3, <1>4, <1>5, SumOfNaturals DEF ReceivedOf
<1> QED BY <1>2, <1>3, <1>4, <1>5, <1>6, <1>7, <1>8, <1>9

(* A rate is a natural or null.                                             *)
LEMMA RateType ==
    ASSUME NEW b \in Nat, NEW a \in Nat
    PROVE  Rate(b, a) \in Nat \cup {None}
<1>1. CASE a < b BY <1>1 DEF Rate
<1>2. CASE ~(a < b)
  <2>1. a - b \in Nat BY <1>2
  <2>2. (a - b) * PerSecond \in Nat BY <2>1, CollectorAssumption
  <2> QED BY <1>2, <2>2 DEF Rate, Larger
<1> QED BY <1>1, <1>2

(* So are the two rates of any two readings.                                *)
LEMMA RatesType ==
    ASSUME NEW b \in Networks, NEW a \in Networks
    PROVE  /\ SendRate(NetworkTotals(b), NetworkTotals(a)) \in Nat \cup {None}
           /\ ReceiveRate(NetworkTotals(b), NetworkTotals(a)) \in Nat \cup {None}
<1>1. CASE b = None \/ a = None BY <1>1 DEF NetworkTotals, SendRate, ReceiveRate
<1>2. CASE b # None /\ a # None
  <2>1. b \in [Interfaces -> Statistics] /\ a \in [Interfaces -> Statistics]
    BY <1>2 DEF Networks
  <2> DEFINE tb == NetworkTotals(b)
             ta == NetworkTotals(a)
  <2>2. tb.sent \in Nat /\ tb.received \in Nat /\ ta.sent \in Nat /\ ta.received \in Nat
    BY <2>1, TotalsFacts
  <2> QED BY <2>2, RateType DEF SendRate, ReceiveRate
<1> QED BY <1>1, <1>2

(* A subsequence: its length and its elements.                              *)
LEMMA SubSeqFacts ==
    ASSUME NEW S, NEW t \in Seq(S), NEW m \in 1..(Len(t) + 1), NEW n \in 0..Len(t), m <= n + 1
    PROVE  /\ SubSeq(t, m, n) \in Seq(S)
           /\ Len(SubSeq(t, m, n)) = n - m + 1
           /\ \A i \in 1..(n - m + 1) : SubSeq(t, m, n)[i] = t[m + i - 1]
OBVIOUS

(* A history after a sample: bounded, and the sample is its last.           *)
LEMMA AddSampleFacts ==
    ASSUME NEW M \in Nat, NEW s \in Seq(0..M), NEW x \in 0..M
    PROVE  /\ AddSample(s, x) \in Seq(0..M)
           /\ Len(AddSample(s, x)) \in 1..MaxSamples
           /\ AddSample(s, x)[Len(AddSample(s, x))] = x
<1> DEFINE t == Append(s, x)
           n == Len(t)
           m == n - Smaller(n, MaxSamples) + 1
<1>1. t \in Seq(0..M) /\ n = Len(s) + 1 /\ t[n] = x /\ n \in Nat \ {0}
  OBVIOUS
<1>2. AddSample(s, x) = SubSeq(t, m, n) BY DEF AddSample
<1> HIDE DEF t, n
<1>3. m \in 1..n /\ n - m + 1 \in 1..MaxSamples
  <2>1. n \in Nat \ {0} /\ MaxSamples \in Nat \ {0} BY <1>1, CollectorAssumption
  <2>2. CASE n <= MaxSamples
    <3>1. m = 1 BY <2>1, <2>2 DEF Smaller
    <3> QED BY <2>1, <2>2, <3>1
  <2>3. CASE ~(n <= MaxSamples)
    <3>1. m = n - MaxSamples + 1 BY <2>1, <2>3 DEF Smaller
    <3> QED BY <2>1, <2>3, <3>1
  <2> QED BY <2>2, <2>3
<1> HIDE DEF m
<1>4. n = Len(t) BY DEF n
<1>5. /\ SubSeq(t, m, n) \in Seq(0..M)
      /\ Len(SubSeq(t, m, n)) = n - m + 1
      /\ SubSeq(t, m, n)[n - m + 1] = t[n]
  <2>1. m \in 1..(Len(t) + 1) /\ n \in 0..Len(t) /\ m <= n + 1 BY <1>1, <1>3, <1>4
  <2>2. n - m + 1 \in 1..(n - m + 1) /\ m + (n - m + 1) - 1 = n BY <1>1, <1>3
  <2>3. SubSeq(t, m, n) \in Seq(0..M) /\ Len(SubSeq(t, m, n)) = n - m + 1
    BY <1>1, <2>1, SubSeqFacts
  <2>4. \A i \in 1..(n - m + 1) : SubSeq(t, m, n)[i] = t[m + i - 1]
    BY <1>1, <2>1, SubSeqFacts
  <2>5. SubSeq(t, m, n)[n - m + 1] = t[m + (n - m + 1) - 1] BY <2>2, <2>4
  <2> QED BY <2>2, <2>3, <2>5
<1>6. Len(AddSample(s, x)) = n - m + 1 BY <1>2, <1>5
<1>7. AddSample(s, x)[n - m + 1] = x BY <1>1, <1>2, <1>5
<1>8. AddSample(s, x) \in Seq(0..M) BY <1>2, <1>5
<1> QED BY <1>3, <1>6, <1>7, <1>8

-----------------------------------------------------------------------------
(* The lines of the histories.                                              *)

LineKinds == {"cpu", "network"}

(* A box around the samples: inside the bounds of the kind, never empty.    *)
LEMMA BoxFacts ==
    ASSUME NEW kind \in LineKinds, NEW values,
           NEW l \in Nat, NEW h \in Nat, l = Min(values), h = Max(values), l <= h,
           kind = "cpu" => h <= 100
    PROVE  LET box == BoxOf(kind, values)
           IN  /\ box.bottom \in Nat /\ box.top \in Nat
               /\ box.bottom < box.top
               /\ box.bottom <= Unit * l /\ Unit * h <= box.top
               /\ kind = "cpu" => box.top <= 100 * Unit
<1> DEFINE low   == Unit * l
           high  == Unit * h
           least == LeastSpan(kind, high)
           wide  == Widened(kind, low, high)
           box   == BoxOf(kind, values)
<1>1. /\ low \in Nat /\ high \in Nat /\ low <= high
      /\ low = 8 * l /\ high = 8 * h
      /\ kind = "cpu" => high <= 800
  BY DEF Unit
<1>2. least \in Nat /\ least >= 8 /\ (kind = "cpu" => least = 144)
  <2>1. high \div 4 \in Nat BY <1>1
  <2>2. LeastRange * Unit \in Nat /\ LeastRange * Unit >= 8
    BY CollectorAssumption DEF Unit
  <2> HIDE DEF high
  <2> QED BY <2>1, <2>2 DEF LeastSpan, Larger, Unit
<1>3. /\ wide.bottom \in Int /\ wide.top \in Int
      /\ wide.bottom < wide.top
      /\ wide.bottom <= low /\ high <= wide.top
      /\ wide.top > 0 /\ (kind = "cpu" => wide.bottom < 800)
  <2>1. CASE high - low >= least
    <3>1. wide = [bottom |-> low, top |-> high] BY <2>1 DEF Widened
    <3> HIDE DEF low, high, least, wide
    <3> QED BY <1>1, <1>2, <2>1, <3>1
  <2>2. CASE ~(high - low >= least)
    <3> DEFINE mid == (low + high) \div 2
               half == least \div 2
    <3>1. wide = [bottom |-> mid - half, top |-> mid + half] BY <2>2 DEF Widened
    <3>2. mid = 4 * l + 4 * h BY <1>1
    <3> HIDE DEF low, high, least, wide
    <3>3. half \in Nat /\ half >= 4 /\ 2 * half <= least /\ least <= 2 * half + 1 BY <1>2
    <3>4. 8 * h - 8 * l < least BY <1>1, <1>2, <2>2
    <3> HIDE DEF mid, half
    <3>5. 4 * h - 4 * l <= half BY <1>2, <3>3, <3>4
    <3>6. /\ mid \in Int /\ mid - half \in Int /\ mid + half \in Int
          /\ mid - half < mid + half
          /\ mid - half <= 8 * l /\ 8 * h <= mid + half
          /\ mid + half > 0 /\ (kind = "cpu" => mid - half < 800)
      BY <3>2, <3>3, <3>5
    <3>7. wide.bottom = mid - half /\ wide.top = mid + half BY <3>1
    <3> QED BY <1>1, <3>6, <3>7
  <2> QED BY <2>1, <2>2
<1> DEFINE bottom == Larger(0, wide.bottom)
           top == IF kind = "cpu" THEN Smaller(100 * Unit, wide.top) ELSE wide.top
<1>4. box = [bottom |-> bottom, top |-> IF top <= bottom THEN bottom + One(kind) ELSE top]
  BY DEF BoxOf
<1> HIDE DEF low, high, least, wide, box
<1>5. bottom \in Nat /\ bottom <= low /\ (kind = "cpu" => bottom < 800)
  BY <1>1, <1>3 DEF Larger
<1>6. bottom < wide.top
  <2>1. 0 < wide.top BY <1>3
  <2> QED BY <1>3, <2>1 DEF Larger
<1> HIDE DEF bottom
<1>7. /\ top \in Int /\ bottom < top /\ high <= top
      /\ kind = "cpu" => top <= 800
  <2>1. CASE kind = "cpu"
    <3>1. top = Smaller(800, wide.top) BY <2>1 DEF Unit
    <3> HIDE DEF top
    <3> QED BY <1>1, <1>3, <1>5, <1>6, <2>1, <3>1 DEF Smaller
  <2>2. CASE kind # "cpu" BY <1>3, <1>6, <2>2
  <2> QED BY <2>1, <2>2
<1> HIDE DEF top
<1>8. box.bottom = bottom /\ box.top = top BY <1>4, <1>5, <1>7
<1>9. top \in Nat BY <1>5, <1>7
<1> QED BY <1>5, <1>7, <1>8, <1>9 DEF low, high, box, Unit

(* The lowest and the highest of the samples of a history.                  *)
LEMMA LowestAndHighest ==
    ASSUME NEW M \in Nat, NEW s \in Seq(0..M), s # <<>>,
           NEW values, values = {s[k] : k \in DOMAIN s}
    PROVE  /\ Min(values) \in 0..M /\ Max(values) \in 0..M
           /\ \A k \in DOMAIN s : Min(values) <= s[k] /\ s[k] <= Max(values)
<1> DEFINE T == {M - x : x \in values}
<1>1. values \in SUBSET Nat /\ values \subseteq 0..M /\ values # {}
  <2>1. \A k \in DOMAIN s : s[k] \in 0..M OBVIOUS
  <2>2. 1 \in DOMAIN s OBVIOUS
  <2>3. \A x \in values : x \in 0..M BY <2>1
  <2>4. s[1] \in values BY <2>2
  <2> QED BY <2>3, <2>4
<1>2. T \in SUBSET Nat /\ T # {}
  <2>1. \A x \in values : M - x \in Nat BY <1>1
  <2>2. T \in SUBSET Nat BY <2>1
  <2>3. PICK x \in values : TRUE BY <1>1
  <2>4. M - x \in T OBVIOUS
  <2> QED BY <2>2, <2>4
<1>3. PICK l \in values : \A x \in values : l <= x BY <1>1, LeastNatural
<1>4. PICK m \in T : \A n \in T : m <= n
  <2> HIDE DEF T
  <2> QED BY <1>2, LeastNatural
<1>5. PICK h \in values : m = M - h OBVIOUS
<1>6. \A x \in values : x <= h
  <2> TAKE x \in values
  <2>1. M - h <= M - x BY <1>4, <1>5
  <2>2. x \in Nat /\ h \in Nat BY <1>1
  <2> QED BY <2>1, <2>2
<1>7. Min(values) \in values /\ \A x \in values : Min(values) <= x
  BY <1>3 DEF Min
<1>8. Max(values) \in values /\ \A x \in values : Max(values) >= x
  <2>1. \A x \in values : h >= x BY <1>1, <1>6
  <2> QED BY <2>1 DEF Max
<1>9. \A k \in DOMAIN s : s[k] \in values OBVIOUS
<1>10. \A x \in values : x \in 0..M BY <1>1
<1>11. \A x \in values : x <= Max(values) BY <1>8, <1>10
<1> QED BY <1>7, <1>8, <1>9, <1>10, <1>11

EndsNow(s, now) == now # None => s # <<>> /\ s[Len(s)] = now

(* A bounded history that ends at the current value is drawn right.         *)
LEMMA DrawnRightIfCurrent ==
    ASSUME NEW kind \in LineKinds, NEW M \in Nat, kind = "cpu" => M = 100,
           NEW s \in Seq(0..M), Len(s) <= MaxSamples,
           NEW now \in (0..M) \cup {None}, EndsNow(s, now)
    PROVE  DrawnRight(kind, s, now)
<1> DEFINE line == SetSparkline(kind, s, now)
           values == {s[k] : k \in DOMAIN s}
           box == BoxOf(kind, values)
           l == Min(values)
           h == Max(values)
           N == Larger(2, Len(s))
<1>1. Drawn(s, now) = s BY DEF Drawn, EndsNow
<1>2. CASE s = <<>>
  <2>1. now = None BY <1>2 DEF EndsNow
  <2>2. line = NoLine BY <1>1, <1>2 DEF SetSparkline
  <2>3. Len(line.points) = 0 BY <2>2 DEF NoLine
  <2>4. SetSparkline(kind, s, now) = line OBVIOUS
  <2> HIDE DEF line
  <2> QED BY <1>2, <2>1, <2>3, <2>4 DEF DrawnRight
<1>3. CASE s # <<>>
  <2>1. /\ l \in 0..M /\ h \in 0..M
        /\ \A k \in DOMAIN s : l <= s[k] /\ s[k] <= h
    <3>1. values = {s[k] : k \in DOMAIN s} OBVIOUS
    <3> HIDE DEF values
    <3> QED BY <1>3, <3>1, LowestAndHighest
  <2>2. Len(s) \in Nat /\ 1 <= Len(s) /\ DOMAIN s = 1..Len(s) /\ \A k \in 1..Len(s) : s[k] \in 0..M
    BY <1>3
  <2>3. line = [bottom |-> box.bottom, range |-> box.top - box.bottom,
                points |-> [k \in 1..N |->
                             [across |-> k - 1,
                              up |-> Unit * s[IF Len(s) = 1 THEN 1 ELSE k] - box.bottom]]]
    BY <1>1, <1>3 DEF SetSparkline
  <2> HIDE DEF line
  <2>4. /\ box.bottom \in Nat /\ box.top \in Nat
        /\ box.bottom < box.top
        /\ box.bottom <= Unit * l /\ Unit * h <= box.top
        /\ kind = "cpu" => box.top <= 100 * Unit
    <3>1. l \in Nat /\ h \in Nat /\ l <= h /\ (kind = "cpu" => h <= 100)
      <4>1. l <= s[1] /\ s[1] <= h /\ s[1] \in 0..M BY <2>1, <2>2
      <4> HIDE DEF l, h
      <4> QED BY <2>1, <4>1
    <3> HIDE DEF values
    <3> QED BY <3>1, BoxFacts
  <2> HIDE DEF box, l, h, values
  <2>5. N \in Nat /\ N >= 2 /\ N \in 2..Larger(2, MaxSamples)
        /\ (Len(s) = 1 => N = 2) /\ (Len(s) # 1 => N = Len(s))
    BY <2>2, CollectorAssumption DEF Larger
  <2> HIDE DEF N
  <2>6. Len(line.points) = N
    <3>1. line.points = [k \in 1..N |-> [across |-> k - 1,
                              up |-> Unit * s[IF Len(s) = 1 THEN 1 ELSE k] - box.bottom]]
      BY <2>3
    <3> HIDE DEF line
    <3>2. DOMAIN line.points = 1..N BY <3>1
    <3> QED BY <2>5, <3>1, <3>2
  <2>7. ASSUME NEW k \in 1..N
        PROVE  /\ line.points[k].across = k - 1
               /\ line.points[k].up = Unit * s[IF Len(s) = 1 THEN 1 ELSE k] - box.bottom
    BY <2>3
  <2>8. ASSUME NEW k \in 1..N PROVE line.points[k].up \in 0..line.range
    <3> DEFINE j == IF Len(s) = 1 THEN 1 ELSE k
    <3>1. j \in 1..Len(s)
      <4>1. CASE Len(s) = 1 BY <4>1
      <4>2. CASE Len(s) # 1
        <5>1. N = Len(s) BY <2>5, <4>2
        <5> QED BY <4>2, <5>1
      <4> QED BY <4>1, <4>2
    <3>2. line.points[k].up = Unit * s[j] - box.bottom BY <2>7
    <3> HIDE DEF j
    <3>3. l <= s[j] /\ s[j] <= h /\ s[j] \in Nat
      <4>1. j \in DOMAIN s /\ s[j] \in 0..M BY <2>2, <3>1
      <4>2. l <= s[j] /\ s[j] <= h BY <2>1, <4>1
      <4> QED BY <4>1, <4>2
    <3>4. line.range = box.top - box.bottom BY <2>3
    <3>5. l \in Nat /\ h \in Nat BY <2>1
    <3>6. Unit * l <= Unit * s[j] /\ Unit * s[j] <= Unit * h /\ Unit * s[j] \in Nat
      BY <3>3, <3>5 DEF Unit
    <3>7. Unit * l \in Nat /\ Unit * h \in Nat BY <3>5 DEF Unit
    <3>8. Unit * s[j] - box.bottom \in 0..(box.top - box.bottom)
      BY <2>4, <3>6, <3>7
    <3> QED BY <3>2, <3>4, <3>8
  <2>9. line.range > 0 /\ line.bottom >= 0 /\ line.bottom = box.bottom
    BY <2>3, <2>4
  <2>10. kind = "cpu" => line.bottom + line.range <= 100 * Unit
    <3>1. line.bottom + line.range = box.top BY <2>3, <2>4
    <3> QED BY <2>4, <3>1
  <2>11. N \in 1..N BY <2>5
  <2>12. line.points[N].across = N - 1 BY <2>7, <2>11
  <2>13. now # None => line.points[N].up + line.bottom = Unit * now
    <3> SUFFICES ASSUME now # None PROVE line.points[N].up + line.bottom = Unit * now
      OBVIOUS
    <3>1. s[Len(s)] = now /\ now \in Nat BY DEF EndsNow
    <3>2. (IF Len(s) = 1 THEN 1 ELSE N) = Len(s) BY <2>5
    <3>3. line.points[N].up = Unit * now - box.bottom BY <2>7, <2>11, <3>1, <3>2
    <3>4. Unit * now \in Nat BY <3>1 DEF Unit
    <3> QED BY <2>4, <2>9, <3>3, <3>4
  <2>14. N # 0 BY <2>5
  <2>15. DrawnRight(kind, s, now)
    <3>1. SetSparkline(kind, s, now) = line BY DEF line
    <3> QED BY <1>3, <2>5, <2>6, <2>8, <2>9, <2>10, <2>12, <2>13, <2>14, <3>1 DEF DrawnRight
  <2> QED BY <2>15
<1> QED BY <1>2, <1>3

-----------------------------------------------------------------------------
(* The inductive invariant.                                                 *)

NetworkNow == IF metrics.send = None \/ metrics.receive = None THEN None
              ELSE Smaller(MaxSample, metrics.send + metrics.receive)

(* A history never grows past its bound.                                    *)
HistoryInv == Len(cpuSamples) <= MaxSamples /\ Len(networkSamples) <= MaxSamples

(* From the moment metrics are built to the end of their collection, each   *)
(* history ends at the value just measured; no other collection can add to  *)
(* it before the reply is made.                                             *)
CurrentInv ==
    pc = "sections" \/ outcome \in {"metrics", "snapshot"} =>
        EndsNow(cpuSamples, metrics.cpu) /\ EndsNow(networkSamples, NetworkNow)

(* The errors of a collection start empty and then follow its metrics.      *)
MetricsExplained ==
    /\ "cpu" \in errors <=> metrics.cpu = None
    /\ "networkMetrics" \in errors <=> metrics.send = None \/ metrics.receive = None

ErrorsInv ==
    /\ pc # "idle" => outcome = "none"
    /\ pc \in {"sampling", "building"} => errors = {}
    /\ pc = "sections" => MetricsExplained /\ "storage" \notin errors
    /\ outcome = "snapshot" =>
          MetricsExplained /\ ("storage" \in errors => storage = <<>>)

(* A row of the storage section is what some drive became.                  *)
RowInv == \A k \in DOMAIN storage : \E d \in Drives : storage[k] = RowOf(d)

(* The second reading comes after the first.                                *)
FollowsInv == pc = "building" => after \in Follows(before)

IInv == TypeOK /\ HistoryInv /\ CurrentInv /\ ErrorsInv /\ RowInv /\ FollowsInv

(* Before anything is collected it holds.                                   *)
LEMMA InitIInv == Init => IInv
<1> SUFFICES ASSUME Init PROVE IInv OBVIOUS
<1>1. TypeOK
  <2>1. NoReading \in Reading BY DEF NoReading, Reading
  <2>2. NoMetrics \in [cpu : (0..100) \cup {None}, send : Nat \cup {None},
                       receive : Nat \cup {None}]
    BY DEF NoMetrics
  <2>3. <<>> \in Seq(0..100) /\ <<>> \in Seq(0..MaxSample) /\ <<>> \in Seq(Row) OBVIOUS
  <2> QED BY <2>1, <2>2, <2>3 DEF Init, TypeOK
<1>2. HistoryInv BY CollectorAssumption DEF Init, HistoryInv
<1>3. CurrentInv BY DEF Init, CurrentInv
<1>4. ErrorsInv BY DEF Init, ErrorsInv
<1>5. RowInv BY DEF Init, RowInv
<1>6. FollowsInv BY DEF Init, FollowsInv
<1> QED BY <1>1, <1>2, <1>3, <1>4, <1>5, <1>6 DEF IInv

(* The rows are rows, whatever the drives are.                              *)
LEMMA RowType == ASSUME NEW d \in Drives PROVE RowOf(d) \in Row
<1>1. d \in Drive BY CollectorAssumption
<1>2. d.network \in BOOLEAN /\ d.total \in Nat /\ d.free \in Nat BY <1>1 DEF Drive
<1>3. (d.state = "notReady" /\ d.network) \in BOOLEAN OBVIOUS
<1> QED BY <1>2, <1>3 DEF RowOf, Row

LEMMA RowsType ==
    ASSUME NEW drives \in DriveLists
    PROVE  /\ [k \in 1..Len(drives) |-> RowOf(drives[k])] \in Seq(Row)
           /\ \A k \in 1..Len(drives) : drives[k] \in Drives
<1>1. PICK n \in 0..MaxDrives : drives \in [1..n -> Drives] BY DEF DriveLists
<1>2. n \in Nat BY CollectorAssumption
<1>3. Len(drives) = n BY <1>1, <1>2
<1>4. \A k \in 1..n : drives[k] \in Drives BY <1>1
<1>5. \A k \in 1..n : RowOf(drives[k]) \in Row BY <1>4, RowType
<1>6. [k \in 1..n |-> RowOf(drives[k])] \in [1..n -> Row] BY <1>5
<1>7. [k \in 1..n |-> RowOf(drives[k])] \in Seq(Row) BY <1>2, <1>6
<1> QED BY <1>3, <1>4, <1>7

(* Building the metrics: what it makes of them and of the histories.        *)
LEMMA BuildFacts ==
    ASSUME TypeOK, HistoryInv, BuildMetrics
    PROVE  /\ metrics' \in [cpu : (0..100) \cup {None}, send : Nat \cup {None},
                            receive : Nat \cup {None}]
           /\ cpuSamples' \in Seq(0..100) /\ networkSamples' \in Seq(0..MaxSample)
           /\ HistoryInv'
           /\ EndsNow(cpuSamples', metrics'.cpu)
           /\ EndsNow(networkSamples', NetworkNow')
<1> DEFINE cpu     == CalculateCpuPercent(before.cpu, after.cpu)
           send    == SendRate(NetworkTotals(before.network), NetworkTotals(after.network))
           receive == ReceiveRate(NetworkTotals(before.network), NetworkTotals(after.network))
           known   == send # None /\ receive # None
           sample  == Smaller(MaxSample, send + receive)
<1>1. /\ metrics' = [cpu |-> cpu, send |-> send, receive |-> receive]
      /\ cpuSamples' = IF cpu = None THEN cpuSamples ELSE AddSample(cpuSamples, cpu)
      /\ networkSamples' = IF known THEN AddSample(networkSamples, sample) ELSE networkSamples
  BY DEF BuildMetrics
<1>2. cpu \in (0..100) \cup {None}
  <2>1. before.cpu \in CpuTimes \cup {None} /\ after.cpu \in CpuTimes \cup {None}
    BY DEF TypeOK, Reading
  <2> QED BY <2>1, CpuPercentType
<1>3. send \in Nat \cup {None} /\ receive \in Nat \cup {None}
  <2>1. before.network \in Networks /\ after.network \in Networks
    BY DEF TypeOK, Reading, Networks
  <2> QED BY <2>1, RatesType
<1> HIDE DEF cpu, send, receive
<1>4. metrics' \in [cpu : (0..100) \cup {None}, send : Nat \cup {None},
                    receive : Nat \cup {None}]
  BY <1>1, <1>2, <1>3
<1>5. metrics'.cpu = cpu /\ metrics'.send = send /\ metrics'.receive = receive BY <1>1
<1>6. /\ cpuSamples' \in Seq(0..100) /\ Len(cpuSamples') <= MaxSamples
      /\ EndsNow(cpuSamples', cpu)
  <2>1. CASE cpu = None BY <1>1, <2>1 DEF TypeOK, HistoryInv, EndsNow
  <2>2. CASE cpu # None
    <3>1. cpu \in 0..100 /\ cpuSamples \in Seq(0..100) /\ 100 \in Nat
      BY <1>2, <2>2 DEF TypeOK
    <3>2. cpuSamples' = AddSample(cpuSamples, cpu) BY <1>1, <2>2
    <3>3. /\ cpuSamples' \in Seq(0..100) /\ Len(cpuSamples') \in 1..MaxSamples
          /\ cpuSamples'[Len(cpuSamples')] = cpu
      BY <3>1, <3>2, AddSampleFacts
    <3>4. cpuSamples' # <<>> BY <3>3
    <3> QED BY <3>3, <3>4, CollectorAssumption DEF EndsNow
  <2> QED BY <2>1, <2>2
<1>7. NetworkNow' = IF known THEN sample ELSE None
  BY <1>5 DEF NetworkNow
<1>8. /\ networkSamples' \in Seq(0..MaxSample) /\ Len(networkSamples') <= MaxSamples
      /\ EndsNow(networkSamples', NetworkNow')
  <2>1. CASE ~known BY <1>1, <1>7, <2>1 DEF TypeOK, HistoryInv, EndsNow
  <2>2. CASE known
    <3>1. sample \in 0..MaxSample
      <4>1. send + receive \in Nat /\ MaxSample \in Nat
        BY <1>3, <2>2, CollectorAssumption
      <4> QED BY <4>1 DEF Smaller
    <3>2. networkSamples \in Seq(0..MaxSample) /\ MaxSample \in Nat
      BY CollectorAssumption DEF TypeOK
    <3>3. networkSamples' = AddSample(networkSamples, sample) /\ NetworkNow' = sample
      BY <1>1, <1>7, <2>2
    <3> HIDE DEF sample
    <3>4. /\ networkSamples' \in Seq(0..MaxSample)
          /\ Len(networkSamples') \in 1..MaxSamples
          /\ networkSamples'[Len(networkSamples')] = sample
      BY <3>1, <3>2, <3>3, AddSampleFacts
    <3>5. networkSamples' # <<>> BY <3>4
    <3> QED BY <3>3, <3>4, <3>5, CollectorAssumption DEF EndsNow
  <2> QED BY <2>1, <2>2
<1>9. HistoryInv' BY <1>6, <1>8 DEF HistoryInv
<1> QED BY <1>4, <1>5, <1>6, <1>8, <1>9

(* Every step keeps it.                                                     *)
LEMMA NextIInv == IInv /\ [Next]_vars => IInv'
<1> SUFFICES ASSUME IInv, [Next]_vars PROVE IInv' OBVIOUS
<1> USE DEF IInv
<1>1. CASE \E r \in Reading, w \in {"snapshot", "metrics"} : Begin(r, w)
  <2> PICK r \in Reading, w \in {"snapshot", "metrics"} : Begin(r, w) BY <1>1
  <2>1. NoMetrics \in [cpu : (0..100) \cup {None}, send : Nat \cup {None},
                       receive : Nat \cup {None}]
    BY DEF NoMetrics
  <2>2. TypeOK'
    <3>1. <<>> \in Seq(Row) OBVIOUS
    <3> QED BY <2>1, <3>1 DEF TypeOK, Begin
  <2>3. HistoryInv' BY DEF HistoryInv, Begin
  <2>4. CurrentInv' BY DEF CurrentInv, Begin
  <2>5. ErrorsInv' BY DEF ErrorsInv, Begin
  <2>6. RowInv' BY DEF RowInv, Begin
  <2>7. FollowsInv' BY DEF FollowsInv, Begin
  <2> QED BY <2>2, <2>3, <2>4, <2>5, <2>6, <2>7
<1>2. CASE TimeOut
  <2>1. TypeOK'
    <3>1. NoReading \in Reading BY DEF NoReading, Reading
    <3> QED BY <1>2, <3>1 DEF TypeOK, TimeOut
  <2>2. HistoryInv' BY <1>2 DEF HistoryInv, TimeOut
  <2>3. CurrentInv' BY <1>2 DEF CurrentInv, TimeOut
  <2>4. ErrorsInv' BY <1>2 DEF ErrorsInv, TimeOut
  <2>5. RowInv' BY <1>2 DEF RowInv, TimeOut
  <2>6. FollowsInv' BY <1>2 DEF FollowsInv, TimeOut
  <2> QED BY <2>1, <2>2, <2>3, <2>4, <2>5, <2>6
<1>3. CASE ReadAgain
  <2>1. TypeOK' BY <1>3 DEF TypeOK, ReadAgain, Follows
  <2>2. HistoryInv' BY <1>3 DEF HistoryInv, ReadAgain
  <2>3. CurrentInv' BY <1>3 DEF CurrentInv, ErrorsInv, ReadAgain
  <2>4. ErrorsInv' BY <1>3 DEF ErrorsInv, ReadAgain
  <2>5. RowInv' BY <1>3 DEF RowInv, ReadAgain
  <2>6. FollowsInv'
    <3>1. before' = before /\ after' \in Follows(before) BY <1>3 DEF ReadAgain
    <3> QED BY <3>1 DEF FollowsInv
  <2> QED BY <2>1, <2>2, <2>3, <2>4, <2>5, <2>6
<1>4. CASE BuildMetrics
  <2>1. /\ metrics' \in [cpu : (0..100) \cup {None}, send : Nat \cup {None},
                         receive : Nat \cup {None}]
        /\ cpuSamples' \in Seq(0..100) /\ networkSamples' \in Seq(0..MaxSample)
        /\ HistoryInv'
        /\ EndsNow(cpuSamples', metrics'.cpu)
        /\ EndsNow(networkSamples', NetworkNow')
    BY <1>4, BuildFacts
  <2>2. /\ pc = "building" /\ outcome = "none" /\ errors = {}
        /\ storage' = storage /\ want' = want
        /\ before' = NoReading /\ after' = NoReading
        /\ \/ pc' = "idle" /\ outcome' = "metrics"
           \/ pc' = "sections" /\ outcome' = "none"
    BY <1>4 DEF BuildMetrics, ErrorsInv
  <2>3. /\ errors' \subseteq {"cpu", "networkMetrics"}
        /\ "cpu" \in errors' <=> metrics'.cpu = None
        /\ "networkMetrics" \in errors' <=> metrics'.send = None \/ metrics'.receive = None
    <3> DEFINE cpu     == CalculateCpuPercent(before.cpu, after.cpu)
               send    == SendRate(NetworkTotals(before.network), NetworkTotals(after.network))
               receive == ReceiveRate(NetworkTotals(before.network), NetworkTotals(after.network))
    <3>1. /\ metrics' = [cpu |-> cpu, send |-> send, receive |-> receive]
          /\ errors' = errors \cup (IF cpu = None THEN {"cpu"} ELSE {})
                \cup (IF ~(send # None /\ receive # None) THEN {"networkMetrics"} ELSE {})
      BY <1>4 DEF BuildMetrics
    <3> HIDE DEF cpu, send, receive
    <3>2. metrics'.cpu = cpu /\ metrics'.send = send /\ metrics'.receive = receive BY <3>1
    <3> QED BY <2>2, <3>1, <3>2
  <2>4. TypeOK'
    <3>1. NoReading \in Reading BY DEF NoReading, Reading
    <3> QED BY <2>1, <2>2, <2>3, <3>1 DEF TypeOK
  <2>5. CurrentInv' BY <2>1 DEF CurrentInv
  <2>6. ErrorsInv' BY <2>2, <2>3 DEF ErrorsInv, MetricsExplained
  <2>7. RowInv' BY <2>2 DEF RowInv
  <2>8. FollowsInv' BY <2>2 DEF FollowsInv
  <2> QED BY <2>1, <2>4, <2>5, <2>6, <2>7, <2>8
<1>5. CASE CollectSections
  <2>1. /\ pc = "sections" /\ pc' = "idle" /\ outcome' = "snapshot" /\ metrics' = metrics
        /\ cpuSamples' = cpuSamples /\ networkSamples' = networkSamples
        /\ want' = want /\ before' = before /\ after' = after
    BY <1>5 DEF CollectSections
  <2>2. /\ storage' \in Seq(Row)
        /\ \A k \in DOMAIN storage' : \E d \in Drives : storage'[k] = RowOf(d)
        /\ errors' = errors \/ (errors' = errors \cup {"storage"} /\ storage' = <<>>)
    <3>1. ASSUME NEW drives \in DriveLists,
                 storage' = [k \in 1..Len(drives) |-> RowOf(drives[k])], errors' = errors
          PROVE  <2>2
      BY <3>1, RowsType
    <3>2. ASSUME storage' = <<>>, errors' = errors \cup {"storage"} PROVE <2>2
      BY <3>2
    <3> QED BY <1>5, <3>1, <3>2 DEF CollectSections
  <2>3. TypeOK' BY <2>1, <2>2 DEF TypeOK
  <2>4. HistoryInv' BY <2>1 DEF HistoryInv
  <2>5. CurrentInv' BY <2>1 DEF CurrentInv, NetworkNow
  <2>6. ErrorsInv' BY <2>1, <2>2 DEF ErrorsInv, MetricsExplained
  <2>7. RowInv' BY <2>2 DEF RowInv
  <2>8. FollowsInv' BY <2>1 DEF FollowsInv
  <2> QED BY <2>3, <2>4, <2>5, <2>6, <2>7, <2>8
<1>6. CASE SectionsThrow
  <2>1. TypeOK' BY <1>6 DEF TypeOK, SectionsThrow
  <2>2. HistoryInv' BY <1>6 DEF HistoryInv, SectionsThrow
  <2>3. CurrentInv' BY <1>6 DEF CurrentInv, SectionsThrow
  <2>4. ErrorsInv' BY <1>6 DEF ErrorsInv, SectionsThrow
  <2>5. RowInv' BY <1>6 DEF RowInv, SectionsThrow
  <2>6. FollowsInv' BY <1>6 DEF FollowsInv, SectionsThrow
  <2> QED BY <2>1, <2>2, <2>3, <2>4, <2>5, <2>6
<1>7. CASE UNCHANGED vars
  BY <1>7 DEF vars, TypeOK, HistoryInv, CurrentInv, NetworkNow, ErrorsInv, MetricsExplained,
              RowInv, FollowsInv
<1> QED BY <1>1, <1>2, <1>3, <1>4, <1>5, <1>6, <1>7 DEF Next

(* The strengthening is an invariant.                                       *)
THEOREM Inductive == Spec => []IInv
BY InitIInv, NextIInv, PTL DEF Spec

(* Every reachable state is of its type: percentages within 0 to 100, rates *)
(* that are natural or null, histories of samples within their clamp.       *)
THEOREM TypeCorrect == Spec => []TypeOK
<1>1. IInv => TypeOK BY DEF IInv
<1> QED BY <1>1, Inductive, PTL

(* The lines of every reply stay in their boxes and end at the value that   *)
(* stands beside them, after any sequence of collections.                   *)
THEOREM LinesEndNowHolds == Spec => []LinesEndNow
<1>1. IInv => LinesEndNow
  <2> SUFFICES ASSUME IInv, outcome \in {"metrics", "snapshot"}
               PROVE  DrawnRight("cpu", cpuSamples, metrics.cpu)
                      /\ DrawnRight("network", networkSamples, NetworkNow)
    BY DEF LinesEndNow, NetworkNow
  <2>1. /\ cpuSamples \in Seq(0..100) /\ networkSamples \in Seq(0..MaxSample)
        /\ metrics.cpu \in (0..100) \cup {None}
        /\ metrics.send \in Nat \cup {None} /\ metrics.receive \in Nat \cup {None}
    BY DEF IInv, TypeOK
  <2>2. NetworkNow \in (0..MaxSample) \cup {None}
    <3>1. MaxSample \in Nat BY CollectorAssumption
    <3>2. CASE metrics.send = None \/ metrics.receive = None BY <3>2 DEF NetworkNow
    <3>3. CASE ~(metrics.send = None \/ metrics.receive = None)
      <4>1. metrics.send + metrics.receive \in Nat BY <2>1, <3>3
      <4>2. Smaller(MaxSample, metrics.send + metrics.receive) \in 0..MaxSample
        BY <3>1, <4>1 DEF Smaller
      <4> QED BY <3>3, <4>2 DEF NetworkNow
    <3> QED BY <3>2, <3>3
  <2>3. /\ Len(cpuSamples) <= MaxSamples /\ Len(networkSamples) <= MaxSamples
        /\ EndsNow(cpuSamples, metrics.cpu) /\ EndsNow(networkSamples, NetworkNow)
    BY DEF IInv, HistoryInv, CurrentInv
  <2>4. "cpu" \in LineKinds /\ "network" \in LineKinds /\ 100 \in Nat BY DEF LineKinds
  <2>5. DrawnRight("cpu", cpuSamples, metrics.cpu)
    BY <2>1, <2>3, <2>4, DrawnRightIfCurrent
  <2>6. DrawnRight("network", networkSamples, NetworkNow)
    BY <2>1, <2>2, <2>3, <2>4, DrawnRightIfCurrent, CollectorAssumption
  <2> QED BY <2>5, <2>6
<1> QED BY <1>1, Inductive, PTL

(* The section errors of a snapshot name what it lacks, and nothing of an   *)
(* earlier collection.                                                      *)
THEOREM ErrorsExplainHolds == Spec => []ErrorsExplain
<1>1. IInv => ErrorsExplain BY DEF IInv, ErrorsInv, MetricsExplained, ErrorsExplain
<1> QED BY <1>1, Inductive, PTL

(* Without a share that reports its capacity, the volumes with a capacity   *)
(* are the page's candidates for the gauge, so the first of each is one.    *)
THEOREM GaugeAgreesWithoutSharesHolds == Spec => []GaugeAgreesWithoutShares
<1>1. IInv => GaugeAgreesWithoutShares
  <2> SUFFICES ASSUME IInv, \A k \in DOMAIN storage : ~(storage[k].network /\ HasCapacity(k)),
                      StoragePercent # None
               PROVE  PrimaryStorage # None /\ StoragePercent = Used(PrimaryStorage)
    BY DEF GaugeAgreesWithoutShares, GaugeIsOneVolume
  <2> DEFINE Shown == {k \in DOMAIN storage :
                         /\ ~storage[k].network /\ storage[k].ready
                         /\ storage[k].total # None /\ storage[k].free # None}
  <2>1. ASSUME NEW k \in DOMAIN storage PROVE HasCapacity(k) <=> k \in Shown
    <3>1. PICK d \in Drives : storage[k] = RowOf(d) BY DEF IInv, RowInv
    <3>2. d.total \in Nat \ {0} /\ d.free \in Nat /\ None \notin Nat
      BY CollectorAssumption DEF Drive
    <3>3. CASE d.state = "ready"
      <4>1. storage[k].total = d.total /\ storage[k].free = d.free /\ storage[k].ready
        BY <3>1, <3>3 DEF RowOf
      <4>2. d.total > 0 /\ d.total # None /\ d.free # None BY <3>2
      <4>3. HasCapacity(k) BY <4>1, <4>2 DEF HasCapacity
      <4> QED BY <4>1, <4>2, <4>3
    <3>4. CASE d.state # "ready"
      <4>1. storage[k].total = None BY <3>1, <3>4 DEF RowOf
      <4> QED BY <4>1 DEF HasCapacity
    <3> QED BY <3>3, <3>4
  <2>2. Measured = Shown BY <2>1 DEF Measured
  <2>3. MeasuredVolume = PrimaryStorage BY <2>2 DEF MeasuredVolume, PrimaryStorage
  <2> QED BY <2>3 DEF StoragePercent
<1> QED BY <1>1, Inductive, PTL

(* Two stable readings: what is counted between them is the difference of   *)
(* the totals, so the rate is never null and is that of the traffic.        *)
THEOREM RatesAreTrafficHolds == Spec => RatesAreTraffic
<1> DEFINE up == IsUp(after.network)
           sent == [i \in Interfaces |-> after.network[i].sent - before.network[i].sent]
           received == [i \in Interfaces |->
                          after.network[i].received - before.network[i].received]
<1>1. ASSUME IInv, pc = "building", Stable, [Next]_vars, ~UNCHANGED vars
      PROVE  /\ metrics'.send = PerSecond * SumFunctionOnSet(sent, up)
             /\ metrics'.receive = PerSecond * SumFunctionOnSet(received, up)
  <2> DEFINE b == before.network
             a == after.network
  <2>1. BuildMetrics BY <1>1 DEF Next, Begin, TimeOut, ReadAgain, CollectSections, SectionsThrow
  <2>2. b \in [Interfaces -> Statistics] /\ a \in [Interfaces -> Statistics]
        /\ b # None /\ a # None /\ IsUp(b) = up
    BY <1>1 DEF IInv, TypeOK, Reading, Stable
  <2>3. \A i \in up : a[i].sent >= b[i].sent /\ a[i].received >= b[i].received
    <3>1. after \in Follows(before) BY <1>1 DEF IInv, FollowsInv
    <3>2. \A i \in Interfaces : b[i].up /\ a[i].up =>
              a[i].sent >= b[i].sent /\ a[i].received >= b[i].received
      BY <2>2, <3>1 DEF Follows
    <3> QED BY <2>2, <3>2 DEF IsUp
  <2>4. \A i \in Interfaces : /\ a[i].sent \in Nat /\ a[i].received \in Nat
                              /\ b[i].sent \in Nat /\ b[i].received \in Nat
    BY <2>2, CollectorAssumption DEF Statistic
  <2>5. up \in SUBSET Interfaces /\ IsFiniteSet(up) BY <2>2, TotalsFacts
  <2>6. /\ SumFunctionOnSet(sent, up) = SentOf(a, up) - SentOf(b, up)
        /\ SumFunctionOnSet(sent, up) >= 0
    <3> DEFINE f == [i \in Interfaces |-> a[i].sent]
               g == [i \in Interfaces |-> b[i].sent]
    <3>1. f \in [Interfaces -> Nat] /\ g \in [Interfaces -> Nat] BY <2>4
    <3>2. sent \in [Interfaces -> Int] BY <2>4
    <3>3. \A i \in up : sent[i] = f[i] - g[i] /\ sent[i] >= 0 BY <2>3, <2>4, <2>5
    <3>4. SentOf(a, up) = SumFunctionOnSet(f, up) /\ SentOf(b, up) = SumFunctionOnSet(g, up)
      BY DEF SentOf
    <3> HIDE DEF f, g, sent, up
    <3> QED BY <2>5, <3>1, <3>2, <3>3, <3>4, SumOfDifferences
  <2>7. /\ SumFunctionOnSet(received, up) = ReceivedOf(a, up) - ReceivedOf(b, up)
        /\ SumFunctionOnSet(received, up) >= 0
    <3> DEFINE f == [i \in Interfaces |-> a[i].received]
               g == [i \in Interfaces |-> b[i].received]
    <3>1. f \in [Interfaces -> Nat] /\ g \in [Interfaces -> Nat] BY <2>4
    <3>2. received \in [Interfaces -> Int] BY <2>4
    <3>3. \A i \in up : received[i] = f[i] - g[i] /\ received[i] >= 0 BY <2>3, <2>4, <2>5
    <3>4. /\ ReceivedOf(a, up) = SumFunctionOnSet(f, up)
          /\ ReceivedOf(b, up) = SumFunctionOnSet(g, up)
      BY DEF ReceivedOf
    <3> HIDE DEF f, g, received, up
    <3> QED BY <2>5, <3>1, <3>2, <3>3, <3>4, SumOfDifferences
  <2>8. /\ NetworkTotals(a) = [sent |-> SentOf(a, up), received |-> ReceivedOf(a, up)]
        /\ NetworkTotals(b) = [sent |-> SentOf(b, up), received |-> ReceivedOf(b, up)]
        /\ SentOf(a, up) \in Nat /\ SentOf(b, up) \in Nat
        /\ ReceivedOf(a, up) \in Nat /\ ReceivedOf(b, up) \in Nat
    BY <2>2, TotalsFacts
  <2>9. /\ NetworkTotals(a) # None /\ NetworkTotals(b) # None
        /\ NetworkTotals(a).sent = SentOf(a, up) /\ NetworkTotals(b).sent = SentOf(b, up)
        /\ NetworkTotals(a).received = ReceivedOf(a, up)
        /\ NetworkTotals(b).received = ReceivedOf(b, up)
    <3>1. NetworkTotals(a) \in Totals /\ NetworkTotals(b) \in Totals
      BY <2>8 DEF Totals
    <3>2. None \notin Totals BY CollectorAssumption
    <3> QED BY <2>8, <3>1, <3>2
  <2>10. /\ metrics'.send = SendRate(NetworkTotals(b), NetworkTotals(a))
         /\ metrics'.receive = ReceiveRate(NetworkTotals(b), NetworkTotals(a))
    BY <2>1 DEF BuildMetrics
  <2>11. /\ metrics'.send = Rate(SentOf(b, up), SentOf(a, up))
         /\ metrics'.receive = Rate(ReceivedOf(b, up), ReceivedOf(a, up))
    BY <2>9, <2>10 DEF SendRate, ReceiveRate
  <2> HIDE DEF up, sent, received
  <2>12. ASSUME NEW m \in Nat, NEW n \in Nat, NEW k, k = n - m, k >= 0
         PROVE  Rate(m, n) = PerSecond * k
    <3>1. PerSecond \in Nat /\ ~(n < m) /\ k \in Nat BY <2>12, CollectorAssumption
    <3>2. (n - m) * PerSecond = PerSecond * k /\ PerSecond * k \in Nat BY <2>12, <3>1
    <3> QED BY <3>1, <3>2 DEF Rate, Larger
  <2> QED BY <2>6, <2>7, <2>8, <2>11, <2>12
<1>2. IInv /\ [Next]_vars =>
        [pc = "building" /\ Stable =>
            LET u == IsUp(after.network)
            IN  /\ metrics'.send = PerSecond * SumFunctionOnSet(
                      [i \in Interfaces |-> after.network[i].sent - before.network[i].sent], u)
                /\ metrics'.receive = PerSecond * SumFunctionOnSet(
                      [i \in Interfaces |->
                         after.network[i].received - before.network[i].received], u)]_vars
  BY <1>1
<1> QED BY <1>2, Inductive, PTL DEF Spec, RatesAreTraffic
=============================================================================
