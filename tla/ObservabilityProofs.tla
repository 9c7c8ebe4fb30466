------------------------ MODULE ObservabilityProofs ------------------------
(***************************************************************************)
(* What the middleware guarantees of the counts, the alerts and their      *)
(* evaluation, for any requests, window, thresholds and custom rules.      *)
(*                                                                         *)
(* The lemmas about the collector alone come from MetricsCollectorProofs.  *)
(***************************************************************************)
EXTENDS Observability, FiniteSetTheorems, SequenceTheorems,
        WellFoundedInduction, TLAPS

USE EvalAssumption, TimeAssumption, ThresholdAssumption, RequestsAssumption,
    CollectorAssumption

Metrics == INSTANCE MetricsCollectorProofs
               WITH Agents <- {"react", "http"},
                    MaxPoints <- 3 * Cardinality(Requests)

AllGood(P, R) == Metrics!AllGood(P, R)

\* The collector's operators are those its lemmas are about.
LEMMA SameOperators ==
    /\ Collector!Series = Metrics!Series
    /\ \A P, s, a, v : Collector!Record(P, s, a, v) = Metrics!Record(P, s, a, v)
    /\ \A P, a, ok :
          Collector!RecordOutcome(P, a, ok) = Metrics!RecordOutcome(P, a, ok)
    /\ \A P, a, ok, v :
          Collector!RecordRun(P, a, ok, v) = Metrics!RecordRun(P, a, ok, v)
    /\ \A P : Collector!TrimAll(P) = Metrics!TrimAll(P)
    /\ \A x : Collector!Remember(x) = Metrics!Remember(x)
  BY DEF Collector!Series, Metrics!Series, Collector!Record, Metrics!Record,
         Collector!RecordOutcome, Metrics!RecordOutcome, Collector!RecordRun,
         Metrics!RecordRun, Collector!TrimAll, Metrics!TrimAll, Collector!Trim,
         Metrics!Trim, Collector!Recent, Metrics!Recent, Collector!Remember,
         Metrics!Remember

LEMMA SameCardinality == \A S : Engine!Cardinality(S) = Cardinality(S)
  BY DEF Engine!Cardinality, Cardinality

LEMMA BoundType == 3 * Cardinality(Requests) \in Nat
  BY FS_CardinalityType

-----------------------------------------------------------------------------
(* Finite sets of numbered things *)

\* Among finitely many things with natural values one has the greatest.
LEMMA GreatestExists ==
    ASSUME NEW S, IsFiniteSet(S), S # {}, NEW f \in [S -> Nat]
    PROVE  \E i \in S : \A j \in S : f[j] <= f[i]
<1> DEFINE Above(i) == {j \in S : f[j] > f[i]}
           T == {Above(i) : i \in S}
<1>1. T \subseteq FiniteSubsetsOf(S) /\ T # {}
  <2>1. FiniteSubsetsOf(S) = SUBSET S
    BY FS_FiniteSubsetsOfFinite
  <2>2. \A i \in S : Above(i) \in SUBSET S
    OBVIOUS
  <2>3. PICK i \in S : TRUE
    OBVIOUS
  <2>4. Above(i) \in T
    OBVIOUS
  <2> HIDE DEF Above
  <2>5. T \subseteq SUBSET S
    BY <2>2
  <2> QED
    BY <2>1, <2>4, <2>5
<1>2. PICK x \in T : \A y \in T : <<y, x>> \notin StrictSubsetOrdering(S)
  BY <1>1, FS_StrictSubsetOrderingWellFounded, WFMin
<1>3. PICK i \in S : x = Above(i)
  OBVIOUS
<1>4. ASSUME NEW j \in S, f[j] > f[i]
      PROVE  FALSE
  <2>1. Above(j) \subseteq Above(i)
    BY <1>4
  <2>2. j \in Above(i) /\ j \notin Above(j)
    BY <1>4
  <2>3. <<Above(j), Above(i)>> \in StrictSubsetOrdering(S)
    BY <2>1, <2>2 DEF StrictSubsetOrdering
  <2>4. Above(j) \in T
    OBVIOUS
  <2> HIDE DEF Above
  <2> QED
    BY <1>2, <1>3, <2>3, <2>4
<1> QED
  BY <1>4

\* And one has the least.
LEMMA LeastExists ==
    ASSUME NEW S, IsFiniteSet(S), S # {}, NEW f \in [S -> Nat]
    PROVE  \E i \in S : \A j \in S : f[i] <= f[j]
<1>1. PICK m \in S : \A j \in S : f[j] <= f[m]
  BY GreatestExists
<1> DEFINE g == [i \in S |-> f[m] - f[i]]
<1>2. g \in [S -> Nat]
  BY <1>1
<1>3. PICK i \in S : \A j \in S : g[j] <= g[i]
  BY <1>2, GreatestExists
<1> QED
  BY <1>3

\* The indices of a sequence that have some property are finitely many.
LEMMA SomeIndices ==
    ASSUME NEW S, NEW s \in Seq(S), NEW I \in SUBSET (DOMAIN s)
    PROVE  /\ IsFiniteSet(I) /\ Cardinality(I) \in Nat
           /\ Cardinality(I) <= Len(s)
           /\ Cardinality(DOMAIN s) = Len(s)
<1>1. DOMAIN s = 1..Len(s) /\ Len(s) \in Nat
  OBVIOUS
<1>2. IsFiniteSet(1..Len(s)) /\ Cardinality(1..Len(s)) = Len(s)
  BY <1>1, FS_Interval
<1> QED
  BY <1>1, <1>2, FS_Subset, FS_CardinalityType
-----------------------------------------------------------------------------
(* The summary *)

Buffer == Seq(Metrics!Points)

LEMMA PointTypes ==
    ASSUME NEW b \in Buffer, NEW k \in DOMAIN b
    PROVE  b[k].at \in Nat /\ b[k].value \in Nat
<1>1. b[k] \in Metrics!Points
  BY DEF Buffer
<1> QED
  BY <1>1 DEF Metrics!Points

Less(f, v) == {j \in DOMAIN f : f[j] < v}
LessOrEqual(f, v) == {j \in DOMAIN f : f[j] <= v}

\* Sorting finitely many values puts one at each index.
LEMMA ValueAtIndex ==
    ASSUME NEW D, IsFiniteSet(D), NEW f \in [D -> Nat],
           NEW index \in Nat, index < Cardinality(D)
    PROVE  \E k \in D : /\ Cardinality(Less(f, f[k])) <= index
                        /\ index < Cardinality(LessOrEqual(f, f[k]))
<1> USE DEF Less, LessOrEqual
<1> DEFINE Lower(v) == {j \in D : f[j] < v}
           UpTo(v) == {j \in D : f[j] <= v}
           K == {k \in D : index < Cardinality(UpTo(f[k]))}
<1>1. \A I \in SUBSET D : IsFiniteSet(I) /\ Cardinality(I) \in Nat
  BY FS_Subset, FS_CardinalityType
<1>2. D # {}
  BY FS_EmptySet
<1>3. K # {}
  <2>1. PICK m \in D : \A j \in D : f[j] <= f[m]
    BY <1>2, GreatestExists
  <2>2. UpTo(f[m]) = D
    BY <2>1
  <2> QED
    BY <2>2
<1>4. PICK k \in K : \A j \in K : f[k] <= f[j]
  <2> DEFINE g == [j \in K |-> f[j]]
  <2>1. g \in [K -> Nat]
    OBVIOUS
  <2>2. IsFiniteSet(K)
    BY <1>1
  <2> HIDE DEF K
  <2>3. PICK i \in K : \A j \in K : g[i] <= g[j]
    BY <1>3, <2>1, <2>2, LeastExists
  <2> QED
    BY <2>3
<1>5. k \in D /\ f[k] \in Nat
  OBVIOUS
<1>6. Cardinality(Lower(f[k])) <= index
  <2> SUFFICES ASSUME ~(Cardinality(Lower(f[k])) <= index) PROVE FALSE
    OBVIOUS
  <2> DEFINE L == Lower(f[k])
             g == [j \in L |-> f[j]]
  <2>1. IsFiniteSet(L) /\ Cardinality(L) \in Nat /\ L \in SUBSET D
    BY <1>1
  <2>2. index < Cardinality(L)
    BY <2>1
  <2>3. L # {}
    <3>1. Cardinality(L) # 0
      BY <2>1, <2>2
    <3> QED
      BY <3>1, FS_EmptySet
  <2>4. \A j \in D : j \in L <=> f[j] < f[k]
    OBVIOUS
  <2> HIDE DEF L
  <2>5. g \in [L -> Nat]
    BY <2>1
  <2>6. PICK m \in L : \A j \in L : g[j] <= g[m]
    BY <2>1, <2>3, <2>5, GreatestExists
  <2>7. /\ m \in D /\ f[m] < f[k] /\ f[m] \in Nat
        /\ \A j \in L : f[j] <= f[m]
    BY <2>1, <2>4, <2>6
  <2>8. UpTo(f[m]) = L
    <3>1. ASSUME NEW j \in D PROVE f[j] <= f[m] <=> j \in L
      <4>1. f[j] \in Nat
        OBVIOUS
      <4> QED
        BY <1>5, <2>4, <2>7, <4>1
    <3> QED
      BY <2>1, <3>1
  <2>9. m \in K
    BY <2>2, <2>7, <2>8
  <2> HIDE DEF K
  <2>10. f[k] <= f[m]
    BY <1>4, <2>9
  <2> QED
    BY <1>5, <2>7, <2>10
<1>7. index < Cardinality(UpTo(f[k]))
  OBVIOUS
<1> QED
  BY <1>5, <1>6, <1>7

\* The value p95_latency reports is one that was recorded: the index is within
\* the buffer, and the sorted buffer has a value there.
LEMMA P95Recorded ==
    ASSUME NEW b \in Buffer, b # <<>>
    PROVE  \E k \in DOMAIN b : P95(b) = b[k].value
<1> DEFINE D == DOMAIN b
           f == [k \in D |-> b[k].value]
           index == (Len(b) * 95) \div 100
           Lower(v) == {k \in DOMAIN b : b[k].value < v}
           UpTo(v) == {k \in DOMAIN b : b[k].value <= v}
           V == {b[k].value : k \in DOMAIN b}
<1>1. Len(b) \in Nat /\ Len(b) > 0
  BY DEF Buffer
<1>2. index \in Nat /\ index < Len(b)
  BY <1>1
<1>3. IsFiniteSet(D) /\ Cardinality(D) = Len(b)
  BY SomeIndices DEF Buffer
<1>4. f \in [D -> Nat]
  BY PointTypes
<1>5. P95(b) = CHOOSE v \in V : /\ Cardinality(Lower(v)) <= index
                                /\ index < Cardinality(UpTo(v))
  BY DEF P95
<1>6. \A k \in D : /\ f[k] = b[k].value
                   /\ Lower(f[k]) = Less(f, f[k])
                   /\ UpTo(f[k]) = LessOrEqual(f, f[k])
  BY DEF Less, LessOrEqual
<1> HIDE DEF index, f, Lower, UpTo
<1>7. \E k \in D : /\ Cardinality(Less(f, f[k])) <= index
                   /\ index < Cardinality(LessOrEqual(f, f[k]))
  <2>1. index < Cardinality(D)
    BY <1>2, <1>3
  <2> HIDE DEF D
  <2> QED
    BY <1>2, <1>3, <1>4, <2>1, ValueAtIndex
<1>8. PICK k \in D : /\ Cardinality(Lower(f[k])) <= index
                     /\ index < Cardinality(UpTo(f[k]))
  BY <1>6, <1>7
<1>9. f[k] \in V
  BY <1>6
<1>10. P95(b) \in V
  BY <1>5, <1>8, <1>9
<1> QED
  BY <1>10
-----------------------------------------------------------------------------
(* What an alert rests on *)

\* What the clock shows of a history.
Seen(r) == {k \in DOMAIN r : \E j \in 1..k : Metrics!Recent(r[j])}

\* The history R has what an alert of this name needs now.
Rests(name, R) ==
    /\ name = "high_failure_rate" =>
          \E k \in Seen(R["failure"]) : Metrics!Recent(R["failure"][k])
    /\ name = "cost_spike" =>
          Cardinality(Seen(R["cost"])) * RunCost > CostLimit
    /\ name = "high_latency" =>
          \E k \in Seen(R["latency"]) : R["latency"][k].value > SlowMs

History == [Metrics!Series -> Buffer]

\* R2 has everything R has, in its place.
Extends(R2, R) ==
    \A s \in Metrics!Series :
        \A k \in DOMAIN R[s] : k \in DOMAIN R2[s] /\ R2[s][k] = R[s][k]

LEMMA ExtendsTransitive ==
    ASSUME NEW R1, NEW R2, NEW R3, Extends(R2, R1), Extends(R3, R2)
    PROVE  Extends(R3, R1)
  BY DEF Extends

\* More records do not take the ground from an alert.
LEMMA RestsOnMore ==
    ASSUME NEW R \in History, NEW R2 \in History, Extends(R2, R),
           NEW name, Rests(name, R)
    PROVE  Rests(name, R2)
<1>1. {"latency", "cost", "failure"} \subseteq Metrics!Series
  BY DEF Metrics!Series
<1>2. ASSUME NEW s \in Metrics!Series, NEW k \in Seen(R[s])
      PROVE  k \in Seen(R2[s]) /\ R2[s][k] = R[s][k]
  <2>1. k \in DOMAIN R[s] /\ k \in DOMAIN R2[s] /\ R2[s][k] = R[s][k]
    BY <1>2 DEF Extends, Seen
  <2>2. PICK j \in 1..k : Metrics!Recent(R[s][j])
    BY <1>2 DEF Seen
  <2>3. DOMAIN R[s] = 1..Len(R[s]) /\ Len(R[s]) \in Nat
    BY DEF History, Buffer
  <2>4. j \in DOMAIN R[s]
    BY <2>1, <2>3
  <2>5. R2[s][j] = R[s][j]
    BY <2>4 DEF Extends
  <2> QED
    BY <2>1, <2>2, <2>5 DEF Seen
<1>3. \A s \in Metrics!Series : Seen(R[s]) \subseteq Seen(R2[s])
  BY <1>2
<1>4. name = "high_failure_rate" =>
         \E k \in Seen(R2["failure"]) : Metrics!Recent(R2["failure"][k])
  BY <1>1, <1>2 DEF Rests
<1>5. name = "high_latency" =>
         \E k \in Seen(R2["latency"]) : R2["latency"][k].value > SlowMs
  BY <1>1, <1>2 DEF Rests
<1>6. name = "cost_spike" =>
         Cardinality(Seen(R2["cost"])) * RunCost > CostLimit
  <2> DEFINE S == Seen(R["cost"])
             S2 == Seen(R2["cost"])
  <2>1. /\ S \in SUBSET (DOMAIN R["cost"]) /\ S2 \in SUBSET (DOMAIN R2["cost"])
        /\ R["cost"] \in Seq(Metrics!Points)
        /\ R2["cost"] \in Seq(Metrics!Points)
    BY <1>1 DEF Seen, History, Buffer
  <2>2. S \subseteq S2
    BY <1>1, <1>3
  <2> HIDE DEF S, S2
  <2>3. IsFiniteSet(S2) /\ Cardinality(S) \in Nat /\ Cardinality(S2) \in Nat
    BY <2>1, SomeIndices
  <2>4. Cardinality(S) <= Cardinality(S2)
    BY <2>2, <2>3, FS_Subset
  <2>5. ASSUME NEW m \in Nat, NEW n \in Nat, NEW c \in Nat, m <= n
        PROVE  m * c <= n * c
    BY <2>5
  <2>6. Cardinality(S) * RunCost <= Cardinality(S2) * RunCost
    BY <2>3, <2>4, <2>5
  <2>7. Cardinality(S) * RunCost \in Nat /\ Cardinality(S2) * RunCost \in Nat
    BY <2>3
  <2>8. name = "cost_spike" => Cardinality(S) * RunCost > CostLimit
    BY DEF Rests, S
  <2> HIDE DEF Rests
  <2>9. name = "cost_spike" => Cardinality(S2) * RunCost > CostLimit
    BY <2>6, <2>7, <2>8
  <2> QED
    BY <2>9 DEF S2
<1> QED
  BY <1>4, <1>5, <1>6 DEF Rests

\* The buffer b is the end of the history r, shown by the clock.
Within(b, r) ==
    /\ b \in Buffer /\ r \in Buffer /\ Len(r) - Len(b) \in Nat
    /\ b # <<>> => Metrics!Recent(r[(Len(r) - Len(b)) + 1])
    /\ \A k \in 1..Len(b) : /\ (Len(r) - Len(b)) + k \in Seen(r)
                            /\ b[k] = r[(Len(r) - Len(b)) + k]

\* The times the trims are about.
ClockType == now \in Nat /\ latest \in Nat /\ now <= latest

\* What a trimmed buffer holds is shown by the clock.
LEMMA TrimmedSeen ==
    ASSUME ClockType, NEW P, NEW R, AllGood(P, R), NEW s \in Metrics!Series
    PROVE  Within(Metrics!TrimAll(P)[s], R[s])
<1> DEFINE b == Metrics!Trim(P[s])
           r == R[s]
           cut == Len(r) - Len(b)
<1>1. Metrics!TrimAll(P)[s] = b
  BY DEF Metrics!TrimAll
<1>2. Metrics!Good(P[s], r)
  BY DEF AllGood, Metrics!AllGood
<1> HIDE DEF r
<1>3. Metrics!Good(b, r) /\ (b # <<>> => Metrics!Recent(r[cut + 1]))
  BY <1>2, BoundType, Metrics!TrimKeeps DEF ClockType
<1> HIDE DEF b
<1>4. /\ b \in Buffer /\ r \in Buffer /\ Len(b) <= Len(r)
      /\ Len(b) \in Nat /\ Len(r) \in Nat /\ DOMAIN r = 1..Len(r)
      /\ \A k \in 1..Len(b) : b[k] = r[cut + k]
  BY <1>3 DEF Metrics!Good, Buffer
<1>5. cut \in Nat
  BY <1>4
<1>6. ASSUME NEW k \in 1..Len(b) PROVE cut + k \in Seen(r)
  <2>1. cut + k \in 1..Len(r) /\ cut + 1 \in 1..(cut + k)
    BY <1>4, <1>5
  <2>2. b # <<>>
    BY <1>4
  <2>3. Metrics!Recent(r[cut + 1])
    BY <1>3, <2>2
  <2> HIDE DEF cut
  <2> QED
    BY <1>4, <2>1, <2>3 DEF Seen
<1> QED
  BY <1>1, <1>3, <1>4, <1>5, <1>6 DEF r, Within

\* A default rule whose check holds on the trimmed buffers has its grounds.
LEMMA HoldsRests ==
    ASSUME ClockType, NEW P, NEW R, AllGood(P, R), NEW snaps,
           NEW name \in Holds(Metrics!TrimAll(P), snaps)
    PROVE  Rests(name, R)
<1> DEFINE T == Metrics!TrimAll(P)
<1>1. {"latency", "cost", "failure", "success"} \subseteq Metrics!Series
  BY DEF Metrics!Series
<1>2. \A s \in Metrics!Series : Within(T[s], R[s])
  BY TrimmedSeen
<1> HIDE DEF T
<1>3. \A s \in Metrics!Series : DOMAIN T[s] = 1..Len(T[s]) /\ Len(T[s]) \in Nat
  BY <1>2 DEF Within, Buffer
<1>4. name \in Holds(T, snaps)
  BY DEF T
<1>5. ASSUME name = "high_failure_rate"
      PROVE  \E k \in Seen(R["failure"]) : Metrics!Recent(R["failure"][k])
  <2>1. BelowEighty(Len(T["success"]), Len(T["failure"]))
    BY <1>4, <1>5 DEF Holds
  <2>2. Len(T["success"]) \in Nat /\ Len(T["failure"]) \in Nat
    BY <1>1, <1>3
  <2>3. \A ok, bad \in Nat : BelowEighty(ok, bad) => 1 \in 1..bad
    BY DEF BelowEighty
  <2>4. 1 \in 1..Len(T["failure"])
    BY <2>1, <2>2, <2>3
  <2>5. T["failure"] # <<>>
    BY <2>2, <2>4
  <2> DEFINE k == (Len(R["failure"]) - Len(T["failure"])) + 1
  <2>6. Within(T["failure"], R["failure"])
    BY <1>1, <1>2
  <2>7. k \in Seen(R["failure"]) /\ Metrics!Recent(R["failure"][k])
    BY <2>4, <2>5, <2>6 DEF Within
  <2> QED
    BY <2>7
<1>6. ASSUME name = "high_latency"
      PROVE  \E k \in Seen(R["latency"]) : R["latency"][k].value > SlowMs
  <2>1. P95(T["latency"]) > SlowMs
    BY <1>4, <1>6 DEF Holds
  <2>2. T["latency"] # <<>>
    <3>1. P95(<<>>) = 0
      BY DEF P95
    <3> QED
      BY <2>1, <3>1
  <2>3. PICK k \in DOMAIN T["latency"] : P95(T["latency"]) = T["latency"][k].value
    BY <1>1, <1>2, <2>2, P95Recorded DEF Within
  <2>4. k \in 1..Len(T["latency"])
    BY <1>1, <1>3
  <2> DEFINE j == (Len(R["latency"]) - Len(T["latency"])) + k
  <2>5. j \in Seen(R["latency"]) /\ T["latency"][k] = R["latency"][j]
    BY <1>1, <1>2, <2>4 DEF Within
  <2> HIDE DEF j
  <2> QED
    BY <2>1, <2>3, <2>5
<1>7. ASSUME name = "cost_spike"
      PROVE  Cardinality(Seen(R["cost"])) * RunCost > CostLimit
  <2> DEFINE n == Len(T["cost"])
             cut == Len(R["cost"]) - n
             S == Seen(R["cost"])
  <2>1. n * RunCost > CostLimit
    BY <1>4, <1>7 DEF Holds
  <2>2. n \in Nat /\ cut \in Nat /\ R["cost"] \in Seq(Metrics!Points)
    BY <1>1, <1>2, <1>3 DEF Within, Buffer
  <2>3. \A k \in 1..n : cut + k \in S
    BY <1>1, <1>2 DEF Within
  <2>4. S \in SUBSET (DOMAIN R["cost"])
    BY DEF Seen
  <2>5. IsFiniteSet(S) /\ Cardinality(S) \in Nat
    BY <2>2, <2>4, SomeIndices
  <2> HIDE DEF n, cut, S
  <2>6. (cut + 1)..(cut + n) \subseteq S
    <3> SUFFICES ASSUME NEW j \in (cut + 1)..(cut + n) PROVE j \in S
      OBVIOUS
    <3>1. j - cut \in 1..n /\ cut + (j - cut) = j
      BY <2>2
    <3> QED
      BY <2>3, <3>1
  <2>7. Cardinality((cut + 1)..(cut + n)) = n
    <3>1. cut + 1 \in Int /\ cut + n \in Int
      BY <2>2
    <3>2. Cardinality((cut + 1)..(cut + n)) =
             IF cut + 1 > cut + n THEN 0 ELSE (cut + n) - (cut + 1) + 1
      BY <3>1, FS_Interval
    <3> QED
      BY <2>2, <3>2
  <2>8. n <= Cardinality(S)
    <3> DEFINE I == (cut + 1)..(cut + n)
    <3>1. I \in SUBSET S /\ Cardinality(I) = n
      BY <2>6, <2>7
    <3> HIDE DEF I
    <3> QED
      BY <2>5, <3>1, FS_Subset
  <2>9. ASSUME NEW a \in Nat, NEW b \in Nat, NEW c \in Nat, a <= b
        PROVE  a * c <= b * c
    BY <2>9
  <2>10. n * RunCost <= Cardinality(S) * RunCost
    BY <2>2, <2>5, <2>8, <2>9
  <2>11. n * RunCost \in Nat /\ Cardinality(S) * RunCost \in Nat
    BY <2>2, <2>5
  <2>12. Cardinality(S) * RunCost > CostLimit
    BY <2>1, <2>10, <2>11
  <2> QED
    BY <2>12 DEF S
<1> QED
  BY <1>5, <1>6, <1>7 DEF Rests
-----------------------------------------------------------------------------
(* The counts *)

Http(r) == {k \in DOMAIN r : r[k].agent = "http"}

OutcomesOf(R) == Cardinality(Http(R["success"])) + Cardinality(Http(R["failure"]))

LEMMA HttpAppend ==
    ASSUME NEW r \in Buffer, NEW p \in Metrics!Points
    PROVE  /\ Cardinality(Http(r)) \in Nat
           /\ Cardinality(Http(Append(r, p))) =
                 Cardinality(Http(r)) + IF p.agent = "http" THEN 1 ELSE 0
<1> DEFINE q == Append(r, p)
           n == Len(r)
<1>1. /\ n \in Nat /\ DOMAIN r = 1..n /\ DOMAIN q = 1..(n + 1)
      /\ q[n + 1] = p /\ \A k \in 1..n : q[k] = r[k]
  BY DEF Buffer
<1>2. Http(r) \in SUBSET (DOMAIN r)
  BY DEF Http
<1>3. IsFiniteSet(Http(r)) /\ Cardinality(Http(r)) \in Nat
  BY <1>2, SomeIndices DEF Buffer
<1> HIDE DEF q, n
<1>4. CASE p.agent = "http"
  <2>1. Http(q) = Http(r) \cup {n + 1}
    BY <1>1, <1>4 DEF Http
  <2>2. n + 1 \notin Http(r)
    BY <1>1, <1>2
  <2>3. \A x : x \notin Http(r) =>
             Cardinality(Http(r) \cup {x}) = Cardinality(Http(r)) + 1
    BY <1>3, FS_AddElement
  <2> QED
    BY <1>3, <1>4, <2>1, <2>2, <2>3 DEF q
<1>5. CASE p.agent # "http"
  <2>1. Http(q) = Http(r)
    BY <1>1, <1>5 DEF Http
  <2> QED
    BY <1>3, <1>5, <2>1 DEF q
<1> QED
  BY <1>4, <1>5

\* Recording one point keeps what was recorded, and counts only an outcome of
\* a request.
LEMMA RecordCounts ==
    ASSUME now \in Nat, NEW R \in History, NEW s \in Metrics!Series,
           NEW a \in {"react", "http"}, NEW v \in Nat
    PROVE  /\ Metrics!Record(R, s, a, v) \in History
           /\ Extends(Metrics!Record(R, s, a, v), R)
           /\ OutcomesOf(R) \in Nat
           /\ OutcomesOf(Metrics!Record(R, s, a, v)) = OutcomesOf(R)
                 + IF a = "http" /\ s \in {"success", "failure"} THEN 1 ELSE 0
<1> DEFINE p == [at |-> now, agent |-> a, value |-> v]
           R2 == Metrics!Record(R, s, a, v)
<1>1. p \in Metrics!Points /\ p.agent = a
  BY DEF Metrics!Points
<1> HIDE DEF p
<1>2. R2 = [R EXCEPT ![s] = Append(R[s], p)]
  BY DEF Metrics!Record, p
<1>3. \A z \in Metrics!Series : R[z] \in Buffer
  BY DEF History
<1>4. /\ Append(R[s], p) \in Buffer
      /\ \A k \in DOMAIN R[s] : /\ k \in DOMAIN Append(R[s], p)
                                /\ Append(R[s], p)[k] = R[s][k]
  BY <1>1, <1>3 DEF Buffer
<1>5. /\ DOMAIN R2 = Metrics!Series /\ R2[s] = Append(R[s], p)
      /\ \A z \in Metrics!Series \ {s} : R2[z] = R[z]
  BY <1>2 DEF History
<1>6. R2 \in History
  BY <1>2, <1>4 DEF History
<1>7. Extends(R2, R)
  BY <1>4, <1>5 DEF Extends
<1>8. \A z \in Metrics!Series :
         /\ Cardinality(Http(R[z])) \in Nat
         /\ Cardinality(Http(R2[z])) = Cardinality(Http(R[z]))
               + IF a = "http" /\ z = s THEN 1 ELSE 0
  <2> TAKE z \in Metrics!Series
  <2>1. /\ Cardinality(Http(R[z])) \in Nat
        /\ Cardinality(Http(Append(R[z], p))) =
              Cardinality(Http(R[z])) + IF a = "http" THEN 1 ELSE 0
    BY <1>1, <1>3, HttpAppend
  <2>2. CASE z = s
    BY <1>5, <2>1, <2>2
  <2>3. CASE z # s
    BY <1>5, <2>1, <2>3
  <2> QED
    BY <2>2, <2>3
<1>9. "success" \in Metrics!Series /\ "failure" \in Metrics!Series
  BY DEF Metrics!Series
<1>10. s = "success" => s # "failure"
  OBVIOUS
<1> HIDE DEF R2
<1>11. /\ OutcomesOf(R) \in Nat
       /\ OutcomesOf(R2) = OutcomesOf(R)
             + IF a = "http" /\ s \in {"success", "failure"} THEN 1 ELSE 0
  BY <1>8, <1>9, <1>10 DEF OutcomesOf
<1> QED
  BY <1>6, <1>7, <1>11 DEF R2

\* One outcome of a request counts one.
LEMMA OutcomeCounts ==
    ASSUME now \in Nat, NEW R \in History, NEW ok \in BOOLEAN
    PROVE  LET R2 == Metrics!RecordOutcome(R, "http", ok)
           IN  /\ R2 \in History /\ Extends(R2, R)
               /\ OutcomesOf(R) \in Nat
               /\ OutcomesOf(R2) = OutcomesOf(R) + 1
<1>1. 1 \in Nat /\ {"success", "failure"} \subseteq Metrics!Series
  BY DEF Metrics!Series
<1>2. \A s \in {"success", "failure"} :
         LET R2 == Metrics!Record(R, s, "http", 1)
         IN  /\ R2 \in History /\ Extends(R2, R)
             /\ OutcomesOf(R) \in Nat
             /\ OutcomesOf(R2) = OutcomesOf(R) + 1
  BY <1>1, RecordCounts
<1>3. Metrics!RecordOutcome(R, "http", ok) =
         Metrics!Record(R, IF ok THEN "success" ELSE "failure", "http", 1)
  BY DEF Metrics!RecordOutcome
<1> QED
  BY <1>2, <1>3

\* The points of an execution are none of a request.
LEMMA RunCounts ==
    ASSUME now \in Nat, NEW R \in History, NEW ok \in BOOLEAN
    PROVE  LET R2 == Metrics!RecordRun(R, "react", ok, 100)
           IN  /\ R2 \in History /\ Extends(R2, R)
               /\ OutcomesOf(R2) = OutcomesOf(R)
<1> DEFINE A == Metrics!Record(R, "latency", "react", 100)
           B == Metrics!Record(A, "cost", "react", RunCost)
           s == IF ok THEN "success" ELSE "failure"
           C == Metrics!Record(B, s, "react", 1)
<1>1. /\ 1 \in Nat /\ 100 \in Nat /\ RunCost \in Nat
      /\ "latency" \in Metrics!Series /\ "cost" \in Metrics!Series
      /\ s \in Metrics!Series
  BY DEF Metrics!Series
<1>2. Metrics!RecordRun(R, "react", ok, 100) = C
  BY DEF Metrics!RecordRun, Metrics!RecordOutcome
<1> HIDE DEF s
<1>3. /\ A \in History /\ Extends(A, R) /\ OutcomesOf(R) \in Nat
      /\ OutcomesOf(A) = OutcomesOf(R) + 0
  BY <1>1, RecordCounts
<1> HIDE DEF A
<1>4. B \in History /\ Extends(B, A) /\ OutcomesOf(B) = OutcomesOf(A) + 0
  <2>1. \A y \in Metrics!Series, v \in Nat :
           LET R2 == Metrics!Record(A, y, "react", v)
           IN  /\ R2 \in History /\ Extends(R2, A)
               /\ OutcomesOf(R2) = OutcomesOf(A) + 0
    BY <1>3, RecordCounts
  <2> QED
    BY <1>1, <2>1
<1> HIDE DEF B
<1>5. C \in History /\ Extends(C, B) /\ OutcomesOf(C) = OutcomesOf(B) + 0
  <2>1. \A y \in Metrics!Series, v \in Nat :
           LET R2 == Metrics!Record(B, y, "react", v)
           IN  /\ R2 \in History /\ Extends(R2, B)
               /\ OutcomesOf(R2) = OutcomesOf(B) + 0
    BY <1>4, RecordCounts
  <2> QED
    BY <1>1, <2>1
<1> HIDE DEF C
<1>6. Extends(C, R)
  BY <1>3, <1>4, <1>5, ExtendsTransitive
<1> QED
  BY <1>2, <1>3, <1>4, <1>5, <1>6

Places == {"idle", "calling", "answered", "raised", "done", "spoiled", "refused"}

Among(f, how) == Cardinality({q \in Requests : f[q] = how})

\* A request that comes to its end is counted there, and nowhere else before.
LEMMA Moved ==
    ASSUME NEW f \in [Requests -> Places]
    PROVE  \A q \in Requests : \A to, how \in Places :
              f[q] # how =>
                 Among([f EXCEPT ![q] = to], how) =
                    Among(f, how) + IF to = how THEN 1 ELSE 0
<1> SUFFICES ASSUME NEW q \in Requests, NEW to \in Places, NEW how \in Places,
                    f[q] # how
             PROVE  Among([f EXCEPT ![q] = to], how) =
                       Among(f, how) + IF to = how THEN 1 ELSE 0
  OBVIOUS
<1> DEFINE S == {r \in Requests : f[r] = how}
           g == [f EXCEPT ![q] = to]
           S2 == {r \in Requests : g[r] = how}
<1>1. S \in SUBSET Requests /\ q \notin S
  OBVIOUS
<1>2. IsFiniteSet(S) /\ Cardinality(S) \in Nat
  BY <1>1, FS_Subset, FS_CardinalityType
<1>3. S2 = IF to = how THEN S \cup {q} ELSE S
  OBVIOUS
<1>4. Among(f, how) = Cardinality(S) /\ Among(g, how) = Cardinality(S2)
  BY DEF Among
<1> HIDE DEF S, S2, g
<1>5. CASE to = how
  <2>1. Cardinality(S \cup {q}) = Cardinality(S) + 1
    BY <1>1, <1>2, FS_AddElement
  <2> QED
    BY <1>2, <1>3, <1>4, <1>5, <2>1 DEF g
<1>6. CASE to # how
  BY <1>2, <1>3, <1>4, <1>6 DEF g
<1> QED
  BY <1>5, <1>6
-----------------------------------------------------------------------------
(* The invariant *)

FiredAlerts == [rule : {AllRules[k] : k \in DOMAIN AllRules}, at : Nat,
                status : {"firing"}]

TypesInv ==
    /\ ClockType
    /\ snapshots \in Seq(Snapshots) /\ Len(snapshots) <= MaxSnapshots
    /\ AllGood(points, recorded)
    /\ rules = AllRules
    /\ alerts \in Seq(FiredAlerts)
    /\ pc \in [Requests -> Places]
    /\ response \in [Requests -> {"none", "ok", "error"}]
    /\ sinceEval \in Nat /\ disturbed \subseteq {"overlap", "lost"}

\* Without a disturbance at most one request is in flight, and the executions
\* since the last evaluation are the remainder the count leaves, or this
\* remainder is 0 and the request that will see it is on its way.
Periodic ==
    disturbed = {} =>
        /\ \A q, r \in Requests : InFlight(q) /\ InFlight(r) => q = r
        /\ \/ sinceEval = Len(snapshots) % EvalEvery
           \/ TimeToEvaluate /\ \E q \in Requests : pc[q] = "answered"

ServiceInv == TypesInv /\ OutcomeRecorded /\ Periodic

LEMMA RulesType == AllRules \in Seq({AllRules[k] : k \in DOMAIN AllRules})
<1> DEFINE rule(n) == [name |-> n, cooldown |-> Cooldown, formats |-> TRUE]
           C == {CustomRules[k] : k \in DOMAIN CustomRules}
           D == {rule("excessive_loops"), rule("high_failure_rate"),
                 rule("high_latency"), rule("cost_spike"), rule("no_heartbeat")}
<1>1. DefaultRules \in Seq(D)
  BY DEF DefaultRules
<1>2. CustomRules \in Seq(C)
  BY RulesAssumption
<1> HIDE DEF C, D
<1>3. DefaultRules \in Seq(C \cup D) /\ CustomRules \in Seq(C \cup D)
  BY <1>1, <1>2
<1>4. AllRules \in Seq(C \cup D)
  BY <1>3, ConcatProperties DEF AllRules
<1> QED
  BY <1>4

LEMMA InitInv == Init => ServiceInv
<1> SUFFICES ASSUME Init PROVE ServiceInv
  OBVIOUS
<1>1. /\ ClockType /\ snapshots = <<>> /\ rules = AllRules /\ alerts = <<>>
      /\ pc = [q \in Requests |-> "idle"] /\ response = [q \in Requests |-> "none"]
      /\ sinceEval = 0 /\ disturbed = {}
      /\ points = [s \in Metrics!Series |-> <<>>] /\ recorded = points
  BY SameOperators DEF Init, Engine!InitEngine, ClockType
<1>2. Metrics!Good(<<>>, <<>>)
  BY DEF Metrics!Good
<1>3. AllGood(points, recorded)
  BY <1>1, <1>2 DEF AllGood, Metrics!AllGood
<1>4. TypesInv
  <2>1. snapshots \in Seq(Snapshots) /\ Len(snapshots) <= MaxSnapshots
    BY <1>1
  <2>2. alerts \in Seq(FiredAlerts)
    BY <1>1
  <2>3. /\ pc \in [Requests -> Places]
        /\ response \in [Requests -> {"none", "ok", "error"}]
    BY <1>1 DEF Places
  <2> QED
    BY <1>1, <1>3, <2>1, <2>2, <2>3 DEF TypesInv
<1>5. OutcomeRecorded
  <2>1. Http(<<>>) = {}
    BY DEF Http
  <2>2. Outcomes = OutcomesOf(recorded)
    BY DEF Outcomes, OutcomesOf, Http
  <2>3. "success" \in Metrics!Series /\ "failure" \in Metrics!Series
    BY DEF Metrics!Series
  <2>4. recorded["success"] = <<>> /\ recorded["failure"] = <<>>
    BY <1>1, <2>3
  <2>5. Cardinality({}) = 0
    BY FS_EmptySet
  <2>6. OutcomesOf(recorded) = 0
    <3>1. Cardinality(Http(<<>>)) = 0
      BY <2>1, <2>5
    <3>2. OutcomesOf(recorded) = Cardinality(Http(<<>>)) + Cardinality(Http(<<>>))
      BY <2>4 DEF OutcomesOf
    <3> QED
      BY <3>1, <3>2
  <2>7. Over("done") = 0 /\ Over("spoiled") = 0
    BY <1>1, <2>5 DEF Over
  <2> QED
    BY <2>2, <2>6, <2>7 DEF OutcomeRecorded
<1>6. Periodic
  BY <1>1 DEF Periodic, InFlight
<1> QED
  BY <1>4, <1>5, <1>6 DEF ServiceInv

\* While the clock stands the condition on the buffers is one on the pair of
\* them.
LEMMA GoodPrimed ==
    ASSUME latest' = latest, AllGood(points', recorded')
    PROVE  AllGood(points, recorded)'
  BY DEF AllGood, Metrics!AllGood, Metrics!Good, Metrics!FellOut

LEMMA GoodHistory ==
    ASSUME NEW P, NEW R, AllGood(P, R)
    PROVE  R \in History
  BY DEF AllGood, Metrics!AllGood, History, Buffer

\* What dispatch records of a request: its latency and its outcome.
LEMMA RequestRecords ==
    ASSUME now \in Nat, NEW P, NEW R, AllGood(P, R), NEW ok \in BOOLEAN,
           NEW ms \in Latencies
    PROVE  LET Two(Q) == Collector!RecordOutcome(
                             Collector!Record(Q, "latency", "http", ms),
                             "http", ok)
           IN  /\ AllGood(Two(P), Two(R))
               /\ Two(R) \in History /\ Extends(Two(R), R)
               /\ OutcomesOf(Two(R)) = OutcomesOf(R) + 1
<1> DEFINE P1 == Metrics!Record(P, "latency", "http", ms)
           R1 == Metrics!Record(R, "latency", "http", ms)
           P2 == Metrics!RecordOutcome(P1, "http", ok)
           R2 == Metrics!RecordOutcome(R1, "http", ok)
<1>1. "latency" \in Metrics!Series /\ ms \in Nat /\ R \in History
  BY GoodHistory DEF Metrics!Series
<1>2. /\ P2 = Collector!RecordOutcome(
                  Collector!Record(P, "latency", "http", ms), "http", ok)
      /\ R2 = Collector!RecordOutcome(
                  Collector!Record(R, "latency", "http", ms), "http", ok)
  BY SameOperators
<1>3. AllGood(P1, R1)
  BY <1>1, BoundType, Metrics!RecordKeeps DEF AllGood
<1>4. /\ R1 \in History /\ Extends(R1, R) /\ OutcomesOf(R) \in Nat
      /\ OutcomesOf(R1) = OutcomesOf(R) + 0
  BY <1>1, RecordCounts
<1> HIDE DEF P1, R1
<1>5. AllGood(P2, R2)
  BY <1>3, BoundType, Metrics!RecordOutcomeKeeps DEF AllGood
<1>6. R2 \in History /\ Extends(R2, R1) /\ OutcomesOf(R2) = OutcomesOf(R1) + 1
  BY <1>4, OutcomeCounts
<1> HIDE DEF P2, R2
<1>7. Extends(R2, R)
  BY <1>4, <1>6, ExtendsTransitive
<1> QED
  BY <1>2, <1>4, <1>5, <1>6, <1>7

\* What its except clause records: a failure.
LEMMA FailureRecords ==
    ASSUME now \in Nat, NEW P, NEW R, AllGood(P, R)
    PROVE  /\ AllGood(Failed(P), Failed(R))
           /\ Failed(R) \in History /\ Extends(Failed(R), R)
           /\ OutcomesOf(Failed(R)) = OutcomesOf(R) + 1
<1>1. R \in History
  BY GoodHistory
<1>2. \A Q : Failed(Q) = Metrics!RecordOutcome(Q, "http", FALSE)
  BY SameOperators DEF Failed
<1>3. AllGood(Failed(P), Failed(R))
  BY <1>2, BoundType, Metrics!RecordOutcomeKeeps DEF AllGood
<1> QED
  BY <1>1, <1>2, <1>3, OutcomeCounts

LEMMA TrimRecords ==
    ASSUME ClockType, NEW P, NEW R, AllGood(P, R)
    PROVE  AllGood(Collector!TrimAll(P), R)
  BY SameOperators, BoundType, Metrics!TrimAllKeeps DEF AllGood, ClockType
-----------------------------------------------------------------------------
(* The steps *)

\* An evaluation adds alerts of rules that hold, at the present time.
LEMMA EvaluateAdds ==
    ASSUME TypesInv, NEW holds, Engine!Evaluate(holds)
    PROVE  /\ rules' = rules /\ now' = now
           /\ alerts' \in Seq(FiredAlerts)
           /\ \A i \in DOMAIN alerts' :
                 \/ i \in DOMAIN alerts /\ alerts'[i] = alerts[i]
                 \/ alerts'[i].rule.name \in holds /\ alerts'[i].at = now
<1> DEFINE reached == Engine!Reached(holds)
           n == Cardinality(reached)
<1>1. /\ rules \in Seq({AllRules[k] : k \in DOMAIN AllRules})
      /\ now \in Nat /\ alerts \in Seq(FiredAlerts)
  BY RulesType DEF TypesInv, ClockType
<1>2. /\ reached \in SUBSET (DOMAIN rules)
      /\ \A k \in reached : rules[k].name \in holds
  BY DEF Engine!Reached
<1>3. n \in Nat
  BY <1>1, <1>2, SomeIndices
<1>4. /\ \E f \in [1..n -> reached] : alerts' = alerts \o Engine!NewAlerts(f)
      /\ rules' = rules /\ now' = now
  BY SameCardinality DEF Engine!Evaluate, Engine!Extend
<1>5. PICK f \in [1..n -> reached] : alerts' = alerts \o Engine!NewAlerts(f)
  BY <1>4
<1> DEFINE new == Engine!NewAlerts(f)
<1> HIDE DEF reached, n
<1>6. new = [i \in 1..n |-> [rule |-> rules[f[i]], at |-> now,
                             status |-> "firing"]]
  BY DEF Engine!NewAlerts
<1>7. \A i \in 1..n : f[i] \in reached /\ f[i] \in DOMAIN rules
  BY <1>2
<1>8. \A i \in 1..n : /\ new[i] \in FiredAlerts
                      /\ new[i].rule.name \in holds /\ new[i].at = now
  <2> TAKE i \in 1..n
  <2>1. rules[f[i]] \in {AllRules[k] : k \in DOMAIN AllRules}
    BY <1>1, <1>7
  <2>2. new[i] = [rule |-> rules[f[i]], at |-> now, status |-> "firing"]
    BY <1>6
  <2>3. rules[f[i]].name \in holds
    BY <1>2, <1>7
  <2> HIDE DEF new
  <2> QED
    BY <1>1, <2>1, <2>2, <2>3 DEF FiredAlerts
<1>9. new \in Seq(FiredAlerts) /\ Len(new) = n
  <2>1. new \in [1..n -> FiredAlerts]
    BY <1>6, <1>8
  <2> HIDE DEF new
  <2> QED
    BY <1>3, <2>1
<1> HIDE DEF new
<1>10. /\ alerts' \in Seq(FiredAlerts)
       /\ DOMAIN alerts' = 1..(Len(alerts) + n)
       /\ \A i \in 1..(Len(alerts) + n) :
             alerts'[i] = IF i <= Len(alerts) THEN alerts[i]
                          ELSE new[i - Len(alerts)]
  BY <1>1, <1>3, <1>5, <1>9 DEF new
<1>11. ASSUME NEW i \in DOMAIN alerts'
       PROVE  \/ i \in DOMAIN alerts /\ alerts'[i] = alerts[i]
              \/ alerts'[i].rule.name \in holds /\ alerts'[i].at = now
  <2>1. Len(alerts) \in Nat /\ DOMAIN alerts = 1..Len(alerts)
    BY <1>1
  <2>2. CASE i <= Len(alerts)
    BY <1>10, <2>1, <2>2
  <2>3. CASE ~(i <= Len(alerts))
    <3>1. i - Len(alerts) \in 1..n /\ alerts'[i] = new[i - Len(alerts)]
      BY <1>3, <1>10, <2>1, <2>3
    <3> QED
      BY <1>8, <3>1
  <2> QED
    BY <2>2, <2>3
<1> QED
  BY <1>4, <1>10, <1>11

\* A request that ends with an answer is counted once, or twice if the
\* evaluation breaks; what fires has its grounds in what is recorded by then.
LEMMA FinishFacts ==
    ASSUME TypesInv, NEW q \in Requests, NEW ms \in Latencies, Finish(q, ms)
    PROVE  /\ pc[q] = "answered"
           /\ UNCHANGED <<now, latest, snapshots, response, disturbed, rules>>
           /\ AllGood(points', recorded')
           /\ recorded' \in History /\ Extends(recorded', recorded)
           /\ \/ /\ pc' = [pc EXCEPT ![q] = "done"]
                 /\ OutcomesOf(recorded') = OutcomesOf(recorded) + 1
              \/ /\ pc' = [pc EXCEPT ![q] = "spoiled"]
                 /\ OutcomesOf(recorded') = OutcomesOf(recorded) + 2
           /\ sinceEval' = IF TimeToEvaluate THEN 0 ELSE sinceEval
           /\ alerts' \in Seq(FiredAlerts)
           /\ \A i \in DOMAIN alerts' :
                 \/ i \in DOMAIN alerts /\ alerts'[i] = alerts[i]
                 \/ Rests(alerts'[i].rule.name, recorded')
<1> DEFINE Two(P) == Collector!RecordOutcome(
                         Collector!Record(P, "latency", "http", ms),
                         "http", response[q] = "ok")
           P2 == Two(points)
           R2 == Two(recorded)
           T == Collector!TrimAll(P2)
           holds == Holds(T, snapshots)
           breaks == TimeToEvaluate /\ EvaluationBreaks(holds)
<1>1. /\ ClockType /\ now \in Nat /\ AllGood(points, recorded)
      /\ recorded \in History /\ alerts \in Seq(FiredAlerts)
  BY GoodHistory DEF TypesInv, ClockType
<1>2. /\ pc[q] = "answered"
      /\ recorded' = IF breaks THEN Failed(R2) ELSE R2
      /\ pc' = [pc EXCEPT ![q] = IF breaks THEN "spoiled" ELSE "done"]
      /\ IF TimeToEvaluate
         THEN /\ points' = IF breaks THEN Failed(T) ELSE T
              /\ Engine!Evaluate(holds)
              /\ sinceEval' = 0
         ELSE /\ points' = P2
              /\ UNCHANGED <<now, alertVars, sinceEval>>
      /\ UNCHANGED <<latest, snapshots, response, disturbed>>
  BY DEF Finish
<1>3. /\ AllGood(P2, R2) /\ R2 \in History /\ Extends(R2, recorded)
      /\ OutcomesOf(R2) = OutcomesOf(recorded) + 1
  <2>1. (response[q] = "ok") \in BOOLEAN
    OBVIOUS
  <2> QED
    BY <1>1, <2>1, RequestRecords
<1> HIDE DEF P2, R2
<1>4. OutcomesOf(recorded) \in Nat
  <2>1. 1 \in Nat /\ "latency" \in Metrics!Series
    BY DEF Metrics!Series
  <2> QED
    BY <1>1, <2>1, RecordCounts
<1>5. AllGood(T, R2)
  BY <1>1, <1>3, TrimRecords
<1>6. \A name \in holds : Rests(name, R2)
  BY <1>1, <1>3, SameOperators, HoldsRests
<1> HIDE DEF T, holds
<1>7. CASE ~TimeToEvaluate
  <2>1. ~breaks
    BY <1>7
  <2>2. /\ recorded' = R2 /\ points' = P2
        /\ pc' = [pc EXCEPT ![q] = "done"]
        /\ UNCHANGED <<now, rules, alerts, sinceEval>>
    BY <1>2, <1>7, <2>1 DEF alertVars
  <2>3. \A i \in DOMAIN alerts' : i \in DOMAIN alerts /\ alerts'[i] = alerts[i]
    BY <2>2
  <2> QED
    BY <1>1, <1>2, <1>3, <1>7, <2>2, <2>3
<1>8. CASE TimeToEvaluate
  <2>1. /\ rules' = rules /\ now' = now /\ alerts' \in Seq(FiredAlerts)
        /\ \A i \in DOMAIN alerts' :
              \/ i \in DOMAIN alerts /\ alerts'[i] = alerts[i]
              \/ alerts'[i].rule.name \in holds /\ alerts'[i].at = now
    BY <1>2, <1>8, EvaluateAdds
  <2>2. CASE breaks
    <3>1. /\ recorded' = Failed(R2) /\ points' = Failed(T)
          /\ pc' = [pc EXCEPT ![q] = "spoiled"]
      BY <1>2, <1>8, <2>2
    <3>2. /\ AllGood(points', recorded') /\ recorded' \in History
          /\ Extends(recorded', R2)
          /\ OutcomesOf(recorded') = OutcomesOf(R2) + 1
      BY <1>1, <1>5, <3>1, FailureRecords
    <3>3. Extends(recorded', recorded)
      BY <1>3, <3>2, ExtendsTransitive
    <3>4. \A name \in holds : Rests(name, recorded')
      BY <1>1, <1>3, <1>6, <3>2, RestsOnMore
    <3>5. OutcomesOf(recorded') = OutcomesOf(recorded) + 2
      BY <1>3, <1>4, <3>2
    <3> HIDE DEF breaks
    <3> QED
      BY <1>2, <1>8, <2>1, <3>1, <3>2, <3>3, <3>4, <3>5
  <2>3. CASE ~breaks
    <3>1. /\ recorded' = R2 /\ points' = T
          /\ pc' = [pc EXCEPT ![q] = "done"]
      BY <1>2, <1>8, <2>3
    <3> HIDE DEF breaks
    <3> QED
      BY <1>2, <1>3, <1>5, <1>6, <1>8, <2>1, <3>1
  <2> QED
    BY <2>2, <2>3
<1> QED
  BY <1>7, <1>8
LEMMA RememberFacts ==
    ASSUME snapshots \in Seq(Snapshots), Len(snapshots) <= MaxSnapshots,
           NEW snap \in Snapshots
    PROVE  LET r == Collector!Remember(snap)
           IN  /\ r \in Seq(Snapshots)
               /\ Len(r) = IF Len(snapshots) < MaxSnapshots
                           THEN Len(snapshots) + 1 ELSE Len(snapshots)
<1>1. Collector!Remember(snap) = Metrics!Remember(snap)
  BY SameOperators
<1>2. Len(snapshots) \in Nat
  OBVIOUS
<1>3. CASE Len(snapshots) < MaxSnapshots
  BY <1>1, <1>2, <1>3 DEF Metrics!Remember
<1>4. CASE ~(Len(snapshots) < MaxSnapshots)
  <2>1. snapshots # <<>>
    BY <1>2, <1>4
  <2>2. Tail(snapshots) \in Seq(Snapshots)
        /\ Len(Tail(snapshots)) = Len(snapshots) - 1
    BY <2>1, HeadTailProperties
  <2>3. Append(Tail(snapshots), snap) \in Seq(Snapshots)
        /\ Len(Append(Tail(snapshots), snap)) = Len(snapshots)
    BY <1>2, <2>2
  <2> QED
    BY <1>1, <1>4, <2>3 DEF Metrics!Remember
<1> QED
  BY <1>3, <1>4

\* The execution POST /api/agents/react records.
LEMMA RunFacts ==
    ASSUME TypesInv, NEW q \in Requests, NEW snap \in Snapshots,
           NEW encodable \in BOOLEAN, RunReact(q, snap, encodable)
    PROVE  /\ AllGood(points', recorded') /\ recorded' \in History
           /\ Extends(recorded', recorded)
           /\ OutcomesOf(recorded') = OutcomesOf(recorded)
           /\ snapshots' \in Seq(Snapshots)
           /\ Len(snapshots') = IF Len(snapshots) < MaxSnapshots
                                THEN Len(snapshots) + 1 ELSE Len(snapshots)
           /\ pc[q] = "calling"
           /\ pc' = [pc EXCEPT ![q] = IF encodable THEN "answered" ELSE "raised"]
           /\ sinceEval' = sinceEval + 1
           /\ disturbed' \subseteq {"overlap", "lost"}
           /\ disturbed' = {} => disturbed = {} /\ encodable
           /\ UNCHANGED <<now, latest, rules, alerts>>
<1> DEFINE run(P) == Metrics!RecordRun(P, "react", snap.ok, 100)
<1>1. /\ now \in Nat /\ AllGood(points, recorded) /\ recorded \in History
      /\ snapshots \in Seq(Snapshots) /\ Len(snapshots) <= MaxSnapshots
  BY GoodHistory DEF TypesInv, ClockType
<1>2. snap \in Snapshots /\ snap.ok \in BOOLEAN
  OBVIOUS
<1>3. /\ points' = run(points) /\ recorded' = run(recorded)
      /\ snapshots' = Collector!Remember(snap)
  BY SameOperators DEF RunReact
<1>4. recorded' \in History /\ Extends(recorded', recorded)
      /\ OutcomesOf(recorded') = OutcomesOf(recorded)
  BY <1>1, <1>2, <1>3, RunCounts
<1>5. AllGood(points', recorded')
  <2> DEFINE A(P) == Metrics!Record(P, "latency", "react", 100)
             B(P) == Metrics!Record(A(P), "cost", "react", RunCost)
  <2>1. /\ \A P : run(P) = Metrics!RecordOutcome(B(P), "react", snap.ok)
        /\ "latency" \in Metrics!Series /\ "cost" \in Metrics!Series
        /\ 100 \in Nat /\ RunCost \in Nat
    BY DEF Metrics!RecordRun, Metrics!Series
  <2> HIDE DEF run
  <2>2. AllGood(A(points), A(recorded))
    BY <1>1, <2>1, BoundType, Metrics!RecordKeeps DEF AllGood
  <2> HIDE DEF A
  <2>3. AllGood(B(points), B(recorded))
    BY <1>1, <2>1, <2>2, BoundType, Metrics!RecordKeeps DEF AllGood
  <2> HIDE DEF B
  <2>4. AllGood(Metrics!RecordOutcome(B(points), "react", snap.ok),
                Metrics!RecordOutcome(B(recorded), "react", snap.ok))
    BY <1>1, <1>2, <2>3, BoundType, Metrics!RecordOutcomeKeeps DEF AllGood
  <2> QED
    BY <1>3, <2>1, <2>4
<1>6. /\ snapshots' \in Seq(Snapshots)
      /\ Len(snapshots') = IF Len(snapshots) < MaxSnapshots
                           THEN Len(snapshots) + 1 ELSE Len(snapshots)
  BY <1>1, <1>2, <1>3, RememberFacts
<1>7. /\ disturbed' \subseteq {"overlap", "lost"}
      /\ disturbed' = {} => disturbed = {} /\ encodable
  <2>1. disturbed' = disturbed \cup {x \in {"lost"} : ~encodable}
    BY DEF RunReact
  <2>2. disturbed \subseteq {"overlap", "lost"}
    BY DEF TypesInv
  <2> QED
    BY <2>1, <2>2
<1> QED
  BY <1>4, <1>5, <1>6, <1>7 DEF RunReact, alertVars

\* Every step keeps the types, and the history only grows.
LEMMA NextTypes ==
    TypesInv /\ [Next]_vars => /\ TypesInv'
                               /\ recorded' \in History
                               /\ Extends(recorded', recorded)
<1> SUFFICES ASSUME TypesInv, [Next]_vars
             PROVE  /\ TypesInv' /\ recorded' \in History
                    /\ Extends(recorded', recorded)
  OBVIOUS
<1>0. /\ ClockType /\ now \in Nat /\ latest \in Nat
      /\ AllGood(points, recorded) /\ recorded \in History
      /\ pc \in [Requests -> Places]
      /\ response \in [Requests -> {"none", "ok", "error"}]
      /\ snapshots \in Seq(Snapshots) /\ Len(snapshots) <= MaxSnapshots
      /\ Len(snapshots) \in Nat
      /\ sinceEval \in Nat /\ disturbed \subseteq {"overlap", "lost"}
      /\ rules = AllRules /\ alerts \in Seq(FiredAlerts)
  BY GoodHistory DEF TypesInv, ClockType
<1>1. Extends(recorded, recorded)
  BY DEF Extends
<1>2. \A q \in Requests, to \in Places : [pc EXCEPT ![q] = to] \in [Requests -> Places]
  BY <1>0
<1>3. \A q \in Requests, r \in {"none", "ok", "error"} :
         [response EXCEPT ![q] = r] \in [Requests -> {"none", "ok", "error"}]
  BY <1>0
\* A step that moves requests and leaves the rest alone.
<1>4. ASSUME UNCHANGED <<now, latest, collectorVars, alertVars, sinceEval>>,
             pc' \in [Requests -> Places],
             response' \in [Requests -> {"none", "ok", "error"}],
             disturbed' \subseteq {"overlap", "lost"}
      PROVE  TypesInv' /\ recorded' \in History /\ Extends(recorded', recorded)
  <2>1. /\ now' = now /\ latest' = latest
        /\ points' = points /\ recorded' = recorded
        /\ snapshots' = snapshots /\ rules' = rules /\ alerts' = alerts
        /\ sinceEval' = sinceEval
    BY <1>4 DEF collectorVars, alertVars
  <2>2. AllGood(points, recorded)'
    BY <1>0, <2>1, GoodPrimed
  <2> QED
    BY <1>0, <1>1, <1>4, <2>1, <2>2 DEF TypesInv, ClockType
<1> USE DEF Places
<1>5. ASSUME NEW q \in Requests, Dispatch(q)
      PROVE  TypesInv' /\ recorded' \in History /\ Extends(recorded', recorded)
  BY <1>0, <1>2, <1>4, <1>5 DEF Dispatch
<1>6. ASSUME NEW q \in Requests, DispatchRaises(q)
      PROVE  TypesInv' /\ recorded' \in History /\ Extends(recorded', recorded)
  BY <1>0, <1>2, <1>4, <1>6 DEF DispatchRaises
<1>7. ASSUME NEW q \in Requests, NEW answer \in {"ok", "error"},
             RunOther(q, answer)
      PROVE  TypesInv' /\ recorded' \in History /\ Extends(recorded', recorded)
  BY <1>0, <1>2, <1>3, <1>4, <1>7 DEF RunOther
<1>8. ASSUME NEW q \in Requests, EndpointRaises(q)
      PROVE  TypesInv' /\ recorded' \in History /\ Extends(recorded', recorded)
  BY <1>0, <1>2, <1>4, <1>8 DEF EndpointRaises
<1>9. ASSUME NEW q \in Requests, NEW snap \in Snapshots,
             NEW encodable \in BOOLEAN, RunReact(q, snap, encodable)
      PROVE  TypesInv' /\ recorded' \in History /\ Extends(recorded', recorded)
  <2>1. /\ AllGood(points', recorded') /\ recorded' \in History
        /\ Extends(recorded', recorded)
        /\ snapshots' \in Seq(Snapshots)
        /\ Len(snapshots') = IF Len(snapshots) < MaxSnapshots
                             THEN Len(snapshots) + 1 ELSE Len(snapshots)
        /\ pc' = [pc EXCEPT ![q] = IF encodable THEN "answered" ELSE "raised"]
        /\ sinceEval' = sinceEval + 1
        /\ disturbed' \subseteq {"overlap", "lost"}
        /\ disturbed' = {} => disturbed = {} /\ encodable
        /\ UNCHANGED <<now, latest, rules, alerts>>
    BY <1>9, RunFacts
  <2>2. AllGood(points, recorded)'
    BY <2>1, GoodPrimed
  <2>3. Len(snapshots') <= MaxSnapshots
    BY <1>0, <2>1
  <2>4. response' \in [Requests -> {"none", "ok", "error"}]
    BY <1>3, <1>9 DEF RunReact
  <2>5. pc' \in [Requests -> Places]
    BY <1>2, <2>1
  <2>6. sinceEval' \in Nat /\ disturbed' \subseteq {"overlap", "lost"}
    BY <1>0, <2>1
  <2> QED
    BY <1>0, <2>1, <2>2, <2>3, <2>4, <2>5, <2>6 DEF TypesInv, ClockType
<1>10. ASSUME NEW q \in Requests, NEW ms \in Latencies, Finish(q, ms)
       PROVE  TypesInv' /\ recorded' \in History /\ Extends(recorded', recorded)
  <2>1. /\ UNCHANGED <<now, latest, snapshots, response, disturbed, rules>>
        /\ AllGood(points', recorded')
        /\ recorded' \in History /\ Extends(recorded', recorded)
        /\ \/ pc' = [pc EXCEPT ![q] = "done"]
           \/ pc' = [pc EXCEPT ![q] = "spoiled"]
        /\ sinceEval' = IF TimeToEvaluate THEN 0 ELSE sinceEval
        /\ alerts' \in Seq(FiredAlerts)
    BY <1>10, FinishFacts
  <2>2. AllGood(points, recorded)'
    BY <2>1, GoodPrimed
  <2>3. pc' \in [Requests -> Places]
    BY <1>2, <2>1
  <2>4. sinceEval' \in Nat
    BY <1>0, <2>1
  <2> QED
    BY <1>0, <2>1, <2>2, <2>3, <2>4 DEF TypesInv, ClockType
<1>11. ASSUME NEW q \in Requests, FinishRaised(q)
       PROVE  TypesInv' /\ recorded' \in History /\ Extends(recorded', recorded)
  <2>1. /\ points' = Failed(points) /\ recorded' = Failed(recorded)
        /\ pc' = [pc EXCEPT ![q] = "done"]
        /\ UNCHANGED <<now, latest, snapshots, rules, alerts, response, sinceEval,
                       disturbed>>
    BY <1>11 DEF FinishRaised, alertVars
  <2>2. /\ AllGood(points', recorded') /\ recorded' \in History
        /\ Extends(recorded', recorded)
    BY <1>0, <2>1, FailureRecords
  <2>3. AllGood(points, recorded)'
    BY <2>1, <2>2, GoodPrimed
  <2>4. pc' \in [Requests -> Places]
    BY <1>2, <2>1
  <2> QED
    BY <1>0, <2>1, <2>2, <2>3, <2>4 DEF TypesInv, ClockType
<1>12. CASE GetMetrics
  <2>1. /\ points' = Collector!TrimAll(points) /\ recorded' = recorded
        /\ UNCHANGED <<now, latest, snapshots, rules, alerts, pc, response, sinceEval,
                       disturbed>>
    BY <1>12 DEF GetMetrics, Collector!Read, alertVars
  <2>2. AllGood(points', recorded')
    BY <1>0, <2>1, TrimRecords
  <2>3. AllGood(points, recorded)'
    BY <2>1, <2>2, GoodPrimed
  <2> QED
    BY <1>0, <1>1, <2>1, <2>3 DEF TypesInv, ClockType
<1>13. CASE ClockMoves
  <2>1. PICK t \in StartTime..MaxTime : Metrics!ClockMoves(t)
    BY <1>13 DEF ClockMoves, Collector!ClockMoves, Metrics!ClockMoves
  <2>2. /\ now' = t /\ latest' = (IF t > latest THEN t ELSE latest)
        /\ UNCHANGED <<recorded, snapshots, rules, alerts, pc, response,
                       sinceEval, disturbed>>
    BY <1>13, <2>1 DEF ClockMoves, Metrics!ClockMoves, Collector!ClockMoves,
                       alertVars
  <2>3. t \in Nat
    OBVIOUS
  <2>4. Metrics!AllGood(points, recorded)'
    BY <1>0, <2>1, <2>3, BoundType, Metrics!ClockKeeps DEF AllGood
  <2>5. AllGood(points, recorded)'
    BY <2>4 DEF AllGood
  <2>6. ClockType'
    BY <1>0, <2>2, <2>3 DEF ClockType
  <2> QED
    BY <1>0, <1>1, <2>2, <2>5, <2>6 DEF TypesInv
<1>14. CASE UNCHANGED vars
  BY <1>0, <1>4, <1>14 DEF vars
<1> QED
  BY <1>5, <1>6, <1>7, <1>8, <1>9, <1>10, <1>11, <1>12, <1>13, <1>14
  DEF Next, Step
-----------------------------------------------------------------------------
(* The three invariants *)

LEMMA CountMeaning ==
    ASSUME TypesInv
    PROVE  /\ OutcomesOf(recorded) \in Nat
           /\ Among(pc, "done") \in Nat /\ Among(pc, "spoiled") \in Nat
           /\ OutcomeRecorded <=> OutcomesOf(recorded) =
                                    Among(pc, "done") + 2 * Among(pc, "spoiled")
<1>1. OutcomesOf(recorded) \in Nat
  <2>1. now \in Nat /\ recorded \in History
    BY GoodHistory DEF TypesInv, ClockType
  <2>2. 1 \in Nat /\ "latency" \in Metrics!Series
    BY DEF Metrics!Series
  <2> QED
    BY <2>1, <2>2, RecordCounts
<1>2. \A how : Among(pc, how) \in Nat
  <2> TAKE how
  <2>1. {q \in Requests : pc[q] = how} \in SUBSET Requests
    OBVIOUS
  <2> QED
    BY <2>1, FS_Subset, FS_CardinalityType DEF Among
<1>3. /\ Outcomes = OutcomesOf(recorded)
      /\ Over("done") = Among(pc, "done")
      /\ Over("spoiled") = Among(pc, "spoiled")
  BY DEF Outcomes, OutcomesOf, Http, Over, Among
<1> QED
  BY <1>1, <1>2, <1>3 DEF OutcomeRecorded

\* One step records as many outcomes as the requests that end with it call for.
LEMMA NextCounted ==
    TypesInv /\ OutcomeRecorded /\ [Next]_vars => OutcomeRecorded'
<1> SUFFICES ASSUME TypesInv, OutcomeRecorded, [Next]_vars
             PROVE  OutcomeRecorded'
  OBVIOUS
<1> DEFINE R == recorded
           R2 == recorded'
<1>0. /\ pc \in [Requests -> Places] /\ OutcomesOf(R) \in Nat
      /\ Among(pc, "done") \in Nat /\ Among(pc, "spoiled") \in Nat
      /\ OutcomesOf(R) = Among(pc, "done") + 2 * Among(pc, "spoiled")
  BY CountMeaning DEF TypesInv
<1>1. SUFFICES OutcomesOf(R2) = Among(pc', "done") + 2 * Among(pc', "spoiled")
  <2>1. TypesInv'
    BY NextTypes
  <2> HIDE DEF R2
  <2>2. ASSUME OutcomesOf(R2) = Among(pc', "done") + 2 * Among(pc', "spoiled")
        PROVE  (Outcomes = Over("done") + 2 * Over("spoiled"))'
    BY <2>2 DEF R2, Outcomes, OutcomesOf, Http, Over, Among
  <2> QED
    BY <2>2 DEF OutcomeRecorded
\* How the numbers of ended requests change with the place of one.
<1>2. \A q \in Requests : \A to \in Places :
         pc[q] \notin {"done", "spoiled"} =>
            /\ Among([pc EXCEPT ![q] = to], "done") =
                  Among(pc, "done") + IF to = "done" THEN 1 ELSE 0
            /\ Among([pc EXCEPT ![q] = to], "spoiled") =
                  Among(pc, "spoiled") + IF to = "spoiled" THEN 1 ELSE 0
  <2> TAKE q \in Requests
  <2> TAKE to \in Places
  <2>1. "done" \in Places /\ "spoiled" \in Places
    BY DEF Places
  <2>2. \A how \in Places :
           pc[q] # how => Among([pc EXCEPT ![q] = to], how) =
                             Among(pc, how) + IF to = how THEN 1 ELSE 0
    <3>1. \A r \in Requests : \A p, how \in Places :
             pc[r] # how => Among([pc EXCEPT ![r] = p], how) =
                               Among(pc, how) + IF p = how THEN 1 ELSE 0
      BY <1>0, Moved
    <3> QED
      BY <3>1, Zenon
  <2> QED
    BY <2>1, <2>2
<1> HIDE DEF R, R2
<1>3. ASSUME NEW q \in Requests, NEW to \in {"calling", "answered", "raised", "refused"},
             pc[q] \in {"idle", "calling"}, pc' = [pc EXCEPT ![q] = to],
             OutcomesOf(R2) = OutcomesOf(R)
      PROVE  OutcomesOf(R2) = Among(pc', "done") + 2 * Among(pc', "spoiled")
  <2>1. to \in Places
    BY DEF Places
  <2>2. pc[q] \notin {"done", "spoiled"} /\ to # "done" /\ to # "spoiled"
    BY <1>3
  <2>3. /\ Among(pc', "done") = Among(pc, "done") + 0
        /\ Among(pc', "spoiled") = Among(pc, "spoiled") + 0
    BY <1>2, <1>3, <2>1, <2>2
  <2> QED
    BY <1>0, <1>3, <2>3
<1>4. ASSUME NEW q \in Requests, Dispatch(q) \/ DispatchRaises(q)
      PROVE  OutcomesOf(R2) = Among(pc', "done") + 2 * Among(pc', "spoiled")
  BY <1>3, <1>4 DEF Dispatch, DispatchRaises, collectorVars, R, R2
<1>5. ASSUME NEW q \in Requests, NEW answer \in {"ok", "error"},
             RunOther(q, answer)
      PROVE  OutcomesOf(R2) = Among(pc', "done") + 2 * Among(pc', "spoiled")
  BY <1>3, <1>5 DEF RunOther, collectorVars, R, R2
<1>6. ASSUME NEW q \in Requests, EndpointRaises(q)
      PROVE  OutcomesOf(R2) = Among(pc', "done") + 2 * Among(pc', "spoiled")
  BY <1>3, <1>6 DEF EndpointRaises, collectorVars, R, R2
<1>7. ASSUME NEW q \in Requests, NEW snap \in Snapshots,
             NEW encodable \in BOOLEAN, RunReact(q, snap, encodable)
      PROVE  OutcomesOf(R2) = Among(pc', "done") + 2 * Among(pc', "spoiled")
  <2>1. /\ OutcomesOf(R2) = OutcomesOf(R) /\ pc[q] = "calling"
        /\ pc' = [pc EXCEPT ![q] = IF encodable THEN "answered" ELSE "raised"]
    BY <1>7, RunFacts DEF R, R2
  <2> QED
    BY <1>3, <2>1
<1>8. ASSUME NEW q \in Requests, NEW ms \in Latencies, Finish(q, ms)
      PROVE  OutcomesOf(R2) = Among(pc', "done") + 2 * Among(pc', "spoiled")
  <2>1. /\ pc[q] = "answered"
        /\ \/ /\ pc' = [pc EXCEPT ![q] = "done"]
              /\ OutcomesOf(R2) = OutcomesOf(R) + 1
           \/ /\ pc' = [pc EXCEPT ![q] = "spoiled"]
              /\ OutcomesOf(R2) = OutcomesOf(R) + 2
    BY <1>8, FinishFacts DEF R, R2
  <2>2. "done" \in Places /\ "spoiled" \in Places
    BY DEF Places
  <2>3. CASE /\ pc' = [pc EXCEPT ![q] = "done"]
             /\ OutcomesOf(R2) = OutcomesOf(R) + 1
    <3>1. /\ Among(pc', "done") = Among(pc, "done") + 1
          /\ Among(pc', "spoiled") = Among(pc, "spoiled") + 0
      BY <1>2, <2>1, <2>2, <2>3
    <3> QED
      BY <1>0, <2>3, <3>1
  <2>4. CASE /\ pc' = [pc EXCEPT ![q] = "spoiled"]
             /\ OutcomesOf(R2) = OutcomesOf(R) + 2
    <3>1. /\ Among(pc', "done") = Among(pc, "done") + 0
          /\ Among(pc', "spoiled") = Among(pc, "spoiled") + 1
      BY <1>2, <2>1, <2>2, <2>4
    <3> QED
      BY <1>0, <2>4, <3>1
  <2> QED
    BY <2>1, <2>3, <2>4
<1>9. ASSUME NEW q \in Requests, FinishRaised(q)
      PROVE  OutcomesOf(R2) = Among(pc', "done") + 2 * Among(pc', "spoiled")
  <2>1. /\ pc[q] = "raised" /\ pc' = [pc EXCEPT ![q] = "done"]
        /\ R2 = Failed(R)
    BY <1>9 DEF FinishRaised, R, R2
  <2>2. OutcomesOf(R2) = OutcomesOf(R) + 1
    BY <2>1, FailureRecords DEF TypesInv, ClockType, R
  <2>3. "done" \in Places
    BY DEF Places
  <2>4. /\ Among(pc', "done") = Among(pc, "done") + 1
        /\ Among(pc', "spoiled") = Among(pc, "spoiled") + 0
    BY <1>2, <2>1, <2>3
  <2> QED
    BY <1>0, <2>2, <2>4
<1>10. ASSUME UNCHANGED <<recorded, pc>>
       PROVE  OutcomesOf(R2) = Among(pc', "done") + 2 * Among(pc', "spoiled")
  BY <1>0, <1>10 DEF R, R2
<1>11. CASE GetMetrics \/ ClockMoves \/ UNCHANGED vars
  BY <1>10, <1>11
  DEF GetMetrics, Collector!Read, ClockMoves, Collector!ClockMoves, vars,
      collectorVars
<1> QED
  BY <1>4, <1>5, <1>6, <1>7, <1>8, <1>9, <1>11 DEF Next, Step

\* What fires in a step has its grounds at the end of it.
LEMMA NextJustified ==
    TypesInv /\ [Next]_vars =>
        \A i \in DOMAIN alerts' \ DOMAIN alerts :
            /\ now' = now
            /\ Rests(alerts'[i].rule.name, recorded')
<1> SUFFICES ASSUME TypesInv, [Next]_vars,
                    NEW i \in DOMAIN alerts' \ DOMAIN alerts
             PROVE  now' = now /\ Rests(alerts'[i].rule.name, recorded')
  OBVIOUS
<1>1. ASSUME NEW q \in Requests, NEW ms \in Latencies, Finish(q, ms)
      PROVE  now' = now /\ Rests(alerts'[i].rule.name, recorded')
  BY <1>1, FinishFacts
<1>2. \/ \E q \in Requests, ms \in Latencies : Finish(q, ms)
      \/ alerts' = alerts
  BY DEF Next, Step, Dispatch, DispatchRaises, RunReact, RunOther,
         EndpointRaises, FinishRaised, GetMetrics, ClockMoves, vars, alertVars
<1> QED
  BY <1>1, <1>2

\* Counting on from a remainder.
LEMMA NextRemainder ==
    ASSUME NEW n \in Nat, NEW m \in Nat, m > 0
    PROVE  /\ n % m \in 0..(m - 1)
           /\ (n + 1) % m = 0 \/ (n + 1) % m = (n % m) + 1
<1> DEFINE q == n \div m
           r == n % m
<1>1. q \in Nat /\ r \in 0..(m - 1) /\ n = m * q + r
  OBVIOUS
<1>2. ASSUME NEW a \in Nat, NEW b \in Nat, b < m PROVE (m * a + b) % m = b
  BY <1>2
<1> HIDE DEF q, r
<1>3. CASE r + 1 < m
  <2>1. n + 1 = m * q + (r + 1)
    BY <1>1
  <2>2. (m * q + (r + 1)) % m = r + 1
    BY <1>1, <1>2, <1>3
  <2> QED
    BY <1>1, <2>1, <2>2 DEF r
<1>4. CASE ~(r + 1 < m)
  <2>1. r = m - 1
    BY <1>1, <1>4
  <2>2. m * (q + 1) = m * q + m
    BY <1>1
  <2>3. n + 1 = m * (q + 1) + 0
    BY <1>1, <2>1, <2>2
  <2>4. (m * (q + 1) + 0) % m = 0
    BY <1>1, <1>2
  <2> QED
    BY <1>1, <2>3, <2>4 DEF r
<1> QED
  BY <1>3, <1>4

\* Every step keeps the count of unevaluated executions a remainder, or
\* disturbs.
LEMMA NextPeriodic == TypesInv /\ Periodic /\ [Next]_vars => Periodic'
<1> SUFFICES ASSUME TypesInv, Periodic, [Next]_vars, disturbed' = {}
             PROVE  /\ \A q, r \in Requests :
                          InFlight(q)' /\ InFlight(r)' => q = r
                    /\ \/ sinceEval' = Len(snapshots') % EvalEvery
                       \/ /\ TimeToEvaluate'
                          /\ \E q \in Requests : pc'[q] = "answered"
  BY DEF Periodic
<1> DEFINE Flying(p) == p \in {"calling", "answered", "raised"}
           Single == \A q, r \in Requests :
                        Flying(pc[q]) /\ Flying(pc[r]) => q = r
           Goal == /\ \A q, r \in Requests :
                         Flying(pc'[q]) /\ Flying(pc'[r]) => q = r
                   /\ \/ sinceEval' = Len(snapshots') % EvalEvery
                      \/ /\ Len(snapshots') % EvalEvery = 0
                         /\ \E q \in Requests : pc'[q] = "answered"
<1>1. SUFFICES Goal
  BY DEF InFlight, TimeToEvaluate
<1>2. /\ pc \in [Requests -> Places] /\ disturbed \subseteq {"overlap", "lost"}
      /\ Len(snapshots) \in Nat /\ Len(snapshots) <= MaxSnapshots
      /\ sinceEval \in Nat
  BY DEF TypesInv
<1>3. disturbed = {} => /\ Single
                    /\ \/ sinceEval = Len(snapshots) % EvalEvery
                       \/ /\ Len(snapshots) % EvalEvery = 0
                          /\ \E q \in Requests : pc[q] = "answered"
  BY DEF Periodic, InFlight, TimeToEvaluate
\* The request that flies is alone, so nothing is on its way but it.
<1>4. ASSUME NEW q \in Requests, Single, Flying(pc[q]), pc[q] # "answered"
      PROVE  ~\E r \in Requests : pc[r] = "answered"
  BY <1>4
<1>5. ASSUME NEW q \in Requests, NEW to \in Places, Single,
             Flying(pc[q]), pc' = [pc EXCEPT ![q] = to]
      PROVE  \A r, s \in Requests : Flying(pc'[r]) /\ Flying(pc'[s]) => r = s
  BY <1>2, <1>5
<1>6. ASSUME NEW q \in Requests, Dispatch(q) PROVE Goal
  <2>1. /\ disturbed = {} /\ \A r \in Requests : ~Flying(pc[r])
        /\ pc' = [pc EXCEPT ![q] = "calling"]
        /\ sinceEval' = sinceEval /\ snapshots' = snapshots
    BY <1>6 DEF Dispatch, InFlight, collectorVars
  <2>2. sinceEval = Len(snapshots) % EvalEvery
    BY <1>3, <2>1
  <2>3. \A r \in Requests : r # q => pc'[r] = pc[r]
    BY <1>2, <2>1
  <2> QED
    BY <2>1, <2>2, <2>3
<1>7. ASSUME NEW q \in Requests, DispatchRaises(q) PROVE Goal
  <2>1. /\ disturbed = {} /\ pc[q] = "idle"
        /\ pc' = [pc EXCEPT ![q] = "refused"]
        /\ sinceEval' = sinceEval /\ snapshots' = snapshots
    BY <1>7 DEF DispatchRaises, collectorVars
  <2>2. \A r \in Requests : \/ pc'[r] = pc[r]
                            \/ pc[r] = "idle" /\ pc'[r] = "refused"
    BY <1>2, <2>1
  <2> QED
    BY <1>3, <2>1, <2>2
<1>8. ASSUME NEW q \in Requests, NEW answer \in {"ok", "error"},
             RunOther(q, answer)
      PROVE  Goal
  <2>1. /\ disturbed = {} /\ pc[q] = "calling"
        /\ pc' = [pc EXCEPT ![q] = "answered"]
        /\ sinceEval' = sinceEval /\ snapshots' = snapshots
    BY <1>8 DEF RunOther, collectorVars
  <2>2. sinceEval = Len(snapshots) % EvalEvery
    BY <1>3, <1>4, <2>1
  <2>3. \A r, s \in Requests : Flying(pc'[r]) /\ Flying(pc'[s]) => r = s
    BY <1>3, <1>5, <2>1 DEF Places
  <2> QED
    BY <2>1, <2>2, <2>3
<1>9. ASSUME NEW q \in Requests, EndpointRaises(q) PROVE Goal
  <2>1. /\ disturbed = {} /\ pc[q] = "calling"
        /\ pc' = [pc EXCEPT ![q] = "raised"]
        /\ sinceEval' = sinceEval /\ snapshots' = snapshots
    BY <1>9 DEF EndpointRaises, collectorVars
  <2>2. sinceEval = Len(snapshots) % EvalEvery
    BY <1>3, <1>4, <2>1
  <2>3. \A r, s \in Requests : Flying(pc'[r]) /\ Flying(pc'[s]) => r = s
    BY <1>3, <1>5, <2>1 DEF Places
  <2> QED
    BY <2>1, <2>2, <2>3
<1>10. ASSUME NEW q \in Requests, FinishRaised(q) PROVE Goal
  <2>1. /\ disturbed = {} /\ pc[q] = "raised"
        /\ pc' = [pc EXCEPT ![q] = "done"]
        /\ sinceEval' = sinceEval /\ snapshots' = snapshots
    BY <1>10 DEF FinishRaised
  <2>2. sinceEval = Len(snapshots) % EvalEvery
    BY <1>3, <1>4, <2>1
  <2>3. \A r, s \in Requests : Flying(pc'[r]) /\ Flying(pc'[s]) => r = s
    BY <1>3, <1>5, <2>1 DEF Places
  <2> QED
    BY <2>1, <2>2, <2>3
<1>11. ASSUME NEW q \in Requests, NEW snap \in Snapshots,
              NEW encodable \in BOOLEAN, RunReact(q, snap, encodable)
       PROVE  Goal
  <2>1. /\ Len(snapshots') = IF Len(snapshots) < MaxSnapshots
                             THEN Len(snapshots) + 1 ELSE Len(snapshots)
        /\ pc[q] = "calling"
        /\ pc' = [pc EXCEPT ![q] = IF encodable THEN "answered" ELSE "raised"]
        /\ sinceEval' = sinceEval + 1
        /\ disturbed' \subseteq {"overlap", "lost"}
        /\ disturbed' = {} => disturbed = {} /\ encodable
    BY <1>11, RunFacts
  <2>2. /\ disturbed = {} /\ pc' = [pc EXCEPT ![q] = "answered"]
    BY <2>1
  <2>3. sinceEval = Len(snapshots) % EvalEvery
    BY <1>3, <1>4, <2>1, <2>2
  <2>4. \A r, s \in Requests : Flying(pc'[r]) /\ Flying(pc'[s]) => r = s
    BY <1>3, <1>5, <2>1, <2>2 DEF Places
  <2>5. pc'[q] = "answered"
    BY <1>2, <2>2
  <2>6. CASE Len(snapshots) < MaxSnapshots
    <3>1. \/ (Len(snapshots) + 1) % EvalEvery = 0
          \/ (Len(snapshots) + 1) % EvalEvery = (Len(snapshots) % EvalEvery) + 1
      <4>1. EvalEvery \in Nat /\ EvalEvery > 0
        OBVIOUS
      <4>2. \A n \in Nat : \/ (n + 1) % EvalEvery = 0
                           \/ (n + 1) % EvalEvery = (n % EvalEvery) + 1
        BY <4>1, NextRemainder
      <4> QED
        BY <1>2, <4>2
    <3> QED
      BY <2>1, <2>3, <2>4, <2>5, <2>6, <3>1
  <2>7. CASE ~(Len(snapshots) < MaxSnapshots)
    <3>1. Len(snapshots') = MaxSnapshots
      BY <1>2, <2>1, <2>7
    <3>2. Len(snapshots') % EvalEvery = 0
      BY <3>1
    <3> QED
      BY <2>4, <2>5, <3>2
  <2> QED
    BY <2>6, <2>7
<1>12. ASSUME NEW q \in Requests, NEW ms \in Latencies, Finish(q, ms)
       PROVE  Goal
  <2>1. /\ pc[q] = "answered" /\ disturbed = {} /\ snapshots' = snapshots
        /\ \/ pc' = [pc EXCEPT ![q] = "done"]
           \/ pc' = [pc EXCEPT ![q] = "spoiled"]
        /\ sinceEval' = IF Len(snapshots) % EvalEvery = 0 THEN 0 ELSE sinceEval
    BY <1>12, FinishFacts DEF TimeToEvaluate
  <2>2. \A r, s \in Requests : Flying(pc'[r]) /\ Flying(pc'[s]) => r = s
    BY <1>3, <1>5, <2>1 DEF Places
  <2>3. sinceEval' = Len(snapshots) % EvalEvery
    BY <1>3, <2>1
  <2> QED
    BY <2>1, <2>2, <2>3
<1>13. ASSUME UNCHANGED <<pc, snapshots, sinceEval, disturbed>> PROVE Goal
  BY <1>3, <1>13
<1>14. CASE GetMetrics \/ ClockMoves \/ UNCHANGED vars
  BY <1>13, <1>14
  DEF GetMetrics, Collector!Read, ClockMoves, Collector!ClockMoves, vars,
      collectorVars
<1> HIDE DEF Goal
<1> QED
  BY <1>6, <1>7, <1>8, <1>9, <1>10, <1>11, <1>12, <1>14 DEF Next, Step

LEMMA Invariance == Spec => []ServiceInv
<1>1. ServiceInv /\ [Next]_vars => ServiceInv'
  BY NextTypes, NextCounted, NextPeriodic DEF ServiceInv
<1> QED
  BY <1>1, InitInv, PTL DEF Spec

-----------------------------------------------------------------------------
(* The theorems *)

\* Every request that got as far as its endpoint is counted once when it is
\* over, twice if the evaluation of the alerts took its answer away, however
\* the requests interleave and whatever raises.
THEOREM EachRequestCounted == Spec => []OutcomeRecorded
<1>1. ServiceInv => OutcomeRecorded
  BY DEF ServiceInv
<1> QED
  BY <1>1, Invariance, PTL

\* No alert about failures, costs or latency fires but on points the window
\* shows at that moment, however the requests interleave and the wall clock is
\* set: the trims lose and invent nothing.
THEOREM AlertsHaveGrounds == Spec => AlertsJustified
<1> DEFINE Justified ==
        \A i \in DOMAIN alerts' \ DOMAIN alerts :
            LET name == alerts'[i].rule.name
                Evidence(s) == Collector!Shown(s)'
            IN  /\ name = "high_failure_rate" =>
                      \E k \in Evidence("failure") :
                          Collector!Recent(recorded["failure"][k])'
                /\ name = "cost_spike" =>
                      Cardinality(Evidence("cost")) * RunCost > CostLimit
                /\ name = "high_latency" =>
                      \E k \in Evidence("latency") :
                          recorded'["latency"][k].value > SlowMs
<1>1. ServiceInv /\ [Next]_vars => Justified
  <2> SUFFICES ASSUME TypesInv, [Next]_vars,
                      NEW i \in DOMAIN alerts' \ DOMAIN alerts
               PROVE  LET name == alerts'[i].rule.name
                          Evidence(s) == Collector!Shown(s)'
                      IN  /\ name = "high_failure_rate" =>
                                \E k \in Evidence("failure") :
                                    Collector!Recent(recorded["failure"][k])'
                          /\ name = "cost_spike" =>
                                Cardinality(Evidence("cost")) * RunCost
                                    > CostLimit
                          /\ name = "high_latency" =>
                                \E k \in Evidence("latency") :
                                    recorded'["latency"][k].value > SlowMs
    BY DEF ServiceInv
  <2>1. now' = now /\ Rests(alerts'[i].rule.name, recorded')
    BY NextJustified
  <2>2. \A p : (p.at + Window >= now') <=> Metrics!Recent(p)
    BY <2>1 DEF Metrics!Recent
  <2>3. \A s : Collector!Shown(s)' = Seen(recorded'[s])
    BY <2>2 DEF Collector!Shown, Collector!Recent, Seen
  <2>4. \A k : Collector!Recent(recorded["failure"][k])' <=>
                  Metrics!Recent(recorded'["failure"][k])
    BY <2>2 DEF Collector!Recent
  <2> QED
    BY <2>1, <2>3, <2>4 DEF Rests
<1>2. Spec => [][Justified]_vars
  BY <1>1, Invariance, PTL DEF Spec
<1> QED
  BY <1>2 DEF AlertsJustified

\* Between undisturbed requests fewer than EvalEvery executions are
\* unevaluated, also when the deque of executions is full.
THEOREM AlertsKeepUp == Spec => []EvaluatedPeriodically
<1>1. ServiceInv => EvaluatedPeriodically
  <2> SUFFICES ASSUME ServiceInv, \A q \in Requests : ~InFlight(q), disturbed = {}
               PROVE  sinceEval < EvalEvery
    BY DEF EvaluatedPeriodically, ServiceInv, TypesInv
  <2>1. sinceEval = Len(snapshots) % EvalEvery
    BY DEF ServiceInv, Periodic, InFlight
  <2>2. Len(snapshots) \in Nat
    BY DEF ServiceInv, TypesInv
  <2>3. Len(snapshots) % EvalEvery \in 0..(EvalEvery - 1)
    BY <2>2, NextRemainder
  <2> QED
    BY <2>1, <2>3
<1> QED
  BY <1>1, Invariance, PTL

\* What a reader of the buffers gets is as ReadsWindow says, also when
\* requests, the evaluation of the alerts and the readers of the summary all
\* trim, and however the wall clock is set.
THEOREM ServiceReadsWindow == Spec => []Collector!ReadsWindow
<1>1. ServiceInv => Collector!ReadsWindow
  <2> SUFFICES ASSUME ServiceInv, NEW s \in Metrics!Series
               PROVE  Metrics!WindowOf(Collector!TrimAll(points)[s], recorded[s])
    BY SameOperators
    DEF Collector!ReadsWindow, Metrics!WindowOf, Collector!Shown,
        Collector!InTimeOrder, Collector!Recent, Metrics!Recent,
        Collector!FellOut, Metrics!FellOut
  <2>1. ClockType /\ Metrics!Good(points[s], recorded[s])
    BY DEF ServiceInv, TypesInv, AllGood, Metrics!AllGood
  <2>2. Collector!TrimAll(points)[s] = Metrics!Trim(points[s])
    BY SameOperators DEF Metrics!TrimAll
  <2> QED
    BY <2>1, <2>2, BoundType, Metrics!TrimShows DEF ClockType
<1> QED
  BY <1>1, Invariance, PTL
=============================================================================
