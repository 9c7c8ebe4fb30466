----------------------- MODULE MetricsCollectorProofs -----------------------
(***************************************************************************)
(* Theorems about MetricsCollector: its type invariant, and what of the    *)
(* points recorded a reader sees, however the wall clock is set.           *)
(***************************************************************************)
EXTENDS MetricsCollector, TLAPS, FiniteSetTheorems, SequenceTheorems,
        WellFoundedInduction

\* A finite, non-empty set of naturals has a least element.
LEMMA LeastExists ==
    ASSUME NEW S, IsFiniteSet(S), S \subseteq Nat, S # {}
    PROVE  \E i \in S : \A j \in S : i <= j
<1> DEFINE Below(i) == {j \in S : j < i}
           T == {Below(i) : i \in S}
<1>1. T \subseteq FiniteSubsetsOf(S) /\ T # {}
  <2>1. FiniteSubsetsOf(S) = SUBSET S BY FS_FiniteSubsetsOfFinite
  <2>2. \A i \in S : Below(i) \in SUBSET S OBVIOUS
  <2>3. PICK i \in S : TRUE OBVIOUS
  <2>4. Below(i) \in T OBVIOUS
  <2> HIDE DEF Below
  <2>5. T \subseteq SUBSET S BY <2>2
  <2> QED BY <2>1, <2>4, <2>5
<1>2. PICK x \in T : \A y \in T : <<y, x>> \notin StrictSubsetOrdering(S)
  BY <1>1, FS_StrictSubsetOrderingWellFounded, WFMin
<1>3. PICK i \in S : x = Below(i) OBVIOUS
<1>4. ASSUME NEW j \in S, j < i PROVE FALSE
  <2>1. i \in Nat /\ \A k \in S : k \in Nat OBVIOUS
  <2>2. Below(j) \subseteq Below(i)
    <3> SUFFICES ASSUME NEW k \in S, k < j PROVE k < i OBVIOUS
    <3>1. k \in Nat /\ j \in Nat /\ i \in Nat BY <2>1
    <3> QED BY <1>4, <3>1
  <2>3. j \in Below(i) /\ j \notin Below(j) BY <1>4, <2>1
  <2>4. Below(j) \in SUBSET S /\ Below(i) \in SUBSET S OBVIOUS
  <2>5. Below(j) \in T OBVIOUS
  <2> HIDE DEF Below
  <2>6. <<Below(j), Below(i)>> \in StrictSubsetOrdering(S)
    BY <2>2, <2>3, <2>4 DEF StrictSubsetOrdering
  <2> QED BY <1>2, <1>3, <2>5, <2>6
<1> QED BY <1>4

\* _trim drops points from the head that are too old, and stops at one that
\* is not.
LEMMA TrimDropsOld ==
    ASSUME NEW buf \in Seq(Points)
    PROVE  \E d \in 0..Len(buf) :
              /\ Trim(buf) \in Seq(Points)
              /\ Len(Trim(buf)) = Len(buf) - d
              /\ \A k \in 1..Len(buf) - d : Trim(buf)[k] = buf[d + k]
              /\ \A k \in 1..d : ~Recent(buf[k])
              /\ d < Len(buf) => Recent(buf[d + 1])
<1> DEFINE keep == {k \in DOMAIN buf : Recent(buf[k])}
           m == CHOOSE k \in keep : \A j \in keep : k <= j
<1>1. Len(buf) \in Nat /\ DOMAIN buf = 1..Len(buf) OBVIOUS
<1>2. CASE keep = {}
  <2>1. Trim(buf) = <<>> BY <1>2 DEF Trim
  <2>2. \A k \in 1..Len(buf) : ~Recent(buf[k]) BY <1>1, <1>2
  <2>3. Len(buf) \in 0..Len(buf) /\ Len(buf) - Len(buf) = 0 BY <1>1
  <2> HIDE DEF keep
  <2> WITNESS Len(buf) \in 0..Len(buf)
  <2> QED BY <1>1, <2>1, <2>2, <2>3
<1>3. CASE keep # {}
  <2>1. IsFiniteSet(keep)
    <3>1. IsFiniteSet(1..Len(buf)) BY <1>1, FS_Interval
    <3>2. keep \subseteq 1..Len(buf) BY <1>1
    <3> QED BY <3>1, <3>2, FS_Subset
  <2>2. keep \subseteq Nat BY <1>1
  <2> HIDE DEF keep
  <2>3. \E k \in keep : \A j \in keep : k <= j
    BY <1>3, <2>1, <2>2, LeastExists
  <2>4. m \in keep /\ \A j \in keep : m <= j BY <2>3
  <2> USE DEF keep
  <2>5. Trim(buf) = SubSeq(buf, m, Len(buf)) BY <1>3 DEF Trim
  <2> HIDE DEF m
  <2>6. m \in 1..Len(buf) /\ Recent(buf[m]) BY <1>1, <2>4
  <2>7. \A k \in 1..m - 1 : ~Recent(buf[k])
    <3> SUFFICES ASSUME NEW k \in 1..m - 1, Recent(buf[k]) PROVE FALSE
      OBVIOUS
    <3>1. k \in keep BY <1>1, <2>6
    <3> QED BY <2>4, <2>6, <3>1
  <2> HIDE DEF keep
  <2>8. \A i \in m..Len(buf) : buf[i] \in Points BY <1>1, <2>6
  <2>9. /\ SubSeq(buf, m, Len(buf)) \in Seq(Points)
        /\ Len(SubSeq(buf, m, Len(buf))) = Len(buf) - m + 1
        /\ \A i \in 1..Len(buf) - m + 1 :
              SubSeq(buf, m, Len(buf))[i] = buf[m + i - 1]
    <3>1. m \in Int /\ Len(buf) \in Int /\ m <= Len(buf) BY <1>1, <2>6
    <3> QED BY <2>8, <3>1, SubSeqProperties
  <2>10. m - 1 \in 0..Len(buf) BY <1>1, <2>6
  <2>11. /\ Len(buf) - (m - 1) = Len(buf) - m + 1
         /\ (m - 1) + 1 = m
         /\ \A k \in Nat : (m - 1) + k = m + k - 1
    BY <1>1, <2>6
  <2>12. \A k \in 1..Len(buf) - (m - 1) : Trim(buf)[k] = buf[(m - 1) + k]
    <3> TAKE k \in 1..Len(buf) - (m - 1)
    <3>1. k \in 1..Len(buf) - m + 1 /\ k \in Nat BY <1>1, <2>6, <2>11
    <3>2. SubSeq(buf, m, Len(buf))[k] = buf[m + k - 1] BY <2>9, <3>1
    <3> QED BY <2>5, <2>11, <3>1, <3>2
  <2> WITNESS m - 1 \in 0..Len(buf)
  <2> QED BY <2>5, <2>6, <2>7, <2>9, <2>11, <2>12
<1> QED BY <1>2, <1>3

-----------------------------------------------------------------------------
LEMMA PointTimes ==
    ASSUME NEW r \in Seq(Points), NEW k \in 1..Len(r)
    PROVE  r[k].at \in Nat
<1>1. r[k] \in Points OBVIOUS
<1> QED BY <1>1 DEF Points

\* The invariant for one buffer b and all that was recorded for it, r.
Good(b, r) ==
    /\ b \in Seq(Points) /\ r \in Seq(Points)
    /\ Len(b) <= Len(r)
    /\ \A k \in 1..Len(b) : b[k] = r[(Len(r) - Len(b)) + k]
    /\ \A k \in 1..Len(r) - Len(b) : FellOut(r[k])

AllGood(P, R) ==
    /\ P \in [Series -> Seq(Points)] /\ R \in [Series -> Seq(Points)]
    /\ \A s \in Series : Good(P[s], R[s])

Inv ==
    /\ now \in 0..MaxTime /\ latest \in 0..MaxTime /\ now <= latest
    /\ snapshots \in Seq(Snapshots) /\ Len(snapshots) <= MaxSnapshots
    /\ AllGood(points, recorded)

\* Inv is the conjunction of the two invariants the runs check.
LEMMA InvMeaning == Inv <=> TypeOK /\ WindowComplete
<1>1. ASSUME NEW b \in Seq(Points), NEW r \in Seq(Points)
      PROVE  /\ Len(b) \in Nat /\ Len(r) \in Nat /\ DOMAIN r = 1..Len(r)
             /\ Len(b) <= Len(r) <=> Len(r) - Len(b) >= 0
  OBVIOUS
<1>2. ASSUME points \in [Series -> Seq(Points)],
             recorded \in [Series -> Seq(Points)], NEW s \in Series
      PROVE  Good(points[s], recorded[s]) <=> BufferIsTail(s)
  <2>1. points[s] \in Seq(Points) /\ recorded[s] \in Seq(Points) BY <1>2
  <2> QED BY <1>1, <2>1 DEF Good, BufferIsTail
<1> QED BY <1>2 DEF Inv, AllGood, TypeOK, WindowComplete

LEMMA AppendKeeps ==
    ASSUME NEW b, NEW r, Good(b, r), NEW p \in Points
    PROVE  Good(Append(b, p), Append(r, p))
<1> DEFINE b2 == Append(b, p)
           r2 == Append(r, p)
<1>1. /\ b \in Seq(Points) /\ r \in Seq(Points)
      /\ Len(b) \in Nat /\ Len(r) \in Nat /\ Len(b) <= Len(r)
  BY DEF Good
<1>2. /\ b2 \in Seq(Points) /\ r2 \in Seq(Points)
      /\ Len(b2) = Len(b) + 1 /\ Len(r2) = Len(r) + 1
  BY <1>1
<1>3. /\ \A k \in 1..Len(b) : b2[k] = b[k]
      /\ \A k \in 1..Len(r) : r2[k] = r[k]
      /\ b2[Len(b) + 1] = p /\ r2[Len(r) + 1] = p
  BY <1>1
<1> HIDE DEF b2, r2
<1>4. \A k \in 1..Len(b2) : b2[k] = r2[(Len(r2) - Len(b2)) + k]
  <2> TAKE k \in 1..Len(b2)
  <2>1. CASE k \in 1..Len(b)
    <3>1. (Len(r2) - Len(b2)) + k = (Len(r) - Len(b)) + k BY <1>1, <1>2
    <3>2. (Len(r) - Len(b)) + k \in 1..Len(r) BY <1>1, <2>1
    <3>3. b[k] = r[(Len(r) - Len(b)) + k] BY <2>1 DEF Good
    <3> QED BY <1>3, <2>1, <3>1, <3>2, <3>3
  <2>2. CASE k = Len(b) + 1
    <3>1. (Len(r2) - Len(b2)) + k = Len(r) + 1 BY <1>1, <1>2, <2>2
    <3> QED BY <1>3, <2>2, <3>1
  <2> QED BY <1>1, <1>2, <2>1, <2>2
<1>5. \A k \in 1..Len(r2) - Len(b2) : FellOut(r2[k])
  <2> TAKE k \in 1..Len(r2) - Len(b2)
  <2>1. k \in 1..Len(r) - Len(b) /\ k \in 1..Len(r) BY <1>1, <1>2
  <2> QED BY <1>3, <2>1 DEF Good
<1>6. Len(b2) <= Len(r2) BY <1>1, <1>2
<1> QED BY <1>2, <1>4, <1>5, <1>6 DEF Good, b2, r2

\* Recording one point in both.
LEMMA RecordKeeps ==
    ASSUME now \in Nat, NEW P, NEW R, AllGood(P, R), NEW s \in Series,
           NEW a \in Agents, NEW v \in Nat
    PROVE  AllGood(Record(P, s, a, v), Record(R, s, a, v))
<1> DEFINE p == [at |-> now, agent |-> a, value |-> v]
<1>1. p \in Points BY DEF Points
<1> HIDE DEF p
<1>2. /\ Record(P, s, a, v) = [P EXCEPT ![s] = Append(P[s], p)]
      /\ Record(R, s, a, v) = [R EXCEPT ![s] = Append(R[s], p)]
  BY DEF Record, p
<1>3. /\ P \in [Series -> Seq(Points)] /\ R \in [Series -> Seq(Points)]
      /\ \A t \in Series : Good(P[t], R[t])
  BY DEF AllGood
<1>4. Good(Append(P[s], p), Append(R[s], p)) BY <1>1, <1>3, AppendKeeps
<1>5. Append(P[s], p) \in Seq(Points) /\ Append(R[s], p) \in Seq(Points)
  BY <1>4 DEF Good
<1> QED BY <1>2, <1>3, <1>4, <1>5 DEF AllGood

LEMMA RecordOutcomeKeeps ==
    ASSUME now \in Nat, NEW P, NEW R, AllGood(P, R), NEW a \in Agents,
           NEW ok \in BOOLEAN
    PROVE  AllGood(RecordOutcome(P, a, ok), RecordOutcome(R, a, ok))
<1>1. "success" \in Series /\ "failure" \in Series /\ 1 \in Nat BY DEF Series
<1>2. AllGood(Record(P, "success", a, 1), Record(R, "success", a, 1))
  BY <1>1, RecordKeeps
<1>3. AllGood(Record(P, "failure", a, 1), Record(R, "failure", a, 1))
  BY <1>1, RecordKeeps
<1>4. CASE ok BY <1>2, <1>4 DEF RecordOutcome
<1>5. CASE ~ok BY <1>3, <1>5 DEF RecordOutcome
<1> QED BY <1>4, <1>5

LEMMA RecordRunKeeps ==
    ASSUME now \in Nat, NEW P, NEW R, AllGood(P, R), NEW a \in Agents,
           NEW ok \in BOOLEAN, NEW ms \in Latencies
    PROVE  AllGood(RecordRun(P, a, ok, ms), RecordRun(R, a, ok, ms))
<1> DEFINE P1 == Record(P, "latency", a, ms)
           R1 == Record(R, "latency", a, ms)
           P2 == Record(P1, "cost", a, RunCost)
           R2 == Record(R1, "cost", a, RunCost)
<1>1. "latency" \in Series /\ "cost" \in Series BY DEF Series
<1>2. ms \in Nat /\ RunCost \in Nat BY ValuesAssumption
<1>3. AllGood(P1, R1) BY <1>1, <1>2, RecordKeeps
<1> HIDE DEF P1, R1
<1>4. AllGood(P2, R2) BY <1>1, <1>2, <1>3, RecordKeeps
<1> HIDE DEF P2, R2
<1>5. AllGood(RecordOutcome(P2, a, ok), RecordOutcome(R2, a, ok))
  BY <1>4, RecordOutcomeKeeps
<1> QED BY <1>5 DEF RecordRun, P2, R2, P1, R1

\* A trim leaves a shorter tail, drops only what is too old, and stops at a
\* point that is not.
LEMMA TrimKeeps ==
    ASSUME now \in Nat, latest \in Nat, now <= latest, NEW b, NEW r, Good(b, r)
    PROVE  /\ Good(Trim(b), r)
           /\ Trim(b) # <<>> => Recent(r[Len(r) - Len(Trim(b)) + 1])
<1> DEFINE t == Trim(b)
<1>1. /\ b \in Seq(Points) /\ r \in Seq(Points)
      /\ Len(b) \in Nat /\ Len(r) \in Nat /\ Len(b) <= Len(r)
  BY DEF Good
<1>2. PICK d \in 0..Len(b) :
         /\ t \in Seq(Points)
         /\ Len(t) = Len(b) - d
         /\ \A k \in 1..Len(b) - d : t[k] = b[d + k]
         /\ \A k \in 1..d : ~Recent(b[k])
         /\ d < Len(b) => Recent(b[d + 1])
  BY <1>1, TrimDropsOld
<1> HIDE DEF t
<1> DEFINE c == Len(r) - Len(b)
<1>3. c \in Nat /\ Len(r) - Len(t) = c + d /\ d \in Nat BY <1>1, <1>2
<1>4. \A k \in 1..Len(b) : b[k] = r[c + k] BY DEF Good
<1>5. \A k \in 1..c : FellOut(r[k]) BY DEF Good
<1>6. c + Len(b) = Len(r) BY <1>1
<1> HIDE DEF c
<1>7. \A k \in 1..Len(t) : t[k] = r[(Len(r) - Len(t)) + k]
  <2> TAKE k \in 1..Len(t)
  <2>1. d + k \in 1..Len(b) /\ k \in 1..Len(b) - d BY <1>1, <1>2
  <2>2. t[k] = b[d + k] /\ b[d + k] = r[c + (d + k)] BY <1>2, <1>4, <2>1
  <2>3. c + (d + k) = (Len(r) - Len(t)) + k BY <1>3, <2>1
  <2> QED BY <2>2, <2>3
<1>8. \A k \in 1..c + d : FellOut(r[k])
  <2> TAKE k \in 1..c + d
  <2>1. CASE k \in 1..c BY <1>5, <2>1
  <2>2. CASE k \in c + 1..c + d
    <3>1. k - c \in 1..d /\ k - c \in 1..Len(b) /\ c + (k - c) = k
      BY <1>1, <1>2, <1>3, <2>2
    <3>2. b[k - c] = r[k] /\ ~Recent(b[k - c]) BY <1>2, <1>4, <3>1
    <3>3. k \in 1..Len(r) BY <1>1, <1>3, <1>6, <2>2
    <3>4. r[k].at \in Nat BY <1>1, <3>3, PointTimes
    <3> QED BY <3>2, <3>4, WindowAssumption DEF Recent, FellOut
  <2> QED BY <1>3, <2>1, <2>2
<1>9. ASSUME t # <<>> PROVE Recent(r[Len(r) - Len(t) + 1])
  <2>1. Len(t) > 0 BY <1>2, <1>9
  <2>2. d < Len(b) /\ d + 1 \in 1..Len(b) BY <1>1, <1>2, <2>1
  <2>3. Len(r) - Len(t) + 1 = c + (d + 1) BY <1>3
  <2>4. b[d + 1] = r[c + (d + 1)] BY <1>4, <2>2
  <2> QED BY <1>2, <2>2, <2>3, <2>4
<1>10. Good(t, r)
  <2>1. Len(t) <= Len(r) BY <1>1, <1>2
  <2>2. \A k \in 1..Len(r) - Len(t) : FellOut(r[k]) BY <1>3, <1>8
  <2> QED BY <1>1, <1>2, <1>7, <2>1, <2>2 DEF Good
<1> QED BY <1>9, <1>10 DEF t

LEMMA TrimAllKeeps ==
    ASSUME now \in Nat, latest \in Nat, now <= latest,
           NEW P, NEW R, AllGood(P, R)
    PROVE  AllGood(TrimAll(P), R)
<1>1. \A s \in Series : Good(Trim(P[s]), R[s]) BY TrimKeeps DEF AllGood
<1>2. \A s \in Series : Trim(P[s]) \in Seq(Points) BY <1>1 DEF Good
<1> QED BY <1>1, <1>2 DEF AllGood, TrimAll

\* What such a trim leaves is what ReadsWindow says of one series.
WindowOf(t, r) ==
    LET cut == Len(r) - Len(t)
    IN  /\ cut >= 0
        /\ \A k \in 1..Len(t) : t[k] = r[cut + k]
        /\ \A k \in 1..cut : FellOut(r[k])
        /\ \A k \in DOMAIN r : k > cut => \E j \in 1..k : Recent(r[j])
        /\ /\ now = latest
           /\ \A j, k \in DOMAIN r : j <= k => r[j].at <= r[k].at
           => \A k \in DOMAIN r : Recent(r[k]) <=> k > cut

LEMMA TrimShows ==
    ASSUME now \in Nat, latest \in Nat, now <= latest, NEW b, NEW r, Good(b, r)
    PROVE  WindowOf(Trim(b), r)
<1> DEFINE t == Trim(b)
           cut == Len(r) - Len(t)
<1>1. Good(t, r) /\ (t # <<>> => Recent(r[cut + 1])) BY TrimKeeps
<1> HIDE DEF t
<1>2. /\ t \in Seq(Points) /\ r \in Seq(Points) /\ DOMAIN r = 1..Len(r)
      /\ Len(t) \in Nat /\ Len(r) \in Nat /\ Len(t) <= Len(r)
      /\ \A k \in 1..Len(t) : t[k] = r[cut + k]
      /\ \A k \in 1..cut : FellOut(r[k])
  BY <1>1 DEF Good
<1>3. cut \in Nat /\ cut <= Len(r) BY <1>2
<1>4. ASSUME NEW k \in 1..Len(r), k > cut
      PROVE  cut + 1 \in 1..k /\ cut + 1 \in 1..Len(r) /\ Recent(r[cut + 1])
  <2>1. cut + 1 \in 1..k /\ cut + 1 \in 1..Len(r) BY <1>2, <1>3, <1>4
  <2>2. t # <<>> BY <1>2, <1>4
  <2> QED BY <1>1, <2>1, <2>2
<1>5. \A k \in 1..Len(r) : r[k].at \in Nat BY <1>2, PointTimes
<1> HIDE DEF cut
<1>6. ASSUME now = latest,
             \A j, k \in 1..Len(r) : j <= k => r[j].at <= r[k].at,
             NEW k \in 1..Len(r)
      PROVE  Recent(r[k]) <=> k > cut
  <2>1. CASE k > cut
    <3>1. cut + 1 \in 1..Len(r) /\ cut + 1 <= k /\ Recent(r[cut + 1])
      BY <1>3, <1>4, <2>1
    <3>2. r[cut + 1].at <= r[k].at BY <1>6, <3>1
    <3>3. r[cut + 1].at \in Nat /\ r[k].at \in Nat BY <1>5, <3>1
    <3> QED BY <2>1, <3>1, <3>2, <3>3, WindowAssumption DEF Recent
  <2>2. CASE ~(k > cut)
    <3>1. k \in 1..cut BY <1>3, <2>2
    <3>2. FellOut(r[k]) /\ r[k].at \in Nat BY <1>2, <1>5, <3>1
    <3> QED BY <1>6, <2>2, <3>2, WindowAssumption DEF Recent, FellOut
  <2> QED BY <2>1, <2>2
<1>7. cut >= 0 BY <1>3
<1>8. \A k \in 1..Len(r) : k > cut => \E j \in 1..k : Recent(r[j]) BY <1>4
<1>9. /\ \A k \in 1..Len(t) : t[k] = r[cut + k]
      /\ \A k \in 1..cut : FellOut(r[k])
  BY <1>2
<1> QED BY <1>2, <1>6, <1>7, <1>8, <1>9 DEF WindowOf, cut, t

\* However the clock is set, what fell out of a window did.
LEMMA ClockKeeps ==
    ASSUME latest \in Nat, AllGood(points, recorded),
           NEW t \in Nat, ClockMoves(t)
    PROVE  AllGood(points, recorded)'
<1>1. /\ points' = points /\ recorded' = recorded
      /\ latest' \in Nat /\ latest <= latest'
  BY DEF ClockMoves
<1>2. ASSUME NEW s \in Series PROVE Good(points[s], recorded[s])'
  <2> DEFINE b == points[s]
             r == recorded[s]
  <2>1. Good(b, r) /\ r \in Seq(Points) BY DEF AllGood, Good
  <2>2. b' = b /\ r' = r BY <1>1
  <2>3. \A k \in 1..Len(r) - Len(b) : k \in 1..Len(r) /\ FellOut(r[k])
    <3>1. Len(b) \in Nat /\ Len(r) \in Nat BY <2>1 DEF Good
    <3>2. \A k \in 1..Len(r) - Len(b) : FellOut(r[k]) BY <2>1 DEF Good
    <3> HIDE DEF b, r
    <3>3. \A k \in 1..Len(r) - Len(b) : k \in 1..Len(r) BY <3>1
    <3> QED BY <3>2, <3>3
  <2> HIDE DEF b, r
  <2>4. \A k \in 1..Len(r) - Len(b) : r[k].at + Window < latest'
    <3> TAKE k \in 1..Len(r) - Len(b)
    <3>1. r[k].at \in Nat BY <2>1, <2>3, PointTimes
    <3> QED BY <1>1, <2>3, <3>1, WindowAssumption DEF FellOut
  <2>5. Good(b, r)' BY <1>1, <2>1, <2>2, <2>4 DEF Good, FellOut
  <2> QED BY <2>5 DEF b, r
<1> QED BY <1>1, <1>2 DEF AllGood

LEMMA InitInv == Init => Inv
<1> SUFFICES ASSUME Init PROVE Inv OBVIOUS
<1>1. Good(<<>>, <<>>) BY DEF Good
<1>2. AllGood(points, recorded) BY <1>1 DEF Init, AllGood
<1> QED BY <1>2, BoundsAssumption, SnapshotsAssumption DEF Init, Inv

LEMMA RememberKeeps ==
    ASSUME snapshots \in Seq(Snapshots), Len(snapshots) <= MaxSnapshots,
           NEW snap \in Snapshots
    PROVE  /\ Remember(snap) \in Seq(Snapshots)
           /\ Len(Remember(snap)) <= MaxSnapshots
<1> USE SnapshotsAssumption
<1>1. Len(snapshots) \in Nat OBVIOUS
<1>2. CASE Len(snapshots) < MaxSnapshots BY <1>1, <1>2 DEF Remember
<1>3. CASE ~(Len(snapshots) < MaxSnapshots)
  <2>1. snapshots # <<>> BY <1>1, <1>3
  <2>2. Tail(snapshots) \in Seq(Snapshots)
        /\ Len(Tail(snapshots)) = Len(snapshots) - 1
    BY <2>1, HeadTailProperties
  <2>3. Append(Tail(snapshots), snap) \in Seq(Snapshots)
        /\ Len(Append(Tail(snapshots), snap)) = Len(snapshots)
    BY <1>1, <2>2
  <2> QED BY <1>3, <2>3 DEF Remember
<1> QED BY <1>2, <1>3

LEMMA NextInv == Inv /\ [Next]_vars => Inv'
<1> SUFFICES ASSUME Inv, [Next]_vars PROVE Inv' OBVIOUS
<1>0. /\ now \in 0..MaxTime /\ now \in Nat
      /\ latest \in 0..MaxTime /\ latest \in Nat /\ now <= latest
      /\ snapshots \in Seq(Snapshots) /\ Len(snapshots) <= MaxSnapshots
      /\ AllGood(points, recorded)
  BY DEF Inv
\* While the clock stands, the condition on the buffers is one on the pair
\* of them.
<1>1. ASSUME latest' = latest, AllGood(points', recorded')
      PROVE  AllGood(points, recorded)'
  BY <1>1 DEF AllGood, Good, FellOut
<1>2. ASSUME NEW a \in Agents, NEW snap \in Snapshots, NEW ms \in Latencies,
             RecordExecution(a, snap, ms)
      PROVE  Inv'
  <2>1. snap.ok \in BOOLEAN BY ValuesAssumption
  <2>2. AllGood(points', recorded')
    BY <1>0, <1>2, <2>1, RecordRunKeeps DEF RecordExecution
  <2>3. now' = now /\ latest' = latest /\ snapshots' = Remember(snap)
    BY <1>2 DEF RecordExecution
  <2>4. /\ snapshots' \in Seq(Snapshots) /\ Len(snapshots') <= MaxSnapshots
    BY <1>0, <2>3, RememberKeeps
  <2> QED BY <1>0, <1>1, <2>2, <2>3, <2>4 DEF Inv
<1>3. ASSUME NEW a \in Agents, NEW ms \in Latencies, RecordLatency(a, ms)
      PROVE  Inv'
  <2>1. "latency" \in Series /\ ms \in Nat BY ValuesAssumption DEF Series
  <2>2. AllGood(points', recorded')
    BY <1>0, <1>3, <2>1, RecordKeeps DEF RecordLatency
  <2>3. now' = now /\ latest' = latest /\ snapshots' = snapshots
    BY <1>3 DEF RecordLatency
  <2> QED BY <1>0, <1>1, <2>2, <2>3 DEF Inv
<1>4. ASSUME NEW a \in Agents, NEW ok \in BOOLEAN,
             RecordSuccessOrFailure(a, ok)
      PROVE  Inv'
  <2>1. AllGood(points', recorded')
    BY <1>0, <1>4, RecordOutcomeKeeps DEF RecordSuccessOrFailure
  <2>2. now' = now /\ latest' = latest /\ snapshots' = snapshots
    BY <1>4 DEF RecordSuccessOrFailure
  <2> QED BY <1>0, <1>1, <2>1, <2>2 DEF Inv
<1>5. CASE Read
  <2>1. AllGood(points', recorded') BY <1>0, <1>5, TrimAllKeeps DEF Read
  <2>2. now' = now /\ latest' = latest /\ snapshots' = snapshots
    BY <1>5 DEF Read
  <2> QED BY <1>0, <1>1, <2>1, <2>2 DEF Inv
<1>6. ASSUME NEW t \in 0..MaxTime, ClockMoves(t) PROVE Inv'
  <2>1. AllGood(points, recorded)'
    <3>1. t \in Nat OBVIOUS
    <3> QED BY <1>0, <1>6, <3>1, ClockKeeps
  <2>2. /\ now' \in 0..MaxTime /\ latest' \in 0..MaxTime /\ now' <= latest'
        /\ snapshots' = snapshots
    BY <1>0, <1>6, BoundsAssumption DEF ClockMoves
  <2> QED BY <1>0, <2>1, <2>2 DEF Inv
<1>7. CASE UNCHANGED vars
  <2>1. /\ now' = now /\ points' = points /\ recorded' = recorded
        /\ snapshots' = snapshots /\ latest' = latest
    BY <1>7 DEF vars
  <2>2. AllGood(points', recorded') BY <1>0, <2>1
  <2> QED BY <1>0, <1>1, <2>1, <2>2 DEF Inv
<1> QED BY <1>2, <1>3, <1>4, <1>5, <1>6, <1>7 DEF Next

\* The buffers, the snapshots and the clock keep their types; the deque of
\* snapshots keeps its bound.
THEOREM TypeCorrect == Spec => []TypeOK
<1>1. Inv => TypeOK BY InvMeaning
<1> QED BY <1>1, InitInv, NextInv, PTL DEF Spec

\* However the wall clock is set, and whenever the reads come: a getter of the
\* buffers loses no point before it fell out of the window, shows one that is
\* too old only behind one that is not, and shows exactly the window while the
\* clock is not set back.
THEOREM ReadsAreOfWindow == Spec => []ReadsWindow
<1>1. Inv => ReadsWindow
  <2> SUFFICES ASSUME Inv, NEW s \in Series
               PROVE  WindowOf(TrimAll(points)[s], recorded[s])
    BY DEF ReadsWindow, WindowOf, Shown, InTimeOrder
  <2>1. /\ now \in Nat /\ latest \in Nat /\ now <= latest
        /\ Good(points[s], recorded[s])
    BY DEF Inv, AllGood
  <2>2. TrimAll(points)[s] = Trim(points[s]) BY DEF TrimAll
  <2> QED BY <2>1, <2>2, TrimShows
<1> QED BY <1>1, InitInv, NextInv, PTL DEF Spec
=============================================================================
