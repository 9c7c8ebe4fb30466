-------------------------- MODULE MetricsCollector --------------------------
(***************************************************************************)
(* src/src/observability/metrics.py: MetricsCollector, rolling windows     *)
(* over the points recorded in the last Window seconds.                    *)
(*                                                                         *)
(* A buffer is trimmed only when something is read, from its head and no   *)
(* further than the first point that is young enough.  Times are those of  *)
(* the wall clock, which may also be set back.  The buffers of tokens and  *)
(* iterations are handled like the one of costs and left out.              *)
(***************************************************************************)
EXTENDS Integers, Sequences, FiniteSets

CONSTANTS
    Window,        \* window_seconds
    MaxSnapshots,  \* maxlen of _snapshots
    Agents,        \* agent types; the middleware records under "http"
    Latencies,     \* latencies, in milliseconds
    Snapshots,     \* executions: ok, and loops (iterations > threshold)
    RunCost,       \* cost of one execution
    MaxTime,       \* bound: last second of a run
    MaxPoints      \* bound: points recorded in one series

ASSUME WindowAssumption == Window \in Nat
ASSUME SnapshotsAssumption == MaxSnapshots \in Nat \ {0}
ASSUME ValuesAssumption ==
    /\ Latencies \subseteq Nat /\ RunCost \in Nat
    /\ Snapshots \subseteq [ok : BOOLEAN, loops : BOOLEAN]
ASSUME BoundsAssumption == MaxTime \in Nat /\ MaxPoints \in Nat

VARIABLES
    now,        \* time.time()
    points,     \* the deques of points, one per series
    snapshots,  \* _snapshots
    recorded,   \* history: every point ever recorded, untrimmed
    latest      \* history: the latest time the clock has shown

vars == <<now, points, snapshots, recorded, latest>>

Series == {"latency", "cost", "success", "failure"}
Points == [at : Nat, agent : Agents, value : Nat]

Recent(p) == p.at + Window >= now
-----------------------------------------------------------------------------
(* The methods, as operators on the buffers. *)

\* _trim on one buffer: pop the head while it is too old.
Trim(buf) ==
    LET keep == {k \in DOMAIN buf : Recent(buf[k])}
    IN  IF keep = {} THEN <<>>
        ELSE SubSeq(buf, CHOOSE k \in keep : \A j \in keep : k <= j, Len(buf))

TrimAll_Split(P) ==   \* faulty: the failures are forgotten
    [s \in Series |-> IF s = "failure" THEN P[s] ELSE Trim(P[s])]

TrimAll(P) == [s \in Series |-> Trim(P[s])]

\* P with one more point in the series s.
Record(P, s, agent, value) ==
    [P EXCEPT ![s] = Append(@, [at |-> now, agent |-> agent, value |-> value])]

RecordOutcome(P, agent, ok) ==
    Record(P, IF ok THEN "success" ELSE "failure", agent, 1)

\* record_execution: every point carries the same time.
RecordRun(P, agent, ok, ms) ==
    RecordOutcome(Record(Record(P, "latency", agent, ms),
                         "cost", agent, RunCost), agent, ok)

\* _snapshots.append: a full deque drops its oldest entry.
Remember(snap) ==
    IF Len(snapshots) < MaxSnapshots THEN Append(snapshots, snap)
    ELSE Append(Tail(snapshots), snap)
-----------------------------------------------------------------------------
Init ==
    /\ now = 0
    /\ points = [s \in Series |-> <<>>]
    /\ snapshots = <<>>
    /\ recorded = [s \in Series |-> <<>>]
    /\ latest = 0

Room(s) == Len(recorded[s]) < MaxPoints

RecordExecution(agent, snap, ms) ==
    /\ Room("cost") /\ Room("latency") /\ Room("success") /\ Room("failure")
    /\ points' = RecordRun(points, agent, snap.ok, ms)
    /\ recorded' = RecordRun(recorded, agent, snap.ok, ms)
    /\ snapshots' = Remember(snap)
    /\ UNCHANGED <<now, latest>>

\* record_latency, record_success and record_failure.
RecordLatency(agent, ms) ==
    /\ Room("latency")
    /\ points' = Record(points, "latency", agent, ms)
    /\ recorded' = Record(recorded, "latency", agent, ms)
    /\ UNCHANGED <<now, snapshots, latest>>

RecordSuccessOrFailure(agent, ok) ==
    /\ Room("success") /\ Room("failure")
    /\ points' = RecordOutcome(points, agent, ok)
    /\ recorded' = RecordOutcome(recorded, agent, ok)
    /\ UNCHANGED <<now, snapshots, latest>>

\* A getter of the buffers trims all of them first.  So does get_throughput,
\* but what it divides by the window is the number of snapshots, which no trim
\* removes.
Read ==
    /\ points' = TrimAll(points)
    /\ UNCHANGED <<now, snapshots, recorded, latest>>

\* time.time() is the wall clock: time passes, or the clock is set.
ClockMoves(t) ==
    /\ t # now
    /\ now' = t
    /\ latest' = IF t > latest THEN t ELSE latest
    /\ UNCHANGED <<points, snapshots, recorded>>

Next ==
    \/ \E a \in Agents, snap \in Snapshots, ms \in Latencies :
          RecordExecution(a, snap, ms)
    \/ \E a \in Agents, ms \in Latencies : RecordLatency(a, ms)
    \/ \E a \in Agents, ok \in BOOLEAN : RecordSuccessOrFailure(a, ok)
    \/ Read
    \/ \E t \in 0..MaxTime : ClockMoves(t)

Spec == Init /\ [][Next]_vars
-----------------------------------------------------------------------------
(* Properties *)

TypeOK ==
    /\ now \in 0..MaxTime /\ latest \in 0..MaxTime
    /\ points \in [Series -> Seq(Points)]
    /\ recorded \in [Series -> Seq(Points)]
    /\ snapshots \in Seq(Snapshots) /\ Len(snapshots) <= MaxSnapshots

\* The point was too old for the window of some moment.
FellOut(p) == p.at + Window < latest

\* The clock was not set back while the series was recorded, nor since.
InTimeOrder(s) ==
    /\ now = latest
    /\ \A j, k \in DOMAIN recorded[s] :
          j <= k => recorded[s][j].at <= recorded[s][k].at

\* The points of a series that the clock may show: those in the window, and
\* those recorded behind one of them.
Shown(s) == {k \in DOMAIN recorded[s] :
                \E j \in 1..k : Recent(recorded[s][j])}

\* What a reader sees, after the trim its getter makes, is the end of what was
\* recorded, whenever the earlier trims happened and however the clock is set:
\* no point is lost before it fell out of the window, and a point that is too
\* old is counted only behind one that is not, which only a clock set back
\* between the two can do.  Where the clock was not set back, it is exactly the
\* points of the window.
ReadsWindow ==
    \A s \in Series :
        LET seen == TrimAll(points)[s]
            cut == Len(recorded[s]) - Len(seen)
        IN  /\ cut >= 0
            /\ \A k \in 1..Len(seen) : seen[k] = recorded[s][cut + k]
            /\ \A k \in 1..cut : FellOut(recorded[s][k])
            /\ \A k \in DOMAIN recorded[s] : k > cut => k \in Shown(s)
            /\ InTimeOrder(s) =>
                  \A k \in DOMAIN recorded[s] :
                      Recent(recorded[s][k]) <=> k > cut

\* Why: a buffer is the end of what was recorded, and everything that was
\* dropped from it had fallen out of the window.
BufferIsTail(s) ==
    LET cut == Len(recorded[s]) - Len(points[s])
    IN  /\ cut >= 0
        /\ \A k \in 1..Len(points[s]) : points[s][k] = recorded[s][cut + k]
        /\ \A k \in 1..cut : FellOut(recorded[s][k])

WindowComplete == now <= latest /\ \A s \in Series : BufferIsTail(s)
=============================================================================
