---------------------------- MODULE CanaryTester ----------------------------
(***************************************************************************)
(* src/src/observability/canary.py: CanaryTester, which routes a share of  *)
(* the tasks to candidates, compares and decides.                          *)
(*                                                                         *)
(* start_canary drops the candidate's function, so that none is ever       *)
(* called and a task routed to a candidate always succeeds.  Averages are  *)
(* kept as sums.                                                           *)
(***************************************************************************)
EXTENDS Naturals, SequencesExt

CONSTANTS
    Candidates,   \* names of candidates
    NoCandidate,  \* where a task goes that no candidate takes: the baseline
    CanaryTasks,
    Bucket,       \* Bucket[t]: the hash of the task, modulo 100
    Percents,     \* traffic_percent of execute
    Elapsed,      \* milliseconds a routed task takes
    Baselines,    \* baseline metrics: [latency, failures], failures in percent
    DefaultBaseline,  \* what stands for metrics that were never given
    MaxRequests   \* bound: tasks routed to one candidate

ASSUME CanaryAssumption ==
    /\ NoCandidate \notin Candidates
    /\ Bucket \in [CanaryTasks -> 0..99]
    /\ Percents \subseteq Nat /\ Elapsed \subseteq Nat /\ MaxRequests \in Nat
    /\ Baselines \subseteq [latency : Nat, failures : Nat]
    /\ DefaultBaseline \in Baselines

VARIABLES
    active,    \* the keys of _candidates, in insertion order
    stats,     \* the CanaryResult of each
    baseline   \* _baseline_metrics

canaryVars == <<active, stats, baseline>>

\* The result a candidate starts with.
Fresh == [total |-> 0, latency |-> 0, verdict |-> "none"]

Verdicts == {"none", "no requests", "latency", "failures", "passed",
             "rolled back"}
Ranks(name) == {k \in DOMAIN active : active[k] = name}

Active(name) == Ranks(name) # {}

CanaryInit ==
    /\ active = <<>>
    /\ stats = [n \in Candidates |-> Fresh]
    /\ baseline = DefaultBaseline
-----------------------------------------------------------------------------
Enter_First(name) == <<name>> \o active     \* faulty: newest first
Enter(name) == Append(active, name)

\* start_canary raises ValueError for a name in use.  The percentage is not
\* kept either.
StartCanary(name) ==
    /\ ~Active(name)
    /\ active' = Enter(name)
    /\ stats' = [stats EXCEPT ![name] = Fresh]
    /\ UNCHANGED baseline

\* _should_route_to_canary.  execute pops the percentage from its arguments
\* for the first candidate; the others get the default of 10.
Takes(k, task, percent) ==
    Bucket[task] < IF k = 1 THEN percent ELSE 10

\* The candidate a task goes to.
RouteToCanary(names, task, percent) ==
    LET takers == {k \in DOMAIN names : Takes(k, task, percent)}
    IN  IF takers = {} THEN NoCandidate
        ELSE names[CHOOSE k \in takers : \A j \in takers : k <= j]

\* execute: it looks for an attribute _fn of the result, which nothing ever
\* sets, and counts a success; the baseline's own execution leaves no trace here.
CanaryExecute(task, percent, ms) ==
    LET name == RouteToCanary(active, task, percent)
    IN  /\ name # NoCandidate
        /\ stats[name].total < MaxRequests
        /\ stats' = [stats EXCEPT
               ![name].total = @ + 1,
               ![name].latency = @ + ms]
        /\ UNCHANGED <<active, baseline>>

\* latency_ratio > 1.2; no latency to compare with counts as a regression.
LatencyRegressed(s) ==
    \/ baseline.latency = 0
    \/ 10 * s.latency > 12 * baseline.latency * s.total

\* failure_ratio > 1.5: no candidate ever fails, but a baseline without
\* failures makes the ratio 999.
FailuresRegressed == baseline.failures = 0

Verdict(s) ==
    CASE s.total = 0 -> "no requests"
      [] s.total > 0 /\ LatencyRegressed(s) -> "latency"
      [] s.total > 0 /\ ~LatencyRegressed(s) /\ FailuresRegressed -> "failures"
      [] OTHER -> "passed"

EvaluateAndMaybePromote(name) ==
    /\ Active(name)
    /\ stats' = [stats EXCEPT ![name].verdict = Verdict(stats[name])]
    /\ UNCHANGED <<active, baseline>>

\* promote removes the candidate, whatever its evaluation said.
Promote(name) ==
    /\ \E k \in Ranks(name) : active' = RemoveAt(active, k)
    /\ UNCHANGED <<stats, baseline>>

\* rollback marks the candidate and leaves it where it is.
Rollback(name) ==
    /\ Active(name)
    /\ stats' = [stats EXCEPT ![name].verdict = "rolled back"]
    /\ UNCHANGED <<active, baseline>>

UpdateBaselineMetrics(b) ==
    /\ baseline' = b
    /\ UNCHANGED <<active, stats>>

CanaryNext ==
    \/ \E n \in Candidates : StartCanary(n)
    \/ \E t \in CanaryTasks, p \in Percents \cup {10}, ms \in Elapsed :
          CanaryExecute(t, p, ms)
    \/ \E n \in Candidates :
          EvaluateAndMaybePromote(n) \/ Promote(n) \/ Rollback(n)
    \/ \E b \in Baselines : UpdateBaselineMetrics(b)

CanarySpec == CanaryInit /\ [][CanaryNext]_canaryVars
-----------------------------------------------------------------------------
(* Properties *)

\* A task moves to another candidate, or to or from the baseline, only when a
\* new one takes it from the baseline, when its own is removed, or when its own
\* becomes the first and the share of the caller, which only the first is
\* asked with, is too small for it.
RoutesStable ==
    [][\A t \in CanaryTasks, p \in Percents \cup {10} :
          LET before == RouteToCanary(active, t, p)
              after == RouteToCanary(active', t, p)
              stays == \E k \in DOMAIN active' : active'[k] = before
          IN  before # after =>
                \/ before = NoCandidate /\ after = active'[Len(active')]
                \/ before # NoCandidate /\ ~stays
                \/ before # active[1] /\ before = active'[1] /\ p <= Bucket[t]
      ]_canaryVars
=============================================================================
