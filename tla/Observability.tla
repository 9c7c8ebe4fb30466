---------------------------- MODULE Observability ----------------------------
(***************************************************************************)
(* src/src/observability/middleware.py: ObservabilityMiddleware around the *)
(* endpoints of src/src/main.py, composing MetricsCollector, AlertEngine   *)
(* and the span of src/src/observability/tracer.py: TracerManager.         *)
(*                                                                         *)
(* dispatch awaits the endpoint (call_next); the endpoint and the part of  *)
(* dispatch after it each run without an await.  Requests are therefore    *)
(* interleaved at two points: before the endpoint and after it.            *)
(* Acknowledging is AlertEngine's own and commutes with all this.          *)
(***************************************************************************)
EXTENDS Naturals, Sequences, FiniteSets

CONSTANTS
    Requests,      \* the observed requests of a run
    Environments,  \* sets of tracing services the environment may name
    Installed,     \* those whose packages can be imported
    CustomRules,   \* rules registered after the default ones
    EvalEvery,     \* alerts are evaluated at multiples of so many executions
    StartTime,     \* first second of a run
    Cooldown,      \* cooldown_seconds of the default rules
    SlowMs,        \* threshold of high_latency
    CostLimit,     \* threshold of cost_spike
    Window, MaxSnapshots, Latencies, Snapshots, RunCost,
    MaxTime        \* of the collector

ASSUME EvalAssumption == EvalEvery \in Nat \ {0} /\ MaxSnapshots % EvalEvery = 0
ASSUME TimeAssumption == StartTime \in Nat /\ Cooldown \in 0..StartTime
ASSUME ThresholdAssumption == SlowMs \in Nat /\ CostLimit \in Nat
ASSUME RequestsAssumption == IsFiniteSet(Requests)
ASSUME RulesAssumption ==
    /\ CustomRules \in Seq({CustomRules[k] : k \in DOMAIN CustomRules})
    /\ \A k \in DOMAIN CustomRules : CustomRules[k].cooldown \in 0..StartTime
ASSUME CollectorAssumption ==
    /\ Window \in Nat /\ MaxTime \in Nat /\ MaxSnapshots \in Nat \ {0}
    /\ Latencies \subseteq Nat /\ RunCost \in Nat
    /\ Snapshots \subseteq [ok : BOOLEAN, loops : BOOLEAN]

VARIABLES now, points, snapshots, recorded, latest   \* the collector
VARIABLES rules, alerts, lastFired           \* the engine
VARIABLE provider               \* the tracer's
VARIABLES
    pc,         \* where the dispatch of each request is
    response,   \* "ok" (status < 400) or "error", once the endpoint answered
    sinceEval,  \* history: executions since the last evaluation
    disturbed   \* history: what happened of "overlap" (requests were in flight
                \* together) and "lost" (the answer of a recorded execution)

collectorVars == <<points, snapshots, recorded>>
alertVars == <<rules, alerts, lastFired>>
vars == <<now, latest, collectorVars, alertVars, provider, pc, response, sinceEval,
          disturbed>>

DefaultRules ==
    LET rule(n) == [name |-> n, cooldown |-> Cooldown, formats |-> TRUE]
    IN  <<rule("excessive_loops"), rule("high_failure_rate"),
          rule("high_latency"), rule("cost_spike"), rule("no_heartbeat")>>

AllRules == DefaultRules \o CustomRules

Collector == INSTANCE MetricsCollector
                 WITH Agents <- {"react", "http"},
                      MaxPoints <- 3 * Cardinality(Requests)

Engine == INSTANCE AlertEngine
              WITH clock <- now,
                   Rules <- {AllRules[k] : k \in DOMAIN AllRules},
                   Times <- StartTime..MaxTime,
                   MaxAlerts <- 6 * Cardinality(Requests)

\* TracerManager.__init__: LangSmith goes first, and when it cannot be imported
\* Phoenix is not tried.
Provider(configured) ==
    LET chosen == IF "langsmith" \in configured THEN "langsmith" ELSE "phoenix"
    IN  IF chosen \in configured \cap Installed THEN chosen ELSE "none"

Init ==
    /\ provider \in {Provider(e) : e \in Environments}
    /\ now = StartTime
    /\ points = [s \in Collector!Series |-> <<>>]
    /\ snapshots = <<>>
    /\ recorded = [s \in Collector!Series |-> <<>>]
    /\ latest = StartTime
    /\ Engine!InitEngine(AllRules)
    /\ pc = [q \in Requests |-> "idle"]
    /\ response = [q \in Requests |-> "none"]
    /\ sinceEval = 0
    /\ disturbed = {}
-----------------------------------------------------------------------------
(* The summary and the checks of the default rules on it. *)

\* vals[len(vals) * 95 // 100] of the sorted values, 0 when there are none.
P95(buf) ==
    IF buf = <<>> THEN 0
    ELSE LET index == (Len(buf) * 95) \div 100
             below(v) == Cardinality({k \in DOMAIN buf : buf[k].value < v})
             upTo(v) == Cardinality({k \in DOMAIN buf : buf[k].value <= v})
         IN  CHOOSE v \in {buf[k].value : k \in DOMAIN buf} :
                 below(v) <= index /\ index < upTo(v)

\* get_success_rate() < 0.8; without any outcome the rate is 1.
BelowEighty(ok, bad) == 5 * ok < 4 * (ok + bad)

Holds(P, snaps) ==
    {n \in Engine!RuleNames :
        \/ n = "excessive_loops" /\ \E k \in DOMAIN snaps : snaps[k].loops
        \/ /\ n = "high_failure_rate"
           /\ BelowEighty(Len(P["success"]), Len(P["failure"]))
        \/ n = "high_latency" /\ P95(P["latency"]) > SlowMs
        \/ n \in {"cost_spike", "budget_exceeded"}
           /\ Len(P["cost"]) * RunCost > CostLimit
        \/ n = "no_heartbeat" /\ snaps = <<>>}
-----------------------------------------------------------------------------
InFlight(q) == pc[q] \in {"calling", "answered", "raised"}

\* tracer.trace: the null span can be entered.  Those of the providers are
\* plain generators, without the decorator that makes a context manager of
\* one: the with statement raises.
SpanEntered == provider = "none"

\* dispatch, up to call_next.
Dispatch(q) ==
    /\ pc[q] = "idle"
    /\ SpanEntered
    /\ pc' = [pc EXCEPT ![q] = "calling"]
    /\ disturbed' = disturbed \cup
                    {x \in {"overlap"} : \E r \in Requests : InFlight(r)}
    /\ UNCHANGED <<now, latest, collectorVars, alertVars, response, sinceEval>>

\* The span is entered before the try: the exception goes to the client, and
\* nothing is recorded.
DispatchRaises(q) ==
    /\ pc[q] = "idle"
    /\ ~SpanEntered
    /\ pc' = [pc EXCEPT ![q] = "refused"]
    /\ UNCHANGED <<now, latest, collectorVars, alertVars, response, sinceEval,
                   disturbed>>

\* POST /api/agents/react: the one endpoint that records an execution.  It
\* answers 200 also when the agent failed.  A confidence that is NaN cannot be
\* encoded: the execution is recorded and its answer raises.
RunReact(q, snap, encodable) ==
    /\ pc[q] = "calling"
    /\ points' = Collector!RecordRun(points, "react", snap.ok, 100)
    /\ recorded' = Collector!RecordRun(recorded, "react", snap.ok, 100)
    /\ snapshots' = Collector!Remember(snap)
    /\ sinceEval' = sinceEval + 1
    /\ pc' = [pc EXCEPT ![q] = IF encodable THEN "answered" ELSE "raised"]
    /\ response' = [response EXCEPT ![q] = IF encodable THEN "ok" ELSE "none"]
    /\ disturbed' = disturbed \cup {x \in {"lost"} : ~encodable}
    /\ UNCHANGED <<now, latest, alertVars>>

\* Any other observed endpoint, and a refused request (401, 403, 422, ...).
RunOther(q, answer) ==
    /\ pc[q] = "calling"
    /\ pc' = [pc EXCEPT ![q] = "answered"]
    /\ response' = [response EXCEPT ![q] = answer]
    /\ UNCHANGED <<now, latest, collectorVars, alertVars, sinceEval, disturbed>>

\* An exception the application does not turn into a response.
EndpointRaises(q) ==
    /\ pc[q] = "calling"
    /\ pc' = [pc EXCEPT ![q] = "raised"]
    /\ UNCHANGED <<now, latest, collectorVars, alertVars, response, sinceEval,
                   disturbed>>

\* faulty: counts the executions that are left in the window
TimeToEvaluate_Window == Len(points["cost"]) % EvalEvery = 0

\* self.metrics.total_executions % 10 == 0, read after the await.
TimeToEvaluate == Len(snapshots) % EvalEvery = 0

Failed_Quiet(P) == P       \* faulty: the except clause records nothing

Failed(P) == Collector!RecordOutcome(P, "http", FALSE)

\* A rule comes up for firing whose message cannot be formatted: evaluate
\* raises.
EvaluationBreaks(holds) ==
    \E k \in DOMAIN rules : /\ rules[k].name \in holds
                            /\ ~Engine!InCooldown(rules[k])
                            /\ ~rules[k].formats

\* dispatch after call_next: the outcome is recorded, and the alerts are
\* evaluated on the trimmed buffers if the count of executions says so.  What
\* evaluate raises is caught with what the endpoint raises: a second outcome
\* of the same request, whose answer is then lost ("spoiled").
Finish(q, ms) ==
    LET Recorded(P) == Collector!RecordOutcome(
                           Collector!Record(P, "latency", "http", ms),
                           "http", response[q] = "ok")
        trimmed == Collector!TrimAll(Recorded(points))
        holds == Holds(trimmed, snapshots)
        breaks == TimeToEvaluate /\ EvaluationBreaks(holds)
    IN  /\ pc[q] = "answered"
        /\ recorded' = IF breaks THEN Failed(Recorded(recorded))
                       ELSE Recorded(recorded)
        /\ pc' = [pc EXCEPT ![q] = IF breaks THEN "spoiled" ELSE "done"]
        /\ IF TimeToEvaluate
           THEN /\ points' = IF breaks THEN Failed(trimmed) ELSE trimmed
                /\ Engine!Evaluate(holds)
                /\ sinceEval' = 0
           ELSE /\ points' = Recorded(points)
                /\ UNCHANGED <<now, alertVars, sinceEval>>
        /\ UNCHANGED <<latest, snapshots, response, disturbed>>

\* The except clause: a failure is recorded and the exception goes on.
FinishRaised(q) ==
    /\ pc[q] = "raised"
    /\ points' = Failed(points)
    /\ recorded' = Failed(recorded)
    /\ pc' = [pc EXCEPT ![q] = "done"]
    /\ UNCHANGED <<now, latest, snapshots, alertVars, response, sinceEval,
                   disturbed>>

\* GET /api/observability/metrics is not observed itself, but trims.
GetMetrics ==
    /\ Collector!Read
    /\ UNCHANGED <<alertVars, pc, response, sinceEval, disturbed>>

ClockMoves ==
    /\ \E t \in StartTime..MaxTime : Collector!ClockMoves(t)
    /\ UNCHANGED <<alertVars, pc, response, sinceEval, disturbed>>

Step ==
    \/ \E q \in Requests :
          \/ Dispatch(q)
          \/ DispatchRaises(q)
          \/ \E snap \in Snapshots, encodable \in BOOLEAN :
                RunReact(q, snap, encodable)
          \/ \E answer \in {"ok", "error"} : RunOther(q, answer)
          \/ EndpointRaises(q)
          \/ \E ms \in Latencies : Finish(q, ms)
          \/ FinishRaised(q)
    \/ GetMetrics
    \/ ClockMoves

Next == Step /\ UNCHANGED provider

Spec == Init /\ [][Next]_vars
-----------------------------------------------------------------------------
(* Properties *)

Over(how) == Cardinality({q \in Requests : pc[q] = how})

Outcomes ==
    LET http(s) == {k \in DOMAIN recorded[s] : recorded[s][k].agent = "http"}
    IN  Cardinality(http("success")) + Cardinality(http("failure"))

\* Every request that got as far as its endpoint is counted when it is over:
\* one outcome, and two exactly when the evaluation of the alerts took its
\* answer away.
OutcomeRecorded == Outcomes = Over("done") + 2 * Over("spoiled")

\* Every observed request is counted when it is over, whatever the tracer does.
EveryRequestCounted ==
    Outcomes >= Over("done") + Over("spoiled") + Over("refused")

\* "Evaluate alerts periodically": when no request is in flight, fewer than
\* EvalEvery executions are unevaluated, also after snapshots were discarded.
\* That is so until requests overlap, which may step over the multiple unseen,
\* or an answer is lost.  An evaluation that raised counts as one.
EvaluatedPeriodically ==
    disturbed = {} /\ (\A q \in Requests : ~InFlight(q)) => sinceEval < EvalEvery

\* An alert rests, at the moment it fires, on what was recorded in the window:
\* a failure, a slow request, enough cost.  A point that is too old counts only
\* behind one that is not, as for every reader of the collector.
AlertsJustified ==
    [][\A i \in DOMAIN alerts' \ DOMAIN alerts :
          LET name == alerts'[i].rule.name
              Evidence(s) == Collector!Shown(s)'
          IN  /\ name = "high_failure_rate" =>
                    \E k \in Evidence("failure") :
                        Collector!Recent(recorded["failure"][k])'
              /\ name = "cost_spike" =>
                    Cardinality(Evidence("cost")) * RunCost > CostLimit
              /\ name = "high_latency" =>
                    \E k \in Evidence("latency") :
                        recorded'["latency"][k].value > SlowMs]_vars
=============================================================================
