----------------------------- MODULE AlertEngine -----------------------------
(***************************************************************************)
(* src/src/observability/alerting.py: AlertEngine, rules that fire alerts. *)
(*                                                                         *)
(* evaluate has no await, so it is one action.  It reads time.time(), the  *)
(* wall clock: a correction of that clock may move it either way.          *)
(***************************************************************************)
EXTENDS Naturals, Sequences, FiniteSets

CONSTANTS
    Rules,      \* AlertRule objects: [name, cooldown, formats], where formats
                \* says that formatting the message raises nothing, or only
                \* what evaluate catches
    Times,      \* values of the clock
    MaxAlerts   \* bound: evaluations stop at this many alerts

RuleNames == {r.name : r \in Rules}

ASSUME RulesAssumption ==
    Rules \subseteq [name : RuleNames, cooldown : Nat, formats : BOOLEAN]
ASSUME TimesAssumption == Times \subseteq Nat

\* The epoch is long past: a rule that never fired (time 0) is not in cooldown.
ASSUME EpochAssumption == \A r \in Rules, t \in Times : r.cooldown <= t
ASSUME BoundAssumption == MaxAlerts \in Nat

VARIABLES
    clock,      \* time.time()
    rules,      \* _rules, in insertion order
    alerts,     \* _alerts
    lastFired   \* _last_fired, 0 for a rule that never fired

engineVars == <<rules, alerts, lastFired>>
alertEngineVars == <<clock, rules, alerts, lastFired>>

Alerts == [rule : Rules, at : Times, status : {"firing", "acknowledged"}]

InitEngine(R) ==
    /\ rules = R
    /\ alerts = <<>>
    /\ lastFired = [n \in RuleNames |-> 0]

AlertInit == clock \in Times /\ InitEngine(<<>>)
-----------------------------------------------------------------------------
\* A rule under a known name replaces the one it finds, in its place.
RegisterRule(r) ==
    /\ rules' = IF \E k \in DOMAIN rules : rules[k].name = r.name
                THEN [k \in DOMAIN rules |-> IF rules[k].name = r.name THEN r
                                             ELSE rules[k]]
                ELSE Append(rules, r)
    /\ UNCHANGED <<clock, alerts, lastFired>>

KeptTimes_Reset(n) == [lastFired EXCEPT ![n] = 0]   \* faulty: entry dropped

\* _last_fired keeps its entry: it outlives the rule.
KeptTimes(n) == lastFired

UnregisterRule(i) ==
    /\ i \in DOMAIN rules
    /\ rules' = [k \in 1..Len(rules) - 1 |-> IF k < i THEN rules[k]
                                             ELSE rules[k + 1]]
    /\ lastFired' = KeptTimes(rules[i].name)
    /\ UNCHANGED <<clock, alerts>>

InCooldown(r) == clock < lastFired[r.name] + r.cooldown

\* The positions of the rules that fire when the checks named in holds hold.
\* A message that cannot be formatted ends the evaluation: no rule behind it
\* is looked at, and its own time is not updated.
Reached(holds) ==
    LET due == {k \in DOMAIN rules : /\ rules[k].name \in holds
                                     /\ ~InCooldown(rules[k])}
    IN  {k \in due : \A j \in due : j <= k => rules[j].formats}

Increasing(f) == \A i, j \in DOMAIN f : i < j => f[i] < f[j]

NewAlerts(f) == [i \in DOMAIN f |-> [rule |-> rules[f[i]], at |-> clock,
                                     status |-> "firing"]]

Extend_Active(new) ==     \* faulty: acknowledged alerts are thrown away
    SelectSeq(alerts, LAMBDA x : x.status = "firing") \o new

Extend(new) == alerts \o new

\* evaluate: holds names the rules whose check_fn returned a true value; one
\* that raises counts as not holding.  What a handler raises is swallowed.
Evaluate(holds) ==
    /\ Len(alerts) < MaxAlerts
    /\ LET reached == Reached(holds)
       IN  /\ \E f \in [1..Cardinality(reached) -> reached] :
                 Increasing(f) /\ alerts' = Extend(NewAlerts(f))
           /\ lastFired' = [n \in RuleNames |->
                 IF \E k \in reached : rules[k].name = n THEN clock
                 ELSE lastFired[n]]
    /\ UNCHANGED <<clock, rules>>

\* acknowledge: by index, refused when there is no such alert.
Acknowledge(i) ==
    /\ i \in DOMAIN alerts
    /\ alerts' = [alerts EXCEPT ![i].status = "acknowledged"]
    /\ UNCHANGED <<clock, rules, lastFired>>

AlertClockMoves ==
    /\ clock' \in Times
    /\ UNCHANGED engineVars

AlertNext ==
    \/ \E r \in Rules : RegisterRule(r)
    \/ \E i \in DOMAIN rules : UnregisterRule(i)
    \/ \E holds \in SUBSET RuleNames : Evaluate(holds)
    \/ \E i \in DOMAIN alerts : Acknowledge(i)
    \/ AlertClockMoves

AlertSpec == AlertInit /\ [][AlertNext]_alertEngineVars
-----------------------------------------------------------------------------
(* Properties *)

UniqueNames == \A j, k \in DOMAIN rules : rules[j].name = rules[k].name => j = k

AlertTypeOK ==
    /\ clock \in Times
    /\ rules \in Seq(Rules) /\ UniqueNames
    /\ alerts \in Seq(Alerts)
    /\ lastFired \in [RuleNames -> Times \cup {0}]

\* Two alerts of one rule are at least its cooldown apart on the clock, also
\* when the rule was unregistered or replaced in between and when the clock
\* was set back.
CooldownRespected ==
    \A i, j \in DOMAIN alerts :
        /\ i < j
        /\ alerts[i].rule.name = alerts[j].rule.name
        => alerts[j].at >= alerts[i].at + alerts[j].rule.cooldown

\* Why: no alert is younger than the time remembered for its name.
Remembered ==
    \A i \in DOMAIN alerts : alerts[i].at <= lastFired[alerts[i].rule.name]

\* An index, once read, keeps meaning the same alert, and an acknowledged
\* alert never fires again: operators acknowledge by index.
IndexStable ==
    [][\A i \in DOMAIN alerts :
          /\ i \in DOMAIN alerts'
          /\ alerts'[i].rule = alerts[i].rule /\ alerts'[i].at = alerts[i].at
          /\ alerts[i].status = "acknowledged" =>
                alerts'[i].status = "acknowledged"]_alertEngineVars
=============================================================================
