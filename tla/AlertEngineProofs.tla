-------------------------- MODULE AlertEngineProofs --------------------------
(***************************************************************************)
(* Theorems about AlertEngine: its type invariant and the spacing of the   *)
(* alerts of one rule, for any rules, cooldowns and clock.                 *)
(***************************************************************************)
EXTENDS AlertEngine, TLAPS, FiniteSetTheorems, SequenceTheorems

LEMMA RuleTypes == \A r \in Rules : r.name \in RuleNames /\ r.cooldown \in Nat
<1> TAKE r \in Rules
<1>1. r.name \in RuleNames BY DEF RuleNames
<1>2. r \in [name : RuleNames, cooldown : Nat, formats : BOOLEAN]
  BY RulesAssumption
<1> QED BY <1>1, <1>2

\* Replacing a rule in place, or adding one under a new name, keeps the names
\* of the registered rules distinct.
LEMMA RegisterKeeps ==
    ASSUME NEW r \in Rules, rules \in Seq(Rules), UniqueNames, RegisterRule(r)
    PROVE  rules' \in Seq(Rules) /\ UniqueNames'
<1>1. CASE \E k \in DOMAIN rules : rules[k].name = r.name
  <2>1. rules' = [k \in DOMAIN rules |-> IF rules[k].name = r.name THEN r
                                         ELSE rules[k]]
    BY <1>1 DEF RegisterRule
  <2>2. rules' \in Seq(Rules) BY <2>1
  <2>3. DOMAIN rules' = DOMAIN rules /\ \A k \in DOMAIN rules :
           rules'[k].name = rules[k].name
    BY <2>1
  <2> QED BY <2>2, <2>3 DEF UniqueNames
<1>2. CASE ~\E k \in DOMAIN rules : rules[k].name = r.name
  <2>1. rules' = Append(rules, r) BY <1>2 DEF RegisterRule
  <2>2. rules' \in Seq(Rules) BY <2>1
  <2>3. DOMAIN rules' = 1..Len(rules) + 1 BY <2>1
  <2>4. rules'[Len(rules) + 1] = r /\ \A k \in DOMAIN rules :
           k \in 1..Len(rules) /\ rules'[k] = rules[k]
    BY <2>1
  <2>5. \A k \in DOMAIN rules' : k # Len(rules) + 1 => k \in DOMAIN rules
    BY <2>3
  <2> QED BY <1>2, <2>2, <2>3, <2>4, <2>5 DEF UniqueNames
<1> QED BY <1>1, <1>2

\* So does taking one out.
LEMMA UnregisterKeeps ==
    ASSUME NEW i \in DOMAIN rules, rules \in Seq(Rules), UniqueNames,
           UnregisterRule(i)
    PROVE  rules' \in Seq(Rules) /\ UniqueNames'
<1> DEFINE old(k) == IF k < i THEN k ELSE k + 1
<1>1. /\ rules' = [k \in 1..Len(rules) - 1 |-> IF k < i THEN rules[k]
                                               ELSE rules[k + 1]]
      /\ Len(rules) \in Nat
      /\ i \in 1..Len(rules)
  BY DEF UnregisterRule
<1>2. Len(rules) - 1 \in Nat BY <1>1
<1>3. \A k \in 1..Len(rules) - 1 :
         old(k) \in DOMAIN rules /\ rules'[k] = rules[old(k)]
  BY <1>1
<1>4. \A k \in 1..Len(rules) - 1 : rules'[k] \in Rules BY <1>3
<1>5. rules' \in [1..Len(rules) - 1 -> Rules] BY <1>1, <1>4
<1>6. rules' \in Seq(Rules) BY <1>2, <1>5
<1>7. DOMAIN rules' = 1..Len(rules) - 1 BY <1>5
<1>8. \A j, k \in 1..Len(rules) - 1 : old(j) = old(k) => j = k BY <1>1
<1> HIDE DEF old
<1>9. UniqueNames' BY <1>3, <1>7, <1>8 DEF UniqueNames
<1> QED BY <1>6, <1>9

\* What one evaluation adds: alerts of rules that hold and are not in
\* cooldown, all at the present time and no two under one name.
LEMMA EvaluateAdds ==
    ASSUME AlertTypeOK, NEW holds \in SUBSET RuleNames, Evaluate(holds)
    PROVE  \E n \in Nat : \E f \in [1..n -> Reached(holds)] :
              /\ alerts' = alerts \o NewAlerts(f)
              /\ NewAlerts(f) \in Seq(Alerts) /\ Len(NewAlerts(f)) = n
              /\ \A i, j \in 1..n :
                    i < j => rules[f[i]].name # rules[f[j]].name
<1> DEFINE reached == Reached(holds)
<1>1. reached \subseteq DOMAIN rules BY DEF Reached
<1>2. IsFiniteSet(DOMAIN rules)
  <2>1. DOMAIN rules = 1..Len(rules) /\ Len(rules) \in Nat BY DEF AlertTypeOK
  <2> QED BY <2>1, FS_Interval
<1>3. IsFiniteSet(reached) BY <1>1, <1>2, FS_Subset
<1>4. Cardinality(reached) \in Nat BY <1>3, FS_CardinalityType
<1>5. PICK f \in [1..Cardinality(reached) -> reached] :
         Increasing(f) /\ alerts' = alerts \o NewAlerts(f)
  BY DEF Evaluate, Extend
<1> DEFINE n == Cardinality(reached)
<1>6. ASSUME NEW i \in 1..n PROVE rules[f[i]] \in Rules
  <2>1. f[i] \in DOMAIN rules BY <1>1, <1>5
  <2> QED BY <2>1 DEF AlertTypeOK
<1>7. NewAlerts(f) = [i \in 1..n |-> [rule |-> rules[f[i]], at |-> clock,
                                      status |-> "firing"]]
  BY <1>5 DEF NewAlerts
<1>8. \A i \in 1..n : [rule |-> rules[f[i]], at |-> clock,
                       status |-> "firing"] \in Alerts
  BY <1>6 DEF AlertTypeOK, Alerts
<1> HIDE DEF n
<1>9. NewAlerts(f) \in Seq(Alerts) /\ Len(NewAlerts(f)) = n
  BY <1>4, <1>7, <1>8 DEF n
<1>10. ASSUME NEW i \in 1..n, NEW j \in 1..n, i < j
       PROVE  rules[f[i]].name # rules[f[j]].name
  <2>1. f[i] \in DOMAIN rules /\ f[j] \in DOMAIN rules BY <1>1, <1>5 DEF n
  <2>2. f[i] < f[j] BY <1>5, <1>10 DEF Increasing, n
  <2>3. f[i] # f[j] BY <2>1, <2>2 DEF AlertTypeOK
  <2> QED BY <2>1, <2>3 DEF AlertTypeOK, UniqueNames
<1> QED BY <1>4, <1>5, <1>9, <1>10 DEF n

\* The inductive invariant of both theorems.
Inv == AlertTypeOK /\ Remembered /\ CooldownRespected

LEMMA InitInv == AlertInit => Inv
<1> SUFFICES ASSUME AlertInit PROVE Inv OBVIOUS
<1>1. /\ clock \in Times /\ rules = <<>> /\ alerts = <<>>
      /\ lastFired = [n \in RuleNames |-> 0]
  BY DEF AlertInit, InitEngine
<1>2. AlertTypeOK BY <1>1 DEF AlertTypeOK, UniqueNames
<1>3. Remembered /\ CooldownRespected
  BY <1>1 DEF Remembered, CooldownRespected
<1> QED BY <1>2, <1>3 DEF Inv

\* An evaluation preserves the invariant: an alert that fires is a cooldown
\* away from the time remembered for its name, and no earlier alert of that
\* name is younger than this time.
LEMMA EvaluateKeeps ==
    ASSUME Inv, NEW holds \in SUBSET RuleNames, Evaluate(holds)
    PROVE  Inv'
<1> USE TimesAssumption
<1>1. PICK n \in Nat : \E f \in [1..n -> Reached(holds)] :
         /\ alerts' = alerts \o NewAlerts(f)
         /\ NewAlerts(f) \in Seq(Alerts) /\ Len(NewAlerts(f)) = n
         /\ \A i, j \in 1..n : i < j => rules[f[i]].name # rules[f[j]].name
  BY EvaluateAdds DEF Inv
<1>2. PICK f \in [1..n -> Reached(holds)] :
         /\ alerts' = alerts \o NewAlerts(f)
         /\ NewAlerts(f) \in Seq(Alerts) /\ Len(NewAlerts(f)) = n
         /\ \A i, j \in 1..n : i < j => rules[f[i]].name # rules[f[j]].name
  BY <1>1
<1> DEFINE m == Len(alerts)
<1>3. alerts \in Seq(Alerts) /\ m \in Nat BY DEF Inv, AlertTypeOK
<1>4. alerts' \in Seq(Alerts) BY <1>2, <1>3
<1>5. Len(alerts') = m + n /\ DOMAIN alerts' = 1..m + n
  <2>1. Len(alerts') = m + n BY <1>2, <1>3, ConcatProperties, Zenon
  <2> QED BY <1>4, <2>1
<1>6. \A i \in 1..m : alerts'[i] = alerts[i] BY <1>2, <1>3
<1>7. \A i \in m + 1..m + n :
         /\ i - m \in 1..n
         /\ alerts'[i] = NewAlerts(f)[i - m]
  BY <1>2, <1>3
<1>8. \A i \in 1..n : NewAlerts(f)[i] = [rule |-> rules[f[i]], at |-> clock,
                                         status |-> "firing"]
  BY <1>2 DEF NewAlerts
<1>9. \A i \in 1..n : /\ f[i] \in DOMAIN rules
                      /\ ~InCooldown(rules[f[i]])
                      /\ f[i] \in Reached(holds)
  BY <1>2 DEF Reached
<1>10. lastFired' = [x \in RuleNames |->
          IF \E k \in Reached(holds) : rules[k].name = x THEN clock
          ELSE lastFired[x]]
  BY DEF Evaluate
<1>11. clock' = clock /\ rules' = rules BY DEF Evaluate
<1>12. clock \in Times /\ clock \in Nat /\ lastFired \in [RuleNames -> Times \cup {0}]
  BY DEF Inv, AlertTypeOK
<1>13. ASSUME NEW x \in RuleNames PROVE lastFired[x] \in Nat
  <2>1. lastFired[x] \in Times \cup {0} BY <1>12
  <2>2. 0 \in Nat OBVIOUS
  <2> QED BY <2>1, <2>2, TimesAssumption, Zenon
<1>14. \A k \in DOMAIN rules : /\ rules[k] \in Rules
                              /\ rules[k].name \in RuleNames
                              /\ rules[k].cooldown \in Nat
  <2>1. \A k \in DOMAIN rules : rules[k] \in Rules BY DEF Inv, AlertTypeOK
  <2> QED BY <2>1, RuleTypes
<1>15. \A i \in 1..m : /\ alerts[i].rule.name \in RuleNames
                       /\ alerts[i].at \in Nat
                       /\ alerts[i].at <= lastFired[alerts[i].rule.name]
  <2> TAKE i \in 1..m
  <2>1. i \in DOMAIN alerts /\ alerts[i] \in Alerts BY <1>3
  <2>2. alerts[i].rule \in Rules /\ alerts[i].at \in Times
    BY <2>1 DEF Alerts
  <2>3. alerts[i].at <= lastFired[alerts[i].rule.name]
    BY <2>1 DEF Inv, Remembered
  <2> QED BY <2>2, <2>3, RuleTypes
\* A new alert: its time, and its distance from what was remembered.
<1>16. \A i \in m + 1..m + n :
          LET k == f[i - m] IN
          /\ k \in Reached(holds) /\ k \in DOMAIN rules
          /\ alerts'[i].rule = rules[k] /\ alerts'[i].at = clock
          /\ lastFired[rules[k].name] + rules[k].cooldown <= clock
  <2> TAKE i \in m + 1..m + n
  <2> DEFINE k == f[i - m]
  <2>1. k \in Reached(holds) /\ k \in DOMAIN rules BY <1>7, <1>9
  <2>2. alerts'[i] = [rule |-> rules[k], at |-> clock, status |-> "firing"]
    BY <1>7, <1>8
  <2>3. ~InCooldown(rules[k]) BY <1>7, <1>9
  <2>4. lastFired[rules[k].name] + rules[k].cooldown <= clock
    BY <2>1, <2>3, <1>12, <1>13, <1>14 DEF InCooldown
  <2> QED BY <2>1, <2>2, <2>4
<1>17. AlertTypeOK'
  <2>1. lastFired' \in [RuleNames -> Times \cup {0}] BY <1>10, <1>12
  <2>2. rules' \in Seq(Rules) /\ UniqueNames'
    BY <1>11 DEF Inv, AlertTypeOK, UniqueNames
  <2> QED BY <1>4, <1>11, <1>12, <2>1, <2>2 DEF AlertTypeOK
<1> HIDE DEF m
<1>18. Remembered'
  <2> SUFFICES ASSUME NEW i \in 1..m + n
               PROVE  alerts'[i].at <= lastFired'[alerts'[i].rule.name]
    BY <1>5 DEF Remembered
  <2>1. CASE i \in 1..m
    <3> DEFINE x == alerts[i].rule.name
    <3>1. x \in RuleNames /\ alerts[i].at \in Nat /\ alerts[i].at <= lastFired[x]
      BY <2>1, <1>15
    <3>2. lastFired'[x] = clock \/ lastFired'[x] = lastFired[x] BY <3>1, <1>10
    <3>3. CASE lastFired'[x] = lastFired[x] BY <3>1, <3>3, <2>1, <1>6
    <3>4. CASE \E k \in Reached(holds) : rules[k].name = x
      <4>1. PICK k \in Reached(holds) : rules[k].name = x BY <3>4
      <4>2. k \in DOMAIN rules /\ ~InCooldown(rules[k]) BY DEF Reached
      <4>3. lastFired[x] + rules[k].cooldown <= clock
        BY <4>1, <4>2, <3>1, <1>12, <1>13, <1>14 DEF InCooldown
      <4>4. rules[k].cooldown \in Nat BY <4>2, <1>14
      <4>5. lastFired[x] \in Nat BY <3>1, <1>13
      <4>6. alerts[i].at <= clock BY <4>3, <4>4, <4>5, <3>1, <1>12
      <4> QED BY <3>1, <3>2, <4>6, <2>1, <1>6
    <3>5. CASE ~\E k \in Reached(holds) : rules[k].name = x
      BY <3>1, <3>3, <3>5, <1>10
    <3> QED BY <3>4, <3>5
  <2>2. CASE i \in m + 1..m + n
    <3>1. PICK k \in DOMAIN rules : /\ k \in Reached(holds)
                                    /\ alerts'[i].rule = rules[k]
                                    /\ alerts'[i].at = clock
      BY <2>2, <1>16
    <3>2. rules[k].name \in RuleNames BY <1>14
    <3>3. lastFired'[rules[k].name] = clock BY <3>1, <3>2, <1>10
    <3> QED BY <3>1, <3>3, <1>12
  <2> QED BY <2>1, <2>2, <1>3 DEF m
<1>19. CooldownRespected'
  <2> SUFFICES ASSUME NEW i \in 1..m + n, NEW j \in 1..m + n, i < j,
                      alerts'[i].rule.name = alerts'[j].rule.name
               PROVE  alerts'[j].at >= alerts'[i].at + alerts'[j].rule.cooldown
    BY <1>5 DEF CooldownRespected
  <2>0. m \in Nat BY <1>3 DEF m
  <2>1. CASE j \in 1..m
    <3>1. i \in 1..m BY <2>0, <2>1
    <3>2. alerts'[i] = alerts[i] /\ alerts'[j] = alerts[j] BY <3>1, <2>1, <1>6
    <3>3. DOMAIN alerts = 1..m BY <1>3 DEF m
    <3> QED BY <3>1, <3>2, <3>3, <2>1 DEF Inv, CooldownRespected
  <2>2. CASE j \in m + 1..m + n /\ i \in 1..m
    <3>1. PICK k \in DOMAIN rules :
             /\ alerts'[j].rule = rules[k] /\ alerts'[j].at = clock
             /\ lastFired[rules[k].name] + rules[k].cooldown <= clock
      BY <2>2, <1>16
    <3>2. alerts'[i] = alerts[i] BY <2>2, <1>6
    <3>3. /\ alerts[i].at \in Nat
          /\ alerts[i].at <= lastFired[rules[k].name]
      BY <2>2, <3>1, <3>2, <1>15
    <3>4. rules[k].name \in RuleNames /\ rules[k].cooldown \in Nat BY <1>14
    <3>5. lastFired[rules[k].name] \in Nat BY <3>4, <1>13
    <3>6. clock >= alerts[i].at + rules[k].cooldown
      BY <3>1, <3>3, <3>4, <3>5, <1>12
    <3> QED BY <3>1, <3>2, <3>6
  <2>3. CASE j \in m + 1..m + n /\ i \in m + 1..m + n
    <3>1. i - m \in 1..n /\ j - m \in 1..n /\ i - m < j - m BY <2>0, <2>3
    <3>2. rules[f[i - m]].name # rules[f[j - m]].name BY <3>1, <1>2
    <3>3. /\ alerts'[i].rule = rules[f[i - m]]
          /\ alerts'[j].rule = rules[f[j - m]]
      BY <2>3, <1>16
    <3> QED BY <3>2, <3>3
  <2> QED BY <2>0, <2>1, <2>2, <2>3
<1> QED BY <1>17, <1>18, <1>19 DEF Inv

\* Acknowledging changes no alert's rule or time.
LEMMA AcknowledgeKeeps ==
    ASSUME Inv, NEW i \in DOMAIN alerts, Acknowledge(i)
    PROVE  Inv'
<1>1. /\ alerts' = [alerts EXCEPT ![i].status = "acknowledged"]
      /\ clock' = clock /\ rules' = rules /\ lastFired' = lastFired
  BY DEF Acknowledge
<1>2. alerts \in Seq(Alerts) BY DEF Inv, AlertTypeOK
<1>3. DOMAIN alerts' = DOMAIN alerts BY <1>1
<1>4. \A k \in DOMAIN alerts : /\ alerts'[k].rule = alerts[k].rule
                              /\ alerts'[k].at = alerts[k].at
                              /\ alerts'[k] \in Alerts
  <2> TAKE k \in DOMAIN alerts
  <2>1. alerts[k] \in Alerts BY <1>2
  <2>2. CASE k # i BY <1>1, <2>1, <2>2
  <2>3. CASE k = i
    <3>1. alerts'[k] = [alerts[k] EXCEPT !.status = "acknowledged"]
      BY <1>1, <2>3
    <3> QED BY <2>1, <3>1 DEF Alerts
  <2> QED BY <2>2, <2>3
<1>5. alerts' \in Seq(Alerts) BY <1>1, <1>2, <1>4
<1>6. AlertTypeOK' BY <1>1, <1>5 DEF Inv, AlertTypeOK, UniqueNames
<1>7. Remembered' BY <1>1, <1>3, <1>4 DEF Inv, Remembered
<1>8. CooldownRespected' BY <1>3, <1>4 DEF Inv, CooldownRespected
<1> QED BY <1>6, <1>7, <1>8 DEF Inv

\* What leaves the alerts and their times alone keeps both conditions on them.
LEMMA UntouchedAlerts ==
    ASSUME Inv, alerts' = alerts, lastFired' = lastFired
    PROVE  Remembered' /\ CooldownRespected'
BY DEF Inv, Remembered, CooldownRespected

LEMMA NextInv == Inv /\ [AlertNext]_alertEngineVars => Inv'
<1> SUFFICES ASSUME Inv, [AlertNext]_alertEngineVars PROVE Inv' OBVIOUS
<1>0. AlertTypeOK BY DEF Inv
<1>1. ASSUME NEW r \in Rules, RegisterRule(r) PROVE Inv'
  <2>1. rules' \in Seq(Rules) /\ UniqueNames'
    BY <1>0, <1>1, RegisterKeeps DEF AlertTypeOK
  <2>2. /\ clock' = clock /\ alerts' = alerts /\ lastFired' = lastFired
      BY <1>1 DEF RegisterRule
  <2>3. AlertTypeOK' BY <1>0, <2>1, <2>2 DEF AlertTypeOK
  <2> QED BY <2>2, <2>3, UntouchedAlerts DEF Inv
<1>2. ASSUME NEW i \in DOMAIN rules, UnregisterRule(i) PROVE Inv'
  <2>1. rules' \in Seq(Rules) /\ UniqueNames'
    BY <1>0, <1>2, UnregisterKeeps DEF AlertTypeOK
  <2>2. /\ clock' = clock /\ alerts' = alerts /\ lastFired' = lastFired
      BY <1>2 DEF UnregisterRule, KeptTimes
  <2>3. AlertTypeOK' BY <1>0, <2>1, <2>2 DEF AlertTypeOK
  <2> QED BY <2>2, <2>3, UntouchedAlerts DEF Inv
<1>3. ASSUME NEW holds \in SUBSET RuleNames, Evaluate(holds) PROVE Inv'
  BY <1>3, EvaluateKeeps
<1>4. ASSUME NEW i \in DOMAIN alerts, Acknowledge(i) PROVE Inv'
  BY <1>4, AcknowledgeKeeps
<1>5. CASE AlertClockMoves
  <2>1. /\ clock' \in Times /\ rules' = rules /\ alerts' = alerts
        /\ lastFired' = lastFired
    BY <1>5 DEF AlertClockMoves, engineVars
  <2>2. AlertTypeOK' BY <1>0, <2>1 DEF AlertTypeOK, UniqueNames
  <2> QED BY <2>1, <2>2, UntouchedAlerts DEF Inv
<1>6. CASE UNCHANGED alertEngineVars
  <2>1. /\ clock' = clock /\ rules' = rules /\ alerts' = alerts
        /\ lastFired' = lastFired
    BY <1>6 DEF alertEngineVars
  <2>2. AlertTypeOK' BY <1>0, <2>1 DEF AlertTypeOK, UniqueNames
  <2> QED BY <2>1, <2>2, UntouchedAlerts DEF Inv
<1> QED BY <1>1, <1>2, <1>3, <1>4, <1>5, <1>6 DEF AlertNext

\* The engine's state keeps its types; no name is registered twice.
THEOREM TypeCorrect == AlertSpec => []AlertTypeOK
<1>1. Inv => AlertTypeOK BY DEF Inv
<1> QED BY <1>1, InitInv, NextInv, PTL DEF AlertSpec

\* Two alerts of one rule are at least its cooldown apart, for any rules and
\* any movement of the clock.
THEOREM CooldownsRespected == AlertSpec => []CooldownRespected
<1>1. Inv => CooldownRespected BY DEF Inv
<1> QED BY <1>1, InitInv, NextInv, PTL DEF AlertSpec

\* An index keeps naming the same alert, whatever fires and whatever happens to
\* rules and clock, and what was acknowledged stays so.
THEOREM IndicesStable == AlertSpec => IndexStable
<1> DEFINE Stable == \A i \in DOMAIN alerts :
              /\ i \in DOMAIN alerts'
              /\ alerts'[i].rule = alerts[i].rule /\ alerts'[i].at = alerts[i].at
              /\ alerts[i].status = "acknowledged" =>
                    alerts'[i].status = "acknowledged"
<1>1. Inv /\ [AlertNext]_alertEngineVars => [Stable]_alertEngineVars
  <2> SUFFICES ASSUME Inv, AlertNext PROVE Stable
    BY DEF alertEngineVars
  <2>0. alerts \in Seq(Alerts)
    BY DEF Inv, AlertTypeOK
  <2>1. ASSUME NEW holds \in SUBSET RuleNames, Evaluate(holds)
        PROVE  Stable
    <3>0. PICK n \in Nat : \E f \in [1..n -> Reached(holds)] :
              alerts' = alerts \o NewAlerts(f) /\ NewAlerts(f) \in Seq(Alerts)
      BY <2>1, EvaluateAdds DEF Inv
    <3>1. PICK f \in [1..n -> Reached(holds)] :
              alerts' = alerts \o NewAlerts(f) /\ NewAlerts(f) \in Seq(Alerts)
      BY <3>0
    <3>2. \A i \in DOMAIN alerts : i \in DOMAIN alerts' /\ alerts'[i] = alerts[i]
      BY <2>0, <3>1
    <3> QED
      BY <3>2
  <2>2. ASSUME NEW k \in DOMAIN alerts, Acknowledge(k)
        PROVE  Stable
    <3>1. alerts' = [alerts EXCEPT ![k].status = "acknowledged"]
      BY <2>2 DEF Acknowledge
    <3>2. \A i \in DOMAIN alerts : alerts[i] \in Alerts
      BY <2>0
    <3>3. /\ DOMAIN alerts' = DOMAIN alerts
          /\ \A i \in DOMAIN alerts : i # k => alerts'[i] = alerts[i]
          /\ alerts'[k] = [alerts[k] EXCEPT !.status = "acknowledged"]
      BY <3>1
    <3>4. /\ alerts'[k].rule = alerts[k].rule /\ alerts'[k].at = alerts[k].at
          /\ alerts'[k].status = "acknowledged"
      BY <3>2, <3>3 DEF Alerts
    <3> QED
      BY <3>3, <3>4
  <2>3. CASE UNCHANGED alerts
    BY <2>3
  <2>4. \/ \E holds \in SUBSET RuleNames : Evaluate(holds)
        \/ \E k \in DOMAIN alerts : Acknowledge(k)
        \/ UNCHANGED alerts
    BY DEF AlertNext, RegisterRule, UnregisterRule, AlertClockMoves, engineVars
  <2> QED
    BY <2>1, <2>2, <2>3, <2>4
<1> QED
  BY <1>1, InitInv, NextInv, PTL DEF AlertSpec, IndexStable
=============================================================================
