---------------------------- MODULE AgentProofs ----------------------------
(***************************************************************************)
(* What the agents guarantee behind their endpoints, whatever the model,   *)
(* the judge and the critic answer, and whatever was asked before.         *)
(*                                                                         *)
(* ServiceInv says of a call under way, agent by agent, what its fields    *)
(* hold at each point of its loop.  An agent's step keeps its own part of  *)
(* it (ReActKept, ReflectKept, DebateKept, CrewKept, WorkflowKept), and as *)
(* the call names its agent, no other agent takes a step in between.       *)
(***************************************************************************)
EXTENDS NexusService, StoreProofs

-----------------------------------------------------------------------------
(* What is known of a call under way, agent by agent *)

\* The router answers in the step that starts the call.
Decision(c) ==
    \E task \in Tasks, budget \in Budgets :
        LET funds == Budget(budget)
            tier == EstimateComplexity(task)
            chosen == SelectModel(tier, funds)
            cost == Cost(chosen, EstimateTokens(task))
        IN  c = [agent |-> "router", task |-> task, budget |-> budget,
                 tier |-> tier, chosen |-> chosen, model |-> Model[chosen],
                 cost |-> cost, remaining |-> funds - cost, llmCalls |-> 0,
                 at |-> IF Accepts(funds - cost) THEN "done" ELSE "raised"]

\* ReActAgent.  A step of the loop, one that was confident enough to end it,
\* and one after which the loop goes on.
ReActSteps == [phase : {"done", "failed", "reflect"}, confidence : Int,
               action : ToolResults \cup {"none"}]

Sure(step) == AtLeast(step.confidence, EarlyExit)

GoesOn(s, k) == s[k].action \in ToolResults /\ s[k].phase = "reflect" /\ ~Sure(s[k])

\* The answer of a run that was sure, and of one that used up its steps.
Told(step) == IF step.action = "none" THEN "thought" ELSE step.action
Left(step) == IF step.action = "" THEN "partial" ELSE step.action

\* How a run may end: without a step, on a step that was sure, on a doubtful
\* plan without an action, or after the last iteration.
Ending(c) ==
    LET n == Len(c.steps)
        last == c.steps[n]
    IN  \/ n = 0 /\ c.success /\ c.output = "partial"
        \/ /\ n > 0 /\ \A k \in 1..(n - 1) : GoesOn(c.steps, k)
           /\ \/ /\ Sure(last) /\ last.phase = "done" /\ c.success
                 /\ c.output = Told(last)
              \/ /\ ~Sure(last) /\ last.action = "none" /\ Below(last.confidence, Threshold)
                 /\ last.phase = "failed" /\ ~c.success /\ c.output = "hitl"
              \/ /\ GoesOn(c.steps, n) /\ n = MaxIterations /\ c.success
                 /\ c.output = Left(last)

ReActRuns ==
    [agent : {"react"}, at : {"think", "act", "reflect", "done", "raised"},
     action : ToolResults \cup {"none"}, steps : Seq(ReActSteps),
     success : BOOLEAN,
     output : ToolResults \cup {"thought", "hitl", "partial"},
     llmCalls : Nat]

Thought(c) ==
    /\ c \in ReActRuns
    /\ Len(c.steps) <= MaxIterations /\ c.llmCalls <= 5 * MaxIterations

\* Inside the loop every step so far went on, and the output is the last one's.
Undecided(c) ==
    LET n == Len(c.steps)
    IN  /\ c.success = FALSE
        /\ \A k \in 1..n : GoesOn(c.steps, k)
        /\ c.output = IF n = 0 THEN "" ELSE c.steps[n].action

\* A step asks the model at most five times, three times before it is judged.
Reasoning(c) ==
    LET n == Len(c.steps)
    IN  /\ c.agent = "react" /\ Thought(c)
        /\ c.at \in {"think", "act", "reflect"} =>
              Undecided(c) /\ n < MaxIterations
        /\ c.at = "think" => c.llmCalls <= 5 * n
        /\ c.at = "act" => c.llmCalls <= 5 * n + 2
        /\ c.at = "reflect" => c.llmCalls <= 5 * n + 3 /\ c.action \in ToolResults
        /\ c.at = "done" => Ending(c)

\* DebateAgent.  Scores are numbers or NaN; below one proposer there is none.
Scale == Nat \cup {NaN}

Positive(n) == IF n < 0 THEN 0 ELSE n

\* Every proposal asked for is judged, no score is NaN, and the vote is theirs.
Voted(c) ==
    /\ c.proposals = Positive(c.asked) /\ Len(c.scores) = c.proposals
    /\ c.scores \in Seq(Nat)
    /\ \E short \in SUBSET Whole(c.scores) : c.votes = Votes(c.scores, short)
    /\ c.top = Top(c.scores)
    /\ c.winner = IF c.top = <<>> THEN 0 ELSE c.top[1]

DebateRuns ==
    [agent : {"debate"}, at : {"propose", "critique", "aggregate", "done", "raised"},
     asked : Int, proposals : Nat, scores : Seq(Scale), votes : Seq(Nat),
     winner : Nat, top : Seq(Nat), llmCalls : Nat]

\* p is num_proposers of the agent, which cannot change during the call.
Debating(c, p) ==
    /\ c.agent = "debate" /\ c \in DebateRuns
    /\ c.asked = p /\ c.llmCalls <= 1 + 2 * Positive(p)
    /\ c.at = "propose" => /\ c.proposals < p /\ c.scores = <<>>
                           /\ c.llmCalls = c.proposals
    /\ c.at = "critique" => /\ c.proposals = Positive(p)
                            /\ Len(c.scores) < c.proposals
                            /\ c.llmCalls = c.proposals + Len(c.scores)
    /\ c.at = "aggregate" => Voted(c) /\ c.llmCalls = 2 * Positive(p)
    /\ c.at = "done" => Voted(c)

\* CrewAgent.  Nobody is in the crew twice.
Member == [name : MemberNames, expertise : Expertises \cup {{"general"}}]
Crews == Seq(Member)

Unlike(crew) ==
    \A i, j \in DOMAIN crew : crew[i].name = crew[j].name => i = j

CrewRuns(subtasks) ==
    [agent : {"crew"},
     at : {"decompose", "assign", "synthesize", "done", "raised"},
     subtasks : {subtasks}, handlers : Seq(MemberNames \cup {"nobody"}),
     llmCalls : Nat]

\* Each subtask has the handler the crew gives it, as the crew cannot change
\* during the call.
Assigning(c, crew) ==
    /\ c.agent = "crew" /\ c \in CrewRuns(c.subtasks) /\ c.llmCalls <= 6
    /\ \A k \in DOMAIN c.handlers :
          c.handlers[k] = Assignee(crew, c.subtasks[k])
    /\ c.at = "decompose" => c.handlers = <<>> /\ c.llmCalls = 0
    /\ c.at = "assign" => /\ Len(c.subtasks) \in Nat /\ Len(c.subtasks) <= 4
                          /\ Len(c.handlers) < Len(c.subtasks)
                          /\ c.llmCalls <= 1 + Len(c.handlers)
    /\ c.at = "synthesize" => c.llmCalls <= 5

\* WorkflowAgent.  The steps a pattern has after n answers, or r rounds.
ChainSteps(n) == [k \in 1..n |-> Step(Chain[k], {k - 1}, k)]
TrioSteps(n) ==
    [k \in 1..n |-> Step(Trio[k], IF k = 3 THEN {1, 2} ELSE {k - 1}, k)]
RoundSteps(r) ==
    [k \in 1..(2 * r) |-> IF k % 2 = 1 THEN Step("generator", {0}, k)
                          ELSE Step("evaluator", {k - 1}, k)]

WorkflowRuns(steps) ==
    [agent : {"workflow"},
     at : {"chain", "trio", "reflect", "judge", "done", "raised"},
     steps : {steps}, current : Nat, output : Nat,
     llmCalls : Nat]

\* A pattern is at one of its steps; while judge runs there is a text that no
\* step holds.
Flowing(c) ==
    /\ c.agent = "workflow" /\ c \in WorkflowRuns(c.steps)
    /\ c.llmCalls <= 6
    /\ c.at = "chain" => \E n \in 0..2 : /\ c.steps = ChainSteps(n)
                                        /\ c.current = n /\ c.llmCalls = n
    /\ c.at = "trio" => \E n \in 0..2 : c.steps = TrioSteps(n) /\ c.llmCalls = n
    /\ c.at = "reflect" =>
          \E r \in 0..2 : c.steps = RoundSteps(r) /\ c.llmCalls = 2 * r
    /\ c.at = "judge" =>
          \E r \in 0..2 : /\ c.steps = RoundSteps(r) /\ c.llmCalls = 2 * r + 1
                         /\ c.current = c.llmCalls /\ c.output = c.llmCalls
    /\ c.at = "done" => \/ c.steps \in {ChainSteps(3), TrioSteps(3)} /\ c.output = 3
                        \/ c.steps = RoundSteps(3) /\ c.output = 5

\* SelfReflectiveAgent.  The output kept so far is the earliest of the best
\* ones among those that were judged, and its score is kept with it.
Judgings == 10..100 \cup {NaN}

Numbers(m) == {k \in DOMAIN m : m[k] # NaN}
BestSoFar(m, best, score) ==
    \/ Numbers(m) = {} /\ best = 1 /\ score = 0
    \/ /\ best \in Numbers(m) /\ score = m[best]
       /\ \A k \in Numbers(m) : m[k] <= m[best]
       /\ \A k \in Numbers(m) : k < best => m[k] < m[best]

Runs == [agent : {"reflective"},
         at : {"execute", "evaluate", "regenerate", "done", "raised"},
         current : Nat, metrics : Seq(Judgings), bestScore : Int,
         best : Nat, llmCalls : Nat]

\* Before an evaluation there is one output more than there are scores, and
\* after it as many.
Reflecting(c) ==
    LET n == Len(c.metrics)
    IN
    /\ c.agent = "reflective"
    /\ c \in Runs
    /\ n <= MaxReflections /\ c.llmCalls <= 1 + 2 * MaxReflections
    /\ c.at = "execute" => c.metrics = <<>> /\ c.bestScore = 0 /\ c.llmCalls = 0
    /\ c.at \in {"evaluate", "regenerate", "done"} =>
          BestSoFar(c.metrics, c.best, c.bestScore)
    /\ c.at = "evaluate" => /\ c.current = n + 1 /\ n < MaxReflections
                            /\ c.llmCalls = 1 + 2 * n
    /\ c.at = "regenerate" => c.current = n /\ c.llmCalls = 2 * n

\* What one call leaves for the next, and the call under way.
ServiceInv ==
    /\ proposers \in Int
    /\ members \in Crews /\ Unlike(members)
    /\ \/ call = Idle
       \/ Decision(call)
       \/ Reasoning(call)
       \/ Reflecting(call)
       \/ Debating(call, proposers)
       \/ Assigning(call, members)
       \/ Flowing(call)

-----------------------------------------------------------------------------
(* The router *)

\* Prices rise with the tier, so the cheapest feasible model is the cheapest
\* of all as soon as any is feasible.
LEMMA CheapestFeasible ==
    ASSUME NEW budget \in Int
    PROVE  LET feasible == {t \in Tiers : Feasible(t, budget)}
           IN  feasible # {} => 1 \in feasible /\ Min(feasible) = 1
<1> DEFINE feasible == {t \in Tiers : Feasible(t, budget)}
<1> SUFFICES ASSUME feasible # {} PROVE 1 \in feasible /\ Min(feasible) = 1
  OBVIOUS
<1>1. \A t \in Tiers : InputPrice[t] \in Int /\ InputPrice[1] <= InputPrice[t]
  BY DEF Tiers, InputPrice
<1>2. 1 \in Tiers
  BY DEF Tiers
<1>3. 1 \in feasible
  BY <1>1, <1>2 DEF Feasible
<1>4. \A t \in feasible : t \in Int /\ 1 <= t
  BY DEF Tiers
<1> HIDE DEF feasible
<1>5. Min(feasible) = 1
  BY <1>3, <1>4 DEF Min
<1> QED
  BY <1>3, <1>5

\* What select_model answers: the model of the tier when it is feasible, the
\* cheapest one otherwise, which is feasible as soon as any is.
LEMMA Selected ==
    ASSUME NEW tier \in Tiers, NEW budget \in Int
    PROVE  LET chosen == SelectModel(tier, budget)
           IN  /\ chosen \in Tiers
               /\ chosen \in {1, tier}
               /\ \/ Feasible(chosen, budget)
                  \/ \A t \in Tiers : ~Feasible(t, budget)
<1> DEFINE feasible == {t \in Tiers : Feasible(t, budget)}
<1>1. 1 \in Tiers
  BY DEF Tiers
<1>2. CASE tier \in feasible
  BY <1>2 DEF SelectModel
<1>3. CASE tier \notin feasible /\ feasible = {}
  BY <1>1, <1>3 DEF SelectModel
<1>4. CASE tier \notin feasible /\ feasible # {}
  <2>1. SelectModel(tier, budget) = Min(feasible)
    BY <1>4 DEF SelectModel
  <2>2. 1 \in feasible /\ Min(feasible) = 1
    BY <1>4, CheapestFeasible
  <2> QED
    BY <2>1, <2>2
<1> QED
  BY <1>2, <1>3, <1>4

\* A task has a tier and a positive number of tokens.
LEMMA Estimated ==
    ASSUME NEW task \in Tasks
    PROVE  EstimateComplexity(task) \in Tiers /\ EstimateTokens(task) \in Nat
<1>1. task.words \in Nat
  BY RouterAssumption
<1>2. EstimateComplexity(task) \in Tiers
  BY DEF EstimateComplexity, Tiers
<1>3. EstimateTokens(task) \in Nat
  BY <1>1 DEF EstimateTokens
<1> QED
  BY <1>2, <1>3

\* With 1.5 tokens of output for one of input, at four times its price, a
\* task costs seven times the price of its input.
LEMMA CostIsSevenfold ==
    ASSUME NEW tier \in Tiers, NEW tokens \in Nat
    PROVE  Cost(tier, tokens) = 7 * tokens * InputPrice[tier]
<1>1. tier = 1 \/ tier = 2 \/ tier = 3 \/ tier = 4
  BY DEF Tiers
<1>2. CASE tier = 1
  <2>1. Cost(tier, tokens) = tokens * 150 + (tokens * 3 * 600) \div 2
    BY <1>2 DEF Cost, InputPrice, OutputPrice
  <2> QED
    BY <1>2, <2>1 DEF InputPrice
<1>3. CASE tier = 2
  <2>1. Cost(tier, tokens) = tokens * 2500 + (tokens * 3 * 10000) \div 2
    BY <1>3 DEF Cost, InputPrice, OutputPrice
  <2> QED
    BY <1>3, <2>1 DEF InputPrice
<1>4. CASE tier = 3
  <2>1. Cost(tier, tokens) = tokens * 3000 + (tokens * 3 * 12000) \div 2
    BY <1>4 DEF Cost, InputPrice, OutputPrice
  <2> QED
    BY <1>4, <2>1 DEF InputPrice
<1>5. CASE tier = 4
  <2>1. Cost(tier, tokens) = tokens * 15000 + (tokens * 3 * 60000) \div 2
    BY <1>5 DEF Cost, InputPrice, OutputPrice
  <2> QED
    BY <1>5, <2>1 DEF InputPrice
<1> QED
  BY <1>1, <1>2, <1>3, <1>4, <1>5

\* A feasible model costs at most the budget for up to 285 tokens: 7 * 285 is
\* just below 2000.
LEMMA FeasibleIsPayable ==
    ASSUME NEW tier \in Tiers, NEW budget \in Int, NEW tokens \in Nat,
           Feasible(tier, budget), tokens <= 285
    PROVE  Cost(tier, tokens) <= budget
<1>1. InputPrice[tier] \in {150, 2500, 3000, 15000}
  BY DEF Tiers, InputPrice
<1>2. 2 * 1000 * InputPrice[tier] <= budget
  BY DEF Feasible
<1>3. Cost(tier, tokens) = 7 * tokens * InputPrice[tier]
  BY CostIsSevenfold
<1> QED
  BY <1>1, <1>2, <1>3

LEMMA BudgetIsInt == ASSUME NEW b \in Budgets PROVE Budget(b) \in Int
  BY RouterAssumption DEF Budget

LEMMA DecisionIsAffordable ==
    ASSUME Decision(call)
    PROVE  DecisionAffordable
<1> SUFFICES ASSUME call.at = "done"
             PROVE  /\ call.budget # 0 => call.cost <= call.budget + 500
                    /\ call.chosen \in {1, call.tier}
                    /\ call.remaining >= -500
  BY DEF DecisionAffordable, At
<1>1. PICK task \in Tasks, budget \in Budgets :
          LET funds == Budget(budget)
              chosen == SelectModel(EstimateComplexity(task), funds)
              cost == Cost(chosen, EstimateTokens(task))
          IN  /\ call.budget = budget /\ call.cost = cost
              /\ call.chosen = chosen
              /\ call.tier = EstimateComplexity(task)
              /\ call.remaining = funds - cost
              /\ Accepts(funds - cost)
  BY DEF Decision
<1>2. EstimateComplexity(task) \in Tiers /\ EstimateTokens(task) \in Nat
  BY Estimated
<1>3. Budget(budget) \in Int /\ budget \in Int
  BY BudgetIsInt, RouterAssumption
<1>4. call.chosen \in Tiers /\ call.chosen \in {1, call.tier}
  BY <1>1, <1>2, <1>3, Selected
<1>5. call.cost \in Int
  <2>1. \A t \in Tiers : InputPrice[t] \in Int
    BY DEF Tiers, InputPrice
  <2> QED
    BY <1>1, <1>2, <1>4, <2>1, CostIsSevenfold
<1>6. call.remaining >= -500
  BY <1>1 DEF Accepts
<1>7. budget # 0 => Budget(budget) = budget
  BY DEF Budget
<1> QED
  BY <1>1, <1>3, <1>4, <1>5, <1>6, <1>7

LEMMA ShortTaskServed ==
    ASSUME Decision(call)
    PROVE  ShortTasksServed
<1> SUFFICES ASSUME call.at = "raised",
                    EstimateTokens(call.task) <= 285
             PROVE  \A t \in Tiers : ~Feasible(t, Budget(call.budget))
  <2>1. EstimateTokens(call.task) \in Nat
    BY Estimated DEF Decision
  <2> QED
    BY <2>1 DEF ShortTasksServed, At
<1>1. PICK task \in Tasks, budget \in Budgets :
          LET funds == Budget(budget)
              chosen == SelectModel(EstimateComplexity(task), funds)
              cost == Cost(chosen, EstimateTokens(task))
          IN  /\ call.budget = budget /\ call.task = task
              /\ ~Accepts(funds - cost)
  BY DEF Decision
<1> DEFINE funds == Budget(budget)
           tokens == EstimateTokens(task)
           chosen == SelectModel(EstimateComplexity(task), funds)
<1>2. EstimateComplexity(task) \in Tiers /\ tokens \in Nat
  BY Estimated
<1>3. funds \in Int /\ tokens <= 285
  BY <1>1, BudgetIsInt
<1>4. /\ chosen \in Tiers
      /\ Feasible(chosen, funds) \/ \A t \in Tiers : ~Feasible(t, funds)
  BY <1>2, <1>3, Selected
<1>5. ~Accepts(funds - Cost(chosen, tokens))
  BY <1>1
<1>6. Cost(chosen, tokens) \in Int
  <2>1. \A t \in Tiers : InputPrice[t] \in Int
    BY DEF Tiers, InputPrice
  <2> QED
    BY <1>2, <1>4, <2>1, CostIsSevenfold
<1> HIDE DEF funds, tokens, chosen
<1>7. ~Feasible(chosen, funds)
  <2>1. ~(Cost(chosen, tokens) <= funds)
    BY <1>3, <1>5, <1>6 DEF Accepts
  <2> QED
    BY <1>2, <1>3, <1>4, <2>1, FeasibleIsPayable
<1> QED
  BY <1>1, <1>4, <1>7 DEF funds

\* A decision is made in the step that starts the call.
LEMMA RouterKept ==
    ASSUME RouterNext
    PROVE  call' = Idle \/ Decision(call')
<1>1. ASSUME NEW t \in Tasks, NEW b \in Budgets, Route(t, b)
      PROVE  Decision(call')
  BY <1>1 DEF Route, Decision
<1>2. CASE RouteReturns
  BY <1>2 DEF RouteReturns, Return
<1> QED
  BY <1>1, <1>2 DEF RouterNext

-----------------------------------------------------------------------------
(* ReActAgent *)

\* A confidence read from an answer is a number or NaN.
LEMMA ConfidenceIsInt ==
    ASSUME NEW answer \in Confidences
    PROVE  Confidence(answer) \in Int
  BY ReActAssumption DEF Confidence, Parse, NaN, NoNumber

\* The head of the loop, when the steps so far have left the answer open.
LEMMA ReActIterateOK ==
    ASSUME NEW c, Thought(c), Undecided(c), c.llmCalls <= 5 * Len(c.steps)
    PROVE  Reasoning(ReActIterate(c))
<1> DEFINE n == Len(c.steps)
           d == ReActIterate(c)
<1>1. /\ n \in Nat /\ c.steps \in Seq(ReActSteps) /\ n <= MaxIterations
      /\ MaxIterations \in Nat /\ c.llmCalls \in Nat
  BY ReActAssumption DEF Thought, ReActRuns
<1>2. CASE n < MaxIterations
  <2>1. d = [c EXCEPT !.at = "think"]
    BY <1>2 DEF ReActIterate
  <2>2. /\ d \in ReActRuns
        /\ d.agent = "react" /\ d.at = "think" /\ d.steps = c.steps
        /\ d.action = c.action /\ d.success = c.success
        /\ d.output = c.output /\ d.llmCalls = c.llmCalls
    BY <2>1 DEF Thought, ReActRuns
  <2> HIDE DEF d
  <2>3. Thought(d)
    BY <2>2 DEF Thought
  <2>4. Undecided(d)
    BY <2>2 DEF Undecided
  <2> QED
    BY <1>2, <2>2, <2>3, <2>4 DEF Reasoning, d
<1>3. CASE n = MaxIterations
  <2> DEFINE out == IF c.output = "" THEN "partial" ELSE c.output
  <2>1. d = [c EXCEPT !.at = "done", !.success = TRUE, !.output = out]
    BY <1>3 DEF ReActIterate
  <2>2. /\ d \in ReActRuns
        /\ d.agent = "react" /\ d.at = "done" /\ d.steps = c.steps
        /\ d.action = c.action /\ d.success
        /\ d.output = out /\ d.llmCalls = c.llmCalls
    BY <2>1 DEF Thought, ReActRuns
  <2> HIDE DEF d
  <2>3. Thought(d)
    BY <2>2 DEF Thought
  <2>4. CASE n = 0
    <3>1. d.output = "partial"
      BY <2>2, <2>4 DEF Undecided
    <3> QED
      BY <2>2, <2>3, <2>4, <3>1 DEF Reasoning, Ending, d
  <2>5. CASE n > 0
    <3>1. c.output = IF n = 0 THEN "" ELSE c.steps[n].action
      BY DEF Undecided
    <3>2. n # 0
      BY <1>1, <2>5
    <3>3. c.output = c.steps[n].action
      BY <3>1, <3>2
    <3>4. d.output = Left(c.steps[n])
      BY <2>2, <3>3 DEF Left
    <3>5. \A k \in 1..n : GoesOn(c.steps, k)
      BY DEF Undecided
    <3>6. GoesOn(c.steps, n) /\ \A k \in 1..(n - 1) : GoesOn(c.steps, k)
      BY <1>1, <2>5, <3>5
    <3>7. Ending(d)
      BY <1>3, <2>2, <2>5, <3>4, <3>6 DEF Ending
    <3> QED
      BY <2>2, <2>3, <3>7 DEF Reasoning, d
  <2> QED
    BY <1>1, <2>4, <2>5
<1> QED
  BY <1>1, <1>2, <1>3

\* One step more.
LEMMA StepLogged ==
    ASSUME NEW s \in Seq(ReActSteps), NEW step \in ReActSteps
    PROVE  LET t == Append(s, step)
           IN  /\ t \in Seq(ReActSteps) /\ Len(t) = Len(s) + 1
               /\ Len(t) \in Nat /\ Len(s) \in Nat
               /\ t[Len(t)] = step
               /\ \A k \in 1..Len(s) : GoesOn(t, k) <=> GoesOn(s, k)
<1> DEFINE t == Append(s, step)
<1>1. /\ t \in Seq(ReActSteps) /\ Len(t) = Len(s) + 1
      /\ t[Len(t)] = step
      /\ \A k \in 1..Len(s) : t[k] = s[k]
  OBVIOUS
<1>2. \A k \in 1..Len(s) : GoesOn(t, k) <=> GoesOn(s, k)
  BY <1>1 DEF GoesOn
<1> QED
  BY <1>1, <1>2

\* A plan that ends the run, or its step, keeps what is known of the call.
LEMMA ThinkEndsOK ==
    ASSUME Reasoning(call), NEW a \in Confidences, ThinkEnds(a)
    PROVE  Reasoning(call')
<1> DEFINE conf == Confidence(a)
           sure == AtLeast(conf, EarlyExit)
           step == [phase |-> IF sure THEN "done" ELSE "failed",
                    confidence |-> conf, action |-> "none"]
           n == Len(call.steps)
<1>0. call.at = "think"
  BY DEF ThinkEnds, At
<1>1. /\ sure \/ Below(conf, Threshold)
      /\ call' = [call EXCEPT
                     !.at = "done", !.llmCalls = @ + 2, !.success = sure,
                     !.output = IF sure THEN "thought" ELSE "hitl",
                     !.steps = Append(call.steps, step)]
  BY DEF ThinkEnds, At, Pauses, Logged
<1>2. /\ Thought(call) /\ Undecided(call) /\ n < MaxIterations
      /\ call.llmCalls <= 5 * n
  BY <1>0 DEF Reasoning
<1>3. step \in ReActSteps
  BY ConfidenceIsInt DEF ReActSteps
<1>4. step.confidence = conf /\ step.action = "none"
      /\ step.phase = IF sure THEN "done" ELSE "failed"
  OBVIOUS
<1> HIDE DEF step
<1> DEFINE t == Append(call.steps, step)
<1>5. /\ t \in Seq(ReActSteps) /\ Len(t) = n + 1 /\ n \in Nat
      /\ t[Len(t)] = step
      /\ \A k \in 1..n : GoesOn(t, k)
  BY <1>2, <1>3, StepLogged DEF Thought, Undecided, ReActRuns
<1>6. /\ MaxIterations \in Nat
      /\ call.llmCalls \in Nat /\ call.llmCalls + 2 \in Nat
  BY <1>2, ReActAssumption DEF Thought, ReActRuns
<1>7. /\ call' \in ReActRuns
      /\ call'.agent = "react" /\ call'.at = "done" /\ call'.steps = t
      /\ call'.success = sure /\ call'.llmCalls = call.llmCalls + 2
      /\ call'.output = IF sure THEN "thought" ELSE "hitl"
  BY <1>1, <1>2, <1>5, <1>6 DEF Thought, ReActRuns, AtLeast
<1> HIDE DEF t, sure
<1>8. Thought(call')
  BY <1>2, <1>5, <1>6, <1>7 DEF Thought
<1>9. Ending(call')
  <2>1. Len(t) - 1 = n /\ Len(t) > 0
    BY <1>5
  <2>2. Sure(t[Len(t)]) <=> sure
    BY <1>4, <1>5 DEF Sure, sure
  <2>3. call'.output = IF sure THEN Told(t[Len(t)]) ELSE "hitl"
    BY <1>4, <1>5, <1>7 DEF Told
  <2>4. \A k \in 1..(Len(t) - 1) : GoesOn(t, k)
    BY <1>5, <2>1
  <2>5. CASE sure
    <3>1. t[Len(t)].phase = "done" /\ call'.success
      BY <1>4, <1>5, <1>7, <2>5
    <3> QED
      BY <1>7, <2>1, <2>2, <2>3, <2>4, <2>5, <3>1 DEF Ending
  <2>6. CASE ~sure
    <3>1. /\ t[Len(t)].phase = "failed" /\ ~call'.success
          /\ t[Len(t)].action = "none" /\ Below(t[Len(t)].confidence, Threshold)
      BY <1>1, <1>4, <1>5, <1>7, <2>6
    <3> QED
      BY <1>7, <2>1, <2>2, <2>3, <2>4, <2>6, <3>1 DEF Ending
  <2> QED
    BY <2>5, <2>6
<1> QED
  BY <1>7, <1>8, <1>9 DEF Reasoning

\* The judgement of a step keeps what is known of the call.
LEMMA ReflectOnOK ==
    ASSUME Reasoning(call), NEW a \in Confidences, ReflectOn(a)
    PROVE  Reasoning(call')
<1> DEFINE conf == Confidence(a)
           sure == AtLeast(conf, EarlyExit)
           phase == IF sure THEN "done" ELSE "reflect"
           step == [phase |-> phase,
                    confidence |-> conf, action |-> call.action]
           n == Len(call.steps)
           t == Append(call.steps, step)
           c == [call EXCEPT !.llmCalls = @ + 2, !.output = call.action,
                             !.steps = t]
<1>1. call.at = "reflect"
  BY DEF ReflectOn, At
<1>2. /\ Thought(call) /\ Undecided(call) /\ n < MaxIterations
      /\ call.llmCalls <= 5 * n + 3 /\ call.action \in ToolResults
  BY <1>1 DEF Reasoning
<1>3. call' = IF sure THEN [c EXCEPT !.at = "done", !.success = TRUE]
              ELSE ReActIterate(c)
  BY DEF ReflectOn, Logged
<1>4. step \in ReActSteps
  BY <1>2, ConfidenceIsInt DEF ReActSteps
<1>5. step.confidence = conf /\ step.action = call.action /\ step.phase = phase
  OBVIOUS
<1> HIDE DEF step
<1>6. /\ t \in Seq(ReActSteps) /\ Len(t) = n + 1 /\ n \in Nat
      /\ t[Len(t)] = step
      /\ \A k \in 1..n : GoesOn(t, k)
  BY <1>2, <1>4, StepLogged DEF Thought, Undecided, ReActRuns
<1>7. /\ MaxIterations \in Nat
      /\ call.llmCalls \in Nat /\ call.llmCalls + 2 \in Nat
  BY <1>2, ReActAssumption DEF Thought, ReActRuns
<1>8. /\ c \in ReActRuns /\ c.steps = t /\ c.llmCalls = call.llmCalls + 2
      /\ c.output = call.action /\ c.success = call.success
  BY <1>2, <1>6, <1>7 DEF Thought, ReActRuns
<1> HIDE DEF c, t
<1>10. Thought(c)
  BY <1>2, <1>6, <1>7, <1>8 DEF Thought
<1>11. CASE sure
  <2>1. /\ call' \in ReActRuns
        /\ call'.agent = "react" /\ call'.at = "done" /\ call'.steps = t
        /\ call'.success /\ call'.llmCalls = c.llmCalls
        /\ call'.output = call.action
    BY <1>3, <1>8, <1>11 DEF ReActRuns
  <2>2. Thought(call')
    BY <1>8, <1>10, <2>1 DEF Thought
  <2>3. Len(t) - 1 = n /\ Len(t) > 0 /\ Sure(t[Len(t)])
    BY <1>5, <1>6, <1>11 DEF Sure
  <2>4. call'.output = Told(t[Len(t)])
    BY <1>2, <1>5, <1>6, <2>1 DEF Told, ToolResults
  <2>5. Ending(call')
    BY <1>5, <1>6, <1>11, <2>1, <2>3, <2>4 DEF Ending
  <2> QED
    BY <2>1, <2>2, <2>5 DEF Reasoning
<1>12. CASE ~sure
  <2>1. GoesOn(t, Len(t))
    BY <1>2, <1>5, <1>6, <1>12 DEF GoesOn, Sure
  <2>2. \A k \in 1..Len(t) : GoesOn(t, k)
    BY <1>6, <2>1
  <2>3. Undecided(c)
    <3>1. ~c.success
      BY <1>2, <1>8 DEF Undecided
    <3>2. Len(t) # 0 /\ c.output = t[Len(t)].action
      BY <1>5, <1>6, <1>8
    <3> QED
      BY <1>8, <2>2, <3>1, <3>2 DEF Undecided
  <2>4. c.llmCalls <= 5 * Len(c.steps)
    BY <1>2, <1>6, <1>7, <1>8
  <2> QED
    BY <1>3, <1>10, <1>12, <2>3, <2>4, ReActIterateOK
<1> QED
  BY <1>11, <1>12

\* Whoever runs, the run goes on as described.
LEMMA ReActKept ==
    ASSUME call = Idle \/ Reasoning(call), ReActNext
    PROVE  call' = Idle \/ Reasoning(call')
<1>1. CASE RunReAct
  <2>1. Thought(ReActStart)
    <3>1. <<>> \in Seq(ReActSteps) /\ Len(<<>>) = 0
      OBVIOUS
    <3> QED
      BY <3>1, ReActAssumption DEF Thought, ReActStart, ReActRuns, ToolResults
  <2>2. Undecided(ReActStart) /\ ReActStart.llmCalls <= 5 * Len(ReActStart.steps)
    BY DEF Undecided, ReActStart
  <2>3. Reasoning(ReActIterate(ReActStart))
    BY <2>1, <2>2, ReActIterateOK
  <2> QED
    BY <1>1, <2>3 DEF RunReAct
<1>0. SUFFICES ASSUME ~RunReAct, ~ReActReturns PROVE Reasoning(call')
  BY <1>1 DEF ReActReturns, Return
<1>2. Reasoning(call)
  <2>1. call.agent = "react"
    BY <1>0 DEF ReActNext, ThinkEnds, ThinkGoesOn, ReflectOn, ActByTool,
           ActByLlm, Raises, At
  <2> QED
    BY <2>1 DEF Idle
<1>3. /\ Thought(call) /\ call \in ReActRuns /\ MaxIterations \in Nat
      /\ call.llmCalls \in Nat /\ Len(call.steps) \in Nat
  BY <1>2, ReActAssumption DEF Reasoning, Thought, ReActRuns
<1>4. ASSUME NEW a \in Confidences, ThinkEnds(a) PROVE Reasoning(call')
  BY <1>2, <1>4, ThinkEndsOK
<1>5. ASSUME NEW a \in Confidences, ThinkGoesOn(a) PROVE Reasoning(call')
  <2>1. /\ call.at = "think"
        /\ call' = [call EXCEPT !.at = "act", !.llmCalls = @ + 2]
    BY <1>5 DEF ThinkGoesOn, At
  <2>2. /\ Undecided(call) /\ Len(call.steps) < MaxIterations
        /\ call.llmCalls <= 5 * Len(call.steps)
    BY <1>2, <2>1 DEF Reasoning
  <2>3. call.llmCalls + 2 \in Nat
    BY <1>3
  <2>4. /\ call' \in ReActRuns
        /\ call'.agent = "react" /\ call'.at = "act"
        /\ call'.steps = call.steps /\ call'.success = call.success
        /\ call'.output = call.output /\ call'.llmCalls = call.llmCalls + 2
    BY <1>3, <2>1, <2>3 DEF ReActRuns
  <2>5. Undecided(call')
    BY <2>2, <2>4 DEF Undecided
  <2>6. Thought(call')
    BY <1>3, <2>2, <2>4 DEF Thought
  <2> QED
    BY <1>3, <2>2, <2>4, <2>5, <2>6 DEF Reasoning
<1>6. ASSUME NEW a \in Confidences, ReflectOn(a) PROVE Reasoning(call')
  BY <1>2, <1>6, ReflectOnOK
<1>7. ASSUME NEW r \in ToolResults, NEW m \in {0, 1}, call.at = "act",
             /\ call' \in ReActRuns
             /\ call'.agent = "react" /\ call'.at = "reflect"
             /\ call'.action = r
             /\ call'.steps = call.steps /\ call'.success = call.success
             /\ call'.output = call.output
             /\ call'.llmCalls = call.llmCalls + m
      PROVE  Reasoning(call')
  <2>1. /\ Undecided(call) /\ Len(call.steps) < MaxIterations
        /\ call.llmCalls <= 5 * Len(call.steps) + 2
    BY <1>2, <1>7 DEF Reasoning
  <2>2. Undecided(call')
    BY <1>7, <2>1 DEF Undecided
  <2>3. Thought(call')
    BY <1>3, <1>7, <2>1 DEF Thought
  <2> QED
    BY <1>3, <1>7, <2>1, <2>2, <2>3 DEF Reasoning
<1>8. ASSUME NEW r \in ToolResults, ActByTool(r) PROVE Reasoning(call')
  <2>1. call.at = "act" /\ call' = [call EXCEPT !.at = "reflect", !.action = r]
    BY <1>8 DEF ActByTool, At
  <2>3. /\ call' \in ReActRuns
        /\ call'.agent = "react" /\ call'.at = "reflect"
        /\ call'.action = r
        /\ call'.steps = call.steps /\ call'.success = call.success
        /\ call'.output = call.output /\ call'.llmCalls = call.llmCalls
    BY <1>3, <2>1 DEF ReActRuns
  <2>4. call'.llmCalls = call.llmCalls + 0
    BY <1>3, <2>3
  <2> QED
    BY <1>7, <2>1, <2>3, <2>4
<1>9. ASSUME NEW r \in LlmResults, ActByLlm(r) PROVE Reasoning(call')
  <2>1. /\ call.at = "act"
        /\ call' = [call EXCEPT !.at = "reflect", !.action = r,
                                !.llmCalls = @ + 1]
    BY <1>9 DEF ActByLlm, At
  <2>2. r \in ToolResults
    BY DEF LlmResults, ToolResults
  <2>4. call.llmCalls + 1 \in Nat
    BY <1>3
  <2>3. /\ call' \in ReActRuns
        /\ call'.agent = "react" /\ call'.at = "reflect"
        /\ call'.action = r
        /\ call'.steps = call.steps /\ call'.success = call.success
        /\ call'.output = call.output /\ call'.llmCalls = call.llmCalls + 1
    BY <1>3, <2>1, <2>2, <2>4 DEF ReActRuns
  <2> QED
    BY <1>7, <2>1, <2>2, <2>3
<1>10. CASE Raises("react", {"think", "act", "reflect"})
  <2>1. /\ call' \in ReActRuns
        /\ call'.agent = "react" /\ call'.at = "raised"
        /\ call'.steps = call.steps /\ call'.llmCalls = call.llmCalls
    BY <1>3, <1>10 DEF Raises, ReActRuns
  <2>2. Thought(call')
    BY <1>3, <2>1 DEF Thought
  <2> QED
    BY <2>1, <2>2 DEF Reasoning
<1> QED
  BY <1>0, <1>4, <1>5, <1>6, <1>8, <1>9, <1>10 DEF ReActNext

\* What is known of a finished run explains its answer.
LEMMA ReActExplained ==
    ASSUME Reasoning(call)
    PROVE  ReActResultExplained
<1> SUFFICES ASSUME call.at = "done"
             PROVE  ReActResultExplained
  BY DEF ReActResultExplained, At
<1> DEFINE s == call.steps
           n == Len(s)
<1>1. Ending(call) /\ s \in Seq(ReActSteps) /\ n \in Nat /\ n <= MaxIterations
  BY DEF Reasoning, Thought, ReActRuns
<1> DEFINE Confident(k) == AtLeast(s[k].confidence, EarlyExit)
           Doubtful(k) == /\ s[k].action = "none" /\ ~Confident(k)
                          /\ Below(s[k].confidence, Threshold)
<1>2. ASSUME NEW k, GoesOn(s, k)
      PROVE  ~Confident(k) /\ ~Doubtful(k)
  BY <1>2 DEF GoesOn, Sure, ToolResults
<1>3. CASE n = 0
  <2>1. s = <<>> /\ 1..(n - 1) = {}
    BY <1>1, <1>3
  <2>2. call.success /\ call.output = "partial"
    BY <1>1, <1>3 DEF Ending
  <2> QED
    BY <2>1, <2>2 DEF ReActResultExplained
<1>4. CASE n > 0
  <2>1. s # <<>>
    BY <1>1, <1>4
  <2>2. \A k \in 1..(n - 1) : ~Confident(k) /\ ~Doubtful(k)
    <3>1. \A k \in 1..(n - 1) : GoesOn(s, k)
      BY <1>1, <1>4 DEF Ending
    <3> QED
      BY <1>2, <3>1
  <2> DEFINE Explained ==
        /\ ~call.success <=> Doubtful(n)
        /\ Confident(n) \/ Doubtful(n) \/ n = MaxIterations
        /\ s[n].phase = CASE Confident(n) -> "done"
                          [] Doubtful(n) -> "failed"
                          [] OTHER -> "reflect"
        /\ call.output =
              CASE Doubtful(n) -> "hitl"
                [] Confident(n) /\ s[n].action = "none" -> "thought"
                [] ~Confident(n) /\ s[n].action = "" -> "partial"
                [] OTHER -> s[n].action
  <2>3. Explained
    <3>1. CASE Sure(s[n]) /\ s[n].phase = "done" /\ call.success
               /\ call.output = Told(s[n])
      <4>1. Confident(n) /\ ~Doubtful(n)
        BY <3>1 DEF Sure
      <4> HIDE DEF Confident, Doubtful
      <4> QED
        BY <3>1, <4>1 DEF Told
    <3>2. CASE /\ ~Sure(s[n]) /\ s[n].action = "none"
               /\ Below(s[n].confidence, Threshold)
               /\ s[n].phase = "failed" /\ ~call.success /\ call.output = "hitl"
      <4>1. ~Confident(n) /\ Doubtful(n)
        BY <3>2 DEF Sure
      <4> HIDE DEF Confident, Doubtful
      <4> QED
        BY <3>2, <4>1
    <3>3. CASE /\ GoesOn(s, n) /\ n = MaxIterations /\ call.success
               /\ call.output = Left(s[n])
      <4>1. ~Confident(n) /\ ~Doubtful(n) /\ s[n].phase = "reflect"
        BY <1>2, <3>3 DEF GoesOn
      <4> HIDE DEF Confident, Doubtful
      <4> QED
        BY <3>3, <4>1 DEF Left
    <3> HIDE DEF Explained
    <3> QED
      BY <1>1, <1>4, <3>1, <3>2, <3>3 DEF Ending
  <2> HIDE DEF Confident, Doubtful
  <2> QED
    BY <2>1, <2>2, <2>3 DEF ReActResultExplained, Confident, Doubtful, Explained
<1> QED
  BY <1>1, <1>3, <1>4

LEMMA ReActIsBounded ==
    ASSUME Reasoning(call)
    PROVE  ReActBounded
  BY DEF Reasoning, Thought, ReActBounded

-----------------------------------------------------------------------------
(* SelfReflectiveAgent *)

LEMMA ScoresAreInts ==
    ASSUME NEW x \in Judgings
    PROVE  x \in Int /\ (x # NaN => x >= 10 /\ x <= 100)
  BY DEF Judgings, NaN

\* Whatever the judge answers, its score is on the scale or NaN.
LEMMA JudgeScoreInRange ==
    ASSUME NEW answer \in Int
    PROVE  JudgeScore(answer) \in Judgings
<1>1. CASE answer = NoNumber
  BY <1>1 DEF JudgeScore, Parse, Judgings, NaN, NoNumber
<1>2. CASE answer = NaN
  BY <1>2 DEF JudgeScore, Parse, Judgings, NaN, NoNumber
<1>3. CASE answer \notin {NoNumber, NaN} /\ answer < 10
  BY <1>3 DEF JudgeScore, Parse, Judgings, NaN, NoNumber
<1>4. CASE answer > 100
  BY <1>4 DEF JudgeScore, Parse, Judgings, NaN, NoNumber
<1>5. CASE answer \in 10..100
  BY <1>5 DEF JudgeScore, Parse, Judgings, NaN, NoNumber
<1> QED
  BY <1>1, <1>2, <1>3, <1>4, <1>5

\* A score that is judged next is kept with its output exactly when it beats
\* all before it.
LEMMA KeepIsBest ==
    ASSUME NEW m \in Seq(Judgings), NEW best \in Nat, NEW score \in Int,
           BestSoFar(m, best, score), NEW new \in Judgings
    PROVE  LET n == Append(m, new)
           IN  IF Above(new, score)
               THEN BestSoFar(n, Len(m) + 1, new)
               ELSE BestSoFar(n, best, score)
<1> DEFINE n == Append(m, new)
<1>1. /\ n \in Seq(Judgings) /\ DOMAIN n = 1..(Len(m) + 1)
      /\ DOMAIN m = 1..Len(m) /\ n[Len(m) + 1] = new
      /\ \A k \in DOMAIN m : n[k] = m[k] /\ m[k] \in Judgings
  OBVIOUS
<1> HIDE DEF n
<1>2. CASE new = NaN
  <2>1. Numbers(n) = Numbers(m)
    BY <1>1, <1>2 DEF Numbers
  <2>2. \A k \in Numbers(m) : n[k] = m[k]
    BY <1>1 DEF Numbers
  <2>3. BestSoFar(n, best, score)
    BY <2>1, <2>2 DEF BestSoFar
  <2> QED
    BY <1>2, <2>3 DEF Above, n
<1>3. CASE new # NaN
  <2>1. new \in Int /\ new >= 10
    BY <1>3, ScoresAreInts
  <2>2. Numbers(n) = Numbers(m) \cup {Len(m) + 1}
    BY <1>1, <1>3 DEF Numbers
  <2>3. \A k \in Numbers(m) : /\ n[k] = m[k] /\ m[k] \in Int
                              /\ k \in Int /\ k <= Len(m)
    <3>1. \A x \in Judgings : x \in Int
      BY ScoresAreInts
    <3> QED
      BY <1>1, <3>1 DEF Numbers
  <2>4. Len(m) \in Nat
    OBVIOUS
  <2>5. CASE Above(new, score)
    <3>1. \A k \in Numbers(m) : m[k] < new
      <4> SUFFICES ASSUME NEW k \in Numbers(m) PROVE m[k] < new
        OBVIOUS
      <4>1. best \in Numbers(m) /\ score = m[best] /\ m[k] <= m[best]
        BY DEF BestSoFar
      <4>2. m[best] < new
        BY <2>1, <2>3, <2>5, <4>1 DEF Above
      <4> QED
        BY <2>1, <2>3, <4>1, <4>2
    <3>2. \A k \in Numbers(n) : n[k] <= new
      BY <1>1, <2>1, <2>2, <2>3, <3>1
    <3>3. \A k \in Numbers(n) : k < Len(m) + 1 => n[k] < new
      BY <2>2, <2>3, <2>4, <3>1
    <3>4. BestSoFar(n, Len(m) + 1, new)
      BY <1>1, <2>2, <3>2, <3>3 DEF BestSoFar
    <3> QED
      BY <2>5, <3>4 DEF n
  <2>6. CASE ~Above(new, score)
    <3>1. Numbers(m) # {}
      BY <2>1, <2>6, <1>3 DEF BestSoFar, Above
    <3>2. best \in Numbers(m) /\ score = m[best] /\ new <= m[best]
      BY <1>3, <2>1, <2>3, <2>6, <3>1 DEF BestSoFar, Above
    <3>3. BestSoFar(n, best, score)
      BY <1>1, <2>2, <2>3, <2>4, <3>1, <3>2 DEF BestSoFar
    <3> QED
      BY <2>6, <3>3 DEF n
  <2> QED
    BY <2>5, <2>6
<1> QED
  BY <1>2, <1>3

\* What a run has in its fields, and where it may go.
LEMMA Fields ==
    ASSUME NEW c \in Runs
    PROVE  /\ c.metrics \in Seq(Judgings) /\ c.bestScore \in Int
           /\ c.current \in Nat /\ c.best \in Nat /\ c.llmCalls \in Nat
  BY DEF Runs

LEMMA Moves ==
    ASSUME NEW c \in Runs,
           NEW w \in {"execute", "evaluate", "regenerate", "done", "raised"}
    PROVE  [c EXCEPT !.at = w] \in Runs
  BY DEF Runs

\* Leaving the loop keeps what is known of the call.
LEMMA FinishOK ==
    ASSUME NEW c \in Runs, BestSoFar(c.metrics, c.best, c.bestScore),
           Len(c.metrics) <= MaxReflections,
           c.llmCalls <= 1 + 2 * MaxReflections
    PROVE  Reflecting(Finish(c))
<1> DEFINE d == Finish(c)
<1>2. d \in Runs /\ d.agent = "reflective"
  BY DEF Runs, Finish
<1>3. /\ d.at = "done" /\ d.metrics = c.metrics /\ d.best = c.best
      /\ d.bestScore = c.bestScore /\ d.llmCalls = c.llmCalls
  BY DEF Runs, Finish
<1> HIDE DEF d
<1>4. Reflecting(d)
  BY <1>2, <1>3 DEF Reflecting
<1> QED
  BY <1>4 DEF d

\* The head of the loop keeps what is known of the call.
LEMMA IterateOK ==
    ASSUME NEW c \in Runs,
           BestSoFar(c.metrics, c.best, c.bestScore),
           c.current = Len(c.metrics) + 1,
           Len(c.metrics) <= MaxReflections,
           c.llmCalls = 1 + 2 * Len(c.metrics)
    PROVE  Reflecting(ReflectIterate(c))
<1>0. Len(c.metrics) \in Nat /\ MaxReflections \in Nat /\ c.llmCalls \in Nat
  BY Fields, ReflectAssumption
<1>1. c.llmCalls <= 1 + 2 * MaxReflections
  BY <1>0
<1>2. Reflecting(Finish(c))
  BY <1>1, FinishOK
<1>3. CASE Len(c.metrics) < MaxReflections
  <2> DEFINE d == [c EXCEPT !.at = "evaluate"]
  <2>1. d \in Runs
    BY Moves
  <2>2. /\ d.agent = "reflective" /\ d.at = "evaluate" /\ d.metrics = c.metrics
        /\ d.best = c.best /\ d.bestScore = c.bestScore
        /\ d.current = c.current /\ d.llmCalls = c.llmCalls
    BY DEF Runs
  <2> HIDE DEF d
  <2>3. Reflecting(d)
    BY <1>1, <1>3, <2>1, <2>2 DEF Reflecting
  <2> QED
    BY <1>3, <2>3 DEF d, ReflectIterate
<1> QED
  BY <1>2, <1>3 DEF ReflectIterate

\* A step of reflect keeps what is known of the call.
LEMMA ReflectKept ==
    ASSUME call = Idle \/ Reflecting(call), ReflectNext
    PROVE  call' = Idle \/ Reflecting(call')
<1>0. ASSUME call.agent = "reflective"
      PROVE  /\ Reflecting(call) /\ call \in Runs
             /\ Len(call.metrics) \in Nat /\ MaxReflections \in Nat
             /\ Len(call.metrics) <= MaxReflections
             /\ call.llmCalls \in Nat /\ call.current \in Nat
             /\ call.llmCalls <= 1 + 2 * MaxReflections
  <2>1. Reflecting(call)
    BY <1>0 DEF Idle
  <2> QED
    BY <2>1, Fields, ReflectAssumption DEF Reflecting
<1>1. CASE Reflect
  <2>1. /\ ReflectStart \in Runs /\ 0 <= MaxReflections
        /\ 0 <= 1 + 2 * MaxReflections /\ Len(<<>>) = 0
    <3>1. <<>> \in Seq(Judgings)
      OBVIOUS
    <3> QED
      BY <3>1, ReflectAssumption DEF ReflectStart, Runs
  <2>2. Reflecting(ReflectStart)
    BY <2>1 DEF Reflecting, ReflectStart
  <2> QED
    BY <1>1, <2>2 DEF Reflect
<1>2. CASE Execute
  <2> DEFINE c == [call EXCEPT !.current = 1, !.best = 1, !.llmCalls = 1]
  <2>1. Reflecting(call) /\ call.at = "execute" /\ call \in Runs
    BY <1>0, <1>2 DEF Execute, At
  <2>2. BestSoFar(<<>>, 1, 0) /\ Len(<<>>) = 0
    BY DEF BestSoFar, Numbers
  <2>3. c \in Runs
    BY <2>1 DEF Runs
  <2>4. /\ c.metrics = call.metrics /\ c.bestScore = call.bestScore
        /\ c.current = 1 /\ c.best = 1 /\ c.llmCalls = 1
    BY <2>1 DEF Runs
  <2>5. call.metrics = <<>> /\ call.bestScore = 0
    BY <2>1 DEF Reflecting
  <2> HIDE DEF c
  <2>6. Reflecting(ReflectIterate(c))
    BY <2>2, <2>3, <2>4, <2>5, IterateOK, ReflectAssumption
  <2> QED
    BY <1>2, <2>6 DEF Execute, c
<1>3. ASSUME NEW a \in Judgements, Evaluate(a)
      PROVE  Reflecting(call')
  <2> DEFINE score == JudgeScore(a)
             kept == Keep(call, score)
             judged == [kept EXCEPT !.metrics = Append(@, score),
                                    !.llmCalls = @ + 1]
  <2>1. call.agent = "reflective" /\ call.at = "evaluate"
    BY <1>3 DEF Evaluate, At
  <2>0. /\ Reflecting(call) /\ call \in Runs
        /\ Len(call.metrics) \in Nat /\ MaxReflections \in Nat
        /\ call.llmCalls \in Nat
    BY <1>0, <2>1
  <2>2. score \in Judgings /\ score \in Int
    BY JudgeScoreInRange, ReflectAssumption, ScoresAreInts
  <2>3. call' = IF AtLeast(score, ScoreThreshold) THEN Finish(judged)
                ELSE [judged EXCEPT !.at = "regenerate"]
    BY <1>3 DEF Evaluate
  <2> HIDE DEF score
  <2>4. /\ BestSoFar(call.metrics, call.best, call.bestScore)
        /\ call.current = Len(call.metrics) + 1
        /\ Len(call.metrics) < MaxReflections
        /\ call.llmCalls = 1 + 2 * Len(call.metrics)
    BY <2>0, <2>1 DEF Reflecting
  <2>5. /\ call.metrics \in Seq(Judgings) /\ call.best \in Nat
        /\ call.bestScore \in Int /\ call.current \in Nat
    BY <2>0, Fields
  <2>6. /\ kept \in Runs /\ kept.llmCalls = call.llmCalls
        /\ kept.metrics = call.metrics /\ kept.current = call.current
        /\ kept.best = IF Above(score, call.bestScore)
                       THEN Len(call.metrics) + 1 ELSE call.best
        /\ kept.bestScore = IF Above(score, call.bestScore)
                            THEN score ELSE call.bestScore
    <3>1. CASE Above(score, call.bestScore)
      BY <2>0, <2>2, <2>4, <2>5, <3>1 DEF Keep, Runs
    <3>2. CASE ~Above(score, call.bestScore)
      BY <2>0, <3>2 DEF Keep
    <3> QED
      BY <3>1, <3>2
  <2> HIDE DEF kept
  <2>7. /\ Append(kept.metrics, score) \in Seq(Judgings)
        /\ Len(Append(kept.metrics, score)) = Len(call.metrics) + 1
    BY <2>2, <2>5, <2>6
  <2>8. kept.llmCalls + 1 \in Nat
    BY <2>6, Fields
  <2>9. judged \in Runs
    BY <2>6, <2>7, <2>8 DEF Runs
  <2>10. /\ judged.metrics = Append(call.metrics, score)
         /\ judged.best = kept.best /\ judged.bestScore = kept.bestScore
         /\ judged.current = kept.current
         /\ judged.llmCalls = call.llmCalls + 1
    BY <2>6 DEF Runs
  <2> HIDE DEF judged
  <2>11. BestSoFar(judged.metrics, judged.best, judged.bestScore)
    BY <2>2, <2>4, <2>5, <2>6, <2>10, KeepIsBest
  <2>12. /\ judged.current = Len(judged.metrics)
         /\ Len(judged.metrics) <= MaxReflections
         /\ judged.llmCalls = 2 * Len(judged.metrics)
         /\ judged.llmCalls <= 1 + 2 * MaxReflections
    <3>1. Len(judged.metrics) = Len(call.metrics) + 1
      BY <2>6, <2>7, <2>10
    <3> QED
      BY <2>0, <2>4, <2>6, <2>10, <3>1
  <2>13. Reflecting(Finish(judged))
    BY <2>9, <2>11, <2>12, FinishOK
  <2>14. Reflecting([judged EXCEPT !.at = "regenerate"])
    <3> DEFINE d == [judged EXCEPT !.at = "regenerate"]
    <3>1. d \in Runs
      BY <2>9, Moves
    <3>2. /\ d.agent = "reflective" /\ d.at = "regenerate"
          /\ d.metrics = judged.metrics
          /\ d.best = judged.best /\ d.bestScore = judged.bestScore
          /\ d.current = judged.current /\ d.llmCalls = judged.llmCalls
      BY <2>9 DEF Runs
    <3> HIDE DEF d
    <3>3. Reflecting(d)
      BY <2>11, <2>12, <3>1, <3>2 DEF Reflecting
    <3> QED
      BY <3>3 DEF d
  <2> QED
    BY <2>3, <2>13, <2>14
<1>4. CASE Regenerate
  <2> DEFINE c == [call EXCEPT !.current = @ + 1, !.llmCalls = @ + 1]
  <2>0. call.agent = "reflective" /\ call.at = "regenerate"
    BY <1>4 DEF Regenerate, At
  <2>1. /\ Reflecting(call) /\ call \in Runs
        /\ Len(call.metrics) \in Nat /\ Len(call.metrics) <= MaxReflections
    BY <1>0, <2>0
  <2>2. call.current + 1 \in Nat /\ call.llmCalls + 1 \in Nat
    BY <2>1, Fields
  <2>3. c \in Runs
    BY <2>1, <2>2 DEF Runs
  <2>4. /\ c.metrics = call.metrics /\ c.best = call.best
        /\ c.bestScore = call.bestScore /\ c.current = call.current + 1
        /\ c.llmCalls = call.llmCalls + 1
    BY <2>1 DEF Runs
  <2>5. /\ BestSoFar(call.metrics, call.best, call.bestScore)
        /\ call.current = Len(call.metrics)
        /\ call.llmCalls = 2 * Len(call.metrics)
    BY <2>0, <2>1 DEF Reflecting
  <2> HIDE DEF c
  <2>6. c.llmCalls = 1 + 2 * Len(c.metrics)
    BY <2>1, <2>4, <2>5
  <2>7. Reflecting(ReflectIterate(c))
    BY <2>1, <2>3, <2>4, <2>5, <2>6, IterateOK
  <2> QED
    BY <1>4, <2>7 DEF Regenerate, c
<1>5. CASE Raises("reflective", {"execute", "evaluate", "regenerate"})
  <2>0. call.agent = "reflective"
    BY <1>5 DEF Raises, At
  <2>1. call \in Runs /\ call' = [call EXCEPT !.at = "raised"]
    BY <1>0, <1>5, <2>0 DEF Raises
  <2>2. /\ call' \in Runs /\ call'.agent = "reflective" /\ call'.at = "raised"
        /\ call'.metrics = call.metrics /\ call'.llmCalls = call.llmCalls
    BY <2>1 DEF Runs
  <2>3. Reflecting(call')
    BY <1>0, <2>0, <2>2 DEF Reflecting
  <2> QED
    BY <2>3
<1>6. CASE ReflectReturns
  BY <1>6 DEF ReflectReturns, Return
<1> QED
  BY <1>1, <1>2, <1>3, <1>4, <1>5, <1>6 DEF ReflectNext

LEMMA ReturnedIsBest ==
    ASSUME Reflecting(call)
    PROVE  BestReturned
<1> SUFFICES ASSUME call.at = "done" PROVE BestReturned
  BY DEF BestReturned, At
<1>1. BestSoFar(call.metrics, call.best, call.bestScore)
  BY DEF Reflecting
<1> QED
  BY <1>1 DEF BestReturned, BestSoFar, Numbers

LEMMA ReflectIsBounded ==
    ASSUME Reflecting(call)
    PROVE  ReflectBounded
  BY DEF Reflecting, ReflectBounded

-----------------------------------------------------------------------------
(* CrewAgent: induction, the members and who serves a subtask *)

\* Induction, with the property as a set.
LEMMA NatsBySteps ==
    ASSUME NEW P, 0 \in P, \A n \in Nat : n \in P => n + 1 \in P
    PROVE  \A n \in Nat : n \in P
<1> DEFINE T == Nat \ P
           R == OpToRel(<, Nat)
<1> SUFFICES ASSUME T # {} PROVE FALSE
  OBVIOUS
<1>1. PICK x \in T : \A y \in T : <<y, x>> \notin R
  BY NatLessThanWellFounded, WFMin
<1>2. \A y \in T : ~(y < x)
  BY <1>1 DEF OpToRel
<1>3. x - 1 \in T /\ x - 1 < x
  OBVIOUS
<1> QED
  BY <1>2, <1>3

\* A set of numbers that is not empty has a least one.
LEMMA MinIsLeast ==
    ASSUME NEW S \in SUBSET Nat, S # {}
    PROVE  Min(S) \in S /\ \A x \in S : Min(S) <= x
<1> DEFINE R == OpToRel(<, Nat)
<1>1. PICK x \in S : \A y \in S : <<y, x>> \notin R
  BY NatLessThanWellFounded, WFMin
<1>2. ASSUME NEW y \in S PROVE x <= y
  <2>1. x \in Nat /\ y \in Nat
    OBVIOUS
  <2>2. <<y, x>> \notin R
    BY <1>1
  <2>3. ~(y < x)
    BY <2>1, <2>2 DEF OpToRel
  <2> QED
    BY <2>1, <2>3
<1> QED
  BY <1>2 DEF Min

\* Whoever is given a subtask is a member.
LEMMA AssigneeNamed ==
    ASSUME NEW crew \in Crews, NEW subtask
    PROVE  Assignee(crew, subtask) \in MemberNames \cup {"nobody"}
<1> DEFINE suited == {k \in DOMAIN crew : Suits(crew[k], subtask)}
<1>1. \A k \in DOMAIN crew : crew[k].name \in MemberNames
  <2>1. \A m \in Member : m.name \in MemberNames
    BY DEF Member
  <2>2. \A k \in DOMAIN crew : crew[k] \in Member
    BY DEF Crews
  <2> QED
    BY <2>1, <2>2
<1>2. CASE crew = <<>>
  BY <1>2 DEF Assignee
<1>3. CASE crew # <<>> /\ suited = {}
  <2>1. 1 \in DOMAIN crew
    BY <1>3 DEF Crews
  <2> QED
    BY <1>1, <1>3, <2>1 DEF Assignee
<1>4. CASE crew # <<>> /\ suited # {}
  <2>1. suited \in SUBSET Nat
    BY DEF Crews
  <2> HIDE DEF suited
  <2>2. Min(suited) \in suited
    BY <1>4, <2>1, MinIsLeast
  <2>3. Min(suited) \in DOMAIN crew
    BY <2>2 DEF suited
  <2>4. Assignee(crew, subtask) = crew[Min(suited)].name
    BY <1>4 DEF Assignee, suited
  <2> QED
    BY <1>1, <2>3, <2>4
<1> QED
  BY <1>2, <1>3, <1>4

\* Among equals the first is asked.
LEMMA FirstOfEquals ==
    ASSUME NEW crew \in Crews, crew # <<>>, NEW subtask,
           \A i, j \in DOMAIN crew : crew[i].expertise = crew[j].expertise
    PROVE  Assignee(crew, subtask) = crew[1].name
<1> DEFINE suited == {k \in DOMAIN crew : Suits(crew[k], subtask)}
<1>1. 1 \in DOMAIN crew /\ DOMAIN crew \in SUBSET Nat /\ \A k \in DOMAIN crew : 1 <= k
  BY DEF Crews
<1>2. CASE suited = {}
  BY <1>2 DEF Assignee
<1>3. CASE suited # {}
  <2>1. 1 \in suited
    BY <1>1, <1>3 DEF Suits
  <2>2. suited \in SUBSET Nat /\ \A k \in suited : 1 <= k
    BY <1>1
  <2>3. Assignee(crew, subtask) = crew[Min(suited)].name
    BY <1>3 DEF Assignee
  <2> HIDE DEF suited
  <2>4. Min(suited) \in suited /\ Min(suited) <= 1
    BY <2>1, <2>2, MinIsLeast
  <2>5. Min(suited) \in Nat /\ 1 <= Min(suited)
    BY <2>2, <2>4
  <2> QED
    BY <2>3, <2>4, <2>5
<1> QED
  BY <1>2, <1>3

\* A crew that has grown: everybody still stands where he stood.
Grown(crew, later) ==
    /\ later \in Crews /\ Unlike(later)
    /\ Len(crew) <= Len(later)
    /\ \A k \in DOMAIN crew : later[k].name = crew[k].name

\* _members after add_member begins with what it was; nobody is there twice.
LEMMA EnlistGrows ==
    ASSUME NEW crew \in Crews, Unlike(crew), NEW name \in MemberNames,
           NEW e \in Expertises \cup {{"general"}}
    PROVE  Grown(crew, Enlist(crew, name, e))
<1> DEFINE new == [name |-> name, expertise |-> e]
           d == Enlist(crew, name, e)
<1>1. /\ new \in Member /\ new.name = name
      /\ crew \in Seq(Member) /\ Len(crew) \in Nat
  BY DEF Crews, Member
<1> HIDE DEF new
<1>2. CASE Rank(crew, name) # {}
  <2>1. d = [k \in DOMAIN crew |-> IF crew[k].name = name THEN new ELSE crew[k]]
    BY <1>2 DEF Enlist, new
  <2>2. d \in Seq(Member) /\ Len(d) = Len(crew) /\ DOMAIN d = DOMAIN crew
    BY <1>1, <2>1
  <2>3. \A k \in DOMAIN crew : d[k].name = crew[k].name
    BY <1>1, <2>1
  <2> QED
    BY <1>1, <2>2, <2>3 DEF Grown, Unlike, Crews
<1>3. CASE Rank(crew, name) = {}
  <2>1. d = Append(crew, new)
    BY <1>3 DEF Enlist, new
  <2>2. /\ d \in Seq(Member) /\ Len(d) = Len(crew) + 1
        /\ DOMAIN d = 1..(Len(crew) + 1) /\ DOMAIN crew = 1..Len(crew)
        /\ d[Len(crew) + 1] = new
        /\ \A k \in DOMAIN crew : d[k] = crew[k]
    BY <1>1, <2>1
  <2> HIDE DEF d
  <2>3. \A k \in DOMAIN crew : d[k].name # name
    BY <1>3, <2>2 DEF Rank
  <2>4. Unlike(d)
    BY <1>1, <2>2, <2>3 DEF Unlike
  <2>5. Len(crew) <= Len(d)
    BY <1>1, <2>2
  <2> QED
    BY <2>2, <2>4, <2>5 DEF Grown, Crews, d
<1> QED
  BY <1>2, <1>3

\* The crews that arise one after the other exist.
LEMMA CrewsDefined ==
    ASSUME NEW crew, NEW roster, NEW n \in Nat
    PROVE  \E f : f = [k \in 0..n |->
                          IF k = 0 THEN crew
                          ELSE Enlist(f[k - 1], roster[k], {"general"})]
<1> DEFINE P == {m \in Nat :
                    \E f : f = [k \in 0..m |->
                                  IF k = 0 THEN crew
                                  ELSE Enlist(f[k - 1], roster[k], {"general"})]}
<1>1. 0 \in P
  <2> DEFINE f == [k \in 0..0 |-> crew]
  <2>1. f = [k \in 0..0 |-> IF k = 0 THEN crew
                            ELSE Enlist(f[k - 1], roster[k], {"general"})]
    OBVIOUS
  <2> QED
    BY <2>1
<1>2. ASSUME NEW m \in Nat, m \in P
      PROVE  m + 1 \in P
  <2>1. PICK f : f = [k \in 0..m |->
                        IF k = 0 THEN crew
                        ELSE Enlist(f[k - 1], roster[k], {"general"})]
    BY <1>2
  <2> DEFINE g == [k \in 0..(m + 1) |->
                     IF k = m + 1
                     THEN Enlist(f[m], roster[m + 1], {"general"}) ELSE f[k]]
             h == [k \in 0..(m + 1) |->
                     IF k = 0 THEN crew
                     ELSE Enlist(g[k - 1], roster[k], {"general"})]
  <2>2. ASSUME NEW k \in 0..(m + 1) PROVE g[k] = h[k]
    <3>1. CASE k = 0
      BY <2>1, <3>1
    <3>2. CASE k \in 1..m
      <4>1. g[k] = f[k] /\ g[k - 1] = f[k - 1]
        BY <3>2
      <4>2. f[k] = Enlist(f[k - 1], roster[k], {"general"})
        BY <2>1, <3>2
      <4>3. h[k] = Enlist(g[k - 1], roster[k], {"general"})
        BY <3>2
      <4> QED
        BY <4>1, <4>2, <4>3
    <3>3. CASE k = m + 1
      BY <3>3
    <3> QED
      BY <3>1, <3>2, <3>3
  <2>3. g = h
    BY <2>2
  <2>4. \E x : x = [k \in 0..(m + 1) |->
                      IF k = 0 THEN crew
                      ELSE Enlist(x[k - 1], roster[k], {"general"})]
    BY <2>3
  <2> QED
    BY <2>4
<1> HIDE DEF P
<1>3. n \in P
  BY <1>1, <1>2, NatsBySteps
<1> QED
  BY <1>3 DEF P

\* So it is after a roster is added.
LEMMA EnlistAllGrows ==
    ASSUME NEW crew \in Crews, Unlike(crew), NEW roster \in Seq(MemberNames)
    PROVE  Grown(crew, EnlistAll(crew, roster))
<1> DEFINE crews == CHOOSE f : f = [k \in 0..Len(roster) |->
                        IF k = 0 THEN crew
                        ELSE Enlist(f[k - 1], roster[k], {"general"})]
           P == {m \in Nat : m <= Len(roster) => Grown(crew, crews[m])}
<1>1. crews = [k \in 0..Len(roster) |->
                  IF k = 0 THEN crew
                  ELSE Enlist(crews[k - 1], roster[k], {"general"})]
  <2>1. Len(roster) \in Nat
    OBVIOUS
  <2> QED
    BY <2>1, CrewsDefined
<1> HIDE DEF crews
<1>2. 0 \in P
  <2>1. crews[0] = crew
    BY <1>1
  <2>2. Grown(crew, crew)
    BY DEF Grown, Crews
  <2> QED
    BY <2>1, <2>2
<1>3. ASSUME NEW m \in Nat, m \in P
      PROVE  m + 1 \in P
  <2> SUFFICES ASSUME m + 1 <= Len(roster) PROVE Grown(crew, crews[m + 1])
    OBVIOUS
  <2>1. Grown(crew, crews[m])
    BY <1>3
  <2>2. roster[m + 1] \in MemberNames
    OBVIOUS
  <2>3. crews[m + 1] = Enlist(crews[m], roster[m + 1], {"general"})
    BY <1>1
  <2>4. Grown(crews[m], crews[m + 1])
    BY <2>1, <2>2, <2>3, EnlistGrows DEF Grown
  <2>5. /\ DOMAIN crew \subseteq DOMAIN crews[m]
        /\ Len(crew) <= Len(crews[m + 1])
    BY <2>1, <2>4 DEF Grown, Crews
  <2> QED
    BY <2>1, <2>4, <2>5 DEF Grown
<1> HIDE DEF P
<1>4. Len(roster) \in P
  <2>1. Len(roster) \in Nat
    OBVIOUS
  <2> QED
    BY <1>2, <1>3, <2>1, NatsBySteps
<1>5. EnlistAll(crew, roster) = crews[Len(roster)]
  BY DEF EnlistAll, crews
<1> QED
  BY <1>4, <1>5 DEF P

\* Nobody changes places when somebody leaves.
LEMMA RemovalKeeps ==
    ASSUME NEW crew \in Crews, Unlike(crew), NEW k \in DOMAIN crew
    PROVE  LET later == RemoveAt(crew, k)
           IN  /\ later \in Crews /\ Unlike(later)
               /\ Len(later) = Len(crew) - 1 /\ Len(later) \in Nat
               /\ \A j \in DOMAIN later : /\ later[j] = crew[Found(k, j)]
                                          /\ Found(k, j) \in DOMAIN crew
<1> DEFINE later == RemoveAt(crew, k)
<1>1. k \in 1..Len(crew) /\ Len(crew) \in Nat /\ Len(crew) - 1 \in Nat
      /\ DOMAIN crew = 1..Len(crew)
  BY DEF Crews
<1>2. /\ later \in Crews /\ Len(later) = Len(crew) - 1
      /\ \A j \in 1..(Len(crew) - 1) : later[j] = crew[Found(k, j)]
  BY <1>1, RemovedAt DEF Crews, Found
<1> HIDE DEF later
<1>3. DOMAIN later = 1..(Len(crew) - 1)
  BY <1>2 DEF Crews
<1>4. \A i, j \in DOMAIN later : /\ Found(k, i) \in DOMAIN crew
                                 /\ Found(k, i) = Found(k, j) => i = j
  BY <1>1, <1>3, FoundBefore
<1>5. Unlike(later)
  BY <1>2, <1>3, <1>4 DEF Unlike
<1> QED
  BY <1>1, <1>2, <1>3, <1>4, <1>5 DEF later

\* The manager gives out one to four subtasks.
LEMMA FewSubtasks ==
    ASSUME NEW lines \in Decompositions
    PROVE  Len(Subtasks(lines)) \in 1..4
<1> DEFINE numbered == {k \in DOMAIN lines : lines[k].numbered}
<1>1. IsFiniteSet(DOMAIN lines)
  <2>1. PICK n \in Nat : DOMAIN lines = 1..n
    BY CrewAssumption
  <2> QED
    BY <2>1, FS_Interval
<1>2. CASE numbered = {}
  BY <1>2 DEF Subtasks
<1>3. CASE numbered # {}
  <2> DEFINE n == Cardinality(numbered)
  <2>1. numbered \in SUBSET DOMAIN lines
    OBVIOUS
  <2> HIDE DEF numbered
  <2>2. IsFiniteSet(numbered) /\ n \in Nat /\ n # 0
    BY <1>1, <1>3, <2>1, FS_Subset, FS_CardinalityType, FS_EmptySet
  <2>3. Min({4, n}) \in 1..4
    BY <2>2, MinIsLeast
  <2>4. Subtasks(lines) = [j \in 1..Min({4, n}) |-> lines[Nth(numbered, j)]]
    BY <1>3 DEF Subtasks, numbered
  <2> HIDE DEF n
  <2>5. \A m \in 1..4 : Len([j \in 1..m |-> lines[Nth(numbered, j)]]) = m
    OBVIOUS
  <2> QED
    BY <2>3, <2>4, <2>5
<1> QED
  BY <1>2, <1>3

\* A step of the crew keeps the crew and what is known of the call.
LEMMA CrewKept ==
    ASSUME members \in Crews, Unlike(members),
           call = Idle \/ Assigning(call, members), CrewNext
    PROVE  /\ members' \in Crews /\ Unlike(members')
           /\ call' = Idle \/ Assigning(call', members')
<1>1. ASSUME NEW n \in MemberNames, NEW e \in Expertises, AddMember(n, e)
      PROVE  members' \in Crews /\ Unlike(members') /\ call' = Idle
  BY <1>1, EnlistGrows DEF AddMember, Grown
<1>2. ASSUME NEW n \in MemberNames, RemoveMember(n)
      PROVE  members' \in Crews /\ Unlike(members') /\ call' = Idle
  BY <1>2, RemovalKeeps DEF RemoveMember, Rank
<1>3. ASSUME NEW r \in Rosters, ExecuteCrew(r)
      PROVE  members' \in Crews /\ Unlike(members') /\ Assigning(call', members')
  <2>1. r \in Seq(MemberNames)
    BY CrewAssumption
  <2>2. members' \in Crews /\ Unlike(members')
    BY <1>3, <2>1, EnlistAllGrows DEF ExecuteCrew, Grown
  <2>3. <<>> \in Seq(MemberNames \cup {"nobody"})
    OBVIOUS
  <2>4. Assigning(CrewStart, members')
    BY <2>3 DEF Assigning, CrewStart, CrewRuns
  <2> QED
    BY <1>3, <2>2, <2>4 DEF ExecuteCrew
<1>4. CASE CrewReturns /\ UNCHANGED members
  BY <1>4 DEF CrewReturns, Return
<1>5. ASSUME UNCHANGED members, call.agent = "crew", Assigning(call', members)
      PROVE  /\ members' \in Crews /\ Unlike(members')
             /\ Assigning(call', members')
  BY <1>5
<1> DEFINE Names == MemberNames \cup {"nobody"}
<1>6. ASSUME call.agent = "crew"
      PROVE  /\ Assigning(call, members) /\ call \in CrewRuns(call.subtasks)
             /\ call.handlers \in Seq(Names) /\ call.llmCalls \in Nat
             /\ call.llmCalls <= 6
             /\ Len(call.handlers) \in Nat
  BY <1>6 DEF Idle, Assigning, CrewRuns
<1>7. ASSUME NEW d \in Decompositions, Decompose(d)
      PROVE  Assigning(call', members)
  <2>1. /\ call.agent = "crew" /\ call.at = "decompose"
        /\ call' = [call EXCEPT !.at = "assign", !.llmCalls = 1,
                                !.subtasks = Subtasks(d)]
    BY <1>7 DEF Decompose, At
  <2>0. PICK subtasks : subtasks = Subtasks(d)
    OBVIOUS
  <2>5. call' = [call EXCEPT !.at = "assign", !.llmCalls = 1,
                             !.subtasks = subtasks]
    BY <2>0, <2>1
  <2>2. /\ call' \in CrewRuns(subtasks) /\ call'.agent = "crew"
        /\ call'.at = "assign" /\ call'.llmCalls = 1
        /\ call'.subtasks = subtasks /\ call'.handlers = call.handlers
    <3>1. call \in CrewRuns(call.subtasks)
      BY <1>6, <2>1
    <3>2. call' \in CrewRuns(subtasks)
      BY <2>5, <3>1 DEF CrewRuns
    <3> QED
      BY <2>5, <3>1, <3>2 DEF CrewRuns
  <2>3. call.handlers = <<>>
    BY <1>6, <2>1 DEF Assigning
  <2>4. Len(subtasks) \in Nat /\ 0 < Len(subtasks) /\ Len(subtasks) <= 4
    <3>1. \A n \in 1..4 : n \in Nat /\ 0 < n /\ n <= 4
      OBVIOUS
    <3> QED
      BY <2>0, <3>1, FewSubtasks
  <2>6. DOMAIN call.handlers = {} /\ Len(call.handlers) = 0
    BY <2>3
  <2>7. call'.llmCalls <= 1 + Len(call'.handlers) /\ call'.llmCalls <= 6
    BY <2>2, <2>6
  <2>8. Len(call'.handlers) < Len(call'.subtasks)
    BY <2>2, <2>4, <2>6
  <2>9. call'.agent = "crew" /\ call' \in CrewRuns(call'.subtasks)
    BY <2>2
  <2>10. DOMAIN call'.handlers = {}
    BY <2>2, <2>6
  <2>11. Len(call'.subtasks) \in Nat /\ Len(call'.subtasks) <= 4
    BY <2>2, <2>4
  <2> QED
    BY <2>2, <2>7, <2>8, <2>9, <2>10, <2>11 DEF Assigning
<1>8. ASSUME Assign PROVE Assigning(call', members)
  <2> DEFINE k == Len(call.handlers) + 1
             who == Assignee(members, call.subtasks[k])
             more == IF who = "nobody" THEN call.llmCalls ELSE call.llmCalls + 1
             next == IF k = Len(call.subtasks) THEN "synthesize" ELSE "assign"
             handlers == Append(call.handlers, who)
  <2>1. /\ call.agent = "crew" /\ call.at = "assign"
        /\ call' = [call EXCEPT !.handlers = handlers, !.llmCalls = more,
                                !.at = next]
    BY <1>8 DEF Assign, At
  <2>2. /\ Len(call.subtasks) \in Nat /\ Len(call.subtasks) <= 4
        /\ Len(call.handlers) < Len(call.subtasks)
        /\ call.llmCalls <= 1 + Len(call.handlers)
        /\ \A j \in DOMAIN call.handlers :
              call.handlers[j] = Assignee(members, call.subtasks[j])
    BY <1>6, <2>1 DEF Assigning
  <2>3. who \in Names
    BY AssigneeNamed
  <2> HIDE DEF who
  <2>4. more \in Nat /\ more <= 5 /\ more <= 1 + k
    <3>1. call.llmCalls \in Nat /\ Len(call.handlers) \in Nat
      BY <1>6, <2>1
    <3>2. call.llmCalls <= 1 + Len(call.handlers) /\ 1 + Len(call.handlers) <= 4
      BY <2>2, <3>1
    <3> QED
      BY <3>1, <3>2
  <2>8. /\ next \in {"assign", "synthesize"}
        /\ next = "assign" => k < Len(call.subtasks)
    BY <1>6, <2>1, <2>2
  <2> HIDE DEF more, next
  <2>5. /\ handlers \in Seq(Names) /\ Len(handlers) = k
        /\ DOMAIN handlers = 1..k
        /\ \A j \in DOMAIN call.handlers : handlers[j] = call.handlers[j]
        /\ handlers[k] = who
        /\ DOMAIN call.handlers = 1..(k - 1)
    BY <1>6, <2>1, <2>3
  <2> HIDE DEF handlers
  <2>6. /\ call' \in CrewRuns(call.subtasks) /\ call'.agent = "crew"
        /\ call'.at = next /\ call'.llmCalls = more
        /\ call'.subtasks = call.subtasks /\ call'.handlers = handlers
    BY <1>6, <2>1, <2>4, <2>5, <2>8 DEF CrewRuns
  <2>7. \A j \in DOMAIN handlers :
           handlers[j] = Assignee(members, call.subtasks[j])
    <3> SUFFICES ASSUME NEW j \in 1..k
                 PROVE  handlers[j] = Assignee(members, call.subtasks[j])
      BY <2>5
    <3>1. CASE j = k
      BY <2>5, <3>1 DEF who
    <3>2. CASE j \in 1..(k - 1)
      BY <2>2, <2>5, <3>2
    <3> QED
      BY <1>6, <2>1, <3>1, <3>2
  <2> HIDE DEF k
  <2> QED
    BY <2>2, <2>4, <2>5, <2>6, <2>7, <2>8 DEF Assigning
<1>9. ASSUME Synthesize PROVE Assigning(call', members)
  <2>1. /\ call.agent = "crew" /\ call.at = "synthesize"
        /\ call' = [call EXCEPT !.at = "done", !.llmCalls = @ + 1]
    BY <1>9 DEF Synthesize, At
  <2>2. call.llmCalls <= 5
    BY <1>6, <2>1 DEF Assigning
  <2>3. call.llmCalls + 1 \in Nat /\ call.llmCalls + 1 <= 6
    BY <1>6, <2>1, <2>2
  <2>4. /\ call' \in CrewRuns(call.subtasks) /\ call'.agent = "crew"
        /\ call'.at = "done" /\ call'.llmCalls = call.llmCalls + 1
        /\ call'.subtasks = call.subtasks /\ call'.handlers = call.handlers
    BY <1>6, <2>1, <2>3 DEF CrewRuns
  <2>5. \A j \in DOMAIN call.handlers :
              call.handlers[j] = Assignee(members, call.subtasks[j])
    BY <1>6, <2>1 DEF Assigning
  <2> QED
    BY <2>3, <2>4, <2>5 DEF Assigning
<1>10. ASSUME Raises("crew", {"decompose", "assign", "synthesize"})
       PROVE  Assigning(call', members)
  <2>1. /\ call.agent = "crew" /\ call' = [call EXCEPT !.at = "raised"]
    BY <1>10 DEF Raises, At
  <2>2. /\ call' \in CrewRuns(call.subtasks) /\ call'.agent = "crew"
        /\ call'.at = "raised" /\ call'.llmCalls = call.llmCalls
        /\ call'.subtasks = call.subtasks /\ call'.handlers = call.handlers
    BY <1>6, <2>1 DEF CrewRuns
  <2>3. \A j \in DOMAIN call.handlers :
              call.handlers[j] = Assignee(members, call.subtasks[j])
    BY <1>6, <2>1 DEF Assigning
  <2> QED
    BY <1>6, <2>1, <2>2, <2>3 DEF Assigning
<1>11. CASE UNCHANGED members /\ call.agent = "crew" /\ Assigning(call', members)
  BY <1>5, <1>11
<1>12. (\E d \in Decompositions : Decompose(d)) \/ Assign \/ Synthesize
       \/ (Raises("crew", {"decompose", "assign", "synthesize"}) /\ UNCHANGED members)
       => UNCHANGED members /\ call.agent = "crew" /\ Assigning(call', members)
  <2>1. ASSUME NEW d \in Decompositions, Decompose(d)
        PROVE  UNCHANGED members /\ call.agent = "crew"
    BY <2>1 DEF Decompose, At
  <2>2. Assign => UNCHANGED members /\ call.agent = "crew"
    BY DEF Assign, At
  <2>3. Synthesize => UNCHANGED members /\ call.agent = "crew"
    BY DEF Synthesize, At
  <2>4. Raises("crew", {"decompose", "assign", "synthesize"}) => call.agent = "crew"
    BY DEF Raises, At
  <2> QED
    BY <1>7, <1>8, <1>9, <1>10, <2>1, <2>2, <2>3, <2>4
<1> QED
  BY <1>1, <1>2, <1>3, <1>4, <1>11, <1>12 DEF CrewNext

\* No step of the crew changes the order of two members.
LEMMA RanksKept ==
    ASSUME members \in Crews, Unlike(members), CrewNext
    PROVE  /\ \A m, n \in MemberNames :
                 \A i \in Rank(members, m), j \in Rank(members, n) :
                     \A i2 \in Rank(members', m), j2 \in Rank(members', n) :
                         (i < j) <=> (i2 < j2)
           /\ \A n \in MemberNames :
                 Rank(members, n) # {} /\ Rank(members', n) = {} => call = Idle
<1>1. CASE Grown(members, members')
  <2>1. ASSUME NEW n \in MemberNames, NEW i \in Rank(members, n)
        PROVE  /\ i \in Rank(members', n)
               /\ \A i2 \in Rank(members', n) : i2 = i
    <3>1. i \in DOMAIN members' /\ members'[i].name = n
      BY <1>1 DEF Grown, Rank, Crews
    <3> QED
      BY <1>1, <3>1 DEF Grown, Unlike, Rank
  <2> QED
    BY <2>1
<1>2. ASSUME NEW x \in MemberNames, RemoveMember(x)
      PROVE  /\ \A m, n \in MemberNames :
                 \A i \in Rank(members, m), j \in Rank(members, n) :
                     \A i2 \in Rank(members', m), j2 \in Rank(members', n) :
                         (i < j) <=> (i2 < j2)
             /\ call = Idle
  <2>1. PICK k \in Rank(members, x) : members' = RemoveAt(members, k)
    BY <1>2 DEF RemoveMember
  <2>2. /\ k \in DOMAIN members /\ members' \in Crews
        /\ \A j \in DOMAIN members' : /\ members'[j] = members[Found(k, j)]
                                      /\ Found(k, j) \in DOMAIN members
    BY <2>1, RemovalKeeps DEF Rank
  <2>3. ASSUME NEW n \in MemberNames, NEW i \in Rank(members, n),
               NEW i2 \in Rank(members', n)
        PROVE  i = Found(k, i2)
    BY <2>2 DEF Rank, Unlike
  <2>4. /\ k \in Int /\ \A n \in MemberNames : Rank(members', n) \subseteq Int
    BY <2>2 DEF Rank, Crews
  <2>5. \A a, b \in Int : Found(k, a) < Found(k, b) <=> a < b
    BY <2>4 DEF Found
  <2>6. ASSUME NEW m \in MemberNames, NEW n \in MemberNames,
               NEW i \in Rank(members, m), NEW j \in Rank(members, n),
               NEW i2 \in Rank(members', m), NEW j2 \in Rank(members', n)
        PROVE  (i < j) <=> (i2 < j2)
    BY <2>3, <2>4, <2>5
  <2> QED
    BY <1>2, <2>6 DEF RemoveMember
<1>3. CASE UNCHANGED members
  <2>1. ASSUME NEW n \in MemberNames, NEW i \in Rank(members, n),
               NEW i2 \in Rank(members, n)
        PROVE  i = i2
    BY DEF Rank, Unlike
  <2> QED
    BY <1>3, <2>1
<1>4. ASSUME NEW n \in MemberNames, NEW e \in Expertises, AddMember(n, e)
      PROVE  Grown(members, members')
  BY <1>4, EnlistGrows DEF AddMember
<1>5. ASSUME NEW r \in Rosters, ExecuteCrew(r)
      PROVE  Grown(members, members')
  BY <1>5, CrewAssumption, EnlistAllGrows DEF ExecuteCrew
<1>6. (\E d \in Decompositions : Decompose(d)) \/ Assign \/ Synthesize
      => UNCHANGED members
  BY DEF Decompose, Assign, Synthesize
<1> QED
  BY <1>1, <1>2, <1>3, <1>4, <1>5, <1>6 DEF CrewNext

LEMMA OldestServes ==
    ASSUME members \in Crews, Assigning(call, members)
    PROVE  OldestOfEqualsServes
<1> SUFFICES ASSUME ~ \E m, n \in ToSet(members) : m.expertise # n.expertise,
                    NEW k \in DOMAIN call.handlers
             PROVE  call.handlers[k] = IF members = <<>> THEN "nobody"
                                       ELSE members[1].name
  BY DEF OldestOfEqualsServes
<1>1. call.handlers[k] = Assignee(members, call.subtasks[k])
  BY DEF Assigning
<1>2. \A i, j \in DOMAIN members : members[i].expertise = members[j].expertise
  BY DEF ToSet
<1>3. CASE members = <<>>
  BY <1>1, <1>3 DEF Assignee
<1>4. CASE members # <<>>
  BY <1>1, <1>2, <1>4, FirstOfEquals
<1> QED
  BY <1>3, <1>4

LEMMA CrewIsBounded ==
    ASSUME Assigning(call, members)
    PROVE  CrewBounded
  BY DEF Assigning, CrewRuns, CrewBounded

-----------------------------------------------------------------------------
(* DebateAgent: sums, and what rounding down loses *)

\* Sums

\* The recursive function of Total is defined for every sequence.
LEMMA SumsExist ==
    ASSUME NEW s, NEW n \in Nat
    PROVE  \E f : f = [k \in 0..n |-> IF k = 0 THEN 0 ELSE f[k - 1] + s[k]]
<1> DEFINE P == {m \in Nat :
                    \E f : f = [k \in 0..m |->
                                  IF k = 0 THEN 0 ELSE f[k - 1] + s[k]]}
<1>1. 0 \in P
  <2> DEFINE f == [k \in 0..0 |-> 0]
  <2>1. f = [k \in 0..0 |-> IF k = 0 THEN 0 ELSE f[k - 1] + s[k]]
    OBVIOUS
  <2> QED
    BY <2>1
<1>2. ASSUME NEW m \in Nat, m \in P
      PROVE  m + 1 \in P
  <2>1. PICK f : f = [k \in 0..m |-> IF k = 0 THEN 0 ELSE f[k - 1] + s[k]]
    BY <1>2
  <2> DEFINE g == [k \in 0..(m + 1) |->
                     IF k = m + 1 THEN f[m] + s[m + 1] ELSE f[k]]
             h == [k \in 0..(m + 1) |-> IF k = 0 THEN 0 ELSE g[k - 1] + s[k]]
  <2>2. ASSUME NEW k \in 0..(m + 1) PROVE g[k] = h[k]
    <3>1. CASE k = 0
      BY <2>1, <3>1
    <3>2. CASE k \in 1..m
      <4>1. g[k] = f[k] /\ g[k - 1] = f[k - 1]
        BY <3>2
      <4>2. f[k] = f[k - 1] + s[k]
        BY <2>1, <3>2
      <4>3. h[k] = g[k - 1] + s[k]
        BY <3>2
      <4> QED
        BY <4>1, <4>2, <4>3
    <3>3. CASE k = m + 1
      BY <3>3
    <3> QED
      BY <3>1, <3>2, <3>3
  <2>3. g = h
    BY <2>2
  <2>4. \E x : x = [k \in 0..(m + 1) |-> IF k = 0 THEN 0 ELSE x[k - 1] + s[k]]
    BY <2>3
  <2> QED
    BY <2>4
<1> HIDE DEF P
<1>3. n \in P
  BY <1>1, <1>2, NatsBySteps
<1> QED
  BY <1>3 DEF P

\* The total is the last of the partial sums, which grow.
Sums(f, s) ==
    /\ f \in [0..Len(s) -> Nat] /\ f[0] = 0
    /\ \A k \in 1..Len(s) : f[k] = f[k - 1] + s[k]

LEMMA TotalIsSum ==
    ASSUME NEW s \in Seq(Nat)
    PROVE  \E f : Sums(f, s) /\ Total(s) = f[Len(s)]
<1> DEFINE f == CHOOSE f : f = [k \in 0..Len(s) |->
                                  IF k = 0 THEN 0 ELSE f[k - 1] + s[k]]
           P == {m \in Nat : m <= Len(s) => f[m] \in Nat}
<1>1. Len(s) \in Nat
  OBVIOUS
<1>2. f = [k \in 0..Len(s) |-> IF k = 0 THEN 0 ELSE f[k - 1] + s[k]]
  BY <1>1, SumsExist
<1>3. Total(s) = f[Len(s)]
  BY DEF Total
<1> HIDE DEF f
<1>4. 0 \in P
  BY <1>2
<1>5. ASSUME NEW m \in Nat, m \in P PROVE m + 1 \in P
  <2> SUFFICES ASSUME m + 1 <= Len(s) PROVE f[m + 1] \in Nat
    OBVIOUS
  <2>1. f[m] \in Nat /\ s[m + 1] \in Nat
    BY <1>5
  <2>2. f[m + 1] = f[m] + s[m + 1]
    BY <1>2
  <2> QED
    BY <2>1, <2>2
<1>6. \A m \in Nat : m \in P
  <2> HIDE DEF P
  <2> QED
    BY <1>4, <1>5, NatsBySteps
<1>7. \A m \in 0..Len(s) : f[m] \in Nat
  BY <1>6
<1>8. Sums(f, s)
  <2>1. f \in [0..Len(s) -> Nat]
    <3>1. f = [k \in 0..Len(s) |-> f[k]]
      BY <1>2
    <3> QED
      BY <1>7, <3>1
  <2>2. \A k \in 1..Len(s) : f[k] = f[k - 1] + s[k]
    BY <1>2
  <2>3. f[0] = 0
    BY <1>2
  <2> QED
    BY <2>1, <2>2, <2>3 DEF Sums
<1> QED
  BY <1>3, <1>8

\* Shares

\* What integer division loses.
LEMMA DivBounds ==
    ASSUME NEW a \in Nat, NEW t \in Nat, t > 0
    PROVE  /\ a \div t \in Nat
           /\ t * (a \div t) <= a /\ a <= t * (a \div t) + (t - 1)
  OBVIOUS

LEMMA DivKeepsOrder ==
    ASSUME NEW a \in Nat, NEW b \in Nat, NEW t \in Nat, t > 0, a >= b
    PROVE  a \div t >= b \div t
<1> DEFINE p == a \div t
           q == b \div t
<1>1. p \in Nat /\ q \in Nat /\ a <= t * p + (t - 1) /\ t * q <= b
  BY DivBounds
<1> HIDE DEF p, q
<1>2. t * q < t * (p + 1)
  BY <1>1
<1>3. q < p + 1
  BY <1>1, <1>2
<1> QED
  BY <1>1, <1>3 DEF p, q

\* A whole share of something is at least one, and larger than any smaller one.
LEMMA WholeShare ==
    ASSUME NEW a \in Nat, NEW t \in Nat, t > 0, a > 0, a % t = 0
    PROVE  /\ a = t * (a \div t) /\ a \div t >= 1
           /\ \A b \in Nat : b < a => b \div t <= a \div t - 1
<1> DEFINE p == a \div t
<1>1. p \in Nat /\ a = t * p
  OBVIOUS
<1> HIDE DEF p
<1>2. p >= 1
  BY <1>1
<1>3. ASSUME NEW b \in Nat, b < a PROVE b \div t <= p - 1
  <2> DEFINE q == b \div t
  <2>1. q \in Nat /\ t * q <= b
    BY DivBounds
  <2> HIDE DEF q
  <2>2. t * q < t * p
    BY <1>1, <1>3, <2>1
  <2>3. q < p
    BY <1>1, <2>1, <2>2
  <2> QED
    BY <1>1, <2>1, <2>3 DEF q
<1> QED
  BY <1>1, <1>2, <1>3 DEF p

\* The error of the shares grows by at most one with each share.
LEMMA ShareAdded ==
    ASSUME NEW t \in Nat, t > 0, NEW k \in Nat, NEW f \in Nat, NEW g \in Nat,
           NEW a \in Nat, NEW q \in Nat,
           t * g <= 100 * f, 100 * f <= t * g + k * t,
           t * q <= 100 * a, 100 * a <= t * q + t
    PROVE  /\ t * (g + q) <= 100 * (f + a)
           /\ 100 * (f + a) <= t * (g + q) + (k + 1) * t
  OBVIOUS

\* A hundred shares are given away, but for the error.
LEMMA SharesOfHundred ==
    ASSUME NEW t \in Nat, t > 0, NEW n \in Nat, NEW g \in Nat,
           t * g <= 100 * t, 100 * t <= t * g + n * t
    PROVE  g <= 100 /\ g >= 100 - n
<1>1. g <= 100
  OBVIOUS
<1>2. t * (g + n - 100) >= 0
  OBVIOUS
<1>3. g + n - 100 >= 0
  BY <1>2
<1> QED
  BY <1>1, <1>3

LEMMA ZeroSum ==
    ASSUME NEW s \in Seq(Nat), \A k \in DOMAIN s : s[k] = 0
    PROVE  Total(s) = 0
<1>1. PICK f : Sums(f, s) /\ Total(s) = f[Len(s)]
  BY TotalIsSum
<1> DEFINE P == {m \in Nat : m <= Len(s) => f[m] = 0}
<1>2. 0 \in P
  BY <1>1 DEF Sums
<1>3. ASSUME NEW m \in Nat, m \in P PROVE m + 1 \in P
  <2> SUFFICES ASSUME m + 1 <= Len(s) PROVE f[m + 1] = 0
    OBVIOUS
  <2>1. f[m] = 0 /\ s[m + 1] = 0
    BY <1>3
  <2>2. f[m + 1] = f[m] + s[m + 1]
    BY <1>1 DEF Sums
  <2> QED
    BY <2>1, <2>2
<1>4. \A m \in Nat : m \in P
  <2> HIDE DEF P
  <2> QED
    BY <1>2, <1>3, NatsBySteps
<1> QED
  BY <1>1, <1>4

\* The votes are numbers, one for each score, and the same for equal scores.
LEMMA VotesTyped ==
    ASSUME NEW s \in Seq(Nat), NEW short \in SUBSET Whole(s)
    PROVE  /\ Total(s) \in Nat /\ Votes(s, short) \in Seq(Nat)
           /\ Len(Votes(s, short)) = Len(s) /\ DOMAIN Votes(s, short) = 1..Len(s)
           /\ Total(s) = 0 => \A k \in DOMAIN s : Votes(s, short)[k] = 0
           /\ \A k \in DOMAIN s :
                 Total(s) > 0 =>
                    /\ (s[k] * 100) \div Total(s) \in Nat
                    /\ s[k] \notin short =>
                          Votes(s, short)[k] = (s[k] * 100) \div Total(s)
                    /\ s[k] \in short =>
                          /\ Votes(s, short)[k] = (s[k] * 100) \div Total(s) - 1
                          /\ (s[k] * 100) % Total(s) = 0
                          /\ s[k] > 0
<1> DEFINE V == Votes(s, short)
           T == Total(s)
<1>1. s \in Seq(Nat) /\ Len(s) \in Nat /\ DOMAIN s = 1..Len(s)
  OBVIOUS
<1>2. T \in Nat
  BY <1>1, TotalIsSum DEF Sums
<1>3. ASSUME NEW x \in short
      PROVE  x \in Nat /\ 0 < x /\ (x * 100) % T = 0
  <2>1. PICK i \in DOMAIN s : x = s[i] /\ 0 < s[i] /\ (100 * s[i]) % T = 0
    BY <1>3 DEF Whole
  <2>2. x \in Nat /\ 100 * x = x * 100
    BY <1>1, <2>1
  <2> QED
    BY <2>1, <2>2
<1>4. V = [k \in 1..Len(s) |->
              IF T = 0 THEN 0
              ELSE (s[k] * 100) \div T - (IF s[k] \in short THEN 1 ELSE 0)]
  BY <1>1 DEF Votes
<1> HIDE DEF V, T
<1>5. ASSUME NEW k \in 1..Len(s), T > 0
      PROVE  /\ (s[k] * 100) \div T \in Nat /\ V[k] \in Nat
             /\ s[k] \notin short => V[k] = (s[k] * 100) \div T
             /\ s[k] \in short => /\ V[k] = (s[k] * 100) \div T - 1
                                  /\ (s[k] * 100) % T = 0
                                  /\ s[k] > 0
  <2> DEFINE a == s[k] * 100
             share == a \div T
  <2>1. a \in Nat /\ s[k] \in Nat
    BY <1>1
  <2>2. share \in Nat
    BY <1>2, <1>5, <2>1, DivBounds
  <2>3. V[k] = share - (IF s[k] \in short THEN 1 ELSE 0)
    BY <1>4, <1>5
  <2>4. CASE s[k] \in short
    <3>1. a > 0 /\ a % T = 0 /\ s[k] > 0
      BY <1>3, <2>1, <2>4
    <3>2. share >= 1
      BY <1>2, <1>5, <2>1, <3>1, WholeShare
    <3> HIDE DEF share
    <3>3. V[k] = share - 1 /\ V[k] \in Nat
      BY <2>2, <2>3, <2>4, <3>2
    <3> QED
      BY <2>2, <2>4, <3>1, <3>2, <3>3 DEF share
  <2>5. CASE s[k] \notin short
    <3> HIDE DEF share
    <3>1. V[k] = share /\ V[k] \in Nat
      BY <2>2, <2>3, <2>5
    <3> QED
      BY <2>2, <2>5, <3>1 DEF share
  <2> QED
    BY <2>4, <2>5
<1>6. ASSUME NEW k \in 1..Len(s), T = 0 PROVE V[k] = 0
  BY <1>4, <1>6
<1>7. \A k \in 1..Len(s) : V[k] \in Nat
  <2>1. T = 0 \/ T > 0
    BY <1>2
  <2> QED
    BY <1>5, <1>6, <2>1
<1>8. V \in [1..Len(s) -> Nat]
  BY <1>4, <1>7
<1>9. V \in Seq(Nat) /\ Len(V) = Len(s) /\ DOMAIN V = 1..Len(s)
  BY <1>1, <1>8
<1> QED
  BY <1>1, <1>2, <1>5, <1>6, <1>9 DEF V, T

\* Rounding down loses at most one vote a proposal.
LEMMA VotesOfHundred ==
    ASSUME NEW s \in Seq(Nat), NEW short \in SUBSET Whole(s)
    PROVE  /\ Total(Votes(s, short)) <= 100
           /\ Total(s) > 0 => Total(Votes(s, short)) >= 100 - Len(s)
<1> DEFINE v == Votes(s, short)
           t == Total(s)
           n == Len(s)
<1>1. /\ s \in Seq(Nat) /\ n \in Nat /\ t \in Nat /\ v \in Seq(Nat) /\ Len(v) = n
      /\ DOMAIN v = 1..n /\ DOMAIN s = 1..n
  BY VotesTyped
<1>2. CASE t = 0
  <2>1. \A k \in DOMAIN v : v[k] = 0
    BY <1>1, <1>2, VotesTyped
  <2> HIDE DEF v, t
  <2>2. Total(v) = 0
    BY <1>1, <2>1, ZeroSum
  <2> QED
    BY <1>2, <2>2 DEF v, t
<1>3. CASE t > 0
  <2>1. ASSUME NEW k \in 1..n
        PROVE  /\ s[k] \in Nat /\ v[k] \in Nat
               /\ t * v[k] <= 100 * s[k] /\ 100 * s[k] <= t * v[k] + t
    <3> DEFINE a == s[k] * 100
               share == a \div t
    <3>1. s[k] \in Nat /\ a \in Nat /\ a = 100 * s[k] /\ v[k] \in Nat
      BY <1>1
    <3>7. k \in DOMAIN s
      BY <1>1
    <3>2. /\ s[k] \notin short => v[k] = share
          /\ s[k] \in short => v[k] = share - 1 /\ a % t = 0 /\ s[k] > 0
      BY <1>3, <3>7, VotesTyped
    <3>6. s[k] \in short => a > 0
      BY <3>1, <3>2
    <3> HIDE DEF v, t, a
    <3>3. share \in Nat /\ t * share <= a /\ a <= t * share + (t - 1)
      BY <1>1, <1>3, <3>1, DivBounds
    <3>4. CASE s[k] \notin short
      <4>1. v[k] = share
        BY <3>2, <3>4
      <4>2. t * v[k] = t * share /\ t * share \in Nat
        BY <1>1, <3>3, <4>1
      <4> HIDE DEF share
      <4>3. t * v[k] <= a /\ a <= t * v[k] + t
        BY <1>1, <3>1, <3>3, <4>2
      <4> QED
        BY <3>1, <4>3
    <3>5. CASE s[k] \in short
      <4>1. a = t * share
        BY <1>1, <1>3, <3>1, <3>2, <3>5, <3>6, WholeShare
      <4> HIDE DEF share
      <4>2. t * share = t * v[k] + t
        BY <1>1, <3>1, <3>2, <3>3, <3>5
      <4>3. t * v[k] <= a /\ a <= t * v[k] + t
        BY <1>1, <3>1, <4>1, <4>2
      <4> QED
        BY <3>1, <4>3
    <3> QED
      BY <3>4, <3>5
  <2> HIDE DEF v, t, n
  <2>2. PICK f : Sums(f, s) /\ t = f[n]
    BY <1>1, TotalIsSum DEF n, t
  <2>3. PICK g : Sums(g, v) /\ Total(v) = g[n]
    BY <1>1, TotalIsSum
  <2>4. /\ f \in [0..n -> Nat] /\ f[0] = 0 /\ g \in [0..n -> Nat] /\ g[0] = 0
        /\ \A k \in 1..n : f[k] = f[k - 1] + s[k] /\ g[k] = g[k - 1] + v[k]
    BY <1>1, <2>2, <2>3 DEF Sums, n
  <2> DEFINE P == {m \in Nat : m <= n => /\ t * g[m] <= 100 * f[m]
                                         /\ 100 * f[m] <= t * g[m] + m * t}
  <2>5. 0 \in P
    <3>1. t * g[0] <= 100 * f[0] /\ 100 * f[0] <= t * g[0] + 0 * t
      BY <1>1, <2>4
    <3> QED
      BY <3>1
  <2>6. ASSUME NEW m \in Nat, m \in P PROVE m + 1 \in P
    <3> SUFFICES ASSUME m + 1 <= n
                 PROVE  /\ t * g[m + 1] <= 100 * f[m + 1]
                        /\ 100 * f[m + 1] <= t * g[m + 1] + (m + 1) * t
      OBVIOUS
    <3>1. /\ f[m + 1] = f[m] + s[m + 1] /\ g[m + 1] = g[m] + v[m + 1]
          /\ f[m] \in Nat /\ g[m] \in Nat
      BY <1>1, <2>4
    <3>2. t * g[m] <= 100 * f[m] /\ 100 * f[m] <= t * g[m] + m * t
      BY <1>1, <2>6
    <3>3. /\ s[m + 1] \in Nat /\ v[m + 1] \in Nat
          /\ t * v[m + 1] <= 100 * s[m + 1]
          /\ 100 * s[m + 1] <= t * v[m + 1] + t
      BY <1>1, <2>1
    <3>4. /\ t * (g[m] + v[m + 1]) <= 100 * (f[m] + s[m + 1])
          /\ 100 * (f[m] + s[m + 1]) <= t * (g[m] + v[m + 1]) + (m + 1) * t
      BY <1>1, <1>3, <3>1, <3>2, <3>3, ShareAdded
    <3> QED
      BY <3>1, <3>4
  <2>7. \A m \in Nat : m \in P
    <3> HIDE DEF P
    <3> QED
      BY <2>5, <2>6, NatsBySteps
  <2>8. t * g[n] <= 100 * t /\ 100 * t <= t * g[n] + n * t
    BY <1>1, <2>2, <2>7
  <2>9. g[n] \in Nat
    BY <1>1, <2>4
  <2>10. g[n] <= 100 /\ g[n] >= 100 - n
    BY <1>1, <1>3, <2>8, <2>9, SharesOfHundred
  <2> QED
    BY <2>3, <2>10 DEF v, t, n
<1> QED
  BY <1>1, <1>2, <1>3

\* A better score has no fewer votes.
LEMMA VotesInOrder ==
    ASSUME NEW s \in Seq(Nat), NEW short \in SUBSET Whole(s),
           NEW i \in DOMAIN s, NEW j \in DOMAIN s, s[i] >= s[j]
    PROVE  Votes(s, short)[i] >= Votes(s, short)[j]
<1> DEFINE t == Total(s)
           v == Votes(s, short)
           a == s[i] * 100
           b == s[j] * 100
<1>1. t \in Nat /\ v[i] \in Nat /\ v[j] \in Nat
  BY VotesTyped
<1>2. /\ a \in Nat /\ b \in Nat /\ s[i] \in Nat /\ s[j] \in Nat /\ a >= b
      /\ s[i] # s[j] => b < a
  OBVIOUS
<1>3. CASE t = 0
  BY <1>3, VotesTyped
<1>4. CASE t > 0
  <2>1. /\ a \div t \in Nat /\ b \div t \in Nat
        /\ s[i] \notin short => v[i] = a \div t
        /\ s[i] \in short => v[i] = a \div t - 1 /\ a % t = 0 /\ a > 0
        /\ v[j] <= b \div t
        /\ s[i] = s[j] => v[i] = v[j]
    <3>6. /\ a \div t \in Nat
          /\ s[i] \notin short => v[i] = a \div t
          /\ s[i] \in short => v[i] = a \div t - 1
      BY <1>4, VotesTyped
    <3>7. s[i] \in short => a % t = 0 /\ s[i] > 0
      BY <1>4, VotesTyped
    <3>1. /\ a \div t \in Nat
          /\ s[i] \notin short => v[i] = a \div t
          /\ s[i] \in short => v[i] = a \div t - 1 /\ a % t = 0 /\ s[i] > 0
      BY <3>6, <3>7
    <3>5. /\ b \div t \in Nat
          /\ s[j] \notin short => v[j] = b \div t
          /\ s[j] \in short => v[j] = b \div t - 1
      BY <1>4, VotesTyped
    <3>4. s[i] > 0 => a > 0
      BY <1>2
    <3>2. s[i] = s[j] => v[i] = v[j]
      BY <3>1, <3>5
    <3> HIDE DEF a, b, t, v
    <3>3. v[j] <= b \div t
      BY <3>5
    <3> QED
      BY <3>1, <3>2, <3>3, <3>4, <3>5
  <2> HIDE DEF a, b, t, v
  <2>2. CASE s[i] = s[j]
    BY <1>1, <2>1, <2>2 DEF v
  <2>3. CASE s[i] # s[j] /\ s[i] \notin short
    <3>1. a \div t >= b \div t
      BY <1>1, <1>2, <1>4, DivKeepsOrder
    <3> QED
      BY <1>1, <2>1, <2>3, <3>1 DEF v
  <2>4. CASE s[i] # s[j] /\ s[i] \in short
    <3>1. b < a
      BY <1>2, <2>4
    <3>2. b \div t <= a \div t - 1
      BY <1>1, <1>2, <1>4, <2>1, <2>4, <3>1, WholeShare
    <3> QED
      BY <1>1, <2>1, <2>4, <3>2 DEF v
  <2> QED
    BY <2>2, <2>3, <2>4
<1> QED
  BY <1>1, <1>3, <1>4

\* The best two
LEMMA BestIsFirst ==
    ASSUME NEW s \in Seq(Int), NEW S \in SUBSET DOMAIN s, S # {}
    PROVE  Best(s, S) \in S /\ \A j \in S \ {Best(s, S)} : Before(s, Best(s, S), j)
<1> DEFINE R == {p \in S \X S : Before(s, p[1], p[2])}
<1>1. IsFiniteSet(S)
  <2>1. DOMAIN s = 1..Len(s) /\ Len(s) \in Nat
    OBVIOUS
  <2>2. IsFiniteSet(1..Len(s))
    BY <2>1, FS_Interval
  <2> QED
    BY <2>1, <2>2, FS_Subset
<1>2. \A i, j \in S : <<i, j>> \in R <=> Before(s, i, j)
  OBVIOUS
<1> HIDE DEF R
<1>3. \A i \in S : i \in Int /\ s[i] \in Int
  OBVIOUS
<1>4. Ranking(S, R)
  <2>1. \A i \in S : ~Before(s, i, i)
    BY <1>3 DEF Before
  <2>2. \A i, j \in S : i # j => Before(s, i, j) \/ Before(s, j, i)
    BY <1>3 DEF Before
  <2>3. \A i, j, k \in S : Before(s, i, j) /\ Before(s, j, k) => Before(s, i, k)
    BY <1>3 DEF Before
  <2> QED
    BY <1>2, <2>1, <2>2, <2>3 DEF Ranking
<1>5. PICK i \in S : Ahead(S, R, i) = {}
  BY <1>1, <1>4, FirstExists
<1>6. \A j \in S \ {i} : Before(s, i, j)
  BY <1>2, <1>4, <1>5 DEF Ahead, Ranking
<1> QED
  BY <1>6 DEF Best

\* The first two of the order: no other score is above the second.
LEMMA TopIsBest ==
    ASSUME NEW s \in Seq(Nat)
    PROVE  /\ Top(s) \in Seq(Nat)
           /\ Top(s) = <<>> <=> s = <<>>
           /\ Top(s) # <<>> =>
                 /\ Top(s)[1] \in DOMAIN s
                 /\ \A j \in DOMAIN s : s[j] <= s[Top(s)[1]]
                 /\ Len(Top(s)) = IF Len(s) = 1 THEN 1 ELSE 2
                 /\ \A j \in DOMAIN s :
                       \/ j \in {Top(s)[k] : k \in DOMAIN Top(s)}
                       \/ s[j] <= s[Top(s)[Len(Top(s))]]
<1> DEFINE n == Len(s)
           D == DOMAIN s
           a == Best(s, D)
           b == Best(s, D \ {a})
<1>1. /\ n \in Nat /\ D = 1..n /\ s \in Seq(Int)
      /\ \A i \in D : i \in Nat /\ s[i] \in Int
  OBVIOUS
<1>2. CASE n = 0
  <2>1. Top(s) = <<>> /\ s = <<>>
    BY <1>1, <1>2 DEF Top
  <2> QED
    BY <2>1
<1>3. CASE n > 0
  <2>1. a \in D /\ \A j \in D \ {a} : Before(s, a, j)
    <3>1. D # {} /\ D \in SUBSET DOMAIN s
      BY <1>1, <1>3
    <3> QED
      BY <1>1, <3>1, BestIsFirst
  <2>2. \A j \in D : s[j] <= s[a]
    BY <1>1, <2>1 DEF Before
  <2>3. CASE n = 1
    <3>1. Top(s) = <<a>>
      BY <2>3 DEF Top
    <3> HIDE DEF a
    <3>2. /\ Top(s) \in Seq(Nat) /\ Top(s)[1] = a /\ Len(Top(s)) = 1
          /\ Top(s) # <<>>
      BY <1>1, <2>1, <3>1
    <3> QED
      BY <1>3, <2>1, <2>2, <2>3, <3>2
  <2>4. CASE n > 1
    <3>1. D \ {a} # {} /\ D \ {a} \in SUBSET D
      BY <1>1, <2>1, <2>4
    <3>2. b \in D \ {a} /\ \A j \in (D \ {a}) \ {b} : Before(s, b, j)
      BY <1>1, <3>1, BestIsFirst
    <3>4. Top(s) = <<a, b>>
      <4>1. Len(s) # 0 /\ Len(s) # 1
        BY <1>1, <2>4
      <4> QED
        BY <4>1 DEF Top
    <3> HIDE DEF a, b
    <3>3. \A j \in D \ {a} : s[j] <= s[b]
      <4>1. ASSUME NEW j \in D \ {a}, j # b PROVE s[j] <= s[b]
        <5>1. Before(s, b, j)
          BY <3>2, <4>1
        <5> QED
          BY <1>1, <3>2, <5>1 DEF Before
      <4>2. s[b] <= s[b]
        BY <1>1, <3>2
      <4> QED
        BY <4>1, <4>2
    <3> HIDE DEF a, b
    <3>5. /\ Top(s) \in Seq(Nat) /\ Top(s)[1] = a /\ Top(s)[2] = b
          /\ Len(Top(s)) = 2 /\ Top(s) # <<>> /\ DOMAIN Top(s) = 1..2
      BY <1>1, <2>1, <3>2, <3>4
    <3>6. a \in {Top(s)[k] : k \in DOMAIN Top(s)}
      BY <3>5
    <3> QED
      BY <1>3, <2>1, <2>2, <2>4, <3>2, <3>3, <3>5, <3>6
  <2> QED
    BY <1>1, <1>3, <2>3, <2>4
<1> QED
  BY <1>1, <1>2, <1>3

LEMMA VotedFairly ==
    ASSUME NEW p \in Int, Debating(call, p)
    PROVE  VotesFair
<1> SUFFICES ASSUME call.at = "done"
             PROVE  LET v == call.votes
                        s == call.scores
                    IN  /\ Len(v) = IF call.asked < 0 THEN 0 ELSE call.asked
                        /\ Total(v) <= 100
                        /\ Total(s) > 0 => Total(v) >= 100 - Len(v)
                        /\ \A i, j \in DOMAIN v : s[i] >= s[j] => v[i] >= v[j]
                        /\ v # <<>> => /\ \A i \in DOMAIN v : v[i] <= v[call.winner]
                                       /\ call.top[1] = call.winner
                                       /\ Len(call.top) = IF Len(v) = 1 THEN 1 ELSE 2
                                       /\ \A i \in DOMAIN v :
                                             i \in {call.top[k] : k \in DOMAIN call.top}
                                             \/ s[i] <= s[call.top[Len(call.top)]]
  BY DEF VotesFair, At
<1> DEFINE s == call.scores
           v == call.votes
           top == call.top
<1>1. Voted(call) /\ call.asked = p
  BY DEF Debating
<1>2. /\ s \in Seq(Nat) /\ top = Top(s)
      /\ call.winner = (IF top = <<>> THEN 0 ELSE top[1])
      /\ Len(s) = Positive(p)
  BY <1>1 DEF Voted
<1>8. PICK short \in SUBSET Whole(s) : v = Votes(s, short)
  BY <1>1 DEF Voted
<1> HIDE DEF s, v, top
<1>3. /\ v \in Seq(Nat) /\ Len(v) = Len(s) /\ DOMAIN v = DOMAIN s
      /\ Len(s) \in Nat /\ DOMAIN s = 1..Len(s)
  BY <1>2, <1>8, VotesTyped
<1>4. Len(v) = IF call.asked < 0 THEN 0 ELSE call.asked
  BY <1>1, <1>2, <1>3 DEF Positive
<1>5. Total(v) <= 100 /\ (Total(s) > 0 => Total(v) >= 100 - Len(v))
  BY <1>2, <1>3, <1>8, VotesOfHundred
<1>6. \A i, j \in DOMAIN v : s[i] >= s[j] => v[i] >= v[j]
  BY <1>2, <1>3, <1>8, VotesInOrder
<1>7. ASSUME v # <<>>
      PROVE  /\ \A i \in DOMAIN v : v[i] <= v[call.winner]
             /\ top[1] = call.winner
             /\ Len(top) = IF Len(v) = 1 THEN 1 ELSE 2
             /\ \A i \in DOMAIN v :
                   \/ i \in {top[k] : k \in DOMAIN top}
                   \/ s[i] <= s[top[Len(top)]]
  <2>1. s # <<>>
    BY <1>3, <1>7
  <2>2. top # <<>> /\ call.winner = top[1] /\ call.winner \in DOMAIN s
    BY <1>2, <2>1, TopIsBest
  <2>3. \A i \in DOMAIN s : s[i] <= s[call.winner]
    BY <1>2, <2>2, TopIsBest
  <2>4. \A i \in DOMAIN v : v[i] <= v[call.winner]
    <3>1. ASSUME NEW i \in DOMAIN s PROVE s[call.winner] >= s[i]
      <4>1. s[i] \in Int /\ s[call.winner] \in Int
        BY <1>2, <2>2
      <4> QED
        BY <2>3, <4>1
    <3>2. ASSUME NEW i \in DOMAIN v PROVE v[call.winner] >= v[i]
      BY <1>3, <1>6, <2>2, <3>1
    <3>3. ASSUME NEW i \in DOMAIN v PROVE v[i] \in Nat
      BY <1>3
    <3> QED
      BY <1>3, <2>2, <3>2, <3>3
  <2> QED
    BY <1>2, <1>3, <2>2, <2>4, TopIsBest
<1> QED
  BY <1>4, <1>5, <1>6, <1>7 DEF s, v, top

LEMMA CriticScoreOK ==
    ASSUME NEW a \in Critiques
    PROVE  CriticScore(a) \in Scale
  BY DebateAssumption DEF CriticScore, Parse, Scale, NaN, NoNumber

\* The vote, or the ValueError of int(nan).
LEMMA VoteOK ==
    ASSUME NEW c \in DebateRuns, c.proposals = Positive(c.asked),
           Len(c.scores) = c.proposals, c.llmCalls = 2 * Positive(c.asked),
           NEW short \in SUBSET Whole(c.scores)
    PROVE  Debating(Vote(c, short), c.asked)
<1> DEFINE d == Vote(c, short)
           p == c.asked
<1>1. /\ c.agent = "debate" /\ p \in Int /\ c.scores \in Seq(Scale)
      /\ Positive(p) \in Nat
  BY DEF DebateRuns, Positive
<1>2. CASE \E k \in DOMAIN c.scores : c.scores[k] = NaN
  <2>1. d = [c EXCEPT !.at = "raised"]
    BY <1>2 DEF Vote
  <2>2. /\ d \in DebateRuns /\ d.agent = "debate" /\ d.at = "raised"
        /\ d.asked = p /\ d.llmCalls = c.llmCalls
    BY <2>1 DEF DebateRuns
  <2>3. d.llmCalls <= 1 + 2 * Positive(p)
    BY <1>1, <2>2
  <2> QED
    BY <2>2, <2>3 DEF Debating
<1>3. CASE \A k \in DOMAIN c.scores : c.scores[k] # NaN
  <2>1. c.scores \in Seq(Nat)
    BY <1>1, <1>3 DEF Scale
  <2>2. PICK v, top, w : /\ v = Votes(c.scores, short) /\ top = Top(c.scores)
                         /\ w = IF top = <<>> THEN 0 ELSE top[1]
    OBVIOUS
  <2>3. v \in Seq(Nat) /\ top \in Seq(Nat) /\ w \in Nat
    <3>1. v \in Seq(Nat) /\ top \in Seq(Nat)
      BY <2>1, <2>2, VotesTyped, TopIsBest
    <3>2. top # <<>> => top[1] \in Nat
      BY <2>1, <2>2, TopIsBest
    <3> QED
      BY <2>2, <3>1, <3>2
  <2>4. d = [c EXCEPT !.at = "aggregate", !.votes = v, !.winner = w, !.top = top]
    BY <1>3, <2>2 DEF Vote
  <2>5. /\ d \in DebateRuns /\ d.agent = "debate" /\ d.at = "aggregate"
        /\ d.asked = p /\ d.llmCalls = c.llmCalls
        /\ d.proposals = c.proposals /\ d.scores = c.scores
        /\ d.votes = v /\ d.winner = w /\ d.top = top
    BY <2>3, <2>4 DEF DebateRuns
  <2>6. Voted(d)
    BY <2>1, <2>2, <2>5 DEF Voted
  <2>7. d.llmCalls <= 1 + 2 * Positive(p)
    BY <1>1, <2>5
  <2> HIDE DEF d
  <2> QED
    BY <2>5, <2>6, <2>7 DEF Debating, d
<1> QED
  BY <1>2, <1>3

\* The heads of the two loops, after a proposal or after a judgement.
LEMMA AdvanceOK ==
    ASSUME NEW c \in DebateRuns, c.asked = proposers', proposers' \in Int,
           \/ /\ c.scores = <<>> /\ c.proposals <= Positive(c.asked)
              /\ c.llmCalls = c.proposals
           \/ /\ c.proposals = Positive(c.asked) /\ Len(c.scores) <= c.proposals
              /\ c.llmCalls = c.proposals + Len(c.scores),
           NEW short \in SUBSET Whole(c.scores)
    PROVE  Debating(Advance(c, short), proposers')
<1> DEFINE d == Advance(c, short)
           p == proposers'
<1>1. /\ c.agent = "debate" /\ p \in Int /\ c.proposals \in Nat
      /\ c.scores \in Seq(Scale) /\ c.llmCalls \in Nat /\ Len(c.scores) \in Nat
      /\ Positive(p) \in Nat /\ Positive(p) >= p /\ (p >= 0 => Positive(p) = p)
      /\ (p < 0 => Positive(p) = 0)
      /\ Len(<<>>) = 0
  BY DEF DebateRuns, Positive
<1>2. CASE c.proposals < p
  <2>1. d = [c EXCEPT !.at = "propose"]
    BY <1>2 DEF Advance
  <2>2. /\ d \in DebateRuns /\ d.agent = "debate" /\ d.at = "propose"
        /\ d.asked = p /\ d.llmCalls = c.llmCalls
        /\ d.proposals = c.proposals /\ d.scores = c.scores
    BY <2>1 DEF DebateRuns
  <2>3. c.scores = <<>> /\ c.llmCalls = c.proposals
    BY <1>1, <1>2
  <2>4. d.llmCalls <= 1 + 2 * Positive(p)
    BY <1>1, <1>2, <2>2, <2>3
  <2> QED
    BY <1>2, <2>2, <2>3, <2>4 DEF Debating
<1>3. CASE ~(c.proposals < p)
  <2>1. /\ c.proposals = Positive(p) /\ Len(c.scores) <= c.proposals
        /\ c.llmCalls = c.proposals + Len(c.scores)
    BY <1>1, <1>3
  <2>2. CASE Len(c.scores) < c.proposals
    <3>1. d = [c EXCEPT !.at = "critique"]
      BY <1>3, <2>2 DEF Advance
    <3>2. /\ d \in DebateRuns /\ d.agent = "debate" /\ d.at = "critique"
          /\ d.asked = p /\ d.llmCalls = c.llmCalls
          /\ d.proposals = c.proposals /\ d.scores = c.scores
      BY <3>1 DEF DebateRuns
    <3>3. d.llmCalls <= 1 + 2 * Positive(p)
      BY <1>1, <2>1, <2>2, <3>2
    <3> QED
      BY <2>1, <2>2, <3>2, <3>3 DEF Debating
  <2>3. CASE ~(Len(c.scores) < c.proposals)
    <3>1. d = Vote(c, short)
      BY <1>3, <2>3 DEF Advance
    <3>2. Len(c.scores) = c.proposals /\ c.llmCalls = 2 * Positive(c.asked)
      BY <1>1, <2>1, <2>3
    <3>3. Debating(Vote(c, short), c.asked)
      BY <2>1, <3>2, VoteOK
    <3> QED
      BY <3>1, <3>3
  <2> QED
    BY <2>2, <2>3
<1> QED
  BY <1>2, <1>3

\* A step of the debate keeps what is known of the call.
LEMMA DebateKept ==
    ASSUME proposers \in Int, call = Idle \/ Debating(call, proposers), DebateNext
    PROVE  /\ proposers' \in Int
           /\ call' = Idle \/ Debating(call', proposers')
<1>1. ASSUME NEW n \in ProposerCounts, Debate(n)
      PROVE  proposers' \in Int /\ Debating(call', proposers')
  <2>1. n \in Int /\ proposers' = n /\ call' = Advance(DebateStart(n), {})
    BY <1>1, DebateAssumption DEF Debate
  <2>2. PICK c : c = DebateStart(n)
    OBVIOUS
  <2>3. /\ c \in DebateRuns /\ c.asked = n /\ c.scores = <<>>
        /\ c.proposals = 0 /\ c.llmCalls = 0
    <3>1. <<>> \in Seq(Scale) /\ <<>> \in Seq(Nat)
      OBVIOUS
    <3> QED
      BY <2>1, <2>2, <3>1 DEF DebateStart, DebateRuns
  <2>4. 0 <= Positive(n)
    BY <2>1 DEF Positive
  <2>5. Debating(Advance(c, {}), proposers')
    BY <2>1, <2>3, <2>4, AdvanceOK
  <2> QED
    BY <2>1, <2>2, <2>5
<1>2. ASSUME call.agent = "debate"
      PROVE  /\ Debating(call, proposers) /\ call \in DebateRuns
             /\ call.asked = proposers /\ call.proposals \in Nat
             /\ call.scores \in Seq(Scale) /\ call.llmCalls \in Nat
             /\ Positive(proposers) \in Nat
             /\ (proposers >= 0 => Positive(proposers) = proposers)
             /\ call.llmCalls <= 1 + 2 * Positive(proposers)
  BY <1>2 DEF Idle, Debating, DebateRuns, Positive
<1>3. ASSUME Propose PROVE proposers' \in Int /\ Debating(call', proposers')
  <2>1. /\ call.agent = "debate" /\ call.at = "propose" /\ proposers' = proposers
        /\ call' = Advance([call EXCEPT !.proposals = @ + 1, !.llmCalls = @ + 1], {})
    BY <1>3 DEF Propose, At
  <2>2. PICK c : c = [call EXCEPT !.proposals = @ + 1, !.llmCalls = @ + 1]
    OBVIOUS
  <2>3. /\ call.proposals < proposers /\ call.scores = <<>>
        /\ call.llmCalls = call.proposals
        /\ call.proposals + 1 \in Nat /\ call.llmCalls + 1 \in Nat
    BY <1>2, <2>1 DEF Debating
  <2>4. /\ c \in DebateRuns /\ c.asked = call.asked
        /\ c.proposals = call.proposals + 1 /\ c.scores = call.scores
        /\ c.llmCalls = call.llmCalls + 1
    BY <1>2, <2>1, <2>2, <2>3 DEF DebateRuns
  <2>5. c.proposals <= Positive(c.asked)
    BY <1>2, <2>1, <2>3, <2>4
  <2>6. Debating(Advance(c, {}), proposers')
    BY <1>2, <2>1, <2>3, <2>4, <2>5, AdvanceOK
  <2> QED
    BY <2>1, <2>2, <2>6
<1>4. ASSUME NEW a \in Critiques, Critique(a)
      PROVE  proposers' \in Int /\ Debating(call', proposers')
  <2> DEFINE score == CriticScore(a)
             scores == Append(call.scores, score)
             judged == [call EXCEPT !.scores = scores, !.llmCalls = @ + 1]
  <2>1. /\ call.agent = "debate" /\ call.at = "critique" /\ proposers' = proposers
        /\ \E short \in SUBSET Whole(judged.scores) : call' = Advance(judged, short)
    BY <1>4 DEF Critique, At
  <2>2. scores \in Seq(Scale) /\ Len(scores) = Len(call.scores) + 1
        /\ Len(call.scores) \in Nat
    BY <1>2, <2>1, CriticScoreOK
  <2> HIDE DEF scores
  <2>3. PICK c : c = judged
    OBVIOUS
  <2>8. PICK short \in SUBSET Whole(c.scores) : call' = Advance(c, short)
    BY <2>1, <2>3
  <2>4. /\ call.proposals = Positive(proposers)
        /\ Len(call.scores) < call.proposals
        /\ call.llmCalls = call.proposals + Len(call.scores)
        /\ call.llmCalls + 1 \in Nat /\ call.asked = proposers
        /\ call.proposals \in Nat
    BY <1>2, <2>1 DEF Debating
  <2>5. /\ c \in DebateRuns /\ c.asked = call.asked
        /\ c.proposals = call.proposals /\ c.scores = scores
        /\ c.llmCalls = call.llmCalls + 1
    BY <1>2, <2>1, <2>2, <2>3, <2>4 DEF DebateRuns
  <2>6. /\ c.proposals = Positive(c.asked) /\ Len(c.scores) <= c.proposals
        /\ c.llmCalls = c.proposals + Len(c.scores)
    <3>1. c.proposals = Positive(c.asked)
      BY <2>4, <2>5
    <3>2. Len(c.scores) = Len(call.scores) + 1
      BY <2>2, <2>5
    <3>3. Len(call.scores) + 1 <= call.proposals
      BY <2>2, <2>4
    <3>4. c.llmCalls = call.proposals + (Len(call.scores) + 1)
      BY <2>2, <2>4, <2>5
    <3> QED
      BY <2>5, <3>1, <3>2, <3>3, <3>4
  <2>7. Debating(Advance(c, short), proposers')
    BY <1>2, <2>1, <2>5, <2>6, AdvanceOK
  <2> QED
    BY <1>2, <2>1, <2>7, <2>8
<1>5. ASSUME Aggregate PROVE proposers' \in Int /\ Debating(call', proposers')
  <2>1. /\ call.agent = "debate" /\ call.at = "aggregate" /\ proposers' = proposers
        /\ call' = [call EXCEPT !.at = "done", !.llmCalls = @ + 1]
    BY <1>5 DEF Aggregate, At
  <2>2. /\ Voted(call) /\ call.llmCalls = 2 * Positive(proposers)
        /\ call.llmCalls + 1 \in Nat
    BY <1>2, <2>1 DEF Debating
  <2>3. /\ call' \in DebateRuns /\ call'.agent = "debate" /\ call'.at = "done"
        /\ call'.asked = call.asked /\ call'.llmCalls = call.llmCalls + 1
        /\ call'.proposals = call.proposals /\ call'.scores = call.scores
        /\ call'.votes = call.votes /\ call'.winner = call.winner
        /\ call'.top = call.top
    BY <1>2, <2>1, <2>2 DEF DebateRuns
  <2>4. Voted(call')
    BY <2>2, <2>3 DEF Voted
  <2>5. call'.llmCalls <= 1 + 2 * Positive(proposers)
    BY <1>2, <2>1, <2>2, <2>3
  <2> QED
    BY <1>2, <2>1, <2>3, <2>4, <2>5 DEF Debating
<1>6. ASSUME Raises("debate", {"propose", "critique", "aggregate"}),
             UNCHANGED proposers
      PROVE  proposers' \in Int /\ Debating(call', proposers')
  <2>1. call.agent = "debate" /\ call' = [call EXCEPT !.at = "raised"]
    BY <1>6 DEF Raises, At
  <2>2. /\ call' \in DebateRuns /\ call'.agent = "debate" /\ call'.at = "raised"
        /\ call'.asked = call.asked /\ call'.llmCalls = call.llmCalls
    BY <1>2, <2>1 DEF DebateRuns
  <2> QED
    BY <1>2, <1>6, <2>1, <2>2 DEF Debating
<1>7. ASSUME DebateReturns, UNCHANGED proposers
      PROVE  proposers' \in Int /\ call' = Idle
  BY <1>7 DEF DebateReturns, Return
<1> QED
  BY <1>1, <1>3, <1>4, <1>5, <1>6, <1>7 DEF DebateNext

LEMMA DebateIsBounded ==
    ASSUME NEW p \in Int, Debating(call, p)
    PROVE  DebateBounded
  BY DEF Debating, Positive, DebateBounded

-----------------------------------------------------------------------------
(* WorkflowAgent *)

\* A sequence with one element more, as a function.
LEMMA StepAppended ==
    ASSUME NEW n \in Nat, NEW s, s = [k \in 1..n |-> s[k]], NEW x
    PROVE  Append(s, x) = [k \in 1..(n + 1) |-> IF k = n + 1 THEN x ELSE s[k]]
<1> DEFINE S == {s[k] : k \in 1..n} \cup {x}
<1>1. s \in Seq(S) /\ Len(s) = n /\ x \in S
  <2>1. s \in [1..n -> S]
    OBVIOUS
  <2> QED
    BY <2>1
<1> HIDE DEF S
<1> QED
  BY <1>1

\* One step more of each pattern.
LEMMA ChainGrows ==
    ASSUME NEW n \in 0..2
    PROVE  /\ Len(ChainSteps(n)) = n
           /\ Append(ChainSteps(n), Step(Chain[n + 1], {n}, n + 1))
                 = ChainSteps(n + 1)
<1> DEFINE s == ChainSteps(n)
           x == Step(Chain[n + 1], {n}, n + 1)
           t == ChainSteps(n + 1)
<1>1. /\ n \in Nat /\ DOMAIN s = 1..n /\ Len(s) = n /\ DOMAIN t = 1..(n + 1)
      /\ \A k \in 1..n : t[k] = s[k]
      /\ t[n + 1] = x
  BY DEF ChainSteps
<1> HIDE DEF x, s, t
<1>2. Append(s, x) = t
  <2>1. /\ t = [k \in 1..(n + 1) |-> t[k]]
        /\ s = [k \in 1..n |-> s[k]]
    BY <1>1 DEF s, t, ChainSteps
  <2>2. Append(s, x) = [k \in 1..(n + 1) |-> IF k = n + 1 THEN x ELSE s[k]]
    BY <1>1, <2>1, StepAppended
  <2>3. \A k \in 1..(n + 1) : t[k] = IF k = n + 1 THEN x ELSE s[k]
    BY <1>1
  <2> QED
    BY <2>1, <2>2, <2>3
<1> QED
  BY <1>1, <1>2 DEF s, x, t

LEMMA TrioGrows ==
    ASSUME NEW n \in 0..2
    PROVE  /\ Len(TrioSteps(n)) = n
           /\ LET given == IF n + 1 = 3 THEN {1, 2} ELSE {n}
              IN  Append(TrioSteps(n), Step(Trio[n + 1], given, n + 1))
                    = TrioSteps(n + 1)
<1> DEFINE s == TrioSteps(n)
           x == Step(Trio[n + 1], IF n + 1 = 3 THEN {1, 2} ELSE {n}, n + 1)
           t == TrioSteps(n + 1)
<1>1. /\ n \in Nat /\ DOMAIN s = 1..n /\ Len(s) = n /\ DOMAIN t = 1..(n + 1)
      /\ \A k \in 1..n : t[k] = s[k]
      /\ t[n + 1] = x
  BY DEF TrioSteps
<1> HIDE DEF x, s, t
<1>2. Append(s, x) = t
  <2>1. /\ t = [k \in 1..(n + 1) |-> t[k]]
        /\ s = [k \in 1..n |-> s[k]]
    BY <1>1 DEF s, t, TrioSteps
  <2>2. Append(s, x) = [k \in 1..(n + 1) |-> IF k = n + 1 THEN x ELSE s[k]]
    BY <1>1, <2>1, StepAppended
  <2>3. \A k \in 1..(n + 1) : t[k] = IF k = n + 1 THEN x ELSE s[k]
    BY <1>1
  <2> QED
    BY <2>1, <2>2, <2>3
<1> QED
  BY <1>1, <1>2 DEF s, x, t

LEMMA RoundGrows ==
    ASSUME NEW r \in 0..2
    PROVE  /\ Rounds(RoundSteps(r)) = r /\ Rounds(RoundSteps(r + 1)) = r + 1
           /\ RoundSteps(r) \o <<Step("generator", {0}, 2 * r + 1),
                                 Step("evaluator", {2 * r + 1}, 2 * r + 2)>>
                = RoundSteps(r + 1)
<1> DEFINE n == 2 * r
           s == RoundSteps(r)
           x == Step("generator", {0}, n + 1)
           y == Step("evaluator", {n + 1}, n + 2)
           t == RoundSteps(r + 1)
<1>1. /\ n \in Nat /\ 2 * (r + 1) = n + 2 /\ n \div 2 = r /\ (n + 2) \div 2 = r + 1
      /\ (n + 1) % 2 = 1 /\ (n + 2) % 2 # 1 /\ n + 2 - 1 = n + 1
  OBVIOUS
<1>2. /\ DOMAIN s = 1..n /\ Len(s) = n
      /\ DOMAIN t = 1..(n + 2) /\ Len(t) = n + 2
  BY <1>1 DEF RoundSteps
<1>3. \A k \in 1..n : t[k] = s[k]
  BY <1>1 DEF RoundSteps
<1>4. t[n + 1] = x /\ t[n + 2] = y
  BY <1>1 DEF RoundSteps
<1>5. Rounds(s) = r /\ Rounds(t) = r + 1
  <2> HIDE DEF n
  <2> QED
    BY <1>1, <1>2 DEF Rounds
<1>8. t = [k \in 1..(n + 2) |-> t[k]]
  BY <1>1 DEF RoundSteps
<1> HIDE DEF n, s, t, x, y
<1>6. s \o <<x, y>> = t
  <2>2. s \o <<x, y>> = [k \in 1..(n + 2) |-> IF k <= n THEN s[k] ELSE <<x, y>>[k - n]]
    BY <1>1, <1>2
  <2>3. ASSUME NEW k \in 1..(n + 2)
        PROVE  t[k] = IF k <= n THEN s[k] ELSE <<x, y>>[k - n]
    <3>1. CASE k <= n
      BY <1>1, <1>3, <3>1
    <3>2. CASE k = n + 1
      <4>1. k - n = 1 /\ ~(k <= n)
        BY <1>1, <3>2
      <4> QED
        BY <1>4, <3>2, <4>1
    <3>3. CASE k = n + 2
      <4>1. k - n = 2 /\ ~(k <= n)
        BY <1>1, <3>3
      <4> QED
        BY <1>4, <3>3, <4>1
    <3> QED
      BY <1>1, <3>1, <3>2, <3>3
  <2> QED
    BY <1>8, <2>2, <2>3
<1>7. s \o <<x, y>> = t /\ 2 * r = n
  BY <1>6 DEF n
<1> QED
  BY <1>5, <1>7 DEF s, t, x, y

\* What the three patterns answer has been seen by their last agents.
LEMMA ReviewedAnswers ==
    ASSUME Flowing(call)
    PROVE  AnswerIsReviewed
<1> SUFFICES ASSUME At("workflow", "done") PROVE AnswerIsReviewed
  BY DEF AnswerIsReviewed
<1>0. \/ call.steps \in {ChainSteps(3), TrioSteps(3)} /\ call.output = 3
      \/ call.steps = RoundSteps(3) /\ call.output = 5
  BY DEF Flowing, At
<1> DEFINE s == call.steps
<1>1. CASE s = ChainSteps(3) /\ call.output = 3
  <2>1. /\ DOMAIN s = 1..3 /\ Len(s) = 3
        /\ s[1] = Step("researcher", {0}, 1) /\ s[2] = Step("analyst", {1}, 2)
        /\ s[3] = Step("writer", {2}, 3)
    BY <1>1 DEF ChainSteps, Chain
  <2>2. \A k \in 1..3 : k = 1 \/ k = 2 \/ k = 3
    OBVIOUS
  <2>3. /\ s[1].given = {0} /\ s[1].output = 1 /\ s[2].given = {1}
        /\ s[2].output = 2 /\ s[3].given = {2} /\ s[3].output = 3
        /\ s[3].name = "writer"
    BY <2>1 DEF Step
  <2> QED
    BY <1>1, <2>1, <2>2, <2>3 DEF AnswerIsReviewed
<1>2. CASE s = TrioSteps(3) /\ call.output = 3
  <2>1. /\ DOMAIN s = 1..3 /\ Len(s) = 3
        /\ s[1] = Step("analyst", {0}, 1) /\ s[2] = Step("critic", {1}, 2)
        /\ s[3] = Step("synthesizer", {1, 2}, 3)
    BY <1>2 DEF TrioSteps, Trio
  <2>2. \A k \in 1..3 : k = 1 \/ k = 2 \/ k = 3
    OBVIOUS
  <2>3. /\ s[1].given = {0} /\ s[1].output = 1 /\ s[2].given = {1}
        /\ s[2].output = 2 /\ s[3].given = {1, 2} /\ s[3].output = 3
        /\ s[3].name = "synthesizer"
    BY <2>1 DEF Step
  <2> QED
    BY <1>2, <2>1, <2>2, <2>3 DEF AnswerIsReviewed
<1>3. CASE s = RoundSteps(3) /\ call.output = 5
  <2>1. /\ DOMAIN s = 1..6 /\ Len(s) = 6
        /\ \A k \in 1..6 : s[k] = IF k % 2 = 1 THEN Step("generator", {0}, k)
                                  ELSE Step("evaluator", {k - 1}, k)
    BY <1>3 DEF RoundSteps
  <2>2. \A k \in 1..6 :
           \/ s[k].name = "generator" /\ s[k].given = {0} /\ s[k].output = k /\ k % 2 = 1
           \/ s[k].name = "evaluator" /\ s[k].given = {k - 1} /\ s[k].output = k /\ k % 2 # 1
    BY <2>1 DEF Step
  <2>3. /\ s[6].name = "evaluator" /\ s[6].given = {5}
        /\ s[2].given = {1} /\ s[4].given = {3}
    BY <2>2
  <2>4. \A k \in 1..6 : s[k].name # "evaluator" => s[k].output \in {1, 3, 5}
    BY <2>2
  <2>5. \A k \in 1..6 : \A t \in s[k].given : t < s[k].output
    BY <2>2
  <2>6. {1, 3, 5} \subseteq (UNION {s[k].given : k \in DOMAIN s}) \cup {call.output}
    <3>1. 2 \in DOMAIN s /\ 4 \in DOMAIN s
      BY <2>1
    <3> QED
      BY <1>3, <2>3, <3>1
  <2> HIDE DEF s
  <2>7. /\ IF s[Len(s)].name = "evaluator" THEN s[Len(s)].given = {call.output}
           ELSE s[Len(s)].output = call.output
    BY <1>3, <2>1, <2>3
  <2>8. \A k \in DOMAIN s :
           /\ \A t \in s[k].given : t < s[k].output
           /\ s[k].name # "evaluator" =>
                 s[k].output \in (UNION {s[j].given : j \in DOMAIN s}) \cup {call.output}
    BY <2>1, <2>4, <2>5, <2>6
  <2> QED
    BY <2>7, <2>8 DEF AnswerIsReviewed, s
<1> QED
  BY <1>0, <1>1, <1>2, <1>3

LEMMA WorkflowIsBounded ==
    ASSUME Flowing(call)
    PROVE  WorkflowBounded
  BY DEF Flowing, WorkflowBounded

\* A step of WorkflowAgent.run keeps what is known of the call.
LEMMA WorkflowKept ==
    ASSUME call = Idle \/ Flowing(call), WorkflowNext
    PROVE  call' = Idle \/ Flowing(call')
<1>1. ASSUME NEW p \in Patterns, RunWorkflow(p)
      PROVE  Flowing(call')
  <2>1. PICK at \in {"chain", "trio", "reflect"} : call' = WorkflowStart(at)
    BY <1>1 DEF RunWorkflow
  <2>2. /\ call' \in WorkflowRuns(<<>>) /\ call'.agent = "workflow"
        /\ call'.at = at /\ call'.steps = <<>>
        /\ call'.current = 0 /\ call'.output = 0 /\ call'.llmCalls = 0
    BY <2>1 DEF WorkflowStart, WorkflowRuns
  <2>3. ChainSteps(0) = <<>> /\ TrioSteps(0) = <<>> /\ RoundSteps(0) = <<>>
    BY DEF ChainSteps, TrioSteps, RoundSteps
  <2> QED
    BY <2>2, <2>3 DEF Flowing
<1>2. ASSUME call.agent = "workflow"
      PROVE  /\ Flowing(call) /\ call \in WorkflowRuns(call.steps)
             /\ call.llmCalls \in Nat /\ call.llmCalls + 1 \in Nat
             /\ call.llmCalls <= 6 /\ call.current \in Nat /\ call.output \in Nat
  BY <1>2 DEF Idle, Flowing, WorkflowRuns
<1>3. ASSUME ChainStep PROVE Flowing(call')
  <2> DEFINE k == Len(call.steps) + 1
             step == Step(Chain[k], {call.current}, Answer)
  <2>1. /\ call.agent = "workflow" /\ call.at = "chain"
        /\ call' = [call EXCEPT
                       !.steps = Append(@, step), !.current = Answer,
                       !.llmCalls = Answer, !.output = Answer,
                       !.at = IF k = Len(Chain) THEN "done" ELSE "chain"]
    BY <1>3 DEF ChainStep, At
  <2>2. PICK n \in 0..2 : /\ call.steps = ChainSteps(n) /\ call.current = n
                          /\ call.llmCalls = n
    BY <1>2, <2>1 DEF Flowing
  <2>3. /\ n \in Nat /\ k = n + 1 /\ Answer = n + 1 /\ n + 1 \in Nat
        /\ Append(call.steps, step) = ChainSteps(n + 1)
    <3>1. n \in Nat /\ n + 1 \in Nat /\ k = n + 1 /\ Answer = n + 1
      BY <2>2, ChainGrows DEF Answer
    <3>2. step = Step(Chain[n + 1], {n}, n + 1)
      BY <2>2, <3>1
    <3> HIDE DEF k, step
    <3>3. Append(call.steps, step) = ChainSteps(n + 1)
      BY <2>2, <3>2, ChainGrows
    <3> QED
      BY <3>1, <3>3
  <2>4. PICK steps, at : /\ steps = ChainSteps(n + 1)
                         /\ at = IF n = 2 THEN "done" ELSE "chain"
    OBVIOUS
  <2>5. Len(Chain) = 3
    BY DEF Chain
  <2>6. call' = [call EXCEPT !.steps = steps, !.current = n + 1,
                             !.llmCalls = n + 1, !.output = n + 1,
                             !.at = at]
    <3>1. (IF k = Len(Chain) THEN "done" ELSE "chain") = at
      BY <2>3, <2>4, <2>5
    <3> QED
      BY <2>1, <2>3, <2>4, <3>1
  <2> HIDE DEF k, step
  <2>7. /\ call' \in WorkflowRuns(steps) /\ call'.agent = "workflow"
        /\ call'.at = at /\ call'.steps = steps
        /\ call'.current = n + 1 /\ call'.output = n + 1 /\ call'.llmCalls = n + 1
    BY <1>2, <2>1, <2>3, <2>4, <2>6 DEF WorkflowRuns
  <2>8. CASE n = 2
    BY <2>4, <2>7, <2>8 DEF Flowing
  <2>9. CASE n # 2
    <3>1. n + 1 \in 0..2 /\ n + 1 <= 6 /\ at = "chain"
      BY <2>4, <2>9
    <3> QED
      BY <2>4, <2>7, <3>1 DEF Flowing
  <2> QED
    BY <2>8, <2>9
<1>4. ASSUME TrioStep PROVE Flowing(call')
  <2> DEFINE k == Len(call.steps) + 1
             given == IF k = 3 THEN {1, 2} ELSE {k - 1}
             step == Step(Trio[k], given, Answer)
  <2>1. /\ call.agent = "workflow" /\ call.at = "trio"
        /\ call' = [call EXCEPT
                       !.steps = Append(@, step), !.llmCalls = Answer,
                       !.output = Answer,
                       !.at = IF k = Len(Trio) THEN "done" ELSE "trio"]
    BY <1>4 DEF TrioStep, At
  <2>2. PICK n \in 0..2 : call.steps = TrioSteps(n) /\ call.llmCalls = n
    BY <1>2, <2>1 DEF Flowing
  <2>3. /\ n \in Nat /\ k = n + 1 /\ Answer = n + 1 /\ n + 1 \in Nat
        /\ Append(call.steps, step) = TrioSteps(n + 1)
    <3>1. /\ n \in Nat /\ n + 1 \in Nat /\ k = n + 1 /\ Answer = n + 1
          /\ k - 1 = n
      BY <2>2, TrioGrows DEF Answer
    <3>2. step = Step(Trio[n + 1], IF n + 1 = 3 THEN {1, 2} ELSE {n}, n + 1)
      BY <3>1
    <3> HIDE DEF k, given, step
    <3>3. Append(call.steps, step) = TrioSteps(n + 1)
      BY <2>2, <3>2, TrioGrows
    <3> QED
      BY <3>1, <3>3
  <2>4. PICK steps, at : /\ steps = TrioSteps(n + 1)
                         /\ at = IF n = 2 THEN "done" ELSE "trio"
    OBVIOUS
  <2>5. Len(Trio) = 3
    BY DEF Trio
  <2>6. call' = [call EXCEPT !.steps = steps, !.llmCalls = n + 1,
                             !.output = n + 1, !.at = at]
    <3>1. (IF k = Len(Trio) THEN "done" ELSE "trio") = at
      BY <2>3, <2>4, <2>5
    <3> QED
      BY <2>1, <2>3, <2>4, <3>1
  <2> HIDE DEF k, step, given
  <2>7. /\ call' \in WorkflowRuns(steps) /\ call'.agent = "workflow"
        /\ call'.at = at /\ call'.steps = steps
        /\ call'.output = n + 1 /\ call'.llmCalls = n + 1
    BY <1>2, <2>1, <2>3, <2>4, <2>6 DEF WorkflowRuns
  <2>8. CASE n = 2
    BY <2>4, <2>7, <2>8 DEF Flowing
  <2>9. CASE n # 2
    <3>1. n + 1 \in 0..2 /\ n + 1 <= 6 /\ at = "trio"
      BY <2>4, <2>9
    <3> QED
      BY <2>4, <2>7, <3>1 DEF Flowing
  <2> QED
    BY <2>8, <2>9
<1>5. ASSUME Generate PROVE Flowing(call')
  <2>1. /\ call.agent = "workflow" /\ call.at = "reflect"
        /\ call' = [call EXCEPT !.current = Answer, !.llmCalls = Answer,
                            !.output = Answer,
                            !.at = IF Rounds(call.steps) < RoundLimit
                                   THEN "judge" ELSE "done"]
    BY <1>5 DEF Generate, At
  <2>2. PICK r \in 0..2 : call.steps = RoundSteps(r) /\ call.llmCalls = 2 * r
    BY <1>2, <2>1 DEF Flowing
  <2>3. /\ Answer = 2 * r + 1 /\ Rounds(call.steps) < RoundLimit
        /\ 2 * r + 1 \in Nat /\ 2 * r + 1 <= 6
    <3>1. Rounds(call.steps) = r
      BY <2>2, RoundGrows
    <3>2. r \in 0..2 /\ Answer = 2 * r + 1
      BY <2>2 DEF Answer
    <3> QED
      BY <3>1, <3>2 DEF RoundLimit
  <2>4. call' = [call EXCEPT !.current = 2 * r + 1, !.llmCalls = 2 * r + 1,
                             !.output = 2 * r + 1, !.at = "judge"]
    BY <2>1, <2>3
  <2>5. /\ call' \in WorkflowRuns(call.steps)
        /\ call'.agent = "workflow"
        /\ call'.at = "judge" /\ call'.steps = call.steps
        /\ call'.current = 2 * r + 1
        /\ call'.output = 2 * r + 1 /\ call'.llmCalls = 2 * r + 1
    BY <1>2, <2>1, <2>3, <2>4 DEF WorkflowRuns
  <2> QED
    BY <2>2, <2>3, <2>5 DEF Flowing
<1>6. ASSUME Judge PROVE Flowing(call')
  <2> DEFINE more == call.steps \o <<Step("generator", {0}, call.current),
                                     Step("evaluator", {call.current}, Answer)>>
  <2>1. /\ call.agent = "workflow" /\ call.at = "judge"
        /\ call' = [call EXCEPT !.steps = more, !.at = Judged(more),
                                !.llmCalls = Answer]
    BY <1>6 DEF Judge, At
  <2>2. PICK r \in 0..2 : /\ call.steps = RoundSteps(r)
                          /\ call.llmCalls = 2 * r + 1
                          /\ call.current = call.llmCalls
                          /\ call.output = call.llmCalls
    BY <1>2, <2>1 DEF Flowing
  <2>3. PICK steps : steps = RoundSteps(r + 1)
    OBVIOUS
  <2>4. more = steps /\ Answer = 2 * r + 2 /\ Rounds(steps) = r + 1
    <3>1. Answer = 2 * r + 2
      BY <2>2 DEF Answer
    <3> QED
      BY <2>2, <2>3, <3>1, RoundGrows
  <2>5. PICK at : at = IF r = 2 THEN "done" ELSE "reflect"
    OBVIOUS
  <2>6. Judged(steps) = at
    BY <2>4, <2>5 DEF Judged, RoundLimit
  <2>7. call' = [call EXCEPT !.steps = steps, !.at = at, !.llmCalls = 2 * r + 2]
    BY <2>1, <2>4, <2>6
  <2> HIDE DEF more
  <2>8. 2 * r + 2 \in Nat /\ 2 * r + 2 <= 6 /\ 2 * r + 2 = 2 * (r + 1)
    OBVIOUS
  <2>9. /\ call' \in WorkflowRuns(steps)
        /\ call'.agent = "workflow"
        /\ call'.at = at /\ call'.steps = steps
        /\ call'.current = call.current
        /\ call'.output = call.output /\ call'.llmCalls = 2 * r + 2
    BY <1>2, <2>1, <2>5, <2>7, <2>8 DEF WorkflowRuns
  <2>10. CASE r = 2
    <3>1. call'.output = 5 /\ steps = RoundSteps(3) /\ at = "done"
      BY <2>2, <2>3, <2>5, <2>9, <2>10
    <3> QED
      BY <2>8, <2>9, <3>1 DEF Flowing
  <2>11. CASE r # 2
    <3>1. r + 1 \in 0..2 /\ at = "reflect"
      BY <2>5, <2>11
    <3> QED
      BY <2>3, <2>8, <2>9, <3>1 DEF Flowing
  <2> QED
    BY <2>10, <2>11
<1>7. ASSUME Raises("workflow", {"chain", "trio", "reflect", "judge"})
      PROVE  Flowing(call')
  <2>1. call.agent = "workflow" /\ call' = [call EXCEPT !.at = "raised"]
    BY <1>7 DEF Raises, At
  <2>2. /\ call' \in WorkflowRuns(call.steps)
        /\ call'.agent = "workflow" /\ call'.at = "raised"
        /\ call'.steps = call.steps
        /\ call'.llmCalls = call.llmCalls
    BY <1>2, <2>1 DEF WorkflowRuns
  <2> QED
    BY <1>2, <2>1, <2>2 DEF Flowing
<1>8. ASSUME WorkflowReturns PROVE call' = Idle
  BY <1>8 DEF WorkflowReturns, Return
<1> QED
  BY <1>1, <1>3, <1>4, <1>5, <1>6, <1>7, <1>8 DEF WorkflowNext

-----------------------------------------------------------------------------
(* The service *)

\* Only the agent a call is of takes a step of it.
LEMMA ReActOwns ==
    ASSUME ReActNext PROVE call = Idle \/ call.agent = "react"
  BY DEF ReActNext, RunReAct, ThinkEnds, ThinkGoesOn, ReflectOn, ActByTool,
         ActByLlm, ReActReturns, Raises, Return, At

LEMMA ReflectOwns ==
    ASSUME ReflectNext PROVE call = Idle \/ call.agent = "reflective"
  BY DEF ReflectNext, Reflect, Execute, Evaluate, Regenerate, ReflectReturns,
         Raises, Return, At

LEMMA DebateOwns ==
    ASSUME DebateNext PROVE call = Idle \/ call.agent = "debate"
  BY DEF DebateNext, Debate, Propose, Critique, Aggregate, DebateReturns,
         Raises, Return, At

LEMMA CrewOwns ==
    ASSUME CrewNext PROVE call = Idle \/ call.agent = "crew"
  BY DEF CrewNext, AddMember, RemoveMember, ExecuteCrew, Decompose, Assign,
         Synthesize, CrewReturns, Raises, Return, At

LEMMA WorkflowOwns ==
    ASSUME WorkflowNext PROVE call = Idle \/ call.agent = "workflow"
  BY DEF WorkflowNext, RunWorkflow, ChainStep, TrioStep, Generate, Judge,
         WorkflowReturns, Raises, Return, At

\* What is known of a call says whose it is.
LEMMA OwnedBy ==
    ASSUME ServiceInv
    PROVE  /\ call.agent = "router" => Decision(call)
           /\ call.agent = "react" => Reasoning(call)
           /\ call.agent = "reflective" => Reflecting(call)
           /\ call.agent = "debate" => Debating(call, proposers)
           /\ call.agent = "crew" => Assigning(call, members)
           /\ call.agent = "workflow" => Flowing(call)
<1>1. call = Idle => call.agent = "none"
  BY DEF Idle
<1>2. Decision(call) => call.agent = "router"
  BY DEF Decision
<1>3. Reasoning(call) => call.agent = "react"
  BY DEF Reasoning
<1>4. Reflecting(call) => call.agent = "reflective"
  BY DEF Reflecting
<1>5. Debating(call, proposers) => call.agent = "debate"
  BY DEF Debating
<1>6. Assigning(call, members) => call.agent = "crew"
  BY DEF Assigning
<1>7. Flowing(call) => call.agent = "workflow"
  BY DEF Flowing
<1> QED
  BY <1>1, <1>2, <1>3, <1>4, <1>5, <1>6, <1>7 DEF ServiceInv

\* One case for each agent: its own step, then the step of no other.
LEMMA ServiceInductive == ServiceInv /\ [ServiceNext]_serviceVars => ServiceInv'
<1> SUFFICES ASSUME ServiceInv, [ServiceNext]_serviceVars PROVE ServiceInv'
  OBVIOUS
<1>0. proposers \in Int /\ members \in Crews /\ Unlike(members)
  BY DEF ServiceInv
<1>1. CASE RouterNext /\ UNCHANGED <<proposers, members>>
  <2>1. call' = Idle \/ Decision(call')
    BY <1>1, RouterKept
  <2> QED
    BY <1>0, <1>1, <2>1 DEF ServiceInv
<1>2. CASE ReActNext /\ UNCHANGED <<proposers, members>>
  <2>1. call' = Idle \/ Reasoning(call')
    BY <1>2, ReActOwns, OwnedBy, ReActKept
  <2> QED
    BY <1>0, <1>2, <2>1 DEF ServiceInv
<1>3. CASE ReflectNext /\ UNCHANGED <<proposers, members>>
  <2>1. call' = Idle \/ Reflecting(call')
    BY <1>3, ReflectOwns, OwnedBy, ReflectKept
  <2> QED
    BY <1>0, <1>3, <2>1 DEF ServiceInv
<1>4. CASE WorkflowNext /\ UNCHANGED <<proposers, members>>
  <2>1. call' = Idle \/ Flowing(call')
    BY <1>4, WorkflowOwns, OwnedBy, WorkflowKept
  <2> QED
    BY <1>0, <1>4, <2>1 DEF ServiceInv
<1>5. CASE DebateNext /\ UNCHANGED members
  <2>1. proposers' \in Int /\ (call' = Idle \/ Debating(call', proposers'))
    BY <1>0, <1>5, DebateOwns, OwnedBy, DebateKept
  <2> QED
    BY <1>0, <1>5, <2>1 DEF ServiceInv
<1>6. CASE CrewNext /\ UNCHANGED proposers
  <2>1. /\ members' \in Crews /\ Unlike(members')
        /\ call' = Idle \/ Assigning(call', members')
    BY <1>0, <1>6, CrewOwns, OwnedBy, CrewKept
  <2> QED
    BY <1>0, <1>6, <2>1 DEF ServiceInv
<1>7. CASE UNCHANGED serviceVars
  <2>1. call' = call /\ proposers' = proposers /\ members' = members
    BY <1>7 DEF serviceVars
  <2> QED
    BY <2>1 DEF ServiceInv
<1> QED
  BY <1>1, <1>2, <1>3, <1>4, <1>5, <1>6, <1>7 DEF ServiceNext

LEMMA ServiceStarts == ServiceInit => ServiceInv
<1> SUFFICES ASSUME ServiceInit PROVE ServiceInv
  OBVIOUS
<1>1. <<>> \in Crews /\ Unlike(<<>>)
  BY DEF Crews, Unlike
<1> QED
  BY <1>1 DEF ServiceInit, ServiceInv, DefaultProposers

\* What a call under way holds, at every point of every agent's loop.
THEOREM ServiceInvariance == ServiceSpec => []ServiceInv
  BY ServiceStarts, ServiceInductive, PTL DEF ServiceSpec

\* Every accepted decision of POST /api/agents/route, for any task and budget,
\* can be paid and uses the model of its tier or the cheapest.
THEOREM DecisionsAffordable == ServiceSpec => []DecisionAffordable
<1>1. ServiceInv => DecisionAffordable
  BY OwnedBy, DecisionIsAffordable DEF DecisionAffordable, At
<1> QED
  BY ServiceInvariance, <1>1, PTL

\* A task of up to 285 tokens is refused only with a budget for which no model
\* is feasible, however many words and whatever budgets there are.
THEOREM ShortTasks == ServiceSpec => []ShortTasksServed
<1>1. ServiceInv => ShortTasksServed
  BY OwnedBy, ShortTaskServed DEF ShortTasksServed, At
<1> QED
  BY ServiceInvariance, <1>1, PTL

\* ReActAgent.run answers what its last step gave, for the reason that step
\* shows, and no step before it was sure or doubtful.
THEOREM ReActExplains == ServiceSpec => []ReActResultExplained
<1>1. ServiceInv => ReActResultExplained
  BY OwnedBy, ReActExplained DEF ReActResultExplained, At
<1> QED
  BY ServiceInvariance, <1>1, PTL

\* reflect returns the earliest best of the outputs that were judged, for any
\* number of rounds and any answers of the judge.
THEOREM BestIsReturned == ServiceSpec => []BestReturned
<1>1. ServiceInv => BestReturned
  BY OwnedBy, ReturnedIsBest DEF BestReturned, At
<1> QED
  BY ServiceInvariance, <1>1, PTL

\* The votes of a debate, for any number of proposers and any scores.
THEOREM VotesAreFair == ServiceSpec => []VotesFair
<1>1. ServiceInv => VotesFair
  <2> SUFFICES ASSUME ServiceInv PROVE VotesFair
    OBVIOUS
  <2>1. proposers \in Int
    BY DEF ServiceInv
  <2>2. CASE At("debate", "done")
    BY <2>1, <2>2, OwnedBy, VotedFairly DEF At
  <2>3. CASE ~At("debate", "done")
    BY <2>3 DEF VotesFair
  <2> QED
    BY <2>2, <2>3
<1> QED
  BY ServiceInvariance, <1>1, PTL

\* Among equal members the first of the crew serves every subtask, whatever
\* was added and removed before.
THEOREM OldestAlwaysServes == ServiceSpec => []OldestOfEqualsServes
<1>1. ServiceInv => OldestOfEqualsServes
  BY OwnedBy, OldestServes DEF OldestOfEqualsServes, ServiceInv, At
<1> QED
  BY ServiceInvariance, <1>1, PTL

\* No pattern of the workflow agent answers what its last agent has not seen.
THEOREM AnswersReviewed == ServiceSpec => []AnswerIsReviewed
<1>1. ServiceInv => AnswerIsReviewed
  BY OwnedBy, ReviewedAnswers DEF AnswerIsReviewed, At
<1> QED
  BY ServiceInvariance, <1>1, PTL

\* However the model answers, each call ends within the bound of its agent.
THEOREM CallsAreBounded == ServiceSpec => []CallsBounded
<1>1. ServiceInv => CallsBounded
  <2> SUFFICES ASSUME ServiceInv PROVE CallsBounded
    OBVIOUS
  <2>1. proposers \in Int
    BY DEF ServiceInv
  <2>2. ReActBounded
    BY OwnedBy, ReActIsBounded DEF ReActBounded
  <2>3. ReflectBounded
    BY OwnedBy, ReflectIsBounded DEF ReflectBounded
  <2>4. DebateBounded
    BY <2>1, OwnedBy, DebateIsBounded DEF DebateBounded
  <2>5. CrewBounded
    BY OwnedBy, CrewIsBounded DEF CrewBounded
  <2>6. WorkflowBounded
    BY OwnedBy, WorkflowIsBounded DEF WorkflowBounded
  <2> QED
    BY <2>2, <2>3, <2>4, <2>5, <2>6 DEF CallsBounded
<1> QED
  BY ServiceInvariance, <1>1, PTL

\* No request, of any agent, changes the order of two members, and none but a
\* removal outside every call takes a member away.
THEOREM RanksNeverChange == ServiceSpec => RanksStable
<1> DEFINE Stable ==
      /\ \A m, n \in MemberNames :
            \A i \in Rank(members, m), j \in Rank(members, n) :
                \A i2 \in Rank(members', m), j2 \in Rank(members', n) :
                    (i < j) <=> (i2 < j2)
      /\ \A n \in MemberNames :
            Rank(members, n) # {} /\ Rank(members', n) = {} => call = Idle
<1>1. ServiceInv /\ [ServiceNext]_serviceVars => [Stable]_members
  <2> SUFFICES ASSUME ServiceInv, [ServiceNext]_serviceVars, members' # members
               PROVE  Stable
    OBVIOUS
  <2>1. CrewNext
    BY DEF ServiceNext, serviceVars
  <2>2. members \in Crews /\ Unlike(members)
    BY DEF ServiceInv
  <2> QED
    BY <2>1, <2>2, RanksKept
<1> QED
  BY ServiceInvariance, <1>1, PTL DEF ServiceSpec, RanksStable
=============================================================================
