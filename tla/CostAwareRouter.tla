-------------------------- MODULE CostAwareRouter --------------------------
(***************************************************************************)
(* src/src/agents/router.py: CostAwareRouter, which chooses a model for a  *)
(* task and estimates what it will cost.                                   *)
(*                                                                         *)
(* Money is in billionths of a dollar, in which every price per token is a *)
(* whole number.  A task is what the estimate looks at: the number of its  *)
(* words, and whether it has a technical keyword and several steps.        *)
(***************************************************************************)
EXTENDS AgentCall, FiniteSetsExt

CONSTANTS
    Tasks,            \* records [words, technical, steps]
    Budgets,          \* the budgets of requests, 0 for none given
    DefaultBudget     \* default_budget

ASSUME RouterAssumption ==
    /\ Tasks \subseteq [words : Nat, technical : BOOLEAN, steps : BOOLEAN]
    /\ Budgets \subseteq Int /\ DefaultBudget \in Int

Tiers == 1..4

\* TIER_MODEL_MAP and MODEL_COST_MAP: prices per token, input and output.
Model == <<"gpt-4o-mini", "gpt-4o", "o1-mini", "o1-preview">>
InputPrice == <<150, 2500, 3000, 15000>>
OutputPrice == <<600, 10000, 12000, 60000>>

\* The first two tests ask for a plain task as well as a short one; the third
\* lets a keyword stand for shortness.
EstimateComplexity(task) ==
    CASE task.words < 20 /\ ~task.technical -> 1
      [] (task.words >= 20 \/ task.technical)
         /\ task.words < 60 /\ ~task.steps -> 2
      [] (task.words >= 60 \/ task.steps)
         /\ (task.words >= 20 \/ task.technical)
         /\ (task.words < 150 \/ task.technical) -> 3
      [] OTHER -> 4

EstimateTokens(task) == (task.words * 13) \div 10 + 50

\* "budget or default": no budget and a budget of zero are the default's.
Budget(budget) == IF budget = 0 THEN DefaultBudget ELSE budget

\* faulty: the whole budget may go into the input
Feasible_Whole(tier, budget) == 1000 * InputPrice[tier] <= budget

\* A model is feasible when a thousand tokens of input cost half the budget.
Feasible(tier, budget) == 2 * 1000 * InputPrice[tier] <= budget

SelectModel_Priciest(tier, budget) ==       \* faulty: loops from the top
    LET feasible == {t \in Tiers : Feasible(t, budget)}
    IN  IF tier \in feasible THEN tier
        ELSE IF feasible = {} THEN 1 ELSE Max(feasible)

\* The tier's own model, or else the cheapest feasible one, or else the
\* cheapest: the same one, as prices rise with the tier.
SelectModel(tier, budget) ==
    LET feasible == {t \in Tiers : Feasible(t, budget)}
    IN  IF tier \in feasible THEN tier
        ELSE IF feasible = {} THEN 1 ELSE Min(feasible)

\* estimated_tokens of input, and 1.5 times as many of output.
Cost(tier, tokens) ==
    tokens * InputPrice[tier] + (tokens * 3 * OutputPrice[tier]) \div 2

\* RoutingDecision refuses a budget_remaining that is negative when rounded to
\* six decimals.
Accepts(remaining) == remaining >= -500

\* POST /api/agents/route: a decision, or the ValidationError, which nobody
\* catches.
Route(task, budget) ==
    LET funds == Budget(budget)
        tier == EstimateComplexity(task)
        chosen == SelectModel(tier, funds)
        cost == Cost(chosen, EstimateTokens(task))
    IN  /\ call = Idle
        /\ call' = [agent |-> "router", task |-> task, budget |-> budget,
                    tier |-> tier, chosen |-> chosen, model |-> Model[chosen],
                    cost |-> cost, remaining |-> funds - cost, llmCalls |-> 0,
                    at |-> IF Accepts(funds - cost) THEN "done" ELSE "raised"]

RouteReturns == Return("router")

RouterNext ==
    \/ \E t \in Tasks, b \in Budgets : Route(t, b)
    \/ RouteReturns
-----------------------------------------------------------------------------
(* Properties *)

\* An accepted decision can be paid from the budget of the request, to the
\* millionth of a dollar, and it uses the model of its tier or the cheapest
\* one, never one in between or above.
DecisionAffordable ==
    At("router", "done") =>
        /\ call.budget # 0 => call.cost <= call.budget + 500
        /\ call.chosen \in {1, call.tier}
        /\ call.remaining >= -500

\* Feasibility looks at the price of 1000 tokens of input, acceptance at the
\* cost of the task.  They agree for tasks of up to 285 tokens, 181 words: such
\* a task is refused only with a budget no model is feasible for.
ShortTasksServed ==
    At("router", "raised") =>
        \/ EstimateTokens(call.task) > 285
        \/ \A t \in Tiers : ~Feasible(t, Budget(call.budget))

\* A budget that is too small is answered with a cheaper model as long as one
\* fits: what is refused does not fit with the cheapest model either.
RefusedOnlyIfNothingFits ==
    At("router", "raised") =>
        Cost(1, EstimateTokens(call.task)) > Budget(call.budget)
=============================================================================
