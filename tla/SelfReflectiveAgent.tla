------------------------ MODULE SelfReflectiveAgent ------------------------
(***************************************************************************)
(* src/src/agents/self_reflective_agent.py: SelfReflectiveAgent.reflect,   *)
(* which has its output judged and improves it.  Scores are in tenths of a *)
(* point, outputs are numbered in the order they were generated.           *)
(***************************************************************************)
EXTENDS AgentCall, Sequences

CONSTANTS
    MaxReflections,   \* max_reflections
    ScoreThreshold,   \* score_threshold
    Judgements        \* what the judge may answer

ASSUME ReflectAssumption ==
    MaxReflections \in Nat /\ ScoreThreshold \in Int /\ Judgements \subseteq Int

\* metrics holds the score of each evaluation; the output of evaluation k is
\* output k.
ReflectStart == [agent |-> "reflective", at |-> "execute", current |-> 0,
          metrics |-> <<>>, bestScore |-> 0, best |-> 0, llmCalls |-> 0]

JudgeScore(answer) == Parse(answer, 10, 100, 50)

Reflect == call = Idle /\ call' = ReflectStart

\* Out of the loop, with the best output.  improvement, a figure shown beside
\* it, follows from metrics and is left out.
Finish(c) == [c EXCEPT !.at = "done"]

\* The head of the loop.
ReflectIterate(c) ==
    IF Len(c.metrics) < MaxReflections THEN [c EXCEPT !.at = "evaluate"]
    ELSE Finish(c)

Execute ==
    /\ At("reflective", "execute")
    /\ call' = ReflectIterate([call EXCEPT !.current = 1, !.best = 1, !.llmCalls = 1])

\* faulty: what was generated last is kept
Keep_Last(c, score) == [c EXCEPT !.bestScore = score, !.best = c.current]

Keep(c, score) ==
    IF Above(score, c.bestScore)
    THEN [c EXCEPT !.bestScore = score, !.best = c.current]
    ELSE c

Evaluate(answer) ==
    LET score == JudgeScore(answer)
        judged == [Keep(call, score) EXCEPT
                      !.metrics = Append(@, score), !.llmCalls = @ + 1]
    IN  /\ At("reflective", "evaluate")
        /\ call' = IF AtLeast(score, ScoreThreshold) THEN Finish(judged)
                   ELSE [judged EXCEPT !.at = "regenerate"]

\* Also after the last evaluation, when nobody will look at the new output.
Regenerate ==
    /\ At("reflective", "regenerate")
    /\ call' = ReflectIterate([call EXCEPT !.current = @ + 1, !.llmCalls = @ + 1])

ReflectReturns == Return("reflective")

ReflectNext ==
    \/ Reflect
    \/ Execute
    \/ \E a \in Judgements : Evaluate(a)
    \/ Regenerate
    \/ Raises("reflective", {"execute", "evaluate", "regenerate"})
    \/ ReflectReturns
-----------------------------------------------------------------------------
(* Properties *)

\* The output returned is the best of those that were judged, the earliest if
\* several are; the first when no judgement was a number.  The last output
\* generated, which nobody judged, is never returned in its place.
BestReturned ==
    At("reflective", "done") =>
        LET m == call.metrics
            numbers == {k \in DOMAIN m : m[k] # NaN}
        IN  IF numbers = {} THEN call.best = 1
            ELSE /\ call.best \in numbers
                 /\ \A k \in numbers : m[k] <= m[call.best]
                 /\ \A k \in numbers : k < call.best => m[k] < m[call.best]

ReflectBounded ==
    call.agent = "reflective" => call.llmCalls <= 1 + 2 * MaxReflections
=============================================================================
