--------------------------- MODULE WorkflowAgent ---------------------------
(***************************************************************************)
(* src/src/agents/workflow_agent.py: WorkflowAgent.run with its patterns   *)
(* chain, trio and reflect.                                                *)
(*                                                                         *)
(* Text is known by where it comes from: 0 is the task and k what the      *)
(* k-th call of the model answered.                                        *)
(***************************************************************************)
EXTENDS AgentCall, Sequences

CONSTANTS
    Patterns    \* patterns of a request, in lower case

RoundLimit == 3                            \* of _run_reflect
Chain == <<"researcher", "analyst", "writer">>
Trio == <<"analyst", "critic", "synthesizer">>

\* current is the chain's context, or what _run_reflect is improving.
WorkflowStart(pattern) ==
    [agent |-> "workflow", at |-> pattern, steps |-> <<>>, current |-> 0,
     output |-> 0, llmCalls |-> 0]

\* An unknown pattern is a trio.
RunWorkflow(pattern) ==
    /\ call = Idle
    /\ call' = WorkflowStart(IF pattern \in {"chain", "trio", "reflect"} THEN pattern
                     ELSE "trio")

\* WorkflowStep: the agent, the texts it was given, and its answer.
Step(name, given, answer) == [name |-> name, given |-> given, output |-> answer]

\* What the call in progress answers.
Answer == call.llmCalls + 1

\* _run_chain: each agent is given the answer of the one before it.
ChainStep ==
    LET k == Len(call.steps) + 1
        step == Step(Chain[k], {call.current}, Answer)
    IN  /\ At("workflow", "chain")
        /\ call' = [call EXCEPT
                       !.steps = Append(@, step), !.current = Answer,
                       !.llmCalls = Answer, !.output = Answer,
                       !.at = IF k = Len(Chain) THEN "done" ELSE "chain"]

\* _run_trio: the synthesizer is given the analysis and the critique.
TrioStep ==
    LET k == Len(call.steps) + 1
        given == IF k = 3 THEN {1, 2} ELSE {k - 1}
    IN  /\ At("workflow", "trio")
        /\ call' = [call EXCEPT
                       !.steps = Append(@, Step(Trio[k], given, Answer)),
                       !.llmCalls = Answer, !.output = Answer,
                       !.at = IF k = Len(Trio) THEN "done" ELSE "trio"]

Rounds(steps) == Len(steps) \div 2

\* _run_reflect, up to the head of the loop: the text is generated or improved.
Generate ==
    /\ At("workflow", "reflect")
    /\ call' = [call EXCEPT !.current = Answer, !.llmCalls = Answer,
                            !.output = Answer,
                            !.at = IF Rounds(call.steps) < RoundLimit
                                   THEN "judge" ELSE "done"]

Judged_GoOn(steps) == "reflect"      \* faulty: the break is missing

\* Only after the last judgement nothing is improved.
Judged(steps) == IF Rounds(steps) = RoundLimit THEN "done" ELSE "reflect"

\* What is being improved becomes a step when it is judged.
Judge ==
    LET steps == call.steps \o <<Step("generator", {0}, call.current),
                                 Step("evaluator", {call.current}, Answer)>>
    IN  /\ At("workflow", "judge")
        /\ call' = [call EXCEPT !.steps = steps, !.at = Judged(steps),
                                !.llmCalls = Answer]

WorkflowReturns == Return("workflow")

WorkflowNext ==
    \/ \E p \in Patterns : RunWorkflow(p)
    \/ ChainStep
    \/ TrioStep
    \/ Generate
    \/ Judge
    \/ Raises("workflow", {"chain", "trio", "reflect", "judge"})
    \/ WorkflowReturns
-----------------------------------------------------------------------------
(* Properties *)

\* Nothing is answered that the last agent of the pattern has not seen: it
\* wrote the answer, or judged that very text.  What an agent is given are
\* answers to earlier calls of the same run, and every answer of an agent but
\* the evaluators' is passed on or is the final one.
AnswerIsReviewed ==
    At("workflow", "done") =>
        LET s == call.steps
            last == s[Len(s)]
            passedOn == UNION {s[k].given : k \in DOMAIN s}
        IN  /\ IF last.name = "evaluator" THEN last.given = {call.output}
               ELSE last.output = call.output
            /\ \A k \in DOMAIN s :
                  /\ \A t \in s[k].given : t < s[k].output
                  /\ s[k].name # "evaluator" =>
                        s[k].output \in passedOn \cup {call.output}

WorkflowBounded == call.agent = "workflow" => call.llmCalls <= 6
=============================================================================
