----------------------------- MODULE ReActAgent -----------------------------
(***************************************************************************)
(* src/src/agents/react_agent.py: ReActAgent.run, the loop of thinking,    *)
(* acting and reflecting.  Confidences are in percent.                     *)
(***************************************************************************)
EXTENDS AgentCall, Sequences

CONSTANTS
    MaxIterations,   \* max_iterations
    Threshold,       \* confidence_threshold
    EarlyExit,       \* early_exit_confidence
    Confidences        \* what the model answers when asked for a number

ASSUME ReActAssumption ==
    /\ MaxIterations \in Nat
    /\ Threshold \in Int /\ EarlyExit \in Int /\ Confidences \subseteq Int

\* steps are the finished iterations.  A step's confidence is that of its last
\* judgement, and its action what the plan led to, "none" when it was dropped.
ReActStart == [agent |-> "react", at |-> "think", action |-> "none",
          steps |-> <<>>, success |-> FALSE, output |-> "", llmCalls |-> 0]

\* A tool that raises is reported in its result.
ToolResults == {"output", "", "tool failed"}
LlmResults == {"output", ""}

Confidence(answer) == Parse(answer, 0, 100, 50)

Logged(phase, confidence, action) ==
    Append(call.steps,
           [phase |-> phase, confidence |-> confidence, action |-> action])

\* faulty: range(max_iterations + 1)
ReActIterate_OneMore(c) ==
    IF Len(c.steps) <= MaxIterations THEN [c EXCEPT !.at = "think"]
    ELSE [c EXCEPT !.at = "done", !.success = TRUE,
                   !.output = IF @ = "" THEN "partial" ELSE @]

\* The head of the loop, and what follows the loop.
ReActIterate(c) ==
    IF Len(c.steps) < MaxIterations THEN [c EXCEPT !.at = "think"]
    ELSE [c EXCEPT !.at = "done", !.success = TRUE,
                   !.output = IF @ = "" THEN "partial" ELSE @]

Pauses(conf) == Below(conf, Threshold)

RunReAct == call = Idle /\ call' = ReActIterate(ReActStart)

\* think asks twice: for a plan, and for the confidence in it.  A confident
\* plan is the answer; a doubtful one is not carried out.
ThinkEnds(answer) ==
    LET conf == Confidence(answer)
        sure == AtLeast(conf, EarlyExit)
    IN  /\ At("react", "think")
        /\ sure \/ Pauses(conf)
        /\ call' = [call EXCEPT
                       !.at = "done", !.llmCalls = @ + 2, !.success = sure,
                       !.output = IF sure THEN "thought" ELSE "hitl",
                       !.steps = Logged(IF sure THEN "done" ELSE "failed",
                                        conf, "none")]

ThinkGoesOn(answer) ==
    LET conf == Confidence(answer)
    IN  /\ At("react", "think")
        /\ ~AtLeast(conf, EarlyExit) /\ ~Pauses(conf)
        /\ call' = [call EXCEPT !.at = "act", !.llmCalls = @ + 2]

\* A tool the plan names, or else the model.
ActByTool(result) ==
    /\ At("react", "act")
    /\ call' = [call EXCEPT !.at = "reflect", !.action = result]

ActByLlm(result) ==
    /\ At("react", "act")
    /\ call' = [call EXCEPT !.at = "reflect", !.action = result,
                            !.llmCalls = @ + 1]

\* faulty: the output is taken over below the early exit
ReflectOn_Late(answer) ==
    LET conf == Confidence(answer)
        Stepped(phase) ==
            [call EXCEPT !.llmCalls = @ + 2, !.steps = Logged(phase, conf, call.action)]
    IN  /\ At("react", "reflect")
        /\ call' = IF AtLeast(conf, EarlyExit)
                   THEN [Stepped("done") EXCEPT !.at = "done", !.success = TRUE]
                   ELSE ReActIterate([Stepped("reflect") EXCEPT !.output = call.action])

\* The new confidence replaces the plan's in the step; only the early exit
\* looks at it.
ReflectOn(answer) ==
    LET conf == Confidence(answer)
        Stepped(phase) ==
            [call EXCEPT !.llmCalls = @ + 2, !.output = call.action,
                         !.steps = Logged(phase, conf, call.action)]
    IN  /\ At("react", "reflect")
        /\ call' = IF AtLeast(conf, EarlyExit)
                   THEN [Stepped("done") EXCEPT !.at = "done", !.success = TRUE]
                   ELSE ReActIterate(Stepped("reflect"))

ReActReturns == Return("react")

ReActNext ==
    \/ RunReAct
    \/ \E a \in Confidences : ThinkEnds(a) \/ ThinkGoesOn(a) \/ ReflectOn(a)
    \/ \E r \in ToolResults : ActByTool(r)
    \/ \E r \in LlmResults : ActByLlm(r)
    \/ Raises("react", {"think", "act", "reflect"})
    \/ ReActReturns
-----------------------------------------------------------------------------
(* Properties *)

\* What a client may conclude from a result.  A run ends early exactly on a
\* step that was confident, or on a plan that was doubtful, which is a failure
\* and the only one; anything else is a success after MaxIterations steps.  The
\* output is the plan or the result of the last step, never of an earlier one,
\* and "partial" only for a run that used up its steps and has nothing to show.
ReActResultExplained ==
    At("react", "done") =>
        LET s == call.steps
            last == s[Len(s)]
            Confident(k) == AtLeast(s[k].confidence, EarlyExit)
            Doubtful(k) == /\ s[k].action = "none" /\ ~Confident(k)
                           /\ Below(s[k].confidence, Threshold)
        IN  /\ \A k \in 1..(Len(s) - 1) : ~Confident(k) /\ ~Doubtful(k)
            /\ IF s = <<>> THEN call.success /\ call.output = "partial"
               ELSE /\ ~call.success <=> Doubtful(Len(s))
                    /\ Confident(Len(s)) \/ Doubtful(Len(s))
                         \/ Len(s) = MaxIterations
                    /\ last.phase = CASE Confident(Len(s)) -> "done"
                                      [] Doubtful(Len(s)) -> "failed"
                                      [] OTHER -> "reflect"
                    /\ call.output =
                          CASE Doubtful(Len(s)) -> "hitl"
                            [] Confident(Len(s)) /\ last.action = "none" -> "thought"
                            [] ~Confident(Len(s)) /\ last.action = "" -> "partial"
                            [] OTHER -> last.action

\* "If confidence drops below this, trigger HITL" (react_agent.py:70): a run
\* that ends below the threshold asks for a pause.  It does not when a
\* reflection, and not a plan, lowered the confidence.
LowConfidencePauses ==
    At("react", "done") /\ call.steps # <<>>
        /\ Below(call.steps[Len(call.steps)].confidence, Threshold) =>
            ~call.success

\* The run is bounded by the loop's bound: 5 calls of the model a step.
ReActBounded ==
    call.agent = "react" => /\ call.llmCalls <= 5 * MaxIterations
                            /\ Len(call.steps) <= MaxIterations
=============================================================================
