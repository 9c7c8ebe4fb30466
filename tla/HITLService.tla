---------------------------- MODULE HITLService ----------------------------
(***************************************************************************)
(* The human-in-the-loop workflows: src/src/workflows/hitl_workflow.py     *)
(* and the two endpoints of src/src/main.py that create workflows and take *)
(* the reviewers' decisions on them.                                       *)
(*                                                                         *)
(* A handler has no await, so each is one action; what interleaves are the *)
(* reviewers, who decide some time after they read a paused output, and    *)
(* the analyses of other tasks.  The methods of HITLWorkflow are operators *)
(* from a workflow to the workflow they leave.                             *)
(***************************************************************************)
EXTENDS Naturals, Sequences, FiniteSets

CONSTANTS
    MaxWorkflows,  \* bound: workflows created
    Tasks,         \* a task with the agent's output for it
    Scores,        \* confidence scores, in hundredths
    Threshold,     \* _threshold
    Texts,         \* instructions a reviewer may add
    Reviewers,
    MaxTrail,      \* bound: entries of a trail before a rerun
    None

ASSUME ScoresAssumption == Scores \subseteq Nat /\ Threshold \in Nat
ASSUME BoundAssumption == MaxWorkflows \in Nat /\ MaxTrail \in Nat
ASSUME NoneAssumption == None \notin BOOLEAN \cup Texts

VARIABLES
    workflows,  \* the registry: workflow id -> HITLWorkflow
    desk,       \* desk[r]: the id and the task reviewer r is looking at
    verdicts,   \* history: the decisions accepted for each workflow, in order
    rerun       \* history: ids of the workflows that were run again

vars == <<workflows, desk, verdicts, rerun>>

States == {"input", "analyze", "paused", "validate", "resume", "completed",
           "rejected"}

\* HITLContext: None before the first analysis.
Contexts == [task : Tasks, confidence : Scores,
             approved : BOOLEAN \cup {None}, input : Texts \cup {None}]

\* An entry of the audit trail is the pair of the state left and the state
\* entered.
Workflow == [state : States, context : Contexts \cup {None},
             trail : Seq(States \X States), success : BOOLEAN]

Verdict == [ok : BOOLEAN, input : Texts \cup {None}, seen : Tasks]
-----------------------------------------------------------------------------
(* HITLWorkflow *)

NewWorkflow == [state |-> "input", context |-> None, trail |-> <<>>,
                success |-> FALSE]

\* faulty: the new state is stored before the old one is read
TransitionTo_Late(w, s) ==
    [w EXCEPT !.state = s, !.trail = Append(@, <<s, s>>)]

TransitionTo(w, s) ==
    [w EXCEPT !.state = s, !.trail = Append(@, <<w.state, s>>)]

\* faulty: the comparison is the wrong way round at the threshold
Sufficient_Loose(confidence) == confidence + 1 >= Threshold

Sufficient(confidence) == confidence >= Threshold

\* analyze: no guard on the state; the context is replaced.
Analyze(w, task, confidence) ==
    LET fresh == [w EXCEPT !.context = [task |-> task,
                                        confidence |-> confidence,
                                        approved |-> None, input |-> None]]
    IN  TransitionTo(TransitionTo(fresh, "analyze"),
                     IF Sufficient(confidence) THEN "completed" ELSE "paused")

\* faulty: no check of the state
TakesInput_Always(w) == w.context # None

\* provide_human_input raises RuntimeError unless this holds.
TakesInput(w) == w.state = "paused" /\ w.context # None

ProvideHumanInput(w, ok, text) ==
    LET told == [w EXCEPT !.context.input = text, !.context.approved = ok]
        validated == TransitionTo(told, "validate")
    IN  IF ok THEN TransitionTo(TransitionTo(validated, "resume"), "completed")
        ELSE TransitionTo(validated, "rejected")

\* run: analyse, and decide at once when the caller brings a decision along.
\* success is the field of the HITLResult.
Run(w, task, confidence, decision, text) ==
    LET analysed == Analyze(w, task, confidence)
        final == IF TakesInput(analysed) /\ decision # None
                 THEN ProvideHumanInput(analysed, decision, text)
                 ELSE analysed
    IN  [final EXCEPT !.success = final.state = "completed"]
-----------------------------------------------------------------------------
(* The endpoints *)

Init ==
    /\ workflows = <<>>
    /\ desk = [r \in Reviewers |-> None]
    /\ verdicts = <<>>
    /\ rerun = {}

NewId_Reused == Cardinality({i \in DOMAIN workflows :   \* faulty: counts the
                             workflows[i].state = "paused"}) + 1    \* open ones

NewId_Late == Cardinality(DOMAIN workflows) + 2   \* faulty: taken too late

\* f"wf_{len(workflows) + 1}"
NewId == Cardinality(DOMAIN workflows) + 1

\* POST /api/workflows/hitl/analyze
HitlAnalyze(task, confidence) ==
    /\ NewId <= MaxWorkflows
    /\ workflows' = [i \in DOMAIN workflows \cup {NewId} |->
                        IF i = NewId
                        THEN Run(NewWorkflow, task, confidence, None, None)
                        ELSE workflows[i]]
    /\ verdicts' = [i \in DOMAIN workflows' |->
                        IF i \in DOMAIN verdicts THEN verdicts[i] ELSE <<>>]
    /\ UNCHANGED <<desk, rerun>>

\* Reviewer r is shown the output of a paused workflow.
Look(r, i) ==
    /\ desk[r] = None
    /\ workflows[i].state = "paused"
    /\ desk' = [desk EXCEPT ![r] = <<i, workflows[i].context.task>>]
    /\ UNCHANGED <<workflows, verdicts, rerun>>

\* POST /api/workflows/hitl/input: taken, or refused with status 400.
HitlInput(r, ok, text) ==
    /\ desk[r] # None
    /\ desk' = [desk EXCEPT ![r] = None]
    /\ rerun' = rerun
    /\ LET i == desk[r][1]
       IN  IF TakesInput(workflows[i])
           THEN /\ workflows' = [workflows EXCEPT
                                    ![i] = ProvideHumanInput(@, ok, text)]
                /\ verdicts' = [verdicts EXCEPT
                                    ![i] = Append(@, [ok |-> ok, input |-> text,
                                                      seen |-> desk[r][2]])]
           ELSE UNCHANGED <<workflows, verdicts>>

\* No endpoint does it, but nothing stops a caller of the class.
Rerun(i, task, confidence, decision, text) ==
    /\ Len(workflows[i].trail) <= MaxTrail
    /\ workflows' = [workflows EXCEPT
                        ![i] = Run(@, task, confidence, decision, text)]
    /\ rerun' = rerun \cup {i}
    /\ UNCHANGED <<desk, verdicts>>

Next ==
    \/ \E t \in Tasks, c \in Scores : HitlAnalyze(t, c)
    \/ \E r \in Reviewers, i \in DOMAIN workflows : Look(r, i)
    \/ \E r \in Reviewers, ok \in BOOLEAN, x \in Texts \cup {None} :
          HitlInput(r, ok, x)
    \/ \E i \in DOMAIN workflows, t \in Tasks, c \in Scores,
          d \in BOOLEAN \cup {None}, x \in Texts \cup {None} :
          Rerun(i, t, c, d, x)

Spec == Init /\ [][Next]_vars
-----------------------------------------------------------------------------
(* Properties *)

TypeOK ==
    /\ \E n \in 0..MaxWorkflows : DOMAIN workflows = 1..n
    /\ \A i \in DOMAIN workflows : workflows[i] \in Workflow
    /\ DOMAIN verdicts = DOMAIN workflows
    /\ \A i \in DOMAIN verdicts : verdicts[i] \in Seq(Verdict)
    /\ \A r \in Reviewers :
          desk[r] # None => desk[r] \in (DOMAIN workflows) \X Tasks
    /\ rerun \subseteq DOMAIN workflows

\* No output is released without the confidence or the human it needs:
\* completed means confident enough or approved, rejected means refused, and a
\* run is reported as a success only if its workflow is completed.
NoBypass ==
    \A i \in DOMAIN workflows :
        LET w == workflows[i] IN
        /\ w.state = "completed" => \/ w.context.confidence >= Threshold
                                    \/ w.context.approved = TRUE
        /\ w.state = "rejected" => w.context.approved = FALSE
        /\ w.success => w.state = "completed"

\* A workflow that was run once follows at most one decision: of several
\* reviewers the first one counts, the state and the context show that decision,
\* and it was made on the task the workflow was paused with.
FirstDecisionCounts ==
    \A i \in DOMAIN workflows \ rerun :
        LET w == workflows[i]
            v == verdicts[i]
        IN  v # <<>> => /\ Len(v) = 1
                        /\ w.state = IF v[1].ok THEN "completed" ELSE "rejected"
                        /\ w.context.approved = v[1].ok
                        /\ w.context.input = v[1].input
                        /\ w.context.task = v[1].seen

\* What any reviewer still looks at is what the workflow holds, unless it was
\* run again: no new workflow and no decision replaces what somebody reads.
DeskIsCurrent ==
    \A r \in Reviewers :
        desk[r] # None /\ desk[r][1] \notin rerun =>
            workflows[desk[r][1]].context.task = desk[r][2]

\* The trail is a path from the start to the present state: it has every
\* transition, in order.
TrailConnected(w) ==
    LET t == w.trail IN
    /\ t = <<>> => w.state = "input"
    /\ t # <<>> => t[1][1] = "input" /\ t[Len(t)][2] = w.state
    /\ \A k \in 2..Len(t) : t[k][1] = t[k - 1][2]

CompleteTrail == \A i \in DOMAIN workflows : TrailConnected(workflows[i])

\* A trail is only ever extended, and only another run adds to the trail of a
\* workflow that is decided.
TrailAppendOnly ==
    [][\A i \in DOMAIN workflows :
          LET old == workflows[i].trail
              new == workflows'[i].trail
          IN  /\ Len(old) <= Len(new) /\ SubSeq(new, 1, Len(old)) = old
              /\ \/ workflows[i].state \notin {"completed", "rejected"}
                 \/ i \in rerun'
                 \/ new = old
      ]_vars
=============================================================================
