------------------------- MODULE HITLServiceProofs -------------------------
(***************************************************************************)
(* No output bypasses its reviewer and of several decisions the first one  *)
(* counts, for any tasks, scores, threshold, reviewers and number of       *)
(* workflows.                                                              *)
(***************************************************************************)
EXTENDS HITLService, FiniteSetTheorems, SequenceTheorems, TLAPS

USE ScoresAssumption, BoundAssumption, NoneAssumption

-----------------------------------------------------------------------------
(* The methods of a workflow *)

\* A transition changes the state and extends the trail, and nothing else.
LEMMA TransitionFacts ==
    ASSUME NEW w \in Workflow, NEW s \in States
    PROVE  /\ TransitionTo(w, s) \in Workflow
           /\ TransitionTo(w, s).state = s
           /\ TransitionTo(w, s).context = w.context
           /\ TransitionTo(w, s).success = w.success
<1>1. w.state \in States /\ w.trail \in Seq(States \X States)
  BY DEF Workflow
<1>2. Append(w.trail, <<w.state, s>>) \in Seq(States \X States)
  BY <1>1
<1> QED
  BY <1>1, <1>2 DEF TransitionTo, Workflow

LEMMA StateNames ==
    {"input", "analyze", "paused", "validate", "resume", "completed",
     "rejected"} \subseteq States
  BY DEF States

\* analyze leaves a fresh context, and pauses exactly the insufficient scores.
LEMMA AnalyzeFacts ==
    ASSUME NEW w \in Workflow, NEW t \in Tasks, NEW c \in Scores
    PROVE  /\ Analyze(w, t, c) \in Workflow
           /\ Analyze(w, t, c).state =
                 IF Sufficient(c) THEN "completed" ELSE "paused"
           /\ Analyze(w, t, c).context = [task |-> t, confidence |-> c,
                                          approved |-> None, input |-> None]
           /\ Analyze(w, t, c).context \in Contexts
<1> DEFINE ctx == [task |-> t, confidence |-> c,
                   approved |-> None, input |-> None]
           fresh == [w EXCEPT !.context = ctx]
           seen == TransitionTo(fresh, "analyze")
           next == IF Sufficient(c) THEN "completed" ELSE "paused"
<1>1. ctx \in Contexts
  BY DEF Contexts
<1>2. fresh \in Workflow /\ fresh.context = ctx
  BY <1>1 DEF Workflow
<1> HIDE DEF ctx, fresh
<1>3. seen \in Workflow /\ seen.context = ctx
  BY <1>2, TransitionFacts, StateNames
<1>4. next \in States
  BY StateNames
<1> HIDE DEF seen, next
<1>5. /\ TransitionTo(seen, next) \in Workflow
      /\ TransitionTo(seen, next).state = next
      /\ TransitionTo(seen, next).context = ctx
  BY <1>3, <1>4, TransitionFacts
<1>6. Analyze(w, t, c) = TransitionTo(seen, next)
  BY DEF Analyze, seen, next, fresh, ctx
<1> QED
  BY <1>1, <1>5, <1>6 DEF next, ctx

\* provide_human_input notes the decision in the context and ends the workflow
\* the way it says.
LEMMA DecisionFacts ==
    ASSUME NEW w \in Workflow, w.context # None, NEW ok \in BOOLEAN,
           NEW x \in Texts \cup {None}
    PROVE  LET d == ProvideHumanInput(w, ok, x)
           IN  /\ d \in Workflow
               /\ d.state = IF ok THEN "completed" ELSE "rejected"
               /\ d.context \in Contexts
               /\ d.context.approved = ok
               /\ d.context.input = x
               /\ d.context.task = w.context.task
               /\ d.success = w.success
<1> DEFINE told == [w EXCEPT !.context.input = x, !.context.approved = ok]
           ctx == [w.context EXCEPT !.input = x, !.approved = ok]
           v == TransitionTo(told, "validate")
           r == TransitionTo(v, "resume")
<1>1. w.context \in Contexts
  BY DEF Workflow
<1>2. /\ ctx \in Contexts /\ ctx.approved = ok /\ ctx.input = x
      /\ ctx.task = w.context.task
  BY <1>1 DEF Contexts
<1>3. told = [w EXCEPT !.context = ctx]
  BY <1>1 DEF Workflow, Contexts
<1> HIDE DEF told
<1>4. told \in Workflow /\ told.context = ctx /\ told.success = w.success
  <2> HIDE DEF ctx
  <2> QED
    BY <1>2, <1>3 DEF Workflow
<1> HIDE DEF ctx
<1>5. v \in Workflow /\ v.context = ctx /\ v.success = w.success
  BY <1>4, TransitionFacts, StateNames
<1> HIDE DEF v
<1>6. r \in Workflow /\ r.context = ctx /\ r.success = w.success
  BY <1>5, TransitionFacts, StateNames
<1> HIDE DEF r
<1>7. ProvideHumanInput(w, ok, x) = IF ok THEN TransitionTo(r, "completed")
                                    ELSE TransitionTo(v, "rejected")
  BY DEF ProvideHumanInput, told, v, r
<1>8. CASE ok
  <2>1. /\ TransitionTo(r, "completed") \in Workflow
        /\ TransitionTo(r, "completed").state = "completed"
        /\ TransitionTo(r, "completed").context = ctx
        /\ TransitionTo(r, "completed").success = w.success
    BY <1>6, TransitionFacts, StateNames
  <2>2. ProvideHumanInput(w, ok, x) = TransitionTo(r, "completed")
    BY <1>7, <1>8
  <2> QED
    BY <1>2, <1>8, <2>1, <2>2, Zenon
<1>9. CASE ~ok
  <2>1. /\ TransitionTo(v, "rejected") \in Workflow
        /\ TransitionTo(v, "rejected").state = "rejected"
        /\ TransitionTo(v, "rejected").context = ctx
        /\ TransitionTo(v, "rejected").success = w.success
    BY <1>5, TransitionFacts, StateNames
  <2>2. ProvideHumanInput(w, ok, x) = TransitionTo(v, "rejected")
    BY <1>7, <1>9
  <2> QED
    BY <1>2, <1>9, <2>1, <2>2, Zenon
<1> QED
  BY <1>8, <1>9

\* What NoBypass says of one workflow; and a paused one has a context to show.
Sound(w) ==
    /\ w.state = "paused" => w.context \in Contexts
    /\ w.state = "completed" => \/ w.context.confidence >= Threshold
                                \/ w.context.approved = TRUE
    /\ w.state = "rejected" => w.context.approved = FALSE
    /\ w.success => w.state = "completed"

\* A run leaves a sound workflow, whatever state it found it in.
LEMMA RunFacts ==
    ASSUME NEW w \in Workflow, NEW t \in Tasks, NEW c \in Scores,
           NEW d \in BOOLEAN \cup {None}, NEW x \in Texts \cup {None}
    PROVE  Run(w, t, c, d, x) \in Workflow /\ Sound(Run(w, t, c, d, x))
<1> DEFINE analysed == Analyze(w, t, c)
           final == IF TakesInput(analysed) /\ d # None
                    THEN ProvideHumanInput(analysed, d, x) ELSE analysed
           fin == [final EXCEPT !.success = final.state = "completed"]
<1>1. /\ analysed \in Workflow
      /\ analysed.state = IF Sufficient(c) THEN "completed" ELSE "paused"
      /\ analysed.context.confidence = c
      /\ analysed.context \in Contexts
  <2>1. /\ analysed \in Workflow
        /\ analysed.state = IF Sufficient(c) THEN "completed" ELSE "paused"
        /\ analysed.context = [task |-> t, confidence |-> c,
                               approved |-> None, input |-> None]
        /\ analysed.context \in Contexts
    BY AnalyzeFacts, Zenon
  <2> HIDE DEF analysed
  <2> QED
    BY <2>1
<1>2. Run(w, t, c, d, x) = fin
  BY DEF Run
<1> HIDE DEF analysed
<1>3. /\ final \in Workflow
      /\ final.state = "completed" => \/ final.context.confidence >= Threshold
                                      \/ final.context.approved = TRUE
      /\ final.state = "rejected" => final.context.approved = FALSE
      /\ final.state = "paused" => final.context \in Contexts
  <2>1. CASE TakesInput(analysed) /\ d # None
    <3>1. analysed.context # None /\ d \in BOOLEAN
      BY <2>1 DEF TakesInput
    <3>2. LET f == ProvideHumanInput(analysed, d, x)
          IN  /\ f \in Workflow
              /\ f.state = IF d THEN "completed" ELSE "rejected"
              /\ f.context.approved = d
      BY <1>1, <3>1, DecisionFacts
    <3>3. final = ProvideHumanInput(analysed, d, x)
      BY <2>1
    <3> QED
      BY <3>1, <3>2, <3>3
  <2>2. CASE ~(TakesInput(analysed) /\ d # None)
    <3>1. final = analysed
      BY <2>2
    <3> HIDE DEF final
    <3>2. analysed.state # "rejected"
      BY <1>1
    <3>3. analysed.state = "completed" =>
             analysed.context.confidence >= Threshold
      BY <1>1 DEF Sufficient
    <3> QED
      BY <1>1, <3>1, <3>2, <3>3
  <2> QED
    BY <2>1, <2>2
<1> HIDE DEF final
<1>4. (final.state = "completed") \in BOOLEAN
  OBVIOUS
<1>5. /\ fin \in Workflow /\ fin.state = final.state
      /\ fin.context = final.context
      /\ fin.success = (final.state = "completed")
  BY <1>3, <1>4 DEF Workflow
<1> QED
  BY <1>2, <1>3, <1>5 DEF Sound

LEMMA NewWorkflowType == NewWorkflow \in Workflow
  BY StateNames DEF NewWorkflow, Workflow

-----------------------------------------------------------------------------
(* The registry *)

\* While the ids are 1..n the next one is new.
LEMMA NewIdFacts ==
    ASSUME NEW n \in Nat, DOMAIN workflows = 1..n
    PROVE  NewId = n + 1
<1>1. Cardinality(1..n) = n
  BY FS_Interval
<1> QED
  BY <1>1 DEF NewId

SoundInv == TypeOK /\ \A i \in DOMAIN workflows : Sound(workflows[i])

LEMMA InitSound == Init => SoundInv
<1> SUFFICES ASSUME Init PROVE SoundInv
  OBVIOUS
<1>1. DOMAIN workflows = 1..0 /\ DOMAIN verdicts = {} /\ DOMAIN workflows = {}
  BY DEF Init
<1>2. 0 \in 0..MaxWorkflows
  OBVIOUS
<1> QED
  BY <1>1, <1>2 DEF Init, SoundInv, TypeOK

\* Every step keeps the types and leaves every workflow sound.
LEMMA NextSound == SoundInv /\ [Next]_vars => SoundInv'
<1> SUFFICES ASSUME SoundInv, [Next]_vars PROVE SoundInv'
  OBVIOUS
<1>0. PICK n \in 0..MaxWorkflows : DOMAIN workflows = 1..n
  BY DEF SoundInv, TypeOK
<1>1. ASSUME NEW t \in Tasks, NEW c \in Scores, HitlAnalyze(t, c)
      PROVE  SoundInv'
  <2> DEFINE w == Run(NewWorkflow, t, c, None, None)
  <2>1. NewId = n + 1 /\ n + 1 \in 0..MaxWorkflows
    BY <1>0, <1>1, NewIdFacts DEF HitlAnalyze
  <2>2. w \in Workflow /\ Sound(w)
    BY NewWorkflowType, RunFacts
  <2> HIDE DEF w
  <2>3. workflows' = [i \in DOMAIN workflows \cup {NewId} |->
                         IF i = NewId THEN w ELSE workflows[i]]
    BY <1>1 DEF HitlAnalyze, w
  <2>4. DOMAIN workflows' = 1..(n + 1)
    BY <1>0, <2>1, <2>3
  <2>5. \A i \in DOMAIN workflows' :
           workflows'[i] \in Workflow /\ Sound(workflows'[i])
    BY <2>2, <2>3 DEF SoundInv, TypeOK
  <2>6. /\ DOMAIN verdicts' = DOMAIN workflows'
        /\ \A i \in DOMAIN verdicts' : verdicts'[i] \in Seq(Verdict)
    BY <1>1 DEF HitlAnalyze, SoundInv, TypeOK
  <2>7. \A r \in Reviewers :
           desk'[r] # None => desk'[r] \in (DOMAIN workflows') \X Tasks
    BY <1>0, <1>1, <2>4 DEF HitlAnalyze, SoundInv, TypeOK
  <2>8. rerun' \subseteq DOMAIN workflows'
    BY <1>0, <1>1, <2>4 DEF HitlAnalyze, SoundInv, TypeOK
  <2> QED
    BY <2>1, <2>4, <2>5, <2>6, <2>7, <2>8 DEF SoundInv, TypeOK
<1>2. ASSUME NEW r \in Reviewers, NEW i \in DOMAIN workflows, Look(r, i)
      PROVE  SoundInv'
  <2>1. workflows[i] \in Workflow /\ workflows[i].state = "paused"
    BY <1>2 DEF Look, SoundInv, TypeOK
  <2>2. UNCHANGED <<workflows, verdicts, rerun>>
    BY <1>2 DEF Look
  <2>3. \A q \in Reviewers :
           desk'[q] # None => desk'[q] \in (DOMAIN workflows') \X Tasks
    <3>1. workflows[i].context.task \in Tasks
      BY <2>1 DEF SoundInv, Sound, Contexts
    <3>2. desk' = [desk EXCEPT ![r] = <<i, workflows[i].context.task>>]
      BY <1>2 DEF Look
    <3> QED
      BY <2>2, <3>1, <3>2 DEF SoundInv, TypeOK
  <2> QED
    BY <2>2, <2>3 DEF SoundInv, TypeOK
<1>3. ASSUME NEW r \in Reviewers, NEW ok \in BOOLEAN,
             NEW x \in Texts \cup {None}, HitlInput(r, ok, x)
      PROVE  SoundInv'
  <2> DEFINE i == desk[r][1]
  <2>1. /\ desk[r] \in (DOMAIN workflows) \X Tasks
        /\ i \in DOMAIN workflows /\ desk[r][2] \in Tasks
        /\ workflows[i] \in Workflow
    BY <1>3 DEF HitlInput, SoundInv, TypeOK
  <2> HIDE DEF i
  <2>2. CASE TakesInput(workflows[i])
    <3> DEFINE w == ProvideHumanInput(workflows[i], ok, x)
               v == [ok |-> ok, input |-> x, seen |-> desk[r][2]]
    <3>1. /\ workflows' = [workflows EXCEPT ![i] = w]
          /\ verdicts' = [verdicts EXCEPT ![i] = Append(@, v)]
          /\ desk' = [desk EXCEPT ![r] = None]
          /\ rerun' = rerun
      BY <1>3, <2>2 DEF HitlInput, i
    <3>2. workflows[i].context # None /\ workflows[i].state = "paused"
      BY <2>2 DEF TakesInput
    <3>3. v \in Verdict
      BY <2>1 DEF Verdict
    <3> HIDE DEF v
    <3>4. /\ w \in Workflow /\ w.context.approved = ok
          /\ w.state = IF ok THEN "completed" ELSE "rejected"
          /\ w.success = workflows[i].success
      BY <2>1, <3>2, DecisionFacts
    <3> HIDE DEF w
    <3>5. Sound(w)
      <4>1. workflows[i].success = FALSE
        BY <2>1, <3>2 DEF SoundInv, Sound, Workflow
      <4> QED
        BY <3>4, <4>1 DEF Sound
    <3>6. /\ DOMAIN workflows' = DOMAIN workflows
          /\ \A j \in DOMAIN workflows' :
                workflows'[j] \in Workflow /\ Sound(workflows'[j])
      BY <3>1, <3>4, <3>5 DEF SoundInv, TypeOK
    <3>7. /\ DOMAIN verdicts' = DOMAIN workflows'
          /\ \A j \in DOMAIN verdicts' : verdicts'[j] \in Seq(Verdict)
      BY <2>1, <3>1, <3>3, <3>6 DEF SoundInv, TypeOK
    <3>8. \A q \in Reviewers :
             desk'[q] # None => desk'[q] \in (DOMAIN workflows') \X Tasks
      BY <3>1, <3>6 DEF SoundInv, TypeOK
    <3> QED
      BY <1>0, <3>1, <3>6, <3>7, <3>8 DEF SoundInv, TypeOK
  <2>3. CASE ~TakesInput(workflows[i])
    <3>1. /\ UNCHANGED <<workflows, verdicts, rerun>>
          /\ desk' = [desk EXCEPT ![r] = None]
      BY <1>3, <2>3 DEF HitlInput, i
    <3>2. \A q \in Reviewers : desk'[q] # None => desk'[q] = desk[q]
      BY <3>1
    <3> QED
      BY <3>1, <3>2 DEF SoundInv, TypeOK
  <2> QED
    BY <2>2, <2>3
<1>4. ASSUME NEW i \in DOMAIN workflows, NEW t \in Tasks, NEW c \in Scores,
             NEW d \in BOOLEAN \cup {None}, NEW x \in Texts \cup {None},
             Rerun(i, t, c, d, x)
      PROVE  SoundInv'
  <2> DEFINE w == Run(workflows[i], t, c, d, x)
  <2>1. w \in Workflow /\ Sound(w)
    BY RunFacts DEF SoundInv, TypeOK
  <2> HIDE DEF w
  <2>2. /\ workflows' = [workflows EXCEPT ![i] = w]
        /\ desk' = desk /\ verdicts' = verdicts
        /\ rerun' = rerun \cup {i}
    BY <1>4 DEF Rerun, w
  <2>3. /\ DOMAIN workflows' = DOMAIN workflows
        /\ \A j \in DOMAIN workflows' :
              workflows'[j] \in Workflow /\ Sound(workflows'[j])
    BY <2>1, <2>2 DEF SoundInv, TypeOK
  <2> QED
    BY <1>0, <2>2, <2>3 DEF SoundInv, TypeOK
<1>5. CASE UNCHANGED vars
  BY <1>5 DEF vars, SoundInv, TypeOK
<1> QED
  BY <1>1, <1>2, <1>3, <1>4, <1>5 DEF Next

\* The service always keeps its types.
THEOREM TypeCorrect == Spec => []TypeOK
<1>1. SoundInv => TypeOK
  BY DEF SoundInv
<1> QED
  BY <1>1, InitSound, NextSound, PTL DEF Spec

\* No output is released without the confidence or the human it needs, also
\* when workflows are run again.
THEOREM NeverBypassed == Spec => []NoBypass
<1>1. SoundInv => NoBypass
  BY DEF SoundInv, NoBypass, Sound
<1> QED
  BY <1>1, InitSound, NextSound, PTL DEF Spec
-----------------------------------------------------------------------------
(* The first decision counts *)

ReviewInv == SoundInv /\ DeskIsCurrent /\ FirstDecisionCounts

\* Every reviewer of a workflow that is not run again decides on what it holds,
\* and no second decision is taken on it.
LEMMA NextReview == ReviewInv /\ [Next]_vars => ReviewInv'
<1> SUFFICES ASSUME ReviewInv, [Next]_vars PROVE ReviewInv'
  OBVIOUS
<1>0. TypeOK /\ SoundInv /\ SoundInv'
  BY NextSound DEF ReviewInv, SoundInv
<1> USE DEF DeskIsCurrent, FirstDecisionCounts
<1>1. ASSUME NEW t \in Tasks, NEW c \in Scores, HitlAnalyze(t, c)
      PROVE  DeskIsCurrent' /\ FirstDecisionCounts'
  <2> DEFINE w == Run(NewWorkflow, t, c, None, None)
  <2>0. PICK n \in 0..MaxWorkflows : DOMAIN workflows = 1..n
    BY <1>0 DEF TypeOK
  <2>1. NewId = n + 1 /\ NewId \notin DOMAIN workflows
    BY <2>0, NewIdFacts
  <2> HIDE DEF w
  <2>2. /\ workflows' = [i \in DOMAIN workflows \cup {NewId} |->
                            IF i = NewId THEN w ELSE workflows[i]]
        /\ verdicts' = [i \in DOMAIN workflows' |->
                            IF i \in DOMAIN verdicts THEN verdicts[i] ELSE <<>>]
        /\ desk' = desk
    BY <1>1 DEF HitlAnalyze, w
  <2>3. DOMAIN verdicts = DOMAIN workflows
    BY <1>0 DEF TypeOK
  <2>4. \A i \in DOMAIN workflows : /\ i \in DOMAIN workflows'
                                    /\ workflows'[i] = workflows[i]
                                    /\ verdicts'[i] = verdicts[i]
    BY <2>1, <2>2, <2>3
  <2>5. rerun' = rerun
    BY <1>1 DEF HitlAnalyze
  <2>6. DeskIsCurrent'
    <3>1. \A r \in Reviewers : desk[r] # None => desk[r][1] \in DOMAIN workflows
      BY <1>0 DEF TypeOK
    <3> QED
      BY <2>2, <2>4, <2>5, <3>1 DEF ReviewInv
  <2>7. \A i \in DOMAIN workflows' :
           i \in DOMAIN workflows \/ verdicts'[i] = <<>>
    BY <2>2, <2>3
  <2>8. FirstDecisionCounts'
    BY <2>4, <2>7, <2>5 DEF ReviewInv
  <2> QED
    BY <2>6, <2>8
<1>2. ASSUME NEW r \in Reviewers, NEW i \in DOMAIN workflows, Look(r, i)
      PROVE  DeskIsCurrent' /\ FirstDecisionCounts'
  <2>1. /\ UNCHANGED <<workflows, verdicts, rerun>>
        /\ desk' = [desk EXCEPT ![r] = <<i, workflows[i].context.task>>]
    BY <1>2 DEF Look
  <2>2. \A q \in Reviewers : \/ desk'[q] = desk[q]
                             \/ desk'[q] = <<i, workflows[i].context.task>>
    BY <2>1
  <2> QED
    BY <2>1, <2>2 DEF ReviewInv
<1>3. ASSUME NEW r \in Reviewers, NEW ok \in BOOLEAN,
             NEW x \in Texts \cup {None}, HitlInput(r, ok, x)
      PROVE  DeskIsCurrent' /\ FirstDecisionCounts'
  <2> DEFINE i == desk[r][1]
  <2>1. /\ i \in DOMAIN workflows /\ workflows[i] \in Workflow
        /\ i \notin rerun => workflows[i].context.task = desk[r][2]
        /\ DOMAIN verdicts = DOMAIN workflows
        /\ verdicts[i] \in Seq(Verdict)
    BY <1>0, <1>3 DEF HitlInput, TypeOK, ReviewInv
  <2>2. /\ \A q \in Reviewers : desk'[q] # None => desk'[q] = desk[q]
        /\ rerun' = rerun
    BY <1>3 DEF HitlInput
  <2> HIDE DEF i
  <2>3. CASE TakesInput(workflows[i])
    <3> DEFINE w == ProvideHumanInput(workflows[i], ok, x)
               v == [ok |-> ok, input |-> x, seen |-> desk[r][2]]
    <3>1. /\ workflows' = [workflows EXCEPT ![i] = w]
          /\ verdicts' = [verdicts EXCEPT ![i] = Append(@, v)]
      BY <1>3, <2>3 DEF HitlInput, i
    <3>2. workflows[i].context # None /\ workflows[i].state = "paused"
      BY <2>3 DEF TakesInput
    <3>3. /\ w.state = IF ok THEN "completed" ELSE "rejected"
          /\ w.context.approved = ok
          /\ w.context.input = x
          /\ w.context.task = workflows[i].context.task
      BY <2>1, <3>2, DecisionFacts
    <3> HIDE DEF w
    <3>4. i \notin rerun => verdicts[i] = <<>>
      BY <2>1, <3>2 DEF ReviewInv
    <3>5. i \notin rerun => verdicts'[i] = <<v>>
      BY <2>1, <3>1, <3>4
    <3>6. v.ok = ok /\ v.input = x /\ v.seen = desk[r][2]
      OBVIOUS
    <3> HIDE DEF v
    <3>7. \A j \in DOMAIN workflows :
             /\ j = i => workflows'[j] = w
             /\ j = i /\ j \notin rerun => verdicts'[j] = <<v>>
             /\ j # i => /\ workflows'[j] = workflows[j]
                         /\ verdicts'[j] = verdicts[j]
      BY <2>1, <3>1, <3>5
    <3>8. DOMAIN workflows' = DOMAIN workflows
      BY <3>1
    <3>9. DeskIsCurrent'
      <4>1. \A q \in Reviewers :
               desk[q] # None => desk[q][1] \in DOMAIN workflows
        BY <1>0 DEF TypeOK
      <4> QED
        BY <2>2, <3>3, <3>7, <4>1 DEF ReviewInv
    <3>10. FirstDecisionCounts'
      <4> SUFFICES ASSUME NEW j \in DOMAIN workflows \ rerun,
                          verdicts'[j] # <<>>
                   PROVE  /\ Len(verdicts'[j]) = 1
                          /\ workflows'[j].state = IF verdicts'[j][1].ok
                                            THEN "completed" ELSE "rejected"
                          /\ workflows'[j].context.approved = verdicts'[j][1].ok
                          /\ workflows'[j].context.input = verdicts'[j][1].input
                          /\ workflows'[j].context.task = verdicts'[j][1].seen
        BY <2>2, <3>8
      <4>1. CASE j = i
        <5>1. Len(<<v>>) = 1 /\ <<v>>[1] = v
          OBVIOUS
        <5> QED
          BY <2>1, <3>3, <3>6, <3>7, <4>1, <5>1
      <4>2. CASE j # i
        BY <3>7, <4>2 DEF ReviewInv
      <4> QED
        BY <4>1, <4>2
    <3> QED
      BY <3>9, <3>10
  <2>4. CASE ~TakesInput(workflows[i])
    <3>1. UNCHANGED <<workflows, verdicts, rerun>>
      BY <1>3, <2>4 DEF HitlInput, i
    <3> QED
      BY <2>2, <3>1 DEF ReviewInv
  <2> QED
    BY <2>3, <2>4
<1>4. ASSUME UNCHANGED vars
      PROVE  DeskIsCurrent' /\ FirstDecisionCounts'
  BY <1>4 DEF vars, ReviewInv
<1>5. ASSUME NEW i \in DOMAIN workflows, NEW t \in Tasks, NEW c \in Scores,
             NEW d \in BOOLEAN \cup {None}, NEW x \in Texts \cup {None},
             Rerun(i, t, c, d, x)
      PROVE  DeskIsCurrent' /\ FirstDecisionCounts'
  <2>1. /\ desk' = desk /\ verdicts' = verdicts
        /\ rerun' = rerun \cup {i}
    BY <1>5 DEF Rerun
  <2>2. /\ DOMAIN workflows' = DOMAIN workflows
        /\ \A j \in DOMAIN workflows \ {i} : workflows'[j] = workflows[j]
    BY <1>5 DEF Rerun
  <2>3. \A r \in Reviewers : desk[r] # None => desk[r][1] \in DOMAIN workflows
    BY <1>0 DEF TypeOK
  <2> QED
    BY <2>1, <2>2, <2>3 DEF ReviewInv
<1> QED
  BY <1>0, <1>1, <1>2, <1>3, <1>4, <1>5 DEF Next, ReviewInv

LEMMA InitReview == Init => ReviewInv
<1> SUFFICES ASSUME Init PROVE DeskIsCurrent /\ FirstDecisionCounts
  BY InitSound DEF ReviewInv
<1>1. DOMAIN workflows = {} /\ \A r \in Reviewers : desk[r] = None
  BY DEF Init
<1> QED
  BY <1>1 DEF DeskIsCurrent, FirstDecisionCounts

\* Of several decisions on a workflow that was run once exactly the first one
\* is taken, it is the one the workflow shows, and it was made on the task the
\* workflow holds.
THEOREM FirstDecision == Spec => []FirstDecisionCounts
<1>1. ReviewInv => FirstDecisionCounts
  BY DEF ReviewInv
<1> QED
  BY <1>1, InitReview, NextReview, PTL DEF Spec

\* What a reviewer looks at is what the workflow still holds, unless it was
\* run again.
THEOREM DesksCurrent == Spec => []DeskIsCurrent
<1>1. ReviewInv => DeskIsCurrent
  BY DEF ReviewInv
<1> QED
  BY <1>1, InitReview, NextReview, PTL DEF Spec
-----------------------------------------------------------------------------
(* The audit trail *)

\* v is what some transitions make of w: the trail of w is the beginning of
\* the trail of v, and a path from the start stays one.
Continues(v, w) ==
    /\ Len(w.trail) <= Len(v.trail)
    /\ \A k \in 1..Len(w.trail) : v.trail[k] = w.trail[k]
    /\ TrailConnected(w) => TrailConnected(v)

LEMMA ContinuesTransitive ==
    ASSUME NEW u \in Workflow, NEW v \in Workflow, NEW w \in Workflow,
           Continues(v, u), Continues(w, v)
    PROVE  Continues(w, u)
<1>1. /\ Len(u.trail) \in Nat /\ Len(v.trail) \in Nat /\ Len(w.trail) \in Nat
  BY DEF Workflow
<1> QED
  BY <1>1 DEF Continues

\* What leaves the state and the trail alone continues the workflow.
LEMMA ContextContinues ==
    ASSUME NEW w \in Workflow, NEW v \in Workflow,
           v.state = w.state, v.trail = w.trail
    PROVE  Continues(v, w)
<1>1. Len(w.trail) \in Nat
  BY DEF Workflow
<1> QED
  BY <1>1 DEF Continues, TrailConnected

\* A transition adds an edge at the end of the path.
LEMMA TransitionContinues ==
    ASSUME NEW w \in Workflow, NEW s \in States
    PROVE  Continues(TransitionTo(w, s), w)
<1> DEFINE t == w.trail
           v == TransitionTo(w, s)
           n == Len(w.trail)
<1>1. w.state \in States /\ t \in Seq(States \X States) /\ n \in Nat
  BY DEF Workflow
<1>2. v.trail = Append(t, <<w.state, s>>) /\ v.state = s
  BY DEF TransitionTo, Workflow
<1>3. /\ Len(v.trail) = n + 1
      /\ \A k \in 1..n : v.trail[k] = t[k]
      /\ v.trail[n + 1] = <<w.state, s>>
  BY <1>1, <1>2
<1> HIDE DEF v
<1>4. ASSUME TrailConnected(w) PROVE TrailConnected(v)
  <2>1. /\ t = <<>> => w.state = "input"
        /\ t # <<>> => t[1][1] = "input" /\ t[n][2] = w.state
        /\ \A k \in 2..n : t[k][1] = t[k - 1][2]
    BY <1>4 DEF TrailConnected
  <2>2. t = <<>> <=> n = 0
    BY <1>1
  <2> HIDE DEF t, n
  <2>3. v.trail # <<>>
    BY <1>1, <1>3
  <2>4. v.trail[1][1] = "input"
    BY <1>1, <1>3, <2>1, <2>2
  <2>5. v.trail[n + 1][2] = v.state
    BY <1>2, <1>3
  <2>6. ASSUME NEW k \in 2..(n + 1) PROVE v.trail[k][1] = v.trail[k - 1][2]
    <3>1. CASE k = n + 1
      <4>1. n \in 1..n /\ n # 0 /\ k - 1 = n
        BY <1>1, <2>6, <3>1
      <4>2. v.trail[n][2] = w.state
        BY <1>3, <2>1, <2>2, <4>1
      <4> QED
        BY <1>3, <3>1, <4>1, <4>2
    <3>2. CASE k # n + 1
      <4>1. k \in 2..n /\ k \in 1..n /\ k - 1 \in 1..n
        BY <1>1, <2>6, <3>2
      <4> QED
        BY <1>3, <2>1, <4>1
    <3> QED
      BY <3>1, <3>2
  <2> QED
    BY <1>3, <2>3, <2>4, <2>5, <2>6 DEF TrailConnected
<1> QED
  BY <1>1, <1>3, <1>4 DEF Continues, v

LEMMA AnalyzeContinues ==
    ASSUME NEW w \in Workflow, NEW t \in Tasks, NEW c \in Scores
    PROVE  Continues(Analyze(w, t, c), w)
<1> DEFINE ctx == [task |-> t, confidence |-> c,
                   approved |-> None, input |-> None]
           fresh == [w EXCEPT !.context = ctx]
           seen == TransitionTo(fresh, "analyze")
           next == IF Sufficient(c) THEN "completed" ELSE "paused"
<1>1. ctx \in Contexts
  BY DEF Contexts
<1>2. fresh \in Workflow /\ fresh.state = w.state /\ fresh.trail = w.trail
  BY <1>1 DEF Workflow
<1>3. Analyze(w, t, c) = TransitionTo(seen, next)
  BY DEF Analyze
<1> HIDE DEF fresh
<1>4. seen \in Workflow
  BY <1>2, TransitionFacts, StateNames
<1>5. next \in States
  BY StateNames
<1>6. Continues(fresh, w)
  BY <1>2, ContextContinues
<1>7. Continues(seen, fresh)
  BY <1>2, TransitionContinues, StateNames
<1> HIDE DEF seen, next
<1>8. TransitionTo(seen, next) \in Workflow
  BY <1>4, <1>5, TransitionFacts
<1>9. Continues(TransitionTo(seen, next), seen)
  BY <1>4, <1>5, TransitionContinues
<1>10. Continues(seen, w)
  BY <1>2, <1>4, <1>6, <1>7, ContinuesTransitive
<1> QED
  BY <1>3, <1>4, <1>8, <1>9, <1>10, ContinuesTransitive

LEMMA DecisionContinues ==
    ASSUME NEW w \in Workflow, w.context # None, NEW ok \in BOOLEAN,
           NEW x \in Texts \cup {None}
    PROVE  Continues(ProvideHumanInput(w, ok, x), w)
<1> DEFINE told == [w EXCEPT !.context.input = x, !.context.approved = ok]
           ctx == [w.context EXCEPT !.input = x, !.approved = ok]
           v == TransitionTo(told, "validate")
           r == TransitionTo(v, "resume")
           done == TransitionTo(r, "completed")
           refused == TransitionTo(v, "rejected")
<1>1. w.context \in Contexts
  BY DEF Workflow
<1>2. ctx \in Contexts
  BY <1>1 DEF Contexts
<1>3. told = [w EXCEPT !.context = ctx]
  BY <1>1 DEF Workflow, Contexts
<1>4. told \in Workflow /\ told.state = w.state /\ told.trail = w.trail
  <2> HIDE DEF ctx, told
  <2> QED
    BY <1>2, <1>3 DEF Workflow
<1>5. ProvideHumanInput(w, ok, x) = IF ok THEN done ELSE refused
  BY DEF ProvideHumanInput
<1> HIDE DEF told
<1>6. Continues(told, w)
  BY <1>4, ContextContinues
<1>7. v \in Workflow /\ Continues(v, told)
  BY <1>4, TransitionFacts, TransitionContinues, StateNames
<1>8. Continues(v, w)
  BY <1>4, <1>6, <1>7, ContinuesTransitive
<1> HIDE DEF v
<1>9. r \in Workflow /\ Continues(r, v)
  BY <1>7, TransitionFacts, TransitionContinues, StateNames
<1>10. refused \in Workflow /\ Continues(refused, v)
  BY <1>7, TransitionFacts, TransitionContinues, StateNames
<1>11. Continues(r, w)
  BY <1>7, <1>8, <1>9, ContinuesTransitive
<1> HIDE DEF r
<1>12. done \in Workflow /\ Continues(done, r)
  BY <1>9, TransitionFacts, TransitionContinues, StateNames
<1> HIDE DEF done, refused
<1>13. Continues(done, w) /\ Continues(refused, w)
  BY <1>7, <1>8, <1>9, <1>10, <1>11, <1>12, ContinuesTransitive
<1> QED
  BY <1>5, <1>13

\* run starts with an analysis and decides only on what that paused.
LEMMA RunContinues ==
    ASSUME NEW w \in Workflow, NEW t \in Tasks, NEW c \in Scores,
           NEW d \in BOOLEAN \cup {None}, NEW x \in Texts \cup {None}
    PROVE  Continues(Run(w, t, c, d, x), w)
<1> DEFINE analysed == Analyze(w, t, c)
           final == IF TakesInput(analysed) /\ d # None
                    THEN ProvideHumanInput(analysed, d, x)
                    ELSE analysed
           fin == [final EXCEPT !.success = final.state = "completed"]
<1>1. Run(w, t, c, d, x) = fin
  BY DEF Run
<1>2. analysed \in Workflow /\ Continues(analysed, w)
  BY AnalyzeFacts, AnalyzeContinues
<1> HIDE DEF analysed
<1>3. final \in Workflow /\ Continues(final, w)
  <2>1. CASE TakesInput(analysed) /\ d # None
    <3>1. analysed.context # None /\ d \in BOOLEAN
      BY <2>1 DEF TakesInput
    <3>2. ProvideHumanInput(analysed, d, x) \in Workflow
      BY <1>2, <3>1, DecisionFacts
    <3>3. Continues(ProvideHumanInput(analysed, d, x), analysed)
      BY <1>2, <3>1, DecisionContinues
    <3>4. Continues(ProvideHumanInput(analysed, d, x), w)
      BY <1>2, <3>2, <3>3, ContinuesTransitive
    <3> QED
      BY <2>1, <3>2, <3>4
  <2>2. CASE ~(TakesInput(analysed) /\ d # None)
    BY <1>2, <2>2
  <2> QED
    BY <2>1, <2>2
<1> HIDE DEF final
<1>4. (final.state = "completed") \in BOOLEAN
  OBVIOUS
<1>5. fin \in Workflow /\ fin.state = final.state /\ fin.trail = final.trail
  BY <1>3, <1>4 DEF Workflow
<1> HIDE DEF fin
<1>6. Continues(fin, final)
  BY <1>3, <1>5, ContextContinues
<1> QED
  BY <1>1, <1>3, <1>5, <1>6, ContinuesTransitive

\* What one step does to the workflows there are, and what it adds: the trails
\* are continued, and one that belongs to a decided workflow grows only if the
\* workflow is run again.
StepContinues ==
    /\ \A i \in DOMAIN workflows :
          /\ i \in DOMAIN workflows' /\ Continues(workflows'[i], workflows[i])
          /\ \/ workflows[i].state \notin {"completed", "rejected"}
             \/ i \in rerun'
             \/ workflows'[i].trail = workflows[i].trail
    /\ \A i \in DOMAIN workflows' \ DOMAIN workflows :
          TrailConnected(workflows'[i])

LEMMA NextContinues == SoundInv /\ [Next]_vars => StepContinues
<1> SUFFICES ASSUME SoundInv, [Next]_vars PROVE StepContinues
  OBVIOUS
<1>0. /\ \A i \in DOMAIN workflows : /\ workflows[i] \in Workflow
                                     /\ Continues(workflows[i], workflows[i])
      /\ \A r \in Reviewers :
            desk[r] # None => desk[r] \in (DOMAIN workflows) \X Tasks
  BY ContextContinues DEF SoundInv, TypeOK
<1>1. ASSUME NEW t \in Tasks, NEW c \in Scores, HitlAnalyze(t, c)
      PROVE  StepContinues
  <2> DEFINE w == Run(NewWorkflow, t, c, None, None)
  <2>1. PICK n \in 0..MaxWorkflows : DOMAIN workflows = 1..n
    BY DEF SoundInv, TypeOK
  <2>2. NewId \notin DOMAIN workflows
    BY <2>1, NewIdFacts
  <2>3. TrailConnected(NewWorkflow)
    BY DEF TrailConnected, NewWorkflow
  <2>4. TrailConnected(w)
    BY <2>3, NewWorkflowType, RunContinues DEF Continues
  <2> HIDE DEF w
  <2>5. workflows' = [i \in DOMAIN workflows \cup {NewId} |->
                         IF i = NewId THEN w ELSE workflows[i]]
    BY <1>1 DEF HitlAnalyze, w
  <2>6. /\ \A i \in DOMAIN workflows : /\ i \in DOMAIN workflows'
                                       /\ workflows'[i] = workflows[i]
        /\ \A i \in DOMAIN workflows' \ DOMAIN workflows : workflows'[i] = w
    BY <2>2, <2>5
  <2> QED
    BY <1>0, <2>4, <2>6 DEF StepContinues
<1>2. ASSUME NEW r \in Reviewers, NEW i \in DOMAIN workflows, Look(r, i)
      PROVE  StepContinues
  BY <1>0, <1>2 DEF Look, StepContinues
<1>3. ASSUME NEW r \in Reviewers, NEW ok \in BOOLEAN,
             NEW x \in Texts \cup {None}, HitlInput(r, ok, x)
      PROVE  StepContinues
  <2> DEFINE i == desk[r][1]
  <2>1. i \in DOMAIN workflows /\ workflows[i] \in Workflow
    BY <1>0, <1>3 DEF HitlInput
  <2> HIDE DEF i
  <2>2. CASE TakesInput(workflows[i])
    <3> DEFINE w == ProvideHumanInput(workflows[i], ok, x)
    <3>1. workflows' = [workflows EXCEPT ![i] = w]
      BY <1>3, <2>2 DEF HitlInput, i
    <3>2. Continues(w, workflows[i]) /\ workflows[i].state = "paused"
      BY <2>1, <2>2, DecisionContinues DEF TakesInput
    <3> HIDE DEF w
    <3>3. /\ DOMAIN workflows' = DOMAIN workflows
          /\ workflows'[i] = w
          /\ \A j \in DOMAIN workflows : j # i => workflows'[j] = workflows[j]
      BY <2>1, <3>1
    <3> QED
      BY <1>0, <3>2, <3>3 DEF StepContinues
  <2>3. CASE ~TakesInput(workflows[i])
    <3>1. workflows' = workflows
      BY <1>3, <2>3 DEF HitlInput, i
    <3> QED
      BY <1>0, <3>1 DEF StepContinues
  <2> QED
    BY <2>2, <2>3
<1>4. ASSUME NEW i \in DOMAIN workflows, NEW t \in Tasks, NEW c \in Scores,
             NEW d \in BOOLEAN \cup {None}, NEW x \in Texts \cup {None},
             Rerun(i, t, c, d, x)
      PROVE  StepContinues
  <2> DEFINE w == Run(workflows[i], t, c, d, x)
  <2>1. Continues(w, workflows[i])
    BY <1>0, RunContinues
  <2>2. workflows' = [workflows EXCEPT ![i] = w] /\ i \in rerun'
    BY <1>4 DEF Rerun
  <2> HIDE DEF w
  <2>3. /\ DOMAIN workflows' = DOMAIN workflows
        /\ workflows'[i] = w
        /\ \A j \in DOMAIN workflows : j # i => workflows'[j] = workflows[j]
    BY <2>2
  <2> QED
    BY <1>0, <2>1, <2>2, <2>3 DEF StepContinues
<1>5. CASE UNCHANGED vars
  BY <1>0, <1>5 DEF vars, StepContinues
<1> QED
  BY <1>1, <1>2, <1>3, <1>4, <1>5 DEF Next

\* The trail of every workflow is a gapless path from the start to its present
\* state, through decisions, refusals and reruns.
THEOREM TrailsComplete == Spec => []CompleteTrail
<1>1. Init => CompleteTrail
  BY DEF Init, CompleteTrail
<1>2. SoundInv /\ CompleteTrail /\ [Next]_vars => CompleteTrail'
  <2> SUFFICES ASSUME SoundInv, CompleteTrail, [Next]_vars
               PROVE  CompleteTrail'
    OBVIOUS
  <2>1. StepContinues
    BY NextContinues
  <2> QED
    BY <2>1 DEF StepContinues, CompleteTrail, Continues
<1> QED
  BY <1>1, <1>2, InitSound, NextSound, PTL DEF Spec

\* No step shortens or rewrites a trail, and the trail of a decided workflow is
\* left alone by everything but another run of it.
THEOREM TrailsOnlyGrow == Spec => TrailAppendOnly
<1>1. SoundInv /\ [Next]_vars =>
         [\A i \in DOMAIN workflows :
             LET old == workflows[i].trail
                 new == workflows'[i].trail
             IN  /\ Len(old) <= Len(new) /\ SubSeq(new, 1, Len(old)) = old
                 /\ \/ workflows[i].state \notin {"completed", "rejected"}
                    \/ i \in rerun'
                    \/ new = old]_vars
  <2> SUFFICES ASSUME SoundInv, [Next]_vars, NEW i \in DOMAIN workflows
               PROVE  LET old == workflows[i].trail
                          new == workflows'[i].trail
                      IN  /\ Len(old) <= Len(new)
                          /\ SubSeq(new, 1, Len(old)) = old
                          /\ \/ workflows[i].state
                                    \notin {"completed", "rejected"}
                             \/ i \in rerun'
                             \/ new = old
    OBVIOUS
  <2> DEFINE old == workflows[i].trail
             new == workflows'[i].trail
  <2>1. StepContinues /\ SoundInv'
    BY NextContinues, NextSound
  <2>2. i \in DOMAIN workflows' /\ Continues(workflows'[i], workflows[i])
    BY <2>1 DEF StepContinues
  <2>3. old \in Seq(States \X States) /\ new \in Seq(States \X States)
    BY <2>1, <2>2 DEF SoundInv, TypeOK, Workflow
  <2>4. Len(old) <= Len(new) /\ \A k \in 1..Len(old) : new[k] = old[k]
    BY <2>2 DEF Continues
  <2>5. \/ workflows[i].state \notin {"completed", "rejected"}
        \/ i \in rerun'
        \/ new = old
    BY <2>1 DEF StepContinues
  <2> HIDE DEF old, new
  <2>6. SubSeq(new, 1, Len(old)) = old
    <3>1. /\ SubSeq(new, 1, Len(old)) \in Seq(States \X States)
          /\ Len(SubSeq(new, 1, Len(old))) = Len(old)
          /\ \A k \in 1..Len(old) : SubSeq(new, 1, Len(old))[k] = new[k]
      BY <2>3, <2>4
    <3> QED
      BY <2>3, <2>4, <3>1, SeqEqual
  <2> QED
    BY <2>4, <2>5, <2>6 DEF old, new
<1> QED
  BY <1>1, InitSound, NextSound, PTL DEF Spec, TrailAppendOnly
=============================================================================
