-------------------------- MODULE ToolAccessProofs --------------------------
(***************************************************************************)
(* What ToolAccess guarantees for every set of tools, calls and roles.     *)
(***************************************************************************)
EXTENDS ToolAccess, TLAPS

USE ToolsAssumption, NoneAssumption

-----------------------------------------------------------------------------
(* The invariant *)

\* What is known of a call at each of its places: the role of one that reads
\* its body was found sufficient for the endpoint, one that starts later has no
\* role, and a tool was started by those that run it or report its outcome.
CallOK(c) ==
    /\ pc[c] = "idle" => role[c] = None /\ started[c] = None
    /\ pc[c] = "queued" => role[c] = None /\ started[c] = None
    /\ pc[c] = "reading" => Rank(role[c]) >= 1 /\ started[c] = None
    /\ pc[c] = "running" => started[c] # None
    /\ pc[c] = "done" =>
          /\ result[c] = "success" => started[c] # None
          /\ started[c] # None => result[c] \in {"success", "failure"}

AccessInv == ToolTypeOK /\ (\A c \in Calls : CallOK(c)) /\ RunsWhatWasChecked

\* The endpoint's own check admits the roles operator and admin.
LEMMA OperatorRank ==
    ASSUME NEW r, IsAuthorized(r, "operator")
    PROVE  Rank(r) >= 1
  BY DEF IsAuthorized, Needed, Rank

\* Nothing is known to run at the start.
LEMMA InitInv == ToolInit => AccessInv
  BY DEF ToolInit, AccessInv, ToolTypeOK, CallOK, RunsWhatWasChecked

\* An answer given without a tool that ran leaves a call as it has to be.
LEMMA AnswerInv ==
    ASSUME AccessInv, NEW c \in Calls, NEW res \in Results,
           Answer(c, res), UNCHANGED <<tools, role, target, started>>,
           res = "success" => started[c] # None,
           started[c] # None => res \in {"success", "failure"}
    PROVE  AccessInv'
<1>1. ToolTypeOK'
  BY DEF AccessInv, ToolTypeOK, Answer
<1>2. \A d \in Calls : CallOK(d)'
  BY DEF AccessInv, ToolTypeOK, Answer, CallOK
<1>3. RunsWhatWasChecked'
  BY DEF AccessInv, RunsWhatWasChecked
<1> QED
  BY <1>1, <1>2, <1>3 DEF AccessInv

\* execute_tool keeps the invariant when the tool it will find is one that the
\* call's role, if it has one, is sufficient for.
LEMMA StartInv ==
    ASSUME AccessInv, NEW c \in Calls, StartTool(c), started[c] = None,
           role[c] # None => Rank(role[c]) >= 1 /\ MayRun(c)
    PROVE  AccessInv'
<1> USE DEF AccessInv
<1>1. ASSUME NEW res \in {"not found", "no callable", "failure"}, Answer(c, res),
             UNCHANGED started
      PROVE  AccessInv'
  BY <1>1, AnswerInv DEF StartTool, Results
<1>2. ASSUME NEW t \in Found(c), started' = [started EXCEPT ![c] = t],
             \/ \E res \in {"success", "failure"} : Answer(c, res)
             \/ pc' = [pc EXCEPT ![c] = "running"] /\ UNCHANGED result
      PROVE  AccessInv'
  <2>1. UNCHANGED <<tools, role, target>>
    BY DEF StartTool
  <2>2. t \in Tools /\ t.name = target[c] /\ t # None
    BY DEF Found, ToolTypeOK
  <2>3. ToolTypeOK'
    <3>1. started' \in [Calls -> Tools \cup {None}]
      BY <1>2, <2>2 DEF ToolTypeOK
    <3>2. /\ pc' \in [Calls -> {"idle", "reading", "queued", "running", "done"}]
          /\ result' \in [Calls -> Results \cup {None}]
      BY <1>2 DEF ToolTypeOK, Answer, Results
    <3> QED
      BY <2>1, <3>1, <3>2 DEF ToolTypeOK
  <2>4. \A d \in Calls : CallOK(d)'
    BY <1>2, <2>1, <2>2 DEF ToolTypeOK, Answer, CallOK
  <2>5. role[c] # None =>
            Rank(role[c]) >= 1 /\ Rank(role[c]) >= Needed(t.level)
    BY <1>2 DEF MayRun, IsAuthorized
  <2>6. RunsWhatWasChecked'
    BY <1>2, <2>1, <2>2, <2>5 DEF RunsWhatWasChecked, ToolTypeOK
  <2> QED
    BY <2>3, <2>4, <2>6
<1> QED
  BY <1>1, <1>2 DEF StartTool

\* Every step keeps the invariant: what changes the registry leaves the calls
\* alone, and a call looks the tool up, checks its role and starts it at once.
LEMMA NextInv == AccessInv /\ [ToolNext]_toolVars => AccessInv'
<1> SUFFICES ASSUME AccessInv, [ToolNext]_toolVars PROVE AccessInv'
  OBVIOUS
<1> USE DEF AccessInv
<1>1. ASSUME NEW t \in Tools, RegisterTool(t) PROVE AccessInv'
  BY <1>1 DEF RegisterTool, Taken, ToolTypeOK, CallOK, RunsWhatWasChecked
<1>2. ASSUME NEW n \in ToolNames, UnregisterTool(n) PROVE AccessInv'
  BY <1>2 DEF UnregisterTool, ToolTypeOK, CallOK, RunsWhatWasChecked
<1>3. ASSUME NEW c \in Calls, NEW r \in Roles, NEW n \in ToolNames,
             Request(c, r, n)
      PROVE  AccessInv'
  <2>1. /\ pc[c] = "idle" /\ started[c] = None
        /\ UNCHANGED <<tools, started>>
        /\ role' = [role EXCEPT ![c] = r]
        /\ target' = [target EXCEPT ![c] = n]
    BY <1>3 DEF Request, CallOK
  <2>2. \/ /\ Rank(r) >= 1
           /\ pc' = [pc EXCEPT ![c] = "reading"] /\ UNCHANGED result
        \/ /\ pc' = [pc EXCEPT ![c] = "done"]
           /\ result' = [result EXCEPT ![c] = "refused"]
    BY <1>3, OperatorRank DEF Request, Answer
  <2>3. ToolTypeOK'
    BY <2>1, <2>2 DEF ToolTypeOK, Results
  <2>4. CallOK(c)'
    BY <2>1, <2>2 DEF ToolTypeOK, CallOK
  <2>5. \A d \in Calls \ {c} : CallOK(d)'
    <3> TAKE d \in Calls \ {c}
    <3>1. /\ pc'[d] = pc[d] /\ role'[d] = role[d]
          /\ result'[d] = result[d] /\ started'[d] = started[d]
      BY <2>1, <2>2 DEF ToolTypeOK
    <3> QED
      BY <3>1 DEF CallOK
  <2>6. RunsWhatWasChecked'
    BY <2>1 DEF ToolTypeOK, RunsWhatWasChecked
  <2> QED
    BY <2>3, <2>4, <2>5, <2>6
<1>4. ASSUME NEW c \in Calls, Refuse(c) PROVE AccessInv'
  BY <1>4, AnswerInv DEF Refuse, CallOK, Results
<1>5. ASSUME NEW c \in Calls, Execute(c) PROVE AccessInv'
  BY <1>5, StartInv DEF Execute, CallOK
<1>6. ASSUME NEW c \in Calls, ExecuteClashes(c) PROVE AccessInv'
  BY <1>6, AnswerInv DEF ExecuteClashes, CallOK, Results
<1>7. ASSUME NEW c \in Calls, StartQueued(c) PROVE AccessInv'
  BY <1>7, StartInv DEF StartQueued, CallOK
<1>8. ASSUME NEW c \in Calls, NEW res \in {"success", "failure"},
             ToolReturns(c, res)
      PROVE  AccessInv'
  BY <1>8, AnswerInv DEF ToolReturns, Outcome, CallOK, Results
<1>9. ASSUME NEW C \in SUBSET Calls, NEW f \in [C -> ToolNames],
             ExecuteParallel(C, f)
      PROVE  AccessInv'
  <2>1. ToolTypeOK'
    BY <1>9 DEF ExecuteParallel, ToolTypeOK
  <2>2. \A c \in Calls : CallOK(c)'
    BY <1>9 DEF ExecuteParallel, ToolTypeOK, CallOK
  <2>3. \A c \in C : started[c] = None
    BY <1>9 DEF ExecuteParallel, CallOK
  <2>4. RunsWhatWasChecked'
    BY <1>9, <2>3 DEF ExecuteParallel, RunsWhatWasChecked
  <2> QED
    BY <2>1, <2>2, <2>4
<1>10. CASE UNCHANGED toolVars
  BY <1>10 DEF toolVars, ToolTypeOK, CallOK, RunsWhatWasChecked
<1> QED
  BY <1>1, <1>2, <1>3, <1>4, <1>5, <1>6, <1>7, <1>8, <1>9, <1>10 DEF ToolNext

LEMMA Invariance == ToolSpec => []AccessInv
  BY InitInv, NextInv, PTL DEF ToolSpec
-----------------------------------------------------------------------------
(* The theorems *)

\* Every variable keeps its type; no two registered tools share a name.
THEOREM TypeCorrect == ToolSpec => []ToolTypeOK
<1>1. AccessInv => ToolTypeOK
  BY DEF AccessInv
<1> QED
  BY Invariance, <1>1, PTL

\* The endpoint runs only what the role of its client was checked for, however
\* tools are replaced between the request, the check, the start and the end.
THEOREM RunsChecked == ToolSpec => []RunsWhatWasChecked
<1>1. AccessInv => RunsWhatWasChecked
  BY DEF AccessInv
<1> QED
  BY Invariance, <1>1, PTL

\* No success without a tool that ran, and no tool that ran without a success
\* or a failure for an answer.
THEOREM AnswersTrue == ToolSpec => []AnswerTellsEffects
<1>1. AccessInv => AnswerTellsEffects
  BY DEF AccessInv, CallOK, AnswerTellsEffects
<1> QED
  BY Invariance, <1>1, PTL
=============================================================================
