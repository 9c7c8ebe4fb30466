------------------------------ MODULE AgentCall ------------------------------
(***************************************************************************)
(* What the agents of src/src/agents share.                                *)
(*                                                                         *)
(* An agent runs without an await from the request to the answer: it holds *)
(* the event loop, and at most one call of any agent is under way.  That   *)
(* call is the variable call.  Every call of the language model is a step, *)
(* where anything may be answered or an exception end the run.             *)
(*                                                                         *)
(* Agents read numbers from answers with float(), a default for text that  *)
(* is no number, and a clamp.  float() also accepts "nan", and as every    *)
(* comparison with NaN is false the clamp lets it pass:                    *)
(* min(max(nan, 0.0), 1.0) is nan.  Numbers are integers on a finer scale. *)
(***************************************************************************)
EXTENDS Integers

VARIABLE call    \* a record: agent, at, llmCalls and the agent's locals

Idle == [agent |-> "none"]

At(agent, where) == call.agent = agent /\ call.at = where

\* Integers outside every scale stand for NaN and for what float() rejects.
NaN == -1000
NoNumber == -1001

Parse(answer, low, high, default) ==
    CASE answer = NoNumber -> default
      [] answer = NaN -> NaN
      [] answer \notin {NoNumber, NaN} /\ answer < low -> low
      [] answer > high -> high
      [] OTHER -> answer

AtLeast(x, y) == x # NaN /\ x >= y
Above(x, y) == x # NaN /\ x > y
Below(x, y) == x # NaN /\ x < y

\* The exception becomes a response 500; nothing of the run is kept.
Raises(agent, points) ==
    /\ \E p \in points : At(agent, p)
    /\ call' = [call EXCEPT !.at = "raised"]

\* The endpoint answers, and the event loop is free.
Return(agent) == (At(agent, "done") \/ At(agent, "raised")) /\ call' = Idle
=============================================================================
