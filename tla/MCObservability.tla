--------------------------- MODULE MCObservability ---------------------------
(***************************************************************************)
(* Instances of Observability for TLC: three requests, a window of one     *)
(* second, alerts evaluated at every second execution, with and without a  *)
(* tracing service.                                                        *)
(***************************************************************************)
EXTENDS Observability, TLC

CONSTANTS q1, q2, q3

ThreeRequests == {q1, q2, q3}
MCLatencies == {10, 200}
MCSnapshots == {[ok |-> TRUE, loops |-> FALSE], [ok |-> FALSE, loops |-> TRUE]}

\* The rule of the guide, with a message that cannot be formatted.
MCCustomRules == <<[name |-> "budget_exceeded", cooldown |-> 2,
                    formats |-> FALSE]>>

WithAndWithout == {{}, {"langsmith"}}
LangSmith == {{"langsmith"}}
BothPackages == {"langsmith", "phoenix"}

Symmetry == Permutations(ThreeRequests)
=============================================================================
