---------------------------- MODULE MCAlertEngine ----------------------------
(***************************************************************************)
(* Instance of AlertEngine for TLC: a rule that is replaced by one with a  *)
(* shorter cooldown, and one whose message cannot be formatted.            *)
(***************************************************************************)
EXTENDS AlertEngine

CONSTANTS a, b

MCRules == {[name |-> a, cooldown |-> 3, formats |-> TRUE],
            [name |-> a, cooldown |-> 1, formats |-> TRUE],
            [name |-> b, cooldown |-> 2, formats |-> TRUE],
            [name |-> b, cooldown |-> 0, formats |-> FALSE]}

MCTimes == 3..7
=============================================================================
