---------------------------- MODULE MCEventAgent ----------------------------
(***************************************************************************)
(* Instances of EventAgent for TLC: three calls, two ids, and two Event    *)
(* objects that carry the first id (a redelivered webhook parsed twice).   *)
(***************************************************************************)
EXTENDS EventAgent, TLC

CONSTANTS c1, c2, c3, o1, o2, o3, i1, i2

MCCalls == {c1, c2, c3}
MCObjects == {o1, o2, o3}
MCIds == {i1, i2}

MCIdOf == o1 :> i1 @@ o2 :> i1 @@ o3 :> i2

\* Short budgets: a retry of one call meets every stage of the others.
ShortBudgets == o1 :> 1 @@ o2 :> 2 @@ o3 :> 0
=============================================================================
