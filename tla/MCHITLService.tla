---- MODULE MCHITLService ----
(* Two workflows, two tasks, scores at the threshold, two reviewers. *)
EXTENDS HITLService, TLC

CONSTANTS t1, t2, r1, r2, fix

MCTasks == {t1, t2}
MCReviewers == {r1, r2}
MCTexts == {fix}
MCScores == {69, 70}

Symmetry == Permutations(MCTasks) \cup Permutations(MCReviewers)
====
