---------------------------- MODULE MCToolAccess ----------------------------
(***************************************************************************)
(* Instance of ToolAccess for TLC: two names, the first of them carried by *)
(* an operator's and by an admin's tool, the second by a user's and by a   *)
(* system's.                                                               *)
(***************************************************************************)
EXTENDS ToolAccess, TLC

CONSTANTS c1, c2

MCCalls == {c1, c2}
MCRoles == {"viewer", "operator", "admin"}

MCTool(n, l, k) == [name |-> n, level |-> l, kind |-> k]

MCTools == {MCTool(1, "operator", "async"), MCTool(1, "admin", "async"),
            MCTool(2, "user", "sync"), MCTool(2, "system", "sync"),
            MCTool(3, "operator", "missing")}

CallSymmetry == Permutations(MCCalls)
=============================================================================
