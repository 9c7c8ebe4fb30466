----------------------------- MODULE MCPlatform -----------------------------
(***************************************************************************)
(* The instances of MetricsCollector, AlertEngine and ToolAccess together. *)
(*                                                                         *)
(* None of the three reads a variable of another, so each behaviour runs   *)
(* one of them: interleaving them would multiply their states and reach no *)
(* new state of any.  (Observability is the collector and the engine at    *)
(* work together.)                                                         *)
(***************************************************************************)
EXTENDS MCMetricsCollector, MCAlertEngine, MCToolAccess

VARIABLE part    \* the part this behaviour runs

PlatformInit ==
    /\ part \in {"metrics", "alerts", "tools"}
    /\ Init
    /\ AlertInit /\ (part = "alerts" \/ clock = 3)
    /\ ToolInit

PlatformNext ==
    \/ /\ part = "metrics" /\ Next
       /\ UNCHANGED <<alertEngineVars, toolVars, part>>
    \/ /\ part = "alerts" /\ AlertNext
       /\ UNCHANGED <<vars, toolVars, part>>
    \/ /\ part = "tools" /\ ToolNext
       /\ UNCHANGED <<vars, alertEngineVars, part>>

PlatformSpec ==
    PlatformInit /\ [][PlatformNext]_<<vars, alertEngineVars, toolVars, part>>
=============================================================================
