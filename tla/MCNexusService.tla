--------------------------- MODULE MCNexusService ---------------------------
(***************************************************************************)
(* Instance of NexusService for TLC, with the three components behind      *)
(* further synchronous endpoints: the memory, the configuration snapshots  *)
(* and the canaries.                                                       *)
(*                                                                         *)
(* None of these reads a variable of another or of the agents (a react     *)
(* request adds an item to the memory, which Add of the memory may do at   *)
(* any time), and only the crew reads its members.  So each behaviour runs *)
(* one part of the service, the crew on its own or the agents over an      *)
(* empty crew: interleaving the parts would multiply their states and      *)
(* reach no new state of any.                                              *)
(***************************************************************************)
EXTENDS NexusService, HybridMemory, RollbackManager, CanaryTester

VARIABLE part    \* the part this behaviour runs

(* Agents: confidences and scores on both sides of each threshold and      *)
(* outside the scale; tasks at the borders of the router's tiers, budgets  *)
(* at those of the prices.                                                 *)

MCConfidences == {NaN, NoNumber, -20, 20, 30, 90, 150}
MCJudgements == {NaN, NoNumber, 0, 60, 80, 120}
MCCritiques == {NaN, NoNumber, -5, 35, 70, 120}
MCProposers == {-1, 0, 1, 2, 3}

MCNames == {"ann", "bob"}
MCRosters == {<<>>, <<"ann">>, <<"bob", "ann">>}
MCExpertises == {{"general"}, {"python"}}
MCDecompositions ==
    LET line(w) == [numbered |-> TRUE, words |-> w]
        chatter == [numbered |-> FALSE, words |-> {"general"}]
    IN  {<<chatter>>,
         <<line({"python"}), line({})>>,
         <<chatter, line({"general", "python"}), line({}), line({"general"}),
           line({"python"}), line({})>>}

MCPatterns == {"chain", "trio", "reflect", "circle"}

MCTasks == [words : {0, 19, 20, 59, 60, 149, 150, 181, 182, 2000},
            technical : BOOLEAN, steps : BOOLEAN]
MCBudgets == {0, -1000000, 52000, 53000, 299000, 300000, 4999000, 5000000,
              6000000, 30000000, 100000000}

(* Memory: five items of three sessions over a window of two. *)

CONSTANTS s1, s2, s3

MCSessions == {s1, s2, s3}
MCScores == {0, 1}
MCLimits == -1..3

(* Snapshots: two configurations, dicts for two snapshots and two restores. *)

CONSTANTS k1, k2

MCConfigs == {k1, k2}

(* Canaries: tasks on both sides of a share of 5 and of the default share  *)
(* of 10, two candidates.                                                  *)

MCCandidates == {"a", "b"}
MCCanaryTasks == {"low", "edge", "high"}
MCBucket == [t \in MCCanaryTasks |->
                CASE t = "low" -> 3 [] t = "edge" -> 9 [] t = "high" -> 10]
MCPercents == {5, 50}
MCElapsed == {0, 3}
MCDefaultBaseline == [latency |-> 100, failures |-> 5]
MCBaselines == {MCDefaultBaseline, [latency |-> 2, failures |-> 5],
                [latency |-> 2, failures |-> 0],
                [latency |-> 0, failures |-> 5]}

agentVars == <<call, proposers, members>>
memoryVars == <<added, shortTerm, longTerm, cleared>>

PartsInit ==
    /\ part \in {"agents", "crew", "memory", "rollback", "canary"}
    /\ ServiceInit
    /\ Init
    /\ RollbackInit
    /\ CanaryInit

PartsNext ==
    \/ /\ part = "agents" /\ ServiceNext
       /\ UNCHANGED <<members, memoryVars, rollbackVars, canaryVars, part>>
    \/ /\ part = "crew" /\ CrewNext
       /\ UNCHANGED <<proposers, memoryVars, rollbackVars, canaryVars, part>>
    \/ /\ part = "memory" /\ Next
       /\ UNCHANGED <<agentVars, rollbackVars, canaryVars, part>>
    \/ /\ part = "rollback" /\ RollbackNext
       /\ UNCHANGED <<agentVars, memoryVars, canaryVars, part>>
    \/ /\ part = "canary" /\ CanaryNext
       /\ UNCHANGED <<agentVars, memoryVars, rollbackVars, part>>

PartsSpec ==
    PartsInit /\ [][PartsNext]_<<agentVars, memoryVars, rollbackVars,
                                 canaryVars, part>>
=============================================================================
