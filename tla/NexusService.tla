---------------------------- MODULE NexusService ----------------------------
(***************************************************************************)
(* The agent endpoints of src/src/main.py: one process, one event loop,    *)
(* one object of each agent.                                               *)
(*                                                                         *)
(* The handlers are coroutines without an await, so a call of an agent     *)
(* runs to its end before any other starts; what one call leaves for the   *)
(* next are the members of the crew and the number of proposers.           *)
(***************************************************************************)
EXTENDS CostAwareRouter, ReActAgent, SelfReflectiveAgent, DebateAgent,
        CrewAgent, WorkflowAgent

serviceVars == <<call, proposers, members>>

ServiceInit ==
    /\ call = Idle
    /\ proposers = DefaultProposers
    /\ members = <<>>

ServiceNext ==
    \/ /\ \/ RouterNext
          \/ ReActNext
          \/ ReflectNext
          \/ WorkflowNext
       /\ UNCHANGED <<proposers, members>>
    \/ DebateNext /\ UNCHANGED members
    \/ CrewNext /\ UNCHANGED proposers

ServiceSpec == ServiceInit /\ [][ServiceNext]_serviceVars
-----------------------------------------------------------------------------
(* Properties *)

\* While an agent runs, nobody else is served.  Whatever the model answers, a
\* call ends after a number of the model's answers that its bounds give.
CallsBounded ==
    /\ ReActBounded
    /\ ReflectBounded
    /\ DebateBounded
    /\ CrewBounded
    /\ WorkflowBounded
=============================================================================
