------------------------------ MODULE MCAgent ------------------------------
(***************************************************************************)
(* Instances of the agent's components for TLC.  The components do not     *)
(* share state, so they are checked side by side: `part' names the one that*)
(* moves, the others keep their initial state.                             *)
(***************************************************************************)
EXTENDS MCPlanExecution, ReliabilityPipeline

VARIABLE part

agentVars == <<part, planVars, relVars>>

AgentInit ==
    /\ part \in {"plan", "reliability"}
    /\ PlanInit
    /\ RelInit
    /\ part # "plan" => query = [c \in Clients |-> Calculation]
    /\ part # "reliability" => fallback = "unset"

AgentNext ==
    \/ part = "plan" /\ PlanNext /\ UNCHANGED <<part, relVars>>
    \/ part = "reliability" /\ RelNext /\ UNCHANGED <<part, planVars>>

AgentSpec ==
    AgentInit /\ [][AgentNext]_agentVars /\ PlanFairness /\ RelFairness

\* Type invariant of the components.
AgentTypeOK == PlanTypeOK /\ RelTypeOK
============================================================================
