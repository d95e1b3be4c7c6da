----------------------------- MODULE MCAgentFacade -----------------------------
(* A small instance of AgentFacade: two facades of one workflow, configured with  *)
(* nothing or with a session.                                                     *)
EXTENDS AgentFacade, TLC

CONSTANTS a1, a2

MCAgents == {a1, a2}
MCProduct == [a \in MCAgents |-> "react"]
MCIdentities ==
  {[actor |-> None, session |-> None], [actor |-> None, session |-> 101]}
MCSymmetry == Permutations(MCAgents)
MCPersistent == {TRUE, FALSE}
================================================================================
