----------------------------- MODULE MCAgentHA -----------------------------
(* Versions of events of one signal.                                       *)
EXTENDS AgentHA

CONSTANTS s1

MCSignalOf == [v \in Versions |-> s1]

=============================================================================
