-------------------------- MODULE MCReputationHook --------------------------
(***************************************************************************)
(* Instances of ReputationHook for TLC.                                    *)
(***************************************************************************)
EXTENDS ReputationHook, TLC

CONSTANTS client, provider, operator, hook  \* model values

MCAddress == {client, provider, operator}
MCHooks == {hook}

MCAgentSymmetry == Permutations(AgentIds)
=============================================================================
