-------------------------- MODULE MCAgentJobEscrow --------------------------
(***************************************************************************)
(* Instances of AgentJobEscrow for TLC.                                    *)
(***************************************************************************)
EXTENDS AgentJobEscrow

CONSTANTS client, provider, operator  \* model values

(* A budget both fees divide with a remainder, one on which they are 0,    *)
(* and the amount 0, which setBudget accepts and fund does not.            *)
MCAmounts == {0, 7, 10199}

MCAddress == {client, provider, operator}
=============================================================================
