----------------------------- MODULE PolicyModule -----------------------------
(***************************************************************************)
(* The policy of one agent wallet on the chain: the calls of               *)
(* AgentPolicyModule.sol that write it, as functions of what it holds, and *)
(* what it answers.  One call is one transaction of the wallet itself or   *)
(* of the module's operator.                                               *)
(*                                                                         *)
(* maxValuePerTx, cooldownBetweenTx and policyExpiresAt are always written *)
(* together and compared one by one: `core` stands for the three.  The     *)
(* contract and the token whitelist are the same code twice; there is one  *)
(* here.  The timestamps of the cooldown are left out.                     *)
(***************************************************************************)
EXTENDS Naturals, Sequences, FiniteSets

CONSTANTS
    Targets,    \* addresses that can be whitelisted
    Cores,      \* values of maxValuePerTx, cooldownBetweenTx, policyExpiresAt
    NoCore      \* the three while no policy was ever set

ASSUME ModuleAssumption == NoCore \notin Cores /\ IsFiniteSet(Targets)

VARIABLE module

Entry  == [target : Targets, allowed : BOOLEAN]
Module == [hasPolicy : BOOLEAN, core : Cores \cup {NoCore}, active : BOOLEAN,
           allowed : SUBSET Targets, count : Nat]

Unset == [hasPolicy |-> FALSE, core |-> NoCore, active |-> FALSE,
          allowed |-> {}, count |-> 0]

SetPolicy(m, core, active) ==
    [m EXCEPT !.hasPolicy = TRUE, !.core = core, !.active = active]

EmergencyPause(m) == [m EXCEPT !.active = FALSE]
Resume(m)         == [m EXCEPT !.active = TRUE]

(* Fault: entries that are there, or are gone, already are counted again. *)
FaultListed(m, e) ==
    [m EXCEPT !.allowed = IF e.allowed THEN @ \cup {e.target} ELSE @ \ {e.target},
              !.count   = IF e.allowed THEN @ + 1 ELSE IF @ = 0 THEN 0 ELSE @ - 1]

(* One turn of the loop of updateContractWhitelist and updateTokenWhitelist. *)
Listed(m, e) ==
    IF (e.target \in m.allowed) = e.allowed THEN m
    ELSE [m EXCEPT !.allowed = IF e.allowed THEN @ \cup {e.target} ELSE @ \ {e.target},
                   !.count   = IF e.allowed THEN @ + 1 ELSE @ - 1]

UpdateWhitelist(m, entries) ==
    LET after[i \in 0..Len(entries)] ==
            IF i = 0 THEN m ELSE Listed(after[i - 1], entries[i])
    IN  after[Len(entries)]

(* isContractAllowed: an empty list answers yes for every address. *)
IsAllowed(m, t) == m.count = 0 \/ t \in m.allowed

(* The counter decides whether the list restricts anything at all: it is    *)
(* exact whatever is added or removed twice, in whatever order.            *)
CountsMatchLists == module \in Module /\ module.count = Cardinality(module.allowed)
=============================================================================
