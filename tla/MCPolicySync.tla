---------------------------- MODULE MCPolicySync ----------------------------
(***************************************************************************)
(* Instances of PolicySync for TLC.                                        *)
(***************************************************************************)
EXTENDS PolicySync

CONSTANTS a, b, c, small, large, s1, s2

Scene(waits, who, policies, changes_, direct_, faults_) ==
    [waits |-> waits, syncers |-> who, policies |-> policies,
     changes |-> changes_, direct |-> direct_, faults |-> faults_]

One     == [core |-> small, active |-> TRUE,  list |-> {a}]
Paused  == [core |-> small, active |-> FALSE, list |-> {a}]
Another == [core |-> small, active |-> FALSE, list |-> {b}]
Open    == [core |-> large, active |-> TRUE,  list |-> {}]

MCPolicies == {One, Paused, Another, Open}

(* An administrator who waits, next to another one or for two changes; one  *)
(* who does not, with a lost row; a call of the operator's key.            *)
MCScenarios ==
    {Scene(TRUE, {s1, s2}, {One, Another, Open}, 1, 0, 0),
     Scene(TRUE, {s1}, MCPolicies, 2, 0, 0),
     Scene(TRUE, {s1}, {One, Another, Open}, 1, 0, 1),
     Scene(FALSE, {s1}, {One, Paused}, 1, 0, 1),
     Scene(FALSE, {s1}, {One, Open}, 1, 0, 0),
     Scene(FALSE, {s1}, {One, Paused}, 2, 0, 0),
     Scene(FALSE, {s1}, {One, Another}, 0, 1, 0)}
=============================================================================
