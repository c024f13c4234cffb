--------------------------- MODULE MCEscrowFunding ---------------------------
(***************************************************************************)
(* Instances of EscrowFunding for TLC.                                     *)
(***************************************************************************)
EXTENDS EscrowFunding

(* Two jobs; the allowance left by the first would cover the second, and   *)
(* not the other way round.                                                *)
MCBudget == <<2, 1>>

Scene(jobs, leavers, deadlines, n) ==
    [jobs |-> jobs, leavers |-> leavers, deadlines |-> deadlines, faults |-> n]

(* Two jobs in the lane, one of which may be cancelled, and a fault; one    *)
(* job with a deadline and two faults.                                     *)
MCScenarios == {Scene({1, 2}, {1}, {}, 1), Scene({1}, {1}, {1}, 2)}
=============================================================================
