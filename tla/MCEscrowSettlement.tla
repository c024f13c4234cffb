-------------------------- MODULE MCEscrowSettlement --------------------------
(***************************************************************************)
(* Instances of EscrowSettlement for TLC.                                  *)
(***************************************************************************)
EXTENDS EscrowSettlement

Scene(cancel, decisions, rulings_, deadline, n) ==
    [cancel |-> cancel, decisions |-> decisions, rulings |-> rulings_,
     deadline |-> deadline, faults |-> n]

(* A cancellation, the operator's pay, the deadline and a fault; a decision  *)
(* that is changed; a verdict and two faults; the deadline and two faults.   *)
MCScenarios == {Scene(TRUE, {"pay"}, 1, TRUE, 1),
                Scene(FALSE, {"pay", "refund"}, 2, FALSE, 1),
                Scene(FALSE, {"quality"}, 1, FALSE, 2),
                Scene(FALSE, {}, 0, TRUE, 2)}

MCFaultless == {Scene(TRUE, {"pay"}, 1, TRUE, 0)}
=============================================================================
