-------------------------- MODULE MCEvaluatorLedger --------------------------
(***************************************************************************)
(* Instances of EvaluatorLedger for TLC.                                   *)
(***************************************************************************)
EXTENDS EvaluatorLedger

CONSTANTS j1, j2

MCNodes == 1 .. 2

Scene(workers_, n, faults) ==
    [workers |-> workers_, rows |-> n, left |-> [f \in Faults |-> IF f \in faults THEN 1 ELSE 0]]

Rivals == {<<j1, "pay">>, <<j1, "refund">>}
Queue  == {<<j1, "pay">>, <<j2, "pay">>}

(* Two decisions about one job: around a reorganisation; around a lost lane  *)
(* and a death; when the payout begins to revert.  One that begins to revert *)
(* until the operator cancels it.  Two jobs in the queue, with a lost        *)
(* transaction and a death.  One worker around a reorganisation, with a      *)
(* foreign transaction.                                                      *)
MCScenarios == {Scene(Rivals, 2, {"reorg"}),
                Scene(Rivals, 2, {"lane", "crash"}),
                Scene(Rivals, 2, {"refuse"}),
                Scene({<<j1, "pay">>}, 3, {"refuse", "operator"}),
                Scene(Queue, 2, {"drop", "crash"}),
                Scene({<<j1, "pay">>}, 1, {"foreign", "reorg"})}
=============================================================================
