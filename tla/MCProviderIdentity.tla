-------------------------- MODULE MCProviderIdentity --------------------------
(***************************************************************************)
(* Instances of ProviderIdentity for TLC.                                  *)
(***************************************************************************)
EXTENDS ProviderIdentity

MCJobs == {1, 2}

Scene(jobs, delivered, leavers, first, kinds, n) ==
    [jobs |-> jobs, delivered |-> delivered, leavers |-> leavers, first |-> first,
     kinds |-> kinds, faults |-> n]

(* One job that may leave, or with two faults; two jobs, and a register    *)
(* that reverts or cannot be read, or one of them delivered; and the       *)
(* registry that mints the id 0.                                           *)
MCScenarios ==
    {Scene({1}, {1}, {1}, 5, FaultKinds, 1),
     Scene({1}, {1}, {}, 5, FaultKinds, 2),
     Scene({1, 2}, {}, {}, 5, {"reverted", "unreadable"}, 1),
     Scene({1, 2}, {2}, {}, 5, {}, 0),
     Scene({1}, {1}, {}, 0, {}, 0)}
=============================================================================
