------------------------ MODULE MCLegacyReservations ------------------------
(***************************************************************************)
(* Instances of LegacyReservations for TLC.                                *)
(***************************************************************************)
EXTENDS LegacyReservations, TLC

CONSTANTS job, shop, kiosk

MCJobOf == [p \in Pays |-> job]

MCPayeeSymmetry == Permutations(Payees)

Locked(txs_, jobs_, pays_, days_) ==
    [legacy |-> FALSE, policy |-> TRUE, txs |-> txs_, jobs |-> jobs_, pays |-> pays_,
     tries |-> pays_, payees |-> pays_, price |-> pays_, days |-> days_]

(* A transaction, an escrow job and an x402 payment within a day, and any  *)
(* two of them around a midnight; a transaction and two jobs, each on      *)
(* either path, within a day; and two payments of one job, retried, with   *)
(* different payees and prices.                                            *)
MCScenarios ==
    {Locked(1, 1, 1, 0), Locked(1, 1, 0, 1), Locked(1, 0, 1, 1), Locked(0, 1, 1, 1),
     [legacy |-> TRUE, policy |-> TRUE, txs |-> 1, jobs |-> 2, pays |-> 0, tries |-> 0,
      payees |-> 0, price |-> 0, days |-> 0],
     [legacy |-> FALSE, policy |-> FALSE, txs |-> 0, jobs |-> 0, pays |-> 2, tries |-> 3,
      payees |-> 2, price |-> 2, days |-> 0]}
=============================================================================
