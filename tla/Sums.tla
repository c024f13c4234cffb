-------------------------------- MODULE Sums --------------------------------
(***************************************************************************)
(* Sums over rows, as the backend's ledgers compute them.  A recursive     *)
(* function rather than a fold, so that SpendingProofs can prove about it. *)
(***************************************************************************)
EXTENDS Integers

(* f[1] + ... + f[n] *)
SumTo(f, n) ==
    LET upTo[k \in 0..n] == IF k = 0 THEN 0 ELSE upTo[k - 1] + f[k]
    IN  upTo[n]
=============================================================================
