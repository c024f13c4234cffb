------------------------------ MODULE JobReview ------------------------------
(***************************************************************************)
(* What the backend promises about the money of one delivered job          *)
(* (docs/architecture/erc-8183-mapping.md; the comments of                 *)
(* contestEscrowJob, resolveEscrowJob and settle in                        *)
(* services/job/escrow-erc8183.service.ts): it is paid, once, if nobody    *)
(* contests it or the operator decides so; a contested job waits for the   *)
(* operator, whose last decision is executed; after the deadline anybody   *)
(* may have it refunded.  A job withdrawn before its delivery is refunded. *)
(***************************************************************************)
VARIABLES
    outcome,    \* what became of the budget, as far as it is final
    contested,  \* has the requester contested the delivery?
    decision,   \* the operator's last decision
    withdrawn,  \* was a refund of a cancelled job sent?
    overdue     \* has the deadline passed?

reviewVars == <<outcome, contested, decision, withdrawn, overdue>>

Decisions == {"pay", "refund", "quality"}

ReviewInit ==
    /\ outcome = "open"
    /\ contested = FALSE
    /\ decision = "none"
    /\ withdrawn = FALSE
    /\ overdue = FALSE

(* A refund after the deadline may be anybody's, so it can cross a request. *)
Heard == outcome \in {"open", "expired"}

Contest ==
    /\ Heard /\ ~contested
    /\ contested' = TRUE
    /\ UNCHANGED <<outcome, decision, withdrawn, overdue>>

Decide(d) ==
    /\ Heard
    /\ decision' = d
    /\ UNCHANGED <<outcome, contested, withdrawn, overdue>>

Withdraw ==
    /\ Heard
    /\ withdrawn' = TRUE
    /\ UNCHANGED <<outcome, contested, decision, overdue>>

MeetDeadline ==
    /\ overdue' = TRUE
    /\ UNCHANGED <<outcome, contested, decision, withdrawn>>

(* The one step that moves the money. *)
Settle ==
    /\ outcome = "open"
    /\ \/ /\ decision = "pay" \/ (decision = "none" /\ ~contested)
          /\ outcome' = "paid"
       \/ decision = "refund" /\ outcome' = "refunded"
       \/ decision = "quality" /\ outcome' = "condemned"
       \/ withdrawn /\ outcome' = "refunded"
       \/ overdue /\ outcome' = "expired"
    /\ UNCHANGED <<contested, decision, withdrawn, overdue>>

ReviewNext ==
    \/ Contest \/ Withdraw \/ MeetDeadline \/ Settle
    \/ \E d \in Decisions : Decide(d)

ReviewSpec == ReviewInit /\ [][ReviewNext]_reviewVars
=============================================================================
