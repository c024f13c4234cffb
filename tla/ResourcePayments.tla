-------------------------- MODULE ResourcePayments --------------------------
(***************************************************************************)
(* x402 payments of one provider (packages/backend/src/services/payments): *)
(* while a job is ACCEPTED its provider pays for resources out of the      *)
(* job's budget.  A payment id owns one ResourcePayment row; an attempt    *)
(* reserves the row, signs an authorization, records it, and sends it to   *)
(* the resource server, which can use it on chain until it expires,        *)
(* whatever the server answers.                                            *)
(*                                                                         *)
(* A reservation is one database transaction under the locks of the job    *)
(* and the agent; every later write is one UPDATE of the row by the one    *)
(* attempt that reserved it.  An attempt may die between any two.  Servers *)
(* and chain are external.                                                 *)
(***************************************************************************)
EXTENDS Sums, FiniteSets

CONSTANTS
    MaxPays,    \* payment ids 1..MaxPays
    Work,       \* jobs
    JobOf,      \* the job of each payment id
    Payees,
    NoPayee,    \* of a row that does not exist
    Prices,     \* what a resource may cost
    Budget,     \* of each job
    MaxTries,   \* bound: reservations of one payment id
    MaxDay      \* bound: days 0..MaxDay

Pays == 1..MaxPays
Days == 0..MaxDay

ASSUME PaymentAssumption ==
    /\ MaxPays \in Nat /\ MaxTries \in Nat /\ MaxDay \in Nat
    /\ JobOf \in [Pays -> Work]
    /\ Prices \subseteq Nat
    /\ NoPayee \notin Payees
    /\ Budget \in Nat

VARIABLES
    today,      \* the UTC day of now
    accepted,   \* jobs in status ACCEPTED
    pay,        \* ResourcePayment rows, with the number of reservations and
                \* whether the signed payload left the process
    usable,     \* external: authorizations a server can still use
    moved       \* external: authorizations used on chain

payVars == <<pay, usable, moved>>
rpVars  == <<today, accepted, payVars>>

(* "lapsed" is a refused row whose authorizationValidBefore has passed,    *)
(* "failed" is failed_before_signing.                                      *)
PayStatus == {"none", "reserved", "pending", "settled", "unknown", "refused",
              "lapsed", "failed"}

PayRow == [status : PayStatus, usd : Prices \cup {0}, payTo : Payees \cup {NoPayee},
           day : Days, tries : 0..MaxTries, sent : BOOLEAN]

(* An authorization is of one reservation of one payment id. *)
Authorization == [pay : Pays, try : 1..MaxTries, usd : Prices, payTo : Payees]

AuthorizationOf(p) ==
    [pay |-> p, try |-> pay[p].tries, usd |-> pay[p].usd, payTo |-> pay[p].payTo]

(* The day a transaction takes from its clock before it waits for a lock:  *)
(* at most one midnight passes before it commits.                          *)
CapturedDays == {today, today - 1} \cap Days

(***************************************************************************)
(* The ledger rules.                                                       *)
(***************************************************************************)
(* Fault: the answer of a timed-out request is taken for a refusal.        *)
FaultCountsUnlessUnknown(r) == r.status \in {"reserved", "pending", "settled", "refused"}
Counts(r) == r.status \in {"reserved", "pending", "settled", "unknown", "refused"}

(* Fault: a refusal may be retried at once. *)
FaultRetriesRefusals(r) == r.status \in {"none", "failed", "lapsed", "refused"}
Retryable(r) == r.status \in {"none", "failed", "lapsed"}

Charge(r) == IF Counts(r) THEN r.usd ELSE 0

JobCharges(rows, j) == [p \in Pays |-> IF JobOf[p] = j THEN Charge(rows[p]) ELSE 0]

Spent(rows, j) == SumTo(JobCharges(rows, j), MaxPays)

(* Fault: the price is held against the whole budget. *)
FaultFitsAlone(usd, j) == usd <= Budget
Fits(usd, j) == usd <= Budget - Spent(pay, j)

(* A refusal that is still live holds the payee off. *)
HoldsRefused(payee, j) ==
    \E p \in Pays : JobOf[p] = j /\ pay[p].status = "refused" /\ pay[p].payTo = payee

(***************************************************************************)
(* One attempt.                                                            *)
(***************************************************************************)
(* The row of a new reservation: nothing of an earlier attempt stays.      *)
Taken(r, payee, usd, d) ==
    [status |-> "reserved", usd |-> usd, payTo |-> payee, day |-> d,
     tries |-> r.tries + 1, sent |-> FALSE]

(* Written in one transaction: of several attempts with one id only one    *)
(* finds the row retryable.                                                *)
Reserve(p, payee, usd, d) ==
    /\ JobOf[p] \in accepted
    /\ Retryable(pay[p])
    /\ ~HoldsRefused(payee, JobOf[p])
    /\ Fits(usd, JobOf[p])
    /\ pay[p].tries < MaxTries
    /\ pay' = [pay EXCEPT ![p] = Taken(@, payee, usd, d)]
    /\ UNCHANGED <<today, accepted, usable, moved>>

(* A refusal before signing is recorded best effort, and only over a row   *)
(* no other attempt uses and that no longer counts.                        *)
RecordRefusal(p, payee, usd) ==
    /\ Retryable(pay[p])
    /\ pay' = [pay EXCEPT ![p].status = "failed", ![p].usd = usd,
                          ![p].payTo = payee, ![p].sent = FALSE]
    /\ UNCHANGED <<today, accepted, usable, moved>>

(* The attempt writes its row. *)
Record(p, status) ==
    /\ pay' = [pay EXCEPT ![p].status = status]
    /\ UNCHANGED <<today, accepted, usable, moved>>

(* The authorization is signed and its nonce recorded. *)
MarkPending(p) == pay[p].status = "reserved" /\ Record(p, "pending")

(* Nothing left the process: the signer or the library failed, or the      *)
(* write of the nonce did (it may have been committed all the same).       *)
Failable(r) == r.status \in {"reserved", "pending"} /\ ~r.sent
FailBeforeSigning(p) == Failable(pay[p]) /\ Record(p, "failed")

(* The payload leaves; from now on the server may have the authorization. *)
Send(p) ==
    /\ pay[p].status = "pending" /\ ~pay[p].sent
    /\ pay' = [pay EXCEPT ![p].sent = TRUE]
    /\ usable' = usable \cup {AuthorizationOf(p)}
    /\ UNCHANGED <<today, accepted, moved>>

(* No answer, an answer that says nothing about the money, or an error of  *)
(* the transport that may have come before the payload left.               *)
Unknown(p) == pay[p].status = "pending" /\ Record(p, "unknown")

Answered(p) == pay[p].status = "pending" /\ pay[p].sent

(* The server reports a settlement: its word, not the chain's. *)
ReportSettled(p) == Answered(p) /\ Record(p, "settled")

(* The server answers the signed payment without reporting a settlement. *)
Refuse(p) == Answered(p) /\ Record(p, "refused")

(***************************************************************************)
(* Time, chain and the job.                                                *)
(***************************************************************************)
Settle(a) ==
    /\ a \in usable
    /\ usable' = usable \ {a}
    /\ moved' = moved \cup {a}
    /\ UNCHANGED <<today, accepted, pay>>

Expire(a) ==
    /\ a \in usable
    /\ usable' = usable \ {a}
    /\ UNCHANGED <<today, accepted, pay, moved>>

(* authorizationValidBefore passes.  It is the deadline that was signed,   *)
(* or a later bound, so the chain no longer accepts the authorization.     *)
Lapse(p) ==
    /\ pay[p].status = "refused"
    /\ \A a \in usable : a.pay # p
    /\ Record(p, "lapsed")

CloseJob(j) ==
    /\ j \in accepted
    /\ accepted' = accepted \ {j}
    /\ UNCHANGED <<today, payVars>>

Midnight ==
    /\ today < MaxDay
    /\ today' = today + 1
    /\ UNCHANGED <<accepted, payVars>>

RpInit ==
    /\ today = 0
    /\ accepted = Work
    /\ pay = [p \in Pays |-> [status |-> "none", usd |-> 0, payTo |-> NoPayee,
                              day |-> 0, tries |-> 0, sent |-> FALSE]]
    /\ usable = {}
    /\ moved = {}

(* The steps of an attempt once it has reserved its row. *)
AttemptStep(p) ==
    \/ MarkPending(p) \/ FailBeforeSigning(p) \/ Send(p)
    \/ Unknown(p) \/ ReportSettled(p) \/ Refuse(p)

OutsideStep ==
    \/ \E a \in usable : Settle(a) \/ Expire(a)
    \/ \E p \in Pays : Lapse(p)
    \/ \E j \in Work : CloseJob(j)
    \/ Midnight

RpNext ==
    \/ \E p \in Pays, payee \in Payees, usd \in Prices :
          \/ \E d \in CapturedDays : Reserve(p, payee, usd, d)
          \/ RecordRefusal(p, payee, usd)
    \/ \E p \in Pays : AttemptStep(p)
    \/ OutsideStep

RpSpec == RpInit /\ [][RpNext]_rpVars

(***************************************************************************)
(* Properties.                                                             *)
(***************************************************************************)
(* Types; a row carries an authorization only from pending on, so that a   *)
(* retry does not mistake an earlier attempt's for its own                 *)
(* (resource-payment.service.ts, the data of reserve).                     *)
RpTypeOK ==
    /\ today \in Days
    /\ accepted \subseteq Work
    /\ pay \in [Pays -> PayRow]
    /\ usable \subseteq Authorization
    /\ moved \subseteq Authorization
    /\ \A p \in Pays :
          pay[p].sent => pay[p].status \in {"pending", "settled", "unknown", "refused", "lapsed"}

(* The rows that count never add up to more than the job's budget, however *)
(* attempts with different ids and retries of one id interleave (reserve,  *)
(* step 3).                                                                *)
JobBudgetHolds == \A j \in Work : Spent(pay, j) <= Budget

(* What a server can still use on chain is in the ledger: the authorization *)
(* is the row's latest, and the row counts with its amount.  In particular *)
(* an id has one usable authorization at a time, and no attempt signs for  *)
(* an id while an earlier one could still be used (retryableWhere).        *)
UsableIsCounted ==
    \A a \in usable : a = AuthorizationOf(a.pay) /\ Counts(pay[a.pay])

(* Money that was taken after a refusal and whose row lapsed since is lost *)
(* to the ledger; the documentation says so.  All other money that moved   *)
(* or can still move out of a job is within its budget.                    *)
WrittenOff(a) == a # AuthorizationOf(a.pay) \/ pay[a.pay].status \in {"lapsed", "failed"}

AtStake(j) ==
    [p \in Pays |->
        IF JobOf[p] = j /\ \E a \in usable \cup moved : a.pay = p /\ ~WrittenOff(a)
        THEN pay[p].usd ELSE 0]

MoneyWithinBudget == \A j \in Work : SumTo(AtStake(j), MaxPays) <= Budget
=============================================================================
