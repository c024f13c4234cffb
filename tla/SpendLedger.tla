---------------------------- MODULE SpendLedger ----------------------------
(***************************************************************************)
(* The daily limit of one agent (packages/backend/src/services/policy).    *)
(* Three ways to spend share it: transactions and the budgets of escrow    *)
(* jobs add to DailyVolume, x402 payments (ResourcePayments) count by      *)
(* their rows.  Every check is one database transaction under the lock of  *)
(* the agent's row, which reads the policy and all three totals; releases  *)
(* take no lock.  The day is taken from the clock before the lock is       *)
(* waited for.                                                             *)
(*                                                                         *)
(* Of the transaction pipeline only what settles a reservation is here;    *)
(* TxPipeline has the rest.  Amounts are micro-USD.  The legacy A2A path,  *)
(* which takes no lock, is in LegacyReservations.                          *)
(***************************************************************************)
EXTENDS ResourcePayments

CONSTANTS
    MaxTxs,     \* requests for a transaction 1..MaxTxs
    MaxJobs,    \* escrow jobs 1..MaxJobs this agent requests
    Values,     \* what a transaction or a job is worth
    Limits,     \* values of maxDailyVolumeUsd; 0 is no limit
    MayPause    \* the kill switch is used

Txs  == 1..MaxTxs
Jobs == 1..MaxJobs

ASSUME SpendAssumption ==
    /\ MaxTxs \in Nat /\ MaxJobs \in Nat
    /\ Values \subseteq Nat
    /\ Limits \subseteq Nat
    /\ MayPause \in BOOLEAN

VARIABLES
    limit,      \* AgentPolicy.maxDailyVolumeUsd
    active,     \* AgentPolicy.active
    steady,     \* history: the policy is as it was at first, and never was paused
    volume,     \* DailyVolume of each day
    tx,         \* requests and Transaction rows
    res         \* reservations of escrow jobs

policyVars == <<limit, active, steady>>
slVars     == <<policyVars, volume, tx, res>>
spendVars  == <<rpVars, slVars>>

(* "asked" is a validated request whose row is not written yet; sent, that *)
(* a broadcast was attempted; gated, that it needs an operator's approval. *)
TxStatus == {"none", "asked", "PENDING_APPROVAL", "QUEUED", "SUBMITTED",
             "CONFIRMED", "REVERTED", "FAILED"}
VolumeState == {"NONE", "RESERVED", "COMMITTED", "HELD", "RELEASED"}

TxRow == [status : TxStatus, usd : Values \cup {0}, unpriced : BOOLEAN, gated : BOOLEAN,
          sent : BOOLEAN, vol : VolumeState, day : Days]

(* due: the reservation is cancelled and its volume not given back yet. *)
JobRow == [status : {"NONE", "PENDING", "CANCELLED", "RELEASED"},
           usd : Values \cup {0}, day : Days, due : BOOLEAN]

(***************************************************************************)
(* What is committed on a day.                                             *)
(***************************************************************************)
TxCounts(r)  == r.vol \in {"RESERVED", "COMMITTED", "HELD"}
JobCounts(r) == r.status \in {"PENDING", "RELEASED"} \/ r.due

TxCharges(rows, d)  == [t \in Txs |-> IF TxCounts(rows[t]) /\ rows[t].day = d THEN rows[t].usd ELSE 0]
ResCharges(rows, d) == [j \in Jobs |-> IF JobCounts(rows[j]) /\ rows[j].day = d THEN rows[j].usd ELSE 0]
PayCharges(rows, d) == [p \in Pays |-> IF rows[p].day = d THEN Charge(rows[p]) ELSE 0]

X402On(d) == SumTo(PayCharges(pay, d), MaxPays)

(* resourcePaymentSpentToday: what counts and was reserved since the start *)
(* of the day.  Fault: only what is settled.                               *)
FaultX402Settled(d) ==
    SumTo([p \in Pays |-> IF pay[p].day >= d /\ pay[p].status = "settled" THEN pay[p].usd ELSE 0],
          MaxPays)
X402Since(d) ==
    SumTo([p \in Pays |-> IF pay[p].day >= d THEN Charge(pay[p]) ELSE 0], MaxPays)

Room(lim, vol, d, x402day) == lim > 0 => vol[d] + X402Since(x402day) <= lim

Added(vol, d, usd)      == [vol EXCEPT ![d] = @ + usd]
Subtracted(vol, d, usd) == [vol EXCEPT ![d] = IF @ >= usd THEN @ - usd ELSE 0]

(***************************************************************************)
(* Transactions.                                                           *)
(***************************************************************************)
(* validateTransaction, which only reads.  A spend may be priced in part: *)
(* usd is the part that has a price.                                      *)
Ask(t, usd, unpriced) ==
    /\ tx[t].status = "none"
    /\ active
    /\ limit > 0 => ~unpriced /\ volume[today] + X402Since(today) + usd <= limit
    /\ tx' = [tx EXCEPT ![t].status = "asked", ![t].usd = usd, ![t].unpriced = unpriced]
    /\ UNCHANGED <<rpVars, policyVars, volume, res>>

(* The request is refused before or at its creation, or dies. *)
Withdraw(t) ==
    /\ tx[t].status = "asked"
    /\ tx' = [tx EXCEPT ![t].status = "none", ![t].usd = 0, ![t].unpriced = FALSE]
    /\ UNCHANGED <<rpVars, policyVars, volume, res>>

(* The row as it is inserted: it reserves what it is worth. *)
NewRow(r, d, gated) ==
    [r EXCEPT !.status = IF gated THEN "PENDING_APPROVAL" ELSE "QUEUED",
              !.gated = gated,
              !.vol = IF r.usd = 0 THEN "NONE" ELSE "RESERVED",
              !.day = IF r.usd = 0 THEN @ ELSE d]

(* The limit createTransactionWithVolume holds a row to. *)
CreationLimit == IF active THEN limit ELSE 0

(* createTransactionWithVolume: the row and its reservation, or neither. *)
Create(t, d, gated) ==
    /\ tx[t].status = "asked"
    /\ tx[t].unpriced => CreationLimit = 0
    /\ tx' = [tx EXCEPT ![t] = NewRow(@, d, gated)]
    /\ volume' = IF tx[t].usd = 0 THEN volume ELSE Added(volume, d, tx[t].usd)
    /\ tx[t].usd > 0 => Room(CreationLimit, volume', d, d)
    /\ UNCHANGED <<rpVars, policyVars, res>>

(* What an approval does not refuse whatever the volume.  Only a row that *)
(* reserved nothing is marked unpriced.                                   *)
Approvable(r) ==
    /\ r.status = "PENDING_APPROVAL"
    /\ active
    /\ limit > 0 /\ r.unpriced => r.vol = "RESERVED"

(* The reservation moves to the day of the approval, if that is later. *)
MovedVolume(r, d) ==
    IF r.day < d THEN Added(Subtracted(volume, r.day, r.usd), d, r.usd) ELSE volume

LaterDay(a, b) == IF a < b THEN b ELSE a

(* approvePendingTransaction. *)
Approve(t, d) ==
    /\ Approvable(tx[t])
    /\ IF tx[t].vol = "RESERVED"
       THEN /\ tx' = [tx EXCEPT ![t].status = "QUEUED", ![t].day = LaterDay(@, d)]
            /\ volume' = MovedVolume(tx[t], d)
            /\ Room(limit, volume', LaterDay(tx[t].day, d), d)
       ELSE /\ tx' = [tx EXCEPT ![t].status = "QUEUED"]
            /\ UNCHANGED volume
    /\ UNCHANGED <<rpVars, policyVars, res>>

SetStatus(t, status) ==
    /\ tx' = [tx EXCEPT ![t].status = status]
    /\ UNCHANGED <<rpVars, policyVars, volume, res>>

Reject(t) == tx[t].status = "PENDING_APPROVAL" /\ SetStatus(t, "FAILED")

(* An approved row could not be enqueued. *)
Unapprove(t) == tx[t].status = "QUEUED" /\ tx[t].gated /\ SetStatus(t, "PENDING_APPROVAL")

(* The enqueue, the guard or the broadcast failed with nothing signed. *)
Stop(t) == tx[t].status = "QUEUED" /\ SetStatus(t, "FAILED")

(* The guard lets it pass, and it is stamped and broadcast. *)
Submit(t) ==
    /\ tx[t].status = "QUEUED"
    /\ active
    /\ tx' = [tx EXCEPT ![t].status = "SUBMITTED", ![t].sent = TRUE]
    /\ UNCHANGED <<rpVars, policyVars, volume, res>>

(* Mined, reverted, or dropped after the grace. *)
Observe(t) ==
    /\ tx[t].status = "SUBMITTED"
    /\ \E status \in {"CONFIRMED", "REVERTED", "FAILED"} : SetStatus(t, status)

(* Where the settlement of an outcome can take a reservation: a revert may *)
(* have had earlier attempts, which may still be mined, and so may what    *)
(* was dropped.  Fault: dropped is released.                               *)
FaultSettlementsOnDrop(r) ==
    CASE r.status = "CONFIRMED" -> {"COMMITTED"}
      [] r.status = "REVERTED"  -> {"RELEASED", "HELD"}
      [] r.status = "FAILED"    -> {"RELEASED"}
      [] OTHER                  -> {}
Settlements(r) ==
    CASE r.status = "CONFIRMED" -> {"COMMITTED"}
      [] r.status = "REVERTED"  -> {"RELEASED", "HELD"}
      [] r.status = "FAILED"    -> IF r.sent THEN {"HELD"} ELSE {"RELEASED"}
      [] OTHER                  -> {}

(* By the first observer, or later by sweepUnsettledVolume. *)
SettleVolume(t) ==
    /\ tx[t].vol = "RESERVED"
    /\ \E vol \in Settlements(tx[t]) :
          /\ tx' = [tx EXCEPT ![t].vol = vol]
          /\ volume' = IF vol = "RELEASED" THEN Subtracted(volume, tx[t].day, tx[t].usd) ELSE volume
    /\ UNCHANGED <<rpVars, policyVars, res>>

(***************************************************************************)
(* Escrow jobs.                                                            *)
(***************************************************************************)
(* reserveEscrowJobSpend: without a limit the job reserves "0". *)
ReserveJob(j, usd, d) ==
    /\ res[j].status = "NONE"
    /\ active
    /\ usd > 0
    /\ LET usdReserved == IF limit > 0 THEN usd ELSE 0
       IN  /\ res' = [res EXCEPT ![j] = [status |-> "PENDING", usd |-> usdReserved,
                                         day |-> d, due |-> FALSE]]
           /\ volume' = Added(volume, d, usdReserved)
    /\ Room(limit, volume', d, d)
    /\ UNCHANGED <<rpVars, policyVars, tx>>

(* releaseJobEscrow is two writes: only the caller whose conditional write *)
(* cancels the reservation gives its volume back, if it lives to.  Fault:  *)
(* the write is not conditional.                                           *)
FaultReleasableAgain(r) == r.status \in {"PENDING", "CANCELLED"}
Releasable(r) == r.status = "PENDING"
ReleaseJob(j) ==
    /\ Releasable(res[j])
    /\ res' = [res EXCEPT ![j].status = "CANCELLED", ![j].due = TRUE]
    /\ UNCHANGED <<rpVars, policyVars, volume, tx>>

CreditJob(j) ==
    /\ res[j].due
    /\ res' = [res EXCEPT ![j].due = FALSE]
    /\ volume' = Subtracted(volume, res[j].day, res[j].usd)
    /\ UNCHANGED <<rpVars, policyVars, tx>>

(* markEscrowReleased: the budget was paid. *)
PayJob(j) ==
    /\ res[j].status = "PENDING"
    /\ res' = [res EXCEPT ![j].status = "RELEASED"]
    /\ UNCHANGED <<rpVars, policyVars, volume, tx>>

(***************************************************************************)
(* x402 payments and the policy.                                           *)
(***************************************************************************)
(* The reservation of ResourcePayments with its fourth check, the policy   *)
(* (evaluateUsdcSpend).                                                    *)
ReservePayment(p, payee, usd, d) ==
    /\ Reserve(p, payee, usd, d)
    /\ active
    /\ limit > 0 => volume[d] + X402Since(d) + usd <= limit
    /\ UNCHANGED slVars

PaymentStep ==
    /\ \/ \E p \in Pays : AttemptStep(p)
       \/ \E p \in Pays, payee \in Payees, usd \in Prices : RecordRefusal(p, payee, usd)
       \/ OutsideStep
    /\ UNCHANGED slVars

SetLimit(l) ==
    /\ l # limit
    /\ limit' = l
    /\ steady' = FALSE
    /\ UNCHANGED <<rpVars, active, volume, tx, res>>

SetActive ==
    /\ MayPause
    /\ active' = ~active
    /\ steady' = FALSE
    /\ UNCHANGED <<rpVars, limit, volume, tx, res>>

SpendInit ==
    /\ RpInit
    /\ limit \in Limits
    /\ active = TRUE
    /\ steady = TRUE
    /\ volume = [d \in Days |-> 0]
    /\ tx = [t \in Txs |-> [status |-> "none", usd |-> 0, unpriced |-> FALSE, gated |-> FALSE,
                            sent |-> FALSE, vol |-> "NONE", day |-> 0]]
    /\ res = [j \in Jobs |-> [status |-> "NONE", usd |-> 0, day |-> 0, due |-> FALSE]]

TxStep(t) ==
    \/ \E usd \in Values \cup {0}, unpriced \in BOOLEAN : Ask(t, usd, unpriced)
    \/ Withdraw(t)
    \/ \E d \in CapturedDays, gated \in BOOLEAN : Create(t, d, gated)
    \/ \E d \in CapturedDays : Approve(t, d)
    \/ Reject(t) \/ Unapprove(t) \/ Stop(t) \/ Submit(t) \/ Observe(t) \/ SettleVolume(t)

JobStep(j) ==
    \/ \E usd \in Values, d \in CapturedDays : ReserveJob(j, usd, d)
    \/ ReleaseJob(j) \/ CreditJob(j) \/ PayJob(j)

PolicyStep ==
    \/ \E l \in Limits : SetLimit(l)
    \/ SetActive

SpendNext ==
    \/ \E t \in Txs : TxStep(t)
    \/ \E j \in Jobs : JobStep(j)
    \/ \E p \in Pays, payee \in Payees, usd \in Prices, d \in CapturedDays :
          ReservePayment(p, payee, usd, d)
    \/ PaymentStep
    \/ PolicyStep

(***************************************************************************)
(* Properties; the run of LegacyReservations checks them.                  *)
(***************************************************************************)
Committed(d) == volume[d] + X402On(d)

(* Types; a row has a reservation exactly if it was created and is worth   *)
(* something (createTransactionWithVolume), and volume that is due is of a *)
(* cancelled job.                                                          *)
SpendTypeOK ==
    /\ limit \in Limits
    /\ active \in BOOLEAN
    /\ steady \in BOOLEAN
    /\ volume \in [Days -> Nat]
    /\ tx \in [Txs -> TxRow]
    /\ res \in [Jobs -> JobRow]
    /\ \A t \in Txs : tx[t].vol # "NONE" <=>
                          tx[t].usd > 0 /\ tx[t].status \notin {"none", "asked"}
    /\ \A j \in Jobs : res[j].due => res[j].status = "CANCELLED"

(* What a transaction may have moved of a day. *)
MaySpend(d) ==
    [t \in Txs |-> IF tx[t].sent /\ tx[t].status # "REVERTED" /\ tx[t].day = d THEN tx[t].usd ELSE 0]

(* "One daily limit holds across them" (daily-volume.ts): what was sent or *)
(* is promised of a day is within the limit, under pauses too.             *)
OneDailyLimit ==
    \A d \in Days :
        limit > 0 => SumTo(MaySpend(d), MaxTxs) + SumTo(ResCharges(res, d), MaxJobs) + X402On(d) <= limit

(* The same, as far as the code keeps it: under a policy that was neither  *)
(* changed nor paused, whatever was dropped, reverted, moved to a later    *)
(* day or given back on the way.                                           *)
SentWithinLimit == steady => OneDailyLimit
=============================================================================
