---------------------------- MODULE EscrowFunding ----------------------------
(***************************************************************************)
(* How the backend funds ERC-8183 jobs (services/job/                      *)
(* escrow-erc8183.service.ts): for every job the wallet of its requester   *)
(* sends create, setBudget, approve and fund, each a Transaction row that  *)
(* the transaction queue signs.  All jobs here belong to one requester, so *)
(* they share one wallet, whose transactions are mined in the order they   *)
(* were broadcast (their nonces), and one allowance of the escrow.         *)
(*                                                                         *)
(* The outcome of a row is handled in memory (outcomes, unwinding, todo):  *)
(* a crash loses it, and the reconciliation derives it again from the      *)
(* chain.  A row declared dropped may still be mined.  Identity binding    *)
(* and everything from `submit` on are left to other modules.              *)
(***************************************************************************)
EXTENDS Naturals, Sequences, FiniteSets

CONSTANTS
    Budget,       \* job number -> its budget; jobs are numbered by createdAt
    ClockSkew,    \* may the backend see a deadline pass before the chain does?
    MaxAttempts,  \* bound: Transaction rows per step
    Scenarios     \* bounds of a behaviour: its jobs, those their parties may
                  \* cancel or fail, those whose deadline may pass, and the
                  \* number of drops, blocks, crashes, failed reads and enqueues

Jobs  == DOMAIN Budget
Steps == {"create", "setBudget", "approve", "fund"}

ASSUME FundingAssumption ==
    /\ Jobs \subseteq Nat \ {0} /\ IsFiniteSet(Jobs)
    /\ Budget \in [Jobs -> Nat \ {0}]
    /\ ClockSkew \in BOOLEAN
    /\ MaxAttempts \in Nat \ {0}
    /\ Scenarios \subseteq [jobs : SUBSET Jobs, leavers : SUBSET Jobs,
                             deadlines : SUBSET Jobs, faults : Nat]

VARIABLES
    status,     \* Job.status
    onChain,    \* Job.onChainStatus
    known,      \* jobs whose onChainJobId is recorded
    reserved,   \* jobs whose reward is reserved in the requester's daily volume
    tx,         \* tx[j][s]: the status of every Transaction row of the step
    outcomes,   \* memory: outcomes handed to onEscrowTxOutcome
    unwinding,  \* memory: failures about to be written, the chain was read
    todo,       \* memory: what the handlers still have to do after a write
    rejects,    \* the settlement queue's reject entries
    chain,      \* external: the job's status in the escrow contract
    budgetSet,  \* external: jobs whose budget the contract knows
    allowance,  \* external: what the escrow may pull from the requester
    mempool,    \* external: the wallet's transactions, in nonce order
    mined,      \* external: mined transactions and whether they succeeded
    overdue,    \* jobs past expiresAt on the backend's clock ...
    expired,    \* external: ... and on the chain's
    scenario,   \* the bounds of this behaviour, chosen once
    faults      \* faults so far

rowVars   == <<status, onChain, known, reserved, tx>>
memVars   == <<outcomes, unwinding, todo>>
chainVars == <<chain, budgetSet, allowance, mempool, mined>>
timeVars  == <<overdue, expired, scenario>>
fundVars  == <<rowVars, memVars, rejects, chainVars, timeVars, faults>>

LIVE_JOB_STATUSES        == {"PENDING", "ACCEPTED"}
Dead                     == {"CANCELLED", "FAILED"}
PRE_FUNDED_STATUSES      == {"CREATING", "OPEN", "BUDGET_SET", "APPROVED", "FAILED"}
FINAL_ON_CHAIN_STATUSES  == {"REJECTED", "EXPIRED", "EXPIRED_UNFUNDED"}
PENDING_TX_STATUSES      == {"QUEUED", "SUBMITTED"}
IN_FLIGHT_TX             == PENDING_TX_STATUSES \cup {"CONFIRMED"}
\* FAILED with a hash (declared dropped) and FAILED without one (never sent)
FailedTx                 == {"REVERTED", "DROPPED", "UNSENT"}

Live(j)     == status[j] \in LIVE_JOB_STATUSES
IsDead(j)   == status[j] \in Dead
Tx          == [job : Jobs, step : Steps, n : 1..MaxAttempts]

(* latestStepTx: the last row of a step. *)
HasRow(j, s) == tx[j][s] # <<>>
Latest(j, s) == tx[j][s][Len(tx[j][s])]
RowOf(t)     == tx[t.job][t.step][t.n]
SetRow(t, st) == tx' = [tx EXCEPT ![t.job][t.step][t.n] = st]

Fault == faults < scenario.faults /\ faults' = faults + 1

(***************************************************************************)
(* enqueueAgentStep: a step whose first row is in flight or confirmed is   *)
(* not sent again; after a failed one a new row is made.  When the queue   *)
(* refuses the entry the row is closed as never sent and no outcome comes. *)
(***************************************************************************)
Enqueue(j, s) ==
    \/ /\ HasRow(j, s) /\ tx[j][s][1] \in IN_FLIGHT_TX
       /\ UNCHANGED <<tx, faults>>
    \/ /\ ~(HasRow(j, s) /\ tx[j][s][1] \in IN_FLIGHT_TX)
       /\ Len(tx[j][s]) < MaxAttempts
       /\ \/ tx' = [tx EXCEPT ![j][s] = Append(@, "QUEUED")] /\ UNCHANGED faults
          \/ tx' = [tx EXCEPT ![j][s] = Append(@, "UNSENT")] /\ Fault

Init ==
    /\ status = [j \in Jobs |-> "NONE"]
    /\ onChain = [j \in Jobs |-> "NONE"]
    /\ known = {}
    /\ reserved = {}
    /\ tx = [j \in Jobs |-> [s \in Steps |-> <<>>]]
    /\ outcomes = {} /\ unwinding = {} /\ todo = {}
    /\ rejects = {}
    /\ chain = [j \in Jobs |-> "None"]
    /\ budgetSet = {}
    /\ allowance = 0
    /\ mempool = <<>>
    /\ mined = {}
    /\ overdue = {} /\ expired = {}
    /\ scenario \in Scenarios
    /\ faults = 0

(* POST /jobs and startEscrow: a start the queue refuses fails the job; the *)
(* process may also die before the enqueue.                                *)
Start(j) ==
    /\ j \in scenario.jobs /\ status[j] = "NONE"
    /\ \A i \in scenario.jobs : i < j => status[i] # "NONE"
    /\ Enqueue(j, "create") \/ (Fault /\ UNCHANGED tx)
    /\ LET refused == tx'[j]["create"] = <<"UNSENT">>
       IN  /\ status' = [status EXCEPT ![j] = IF refused THEN "FAILED" ELSE "PENDING"]
           /\ onChain' = [onChain EXCEPT ![j] = IF refused THEN "FAILED" ELSE "CREATING"]
           /\ reserved' = IF refused THEN reserved ELSE reserved \cup {j}
    /\ UNCHANGED <<known, memVars, rejects, chainVars, timeVars>>

(***************************************************************************)
(* The transaction pipeline, as this module needs it (module TxPipeline    *)
(* has it in full): a queued row is broadcast or blocked by the guard, a   *)
(* broadcast one is confirmed from its receipt or given up as dropped.     *)
(***************************************************************************)
Broadcast(t) ==
    /\ t.n <= Len(tx[t.job][t.step]) /\ RowOf(t) = "QUEUED"
    /\ SetRow(t, "SUBMITTED")
    /\ mempool' = Append(mempool, t)
    /\ UNCHANGED <<status, onChain, known, reserved, memVars, rejects, chain,
                   budgetSet, allowance, mined, timeVars, faults>>

Close(t, st) ==
    /\ SetRow(t, st)
    /\ outcomes' = outcomes \cup {t}
    /\ UNCHANGED <<status, onChain, known, reserved, unwinding, todo, rejects,
                   chainVars, timeVars>>

Block(t) ==
    /\ t.n <= Len(tx[t.job][t.step]) /\ RowOf(t) = "QUEUED"
    /\ Fault
    /\ Close(t, "UNSENT")

Drop(t) ==
    /\ \E i \in DOMAIN mempool : mempool[i] = t
    /\ RowOf(t) = "SUBMITTED"
    /\ Fault
    /\ Close(t, "DROPPED")

Confirm(t, ok) ==
    /\ <<t, ok>> \in mined
    /\ RowOf(t) = "SUBMITTED"
    /\ Close(t, IF ok THEN "CONFIRMED" ELSE "REVERTED")
    /\ UNCHANGED faults

(***************************************************************************)
(* The chain.  fund reverts unless the job is Open, has its budget, has    *)
(* not expired and the allowance covers it.                                *)
(***************************************************************************)
FaultSucceeds(t) ==
    /\ t.step \in {"setBudget", "fund"} => chain[t.job] = "Open"
    /\ t.step = "fund" => t.job \in budgetSet /\ t.job \notin expired
Succeeds(t) ==
    CASE t.step = "create"    -> TRUE
      [] t.step = "setBudget" -> chain[t.job] = "Open"
      [] t.step = "approve"   -> TRUE
      [] t.step = "fund"      -> /\ chain[t.job] = "Open" /\ t.job \in budgetSet
                                 /\ t.job \notin expired
                                 /\ allowance >= Budget[t.job]

Mine ==
    /\ mempool # <<>>
    /\ LET t  == Head(mempool)
           ok == Succeeds(t)
       IN  /\ mempool' = Tail(mempool)
           /\ mined' = mined \cup {<<t, ok>>}
           /\ chain' = IF ok /\ t.step = "create" THEN [chain EXCEPT ![t.job] = "Open"]
                       ELSE IF ok /\ t.step = "fund" THEN [chain EXCEPT ![t.job] = "Funded"]
                       ELSE chain
           /\ budgetSet' = IF ok /\ t.step = "setBudget" THEN budgetSet \cup {t.job}
                           ELSE budgetSet
           /\ allowance' = IF t.step = "approve" THEN Budget[t.job]
                           ELSE IF ok /\ t.step = "fund" THEN allowance - Budget[t.job]
                           ELSE allowance
    /\ UNCHANGED <<rowVars, memVars, rejects, timeVars, faults>>

(* A transaction the nodes really lost. *)
Evict(t) ==
    /\ \E i \in DOMAIN mempool :
          /\ mempool[i] = t /\ RowOf(t) = "DROPPED"
          /\ mempool' = SubSeq(mempool, 1, i - 1) \o SubSeq(mempool, i + 1, Len(mempool))
    /\ UNCHANGED <<rowVars, memVars, rejects, chain, budgetSet, allowance, mined,
                   timeVars, faults>>

(***************************************************************************)
(* The conditional writes that move a job forward.  They are guarded by    *)
(* the status in the row, so a second observer finds nothing to do.        *)
(***************************************************************************)
AdvanceToFunded(j) ==
    IF onChain[j] \in PRE_FUNDED_STATUSES
    THEN /\ onChain' = [onChain EXCEPT ![j] = "FUNDED"]
         /\ todo' = todo \cup {<<"funded", j>>}
    ELSE UNCHANGED <<onChain, todo>>

Advance(j, from, to, next) ==
    IF onChain[j] = from
    THEN /\ onChain' = [onChain EXCEPT ![j] = to]
         /\ todo' = todo \cup {<<next, j>>}
    ELSE UNCHANGED <<onChain, todo>>

(* onStepConfirmed *)
HandleConfirmed(t) ==
    LET j == t.job
    IN  /\ t \in outcomes /\ RowOf(t) = "CONFIRMED"
        /\ outcomes' = outcomes \ {t}
        /\ \/ /\ t.step = "create" /\ j \notin known
              /\ known' = known \cup {j}
              /\ onChain' = [onChain EXCEPT ![j] = "OPEN"]
              /\ todo' = todo \cup {<<"setBudget", j>>}
           \/ /\ t.step = "create" /\ j \in known
              /\ UNCHANGED <<known, onChain, todo>>
           \/ /\ t.step = "setBudget" /\ Advance(j, "OPEN", "BUDGET_SET", "budgetSet")
              /\ UNCHANGED known
           \/ /\ t.step = "approve" /\ Advance(j, "BUDGET_SET", "APPROVED", "fund")
              /\ UNCHANGED known
           \/ /\ t.step = "fund" /\ AdvanceToFunded(j)
              /\ UNCHANGED known
        /\ UNCHANGED <<status, reserved, tx, unwinding, rejects, chainVars, timeVars, faults>>

(* reconcileTerminal and finalizeAfterRefund: the DB follows the chain. *)
Mirror(j) ==
    /\ onChain' = [onChain EXCEPT ![j] = IF chain[j] = "Rejected" THEN "REJECTED" ELSE "EXPIRED"]
    /\ status' = [status EXCEPT ![j] = IF Live(j) THEN "FAILED" ELSE @]
    /\ reserved' = reserved \ {j}
    /\ UNCHANGED <<known, tx, todo, unwinding>>

(* openStepMined: the step a failure is reported of did mine.  For approve *)
(* the code takes any sufficient allowance for the job's own.              *)
OpenStepMined(j, s) ==
    /\ j \in budgetSet
    /\ \/ s = "setBudget" /\ Advance(j, "OPEN", "BUDGET_SET", "budgetSet")
       \/ /\ s = "approve" /\ allowance >= Budget[j]
          /\ Advance(j, "BUDGET_SET", "APPROVED", "fund")
    /\ UNCHANGED <<status, known, reserved, tx, unwinding>>

StepMined(j, s) ==
    j \in budgetSet /\ (s = "setBudget" \/ (s = "approve" /\ allowance >= Budget[j]))

(* handleStepFailure, up to the write of the failure: the chain decides.   *)
FailureVerdict(j, s) ==
    \/ /\ s # "create" /\ chain[j] \in {"Rejected", "Expired"}
       /\ Mirror(j)
    \/ /\ s # "create" /\ chain[j] = "Funded"
       /\ AdvanceToFunded(j)
       /\ UNCHANGED <<status, known, reserved, tx, unwinding>>
    \/ s # "create" /\ chain[j] = "Open" /\ OpenStepMined(j, s)
    \/ /\ s = "create" \/ (chain[j] \in {"None", "Open"} /\ ~StepMined(j, s))
       /\ unwinding' = unwinding \cup {<<j, Live(j)>>}
       /\ UNCHANGED <<rowVars, todo>>

HandleFailed(t) ==
    /\ t \in outcomes /\ RowOf(t) \in FailedTx
    /\ outcomes' = outcomes \ {t}
    /\ \/ FailureVerdict(t.job, t.step) /\ UNCHANGED faults
       \/ t.step # "create" /\ Fault /\ UNCHANGED <<rowVars, unwinding, todo>>  \* unreadable
    /\ UNCHANGED <<rejects, chainVars, timeVars>>

(* ... and the write, unconditional, with the job status loaded before.    *)
(* The chain may move in between; no other handler of the job runs.        *)
Unwind(j, wasLive) ==
    /\ <<j, wasLive>> \in unwinding
    /\ unwinding' = unwinding \ {<<j, wasLive>>}
    /\ onChain' = [onChain EXCEPT ![j] = "FAILED"]
    /\ status' = [status EXCEPT ![j] = IF wasLive THEN "FAILED" ELSE @]
    /\ reserved' = reserved \ {j}
    /\ todo' = todo \cup {<<"pump", j>>}
    /\ UNCHANGED <<known, tx, outcomes, rejects, chainVars, timeVars, faults>>

(***************************************************************************)
(* What follows a write: the next step, the funding lane, or the reject of *)
(* a job that was cancelled while its fund was in flight.                  *)
(***************************************************************************)
ContinueChain(j, s) ==
    /\ <<s, j>> \in todo
    /\ \/ Live(j) /\ Enqueue(j, s) /\ todo' = todo \ {<<s, j>>}
       \/ /\ ~Live(j)
          /\ todo' = (todo \ {<<s, j>>}) \cup (IF s = "fund" THEN {<<"pump", j>>} ELSE {})
          /\ UNCHANGED <<tx, faults>>
    /\ UNCHANGED <<status, onChain, known, reserved, outcomes, unwinding, rejects,
                   chainVars, timeVars>>

AfterBudgetSet(j) ==
    /\ <<"budgetSet", j>> \in todo
    /\ todo' = (todo \ {<<"budgetSet", j>>}) \cup (IF Live(j) THEN {<<"pump", j>>} ELSE {})
    /\ UNCHANGED <<rowVars, outcomes, unwinding, rejects, chainVars, timeVars, faults>>

AfterFunded(j) ==
    /\ <<"funded", j>> \in todo
    /\ rejects' = IF IsDead(j) THEN rejects \cup {j} ELSE rejects
    /\ todo' = (todo \ {<<"funded", j>>}) \cup {<<"pump", j>>}
    /\ UNCHANGED <<rowVars, outcomes, unwinding, chainVars, timeVars, faults>>

(* pumpFunding, under the lane's lock: the lane is held by a live APPROVED *)
(* job or by any pending approve or fund.                                  *)
LanePending ==
    \E j \in Jobs, s \in {"approve", "fund"} : \E i \in DOMAIN tx[j][s] :
        tx[j][s][i] \in PENDING_TX_STATUSES
FaultLaneBusy == LanePending \/ \E j \in Jobs : onChain[j] = "APPROVED"
LaneBusy      == LanePending \/ \E j \in Jobs : Live(j) /\ onChain[j] = "APPROVED"

Waiting == {j \in Jobs : Live(j) /\ onChain[j] = "BUDGET_SET"}

PumpFunding ==
    \/ /\ LaneBusy \/ Waiting = {}
       /\ UNCHANGED <<tx, faults>>
    \/ /\ ~LaneBusy
       /\ \E j \in Waiting : /\ \A i \in Waiting : j <= i
                             /\ Enqueue(j, "approve")

Pump(j) ==
    /\ <<"pump", j>> \in todo
    /\ todo' = todo \ {<<"pump", j>>}
    /\ PumpFunding
    /\ UNCHANGED <<status, onChain, known, reserved, outcomes, unwinding, rejects,
                   chainVars, timeVars>>

(***************************************************************************)
(* The parties (PATCH /jobs/:id).  A provider accepts only a FUNDED job;   *)
(* cancelling or failing one schedules a reject once it is on the chain.   *)
(***************************************************************************)
FaultMayAccept(j) == status[j] = "PENDING" /\ onChain[j] \in {"APPROVED", "FUNDED"}
MayAccept(j)      == status[j] = "PENDING" /\ onChain[j] = "FUNDED"

Accept(j) ==
    /\ MayAccept(j)
    /\ j \notin overdue
    /\ status' = [status EXCEPT ![j] = "ACCEPTED"]
    /\ UNCHANGED <<onChain, known, reserved, tx, memVars, rejects, chainVars, timeVars, faults>>

(* requestCancellationReject; the queue may refuse the entry. *)
RequestReject(j) ==
    \/ /\ j \in known /\ onChain[j] \notin FINAL_ON_CHAIN_STATUSES
       /\ rejects' = rejects \cup {j} /\ UNCHANGED faults
    \/ /\ j \notin known \/ onChain[j] \in FINAL_ON_CHAIN_STATUSES
       /\ UNCHANGED <<rejects, faults>>
    \/ Fault /\ UNCHANGED rejects

Leave(j, to) ==
    /\ j \in scenario.leavers
    /\ \/ to = "CANCELLED" /\ Live(j)
       \/ to = "FAILED" /\ status[j] = "ACCEPTED"
    /\ status' = [status EXCEPT ![j] = to]
    /\ reserved' = reserved \ {j}
    /\ RequestReject(j)
    /\ UNCHANGED <<onChain, known, tx, memVars, chainVars, timeVars>>

(***************************************************************************)
(* The settlement queue, as this module needs it: rejectForCancellation    *)
(* and the refund of the expiry sweep both read the chain first.           *)
(***************************************************************************)
EvaluatorReject(j) ==
    /\ j \in rejects
    /\ rejects' = rejects \ {j}
    /\ \/ /\ chain[j] \in {"None", "Open"} \/ (chain[j] = "Funded" /\ Live(j))
          /\ UNCHANGED <<rowVars, unwinding, todo, chain>>
       \/ /\ chain[j] \in {"Rejected", "Expired"}
          /\ Mirror(j) /\ UNCHANGED chain
       \/ /\ chain[j] = "Funded" /\ IsDead(j)
          /\ chain' = [chain EXCEPT ![j] = "Rejected"]
          /\ onChain' = [onChain EXCEPT ![j] = "REJECTED"]
          /\ reserved' = reserved \ {j}
          /\ UNCHANGED <<status, known, tx, unwinding, todo>>
    /\ UNCHANGED <<outcomes, budgetSet, allowance, mempool, mined, timeVars, faults>>

(* closeUnfundedExpired, when the contract has the job as Open. *)
FaultUnfunded(j) == onChain[j] \in PRE_FUNDED_STATUSES
Unfunded(j)      == chain[j] = "Open"

CloseUnfunded(j) ==
    /\ onChain' = [onChain EXCEPT ![j] = "EXPIRED_UNFUNDED"]
    /\ status' = [status EXCEPT ![j] = IF Live(j) THEN "FAILED" ELSE @]
    /\ reserved' = reserved \ {j}
    /\ UNCHANGED <<known, tx, unwinding, todo>>

(* sweepExpiredEscrows and claimRefund *)
SweepExpired(j) ==
    /\ j \in known /\ j \in overdue
    /\ onChain[j] \notin FINAL_ON_CHAIN_STATUSES
    /\ \/ Unfunded(j) /\ CloseUnfunded(j) /\ UNCHANGED chain
       \/ chain[j] \in {"Rejected", "Expired"} /\ Mirror(j) /\ UNCHANGED chain
       \/ /\ chain[j] = "Funded" /\ j \in expired
          /\ chain' = [chain EXCEPT ![j] = "Expired"]
          /\ onChain' = [onChain EXCEPT ![j] = "EXPIRED"]
          /\ status' = [status EXCEPT ![j] = IF Live(j) THEN "FAILED" ELSE @]
          /\ reserved' = reserved \ {j}
          /\ UNCHANGED <<known, tx, unwinding, todo>>
    /\ UNCHANGED <<outcomes, rejects, budgetSet, allowance, mempool, mined, timeVars, faults>>

(***************************************************************************)
(* The reconciliation pass of the recovery tick.                           *)
(***************************************************************************)
(* Only rows that have not moved for a while are picked: none of the job's  *)
(* handlers is still running.                                              *)
Stale(j) ==
    /\ \A t \in outcomes : t.job # j
    /\ \A u \in unwinding : u[1] # j
    /\ \A w \in todo : w[2] # j

FaultPicked(j) == Live(j) /\ onChain[j] \in {"CREATING", "OPEN", "BUDGET_SET", "APPROVED"}
Picked(j) ==
    \/ Live(j) /\ onChain[j] \in {"CREATING", "OPEN", "BUDGET_SET", "APPROVED"}
    \/ /\ IsDead(j) /\ j \in known
       /\ \/ onChain[j] \in {"APPROVED", "FUNDED"}
          \/ onChain[j] = "FAILED" /\ j \notin overdue

(* Replays the outcome of a closed row; nothing to do while one is pending. *)
Replay(j, s) ==
    /\ outcomes' = IF Latest(j, s) \in PENDING_TX_STATUSES THEN outcomes
                   ELSE outcomes \cup {[job |-> j, step |-> s, n |-> Len(tx[j][s])]}
    /\ UNCHANGED <<rowVars, unwinding, todo, rejects, faults>>

ReconcileCreate(j) ==
    /\ j \notin known
    /\ \/ /\ ~HasRow(j, "create")
          /\ unwinding' = unwinding \cup {<<j, TRUE>>}
          /\ UNCHANGED <<rowVars, outcomes, todo, rejects, faults>>
       \/ HasRow(j, "create") /\ Replay(j, "create")

ReconcileFunded(j) ==
    /\ chain[j] = "Funded"
    /\ AdvanceToFunded(j)
    /\ rejects' = IF IsDead(j) /\ onChain[j] \notin PRE_FUNDED_STATUSES
                  THEN rejects \cup {j} ELSE rejects
    /\ UNCHANGED <<status, known, reserved, tx, outcomes, unwinding, faults>>

StepOf(j) == CASE onChain[j] = "OPEN"       -> "setBudget"
               [] onChain[j] = "BUDGET_SET" -> "approve"
               [] onChain[j] = "APPROVED"   -> "fund"

(* resumeFundingStep *)
ResumeFundingStep(j, s) ==
    \/ HasRow(j, s) /\ Replay(j, s)
    \/ /\ ~HasRow(j, s)
       /\ \/ /\ s = "setBudget" /\ j \in budgetSet
             /\ OpenStepMined(j, s) /\ UNCHANGED faults
          \/ /\ s = "setBudget" /\ j \notin budgetSet /\ Enqueue(j, s)
             /\ UNCHANGED <<status, onChain, known, reserved, unwinding, todo>>
          \/ /\ s = "approve" /\ PumpFunding
             /\ UNCHANGED <<status, onChain, known, reserved, unwinding, todo>>
          \/ /\ s = "fund" /\ Enqueue(j, s)
             /\ UNCHANGED <<status, onChain, known, reserved, unwinding, todo>>
       /\ UNCHANGED <<outcomes, rejects>>

ReconcileOpen(j) ==
    /\ chain[j] = "Open"
    /\ \/ /\ j \in overdue /\ CloseUnfunded(j)
          /\ UNCHANGED <<outcomes, rejects, faults>>
       \/ j \notin overdue /\ Live(j) /\ ResumeFundingStep(j, StepOf(j))

ReconcileEscrowJob(j) ==
    /\ Stale(j) /\ Picked(j)
    /\ \/ ReconcileCreate(j)
       \/ /\ j \in known
          /\ (IsDead(j) /\ onChain[j] = "FAILED") =>
                 HasRow(j, "fund") /\ Latest(j, "fund") = "DROPPED"
          /\ \/ /\ chain[j] \in {"Rejected", "Expired"} /\ Mirror(j)
                /\ UNCHANGED <<outcomes, rejects, faults>>
             \/ ReconcileFunded(j)
             \/ ReconcileOpen(j)
    /\ UNCHANGED <<chainVars, timeVars>>

(***************************************************************************)
(* Time and crashes.                                                       *)
(***************************************************************************)
Expire(j) ==
    /\ j \in scenario.deadlines /\ status[j] # "NONE"
    /\ \/ /\ ClockSkew /\ j \notin overdue
          /\ overdue' = overdue \cup {j} /\ UNCHANGED expired
       \/ /\ j \notin expired
          /\ ClockSkew => j \in overdue
          /\ overdue' = overdue \cup {j} /\ expired' = expired \cup {j}
    /\ UNCHANGED <<rowVars, memVars, rejects, chainVars, scenario, faults>>

Crash ==
    /\ ~(outcomes = {} /\ unwinding = {} /\ todo = {})
    /\ Fault
    /\ outcomes' = {} /\ unwinding' = {} /\ todo' = {}
    /\ UNCHANGED <<rowVars, rejects, chainVars, timeVars>>

Pipeline(t) == Broadcast(t) \/ Block(t) \/ Drop(t) \/ (\E ok \in BOOLEAN : Confirm(t, ok))

Handlers(j) ==
    \/ \E wasLive \in BOOLEAN : Unwind(j, wasLive)
    \/ /\ \A u \in unwinding : u[1] # j
       /\ \/ \E t \in outcomes : t.job = j /\ (HandleConfirmed(t) \/ HandleFailed(t))
          \/ \E s \in {"setBudget", "fund"} : ContinueChain(j, s)
          \/ AfterBudgetSet(j) \/ AfterFunded(j) \/ Pump(j)

Parties(j) == Start(j) \/ Accept(j) \/ \E to \in Dead : Leave(j, to)

Next ==
    \/ \E j \in Jobs : Parties(j) \/ Handlers(j) \/ EvaluatorReject(j) \/ SweepExpired(j)
                          \/ ReconcileEscrowJob(j) \/ Expire(j)
    \/ \E t \in Tx : Pipeline(t) \/ Evict(t)
    \/ Mine
    \/ Crash

FundSpec == Init /\ [][Next]_fundVars

Progress ==
    \/ Mine
    \/ \E t \in Tx : Broadcast(t) \/ \E ok \in BOOLEAN : Confirm(t, ok)
    \/ \E j \in Jobs : Handlers(j)

(* The worker, the settlement queue and the recovery tick keep running and *)
(* the wallet's transactions keep being mined.  Nothing makes time pass.   *)
Fairness ==
    /\ WF_fundVars(Progress)
    /\ \A j \in Jobs : WF_fundVars(EvaluatorReject(j) \/ ReconcileEscrowJob(j))

FairFundSpec == FundSpec /\ Fairness

(***************************************************************************)
(* Properties.                                                             *)
(***************************************************************************)
FundTypeOK ==
    /\ status \in [Jobs -> {"NONE"} \cup LIVE_JOB_STATUSES \cup Dead]
    /\ onChain \in [Jobs -> {"NONE", "FUNDED"} \cup PRE_FUNDED_STATUSES
                               \cup FINAL_ON_CHAIN_STATUSES]
    /\ known \subseteq Jobs /\ reserved \subseteq Jobs /\ rejects \subseteq Jobs
    /\ tx \in [Jobs -> [Steps -> Seq(IN_FLIGHT_TX \cup FailedTx)]]
    /\ outcomes \subseteq Tx
    /\ unwinding \subseteq Jobs \X BOOLEAN
    /\ todo \subseteq {"setBudget", "budgetSet", "fund", "funded", "pump"} \X Jobs
    /\ chain \in [Jobs -> {"None", "Open", "Funded", "Rejected", "Expired"}]
    /\ budgetSet \subseteq Jobs /\ allowance \in Nat
    /\ mempool \in Seq(Tx) /\ mined \subseteq Tx \X BOOLEAN
    /\ overdue \subseteq Jobs /\ expired \subseteq Jobs

(* A provider that was let to accept works for a job whose budget is locked *)
(* until it expires: no late or lost outcome, no replay and no              *)
(* cancellation of another job fails it or finds it unfunded.               *)
AcceptedIsFunded ==
    \A j \in Jobs : status[j] = "ACCEPTED" => chain[j] \in {"Funded", "Expired"}

(* A job the backend regards as over never holds a budget on the chain. *)
FinalIsSettled ==
    \A j \in Jobs :
        onChain[j] \in FINAL_ON_CHAIN_STATUSES => chain[j] # "Funded"

(* A budget that is locked for a job that was cancelled or failed meanwhile *)
(* is refunded through the evaluator, without waiting for the deadline.     *)
DeadBudgetsReturn ==
    \A j \in Jobs : (IsDead(j) /\ chain[j] = "Funded") ~> (chain[j] # "Funded" \/ j \in overdue)

(* A live job waiting for the lane is not left there for ever. *)
LaneMoves ==
    \A j \in Jobs : (j \in Waiting) ~> (j \notin Waiting)
=============================================================================
