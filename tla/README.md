# A verification project for AgentFi

AgentFi lets AI agents hold wallets, trade, and pay each other for jobs. Its
backend (`packages/backend`, TypeScript on Postgres, Redis and BullMQ) signs and
sends transactions under spending policies; its contracts (`packages/contracts`,
Solidity) hold the money of jobs and enforce policies on chain. The parts that
move money are specified here in TLA+, checked with TLC on small instances and,
where it matters most, proved with TLAPS for every value of the constants.

## 1. Inventory

Every path below is relative to `packages/`. PROJECT.json lists all components,
also the ones without a model, and the hazards of the code at their lines.

| Component | State it keeps | Operations | Talks to | What is hard | What makes it correct |
|---|---|---|---|---|---|
| ERC-8183 escrow, `contracts/src/AgentJobEscrow.sol` | jobs, pending fees, pause, fee wallet, token balance | createJob, setProvider, setBudget, fund, submit, complete, reject, claimRefund, setProviderAgentId, withdrawPlatformFees, setFeeWallet, pause | an ERC-20 token, a hook | settlement races the expiry refund; blocked recipients; rounding fees in a shared pot | solvent; terms fixed once funded; one settlement; an exit that nothing closes |
| Reputation hook, `contracts/src/ReputationHook.sol` | canonical identity per provider, penalties | afterAction, revokeFeedback, clearPenalties | the escrow; two ERC-8004 registries | identities move between submission and verdict; the registry fails | no verdict dodged; one identity per provider; never blocks a settlement |
| Transaction pipeline, `backend/src/queues/transaction.*`, `services/transaction/*` | Transaction rows, BullMQ jobs, wallet lane, nonces, monitors | guard, sign, stamp, send, record, observe, re-poll, drop, sweep | Postgres, Redis, RPC nodes | redelivery, death between two writes, lost answers, several observers | value moves at most once; the books agree with the chain; every row settles |
| A2A payments, `services/job/payment-finalizer.service.ts`, `queues/payment-recovery.queue.ts` | job status, reservation, provider's counter | finalize (confirmed / failed), recovery scan | the pipeline | reads and writes are separate; recovery runs beside the handler | settled once, in the direction the chain says |
| Daily volume, `services/policy/daily-volume.ts`, `escrow.service.ts`, `payments/resource-payment-ledger.ts` | volume per agent and day, reservations of three kinds | reserve, approve, commit, hold, release, sweep | agent row lock | three ledgers under one limit, midnight, two days of one reservation | the limit holds; a day's volume is what is reserved on it |
| x402 payments, `services/payments/*` | ResourcePayment rows | reserve, sign, answer, reconcile, retry | other servers' HTTP, the chain | a refused or unanswered authorization stays payable until it expires; attempts race for one budget | what can still be paid is counted; the budget holds |
| ERC-8183 orchestrator, `services/job/escrow-erc8183.service.ts` | job rows, steps, reviews, deadlines | fund, deliver, contest, resolve, cancel, settle, sweep, reconcile | pipeline, escrow contract, evaluator ledger | a mirror of the chain that lags; races of cancel, deliver, decide, expire | mirror never ahead of the chain; one decision per job |
| Provider identity, `services/job/erc8004-identity.service.ts` | identity row, binding of each job, deferred submits | register, bind, vet, outcome, repair, defer, release | orchestrator, pipeline, identity registry, escrow contract | one row many jobs wait for; lost receipts and claimers; a bind and a submit of one wallet | one identity per provider; bound before submitted; nobody waits for ever |
| Evaluator ledger, `services/escrow/*` | candidates, nonces, job stamps | insert, send, resolve, replace, rebroadcast, prove | several RPC nodes | absence of a transaction must be proved before its nonce is reused | one transaction per nonce decision; none forgotten |
| Wallet lanes, `services/transaction/wallet-lane.ts` | Redis locks, last nonce | run, acquire, assertHeld, release | pipeline, evaluator | a lease that lapses under its holder | one signer per wallet |
| Policy stack, `contracts/src/AgentPolicyModule.sol`, `AgentExecutor.sol`, `services/policy/policy-sync*.ts` | policy, whitelists, cooldown; queued sync calls | setPolicy, whitelists, pause, resume, execute, sync | pipeline | the stored policy changes while older calls are in flight | the module ends at the stored policy |
| Legacy escrow, `contracts/src/EscrowModule.sol` | escrow per job | lock, release, refund | token | best-effort calls of the backend | pays once |
| The rest: HTTP routes, MCP server, adapters, admin UI, boot checks, wallet providers, DeFi builders, billing, notifications, scripts | none that the above do not keep | | | I/O and formatting | |

How they meet: a route or the orchestrator inserts a Transaction row (with its
reservation) and enqueues a BullMQ job; the pipeline sends it; an observer of the
receipt settles the row's reservation and tells the job's owner (the A2A
finalizer or the orchestrator); a tick repeats whatever a dead process left
undone. Escrow steps reach `AgentJobEscrow`, which calls `ReputationHook` inside
its own transactions.

## 2. The modules

| Module | Models |
|---|---|
| `AgentJobEscrow` | the escrow contract and its token |
| `TxPipelineProofs`, `EscrowFundingProofs`, `EscrowSettlementProofs`, `EvaluatorLedgerProofs`, `PolicySyncProofs`, `ProviderIdentityProofs` | the theorems of the module they are named after |
| `EscrowContractProofs` | the theorems of `AgentJobEscrow` and `ReputationHook` |
| `SpendingProofs` | the theorems of `ResourcePayments`, `SpendLedger` and `LegacyReservations` |
| `ReputationHook` | EXTENDS `AgentJobEscrow`: the hook inside the escrow's transactions |
| `TxPipeline` | the backend's pipeline from a QUEUED row to its settled outcome |
| `EscrowFunding` | how the backend creates and funds escrow jobs, in the requester's lane |
| `JobReview` | abstract: what the backend promises about the money of one delivered job |
| `EscrowSettlement` | how a funded job is delivered, contested, decided and settled; implements `JobReview` |
| `ProviderIdentity` | how a provider gets its ERC-8004 identity, and its jobs are bound to it before their submit |
| `EvaluatorLedger` | the evaluator key's candidates: gate, send, reconciliation pass, rebroadcast, the operator's script |
| `PolicyModule` | the policy module's writes, and what it answers |
| `PolicySync` | EXTENDS `PolicyModule`: how the stored policy reaches it |
| `Sums` | sums over ledger rows |
| `ResourcePayments` | x402 payments of a provider out of a job's budget |
| `SpendLedger` | EXTENDS `ResourcePayments`: transactions, escrow jobs and x402 payments under one daily limit |
| `LegacyReservations` | EXTENDS `SpendLedger`: adds the reservation of jobs that take no lock, and the bounds of the one run of all three |
| `MC...` | instances: model values, scenarios and symmetries for TLC |

A module with a `Scenarios` constant chooses, once per behaviour, which actors
there are and how much may go wrong: one run then covers several small
instances, each with its own mix of faults, instead of one that is too large.

### AgentJobEscrow

One action is one transaction that succeeds; `nonReentrant` makes it atomic, and
a call that reverts is no step. The variables are the storage of the contract
plus three of the environment: `balance` and `blocked` (the token: exact
transfers, because `_pullExact` refuses others, and a blacklist as USDC has) and
`now` (block.timestamp). Guards are the reverts in the order of the code, and
`CanPay` is the revert of the token. `complete` pays provider and evaluator and
only accrues the platform fee, as the code does. Whoever is not the zero address may
be named as a provider, an evaluator or the fee wallet, the contract itself too
(`Account`), although it never calls: fees it sweeps to itself stay in its balance and
belong to nobody, and the history variable `stray` counts them. The token is taken
never to refuse the contract itself, and any transfer of tokens to the contract
outside its functions is left out (it would add a surplus nobody owns).

### ReputationHook

`HSubmit`, `HComplete` and `HReject` conjoin the escrow's action with what
`afterAction` does in the same transaction. `Gate` is the conjunction of the
code's early returns; `Write` has the outcomes of the registry call: recorded,
refused (a penalty for a verdict), or parameters that do not decode. The
registries are external: `controllers` changes at will between two steps, and a
call to the identity registry may also fail, so that a bind is never forced.
A reason code is `quality-rejected` or any other. The history variables
`boundAtSubmit`, `verdicts` and `unrecorded` are read by properties only.

### TxPipeline

The kind of a row is fixed when it is created: an A2A payment, an ordinary
transfer, one routed through the executor, or a policy sync; the last two wait
for verified contracts, and a policy sync is superseded rather than paused.
Postgres statements that are one conditional UPDATE are one step (`Stamped`,
`Stopped`, `Submitted`, `Observe`, the settlements of the volume); everything
separated by an `await` is several. A delivery goes guard, (block,) lane, sign,
check, stamp, send, record, and may die anywhere (`Crash`), throw
(`Error`, `SendFails`), or stall and be redelivered while it is still running
(`Stall`, after which `Owns` is false and BullMQ ignores its return). What
follows an outcome (`fin`) is the volume settlement and then the finalizer, which
reads, moves the reservation, credits, and flips the job in separate steps; the
recovery tick runs the same finalizer beside it (`Scan`). The chain holds
transactions in `pool`, loses them (`Evict`), hides them (`hidden`: sent, but no
node admits to it) and mines them in nonce order.

Two assumptions about time (`Timely`) hold of a row unless its kind is in the
constant `LateKinds`: a send whose answer was given up does not arrive later, and
nodes keep a transaction at least until the delivery that sent it wrote
SUBMITTED (`Awaited`), so that neither is it dropped nor is another row's
transaction of the same nonce mined before; and the lane's TTL (120 s) does not
run out under a live holder.

A third is always made: the grace of the drop (30 min) outlasts a send in flight
(`GraceElapsed`).

Simplifications, none of which a property depends on: one wallet on one chain;
rows have distinct calldata, so no two rows sign the same bytes (the NOT EXISTS
of `stopStampedTransaction` is about that); every row was stamped with a hash
(rows older than migration 0024 are not); the reads of the guard and of the
stranded sweep are single steps, followed by conditional writes; the dead-letter
queue, fees, events, prices and gas are left out; ERC-8183 rows, whose outcome
goes to the orchestrator, are not in this module.

### EscrowFunding

All jobs belong to one requester, so they share a wallet (transactions are mined
in nonce order, `mempool`), one allowance of the escrow, and a lane that the
oldest live job holds. A step of a job is a Transaction row; its outcome is
handled in memory (`outcomes`, `unwinding`, `todo`), which `Crash` loses and
`ReconcileEscrowJob` derives again from the chain. A row that was declared
dropped may still be mined. A write of the code that follows an `await` is its
own action, so a cancellation or another job's outcome can fall in between.
`ClockSkew` says whether the backend may see a deadline pass before the chain
does; the runs exclude it (section 5).

### JobReview and EscrowSettlement

`JobReview` is the promise, in one page: who may move a delivered job's budget,
and where to. `EscrowSettlement` is the code: one job, the settlement worker
(`w`) with the snapshot of the row it works with, the API (`api`) that contests
and decides, the handler of an entry that failed for good (`failing`), the
recovery tick, the expiry sweep, the candidates of the ledger, the chain at
`latest` and at the proof tag. The refinement mapping (`Promise`) reads the
outcome off the proof tag and the decision off the row.

Simplifications: the entries of the queue are a set per action (BullMQ's job ids
make them so); the settlement's finalizer is one step (its own steps are in
`TxPipeline`); the provider's submit is not reorganised; the mirror of a
candidate's status into the ledger takes no time here (`EvaluatorLedger` is
about that); a decision "payout blocked" is a refund; the evaluation delay is
any delay; the recovery tick is one step; which of several candidates replaces
which is in `EvaluatorLedger`; `CandidatePass` may act repeatedly.

The handler of a failed entry reads the row and writes it in a second statement
(`FailureRead`, `FailureWritten`), and nothing orders them before the worker's next
entry. A write that comes too late undoes something: a claim that the worker has taken
and not used yet, or an outcome that was booked. Such a write counts as a fault, so
that a scenario bounds it, and the history variable `undone` notes what it took away
(section 5).

### ProviderIdentity

One provider on one chain. What runs is a *flow*: the binding a funded job starts
(`start`), a delivery (`deliver`), the handler of a row's outcome, and the
recovery tick. Every statement of the database is a step (`pc`), what a flow has
read travels with it (`id`, `ok`, `todo`), and so does its debt, the submits it
will have to release (`ended`). The identity row is claimed by writes that are
conditional on what was read; the rows are QUEUED, VETTED (past the guard's
`vetBindBeforeBroadcast`), SUBMITTED, and then mined, blocked or declared
dropped; a dropped one stays in `mempool` and is mined in the order of the
nonces. `after` stands for the comparison of the claim's time with the register
row's. A tick looks at jobs no flow has in hand (`Stale`), and takes a claimer for
dead when no flow is between its claim and its register.

A flow that is about to fail the identity carries the number of the register that
failed (`id`), and the history variable `overwritten` notes that the failure was
written while another registration was alive (section 5): what the code promises
of one identity holds until then.

Nothing is assumed about how long a flow takes: blocks and deliveries come between any
two of its statements. Claiming an identity row is one statement (`ClaimRow`) and
reading it again another (`Reread`): a caller that lost the claim joins whatever row it
then finds, or fails the waiting jobs if that is FAILED. A query that throws while a
binding is started ends it (`StartFails`). What a bind carries is fixed when it is
enqueued (`calldata`), and this is what the chain binds. The history variable `passed`
notes the jobs whose binding was passed by: a delivery read the job before BINDING was
written, or a flow that took the job for waiting ended a binding whose bind had been
claimed since. Section 5 says what happens to those.

Left out: chains without a hook or a registry (the binding is SKIPPED at once), a
change of the registry, the owner check of the `Registered` event, the payment
after the submit (`EscrowSettlement`), the reverted or dropped submit (there too).

### EvaluatorLedger

A settlement is a ledger row before it leaves. `InLane` is a sender's critical
section: the gate over the ledger's rows (`GateRows`), the nonce (`ChooseNonce`),
the record with the job's stamp, the send. The pass (`PassRuns`) reads the rows
once, asks each node at its own moment, and then, row by row, writes what the
answers prove: `Resolved` at `latest`, `Reverted` when a reorganisation took the
block away, proven at the tag. A node that lags is a node that was asked early.
The script replaces the head's transaction with a no-op or a re-priced copy.

Simplifications: the gate's reads of all nodes are one step (the earliest read
is the strictest); the live statuses SIGNED, SENT and SEND_UNCONFIRMED are one;
a replacement always outbids; `markOwnMined` reads and writes in one step; the
pass's look at the head before it takes the lane is folded into the look inside;
the pass waits for the lane. The history variable `returned` notes the jobs to which a
pass gave back the very stamp that a sender has read, after another sender replaced it
(section 5). Left out: rows without a nonce (LEGACY) and their
backfill, the replay of bytes already recorded, plans of several nonces, an
EXTERNAL row that was not acknowledged, transactions of a foreign key holder
that are pending rather than mined, fees, budgets and alerts.

### PolicyModule and PolicySync

The module's storage is a core (one value for the caps, cooldown and expiry), the
switch and a list with its counter; contracts and tokens work alike, so one list
stands for both. `SyncStep` is a request: load the policy, read the module call
by call (the members one step), plan (`Plan`: which calls, and in which order),
queue the rows. `RowStep` is the pipeline's check of a row against the policy
stored *then* (`Towards`, the code's supersededReason) and its signature; a wallet
signs its rows one after the other. `Store` is an administrator's change (the two
writes of a pause are one step), `Direct` a call made with the operator's key.
What a sync refuses before it reads anything changes nothing and is left out.

### ResourcePayments

One database transaction or statement is one step, and so is what leaves the
process (`Send`). `Reserve` is `reserve` with its checks under the locks of job
and agent; an attempt then goes `MarkPending`, `Send`, and one of `Unknown`,
`ReportSettled`, `Refuse`, or `FailBeforeSigning`; it may die before any of them,
and nothing repairs its row. `usable` is what the resource server can still use
on chain, whatever it answered; `Settle` and `Expire` take from it at any time.
A refused row whose `authorizationValidBefore` has passed is "lapsed": the code
computes it from the clock, and `Lapse` is the moment. `Lapse` waits for the
authorization to be gone, because the stored time is the signed deadline or, for
a payload the client could not describe, a later bound; the skew between the
server's clock and the chain's is not modelled. The payload of the one scheme in
use (exact on EVM) can always be described, so the row is pending before its
payload leaves. What is checked before any reservation (the plain request, the
price caps, the address vetting) writes nothing and is left out.

### SpendLedger

`Create`, `Approve`, `ReserveJob` and `ReservePayment` are one transaction each under
the agent's lock. The day is the clock's before the lock is waited for
(`CapturedDays`: a midnight may pass meanwhile). `Ask` is `validateTransaction`, which
reads without a lock, so that a request carries a verdict that may be stale; a spend
that is priced in part carries the value of that part, and one that reserved nothing
at all cannot be approved under a limit. `Settlements` is where an outcome can take a
reservation; the row's path to the outcome is in `TxPipeline` and is one step here.
`releaseJobEscrow` is two writes (`ReleaseJob`, `CreditJob`), and may die between. Two
more ways to spend below the limit are left out because they do not touch it:
per-transaction caps and the cooldown. `steady` is a history variable: it is read only
by the two properties that speak of one limit for a whole day.

### LegacyReservations

`reserveJobEscrow` and the insert in `POST /v1/jobs` as they are: read the limit
(`Judge`), one UPDATE that returns the new total (`AddVolume`), `RollBack` or
`InsertJob`, with a death possible between. The released row goes through the
same `ReleaseJob` and `CreditJob`. `legacy[j].day` is the day the volume was
added to; the code does not store it. `BooksBalance` counts it where it is.

## 3. Faults

An operator named `Fault...` stands before the definition it belongs to and is
that definition with a plausible bug in it: a dropped guard, a missing reset, an
unconditional write. No specification uses it. Replacing the definition by it
must violate a property; PROJECT.json lists the pairs under "mutants". This is
how we know that each property can fail.

## 4. What the runs check

| Run | Instance | Shows |
|---|---|---|
| `escrow` | 2 jobs, 3 accounts and the contract itself as a party or the fee wallet, time 1..2, fees 1% and 0.5%, budgets 0, 7 (fees round to 0) and 10199 (both round) | `Solvency`, `TermsFrozen`, `HeldJobsAreReleased` |
| `hook_safety` | 2 jobs, 2 identities, one provider, evaluated by the trusted evaluator or by the client | `OneIdentityPerProvider`, `NoVerdictDodged`, `EntriesMatchSettlements`, `PraiseIsEarned` |
| `tx_safety` | one row (A2A, routed, policy sync; or an ordinary one without the timing assumptions), 2 deliveries, 2 attempts, 2 gas prices, 1 death | `ExecutedAtMostOnce`, `ReceiptsAreTraceable`, `BooksMatchChain`, `ReleasedIsUnspent` |
| `tx_liveness` | one row (A2A or policy sync), 1 death | `EveryRowSettles`, also behind the gate |
| `funding` | 2 jobs with budgets 2 and 1, a cancellation and a fault; 1 job with a deadline and two faults | `AcceptedIsFunded`, `FinalIsSettled`, `DeadBudgetsReturn`, `LaneMoves` |
| `settlement` | one job: a deadline, a cancellation, a decision and a fault; two decisions and a fault; a quality verdict and two faults; a deadline and two faults | `ReviewIsObeyed` (the refinement), `BooksFollowChain`, `SendsAgree`, `FileIsCommitted`, `OutcomesAreBooked`, `DeliveriesSettle` |
| `identity` | a provider without an identity: one job that may be cancelled or refunded and one fault; one job and two faults; two jobs and a register that reverts or cannot be read; two jobs, one delivered; a registry that mints the id 0 | `BoundIsTrue`, `BindBeforeSubmit`, `OneMintUnlessDropped`, `BindingsEnd`, `DeliverablesLeave` |
| `ledger` | 2 nodes and six scenarios: two decisions about one job around a reorganisation; around a lost lane and a death; with a payout that begins to revert; one decision that begins to revert and an operator; two jobs with a lost transaction and a death; a foreign transaction and a reorganisation | `ProofIsFinal`, `OneDecision`, `LedgerSettles` |
| `policy` | 3 addresses, 4 policies, seven scenarios of administrators who wait or do not, two requests at once, a lost row, a call of the operator's key | `CountsMatchLists`, `AnswerHolds`, `NeverOpened`, `SyncConverges` |
| `spend` | limit 0 or 2, values 1 and 2, changes and pauses: a transaction, an escrow job and an x402 payment within a day, and each two of them over a midnight; a transaction and two jobs, each with or without the lock, within a day; two x402 payments with 3 reservations, 2 payees, prices 1 and 2, without a policy | `BooksBalance`, `SentWithinLimit`, `LimitBinds`, `JobBudgetHolds`, `UsableIsCounted`, `MoneyWithinBudget` |
| `tx_credit` | one A2A row, 1 death | violated, finding 1 |
| `settlement_pay` | one job, no fault | violated, finding 2 |

The type invariants (`TypeOK`, `RpTypeOK`, `TxTypeOK`, `HTypeOK`, `FundTypeOK`,
`SetTypeOK`, `LedTypeOK`, `SpendTypeOK`, `LegacyTypeOK`) document the state. All
but the last two are proved, and no run spends time on them.

Bounds. Two jobs are enough for one job's money to pay another's, and for one job's
approve to replace another's; two identities for a record to split; two deliveries and
two attempts for every pair of steps of a delivery, its redelivery and its retry to
interleave; two gas prices for two attempts to have different hashes at one nonce; one
death hits every point of every handler. Two ledger rows are two decisions, or a head
and its successor; three are needed only when the operator replaces one. Two nodes can
disagree. In the ledgers of money two rows that each fit and together do not are the
case that matters (values 1 and 2 under 2), a second reservation of a row is what a
stale authorization needs, and one midnight makes two days of one reservation. An
address in the old list, one in the new and one in neither (`a`, `b`, `c`) tell the
orders of a policy's calls apart. Two jobs of a provider are one that registers and
one that waits for it; a fault of any kind at any point is what recovery is for.
`MaxJobs`, `MaxTime`, `Amounts`, `Clients`, `Providers`, `Evaluators`, `FeeWallets`,
`Blockable`, `Controllers`, `Pausable`, `Prices`, `MaxAttempts`, `MaxLosses`,
`MaxPays`, `MaxTries`, `MaxTxs`, `MaxDay`, `Values`, `Limits`, `MayPause` and the
fields of the `Scenarios` are the only bounds.

`SentWithinLimit` speaks of behaviours in which the limit was not changed or
paused (`steady`): it is about one limit for a whole day. In `hook_safety` the two
identities are interchangeable, in `tx_safety` the two deliveries, in `spend` the
two payees, so these are symmetry sets; no run with a liveness property has one.
The instance of `hook_safety` has budgets at the minimum only, and the `tx_`
instances have one row: two rows meet only in the wallet lane and its nonces.

Deadlock is checked where something can always happen (`escrow`, `hook_safety`,
`tx_...`). In the other runs everything may be settled, or given up by a process
that died, or waiting for an operator, and nothing need happen.

Fairness.

* `escrow`: time passes, and a refund that is possible again and again is called
  (strong fairness: `claimRefund` is open to everybody, and the backend's expiry
  sweep repeats it for ever; the token may block and unblock the client in
  between, which is why weak fairness would not do).
* `tx_liveness`: deliveries and handlers run on, BullMQ delivers waiting jobs and
  fails or redelivers stalled ones, the tick repeats, the nodes mine or forget
  what they hold. Nothing is assumed of agents, operators, deaths or
  verification; `EveryRowSettles` is conditional on the contracts being verified
  in the end, because an unverified gate defers for ever by design. The per-tick
  limits of the recovery worker are not modelled: every row is visited.
* `funding`: something of the pipeline and the memory queue progresses, and for
  each job the evaluator's reject or the reconciliation (which a tick repeats) is
  not put off for ever. Drops, cancellations and crashes are not fair.
* `settlement`: the worker runs on, the queue delivers every kind of entry that is
  there again and again (strong: an entry is removed and added anew), handlers,
  tick and sweep run, the chain mines and the proof tag follows. No decision of
  the operator is assumed: a contested job may wait for ever, and
  `DeliveriesSettle` says so.
* `identity`: the worker, the chain and the handlers run on, a tick finishes what it
  has begun, and each job that becomes stale again and again gets its turn (strong:
  `QUIET_OUTCOMES` go to the back of the scan). Faults, deliveries, cancellations and
  refunds are not fair.
* `policy`: each request, the rows of the wallet, and mining progress. Somebody
  asking again is part of a request's steps (the code retries a sync that found
  differences on the next request of it).
* `ledger`: some sender in the lane, the pass, the chain and the proof tag go on,
  and nodes forget what was replaced. `HeadWaits` lists the heads that wait for
  the operator, of whom nothing is assumed.

## 5. Findings

1. `tx_credit`. The finalizer calls itself idempotent
   (`payment-finalizer.service.ts:18-20`), but the provider's counter is
   incremented (line 132) before the job leaves PAYMENT_PENDING (133-140): a
   death in between, or a recovery scan at the same time, credits twice.
2. `settlement_pay`. The worker's refund of a cancelled job checks the job's hold
   on the row it loaded, before it reads the nodes; an operator's "pay" recorded
   meanwhile is overtaken by the refund it then signs
   (`escrow-erc8183.service.ts:4263`).

Observations made while modelling, which no run of their own shows.

Money and ledgers:

* `createTransactionWithVolume` reads a paused policy as no limit
  (`daily-volume.ts:205`) and calls it the reading of `validateTransaction`, which
  refuses. Requests validated just before a pause get rows during it without the
  limit and are sent after the reactivation. `LimitBinds` excepts that step.
* A legacy reservation adds to the day of one clock reading
  (`escrow.service.ts:231`), its job records another (`jobs.ts:293`), and the
  release credits the latter: over midnight the new day's volume falls below what
  is reserved on it. The legacy scenario has one day for this reason.
* The legacy reservation compares the limit with `DailyVolume` alone
  (`escrow.service.ts:234`): the x402 payments of the day, which every other path
  counts, are left out.
* `setFeeWallet` and the constructor of the escrow refuse only the zero address. With the
  contract as its own fee wallet, `withdrawPlatformFees` clears what is pending and moves
  nothing: those fees stay in the contract for ever (`stray`). A funded job that names the
  contract as its provider or evaluator can only be refunded.
* `docs/architecture/x402-payments.md:203` says that a payee holds at most one
  live authorization from a job at a time. The check under the lock
  (`resource-payment.service.ts:997-1006`) is for refused rows only: two payment
  ids in flight, or with unknown outcomes, give a payee two. Both count, so the
  budget holds (`JobBudgetHolds`).
* `transaction.processor.ts:42-44` says that an A2A payment is never refunded
  while it may still be mined. Each attempt overwrites `broadcastTxHash`, and the
  drop asks the nodes about the last hash only. An earlier attempt that no node
  admits to for longer than the drop's grace can be mined after the refund. The
  daily volume is held for this case (`daily-volume.ts:493-505`, and
  `ReleasedIsUnspent` shows that this is enough), the job's reservation is not;
  `BooksMatchChain` is therefore checked with the timing assumptions.

Orchestrator (`escrow-erc8183.service.ts`):

* The lane lets one job at a time set and use the allowance. A job counts as in
  the lane from its mirrored status (963), and between the confirmation of its
  approve and the write of APPROVED it is not: a waiting job enters, and its
  approve replaces the allowance that the first job's fund needs. The fund reverts,
  and its job fails.
* With `ClockSkew` the backend closes an unfunded job as expired while its fund
  can still succeed: the budget is then locked until the chain's deadline.
* A job nobody delivered can be left ACCEPTED beside a row that says EXPIRED: a death
  between the mirror of the outcome and the finalizer, then an entry whose retries run
  out, and no tick looks for such a row. It takes a deadline and two faults;
  `OutcomesAreBooked` says so, and has this one case more than one fault.
* The handler of a failed entry (4641-4657) writes by the job's id, whatever the row has
  become since it read it. It may hand back a claim that a later entry has taken: the
  API may then record another decision beside the one the worker is about to sign, and
  `ReviewIsObeyed` holds until then (`"claim" \in undone`). It may also put SUBMITTED or
  CONTESTED over an outcome that was booked, which `OutcomesAreBooked` excepts
  (`"outcome" \in undone`). What is proven of the row and of the sends
  (`BooksFollowChain`, `SendsAgree`, `FileIsCommitted`) holds whatever it undoes.
* Two comments say more than the code does. At 1332-1333 (`openStepMined`) only the
  job's own approve can have granted the allowance: the lane above is how another
  job's can. Before 1676 a claim or a cancellation's reject asks at the proof
  depth: `sendEvaluatorTx`, which sends them, passes its calldata's hash (2949), so
  a re-sign of the same bytes asks at `latest`.

Provider identity (`erc8004-identity.service.ts`):

* "One identity transaction at a time" (25-28) is not so: two flows that find the
  lane free (278) take one waiting job each, and two binds are in flight. The
  pipeline's wallet lane keeps their nonces apart, and no property needs more.
* "One mint per (agent, chain)" (21) has two exceptions. A register that was declared
  dropped is mined after all, after the next funded job claimed another. And
  `failIdentity` (449; also 229) writes FAILED by the row's id, whatever the row has
  become: two flows find one register failed (its handler, and the recovery scan or
  another job's start); the first writes; the next funded job claims the row again and
  enqueues its register; the second writes FAILED over that claim; the job after it
  claims once more, and two registers are mined, with nothing dropped and nobody dead.
  It takes three jobs (28 states, found by TLC when the proof stopped there); with two,
  as in the run, nobody is left to mint again. `OneMintUnlessDropped` says that there is
  no third exception. The other identities are lost, and jobs may then be bound to
  different ones; each is still bound as its row says (`BoundToMinted`).
* Between a job's FUNDED and its BINDING, two statements of one handler, it may be
  accepted and delivered: the deliverable is sent, the bind follows and reverts. "No
  submit can be deferred yet (ACCEPTED requires FUNDED)" (orchestrator, 1131-1132)
  overlooks this, and that the ids the call returns may be those of *other* waiting
  jobs, whose deferred submits are left to the tick.
* The list of `failWaitingJobs` (258) may be old, and so may be what a start knows of its
  job when a query throws (429): a job is failed, and its deliverable sent, while its
  bind of a newer registration is on the way; that bind then reverts. This and the case
  before are the `passed` of `BindBeforeSubmit`, which shows that there is no other.

Evaluator ledger:

* The gate refuses a signature while another candidate of the job may still mine
  (comment at 2862-2870); that nobody records one between the gate and the insert rests
  on the insert's condition that the job's `settleTxHash` is the one that was read. But
  `moveSettleTxHashToWinner` sets the hash from answers the pass read earlier. If a
  reorganisation came after those answers, a rival was recorded and mined, and a sender
  is still between its gate and its insert (it lost the lane, or paused), the pass may
  move the hash back to what that sender read, and its insert passes: the condition does
  not see that the value was away. The proof of `OneDecision` stopped at this step,
  which is why it says `rows[i].job \in returned`; it is the only exception. No scenario
  of the run gets there. TLC, given the rivals, three rows, a reorganisation and a
  foreign transaction with one node, reaches a return at depth 17, and two
  contradictory rows that can both still settle the job at depth 22.
* A replacement recorded after the pass read the rows, and mined before it asks a
  node, is taken for a foreign transaction: the alert of a compromised key is
  raised for the script's own (3398 against 3619-3622).
* A death between `markResolved(DEAD)` at the proof depth and
  `recordForeignNonce` loses the foreign row and its alert for good; the log
  "next pass" of `moveSettleTxHashToWinner` is likewise untrue once the row is
  proven (`reconcileTerminal`, 4593, repairs the pointer).
* The gap left by a foreign transaction that was reorganised away is filled by
  nobody; an EXTERNAL row that becomes live again has no raw bytes and blocks its
  nonce until the operator acts. After a reorganisation two jobs' candidates may
  be live at one nonce, and nothing is rebroadcast. `HeadWaits` lists these.

Policy sync:

* "In sync" can be answered while a signed row that contradicts the policy is in
  flight (`policy-sync.service.ts:266-271` against `pre-submit-guard.ts:146-148`),
  or from counters and members read at different moments. An administrator who
  waits for rows to land is safe (`AnswerHolds`, `NeverOpened`); a hurried one may
  open the whitelist for a while. A resume, or a raised cap, that is mined before
  the list's update makes the old list callable in between. `SyncConverges`
  holds of both.

## 6. What is proved

`EscrowContractProofs` proves first, of `Spec`, for any accounts, fees below 100%,
amounts and number of jobs: `TypeOK` and `Solvency` are invariants, and
`TermsFrozen` and `LegalTransitions` hold of every step. It assumes only
`AddressAssumption`, `FeeAssumption` and `BoundAssumption`.

`Solvency` is not inductive. The invariant `IInv` adds `Created` (ids above the
counter are empty; a held job has a provider and an evaluator that the token can pay,
without which a payment could leave the balance function, and whoever submitted one is
not the contract, which never calls), `Stages` (a submission time goes with the
status) and `Books`. `HeldTotal` is computed by a recursive function, and what such a
function computes cannot be proved by the induction theorems of the library, so
`Books` says that *some* partial-sum function `s` with `s[n] = s[n-1] + Liability(n)`
accounts for the balance: a step then only has to exhibit the new `s`, the old one
shifted from the job on (`SumUpdate`). `SumUnique` shows there is one such function,
by taking the least number where two differ (`LeastNumber`, from the well-foundedness
of strict inclusion on finite sets), which gives `Solvency` back. `FeesFit` bounds the
fees by the budget: the payout is never negative.

`SpendingProofs` proves first, of `RpSpec`, for any number of payment ids,
retries and days, any jobs, payees and prices, from `PaymentAssumption` only:
`RpTypeOK`, `JobBudgetHolds`, `UsableIsCounted` and `MoneyWithinBudget` are
invariants. The inductive invariant `PInv` adds what an authorization that moved
or is usable says of its row: that it is the latest one of a row that counts, or
that it was written off. `Spent` is a sum by `Sums!SumTo`, a recursive function;
the lemmas it begins with show once that it is the only partial-sum function
(`PartialUnique`, as above), what it does when one row changes (`SumChange`), and
that it is monotone (`SumMonotone`). A reservation changes one row from not
counting to at most the remainder, which is `SumChange`; `MoneyWithinBudget`
follows from `JobBudgetHolds` row by row, by `SumMonotone`.

Then it adds the other two ledgers. A step of `LegacySpec` is a step of the
payments or leaves them alone (`SpendingKeepsPayments: LegacySpec => RpSpec`), so
the payment theorems hold of the specification the run checks. `LInv`, which
needs no assumption, is the payments' invariant, the types, that a job whose
legacy request has not created it has no row, and the bounds of the scenario; with
it `LegacyTypeCorrect` and `LimitAlwaysBinds`. `BooksBalance` equates the volume of
a day with sums over rows. Every action is shown to be a step of one transaction,
of one job, of one legacy request, or of nothing that counts, and to
move the volume by the change of that row's share (`TxMovesVolume`,
`JobMovesVolume`, `LegacyMovesVolume`); `SumChange` turns this into the balance.
The shares follow the days of a reservation as the code does: the row's own day for
a reservation under the lock, the day of the check for one without it. So the proof
needs `SameDay`, that these are one day, and this needs `OneDay`: the legacy path
sees no midnight. `SentWithinLimit` needs more of its past. `WithinDays` bounds what
is committed of a day by the limit and whatever a legacy request added and then
found to be too much, or left behind when it died; `JudgedNow` says that whoever was
judged was judged by this policy; `Outcomes`, that what was given back cannot be
mined any more. It assumes `NoX402` too: the legacy check does not count the x402
payments of the day. Both assumptions are about scenarios of the legacy path, the
run's scenarios satisfy them, and section 5 says what the code does without them.

`EscrowContractProofs` then shows that every step of the hooked contract is a
step of the escrow or leaves it alone (`HookRefinesEscrow`: `HSpec => Spec`), so
that the escrow's invariant, and what one step of it can do to a job
(`TermsStep`, `MoveStep`), are there to use. `HInv` says that whatever is written
or charged about a job is said of the identity its provider is bound to
(`Attributed`), once (`Apart`), and that a charge still standing is counted
(`Counted`). Identities changing hands between two transactions do not disturb
it, because a binding never changes. From it: `OneIdentityPerProvider`,
`EntriesMatchSettlements`, `NoVerdictDodged` and, of every step, `PraiseIsEarned`.

`TxPipelineProofs` proves of `TxSpec`, for any number of rows, deliveries, attempts
and prices, from `PipelineAssumption` and `HashAssumption` (no hash of a transaction
stands for none). The invariant has four layers: `Types`; `Attempts` (nothing is on
the wire that its row was not stamped with before, and what the columns of a row say
of each other and of the chain); `Handled` (what the finalizer did follows a final
outcome); `InTime` (with the timing assumptions, the attempt recorded last is the only
one of its row the chain holds or will hold, and whoever is in the lane holds it).
`ReleasedIsUnspent` follows from the first two and needs no assumption about time;
`ExecutedAtMostOnce`, `ReceiptsAreTraceable` and `BooksMatchChain` are about the
timely case. TLC's instance has one row; the proof is for any number, and it was the
proof that showed what `Awaited` has to say of two rows in one lane.

`EscrowFundingProofs` proves of `FundSpec`: `FundTypeOK`, `AcceptedIsFunded` and,
if the clocks agree (`~ClockSkew`), `FinalIsSettled`. `AcceptedIsFunded` speaks of
two states that many handlers connect; `FundInv` names the links: a transaction is
in the mempool once and mined once, and a confirmed row succeeded (`MinedInOrder`);
a funded job's fund was mined and its one create before (`ChainOrder`); what the
backend believes (`Beliefs`), and what it closed (`Closed`).

`EscrowSettlementProofs` proves of `SetSpec`, for any scenarios. The invariant has two
layers. `Base` needs no assumption: the types, what the chain can show after what was
mined and proven (`ChainOK`), and that a worker past the gate repeats what is in
flight, if anything is (`Sending`); from it `SetTypeOK` and `SendsAgree`. `Orderly` is
about the row, and needs no assumption either: a claim stands while its holder works,
unless the outcome is booked meanwhile or the failed handler undid the claim
(`Holding`); what the API saw settled is settled when it writes (`Checked`); the row
keeps the feedback file of whatever is in flight (`FilesOK`) and, until a claim is
undone, its decision (`DecisionsOK`). None of these is inductive without the others.
Every step is first shown to be one of five effects (`Effects`: around the worker, by
the worker, by the chain, a new candidate, a crash), and each part of the invariant is
shown to survive each effect. From it `BooksFollowChain`, `FileIsCommitted`, and the
refinement `SetSpec => ReviewIsObeyed`, for as long as no claim was undone: a write of
the API is a Contest or a Decide that is still heard, an unwinding is a Withdraw while
nothing is in flight, and the step in which the proof tag catches up is the Settle
that the decision allows.

`EvaluatorLedgerProofs` proves of `LedSpec`, for any jobs, nodes and scenarios:
`LedTypeOK`, `ProofIsFinal` and `OneDecision`. `LedInv` adds to the types what makes
an old answer usable: below the proof tag a node's answer is what any node would
answer now (`PassOK`). `Gated` says that a worker past the gate whose stamp still
stands, and was not returned, has no rival that could be mined, which is inductive
only together with `OneDecision`.

`PolicySyncProofs` proves of `SyncSpec`, for any addresses (finitely many), policies,
requests, changes, calls and faults: `CountsMatchLists` is an invariant, and, if an
administrator who waits also leaves the operator's key alone (`Alone`, as the run's
scenarios have it), `AnswerHolds` and `NeverOpened` hold. `updateWhitelist` is a loop,
so its model is a recursive function; `LoopExists` and `LoopLists` say what it
computes by the least entry where it would go wrong. `AnswerHolds` is far from
inductive: what makes the answer safe is that everything still on its way agrees with
it. `Patient` says so: every call in flight names whatever the stored list still
lacks (`Covered`), nothing in the mempool contradicts the stored policy, and what a
request has read so far is a lower bound of what holds now (`Fresh`), also if the
list was empty when its counter was read and is not when its members are asked for.
While the administrator waits, a mined call only takes the module closer
(`MineAdvances`), which keeps all of it; the same lemma gives `NeverOpened`, because a
call that leaves a non-empty stored list covered cannot leave the counter at zero.

`ProviderIdentityProofs` proves of `IdSpec`, for any number of jobs, any scenarios and
faults, and without an assumption about time: `IdTypeOK`, `BoundIsTrue`,
`OneMintUnlessDropped` and `BindBeforeSubmit`. Flows meet
only in what they write, so the invariants say of every flow, by where it is, what still
holds of what it has read. One lemma (`FlowNow`) shows that a flow never gets to a place
without what is expected there (`Expect`), two more what a step can do to a row
(`RowsMove`) and to a binding (`BindingsMove`); after that no invariant looks at more
than a few of the thirty actions. `Base` links a job's row to the chain: every id that
is written or carried was minted by a confirmed register (`IdsKnown`), and a bind that was
mined bound the id that the row still has (`BindsHold`), because a binding begins once
(`BeginsOnce`). `Claims`: until `overwritten`, one registration is alive at most, and a
failed identity has none. `Claims` was not inductive as the design has it: a late
`failIdentity` breaks it, which is the finding of section 5, and what is proved is that
nothing else does (`FailsTheLast`). `Order` is about the lane, for every job whose binding
was not passed by: a job has one bind in the mempool, a vetted bind is still to be bound
when it is sent, no submit is on the wire before the binding has ended, and so the bind
comes first.

Some theorems state an assumption about the scenarios that the runs' scenarios
satisfy (`~ClockSkew`; `OneDay` and `NoX402`; `Alone`); what fails without it is in
section 5, or above.

Checked by TLC only: liveness under fairness, which is out of the prover's reach.
`LegalTransitions` and `Beliefs` are proved and are in no run.

## 7. Not modelled

* Generated code (`abi/*`, `mcp-server/src/api.generated.ts`), the admin UI, the
  MCP server and its adapters, the HTTP routes' authentication, validation and
  formatting: no state of their own. The state changes of a route are modelled
  where a service makes them.
* DeFi builders, pricing, simulation, per-transaction caps and allowlists: pure
  functions of their input, or reads of third parties.
* Wallet providers, ENS, notifications, billing and PnL: I/O, or accounting that
  nothing else reads.
* Boot checks and the validation scripts: tools around a deployment. Their one
  result the system acts on (are the contracts verified?) is an input of
  `TxPipeline`.
* The per-tick limits of the recovery worker; LEGACY ledger rows; the executor's
  validation of a batch with cooldown and expiry; the superseded `EscrowModule`.
  These could be modelled and are in the plan.

## 8. Plan

1. `RecoveryScan`: starvation under per-tick limits. `EscrowModule`. The
   executor's batches.
2. An abstract daily limit (a set of commitments that only fits what has room),
   implemented by `SpendLedger`.
