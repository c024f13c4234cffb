--------------------------- MODULE AgentJobEscrow ---------------------------
(***************************************************************************)
(* The ERC-8183 job escrow contract (packages/contracts/src/               *)
(* AgentJobEscrow.sol): a client funds a job in one ERC-20 token, a        *)
(* provider submits a deliverable and an evaluator releases or refunds the *)
(* budget.  One action is one transaction that does not revert; a call the *)
(* contract (or the hook of the job) reverts changes nothing and is no     *)
(* step.  nonReentrant makes every such transaction atomic.                *)
(*                                                                         *)
(* The token is external: it is modelled by the balances it keeps and by   *)
(* the set of accounts it refuses to pay (the USDC blacklist).  It moves   *)
(* exact amounts, because _pullExact reverts on any other token.  The      *)
(* contract calls nothing as itself, but its own address may be named as a *)
(* provider, an evaluator or the fee wallet: only the zero address is      *)
(* refused.                                                                *)
(***************************************************************************)
EXTENDS Integers

CONSTANTS
    Address,        \* accounts that call the contract and hold the token
    NoAddress,      \* address(0)
    Escrow,         \* address(this), the account that holds the budgets
    Operator,       \* the immutable operator account
    Hooks,          \* hook contracts a job can name
    NoHook,         \* a job without a hook
    AgentIds,       \* ERC-8004 identity ids
    NoAgentId,      \* the id 0: none
    PlatformFeeBP,  \* immutable platform fee, in basis points
    EvaluatorFeeBP, \* immutable evaluator fee, in basis points
    InitialFunds,   \* token balance every account starts with
    Clients,        \* bound: the accounts that create jobs,
    Providers,      \* bound:   that are named as providers,
    Evaluators,     \* bound:   that are named as evaluators,
    FeeWallets,     \* bound:   that are made the fee wallet,
    Blockable,      \* bound:   that the token may refuse to pay
    Amounts,        \* bound: the amounts passed to setBudget and fund
    MaxJobs,        \* bound: jobs created
    MaxTime         \* bound: the last block timestamp

BPS == 10000

ASSUME AddressAssumption ==
    /\ NoAddress \notin Address
    /\ Escrow \notin Address \cup {NoAddress}
    /\ Operator \in Address
    /\ NoHook \notin Hooks
    /\ NoAgentId \notin AgentIds

(* The constructor refuses fees that add up to 100% or more. *)
ASSUME FeeAssumption ==
    /\ PlatformFeeBP \in Nat
    /\ EvaluatorFeeBP \in Nat
    /\ PlatformFeeBP + EvaluatorFeeBP < BPS

ASSUME BoundAssumption ==
    /\ InitialFunds \in Nat
    /\ Clients \cup Blockable \subseteq Address
    /\ Providers \cup Evaluators \cup FeeWallets \subseteq Address \cup {Escrow}
    /\ Amounts \subseteq Nat
    /\ MaxJobs \in Nat
    /\ MaxTime \in Nat

VARIABLES
    jobs,                \* _jobs: job id -> record; unknown ids hold the empty record
    jobCount,            \* _jobCount
    providerAgentId,     \* job id -> identity the provider presents
    submittedAt,         \* job id -> time of submission, 0 before
    paused,              \* createJob and fund are paused
    feeWallet,           \* receiver of the platform fees
    pendingPlatformFees, \* fees accrued and not yet swept
    balance,             \* external: the token balances
    blocked,             \* external: accounts the token refuses to pay
    stray,               \* history: fees the escrow swept to itself, owed to nobody
    now                  \* external: block.timestamp

escrowVars == <<jobs, jobCount, providerAgentId, submittedAt, paused,
                feeWallet, pendingPlatformFees>>
tokenVars  == <<balance, blocked, stray>>
vars       == <<escrowVars, tokenVars, now>>

Account    == Address \cup {Escrow}                 \* whom the token can pay
JobIds     == 1..MaxJobs
Statuses   == {"Open", "Funded", "Submitted", "Completed", "Rejected", "Expired"}
Holding    == {"Funded", "Submitted"}               \* the escrow holds the budget
Terminal   == {"Completed", "Rejected", "Expired"}

Job == [client    : Address \cup {NoAddress},
        provider  : Account \cup {NoAddress},
        evaluator : Account \cup {NoAddress},
        budget    : Nat,
        expiredAt : Nat,
        status    : Statuses,
        hook      : Hooks \cup {NoHook}]

EmptyJob == [client |-> NoAddress, provider |-> NoAddress, evaluator |-> NoAddress,
             budget |-> 0, expiredAt |-> 0, status |-> "Open", hook |-> NoHook]

(***************************************************************************)
(* Helpers.  A definition named Fault... is the definition after it with a *)
(* bug in it; no specification uses it (README, "Faults").                 *)
(***************************************************************************)

(* _getJob reverts on an id that was never created. *)
Exists(j) == jobs[j].client # NoAddress

(* Guard of the operations on a job whose terms are still negotiable. *)
FaultNotOpen(j) == Exists(j)
Open(j) == Exists(j) /\ jobs[j].status = "Open"

(* _feeOf: budget * bps / BPS, multiplied in two parts so that no          *)
(* intermediate product overflows a uint256.                               *)
FeeOf(budget, bps) == (budget \div BPS) * bps + ((budget % BPS) * bps) \div BPS

PlatformFee(budget)  == FeeOf(budget, PlatformFeeBP)
EvaluatorFee(budget) == FeeOf(budget, EvaluatorFeeBP)
FaultPayoutKeepsFee(budget) == budget - EvaluatorFee(budget)
Payout(budget)       == budget - PlatformFee(budget) - EvaluatorFee(budget)

(* _safeTransfer: the call reverts if the token refuses the receiver or    *)
(* the contract does not hold the amount.                                  *)
FaultPaysUnlessPaused(to, amount) ==
    ~paused /\ to \notin blocked /\ balance[Escrow] >= amount
CanPay(to, amount)    == to \notin blocked /\ balance[Escrow] >= amount
Paid(bal, to, amount) == [bal EXCEPT ![Escrow] = @ - amount, ![to] = @ + amount]

(***************************************************************************)
(* Operations of the contract; `a` is msg.sender.                          *)
(***************************************************************************)
Init ==
    /\ jobs = [j \in JobIds |-> EmptyJob]
    /\ jobCount = 0
    /\ providerAgentId = [j \in JobIds |-> NoAgentId]
    /\ submittedAt = [j \in JobIds |-> 0]
    /\ paused = FALSE
    /\ feeWallet \in FeeWallets
    /\ pendingPlatformFees = 0
    /\ balance = [a \in Account |-> IF a = Escrow THEN 0 ELSE InitialFunds]
    /\ blocked = {}
    /\ stray = 0
    /\ now = 1

CreateJob(a, provider, evaluator, expiredAt, hook) ==
    /\ ~paused
    /\ provider \notin {a, evaluator}
    /\ expiredAt > now
    /\ jobCount < MaxJobs
    /\ jobCount' = jobCount + 1
    /\ jobs' = [jobs EXCEPT ![jobCount + 1] =
                   [client |-> a, provider |-> provider, evaluator |-> evaluator,
                    budget |-> 0, expiredAt |-> expiredAt, status |-> "Open",
                    hook |-> hook]]
    /\ UNCHANGED <<providerAgentId, submittedAt, paused, feeWallet,
                   pendingPlatformFees, tokenVars, now>>

SetProvider(a, j, provider) ==
    /\ Open(j)
    /\ a = jobs[j].client
    /\ jobs[j].provider = NoAddress
    /\ provider \notin {NoAddress, jobs[j].client, jobs[j].evaluator}
    /\ jobs' = [jobs EXCEPT ![j].provider = provider]
    /\ UNCHANGED <<jobCount, providerAgentId, submittedAt, paused, feeWallet,
                   pendingPlatformFees, tokenVars, now>>

SetBudget(a, j, amount) ==
    /\ Open(j)
    /\ a \in {jobs[j].client, jobs[j].provider}
    /\ jobs' = [jobs EXCEPT ![j].budget = amount]
    /\ UNCHANGED <<jobCount, providerAgentId, submittedAt, paused, feeWallet,
                   pendingPlatformFees, tokenVars, now>>

Fund(a, j, expectedBudget) ==
    /\ ~paused
    /\ Open(j)
    /\ a = jobs[j].client
    /\ jobs[j].provider # NoAddress
    /\ jobs[j].budget # 0
    /\ jobs[j].budget = expectedBudget
    /\ now < jobs[j].expiredAt
    /\ a \notin blocked
    /\ balance[a] >= jobs[j].budget
    /\ jobs' = [jobs EXCEPT ![j].status = "Funded"]
    /\ balance' = [balance EXCEPT ![a] = @ - jobs[j].budget,
                                  ![Escrow] = @ + jobs[j].budget]
    /\ UNCHANGED <<jobCount, providerAgentId, submittedAt, paused, feeWallet,
                   pendingPlatformFees, blocked, stray, now>>

(* There is no expiry check here: a late submission races claimRefund. *)
Submit(a, j) ==
    /\ Exists(j)
    /\ jobs[j].status = "Funded"
    /\ a = jobs[j].provider
    /\ jobs' = [jobs EXCEPT ![j].status = "Submitted"]
    /\ submittedAt' = [submittedAt EXCEPT ![j] = now]
    /\ UNCHANGED <<jobCount, providerAgentId, paused, feeWallet,
                   pendingPlatformFees, tokenVars, now>>

(* The provider is paid, then the evaluator; the platform fee only accrues. *)
Complete(a, j) ==
    LET budget == jobs[j].budget
    IN  /\ Exists(j)
        /\ jobs[j].status = "Submitted"
        /\ a = jobs[j].evaluator
        /\ CanPay(jobs[j].provider, Payout(budget) + EvaluatorFee(budget))
        /\ EvaluatorFee(budget) > 0 => jobs[j].evaluator \notin blocked
        /\ jobs' = [jobs EXCEPT ![j].status = "Completed"]
        /\ balance' = Paid(Paid(balance, jobs[j].provider, Payout(budget)),
                           jobs[j].evaluator, EvaluatorFee(budget))
        /\ pendingPlatformFees' = pendingPlatformFees + PlatformFee(budget)
        /\ UNCHANGED <<jobCount, providerAgentId, submittedAt, paused, feeWallet,
                       blocked, stray, now>>

(* The client withdraws an Open job, with no funds involved ... *)
RejectOpen(a, j) ==
    /\ Open(j)
    /\ a = jobs[j].client
    /\ jobs' = [jobs EXCEPT ![j].status = "Rejected"]
    /\ UNCHANGED <<jobCount, providerAgentId, submittedAt, paused, feeWallet,
                   pendingPlatformFees, tokenVars, now>>

(* ... the evaluator refunds a Funded or Submitted one in full. *)
RejectHeld(a, j) ==
    /\ Exists(j)
    /\ jobs[j].status \in Holding
    /\ a = jobs[j].evaluator
    /\ CanPay(jobs[j].client, jobs[j].budget)
    /\ jobs' = [jobs EXCEPT ![j].status = "Rejected"]
    /\ balance' = Paid(balance, jobs[j].client, jobs[j].budget)
    /\ UNCHANGED <<jobCount, providerAgentId, submittedAt, paused, feeWallet,
                   pendingPlatformFees, blocked, stray, now>>

Reject(a, j) == RejectOpen(a, j) \/ RejectHeld(a, j)

(* Anyone may call it once the job expired; never hooked, never paused. *)
ClaimRefund(j) ==
    /\ Exists(j)
    /\ jobs[j].status \in Holding
    /\ now >= jobs[j].expiredAt
    /\ CanPay(jobs[j].client, jobs[j].budget)
    /\ jobs' = [jobs EXCEPT ![j].status = "Expired"]
    /\ balance' = Paid(balance, jobs[j].client, jobs[j].budget)
    /\ UNCHANGED <<jobCount, providerAgentId, submittedAt, paused, feeWallet,
                   pendingPlatformFees, blocked, stray, now>>

SetProviderAgentId(a, j, id) ==
    /\ Exists(j)
    /\ jobs[j].status \in {"Open", "Funded"}
    /\ a = jobs[j].provider
    /\ providerAgentId' = [providerAgentId EXCEPT ![j] = id]
    /\ UNCHANGED <<jobs, jobCount, submittedAt, paused, feeWallet,
                   pendingPlatformFees, tokenVars, now>>

WithdrawPlatformFees(a) ==
    /\ a \in {feeWallet, Operator}
    /\ pendingPlatformFees # 0
    /\ CanPay(feeWallet, pendingPlatformFees)
    /\ pendingPlatformFees' = 0
    /\ balance' = Paid(balance, feeWallet, pendingPlatformFees)
    /\ stray' = IF feeWallet = Escrow THEN stray + pendingPlatformFees ELSE stray
    /\ UNCHANGED <<jobs, jobCount, providerAgentId, submittedAt, paused, feeWallet,
                   blocked, now>>

SetFeeWallet(a, newFeeWallet) ==
    /\ a = Operator
    /\ feeWallet' = newFeeWallet
    /\ UNCHANGED <<jobs, jobCount, providerAgentId, submittedAt, paused,
                   pendingPlatformFees, tokenVars, now>>

SetPaused(a, on) ==
    /\ a = Operator
    /\ paused # on
    /\ paused' = on
    /\ UNCHANGED <<jobs, jobCount, providerAgentId, submittedAt, feeWallet,
                   pendingPlatformFees, tokenVars, now>>

(***************************************************************************)
(* The environment: the token's blacklist and the chain's clock.           *)
(***************************************************************************)
Blacklist(a) ==
    /\ blocked' = IF a \in blocked THEN blocked \ {a} ELSE blocked \cup {a}
    /\ UNCHANGED <<escrowVars, balance, stray, now>>

Tick ==
    /\ now < MaxTime
    /\ now' = now + 1
    /\ UNCHANGED <<escrowVars, tokenVars>>

(***************************************************************************)
(* The specification.  The actions that name no job, and the ones that do. *)
(***************************************************************************)
Administer(a) ==
    \/ WithdrawPlatformFees(a)
    \/ \E w \in FeeWallets : SetFeeWallet(a, w)
    \/ \E on \in BOOLEAN : SetPaused(a, on)

Negotiate(a, j) ==
    \/ \E p \in Providers : SetProvider(a, j, p)
    \/ \E n \in Amounts : SetBudget(a, j, n) \/ Fund(a, j, n)
    \/ \E id \in AgentIds \cup {NoAgentId} : SetProviderAgentId(a, j, id)

Settle(a, j) == Submit(a, j) \/ Complete(a, j) \/ Reject(a, j)

Create(a) ==
    \E p \in Providers \cup {NoAddress}, e \in Evaluators, t \in 1..MaxTime,
       h \in Hooks \cup {NoHook} : CreateJob(a, p, e, t, h)

Environment == Tick \/ \E a \in Blockable : Blacklist(a)

Next ==
    \/ \E a \in Clients : Create(a)
    \/ \E a \in Address : Administer(a)
    \/ \E a \in Address, j \in JobIds : Negotiate(a, j) \/ Settle(a, j)
    \/ \E j \in JobIds : ClaimRefund(j)
    \/ Environment

Spec == Init /\ [][Next]_vars

(* The clock runs, and the backend's expiry sweep (like anybody else) keeps *)
(* calling claimRefund: a refund that is possible again and again happens.  *)
Fairness == WF_vars(Tick) /\ \A j \in JobIds : SF_vars(ClaimRefund(j))
FairSpec == Spec /\ Fairness

(***************************************************************************)
(* Properties.                                                             *)
(***************************************************************************)
TypeOK ==
    /\ jobs \in [JobIds -> Job]
    /\ jobCount \in 0..MaxJobs
    /\ providerAgentId \in [JobIds -> AgentIds \cup {NoAgentId}]
    /\ submittedAt \in [JobIds -> Nat]
    /\ paused \in BOOLEAN
    /\ feeWallet \in Account
    /\ pendingPlatformFees \in Nat
    /\ balance \in [Account -> Nat]
    /\ blocked \subseteq Address
    /\ stray \in Nat
    /\ now \in Nat

(* What the escrow owes for a job, and for all of them. *)
Liability(js, j) == IF js[j].status \in Holding THEN js[j].budget ELSE 0

HeldTotal(js) ==
    LET upTo[n \in 0..MaxJobs] == IF n = 0 THEN 0 ELSE upTo[n - 1] + Liability(js, n)
    IN  upTo[MaxJobs]

(* The contract holds exactly the budgets of the jobs that are funded and  *)
(* not settled plus the fees accrued and not swept: no order of            *)
(* settlements, refunds and sweeps pays a job twice, pays out of another   *)
(* job's budget, or strands a token, except the fees swept while the       *)
(* operator had the contract itself as the fee wallet.                     *)
Solvency == balance[Escrow] = HeldTotal(jobs) + pendingPlatformFees + stray

(* What the client agreed to pay, to whom, and until when. *)
Terms(j) == [jobs[j] EXCEPT !.status = "Open"]

(* Once a job is funded its parties, budget, deadline and hook never       *)
(* change, and the identity the provider presents is fixed from submission *)
(* on: nobody renegotiates a job whose money is in the escrow.             *)
TermsKept(j) ==
    jobs[j].status # "Open" =>
        /\ Terms(j)' = Terms(j)
        /\ submittedAt[j] # 0 => /\ providerAgentId'[j] = providerAgentId[j]
                                 /\ submittedAt'[j] = submittedAt[j]

TermsFrozen == [][\A j \in JobIds : TermsKept(j)]_vars

(* The edges of the ERC-8183 state machine documented in the contract. *)
Transitions ==
    {<<"Open", "Funded">>, <<"Open", "Rejected">>, <<"Funded", "Submitted">>,
     <<"Funded", "Rejected">>, <<"Submitted", "Completed">>, <<"Submitted", "Rejected">>,
     <<"Funded", "Expired">>, <<"Submitted", "Expired">>}

(* A job moves along those edges only (a settled job never again), and its *)
(* provider's money comes only from a submission the evaluator accepted.   *)
LegalMove(j) ==
    jobs'[j].status # jobs[j].status =>
        /\ <<jobs[j].status, jobs'[j].status>> \in Transitions
        /\ jobs'[j].status = "Completed" => submittedAt[j] # 0

LegalTransitions == [][\A j \in JobIds : LegalMove(j)]_vars

(* If the token keeps accepting a client again and again, that client's    *)
(* held jobs are settled or refunded in the end, whatever the evaluator,   *)
(* the provider, the hook and the operator do or omit.                     *)
HeldJobsAreReleased ==
    \A j \in JobIds :
        []<>(jobs[j].client \notin blocked)
            => (jobs[j].status \in Holding ~> jobs[j].status \in Terminal)
=============================================================================
