--------------------------- MODULE ProviderIdentity ---------------------------
(***************************************************************************)
(* How the provider of ERC-8183 jobs gets its ERC-8004 identity, and how   *)
(* its funded jobs are bound to it before their deliverable is submitted   *)
(* (services/job/erc8004-identity.service.ts; enqueueSubmit,               *)
(* releaseDeferredSubmit and recoverErc8183Job of                          *)
(* services/job/escrow-erc8183.service.ts).                                *)
(*                                                                         *)
(* One provider, one chain.  The start of a binding, a delivery, the       *)
(* handler of a row's outcome and the recovery tick are flows: each reads, *)
(* awaits and writes, and they meet only in the identity row, in the rows  *)
(* of the jobs and in the provider's transactions.  A crash ends them all, *)
(* and with them the outcomes they were handling.                          *)
(***************************************************************************)
EXTENDS Integers, Sequences, FiniteSets

CONSTANTS
    Jobs,       \* jobs of the provider, numbered by createdAt
    Scenarios   \* bounds of a behaviour: its jobs, those that are delivered,
                \* those that may leave, the id the registry mints
                \* next, and the kinds and number of faults

FaultKinds == {"crash", "query", "queue", "blocked", "dropped", "reverted", "unreadable"}

ASSUME IdentityAssumption ==
    /\ Jobs \subseteq Nat \ {0} /\ IsFiniteSet(Jobs)
    /\ Scenarios \subseteq [jobs : SUBSET Jobs, delivered : SUBSET Jobs,
                            leavers : SUBSET Jobs,
                            first : Nat, kinds : SUBSET FaultKinds, faults : Nat]

VARIABLES
    identity,   \* the AgentIdentity row; `after` is how many register rows it is newer than
    bind,       \* Job.providerAgentIdStatus
    agentId,    \* Job.providerAgentId
    status,     \* Job.status (PENDING and ACCEPTED are one)
    onChain,    \* Job.onChainStatus
    deferred,   \* jobs whose deferredSubmitAt is set
    tx,         \* the Transaction rows: the n-th register, a job's bind and its last submit
    calldata,   \* the identity in the calldata of a job's bind
    flow,       \* memory: what every flow is doing
    chain,      \* external: the job in the escrow contract
    boundTo,    \* external: its providerAgentId there
    token,      \* external: the identity the n-th register minted
    mempool,    \* external: the provider's transactions, in nonce order
    receipt,    \* external: how a mined transaction ended
    scenario,   \* the bounds of this behaviour, chosen once
    faults,     \* faults so far
    overwritten, \* has a failure been written over a registration it was not decided for?
    passed      \* jobs whose binding was passed by: its delivery read it before it began, or
                \* a flow that took the job for waiting ended it after its bind was claimed

jobVars   == <<bind, agentId, status, onChain, deferred>>
chainVars == <<chain, boundTo, token, calldata, mempool, receipt>>
pastVars  == <<scenario, overwritten, passed>>
idVars    == <<identity, jobVars, tx, flow, chainVars, pastVars, faults>>

None                      == "none"
NoId                      == -1
LIVE_FOR_BINDING          == {"ACCEPTED", "PAYMENT_PENDING"}
TERMINAL_BINDING_STATUSES == {"BOUND", "FAILED", "SKIPPED"}
\* QUEUED once past the guard, and not yet sent, is VETTED
PENDING_TX                == {"QUEUED", "VETTED", "SUBMITTED"}
IN_FLIGHT_TX              == PENDING_TX \cup {"CONFIRMED"}
\* FAILED without a broadcast, and FAILED as dropped
FailedTx                  == {"REVERTED", "UNSENT", "DROPPED"}

(* A job claims a registration at most once, so the rows are bounded.      *)
Registers == {"register"} \X (1 .. Cardinality(Jobs))
Rows      == Registers \cup ({"bindAgent", "submit"} \X Jobs)
Identity  == Registers \cup ({"bindAgent"} \X Jobs)
Flows     == Identity \cup ({"start", "deliver"} \X Jobs) \cup {<<"tick", 0>>}

RegCount  == Cardinality({r \in Registers : tx[r] # None})

(* A flow holds the status it read of the identity row, the job in hand,   *)
(* the id or verdict it read (the number of the register, of one that      *)
(* failed), the jobs it still has to fail and those whose submit it has to *)
(* release.                                                                *)
Idle == [pc |-> "idle", row |-> None, job |-> 0, id |-> 0, ok |-> FALSE,
         todo |-> {}, ended |-> {}]

Init ==
    /\ identity = [status |-> None, id |-> 0, after |-> 0]
    /\ bind = [j \in Jobs |-> None] /\ agentId = [j \in Jobs |-> NoId]
    /\ status = [j \in Jobs |-> "ACCEPTED"]
    /\ onChain = [j \in Jobs |-> "APPROVED"]
    /\ deferred = {}
    /\ tx = [r \in Rows |-> None]
    /\ flow = [f \in Flows |-> Idle]
    /\ chain = [j \in Jobs |-> "Funded"]
    /\ boundTo = [j \in Jobs |-> NoId]
    /\ token = [r \in Registers |-> NoId]
    /\ calldata = [j \in Jobs |-> NoId]
    /\ mempool = <<>>
    /\ receipt = [r \in Rows |-> None]
    /\ scenario \in Scenarios
    /\ faults = 0
    /\ overwritten = FALSE
    /\ passed = {}

Fault(kind) ==
    kind \in scenario.kinds /\ faults < scenario.faults /\ faults' = faults + 1

Goes(f, r) == flow' = [flow EXCEPT ![f] = r]

(* What is left to a flow is to release the submits behind the bindings it *)
(* ended; advanceToFunded ignores the jobs startProviderBinding returns.   *)
Over(f, r) ==
    IF f[1] = "start" \/ r.ended = {} THEN Idle
    ELSE [Idle EXCEPT !.pc = "release", !.ended = r.ended]

Live(j)    == status[j] \in LIVE_FOR_BINDING
Waiting    == {j \in Jobs : bind[j] = "BINDING" /\ agentId[j] = NoId}
Least(S)   == CHOOSE j \in S : \A i \in S : j <= i

(* endBinding: conditional on BINDING. *)
EndBinding(j, st) ==
    bind' = [bind EXCEPT ![j] = IF @ = "BINDING" THEN st ELSE @]

Ending(j) == IF bind[j] = "BINDING" THEN {j} ELSE {}

(* Is a binding ended by one who does not know that a pump has claimed it? *)
PassBy(j) == passed' = IF agentId[j] # NoId THEN passed \cup Ending(j) ELSE passed

(***************************************************************************)
(* startProviderBinding, called once by advanceToFunded.                   *)
(***************************************************************************)
FundConfirmed(j) ==
    /\ j \in scenario.jobs /\ onChain[j] = "APPROVED"
    /\ onChain' = [onChain EXCEPT ![j] = "FUNDED"]
    /\ IF Live(j) THEN Goes(<<"start", j>>, [Idle EXCEPT !.pc = "begin", !.job = j])
                  ELSE UNCHANGED flow
    /\ UNCHANGED <<identity, bind, agentId, status, deferred, tx, chainVars, pastVars, faults>>

Begin(f) ==
    /\ flow[f].pc = "begin"
    /\ bind' = [bind EXCEPT ![flow[f].job] = "BINDING"]
    /\ agentId' = [agentId EXCEPT ![flow[f].job] = NoId]
    /\ Goes(f, [flow[f] EXCEPT !.pc = "ensure"])
    /\ UNCHANGED <<identity, status, onChain, deferred, tx, chainVars, pastVars, faults>>

(***************************************************************************)
(* Where a flow goes from the outcome of the n-th register: an unreadable  *)
(* receipt leaves the row REGISTERING.  And from a REGISTERING row         *)
(* (repairRegistration): a failed register older than the claim is a       *)
(* previous attempt's.                                                     *)
(***************************************************************************)
Fails(f, r, k) == Goes(f, [r EXCEPT !.pc = "failed", !.id = k])

FaultRegisterOutcome(f, r, n) ==
    \/ /\ tx[n] = "CONFIRMED"
       /\ Goes(f, [r EXCEPT !.pc = "registered", !.id = token[n]]) /\ UNCHANGED faults
    \/ tx[n] = "CONFIRMED" /\ Fails(f, r, n[2]) /\ Fault("unreadable")
    \/ tx[n] \in FailedTx /\ Fails(f, r, n[2]) /\ UNCHANGED faults
RegisterOutcome(f, r, n) ==
    \/ /\ tx[n] = "CONFIRMED"
       /\ Goes(f, [r EXCEPT !.pc = "registered", !.id = token[n]]) /\ UNCHANGED faults
    \/ tx[n] = "CONFIRMED" /\ Goes(f, Over(f, r)) /\ Fault("unreadable")
    \/ tx[n] \in FailedTx /\ Fails(f, r, n[2]) /\ UNCHANGED faults

Latest == <<"register", RegCount>>

LatestRegister ==
    CASE RegCount = 0 -> "missing"
      [] RegCount > 0 /\ tx[Latest] \in PENDING_TX -> "pending"
      [] RegCount \in 1 .. identity.after /\ tx[Latest] \in FailedTx -> "missing"
      [] OTHER -> "ended"

RepairRegistration(f, r, failIfMissing) ==
    \/ /\ LatestRegister = "pending" \/ (LatestRegister = "missing" /\ ~failIfMissing)
       /\ Goes(f, Over(f, r)) /\ UNCHANGED faults
    \/ /\ LatestRegister = "missing" /\ failIfMissing
       /\ Fails(f, r, 0) /\ UNCHANGED faults
    \/ LatestRegister = "ended" /\ RegisterOutcome(f, r, Latest)

(***************************************************************************)
(* ensureIdentity: reads the row, claims a new registration under the      *)
(* condition that the row is as it was read, and reads it again.           *)
(***************************************************************************)
Joins(f, r) ==
    \/ /\ identity.status = "REGISTERED"
       /\ Goes(f, [r EXCEPT !.pc = "pump"]) /\ UNCHANGED faults
    \/ identity.status = "REGISTERING" /\ RepairRegistration(f, r, FALSE)

Ensure(f) ==
    /\ flow[f].pc = "ensure"
    /\ \/ Joins(f, flow[f])
       \/ /\ identity.status \in {None, "FAILED"}
          /\ Goes(f, [flow[f] EXCEPT !.pc = "claimRow", !.row = identity.status])
          /\ UNCHANGED faults
    /\ UNCHANGED <<identity, jobVars, tx, chainVars, pastVars>>

(* A first claim creates the row, and is not read again. *)
ClaimRow(f) ==
    /\ flow[f].pc = "claimRow"
    /\ LET r == [flow[f] EXCEPT !.row = None]
       IN  \/ /\ identity.status = flow[f].row
              /\ identity' = [status |-> "REGISTERING", id |-> 0, after |-> RegCount]
              /\ Goes(f, IF flow[f].row = None
                         THEN [r EXCEPT !.pc = "enqueue", !.row = "REGISTERING"]
                         ELSE [r EXCEPT !.pc = "claimed"])
           \/ /\ identity.status # flow[f].row
              /\ Goes(f, [r EXCEPT !.pc = "lost"]) /\ UNCHANGED identity
    /\ UNCHANGED <<jobVars, tx, chainVars, pastVars, faults>>

Reread(f) ==
    /\ \/ /\ flow[f].pc = "claimed"
          /\ Goes(f, [flow[f] EXCEPT !.pc = "enqueue", !.row = identity.status])
          /\ UNCHANGED faults
       \/ flow[f].pc = "lost" /\ Joins(f, flow[f])
       \/ /\ flow[f].pc = "lost" /\ identity.status = "FAILED"
          /\ Goes(f, [flow[f] EXCEPT !.pc = "waiting"]) /\ UNCHANGED faults
    /\ UNCHANGED <<identity, jobVars, tx, chainVars, pastVars>>

(* The register is enqueued, and the job waits for it, unless the row that *)
(* was read again is no longer the claim's; when the queue refuses, its    *)
(* row is closed and the identity is failed next.                          *)
EnqueueRegister(f) ==
    /\ flow[f].pc = "enqueue"
    /\ LET r == flow[f]
           n == <<"register", RegCount + 1>>
       IN  \/ /\ tx' = [tx EXCEPT ![n] = "QUEUED"]
              /\ Goes(f, CASE r.row = "FAILED" -> [r EXCEPT !.pc = "waiting", !.row = None]
                           [] r.row = "REGISTERED" -> [r EXCEPT !.pc = "pump", !.row = None]
                           [] OTHER -> Idle)
              /\ UNCHANGED faults
           \/ /\ tx' = [tx EXCEPT ![n] = "UNSENT"]
              /\ Fails(f, [r EXCEPT !.row = None], n[2]) /\ Fault("queue")
    /\ UNCHANGED <<identity, jobVars, chainVars, pastVars>>

(***************************************************************************)
(* The end of a registration.  failIdentity and the write of REGISTERED    *)
(* name the row only, whatever it has become since it was read: by then it *)
(* may have been claimed again, and another registration than the one that *)
(* failed is alive.                                                        *)
(***************************************************************************)
ClaimedSince(f) == \/ \E g \in Flows : flow[g].pc \in {"claimed", "enqueue"}
                   \/ \E r \in Registers : r[2] # flow[f].id /\ tx[r] \in IN_FLIGHT_TX

FailIdentity(f) ==
    /\ flow[f].pc = "failed"
    /\ identity' = [identity EXCEPT !.status = "FAILED", !.after = RegCount]
    /\ Goes(f, [flow[f] EXCEPT !.pc = "waiting", !.id = 0])
    /\ overwritten' = (overwritten \/ ClaimedSince(f))
    /\ UNCHANGED <<jobVars, tx, chainVars, scenario, passed, faults>>

(* failWaitingJobs: the list is read first, then each job is ended. *)
ListWaiting(f) ==
    /\ flow[f].pc = "waiting"
    /\ Goes(f, IF Waiting = {} THEN Over(f, flow[f])
               ELSE [flow[f] EXCEPT !.pc = "failing", !.todo = Waiting])
    /\ UNCHANGED <<identity, jobVars, tx, chainVars, pastVars, faults>>

FailWaiting(f) ==
    /\ flow[f].pc = "failing"
    /\ LET j == Least(flow[f].todo)
           r == [flow[f] EXCEPT !.todo = @ \ {j}, !.ended = @ \cup Ending(j)]
       IN  /\ EndBinding(j, "FAILED") /\ PassBy(j)
           /\ Goes(f, IF r.todo = {} THEN Over(f, r) ELSE r)
    /\ UNCHANGED <<identity, agentId, status, onChain, deferred, tx, chainVars, scenario,
                   overwritten, faults>>

(* Whatever a query throws in the start of a binding ends the binding of   *)
(* its job (startProviderBinding, advanceToFunded).                        *)
StartFails(f) ==
    /\ f[1] = "start" /\ flow[f].pc \notin {"idle", "begin", "enqueue", "enqueueBind"}
    /\ Fault("query")
    /\ EndBinding(f[2], "FAILED") /\ PassBy(f[2])
    /\ Goes(f, Idle)
    /\ UNCHANGED <<identity, agentId, status, onChain, deferred, tx, chainVars, scenario,
                   overwritten>>

Registered(f) ==
    /\ flow[f].pc = "registered"
    /\ identity' = [status |-> "REGISTERED", id |-> flow[f].id, after |-> RegCount]
    /\ Goes(f, [flow[f] EXCEPT !.pc = "pump"])
    /\ UNCHANGED <<jobVars, tx, chainVars, pastVars, faults>>

(***************************************************************************)
(* pumpBindings: looks at the lane once, then takes the oldest waiting job *)
(* until one bind is on its way.                                           *)
(***************************************************************************)
Busy == \E r \in Identity : tx[r] \in PENDING_TX

LookAtLane(f) ==
    /\ flow[f].pc = "pump"
    /\ Goes(f, IF identity.status = "REGISTERED" /\ ~Busy
               THEN [flow[f] EXCEPT !.pc = "next", !.id = identity.id]
               ELSE Over(f, flow[f]))
    /\ UNCHANGED <<identity, jobVars, tx, chainVars, pastVars, faults>>

Bindable(j, id) == Live(j) /\ onChain[j] = "FUNDED" /\ id # 0

NextWaiting(f) ==
    /\ flow[f].pc = "next"
    /\ LET r == flow[f]
           j == Least(Waiting)
       IN  \/ Waiting = {} /\ Goes(f, Over(f, r)) /\ UNCHANGED bind
           \/ /\ Waiting # {} /\ ~Bindable(j, r.id)
              /\ EndBinding(j, "SKIPPED")
              /\ Goes(f, [r EXCEPT !.ended = @ \cup {j}])
           \/ /\ Waiting # {} /\ Bindable(j, r.id)
              /\ Goes(f, [r EXCEPT !.pc = "claim", !.job = j])
              /\ UNCHANGED bind
    /\ UNCHANGED <<identity, agentId, status, onChain, deferred, tx, chainVars, pastVars, faults>>

ClaimJob(f) ==
    /\ flow[f].pc = "claim"
    /\ LET r == flow[f]
       IN  \/ /\ r.job \in Waiting
              /\ agentId' = [agentId EXCEPT ![r.job] = r.id]
              /\ Goes(f, [r EXCEPT !.pc = "enqueueBind"])
           \/ /\ r.job \notin Waiting
              /\ Goes(f, Over(f, r)) /\ UNCHANGED agentId
    /\ UNCHANGED <<identity, bind, status, onChain, deferred, tx, chainVars, pastVars, faults>>

EnqueueBind(f) ==
    /\ flow[f].pc = "enqueueBind"
    /\ LET r == flow[f]
           n == <<"bindAgent", r.job>>
       IN  \/ /\ tx' = [tx EXCEPT ![n] = "QUEUED"]
              /\ calldata' = [calldata EXCEPT ![r.job] = r.id]
              /\ Goes(f, Over(f, r)) /\ UNCHANGED <<bind, faults>>
           \/ /\ tx' = [tx EXCEPT ![n] = "UNSENT"] /\ Fault("queue")
              /\ calldata' = [calldata EXCEPT ![r.job] = r.id]
              /\ EndBinding(r.job, "FAILED")
              /\ Goes(f, [r EXCEPT !.pc = "next", !.ended = @ \cup Ending(r.job)])
    /\ UNCHANGED <<identity, agentId, status, onChain, deferred, chain, boundTo, token,
                   mempool, receipt, pastVars>>

(***************************************************************************)
(* Outcomes of the rows: onIdentityTxOutcome, one handler per row.         *)
(***************************************************************************)
RegisterEnded(f) ==
    /\ flow[f].pc = "look" /\ f \in Registers
    /\ \/ /\ identity.status = "REGISTERED"
          /\ Goes(f, [flow[f] EXCEPT !.pc = "pump"]) /\ UNCHANGED faults
       \/ identity.status # "REGISTERED" /\ RegisterOutcome(f, flow[f], f)
    /\ UNCHANGED <<identity, jobVars, tx, chainVars, pastVars>>

(* onBindOutcome: the job is always returned, whoever ended its binding. *)
FaultBindEnded(f) ==
    /\ flow[f].pc = "bindEnded"
    /\ EndBinding(flow[f].job, "BOUND")
    /\ Goes(f, [flow[f] EXCEPT !.pc = "pump", !.ok = FALSE, !.ended = @ \cup {flow[f].job}])
    /\ UNCHANGED <<identity, agentId, status, onChain, deferred, tx, chainVars, pastVars, faults>>
BindEnded(f) ==
    /\ flow[f].pc = "bindEnded"
    /\ EndBinding(flow[f].job, IF flow[f].ok THEN "BOUND" ELSE "FAILED")
    /\ Goes(f, [flow[f] EXCEPT !.pc = "pump", !.ok = FALSE, !.ended = @ \cup {flow[f].job}])
    /\ UNCHANGED <<identity, agentId, status, onChain, deferred, tx, chainVars, pastVars, faults>>

(***************************************************************************)
(* The deliverable.  enqueueSubmit defers it while the job is BINDING and  *)
(* sends it otherwise; releaseDeferredSubmit sends it later.  A submit     *)
(* that is in flight is not sent again, one the queue refuses hands the    *)
(* job back.                                                               *)
(***************************************************************************)
SendSubmit(j) ==
    LET n == <<"submit", j>>
    IN  \/ tx[n] \in IN_FLIGHT_TX /\ UNCHANGED <<tx, status, faults>>
        \/ /\ tx[n] \notin IN_FLIGHT_TX
           /\ tx' = [tx EXCEPT ![n] = "QUEUED"] /\ UNCHANGED <<status, faults>>
        \/ /\ tx[n] \notin IN_FLIGHT_TX /\ Fault("queue")
           /\ tx' = [tx EXCEPT ![n] = "UNSENT"]
           /\ status' = [status EXCEPT ![j] = IF @ = "PAYMENT_PENDING" THEN "ACCEPTED" ELSE @]

(* PATCH ACCEPTED, which needs FUNDED, and PATCH COMPLETED up to the read  *)
(* of the binding.                                                         *)
Deliver(j) ==
    /\ j \in scenario.delivered /\ onChain[j] = "FUNDED"
    /\ status[j] = "ACCEPTED" /\ flow[<<"deliver", j>>].pc = "idle"
    /\ passed' = IF flow[<<"start", j>>].pc = "begin" THEN passed \cup {j} ELSE passed
    /\ status' = [status EXCEPT ![j] = "PAYMENT_PENDING"]
    /\ Goes(<<"deliver", j>>,
            [Idle EXCEPT !.pc = IF bind[j] = "BINDING" THEN "defer" ELSE "submit", !.job = j])
    /\ UNCHANGED <<identity, bind, agentId, onChain, deferred, tx, chainVars, scenario,
                   overwritten, faults>>

Defer(f) ==
    /\ flow[f].pc = "defer"
    /\ LET j == flow[f].job
       IN  \/ /\ bind[j] = "BINDING"
              /\ deferred' = deferred \cup {j} /\ Goes(f, Idle)
           \/ /\ bind[j] # "BINDING"
              /\ Goes(f, [flow[f] EXCEPT !.pc = "submit"]) /\ UNCHANGED deferred
    /\ UNCHANGED <<identity, bind, agentId, status, onChain, tx, chainVars, pastVars, faults>>

Submit(f) ==
    /\ flow[f].pc = "submit"
    /\ SendSubmit(flow[f].job)
    /\ Goes(f, Idle)
    /\ UNCHANGED <<identity, bind, agentId, onChain, deferred, chainVars, pastVars>>

(* releaseDeferredSubmit, for every job whose binding the flow ended: the  *)
(* deferral is claimed, conditional on a terminal binding ...              *)
Released(f, free) ==
    /\ flow[f].pc = "release"
    /\ LET r == flow[f]
           j == Least(r.ended)
       IN  \/ /\ j \in deferred /\ free[j]
              /\ deferred' = deferred \ {j}
              /\ Goes(f, [r EXCEPT !.pc = "send", !.job = j, !.ended = @ \ {j}])
           \/ /\ ~(j \in deferred /\ free[j])
              /\ Goes(f, Over(f, [r EXCEPT !.ended = @ \ {j}])) /\ UNCHANGED deferred
    /\ UNCHANGED <<identity, bind, agentId, status, onChain, tx, chainVars, pastVars, faults>>
FaultRelease(f) == Released(f, [j \in Jobs |-> TRUE])
Release(f) == Released(f, [j \in Jobs |-> bind[j] \in TERMINAL_BINDING_STATUSES])

(* ... and the submit is sent, unless the job has ended meanwhile. *)
Send(f) ==
    /\ flow[f].pc = "send"
    /\ LET j == flow[f].job
       IN  \/ /\ status[j] = "PAYMENT_PENDING" /\ onChain[j] = "FUNDED"
              /\ SendSubmit(j)
           \/ /\ ~(status[j] = "PAYMENT_PENDING" /\ onChain[j] = "FUNDED")
              /\ UNCHANGED <<tx, status, faults>>
    /\ Goes(f, Over(f, flow[f]))
    /\ UNCHANGED <<identity, bind, agentId, onChain, deferred, chainVars, pastVars>>

(***************************************************************************)
(* The recovery tick, one stale job at a time.  A row that was written a   *)
(* moment ago is not stale.                                                *)
(***************************************************************************)
Stale(j) == \A f \in Flows : flow[f].pc # "idle" => flow[f].job # j

(* Is the claimer of a registration dead?  It enqueues right after it has  *)
(* claimed, and the tick waits for REGISTER_CLAIM_GRACE_MS.                *)
FaultClaimerNeverDies == FALSE
ClaimerIsDead == \A f \in Flows : flow[f].pc \notin {"claimed", "enqueue"}

FaultRecoveryPicks(j) ==
    /\ flow[<<"tick", 0>>].pc = "idle" /\ Stale(j)
    /\ Live(j) /\ onChain[j] = "FUNDED" /\ chain[j] = "Funded" /\ bind[j] = "BINDING"

(* recoverErc8183Job and reconcileEscrowJob up to advanceBinding. *)
RecoveryPicks(j) ==
    /\ flow[<<"tick", 0>>].pc = "idle" /\ Stale(j)
    /\ Live(j) /\ onChain[j] = "FUNDED"
    /\ \/ status[j] = "PAYMENT_PENDING" /\ j \in deferred
       \/ status[j] # "PAYMENT_PENDING" /\ bind[j] = "BINDING" /\ chain[j] = "Funded"

AdvanceBinding(j) ==
    LET f == <<"tick", 0>>
        n == <<"bindAgent", j>>
        r == [Idle EXCEPT !.job = j, !.ended = IF j \in deferred THEN {j} ELSE {}]
    IN  /\ RecoveryPicks(j)
        /\ \/ /\ bind[j] # "BINDING" \/ (agentId[j] # NoId /\ tx[n] \in PENDING_TX)
              /\ Goes(f, Over(f, r)) /\ UNCHANGED <<bind, faults>>
           \/ /\ bind[j] = "BINDING" /\ agentId[j] # NoId /\ tx[n] \notin PENDING_TX
              /\ Goes(f, [r EXCEPT !.pc = "bindEnded", !.ok = (tx[n] = "CONFIRMED")])
              /\ UNCHANGED <<bind, faults>>
           \/ /\ bind[j] = "BINDING" /\ agentId[j] = NoId
              /\ \/ /\ identity.status = None
                    /\ EndBinding(j, "FAILED")
                    /\ Goes(f, Over(f, [r EXCEPT !.ended = {j}])) /\ UNCHANGED faults
                 \/ /\ identity.status = "REGISTERING"
                    /\ RepairRegistration(f, r, ClaimerIsDead) /\ UNCHANGED bind
                 \/ /\ identity.status = "FAILED"
                    /\ Goes(f, [r EXCEPT !.pc = "waiting"]) /\ UNCHANGED <<bind, faults>>
                 \/ /\ identity.status = "REGISTERED"
                    /\ Goes(f, [r EXCEPT !.pc = "pump"]) /\ UNCHANGED <<bind, faults>>
        /\ UNCHANGED <<identity, agentId, status, onChain, deferred, tx, chainVars, pastVars>>

(* A PAYMENT_PENDING job with no submit under way: the chain decides. *)
ReturnToAccepted(j) ==
    /\ flow[<<"tick", 0>>].pc = "idle" /\ Stale(j)
    /\ status[j] = "PAYMENT_PENDING" /\ onChain[j] = "FUNDED" /\ j \notin deferred
    /\ tx[<<"submit", j>>] \notin PENDING_TX
    /\ \/ /\ chain[j] = "Funded"
          /\ status' = [status EXCEPT ![j] = "ACCEPTED"] /\ UNCHANGED onChain
       \/ /\ chain[j] = "Submitted"
          /\ onChain' = [onChain EXCEPT ![j] = "SUBMITTED"] /\ UNCHANGED status
    /\ UNCHANGED <<identity, bind, agentId, deferred, tx, flow, chainVars, pastVars, faults>>

(***************************************************************************)
(* The transaction pipeline, as this module needs it (module TxPipeline    *)
(* has it in full).  The guard asks vetBindBeforeBroadcast before a bind   *)
(* is signed; what it refuses is SKIPPED first and its row closed next.    *)
(***************************************************************************)
Handler(n) ==
    IF n[1] = "register" THEN [Idle EXCEPT !.pc = "look"]
    ELSE [Idle EXCEPT !.pc = "bindEnded", !.job = n[2], !.ok = (tx'[n] = "CONFIRMED")]

Close(n, st) ==
    /\ tx' = [tx EXCEPT ![n] = st]
    /\ IF n \in Identity THEN Goes(n, Handler(n)) ELSE UNCHANGED flow

MayBroadcast(j) == bind[j] = "BINDING" /\ Live(j) /\ onChain[j] = "FUNDED"

VetBind(j) ==
    LET n == <<"bindAgent", j>>
    IN  /\ tx[n] = "QUEUED"
        /\ \/ /\ MayBroadcast(j)
              /\ \/ chain[j] = "Funded" /\ UNCHANGED faults
                 \/ chain[j] # "Funded" /\ Fault("unreadable")
              /\ tx' = [tx EXCEPT ![n] = "VETTED"] /\ UNCHANGED <<bind, flow>>
           \/ /\ bind[j] = "BINDING" /\ ~(MayBroadcast(j) /\ chain[j] = "Funded")
              /\ EndBinding(j, "SKIPPED") /\ UNCHANGED <<tx, flow, faults>>
           \/ /\ bind[j] # "BINDING"
              /\ Close(n, "UNSENT") /\ UNCHANGED <<bind, faults>>
        /\ UNCHANGED <<identity, agentId, status, onChain, deferred, chainVars, pastVars>>

Broadcast(n) ==
    /\ tx[n] = IF n[1] = "bindAgent" THEN "VETTED" ELSE "QUEUED"
    /\ tx' = [tx EXCEPT ![n] = "SUBMITTED"]
    /\ mempool' = Append(mempool, n)
    /\ UNCHANGED <<identity, jobVars, flow, chain, boundTo, token, calldata, receipt, pastVars,
                   faults>>

Confirm(n) ==
    /\ tx[n] = "SUBMITTED" /\ receipt[n] # None
    /\ Close(n, receipt[n])
    /\ onChain' = IF n[1] = "submit" /\ receipt[n] = "CONFIRMED" /\ onChain[n[2]] = "FUNDED"
                  THEN [onChain EXCEPT ![n[2]] = "SUBMITTED"] ELSE onChain
    /\ UNCHANGED <<identity, bind, agentId, status, deferred, chainVars, pastVars, faults>>

(* Never broadcast (blocked, or out of attempts), and declared dropped. *)
GiveUp(n) ==
    /\ n \in Identity
    /\ \/ tx[n] = "QUEUED" /\ Fault("blocked") /\ Close(n, "UNSENT")
       \/ tx[n] = "SUBMITTED" /\ receipt[n] = None /\ Fault("dropped") /\ Close(n, "DROPPED")
    /\ UNCHANGED <<identity, jobVars, chainVars, pastVars>>

(***************************************************************************)
(* The chain.  setProviderAgentId and submit need a job that is Funded;    *)
(* the identities are minted in the order of the nonces.                   *)
(***************************************************************************)
Minted == Cardinality({r \in Registers : token[r] # NoId})

Mine ==
    /\ mempool # <<>>
    /\ LET n == Head(mempool)
           j == n[2]
       IN  /\ \/ /\ n[1] = "register"
                 /\ token' = [token EXCEPT ![n] = scenario.first + Minted]
                 /\ receipt' = [receipt EXCEPT ![n] = "CONFIRMED"]
                 /\ UNCHANGED <<chain, boundTo, faults>>
              \/ /\ n[1] = "register" /\ Fault("reverted")
                 /\ receipt' = [receipt EXCEPT ![n] = "REVERTED"]
                 /\ UNCHANGED <<chain, boundTo, token>>
              \/ /\ n[1] # "register" /\ chain[j] = "Funded"
                 /\ receipt' = [receipt EXCEPT ![n] = "CONFIRMED"]
                 /\ chain' = IF n[1] = "submit" THEN [chain EXCEPT ![j] = "Submitted"] ELSE chain
                 /\ boundTo' = IF n[1] = "bindAgent" THEN [boundTo EXCEPT ![j] = calldata[j]]
                               ELSE boundTo
                 /\ UNCHANGED <<token, faults>>
              \/ /\ n[1] # "register" /\ chain[j] # "Funded"
                 /\ receipt' = [receipt EXCEPT ![n] = "REVERTED"]
                 /\ UNCHANGED <<chain, boundTo, token, faults>>
    /\ mempool' = Tail(mempool)
    /\ UNCHANGED <<identity, jobVars, tx, flow, calldata, pastVars>>

(* A job leaves: it is cancelled, or its deadline passes while it waits,   *)
(* and the refund is mined.  The DB follows the chain.                     *)
Cancel(j) ==
    /\ j \in scenario.leavers /\ status[j] = "ACCEPTED"
    /\ status' = [status EXCEPT ![j] = "CANCELLED"]
    /\ UNCHANGED <<identity, bind, agentId, onChain, deferred, tx, flow, chainVars, pastVars,
                   faults>>

Refund(j) ==
    /\ j \in scenario.leavers /\ onChain[j] = "FUNDED" /\ chain[j] = "Funded"
    /\ chain' = [chain EXCEPT ![j] = "Refunded"]
    /\ UNCHANGED <<identity, jobVars, tx, flow, boundTo, token, calldata, mempool, receipt,
                   pastVars, faults>>

Mirror(j) ==
    /\ chain[j] = "Refunded" /\ onChain[j] # "REFUNDED"
    /\ onChain' = [onChain EXCEPT ![j] = "REFUNDED"]
    /\ status' = [status EXCEPT ![j] = IF Live(j) THEN "FAILED" ELSE @]
    /\ UNCHANGED <<identity, bind, agentId, deferred, tx, flow, chainVars, pastVars, faults>>

Crash ==
    /\ \E f \in Flows : flow[f].pc # "idle"
    /\ Fault("crash")
    /\ flow' = [f \in Flows |-> Idle]
    /\ tx' = [n \in Rows |-> IF tx[n] = "VETTED" THEN "QUEUED" ELSE tx[n]]
    /\ UNCHANGED <<identity, jobVars, chainVars, pastVars>>

Steps(f) ==
    /\ flow[f].pc # "idle"
    /\ \/ Begin(f) \/ Ensure(f) \/ ClaimRow(f) \/ Reread(f) \/ EnqueueRegister(f)
       \/ FailIdentity(f) \/ ListWaiting(f) \/ FailWaiting(f) \/ Registered(f)
       \/ LookAtLane(f) \/ NextWaiting(f) \/ ClaimJob(f) \/ EnqueueBind(f)
       \/ RegisterEnded(f) \/ BindEnded(f)
       \/ Defer(f) \/ Submit(f) \/ Release(f) \/ Send(f)

Pipeline ==
    \/ Mine
    \/ \E n \in Rows : Broadcast(n) \/ Confirm(n)
    \/ \E j \in Jobs : FundConfirmed(j) \/ VetBind(j)

Next ==
    \/ Pipeline
    \/ \E f \in Flows : Steps(f) \/ StartFails(f)
    \/ \E j \in Jobs : \/ Deliver(j) \/ AdvanceBinding(j) \/ ReturnToAccepted(j)
                       \/ Cancel(j) \/ Refund(j) \/ Mirror(j)
    \/ \E n \in Rows : GiveUp(n)
    \/ Crash

IdSpec == Init /\ [][Next]_idVars

Tick == <<"tick", 0>>

(* The worker and the chain run, so do the flows, and a tick finishes what *)
(* it has begun and takes the oldest job first: a job that stays stale     *)
(* gets its turn.                                                          *)
FairIdSpec ==
    /\ IdSpec
    /\ WF_idVars(Pipeline \/ \E f \in Flows \ {Tick} : Steps(f))
    /\ WF_idVars(Steps(Tick))
    /\ \A j \in Jobs : SF_idVars(AdvanceBinding(j) \/ ReturnToAccepted(j))

(***************************************************************************)
(* Properties.                                                             *)
(***************************************************************************)
Pcs == {"idle", "begin", "ensure", "claimRow", "claimed", "lost", "enqueue",
        "failed", "waiting", "failing", "registered", "pump", "next", "claim",
        "enqueueBind", "look", "bindEnded", "defer", "submit", "release", "send"}

(* The pcs at which a flow acts for the job in hand. *)
InHand == {"begin", "claim", "enqueueBind", "bindEnded", "defer", "submit", "send"}

(* Types, and that a flow which acts for a job has one in hand. *)
IdTypeOK ==
    /\ identity \in [status : {None, "REGISTERING", "REGISTERED", "FAILED"},
                     id : Nat \cup {NoId}, after : Nat]
    /\ bind \in [Jobs -> {None, "BINDING"} \cup TERMINAL_BINDING_STATUSES]
    /\ agentId \in [Jobs -> Nat \cup {NoId}]
    /\ status \in [Jobs -> {"ACCEPTED", "PAYMENT_PENDING", "CANCELLED", "FAILED"}]
    /\ onChain \in [Jobs -> {"APPROVED", "FUNDED", "SUBMITTED", "REFUNDED"}]
    /\ deferred \subseteq Jobs
    /\ tx \in [Rows -> {None, "CONFIRMED"} \cup PENDING_TX \cup FailedTx]
    /\ flow \in [Flows -> [pc : Pcs, row : {None, "REGISTERING", "REGISTERED", "FAILED"},
                           job : Jobs \cup {0}, id : Nat \cup {NoId}, ok : BOOLEAN,
                           todo : SUBSET Jobs, ended : SUBSET Jobs]]
    /\ \A f \in Flows : flow[f].pc \in InHand => flow[f].job \in Jobs
    /\ chain \in [Jobs -> {"Funded", "Submitted", "Refunded"}]
    /\ boundTo \in [Jobs -> Nat \cup {NoId}]
    /\ token \in [Registers -> Nat \cup {NoId}]
    /\ calldata \in [Jobs -> Nat \cup {NoId}]
    /\ mempool \in Seq(Rows)
    /\ receipt \in [Rows -> {None, "CONFIRMED", "REVERTED"}]
    /\ scenario \in Scenarios /\ faults \in Nat /\ overwritten \in BOOLEAN /\ passed \subseteq Jobs

(* A job that is BOUND is bound on the chain, to the identity the row says *)
(* and that was minted to the provider, whatever was lost or replayed.     *)
(* The hook keeps the first id it verifies, so all jobs must be bound to   *)
(* the same one, whatever was dropped and mined after all.                 *)
Bound == {j \in Jobs : bind[j] = "BOUND"}

BoundToMinted ==
    \A j \in Bound : /\ boundTo[j] = agentId[j]
                     /\ \E r \in Registers : token[r] = agentId[j]

OneIdentityBound ==
    overwritten \/ \A i, j \in Bound : agentId[i] = agentId[j]

BoundIsTrue == BoundToMinted /\ OneIdentityBound

(* enqueueSubmit's "they must not race": setProviderAgentId reverts once   *)
(* the job is Submitted, so the deliverable is never mined before a bind   *)
(* of its job that was broadcast, unless its binding was passed by.        *)
BindBeforeSubmit ==
    mempool # <<>> =>
        LET n == Head(mempool)
        IN  n[1] = "bindAgent" => chain[n[2]] # "Submitted" \/ n[2] \in passed

(* The provider pays for a second identity only if its register was        *)
(* declared dropped, or a late failure was written over a claim: no crash, *)
(* failed enqueue or unreadable receipt makes it mint again.               *)
OneMintUnlessDropped ==
    Minted > 1 => overwritten \/ \E r \in Registers : tx[r] = "DROPPED"

(* Never blocks payment: the binding of a job that can still be bound ends *)
(* whatever crashes, is dropped or cannot be enqueued ...                  *)
Open(j) == Live(j) /\ chain[j] = "Funded"

BindingsEnd ==
    []<>(\A j \in Jobs : bind[j] # "BINDING" \/ ~Open(j))

(* ... and every deferred deliverable leaves. *)
DeliverablesLeave ==
    []<>(\A j \in Jobs : j \notin deferred \/ ~Open(j))
=============================================================================
