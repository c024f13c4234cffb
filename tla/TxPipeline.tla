----------------------------- MODULE TxPipeline -----------------------------
(***************************************************************************)
(* The transaction pipeline of the backend (packages/backend/src): rows of *)
(* the Transaction table are signed and broadcast by BullMQ deliveries,    *)
(* observed by monitors and by the recovery tick, and settled: the         *)
(* reservation of an ordinary row against the daily volume, or the job and *)
(* the escrow reservation that an agent-to-agent (A2A) payment pays for.   *)
(*                                                                         *)
(* All rows send from one wallet on one chain.  Rows differ in calldata,   *)
(* so that no two of them sign identical transactions.  Postgres writes    *)
(* that are one conditional UPDATE are one step; everything with an await  *)
(* between is several, and a delivery, a monitor or a handler may die      *)
(* between any two.  BullMQ and the chain are external.                    *)
(***************************************************************************)
EXTENDS Integers, FiniteSets

(* An ordinary transfer, one through the executor contract, the payment of *)
(* a job, a call that pushes the stored policy to the chain.               *)
Kind == {"transfer", "routed", "a2a", "policySync"}

CONSTANTS
    Txs,            \* transaction rows
    Kinds,          \* the kinds of transaction a row may be of
    Pausable,       \* bound: rows whose agent is paused, or sync superseded
    Workers,        \* concurrent deliveries of the BullMQ worker
    MaxAttempts,    \* BullMQ attempts per job
    Prices,         \* gas prices an attempt can be signed with
    LateKinds,      \* bound: the kinds of row that live through the untimely case
    MaxLosses,      \* bound: deliveries, monitors and handlers that die
    NoWorker, NoTx, NoHash

ASSUME PipelineAssumption ==
    /\ IsFiniteSet(Txs) /\ IsFiniteSet(Workers)
    /\ Kinds \subseteq Kind /\ Kinds # {}
    /\ Pausable \subseteq Txs
    /\ MaxAttempts \in Nat \ {0}
    /\ MaxLosses \in Nat
    /\ LateKinds \subseteq Kind
    /\ NoWorker \notin Workers /\ NoTx \notin Txs

VARIABLES
    row,          \* Transaction: kind (metadata), status, txHash, broadcastAttempts,
                  \* broadcastTxHash, volumeState
    job,          \* status of the job an A2A row pays
    reservation,  \* reservationStatus of that job
    credits,      \* a2aTxCount earned by its provider for it
    bull,         \* external: the BullMQ job of a row
    at,           \* a delivery: where it is, its row, the transaction it signed
    lane,         \* the delivery that holds the wallet lane
    lastUsed,     \* NonceStore: last nonce broadcast in the lane, -1 for none
    watch,        \* monitors of this process: the hashes they poll
    fin,          \* outcome handlers: <<who, row>> -> what comes next
    pool,         \* external: transactions the RPC nodes hold unmined
    hidden,       \* external: transactions sent that no RPC node admits to
    mined,        \* external: receipts
    refused,      \* rows whose agent is paused or expired, or whose sync is superseded
    verified,     \* the on-chain contracts are verified now
    losses        \* bounded count of deaths

dbVars    == <<row, job, reservation, credits>>
queueVars == <<bull, at, lane, lastUsed>>
watchVars == <<watch, fin>>
chainVars == <<pool, hidden, mined>>
envVars   == <<refused, verified, losses>>
txVars    == <<dbVars, queueVars, watchVars, chainVars, envVars>>

(* No send arrives after its answer was given up, nodes keep a transaction *)
(* until its delivery wrote SUBMITTED, and no lane outlives its TTL while  *)
(* its holder is alive.                                                    *)
Timely == \A t \in Txs : row[t].kind \notin LateKinds

(***************************************************************************)
(* The chain, as the code sees it through its RPC nodes.                   *)
(***************************************************************************)
Signed == [tx : Txs, nonce : Nat, price : Prices]

ASSUME HashAssumption == NoHash \notin Signed

MinedHashes  == {m.hash : m \in mined}
AccountNonce == Cardinality(mined)
PoolNonces   == {h.nonce : h \in pool}

(* getTransactionCount("pending"): past the unmined transactions in order. *)
PendingCount ==
    CHOOSE n \in AccountNonce..(AccountNonce + Cardinality(pool)) :
        /\ n \notin PoolNonces
        /\ \A k \in AccountNonce..(n - 1) : k \in PoolNonces

(* isKnownTransaction: pending or mined on any node.  Fault: ask only for  *)
(* pending transactions.                                                   *)
FaultKnownPending(h) == h \in pool
Known(h) == h \in pool \cup MinedHashes

(***************************************************************************)
(* Rows.                                                                   *)
(***************************************************************************)
A2A         == {t \in Txs : row[t].kind = "a2a"}
PolicySyncs == {t \in Txs : row[t].kind = "policySync"}

(* contractsDeferral: rows that wait for verified on-chain contracts. *)
Gated == {t \in Txs : row[t].kind \in {"routed", "policySync"}}

TxStatus == {"QUEUED", "SUBMITTED", "CONFIRMED", "REVERTED", "FAILED"}
Settled  == {"CONFIRMED", "REVERTED", "FAILED"}

(* The condition of every write that sends or stops a row. *)
Unsent(r) == r.status = "QUEUED" /\ r.txHash = NoHash

(* markBroadcastAttempt: the hash of the attempt about to be sent replaces *)
(* the one before.  Fault: the first hash is kept.                         *)
FaultStampedFirst(r, h) ==
    [r EXCEPT !.broadcastAttempts = @ + 1,
              !.broadcastTxHash = IF @ = NoHash THEN h ELSE @]
Stamped(r, h) == [r EXCEPT !.broadcastAttempts = @ + 1, !.broadcastTxHash = h]

(* The guard, the failed handler and the stranded sweep stop a row: FAILED *)
(* if it was never stamped, handed to the chain if it was.  Fault: FAILED  *)
(* either way.                                                             *)
FaultStoppedAnyway(r) == IF Unsent(r) THEN [r EXCEPT !.status = "FAILED"] ELSE r
Stopped(r) ==
    IF ~Unsent(r) THEN r
    ELSE IF r.broadcastAttempts = 0 THEN [r EXCEPT !.status = "FAILED"]
    ELSE [r EXCEPT !.status = "SUBMITTED", !.txHash = r.broadcastTxHash]

(* The write of SUBMITTED after the send.  Fault: unconditional. *)
Submitted(r, h) ==
    IF Unsent(r) THEN [r EXCEPT !.status = "SUBMITTED", !.txHash = h] ELSE r

(* The settlement of a reservation that is still RESERVED, by outcome: it  *)
(* is held while some attempt may be mined.  Fault: released on failure.   *)
FaultReleasedOnFailure(r) ==
    IF r.volume # "RESERVED" THEN r.volume
    ELSE IF r.status = "CONFIRMED" THEN "COMMITTED" ELSE "RELEASED"
SettledVolume(r) ==
    IF r.volume # "RESERVED" THEN r.volume
    ELSE CASE r.status = "CONFIRMED" -> "COMMITTED"
           [] r.status = "REVERTED"  -> IF r.broadcastAttempts <= 1 THEN "RELEASED" ELSE "HELD"
           [] r.status = "FAILED"    -> IF r.broadcastAttempts = 0 /\ r.txHash = NoHash
                                        THEN "RELEASED" ELSE "HELD"
           [] OTHER -> r.volume

TxInit ==
    /\ \E kind \in [Txs -> Kinds] :
          row = [t \in Txs |-> [kind |-> kind[t], status |-> "QUEUED", txHash |-> NoHash,
                                broadcastAttempts |-> 0, broadcastTxHash |-> NoHash,
                                volume |-> IF kind[t] \in {"a2a", "policySync"}
                                           THEN "NONE" ELSE "RESERVED"]]
    /\ job = [t \in A2A |-> "PAYMENT_PENDING"]
    /\ reservation = [t \in A2A |-> "PENDING"]
    /\ credits = [t \in A2A |-> 0]
    \* a route or an approval may die between the row and its enqueue
    /\ \E state \in {"missing", "waiting"} :
          bull = [t \in Txs |-> [state |-> state, made |-> 0, stalled |-> FALSE, owner |-> NoWorker]]
    /\ at = [w \in Workers |-> [pc |-> "idle", tx |-> NoTx, hash |-> NoHash]]
    /\ lane = NoWorker
    /\ lastUsed = -1
    /\ watch = {}
    /\ fin = [p \in {"observer", "scan"} \X Txs |-> "none"]
    /\ pool = {} /\ hidden = {} /\ mined = {}
    /\ refused = {}
    /\ verified \in IF Gated = {} THEN {TRUE} ELSE BOOLEAN
    /\ losses = 0

(***************************************************************************)
(* Moves of a delivery.                                                    *)
(***************************************************************************)
Row(w)  == row[at[w].tx]
Owns(w) == at[w].tx # NoTx /\ bull[at[w].tx].owner = w
Idle    == [pc |-> "idle", tx |-> NoTx, hash |-> NoHash]
InLane  == {"sign", "check", "stamp", "send"}

Goto(w, pc) == at' = [at EXCEPT ![w].pc = pc]

(* run ... finally release.  Fault: the release is skipped on a throw. *)
FaultFreeLane(w) == lane
FreeLane(w) == IF lane = w THEN NoWorker ELSE lane

(* The processor returns: BullMQ completes the job, unless a redelivery    *)
(* owns it by now.                                                         *)
Return(w) ==
    /\ at' = [at EXCEPT ![w] = Idle]
    /\ bull' = IF Owns(w)
               THEN [bull EXCEPT ![at[w].tx].state = "completed", ![at[w].tx].owner = NoWorker]
               ELSE bull

(* deferBullJob: back to the delayed set, no attempt consumed. *)
Defer(w) ==
    /\ at' = [at EXCEPT ![w] = Idle]
    /\ bull' = IF Owns(w)
               THEN [bull EXCEPT ![at[w].tx].state = "waiting", ![at[w].tx].owner = NoWorker]
               ELSE bull

(* The processor throws: a retry, or the failed handler after the last one. *)
Throws(w) ==
    LET t == at[w].tx
        last == Owns(w) /\ bull[t].made + 1 >= MaxAttempts
    IN  /\ at' = [at EXCEPT ![w] = IF last THEN [Idle EXCEPT !.pc = "failed", !.tx = t] ELSE Idle]
        /\ bull' = IF Owns(w)
                   THEN [bull EXCEPT ![t].made = @ + 1, ![t].owner = NoWorker,
                                     ![t].state = IF last THEN "failed" ELSE "waiting"]
                   ELSE bull
        /\ lane' = FreeLane(w)

(* settlePermanentFailure and the blocking branch of the guard: who makes  *)
(* the row FAILED also settles its volume and finalizes its job.           *)
StopRow(t) ==
    /\ row' = [row EXCEPT ![t] = Stopped(@)]
    /\ fin' = IF row[t].status # "FAILED" /\ row'[t].status = "FAILED"
              THEN [fin EXCEPT ![<<"observer", t>>] = "volume"] ELSE fin

Take(w, t) ==
    /\ at[w].pc = "idle" /\ bull[t].state = "waiting"
    /\ at' = [at EXCEPT ![w] = [pc |-> "guard", tx |-> t, hash |-> NoHash]]
    /\ bull' = [bull EXCEPT ![t].state = "active", ![t].owner = w]
    /\ UNCHANGED <<dbVars, lane, lastUsed, watchVars, chainVars, envVars>>

(* preSubmitGuard reads the row ... *)
Guard(w) ==
    /\ at[w].pc = "guard"
    /\ \/ ~Unsent(Row(w)) /\ Return(w)
       \/ /\ Unsent(Row(w)) /\ at[w].tx \in refused
          /\ Goto(w, "block") /\ UNCHANGED bull
       \/ /\ Unsent(Row(w)) /\ at[w].tx \notin refused
          /\ IF at[w].tx \in Gated /\ ~verified
             THEN Defer(w)
             ELSE Goto(w, "lane") /\ UNCHANGED bull
    /\ UNCHANGED <<dbVars, lane, lastUsed, watchVars, chainVars, envVars>>

(* ... and stops it in a later write, if it is still unsent then. *)
Block(w) ==
    /\ at[w].pc = "block"
    /\ StopRow(at[w].tx)
    /\ Return(w)
    /\ UNCHANGED <<job, reservation, credits, lane, lastUsed, watch, chainVars, envVars>>

Acquire(w) ==
    /\ at[w].pc = "lane" /\ lane = NoWorker
    /\ lane' = w
    /\ Goto(w, "sign")
    /\ UNCHANGED <<dbVars, bull, lastUsed, watchVars, chainVars, envVars>>

(* The pending count may lag behind the pool, and the last used nonce is   *)
(* forgotten after its TTL.                                                *)
SignTx(w) ==
    /\ at[w].pc = "sign"
    /\ \E pending \in AccountNonce..PendingCount, last \in {-1, lastUsed}, price \in Prices :
          LET nonce == IF last + 1 > pending THEN last + 1 ELSE pending
          IN  at' = [at EXCEPT ![w].pc = "check",
                               ![w].hash = [tx |-> at[w].tx, nonce |-> nonce, price |-> price]]
    /\ UNCHANGED <<dbVars, bull, lane, lastUsed, watchVars, chainVars, envVars>>

(* refuseIfEarlierBroadcastLive: an earlier signed attempt the chain knows *)
(* is adopted instead of sending another.                                  *)
Check(w) ==
    LET earlier == Row(w).broadcastTxHash
    IN  /\ at[w].pc = "check"
        /\ IF earlier \notin {NoHash, at[w].hash} /\ Known(earlier)
           THEN /\ at' = [at EXCEPT ![w].pc = "record", ![w].hash = earlier]
                /\ lane' = FreeLane(w)
           ELSE Goto(w, "stamp") /\ UNCHANGED lane
        /\ UNCHANGED <<dbVars, bull, lastUsed, watchVars, chainVars, envVars>>

(* recheckBeforeBroadcast and markBroadcastAttempt. *)
Stamp(w) ==
    LET t == at[w].tx
    IN  /\ at[w].pc = "stamp"
        /\ \/ /\ t \in PolicySyncs \cap refused             \* superseded
              /\ row' = [row EXCEPT ![t] = Stopped(@)]
              /\ Return(w) /\ lane' = FreeLane(w)
           \/ /\ t \notin PolicySyncs \cap refused
              /\ t \in Gated /\ ~verified                   \* deferred
              /\ Defer(w) /\ lane' = FreeLane(w)
              /\ UNCHANGED row
           \/ /\ t \notin PolicySyncs \cap refused
              /\ t \in Gated => verified
              /\ IF Unsent(row[t])
                 THEN /\ row' = [row EXCEPT ![t] = Stamped(@, at[w].hash)]
                      /\ Goto(w, "send")
                      /\ UNCHANGED <<bull, lane>>
                 ELSE Throws(w) /\ UNCHANGED row
        /\ UNCHANGED <<job, reservation, credits, lastUsed, watchVars, chainVars, envVars>>

(* sendRawTransaction on both nodes, then a look-up of the hash.           *)
Accepted(h) == h.nonce >= AccountNonce /\ pool' = pool \cup {h}

SendOk(w) ==
    LET h == at[w].hash
    IN  /\ at[w].pc = "send"
        /\ \/ Accepted(h)
           \/ Known(h) /\ UNCHANGED pool
        /\ lastUsed' \in {lastUsed, IF h.nonce > lastUsed THEN h.nonce ELSE lastUsed}
        /\ Goto(w, "record")
        /\ lane' = FreeLane(w)
        /\ UNCHANGED <<dbVars, bull, watchVars, hidden, mined, envVars>>

(* Both sends and the look-up failed; the transaction may be out there. *)
SendFails(w) ==
    LET h == at[w].hash
    IN  /\ at[w].pc = "send"
        /\ \/ Accepted(h) /\ UNCHANGED hidden
           \/ /\ hidden' \in {hidden, IF Timely THEN hidden ELSE hidden \cup {h}}
              /\ UNCHANGED pool
        /\ Throws(w)
        /\ UNCHANGED <<dbVars, lastUsed, watchVars, mined, envVars>>

(* The write of SUBMITTED and the monitor it starts. *)
Record(w) ==
    LET t == at[w].tx  h == at[w].hash
    IN  /\ at[w].pc = "record"
        /\ row' = [row EXCEPT ![t] = Submitted(@, h)]
        /\ watch' = IF row'[t].txHash = h THEN watch \cup {h} ELSE watch
        /\ Return(w)
        /\ UNCHANGED <<job, reservation, credits, lane, lastUsed, fin, chainVars, envVars>>

(* A lane time-out, or an RPC, signing or database error. *)
Error(w) ==
    /\ at[w].pc \in {"lane", "sign", "check", "stamp", "record"}
    /\ Throws(w)
    /\ UNCHANGED <<dbVars, lastUsed, watchVars, chainVars, envVars>>

(* handleFailedTransactionJob, on the last attempt. *)
FailedHandler(w) ==
    /\ at[w].pc = "failed"
    /\ StopRow(at[w].tx)
    /\ at' = [at EXCEPT ![w] = Idle]
    /\ UNCHANGED <<job, reservation, credits, bull, lane, lastUsed, watch, chainVars, envVars>>

(***************************************************************************)
(* Observers of the outcome.                                               *)
(***************************************************************************)
Outcome(ok) == IF ok THEN "CONFIRMED" ELSE "REVERTED"

(* recordReceiptOnce: the one whose write moves the row handles the outcome. *)
Observe(t, m) ==
    /\ row[t].status = "SUBMITTED"
    /\ row' = [row EXCEPT ![t].status = Outcome(m.ok)]
    /\ fin' = [fin EXCEPT ![<<"observer", t>>] = "volume"]

Monitor(h) ==
    /\ h \in watch
    /\ \E m \in mined :
          /\ m.hash = h
          /\ \/ Observe(h.tx, m)
             \/ row[h.tx].status # "SUBMITTED" /\ UNCHANGED <<row, fin>>
    /\ watch' = watch \ {h}
    /\ UNCHANGED <<job, reservation, credits, queueVars, chainVars, envVars>>

(* TX_DROP_AFTER_SEC outlasts any request that is still being sent. *)
GraceElapsed(t) == \A w \in Workers : ~(at[w].pc = "send" /\ at[w].hash = row[t].txHash)

(* repollSubmittedTransactions: the receipt, or the drop. *)
Repoll(t) ==
    /\ row[t].status = "SUBMITTED"
    /\ \/ \E m \in mined : m.hash = row[t].txHash /\ Observe(t, m)
       \/ /\ ~Known(row[t].txHash) /\ GraceElapsed(t)
          /\ row' = [row EXCEPT ![t].status = "FAILED"]
          /\ fin' = [fin EXCEPT ![<<"observer", t>>] = "volume"]
    /\ UNCHANGED <<job, reservation, credits, queueVars, watch, chainVars, envVars>>

(***************************************************************************)
(* What follows an outcome: runPostConfirmation, and the same two steps    *)
(* after a permanent failure.  The volume first; a failed settlement is    *)
(* left to the sweep.                                                      *)
(***************************************************************************)
Step(p, t, pc) == fin' = [fin EXCEPT ![<<p, t>>] = pc]

SettleVolume(t) ==
    /\ fin[<<"observer", t>>] = "volume"
    /\ \/ row' = [row EXCEPT ![t].volume = SettledVolume(row[t])] /\ UNCHANGED losses
       \/ losses < MaxLosses /\ losses' = losses + 1 /\ UNCHANGED row
    /\ Step("observer", t, "finalize")
    /\ UNCHANGED <<job, reservation, credits, queueVars, watch, chainVars, refused, verified>>

(* finalizeA2APaymentJob: the job is read, the reservation moves (in one   *)
(* conditional write), a confirmed payment is credited, the status flips.  *)
Finalize(p, t) ==
    /\ fin[<<p, t>>] = "finalize"
    /\ IF t \notin A2A \/ (t \in A2A /\ job[t] # "PAYMENT_PENDING")
       THEN Step(p, t, "none") /\ UNCHANGED reservation
       ELSE IF row[t].status = "CONFIRMED"
       THEN /\ Step(p, t, "credit")
            /\ reservation' = [reservation EXCEPT ![t] = IF @ = "PENDING" THEN "RELEASED" ELSE @]
       ELSE /\ Step(p, t, "flip")
            /\ reservation' = [reservation EXCEPT ![t] = IF @ = "PENDING" THEN "CANCELLED" ELSE @]
    /\ UNCHANGED <<row, job, credits, queueVars, watch, chainVars, envVars>>

Credit(p, t) ==
    /\ fin[<<p, t>>] = "credit"
    /\ credits' = [credits EXCEPT ![t] = @ + 1]
    /\ Step(p, t, "flip")
    /\ UNCHANGED <<row, job, reservation, queueVars, watch, chainVars, envVars>>

Flip(p, t) ==
    /\ fin[<<p, t>>] = "flip"
    /\ job' = [job EXCEPT ![t] = IF row[t].status = "CONFIRMED" THEN "COMPLETED" ELSE "PAYMENT_FAILED"]
    /\ Step(p, t, "none")
    /\ UNCHANGED <<row, reservation, credits, queueVars, watch, chainVars, envVars>>

(***************************************************************************)
(* The recovery tick (payment-recovery.queue.ts); its re-poll is above.    *)
(***************************************************************************)

(* scanStalePaymentPending *)
Scan(t) ==
    /\ t \in A2A /\ job[t] = "PAYMENT_PENDING"
    /\ row[t].status \in Settled
    /\ ~(row[t].status = "FAILED" /\ row[t].broadcastAttempts > 0 /\ row[t].txHash = NoHash)
    /\ fin[<<"scan", t>>] = "none"
    /\ Step("scan", t, "finalize")
    /\ UNCHANGED <<dbVars, queueVars, watch, chainVars, envVars>>

(* sweepUnsettledVolume *)
SweepVolume(t) ==
    /\ row[t].status \in Settled /\ row[t].volume = "RESERVED"
    /\ row' = [row EXCEPT ![t].volume = SettledVolume(row[t])]
    /\ UNCHANGED <<job, reservation, credits, queueVars, watchVars, chainVars, envVars>>

(* LIVE_STATES of the stranded sweep.  Fault: a failed job counts as live. *)
FaultLiveFailed == {"waiting", "active", "failed"}
Live == {"waiting", "active"}

(* recoverStrandedQueuedTransactions *)
SweepStranded(t) ==
    /\ Unsent(row[t]) /\ bull[t].state \notin Live
    /\ IF row[t].broadcastAttempts > 0 \/ bull[t].state = "failed"
       THEN StopRow(t) /\ UNCHANGED bull
       ELSE /\ bull' = [bull EXCEPT ![t] = [state |-> "waiting", made |-> 0,
                                            stalled |-> FALSE, owner |-> NoWorker]]
            /\ UNCHANGED <<row, fin>>
    /\ UNCHANGED <<job, reservation, credits, at, lane, lastUsed, watch, chainVars, envVars>>

(***************************************************************************)
(* The environment.                                                        *)
(***************************************************************************)

(* BullMQ: the lock of an active job expires, whether its delivery died or *)
(* only stalled.  It is redelivered once, then failed with no handler run. *)
Stall(t) ==
    /\ bull[t].state = "active"
    /\ bull' = [bull EXCEPT ![t].owner = NoWorker, ![t].stalled = TRUE,
                            ![t].state = IF bull[t].stalled THEN "failed" ELSE "waiting"]
    /\ UNCHANGED <<dbVars, at, lane, lastUsed, watchVars, chainVars, envVars>>

Die == losses < MaxLosses /\ losses' = losses + 1 /\ UNCHANGED <<refused, verified>>

Crash(w) ==
    /\ at[w].pc # "idle" /\ Die
    /\ at' = [at EXCEPT ![w] = Idle]
    /\ lane' = IF lane = w THEN NoWorker ELSE lane    \* by its TTL
    /\ UNCHANGED <<dbVars, bull, lastUsed, watchVars, chainVars>>

LoseMonitor(h) ==
    /\ h \in watch /\ Die
    /\ watch' = watch \ {h}
    /\ UNCHANGED <<dbVars, queueVars, fin, chainVars>>

LoseHandler(p, t) ==
    /\ fin[<<p, t>>] # "none" /\ Die
    /\ Step(p, t, "none")
    /\ UNCHANGED <<dbVars, queueVars, watch, chainVars>>

(* LANE_TTL_MS runs out under a delivery that is alive. *)
LaneLapse ==
    /\ ~Timely /\ lane # NoWorker
    /\ lane' = NoWorker
    /\ UNCHANGED <<dbVars, bull, at, lastUsed, watchVars, chainVars, envVars>>

(* Sent, and its delivery has not written SUBMITTED yet. *)
Awaited(h) == \E w \in Workers : at[w].pc = "record" /\ at[w].hash = h

(* Mining one transaction of a nonce drops the others from the nodes. *)
Mine(h, ok) ==
    /\ h \in pool /\ h.nonce = AccountNonce
    /\ Timely => \A g \in pool \ {h} : g.nonce <= h.nonce => ~Awaited(g)
    /\ mined' = mined \cup {[hash |-> h, ok |-> ok]}
    /\ pool' = {g \in pool : g.nonce > h.nonce}
    /\ UNCHANGED <<dbVars, queueVars, watchVars, hidden, envVars>>

(* Replaced, or dropped by every node. *)
Evict(h) ==
    /\ h \in pool
    /\ Timely => ~Awaited(h)
    /\ pool' = pool \ {h}
    /\ UNCHANGED <<dbVars, queueVars, watchVars, hidden, mined, envVars>>

Surface(h) ==
    /\ h \in hidden
    /\ hidden' = hidden \ {h}
    /\ pool' = IF h.nonce >= AccountNonce THEN pool \cup {h} ELSE pool
    /\ UNCHANGED <<dbVars, queueVars, watchVars, mined, envVars>>

(* An operator pauses or resumes the agent; a stored policy changes. *)
Refuse(t) ==
    /\ t \in Pausable
    /\ refused' = IF t \in refused THEN refused \ {t} ELSE refused \cup {t}
    /\ UNCHANGED <<dbVars, queueVars, watchVars, chainVars, verified, losses>>

Verify ==
    /\ Gated # {}
    /\ verified' = ~verified
    /\ UNCHANGED <<dbVars, queueVars, watchVars, chainVars, refused, losses>>

(***************************************************************************)
(* The specification.                                                      *)
(***************************************************************************)
Deliver(w) ==
    \/ Guard(w) \/ Block(w) \/ Acquire(w) \/ SignTx(w) \/ Check(w) \/ Stamp(w)
    \/ SendOk(w) \/ SendFails(w) \/ Record(w) \/ Error(w) \/ FailedHandler(w)

Handle(p, t) == Finalize(p, t) \/ Credit(p, t) \/ Flip(p, t)

Handlers == {"observer", "scan"}

Tick(t) == Repoll(t) \/ Scan(t) \/ SweepVolume(t) \/ SweepStranded(t)

Chain ==
    \/ \E h \in pool : Evict(h) \/ \E ok \in BOOLEAN : Mine(h, ok)
    \/ \E h \in hidden : Surface(h)

Deaths ==
    \/ \E w \in Workers : Crash(w)
    \/ \E h \in watch : LoseMonitor(h)
    \/ \E p \in Handlers, t \in Txs : LoseHandler(p, t)

TxNext ==
    \/ \E w \in Workers : Deliver(w) \/ \E t \in Txs : Take(w, t)
    \/ \E h \in watch : Monitor(h)
    \/ \E t \in Txs : SettleVolume(t) \/ \E p \in Handlers : Handle(p, t)
    \/ \E t \in Txs : Tick(t) \/ Stall(t) \/ Refuse(t)
    \/ Chain \/ Deaths \/ LaneLapse \/ Verify

TxSpec == TxInit /\ [][TxNext]_txVars

(* Deliveries and handlers run on, BullMQ redelivers, the recovery tick is *)
(* repeated for ever, and the chain mines or forgets what its nodes hold.  *)
TxFairness ==
    /\ \A w \in Workers : WF_txVars(Deliver(w))
    /\ \A t \in Txs :
          /\ WF_txVars(\E w \in Workers : Take(w, t))
          /\ WF_txVars(Stall(t))
          /\ WF_txVars(SettleVolume(t))
          /\ WF_txVars(Repoll(t)) /\ WF_txVars(Scan(t))
          /\ WF_txVars(SweepVolume(t)) /\ WF_txVars(SweepStranded(t))
          /\ \A p \in Handlers : WF_txVars(Handle(p, t))
    /\ WF_txVars(\E h \in pool : Evict(h) \/ \E ok \in BOOLEAN : Mine(h, ok))

FairTxSpec == TxSpec /\ TxFairness

(***************************************************************************)
(* Properties.                                                             *)
(***************************************************************************)
Hashes == Signed \cup {NoHash}

(* The lane is held by a delivery that is between its nonce and its send,  *)
(* and with no lapse only by such a one: no error path keeps the wallet.   *)
LaneTypeOK ==
    /\ lane \in Workers \cup {NoWorker}
    /\ lane # NoWorker /\ Timely => at[lane].pc \in InLane

TxTypeOK ==
    /\ \A t \in Txs :
          /\ row[t].kind \in Kinds
          /\ row[t].status \in TxStatus
          /\ {row[t].txHash, row[t].broadcastTxHash} \subseteq Hashes
          /\ row[t].broadcastAttempts \in Nat
          /\ row[t].volume \in {"NONE", "RESERVED", "COMMITTED", "RELEASED", "HELD"}
          /\ bull[t].state \in {"missing", "waiting", "active", "completed", "failed"}
          /\ bull[t].made \in 0..MaxAttempts
    /\ job \in [A2A -> {"PAYMENT_PENDING", "COMPLETED", "PAYMENT_FAILED"}]
    /\ reservation \in [A2A -> {"PENDING", "RELEASED", "CANCELLED"}]
    /\ lastUsed \in Nat \cup {-1}
    /\ watch \cup pool \cup hidden \cup MinedHashes \subseteq Signed
    /\ refused \subseteq Txs /\ verified \in BOOLEAN
    /\ LaneTypeOK

Executions(t) == {m \in mined : m.hash.tx = t /\ m.ok}

(* The value of a row moves at most once, whatever is redelivered, retried *)
(* or lost between the signature and the SUBMITTED write.                  *)
ExecutedAtMostOnce == Timely => \A t \in Txs : Cardinality(Executions(t)) <= 1

(* Every receipt of a row is for a hash the row carries, so the chain can  *)
(* always be asked about it: nothing is mined that the database forgot.    *)
ReceiptsAreTraceable ==
    Timely => \A m \in mined : m.hash \in {row[m.hash.tx].txHash, row[m.hash.tx].broadcastTxHash}

(* The books agree with the chain: a refunded job, a released reservation  *)
(* or a failed row belongs to a transaction that did not execute (nor will *)
(* it), a completed job or a committed reservation to one that did.        *)
BooksMatchChain ==
    Timely => \A t \in Txs :
        /\ row[t].status \in {"FAILED", "REVERTED"} => Executions(t) = {}
        /\ row[t].status = "CONFIRMED" \/ row[t].volume = "COMMITTED" => Executions(t) # {}
        /\ t \in A2A =>
              /\ job[t] = "PAYMENT_FAILED" \/ reservation[t] = "CANCELLED" => Executions(t) = {}
              /\ job[t] = "COMPLETED" \/ reservation[t] = "RELEASED" => Executions(t) # {}

(* The daily volume is given back only for value that did not move and     *)
(* never will, even when a send arrives late, a lane lapses under its      *)
(* holder or an earlier attempt than the recorded one is mined.            *)
ReleasedIsUnspent == \A t \in Txs : row[t].volume = "RELEASED" => Executions(t) = {}

(* The promise of the finalizer: idempotent, however often it is invoked   *)
(* for the same outcome.  The provider of a job is credited once.          *)
CreditedOnce == \A t \in A2A : credits[t] <= 1

(* Whatever dies on the way, a row reaches an outcome, its reservation is  *)
(* settled and its job is finalized, provided that the contracts it waits  *)
(* for are verified in the end.                                            *)
SettledInFull(t) ==
    /\ row[t].status \in Settled
    /\ row[t].volume # "RESERVED"
    /\ t \in A2A => job[t] # "PAYMENT_PENDING"

EveryRowSettles == <>[]verified => \A t \in Txs : <>[]SettledInFull(t)
=============================================================================
