--------------------------- MODULE EscrowSettlement ---------------------------
(***************************************************************************)
(* How one funded ERC-8183 job is delivered, reviewed and settled          *)
(* (services/job/escrow-erc8183.service.ts,                                *)
(* queues/escrow-settlement.queue.ts).                                     *)
(*                                                                         *)
(* Everything the evaluator signs goes through one worker (w), which takes *)
(* a snapshot of the job's row, reads the chain and works with both for    *)
(* several awaited steps.  Meanwhile the API (api) contests and decides,   *)
(* the recovery tick and the expiry sweep enqueue and mirror, and the      *)
(* handler of a failed entry (failing) hands a claim back.  They only      *)
(* meet in conditional writes on the row.                                  *)
(*                                                                         *)
(* Every transaction the worker signs is first recorded as a candidate of  *)
(* the ledger; it may be mined until its nonce is consumed, and what is    *)
(* mined may be reorganised until the proof tag reaches it.                *)
(***************************************************************************)
EXTENDS Naturals, Sequences, FiniteSets

CONSTANTS
    Scenarios  \* bounds of a behaviour: may the requester cancel, the decisions
               \* the operator may take, how many, may the deadline pass, and the
               \* number of faults (late writes of the failed handler are faults)

ASSUME SettlementAssumption ==
    /\ Scenarios \subseteq [cancel : BOOLEAN, decisions : SUBSET {"pay", "refund", "quality"},
                            rulings : Nat, deadline : BOOLEAN, faults : Nat]

VARIABLES
    job,       \* the Job row
    submit,    \* the Transaction row of the provider's submit, and the transaction
    cands,     \* the job's evaluator candidates, in nonce order
    chain,     \* external: the job's status in the contract at `latest`
    proof,     \* external: ... and at the proof tag
    queue,     \* entries of the settlement queue
    w,         \* memory: the settlement worker
    api,       \* memory: a contest or a decision being processed
    failing,   \* memory: the handler of an entry that failed for good
    clock,     \* "open", "margin" (too late to deliver or contest) or "expired"
    scenario,  \* the bounds of this behaviour, chosen once
    rulings,   \* decisions asked for so far
    undone,    \* history, read by the properties only: what late writes of the
               \* failed handler have undone ("claim", "outcome")
    faults     \* faults so far

procVars  == <<w, api, failing>>
chainVars == <<chain, proof>>
boundVars == <<clock, scenario, rulings, undone>>
setVars   == <<job, submit, cands, chainVars, queue, procVars, boundVars, faults>>

Dead        == {"CANCELLED", "FAILED"}
JobStatus   == {"ACCEPTED", "PAYMENT_PENDING", "COMPLETED", "PAYMENT_FAILED"} \cup Dead
Final       == {"COMPLETED", "REJECTED", "EXPIRED"}
OnChain     == {"FUNDED", "SUBMITTED", "CONTESTED", "SETTLING"} \cup Final
Decisions   == {"pay", "refund", "quality"}
ChainEnd    == {"Completed", "Rejected", "Expired"}
Entries     == {"settle", "resolve", "reject", "claimRefund"}

(* A feedback file names its outcome; `at` tells a rebuilt one apart. *)
NoFile == [for |-> "nothing", at |-> 0]
NoRow  == [status |-> "ACCEPTED", onChain |-> "FUNDED", contested |-> FALSE,
           resolution |-> "none", settleTx |-> 0, stamp |-> FALSE, file |-> NoFile]

IdleWorker == [pc |-> "idle", act |-> "settle", row |-> NoRow, cand |-> 0]
IdleApi    == [pc |-> "idle", wants |-> "contest", row |-> NoRow]
NoFailure  == [pc |-> "none", settling |-> FALSE, contested |-> FALSE]

Init ==
    /\ job = NoRow
    /\ submit = [row |-> "none", tx |-> "gone"]
    /\ cands = <<>>
    /\ chain = "Funded" /\ proof = "Funded"
    /\ queue = {}
    /\ w = IdleWorker /\ api = IdleApi /\ failing = NoFailure
    /\ clock = "open"
    /\ scenario \in Scenarios
    /\ rulings = 0 /\ faults = 0 /\ undone = {}

Fault == faults < scenario.faults /\ faults' = faults + 1

(* addSettlementJob: an entry that is waiting or active is not added again. *)
Added(q, a)   == IF w.pc # "idle" /\ w.act = a THEN q ELSE q \cup {a}
Enqueue(a)    == queue' = Added(queue, a)

(***************************************************************************)
(* The ledger's gates.  The same calldata may be signed again once the     *)
(* earlier candidate's nonce is consumed at `latest`; anything else has to *)
(* wait for the proof tag and for every candidate to have come to nothing. *)
(***************************************************************************)
Calldata(c) == [act |-> c.act, file |-> c.file, why |-> c.why]

FaultOver(c) == c.fate = "lost"
Over(c)      == c.proven /\ c.fate # "won"

NoneInFlight == \A i \in DOMAIN cands : Over(cands[i])

FaultMaySign(call) == \A i \in DOMAIN cands : cands[i].fate # "live"
MaySign(call) ==
    \A i \in DOMAIN cands :
        \/ Over(cands[i])
        \/ Calldata(cands[i]) = call /\ cands[i].fate # "live"

FileMutable == NoneInFlight

(***************************************************************************)
(* The row follows the chain.                                              *)
(***************************************************************************)
(* advanceToSubmitted *)
Conflict(r) == r.status \notin {"ACCEPTED", "PAYMENT_PENDING"}
Advanced(r) ==
    [r EXCEPT !.onChain = IF @ = "FUNDED" THEN "SUBMITTED" ELSE @,
              !.status  = IF @ = "ACCEPTED" THEN "PAYMENT_PENDING" ELSE @]

AdvanceToSubmitted ==
    /\ job' = Advanced(job)
    /\ IF job.onChain = "FUNDED" /\ ~Conflict(job) THEN Enqueue("settle") ELSE UNCHANGED queue

FaultFinalOf(c) == c
FinalOf(c) == CASE c = "Completed" -> "COMPLETED"
                [] c = "Rejected"  -> "REJECTED"
                [] c = "Expired"   -> "EXPIRED"

Winners == {i \in DOMAIN cands : cands[i].fate = "won"}

(* assertTerminalAtProof *)
FaultProven == chain \in ChainEnd
Proven      == chain \in ChainEnd /\ proof = chain

(* reconcileTerminal, up to the finalization; row is the caller's snapshot. *)
Mirrored(r, row) ==
    [r EXCEPT !.onChain  = FinalOf(chain),
              !.stamp    = FALSE,
              !.file     = IF chain = "Expired" /\ row.file # NoFile THEN NoFile ELSE @,
              !.settleTx = IF chain # "Expired" /\ Winners # {}
                           THEN CHOOSE i \in Winners : TRUE ELSE @]

(* finalizeSettled, finalizeAfterRefund and finalizeA2APaymentJob: they are  *)
(* told the outcome, which was proven, and look at the row again.           *)
Finalized(r, row) ==
    [r EXCEPT !.status =
        CASE row.status = "PAYMENT_PENDING" /\ @ = "PAYMENT_PENDING" ->
                 IF chain = "Completed" THEN "COMPLETED" ELSE "PAYMENT_FAILED"
          [] row.status \in Dead /\ @ \in Dead
                 /\ chain = "Completed" /\ row.resolution = "pay" -> "COMPLETED"
          [] row.status = "ACCEPTED" /\ chain # "Completed" -> "FAILED"
          [] OTHER -> @]

Mirror == Proven /\ job' = Finalized(Mirrored(job, job), job)

(***************************************************************************)
(* The provider and the requester before the deliverable is on the chain.  *)
(***************************************************************************)
(* PATCH COMPLETED and enqueueSubmit; again after a failed submit. *)
Deliver ==
    /\ job.status = "ACCEPTED" /\ job.onChain = "FUNDED" /\ clock = "open"
    /\ job' = [job EXCEPT !.status = "PAYMENT_PENDING"]
    /\ submit' = [row |-> "live", tx |-> IF submit.tx = "mined" THEN "mined" ELSE "sent"]
    /\ UNCHANGED <<cands, chainVars, queue, procVars, boundVars, faults>>

SubmitMines ==
    /\ submit.tx = "sent" /\ chain = "Funded"
    /\ submit' = [submit EXCEPT !.tx = "mined"]
    /\ chain' = "Submitted" /\ proof' = "Submitted"
    /\ UNCHANGED <<job, cands, queue, procVars, boundVars, faults>>

(* onStepConfirmed; a crash may lose the outcome. *)
SubmitConfirmed ==
    /\ submit.row = "live" /\ submit.tx = "mined"
    /\ submit' = [submit EXCEPT !.row = "confirmed"]
    /\ \/ AdvanceToSubmitted /\ UNCHANGED faults
       \/ Fault /\ UNCHANGED <<job, queue>>
    /\ UNCHANGED <<cands, chainVars, procVars, boundVars>>

(* handleStepFailure: a submit that was declared dropped may still be mined. *)
SubmitFailed ==
    /\ submit.row = "live"
    /\ \/ submit.tx = "sent" /\ chain = "Funded" /\ Fault
       \/ chain \in ChainEnd /\ UNCHANGED faults
    /\ \E tx \in {submit.tx, "gone"} : submit' = [row |-> "failed", tx |-> tx]
    /\ \/ Mirror
       \/ chain \in ChainEnd /\ ~Proven /\ UNCHANGED job
       \/ /\ chain = "Funded"
          /\ job' = [job EXCEPT !.status = IF @ = "PAYMENT_PENDING" THEN "ACCEPTED" ELSE @]
    /\ UNCHANGED <<cands, chainVars, queue, procVars, boundVars>>

(* PATCH CANCELLED and requestCancellationReject, which the queue may refuse. *)
Cancel ==
    /\ scenario.cancel /\ job.status = "ACCEPTED"
    /\ job' = [job EXCEPT !.status = "CANCELLED"]
    /\ \/ job.onChain \notin Final /\ Enqueue("reject") /\ UNCHANGED faults
       \/ job.onChain \in Final /\ UNCHANGED <<queue, faults>>
       \/ Fault /\ UNCHANGED queue
    /\ UNCHANGED <<submit, cands, chainVars, procVars, boundVars>>

(***************************************************************************)
(* contestEscrowJob and resolveEscrowJob: load, check, conditional write.  *)
(***************************************************************************)
AskContest ==
    /\ api.pc = "idle"
    /\ job.status = "PAYMENT_PENDING" /\ job.onChain = "SUBMITTED" /\ ~job.contested
    /\ clock = "open"
    /\ api' = [pc |-> "check", wants |-> "contest", row |-> job]
    /\ UNCHANGED <<job, submit, cands, chainVars, queue, w, failing, boundVars, faults>>

AskResolve(d) ==
    /\ api.pc = "idle"
    /\ d \in scenario.decisions /\ rulings < scenario.rulings
    /\ \/ job.onChain = "CONTESTED"
       \/ job.onChain = "SUBMITTED" /\ job.status \in {"PAYMENT_PENDING"} \cup Dead
    /\ api' = [pc |-> "check", wants |-> d, row |-> job]
    /\ rulings' = rulings + 1
    /\ UNCHANGED <<job, submit, cands, chainVars, queue, w, failing, clock, scenario, undone, faults>>

(* The chain has to show the job Submitted, and nothing may be in flight. *)
ApiCheck ==
    /\ api.pc = "check"
    /\ api' = IF chain = "Submitted" /\ NoneInFlight THEN [api EXCEPT !.pc = "write"] ELSE IdleApi
    /\ UNCHANGED <<job, submit, cands, chainVars, queue, w, failing, boundVars, faults>>

Unmoved == job.settleTx = api.row.settleTx /\ ~job.stamp

WriteContest ==
    /\ api.pc = "write" /\ api.wants = "contest"
    /\ job' = IF /\ Unmoved /\ job.status = "PAYMENT_PENDING"
                 /\ job.onChain = "SUBMITTED" /\ ~job.contested
              THEN [job EXCEPT !.onChain = "CONTESTED", !.contested = TRUE]
              ELSE job
    /\ api' = IdleApi
    /\ UNCHANGED <<submit, cands, chainVars, queue, w, failing, boundVars, faults>>

WriteDecision ==
    /\ api.pc = "write" /\ api.wants # "contest"
    /\ \/ /\ Unmoved /\ job.status = api.row.status /\ job.onChain = api.row.onChain
          /\ job' = [job EXCEPT !.onChain = "SETTLING", !.resolution = api.wants]
          /\ \/ Enqueue("resolve") /\ UNCHANGED faults
             \/ Fault /\ UNCHANGED queue  \* recorded, but not queued
       \/ /\ ~(Unmoved /\ job.status = api.row.status /\ job.onChain = api.row.onChain)
          /\ UNCHANGED <<job, queue, faults>>
    /\ api' = IdleApi
    /\ UNCHANGED <<submit, cands, chainVars, w, failing, boundVars>>

(***************************************************************************)
(* The settlement worker: one entry at a time (processSettlementJob).      *)
(***************************************************************************)
Busy(pc) == w.pc = pc
Goto(pc) == w' = [w EXCEPT !.pc = pc]
Done     == w' = IdleWorker

(* An attempt that throws is retried, or was the last one. *)
Throw ==
    /\ Done
    /\ \/ Enqueue(w.act) /\ UNCHANGED failing
       \/ /\ failing.pc = "none"
          /\ failing' = IF w.act \in {"settle", "resolve"} THEN [failing EXCEPT !.pc = "read"] ELSE failing
          /\ UNCHANGED queue
Retried == queue' = queue \cup {w.act} /\ Done

Settles == w.act \in {"settle", "resolve"}

Take(a) ==
    /\ Busy("idle") /\ a \in queue
    /\ w' = [pc |-> "read", act |-> a, row |-> job, cand |-> 0]
    /\ queue' = queue \ {a}
    /\ UNCHANGED <<job, submit, cands, chainVars, api, failing, boundVars, faults>>

(* A node does not answer, at any of the worker's reads. *)
Unreadable ==
    /\ w.pc \in {"read", "file", "gate"}
    /\ Fault /\ Throw
    /\ UNCHANGED <<job, submit, cands, chainVars, api, boundVars>>

ReadTerminal ==
    /\ Busy("read") /\ chain \in ChainEnd
    /\ IF Proven THEN Goto("mirror") ELSE Done
    /\ UNCHANGED <<job, submit, cands, chainVars, queue, api, failing, boundVars, faults>>

(* settle, up to the claim *)
ReadSettle ==
    /\ Busy("read") /\ Settles
    /\ LET decided == w.row.resolution # "none"
           behind  == ~decided /\ (w.row.status # "PAYMENT_PENDING"
                                       \/ w.row.onChain \notin {"SUBMITTED", "SETTLING"})
       IN  \/ /\ chain = "Funded"
              /\ IF w.row.status # "PAYMENT_PENDING" /\ ~decided
                 THEN Done /\ UNCHANGED <<queue, failing>> ELSE Throw
              /\ UNCHANGED job
           \/ /\ chain = "Submitted" /\ ~decided /\ w.row.onChain = "CONTESTED"
              /\ Done /\ UNCHANGED <<job, queue, failing>>
           \/ /\ chain = "Submitted" /\ behind /\ w.row.onChain # "CONTESTED"
              /\ job' = Advanced(job)
              /\ IF Conflict(job) THEN Done ELSE Goto("claim")
              /\ UNCHANGED <<queue, failing>>
           \/ /\ chain = "Submitted" /\ ~behind /\ (decided \/ w.row.onChain # "CONTESTED")
              /\ Goto("claim") /\ UNCHANGED <<job, queue, failing>>
    /\ UNCHANGED <<submit, cands, chainVars, api, boundVars, faults>>

(* rejectForCancellation, up to the send *)
ReadReject ==
    /\ Busy("read") /\ w.act = "reject" /\ chain \in {"Funded", "Submitted"}
    /\ LET live == w.row.status \in {"ACCEPTED", "PAYMENT_PENDING"}
       IN  /\ IF ~live /\ chain = "Funded" /\ w.row.resolution # "pay" THEN Goto("gate") ELSE Done
           /\ job' = IF /\ ~live /\ chain = "Submitted"
                        /\ job.resolution = "none" /\ job.onChain \notin {"SETTLING"} \cup Final
                     THEN [job EXCEPT !.onChain = "SUBMITTED"] ELSE job
    /\ UNCHANGED <<submit, cands, chainVars, queue, api, failing, boundVars, faults>>

(* deliveryHoldReason *)
Held(r) ==
    \/ r.resolution = "pay" /\ r.onChain \in {"SUBMITTED", "CONTESTED", "SETTLING"}
    \/ /\ r.status = "PAYMENT_PENDING" /\ ~r.contested /\ r.resolution \in {"none", "pay"}
       /\ \/ r.onChain = "SUBMITTED"
          \/ r.onChain = "FUNDED" /\ submit.row \in {"live", "confirmed"}

(* claimRefund, up to the send *)
ReadRefund ==
    /\ Busy("read") /\ w.act = "claimRefund" /\ chain \in {"Funded", "Submitted"}
    /\ IF Held(w.row) THEN Done ELSE Goto("gate")
    /\ UNCHANGED <<job, submit, cands, chainVars, queue, api, failing, boundVars, faults>>

(* The claim, and the row reloaded under it. *)
FaultClaimable(r) == r.resolution # "none" \/ r.onChain \in {"SUBMITTED", "SETTLING", "CONTESTED"}
Claimable(r) ==
    \/ /\ r.status = "PAYMENT_PENDING" /\ r.onChain \in {"SUBMITTED", "SETTLING"}
       /\ ~r.contested /\ r.resolution = "none"
    \/ r.resolution # "none" /\ r.onChain \in {"SUBMITTED", "CONTESTED", "SETTLING"}

Claim ==
    /\ Busy("claim")
    /\ IF Claimable(job)
       THEN LET claimed == [job EXCEPT !.onChain = "SETTLING"]
            IN  job' = claimed /\ w' = [w EXCEPT !.pc = "file", !.row = claimed]
       ELSE UNCHANGED job /\ Done
    /\ UNCHANGED <<submit, cands, chainVars, queue, api, failing, boundVars, faults>>

(* The configuration gate closes: the entry is deferred, and a claim goes   *)
(* back to its hold unless a send is stamped (handBackDeferredClaim).       *)
HandedBack(r) == [r EXCEPT !.onChain = IF r.contested THEN "CONTESTED" ELSE "SUBMITTED"]

Defer ==
    /\ w.pc \in {"claim", "gate"} /\ Fault
    /\ Retried
    /\ job' = IF Settles /\ job.onChain = "SETTLING" /\ ~job.stamp THEN HandedBack(job) ELSE job
    /\ UNCHANGED <<submit, cands, chainVars, api, failing, boundVars>>

(* settlementPlan *)
Decision == IF w.row.resolution = "none" THEN "pay" ELSE w.row.resolution
Rates    == CASE Decision = "pay" -> "completed" [] Decision = "quality" -> "rejected" [] OTHER -> "nothing"

(* executeDecision: the feedback file, rebuilt or dropped if it is another's. *)
File ==
    /\ Busy("file")
    /\ \/ /\ w.row.file.for = Rates
          /\ Goto("gate") /\ UNCHANGED <<job, queue, failing>>
       \/ /\ w.row.file.for # Rates /\ FileMutable
          /\ LET file == IF Rates = "nothing" THEN NoFile ELSE [for |-> Rates, at |-> Len(cands)]
             IN  /\ job' = [job EXCEPT !.file = file]
                 /\ w' = [w EXCEPT !.pc = "gate", !.row.file = file]
          /\ UNCHANGED <<queue, failing>>
       \/ w.row.file.for # Rates /\ ~FileMutable /\ Throw /\ UNCHANGED job
    /\ UNCHANGED <<submit, cands, chainVars, api, boundVars, faults>>

Call ==
    LET act == CASE Settles -> Decision [] w.act = "reject" -> "unwind" [] OTHER -> w.act
    IN  [act  |-> act,
         file |-> IF Settles THEN w.row.file ELSE NoFile,
         why  |-> IF act # "refund" THEN "none"
                  ELSE IF w.row.contested THEN "contested" ELSE w.row.status]

Executable(act) ==
    CASE act \in {"pay", "quality"}    -> chain = "Submitted"
      [] act \in {"refund", "unwind"}  -> chain \in {"Funded", "Submitted"}
      [] act = "claimRefund"           -> chain \in {"Funded", "Submitted"} /\ clock = "expired"

(* sendEvaluatorTx: the gate, and the simulation by the signer; ... *)
Gate ==
    /\ Busy("gate")
    /\ IF MaySign(Call) /\ Executable(Call.act)
       THEN Goto("record") /\ UNCHANGED <<queue, failing>> ELSE Throw
    /\ UNCHANGED <<job, submit, cands, chainVars, api, boundVars, faults>>

(* ... the candidate and the job's stamp in one transaction, conditional on *)
(* the row (insertCandidateWithJobStamp); ...                               *)
Recordable == job.settleTx = w.row.settleTx /\ (Settles => job.onChain = "SETTLING")

Record ==
    /\ Busy("record")
    /\ \/ /\ Recordable
          /\ cands' = Append(cands, [act |-> Call.act, file |-> Call.file, why |-> Call.why,
                                     fate |-> "live", proven |-> FALSE])
          /\ job' = [job EXCEPT !.settleTx = Len(cands) + 1, !.stamp = TRUE]
          /\ w' = [w EXCEPT !.pc = "answer", !.cand = Len(cands) + 1]
          /\ UNCHANGED <<queue, failing>>
       \/ ~Recordable /\ Throw /\ UNCHANGED <<cands, job>>
    /\ UNCHANGED <<submit, chainVars, api, boundVars, faults>>

(* ... and the answer of the send, which may be an error. *)
Answer ==
    /\ Busy("answer")
    /\ job' = IF job.settleTx = w.cand THEN [job EXCEPT !.stamp = FALSE] ELSE job
    /\ \/ Goto("receipt") /\ UNCHANGED <<queue, failing, faults>>
       \/ Fault /\ Throw
    /\ UNCHANGED <<submit, cands, chainVars, api, boundVars>>

(* awaitOwnReceipt: a replaced, reverted or late transaction proves nothing. *)
Receipt ==
    /\ Busy("receipt")
    /\ LET fate == cands[w.cand].fate
       IN  \/ /\ fate = "won"
              /\ IF Proven THEN Goto("book") ELSE Done
              /\ UNCHANGED <<queue, failing>>
           \/ /\ fate = "lost" /\ chain \in ChainEnd
              /\ IF Proven THEN Goto("mirror") ELSE Done
              /\ UNCHANGED <<queue, failing>>
           \/ fate = "lost" /\ chain \notin ChainEnd /\ Throw
           \/ fate = "live" /\ Throw
    /\ UNCHANGED <<job, submit, cands, chainVars, api, boundVars, faults>>

Book ==
    /\ Busy("book")
    /\ job' = [job EXCEPT
                 !.onChain  = CASE Call.act = "pay"         -> "COMPLETED"
                                [] Call.act = "claimRefund" -> "EXPIRED"
                                [] OTHER                    -> "REJECTED",
                 !.settleTx = w.cand,
                 !.stamp    = FALSE,
                 !.file     = IF ~Settles /\ w.row.file # NoFile THEN NoFile ELSE @]
    /\ Goto("finalize")
    /\ UNCHANGED <<submit, cands, chainVars, queue, api, failing, boundVars, faults>>

MirrorRow ==
    /\ Busy("mirror")
    /\ job' = Mirrored(job, w.row)
    /\ Goto("finalize")
    /\ UNCHANGED <<submit, cands, chainVars, queue, api, failing, boundVars, faults>>

Finalize ==
    /\ Busy("finalize")
    /\ job' = Finalized(job, w.row)
    /\ Done
    /\ UNCHANGED <<submit, cands, chainVars, queue, api, failing, boundVars, faults>>

(* handleFailedSettlementJob: it reads the row, and in a second statement    *)
(* writes whatever has become of it.  The write is late, and counts as a     *)
(* fault, if it undoes a claim that the worker has taken and not used yet,   *)
(* or an outcome that was booked.                                            *)
ClaimHeld == Settles /\ w.pc \in {"file", "gate", "record"}

Undoes ==
    (IF ClaimHeld THEN {"claim"} ELSE {}) \cup (IF job.onChain \in Final THEN {"outcome"} ELSE {})

FailureRead ==
    /\ failing.pc = "read"
    /\ failing' = [pc |-> "write", settling |-> job.onChain = "SETTLING", contested |-> job.contested]
    /\ UNCHANGED <<job, undone, faults>>

FailureWritten ==
    /\ failing.pc = "write" /\ failing' = NoFailure
    /\ \/ ~failing.settling /\ UNCHANGED <<job, undone, faults>>
       \/ /\ failing.settling
          /\ job' = [job EXCEPT !.onChain = IF failing.contested THEN "CONTESTED" ELSE "SUBMITTED"]
          /\ undone' = undone \cup Undoes
          /\ IF Undoes = {} THEN UNCHANGED faults ELSE Fault

Handler ==
    /\ FailureRead \/ FailureWritten
    /\ UNCHANGED <<submit, cands, chainVars, queue, w, api, clock, scenario, rulings>>

(***************************************************************************)
(* The recovery tick, the sweep and the candidate pass.                    *)
(***************************************************************************)
(* recoverErc8183Job: a delivered job. *)
FaultRecoverPending == job.status = "PAYMENT_PENDING" /\ job.onChain \in {"SUBMITTED", "SETTLING"}
                           /\ Enqueue("settle") /\ UNCHANGED job
RecoverPending ==
    /\ job.status = "PAYMENT_PENDING"
    /\ \/ /\ job.onChain = "FUNDED" /\ submit.row # "live"
          /\ \/ Mirror /\ UNCHANGED queue
             \/ chain = "Submitted" /\ AdvanceToSubmitted
             \/ /\ chain = "Funded"
                /\ job' = [job EXCEPT !.status = "ACCEPTED"]
                /\ UNCHANGED queue
       \/ /\ job.onChain = "CONTESTED" /\ job.resolution # "none"
          /\ Enqueue("resolve") /\ UNCHANGED job
       \/ /\ job.onChain \notin {"FUNDED", "CONTESTED"}
          /\ Enqueue("settle") /\ UNCHANGED job

(* reconcileEscrowJob, for the rows that reconcileEscrowJobs picks. *)
ReconcileStalled ==
    /\ \/ job.status \in Dead /\ job.resolution # "none" /\ job.onChain \in {"SUBMITTED", "SETTLING"}
       \/ job.status \in Dead /\ job.onChain = "FUNDED"
       \/ job.status = "ACCEPTED" /\ job.onChain = "FUNDED" /\ submit.row # "none"
    /\ \/ Mirror /\ UNCHANGED queue
       \/ /\ chain = "Submitted" /\ job.resolution # "none"
          /\ Enqueue("resolve") /\ UNCHANGED job
       \/ /\ chain = "Submitted" /\ job.resolution = "none" /\ job.status = "ACCEPTED"
          /\ AdvanceToSubmitted
       \/ /\ chain \in {"Funded", "Submitted"} /\ job.resolution = "none" /\ job.status \in Dead
          /\ Enqueue("reject") /\ UNCHANGED job

(* reconcileHeldReview *)
ReconcileHeld ==
    /\ job.resolution = "none"
    /\ job.onChain = "CONTESTED" \/ (job.onChain = "SUBMITTED" /\ job.status \in Dead)
    /\ Mirror /\ UNCHANGED queue

Recover ==
    /\ RecoverPending \/ ReconcileStalled \/ ReconcileHeld
    /\ UNCHANGED <<submit, cands, chainVars, procVars, boundVars, faults>>

(* sweepExpiredEscrows *)
Sweep ==
    /\ clock = "expired"
    /\ job.onChain \notin Final \cup {"SETTLING"} /\ ~Held(job)
    /\ Enqueue("claimRefund")
    /\ UNCHANGED <<job, submit, cands, chainVars, procVars, boundVars, faults>>

(* reconcileEvaluatorCandidates: the row points to the candidate that was   *)
(* mined, a stamp left behind is cleared, the job's own action is enqueued. *)
ActionOf(c) ==
    CASE c.act = "claimRefund" -> "claimRefund"
      [] c.act = "unwind"      -> "reject"
      [] OTHER                 -> IF job.resolution = "none" THEN "settle" ELSE "resolve"

CandidatePass ==
    /\ \E i \in DOMAIN cands : cands[i].fate # "live"
    /\ job' = [job EXCEPT !.settleTx = IF Winners # {} THEN CHOOSE i \in Winners : TRUE ELSE @,
                          !.stamp = @ /\ Busy("answer")]
    /\ IF job.onChain \in Final THEN UNCHANGED queue ELSE Enqueue(ActionOf(cands[Len(cands)]))
    /\ UNCHANGED <<submit, cands, chainVars, procVars, boundVars, faults>>

(***************************************************************************)
(* The chain: candidates are mined in nonce order; one may come to nothing *)
(* (reverted, or its nonce taken by the recovery script); what is mined    *)
(* may be reorganised until the proof tag has reached it.                  *)
(***************************************************************************)
EffectOf(act) == CASE act = "pay" -> "Completed" [] act = "claimRefund" -> "Expired" [] OTHER -> "Rejected"

Resolve(i, fate) == cands' = [cands EXCEPT ![i].fate = fate]

Mine(i) ==
    /\ i \in DOMAIN cands /\ cands[i].fate = "live"
    /\ \A k \in 1..(i - 1) : cands[k].fate # "live"
    /\ \/ /\ Executable(cands[i].act)
          /\ Resolve(i, "won") /\ chain' = EffectOf(cands[i].act) /\ UNCHANGED faults
       \/ /\ ~Executable(cands[i].act)
          /\ Resolve(i, "lost") /\ UNCHANGED <<chain, faults>>
       \/ Fault /\ Resolve(i, "lost") /\ UNCHANGED chain
    /\ UNCHANGED <<job, submit, proof, queue, procVars, boundVars>>

ProofCatchesUp ==
    /\ proof # chain \/ \E i \in DOMAIN cands : cands[i].fate # "live" /\ ~cands[i].proven
    /\ proof' = chain
    /\ cands' = [i \in DOMAIN cands |-> [cands[i] EXCEPT !.proven = @ \/ cands[i].fate # "live"]]
    /\ UNCHANGED <<job, submit, chain, queue, procVars, boundVars, faults>>

Reorg ==
    /\ \E i \in DOMAIN cands : cands[i].fate # "live" /\ ~cands[i].proven
    /\ Fault
    /\ chain' = proof
    /\ cands' = [i \in DOMAIN cands |-> [cands[i] EXCEPT !.fate = IF cands[i].proven THEN @ ELSE "live"]]
    /\ UNCHANGED <<job, submit, proof, queue, procVars, boundVars>>

(* claimRefund is open to anybody after the deadline. *)
OutsiderRefund ==
    /\ clock = "expired" /\ chain \in {"Funded", "Submitted"}
    /\ chain' = "Expired"
    /\ UNCHANGED <<job, submit, cands, proof, queue, procVars, boundVars, faults>>

Tick ==
    /\ scenario.deadline
    /\ \/ clock = "open" /\ clock' = "margin"
       \/ clock = "margin" /\ clock' = "expired"
    /\ UNCHANGED <<job, submit, cands, chainVars, queue, procVars, scenario, rulings, undone, faults>>

(* The process dies; an active entry is delivered again. *)
Crash ==
    /\ w.pc # "idle" \/ api.pc # "idle" \/ failing.pc # "none"
    /\ Fault
    /\ queue' = IF Busy("idle") THEN queue ELSE queue \cup {w.act}
    /\ w' = IdleWorker /\ api' = IdleApi /\ failing' = NoFailure
    /\ UNCHANGED <<job, submit, cands, chainVars, boundVars>>

WorkerStep ==
    \/ ReadTerminal \/ ReadSettle \/ ReadReject \/ ReadRefund \/ Claim \/ File
    \/ Gate \/ Record \/ Answer \/ Receipt \/ Book \/ MirrorRow \/ Finalize

Delivery == Deliver \/ SubmitMines \/ SubmitConfirmed \/ SubmitFailed \/ Cancel

Review ==
    \/ AskContest \/ ApiCheck \/ WriteContest \/ WriteDecision
    \/ \E d \in Decisions : AskResolve(d)

Next ==
    \/ Delivery \/ Review \/ WorkerStep \/ Unreadable \/ Defer \/ Handler
    \/ \E a \in Entries : Take(a)
    \/ Recover \/ Sweep \/ CandidatePass
    \/ \E i \in DOMAIN cands : Mine(i)
    \/ ProofCatchesUp \/ Reorg \/ OutsiderRefund \/ Tick \/ Crash

SetSpec == Init /\ [][Next]_setVars

(* The queue serves its entries in turn, its worker and the recovery tick   *)
(* keep running, nodes mine what they hold and the proof tag advances.      *)
Fairness ==
    /\ WF_setVars(WorkerStep)
    /\ SF_setVars(Take("settle") \/ Take("resolve"))
    /\ SF_setVars(Take("reject") \/ Take("claimRefund"))
    /\ WF_setVars(Handler) /\ WF_setVars(Recover) /\ WF_setVars(Sweep)
    /\ WF_setVars(SubmitMines \/ SubmitConfirmed \/ SubmitFailed)
    /\ WF_setVars(ProofCatchesUp \/ \E i \in DOMAIN cands : Mine(i))

FairSetSpec == SetSpec /\ Fairness

(***************************************************************************)
(* Properties.                                                             *)
(***************************************************************************)
SetTypeOK ==
    LET File_ == [for : {"nothing", "completed", "rejected"}, at : Nat]
        Row   == [status : JobStatus, onChain : OnChain, contested : BOOLEAN,
                  resolution : {"none"} \cup Decisions, settleTx : 0..Len(cands),
                  stamp : BOOLEAN, file : File_]
    IN  /\ job \in Row /\ w.row \in Row /\ api.row \in Row
        /\ w.cand \in 0..Len(cands) /\ queue \subseteq Entries
        /\ submit.row \in {"none", "live", "confirmed", "failed"}
        /\ submit.tx \in {"gone", "sent", "mined"}
        /\ chain \in {"Funded", "Submitted"} \cup ChainEnd
        /\ proof \in {"Funded", "Submitted"} \cup ChainEnd
        /\ job.stamp => job.settleTx # 0
        /\ undone \subseteq {"claim", "outcome"}

(* A row that shows an outcome shows the one the chain can no longer take   *)
(* back, and so does the job's public status, whoever wrote them and from   *)
(* whatever snapshot: the worker, the recovery tick, or the handler of a    *)
(* failed entry whose write comes late (erc8183:4641-4662).                 *)
BooksFollowChain ==
    /\ job.onChain \in Final => proof \in ChainEnd /\ FinalOf(proof) = job.onChain
    /\ job.status = "COMPLETED" => proof = "Completed"
    /\ job.status = "PAYMENT_FAILED" => proof \in {"Rejected", "Expired"}

(* Two transactions of the evaluator that may still change the chain never  *)
(* contradict each other: they carry the same decision, the same feedback   *)
(* file and the same reason.                                                *)
SendsAgree ==
    \A i, k \in DOMAIN cands :
        ~cands[i].proven /\ ~cands[k].proven => Calldata(cands[i]) = Calldata(cands[k])

(* The feedback file served as committed (isFeedbackFileCommitted) is the   *)
(* one whose hash the settlement that was mined carries.                    *)
FileIsCommitted ==
    /\ job.onChain \in {"COMPLETED", "REJECTED"} => \A i \in Winners : job.file = cands[i].file
    /\ job.onChain = "COMPLETED" => job.file # NoFile

(* The settlement as a whole keeps the promises of JobReview: what the      *)
(* proof tag shows of the budget is what nobody contested, what the         *)
(* operator last decided, the refund of a cancelled job or an expiry.  That *)
(* is so until a late write of the failed handler takes the worker's claim  *)
(* away (erc8183:4655): then the API may record another decision beside the *)
(* one the worker is about to sign.                                         *)
Outcome ==
    CASE proof \notin ChainEnd -> "open"
      [] proof = "Completed"   -> "paid"
      [] proof = "Expired"     -> "expired"
      [] proof = "Rejected"    -> IF \E i \in Winners : cands[i].act = "quality"
                                  THEN "condemned" ELSE "refunded"

Promise == INSTANCE JobReview WITH
    outcome   <- Outcome,
    contested <- job.contested,
    decision  <- job.resolution,
    withdrawn <- \E i \in DOMAIN cands : cands[i].act = "unwind",
    overdue   <- clock = "expired"

ReviewIsObeyed ==
    Promise!ReviewInit /\ [][Promise!ReviewNext \/ "claim" \in undone]_(Promise!reviewVars)

(* A settlement on the chain reaches the row, and the job's public status   *)
(* leaves PAYMENT_PENDING, with any faults but the late write that the      *)
(* failed handler makes over a booked outcome.  A job nobody delivered      *)
(* leaves ACCEPTED with one fault at most: two (a death between the mirror  *)
(* of the refund and the finalizer, and then an entry whose retries run     *)
(* out) leave it ACCEPTED beside a row that says EXPIRED, and no tick looks *)
(* for that.                                                                *)
OutcomesAreBooked ==
    []<>(proof \in ChainEnd =>
            \/ "outcome" \in undone
            \/ /\ job.onChain \in Final
               /\ job.status # "PAYMENT_PENDING"
               /\ job.status = "ACCEPTED" => faults > 1)

(* No delivery on the chain stays unsettled, unless it waits for the        *)
(* operator; late writes of the failed handler only delay it.               *)
DeliveriesSettle ==
    []<>(chain = "Submitted" =>
            /\ job.resolution = "none"
            /\ job.contested \/ job.status \in Dead)

(* The operator's "pay" is never overtaken by a refund of the backend.      *)
NeverRefundsPay ==
    [][ Len(cands') > Len(cands) /\ job.resolution = "pay" =>
            cands'[Len(cands')].act \notin {"claimRefund", "unwind"} ]_setVars
=============================================================================
