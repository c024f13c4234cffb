---------------------------- MODULE EvaluatorLedger ----------------------------
(***************************************************************************)
(* The candidate ledger of one evaluator key                               *)
(* (services/escrow/evaluator-candidates.ts, evaluator-ledger.ts,          *)
(* evaluator-rpc.ts, the send and the reconciliation pass of               *)
(* services/job/escrow-erc8183.service.ts, scripts/evaluator-recovery.ts). *)
(*                                                                         *)
(* A settlement is recorded as a row before it leaves.  The row is live    *)
(* until the chain proves what became of its nonce: first at `latest`,     *)
(* which a reorganisation may undo, then at the proof tag.  Workers and    *)
(* the operator's script send inside one lane, which they may lose; the    *)
(* pass asks every node at its own moment and works on the rows it read    *)
(* when it began.                                                          *)
(*                                                                         *)
(* A node that lags is a node that was asked early.  Times, fees, budgets  *)
(* and alerts are left out: a replacement always outbids what it replaces. *)
(***************************************************************************)
EXTENDS Naturals, Sequences, FiniteSets, Functions

CONSTANTS
    Jobs,
    NoJob,      \* the job of a transaction that settles nothing
    Nodes,      \* the RPC nodes; the pass asks all of them
    Scenarios   \* bounds of a behaviour: the workers, the rows of the ledger, and
                \* how often at most each fault happens and the operator steps in

Faults == {"reorg", "drop", "crash", "lane", "foreign", "refuse", "operator"}

Workers  == Jobs \X {"pay", "refund"}
Operator == <<NoJob, "script">>
Senders  == Workers \cup {Operator}

ASSUME LedgerAssumption ==
    /\ NoJob \notin Jobs
    /\ Nodes \in SUBSET Nat /\ Nodes # {}
    /\ Scenarios \subseteq [workers : SUBSET Workers, rows : Nat, left : [Faults -> Nat]]

VARIABLES
    rows,     \* the ledger (EvaluatorTransaction), in the order of insertion
    stamp,    \* Job.settleTxHash, as the number of a row; 0 is null
    returned, \* history, read by the properties only: the jobs that a pass gave the
              \* stamp back that a sender has read and another has replaced since
    wire,     \* external: the rows whose transaction some mempool holds
    chain,    \* external: the key's transactions mined so far, one per nonce
    tag,      \* external: how many of them lie below the proof tag
    fork,     \* external: reorganisations so far; with the nonce, a block hash
    refused,  \* external: the jobs whose payout reverts in the contract
    send,     \* memory: the workers and the script
    lane,     \* the holder of the evaluator lane
    pass,     \* memory: the reconciliation pass
    scenario, \* the bounds of this behaviour, chosen once
    left      \* how many of each fault are still to come

chainVars == <<wire, chain, tag, fork, refused>>
ledgerVars == <<rows, stamp, returned>>
ledVars == <<ledgerVars, chainVars, send, lane, pass, scenario, left>>

Mined    == {"MINED_SUCCESS", "MINED_REVERTED"}
Statuses == {"LIVE", "DEAD"} \cup Mined
Foreign  == 0                          \* a transaction no worker or script sent

Row(nonce, job, call, kind) ==
    [nonce |-> nonce, job |-> job, call |-> call, kind |-> kind,
     status |-> "LIVE", level |-> "none", fork |-> 0]

NoOne == <<NoJob, "nobody">>
Idle  == [pc |-> "idle", row |-> Row(0, NoJob, "noop", "ORIGINAL"), of |-> 0, seen |-> 0]
Asked == [latest |-> {}, proof |-> {}, receipts |-> <<>>, known |-> {}, at |-> "ask"]
Rest  == [pc |-> "idle", rows |-> <<>>, todo |-> {}, views |-> [n \in Nodes |-> Asked]]

Init ==
    /\ rows = <<>> /\ stamp = [j \in Jobs |-> 0] /\ returned = {}
    /\ wire = {} /\ chain = <<>> /\ tag = 0 /\ fork = 0 /\ refused = {}
    /\ send = [s \in Senders |-> Idle] /\ lane = NoOne /\ pass = Rest
    /\ scenario \in Scenarios /\ left = scenario.left

Spend(fault) == left[fault] > 0 /\ left' = [left EXCEPT ![fault] = @ - 1]

Ids          == DOMAIN rows
Live(i)      == rows[i].status = "LIVE"
LiveAt(n)    == {i \in Ids : rows[i].nonce = n /\ Live(i)}
Ours(r)      == r.kind # "EXTERNAL"
Decides(r)   == r.kind \in {"ORIGINAL", "SPEED_UP"}
Tx(i, r)     == IF Ours(r) THEN i ELSE Foreign
Latest         == Len(chain)

(* What the chain `c` says of row i: mined there with nonce r.nonce?        *)
In(c, i, r)  == r.nonce < Len(c) /\ c[r.nonce + 1].tx = Tx(i, r)
Success(c, i, r) == In(c, i, r) /\ c[r.nonce + 1].ok

Settled(j) == \E i \in Ids : rows[i].job = j /\ Decides(rows[i]) /\ Success(chain, i, rows[i])

(* simulateContract of a call; a cancellation is a transfer of 0 to itself. *)
Simulates(j, call) == call = "noop" \/ (~Settled(j) /\ ~(call = "pay" /\ j \in refused))

------------------------------------------------------------------------------
(* The gate: may row i still, or did it, settle the job?                     *)

(* A gate that forgets what a reorganisation may bring back.                 *)
FaultLiveRows(j) == {i \in Ids : rows[i].job = j /\ Live(i)}

GateRows(j) == {i \in Ids : /\ rows[i].job = j
                            /\ \/ Live(i) \/ rows[i].level = "latest"
                               \/ rows[i].status = "MINED_SUCCESS" /\ Decides(rows[i])}

(* Signing the same decision again, `latest` is deep enough.                *)
Depth(i, call) == IF rows[i].call = call \/ ~Decides(rows[i]) THEN "latest" ELSE "proof"

Consumed(n, depth) == n < (IF depth = "proof" THEN tag ELSE Latest)

Clear(i, depth) ==
    LET r == rows[i] IN
    \/ /\ r.level = "proof"
       /\ ~(r.status = "MINED_SUCCESS" /\ Decides(r) /\ depth = "proof")
    \/ /\ r.level # "proof"
       /\ \/ ~Live(i) /\ depth = "latest"
          \/ /\ Consumed(r.nonce, depth)
             /\ depth = "latest" \/ ~Decides(r) \/ ~Success(chain, i, r)

NothingPending(j, call) == \A i \in GateRows(j) : Clear(i, Depth(i, call))

(* A worker reads the job and its rows: the chain first, then the gate.     *)
Gate(s) ==
    LET j == s[1] IN
    /\ s \in scenario.workers /\ send[s].pc = "idle" /\ Len(rows) < scenario.rows
    /\ ~Settled(j) /\ NothingPending(j, s[2])
    /\ send' = [send EXCEPT ![s] = [Idle EXCEPT !.pc = "gated", !.seen = stamp[j]]]
    /\ UNCHANGED <<ledgerVars, chainVars, lane, pass, scenario, left>>

------------------------------------------------------------------------------
(* In the lane: choose, record, send                                         *)

MaxOf(S) == CHOOSE n \in S : \A m \in S : m <= n

(* The transaction count at `pending`: of a node that lags by a block, of   *)
(* one that knows none of our pending transactions, or of one that knows    *)
(* the next few.                                                            *)
Pending == {n \in 0 .. Latest + Len(rows) :
               /\ n + 1 >= Latest
               /\ \A m \in Latest .. n - 1 : \E i \in wire : rows[i].nonce = m}

ChooseNonce(pending) == MaxOf({pending} \cup {rows[i].nonce + 1 : i \in {i \in Ids : Live(i)}})

Choose(s) ==
    /\ send[s].pc = "gated" /\ lane = NoOne
    /\ IF Simulates(s[1], s[2])
       THEN /\ \E p \in Pending :
                 send' = [send EXCEPT ![s].pc = "chosen",
                                      ![s].row = Row(ChooseNonce(p), s[1], s[2], "ORIGINAL")]
            /\ lane' = s
       ELSE send' = [send EXCEPT ![s] = Idle] /\ UNCHANGED lane
    /\ UNCHANGED <<ledgerVars, chainVars, pass, scenario, left>>

(* The operator's script replaces our candidate at the head: the same call  *)
(* dearer while it would succeed, nothing in its place otherwise.           *)
ScriptChooses ==
    LET replace(i, job, call, kind) ==
          [pc |-> "chosen", row |-> Row(Latest, job, call, kind), of |-> i, seen |-> 0]
    IN
    /\ send[Operator].pc = "idle" /\ lane = NoOne /\ Len(rows) < scenario.rows
    /\ Spend("operator")
    /\ \E i \in LiveAt(Latest), k \in LiveAt(Latest) :
         /\ Decides(rows[i])
         /\ send' = [send EXCEPT ![Operator] =
                IF Simulates(rows[i].job, rows[i].call)
                THEN replace(i, rows[i].job, rows[i].call, "SPEED_UP")
                ELSE replace(k, rows[k].job, "noop", "CANCEL")]
    /\ lane' = Operator
    /\ UNCHANGED <<ledgerVars, chainVars, pass, scenario>>

(* insertCandidateWithJobStamp: what the transaction checks under its locks. *)
FreeNonce(p) ==
    IF p.row.kind = "ORIGINAL" THEN LiveAt(p.row.nonce) = {}
    ELSE p.of \in LiveAt(p.row.nonce) /\ rows[p.of].job = p.row.job

NoRivalLive(r) ==
    Decides(r) => \A i \in Ids : rows[i].job = r.job /\ Live(i) =>
                      Decides(rows[i]) /\ rows[i].call = r.call

StampAsRead(s) == s = Operator \/ stamp[s[1]] = send[s].seen

Recordable(s) ==
    FreeNonce(send[s]) /\ NoRivalLive(send[s].row) /\ StampAsRead(s) /\ Len(rows) < scenario.rows

Release(s) == lane' = IF lane = s THEN NoOne ELSE lane

(* Nothing asks for the lane here: the checks above are the transaction's.  *)
Record(s) ==
    LET p == send[s] IN
    /\ p.pc = "chosen"
    /\ IF Recordable(s)
       THEN /\ rows' = Append(rows, p.row)
            /\ stamp' = IF Decides(p.row) THEN [stamp EXCEPT ![p.row.job] = Len(rows) + 1] ELSE stamp
            /\ send' = [send EXCEPT ![s].pc = "recorded", ![s].of = Len(rows) + 1]
            /\ UNCHANGED <<returned, lane>>
       ELSE send' = [send EXCEPT ![s] = Idle] /\ Release(s) /\ UNCHANGED ledgerVars
    /\ UNCHANGED <<chainVars, pass, scenario, left>>

(* The lease is asserted immediately before the send.  The answer only      *)
(* tells live states apart; no answer gives the slot back.                  *)
Send(s) ==
    /\ send[s].pc = "recorded"
    /\ wire' = IF lane = s THEN wire \cup {send[s].of} ELSE wire
    /\ send' = [send EXCEPT ![s] = Idle] /\ Release(s)
    /\ UNCHANGED <<ledgerVars, chain, tag, fork, refused, pass, scenario, left>>

(* The sender dies, or no node takes the transaction: as if it had died     *)
(* after the record.                                                        *)
Crash(s) ==
    /\ send[s].pc # "idle" /\ Spend("crash")
    /\ send' = [send EXCEPT ![s] = Idle] /\ Release(s)
    /\ UNCHANGED <<ledgerVars, chainVars, pass, scenario>>

(* The lease runs out under its holder.                                     *)
LoseLane ==
    /\ lane # NoOne /\ Spend("lane") /\ lane' = NoOne
    /\ UNCHANGED <<ledgerVars, chainVars, send, pass, scenario>>

------------------------------------------------------------------------------
(* What a write on a row does                                                *)

(* markResolved: a live row is resolved, an outcome known at `latest` is     *)
(* confirmed at the proof tag, and nothing else moves.                       *)
Resolved(r, to, level, f) ==
    IF r.status = "LIVE" THEN [r EXCEPT !.status = to, !.level = level, !.fork = f]
    ELSE IF /\ r.status = to /\ r.level = "latest" /\ level = "proof"
            /\ to = "DEAD" \/ r.fork = f
    THEN [r EXCEPT !.level = "proof"] ELSE r

(* revertForReorg: an outcome known only at `latest` is undone.              *)
Reverted(r) ==
    IF r.level = "latest" THEN [r EXCEPT !.status = "LIVE", !.level = "none", !.fork = 0] ELSE r

Outcome(block) == IF block.ok THEN "MINED_SUCCESS" ELSE "MINED_REVERTED"

(* markOwnMined: the worker that waited for its receipt books it.            *)
MarkOwnMined(i) ==
    LET block == chain[rows[i].nonce + 1] IN
    /\ rows[i].kind = "ORIGINAL" /\ Live(i) /\ In(chain, i, rows[i])
    /\ rows' = [rows EXCEPT ![i] = Resolved(@, Outcome(block), "latest", block.fork)]
    /\ UNCHANGED <<stamp, returned, chainVars, send, lane, pass, scenario, left>>

------------------------------------------------------------------------------
(* The reconciliation pass                                                   *)

(* A pass that is done with a row once it is resolved.                       *)
FaultLiveNonces == {rows[i].nonce : i \in {i \in Ids : Live(i)}}

NoncesToReconcile == {rows[i].nonce : i \in {i \in Ids : Live(i) \/ rows[i].level = "latest"}}

PassStarts ==
    /\ pass.pc = "idle" /\ NoncesToReconcile # {}
    /\ pass' = [Rest EXCEPT !.pc = "read", !.todo = NoncesToReconcile,
                            !.rows = Restrict(rows, {i \in Ids : rows[i].nonce \in NoncesToReconcile})]
    /\ UNCHANGED <<ledgerVars, chainVars, send, lane, scenario, left>>

(* One node (they are alike, and numbered as they are asked): which nonces   *)
(* are taken at `latest` and below the proof tag first, ...                  *)
ReadNonces(n) ==
    /\ pass.pc = "read" /\ pass.views[n].at = "ask"
    /\ \A m \in Nodes : m < n => pass.views[m].at # "ask"
    /\ pass' = [pass EXCEPT !.views[n].at = "nonces",
                            !.views[n].latest = {k \in pass.todo : k < Latest},
                            !.views[n].proof = {k \in pass.todo : k < tag}]
    /\ UNCHANGED <<ledgerVars, chainVars, send, lane, scenario, left>>

(* ... then its receipts, and which of the transactions without one it       *)
(* happens to know; that matters where the nonce is taken.                   *)
NoBlock == [tx |-> Foreign, ok |-> FALSE, fork |-> 0]

ReadReceipts(n) ==
    LET asked    == DOMAIN pass.rows
        mined    == {i \in asked : In(chain, i, rows[i])}
        pending  == {i \in (wire \cap asked) \ mined : rows[i].nonce \in pass.views[n].latest}
    IN
    /\ pass.pc = "read" /\ pass.views[n].at = "nonces"
    /\ \E known \in SUBSET pending :
         pass' = [pass EXCEPT
             !.views[n].at = "done", !.views[n].known = known,
             !.views[n].receipts = [i \in asked |-> IF i \in mined THEN chain[rows[i].nonce + 1] ELSE NoBlock]]
    /\ UNCHANGED <<ledgerVars, chainVars, send, lane, scenario, left>>

View(n) == pass.views[n]
Seen(nonce) == {i \in DOMAIN pass.rows : pass.rows[i].nonce = nonce}

ReceiptsAgree(nonce) ==
    \A i \in Seen(nonce), n, m \in Nodes : View(n).receipts[i] = View(m).receipts[i]

(* The receipt every node returns, once they agree.                          *)
Agreed(i) == View(CHOOSE n \in Nodes : TRUE).receipts[i]

(* A nonce every node counts at `latest` is not proven yet.                  *)
FaultProofLevel(nonce) == IF \A n \in Nodes : nonce \in View(n).latest THEN "proof" ELSE "latest"

ProofLevel(nonce) == IF \A n \in Nodes : nonce \in View(n).proof THEN "proof" ELSE "latest"

(* resolveNonceDecision: what the answers prove about one nonce.             *)
Decision(nonce) ==
    LET seen     == Seen(nonce)
        at(i)    == pass.rows[i]
        mined    == {i \in seen : Agreed(i) # NoBlock}
        latest   == \A n \in Nodes : nonce \in View(n).latest
        level    == ProofLevel(nonce)
        lost     == {i \in seen : at(i).status \in Mined
                                  /\ (i \notin mined \/ Agreed(i).fork # at(i).fork)}
        dead(l)  == {i \in seen : at(i).status = "DEAD" /\ at(i).level = l}
        open     == {i \in seen : at(i).status = "LIVE"} \cup dead("latest")
        Nothing  == [kind |-> "nothing", ids |-> {}, level |-> level]
        Reorg(I) == [kind |-> "reorg", ids |-> I, level |-> level]
        known    == \E n \in Nodes : \E i \in View(n).known \cap seen : at(i).status = "LIVE"
        agree    == ReceiptsAgree(nonce)
    IN  CASE ~agree -> Nothing
          [] agree /\ lost # {} ->
                IF \E i \in lost : at(i).level = "proof" THEN Nothing ELSE Reorg(lost \cup dead("latest"))
          [] agree /\ lost = {} /\ mined = {} /\ ~latest ->
                IF dead("latest") = {} \/ dead("proof") # {} THEN Nothing ELSE Reorg(dead("latest"))
          [] agree /\ lost = {} /\ mined = {} /\ latest ->
                IF known THEN Nothing ELSE [kind |-> "foreign", ids |-> open, level |-> level]
          [] agree /\ lost = {} /\ mined # {} ->
                IF Cardinality(mined) > 1 \/ ~latest \/ dead("proof") \cap mined # {} THEN Nothing
                ELSE [kind |-> "winner", ids |-> mined \cup open, level |-> level]

(* What the pass writes on row i: a row that died too early is alive again   *)
(* before it is booked as mined.                                             *)
Written(d, i) ==
    IF d.kind = "reorg" THEN Reverted(rows[i])
    ELSE IF d.kind = "winner" /\ Agreed(i) # NoBlock
    THEN Resolved(IF pass.rows[i].status = "DEAD" THEN Reverted(rows[i]) ELSE rows[i],
                  Outcome(Agreed(i)), d.level, Agreed(i).fork)
    ELSE Resolved(rows[i], "DEAD", d.level, 0)

Write(d, I) == [i \in Ids |-> IF i \in I THEN Written(d, i) ELSE rows[i]]

(* moveSettleTxHashToWinner *)
WinnersJob(d) == {i \in d.ids : d.kind = "winner" /\ Agreed(i) # NoBlock /\ Decides(pass.rows[i])}
MovedStamp(d) ==
    [j \in Jobs |-> IF \E i \in WinnersJob(d) : rows[i].job = j
                    THEN CHOOSE i \in WinnersJob(d) : rows[i].job = j ELSE stamp[j]]

(* The check of the stamp at the record (StampAsRead) does not see that it   *)
(* was moved away and back. That takes a pass that asked its nodes before    *)
(* two senders began, with a reorganisation after it asked.                  *)
Returned(d) ==
    {j \in Jobs : \E call \in {"pay", "refund"} :
        /\ send[<<j, call>>].pc \in {"gated", "chosen"}
        /\ stamp[j] # send[<<j, call>>].seen /\ MovedStamp(d)[j] = send[<<j, call>>].seen}

(* recordForeignNonce: the transaction that took the nonce, if the chain     *)
(* still has it there and no row has its hash.                               *)
External(d, nonce) ==
    IF /\ d.kind = "foreign" /\ nonce < Latest /\ chain[nonce + 1].tx = Foreign
       /\ \A i \in Ids : rows[i].nonce = nonce => Ours(rows[i])
    THEN <<[Row(nonce, NoJob, "noop", "EXTERNAL") EXCEPT
              !.status = "MINED_SUCCESS", !.level = d.level, !.fork = chain[nonce + 1].fork]>>
    ELSE <<>>

AllRead == pass.pc = "read" /\ \A n \in Nodes : pass.views[n].at = "done"
Next1(nonce) == nonce \in pass.todo /\ \A m \in pass.todo : nonce <= m

Resolve(nonce) ==
    LET d == Decision(nonce) IN
    /\ AllRead /\ Next1(nonce)
    /\ rows' = Write(d, d.ids) \o External(d, nonce)
    /\ stamp' = MovedStamp(d) /\ returned' = returned \cup Returned(d)
    /\ pass' = IF pass.todo = {nonce} THEN [Rest EXCEPT !.pc = "head"]
               ELSE [pass EXCEPT !.todo = @ \ {nonce}]
    /\ UNCHANGED <<chainVars, send, lane, scenario, left>>

(* The process dies after some of the writes, the winner's first.            *)
PassDies(nonce) ==
    LET d == Decision(nonce) IN
    /\ AllRead /\ Next1(nonce) /\ Spend("crash")
    /\ \E I \in SUBSET d.ids :
         /\ d.kind = "winner" /\ I # {} => \E i \in I : Agreed(i) # NoBlock
         /\ rows' = Write(d, I)
    /\ pass' = Rest
    /\ UNCHANGED <<stamp, returned, chainVars, send, lane, scenario>>

(* rebroadcastLostHead: the same bytes again, in the lane, for the only      *)
(* live row at the head that no node knows.                                  *)
Rebroadcastable(i) ==
    /\ LiveAt(Latest) = {i} /\ Ours(rows[i]) /\ i \notin wire
    /\ Simulates(rows[i].job, rows[i].call)

RebroadcastLostHead(i) ==
    /\ pass.pc = "head" /\ lane = NoOne /\ Rebroadcastable(i)
    /\ wire' = wire \cup {i} /\ pass' = Rest
    /\ UNCHANGED <<ledgerVars, chain, tag, fork, refused, send, lane, scenario, left>>

PassEnds ==
    /\ pass.pc = "head" /\ ~\E i \in Ids : Rebroadcastable(i)
    /\ pass' = Rest
    /\ UNCHANGED <<ledgerVars, chainVars, send, lane, scenario, left>>

------------------------------------------------------------------------------
(* The chain                                                                 *)

Block(tx, ok) == [tx |-> tx, ok |-> ok, fork |-> fork]

Mine ==
    /\ \E i \in wire :
         /\ rows[i].nonce = Latest
         /\ chain' = Append(chain, Block(Tx(i, rows[i]), Simulates(rows[i].job, rows[i].call)))
    /\ UNCHANGED <<ledgerVars, wire, tag, fork, refused, send, lane, pass, scenario, left>>

ProofCatchesUp ==
    /\ tag < Latest /\ tag' = tag + 1
    /\ UNCHANGED <<ledgerVars, wire, chain, fork, refused, send, lane, pass, scenario, left>>

(* Somebody else signs with the key.                                         *)
ForeignMines ==
    /\ Spend("foreign") /\ chain' = Append(chain, Block(Foreign, TRUE))
    /\ UNCHANGED <<ledgerVars, wire, tag, fork, refused, send, lane, pass, scenario>>

(* Never below the proof tag.                                                *)
Reorg ==
    /\ Spend("reorg") /\ fork' = fork + 1
    /\ \E n \in tag .. Latest - 1 : chain' = SubSeq(chain, 1, n)
    /\ UNCHANGED <<ledgerVars, wire, tag, refused, send, lane, pass, scenario>>

(* Every mempool forgets a transaction that is not mined.                    *)
Drop ==
    /\ Spend("drop")
    /\ \E i \in wire : ~In(chain, i, rows[i]) /\ wire' = wire \ {i}
    /\ UNCHANGED <<ledgerVars, chain, tag, fork, refused, send, lane, pass, scenario>>

(* The mempools let go of a transaction whose nonce is taken.                *)
Forget ==
    /\ \E i \in wire : rows[i].nonce < Latest /\ ~In(chain, i, rows[i]) /\ wire' = wire \ {i}
    /\ UNCHANGED <<ledgerVars, chain, tag, fork, refused, send, lane, pass, scenario, left>>

RefusePayout ==
    /\ Spend("refuse") /\ \E j \in Jobs : refused' = refused \cup {j}
    /\ UNCHANGED <<ledgerVars, wire, chain, tag, fork, send, lane, pass, scenario>>

------------------------------------------------------------------------------

InLane(s)   == Choose(s) \/ Record(s) \/ Send(s)
PassRuns    == \/ PassStarts \/ PassEnds
               \/ \E n \in Nodes : ReadNonces(n) \/ ReadReceipts(n)
               \/ \E nonce \in pass.todo : Resolve(nonce)
               \/ \E i \in Ids : RebroadcastLostHead(i)

Next ==
    \/ \E s \in Workers : Gate(s)
    \/ \E s \in Senders : InLane(s) \/ Crash(s)
    \/ ScriptChooses \/ LoseLane
    \/ \E i \in Ids : MarkOwnMined(i)
    \/ PassRuns
    \/ \E nonce \in pass.todo : PassDies(nonce)
    \/ Mine \/ ProofCatchesUp \/ ForeignMines \/ Reorg \/ Drop \/ Forget \/ RefusePayout

LedSpec == Init /\ [][Next]_ledVars

(* The pass is a repeated job of the worker's queue; a sender that has begun *)
(* goes on unless it dies; blocks come, the proof tag follows them, and no   *)
(* mempool keeps what can no longer be mined.                                *)
FairLedSpec ==
    /\ LedSpec
    /\ WF_ledVars(\E s \in Senders : InLane(s))
    /\ WF_ledVars(PassRuns)
    /\ WF_ledVars(Mine) /\ WF_ledVars(Forget)
    /\ WF_ledVars(ProofCatchesUp)

------------------------------------------------------------------------------
(* Properties                                                                *)

LedTypeOK ==
    /\ rows \in Seq([nonce : Nat, job : Jobs \cup {NoJob}, call : {"pay", "refund", "noop"},
                     kind : {"ORIGINAL", "SPEED_UP", "CANCEL", "EXTERNAL"}, status : Statuses,
                     level : {"none", "latest", "proof"}, fork : Nat])
    /\ stamp \in [Jobs -> Nat] /\ returned \subseteq Jobs /\ wire \subseteq Ids
    /\ tag \in 0 .. Latest /\ fork \in Nat /\ refused \subseteq Jobs
    /\ lane \in Senders \cup {NoOne}
    /\ pass.pc \in {"idle", "read", "head"}

(* What the ledger calls proven is so: a mined row lies below the proof tag  *)
(* in the block it names, and a dead row's nonce was taken there by another  *)
(* transaction.                                                              *)
ProofIsFinal ==
    \A i \in Ids : rows[i].level = "proof" =>
        /\ rows[i].nonce < tag
        /\ LET block == chain[rows[i].nonce + 1] IN
           IF rows[i].status = "DEAD" THEN block.tx # Tx(i, rows[i])
           ELSE /\ block.tx = Tx(i, rows[i]) /\ block.fork = rows[i].fork
                /\ rows[i].status = Outcome(block)

(* Two different decisions about one job are never both able to settle it:   *)
(* one of them can no longer be mined (erc8183:2862-2870), unless a pass     *)
(* gave the job back the stamp that a sender had read before another one     *)
(* recorded a decision (moveSettleTxHashToWinner, 3561-3570).                *)
Buried(i) == rows[i].nonce < tag /\ ~Success(chain, i, rows[i])
OneDecision ==
    \A i, k \in Ids :
        /\ rows[i].job = rows[k].job /\ rows[i].call # rows[k].call
        /\ Decides(rows[i]) /\ Decides(rows[k])
        => Buried(i) \/ Buried(k) \/ rows[i].job \in returned

(* A row that is mined below the proof tag is booked as mined there.         *)
Proven(i) == In(SubSeq(chain, 1, tag), i, rows[i])
Booked(i) == rows[i].level = "proof" /\ rows[i].status \in Mined

(* The head waits for the operator: several live rows, one that would        *)
(* revert, one that is not ours, or a nonce left empty by a foreign          *)
(* transaction that was reorganised away.                                    *)
HeadWaits ==
    \/ Cardinality(LiveAt(Latest)) > 1
    \/ \E i \in LiveAt(Latest) : ~Ours(rows[i]) \/ ~Simulates(rows[i].job, rows[i].call)
    \/ LiveAt(Latest) = {} /\ fork > 0 /\ left["foreign"] < scenario.left["foreign"]

(* Whatever is lost, dies or is reorganised, the ledger catches up with the  *)
(* chain: what is proven is booked, and no row stays live behind a head that *)
(* does not wait for the operator.                                           *)
LedgerSettles ==
    []<>(/\ \A i \in Ids : Proven(i) => Booked(i)
         /\ (\A i \in Ids : ~Live(i)) \/ HeadWaits)
=============================================================================
