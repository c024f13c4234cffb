-------------------------- MODULE TxPipelineProofs --------------------------
(***************************************************************************)
(* Theorems about TxPipeline, for any number of rows, deliveries, attempts *)
(* and gas prices.  The invariant comes in layers, each used by the next:  *)
(* the types, what the chain mines, what an attempt leaves behind in its   *)
(* row, and, for rows that live through the timely case only, that the     *)
(* attempt recorded last is the only one the chain can hold.               *)
(***************************************************************************)
EXTENDS TxPipeline, FiniteSetTheorems, TLAPS

(* A non-empty set of natural numbers has a least one. *)
LEMMA LeastNumber ==
    ASSUME NEW T, T \subseteq Nat, T # {}
    PROVE  \E m \in T : \A k \in T : m <= k
  <1> DEFINE R == OpToRel(<, Nat)
  <1>1. IsWellFoundedOn(R, Nat)
    BY NatLessThanWellFounded, Zenon
  <1>2. \A x, y \in Nat : y < x => <<y, x>> \in R
    BY DEF OpToRel
  <1> HIDE DEF R
  <1>3. PICK m \in T : \A k \in T : ~ (<<k, m>> \in R)
    BY <1>1, WFMin
  <1>4. \A k \in T : ~ (k < m)
    BY <1>2, <1>3
  <1> QED
    BY <1>4

Volumes    == {"NONE", "RESERVED", "COMMITTED", "RELEASED", "HELD"}
BullStates == {"missing", "waiting", "active", "completed", "failed"}
Places     == {"idle", "guard", "block", "lane", "failed", "record"} \cup InLane
Carrying   == {"check", "stamp", "send", "record"}

TxRow   == [kind : Kinds, status : TxStatus, txHash : Hashes, broadcastAttempts : Nat,
            broadcastTxHash : Hashes, volume : Volumes]
BullJob == [state : BullStates, made : 0..MaxAttempts, stalled : BOOLEAN,
            owner : Workers \cup {NoWorker}]
Place   == [pc : Places, tx : Txs \cup {NoTx}, hash : Hashes]
Receipt == [hash : Signed, ok : BOOLEAN]

(* The rows t can hold: every hash in it is of a transaction of t. *)
Own(t)    == {h \in Signed : h.tx = t}
OwnRow(t) == {r \in TxRow : {r.txHash, r.broadcastTxHash} \subseteq Own(t) \cup {NoHash}}

(* Types of the variables, in the groups their actions change together. *)
RowTypes ==
    /\ row \in [Txs -> TxRow] /\ \A t \in Txs : row[t] \in OwnRow(t)
    /\ job \in [A2A -> {"PAYMENT_PENDING", "COMPLETED", "PAYMENT_FAILED"}]
    /\ reservation \in [A2A -> {"PENDING", "RELEASED", "CANCELLED"}]
    /\ credits \in [A2A -> Nat]

QueueTypes ==
    /\ bull \in [Txs -> BullJob]
    /\ at \in [Workers -> Place]
    /\ lane \in Workers \cup {NoWorker}
    /\ lastUsed \in Nat \cup {-1}

WatchTypes ==
    /\ watch \subseteq Signed
    /\ fin \in [Handlers \X Txs -> {"none", "volume", "finalize", "credit", "flip"}]

ChainTypes ==
    /\ pool \subseteq Signed /\ IsFiniteSet(pool)
    /\ hidden \subseteq Signed
    /\ mined \subseteq Receipt /\ IsFiniteSet(mined)

EnvTypes == refused \subseteq Txs /\ verified \in BOOLEAN /\ losses \in Nat

(* A delivery that is under way has a row, and from its signature on a     *)
(* transaction of that row; a job BullMQ may deliver has an attempt left,  *)
(* and only an active one is owned.                                        *)
Deliveries ==
    /\ \A w \in Workers :
          /\ at[w].pc # "idle" => at[w].tx \in Txs
          /\ at[w].pc \in Carrying => at[w].hash \in Signed /\ at[w].hash.tx = at[w].tx
    /\ \A t \in Txs :
          /\ bull[t].state \in {"waiting", "active"} => bull[t].made < MaxAttempts
          /\ bull[t].owner # NoWorker => bull[t].state = "active"

Types == RowTypes /\ QueueTypes /\ WatchTypes /\ ChainTypes /\ EnvTypes /\ Deliveries

(* Each transaction is mined once: what is mined next has a new nonce. *)
MinedOnce ==
    /\ \A m \in mined : m.hash.nonce < AccountNonce
    /\ \A m, n \in mined : m.hash = n.hash => m = n

(* What was sent or is about to be: all that the chain may ever hold. *)
InFlight == {at[w].hash : w \in {v \in Workers : at[v].pc \in {"send", "record"}}}
Wire     == pool \cup hidden \cup MinedHashes \cup InFlight

(* Nothing is on the wire that its row was not stamped with before; with   *)
(* one attempt made, that attempt is all there is.                         *)
Stamps ==
    \A h \in Wire :
        /\ row[h.tx].broadcastAttempts >= 1
        /\ row[h.tx].broadcastAttempts = 1 => h = row[h.tx].broadcastTxHash

(* What the columns of one row say of each other, and of the chain. *)
Columns(t) ==
    LET r == row[t]
    IN  /\ r.broadcastTxHash = NoHash <=> r.broadcastAttempts = 0
        /\ r.txHash # NoHash => /\ r.broadcastAttempts >= 1
                                /\ r.broadcastAttempts = 1 => r.txHash = r.broadcastTxHash
        /\ r.status = "QUEUED" => r.txHash = NoHash
        /\ r.status \in {"SUBMITTED", "CONFIRMED", "REVERTED"} => r.txHash # NoHash
        /\ r.status = "FAILED" /\ r.txHash = NoHash => r.broadcastAttempts = 0
        /\ r.status = "CONFIRMED" => \E m \in mined : m.hash = r.txHash /\ m.ok
        /\ r.status = "REVERTED" => \E m \in mined : m.hash = r.txHash /\ ~m.ok
        /\ r.volume = "COMMITTED" => r.status = "CONFIRMED"
        /\ r.volume = "RELEASED" => \/ r.status = "REVERTED" /\ r.broadcastAttempts <= 1
                                    \/ r.status = "FAILED" /\ r.broadcastAttempts = 0

Watched == \A h \in watch : row[h.tx].txHash = h

Attempts == MinedOnce /\ Stamps /\ (\A t \in Txs : Columns(t)) /\ Watched

(* What was finalized follows an outcome, and that outcome is final. *)
Lost == {"FAILED", "REVERTED"}
Handled ==
    \A t \in Txs :
        /\ \A p \in Handlers : /\ fin[<<p, t>>] # "none" => row[t].status \in Settled
                               /\ fin[<<p, t>>] = "credit" => row[t].status = "CONFIRMED"
        /\ t \in A2A =>
              /\ job[t] = "PAYMENT_FAILED" \/ reservation[t] = "CANCELLED" => row[t].status \in Lost
              /\ job[t] = "COMPLETED" \/ reservation[t] = "RELEASED" => row[t].status = "CONFIRMED"

(* The timely case: the lane is held by whoever is in it, and the attempt  *)
(* recorded last is the only one of its row the chain holds or will hold.  *)
OneInLane == \A w \in Workers : at[w].pc \in InLane <=> lane = w

(* The attempt of w may be stamped: the one before it is unknown.          *)
Fresh(w) == LET last == row[at[w].tx].broadcastTxHash
            IN  last \in {NoHash, at[w].hash} \/ ~Known(last)

LastAttempt ==
    /\ hidden = {}
    /\ \A h \in pool \cup MinedHashes : h = row[h.tx].broadcastTxHash
    /\ \A w \in Workers :
          /\ at[w].pc = "send"   => at[w].hash = row[at[w].tx].broadcastTxHash
          /\ at[w].pc = "record" => Known(at[w].hash)
          /\ at[w].pc = "stamp"  => Fresh(w)
    /\ \A t \in Txs :
          /\ row[t].txHash # NoHash => row[t].txHash = row[t].broadcastTxHash
          /\ row[t].status = "FAILED" =>
                /\ \A h \in pool \cup MinedHashes : h.tx # t
                /\ \A w \in Workers : at[w].pc = "send" => at[w].tx # t

InTime == Timely => OneInLane /\ LastAttempt

(***************************************************************************)
(* The types.                                                              *)
(***************************************************************************)
(* The writes of a row make a row of the same kind. *)
LEMMA RowWrites ==
    ASSUME NEW t \in Txs, NEW r \in OwnRow(t)
    PROVE  /\ Stopped(r) \in OwnRow(t) /\ Stopped(r).kind = r.kind
           /\ \A h \in Own(t) :
                 /\ Stamped(r, h) \in OwnRow(t) /\ Stamped(r, h).kind = r.kind
                 /\ Submitted(r, h) \in OwnRow(t) /\ Submitted(r, h).kind = r.kind
           /\ \A st \in TxStatus : LET s == [r EXCEPT !.status = st]
                                    IN  s \in OwnRow(t) /\ s.kind = r.kind
           /\ LET s == [r EXCEPT !.volume = SettledVolume(r)]
              IN  s \in OwnRow(t) /\ s.kind = r.kind
  <1>1. Stopped(r) \in OwnRow(t) /\ Stopped(r).kind = r.kind
    BY DEF Stopped, OwnRow, TxRow, TxStatus
  <1>2. ASSUME NEW h \in Own(t)
        PROVE  Stamped(r, h) \in OwnRow(t) /\ Stamped(r, h).kind = r.kind
    <2>1. r.broadcastAttempts + 1 \in Nat
      BY DEF OwnRow, TxRow
    <2> DEFINE n == r.broadcastAttempts + 1
    <2>2. Stamped(r, h) = [r EXCEPT !.broadcastAttempts = n, !.broadcastTxHash = h]
      BY DEF Stamped, OwnRow, TxRow
    <2> HIDE DEF n
    <2>3. h \in Hashes
      BY DEF Hashes, Own
    <2> QED
      BY <2>1, <2>2, <2>3 DEF OwnRow, TxRow, n
  <1>3. ASSUME NEW h \in Own(t)
        PROVE  Submitted(r, h) \in OwnRow(t) /\ Submitted(r, h).kind = r.kind
    <2>1. h \in Hashes
      BY DEF Hashes, Own
    <2> QED
      BY <2>1 DEF Submitted, OwnRow, TxRow, TxStatus
  <1>4. ASSUME NEW st \in TxStatus
        PROVE  LET s == [r EXCEPT !.status = st] IN s \in OwnRow(t) /\ s.kind = r.kind
    BY DEF OwnRow, TxRow
  <1>5. LET s == [r EXCEPT !.volume = SettledVolume(r)] IN s \in OwnRow(t) /\ s.kind = r.kind
    <2>1. SettledVolume(r) \in Volumes
      BY DEF SettledVolume, OwnRow, TxRow, TxStatus, Volumes
    <2> QED
      BY <2>1 DEF OwnRow, TxRow
  <1> QED
    BY <1>1, <1>2, <1>3, <1>4, <1>5

(* Writing one row, of the same kind, changes no other and no A2A payment. *)
LEMMA RowUpdate ==
    ASSUME RowTypes, NEW t \in Txs, NEW r \in OwnRow(t), r.kind = row[t].kind,
           row' = [row EXCEPT ![t] = r]
    PROVE  /\ row' \in [Txs -> TxRow]
           /\ row'[t] = r
           /\ \A u \in Txs \ {t} : row'[u] = row[u]
           /\ A2A' = A2A
           /\ UNCHANGED <<job, reservation, credits>> => RowTypes'
  <1>1. /\ row' \in [Txs -> TxRow] /\ row'[t] = r
        /\ \A u \in Txs \ {t} : row'[u] = row[u]
    BY DEF RowTypes, OwnRow
  <1>2. A2A' = A2A
    BY <1>1 DEF A2A
  <1>3. \A u \in Txs : row'[u] \in OwnRow(u)
    BY <1>1 DEF RowTypes
  <1> QED
    BY <1>1, <1>2, <1>3 DEF RowTypes

(* A delivery that ends, is deferred or throws leaves its place. *)
LEMMA Leaving ==
    ASSUME QueueTypes, Deliveries, NEW w \in Workers, at[w].pc # "idle",
           Return(w) \/ Defer(w) \/ Throws(w)
    PROVE  /\ bull' \in [Txs -> BullJob] /\ at' \in [Workers -> Place]
           /\ Deliveries'
           /\ at'[w].pc \in {"idle", "failed"}
           /\ \A v \in Workers \ {w} : at'[v] = at[v]
           /\ Throws(w) => lane' \in Workers \cup {NoWorker}
  <1> DEFINE t == at[w].tx
  <1>1. t \in Txs /\ bull[t] \in BullJob
    BY DEF QueueTypes, Deliveries
  <1>2. PICK p \in Place :
            /\ at' = [at EXCEPT ![w] = p]
            /\ p.pc \in {"idle", "failed"} /\ (p.pc = "failed" => p.tx \in Txs)
    <2>1. Idle \in Place /\ [Idle EXCEPT !.pc = "failed", !.tx = t] \in Place
      BY <1>1 DEF Idle, Place, Places, Hashes
    <2>2. Idle.pc = "idle" /\ [Idle EXCEPT !.pc = "failed", !.tx = t].pc = "failed"
          /\ [Idle EXCEPT !.pc = "failed", !.tx = t].tx = t
      BY DEF Idle
    <2> QED
      BY <1>1, <2>1, <2>2 DEF Return, Defer, Throws
  <1>3. PICK b \in BullJob :
            /\ bull' = [bull EXCEPT ![t] = b]
            /\ b.state \in {"waiting", "active"} => b.made < MaxAttempts
            /\ b.owner # NoWorker => b.state = "active"
    <2>1. CASE ~Owns(w)
      <3>1. bull' = [bull EXCEPT ![t] = bull[t]]
        BY <2>1 DEF Return, Defer, Throws, QueueTypes
      <3> QED
        BY <1>1, <3>1 DEF Deliveries
    <2>2. CASE Owns(w)
      <3>1. bull[t].made \in 0..MaxAttempts /\ bull[t].made < MaxAttempts /\ MaxAttempts \in Nat
        BY <1>1, <2>2, PipelineAssumption DEF Owns, Deliveries, BullJob
      <3>2. CASE Return(w)
        <4> DEFINE b == [bull[t] EXCEPT !.state = "completed", !.owner = NoWorker]
        <4>1. b \in BullJob /\ b.state = "completed" /\ b.owner = NoWorker
          BY <1>1 DEF BullJob, BullStates
        <4>2. bull' = [bull EXCEPT ![t] = b]
          BY <1>1, <2>2, <3>2 DEF Return, QueueTypes, BullJob
        <4> QED
          BY <4>1, <4>2
      <3>3. CASE Defer(w)
        <4> DEFINE b == [bull[t] EXCEPT !.state = "waiting", !.owner = NoWorker]
        <4>1. /\ b \in BullJob /\ b.state = "waiting" /\ b.owner = NoWorker
              /\ b.made = bull[t].made
          BY <1>1 DEF BullJob, BullStates
        <4>2. bull' = [bull EXCEPT ![t] = b]
          BY <1>1, <2>2, <3>3 DEF Defer, QueueTypes, BullJob
        <4> QED
          BY <3>1, <4>1, <4>2
      <3>4. CASE Throws(w)
        <4> DEFINE last == bull[t].made + 1 >= MaxAttempts
                   n == bull[t].made + 1
                   b == [bull[t] EXCEPT !.made = n, !.owner = NoWorker,
                                        !.state = IF last THEN "failed" ELSE "waiting"]
        <4>0. n \in 0..MaxAttempts
          BY <3>1
        <4>1. /\ b \in BullJob /\ b.owner = NoWorker /\ b.made = n
              /\ b.state = IF last THEN "failed" ELSE "waiting"
          <5> HIDE DEF n, last
          <5> QED
            BY <1>1, <4>0 DEF BullJob, BullStates
        <4>2. bull' = [bull EXCEPT ![t] = b]
          BY <1>1, <2>2, <3>4 DEF Throws, QueueTypes, BullJob
        <4>3. b.state = "waiting" => b.made < MaxAttempts
          BY <3>1, <4>1
        <4> HIDE DEF b
        <4> QED
          BY <4>1, <4>2, <4>3
      <3> QED
        BY <3>2, <3>3, <3>4
    <2> QED
      BY <2>1, <2>2
  <1>4. /\ bull' \in [Txs -> BullJob] /\ at' \in [Workers -> Place]
        /\ at'[w] = p /\ \A v \in Workers \ {w} : at'[v] = at[v]
        /\ bull'[t] = b /\ \A u \in Txs \ {t} : bull'[u] = bull[u]
    BY <1>1, <1>2, <1>3 DEF QueueTypes
  <1>5. Deliveries'
    BY <1>2, <1>3, <1>4 DEF Deliveries, Carrying
  <1>6. Throws(w) => lane' \in Workers \cup {NoWorker}
    BY DEF Throws, FreeLane, QueueTypes
  <1> QED
    BY <1>2, <1>4, <1>5, <1>6

(* The pending count is a number: among the nonces from the account's on,  *)
(* one more than the nodes hold transactions, one is free.                 *)
LEMMA PendingIsNumber ==
    ASSUME ChainTypes
    PROVE  AccountNonce \in Nat /\ PendingCount \in Nat
  <1> DEFINE a == AccountNonce
             c == Cardinality(pool)
             Free == {n \in a..(a + c) : n \notin PoolNonces}
  <1>1. a \in Nat /\ c \in Nat
    BY FS_CardinalityType DEF ChainTypes, AccountNonce
  <1> HIDE DEF a, c
  <1>2. Free # {}
    <2> SUFFICES ASSUME \A n \in a..(a + c) : n \in PoolNonces PROVE FALSE
      OBVIOUS
    <2> DEFINE f == [n \in a..(a + c) |-> CHOOSE h \in pool : h.nonce = n]
    <2>1. \A n \in a..(a + c) : f[n] \in pool /\ f[n].nonce = n
      <3>1. \A n \in a..(a + c) : \E h \in pool : h.nonce = n
        BY DEF PoolNonces
      <3> QED
        BY <3>1
    <2> HIDE DEF f
    <2>2. f \in [a..(a + c) -> pool]
      <3>1. f = [n \in a..(a + c) |-> f[n]]
        BY DEF f
      <3> QED
        BY <2>1, <3>1
    <2>3. IsFiniteSet(a..(a + c)) /\ Cardinality(a..(a + c)) = c + 1
      BY <1>1, FS_Interval
    <2>4. \E x, y \in a..(a + c) : x # y /\ f[x] = f[y]
      <3>1. IsFiniteSet(pool) /\ Cardinality(pool) < Cardinality(a..(a + c))
        BY <1>1, <2>3 DEF ChainTypes, c
      <3> QED
        BY <2>2, <2>3, <3>1, FS_PigeonHole
    <2> QED
      BY <2>1, <2>4
  <1>3. PICK n \in Free : \A k \in Free : n <= k
    <2>1. Free \subseteq Nat
      BY <1>1
    <2> HIDE DEF Free
    <2> QED
      BY <1>2, <2>1, LeastNumber
  <1>4. \A k \in a..(n - 1) : k \in PoolNonces
    <2>1. ASSUME NEW k \in a..(n - 1), k \notin PoolNonces PROVE FALSE
      <3>1. k \in Free /\ ~ (n <= k)
        BY <1>1, <1>3, <2>1
      <3> QED
        BY <1>3, <3>1
    <2> QED
      BY <2>1
  <1>5. PendingCount \in a..(a + c)
    <2>1. /\ n \in a..(a + c) /\ n \notin PoolNonces
          /\ \A k \in a..(n - 1) : k \in PoolNonces
      BY <1>3, <1>4
    <2>2. PendingCount = CHOOSE m \in a..(a + c) :
                            /\ m \notin PoolNonces
                            /\ \A k \in a..(m - 1) : k \in PoolNonces
      BY DEF PendingCount, a, c
    <2> QED
      BY <2>1, <2>2
  <1> QED
    BY <1>1, <1>5 DEF a

(* The steps of observers, ticks, BullMQ and operators, and of nobody. *)
Bystander ==
    \/ \E h \in watch : Monitor(h) \/ LoseMonitor(h)
    \/ \E t \in Txs : \/ SettleVolume(t) \/ Tick(t) \/ Stall(t) \/ Refuse(t)
                     \/ \E p \in Handlers : Handle(p, t) \/ LoseHandler(p, t)
    \/ Verify \/ UNCHANGED txVars

(* They leave the deliveries, the wallet's lane and the chain alone. *)
LEMMA BystandersKeep ==
    ASSUME Bystander
    PROVE  UNCHANGED <<at, lane>> /\ UNCHANGED chainVars
  <1>1. ASSUME NEW h \in watch, Monitor(h) \/ LoseMonitor(h)
        PROVE  UNCHANGED <<at, lane>> /\ UNCHANGED chainVars
    BY <1>1 DEF Monitor, LoseMonitor, queueVars
  <1>2. ASSUME NEW t \in Txs, Tick(t) PROVE UNCHANGED <<at, lane>> /\ UNCHANGED chainVars
    BY <1>2 DEF Tick, Repoll, Scan, SweepVolume, SweepStranded, queueVars
  <1>3. ASSUME NEW t \in Txs, SettleVolume(t) \/ Stall(t) \/ Refuse(t)
        PROVE  UNCHANGED <<at, lane>> /\ UNCHANGED chainVars
    BY <1>3 DEF SettleVolume, Stall, Refuse, queueVars
  <1>4. ASSUME NEW t \in Txs, NEW p \in Handlers, Handle(p, t) \/ LoseHandler(p, t)
        PROVE  UNCHANGED <<at, lane>> /\ UNCHANGED chainVars
    BY <1>4 DEF Handle, Finalize, Credit, Flip, LoseHandler, queueVars
  <1>5. CASE Verify \/ UNCHANGED txVars
    BY <1>5 DEF Verify, txVars, queueVars
  <1> QED
    BY <1>1, <1>2, <1>3, <1>4, <1>5 DEF Bystander

(* What a step does not touch keeps its type. *)
LEMMA SameTypes ==
    ASSUME Types
    PROVE  /\ UNCHANGED dbVars => RowTypes' /\ A2A' = A2A
           /\ UNCHANGED <<bull, at>> => Deliveries'
           /\ UNCHANGED queueVars => QueueTypes' /\ Deliveries'
           /\ UNCHANGED watchVars => WatchTypes'
           /\ UNCHANGED chainVars => ChainTypes'
           /\ UNCHANGED envVars => EnvTypes'
  <1>1. UNCHANGED dbVars => RowTypes' /\ A2A' = A2A
    BY DEF Types, dbVars, RowTypes, A2A
  <1>2. UNCHANGED <<bull, at>> => Deliveries'
    BY DEF Types, Deliveries
  <1>3. UNCHANGED queueVars => QueueTypes' /\ Deliveries'
    BY <1>2 DEF Types, queueVars, QueueTypes
  <1>4. UNCHANGED watchVars => WatchTypes'
    BY DEF Types, watchVars, WatchTypes
  <1>5. UNCHANGED chainVars => ChainTypes'
    BY DEF Types, chainVars, ChainTypes
  <1>6. UNCHANGED envVars => EnvTypes'
    BY DEF Types, envVars, EnvTypes
  <1> QED
    BY <1>1, <1>2, <1>3, <1>4, <1>5, <1>6

(* A row is stopped, and its outcome is left to handle if that made it FAILED. *)
LEMMA StopRowTypes ==
    ASSUME Types, NEW t \in Txs, StopRow(t), UNCHANGED <<job, reservation, credits, watch>>
    PROVE  RowTypes' /\ WatchTypes'
  <1>1. row[t] \in OwnRow(t) /\ Stopped(row[t]) \in OwnRow(t) /\ Stopped(row[t]).kind = row[t].kind
    BY RowWrites DEF Types, RowTypes
  <1>2. row' = [row EXCEPT ![t] = Stopped(row[t])]
    BY DEF StopRow, Types, RowTypes
  <1>3. RowTypes'
    BY <1>1, <1>2, RowUpdate DEF Types
  <1>4. WatchTypes'
    BY DEF StopRow, Types, WatchTypes
  <1> QED
    BY <1>3, <1>4

(* The moves of a delivery. *)
LEMMA DeliverTypes ==
    ASSUME Types, NEW w \in Workers, Deliver(w)
    PROVE  Types'
  <1> DEFINE t == at[w].tx
  <1> USE DEF Types
  <1>0. t \in Txs /\ row[t] \in OwnRow(t) /\ Row(w) = row[t] /\ at[w].pc # "idle"
        /\ at[w] \in Place
    <2>1. at[w].pc # "idle"
      BY DEF Deliver, Guard, Block, Acquire, SignTx, Check, Stamp, SendOk, SendFails,
             Record, Error, FailedHandler
    <2> QED
      BY <2>1 DEF Deliveries, QueueTypes, RowTypes, Row
  <1>1. \A pc \in Places \ Carrying : Goto(w, pc) =>
            /\ at' \in [Workers -> Place]
            /\ UNCHANGED bull => Deliveries'
    <2> SUFFICES ASSUME NEW pc \in Places \ Carrying, Goto(w, pc)
                 PROVE  at' \in [Workers -> Place] /\ (UNCHANGED bull => Deliveries')
      OBVIOUS
    <2> DEFINE p == [at[w] EXCEPT !.pc = pc]
    <2>1. p \in Place /\ p.pc = pc /\ p.tx = t
      BY <1>0 DEF Place
    <2>2. /\ at' \in [Workers -> Place] /\ at'[w] = p
          /\ \A v \in Workers \ {w} : at'[v] = at[v]
      BY <1>0, <2>1 DEF Goto, QueueTypes
    <2> HIDE DEF p
    <2> QED
      BY <1>0, <2>1, <2>2 DEF Deliveries
  <1>2. \A pc \in Places, h \in Signed :
            /\ at' = [at EXCEPT ![w].pc = pc, ![w].hash = h]
            /\ h.tx = t
            => /\ at' \in [Workers -> Place]
               /\ UNCHANGED bull => Deliveries'
    <2> SUFFICES ASSUME NEW pc \in Places, NEW h \in Signed, h.tx = t,
                        at' = [at EXCEPT ![w].pc = pc, ![w].hash = h]
                 PROVE  at' \in [Workers -> Place] /\ (UNCHANGED bull => Deliveries')
      OBVIOUS
    <2> DEFINE p == [at[w] EXCEPT !.pc = pc, !.hash = h]
    <2>1. p \in Place /\ p.pc = pc /\ p.tx = t /\ p.hash = h
      BY <1>0 DEF Place, Hashes
    <2>2. /\ at' \in [Workers -> Place] /\ at'[w] = p
          /\ \A v \in Workers \ {w} : at'[v] = at[v]
      BY <1>0, <2>1 DEF QueueTypes
    <2> QED
      BY <1>0, <2>1, <2>2 DEF Deliveries
  <1>3. at[w].pc \in Carrying => at[w].hash \in Signed /\ at[w].hash.tx = t
    BY DEF Deliveries
  <1>4. \A pc \in Carrying : Goto(w, pc) /\ at[w].pc \in Carrying =>
            /\ at' \in [Workers -> Place]
            /\ UNCHANGED bull => Deliveries'
    <2> SUFFICES ASSUME NEW pc \in Carrying, Goto(w, pc), at[w].pc \in Carrying
                 PROVE  at' \in [Workers -> Place] /\ (UNCHANGED bull => Deliveries')
      OBVIOUS
    <2>1. at' = [at EXCEPT ![w].pc = pc, ![w].hash = at[w].hash]
      BY <1>0 DEF Goto, QueueTypes, Place
    <2>2. pc \in Places
      BY DEF Carrying, Places, InLane
    <2> QED
      BY <1>2, <1>3, <2>1, <2>2
  <1>5. FreeLane(w) \in Workers \cup {NoWorker}
    BY DEF FreeLane, QueueTypes
  <1>6. CASE Guard(w)
    <2>1. UNCHANGED <<dbVars, lane, lastUsed, watchVars, chainVars, envVars>>
      BY <1>6 DEF Guard
    <2>2. at' \in [Workers -> Place] /\ bull' \in [Txs -> BullJob] /\ Deliveries'
      <3>1. CASE Return(w) \/ Defer(w)
        BY <1>0, <3>1, Leaving
      <3>2. CASE (Goto(w, "block") \/ Goto(w, "lane")) /\ UNCHANGED bull
        BY <1>1, <3>2 DEF Places, Carrying, InLane, QueueTypes
      <3> QED
        BY <1>6, <3>1, <3>2 DEF Guard
    <2> QED
      BY <2>1, <2>2, SameTypes DEF QueueTypes
  <1>7. CASE Block(w)
    <2>1. at' \in [Workers -> Place] /\ bull' \in [Txs -> BullJob] /\ Deliveries'
      BY <1>0, <1>7, Leaving DEF Block
    <2>2. RowTypes' /\ WatchTypes'
      BY <1>0, <1>7, StopRowTypes DEF Block
    <2> QED
      BY <1>7, <2>1, <2>2, SameTypes DEF Block, QueueTypes
  <1>8. CASE Acquire(w)
    <2>1. at' \in [Workers -> Place] /\ Deliveries'
      BY <1>1, <1>8 DEF Acquire, Places, Carrying, InLane
    <2> QED
      BY <1>8, <2>1, SameTypes DEF Acquire, QueueTypes
  <1>9. CASE SignTx(w)
    <2>1. PICK pending \in AccountNonce..PendingCount, last \in {-1, lastUsed}, price \in Prices :
              LET nonce == IF last + 1 > pending THEN last + 1 ELSE pending
              IN  at' = [at EXCEPT ![w].pc = "check",
                               ![w].hash = [tx |-> t, nonce |-> nonce, price |-> price]]
      BY <1>9 DEF SignTx
    <2> DEFINE nonce == IF last + 1 > pending THEN last + 1 ELSE pending
               h == [tx |-> t, nonce |-> nonce, price |-> price]
    <2>2. nonce \in Nat
      BY PendingIsNumber DEF QueueTypes
    <2>3. h \in Signed /\ h.tx = t
      BY <1>0, <2>2 DEF Signed
    <2>4. at' = [at EXCEPT ![w].pc = "check", ![w].hash = h]
      BY <2>1
    <2> HIDE DEF h
    <2>5. at' \in [Workers -> Place] /\ Deliveries'
      BY <1>2, <1>9, <2>3, <2>4 DEF SignTx, Places, InLane
    <2> QED
      BY <1>9, <2>5, SameTypes DEF SignTx, QueueTypes
  <1>10. CASE Check(w)
    <2>1. at' \in [Workers -> Place] /\ Deliveries'
      <3>1. CASE Goto(w, "stamp")
        BY <1>4, <1>10, <3>1 DEF Check, Carrying
      <3>2. CASE ~Goto(w, "stamp")
        <4> DEFINE earlier == row[t].broadcastTxHash
        <4>1. /\ Known(earlier)
              /\ at' = [at EXCEPT ![w].pc = "record", ![w].hash = earlier]
          BY <1>0, <1>10, <3>2 DEF Check
        <4>2. earlier \in Own(t)
          BY <1>0, <1>10, <3>2 DEF Check, OwnRow
        <4> QED
          BY <1>2, <1>10, <4>1, <4>2 DEF Check, Places, Own
      <3> QED
        BY <3>1, <3>2
    <2> QED
      BY <1>5, <1>10, <2>1, SameTypes DEF Check, QueueTypes
  <1>11. CASE Stamp(w)
    <2>1. CASE t \in PolicySyncs \cap refused
      <3>1. row' = [row EXCEPT ![t] = Stopped(row[t])] /\ Return(w) /\ lane' = FreeLane(w)
        BY <1>0, <1>11, <2>1 DEF Stamp, RowTypes
      <3>2. RowTypes'
        BY <1>0, <1>11, <3>1, RowWrites, RowUpdate DEF Stamp
      <3> QED
        BY <1>0, <1>5, <1>11, <3>1, <3>2, Leaving, SameTypes DEF Stamp, QueueTypes
    <2>2. CASE Defer(w) /\ lane' = FreeLane(w) /\ UNCHANGED row
      <3>1. UNCHANGED dbVars
        BY <1>11, <2>2 DEF Stamp, dbVars
      <3> QED
        BY <1>0, <1>5, <1>11, <2>2, <3>1, Leaving, SameTypes DEF Stamp, QueueTypes
    <2>3. CASE row' = [row EXCEPT ![t] = Stamped(@, at[w].hash)] /\ Goto(w, "send")
               /\ UNCHANGED <<bull, lane>>
      <3>1. at[w].hash \in Own(t)
        BY <1>3, <1>11 DEF Stamp, Carrying, Own
      <3>2. row' = [row EXCEPT ![t] = Stamped(row[t], at[w].hash)]
        BY <1>0, <2>3 DEF RowTypes
      <3>3. RowTypes'
        BY <1>0, <1>11, <3>1, <3>2, RowWrites, RowUpdate DEF Stamp
      <3>4. at' \in [Workers -> Place] /\ Deliveries'
        BY <1>4, <1>11, <2>3 DEF Stamp, Carrying
      <3> QED
        BY <1>11, <2>3, <3>3, <3>4, SameTypes DEF Stamp, QueueTypes
    <2>4. CASE Throws(w) /\ UNCHANGED row
      <3>1. UNCHANGED dbVars
        BY <1>11, <2>4 DEF Stamp, dbVars
      <3> QED
        BY <1>0, <1>11, <2>4, <3>1, Leaving, SameTypes DEF Stamp, QueueTypes
    <2> QED
      BY <1>11, <2>1, <2>2, <2>3, <2>4 DEF Stamp
  <1>12. \A h \in Signed : Accepted(h) /\ UNCHANGED <<hidden, mined>> => ChainTypes'
    BY FS_AddElement DEF Accepted, ChainTypes
  <1>13. CASE SendOk(w)
    <2>1. at[w].hash \in Signed
      BY <1>3, <1>13 DEF SendOk, Carrying
    <2>2. ChainTypes'
      BY <1>12, <1>13, <2>1 DEF SendOk, ChainTypes
    <2>3. at' \in [Workers -> Place] /\ Deliveries'
      BY <1>4, <1>13 DEF SendOk, Carrying
    <2>4. lastUsed' \in Nat \cup {-1}
      BY <1>13, <2>1 DEF SendOk, QueueTypes, Signed
    <2> QED
      BY <1>5, <1>13, <2>2, <2>3, <2>4, SameTypes DEF SendOk, QueueTypes
  <1>14. CASE SendFails(w)
    <2>1. at[w].hash \in Signed
      BY <1>3, <1>14 DEF SendFails, Carrying
    <2>2. ChainTypes'
      BY <1>12, <1>14, <2>1 DEF SendFails, ChainTypes
    <2> QED
      BY <1>0, <1>14, <2>2, Leaving, SameTypes DEF SendFails, QueueTypes
  <1>15. CASE Record(w)
    <2>1. at[w].hash \in Signed /\ at[w].hash \in Own(t)
      BY <1>3, <1>15 DEF Record, Carrying, Own
    <2>2. row' = [row EXCEPT ![t] = Submitted(row[t], at[w].hash)]
      <3>1. row' = [row EXCEPT ![t] = Submitted(@, at[w].hash)]
        BY <1>15 DEF Record
      <3> QED
        BY <1>0, <3>1 DEF RowTypes
    <2>3. RowTypes'
      <3>1. UNCHANGED <<job, reservation, credits>>
        BY <1>15 DEF Record
      <3> QED
        BY <1>0, <2>1, <2>2, <3>1, RowWrites, RowUpdate
    <2>4. WatchTypes'
      BY <1>15, <2>1 DEF Record, WatchTypes
    <2> QED
      BY <1>0, <1>15, <2>3, <2>4, Leaving, SameTypes DEF Record, QueueTypes
  <1>16. CASE Error(w)
    BY <1>0, <1>16, Leaving, SameTypes DEF Error, QueueTypes
  <1>17. CASE FailedHandler(w)
    <2>1. RowTypes' /\ WatchTypes'
      BY <1>0, <1>17, StopRowTypes DEF FailedHandler
    <2>2. at' \in [Workers -> Place] /\ Deliveries'
      <3>1. Idle \in Place /\ Idle.pc = "idle"
        BY DEF Idle, Place, Places, Hashes
      <3> QED
        BY <1>17, <3>1 DEF FailedHandler, QueueTypes, Deliveries, Carrying
    <2> QED
      BY <1>17, <2>1, <2>2, SameTypes DEF FailedHandler, QueueTypes
  <1> QED
    BY <1>6, <1>7, <1>8, <1>9, <1>10, <1>11, <1>13, <1>14, <1>15, <1>16, <1>17 DEF Deliver

(* Writing down an outcome. *)
LEMMA ObserveTypes ==
    ASSUME Types, NEW t \in Txs, NEW st \in TxStatus,
           row' = [row EXCEPT ![t].status = st],
           fin' = [fin EXCEPT ![<<"observer", t>>] = "volume"],
           UNCHANGED <<job, reservation, credits>>
    PROVE  RowTypes' /\ fin' \in [Handlers \X Txs -> {"none", "volume", "finalize", "credit", "flip"}]
  <1>1. row[t] \in OwnRow(t)
    BY DEF Types, RowTypes
  <1> DEFINE s == [row[t] EXCEPT !.status = st]
  <1>2. row' = [row EXCEPT ![t] = s]
    BY DEF Types, RowTypes
  <1>3. s \in OwnRow(t) /\ s.kind = row[t].kind
    BY <1>1, RowWrites
  <1> HIDE DEF s
  <1>4. RowTypes'
    BY <1>2, <1>3, RowUpdate DEF Types
  <1> QED
    BY <1>4 DEF Types, WatchTypes

(* Settling the volume of a row. *)
LEMMA VolumeTypes ==
    ASSUME Types, NEW t \in Txs, row' = [row EXCEPT ![t].volume = SettledVolume(row[t])],
           UNCHANGED <<job, reservation, credits>>
    PROVE  RowTypes'
  <1>1. row[t] \in OwnRow(t)
    BY DEF Types, RowTypes
  <1>2. row' = [row EXCEPT ![t] = [row[t] EXCEPT !.volume = SettledVolume(row[t])]]
    BY DEF Types, RowTypes
  <1> QED
    BY <1>1, <1>2, RowWrites, RowUpdate DEF Types

(* What follows an outcome. *)
LEMMA HandleTypes ==
    ASSUME Types, NEW p \in Handlers, NEW t \in Txs,
           (p = "observer" /\ SettleVolume(t)) \/ Handle(p, t)
    PROVE  Types'
  <1> USE DEF Types
  <1>1. \A pc \in {"none", "volume", "finalize", "credit", "flip"} :
            Step(p, t, pc) /\ UNCHANGED watch => WatchTypes'
    BY DEF Step, WatchTypes
  <1>2. CASE SettleVolume(t) /\ p = "observer"
    <2>1. WatchTypes'
      BY <1>1, <1>2 DEF SettleVolume
    <2>2. RowTypes'
      <3>1. CASE row' = [row EXCEPT ![t].volume = SettledVolume(row[t])]
        BY <1>2, <3>1, VolumeTypes DEF SettleVolume
      <3>2. CASE UNCHANGED row
        BY <1>2, <3>2, SameTypes DEF SettleVolume, dbVars
      <3> QED
        BY <1>2, <3>1, <3>2 DEF SettleVolume
    <2>3. EnvTypes'
      BY <1>2 DEF SettleVolume, EnvTypes
    <2> QED
      BY <1>2, <2>1, <2>2, <2>3, SameTypes DEF SettleVolume
  <1>3. CASE Finalize(p, t)
    <2>1. WatchTypes'
      BY <1>1, <1>3 DEF Finalize
    <2>2. RowTypes'
      BY <1>3 DEF Finalize, RowTypes, A2A
    <2> QED
      BY <1>3, <2>1, <2>2, SameTypes DEF Finalize
  <1>4. CASE Credit(p, t)
    <2>1. WatchTypes'
      BY <1>1, <1>4 DEF Credit
    <2>2. RowTypes'
      <3>1. credits' = [credits EXCEPT ![t] = credits[t] + 1] /\ UNCHANGED <<row, job, reservation>>
        BY <1>4 DEF Credit
      <3>2. credits' \in [A2A -> Nat]
        <4>1. t \in A2A => credits[t] + 1 \in Nat
          BY DEF RowTypes
        <4> DEFINE n == credits[t] + 1
        <4> HIDE DEF n
        <4> QED
          BY <3>1, <4>1 DEF RowTypes, n
      <3>3. A2A' = A2A
        BY <3>1 DEF A2A
      <3> QED
        BY <3>1, <3>2, <3>3 DEF RowTypes
    <2> QED
      BY <1>4, <2>1, <2>2, SameTypes DEF Credit
  <1>5. CASE Flip(p, t)
    <2>1. WatchTypes'
      BY <1>1, <1>5 DEF Flip
    <2>2. RowTypes'
      BY <1>5 DEF Flip, RowTypes, A2A
    <2> QED
      BY <1>5, <2>1, <2>2, SameTypes DEF Flip
  <1> QED
    BY <1>2, <1>3, <1>4, <1>5 DEF Handle

(* The recovery tick. *)
LEMMA TickTypes ==
    ASSUME Types, NEW t \in Txs, Tick(t)
    PROVE  Types'
  <1> USE DEF Types
  <1>1. CASE Repoll(t)
    <2>1. RowTypes' /\ WatchTypes'
      <3>1. PICK st \in TxStatus : /\ row' = [row EXCEPT ![t].status = st]
                                   /\ fin' = [fin EXCEPT ![<<"observer", t>>] = "volume"]
        BY <1>1 DEF Repoll, Observe, Outcome, TxStatus
      <3> QED
        BY <1>1, <3>1, ObserveTypes DEF Repoll, WatchTypes
    <2> QED
      BY <1>1, <2>1, SameTypes DEF Repoll
  <1>2. CASE Scan(t)
    <2>1. WatchTypes'
      BY <1>2 DEF Scan, Step, WatchTypes, Handlers
    <2> QED
      BY <1>2, <2>1, SameTypes DEF Scan
  <1>3. CASE SweepVolume(t)
    BY <1>3, VolumeTypes, SameTypes DEF SweepVolume
  <1>4. CASE SweepStranded(t)
    <2>1. CASE StopRow(t) /\ UNCHANGED bull
      BY <1>4, <2>1, StopRowTypes, SameTypes DEF SweepStranded, QueueTypes
    <2>2. CASE ~ (StopRow(t) /\ UNCHANGED bull)
      <3> DEFINE b == [state |-> "waiting", made |-> 0, stalled |-> FALSE, owner |-> NoWorker]
      <3>1. /\ bull' = [bull EXCEPT ![t] = b]
            /\ UNCHANGED <<row, fin, job, reservation, credits, at, lane, lastUsed, watch,
                           chainVars, envVars>>
        BY <1>4, <2>2 DEF SweepStranded
      <3>2. b \in BullJob /\ b.made < MaxAttempts /\ b.owner = NoWorker
        BY PipelineAssumption DEF BullJob, BullStates
      <3> HIDE DEF b
      <3>3. bull' \in [Txs -> BullJob] /\ Deliveries'
        BY <3>1, <3>2 DEF QueueTypes, Deliveries
      <3> QED
        BY <3>1, <3>3, SameTypes DEF QueueTypes, dbVars, watchVars
    <2> QED
      BY <2>1, <2>2
  <1> QED
    BY <1>1, <1>2, <1>3, <1>4 DEF Tick

(* The queue takes and stalls jobs, a monitor sees a receipt. *)
LEMMA QueueStepTypes ==
    ASSUME Types, NEW t \in Txs,
           \/ \E w \in Workers : Take(w, t)
           \/ Stall(t)
           \/ \E h \in watch : Monitor(h)
    PROVE  Types'
  <1> USE DEF Types
  <1>1. ASSUME NEW w \in Workers, Take(w, t) PROVE Types'
    <2> DEFINE p == [pc |-> "guard", tx |-> t, hash |-> NoHash]
               b == [bull[t] EXCEPT !.state = "active", !.owner = w]
    <2>1. p \in Place /\ p.pc = "guard" /\ p.tx = t
      BY DEF Place, Places, Hashes
    <2>2. b \in BullJob /\ b.state = "active" /\ b.made = bull[t].made
      BY DEF QueueTypes, BullJob, BullStates
    <2>3. at' = [at EXCEPT ![w] = p] /\ bull' = [bull EXCEPT ![t] = b]
      BY <1>1 DEF Take, QueueTypes, BullJob
    <2> HIDE DEF p, b
    <2>4. at' \in [Workers -> Place] /\ bull' \in [Txs -> BullJob] /\ Deliveries'
      <3>1. bull[t].state = "waiting"
        BY <1>1 DEF Take
      <3> QED
        BY <2>1, <2>2, <2>3, <3>1 DEF QueueTypes, Deliveries, Carrying
    <2> QED
      BY <1>1, <2>4, SameTypes DEF Take, QueueTypes
  <1>2. CASE Stall(t)
    <2> DEFINE b == [bull[t] EXCEPT !.owner = NoWorker, !.stalled = TRUE,
                                    !.state = IF bull[t].stalled THEN "failed" ELSE "waiting"]
    <2>1. /\ b \in BullJob /\ b.made = bull[t].made /\ b.owner = NoWorker
          /\ bull' = [bull EXCEPT ![t] = b]
      BY <1>2 DEF Stall, QueueTypes, BullJob, BullStates
    <2> HIDE DEF b
    <2>2. b.made < MaxAttempts
      BY <1>2, <2>1 DEF Stall, Deliveries
    <2>3. /\ bull' \in [Txs -> BullJob] /\ bull'[t] = b
          /\ \A u \in Txs \ {t} : bull'[u] = bull[u]
      BY <2>1 DEF QueueTypes
    <2>4. UNCHANGED at
      BY <1>2 DEF Stall
    <2>5. Deliveries'
      BY <2>1, <2>2, <2>3, <2>4 DEF Deliveries
    <2> QED
      BY <1>2, <2>3, <2>5, SameTypes DEF Stall, QueueTypes
  <1>3. ASSUME NEW h \in watch, Monitor(h) PROVE Types'
    <2>1. h.tx \in Txs
      BY DEF WatchTypes, Signed
    <2>2. RowTypes' /\ WatchTypes'
      <3>1. CASE UNCHANGED <<row, fin>>
        BY <1>3, <3>1, SameTypes DEF Monitor, dbVars, WatchTypes
      <3>2. CASE ~ UNCHANGED <<row, fin>>
        <4>1. PICK st \in TxStatus : /\ row' = [row EXCEPT ![h.tx].status = st]
                                     /\ fin' = [fin EXCEPT ![<<"observer", h.tx>>] = "volume"]
          BY <1>3, <3>2 DEF Monitor, Observe, Outcome, TxStatus
        <4> QED
          BY <1>3, <2>1, <4>1, ObserveTypes DEF Monitor, WatchTypes
      <3> QED
        BY <3>1, <3>2
    <2> QED
      BY <1>3, <2>2, SameTypes DEF Monitor
  <1> QED
    BY <1>1, <1>2, <1>3

(* The chain, and everything that dies, lapses or changes around the rows. *)
LEMMA EnvironmentTypes ==
    ASSUME Types, Chain \/ Deaths \/ LaneLapse \/ Verify \/ \E t \in Txs : Refuse(t)
    PROVE  Types'
  <1> USE DEF Types
  <1>1. ASSUME NEW h \in pool, Evict(h) PROVE Types'
    <2>1. ChainTypes'
      BY <1>1, FS_RemoveElement DEF Evict, ChainTypes
    <2> QED
      BY <1>1, <2>1, SameTypes DEF Evict
  <1>2. ASSUME NEW h \in pool, NEW ok \in BOOLEAN, Mine(h, ok) PROVE Types'
    <2>1. IsFiniteSet(pool') /\ IsFiniteSet(mined')
      <3>1. pool' \in SUBSET pool
        BY <1>2 DEF Mine
      <3> QED
        BY <1>2, <3>1, FS_Subset, FS_AddElement DEF Mine, ChainTypes
    <2>2. ChainTypes'
      BY <1>2, <2>1 DEF Mine, ChainTypes, Receipt
    <2> QED
      BY <1>2, <2>2, SameTypes DEF Mine
  <1>3. ASSUME NEW h \in hidden, Surface(h) PROVE Types'
    <2>1. ChainTypes'
      BY <1>3, FS_AddElement DEF Surface, ChainTypes
    <2> QED
      BY <1>3, <2>1, SameTypes DEF Surface
  <1>4. Die => EnvTypes'
    BY DEF Die, EnvTypes
  <1>5. ASSUME NEW w \in Workers, Crash(w) PROVE Types'
    <2>1. Idle \in Place /\ Idle.pc = "idle"
      BY DEF Idle, Place, Places, Hashes
    <2>2. at' \in [Workers -> Place] /\ Deliveries' /\ lane' \in Workers \cup {NoWorker}
      BY <1>5, <2>1 DEF Crash, QueueTypes, Deliveries, Carrying
    <2> QED
      BY <1>4, <1>5, <2>2, SameTypes DEF Crash, QueueTypes
  <1>6. ASSUME NEW h \in watch, LoseMonitor(h) PROVE Types'
    <2>1. WatchTypes'
      BY <1>6 DEF LoseMonitor, WatchTypes
    <2> QED
      BY <1>4, <1>6, <2>1, SameTypes DEF LoseMonitor
  <1>7. ASSUME NEW p \in Handlers, NEW t \in Txs, LoseHandler(p, t) PROVE Types'
    <2>1. WatchTypes'
      BY <1>7 DEF LoseHandler, Step, WatchTypes
    <2> QED
      BY <1>4, <1>7, <2>1, SameTypes DEF LoseHandler
  <1>8. CASE LaneLapse
    BY <1>8, SameTypes DEF LaneLapse, QueueTypes
  <1>9. CASE Verify
    BY <1>9, SameTypes DEF Verify, EnvTypes
  <1>10. ASSUME NEW t \in Txs, Refuse(t) PROVE Types'
    BY <1>10, SameTypes, PipelineAssumption DEF Refuse, EnvTypes
  <1> QED
    BY <1>1, <1>2, <1>3, <1>5, <1>6, <1>7, <1>8, <1>9, <1>10 DEF Chain, Deaths

(* Every step keeps the types. *)
LEMMA NextTypes == Types /\ [TxNext]_txVars => Types'
  <1> SUFFICES ASSUME Types, [TxNext]_txVars PROVE Types'
    OBVIOUS
  <1>1. CASE UNCHANGED txVars
    BY <1>1, SameTypes DEF txVars, Types
  <1>2. CASE TxNext
    <2>1. CASE \E w \in Workers : Deliver(w)
      BY <2>1, DeliverTypes
    <2>2. CASE \/ \E w \in Workers, t \in Txs : Take(w, t)
               \/ \E t \in Txs : Stall(t)
      BY <2>2, QueueStepTypes
    <2>3. CASE \E h \in watch : Monitor(h)
      <3>1. \E t \in Txs : TRUE
        BY <2>3 DEF Types, WatchTypes, Signed
      <3> QED
        BY <2>3, <3>1, QueueStepTypes
    <2>4. CASE \E t \in Txs : SettleVolume(t) \/ \E p \in Handlers : Handle(p, t)
      BY <2>4, HandleTypes DEF Handlers
    <2>5. CASE \E t \in Txs : Tick(t)
      BY <2>5, TickTypes
    <2>6. CASE Chain \/ Deaths \/ LaneLapse \/ Verify \/ \E t \in Txs : Refuse(t)
      BY <2>6, EnvironmentTypes
    <2> QED
      BY <1>2, <2>1, <2>2, <2>3, <2>4, <2>5, <2>6 DEF TxNext
  <1> QED
    BY <1>1, <1>2

(* The queue starts empty, with every row unsent. *)
LEMMA InitTypes == TxInit => Types
  <1> SUFFICES ASSUME TxInit PROVE Types
    OBVIOUS
  <1>1. PICK kind \in [Txs -> Kinds] :
            row = [t \in Txs |-> [kind |-> kind[t], status |-> "QUEUED", txHash |-> NoHash,
                                  broadcastAttempts |-> 0, broadcastTxHash |-> NoHash,
                                  volume |-> IF kind[t] \in {"a2a", "policySync"}
                                             THEN "NONE" ELSE "RESERVED"]]
    BY DEF TxInit
  <1>2. row \in [Txs -> TxRow] /\ \A t \in Txs : row[t] \in OwnRow(t)
    BY <1>1 DEF TxRow, OwnRow, TxStatus, Hashes, Volumes
  <1>3. RowTypes
    BY <1>2 DEF TxInit, RowTypes
  <1>4. PICK state \in {"missing", "waiting"} :
            bull = [t \in Txs |-> [state |-> state, made |-> 0, stalled |-> FALSE, owner |-> NoWorker]]
    BY DEF TxInit
  <1>5. bull \in [Txs -> BullJob] /\ \A t \in Txs : bull[t].made < MaxAttempts /\ bull[t].owner = NoWorker
    BY <1>4, PipelineAssumption DEF BullJob, BullStates
  <1>6. at \in [Workers -> Place] /\ \A w \in Workers : at[w].pc = "idle"
    BY DEF TxInit, Place, Places, Hashes
  <1>7. QueueTypes /\ Deliveries
    BY <1>5, <1>6 DEF TxInit, QueueTypes, Deliveries, Carrying
  <1>8. WatchTypes /\ ChainTypes
    BY FS_EmptySet DEF TxInit, WatchTypes, ChainTypes, Handlers
  <1>9. EnvTypes
    BY DEF TxInit, EnvTypes
  <1> QED
    BY <1>3, <1>7, <1>8, <1>9 DEF Types

(***************************************************************************)
(* What a step can do to a row, to the wire and to the chain.  From here   *)
(* on the invariants reason about these effects, not about the actions.    *)
(***************************************************************************)
Stamping(w) ==
    /\ at[w].pc = "stamp" /\ Unsent(Row(w))
    /\ row' = [row EXCEPT ![at[w].tx] = Stamped(@, at[w].hash)]
    /\ Goto(w, "send")
    /\ UNCHANGED chainVars

RowMove(t) ==
    \/ row'[t] = row[t]
    \/ row'[t] = Stopped(row[t])
    \/ /\ Unsent(row[t])
       /\ \E w \in Workers : /\ Stamping(w) /\ at[w].tx = t
                             /\ row'[t] = Stamped(row[t], at[w].hash)
    \/ \E w \in Workers : /\ at[w].pc = "record" /\ at[w].tx = t
                          /\ row'[t] = Submitted(row[t], at[w].hash)
    \/ /\ row[t].status = "SUBMITTED"
       /\ \/ \E m \in mined : /\ m.hash = row[t].txHash
                               /\ row'[t] = [row[t] EXCEPT !.status = Outcome(m.ok)]
          \/ /\ ~Known(row[t].txHash) /\ GraceElapsed(t)
             /\ row'[t] = [row[t] EXCEPT !.status = "FAILED"]
    \/ row'[t] = [row[t] EXCEPT !.volume = SettledVolume(row[t])]

(* The moves a delivery makes. *)
LEMMA DeliverMoves ==
    ASSUME Types, NEW w \in Workers, Deliver(w), NEW t \in Txs
    PROVE  RowMove(t)
  <1>1. at[w].pc # "idle" => at[w].tx \in Txs
    BY DEF Types, Deliveries
  <1>2. row \in [Txs -> TxRow]
    BY DEF Types, RowTypes
  <1>3. CASE Block(w) \/ FailedHandler(w)
    BY <1>1, <1>2, <1>3 DEF Block, FailedHandler, StopRow, RowMove
  <1>4. CASE Stamp(w)
    <2>1. CASE Unsent(Row(w)) /\ Goto(w, "send") /\ row' = [row EXCEPT ![at[w].tx] = Stamped(@, at[w].hash)]
      <3>1. Stamping(w)
        BY <1>4, <2>1 DEF Stamp, Stamping
      <3> QED
        BY <1>1, <1>2, <1>4, <2>1, <3>1 DEF Stamp, RowMove, Row
    <2>2. CASE \/ UNCHANGED row
               \/ row' = [row EXCEPT ![at[w].tx] = Stopped(@)]
      BY <1>1, <1>2, <1>4, <2>2 DEF Stamp, RowMove
    <2> QED
      BY <1>4, <2>1, <2>2 DEF Stamp, Row
  <1>5. CASE Record(w)
    BY <1>1, <1>2, <1>5 DEF Record, RowMove
  <1>6. CASE ~ (Block(w) \/ FailedHandler(w) \/ Stamp(w) \/ Record(w))
    BY <1>6 DEF Deliver, Guard, Acquire, SignTx, Check, SendOk, SendFails, Error, dbVars, RowMove
  <1> QED
    BY <1>3, <1>4, <1>5, <1>6

(* Every change of a row is one of these moves. *)
LEMMA RowMoves ==
    ASSUME Types, Watched, [TxNext]_txVars, NEW t \in Txs
    PROVE  RowMove(t)
  <1>1. row \in [Txs -> TxRow]
    BY DEF Types, RowTypes
  <1>2. CASE \E w \in Workers : Deliver(w)
    BY <1>2, DeliverMoves
  <1>3. ASSUME NEW h \in watch, Monitor(h) PROVE RowMove(t)
    <2>1. h.tx \in Txs /\ row[h.tx].txHash = h
      BY DEF Types, WatchTypes, Signed, Watched
    <2> QED
      BY <1>1, <1>3, <2>1 DEF Monitor, Observe, RowMove
  <1>4. ASSUME NEW u \in Txs, SettleVolume(u) \/ SweepVolume(u) PROVE RowMove(t)
    BY <1>1, <1>4 DEF SettleVolume, SweepVolume, RowMove
  <1>5. ASSUME NEW u \in Txs, Repoll(u) PROVE RowMove(t)
    BY <1>1, <1>5 DEF Repoll, Observe, RowMove
  <1>6. ASSUME NEW u \in Txs, SweepStranded(u) PROVE RowMove(t)
    BY <1>1, <1>6 DEF SweepStranded, StopRow, RowMove
  <1>7. CASE UNCHANGED row
    BY <1>7 DEF RowMove
  <1>8. CASE \/ \E w \in Workers, u \in Txs : Take(w, u)
             \/ \E u \in Txs : Scan(u) \/ Stall(u) \/ Refuse(u) \/ \E p \in Handlers : Handle(p, u)
             \/ Chain \/ Deaths \/ LaneLapse \/ Verify \/ UNCHANGED txVars
    BY <1>7, <1>8 DEF Take, Scan, Stall, Refuse, Handle, Finalize, Credit, Flip, Chain, Evict, Mine,
           Surface, Deaths, Crash, LoseMonitor, LoseHandler, LaneLapse, Verify, txVars, dbVars
  <1> QED
    BY <1>2, <1>3, <1>4, <1>5, <1>6, <1>8 DEF TxNext, Tick

(* A place that is not on its way to a node adds nothing to the wire. *)
LEMMA OffWire ==
    ASSUME Types, Types', NEW w \in Workers, \A v \in Workers \ {w} : at'[v] = at[v],
           at'[w].pc \notin {"send", "record"}
    PROVE  InFlight' \subseteq InFlight
  BY DEF InFlight

(* Nothing new is on the wire but what was stamped just now. *)
WireMove == \A h \in Wire' : \/ h \in Wire
                             \/ Unsent(row[h.tx]) /\ row'[h.tx] = Stamped(row[h.tx], h)

(* The moves of a delivery. *)
LEMMA DeliverWires ==
    ASSUME Types, Types', NEW w \in Workers, Deliver(w)
    PROVE  WireMove
  <1>1. at[w].pc # "idle"
    BY DEF Deliver, Guard, Block, Acquire, SignTx, Check, Stamp, SendOk, SendFails,
           Record, Error, FailedHandler
  <1>2. /\ at \in [Workers -> Place] /\ at[w].tx \in Txs
        /\ at[w].pc \in Carrying => at[w].hash \in Signed /\ at[w].hash.tx = at[w].tx
    BY <1>1 DEF Types, QueueTypes, Deliveries
  <1>3. \A pc : Goto(w, pc) => /\ at'[w].pc = pc /\ at'[w].hash = at[w].hash
                               /\ \A v \in Workers \ {w} : at'[v] = at[v]
    BY <1>2 DEF Goto, Place
  <1>4. Return(w) \/ Defer(w) \/ Throws(w) =>
            /\ at'[w].pc \notin {"send", "record"}
            /\ \A v \in Workers \ {w} : at'[v] = at[v]
    BY <1>1, Leaving DEF Types
  <1>5. at[w].pc \in {"send", "record"} => at[w].hash \in InFlight
    BY DEF InFlight
  <1>6. CASE Guard(w) \/ Block(w) \/ Acquire(w) \/ SignTx(w) \/ Record(w) \/ Error(w)
             \/ FailedHandler(w)
    <2>1. /\ at'[w].pc \notin {"send", "record"}
          /\ \A v \in Workers \ {w} : at'[v] = at[v]
      BY <1>2, <1>3, <1>4, <1>6
         DEF Guard, Block, Acquire, SignTx, Record, Error, FailedHandler, Idle, Place
    <2>2. UNCHANGED chainVars
      BY <1>6 DEF Guard, Block, Acquire, SignTx, Record, Error, FailedHandler
    <2> QED
      BY <2>1, <2>2, OffWire DEF WireMove, Wire, chainVars, MinedHashes
  <1>7. CASE Check(w)
    <2>1. UNCHANGED chainVars
      BY <1>7 DEF Check
    <2>2. InFlight' \subseteq InFlight \cup pool \cup MinedHashes
      <3>1. CASE Goto(w, "stamp")
        BY <1>3, <3>1, OffWire
      <3>2. CASE ~Goto(w, "stamp")
        <4> DEFINE earlier == Row(w).broadcastTxHash
        <4>1. Known(earlier) /\ at' = [at EXCEPT ![w].pc = "record", ![w].hash = earlier]
          BY <1>7, <3>2 DEF Check
        <4>2. at'[w].hash = earlier /\ \A v \in Workers \ {w} : at'[v] = at[v]
          BY <1>2, <4>1 DEF Place
        <4> HIDE DEF earlier
        <4> QED
          BY <4>1, <4>2 DEF InFlight, Known
      <3> QED
        BY <3>1, <3>2
    <2> QED
      BY <2>1, <2>2 DEF WireMove, Wire, chainVars, MinedHashes
  <1>8. CASE Stamp(w)
    <2>1. UNCHANGED chainVars
      BY <1>8 DEF Stamp
    <2>2. CASE Return(w) \/ Defer(w) \/ Throws(w)
      BY <1>4, <2>1, <2>2, OffWire DEF WireMove, Wire, chainVars, MinedHashes
    <2>3. CASE ~ (Return(w) \/ Defer(w) \/ Throws(w))
      <3>1. /\ Unsent(row[at[w].tx]) /\ Goto(w, "send")
            /\ row' = [row EXCEPT ![at[w].tx] = Stamped(@, at[w].hash)]
        BY <1>8, <2>3 DEF Stamp
      <3>2. row'[at[w].tx] = Stamped(row[at[w].tx], at[w].hash)
        BY <1>2, <3>1 DEF Types, RowTypes
      <3>3. at[w].hash.tx = at[w].tx
        BY <1>2, <1>8 DEF Stamp, Carrying
      <3>4. InFlight' \subseteq InFlight \cup {at[w].hash}
        BY <1>3, <3>1 DEF InFlight
      <3> QED
        BY <2>1, <3>1, <3>2, <3>3, <3>4 DEF WireMove, Wire, chainVars, MinedHashes
    <2> QED
      BY <2>2, <2>3
  <1>9. CASE SendOk(w) \/ SendFails(w)
    <2>1. at[w].hash \in InFlight
      BY <1>5, <1>9 DEF SendOk, SendFails
    <2>2. InFlight' \subseteq InFlight
      <3>1. CASE SendOk(w)
        BY <1>3, <2>1, <3>1 DEF SendOk, InFlight
      <3>2. CASE SendFails(w)
        BY <1>4, <3>2, OffWire DEF SendFails
      <3> QED
        BY <1>9, <3>1, <3>2
    <2>3. /\ pool' \subseteq pool \cup {at[w].hash} /\ hidden' \subseteq hidden \cup {at[w].hash}
          /\ UNCHANGED mined
      BY <1>9 DEF SendOk, SendFails, Accepted
    <2> QED
      BY <2>1, <2>2, <2>3 DEF WireMove, Wire, MinedHashes
  <1> QED
    BY <1>6, <1>7, <1>8, <1>9 DEF Deliver

(* Every change of the wire. *)
LEMMA WireMoves ==
    ASSUME Types, Types', [TxNext]_txVars
    PROVE  WireMove
  <1>1. CASE \E w \in Workers : Deliver(w)
    BY <1>1, DeliverWires
  <1>2. ASSUME NEW w \in Workers, NEW t \in Txs, Take(w, t) PROVE WireMove
    <2>1. at'[w].pc = "guard" /\ \A v \in Workers \ {w} : at'[v] = at[v]
      BY <1>2 DEF Take, Types, QueueTypes
    <2> QED
      BY <1>2, <2>1, OffWire DEF Take, WireMove, Wire, chainVars, MinedHashes
  <1>3. ASSUME NEW w \in Workers, Crash(w) PROVE WireMove
    <2>1. at'[w].pc = "idle" /\ \A v \in Workers \ {w} : at'[v] = at[v]
      BY <1>3 DEF Crash, Types, QueueTypes, Idle
    <2> QED
      BY <1>3, <2>1, OffWire DEF Crash, WireMove, Wire, chainVars, MinedHashes
  <1>4. ASSUME UNCHANGED at, (pool \cup hidden \cup MinedHashes)' \subseteq pool \cup hidden \cup MinedHashes
        PROVE  WireMove
    BY <1>4 DEF WireMove, Wire, InFlight
  <1>5. CASE Chain
    <2>1. UNCHANGED at
      BY <1>5 DEF Chain, Evict, Mine, Surface, queueVars
    <2>2. ASSUME NEW h \in pool, Evict(h) PROVE WireMove
      BY <1>4, <2>1, <2>2 DEF Evict, MinedHashes
    <2>3. ASSUME NEW h \in pool, NEW ok \in BOOLEAN, Mine(h, ok) PROVE WireMove
      BY <1>4, <2>1, <2>3 DEF Mine, MinedHashes
    <2>4. ASSUME NEW h \in hidden, Surface(h) PROVE WireMove
      BY <1>4, <2>1, <2>4 DEF Surface, MinedHashes
    <2> QED
      BY <1>5, <2>2, <2>3, <2>4 DEF Chain
  <1>6. CASE UNCHANGED <<at, chainVars>>
    BY <1>4, <1>6 DEF chainVars, MinedHashes
  <1>7. CASE Bystander \/ LaneLapse
    BY <1>6, <1>7, BystandersKeep DEF LaneLapse
  <1> QED
    BY <1>1, <1>2, <1>3, <1>5, <1>7 DEF TxNext, Deaths, Bystander

(* What is mined is the next nonce of the account; nothing is forgotten. *)
LEMMA MinedMoves ==
    ASSUME [TxNext]_txVars
    PROVE  \/ mined' = mined
           \/ \E h \in pool, ok \in BOOLEAN : /\ h.nonce = AccountNonce
                                             /\ mined' = mined \cup {[hash |-> h, ok |-> ok]}
  <1>1. CASE \E w \in Workers : Deliver(w)
    BY <1>1 DEF Deliver, Guard, Block, Acquire, SignTx, Check, Stamp, SendOk, SendFails, Record,
           Error, FailedHandler, chainVars
  <1>2. CASE Chain
    BY <1>2 DEF Chain, Evict, Mine, Surface
  <1>3. CASE ~ (Chain \/ \E w \in Workers : Deliver(w))
    BY <1>3
       DEF TxNext, Take, Monitor, SettleVolume, Handle, Finalize, Credit, Flip, Tick, Repoll, Scan,
           SweepVolume, SweepStranded, Stall, Refuse, Deaths, Crash, LoseMonitor, LoseHandler,
           LaneLapse, Verify, txVars, chainVars
  <1> QED
    BY <1>1, <1>2, <1>3

(* A monitor is started for the hash its row has just been given. *)
LEMMA WatchMoves ==
    ASSUME Types, [TxNext]_txVars
    PROVE  \A h \in watch' : h \in watch \/ row'[h.tx].txHash = h
  <1>1. ASSUME NEW w \in Workers, Record(w) PROVE \A h \in watch' : h \in watch \/ row'[h.tx].txHash = h
    <2>1. at[w].hash.tx = at[w].tx
      BY <1>1 DEF Record, Carrying, Types, Deliveries
    <2> QED
      BY <1>1, <2>1 DEF Record
  <1>2. ASSUME NEW w \in Workers, Deliver(w), ~Record(w) PROVE watch' \subseteq watch
    BY <1>2 DEF Deliver, Guard, Block, Acquire, SignTx, Check, Stamp, SendOk, SendFails,
           Error, FailedHandler, watchVars
  <1>3. CASE ~ \E w \in Workers : Deliver(w)
    <2>1. watch' \subseteq watch
      BY <1>3
         DEF TxNext, Take, Monitor, SettleVolume, Handle, Finalize, Credit, Flip, Tick, Repoll, Scan,
             SweepVolume, SweepStranded, Stall, Refuse, Deaths, Crash, LoseMonitor, LoseHandler,
             Chain, Evict, Mine, Surface, LaneLapse, Verify, txVars, watchVars
    <2> QED
      BY <2>1
  <1> QED
    BY <1>1, <1>2, <1>3

(***************************************************************************)
(* What an attempt leaves behind.                                          *)
(***************************************************************************)
(* A new receipt is for a new transaction. *)
LEMMA MinedOnceStep ==
    ASSUME Types, MinedOnce, [TxNext]_txVars
    PROVE  MinedOnce' /\ mined \subseteq mined'
  <1>1. CASE mined' = mined
    BY <1>1 DEF MinedOnce, AccountNonce
  <1>2. CASE mined' # mined
    <2>1. PICK h \in pool, ok \in BOOLEAN :
              h.nonce = AccountNonce /\ mined' = mined \cup {[hash |-> h, ok |-> ok]}
      BY <1>2, MinedMoves
    <2> DEFINE r == [hash |-> h, ok |-> ok]
    <2>2. IsFiniteSet(mined) /\ AccountNonce \in Nat
      BY FS_CardinalityType DEF Types, ChainTypes, AccountNonce
    <2>3. \A m \in mined : m.hash # h
      BY <2>1, <2>2 DEF MinedOnce
    <2>4. r \notin mined
      BY <2>3
    <2>5. AccountNonce' = AccountNonce + 1
      BY <2>1, <2>2, <2>4, FS_AddElement DEF AccountNonce
    <2>6. \A m \in mined : m.hash.nonce \in Nat
      BY DEF Types, ChainTypes, Receipt, Signed
    <2> QED
      BY <2>1, <2>2, <2>3, <2>5, <2>6 DEF MinedOnce
  <1> QED
    BY <1>1, <1>2

(* A row that is stamped, and no other, changes its attempts. *)
LEMMA AttemptsMove ==
    ASSUME Types, NEW t \in Txs, RowMove(t)
    PROVE  \/ /\ row'[t].broadcastAttempts = row[t].broadcastAttempts
              /\ row'[t].broadcastTxHash = row[t].broadcastTxHash
           \/ \E h \in Own(t) :
                 /\ \E w \in Workers : Stamping(w) /\ at[w].tx = t
                 /\ Unsent(row[t]) /\ row'[t] = Stamped(row[t], h)
                 /\ row'[t].broadcastAttempts = row[t].broadcastAttempts + 1
                 /\ row'[t].broadcastTxHash = h
                 /\ row'[t].status = row[t].status /\ row'[t].txHash = row[t].txHash
                 /\ row'[t].volume = row[t].volume
  <1>1. row[t] \in TxRow
    BY DEF Types, RowTypes
  <1>2. ASSUME NEW w \in Workers, Stamping(w), at[w].tx = t PROVE at[w].hash \in Own(t)
    BY <1>2 DEF Stamping, Types, Deliveries, Carrying, Own
  <1>3. \A h : /\ Stamped(row[t], h).broadcastAttempts = row[t].broadcastAttempts + 1
               /\ Stamped(row[t], h).broadcastTxHash = h
               /\ Stamped(row[t], h).status = row[t].status /\ Stamped(row[t], h).txHash = row[t].txHash
               /\ Stamped(row[t], h).volume = row[t].volume
    BY <1>1 DEF Stamped, TxRow
  <1>4. CASE Unsent(row[t]) /\ \E w \in Workers : /\ Stamping(w) /\ at[w].tx = t
                                                  /\ row'[t] = Stamped(row[t], at[w].hash)
    BY <1>2, <1>3, <1>4
  <1>5. CASE \/ row'[t] = row[t]
             \/ row'[t] = Stopped(row[t])
             \/ \E h : row'[t] = Submitted(row[t], h)
             \/ \E st : row'[t] = [row[t] EXCEPT !.status = st]
             \/ \E v : row'[t] = [row[t] EXCEPT !.volume = v]
    BY <1>1, <1>5 DEF Stopped, Submitted, TxRow
  <1> QED
    BY <1>4, <1>5 DEF RowMove

(* Nothing is on the wire but what its row was stamped with. *)
LEMMA StampsStep ==
    ASSUME Types, Types', Stamps, Watched, [TxNext]_txVars
    PROVE  Stamps'
  <1> SUFFICES ASSUME NEW h \in Wire'
               PROVE  /\ row'[h.tx].broadcastAttempts >= 1
                      /\ row'[h.tx].broadcastAttempts = 1 => h = row'[h.tx].broadcastTxHash
    BY DEF Stamps
  <1> DEFINE t == h.tx
  <1>1. t \in Txs
    <2>1. h \in Signed
      BY DEF Types, ChainTypes, Deliveries, Wire, InFlight, MinedHashes, Receipt, Carrying
    <2> QED
      BY <2>1 DEF Signed
  <1>2. /\ row[t].broadcastAttempts \in Nat
        /\ \/ /\ row'[t].broadcastAttempts = row[t].broadcastAttempts
              /\ row'[t].broadcastTxHash = row[t].broadcastTxHash
           \/ /\ row'[t].broadcastAttempts = row[t].broadcastAttempts + 1
    BY <1>1, RowMoves, AttemptsMove DEF Types, RowTypes, TxRow
  <1>3. CASE h \in Wire
    BY <1>2, <1>3 DEF Stamps
  <1>4. CASE row'[t] = Stamped(row[t], h)
    <2>1. row[t] \in TxRow
      BY <1>1 DEF Types, RowTypes
    <2>2. row'[t].broadcastAttempts = row[t].broadcastAttempts + 1 /\ row'[t].broadcastTxHash = h
      BY <1>4, <2>1 DEF Stamped, TxRow
    <2> QED
      BY <1>2, <2>2
  <1> QED
    BY <1>3, <1>4, WireMoves DEF WireMove

(* The columns of a row stay in agreement, whatever move it makes. *)
LEMMA ColumnsStep ==
    ASSUME Types, Types', Stamps, NEW t \in Txs, Columns(t), RowMove(t), mined \subseteq mined'
    PROVE  Columns(t)'
  <1> DEFINE r == row[t]
             s == row'[t]
  <1>1. /\ r \in TxRow /\ s \in TxRow
        /\ r.broadcastAttempts \in Nat
        /\ \A h \in Own(t) : h # NoHash
    BY HashAssumption DEF Types, RowTypes, TxRow, Own
  <1>2. r.status # "CONFIRMED" => r.volume # "COMMITTED"
    BY DEF Columns
  <1>3. r.status \notin {"REVERTED", "FAILED"} => r.volume # "RELEASED"
    BY DEF Columns
  <1> DEFINE Justified(v) ==
                 /\ v = "COMMITTED" => r.status = "CONFIRMED"
                 /\ v = "RELEASED" => \/ r.status = "REVERTED" /\ r.broadcastAttempts <= 1
                                      \/ r.status = "FAILED" /\ r.broadcastAttempts = 0
  <1>0. Justified(r.volume)
    BY DEF Columns
  <1>4. CASE s = r
    BY <1>4 DEF Columns
  <1>5. CASE s = Stopped(r)
    <2>1. CASE ~Unsent(r)
      BY <1>4, <1>5, <2>1 DEF Stopped
    <2>2. CASE Unsent(r) /\ r.broadcastAttempts = 0
      <3>1. s = [r EXCEPT !.status = "FAILED"]
        BY <1>5, <2>2 DEF Stopped
      <3>2. /\ s.status = "FAILED" /\ s.txHash = r.txHash /\ s.volume = r.volume
            /\ s.broadcastAttempts = r.broadcastAttempts /\ s.broadcastTxHash = r.broadcastTxHash
        BY <1>1, <3>1 DEF TxRow
      <3> QED
        BY <1>2, <2>2, <3>2 DEF Columns, Unsent
    <2>3. CASE Unsent(r) /\ r.broadcastAttempts # 0
      <3>1. s = [r EXCEPT !.status = "SUBMITTED", !.txHash = r.broadcastTxHash]
        BY <1>5, <2>3 DEF Stopped
      <3>2. /\ s.status = "SUBMITTED" /\ s.txHash = r.broadcastTxHash /\ s.volume = r.volume
            /\ s.broadcastAttempts = r.broadcastAttempts /\ s.broadcastTxHash = r.broadcastTxHash
        BY <1>1, <3>1 DEF TxRow
      <3> QED
        BY <1>1, <1>2, <1>3, <2>3, <3>2 DEF Columns, Unsent
    <2> QED
      BY <2>1, <2>2, <2>3
  <1>6. ASSUME NEW w \in Workers, Stamping(w), at[w].tx = t, Unsent(r),
               s = Stamped(r, at[w].hash)
        PROVE  Columns(t)'
    <2>1. at[w].hash \in Own(t)
      BY <1>6 DEF Stamping, Types, Deliveries, Carrying, Own
    <2>2. /\ s.broadcastAttempts = r.broadcastAttempts + 1 /\ s.broadcastTxHash = at[w].hash
          /\ s.status = r.status /\ s.txHash = r.txHash /\ s.volume = r.volume
      BY <1>1, <1>6 DEF Stamped, TxRow
    <2> QED
      BY <1>1, <1>2, <1>3, <1>6, <2>1, <2>2 DEF Columns, Unsent
  <1>7. ASSUME NEW w \in Workers, at[w].pc = "record", at[w].tx = t, s = Submitted(r, at[w].hash)
        PROVE  Columns(t)'
    <2>1. CASE ~Unsent(r)
      BY <1>4, <1>7, <2>1 DEF Submitted
    <2>2. CASE Unsent(r)
      <3>1. at[w].hash \in Own(t) /\ at[w].hash \in Wire
        BY <1>7 DEF Types, Deliveries, Carrying, Own, Wire, InFlight
      <3>2. /\ s.status = "SUBMITTED" /\ s.txHash = at[w].hash /\ s.volume = r.volume
            /\ s.broadcastAttempts = r.broadcastAttempts /\ s.broadcastTxHash = r.broadcastTxHash
        BY <1>1, <1>7, <2>2 DEF Submitted, TxRow
      <3>3. /\ r.broadcastAttempts >= 1
            /\ r.broadcastAttempts = 1 => at[w].hash = r.broadcastTxHash
        BY <3>1 DEF Stamps, Own
      <3> QED
        BY <1>1, <1>2, <1>3, <2>2, <3>1, <3>2, <3>3 DEF Columns, Unsent
    <2> QED
      BY <2>1, <2>2
  <1>8. ASSUME NEW st \in {"CONFIRMED", "REVERTED", "FAILED"}, r.status = "SUBMITTED",
               s = [r EXCEPT !.status = st],
               st = "CONFIRMED" => \E m \in mined : m.hash = r.txHash /\ m.ok,
               st = "REVERTED" => \E m \in mined : m.hash = r.txHash /\ ~m.ok
        PROVE  Columns(t)'
    <2>1. /\ s.status = st /\ s.txHash = r.txHash /\ s.volume = r.volume
          /\ s.broadcastAttempts = r.broadcastAttempts /\ s.broadcastTxHash = r.broadcastTxHash
      BY <1>1, <1>8 DEF TxRow
    <2> QED
      BY <1>2, <1>3, <1>8, <2>1 DEF Columns
  <1>9. CASE s = [r EXCEPT !.volume = SettledVolume(r)]
    <2>1. /\ s.volume = SettledVolume(r) /\ s.status = r.status /\ s.txHash = r.txHash
          /\ s.broadcastAttempts = r.broadcastAttempts /\ s.broadcastTxHash = r.broadcastTxHash
      BY <1>1, <1>9 DEF TxRow
    <2>2. Justified(SettledVolume(r))
      <3>1. CASE r.volume # "RESERVED"
        <4>1. SettledVolume(r) = r.volume
          BY <3>1 DEF SettledVolume
        <4> QED
          BY <1>0, <4>1
      <3>2. CASE r.volume = "RESERVED"
        <4>1. r.status \in TxStatus /\ r.broadcastAttempts \in Nat
          BY <1>1 DEF TxRow
        <4>2. r.status \in {"QUEUED", "SUBMITTED"} => SettledVolume(r) = "RESERVED"
          BY <3>2 DEF SettledVolume
        <4>3. r.status = "CONFIRMED" => SettledVolume(r) = "COMMITTED"
          BY <3>2 DEF SettledVolume
        <4>4. r.status = "REVERTED" =>
                  SettledVolume(r) = IF r.broadcastAttempts <= 1 THEN "RELEASED" ELSE "HELD"
          BY <3>2 DEF SettledVolume
        <4>5. r.status = "FAILED" =>
                  SettledVolume(r) = IF r.broadcastAttempts = 0 /\ r.txHash = NoHash
                                     THEN "RELEASED" ELSE "HELD"
          BY <3>2 DEF SettledVolume
        <4> QED
          BY <4>1, <4>2, <4>3, <4>4, <4>5 DEF TxStatus
      <3> QED
        BY <3>1, <3>2
    <2> QED
      BY <2>1, <2>2 DEF Columns
  <1>10. ASSUME NEW m \in mined, r.status = "SUBMITTED", m.hash = r.txHash,
                s = [r EXCEPT !.status = Outcome(m.ok)]
         PROVE  Columns(t)'
    BY <1>8, <1>10 DEF Outcome
  <1>11. CASE r.status = "SUBMITTED" /\ s = [r EXCEPT !.status = "FAILED"]
    BY <1>8, <1>11
  <1> QED
    BY <1>4, <1>5, <1>6, <1>7, <1>9, <1>10, <1>11 DEF RowMove

(* A hash that is watched stays the one its row was submitted with. *)
LEMMA WatchedStep ==
    ASSUME Types, Watched, [TxNext]_txVars
    PROVE  Watched'
  <1> SUFFICES ASSUME NEW h \in watch' PROVE row'[h.tx].txHash = h
    BY DEF Watched
  <1>1. CASE h \in watch
    <2>1. h.tx \in Txs /\ row[h.tx].txHash = h /\ h # NoHash /\ row[h.tx] \in TxRow
      BY <1>1, HashAssumption DEF Types, WatchTypes, RowTypes, Signed, Watched
    <2>2. RowMove(h.tx)
      BY <2>1, RowMoves
    <2> DEFINE r == row[h.tx]
    <2>3. /\ ~Unsent(r) /\ Stopped(r) = r
          /\ \A g : Submitted(r, g) = r
          /\ \A st : [r EXCEPT !.status = st].txHash = h
          /\ \A v : [r EXCEPT !.volume = v].txHash = h
      BY <2>1 DEF Unsent, Stopped, Submitted, TxRow
    <2>4. ~ \E w \in Workers : Unsent(r) /\ Stamping(w)
      BY <2>3
    <2>5. \/ row'[h.tx] = r
          \/ \E st : row'[h.tx] = [r EXCEPT !.status = st]
          \/ \E v : row'[h.tx] = [r EXCEPT !.volume = v]
      BY <2>2, <2>3, <2>4 DEF RowMove
    <2> QED
      BY <2>1, <2>3, <2>5
  <1> QED
    BY <1>1, WatchMoves

(* The layer is inductive. *)
LEMMA AttemptsStep == Types /\ Attempts /\ [TxNext]_txVars => Attempts'
  <1> SUFFICES ASSUME Types, Attempts, [TxNext]_txVars PROVE Attempts'
    OBVIOUS
  <1>1. Types'
    BY NextTypes
  <1>2. MinedOnce' /\ mined \subseteq mined'
    BY MinedOnceStep DEF Attempts
  <1>3. Stamps' /\ Watched'
    BY <1>1, StampsStep, WatchedStep DEF Attempts
  <1>4. ASSUME NEW t \in Txs PROVE Columns(t)'
    BY <1>1, <1>2, RowMoves, ColumnsStep DEF Attempts
  <1> QED
    BY <1>2, <1>3, <1>4 DEF Attempts

(* At the start nothing was attempted. *)
LEMMA InitAttempts == TxInit => Attempts
  <1> SUFFICES ASSUME TxInit PROVE Attempts
    OBVIOUS
  <1>1. Wire = {} /\ mined = {} /\ watch = {}
    BY DEF TxInit, Wire, InFlight, MinedHashes
  <1>2. \A t \in Txs : /\ row[t].status = "QUEUED" /\ row[t].txHash = NoHash
                       /\ row[t].broadcastAttempts = 0 /\ row[t].broadcastTxHash = NoHash
                       /\ row[t].volume \in {"NONE", "RESERVED"}
    BY DEF TxInit
  <1> QED
    BY <1>1, <1>2 DEF Attempts, MinedOnce, Stamps, Columns, Watched

(* Released volume was not spent: with one attempt made and reverted, that *)
(* attempt is the only one there is; with none, there is nothing to mine.  *)
LEMMA Unspent == Types /\ Attempts => ReleasedIsUnspent
  <1> SUFFICES ASSUME Types, Attempts, NEW t \in Txs, row[t].volume = "RELEASED",
                      NEW m \in mined, m.hash.tx = t, m.ok
               PROVE  FALSE
    BY DEF ReleasedIsUnspent, Executions
  <1>1. m.hash \in Wire /\ row[t].broadcastAttempts \in Nat
    BY DEF Wire, MinedHashes, Types, RowTypes, TxRow
  <1>2. /\ row[t].broadcastAttempts >= 1
        /\ row[t].broadcastAttempts = 1 => m.hash = row[t].broadcastTxHash
    BY <1>1 DEF Attempts, Stamps
  <1>3. row[t].status = "REVERTED" /\ row[t].broadcastAttempts = 1
    BY <1>1, <1>2 DEF Attempts, Columns
  <1>4. PICK n \in mined : n.hash = row[t].txHash /\ ~n.ok
    BY <1>3 DEF Attempts, Columns
  <1>5. n.hash = m.hash
    BY <1>2, <1>3, <1>4 DEF Attempts, Columns
  <1> QED
    BY <1>4, <1>5 DEF Attempts, MinedOnce

(***************************************************************************)
(* Theorems for every row, timely or not.                                  *)
(***************************************************************************)
LEMMA AttemptsHold == TxSpec => [](Types /\ Attempts)
  <1>1. TxInit => Types /\ Attempts
    BY InitTypes, InitAttempts
  <1>2. Types /\ Attempts /\ [TxNext]_txVars => (Types /\ Attempts)'
    BY NextTypes, AttemptsStep
  <1> QED
    BY <1>1, <1>2, PTL DEF TxSpec

(* The daily volume is never given back for value that moved, in any       *)
(* number of rows, attempts and redeliveries, late sends included.         *)
THEOREM ReleasedVolumeIsUnspent == TxSpec => []ReleasedIsUnspent
  BY AttemptsHold, Unspent, PTL

(***************************************************************************)
(* What follows an outcome.                                                *)
(***************************************************************************)
(* An outcome is final, and no row changes its kind. *)
LEMMA OutcomeIsFinal ==
    ASSUME Types, NEW t \in Txs, RowMove(t)
    PROVE  /\ row[t].status \in Settled => row'[t].status = row[t].status
           /\ row'[t].kind = row[t].kind
  <1> DEFINE r == row[t]
  <1>1. r \in TxRow
    BY DEF Types, RowTypes
  <1>2. /\ Stopped(r).kind = r.kind
        /\ \A h : Stamped(r, h).kind = r.kind /\ Submitted(r, h).kind = r.kind
        /\ \A st : [r EXCEPT !.status = st].kind = r.kind
        /\ \A v : [r EXCEPT !.volume = v].kind = r.kind /\ [r EXCEPT !.volume = v].status = r.status
    BY <1>1 DEF Stopped, Stamped, Submitted, TxRow
  <1>3. r.status \in Settled => Stopped(r) = r /\ ~Unsent(r) /\ \A h : Submitted(r, h) = r
    BY DEF Settled, Stopped, Submitted, Unsent
  <1>4. CASE \/ row'[t] = row[t] \/ row'[t] = Stopped(row[t])
             \/ row'[t] = [row[t] EXCEPT !.volume = SettledVolume(row[t])]
    BY <1>2, <1>3, <1>4
  <1>5. CASE \/ Unsent(row[t]) /\ \E w \in Workers : row'[t] = Stamped(row[t], at[w].hash)
             \/ \E w \in Workers : row'[t] = Submitted(row[t], at[w].hash)
    BY <1>2, <1>3, <1>5
  <1>6. CASE /\ row[t].status = "SUBMITTED"
             /\ \E st : row'[t] = [row[t] EXCEPT !.status = st]
    BY <1>2, <1>6 DEF Settled
  <1> QED
    BY <1>4, <1>5, <1>6 DEF RowMove

(* The kinds of all rows stay, and with them who is timely. *)
LEMMA KindsKept ==
    ASSUME Types, Watched, [TxNext]_txVars
    PROVE  A2A' = A2A /\ Timely' = Timely
  BY RowMoves, OutcomeIsFinal DEF A2A, Timely

(* A handler is started, moved on and ended, a payment moves, only with    *)
(* the outcome its row has.                                                *)
HandleMove(t) ==
    /\ \A p \in Handlers :
          \/ fin'[<<p, t>>] \in {fin[<<p, t>>], "none"}
          \/ /\ row'[t].status \in Settled
             /\ fin'[<<p, t>>] = "credit" => row'[t].status = "CONFIRMED"
    /\ t \in A2A =>
          /\ \/ job'[t] = job[t]
             \/ row[t].status \in Settled
                /\ job'[t] = IF row[t].status = "CONFIRMED" THEN "COMPLETED" ELSE "PAYMENT_FAILED"
          /\ \/ reservation'[t] = reservation[t]
             \/ row[t].status \in Settled
                /\ reservation'[t] = IF row[t].status = "CONFIRMED" THEN "RELEASED" ELSE "CANCELLED"

(* A row that is stopped and thereby FAILED has an outcome to handle. *)
LEMMA StopMoves ==
    ASSUME Types, NEW u \in Txs, StopRow(u), UNCHANGED <<job, reservation>>, NEW t \in Txs
    PROVE  HandleMove(t)
  BY DEF StopRow, Types, WatchTypes, HandleMove, Settled, Handlers

(* Writing down an outcome starts its handler. *)
LEMMA ObserveMoves ==
    ASSUME Types, NEW u \in Txs, NEW st \in Settled, row' = [row EXCEPT ![u].status = st],
           fin' = [fin EXCEPT ![<<"observer", u>>] = "volume"],
           UNCHANGED <<job, reservation>>, NEW t \in Txs
    PROVE  HandleMove(t)
  <1>1. u = t => row'[t].status = st
    BY DEF Types, RowTypes, TxRow
  <1>2. \A p \in Handlers : IF p = "observer" /\ t = u THEN fin'[<<p, t>>] = "volume"
                                                       ELSE fin'[<<p, t>>] = fin[<<p, t>>]
    BY DEF Types, WatchTypes, Handlers
  <1> QED
    BY <1>1, <1>2 DEF HandleMove

(* What follows an outcome. *)
LEMMA FinalizeMoves ==
    ASSUME Types, Handled, NEW p \in Handlers, NEW u \in Txs,
           (p = "observer" /\ SettleVolume(u)) \/ Handle(p, u), NEW t \in Txs
    PROVE  HandleMove(t)
  <1>1. fin[<<p, u>>] # "none" /\ row[u].status \in Settled
        /\ (fin[<<p, u>>] = "credit" => row[u].status = "CONFIRMED")
    BY DEF SettleVolume, Handle, Finalize, Credit, Flip, Handled
  <1>2. \A pc : Step(p, u, pc) => /\ fin'[<<p, u>>] = pc
                                  /\ \A q \in Handlers : <<q, t>> # <<p, u>> => fin'[<<q, t>>] = fin[<<q, t>>]
    BY DEF Types, WatchTypes, Step
  <1>3. CASE SettleVolume(u) /\ p = "observer"
    <2>1. row'[u].status = row[u].status
      BY <1>3 DEF SettleVolume, Types, RowTypes, TxRow
    <2>2. Step(p, u, "finalize") /\ UNCHANGED <<job, reservation>>
      BY <1>3 DEF SettleVolume
    <2> QED
      BY <1>1, <1>2, <2>1, <2>2 DEF HandleMove
  <1>4. CASE Finalize(p, u)
    <2>1. UNCHANGED <<row, job>>
      BY <1>4 DEF Finalize
    <2>2. CASE Step(p, u, "none") /\ UNCHANGED reservation
      BY <1>2, <2>1, <2>2 DEF HandleMove
    <2>3. CASE /\ row[u].status = "CONFIRMED" /\ Step(p, u, "credit")
               /\ reservation' = [reservation EXCEPT ![u] = IF @ = "PENDING" THEN "RELEASED" ELSE @]
      <3>1. t \in A2A => reservation'[t] = reservation[t] \/ (t = u /\ reservation'[t] = "RELEASED")
        BY <2>3 DEF Types, RowTypes
      <3> QED
        BY <1>1, <1>2, <2>1, <2>3, <3>1 DEF HandleMove
    <2>4. CASE /\ row[u].status # "CONFIRMED" /\ Step(p, u, "flip")
               /\ reservation' = [reservation EXCEPT ![u] = IF @ = "PENDING" THEN "CANCELLED" ELSE @]
      <3>1. t \in A2A => reservation'[t] = reservation[t] \/ (t = u /\ reservation'[t] = "CANCELLED")
        BY <2>4 DEF Types, RowTypes
      <3> QED
        BY <1>1, <1>2, <2>1, <2>4, <3>1 DEF HandleMove
    <2> QED
      BY <1>4, <2>2, <2>3, <2>4 DEF Finalize
  <1>5. CASE Credit(p, u)
    <2>1. Step(p, u, "flip") /\ UNCHANGED <<row, job, reservation>>
      BY <1>5 DEF Credit
    <2> QED
      BY <1>1, <1>2, <2>1 DEF HandleMove
  <1>6. CASE Flip(p, u)
    <2>1. Step(p, u, "none") /\ UNCHANGED reservation
      BY <1>6 DEF Flip
    <2>2. t \in A2A => \/ job'[t] = job[t]
                       \/ t = u /\ job'[t] = IF row[u].status = "CONFIRMED" THEN "COMPLETED"
                                                                           ELSE "PAYMENT_FAILED"
      BY <1>6 DEF Flip, Types, RowTypes
    <2> QED
      BY <1>1, <1>2, <2>1, <2>2 DEF HandleMove
  <1> QED
    BY <1>3, <1>4, <1>5, <1>6 DEF Handle

(* Every step, for every row. *)
LEMMA HandleMoves ==
    ASSUME Types, Watched, Handled, [TxNext]_txVars, NEW t \in Txs
    PROVE  HandleMove(t)
  <1>1. UNCHANGED <<fin, job, reservation>> => HandleMove(t)
    BY DEF HandleMove
  <1>2. ASSUME NEW w \in Workers, Deliver(w) PROVE HandleMove(t)
    <2>1. CASE Block(w) \/ FailedHandler(w)
      <3>1. at[w].tx \in Txs
        BY <2>1 DEF Block, FailedHandler, Types, Deliveries
      <3> QED
        BY <2>1, <3>1, StopMoves DEF Block, FailedHandler
    <2>2. CASE ~(Block(w) \/ FailedHandler(w))
      BY <1>1, <1>2, <2>2 DEF Deliver, Guard, Acquire, SignTx, Check, Stamp, SendOk, SendFails,
             Record, Error, dbVars, watchVars
    <2> QED
      BY <2>1, <2>2
  <1>3. ASSUME NEW h \in watch, Monitor(h) PROVE HandleMove(t)
    <2>1. CASE UNCHANGED <<row, fin>>
      BY <1>1, <1>3, <2>1 DEF Monitor
    <2>2. CASE ~ UNCHANGED <<row, fin>>
      <3>1. PICK st \in Settled : /\ row' = [row EXCEPT ![h.tx].status = st]
                                  /\ fin' = [fin EXCEPT ![<<"observer", h.tx>>] = "volume"]
        BY <1>3, <2>2 DEF Monitor, Observe, Outcome, Settled
      <3>2. h.tx \in Txs
        BY DEF Types, WatchTypes, Signed
      <3> QED
        BY <1>3, <3>1, <3>2, ObserveMoves DEF Monitor
    <2> QED
      BY <2>1, <2>2
  <1>4. ASSUME NEW u \in Txs, SettleVolume(u) \/ \E p \in Handlers : Handle(p, u)
        PROVE  HandleMove(t)
    BY <1>4, FinalizeMoves DEF Handlers
  <1>5. ASSUME NEW u \in Txs, Repoll(u) PROVE HandleMove(t)
    <2>1. PICK st \in Settled : /\ row' = [row EXCEPT ![u].status = st]
                                /\ fin' = [fin EXCEPT ![<<"observer", u>>] = "volume"]
      BY <1>5 DEF Repoll, Observe, Outcome, Settled
    <2> QED
      BY <1>5, <2>1, ObserveMoves DEF Repoll
  <1>6. ASSUME NEW u \in Txs, Scan(u) PROVE HandleMove(t)
    <2>1. /\ fin'[<<"scan", u>>] = "finalize" /\ row'[u].status \in Settled
          /\ \A q \in Handlers : <<q, t>> # <<"scan", u>> => fin'[<<q, t>>] = fin[<<q, t>>]
      BY <1>6 DEF Scan, Step, Types, WatchTypes, Handlers, dbVars
    <2> QED
      BY <1>6, <2>1 DEF Scan, HandleMove, dbVars
  <1>7. ASSUME NEW u \in Txs, SweepStranded(u) PROVE HandleMove(t)
    BY <1>1, <1>7, StopMoves DEF SweepStranded
  <1>8. ASSUME NEW p \in Handlers, NEW u \in Txs, LoseHandler(p, u) PROVE HandleMove(t)
    BY <1>8 DEF LoseHandler, Step, HandleMove, Types, WatchTypes, dbVars
  <1>9. CASE \/ \E w \in Workers, u \in Txs : Take(w, u)
             \/ \E u \in Txs : SweepVolume(u) \/ Stall(u) \/ Refuse(u)
             \/ \E h \in watch : LoseMonitor(h)
             \/ \E w \in Workers : Crash(w)
             \/ Chain \/ LaneLapse \/ Verify \/ UNCHANGED txVars
    BY <1>1, <1>9 DEF Take, SweepVolume, Stall, Refuse, LoseMonitor, Crash, Chain, Evict, Mine,
           Surface, LaneLapse, Verify, txVars, dbVars, watchVars
  <1> QED
    BY <1>2, <1>3, <1>4, <1>5, <1>6, <1>7, <1>8, <1>9 DEF TxNext, Tick, Deaths

(* The layer is inductive. *)
LEMMA HandledStep ==
    ASSUME Types, Watched, Handled, [TxNext]_txVars
    PROVE  Handled'
  <1>1. A2A' = A2A
    BY KindsKept
  <1>2. ASSUME NEW t \in Txs
        PROVE  /\ \A p \in Handlers :
                     /\ fin'[<<p, t>>] # "none" => row'[t].status \in Settled
                     /\ fin'[<<p, t>>] = "credit" => row'[t].status = "CONFIRMED"
               /\ t \in A2A =>
                     /\ job'[t] = "PAYMENT_FAILED" \/ reservation'[t] = "CANCELLED"
                           => row'[t].status \in Lost
                     /\ job'[t] = "COMPLETED" \/ reservation'[t] = "RELEASED"
                           => row'[t].status = "CONFIRMED"
    <2>1. HandleMove(t) /\ (row[t].status \in Settled => row'[t].status = row[t].status)
      BY RowMoves, HandleMoves, OutcomeIsFinal
    <2>2. ASSUME NEW p \in Handlers
          PROVE  /\ fin'[<<p, t>>] # "none" => row'[t].status \in Settled
                 /\ fin'[<<p, t>>] = "credit" => row'[t].status = "CONFIRMED"
      <3>1. /\ fin[<<p, t>>] # "none" => row[t].status \in Settled
            /\ fin[<<p, t>>] = "credit" => row[t].status = "CONFIRMED"
        BY DEF Handled
      <3> QED
        BY <2>1, <3>1 DEF HandleMove
    <2>3. ASSUME t \in A2A
          PROVE  /\ job'[t] = "PAYMENT_FAILED" \/ reservation'[t] = "CANCELLED"
                       => row'[t].status \in Lost
                 /\ job'[t] = "COMPLETED" \/ reservation'[t] = "RELEASED"
                       => row'[t].status = "CONFIRMED"
      <3>1. /\ job[t] = "PAYMENT_FAILED" \/ reservation[t] = "CANCELLED" => row[t].status \in Lost
            /\ job[t] = "COMPLETED" \/ reservation[t] = "RELEASED" => row[t].status = "CONFIRMED"
        BY <2>3 DEF Handled
      <3> QED
        BY <2>1, <2>3, <3>1 DEF HandleMove, Lost, Settled
    <2> QED
      BY <2>2, <2>3
  <1> QED
    BY <1>1, <1>2 DEF Handled

(* At the start nothing is handled. *)
LEMMA InitHandled == TxInit => Handled
  BY DEF TxInit, Handled, Handlers

(***************************************************************************)
(* The timely case.                                                        *)
(***************************************************************************)
(* The lane is held by the one delivery that is in it. *)
LEMMA LaneStep ==
    ASSUME Types, Timely, OneInLane, [TxNext]_txVars
    PROVE  OneInLane'
  <1> USE PipelineAssumption DEF InLane
  <1>1. ASSUME NEW w \in Workers, Deliver(w) PROVE OneInLane'
    <2>0. /\ at[w].pc # "idle" /\ at \in [Workers -> Place] /\ lane \in Workers \cup {NoWorker}
      BY <1>1 DEF Deliver, Guard, Block, Acquire, SignTx, Check, Stamp, SendOk, SendFails,
             Record, Error, FailedHandler, Types, QueueTypes
    <2>1. /\ at[w].pc \in InLane <=> lane = w
          /\ \A v \in Workers \ {w} : at[v].pc \in InLane <=> lane = v
      BY DEF OneInLane
    <2>2. \A pc : Goto(w, pc) => /\ at'[w].pc = pc
                                 /\ \A v \in Workers \ {w} : at'[v] = at[v]
      BY <2>0 DEF Goto, Place
    <2>3. Return(w) \/ Defer(w) \/ Throws(w) =>
              /\ at'[w].pc \notin InLane
              /\ \A v \in Workers \ {w} : at'[v] = at[v]
      BY <2>0, Leaving DEF Types
    <2>4. ASSUME at'[w].pc \notin InLane, \A v \in Workers \ {w} : at'[v] = at[v],
                 lane' = FreeLane(w) \/ (at[w].pc \notin InLane /\ lane' = lane)
          PROVE  OneInLane'
      BY <2>1, <2>4 DEF FreeLane, OneInLane
    <2>5. CASE Guard(w)
      <3>1. at'[w].pc \notin InLane /\ \A v \in Workers \ {w} : at'[v] = at[v]
        BY <2>2, <2>3, <2>5 DEF Guard
      <3> QED
        BY <2>4, <2>5, <3>1 DEF Guard
    <2>6. CASE Block(w) \/ SendFails(w) \/ Record(w) \/ Error(w)
      <3>1. at'[w].pc \notin InLane /\ \A v \in Workers \ {w} : at'[v] = at[v]
        BY <2>3, <2>6 DEF Block, SendFails, Record, Error
      <3> QED
        BY <2>4, <2>6, <3>1 DEF Block, SendFails, Record, Error, Throws
    <2>7. CASE Acquire(w)
      BY <2>1, <2>2, <2>7 DEF Acquire, OneInLane
    <2>8. CASE SignTx(w)
      <3>1. at'[w].pc = "check" /\ \A v \in Workers \ {w} : at'[v] = at[v]
        BY <2>0, <2>8 DEF SignTx, Place
      <3> QED
        BY <2>1, <2>8, <3>1 DEF SignTx, OneInLane
    <2>9. CASE Check(w)
      <3>1. CASE Goto(w, "stamp") /\ UNCHANGED lane
        BY <2>1, <2>2, <2>9, <3>1 DEF Check, OneInLane
      <3>2. CASE ~(Goto(w, "stamp") /\ UNCHANGED lane)
        <4>1. /\ at'[w].pc = "record" /\ (\A v \in Workers \ {w} : at'[v] = at[v])
              /\ lane' = FreeLane(w)
          BY <2>0, <2>9, <3>2 DEF Check, Place
        <4> QED
          BY <2>1, <4>1 DEF FreeLane, OneInLane
      <3> QED
        BY <3>1, <3>2
    <2>10. CASE Stamp(w)
      <3>1. CASE Goto(w, "send") /\ UNCHANGED lane
        BY <2>1, <2>2, <2>10, <3>1 DEF Stamp, OneInLane
      <3>2. CASE ~(Goto(w, "send") /\ UNCHANGED lane)
        <4>1. (Return(w) \/ Defer(w) \/ Throws(w)) /\ lane' = FreeLane(w)
          BY <2>10, <3>2 DEF Stamp, Throws
        <4> QED
          BY <2>3, <2>4, <4>1
      <3> QED
        BY <3>1, <3>2
    <2>11. CASE SendOk(w)
      BY <2>1, <2>2, <2>11 DEF SendOk, FreeLane, OneInLane
    <2>12. CASE FailedHandler(w)
      <3>1. at'[w].pc = "idle" /\ (\A v \in Workers \ {w} : at'[v] = at[v]) /\ lane' = lane
        BY <2>0, <2>12 DEF FailedHandler, Idle
      <3> QED
        BY <2>1, <2>12, <3>1 DEF FailedHandler, OneInLane
    <2> QED
      BY <1>1, <2>5, <2>6, <2>7, <2>8, <2>9, <2>10, <2>11, <2>12 DEF Deliver
  <1>2. ASSUME NEW w \in Workers, NEW t \in Txs, Take(w, t) PROVE OneInLane'
    <2>1. at'[w].pc = "guard" /\ \A v \in Workers \ {w} : at'[v] = at[v]
      BY <1>2 DEF Take, Types, QueueTypes
    <2> QED
      BY <1>2, <2>1 DEF Take, OneInLane
  <1>3. ASSUME NEW w \in Workers, Crash(w) PROVE OneInLane'
    <2>1. at'[w].pc = "idle" /\ \A v \in Workers \ {w} : at'[v] = at[v]
      BY <1>3 DEF Crash, Idle, Types, QueueTypes
    <2> QED
      BY <1>3, <2>1 DEF Crash, OneInLane
  <1>4. CASE UNCHANGED <<at, lane>>
    BY <1>4 DEF OneInLane
  <1>5. ~LaneLapse
    BY DEF LaneLapse
  <1>6. CASE Chain
    BY <1>4, <1>6 DEF Chain, Evict, Mine, Surface, queueVars
  <1>7. CASE Bystander
    BY <1>4, <1>7, BystandersKeep
  <1> QED
    BY <1>1, <1>2, <1>3, <1>5, <1>6, <1>7 DEF TxNext, Deaths, Bystander

(* What a step does to the nodes in the timely case: only what a delivery  *)
(* sends is new, and what a delivery has sent stays known until it is      *)
(* recorded.                                                               *)
LEMMA KnownMoves ==
    ASSUME Types, Timely, hidden = {}, [TxNext]_txVars
    PROVE  /\ hidden' = {}
           /\ \A h : Known(h)' => \/ Known(h)
                                  \/ UNCHANGED row /\ \E w \in Workers : at[w].pc = "send" /\ at[w].hash = h
           /\ \A h \in Signed : Known(h) /\ Awaited(h) => Known(h)'
  <1> USE DEF Known, MinedHashes
  <1>1. CASE UNCHANGED chainVars
    BY <1>1 DEF chainVars
  <1>2. ASSUME NEW w \in Workers, SendOk(w) \/ SendFails(w)
        PROVE  /\ hidden' = {} /\ mined' = mined /\ at[w].pc = "send" /\ UNCHANGED row
               /\ pool' = pool \/ pool' = pool \cup {at[w].hash}
    BY <1>2 DEF SendOk, SendFails, Accepted, dbVars
  <1>3. ASSUME NEW h \in pool, Evict(h)
        PROVE  /\ UNCHANGED <<hidden, mined>> /\ pool' = pool \ {h} /\ ~Awaited(h)
    BY <1>3 DEF Evict
  <1>4. ASSUME NEW h \in pool, NEW ok \in BOOLEAN, Mine(h, ok)
        PROVE  /\ UNCHANGED hidden
               /\ \A g : Known(g)' => Known(g)
               /\ \A g \in Signed : Known(g) /\ Awaited(g) => Known(g)'
    <2>1. /\ mined' = mined \cup {[hash |-> h, ok |-> ok]}
          /\ pool' = {g \in pool : g.nonce > h.nonce}
          /\ \A g \in pool \ {h} : g.nonce <= h.nonce => ~Awaited(g)
          /\ UNCHANGED hidden
      BY <1>4 DEF Mine
    <2>2. MinedHashes' = MinedHashes \cup {h}
      <3> DEFINE r == [hash |-> h, ok |-> ok]
      <3>1. r.hash = h /\ mined' = mined \cup {r}
        BY <2>1
      <3> HIDE DEF r
      <3> QED
        BY <3>1
    <2>3. \A g \in Signed : g.nonce \in Nat
      BY DEF Signed
    <2>4. pool \subseteq Signed
      BY DEF Types, ChainTypes
    <2>5. \A g \in pool : g.nonce > h.nonce \/ g.nonce <= h.nonce
      BY <2>3, <2>4
    <2> QED
      BY <2>1, <2>2, <2>5
  <1>5. CASE Chain
    <2>1. ASSUME NEW h \in pool, Evict(h)
          PROVE  /\ hidden' = {}
                 /\ \A g : Known(g)' => Known(g)
                 /\ \A g \in Signed : Known(g) /\ Awaited(g) => Known(g)'
      <3>1. UNCHANGED <<hidden, mined>> /\ pool' = pool \ {h} /\ ~Awaited(h)
        BY <1>3, <2>1
      <3> QED
        BY <3>1
    <2> QED
      BY <1>4, <1>5, <2>1 DEF Chain
  <1>6. CASE \E w \in Workers : SendOk(w) \/ SendFails(w)
    <2>1. PICK w \in Workers : SendOk(w) \/ SendFails(w)
      BY <1>6
    <2>2. /\ hidden' = {} /\ mined' = mined /\ at[w].pc = "send" /\ UNCHANGED row
          /\ pool' = pool \/ pool' = pool \cup {at[w].hash}
      BY <1>2, <2>1
    <2> QED
      BY <2>2
  <1>7. ASSUME NEW w \in Workers, Deliver(w), ~(SendOk(w) \/ SendFails(w)) PROVE UNCHANGED chainVars
    BY <1>7 DEF Deliver, Guard, Block, Acquire, SignTx, Check, Stamp, Record, Error, FailedHandler
  <1>8. CASE \/ Bystander \/ LaneLapse
             \/ \E w \in Workers : Crash(w) \/ \E t \in Txs : Take(w, t)
    <2>1. UNCHANGED chainVars
      BY <1>8, BystandersKeep DEF LaneLapse, Crash, Take
    <2> QED
      BY <1>1, <2>1
  <1> QED
    BY <1>1, <1>5, <1>6, <1>7, <1>8 DEF TxNext, Deaths, Bystander

(* How a delivery comes to hold a transaction it will send, has sent or is *)
(* about to stamp.                                                         *)
LEMMA PlaceMoves ==
    ASSUME Types, [TxNext]_txVars, NEW w \in Workers
    PROVE  /\ at'[w].pc = "send" => at'[w] = at[w] \/ Stamping(w)
           /\ at'[w].pc = "record" => at'[w] = at[w] \/ Known(at[w].hash)'
           /\ at'[w].pc = "stamp" => at'[w] = at[w] \/ (UNCHANGED row /\ Fresh(w)')
  <1>0. at \in [Workers -> Place]
    BY DEF Types, QueueTypes
  <1>1. CASE at'[w] = at[w] \/ at'[w].pc \notin {"send", "record", "stamp"}
    BY <1>1
  <1>2. \A pc : Goto(w, pc) => at'[w].pc = pc /\ at'[w].hash = at[w].hash /\ at'[w].tx = at[w].tx
    BY <1>0 DEF Goto, Place
  <1>3. \A v \in Workers : Return(v) \/ Defer(v) \/ Throws(v) =>
            at[v].pc = "idle" \/ at'[w] = at[w] \/ at'[w].pc \notin {"send", "record", "stamp"}
    BY Leaving DEF Types
  <1>4. ASSUME NEW v \in Workers, Guard(v) \/ Block(v) \/ SendFails(v) \/ Record(v) \/ Error(v)
        PROVE  at'[w] = at[w] \/ at'[w].pc \notin {"send", "record", "stamp"}
    BY <1>0, <1>3, <1>4 DEF Guard, Block, SendFails, Record, Error, Goto, Place
  <1>5. ASSUME NEW v \in Workers, Acquire(v) \/ SignTx(v) \/ FailedHandler(v)
        PROVE  at'[w] = at[w] \/ at'[w].pc \notin {"send", "record", "stamp"}
    BY <1>0, <1>5 DEF Acquire, SignTx, FailedHandler, Goto, Idle, Place
  <1>6. ASSUME NEW v \in Workers \ {w}, Check(v) \/ Stamp(v) \/ SendOk(v)
        PROVE  at'[w] = at[w]
    BY <1>0, <1>6 DEF Check, Stamp, SendOk, Goto, Return, Defer, Throws
  <1>7. CASE Check(w)
    <2>1. UNCHANGED <<row, pool, mined>>
      BY <1>7 DEF Check, dbVars, chainVars
    <2>2. \A h : Known(h)' <=> Known(h)
      BY <2>1 DEF Known, MinedHashes
    <2> DEFINE earlier == row[at[w].tx].broadcastTxHash
    <2>3. CASE earlier \notin {NoHash, at[w].hash} /\ Known(earlier)
      <3>1. at'[w].pc = "record" /\ at'[w].hash = earlier
        BY <1>0, <1>7, <2>3 DEF Check, Row, Place
      <3> QED
        BY <2>1, <2>3, <3>1 DEF Known, MinedHashes
    <2>4. CASE ~(earlier \notin {NoHash, at[w].hash} /\ Known(earlier))
      <3>1. Goto(w, "stamp")
        BY <1>7, <2>4 DEF Check, Row
      <3>2. at'[w].pc = "stamp" /\ at'[w].hash = at[w].hash /\ at'[w].tx = at[w].tx
        BY <1>2, <3>1
      <3> QED
        BY <2>1, <2>4, <3>2 DEF Fresh, Known, MinedHashes
    <2> QED
      BY <2>3, <2>4
  <1>8. CASE Stamp(w)
    <2>1. CASE Unsent(Row(w)) /\ Goto(w, "send") /\ row' = [row EXCEPT ![at[w].tx] = Stamped(@, at[w].hash)]
      <3>1. Stamping(w)
        BY <1>8, <2>1 DEF Stamp, Stamping
      <3> QED
        BY <1>2, <2>1, <3>1
    <2>2. CASE Return(w) \/ Defer(w) \/ Throws(w)
      BY <1>1, <1>3, <1>8, <2>2 DEF Stamp
    <2> QED
      BY <1>8, <2>1, <2>2 DEF Stamp, Row
  <1>9. CASE SendOk(w)
    <2>1. at'[w].pc = "record" /\ at'[w].hash = at[w].hash
      BY <1>2, <1>9 DEF SendOk
    <2>2. at[w].hash \in pool' \/ at[w].hash \in MinedHashes'
      BY <1>9 DEF SendOk, Accepted, Known, MinedHashes
    <2> QED
      BY <2>1, <2>2 DEF Known
  <1>10. ASSUME NEW v \in Workers, Deliver(v)
         PROVE  \/ Check(w) \/ Stamp(w) \/ SendOk(w)
                \/ at'[w] = at[w] \/ at'[w].pc \notin {"send", "record", "stamp"}
    BY <1>4, <1>5, <1>6, <1>10 DEF Deliver
  <1>11. ASSUME NEW v \in Workers, (\E t \in Txs : Take(v, t)) \/ Crash(v)
         PROVE  at'[w] = at[w] \/ at'[w].pc \notin {"send", "record", "stamp"}
    <2>1. CASE Crash(v)
      BY <1>0, <2>1 DEF Crash, Idle
    <2>2. ASSUME NEW t \in Txs, Take(v, t)
          PROVE  at'[w] = at[w] \/ at'[w].pc \notin {"send", "record", "stamp"}
      BY <1>0, <2>2 DEF Take
    <2> QED
      BY <1>11, <2>1, <2>2
  <1>12. CASE Bystander \/ Chain \/ LaneLapse
    <2>1. UNCHANGED at
      BY <1>12, BystandersKeep DEF Chain, Evict, Mine, Surface, LaneLapse, queueVars
    <2> QED
      BY <2>1
  <1> QED
    BY <1>1, <1>7, <1>8, <1>9, <1>10, <1>11, <1>12 DEF TxNext, Deaths, Bystander

(* How a row comes by its hash, and how it fails: never attempted, or      *)
(* dropped with nothing known of it.                                       *)
LEMMA HashMoves ==
    ASSUME Types, NEW t \in Txs, RowMove(t)
    PROVE  /\ \/ row'[t].txHash = row[t].txHash
              \/ row[t].txHash = NoHash /\ row'[t].txHash = row[t].broadcastTxHash
              \/ \E w \in Workers : /\ at[w].pc = "record" /\ at[w].tx = t
                                    /\ row'[t].txHash = at[w].hash
           /\ row'[t].status = "FAILED" =>
                 \/ row[t].status = "FAILED"
                 \/ row[t].broadcastAttempts = 0 /\ row'[t].broadcastAttempts = 0
                 \/ /\ row[t].status = "SUBMITTED" /\ ~Known(row[t].txHash) /\ GraceElapsed(t)
                    /\ row'[t].txHash = row[t].txHash
  <1> DEFINE r == row[t]
             s == row'[t]
  <1>1. r \in TxRow
    BY DEF Types, RowTypes
  <1>2. CASE s = r
    BY <1>2
  <1>3. CASE s = Stopped(r)
    BY <1>1, <1>3 DEF Stopped, Unsent, TxRow
  <1>4. CASE \E h : Unsent(r) /\ s = Stamped(r, h)
    BY <1>1, <1>4 DEF Stamped, Unsent, TxRow
  <1>5. CASE \E w \in Workers : at[w].pc = "record" /\ at[w].tx = t /\ s = Submitted(r, at[w].hash)
    BY <1>1, <1>5 DEF Submitted, Unsent, TxRow
  <1>6. CASE \E m \in mined : s = [r EXCEPT !.status = Outcome(m.ok)]
    BY <1>1, <1>6 DEF Outcome, TxRow
  <1>7. CASE /\ r.status = "SUBMITTED" /\ ~Known(r.txHash) /\ GraceElapsed(t)
             /\ s = [r EXCEPT !.status = "FAILED"]
    BY <1>1, <1>7 DEF TxRow
  <1>8. CASE s = [r EXCEPT !.volume = SettledVolume(r)]
    BY <1>1, <1>8 DEF TxRow
  <1> QED
    BY <1>2, <1>3, <1>4, <1>5, <1>6, <1>7, <1>8 DEF RowMove

(* The attempt a row recorded last stays the only one of it. *)
LEMMA LastAttemptStep ==
    ASSUME Types, Types', Attempts, Attempts', Timely, OneInLane, LastAttempt, [TxNext]_txVars
    PROVE  LastAttempt'
  <1>1. /\ hidden' = {}
        /\ \A h : Known(h)' => \/ Known(h)
                               \/ UNCHANGED row /\ \E w \in Workers : at[w].pc = "send" /\ at[w].hash = h
        /\ \A h \in Signed : Known(h) /\ Awaited(h) => Known(h)'
    BY KnownMoves DEF LastAttempt
  <1>2. ASSUME NEW t \in Txs
        PROVE  \/ row'[t].broadcastTxHash = row[t].broadcastTxHash
               \/ \E w \in Workers : /\ Stamping(w) /\ at[w].tx = t /\ UNCHANGED chainVars
                                     /\ Unsent(row[t]) /\ row'[t].broadcastTxHash = at[w].hash
                                     /\ row'[t].status = row[t].status
                                     /\ row'[t].txHash = row[t].txHash
    <2>1. RowMove(t) /\ row \in [Txs -> TxRow]
      BY RowMoves DEF Attempts, Types, RowTypes
    <2>2. CASE row'[t].broadcastTxHash = row[t].broadcastTxHash
      BY <2>2
    <2>3. CASE row'[t].broadcastTxHash # row[t].broadcastTxHash
      <3>1. PICK w \in Workers : /\ Stamping(w) /\ at[w].tx = t
                                 /\ Unsent(row[t])
                                 /\ row'[t].status = row[t].status /\ row'[t].txHash = row[t].txHash
        BY <2>1, <2>3, AttemptsMove
      <3>2. row'[t] = Stamped(row[t], at[w].hash)
        BY <2>1, <3>1 DEF Stamping
      <3>3. row'[t].broadcastTxHash = at[w].hash
        BY <2>1, <3>2 DEF Stamped, TxRow
      <3> QED
        BY <3>1, <3>3 DEF Stamping
    <2> QED
      BY <2>2, <2>3
  <1>3. \A v, w \in Workers : Stamping(v) /\ at[w].pc \in {"stamp", "send"} => v = w
    BY DEF Stamping, OneInLane, InLane
  <1>4. \A w \in Workers : Stamping(w) => /\ at[w].pc = "stamp" /\ at'[w].pc = "send"
                                          /\ at'[w].hash = at[w].hash /\ at'[w].tx = at[w].tx
    BY DEF Stamping, Goto, Types, QueueTypes, Place
  <1>5. \A w \in Workers : /\ at[w].pc # "idle" => at[w].tx \in Txs
                           /\ at[w].pc \in Carrying => at[w].hash \in Signed /\ at[w].hash.tx = at[w].tx
    BY DEF Types, Deliveries
  <1>6. \A h : Known(h) => h \in Signed /\ h.tx \in Txs /\ h # NoHash
    BY HashAssumption DEF Known, MinedHashes, Types, ChainTypes, Receipt, Signed
  <1>7. \A h : Known(h) => h = row[h.tx].broadcastTxHash
    BY DEF LastAttempt, Known
  <1>8. ASSUME NEW h, Known(h)' PROVE h = row'[h.tx].broadcastTxHash
    <2>1. CASE Known(h)
      <3>1. h.tx \in Txs /\ h # NoHash /\ h = row[h.tx].broadcastTxHash
        BY <1>6, <1>7, <2>1
      <3>2. CASE row'[h.tx].broadcastTxHash = row[h.tx].broadcastTxHash
        BY <3>1, <3>2
      <3>3. ASSUME NEW w \in Workers, Stamping(w), at[w].tx = h.tx,
                   row'[h.tx].broadcastTxHash = at[w].hash
            PROVE  h = row'[h.tx].broadcastTxHash
        <4>1. Fresh(w)
          BY <1>4, <3>3 DEF LastAttempt
        <4> QED
          BY <2>1, <3>1, <3>3, <4>1 DEF Fresh
      <3> QED
        BY <1>2, <3>1, <3>2, <3>3
    <2>2. CASE ~Known(h)
      <3>1. PICK w \in Workers : at[w].pc = "send" /\ at[w].hash = h /\ UNCHANGED row
        BY <1>1, <1>8, <2>2
      <3> QED
        BY <1>5, <3>1 DEF LastAttempt, Carrying
    <2> QED
      BY <2>1, <2>2
  <1>9. ASSUME NEW w \in Workers, at'[w].pc = "send"
        PROVE  at'[w].hash = row'[at'[w].tx].broadcastTxHash
    <2>1. CASE Stamping(w)
      <3>1. at[w].tx \in Txs /\ row \in [Txs -> TxRow] /\ Row(w) = row[at[w].tx]
        BY <1>4, <1>5, <2>1 DEF Types, RowTypes, Row
      <3>2. row'[at[w].tx] = Stamped(row[at[w].tx], at[w].hash)
        BY <2>1, <3>1 DEF Stamping
      <3>3. row'[at[w].tx].broadcastTxHash = at[w].hash
        BY <3>1, <3>2 DEF Stamped, TxRow
      <3> QED
        BY <1>4, <2>1, <3>3
    <2>2. CASE ~Stamping(w)
      <3>1. at'[w] = at[w]
        BY <1>9, <2>2, PlaceMoves
      <3>2. at[w].tx \in Txs /\ at[w].hash = row[at[w].tx].broadcastTxHash
        BY <1>5, <1>9, <3>1 DEF LastAttempt
      <3>3. row'[at[w].tx].broadcastTxHash = row[at[w].tx].broadcastTxHash
        BY <1>2, <1>3, <1>9, <2>2, <3>1, <3>2
      <3> QED
        BY <3>1, <3>2, <3>3
    <2> QED
      BY <2>1, <2>2
  <1>10. ASSUME NEW w \in Workers, at'[w].pc = "record" PROVE Known(at[w].hash)'
    <2>1. CASE at'[w] = at[w]
      <3>1. Known(at[w].hash) /\ at[w].hash \in Signed /\ Awaited(at[w].hash)
        BY <1>5, <1>10, <2>1 DEF LastAttempt, Carrying, Awaited
      <3>2. \A h \in Signed : Known(h) /\ Awaited(h) => Known(h)'
        BY <1>1
      <3> DEFINE h == at[w].hash
      <3>3. Known(h)'
        <4> SUFFICES ASSUME NEW g \in Signed, Known(g), Awaited(g), g = at'[w].hash
                     PROVE  Known(at[w].hash)'
          BY <2>1, <3>1
        <4>1. Known(g)'
          BY <3>2
        <4> QED
          BY <4>1 DEF Known
      <3> QED
        BY <3>3
    <2>2. CASE at'[w] # at[w]
      BY <1>10, <2>2, PlaceMoves DEF Known
    <2> QED
      BY <2>1, <2>2
  <1>11. ASSUME NEW w \in Workers, at'[w].pc = "stamp" PROVE Fresh(w)'
    <2>1. CASE at'[w] # at[w]
      BY <1>11, <2>1, PlaceMoves
    <2>2. CASE at'[w] = at[w]
      <3>1. at[w].pc = "stamp" /\ Fresh(w) /\ at[w].tx \in Txs
        BY <1>5, <1>11, <2>2 DEF LastAttempt
      <3>2. row'[at[w].tx].broadcastTxHash = row[at[w].tx].broadcastTxHash
        BY <1>2, <1>3, <1>4, <1>11, <3>1
      <3>3. \A v \in Workers : at[v].pc # "send"
        BY <3>1 DEF OneInLane, InLane
      <3>4. \A h : Known(h)' => Known(h)
        BY <1>1, <3>3
      <3> QED
        BY <2>2, <3>1, <3>2, <3>4 DEF Fresh, Known
    <2> QED
      BY <2>1, <2>2
  <1>12. ASSUME NEW t \in Txs, row'[t].txHash # NoHash
         PROVE  row'[t].txHash = row'[t].broadcastTxHash
    <2>1. RowMove(t)
      BY RowMoves DEF Attempts
    <2>2. CASE \E w \in Workers : /\ Stamping(w) /\ at[w].tx = t /\ Unsent(row[t])
                                  /\ row'[t].txHash = row[t].txHash
      BY <1>12, <2>2 DEF Unsent
    <2>3. CASE row'[t].broadcastTxHash = row[t].broadcastTxHash
      <3>1. CASE row'[t].txHash = row[t].txHash
        BY <1>12, <2>3, <3>1 DEF LastAttempt
      <3>2. CASE row'[t].txHash = row[t].broadcastTxHash
        BY <2>3, <3>2
      <3>3. ASSUME NEW w \in Workers, at[w].pc = "record", at[w].tx = t, row'[t].txHash = at[w].hash
            PROVE  row'[t].txHash = row[t].broadcastTxHash
        <4>1. Known(at[w].hash) /\ at[w].hash.tx = t
          BY <1>5, <3>3 DEF LastAttempt, Carrying
        <4> QED
          BY <1>7, <3>3, <4>1
      <3> QED
        BY <2>1, <2>3, <3>1, <3>2, <3>3, HashMoves
    <2> QED
      BY <1>2, <2>2, <2>3
  <1>13. ASSUME NEW t \in Txs, row'[t].status = "FAILED"
         PROVE  /\ \A h : Known(h)' => h.tx # t
                /\ \A w \in Workers : at'[w].pc = "send" => at'[w].tx # t
    <2>0. RowMove(t) /\ row[t] \in TxRow
      BY RowMoves DEF Attempts, Types, RowTypes
    <2>1. \A w \in Workers : Stamping(w) => at[w].tx # t
      <3> SUFFICES ASSUME NEW w \in Workers, Stamping(w), at[w].tx = t PROVE FALSE
        OBVIOUS
      <3>1. row'[t] = Stamped(row[t], at[w].hash) /\ Unsent(row[t])
        BY DEF Stamping, Types, RowTypes, Row
      <3> QED
        BY <1>13, <2>0, <3>1 DEF Stamped, Unsent, TxRow
    <2>2. ASSUME \A h : Known(h) => h.tx # t,
                 \A w \in Workers : at[w].pc = "send" => at[w].tx # t
          PROVE  /\ \A h : Known(h)' => h.tx # t
                 /\ \A w \in Workers : at'[w].pc = "send" => at'[w].tx # t
      <3>1. ASSUME NEW h, Known(h)' PROVE h.tx # t
        BY <1>1, <1>5, <2>2, <3>1 DEF Carrying
      <3>2. ASSUME NEW w \in Workers, at'[w].pc = "send" PROVE at'[w].tx # t
        BY <1>4, <2>1, <2>2, <3>2, PlaceMoves
      <3> QED
        BY <3>1, <3>2
    <2>3. CASE row[t].status = "FAILED"
      BY <2>2, <2>3 DEF LastAttempt, Known
    <2>4. CASE row[t].broadcastAttempts = 0
      <3>1. \A h \in Wire : h.tx # t
        BY <2>4 DEF Attempts, Stamps
      <3>2. \A h : Known(h) => h \in Wire
        BY DEF Known, Wire
      <3>3. \A w \in Workers : at[w].pc = "send" => at[w].hash \in Wire /\ at[w].hash.tx = at[w].tx
        BY <1>5 DEF Wire, InFlight, Carrying
      <3> QED
        BY <2>2, <3>1, <3>2, <3>3
    <2>5. CASE row[t].status = "SUBMITTED" /\ ~Known(row[t].txHash) /\ GraceElapsed(t)
      <3>1. row[t].txHash = row[t].broadcastTxHash
        BY <2>5 DEF Attempts, Columns, LastAttempt
      <3>2. \A h : Known(h) => h.tx # t
        BY <1>7, <2>5, <3>1
      <3>3. \A w \in Workers : at[w].pc = "send" => at[w].tx # t
        BY <2>5, <3>1 DEF GraceElapsed, LastAttempt
      <3> QED
        BY <2>2, <3>2, <3>3
    <2> QED
      BY <1>13, <2>0, <2>3, <2>4, <2>5, HashMoves
  <1>14. \A h \in pool' \cup MinedHashes' : Known(h)'
    BY DEF Known
  <1> QED
    BY <1>1, <1>8, <1>9, <1>10, <1>11, <1>12, <1>13, <1>14 DEF LastAttempt, Known

(* At the start the lane is free and nothing was attempted. *)
LEMMA InitInTime == TxInit => InTime
  BY PipelineAssumption
     DEF TxInit, InTime, OneInLane, InLane, LastAttempt, MinedHashes

(***************************************************************************)
(* The invariant, and what follows from it.                                *)
(***************************************************************************)
TxInv == Types /\ Attempts /\ Handled /\ InTime

(* Every step keeps it. *)
LEMMA TxInvStep == TxInv /\ [TxNext]_txVars => TxInv'
  <1> SUFFICES ASSUME TxInv, [TxNext]_txVars PROVE TxInv'
    OBVIOUS
  <1>1. Types' /\ Attempts'
    BY NextTypes, AttemptsStep DEF TxInv
  <1>2. Handled'
    BY HandledStep DEF TxInv, Attempts
  <1>3. Timely' = Timely
    BY KindsKept DEF TxInv, Attempts
  <1>4. InTime'
    BY <1>1, <1>3, LaneStep, LastAttemptStep DEF TxInv, InTime
  <1> QED
    BY <1>1, <1>2, <1>4 DEF TxInv

(* It holds throughout. *)
LEMMA TxInvHolds == TxSpec => []TxInv
  <1>1. TxInit => TxInv
    BY InitTypes, InitAttempts, InitHandled, InitInTime DEF TxInv
  <1> QED
    BY <1>1, TxInvStep, PTL DEF TxSpec

(* The state of the pipeline is well typed, and in the timely case the     *)
(* wallet lane is never left held by a delivery that is out of it.         *)
THEOREM PipelineTypeCorrect == TxSpec => []TxTypeOK
  <1>1. TxInv => TxTypeOK
    <2> SUFFICES ASSUME TxInv PROVE TxTypeOK
      OBVIOUS
    <2>1. Types
      BY DEF TxInv
    <2>2. LaneTypeOK
      BY <2>1 DEF TxInv, InTime, OneInLane, LaneTypeOK, Types, QueueTypes
    <2>3. ASSUME NEW t \in Txs
          PROVE  /\ row[t].kind \in Kinds
                 /\ row[t].status \in TxStatus
                 /\ {row[t].txHash, row[t].broadcastTxHash} \subseteq Hashes
                 /\ row[t].broadcastAttempts \in Nat
                 /\ row[t].volume \in {"NONE", "RESERVED", "COMMITTED", "RELEASED", "HELD"}
                 /\ bull[t].state \in {"missing", "waiting", "active", "completed", "failed"}
                 /\ bull[t].made \in 0..MaxAttempts
      BY <2>1 DEF Types, RowTypes, QueueTypes, TxRow, BullJob, BullStates, Volumes
    <2>4. watch \cup pool \cup hidden \cup MinedHashes \subseteq Signed
      BY <2>1 DEF Types, WatchTypes, ChainTypes, MinedHashes, Receipt
    <2> QED
      BY <2>1, <2>2, <2>3, <2>4 DEF TxTypeOK, Types, RowTypes, QueueTypes, EnvTypes
  <1> QED
    BY <1>1, TxInvHolds, PTL

(* In the timely case all receipts of a row are for its last attempt, so   *)
(* there is one at most: the chain mines a nonce once.                     *)
LEMMA OneReceipt ==
    ASSUME TxInv, Timely, NEW m \in mined, NEW n \in mined, m.hash.tx = n.hash.tx
    PROVE  m = n
  <1>1. m.hash = row[m.hash.tx].broadcastTxHash /\ n.hash = row[m.hash.tx].broadcastTxHash
    BY DEF TxInv, InTime, LastAttempt, MinedHashes
  <1> QED
    BY <1>1 DEF TxInv, Attempts, MinedOnce

(* The value of a row moves at most once, whatever is redelivered, retried *)
(* or lost between the signature and the SUBMITTED write.                  *)
THEOREM ExecutedOnce == TxSpec => []ExecutedAtMostOnce
  <1>1. TxInv => ExecutedAtMostOnce
    <2> SUFFICES ASSUME TxInv, Timely, NEW t \in Txs PROVE Cardinality(Executions(t)) <= 1
      BY DEF ExecutedAtMostOnce
    <2>1. CASE Executions(t) = {}
      BY <2>1, FS_EmptySet
    <2>2. CASE Executions(t) # {}
      <3>1. PICK m : m \in Executions(t)
        BY <2>2
      <3>2. \A n \in Executions(t) : n = m
        BY <3>1, OneReceipt DEF Executions
      <3>3. Executions(t) = {m}
        BY <3>1, <3>2
      <3>4. Cardinality({m}) = 1
        BY FS_Singleton
      <3>5. Cardinality(Executions(t)) = 1
        BY <3>3, <3>4
      <3> QED
        BY <3>5
    <2> QED
      BY <2>1, <2>2
  <1> QED
    BY <1>1, TxInvHolds, PTL

(* The database forgets no transaction that is mined: each receipt is for  *)
(* a hash in the row it belongs to.                                        *)
THEOREM ReceiptsTraced == TxSpec => []ReceiptsAreTraceable
  <1>1. TxInv => ReceiptsAreTraceable
    BY DEF TxInv, InTime, LastAttempt, MinedHashes, ReceiptsAreTraceable
  <1> QED
    BY <1>1, TxInvHolds, PTL

(* The books agree with the chain: refunds and releases are for what did   *)
(* not execute and never will, completions and commitments for what did.   *)
THEOREM BooksAgree == TxSpec => []BooksMatchChain
  <1>1. TxInv => BooksMatchChain
    <2> SUFFICES ASSUME TxInv, Timely, NEW t \in Txs
                 PROVE  /\ row[t].status \in {"FAILED", "REVERTED"} => Executions(t) = {}
                        /\ row[t].status = "CONFIRMED" \/ row[t].volume = "COMMITTED"
                              => Executions(t) # {}
                        /\ t \in A2A =>
                              /\ job[t] = "PAYMENT_FAILED" \/ reservation[t] = "CANCELLED"
                                    => Executions(t) = {}
                              /\ job[t] = "COMPLETED" \/ reservation[t] = "RELEASED"
                                    => Executions(t) # {}
      BY DEF BooksMatchChain
    <2>1. row[t].txHash # NoHash => row[t].txHash.tx = t
      BY DEF TxInv, Types, RowTypes, OwnRow, Own
    <2>2. row[t].status = "FAILED" => Executions(t) = {}
      BY DEF TxInv, InTime, LastAttempt, MinedHashes, Executions
    <2>3. ASSUME row[t].status = "REVERTED" PROVE Executions(t) = {}
      <3>1. PICK m \in mined : m.hash = row[t].txHash /\ ~m.ok
        BY <2>3 DEF TxInv, Attempts, Columns
      <3>2. m.hash.tx = t
        BY <2>1, <2>3, <3>1 DEF TxInv, Attempts, Columns
      <3> QED
        BY <3>1, <3>2, OneReceipt DEF Executions
    <2>4. ASSUME row[t].status = "CONFIRMED" PROVE Executions(t) # {}
      <3>1. PICK m \in mined : m.hash = row[t].txHash /\ m.ok
        BY <2>4 DEF TxInv, Attempts, Columns
      <3> QED
        BY <2>1, <2>4, <3>1 DEF TxInv, Attempts, Columns, Executions
    <2>5. row[t].volume = "COMMITTED" => row[t].status = "CONFIRMED"
      BY DEF TxInv, Attempts, Columns
    <2> QED
      BY <2>2, <2>3, <2>4, <2>5 DEF TxInv, Handled, Lost
  <1> QED
    BY <1>1, TxInvHolds, PTL
=============================================================================
