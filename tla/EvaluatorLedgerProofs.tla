------------------------- MODULE EvaluatorLedgerProofs -------------------------
(***************************************************************************)
(* Theorems about EvaluatorLedger, for any jobs, nodes and scenarios.      *)
(* What the nodes say of a nonce below the proof tag cannot change any     *)
(* more, so what the pass concludes there is final; and a sender that was  *)
(* let through the gate meets no rival that could still be mined, unless   *)
(* the stamp of the job came back under it.                                *)
(***************************************************************************)
EXTENDS EvaluatorLedger, FiniteSetTheorems, TLAPS

(* A non-empty set of natural numbers has a least one. *)
LEMMA LeastNumber ==
    ASSUME NEW T, T \subseteq Nat, T # {}
    PROVE  \E m \in T : \A k \in T : m <= k
  <1> DEFINE R == OpToRel(<, Nat)
  <1>1. IsWellFoundedOn(R, Nat)
    BY NatLessThanWellFounded, Zenon
  <1>2. \A x, y \in Nat : y < x => <<y, x>> \in R
    BY DEF OpToRel
  <1> HIDE DEF R
  <1>3. PICK m \in T : \A k \in T : ~ (<<k, m>> \in R)
    BY <1>1, WFMin
  <1>4. \A k \in T : ~ (k < m)
    BY <1>2, <1>3
  <1> QED
    BY <1>4

Calls    == {"pay", "refund", "noop"}
Kinds    == {"ORIGINAL", "SPEED_UP", "CANCEL", "EXTERNAL"}
RowType  == [nonce : Nat, job : Jobs \cup {NoJob}, call : Calls, kind : Kinds, status : Statuses,
             level : {"none", "latest", "proof"}, fork : Nat]
NewRow   == {r \in RowType : Ours(r) /\ r.status = "LIVE" /\ r.level = "none"}
BlockType == [tx : Nat, ok : BOOLEAN, fork : Nat]

(* The rows of the ledger.  A row is unresolved exactly while it is live. *)
LedgerOK ==
    /\ rows \in Seq(RowType)
    /\ \A i \in Ids : Live(i) <=> rows[i].level = "none"
    /\ \E b \in Nat : \A i \in Ids : rows[i].nonce <= b
    /\ stamp \in [Jobs -> Nat] /\ \A j \in Jobs : stamp[j] <= Len(rows)

(* The chain: a transaction of ours is one of the ledger, and no foreign   *)
(* one reverts.                                                            *)
ChainOK ==
    /\ chain \in Seq(BlockType)
    /\ \A k \in 1..Len(chain) : chain[k].tx <= Len(rows) /\ (chain[k].tx = Foreign => chain[k].ok)
    /\ tag \in 0..Latest /\ fork \in Nat /\ refused \subseteq Jobs
    /\ wire \subseteq Ids /\ \A i \in wire : Ours(rows[i])

(* The senders: a worker signs the decision it was asked for, the script    *)
(* the one of the row it replaces.                                          *)
Sends == [pc : {"idle", "gated", "chosen", "recorded"}, row : NewRow, of : Nat, seen : Nat]

Fits(s, v) ==
    /\ v \in Sends
    /\ v.pc = "recorded" => v.of \in Ids /\ Ours(rows[v.of])
    /\ s \in Workers =>
          /\ v.seen <= Len(rows)
          /\ v.pc = "chosen" => v.row.kind = "ORIGINAL" /\ v.row.job = s[1] /\ v.row.call = s[2]
    /\ s = Operator =>
          /\ v.pc # "gated"
          /\ v.pc = "chosen" => v.row.kind \in {"SPEED_UP", "CANCEL"}
          /\ v.pc = "chosen" /\ v.row.kind = "SPEED_UP" =>
                v.of \in Ids /\ Decides(rows[v.of]) /\ rows[v.of].call = v.row.call

SendOK ==
    /\ send \in [Senders -> Sends] /\ \A s \in Senders : Fits(s, send[s])
    /\ lane \in Senders \cup {NoOne}

(* What row i is told of itself by a node that is asked now. *)
Receipt(i) == IF In(chain, i, rows[i]) THEN chain[rows[i].nonce + 1] ELSE NoBlock

Same(r, q) == r.nonce = q.nonce /\ r.job = q.job /\ r.call = q.call /\ r.kind = q.kind

Receipts == UNION {[D -> BlockType] : D \in SUBSET Ids}
Read     == UNION {[D -> RowType] : D \in SUBSET Ids}
ViewType == [latest : SUBSET Nat, proof : SUBSET Nat, receipts : Receipts, known : SUBSET Ids,
             at : {"ask", "nonces", "done"}]

(* The pass: below the proof tag its answers are what any node says now. *)
PassOK ==
    /\ pass \in [pc : {"idle", "read", "head"}, rows : Read, todo : SUBSET Nat,
                 views : [Nodes -> ViewType]]
    /\ \A i \in DOMAIN pass.rows : Same(pass.rows[i], rows[i])
    /\ \A n \in Nodes : \A k \in View(n).proof : k < tag
    /\ \A n \in Nodes : View(n).at = "done" =>
          /\ DOMAIN View(n).receipts = DOMAIN pass.rows
          /\ \A i \in DOMAIN pass.rows :
                rows[i].nonce \in View(n).proof => View(n).receipts[i] = Receipt(i)

(* What the chain must say of a row that the ledger calls proven. *)
Final(i, r) ==
    /\ r.nonce < tag
    /\ IF r.status = "DEAD" THEN chain[r.nonce + 1].tx # Tx(i, r)
       ELSE LET block == chain[r.nonce + 1] IN
            block.tx = Tx(i, r) /\ block.fork = r.fork /\ r.status = Outcome(block)

ProvenOK == \A i \in Ids : rows[i].level = "proof" => Final(i, rows[i])

LedInv == LedgerOK /\ ChainOK /\ SendOK /\ PassOK /\ ProvenOK

(* Rows of a job that carry another decision than `call`. *)
RivalsOf(j, call) == {i \in Ids : rows[i].job = j /\ Decides(rows[i]) /\ rows[i].call # call}

(* A worker that was let through the gate, and whose stamp still stands,    *)
(* has no rival that could be mined, if the stamp never came back.          *)
Gated ==
    \A s \in Workers :
        (/\ send[s].pc \in {"gated", "chosen"} /\ stamp[s[1]] = send[s].seen
         /\ s[1] \notin returned)
        => \A i \in RivalsOf(s[1], s[2]) : Buried(i)

DecInv == OneDecision /\ Gated

(***************************************************************************)
(* What a step may do to the rows and to the chain.                        *)
(***************************************************************************)
RowsMove ==
    /\ rows' \in Seq(RowType) /\ Len(rows) <= Len(rows')
    /\ \A i \in Ids : i \in Ids' /\ Same(rows'[i], rows[i])

ChainMove ==
    /\ chain' \in Seq(BlockType) /\ tag' \in Nat /\ tag <= tag' /\ tag' <= Len(chain')
    /\ \A k \in 1..tag : chain'[k] = chain[k]

(* A step that leaves the rows alone moves none of them. *)
LEMMA StillRows ==
    ASSUME LedgerOK, UNCHANGED rows
    PROVE  RowsMove
  BY DEF LedgerOK, RowsMove, Same, Ids

(* A step that leaves chain and tag alone undoes nothing below the tag. *)
LEMMA StillChain ==
    ASSUME ChainOK, UNCHANGED <<chain, tag>>
    PROVE  ChainMove
  BY DEF ChainOK, ChainMove, Latest

(* Rows and stamps that do not change stay in order. *)
LEMMA KeepLedger ==
    ASSUME LedgerOK, UNCHANGED <<rows, stamp>>
    PROVE  LedgerOK'
  BY DEF LedgerOK, Live, Ids

(* Rows that are added or rewritten do not break the chain. *)
LEMMA KeepChain ==
    ASSUME LedgerOK, ChainOK, RowsMove, UNCHANGED <<wire, chain, tag, fork, refused>>
    PROVE  ChainOK'
  <1>1. Len(rows) \in Nat /\ Len(rows') \in Nat
    BY DEF LedgerOK, RowsMove
  <1>2. \A k \in 1..Len(chain) : chain[k].tx \in Nat
    <2>1. chain \in Seq(BlockType)
      BY DEF ChainOK
    <2>2. ASSUME NEW k \in 1..Len(chain) PROVE chain[k] \in BlockType
      BY <2>1
    <2> QED
      BY <2>2 DEF BlockType
  <1>3. \A k \in 1..Len(chain) : chain[k].tx <= Len(rows')
    BY <1>1, <1>2 DEF ChainOK, RowsMove
  <1> QED
    BY <1>3 DEF ChainOK, RowsMove, Latest, Ours, Same

(* What a sender holds still fits when rows are added or rewritten. *)
LEMMA StillFits ==
    ASSUME LedgerOK, RowsMove, NEW s \in Senders, NEW v, Fits(s, v)
    PROVE  Fits(s, v)'
  <1>1. Len(rows) \in Nat /\ Len(rows') \in Nat /\ Len(rows) <= Len(rows')
    BY DEF LedgerOK, RowsMove
  <1>2. v.seen \in Nat
    BY DEF Fits, Sends
  <1>3. v.seen <= Len(rows) => v.seen <= Len(rows')
    BY <1>1, <1>2
  <1>4. ASSUME v.of \in Ids
        PROVE  /\ v.of \in Ids' /\ Ours(rows'[v.of]) = Ours(rows[v.of])
               /\ Decides(rows'[v.of]) = Decides(rows[v.of])
               /\ rows'[v.of].call = rows[v.of].call
    BY <1>4 DEF RowsMove, Same, Ours, Decides
  <1> QED
    BY <1>3, <1>4 DEF Fits

(* The senders rest; the lane may be lost. *)
LEMMA KeepSend ==
    ASSUME LedgerOK, SendOK, RowsMove, UNCHANGED send, lane' \in {lane, NoOne}
    PROVE  SendOK'
  <1>1. ASSUME NEW s \in Senders PROVE Fits(s, send[s])'
    <2>1. PICK v : v = send[s]
      OBVIOUS
    <2>2. Fits(s, v)'
      BY <2>1, StillFits DEF SendOK
    <2>3. v = send'[s]
      BY <2>1
    <2> QED
      BY <2>2, <2>3 DEF Fits, Ids
  <1> QED
    BY <1>1 DEF SendOK

(* One sender moves. *)
LEMMA OneSends ==
    ASSUME LedgerOK, SendOK, RowsMove, NEW s \in Senders, NEW v, Fits(s, v)',
           send' = [send EXCEPT ![s] = v], lane' \in Senders \cup {NoOne}
    PROVE  SendOK'
  <1>1. send' \in [Senders -> Sends]
    BY DEF SendOK, Fits
  <1>2. ASSUME NEW z \in Senders PROVE Fits(z, send[z])'
    <2>1. CASE z = s
      <3>1. send'[z] = v
        BY <2>1 DEF SendOK
      <3> QED
        BY <2>1, <3>1 DEF Fits, Ids
    <2>2. CASE z # s
      <3>1. PICK w : w = send[z]
        OBVIOUS
      <3>2. Fits(z, w)'
        BY <3>1, StillFits DEF SendOK
      <3>3. send'[z] = w
        BY <2>2, <3>1 DEF SendOK
      <3> QED
        BY <3>2, <3>3 DEF Fits, Ids
    <2> QED
      BY <2>1, <2>2
  <1> QED
    BY <1>1, <1>2 DEF SendOK

(* Below the proof tag a row is told the same for ever. *)
LEMMA ReceiptKept ==
    ASSUME LedgerOK, ChainOK, RowsMove, ChainMove, NEW i \in Ids, rows[i].nonce < tag
    PROVE  Receipt(i)' = Receipt(i)
  <1>1. /\ rows[i] \in RowType /\ rows'[i] \in RowType /\ Same(rows'[i], rows[i])
    BY DEF LedgerOK, RowsMove, Ids
  <1> DEFINE n == rows[i].nonce
  <1>2. n \in Nat /\ rows'[i].nonce = n /\ Tx(i, rows'[i]) = Tx(i, rows[i])
    BY <1>1 DEF RowType, Same, Tx, Ours
  <1>3. tag \in Nat /\ tag <= Len(chain) /\ Len(chain) \in Nat /\ tag' \in Nat /\ tag <= tag'
        /\ tag' <= Len(chain') /\ Len(chain') \in Nat
    BY DEF ChainOK, ChainMove, Latest
  <1> HIDE DEF n
  <1>4. n < tag
    BY DEF n
  <1>5. n < Len(chain) /\ n < Len(chain') /\ n + 1 \in 1..tag
    BY <1>2, <1>3, <1>4
  <1>6. chain'[n + 1] = chain[n + 1]
    BY <1>5 DEF ChainMove
  <1> QED
    BY <1>2, <1>5, <1>6 DEF Receipt, In, n

(* The pass is done with a nonce. *)
LEMMA PassShrinks ==
    ASSUME LedgerOK, ChainOK, PassOK, RowsMove, ChainMove, NEW T \in SUBSET pass.todo,
           pass' = [pass EXCEPT !.todo = T]
    PROVE  PassOK'
  <1>1. Ids \subseteq Ids'
    BY DEF RowsMove
  <1>2. /\ pass'.pc = pass.pc /\ pass'.rows = pass.rows /\ pass'.todo = T /\ pass'.views = pass.views
        /\ T \in SUBSET Nat
    BY DEF PassOK
  <1>3. Read \subseteq Read' /\ Receipts \subseteq Receipts'
    BY <1>1 DEF Read, Receipts
  <1>4. ViewType \subseteq ViewType'
    BY <1>1, <1>3 DEF ViewType
  <1>5. pass' \in [pc : {"idle", "read", "head"}, rows : Read', todo : SUBSET Nat,
                   views : [Nodes -> ViewType']]
    BY <1>2, <1>3, <1>4 DEF PassOK
  <1>6. DOMAIN pass.rows \subseteq Ids
    BY DEF PassOK, Read
  <1>7. \A i \in DOMAIN pass.rows : Same(pass.rows[i], rows'[i])
    BY <1>6 DEF PassOK, RowsMove, Same
  <1>8. ASSUME NEW n \in Nodes, NEW k \in View(n).proof PROVE k < tag /\ k < tag'
    <2>1. k \in Nat /\ k < tag
      BY DEF PassOK, ViewType, View
    <2> QED
      BY <2>1 DEF ChainOK, ChainMove
  <1>9. ASSUME NEW n \in Nodes, View(n).at = "done", NEW i \in DOMAIN pass.rows,
               rows'[i].nonce \in View(n).proof
        PROVE  View(n).receipts[i] = Receipt(i)'
    <2>1. rows'[i].nonce = rows[i].nonce
      BY <1>6 DEF RowsMove, Same
    <2>2. rows[i].nonce < tag
      BY <1>8, <1>9, <2>1
    <2> QED
      BY <1>6, <1>9, <2>1, <2>2, ReceiptKept DEF PassOK
  <1>10. \A n \in Nodes : View(n)' = View(n)
    BY <1>2 DEF View
  <1> QED
    BY <1>2, <1>5, <1>7, <1>8, <1>9, <1>10 DEF PassOK

(* The pass looks away. *)
LEMMA KeepPass ==
    ASSUME LedgerOK, ChainOK, PassOK, RowsMove, ChainMove, UNCHANGED pass
    PROVE  PassOK'
  <1>1. pass' = [pass EXCEPT !.todo = pass.todo]
    BY DEF PassOK
  <1> QED
    BY <1>1, PassShrinks

(* What is proven stays so while the chain below the tag stays. *)
LEMMA KeepProven ==
    ASSUME LedgerOK, ChainOK, ProvenOK, ChainMove, UNCHANGED rows
    PROVE  ProvenOK'
  <1> SUFFICES ASSUME NEW i \in Ids, rows[i].level = "proof"
               PROVE  /\ rows[i].nonce < tag'
                      /\ chain'[rows[i].nonce + 1] = chain[rows[i].nonce + 1]
    BY DEF ProvenOK, Final, Ids, Tx
  <1>1. rows[i].nonce \in Nat /\ rows[i].nonce < tag
    <2>1. rows[i] \in RowType
      BY DEF LedgerOK, Ids
    <2>2. Final(i, rows[i])
      BY DEF ProvenOK
    <2> QED
      BY <2>1, <2>2 DEF Final, RowType
  <1>2. rows[i].nonce + 1 \in 1..tag /\ rows[i].nonce < tag'
    BY <1>1 DEF ChainOK, ChainMove
  <1> QED
    BY <1>2 DEF ChainMove

(* A step that leaves the ledger, the chain and the pass alone. *)
LEMMA OnlySends ==
    ASSUME LedInv, UNCHANGED <<rows, stamp, chain, tag, fork, refused, pass>>
    PROVE  /\ LedgerOK' /\ PassOK' /\ ProvenOK'
           /\ UNCHANGED wire => ChainOK'
  BY StillRows, StillChain, KeepLedger, KeepChain, KeepPass, KeepProven DEF LedInv

(***************************************************************************)
(* The chain.                                                              *)
(***************************************************************************)
LEMMA ChainSteps ==
    ASSUME LedInv, Mine \/ ProofCatchesUp \/ ForeignMines \/ Reorg
    PROVE  LedInv'
  <1>1. UNCHANGED <<rows, stamp, wire, refused, send, lane, pass>>
    BY DEF Mine, ProofCatchesUp, ForeignMines, Reorg, ledgerVars
  <1>2. /\ chain \in Seq(BlockType) /\ tag \in Nat /\ tag <= Len(chain) /\ Len(chain) \in Nat
        /\ fork \in Nat /\ Len(rows) \in Nat
    BY DEF LedInv, ChainOK, LedgerOK, Latest
  <1> DEFINE BlockOK(b) == b \in BlockType /\ b.tx <= Len(rows) /\ (b.tx = Foreign => b.ok)
  <1>3. ASSUME NEW b, BlockOK(b), chain' = Append(chain, b), UNCHANGED <<tag, fork>>
        PROVE  ChainMove /\ ChainOK'
    <2>1. /\ chain' \in Seq(BlockType) /\ Len(chain') = Len(chain) + 1
          /\ \A k \in 1..Len(chain) : chain'[k] = chain[k]
          /\ chain'[Len(chain) + 1] = b
      BY <1>2, <1>3
    <2>2. ASSUME NEW k \in 1..Len(chain') PROVE k \in 1..Len(chain) \/ k = Len(chain) + 1
      BY <1>2, <2>1
    <2>3. \A k \in 1..Len(chain') : BlockOK(chain'[k])
      <3>1. \A k \in 1..Len(chain) : BlockOK(chain[k])
        BY <1>2 DEF LedInv, ChainOK
      <3> HIDE DEF BlockOK
      <3> QED
        BY <1>3, <2>1, <2>2, <3>1
    <2>4. tag <= Len(chain')
      BY <1>2, <2>1
    <2>5. ChainMove
      BY <1>2, <1>3, <2>1, <2>4 DEF ChainMove
    <2>6. tag \in 0..Len(chain')
      BY <1>2, <2>1
    <2> QED
      BY <1>1, <1>3, <2>1, <2>3, <2>5, <2>6 DEF LedInv, ChainOK, Ids, Latest
  <1>4. CASE Mine
    <2>1. PICK i \in wire :
             chain' = Append(chain, Block(Tx(i, rows[i]), Simulates(rows[i].job, rows[i].call)))
      BY <1>4 DEF Mine
    <2>2. i \in Ids /\ Ours(rows[i]) /\ i \in Nat /\ i <= Len(rows) /\ i # 0
      BY DEF LedInv, LedgerOK, ChainOK, Ids
    <2>3. Simulates(rows[i].job, rows[i].call) \in BOOLEAN
      BY DEF Simulates
    <2>4. BlockOK(Block(Tx(i, rows[i]), Simulates(rows[i].job, rows[i].call)))
      BY <1>2, <2>2, <2>3 DEF Block, Tx, BlockType, Foreign
    <2> HIDE DEF BlockOK
    <2> QED
      BY <1>3, <1>4, <2>1, <2>4, <1>1, StillRows, KeepLedger, KeepSend, KeepPass, KeepProven
         DEF Mine, LedInv
  <1>5. CASE ForeignMines
    <2>1. BlockOK(Block(Foreign, TRUE))
      BY <1>2 DEF Block, BlockType, Foreign
    <2> HIDE DEF BlockOK
    <2> QED
      BY <1>1, <1>3, <1>5, <2>1, StillRows, KeepLedger, KeepSend, KeepPass, KeepProven
         DEF ForeignMines, LedInv
  <1>6. CASE ProofCatchesUp
    <2>1. tag' = tag + 1 /\ tag < Len(chain) /\ UNCHANGED <<chain, fork>>
      BY <1>6 DEF ProofCatchesUp, Latest
    <2>2. tag' \in 0..Len(chain) /\ tag <= tag' /\ tag' \in Nat
      BY <1>2, <2>1
    <2>3. ChainMove /\ ChainOK'
      BY <1>1, <1>2, <2>1, <2>2 DEF ChainMove, LedInv, ChainOK, Ids, Latest
    <2> QED
      BY <1>1, <2>3, StillRows, KeepLedger, KeepSend, KeepPass, KeepProven DEF LedInv
  <1>7. CASE Reorg
    <2>1. PICK n \in tag .. Len(chain) - 1 : chain' = SubSeq(chain, 1, n)
      BY <1>7 DEF Reorg, Latest
    <2>2. n \in Nat /\ tag <= n /\ n <= Len(chain)
      BY <1>2
    <2>3. /\ chain' \in Seq(BlockType) /\ Len(chain') = n
          /\ \A k \in 1..n : chain'[k] = chain[k] /\ k \in 1..Len(chain)
      BY <1>2, <2>1, <2>2
    <2>4. fork' \in Nat /\ tag' = tag
      BY <1>2, <1>7 DEF Reorg
    <2>5. tag \in 0..n /\ 1..tag \subseteq 1..n
      BY <1>2, <2>2
    <2>6. ChainMove
      BY <1>2, <2>2, <2>3, <2>4, <2>5 DEF ChainMove
    <2>7. ChainOK'
      BY <1>1, <2>3, <2>4, <2>5 DEF LedInv, ChainOK, Ids, Latest
    <2> QED
      BY <1>1, <2>6, <2>7, StillRows, KeepLedger, KeepSend, KeepPass, KeepProven DEF LedInv
  <1> QED
    BY <1>4, <1>5, <1>6, <1>7

(* The mempools and the contract's refusals. *)
LEMMA PoolSteps ==
    ASSUME LedInv, Drop \/ Forget \/ RefusePayout
    PROVE  LedInv'
  <1>1. /\ UNCHANGED <<rows, stamp, chain, tag, fork, send, lane, pass>>
        /\ wire' \subseteq wire /\ (refused' = refused \/ \E j \in Jobs : refused' = refused \cup {j})
    BY DEF Drop, Forget, RefusePayout, ledgerVars
  <1>2. ChainOK'
    BY <1>1 DEF LedInv, ChainOK, Ids, Latest
  <1> QED
    BY <1>1, <1>2, StillRows, StillChain, KeepLedger, KeepSend, KeepPass, KeepProven DEF LedInv

(***************************************************************************)
(* The senders.                                                            *)
(***************************************************************************)
(* A bounded set of numbers has a greatest one. *)
LEMMA GreatestNumber ==
    ASSUME NEW b \in Nat, NEW S, S \subseteq 0..b, S # {}
    PROVE  MaxOf(S) \in S
  <1> DEFINE T == {b - x : x \in S}
  <1>1. T \subseteq 0..b /\ T # {}
    <2>1. ASSUME NEW x \in S PROVE b - x \in 0..b
      <3>1. x \in Nat /\ x <= b
        OBVIOUS
      <3> QED
        BY <3>1
    <2> QED
      BY <2>1
  <1>2. PICK m \in T : \A k \in T : m <= k
    <2>1. T \subseteq Nat
      BY <1>1
    <2> HIDE DEF T
    <2> QED
      BY <1>1, <2>1, LeastNumber
  <1>3. PICK x \in S : m = b - x
    BY <1>2
  <1>4. ASSUME NEW y \in S PROVE y <= x
    <2>1. b - y \in T /\ x \in Int /\ y \in Int
      OBVIOUS
    <2>2. b - x <= b - y
      BY <1>2, <1>3, <2>1
    <2> QED
      BY <2>1, <2>2
  <1> QED
    BY <1>3, <1>4 DEF MaxOf

(* The nonce a worker chooses is a number. *)
LEMMA NonceChosen ==
    ASSUME LedgerOK, NEW n \in Nat
    PROVE  ChooseNonce(n) \in Nat
  <1>1. PICK b \in Nat : \A i \in Ids : rows[i].nonce <= b
    BY DEF LedgerOK
  <1> DEFINE S == {n} \cup {rows[i].nonce + 1 : i \in {i \in Ids : Live(i)}}
  <1>2. ASSUME NEW i \in Ids PROVE rows[i].nonce + 1 \in 0..(n + b + 1)
    <2>1. rows[i].nonce \in Nat /\ rows[i].nonce <= b
      <3>1. rows[i] \in RowType
        BY DEF LedgerOK, Ids
      <3> QED
        BY <1>1, <3>1 DEF RowType
    <2> QED
      BY <2>1
  <1>3. S \subseteq 0..(n + b + 1) /\ S # {} /\ n + b + 1 \in Nat
    BY <1>2
  <1>4. MaxOf(S) \in S
    BY <1>3, GreatestNumber
  <1>5. MaxOf(S) \in Nat
    BY <1>3, <1>4
  <1> QED
    BY <1>5 DEF ChooseNonce

(* A new row is live and known nowhere. *)
LEMMA RowIsNew ==
    ASSUME NEW n \in Nat, NEW j \in Jobs \cup {NoJob}, NEW c \in Calls,
           NEW k \in {"ORIGINAL", "SPEED_UP", "CANCEL"}
    PROVE  Row(n, j, c, k) \in NewRow
  BY DEF Row, NewRow, RowType, Ours, Statuses, Kinds

(* An idle sender fits anywhere. *)
LEMMA IdleFits ==
    ASSUME LedgerOK, NEW s \in Senders
    PROVE  Fits(s, Idle)
  <1>1. Row(0, NoJob, "noop", "ORIGINAL") \in NewRow
    BY RowIsNew DEF Calls
  <1>2. Idle \in Sends /\ Idle.pc = "idle" /\ Idle.seen = 0
    BY <1>1 DEF Idle, Sends
  <1>3. 0 <= Len(rows)
    BY DEF LedgerOK
  <1> QED
    BY <1>2, <1>3 DEF Fits

(* The gate, the choice, the send, and a death. *)
LEMMA SenderSteps ==
    ASSUME LedInv,
           \/ \E s \in Workers : Gate(s)
           \/ \E s \in Senders : Choose(s) \/ Send(s) \/ Crash(s)
           \/ ScriptChooses \/ LoseLane
    PROVE  LedInv'
  <1>1. UNCHANGED <<rows, stamp, chain, tag, fork, refused, pass>>
    BY DEF Gate, Choose, Send, Crash, ScriptChooses, LoseLane, ledgerVars, chainVars
  <1>2. LedgerOK' /\ PassOK' /\ ProvenOK' /\ (UNCHANGED wire => ChainOK') /\ RowsMove
    BY <1>1, OnlySends, StillRows DEF LedInv
  <1>3. LedgerOK /\ SendOK /\ send \in [Senders -> Sends] /\ lane \in Senders \cup {NoOne}
    BY DEF LedInv, SendOK
  <1>4. ASSUME NEW s \in Senders, NEW v, Fits(s, v), send' = [send EXCEPT ![s] = v],
               lane' \in Senders \cup {NoOne}
        PROVE  SendOK'
    BY <1>2, <1>3, <1>4, StillFits, OneSends
  <1>5. ASSUME NEW s \in Workers, Gate(s) PROVE UNCHANGED wire /\ SendOK'
    <2>1. PICK v : v = [Idle EXCEPT !.pc = "gated", !.seen = stamp[s[1]]]
      OBVIOUS
    <2>2. s \in Senders /\ s[1] \in Jobs /\ s # Operator
      BY LedgerAssumption DEF Senders, Workers, Operator
    <2>3. stamp[s[1]] \in Nat /\ stamp[s[1]] <= Len(rows)
      BY <1>3, <2>2 DEF LedgerOK
    <2>4. Idle \in Sends
      BY <1>3, <2>2, IdleFits DEF Fits
    <2>5. v \in Sends /\ v.pc = "gated" /\ v.seen = stamp[s[1]]
      BY <2>1, <2>3, <2>4 DEF Sends
    <2>6. Fits(s, v)
      BY <2>2, <2>3, <2>5 DEF Fits
    <2> QED
      BY <1>3, <1>4, <1>5, <2>1, <2>2, <2>6 DEF Gate, chainVars
  <1>6. ASSUME NEW s \in Senders, send' = [send EXCEPT ![s] = Idle],
               lane' \in Senders \cup {NoOne}
        PROVE  SendOK'
    BY <1>3, <1>4, <1>6, IdleFits
  <1>7. ASSUME NEW s \in Senders, Choose(s) PROVE UNCHANGED wire /\ SendOK'
    <2>1. UNCHANGED wire
      BY <1>7 DEF Choose, chainVars
    <2>2. CASE ~Simulates(s[1], s[2])
      BY <1>3, <1>6, <1>7, <2>1, <2>2 DEF Choose
    <2>3. CASE Simulates(s[1], s[2])
      <3>1. send[s].pc = "gated" /\ lane' = s
        BY <1>7, <2>3 DEF Choose
      <3>2. s \in Workers /\ s # Operator
        BY <1>3, <3>1, LedgerAssumption DEF SendOK, Fits, Senders, Workers, Operator
      <3>3. PICK n \in Pending :
               send' = [send EXCEPT ![s].pc = "chosen",
                                    ![s].row = Row(ChooseNonce(n), s[1], s[2], "ORIGINAL")]
        BY <1>7, <2>3 DEF Choose
      <3>4. n \in Nat
        BY DEF Pending, Latest, LedInv, LedgerOK, ChainOK
      <3>5. PICK r \in NewRow : r = Row(ChooseNonce(n), s[1], s[2], "ORIGINAL")
        BY <1>3, <3>2, <3>4, NonceChosen, RowIsNew DEF Workers, Calls
      <3>6. r.kind = "ORIGINAL" /\ r.job = s[1] /\ r.call = s[2]
        BY <3>5 DEF Row
      <3>7. PICK v : v = [send[s] EXCEPT !.pc = "chosen", !.row = r]
        OBVIOUS
      <3>8. send[s] \in Sends /\ send[s].seen <= Len(rows)
        BY <1>3, <3>2 DEF SendOK, Fits
      <3>9. v \in Sends /\ v.pc = "chosen" /\ v.row = r /\ v.seen = send[s].seen
        BY <3>7, <3>8 DEF Sends
      <3>10. Fits(s, v)
        BY <3>2, <3>6, <3>8, <3>9 DEF Fits
      <3>11. send' = [send EXCEPT ![s] = v]
        BY <1>3, <3>3, <3>5, <3>7, <3>8 DEF Sends
      <3> QED
        BY <1>4, <2>1, <3>1, <3>10, <3>11
    <2> QED
      BY <2>2, <2>3
  <1>8. ASSUME NEW s \in Senders, Send(s) PROVE ChainOK' /\ SendOK'
    <2>1. /\ send[s].pc = "recorded" /\ send' = [send EXCEPT ![s] = Idle]
          /\ wire' \subseteq wire \cup {send[s].of} /\ lane' \in {lane, NoOne}
      BY <1>8 DEF Send, Release
    <2>2. send[s].of \in Ids /\ Ours(rows[send[s].of])
      BY <1>3, <2>1 DEF SendOK, Fits
    <2>3. ChainOK'
      BY <1>1, <2>1, <2>2 DEF LedInv, ChainOK, Ids, Latest
    <2> QED
      BY <1>3, <1>6, <2>1, <2>3
  <1>9. ASSUME NEW s \in Senders, Crash(s) PROVE UNCHANGED wire /\ SendOK'
    BY <1>3, <1>6, <1>9 DEF Crash, Release, chainVars
  <1>10. CASE LoseLane
    BY <1>2, <1>3, <1>10, KeepSend DEF LoseLane, chainVars, LedInv
  <1>11. ASSUME ScriptChooses PROVE UNCHANGED wire /\ SendOK'
    <2>1. PICK i \in LiveAt(Latest), k \in LiveAt(Latest) :
             /\ Decides(rows[i])
             /\ send' = [send EXCEPT ![Operator] =
                   IF Simulates(rows[i].job, rows[i].call)
                   THEN [pc |-> "chosen", row |-> Row(Latest, rows[i].job, rows[i].call, "SPEED_UP"),
                         of |-> i, seen |-> 0]
                   ELSE [pc |-> "chosen", row |-> Row(Latest, rows[k].job, "noop", "CANCEL"),
                         of |-> k, seen |-> 0]]
      BY <1>11 DEF ScriptChooses
    <2>2. UNCHANGED wire /\ lane' = Operator
      BY <1>11 DEF ScriptChooses, chainVars
    <2>3. Operator \in Senders /\ Operator \notin Workers
      BY LedgerAssumption DEF Senders, Workers, Operator
    <2>4. Latest \in Nat
      BY DEF LedInv, ChainOK, Latest
    <2>5. i \in Ids /\ k \in Ids /\ i \in Nat /\ k \in Nat /\ rows[i] \in RowType /\ rows[k] \in RowType
      BY DEF LiveAt, LedInv, LedgerOK, Ids
    <2>6. CASE Simulates(rows[i].job, rows[i].call)
      <3>1. PICK r \in NewRow : r = Row(Latest, rows[i].job, rows[i].call, "SPEED_UP")
        BY <2>4, <2>5, RowIsNew DEF RowType
      <3>2. PICK v : v = [pc |-> "chosen", row |-> r, of |-> i, seen |-> 0]
        OBVIOUS
      <3>3. v \in Sends
        BY <2>5, <3>2 DEF Sends
      <3>4. Fits(Operator, v)
        BY <2>1, <2>3, <2>5, <3>1, <3>2, <3>3 DEF Fits, Row
      <3> QED
        BY <1>4, <2>1, <2>2, <2>3, <2>6, <3>1, <3>2, <3>4
    <2>7. CASE ~Simulates(rows[i].job, rows[i].call)
      <3>1. PICK r \in NewRow : r = Row(Latest, rows[k].job, "noop", "CANCEL")
        BY <2>4, <2>5, RowIsNew DEF RowType, Calls
      <3>2. PICK v : v = [pc |-> "chosen", row |-> r, of |-> k, seen |-> 0]
        OBVIOUS
      <3>3. v \in Sends
        BY <2>5, <3>2 DEF Sends
      <3>4. Fits(Operator, v)
        BY <2>3, <3>1, <3>2, <3>3 DEF Fits, Row
      <3> QED
        BY <1>4, <2>1, <2>2, <2>3, <2>7, <3>1, <3>2, <3>4
    <2> QED
      BY <2>6, <2>7
  <1> QED
    BY <1>2, <1>5, <1>7, <1>8, <1>9, <1>10, <1>11 DEF LedInv

(* A decision is recorded: a live row at the end of the ledger. *)
LEMMA RecordStep ==
    ASSUME LedInv, NEW s \in Senders, Record(s)
    PROVE  LedInv' /\ RowsMove
  <1>1. LedgerOK /\ ChainOK /\ SendOK /\ PassOK /\ ProvenOK
    BY DEF LedInv
  <1>2. /\ send[s].pc = "chosen" /\ UNCHANGED <<wire, chain, tag, fork, refused, pass>>
        /\ lane' \in {lane, NoOne}
    BY DEF Record, chainVars, Release
  <1>3. send[s] \in Sends /\ Fits(s, send[s]) /\ lane' \in Senders \cup {NoOne}
    BY <1>1, <1>2 DEF SendOK
  <1>4. ChainMove
    BY <1>1, <1>2, StillChain
  <1>5. CASE ~Recordable(s)
    <2>1. UNCHANGED <<rows, stamp>> /\ send' = [send EXCEPT ![s] = Idle]
      BY <1>5 DEF Record, ledgerVars
    <2>2. RowsMove /\ Fits(s, Idle)'
      BY <1>1, <2>1, StillRows, IdleFits, StillFits
    <2>3. SendOK'
      BY <1>1, <1>3, <2>1, <2>2, OneSends
    <2> QED
      BY <1>1, <1>2, <1>4, <2>1, <2>2, <2>3, KeepLedger, KeepChain, KeepPass, KeepProven DEF LedInv
  <1>6. CASE Recordable(s)
    <2>1. PICK r \in NewRow : r = send[s].row
      BY <1>3 DEF Sends
    <2> DEFINE n == Len(rows) + 1
    <2>2. /\ rows' = Append(rows, r)
          /\ stamp' = IF Decides(r) THEN [stamp EXCEPT ![r.job] = n] ELSE stamp
          /\ send' = [send EXCEPT ![s].pc = "recorded", ![s].of = n]
      BY <1>6, <2>1 DEF Record
    <2>3. rows \in Seq(RowType) /\ r \in RowType /\ Len(rows) \in Nat
      BY <1>1 DEF LedgerOK, NewRow
    <2>4. /\ rows' \in Seq(RowType) /\ Len(rows') = n /\ rows'[n] = r
          /\ \A i \in Ids : i \in Ids' /\ rows'[i] = rows[i]
          /\ \A i \in Ids' : i \in Ids \/ i = n
          /\ n \in Ids' /\ n \in Nat /\ Len(rows) <= n
      BY <2>2, <2>3 DEF Ids
    <2> HIDE DEF n
    <2>5. RowsMove
      BY <2>4 DEF RowsMove, Same
    <2>6. \A i \in Ids' : Live(i)' <=> rows'[i].level = "none"
      BY <1>1, <2>4 DEF LedgerOK, Live, NewRow
    <2>7. \E b \in Nat : \A i \in Ids' : rows'[i].nonce <= b
      <3>1. PICK b \in Nat : \A i \in Ids : rows[i].nonce <= b
        BY <1>1 DEF LedgerOK
      <3>2. r.nonce \in Nat /\ b + r.nonce \in Nat
        BY <2>3 DEF RowType
      <3>3. ASSUME NEW i \in Ids' PROVE rows'[i].nonce <= b + r.nonce
        <4>1. CASE i = n
          BY <2>4, <3>2, <4>1
        <4>2. CASE i \in Ids
          <5>1. rows[i] \in RowType
            BY <2>3, <4>2 DEF Ids
          <5>2. rows[i].nonce \in Nat /\ rows[i].nonce <= b
            BY <3>1, <4>2, <5>1 DEF RowType
          <5> QED
            BY <2>4, <3>2, <4>2, <5>2
        <4> QED
          BY <2>4, <4>1, <4>2
      <3> QED
        BY <3>2, <3>3
    <2>8. stamp' \in [Jobs -> Nat] /\ \A j \in Jobs : stamp'[j] <= n
      <3>1. \A j \in Jobs : stamp[j] \in Nat /\ stamp[j] <= Len(rows)
        BY <1>1 DEF LedgerOK
      <3>2. \A j \in Jobs : stamp[j] <= n
        BY <2>3, <2>4, <3>1
      <3>3. stamp \in [Jobs -> Nat] /\ n <= n
        BY <1>1, <2>4 DEF LedgerOK
      <3> QED
        BY <2>2, <2>4, <3>2, <3>3
    <2>9. LedgerOK'
      BY <2>4, <2>6, <2>7, <2>8 DEF LedgerOK
    <2>10. SendOK'
      <3>1. PICK v : v = [send[s] EXCEPT !.pc = "recorded", !.of = n]
        OBVIOUS
      <3>2. v \in Sends /\ v.pc = "recorded" /\ v.of = n /\ v.seen = send[s].seen
        BY <1>3, <2>4, <3>1 DEF Sends
      <3>3. s \in Workers => v.seen <= Len(rows')
        <4>1. s \in Workers => send[s].seen \in Nat /\ send[s].seen <= Len(rows)
          BY <1>3 DEF Fits, Sends
        <4> QED
          BY <2>3, <2>4, <3>2, <4>1
      <3>4. Ours(rows'[n])
        BY <2>4 DEF NewRow
      <3>5. Fits(s, v)'
        BY <2>4, <3>2, <3>3, <3>4 DEF Fits
      <3>6. send' = [send EXCEPT ![s] = v]
        BY <1>1, <1>3, <2>2, <3>1 DEF SendOK, Sends
      <3> QED
        BY <1>1, <1>3, <2>5, <3>5, <3>6, OneSends
    <2>11. ProvenOK'
      <3>1. ASSUME NEW i \in Ids', rows'[i].level = "proof" PROVE Final(i, rows[i])'
        <4>1. i \in Ids /\ rows'[i] = rows[i]
          BY <2>4, <3>1 DEF NewRow
        <4>2. Final(i, rows[i])
          BY <1>1, <3>1, <4>1 DEF ProvenOK
        <4> QED
          BY <1>2, <4>1, <4>2 DEF Final, Tx
      <3> QED
        BY <3>1 DEF ProvenOK
    <2> QED
      BY <1>1, <1>2, <1>4, <2>5, <2>9, <2>10, <2>11, KeepChain, KeepPass DEF LedInv
  <1> QED
    BY <1>5, <1>6

(***************************************************************************)
(* What is written on the rows.                                            *)
(***************************************************************************)
GoodRow(i, r) ==
    /\ r \in RowType
    /\ r.status = "LIVE" <=> r.level = "none"
    /\ r.level = "proof" => Final(i, r)

(* The invariant, row by row. *)
LEMMA RowsAreGood ==
    ASSUME LedInv, NEW i \in Ids
    PROVE  GoodRow(i, rows[i])
  BY DEF LedInv, LedgerOK, ProvenOK, GoodRow, Live, Ids

(* Rows that are rewritten one by one, and rows added for nonces that are  *)
(* taken.                                                                  *)
LEMMA Rewritten ==
    ASSUME LedInv, RowsMove, UNCHANGED <<wire, chain, tag, fork, refused, send, lane>>,
           \A i \in Ids' : GoodRow(i, rows'[i]) /\ (i \in Ids \/ rows'[i].nonce < Latest),
           stamp' \in [Jobs -> Nat], \A j \in Jobs : stamp'[j] <= Len(rows)
    PROVE  LedgerOK' /\ ChainOK' /\ SendOK' /\ ProvenOK' /\ ChainMove
  <1>1. LedgerOK /\ ChainOK /\ SendOK
    BY DEF LedInv
  <1>2. ChainOK' /\ SendOK' /\ ChainMove
    BY <1>1, KeepChain, KeepSend, StillChain
  <1>3. ProvenOK'
    BY DEF ProvenOK, GoodRow, Final, Tx
  <1>4. Len(rows) \in Nat /\ Len(rows') \in Nat /\ Len(rows) <= Len(rows') /\ Latest \in Nat
    BY <1>1 DEF LedgerOK, ChainOK, RowsMove, Latest
  <1>5. \A j \in Jobs : stamp'[j] <= Len(rows')
    BY <1>4
  <1>6. \E b \in Nat : \A i \in Ids' : rows'[i].nonce <= b
    <2>1. PICK b \in Nat : \A i \in Ids : rows[i].nonce <= b
      BY <1>1 DEF LedgerOK
    <2>2. ASSUME NEW i \in Ids' PROVE rows'[i].nonce <= b + Latest
      <3>1. rows'[i].nonce \in Nat
        BY DEF GoodRow, RowType
      <3>2. CASE i \in Ids
        <4>1. rows'[i].nonce <= b
          BY <2>1, <3>2 DEF RowsMove, Same
        <4> QED
          BY <1>4, <3>1, <4>1
      <3>3. CASE i \notin Ids
        BY <1>4, <3>1, <3>3
      <3> QED
        BY <3>2, <3>3
    <2> QED
      BY <1>4, <2>2
  <1>7. \A i \in Ids' : Live(i)' <=> rows'[i].level = "none"
    BY DEF GoodRow, Live
  <1> QED
    BY <1>2, <1>3, <1>5, <1>6, <1>7 DEF LedgerOK, RowsMove

(* The worker that waited for its receipt books it. *)
LEMMA MarkStep ==
    ASSUME LedInv, NEW i \in Ids, MarkOwnMined(i)
    PROVE  LedInv' /\ RowsMove /\ ChainMove
  <1>0. LedgerOK /\ ChainOK /\ PassOK /\ rows \in Seq(RowType)
    BY DEF LedInv, LedgerOK
  <1>1. LedgerOK /\ ChainOK /\ PassOK /\ rows \in Seq(RowType) /\ rows[i] \in RowType
    BY <1>0 DEF Ids
  <1> DEFINE block == chain[rows[i].nonce + 1]
  <1>2. PICK r : r = [rows[i] EXCEPT !.status = Outcome(block), !.level = "latest", !.fork = block.fork]
    OBVIOUS
  <1>3. rows' = [rows EXCEPT ![i] = r] /\ In(chain, i, rows[i])
    BY <1>2 DEF MarkOwnMined, Live, Resolved
  <1>4. block \in BlockType
    <2>1. rows[i].nonce \in Nat /\ rows[i].nonce < Len(chain) /\ Len(chain) \in Nat
          /\ chain \in Seq(BlockType)
      BY <1>1, <1>3 DEF In, RowType, ChainOK
    <2>2. rows[i].nonce + 1 \in 1..Len(chain)
      BY <2>1
    <2> QED
      BY <2>1, <2>2
  <1>5. block.fork \in Nat /\ Outcome(block) \in {"MINED_SUCCESS", "MINED_REVERTED"}
    BY <1>4 DEF BlockType, Outcome
  <1> HIDE DEF block
  <1>6. /\ r \in RowType /\ Same(r, rows[i]) /\ r.level = "latest" /\ r.status # "LIVE"
    BY <1>1, <1>2, <1>5 DEF RowType, Same, Statuses, Mined
  <1>7. GoodRow(i, r)
    BY <1>6 DEF GoodRow
  <1>8. Ids' = Ids /\ rows' \in Seq(RowType) /\ Len(rows') = Len(rows) /\ Len(rows) \in Nat
        /\ \A k \in Ids : rows'[k] = IF k = i THEN r ELSE rows[k]
    BY <1>1, <1>3, <1>6 DEF Ids
  <1>9. RowsMove
    BY <1>6, <1>8 DEF RowsMove, Same
  <1>10. \A k \in Ids' : GoodRow(k, rows'[k]) /\ k \in Ids
    BY <1>7, <1>8, RowsAreGood
  <1>11. UNCHANGED <<stamp, wire, chain, tag, fork, refused, send, lane, pass>>
    BY DEF MarkOwnMined, chainVars
  <1>12. stamp' \in [Jobs -> Nat] /\ \A j \in Jobs : stamp'[j] <= Len(rows)
    BY <1>1, <1>11 DEF LedgerOK
  <1>13. LedgerOK' /\ ChainOK' /\ SendOK' /\ ProvenOK' /\ ChainMove
    BY <1>9, <1>10, <1>11, <1>12, Rewritten
  <1> QED
    BY <1>1, <1>9, <1>11, <1>13, KeepPass DEF LedInv

(***************************************************************************)
(* The pass.                                                               *)
(***************************************************************************)
(* A pass that has asked nobody yet. *)
LEMMA Unasked ==
    ASSUME NEW x \in {"idle", "read", "head"}, NEW R \in Read', NEW T \in SUBSET Nat,
           pass' = [pc |-> x, rows |-> R, todo |-> T, views |-> [n \in Nodes |-> Asked]],
           \A i \in DOMAIN R : Same(R[i], rows'[i])
    PROVE  PassOK'
  <1>1. PICK v : v = [n \in Nodes |-> Asked]
    OBVIOUS
  <1>2. v \in [Nodes -> ViewType']
    <2>1. <<>> \in Receipts'
      <3>1. <<>> \in [{} -> BlockType] /\ {} \in SUBSET Ids'
        OBVIOUS
      <3> QED
        BY <3>1 DEF Receipts
    <2>2. Asked \in ViewType'
      BY <2>1 DEF Asked, ViewType
    <2> QED
      BY <1>1, <2>2
  <1>3. pass' = [pc |-> x, rows |-> R, todo |-> T, views |-> v]
    BY <1>1
  <1>4. \A n \in Nodes : v[n].proof = {} /\ v[n].at = "ask"
    BY <1>1 DEF Asked
  <1> QED
    BY <1>2, <1>3, <1>4 DEF PassOK, View

(* A pass that has ended, or goes on to the head. *)
LEMMA Resting ==
    ASSUME NEW x \in {"idle", "read", "head"}, pass' = [Rest EXCEPT !.pc = x] \/ (x = "idle" /\ pass' = Rest)
    PROVE  PassOK'
  <1>1. <<>> \in Read'
    <2>1. <<>> \in [{} -> RowType] /\ {} \in SUBSET Ids'
      OBVIOUS
    <2> QED
      BY <2>1 DEF Read
  <1>2. PICK v : v = [n \in Nodes |-> Asked]
    OBVIOUS
  <1>3. Rest = [pc |-> "idle", rows |-> <<>>, todo |-> {}, views |-> v]
    BY <1>2 DEF Rest
  <1>4. pass' = [pc |-> x, rows |-> <<>>, todo |-> {}, views |-> v]
    BY <1>3
  <1>5. DOMAIN <<>> = {}
    OBVIOUS
  <1> QED
    BY <1>1, <1>2, <1>4, <1>5, Unasked

(* The answer of one node is noted. *)
LEMMA OneAnswers ==
    ASSUME PassOK, UNCHANGED <<rows, chain, tag>>, NEW n \in Nodes, NEW v \in ViewType,
           pass' = [pass EXCEPT !.views = [pass.views EXCEPT ![n] = v]],
           \A k \in v.proof : k < tag,
           v.at = "done" =>
             /\ DOMAIN v.receipts = DOMAIN pass.rows
             /\ \A i \in DOMAIN pass.rows : rows[i].nonce \in v.proof => v.receipts[i] = Receipt(i)
    PROVE  PassOK'
  <1>1. PICK V : V = [pass.views EXCEPT ![n] = v]
    OBVIOUS
  <1>2. V \in [Nodes -> ViewType] /\ \A m \in Nodes : V[m] = IF m = n THEN v ELSE pass.views[m]
    BY <1>1 DEF PassOK
  <1>3. pass' = [pass EXCEPT !.views = V]
    BY <1>1
  <1>4. /\ pass'.pc = pass.pc /\ pass'.rows = pass.rows /\ pass'.todo = pass.todo /\ pass'.views = V
        /\ pass' \in [pc : {"idle", "read", "head"}, rows : Read, todo : SUBSET Nat,
                      views : [Nodes -> ViewType]]
    BY <1>2, <1>3 DEF PassOK
  <1>5. Read' = Read /\ ViewType' = ViewType /\ \A i : Receipt(i)' = Receipt(i)
    BY DEF Read, ViewType, Receipts, Ids, Receipt, In, Tx
  <1>6. \A m \in Nodes : View(m)' = IF m = n THEN v ELSE View(m)
    BY <1>2, <1>4 DEF View
  <1> QED
    BY <1>4, <1>5, <1>6 DEF PassOK

(* The pass begins, asks its nodes, and ends. *)
LEMMA ReadSteps ==
    ASSUME LedInv, \/ PassStarts \/ PassEnds
                   \/ \E n \in Nodes : ReadNonces(n) \/ ReadReceipts(n)
    PROVE  LedInv'
  <1>1. UNCHANGED <<rows, stamp, wire, chain, tag, fork, refused, send, lane>>
    BY DEF PassStarts, PassEnds, ReadNonces, ReadReceipts, ledgerVars, chainVars
  <1>2. LedgerOK' /\ ChainOK' /\ SendOK' /\ ProvenOK'
    BY <1>1, StillRows, StillChain, KeepLedger, KeepChain, KeepSend, KeepProven DEF LedInv
  <1>3. rows \in Seq(RowType) /\ PassOK
    BY DEF LedInv, LedgerOK
  <1>4. ASSUME PassStarts PROVE PassOK'
    <2>1. PICK T : T = NoncesToReconcile
      OBVIOUS
    <2>2. PICK R : R = Restrict(rows, {i \in Ids : rows[i].nonce \in T})
      OBVIOUS
    <2>3. pass' = [pc |-> "read", rows |-> R, todo |-> T, views |-> [n \in Nodes |-> Asked]]
      BY <1>4, <2>1, <2>2 DEF PassStarts, Rest
    <2>4. \A i \in Ids : rows[i] \in RowType
      BY <1>3 DEF Ids
    <2>5. T \in SUBSET Nat
      BY <2>1, <2>4 DEF NoncesToReconcile, RowType
    <2>6. DOMAIN R \in SUBSET Ids /\ R \in [DOMAIN R -> RowType] /\ \A i \in DOMAIN R : R[i] = rows[i]
      BY <2>2, <2>4 DEF Restrict
    <2>7. R \in Read /\ Read' = Read
      BY <1>1, <2>6 DEF Read, Ids
    <2>8. \A i \in DOMAIN R : Same(R[i], rows'[i])
      BY <1>1, <2>6 DEF Same
    <2> QED
      BY <2>3, <2>5, <2>7, <2>8, Unasked
  <1>5. ASSUME PassEnds PROVE PassOK'
    BY <1>5, Resting DEF PassEnds
  <1>6. ASSUME NEW n \in Nodes, ReadNonces(n) PROVE PassOK'
    <2>1. PICK v : v = [pass.views[n] EXCEPT !.at = "nonces", !.latest = {k \in pass.todo : k < Latest},
                                             !.proof = {k \in pass.todo : k < tag}]
      OBVIOUS
    <2>2. pass.views[n] \in ViewType /\ pass.todo \in SUBSET Nat
      BY <1>3 DEF PassOK
    <2>3. v \in ViewType /\ v.proof = {k \in pass.todo : k < tag} /\ v.at = "nonces"
      BY <2>1, <2>2 DEF ViewType
    <2>4. pass' = [pass EXCEPT !.views = [pass.views EXCEPT ![n] = v]]
      BY <1>3, <1>6, <2>1, <2>2 DEF ReadNonces, PassOK, ViewType
    <2> QED
      BY <1>1, <1>3, <2>3, <2>4, OneAnswers
  <1>7. ASSUME NEW n \in Nodes, ReadReceipts(n) PROVE PassOK'
    <2> DEFINE asked == DOMAIN pass.rows
               mined == {i \in asked : In(chain, i, rows[i])}
    <2>1. PICK F : F = [i \in asked |-> IF i \in mined THEN chain[rows[i].nonce + 1] ELSE NoBlock]
      OBVIOUS
    <2>2. PICK known \in SUBSET (wire \cap asked) :
             pass' = [pass EXCEPT !.views[n].at = "done", !.views[n].known = known,
                                  !.views[n].receipts = F]
      BY <1>7, <2>1 DEF ReadReceipts
    <2>3. PICK v : v = [pass.views[n] EXCEPT !.at = "done", !.known = known, !.receipts = F]
      OBVIOUS
    <2>4. pass.views[n] \in ViewType /\ asked \subseteq Ids
      BY <1>3 DEF PassOK, Read
    <2>5. DOMAIN F = asked /\ \A i \in asked : F[i] = Receipt(i)
      BY <2>1 DEF Receipt
    <2>6. \A i \in asked : Receipt(i) \in BlockType
      <3> SUFFICES ASSUME NEW i \in asked PROVE Receipt(i) \in BlockType
        OBVIOUS
      <3>1. rows[i] \in RowType
        BY <1>3, <2>4 DEF Ids
      <3>2. NoBlock \in BlockType
        BY DEF NoBlock, BlockType, Foreign
      <3>3. CASE In(chain, i, rows[i])
        <4>1. rows[i].nonce \in Nat /\ rows[i].nonce < Len(chain) /\ chain \in Seq(BlockType)
          BY <3>1, <3>3 DEF RowType, In, LedInv, ChainOK
        <4>2. rows[i].nonce + 1 \in 1..Len(chain)
          BY <4>1
        <4> QED
          BY <3>3, <4>1, <4>2 DEF Receipt
      <3> QED
        BY <3>2, <3>3 DEF Receipt
    <2>7. F \in Receipts
      <3>1. F \in [asked -> BlockType]
        BY <2>1, <2>5, <2>6
      <3> QED
        BY <2>4, <3>1 DEF Receipts
    <2>8. known \in SUBSET Ids
      BY <2>4
    <2> HIDE DEF asked, mined
    <2>9. v \in ViewType /\ v.proof = pass.views[n].proof /\ v.receipts = F
      BY <2>3, <2>4, <2>7, <2>8 DEF ViewType
    <2>10. pass' = [pass EXCEPT !.views = [pass.views EXCEPT ![n] = v]]
      BY <1>3, <2>2, <2>3, <2>4 DEF PassOK, ViewType
    <2>11. \A k \in v.proof : k < tag
      BY <1>3, <2>9 DEF PassOK, View
    <2> QED
      BY <1>1, <1>3, <2>5, <2>9, <2>10, <2>11, OneAnswers DEF asked
  <1> QED
    BY <1>2, <1>4, <1>5, <1>6, <1>7 DEF LedInv

(* A lost head is sent again. *)
LEMMA RebroadcastStep ==
    ASSUME LedInv, NEW i \in Ids, RebroadcastLostHead(i)
    PROVE  LedInv'
  <1>1. /\ UNCHANGED <<rows, stamp, chain, tag, fork, refused, send, lane>>
        /\ wire' = wire \cup {i} /\ pass' = Rest
    BY DEF RebroadcastLostHead, ledgerVars
  <1>2. Ours(rows[i])
    BY DEF RebroadcastLostHead, Rebroadcastable
  <1>3. ChainOK'
    BY <1>1, <1>2 DEF LedInv, ChainOK, Ids, Latest
  <1>4. PassOK'
    BY <1>1, Resting
  <1>5. LedgerOK' /\ SendOK' /\ ProvenOK'
    BY <1>1, StillRows, StillChain, KeepLedger, KeepSend, KeepProven DEF LedInv
  <1> QED
    BY <1>3, <1>4, <1>5 DEF LedInv

(***************************************************************************)
(* What the answers prove.                                                 *)
(***************************************************************************)
LEMMA DecisionShape ==
    ASSUME NEW nonce
    PROVE  LET d == Decision(nonce) IN
           /\ d.ids \subseteq Seen(nonce)
           /\ d.kind \in {"nothing", "reorg", "foreign", "winner"}
           /\ d.level = ProofLevel(nonce)
           /\ d.kind = "nothing" => d.ids = {}
           /\ d.kind = "foreign" => \A i \in d.ids : Agreed(i) = NoBlock
  <1> DEFINE
        seen    == Seen(nonce)
        at(i)   == pass.rows[i]
        mined   == {i \in seen : Agreed(i) # NoBlock}
        latest  == \A n \in Nodes : nonce \in View(n).latest
        level   == ProofLevel(nonce)
        lost    == {i \in seen : at(i).status \in Mined
                                  /\ (i \notin mined \/ Agreed(i).fork # at(i).fork)}
        dead(l) == {i \in seen : at(i).status = "DEAD" /\ at(i).level = l}
        open    == {i \in seen : at(i).status = "LIVE"} \cup dead("latest")
        known   == \E n \in Nodes : \E i \in View(n).known \cap seen : at(i).status = "LIVE"
        d       == Decision(nonce)
        Nothing == [kind |-> "nothing", ids |-> {}, level |-> level]
  <1>1. mined \subseteq seen /\ lost \subseteq seen /\ dead("latest") \subseteq seen /\ open \subseteq seen
    OBVIOUS
  <1>2. mined = {} => \A i \in open : Agreed(i) = NoBlock
    BY <1>1
  <1>3. CASE ~ReceiptsAgree(nonce)
    <2>1. d = Nothing
      BY <1>3 DEF Decision
    <2> QED
      BY <2>1
  <1>4. CASE ReceiptsAgree(nonce) /\ lost # {}
    <2>1. d = Nothing \/ d = [kind |-> "reorg", ids |-> lost \cup dead("latest"), level |-> level]
      BY <1>4 DEF Decision
    <2> HIDE DEF lost, dead, level, seen
    <2>2. CASE d = Nothing
      BY <2>2 DEF level
    <2>3. CASE d = [kind |-> "reorg", ids |-> lost \cup dead("latest"), level |-> level]
      BY <1>1, <2>3 DEF level, seen
    <2> QED
      BY <2>1, <2>2, <2>3
  <1>5. CASE ReceiptsAgree(nonce) /\ lost = {} /\ mined = {} /\ ~latest
    <2>1. d = Nothing \/ d = [kind |-> "reorg", ids |-> dead("latest"), level |-> level]
      BY <1>5 DEF Decision
    <2> HIDE DEF dead, level, seen
    <2> QED
      BY <1>1, <2>1 DEF level, seen
  <1>6. CASE ReceiptsAgree(nonce) /\ lost = {} /\ mined = {} /\ latest
    <2>1. d = Nothing \/ d = [kind |-> "foreign", ids |-> open, level |-> level]
      BY <1>6 DEF Decision
    <2> HIDE DEF open, level, seen, mined
    <2> QED
      BY <1>1, <1>2, <1>6, <2>1 DEF level, seen
  <1>7. CASE ReceiptsAgree(nonce) /\ lost = {} /\ mined # {}
    <2>1. d = Nothing \/ d = [kind |-> "winner", ids |-> mined \cup open, level |-> level]
      BY <1>7 DEF Decision
    <2> HIDE DEF open, level, seen, mined
    <2> QED
      BY <1>1, <2>1 DEF level, seen
  <1> QED
    BY <1>3, <1>4, <1>5, <1>6, <1>7

(* Below the proof tag the nodes agree on what any of them would say now. *)
LEMMA ProofAnswers ==
    ASSUME LedInv, AllRead, NEW nonce, ProofLevel(nonce) = "proof"
    PROVE  nonce < tag /\ \A i \in Seen(nonce) : Agreed(i) = Receipt(i)
  <1>1. PICK n \in Nodes : n = CHOOSE m \in Nodes : TRUE
    BY LedgerAssumption
  <1>2. nonce \in View(n).proof
    BY DEF ProofLevel
  <1>3. nonce < tag
    BY <1>2 DEF LedInv, PassOK
  <1>4. ASSUME NEW i \in Seen(nonce) PROVE Agreed(i) = Receipt(i)
    <2>1. i \in DOMAIN pass.rows /\ rows[i].nonce = nonce
      BY DEF Seen, LedInv, PassOK, Same
    <2>2. View(n).at = "done"
      BY DEF AllRead, View
    <2> QED
      BY <1>1, <1>2, <2>1, <2>2 DEF LedInv, PassOK, Agreed
  <1> QED
    BY <1>3, <1>4

(* What the nodes agree on is a block, or that there is none. *)
LEMMA AgreedIsBlock ==
    ASSUME LedInv, AllRead, NEW i \in DOMAIN pass.rows
    PROVE  i \in Ids /\ Agreed(i) \in BlockType
  <1>1. PICK n \in Nodes : n = CHOOSE m \in Nodes : TRUE
    BY LedgerAssumption
  <1>2. View(n).at = "done"
    BY DEF AllRead, View
  <1>3. DOMAIN View(n).receipts = DOMAIN pass.rows
    BY <1>2 DEF LedInv, PassOK
  <1>4. pass.views[n] \in ViewType /\ pass.rows \in Read
    BY DEF LedInv, PassOK
  <1>5. View(n).receipts \in Receipts
    BY <1>4 DEF View, ViewType
  <1>6. View(n).receipts[i] \in BlockType
    BY <1>3, <1>5 DEF Receipts
  <1>7. i \in Ids
    BY <1>4 DEF Read
  <1> QED
    BY <1>1, <1>6, <1>7 DEF Agreed

(* A row that is told nothing below the proof tag is not mined there. *)
LEMMA NotMined ==
    ASSUME LedInv, NEW i \in Ids, rows[i].nonce < tag, Receipt(i) = NoBlock
    PROVE  chain[rows[i].nonce + 1].tx # Tx(i, rows[i])
  <1>1. rows[i].nonce \in Nat
    <2>1. rows[i] \in RowType
      BY RowsAreGood DEF GoodRow
    <2> QED
      BY <2>1 DEF RowType
  <1>2. tag \in Nat /\ tag <= Len(chain) /\ Len(chain) \in Nat
    BY DEF LedInv, ChainOK, Latest
  <1>3. rows[i].nonce < Len(chain) /\ rows[i].nonce + 1 \in 1..Len(chain)
    BY <1>1, <1>2
  <1>4. chain[rows[i].nonce + 1].tx = Foreign => chain[rows[i].nonce + 1].ok
    BY <1>3 DEF LedInv, ChainOK
  <1> QED
    BY <1>3, <1>4 DEF Receipt, In, NoBlock

(* revertForReorg and markResolved keep a row good. *)
LEMMA RevertKeeps ==
    ASSUME NEW i, NEW r, GoodRow(i, r)
    PROVE  GoodRow(i, Reverted(r)) /\ Same(Reverted(r), r)
  <1>1. r \in RowType
    BY DEF GoodRow
  <1>2. CASE r.level = "latest"
    <2>1. PICK q : q = [r EXCEPT !.status = "LIVE", !.level = "none", !.fork = 0]
      OBVIOUS
    <2>2. q \in RowType /\ Same(q, r) /\ q.status = "LIVE" /\ q.level = "none"
      BY <1>1, <2>1 DEF RowType, Same, Statuses
    <2>3. Reverted(r) = q
      BY <1>2, <2>1 DEF Reverted
    <2> QED
      BY <2>2, <2>3 DEF GoodRow
  <1>3. CASE r.level # "latest"
    BY <1>3 DEF Reverted, Same
  <1> QED
    BY <1>2, <1>3

(* markResolved keeps a row good if what it writes is final. *)
LEMMA ResolveKeeps ==
    ASSUME NEW i, NEW r, GoodRow(i, r), NEW f \in Nat, NEW l \in {"latest", "proof"},
           NEW to \in {"DEAD", "MINED_SUCCESS", "MINED_REVERTED"},
           \A q : /\ Same(q, r) /\ q.status = to /\ (to # "DEAD" => q.fork = f) /\ l = "proof"
                  => Final(i, q)
    PROVE  GoodRow(i, Resolved(r, to, l, f)) /\ Same(Resolved(r, to, l, f), r)
  <1>1. r \in RowType
    BY DEF GoodRow
  <1>2. CASE r.status = "LIVE"
    <2>1. PICK q : q = [r EXCEPT !.status = to, !.level = l, !.fork = f]
      OBVIOUS
    <2>2. /\ q \in RowType /\ Same(q, r) /\ q.status = to /\ q.status # "LIVE" /\ q.level = l
          /\ q.level # "none" /\ q.fork = f
      BY <1>1, <2>1 DEF RowType, Same, Statuses, Mined
    <2>3. Resolved(r, to, l, f) = q
      BY <1>2, <2>1 DEF Resolved
    <2> QED
      BY <2>2, <2>3 DEF GoodRow
  <1>3. CASE /\ r.status # "LIVE" /\ r.status = to /\ r.level = "latest" /\ l = "proof"
             /\ to = "DEAD" \/ r.fork = f
    <2>1. PICK q : q = [r EXCEPT !.level = "proof"]
      OBVIOUS
    <2>2. q \in RowType /\ Same(q, r) /\ q.status = r.status /\ q.level = "proof" /\ q.fork = r.fork
      BY <1>1, <2>1 DEF RowType, Same
    <2>3. Resolved(r, to, l, f) = q
      BY <1>3, <2>1 DEF Resolved
    <2> QED
      BY <1>3, <2>2, <2>3 DEF GoodRow
  <1>4. CASE Resolved(r, to, l, f) = r
    BY <1>4 DEF Same
  <1> QED
    BY <1>2, <1>3, <1>4 DEF Resolved

(* What the pass writes on a row is true of it. *)
LEMMA WrittenIsGood ==
    ASSUME LedInv, AllRead, NEW nonce, NEW i \in Decision(nonce).ids
    PROVE  /\ i \in Ids
           /\ GoodRow(i, Written(Decision(nonce), i)) /\ Same(Written(Decision(nonce), i), rows[i])
  <1>1. PICK d : d = Decision(nonce)
    OBVIOUS
  <1>2. /\ i \in Seen(nonce) /\ d.kind \in {"reorg", "foreign", "winner"}
        /\ d.level = ProofLevel(nonce)
        /\ d.kind = "foreign" => Agreed(i) = NoBlock
    BY <1>1, DecisionShape
  <1>3. /\ i \in DOMAIN pass.rows /\ pass.rows[i].nonce = nonce /\ i \in Ids
        /\ rows[i].nonce = nonce /\ Agreed(i) \in BlockType
    <2>1. i \in DOMAIN pass.rows /\ pass.rows[i].nonce = nonce
      BY <1>2 DEF Seen
    <2> QED
      BY <2>1, AgreedIsBlock DEF LedInv, PassOK, Same
  <1>4. GoodRow(i, rows[i])
    BY <1>3, RowsAreGood
  <1>5. d.level \in {"latest", "proof"}
    BY <1>2 DEF ProofLevel
  <1>6. d.level = "proof" => nonce < tag /\ Agreed(i) = Receipt(i)
    BY <1>2, ProofAnswers
  <1>7. CASE d.kind = "reorg"
    BY <1>1, <1>3, <1>4, <1>7, RevertKeeps DEF Written
  <1>8. CASE d.kind = "winner" /\ Agreed(i) # NoBlock
    <2>1. PICK b \in BlockType : b = Agreed(i)
      BY <1>3
    <2>2. PICK r : r = IF pass.rows[i].status = "DEAD" THEN Reverted(rows[i]) ELSE rows[i]
      OBVIOUS
    <2>3. GoodRow(i, r) /\ Same(r, rows[i])
      BY <1>4, <2>2, RevertKeeps DEF Same
    <2>4. b.fork \in Nat /\ Outcome(b) \in {"MINED_SUCCESS", "MINED_REVERTED"}
      BY <2>1 DEF BlockType, Outcome
    <2>5. ASSUME NEW q, Same(q, r), q.status = Outcome(b), q.fork = b.fork, d.level = "proof"
          PROVE  Final(i, q)
      <3>1. In(chain, i, rows[i]) /\ b = chain[nonce + 1] /\ nonce < tag
        BY <1>3, <1>6, <1>8, <2>1, <2>5 DEF Receipt
      <3>2. q.nonce = nonce /\ Tx(i, q) = Tx(i, rows[i])
        BY <1>3, <2>3, <2>5 DEF Same, Tx, Ours
      <3>3. b.tx = Tx(i, rows[i])
        BY <1>3, <3>1 DEF In
      <3> QED
        BY <2>4, <2>5, <3>1, <3>2, <3>3 DEF Final
    <2>6. /\ GoodRow(i, Resolved(r, Outcome(b), d.level, b.fork))
          /\ Same(Resolved(r, Outcome(b), d.level, b.fork), r)
      <3>1. PICK to : to = Outcome(b)
        OBVIOUS
      <3>2. \A q : /\ Same(q, r) /\ q.status = to /\ (to # "DEAD" => q.fork = b.fork)
                   /\ d.level = "proof"
                   => Final(i, q)
        BY <2>4, <2>5, <3>1
      <3>3. to \in {"DEAD", "MINED_SUCCESS", "MINED_REVERTED"} /\ b.fork \in Nat
        BY <2>4, <3>1
      <3> QED
        BY <1>5, <2>3, <3>1, <3>2, <3>3, ResolveKeeps
    <2>7. Written(d, i) = Resolved(r, Outcome(b), d.level, b.fork)
      BY <1>8, <2>1, <2>2 DEF Written
    <2> QED
      BY <1>1, <1>3, <2>3, <2>6, <2>7 DEF Same
  <1>9. CASE d.kind # "reorg" /\ ~(d.kind = "winner" /\ Agreed(i) # NoBlock)
    <2>1. Agreed(i) = NoBlock
      BY <1>2, <1>9
    <2>2. ASSUME NEW q, Same(q, rows[i]), q.status = "DEAD", d.level = "proof"
          PROVE  Final(i, q)
      <3>1. nonce < tag /\ chain[nonce + 1].tx # Tx(i, rows[i])
        BY <1>3, <1>6, <2>1, <2>2, NotMined
      <3>2. q.nonce = nonce /\ Tx(i, q) = Tx(i, rows[i])
        BY <1>3, <2>2 DEF Same, Tx, Ours
      <3> QED
        BY <2>2, <3>1, <3>2 DEF Final
    <2>3. /\ GoodRow(i, Resolved(rows[i], "DEAD", d.level, 0))
          /\ Same(Resolved(rows[i], "DEAD", d.level, 0), rows[i])
      <3>1. \A q : /\ Same(q, rows[i]) /\ q.status = "DEAD" /\ ("DEAD" # "DEAD" => q.fork = 0)
                   /\ d.level = "proof"
                   => Final(i, q)
        BY <2>2
      <3> QED
        BY <1>4, <1>5, <3>1, ResolveKeeps
    <2>4. Written(d, i) = Resolved(rows[i], "DEAD", d.level, 0)
      BY <1>9 DEF Written
    <2> QED
      BY <1>1, <1>3, <2>3, <2>4
  <1> QED
    BY <1>2, <1>7, <1>8, <1>9

(* The ledger after the writes of one nonce, or of some of them. *)
LEMMA WriteIsGood ==
    ASSUME LedInv, AllRead, NEW nonce, NEW I \in SUBSET Decision(nonce).ids, NEW W,
           W = Write(Decision(nonce), I)
    PROVE  /\ W \in Seq(RowType) /\ Len(W) = Len(rows)
           /\ \A i \in Ids : GoodRow(i, W[i]) /\ Same(W[i], rows[i])
  <1>1. \A i \in Ids : GoodRow(i, W[i]) /\ Same(W[i], rows[i])
    <2> SUFFICES ASSUME NEW i \in Ids PROVE GoodRow(i, W[i]) /\ Same(W[i], rows[i])
      OBVIOUS
    <2>1. CASE i \in I
      <3>1. W[i] = Written(Decision(nonce), i)
        BY <2>1 DEF Write
      <3> QED
        BY <2>1, <3>1, WrittenIsGood
    <2>2. CASE i \notin I
      <3>1. W[i] = rows[i]
        BY <2>2 DEF Write
      <3> QED
        BY <3>1, RowsAreGood DEF Same
    <2> QED
      BY <2>1, <2>2
  <1>2. W = [i \in 1..Len(rows) |-> W[i]] /\ Ids = 1..Len(rows) /\ Len(rows) \in Nat
    BY DEF Write, LedInv, LedgerOK, Ids
  <1>3. \A i \in 1..Len(rows) : W[i] \in RowType
    BY <1>1, <1>2 DEF GoodRow
  <1>4. W \in [1..Len(rows) -> RowType]
    BY <1>2, <1>3
  <1> QED
    BY <1>1, <1>2, <1>4

(* The transaction of somebody else is booked at what is proven of its nonce. *)
LEMMA ExternalIsGood ==
    ASSUME LedInv, AllRead, NEW nonce \in pass.todo, NEW E, E = External(Decision(nonce), nonce)
    PROVE  \/ E = <<>>
           \/ \E r : E = <<r>> /\ r.nonce < Latest /\ ~Decides(r) /\ \A i \in Nat : GoodRow(i, r)
  <1> SUFFICES ASSUME E # <<>>
               PROVE  \E r : /\ E = <<r>> /\ r.nonce < Latest /\ ~Decides(r)
                             /\ \A i \in Nat : GoodRow(i, r)
    OBVIOUS
  <1>1. PICK d : d = Decision(nonce)
    OBVIOUS
  <1>2. PICK r : r = [Row(nonce, NoJob, "noop", "EXTERNAL") EXCEPT
                        !.status = "MINED_SUCCESS", !.level = d.level, !.fork = chain[nonce + 1].fork]
    OBVIOUS
  <1>3. E = <<r>> /\ nonce < Len(chain) /\ chain[nonce + 1].tx = Foreign
    BY <1>1, <1>2 DEF External, Latest
  <1>4. nonce \in Nat /\ chain \in Seq(BlockType)
    BY DEF LedInv, PassOK, ChainOK
  <1>5. nonce + 1 \in 1..Len(chain)
    BY <1>3, <1>4
  <1>6. chain[nonce + 1] \in BlockType /\ chain[nonce + 1].ok
    BY <1>3, <1>4, <1>5 DEF LedInv, ChainOK
  <1>7. d.level = ProofLevel(nonce) /\ d.level \in {"latest", "proof"}
    BY <1>1, DecisionShape DEF ProofLevel
  <1>8. chain[nonce + 1].fork \in Nat
    BY <1>6 DEF BlockType
  <1>9. /\ r.nonce = nonce /\ r.kind = "EXTERNAL" /\ r.status = "MINED_SUCCESS"
        /\ r.level = d.level /\ r.fork = chain[nonce + 1].fork
    BY <1>2 DEF Row
  <1>10. r \in RowType
    BY <1>2, <1>4, <1>7, <1>8 DEF Row, RowType, Calls, Kinds, Statuses, Mined
  <1>11. r.level = "proof" => nonce < tag
    BY <1>7, <1>9, ProofAnswers
  <1>12. \A i \in Nat : GoodRow(i, r)
    BY <1>3, <1>6, <1>7, <1>9, <1>10, <1>11 DEF GoodRow, Final, Tx, Ours, Outcome
  <1> QED
    BY <1>3, <1>9, <1>12 DEF Latest, Decides

(* The pass writes what it concluded of one nonce. *)
LEMMA ResolveStep ==
    ASSUME LedInv, NEW nonce \in pass.todo, Resolve(nonce)
    PROVE  /\ LedInv' /\ RowsMove /\ ChainMove
           /\ \A i \in Ids' : i \in Ids \/ ~Decides(rows'[i])
  <1>1. AllRead /\ LedgerOK /\ ChainOK /\ PassOK /\ rows \in Seq(RowType) /\ Len(rows) \in Nat
    BY DEF Resolve, LedInv, LedgerOK
  <1>2. PICK d : d = Decision(nonce)
    OBVIOUS
  <1>3. PICK W : W = Write(d, d.ids)
    OBVIOUS
  <1>4. PICK E : E = External(d, nonce)
    OBVIOUS
  <1>5. /\ W \in Seq(RowType) /\ Len(W) = Len(rows)
        /\ \A i \in Ids : GoodRow(i, W[i]) /\ Same(W[i], rows[i])
    <2>1. d.ids \in SUBSET Decision(nonce).ids
      BY <1>2
    <2> QED
      BY <1>1, <1>2, <1>3, <2>1, WriteIsGood
  <1>6. /\ rows' = W \o E /\ stamp' = MovedStamp(d)
        /\ UNCHANGED <<wire, chain, tag, fork, refused, send, lane>>
    BY <1>2, <1>3, <1>4 DEF Resolve, chainVars
  <1>7. Ids = 1..Len(rows)
    BY <1>1 DEF Ids
  <1>8. /\ rows' \in Seq(RowType) /\ Len(rows) <= Len(rows')
        /\ \A i \in Ids : i \in Ids' /\ rows'[i] = W[i]
        /\ \A i \in Ids' : /\ GoodRow(i, rows'[i])
                           /\ i \in Ids \/ (rows'[i].nonce < Latest /\ ~Decides(rows'[i]))
    <2>1. CASE E = <<>>
      <3>1. rows' = W
        BY <1>5, <1>6, <2>1
      <3>2. Ids' = Ids
        BY <1>5, <1>7, <3>1 DEF Ids
      <3> QED
        BY <1>1, <1>5, <3>1, <3>2
    <2>2. CASE \E r : E = <<r>> /\ r.nonce < Latest /\ ~Decides(r) /\ \A i \in Nat : GoodRow(i, r)
      <3>1. PICK r : E = <<r>> /\ r.nonce < Latest /\ ~Decides(r) /\ \A i \in Nat : GoodRow(i, r)
        BY <2>2
      <3>2. r \in RowType
        BY <3>1 DEF GoodRow
      <3> DEFINE n == Len(rows) + 1
      <3>3. /\ rows' \in Seq(RowType) /\ Len(rows') = n /\ rows'[n] = r
            /\ \A i \in 1..Len(rows) : rows'[i] = W[i]
        BY SMTT(30), <1>1, <1>5, <1>6, <3>1, <3>2
      <3>4. Ids' = 1..n /\ n \in Nat /\ Len(rows) <= n
        BY <1>1, <3>3 DEF Ids
      <3>5. \A i \in 1..n : i = n \/ i \in 1..Len(rows)
        BY <1>1
      <3>6. \A i \in 1..Len(rows) : i \in 1..n
        BY <1>1
      <3> HIDE DEF n
      <3> QED
        BY <1>5, <1>7, <3>1, <3>3, <3>4, <3>5, <3>6
    <2> QED
      BY <1>1, <1>2, <1>4, <2>1, <2>2, ExternalIsGood
  <1>9. RowsMove
    BY <1>5, <1>8 DEF RowsMove
  <1>10. stamp' \in [Jobs -> Nat] /\ \A j \in Jobs : stamp'[j] <= Len(rows)
    <2>1. \A j \in Jobs : stamp[j] \in Nat /\ stamp[j] <= Len(rows)
      BY <1>1 DEF LedgerOK
    <2>2. \A i \in WinnersJob(d) : i \in Nat /\ i <= Len(rows)
      <3>1. \A i \in d.ids : i \in Ids
        BY <1>1, <1>2, WrittenIsGood
      <3> QED
        BY <1>1, <1>7, <3>1 DEF WinnersJob
    <2>3. ASSUME NEW j \in Jobs PROVE MovedStamp(d)[j] \in Nat /\ MovedStamp(d)[j] <= Len(rows)
      <3>1. CASE \E i \in WinnersJob(d) : rows[i].job = j
        <4>1. MovedStamp(d)[j] \in WinnersJob(d)
          BY <3>1 DEF MovedStamp
        <4> QED
          BY <2>2, <4>1
      <3>2. CASE ~\E i \in WinnersJob(d) : rows[i].job = j
        BY <2>1, <3>2 DEF MovedStamp
      <3> QED
        BY <3>1, <3>2
    <2>4. MovedStamp(d) = [j \in Jobs |-> MovedStamp(d)[j]]
      BY DEF MovedStamp
    <2> QED
      BY <1>6, <2>3, <2>4
  <1>11. LedgerOK' /\ ChainOK' /\ SendOK' /\ ProvenOK' /\ ChainMove
    BY <1>6, <1>8, <1>9, <1>10, Rewritten
  <1>12. PassOK'
    <2>1. CASE pass' = [Rest EXCEPT !.pc = "head"]
      BY <2>1, Resting
    <2>2. CASE pass' = [pass EXCEPT !.todo = @ \ {nonce}]
      BY <1>1, <1>9, <1>11, <2>2, PassShrinks
    <2> QED
      BY <2>1, <2>2 DEF Resolve
  <1> QED
    BY <1>8, <1>9, <1>11, <1>12 DEF LedInv

(* The pass dies between two writes. *)
LEMMA PassDiesStep ==
    ASSUME LedInv, NEW nonce \in pass.todo, PassDies(nonce)
    PROVE  LedInv' /\ RowsMove /\ ChainMove
  <1>1. /\ AllRead /\ LedgerOK /\ rows \in Seq(RowType) /\ Len(rows) \in Nat
        /\ UNCHANGED <<stamp, wire, chain, tag, fork, refused, send, lane>> /\ pass' = Rest
    BY DEF PassDies, LedInv, LedgerOK, chainVars
  <1>2. PICK I \in SUBSET Decision(nonce).ids : rows' = Write(Decision(nonce), I)
    BY DEF PassDies
  <1>3. PICK W : W = Write(Decision(nonce), I)
    OBVIOUS
  <1>4. /\ W \in Seq(RowType) /\ Len(W) = Len(rows)
        /\ \A i \in Ids : GoodRow(i, W[i]) /\ Same(W[i], rows[i])
    BY <1>1, <1>3, WriteIsGood
  <1>5. rows' = W /\ Ids' = Ids
    BY <1>1, <1>2, <1>3, <1>4 DEF Ids
  <1>6. RowsMove
    BY <1>1, <1>4, <1>5 DEF RowsMove
  <1>7. stamp' \in [Jobs -> Nat] /\ \A j \in Jobs : stamp'[j] <= Len(rows)
    BY <1>1 DEF LedgerOK
  <1>8. LedgerOK' /\ ChainOK' /\ SendOK' /\ ProvenOK' /\ ChainMove
    BY <1>1, <1>4, <1>5, <1>6, <1>7, Rewritten
  <1>9. PassOK'
    BY <1>1, Resting
  <1> QED
    BY <1>6, <1>8, <1>9 DEF LedInv

(***************************************************************************)
(* The invariant.                                                          *)
(***************************************************************************)
LEMMA InitLed ==
    ASSUME Init
    PROVE  LedInv
  <1>1. rows = <<>> /\ Len(rows) = 0 /\ Ids = {} /\ chain = <<>> /\ Len(chain) = 0
    BY DEF Init, Ids
  <1>2. LedgerOK
    BY <1>1 DEF Init, LedgerOK
  <1>3. ChainOK
    <2>1. chain \in Seq(BlockType) /\ \A k \in 1..0 : FALSE
      BY <1>1
    <2> QED
      BY <1>1, <2>1 DEF Init, ChainOK, Latest
  <1>4. SendOK
    <2>1. \A s \in Senders : Fits(s, Idle)
      BY <1>2, IdleFits
    <2>2. \A s \in Senders : send[s] = Idle
      BY DEF Init
    <2>3. send \in [Senders -> Sends]
      BY <2>1 DEF Init, Fits
    <2> QED
      BY <2>1, <2>2, <2>3 DEF Init, SendOK
  <1>5. PassOK
    <2>1. <<>> \in Read /\ <<>> \in Receipts
      <3>1. <<>> \in [{} -> BlockType] /\ <<>> \in [{} -> RowType] /\ {} \in SUBSET Ids
        OBVIOUS
      <3> QED
        BY <3>1 DEF Read, Receipts
    <2>2. Asked \in ViewType
      BY <2>1 DEF Asked, ViewType
    <2>3. PICK v : v = [n \in Nodes |-> Asked]
      OBVIOUS
    <2>4. v \in [Nodes -> ViewType] /\ \A n \in Nodes : v[n].proof = {} /\ v[n].at = "ask"
      BY <2>2, <2>3 DEF Asked
    <2>5. pass = [pc |-> "idle", rows |-> <<>>, todo |-> {}, views |-> v]
      BY <2>3 DEF Init, Rest
    <2> QED
      BY <2>1, <2>4, <2>5 DEF PassOK, View
  <1>6. ProvenOK
    BY <1>1 DEF ProvenOK
  <1> QED
    BY <1>2, <1>3, <1>4, <1>5, <1>6 DEF LedInv

(* Below the proof tag the chain only grows. *)
LEMMA ChainOnlyGrows ==
    ASSUME LedInv, Mine \/ ProofCatchesUp \/ ForeignMines \/ Reorg
    PROVE  ChainMove
  <1>1. /\ chain \in Seq(BlockType) /\ tag \in Nat /\ tag <= Len(chain) /\ Len(chain) \in Nat
        /\ chain' \in Seq(BlockType) /\ tag' \in Nat /\ tag' <= Len(chain')
    <2>1. LedInv'
      BY ChainSteps
    <2> QED
      BY <2>1 DEF LedInv, ChainOK, Latest
  <1>2. CASE ProofCatchesUp
    BY <1>1, <1>2 DEF ProofCatchesUp, ChainMove
  <1>3. CASE Reorg
    <2>1. PICK n \in tag .. Len(chain) - 1 : chain' = SubSeq(chain, 1, n)
      BY <1>3 DEF Reorg, Latest
    <2>2. \A k \in 1..tag : chain'[k] = chain[k]
      BY <1>1, <2>1
    <2> QED
      BY <1>1, <1>3, <2>2 DEF Reorg, ChainMove
  <1>4. CASE \E b : chain' = Append(chain, b) /\ UNCHANGED tag
    BY <1>1, <1>4 DEF ChainMove
  <1> QED
    BY <1>2, <1>3, <1>4 DEF Mine, ForeignMines

(* Every step keeps the invariant, and what it does to rows and chain. *)
LEMMA NextLed ==
    ASSUME LedInv, [Next]_ledVars
    PROVE  LedInv' /\ RowsMove /\ ChainMove
  <1>0. LedgerOK /\ ChainOK
    BY DEF LedInv
  <1>1. CASE \/ \E s \in Workers : Gate(s)
             \/ \E s \in Senders : Choose(s) \/ Send(s) \/ Crash(s)
             \/ ScriptChooses \/ LoseLane
    <2>1. UNCHANGED <<rows, chain, tag>>
      BY <1>1 DEF Gate, Choose, Send, Crash, ScriptChooses, LoseLane, ledgerVars, chainVars
    <2> QED
      BY <1>0, <1>1, <2>1, SenderSteps, StillRows, StillChain
  <1>2. ASSUME NEW s \in Senders, Record(s) PROVE LedInv' /\ RowsMove /\ ChainMove
    <2>1. UNCHANGED <<chain, tag>>
      BY <1>2 DEF Record, chainVars
    <2> QED
      BY <1>0, <1>2, <2>1, RecordStep, StillChain
  <1>3. ASSUME NEW i \in Ids, MarkOwnMined(i) PROVE LedInv' /\ RowsMove /\ ChainMove
    BY <1>3, MarkStep
  <1>4. CASE \/ PassStarts \/ PassEnds
             \/ \E n \in Nodes : ReadNonces(n) \/ ReadReceipts(n)
    <2>1. UNCHANGED <<rows, chain, tag>>
      BY <1>4 DEF PassStarts, PassEnds, ReadNonces, ReadReceipts, ledgerVars, chainVars
    <2> QED
      BY <1>0, <1>4, <2>1, ReadSteps, StillRows, StillChain
  <1>5. ASSUME NEW nonce \in pass.todo, Resolve(nonce) \/ PassDies(nonce)
        PROVE  LedInv' /\ RowsMove /\ ChainMove
    BY <1>5, ResolveStep, PassDiesStep
  <1>6. ASSUME NEW i \in Ids, RebroadcastLostHead(i) PROVE LedInv' /\ RowsMove /\ ChainMove
    <2>1. UNCHANGED <<rows, chain, tag>>
      BY <1>6 DEF RebroadcastLostHead, ledgerVars
    <2> QED
      BY <1>0, <1>6, <2>1, RebroadcastStep, StillRows, StillChain
  <1>7. CASE Mine \/ ProofCatchesUp \/ ForeignMines \/ Reorg
    <2>1. UNCHANGED rows
      BY <1>7 DEF Mine, ProofCatchesUp, ForeignMines, Reorg, ledgerVars
    <2> QED
      BY <1>0, <1>7, <2>1, ChainSteps, ChainOnlyGrows, StillRows
  <1>8. CASE Drop \/ Forget \/ RefusePayout
    <2>1. UNCHANGED <<rows, chain, tag>>
      BY <1>8 DEF Drop, Forget, RefusePayout, ledgerVars
    <2> QED
      BY <1>0, <1>8, <2>1, PoolSteps, StillRows, StillChain
  <1>9. CASE UNCHANGED ledVars
    <2>1. UNCHANGED <<rows, stamp, wire, chain, tag, fork, refused, send, lane, pass>>
      BY <1>9 DEF ledVars, ledgerVars, chainVars
    <2> QED
      BY <1>0, <2>1, StillRows, StillChain, OnlySends, KeepSend DEF LedInv
  <1> QED
    BY <1>1, <1>2, <1>3, <1>4, <1>5, <1>6, <1>7, <1>8, <1>9 DEF Next, InLane, PassRuns

(* The invariant holds in every reachable state. *)
LEMMA LedInvHolds == LedSpec => []LedInv
  <1>1. Init => LedInv
    BY InitLed
  <1>2. LedInv /\ [Next]_ledVars => LedInv'
    BY NextLed
  <1> QED
    BY <1>1, <1>2, PTL DEF LedSpec

(* What the history notes of a job it never forgets. *)
LEMMA ReturnedGrows ==
    ASSUME [Next]_ledVars
    PROVE  /\ returned \subseteq returned'
           /\ returned \subseteq Jobs => returned' \subseteq Jobs
           /\ (\A nonce \in pass.todo : ~Resolve(nonce)) => returned' = returned
  <1>1. ASSUME NEW nonce, Resolve(nonce)
        PROVE  returned \subseteq returned' /\ (returned \subseteq Jobs => returned' \subseteq Jobs)
    <2>1. Returned(Decision(nonce)) \subseteq Jobs
      BY DEF Returned
    <2> QED
      BY <1>1, <2>1 DEF Resolve
  <1>2. CASE \/ \E s \in Workers : Gate(s)
             \/ \E s \in Senders : Choose(s) \/ Record(s) \/ Send(s) \/ Crash(s)
             \/ ScriptChooses \/ LoseLane
             \/ \E i \in Ids : MarkOwnMined(i)
    BY <1>2 DEF Gate, Choose, Record, Send, Crash, ScriptChooses, LoseLane, MarkOwnMined, ledgerVars
  <1>3. CASE \/ PassStarts \/ PassEnds
             \/ \E n \in Nodes : ReadNonces(n) \/ ReadReceipts(n)
             \/ \E i \in Ids : RebroadcastLostHead(i)
             \/ \E nonce \in pass.todo : PassDies(nonce)
    BY <1>3 DEF PassStarts, PassEnds, ReadNonces, ReadReceipts, RebroadcastLostHead, PassDies,
       ledgerVars
  <1>4. CASE \/ Mine \/ ProofCatchesUp \/ ForeignMines \/ Reorg \/ Drop \/ Forget \/ RefusePayout
             \/ UNCHANGED ledVars
    BY <1>4 DEF Mine, ProofCatchesUp, ForeignMines, Reorg, Drop, Forget, RefusePayout, ledVars,
       ledgerVars
  <1> QED
    BY <1>1, <1>2, <1>3, <1>4 DEF Next, InLane, PassRuns

(* The ledger, the stamps and the chain's own state keep their types: a     *)
(* stamp is a number, no mempool holds a transaction that has no row, and   *)
(* the proof tag never passes the head.                                     *)
THEOREM LedTypeCorrect == LedSpec => []LedTypeOK
  <1>1. LedInv /\ returned \subseteq Jobs => LedTypeOK
    BY DEF LedInv, LedgerOK, ChainOK, SendOK, PassOK, LedTypeOK, RowType, Calls, Kinds
  <1>2. Init => returned \subseteq Jobs
    BY DEF Init
  <1>3. returned \subseteq Jobs /\ [Next]_ledVars => (returned \subseteq Jobs)'
    BY ReturnedGrows
  <1> QED
    BY <1>1, <1>2, <1>3, LedInvHolds, PTL DEF LedSpec

(* What the ledger calls proven never changes any more: a row booked as     *)
(* mined at the proof level is below the proof tag in the block it names,   *)
(* with the outcome it was booked with, and a dead one lost its nonce there *)
(* to another transaction (resolveNonceDecision, markResolved).             *)
THEOREM ProofIsFinalHolds == LedSpec => []ProofIsFinal
  <1>1. LedInv => ProofIsFinal
    BY DEF LedInv, ProvenOK, ProofIsFinal, Final
  <1> QED
    BY <1>1, LedInvHolds, PTL

(***************************************************************************)
(* One decision per job.                                                   *)
(***************************************************************************)
(* What can no longer be mined stays so. *)
LEMMA BuriedKept ==
    ASSUME LedInv, RowsMove, ChainMove, NEW i \in Ids, Buried(i)
    PROVE  i \in Ids' /\ Buried(i)'
  <1>1. rows[i] \in RowType /\ Same(rows'[i], rows[i]) /\ i \in Ids'
    BY RowsAreGood DEF RowsMove, GoodRow
  <1>2. PICK n : n = rows[i].nonce
    OBVIOUS
  <1>3. n \in Nat /\ rows'[i].nonce = n /\ Tx(i, rows'[i]) = Tx(i, rows[i]) /\ n < tag
    BY <1>1, <1>2 DEF RowType, Same, Tx, Ours, Buried
  <1>4. /\ tag \in Nat /\ tag <= Len(chain) /\ Len(chain) \in Nat /\ chain' \in Seq(BlockType)
        /\ tag' \in Nat /\ tag <= tag' /\ tag' <= Len(chain')
    BY DEF LedInv, ChainOK, ChainMove, Latest
  <1>5. n + 1 \in 1..tag /\ n < Len(chain) /\ n < tag'
    BY <1>3, <1>4
  <1>6. chain'[n + 1] = chain[n + 1]
    BY <1>5 DEF ChainMove
  <1>7. ~Success(chain', i, rows'[i])
    BY <1>2, <1>3, <1>5, <1>6 DEF Buried, Success, In
  <1> QED
    BY <1>1, <1>3, <1>5, <1>7 DEF Buried

(* What the gate lets pass has no rival that could be mined. *)
LEMMA GateClears ==
    ASSUME LedInv, NEW s \in Workers, NothingPending(s[1], s[2]), NEW i \in RivalsOf(s[1], s[2])
    PROVE  Buried(i)
  <1>1. /\ i \in Ids /\ rows[i].job = s[1] /\ Decides(rows[i]) /\ rows[i].call # s[2]
        /\ GoodRow(i, rows[i])
    BY RowsAreGood DEF RivalsOf
  <1>2. rows[i] \in RowType /\ (Live(i) <=> rows[i].level = "none")
    BY <1>1 DEF GoodRow, Live
  <1>3. CASE rows[i].level = "proof" /\ rows[i].status # "MINED_SUCCESS"
    <2>1. Final(i, rows[i]) /\ rows[i].status \in {"DEAD", "MINED_REVERTED"}
      BY <1>1, <1>2, <1>3 DEF GoodRow, RowType, Statuses, Mined
    <2> QED
      BY <2>1 DEF Final, Buried, Success, In, Outcome
  <1>4. Depth(i, s[2]) = "proof"
    BY <1>1 DEF Depth
  <1>5. CASE i \in GateRows(s[1])
    <2>1. Clear(i, "proof")
      BY <1>4, <1>5 DEF NothingPending
    <2>2. CASE rows[i].level = "proof"
      BY <1>1, <1>3, <2>1, <2>2 DEF Clear
    <2>3. CASE rows[i].level # "proof"
      BY <1>1, <2>1, <2>3 DEF Clear, Consumed, Buried
    <2> QED
      BY <2>2, <2>3
  <1>6. CASE i \notin GateRows(s[1])
    <2>1. rows[i].level = "proof" /\ rows[i].status # "MINED_SUCCESS"
      BY <1>1, <1>2, <1>6 DEF GateRows, RowType
    <2> QED
      BY <1>3, <2>1
  <1> QED
    BY <1>5, <1>6

(* No new decision, and no sender is told that its stamp stands again. *)
LEMMA KeepDecisions ==
    ASSUME LedInv, DecInv, RowsMove, ChainMove, returned \subseteq returned',
           \A i \in Ids' : i \in Ids \/ ~Decides(rows'[i]),
           \A s \in Workers :
               (/\ send'[s].pc \in {"gated", "chosen"} /\ stamp'[s[1]] = send'[s].seen
                /\ s[1] \notin returned') =>
               \/ send[s].pc \in {"gated", "chosen"} /\ stamp[s[1]] = send[s].seen
               \/ \A i \in RivalsOf(s[1], s[2]) : Buried(i)
    PROVE  DecInv'
  <1>1. ASSUME NEW i \in Ids PROVE Decides(rows'[i]) = Decides(rows[i])
                                   /\ rows'[i].job = rows[i].job /\ rows'[i].call = rows[i].call
    BY DEF RowsMove, Same, Decides
  <1>2. \A i \in Ids : Buried(i) => Buried(i)'
    BY BuriedKept
  <1>3. OneDecision'
    <2> SUFFICES ASSUME NEW i \in Ids', NEW k \in Ids', rows'[i].job = rows'[k].job,
                        rows'[i].call # rows'[k].call, Decides(rows'[i]), Decides(rows'[k])
                 PROVE  Buried(i)' \/ Buried(k)' \/ rows'[i].job \in returned'
      BY DEF OneDecision
    <2>1. i \in Ids /\ k \in Ids
      OBVIOUS
    <2> QED
      BY <1>1, <1>2, <2>1 DEF DecInv, OneDecision
  <1>4. Gated'
    <2> SUFFICES ASSUME NEW s \in Workers, send'[s].pc \in {"gated", "chosen"},
                        stamp'[s[1]] = send'[s].seen, s[1] \notin returned',
                        NEW i \in Ids', rows'[i].job = s[1],
                        Decides(rows'[i]), rows'[i].call # s[2]
                 PROVE  Buried(i)'
      BY DEF Gated, RivalsOf
    <2>1. i \in Ids
      OBVIOUS
    <2>2. i \in RivalsOf(s[1], s[2])
      BY <1>1, <2>1 DEF RivalsOf
    <2> QED
      BY <1>2, <2>1, <2>2 DEF DecInv, Gated
  <1> QED
    BY <1>3, <1>4 DEF DecInv

(* A decision is recorded only where no rival of it can be mined. *)
LEMMA RecordDecides ==
    ASSUME LedInv, DecInv, NEW s \in Senders, Record(s)
    PROVE  DecInv'
  <1>1. /\ LedInv' /\ RowsMove /\ ChainMove /\ LedgerOK /\ ChainOK /\ send \in [Senders -> Sends]
        /\ UNCHANGED <<chain, tag, returned>>
    <2>1. UNCHANGED <<chain, tag, returned>>
      BY DEF Record, chainVars, ledgerVars
    <2> QED
      BY <2>1, RecordStep, StillChain DEF LedInv, SendOK
  <1>2. send[s].pc = "chosen" /\ send[s] \in Sends /\ Fits(s, send[s])
    BY DEF Record, LedInv, SendOK
  <1>3. Workers \subseteq Senders
    BY DEF Senders
  <1>4. CASE ~Recordable(s)
    <2>1. UNCHANGED <<rows, stamp>> /\ send' = [send EXCEPT ![s] = Idle]
      BY <1>4 DEF Record, ledgerVars
    <2>2. \A z \in Workers : send'[z] = send[z] \/ send'[z].pc = "idle"
      BY <1>1, <1>3, <2>1 DEF Idle
    <2> QED
      BY <1>1, <2>1, <2>2, KeepDecisions DEF Ids
  <1>5. CASE Recordable(s)
    <2>1. PICK r \in NewRow : r = send[s].row
      BY <1>2 DEF Sends
    <2>0. PICK n : n = Len(rows) + 1
      OBVIOUS
    <2>2. /\ rows' = Append(rows, r)
          /\ stamp' = IF Decides(r) THEN [stamp EXCEPT ![r.job] = n] ELSE stamp
          /\ send' = [send EXCEPT ![s].pc = "recorded", ![s].of = n]
      BY <1>5, <2>0, <2>1 DEF Record
    <2>3. rows \in Seq(RowType) /\ r \in RowType /\ Len(rows) \in Nat
      BY <1>1 DEF LedgerOK, NewRow
    <2>4. /\ rows'[n] = r /\ n \in Nat /\ Len(rows) < n
          /\ \A i \in Ids : i \in Ids' /\ rows'[i] = rows[i]
          /\ \A i \in Ids' : i \in Ids \/ i = n
      BY <2>0, <2>2, <2>3 DEF Ids
    <2>5. send'[s].pc = "recorded" /\ \A z \in Senders : z # s => send'[z] = send[z]
      BY <1>1, <1>2, <2>2 DEF Sends
    <2>6. CASE ~Decides(r)
      <3>1. stamp' = stamp
        BY <2>2, <2>6
      <3>2. \A z \in Workers : send'[z].pc \in {"gated", "chosen"} => send'[z] = send[z]
        BY <1>3, <2>5
      <3> QED
        BY <1>1, <2>4, <2>6, <3>1, <3>2, KeepDecisions
    <2>7. CASE Decides(r)
      <3>1. ASSUME NEW k \in Ids, rows[k].job = r.job, Decides(rows[k]), rows[k].call # r.call
            PROVE  Buried(n)' \/ Buried(k)' \/ r.job \in returned
        <4>1. StampAsRead(s) /\ FreeNonce(send[s])
          BY <1>5 DEF Recordable
        <4>2. CASE s \in Workers
          <5>1. s # Operator
            BY <4>2, LedgerAssumption DEF Workers, Operator
          <5>2. k \in RivalsOf(s[1], s[2])
            BY <1>2, <2>1, <3>1, <4>2 DEF Fits, RivalsOf
          <5>3. Buried(k) \/ s[1] \in returned
            BY <1>2, <4>1, <4>2, <5>1, <5>2 DEF DecInv, Gated, StampAsRead
          <5>4. r.job = s[1]
            BY <1>2, <2>1, <4>2 DEF Fits
          <5> QED
            BY <1>1, <5>3, <5>4, BuriedKept
        <4>3. CASE s = Operator
          <5>1. PICK o : o = send[s].of
            OBVIOUS
          <5>2. /\ r.kind = "SPEED_UP" /\ o \in Ids /\ Decides(rows[o]) /\ rows[o].call = r.call
                /\ rows[o].job = r.job /\ rows[o].nonce = r.nonce
            BY <1>2, <2>1, <2>7, <4>1, <4>3, <5>1 DEF Fits, Decides, FreeNonce, LiveAt
          <5>3. Buried(o) \/ Buried(k) \/ r.job \in returned
            BY <3>1, <5>2 DEF DecInv, OneDecision
          <5>4. ASSUME Buried(o) PROVE Buried(n)'
            <6>1. r.nonce < tag /\ r.nonce \in Nat
              BY <2>3, <5>2, <5>4 DEF Buried, RowType
            <6>2. tag \in Nat /\ tag <= Len(chain) /\ Len(chain) \in Nat
              BY <1>1 DEF ChainOK, Latest
            <6>3. r.nonce + 1 \in 1..Len(chain)
              BY <6>1, <6>2
            <6>4. chain[r.nonce + 1].tx <= Len(rows) /\ chain[r.nonce + 1].tx \in Nat
              <7>1. chain[r.nonce + 1] \in BlockType
                BY <1>1, <6>3 DEF ChainOK
              <7> QED
                BY <1>1, <6>3, <7>1 DEF ChainOK, BlockType
            <6>5. chain[r.nonce + 1].tx # n
              BY <2>3, <2>4, <6>4
            <6>6. Tx(n, r) = n
              BY <5>2 DEF Tx, Ours
            <6>7. ~Success(chain, n, r)
              BY <6>5, <6>6 DEF Success, In
            <6> QED
              BY <1>1, <2>4, <6>1, <6>7 DEF Buried
          <5> QED
            BY <1>1, <5>3, <5>4, BuriedKept
        <4> QED
          BY <4>2, <4>3 DEF Senders
      <3>2. \A i \in Ids : Buried(i) => Buried(i)'
        BY <1>1, BuriedKept
      <3>3. OneDecision'
        <4> SUFFICES ASSUME NEW i \in Ids', NEW k \in Ids', rows'[i].job = rows'[k].job,
                            rows'[i].call # rows'[k].call, Decides(rows'[i]), Decides(rows'[k])
                     PROVE  Buried(i)' \/ Buried(k)' \/ rows'[i].job \in returned
          BY <1>1 DEF OneDecision
        <4>1. CASE i \in Ids /\ k \in Ids
          BY <2>4, <3>2, <4>1 DEF DecInv, OneDecision
        <4>2. CASE i = n /\ k \in Ids
          BY <2>4, <3>1, <4>2
        <4>3. CASE i \in Ids /\ k = n
          BY <2>4, <3>1, <4>3
        <4>4. CASE i = n /\ k = n
          BY <4>4
        <4> QED
          BY <2>4, <4>1, <4>2, <4>3, <4>4
      <3>4. Gated'
        <4> SUFFICES ASSUME NEW z \in Workers, send'[z].pc \in {"gated", "chosen"},
                            stamp'[z[1]] = send'[z].seen, z[1] \notin returned,
                            NEW i \in Ids', rows'[i].job = z[1],
                            Decides(rows'[i]), rows'[i].call # z[2]
                     PROVE  Buried(i)'
          BY <1>1 DEF Gated, RivalsOf
        <4>1. z # s /\ send'[z] = send[z] /\ z[1] \in Jobs
          BY <1>3, <2>5 DEF Workers
        <4>2. send[z].seen \in Nat /\ send[z].seen <= Len(rows)
          BY <1>3 DEF LedInv, SendOK, Fits, Sends
        <4>3. z[1] # r.job
          <5>1. z[1] = r.job => stamp'[z[1]] = n
            BY <1>1, <2>2, <2>7, <4>1 DEF LedgerOK
          <5> QED
            BY <2>3, <2>4, <4>1, <4>2, <5>1
        <4>4. stamp'[z[1]] = stamp[z[1]]
          BY <1>1, <2>2, <2>7, <4>1, <4>3 DEF LedgerOK
        <4>5. i \in Ids
          BY <2>4, <4>3
        <4>6. i \in RivalsOf(z[1], z[2])
          BY <2>4, <4>5 DEF RivalsOf
        <4> QED
          BY <3>2, <4>1, <4>4, <4>5, <4>6 DEF DecInv, Gated
      <3> QED
        BY <3>3, <3>4 DEF DecInv
    <2> QED
      BY <2>6, <2>7
  <1> QED
    BY <1>4, <1>5

(* A step that leaves the rows and the stamps alone, and lets nobody through *)
(* the gate that the gate does not clear.                                    *)
LEMMA QuietSteps ==
    ASSUME LedInv, DecInv, RowsMove, ChainMove, returned \subseteq returned', UNCHANGED stamp,
           Ids' = Ids,
           \A s \in Workers : send'[s].pc \in {"gated", "chosen"} =>
               send[s].pc \in {"gated", "chosen"} /\ send'[s].seen = send[s].seen
    PROVE  DecInv'
  BY KeepDecisions

(* Every step keeps the decisions apart. *)
LEMMA NextDec ==
    ASSUME LedInv, DecInv, [Next]_ledVars
    PROVE  DecInv'
  <1>1. LedInv' /\ RowsMove /\ ChainMove /\ returned \subseteq returned'
    BY NextLed, ReturnedGrows
  <1>2. send \in [Senders -> Sends] /\ Workers \subseteq Senders /\ Operator \notin Workers
    BY LedgerAssumption DEF LedInv, SendOK, Senders, Workers, Operator
  <1>3. ASSUME NEW s \in Workers, Gate(s) PROVE DecInv'
    <2>1. UNCHANGED <<rows, stamp>> /\ NothingPending(s[1], s[2])
      BY <1>3 DEF Gate, ledgerVars
    <2>2. \A z \in Workers : z # s => send'[z] = send[z]
      BY <1>2, <1>3 DEF Gate
    <2>3. \A i \in RivalsOf(s[1], s[2]) : Buried(i)
      BY <2>1, GateClears
    <2> QED
      BY <1>1, <2>1, <2>2, <2>3, KeepDecisions DEF Ids
  <1>4. ASSUME NEW s \in Senders, Choose(s) PROVE DecInv'
    <2>1. UNCHANGED <<rows, stamp>> /\ send[s].pc = "gated"
      BY <1>4 DEF Choose, ledgerVars
    <2>2. /\ \A z \in Senders : z # s => send'[z] = send[z]
          /\ send'[s].pc = "idle" \/ send'[s].seen = send[s].seen
      <3>1. CASE Simulates(s[1], s[2])
        <4>1. PICK r : send' = [send EXCEPT ![s].pc = "chosen", ![s].row = r]
          BY <1>4, <3>1 DEF Choose
        <4> QED
          BY <1>2, <4>1 DEF Sends
      <3>2. CASE ~Simulates(s[1], s[2])
        BY <1>2, <1>4, <3>2 DEF Choose, Idle
      <3> QED
        BY <3>1, <3>2
    <2>3. \A z \in Workers : send'[z].pc \in {"gated", "chosen"} =>
             send[z].pc \in {"gated", "chosen"} /\ send'[z].seen = send[z].seen
      BY <1>2, <2>1, <2>2
    <2> QED
      BY <1>1, <2>1, <2>3, QuietSteps DEF Ids
  <1>5. ASSUME NEW s \in Senders, Send(s) \/ Crash(s) PROVE DecInv'
    <2>1. UNCHANGED <<rows, stamp>> /\ send' = [send EXCEPT ![s] = Idle]
      BY <1>5 DEF Send, Crash, ledgerVars
    <2>2. \A z \in Workers : send'[z].pc \in {"gated", "chosen"} =>
             send[z].pc \in {"gated", "chosen"} /\ send'[z].seen = send[z].seen
      BY <1>2, <2>1 DEF Idle
    <2> QED
      BY <1>1, <2>1, <2>2, QuietSteps DEF Ids
  <1>6. ASSUME ScriptChooses PROVE DecInv'
    <2>1. UNCHANGED <<rows, stamp>>
      BY <1>6 DEF ScriptChooses, ledgerVars
    <2>2. \E v : send' = [send EXCEPT ![Operator] = v]
      BY <1>6 DEF ScriptChooses
    <2>3. \A z \in Workers : send'[z] = send[z]
      BY <1>2, <2>2
    <2> QED
      BY <1>1, <2>1, <2>3, QuietSteps DEF Ids
  <1>7. ASSUME NEW s \in Senders, Record(s) PROVE DecInv'
    BY <1>7, RecordDecides
  <1>8. ASSUME NEW nonce \in pass.todo, Resolve(nonce) PROVE DecInv'
    <2>1. PICK d : d = Decision(nonce)
      OBVIOUS
    <2>2. UNCHANGED send /\ stamp' = MovedStamp(d) /\ Returned(d) \subseteq returned'
      BY <1>8, <2>1 DEF Resolve
    <2>3. \A i \in Ids' : i \in Ids \/ ~Decides(rows'[i])
      BY <1>8, ResolveStep
    <2>4. ASSUME NEW s \in Workers, send'[s].pc \in {"gated", "chosen"},
                 stamp'[s[1]] = send'[s].seen, s[1] \notin returned'
          PROVE  send[s].pc \in {"gated", "chosen"} /\ stamp[s[1]] = send[s].seen
      <3>1. s = <<s[1], s[2]>> /\ s[1] \in Jobs /\ s[2] \in {"pay", "refund"}
        BY DEF Workers
      <3>2. s[1] \notin Returned(d)
        BY <2>2, <2>4
      <3>3. MovedStamp(d)[s[1]] = send[s].seen /\ send[s].pc \in {"gated", "chosen"}
        BY <2>2, <2>4
      <3> QED
        BY <3>1, <3>2, <3>3 DEF Returned
    <2> QED
      BY <1>1, <2>3, <2>4, KeepDecisions
  <1>9. ASSUME UNCHANGED <<stamp, send>>, Ids' = Ids PROVE DecInv'
    BY <1>1, <1>9, QuietSteps
  <1>10. ASSUME NEW i \in Ids, MarkOwnMined(i) PROVE DecInv'
    <2>1. UNCHANGED <<stamp, send>> /\ Ids' = Ids
      BY <1>10 DEF MarkOwnMined, Ids
    <2> QED
      BY <1>9, <2>1
  <1>11. ASSUME NEW nonce \in pass.todo, PassDies(nonce) PROVE DecInv'
    <2>1. UNCHANGED <<stamp, send>> /\ Ids' = Ids
      BY <1>11 DEF PassDies, Write, Ids
    <2> QED
      BY <1>9, <2>1
  <1>12. CASE \/ PassStarts \/ PassEnds \/ LoseLane
              \/ \E n \in Nodes : ReadNonces(n) \/ ReadReceipts(n)
              \/ \E i \in Ids : RebroadcastLostHead(i)
              \/ Mine \/ ProofCatchesUp \/ ForeignMines \/ Reorg \/ Drop \/ Forget \/ RefusePayout
              \/ UNCHANGED ledVars
    <2>1. UNCHANGED <<rows, stamp, send>>
      BY <1>12 DEF PassStarts, PassEnds, LoseLane, ReadNonces, ReadReceipts, RebroadcastLostHead,
         Mine, ProofCatchesUp, ForeignMines, Reorg, Drop, Forget, RefusePayout, ledVars, ledgerVars
    <2> QED
      BY <1>9, <2>1 DEF Ids
  <1> QED
    BY <1>3, <1>4, <1>5, <1>6, <1>7, <1>8, <1>10, <1>11, <1>12 DEF Next, InLane, PassRuns

(* A job is never both paid and refunded: of two different decisions that   *)
(* are recorded about it, one can no longer be mined. The gate reads it off *)
(* the proof tag, and the insert checks that nobody recorded since          *)
(* (hasPendingCandidate, insertCandidateWithJobStamp). The one way around   *)
(* it is a pass that gave the job a stamp back that a sender had read.      *)
THEOREM OneDecisionHolds == LedSpec => []OneDecision
  <1>1. Init => DecInv
    BY DEF Init, DecInv, OneDecision, Gated, Ids, Idle, Senders
  <1>2. LedInv /\ DecInv /\ [Next]_ledVars => DecInv'
    BY NextDec
  <1>3. DecInv => OneDecision
    BY DEF DecInv
  <1> QED
    BY <1>1, <1>2, <1>3, LedInvHolds, PTL DEF LedSpec
=============================================================================
