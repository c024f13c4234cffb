------------------------ MODULE EscrowSettlementProofs ------------------------
(***************************************************************************)
(* Theorems about EscrowSettlement, for any scenarios.  The invariant has  *)
(* two layers.  The first (Base) is about the ledger and the chain: the    *)
(* types, what can be mined and proven, and that the gate lets no second   *)
(* calldata through.  The second (Orderly) is about the row: what the      *)
(* worker, the API and the books take for granted about one another while  *)
(* they wait.  It also says what is left of that when the handler of a     *)
(* failed entry writes late: the file and the books stand; the decision    *)
(* stands until a claim was undone.                                        *)
(* From both follows that the settlement implements JobReview until then.  *)
(***************************************************************************)
EXTENDS EscrowSettlement, TLAPS

Files   == [for : {"nothing", "completed", "rejected"}, at : Nat]
JobRow  == [status : JobStatus, onChain : OnChain, contested : BOOLEAN,
            resolution : {"none"} \cup Decisions, settleTx : Nat, stamp : BOOLEAN, file : Files]
Acts    == Decisions \cup {"unwind", "claimRefund"}
Reasons == {"none", "contested"} \cup JobStatus
Cand    == [act : Acts, file : Files, why : Reasons, fate : {"live", "won", "lost"},
            proven : BOOLEAN]
Pcs     == {"idle", "read", "claim", "file", "gate", "record", "answer", "receipt", "book",
            "mirror", "finalize"}
ChainStatus == {"Funded", "Submitted"} \cup ChainEnd
Undoings    == {"claim", "outcome"}

(* A row, or a snapshot of it, names one of the job's candidates. *)
GoodRow(r) ==
    r \in JobRow /\ r.settleTx <= Len(cands) /\ (r.stamp => r.settleTx # 0)

WorkerOf(x) ==
    /\ x \in [pc : Pcs, act : Entries, row : JobRow, cand : Nat]
    /\ GoodRow(x.row) /\ x.cand <= Len(cands)
ApiOf(x) ==
    /\ x \in [pc : {"idle", "check", "write"}, wants : {"contest"} \cup Decisions, row : JobRow]
    /\ GoodRow(x.row)
Failures == [pc : {"none", "read", "write"}, settling : BOOLEAN, contested : BOOLEAN]
Submits  == [row : {"none", "live", "confirmed", "failed"}, tx : {"gone", "sent", "mined"}]

Types ==
    /\ cands \in Seq(Cand)
    /\ GoodRow(job) /\ WorkerOf(w) /\ ApiOf(api)
    /\ failing \in Failures /\ submit \in Submits /\ queue \subseteq Entries
    /\ chain \in ChainStatus /\ proof \in ChainStatus
    /\ undone \subseteq Undoings

(* What was mined last decides what `latest` shows; the proof tag is        *)
(* behind only by the step that ended the job, and what it shows stays.    *)
ChainOK ==
    /\ \A i \in DOMAIN cands : cands[i].proven => cands[i].fate # "live"
    /\ \A i \in Winners : chain = EffectOf(cands[i].act)
    /\ \A i, k \in Winners : i = k
    /\ chain \in {"Completed", "Rejected"} => Winners # {}
    /\ proof # chain => chain \in ChainEnd /\ proof \notin ChainEnd
    /\ \A i \in Winners : cands[i].proven <=> proof \in ChainEnd
    /\ chain = "Expired" => clock = "expired"

(* Who is past the gate repeats what is in flight, if anything is; the     *)
(* worker waits for what it sent, and books only what was proven.          *)
Sending ==
    /\ w.pc = "record" => \A i \in DOMAIN cands : Over(cands[i]) \/ Calldata(cands[i]) = Call
    /\ w.pc \in {"answer", "receipt", "book"} =>
          w.cand \in DOMAIN cands /\ Calldata(cands[w.cand]) = Call
    /\ w.pc = "book" => cands[w.cand].fate = "won"
    /\ w.pc \in {"book", "mirror", "finalize"} => proof \in ChainEnd

(* Only a delivery that nobody has claimed is contested or decided. *)
Asked == api.pc # "idle" => api.row.onChain \in {"SUBMITTED", "CONTESTED"}

Base == Types /\ ChainOK /\ Sending /\ Asked /\ SendsAgree

(***************************************************************************)
(* The second layer.  The worker's file stays the row's while it works, and *)
(* its claim stands, unless the outcome is booked meanwhile or a late write *)
(* undid the claim; who unwinds an undelivered job finds no feedback file. *)
(***************************************************************************)
FileHeld == ClaimHeld => job.file = w.row.file \/ proof = "Expired"

Holding ==
    ClaimHeld =>
        /\ w.row.resolution = "none" => ~w.row.contested
        /\ \/ "claim" \in undone
           \/ /\ job.onChain \in Final \cup {"SETTLING"}
              /\ job.contested = w.row.contested /\ job.resolution = w.row.resolution

Tidy ==
    /\ FileHeld /\ Holding
    /\ w.pc \in {"claim", "file"} => Settles /\ proof # "Funded"
    /\ w.pc \in {"gate", "record"} /\ Settles => w.row.file.for = Rates
    /\ w.pc \in {"gate", "record"} /\ w.act = "reject" => job.file = NoFile

(* What the API saw settled is settled: if the row does not name another   *)
(* send since, nothing is in flight.                                       *)
Checked ==
    api.pc = "write" =>
        /\ api.row.settleTx # 0 => Over(cands[api.row.settleTx])
        /\ NoneInFlight \/ job.settleTx # api.row.settleTx

(* The row keeps the file that a candidate in flight commits to.           *)
FilesOK ==
    /\ job.file # NoFile => proof # "Funded"
    /\ \A i \in DOMAIN cands :
          /\ cands[i].act = "pay" => cands[i].file.for = "completed"
          /\ ~Over(cands[i]) /\ cands[i].act # "claimRefund" =>
                job.file = cands[i].file \/ proof = "Expired"

(* ... and, as long as no claim was undone, the decision that it executes.  *)
DecisionsOK ==
    \/ "claim" \in undone
    \/ \A i \in DOMAIN cands : ~Over(cands[i]) =>
          /\ cands[i].act = "pay" =>
                job.resolution = "pay" \/ (job.resolution = "none" /\ ~job.contested)
          /\ cands[i].act \in {"refund", "quality"} => job.resolution = cands[i].act

Orderly == Tidy /\ Checked /\ FilesOK /\ DecisionsOK /\ BooksFollowChain

(***************************************************************************)
(* Types of the row and of what the code makes of it.                      *)
(***************************************************************************)
LEMMA WinnersAreCands ==
    ASSUME cands \in Seq(Cand)
    PROVE  /\ DOMAIN cands = 1..Len(cands) /\ Len(cands) \in Nat
           /\ \A i \in DOMAIN cands : cands[i] \in Cand
           /\ Winners # {} => (CHOOSE i \in Winners : TRUE) \in Winners
           /\ \A i \in Winners : i \in Nat /\ i <= Len(cands) /\ i # 0
  <1>1. Winners # {} => (CHOOSE i \in Winners : TRUE) \in Winners
    OBVIOUS
  <1> QED
    BY <1>1 DEF Winners

(* Field by field: what advanceToSubmitted does to a row. *)
LEMMA AdvancedRow ==
    ASSUME NEW r, GoodRow(r)
    PROVE  /\ GoodRow(Advanced(r))
           /\ Advanced(r).onChain = IF r.onChain = "FUNDED" THEN "SUBMITTED" ELSE r.onChain
           /\ Advanced(r).status = IF r.status = "ACCEPTED" THEN "PAYMENT_PENDING" ELSE r.status
           /\ Advanced(r).file = r.file /\ Advanced(r).settleTx = r.settleTx
           /\ Advanced(r).contested = r.contested /\ Advanced(r).resolution = r.resolution
  BY DEF GoodRow, JobRow, Advanced, OnChain, JobStatus

(* ... and what handing a claim back does. *)
LEMMA HandedBackRow ==
    ASSUME NEW r, GoodRow(r)
    PROVE  /\ GoodRow(HandedBack(r)) /\ HandedBack(r).onChain \in {"CONTESTED", "SUBMITTED"}
           /\ HandedBack(r).status = r.status /\ HandedBack(r).file = r.file
           /\ HandedBack(r).settleTx = r.settleTx
           /\ HandedBack(r).contested = r.contested /\ HandedBack(r).resolution = r.resolution
  BY DEF GoodRow, JobRow, HandedBack, OnChain

(* ... the mirror of an outcome, ... *)
LEMMA MirroredRow ==
    ASSUME Types, chain \in ChainEnd, NEW r, NEW row, GoodRow(r)
    PROVE  /\ GoodRow(Mirrored(r, row)) /\ Mirrored(r, row).onChain = FinalOf(chain)
           /\ FinalOf(chain) \in Final
           /\ Mirrored(r, row).status = r.status
           /\ \/ Mirrored(r, row).file = r.file
              \/ chain = "Expired" /\ Mirrored(r, row).file = NoFile
           /\ Mirrored(r, row).settleTx \in {r.settleTx} \cup Winners
           /\ Mirrored(r, row).contested = r.contested
           /\ Mirrored(r, row).resolution = r.resolution
  <1>1. FinalOf(chain) \in Final
    BY DEF FinalOf, Final, ChainEnd
  <1> DEFINE s == IF chain # "Expired" /\ Winners # {} THEN CHOOSE i \in Winners : TRUE
                  ELSE r.settleTx
             f == IF chain = "Expired" /\ row.file # NoFile THEN NoFile ELSE r.file
  <1>2. s \in Nat /\ s <= Len(cands) /\ s \in {r.settleTx} \cup Winners
    BY WinnersAreCands DEF Types, GoodRow, JobRow
  <1>3. f \in Files /\ (f = r.file \/ (chain = "Expired" /\ f = NoFile))
    BY DEF GoodRow, JobRow, Files, NoFile
  <1>4. Mirrored(r, row) = [r EXCEPT !.onChain = FinalOf(chain), !.stamp = FALSE, !.file = f,
                                     !.settleTx = s]
    BY DEF Mirrored
  <1> HIDE DEF s, f
  <1> QED
    BY <1>1, <1>2, <1>3, <1>4 DEF GoodRow, JobRow, OnChain

(* ... and the finalization of a row that shows an outcome. *)
LEMMA FinalizedRow ==
    ASSUME NEW r, NEW row, GoodRow(r)
    PROVE  /\ GoodRow(Finalized(r, row))
           /\ Finalized(r, row).onChain = r.onChain /\ Finalized(r, row).file = r.file
           /\ Finalized(r, row).settleTx = r.settleTx
           /\ Finalized(r, row).contested = r.contested
           /\ Finalized(r, row).resolution = r.resolution
           /\ \/ Finalized(r, row).status \in {r.status, "FAILED"}
              \/ Finalized(r, row).status = "COMPLETED" /\ chain = "Completed"
              \/ Finalized(r, row).status = "PAYMENT_FAILED" /\ chain # "Completed"
  <1> DEFINE st == CASE row.status = "PAYMENT_PENDING" /\ r.status = "PAYMENT_PENDING" ->
                          IF chain = "Completed" THEN "COMPLETED" ELSE "PAYMENT_FAILED"
                     [] row.status \in Dead /\ r.status \in Dead
                            /\ chain = "Completed" /\ row.resolution = "pay" -> "COMPLETED"
                     [] row.status = "ACCEPTED" /\ chain # "Completed" -> "FAILED"
                     [] OTHER -> r.status
  <1>1. Finalized(r, row) = [r EXCEPT !.status = st]
    BY DEF Finalized, GoodRow, JobRow
  <1>2. \/ st \in {r.status, "FAILED"}
        \/ st = "COMPLETED" /\ chain = "Completed"
        \/ st = "PAYMENT_FAILED" /\ chain # "Completed"
    OBVIOUS
  <1>3. st \in JobStatus
    BY <1>2 DEF GoodRow, JobRow, JobStatus, Dead
  <1> HIDE DEF st
  <1> QED
    BY <1>1, <1>2, <1>3 DEF GoodRow, JobRow

(***************************************************************************)
(* What a step can do to the row while the ledger and the chain stand.     *)
(***************************************************************************)
Still ==
    /\ UNCHANGED <<cands, chain, proof, clock>>
    /\ undone \subseteq undone' /\ undone' \subseteq Undoings

RowMove ==
    /\ GoodRow(job')
    /\ \/ job'.onChain = job.onChain
       \/ proof \in ChainEnd /\ job'.onChain = FinalOf(proof)
       \/ job'.onChain \notin Final
    /\ job'.settleTx \in {job.settleTx} \cup Winners
    /\ \/ job'.file = job.file
       \/ job'.file = NoFile /\ proof = "Expired"
       \/ job'.file = NoFile /\ \E i \in Winners : cands[i].file = NoFile /\ cands[i].act # "claimRefund"
       \/ w.pc = "file" /\ NoneInFlight
    /\ \/ job'.contested = job.contested /\ job'.resolution = job.resolution
       \/ /\ api.pc = "write" /\ Unmoved
          /\ \/ job'.contested = job.contested /\ job'.resolution \in Decisions
             \/ job'.contested /\ ~job.contested /\ job'.resolution = job.resolution
    /\ \/ job'.status = job.status
       \/ job'.status \notin {"COMPLETED", "PAYMENT_FAILED"}
       \/ job'.status = "COMPLETED" /\ proof = "Completed"
       \/ job'.status = "PAYMENT_FAILED" /\ proof \in {"Rejected", "Expired"}

(* What everybody but the worker leaves of a claim, or is noted for, and of *)
(* the file.                                                               *)
ClaimKept ==
    /\ job'.file = job.file \/ (job'.file = NoFile /\ proof = "Expired")
    /\ ClaimHeld /\ job.onChain \in Final \cup {"SETTLING"} =>
          \/ "claim" \in undone'
          \/ /\ job'.onChain \in Final \cup {"SETTLING"}
             /\ job'.contested = job.contested /\ job'.resolution = job.resolution

(* A step that leaves the row alone is a move of the row. *)
LEMMA SameRowMoves ==
    ASSUME Types, job' = job
    PROVE  RowMove /\ ClaimKept
  BY DEF Types, RowMove, ClaimKept

(* ... and so is following a submit that was confirmed, ... *)
LEMMA AdvanceMoves ==
    ASSUME Types, job' = Advanced(job)
    PROVE  RowMove /\ ClaimKept
  <1> DEFINE r == Advanced(job)
  <1>1. /\ GoodRow(r) /\ r.onChain = (IF job.onChain = "FUNDED" THEN "SUBMITTED" ELSE job.onChain)
        /\ r.status = IF job.status = "ACCEPTED" THEN "PAYMENT_PENDING" ELSE job.status
        /\ r.file = job.file /\ r.settleTx = job.settleTx
        /\ r.contested = job.contested /\ r.resolution = job.resolution
    BY AdvancedRow DEF Types
  <1> HIDE DEF r
  <1>2. job' = r
    BY DEF r
  <1> QED
    BY <1>1, <1>2 DEF RowMove, ClaimKept, Final

(* ... handing a claim back, ... *)
LEMMA HandBackMoves ==
    ASSUME Types, job.onChain = "SETTLING", job' = HandedBack(job)
    PROVE  RowMove
  <1> DEFINE r == HandedBack(job)
  <1>1. /\ GoodRow(r) /\ r.onChain \in {"CONTESTED", "SUBMITTED"} /\ r.status = job.status
        /\ r.file = job.file /\ r.settleTx = job.settleTx
        /\ r.contested = job.contested /\ r.resolution = job.resolution
    BY HandedBackRow DEF Types
  <1> HIDE DEF r
  <1>2. job' = r
    BY DEF r
  <1> QED
    BY <1>1, <1>2 DEF RowMove, Final

(* ... and mirroring an outcome that the proof tag shows. *)
LEMMA MirrorRowMoves ==
    ASSUME Types, chain \in ChainEnd, proof = chain, NEW row, job' = Mirrored(job, row)
    PROVE  RowMove /\ ClaimKept
  <1> DEFINE r == Mirrored(job, row)
  <1>1. /\ GoodRow(r) /\ r.onChain = FinalOf(chain) /\ FinalOf(chain) \in Final
        /\ r.status = job.status
        /\ r.file = job.file \/ (chain = "Expired" /\ r.file = NoFile)
        /\ r.settleTx \in {job.settleTx} \cup Winners
        /\ r.contested = job.contested /\ r.resolution = job.resolution
    BY MirroredRow DEF Types
  <1> HIDE DEF r
  <1>2. job' = r
    BY DEF r
  <1> QED
    BY <1>1, <1>2 DEF RowMove, ClaimKept

(* mirror and finalization in one statement's breath *)
LEMMA MirrorMoves ==
    ASSUME Types, Mirror
    PROVE  RowMove /\ ClaimKept
  <1> DEFINE r == Mirrored(job, job)
             f == Finalized(r, job)
  <1>1. chain \in ChainEnd /\ proof = chain /\ job' = f
    BY DEF Mirror, Proven
  <1>2. /\ GoodRow(r) /\ r.onChain = FinalOf(chain) /\ FinalOf(chain) \in Final
        /\ r.status = job.status
        /\ r.file = job.file \/ (chain = "Expired" /\ r.file = NoFile)
        /\ r.settleTx \in {job.settleTx} \cup Winners
        /\ r.contested = job.contested /\ r.resolution = job.resolution
    BY <1>1, MirroredRow DEF Types
  <1> HIDE DEF r
  <1>3. /\ GoodRow(f) /\ f.onChain = r.onChain /\ f.file = r.file /\ f.settleTx = r.settleTx
        /\ f.contested = r.contested /\ f.resolution = r.resolution
        /\ \/ f.status \in {r.status, "FAILED"}
           \/ f.status = "COMPLETED" /\ chain = "Completed"
           \/ f.status = "PAYMENT_FAILED" /\ chain # "Completed"
    BY <1>2, FinalizedRow
  <1> HIDE DEF f
  <1> QED
    BY <1>1, <1>2, <1>3 DEF RowMove, ClaimKept, ChainEnd

(***************************************************************************)
(* What a step leaves of everything else, and how those around the worker  *)
(* move: the API checks before it writes.                                  *)
(***************************************************************************)
Others ==
    /\ WorkerOf(w') /\ ApiOf(api')
    /\ failing' \in Failures /\ submit' \in Submits /\ queue' \subseteq Entries

ApiMove ==
    \/ api' = api
    \/ api'.pc = "idle"
    \/ /\ api'.pc = "check" /\ api'.row = job /\ job' = job
       /\ job.onChain \in {"SUBMITTED", "CONTESTED"}
    \/ /\ api.pc = "check" /\ api'.pc = "write" /\ api'.row = api.row /\ job' = job
       /\ NoneInFlight

Background ==
    Still /\ RowMove /\ ClaimKept /\ Others /\ w' = w /\ ApiMove

(* What a step leaves alone, or only forgets, keeps its type. *)
LEMMA OthersStay ==
    ASSUME Types
    PROVE  /\ w' = w => WorkerOf(w')
           /\ api' = api => ApiOf(api') /\ ApiMove
           /\ UNCHANGED procVars => /\ WorkerOf(w') /\ w' = w /\ ApiOf(api') /\ ApiMove
                                    /\ failing' \in Failures /\ failing' = failing
           /\ failing' = failing => failing' \in Failures
           /\ submit' = submit => submit' \in Submits
           /\ queue' = queue => queue' \subseteq Entries
           /\ \A a \in Entries : Enqueue(a) => queue' \subseteq Entries
           /\ \A a \in Entries : queue \cup {a} \subseteq Entries
           /\ UNCHANGED chainVars /\ UNCHANGED cands /\ UNCHANGED boundVars => Still
           /\ WorkerOf(IdleWorker) /\ ApiOf(IdleApi) /\ NoFailure \in Failures
  <1>1. GoodRow(NoRow)
    <2>1. Len(cands) \in Nat
      BY DEF Types
    <2> QED
      BY <2>1 DEF GoodRow, NoRow, JobRow, JobStatus, OnChain, Files, NoFile
  <1>2. WorkerOf(IdleWorker) /\ ApiOf(IdleApi) /\ NoFailure \in Failures
    <2>1. Len(cands) \in Nat
      BY DEF Types
    <2>2. NoRow \in JobRow
      BY <1>1 DEF GoodRow
    <2> QED
      BY <1>1, <2>1, <2>2 DEF WorkerOf, ApiOf, IdleWorker, IdleApi, NoFailure, Failures, Pcs, Entries
  <1>3. \A a \in Entries : Enqueue(a) => queue' \subseteq Entries
    BY DEF Types, Enqueue, Added
  <1>4. UNCHANGED procVars => w' = w /\ api' = api /\ failing' = failing
    BY DEF procVars
  <1>5. UNCHANGED chainVars /\ UNCHANGED cands /\ UNCHANGED boundVars => Still
    BY DEF Still, chainVars, boundVars, Types
  <1> QED
    BY <1>2, <1>3, <1>4, <1>5 DEF Types, ApiMove

(* The provider's and the requester's steps. *)
LEMMA DeliveryMoves ==
    ASSUME Types, Deliver \/ SubmitConfirmed \/ SubmitFailed \/ Cancel
    PROVE  Background
  <1>0. GoodRow(job) /\ job \in JobRow /\ submit \in Submits
    BY DEF Types, GoodRow
  <1>1. ASSUME NEW st \in {"ACCEPTED", "PAYMENT_PENDING", "CANCELLED"},
               job' = [job EXCEPT !.status = st]
        PROVE  RowMove /\ ClaimKept
    BY <1>0, <1>1 DEF RowMove, ClaimKept, GoodRow, JobRow, JobStatus, Dead
  <1>2. UNCHANGED <<cands, chainVars, procVars, boundVars>>
    BY DEF Deliver, SubmitConfirmed, SubmitFailed, Cancel
  <1>3. RowMove /\ ClaimKept
    <2>1. CASE Deliver
      BY <1>1, <2>1 DEF Deliver
    <2>2. CASE SubmitConfirmed
      BY <2>2, AdvanceMoves, SameRowMoves DEF SubmitConfirmed, AdvanceToSubmitted
    <2>3. CASE SubmitFailed
      <3>1. CASE Mirror
        BY <3>1, MirrorMoves
      <3>2. CASE job' = job
        BY <3>2, SameRowMoves
      <3>3. CASE job' = [job EXCEPT !.status = IF @ = "PAYMENT_PENDING" THEN "ACCEPTED" ELSE @]
        <4>1. job' = job \/ job' = [job EXCEPT !.status = "ACCEPTED"]
          BY <1>0, <3>3 DEF JobRow
        <4> QED
          BY <1>1, <4>1, SameRowMoves
      <3> QED
        BY <2>3, <3>1, <3>2, <3>3 DEF SubmitFailed
    <2>4. CASE Cancel
      BY <1>1, <2>4 DEF Cancel
    <2> QED
      BY <2>1, <2>2, <2>3, <2>4
  <1>4. submit' \in Submits
    BY <1>0 DEF Deliver, SubmitConfirmed, SubmitFailed, Cancel, Submits
  <1>5. queue' \subseteq Entries
    BY OthersStay DEF Deliver, SubmitConfirmed, AdvanceToSubmitted, SubmitFailed, Cancel, Entries
  <1> QED
    BY <1>2, <1>3, <1>4, <1>5, OthersStay DEF Background, Others

(* The requester's contest and the operator's decision. *)
LEMMA ReviewMoves ==
    ASSUME Types, Asked, Review
    PROVE  Background
  <1>0. /\ GoodRow(job) /\ job \in JobRow /\ ApiOf(api)
        /\ api \in [pc : {"idle", "check", "write"}, wants : {"contest"} \cup Decisions, row : JobRow]
    BY DEF Types, GoodRow, ApiOf
  <1>1. ASSUME job' = job, UNCHANGED <<submit, cands, chainVars, queue, w, failing, clock, undone>>,
               ApiOf(api'), ApiMove
        PROVE  Background
    BY <1>1, OthersStay, SameRowMoves DEF Background, Others, Still, chainVars, Types
  <1>2. CASE AskContest
    <2>1. api' = [pc |-> "check", wants |-> "contest", row |-> job] /\ job' = job
          /\ job.onChain = "SUBMITTED"
      BY <1>2 DEF AskContest
    <2>2. ApiOf(api') /\ ApiMove
      BY <1>0, <2>1 DEF ApiOf, ApiMove
    <2> QED
      BY <1>1, <1>2, <2>1, <2>2 DEF AskContest, boundVars
  <1>3. ASSUME NEW d \in Decisions, AskResolve(d) PROVE Background
    <2>1. api' = [pc |-> "check", wants |-> d, row |-> job] /\ job' = job
          /\ job.onChain \in {"SUBMITTED", "CONTESTED"}
      BY <1>3 DEF AskResolve
    <2>2. ApiOf(api') /\ ApiMove
      BY <1>0, <2>1 DEF ApiOf, ApiMove
    <2> QED
      BY <1>1, <1>3, <2>1, <2>2 DEF AskResolve
  <1>4. CASE ApiCheck
    <2>1. job' = job /\ api.pc = "check"
      BY <1>4 DEF ApiCheck
    <2>2. CASE api' = IdleApi
      <3>1. ApiOf(api') /\ ApiMove
        BY <2>2, OthersStay DEF ApiMove, IdleApi
      <3> QED
        BY <1>1, <1>4, <2>1, <3>1 DEF ApiCheck, boundVars
    <2>3. CASE NoneInFlight /\ api' = [api EXCEPT !.pc = "write"]
      <3>1. ApiOf(api') /\ ApiMove
        BY <1>0, <2>1, <2>3 DEF ApiMove, ApiOf
      <3> QED
        BY <1>1, <1>4, <2>1, <3>1 DEF ApiCheck, boundVars
    <2> QED
      BY <1>4, <2>2, <2>3 DEF ApiCheck
  <1>5. CASE WriteContest \/ WriteDecision
    <2>1. api' = IdleApi /\ ApiMove /\ ApiOf(api') /\ api.pc = "write"
      BY <1>5, OthersStay DEF WriteContest, WriteDecision, ApiMove, IdleApi
    <2>2. RowMove /\ ClaimKept
      <3>1. CASE job' = job
        BY <3>1, SameRowMoves
      <3>2. CASE /\ Unmoved /\ job.onChain = "SUBMITTED" /\ ~job.contested
                 /\ job' = [job EXCEPT !.onChain = "CONTESTED", !.contested = TRUE]
        <4>1. RowMove
          BY <1>0, <2>1, <3>2 DEF RowMove, GoodRow, JobRow, OnChain, Final
        <4>2. ClaimKept
          BY <1>0, <3>2 DEF ClaimKept, JobRow, Final
        <4> QED
          BY <4>1, <4>2
      <3>3. CASE /\ Unmoved /\ job.onChain = api.row.onChain /\ api.wants \in Decisions
                 /\ job' = [job EXCEPT !.onChain = "SETTLING", !.resolution = api.wants]
        <4>1. job.onChain \in {"SUBMITTED", "CONTESTED"}
          BY <2>1, <3>3 DEF Asked
        <4>2. RowMove
          BY <1>0, <2>1, <3>3, <4>1 DEF RowMove, GoodRow, JobRow, OnChain, Final
        <4>3. ClaimKept
          BY <1>0, <3>3, <4>1 DEF ClaimKept, JobRow, Final
        <4> QED
          BY <4>2, <4>3
      <3> QED
        BY <1>0, <1>5, <3>1, <3>2, <3>3 DEF WriteContest, WriteDecision
    <2>3. queue' \subseteq Entries /\ UNCHANGED <<submit, cands, chainVars, w, failing, boundVars>>
      <3>1. "resolve" \in Entries
        BY DEF Entries
      <3> QED
        BY <1>5, <3>1, OthersStay DEF WriteContest, WriteDecision
    <2> QED
      BY <2>1, <2>2, <2>3, OthersStay DEF Background, Others, Types
  <1> QED
    BY <1>2, <1>3, <1>4, <1>5 DEF Review

(* The handler of a failed entry, whose late writes are noted. *)
LEMMA HandlerMoves ==
    ASSUME Types, Handler
    PROVE  Background
  <1>0. GoodRow(job) /\ job \in JobRow /\ failing \in Failures
    BY DEF Types, GoodRow
  <1>1. UNCHANGED <<submit, cands, chainVars, queue, w, api, clock>>
    BY DEF Handler
  <1>2. CASE FailureRead
    <2>1. /\ job' = job /\ undone' = undone
          /\ failing' = [pc |-> "write", settling |-> job.onChain = "SETTLING",
                         contested |-> job.contested]
      BY <1>2 DEF FailureRead
    <2>2. failing' \in Failures
      BY <1>0, <2>1 DEF Failures, JobRow
    <2> QED
      BY <1>1, <2>1, <2>2, OthersStay, SameRowMoves
      DEF Background, Others, Still, chainVars, Types
  <1>3. CASE FailureWritten
    <2>1. failing' = NoFailure
      BY <1>3 DEF FailureWritten
    <2>2. /\ undone \subseteq undone' /\ undone' \subseteq Undoings
          /\ job' # job /\ ClaimHeld => "claim" \in undone'
      BY <1>3 DEF FailureWritten, Undoes, Undoings, Types
    <2>3. \/ job' = job
          \/ \E c \in {"CONTESTED", "SUBMITTED"} : job' = [job EXCEPT !.onChain = c]
      BY <1>3 DEF FailureWritten
    <2>4. RowMove /\ ClaimKept
      <3>1. ASSUME NEW c \in {"CONTESTED", "SUBMITTED"}, job' = [job EXCEPT !.onChain = c],
                   job' # job
            PROVE  RowMove /\ ClaimKept
        <4>1. RowMove
          BY <1>0, <3>1 DEF RowMove, GoodRow, JobRow, OnChain, Final
        <4>2. job'.file = job.file
          BY <1>0, <3>1 DEF JobRow
        <4> QED
          BY <2>2, <3>1, <4>1, <4>2 DEF ClaimKept
      <3> QED
        BY <2>3, <3>1, SameRowMoves
    <2> QED
      BY <1>1, <2>1, <2>2, <2>4, OthersStay DEF Background, Others, Still, chainVars, Types
  <1> QED
    BY <1>2, <1>3 DEF Handler

(* The recovery tick, the sweep, the pass over the candidates. *)
LEMMA TickMoves ==
    ASSUME Types, Recover \/ Sweep \/ CandidatePass
    PROVE  Background
  <1>0. GoodRow(job) /\ job \in JobRow
    BY DEF Types, GoodRow
  <1>1. UNCHANGED <<submit, cands, chainVars, procVars, boundVars>>
    BY DEF Recover, Sweep, CandidatePass
  <1>2. RowMove /\ ClaimKept
    <2>1. CASE Recover
      <3>1. ASSUME job' = [job EXCEPT !.status = "ACCEPTED"] PROVE RowMove /\ ClaimKept
        BY <1>0, <3>1 DEF RowMove, ClaimKept, GoodRow, JobRow, JobStatus
      <3>2. \/ Mirror \/ job' = Advanced(job) \/ job' = job
            \/ job' = [job EXCEPT !.status = "ACCEPTED"]
        BY <2>1 DEF Recover, RecoverPending, ReconcileStalled, ReconcileHeld, AdvanceToSubmitted
      <3> QED
        BY <3>1, <3>2, MirrorMoves, AdvanceMoves, SameRowMoves
    <2>2. CASE Sweep
      BY <2>2, SameRowMoves DEF Sweep
    <2>3. CASE CandidatePass
      <3> DEFINE s == IF Winners # {} THEN CHOOSE i \in Winners : TRUE ELSE job.settleTx
                 b == job.stamp /\ Busy("answer")
      <3>1. s \in {job.settleTx} \cup Winners /\ s \in Nat /\ s <= Len(cands)
            /\ (b => s # 0)
        BY <1>0, WinnersAreCands DEF Types, GoodRow, JobRow
      <3>2. job' = [job EXCEPT !.settleTx = s, !.stamp = b] /\ b \in BOOLEAN
        BY <1>0, <2>3 DEF CandidatePass, JobRow
      <3> HIDE DEF s, b
      <3>3. RowMove
        BY <1>0, <3>1, <3>2 DEF RowMove, GoodRow, JobRow
      <3> QED
        BY <1>0, <3>2, <3>3 DEF ClaimKept, JobRow
    <2> QED
      BY <2>1, <2>2, <2>3
  <1>3. queue' \subseteq Entries
    <2>1. \A c : ActionOf(c) \in Entries
      BY DEF ActionOf, Entries
    <2> QED
      BY <2>1, OthersStay DEF Recover, RecoverPending, ReconcileStalled, ReconcileHeld,
         AdvanceToSubmitted, Sweep, CandidatePass, Entries
  <1> QED
    BY <1>1, <1>2, <1>3, OthersStay DEF Background, Others

(***************************************************************************)
(* The worker, up to the record of a candidate and after it.               *)
(***************************************************************************)
Working == Still /\ RowMove /\ Others /\ api' = api

(* The worker's next step, the end of its work, an attempt that throws. *)
LEMMA GotoMoves ==
    ASSUME Types, NEW pc \in Pcs, Goto(pc)
    PROVE  /\ WorkerOf(w') /\ w'.pc = pc /\ w'.act = w.act /\ w'.row = w.row /\ w'.cand = w.cand
           /\ Call' = Call
  <1>1. /\ WorkerOf(w') /\ w'.pc = pc /\ w'.act = w.act /\ w'.row = w.row /\ w'.cand = w.cand
    BY DEF Types, WorkerOf, Goto
  <1> QED
    BY <1>1 DEF Call, Settles, Decision

(* The worker drops what it held. *)
LEMMA DoneMoves ==
    ASSUME Types, Done
    PROVE  WorkerOf(w') /\ w'.pc = "idle"
  BY OthersStay DEF Done, IdleWorker

(* An attempt that throws is queued again, or handed to the handler. *)
LEMMA ThrowMoves ==
    ASSUME Types, Throw
    PROVE  /\ WorkerOf(w') /\ w'.pc = "idle" /\ queue' \subseteq Entries
           /\ failing' \in Failures
  <1>1. w.act \in Entries /\ failing \in Failures
    BY DEF Types, WorkerOf
  <1>2. queue' \subseteq Entries
    BY <1>1, OthersStay DEF Throw
  <1>3. failing' = failing \/ failing' = [failing EXCEPT !.pc = "read"]
    BY DEF Throw
  <1>4. failing' \in Failures
    BY <1>1, <1>3 DEF Failures
  <1> QED
    BY <1>2, <1>4, DoneMoves DEF Throw

(* A worker between two reads has sent nothing. *)
LEMMA SendingIdle ==
    ASSUME w'.pc \in {"idle", "read", "claim", "file", "gate"}
    PROVE  Sending'
  BY DEF Sending

(* The worker's reads: at most the row follows the submit. *)
LEMMA ReadMoves ==
    ASSUME Base, ReadTerminal \/ ReadSettle \/ ReadReject \/ ReadRefund
    PROVE  Working /\ Sending'
  <1>0. /\ Types /\ GoodRow(job) /\ job \in JobRow
        /\ UNCHANGED <<submit, cands, chainVars, api, boundVars>> /\ Still
    BY OthersStay DEF Base, Types, GoodRow, ReadTerminal, ReadSettle, ReadReject, ReadRefund
  <1>1. RowMove
    <2>1. CASE job' = job
      BY <1>0, <2>1, SameRowMoves
    <2>2. CASE job' = Advanced(job)
      BY <1>0, <2>2, AdvanceMoves
    <2>3. CASE /\ job.onChain \notin {"SETTLING"} \cup Final
               /\ job' = [job EXCEPT !.onChain = "SUBMITTED"]
      BY <1>0, <2>3 DEF RowMove, GoodRow, JobRow, OnChain, Final
    <2> QED
      BY <2>1, <2>2, <2>3 DEF ReadTerminal, ReadSettle, ReadReject, ReadRefund
  <1>2. \/ /\ Goto("mirror") /\ proof \in ChainEnd /\ UNCHANGED <<queue, failing>>
        \/ /\ Goto("claim") \/ Goto("gate") \/ Done
           /\ UNCHANGED <<queue, failing>>
        \/ Throw
    BY DEF ReadTerminal, ReadSettle, ReadReject, ReadRefund, Proven
  <1>3. /\ WorkerOf(w') /\ queue' \subseteq Entries /\ failing' \in Failures
        /\ \/ w'.pc \in {"idle", "claim", "gate"}
           \/ w'.pc = "mirror" /\ proof \in ChainEnd
    BY <1>0, <1>2, GotoMoves, DoneMoves, ThrowMoves DEF Types, Pcs
  <1>4. Sending'
    <2>1. CASE w'.pc = "mirror" /\ proof \in ChainEnd
      BY <1>0, <2>1 DEF Sending, chainVars
    <2> QED
      BY <1>3, <2>1, SendingIdle
  <1> QED
    BY <1>0, <1>1, <1>3, <1>4, OthersStay DEF Working, Others

(* The claim and the feedback file. *)
LEMMA ClaimMoves ==
    ASSUME Base, Claim \/ File
    PROVE  Working /\ Sending'
  <1>0. /\ Types /\ GoodRow(job) /\ job \in JobRow /\ Len(cands) \in Nat
        /\ UNCHANGED <<submit, cands, chainVars, api, boundVars>> /\ Still
    BY OthersStay DEF Base, Types, GoodRow, Claim, File
  <1>w. /\ w \in [pc : Pcs, act : Entries, row : JobRow, cand : Nat]
        /\ GoodRow(w.row) /\ w.cand <= Len(cands)
    BY <1>0 DEF Types, WorkerOf
  <1>1. CASE Claim /\ Claimable(job)
    <2> DEFINE claimed == [job EXCEPT !.onChain = "SETTLING"]
    <2>1. /\ job' = claimed /\ w' = [w EXCEPT !.pc = "file", !.row = claimed]
          /\ UNCHANGED <<queue, failing>>
      BY <1>1 DEF Claim
    <2>2. job.onChain \notin Final
      BY <1>1 DEF Claimable, Final
    <2>3. GoodRow(claimed)
      BY <1>0 DEF GoodRow, JobRow, OnChain
    <2>4. RowMove
      BY <1>0, <2>1, <2>2, <2>3 DEF RowMove, JobRow, Final
    <2>5. WorkerOf(w') /\ w'.pc = "file"
      BY <1>w, <2>1, <2>3 DEF WorkerOf, GoodRow, Pcs
    <2> QED
      BY <1>0, <2>1, <2>4, <2>5, SendingIdle, OthersStay DEF Working, Others
  <1>2. CASE Claim /\ ~Claimable(job)
    BY <1>0, <1>2, SameRowMoves, DoneMoves, SendingIdle, OthersStay DEF Claim, Working, Others
  <1>3. CASE File /\ job' = job /\ (Throw \/ (Goto("gate") /\ UNCHANGED <<queue, failing>>))
    <2>1. /\ WorkerOf(w') /\ queue' \subseteq Entries /\ failing' \in Failures
          /\ w'.pc \in {"idle", "gate"}
      BY <1>0, <1>3, GotoMoves, ThrowMoves DEF Types, Pcs
    <2> QED
      BY <1>0, <1>3, <2>1, SameRowMoves, SendingIdle, OthersStay DEF Working, Others
  <1>4. CASE File /\ w.row.file.for # Rates /\ FileMutable /\ w'.pc = "gate"
    <2> DEFINE f == IF Rates = "nothing" THEN NoFile ELSE [for |-> Rates, at |-> Len(cands)]
    <2>1. /\ job' = [job EXCEPT !.file = f] /\ w' = [w EXCEPT !.pc = "gate", !.row.file = f]
          /\ UNCHANGED <<queue, failing>> /\ w.pc = "file"
      BY <1>4 DEF File, Throw, Done, IdleWorker, Busy
    <2>2. f \in Files
      BY <1>0 DEF Files, NoFile, Rates
    <2> HIDE DEF f
    <2>3. RowMove
      BY <1>0, <1>4, <2>1, <2>2 DEF RowMove, GoodRow, JobRow, FileMutable
    <2>4. w' = [w EXCEPT !.pc = "gate", !.row = [w.row EXCEPT !.file = f]]
      BY <1>w, <2>1
    <2>5. GoodRow([w.row EXCEPT !.file = f])
      BY <1>w, <2>2 DEF GoodRow, JobRow
    <2>6. WorkerOf(w') /\ w'.pc = "gate"
      BY <1>w, <2>4, <2>5 DEF WorkerOf, GoodRow, Pcs
    <2> QED
      BY <1>0, <2>1, <2>3, <2>6, SendingIdle, OthersStay DEF Working, Others
  <1>5. CASE File
    <2>1. \/ job' = job /\ (Throw \/ (Goto("gate") /\ UNCHANGED <<queue, failing>>))
          \/ w.row.file.for # Rates /\ FileMutable /\ w'.pc = "gate"
      BY <1>w, <1>5 DEF File
    <2> QED
      BY <1>3, <1>4, <1>5, <2>1
  <1> QED
    BY <1>1, <1>2, <1>5

(* What the worker makes of the answer, of the receipt and of the outcome. *)
LEMMA BookMoves ==
    ASSUME Base, Answer \/ Receipt \/ Book \/ MirrorRow \/ Finalize
    PROVE  Working /\ Sending'
  <1>0. /\ Types /\ GoodRow(job) /\ job \in JobRow /\ Len(cands) \in Nat
        /\ UNCHANGED <<submit, cands, chainVars, api, boundVars>> /\ Still
    BY OthersStay DEF Base, Types, GoodRow, Answer, Receipt, Book, MirrorRow, Finalize
  <1>1. CASE Answer
    <2>1. RowMove
      <3>1. ASSUME job' = [job EXCEPT !.stamp = FALSE] PROVE RowMove
        BY <1>0, <3>1 DEF RowMove, GoodRow, JobRow
      <3> QED
        BY <1>0, <1>1, <3>1, SameRowMoves DEF Answer
    <2>2. CASE Throw
      BY <1>0, <2>1, <2>2, ThrowMoves, SendingIdle, OthersStay DEF Working, Others
    <2>3. CASE Goto("receipt") /\ UNCHANGED <<queue, failing>>
      <3>1. WorkerOf(w') /\ w'.pc = "receipt" /\ w'.cand = w.cand /\ Call' = Call
        BY <1>0, <2>3, GotoMoves DEF Pcs
      <3>2. w.pc = "answer" /\ cands' = cands
        BY <1>0, <1>1 DEF Answer, Busy
      <3>3. Sending'
        BY <3>1, <3>2 DEF Base, Sending
      <3> QED
        BY <1>0, <2>1, <2>3, <3>1, <3>3, OthersStay DEF Working, Others
    <2> QED
      BY <1>1, <2>2, <2>3 DEF Answer
  <1>2. CASE Receipt
    <2>1. job' = job /\ w.pc = "receipt" /\ cands' = cands /\ UNCHANGED chainVars
      BY <1>0, <1>2 DEF Receipt, Busy
    <2>2. \/ Goto("book") /\ cands[w.cand].fate = "won" /\ proof \in ChainEnd /\ UNCHANGED <<queue, failing>>
          \/ Goto("mirror") /\ proof \in ChainEnd /\ UNCHANGED <<queue, failing>>
          \/ Done /\ UNCHANGED <<queue, failing>>
          \/ Throw
      BY <1>2 DEF Receipt, Proven
    <2>3. CASE Goto("book") /\ cands[w.cand].fate = "won" /\ proof \in ChainEnd /\ UNCHANGED <<queue, failing>>
      <3>1. WorkerOf(w') /\ w'.pc = "book" /\ w'.cand = w.cand /\ Call' = Call
        BY <1>0, <2>3, GotoMoves DEF Pcs
      <3>2. Sending'
        BY <2>1, <2>3, <3>1 DEF Base, Sending, chainVars
      <3> QED
        BY <1>0, <2>1, <2>3, <3>1, <3>2, SameRowMoves, OthersStay DEF Working, Others
    <2>4. CASE Goto("mirror") /\ proof \in ChainEnd /\ UNCHANGED <<queue, failing>>
      <3>1. WorkerOf(w') /\ w'.pc = "mirror"
        BY <1>0, <2>4, GotoMoves DEF Pcs
      <3>2. Sending'
        BY <2>1, <2>4, <3>1 DEF Sending, chainVars
      <3> QED
        BY <1>0, <2>1, <2>4, <3>1, <3>2, SameRowMoves, OthersStay DEF Working, Others
    <2>5. CASE Done /\ UNCHANGED <<queue, failing>>
      BY <1>0, <2>1, <2>5, SameRowMoves, DoneMoves, SendingIdle, OthersStay DEF Working, Others
    <2>6. CASE Throw
      BY <1>0, <2>1, <2>6, SameRowMoves, ThrowMoves, SendingIdle, OthersStay DEF Working, Others
    <2> QED
      BY <2>2, <2>3, <2>4, <2>5, <2>6
  <1>3. CASE Book
    <2>1. /\ w.pc = "book" /\ w.cand \in DOMAIN cands /\ Calldata(cands[w.cand]) = Call
          /\ cands[w.cand].fate = "won" /\ proof \in ChainEnd /\ w.cand \in Winners
      BY <1>3 DEF Book, Busy, Base, Sending, Winners
    <2>2. cands[w.cand].act = Call.act /\ cands[w.cand].file = Call.file /\ Call.act \in Acts
      BY <1>0, <2>1, WinnersAreCands DEF Types, Calldata, Cand
    <2>3. chain = EffectOf(Call.act) /\ proof = chain
      BY <2>1, <2>2 DEF Base, ChainOK
    <2> DEFINE c == CASE Call.act = "pay"         -> "COMPLETED"
                      [] Call.act = "claimRefund" -> "EXPIRED"
                      [] OTHER                    -> "REJECTED"
               f == IF ~Settles /\ w.row.file # NoFile THEN NoFile ELSE job.file
    <2>4. c = FinalOf(proof) /\ c \in Final /\ (Call.act = "claimRefund" => proof = "Expired")
      BY <2>3 DEF EffectOf, FinalOf, Final
    <2>5. /\ f \in Files
          /\ \/ f = job.file
             \/ f = NoFile /\ Call.file = NoFile
      BY <1>0 DEF JobRow, Files, NoFile, Call
    <2>6. job' = [job EXCEPT !.onChain = c, !.settleTx = w.cand, !.stamp = FALSE, !.file = f]
      BY <1>0, <1>3 DEF Book, JobRow
    <2>7. w.cand \in Nat /\ w.cand <= Len(cands) /\ w.cand # 0
      BY <1>0, <2>1, WinnersAreCands DEF Types
    <2> HIDE DEF c, f
    <2>8. RowMove
      <3>1. /\ GoodRow(job') /\ job'.onChain = c /\ job'.settleTx = w.cand /\ job'.file = f
            /\ job'.contested = job.contested /\ job'.resolution = job.resolution
            /\ job'.status = job.status
        BY <1>0, <2>4, <2>5, <2>6, <2>7 DEF GoodRow, JobRow, OnChain
      <3> QED
        BY <2>1, <2>2, <2>4, <2>5, <3>1 DEF RowMove
    <2>9. WorkerOf(w') /\ w'.pc = "finalize" /\ UNCHANGED <<queue, failing>>
      BY <1>0, <1>3, GotoMoves DEF Book, Pcs
    <2>10. Sending'
      BY <1>0, <2>1, <2>9 DEF Sending, chainVars
    <2> QED
      BY <1>0, <2>8, <2>9, <2>10, OthersStay DEF Working, Others
  <1>4. CASE MirrorRow
    <2>1. w.pc = "mirror" /\ proof \in ChainEnd
      BY <1>4 DEF MirrorRow, Busy, Base, Sending
    <2>2. proof = chain
      BY <2>1 DEF Base, ChainOK
    <2>3. RowMove
      BY <1>0, <1>4, <2>1, <2>2, MirrorRowMoves DEF MirrorRow
    <2>4. WorkerOf(w') /\ w'.pc = "finalize" /\ UNCHANGED <<queue, failing>>
      BY <1>0, <1>4, GotoMoves DEF MirrorRow, Pcs
    <2>5. Sending'
      BY <1>0, <2>1, <2>4 DEF Sending, chainVars
    <2> QED
      BY <1>0, <2>3, <2>4, <2>5, OthersStay DEF Working, Others
  <1>5. CASE Finalize
    <2> DEFINE f == Finalized(job, w.row)
    <2>1. job' = f /\ Done /\ UNCHANGED <<queue, failing>> /\ w.pc = "finalize"
      BY <1>5 DEF Finalize, Busy
    <2>2. /\ GoodRow(f) /\ f.onChain = job.onChain /\ f.file = job.file /\ f.settleTx = job.settleTx
          /\ f.contested = job.contested /\ f.resolution = job.resolution
          /\ \/ f.status \in {job.status, "FAILED"}
             \/ f.status = "COMPLETED" /\ chain = "Completed"
             \/ f.status = "PAYMENT_FAILED" /\ chain # "Completed"
      BY <1>0, FinalizedRow
    <2> HIDE DEF f
    <2>3. proof \in ChainEnd /\ proof = chain
      BY <2>1 DEF Base, Sending, ChainOK
    <2>4. RowMove
      BY <2>1, <2>2, <2>3 DEF RowMove, ChainEnd
    <2> QED
      BY <1>0, <2>1, <2>4, DoneMoves, SendingIdle, OthersStay DEF Working, Others
  <1> QED
    BY <1>1, <1>2, <1>3, <1>4, <1>5

(* The worker takes an entry, a node does not answer, the configuration    *)
(* gate closes, a candidate is gated or turned away, the process dies.     *)
LEMMA TurnMoves ==
    ASSUME Base, \/ \E a \in Entries : Take(a)
                 \/ Unreadable \/ Defer \/ Gate \/ (Record /\ ~Recordable)
    PROVE  Working /\ Sending'
  <1>0. /\ Types /\ GoodRow(job) /\ job \in JobRow /\ Len(cands) \in Nat
        /\ WorkerOf(w) /\ queue \subseteq Entries
    BY DEF Base, Types, GoodRow
  <1>1. ASSUME NEW a \in Entries, Take(a) PROVE Working /\ Sending'
    <2>1. /\ w' = [pc |-> "read", act |-> a, row |-> job, cand |-> 0] /\ queue' = queue \ {a}
          /\ UNCHANGED <<job, submit, cands, chainVars, api, failing, boundVars>>
      BY <1>1 DEF Take
    <2>2. WorkerOf(w') /\ w'.pc = "read"
      BY <1>0, <2>1 DEF WorkerOf, Pcs
    <2> QED
      BY <1>0, <2>1, <2>2, SameRowMoves, SendingIdle, OthersStay DEF Working, Others
  <1>2. CASE Unreadable \/ (Record /\ ~Recordable)
    <2>1. Throw /\ UNCHANGED <<job, submit, cands, chainVars, api, boundVars>>
      BY <1>2 DEF Unreadable, Record
    <2> QED
      BY <1>0, <2>1, SameRowMoves, ThrowMoves, SendingIdle, OthersStay DEF Working, Others
  <1>3. CASE Defer
    <2>1. /\ UNCHANGED <<submit, cands, chainVars, api, failing, boundVars>>
          /\ Done /\ queue' = queue \cup {w.act}
          /\ job' = job \/ (job.onChain = "SETTLING" /\ job' = HandedBack(job))
      BY <1>3 DEF Defer, Retried
    <2>2. RowMove
      BY <1>0, <2>1, SameRowMoves, HandBackMoves
    <2>3. queue' \subseteq Entries
      BY <1>0, <2>1 DEF WorkerOf
    <2> QED
      BY <1>0, <2>1, <2>2, <2>3, DoneMoves, SendingIdle, OthersStay DEF Working, Others
  <1>4. CASE Gate
    <2>1. UNCHANGED <<job, submit, cands, chainVars, api, boundVars>>
      BY <1>4 DEF Gate
    <2>2. CASE Throw
      BY <1>0, <2>1, <2>2, SameRowMoves, ThrowMoves, SendingIdle, OthersStay DEF Working, Others
    <2>3. CASE MaySign(Call) /\ Goto("record") /\ UNCHANGED <<queue, failing>>
      <3>1. WorkerOf(w') /\ w'.pc = "record" /\ Call' = Call
        BY <1>0, <2>3, GotoMoves DEF Pcs
      <3>2. \A i \in DOMAIN cands : Over(cands[i]) \/ Calldata(cands[i]) = Call
        BY <2>3 DEF MaySign
      <3>3. Sending'
        BY <2>1, <3>1, <3>2 DEF Sending
      <3> QED
        BY <1>0, <2>1, <2>3, <3>1, <3>3, SameRowMoves, OthersStay DEF Working, Others
    <2> QED
      BY <1>4, <2>2, <2>3 DEF Gate
  <1> QED
    BY <1>1, <1>2, <1>3, <1>4

(***************************************************************************)
(* The chain moves on, or back, without the backend.                       *)
(***************************************************************************)
ChainMove ==
    /\ UNCHANGED <<job, procVars, queue, undone>> /\ submit' \in Submits
    /\ cands' \in Seq(Cand) /\ Len(cands') = Len(cands)
    /\ \A i \in DOMAIN cands : /\ Calldata(cands'[i]) = Calldata(cands[i])
                               /\ cands[i].proven => cands'[i] = cands[i]
    /\ chain' \in ChainStatus /\ proof' \in ChainStatus
    /\ proof \in ChainEnd => proof' = proof
    /\ proof # "Funded" => proof' # "Funded"
    /\ proof' # proof => proof' = chain'
    /\ \/ clock' = clock
       \/ clock # "expired" /\ proof' = proof /\ cands' = cands

(* A sequence rewritten place by place is as long as before. *)
LEMMA Rewritten ==
    ASSUME NEW S, NEW s \in Seq(S), NEW t, t = [i \in DOMAIN s |-> t[i]],
           \A i \in DOMAIN s : t[i] \in S
    PROVE  t \in Seq(S) /\ Len(t) = Len(s) /\ DOMAIN t = DOMAIN s
  <1>1. DOMAIN s = 1..Len(s) /\ Len(s) \in Nat
    OBVIOUS
  <1>2. t \in [1..Len(s) -> S]
    BY <1>1
  <1>3. t \in Seq(S)
    BY <1>1, <1>2
  <1>4. DOMAIN t = 1..Len(s) /\ DOMAIN t = 1..Len(t) /\ Len(t) \in Nat
    BY <1>1, <1>2, <1>3
  <1> QED
    BY <1>1, <1>3, <1>4

(* Before the end nothing has won, and the proof tag shows what `latest` does. *)
LEMMA Undecided ==
    ASSUME Types, ChainOK, chain \notin ChainEnd
    PROVE  Winners = {} /\ proof = chain
  <1>1. \A i \in Winners : EffectOf(cands[i].act) \in ChainEnd
    BY DEF EffectOf, ChainEnd
  <1> QED
    BY <1>1 DEF ChainOK

(* A candidate is mined, or comes to nothing. *)
LEMMA MineMoves ==
    ASSUME Types, ChainOK, NEW i \in DOMAIN cands, Mine(i)
    PROVE  ChainMove /\ ChainOK'
  <1>1. /\ cands[i].fate = "live" /\ cands[i] \in Cand /\ ~cands[i].proven
        /\ UNCHANGED <<job, submit, proof, queue, procVars, clock, undone>>
    BY WinnersAreCands DEF Mine, Types, ChainOK, boundVars
  <1>2. ASSUME NEW fate \in {"won", "lost"}, Resolve(i, fate)
        PROVE  /\ cands' \in Seq(Cand) /\ Len(cands') = Len(cands) /\ DOMAIN cands' = DOMAIN cands
               /\ cands'[i].fate = fate /\ cands'[i].act = cands[i].act /\ ~cands'[i].proven
               /\ Calldata(cands'[i]) = Calldata(cands[i])
               /\ \A k \in DOMAIN cands \ {i} : cands'[k] = cands[k]
    <2> DEFINE c == [cands[i] EXCEPT !.fate = fate]
    <2>1. c \in Cand /\ c.fate = fate /\ c.act = cands[i].act /\ ~c.proven
          /\ Calldata(c) = Calldata(cands[i])
      BY <1>1 DEF Cand, Calldata
    <2>2. cands' = [cands EXCEPT ![i] = c] /\ cands \in Seq(Cand) /\ i \in 1..Len(cands)
      BY <1>2, WinnersAreCands DEF Resolve, Types
    <2> HIDE DEF c
    <2>3. cands' \in Seq(Cand) /\ Len(cands') = Len(cands) /\ DOMAIN cands' = DOMAIN cands
          /\ cands'[i] = c /\ \A k \in DOMAIN cands \ {i} : cands'[k] = cands[k]
      BY <2>1, <2>2
    <2> QED
      BY <2>1, <2>3
  <1>3. CASE Resolve(i, "won") /\ Executable(cands[i].act) /\ chain' = EffectOf(cands[i].act)
    <2>1. chain \notin ChainEnd /\ (cands[i].act = "claimRefund" => clock = "expired")
      BY <1>1, <1>3 DEF Executable, ChainEnd, Cand, Acts, Decisions
    <2>2. Winners = {} /\ proof = chain
      BY <2>1, Undecided
    <2>3. Winners' = {i}
      BY <1>2, <1>3, <2>2 DEF Winners
    <2>4. chain' \in ChainEnd /\ (chain' = "Expired" => cands[i].act = "claimRefund")
      BY <1>3 DEF EffectOf, ChainEnd
    <2>5. ChainOK'
      BY <1>1, <1>2, <1>3, <2>1, <2>2, <2>3, <2>4 DEF ChainOK
    <2>6. ChainMove
      BY <1>1, <1>2, <1>3, <2>1, <2>4 DEF ChainMove, Types, ChainStatus
    <2> QED
      BY <2>5, <2>6
  <1>4. CASE Resolve(i, "lost") /\ chain' = chain
    <2>1. Winners' = Winners /\ i \notin Winners
      BY <1>1, <1>2, <1>4 DEF Winners
    <2>2. \A k \in Winners : k \in DOMAIN cands \ {i}
      BY <2>1 DEF Winners
    <2>3. ChainOK'
      <3>1. \A k \in Winners' : cands'[k] = cands[k]
        BY <1>2, <1>4, <2>1, <2>2
      <3>2. \A k \in DOMAIN cands' : cands'[k].proven => cands'[k].fate # "live"
        BY <1>2, <1>4 DEF ChainOK
      <3> QED
        BY <1>1, <1>4, <2>1, <3>1, <3>2 DEF ChainOK
    <2>4. ChainMove
      BY <1>1, <1>2, <1>4 DEF ChainMove, Types, ChainStatus
    <2> QED
      BY <2>3, <2>4
  <1> QED
    BY <1>3, <1>4 DEF Mine

(* The proof tag reaches `latest`. *)
LEMMA ProofMoves ==
    ASSUME Types, ChainOK, ProofCatchesUp
    PROVE  ChainMove /\ ChainOK'
  <1>1. /\ UNCHANGED <<job, submit, chain, queue, procVars, clock, undone>> /\ proof' = chain
        /\ cands' = [i \in DOMAIN cands |-> [cands[i] EXCEPT !.proven = @ \/ cands[i].fate # "live"]]
    BY DEF ProofCatchesUp, boundVars
  <1>2. \A i \in DOMAIN cands : cands[i] \in Cand
    BY WinnersAreCands DEF Types
  <1>3. ASSUME NEW i \in DOMAIN cands
        PROVE  /\ cands'[i] \in Cand /\ Calldata(cands'[i]) = Calldata(cands[i])
               /\ cands'[i].fate = cands[i].fate /\ cands'[i].act = cands[i].act
               /\ cands'[i].proven <=> cands[i].proven \/ cands[i].fate # "live"
               /\ cands[i].proven => cands'[i] = cands[i]
    BY <1>1, <1>2 DEF Cand, Calldata
  <1>4. cands' \in Seq(Cand) /\ Len(cands') = Len(cands) /\ DOMAIN cands' = DOMAIN cands
    <2>1. cands' = [i \in DOMAIN cands |-> cands'[i]] /\ cands \in Seq(Cand)
      BY <1>1 DEF Types
    <2> QED
      BY <1>3, <2>1, Rewritten
  <1>5. Winners' = Winners
    BY <1>3, <1>4 DEF Winners
  <1>6. \A i \in Winners : i \in DOMAIN cands /\ cands[i].fate # "live"
    BY DEF Winners
  <1>7. Winners # {} => chain \in ChainEnd
    BY DEF ChainOK, EffectOf, ChainEnd
  <1>8. ChainOK'
    <2>1. \A i \in DOMAIN cands' : cands'[i].proven => cands'[i].fate # "live"
      BY <1>3, <1>4 DEF ChainOK
    <2>2. ASSUME NEW i \in Winners'
          PROVE  chain' = EffectOf(cands'[i].act) /\ cands'[i].proven /\ proof' \in ChainEnd
      <3>1. i \in Winners /\ cands'[i].act = cands[i].act /\ cands'[i].proven
        BY <1>3, <1>5, <1>6
      <3> QED
        BY <1>1, <1>7, <3>1 DEF ChainOK
    <2> QED
      BY <1>1, <1>5, <2>1, <2>2 DEF ChainOK
  <1>9. ChainMove
    <2>1. chain = "Funded" => proof = "Funded"
      BY DEF ChainOK, ChainEnd
    <2> QED
      BY <1>1, <1>3, <1>4, <2>1 DEF ChainMove, ChainOK, Types
  <1> QED
    BY <1>8, <1>9

(* `latest` falls back to what the proof tag shows. *)
LEMMA ReorgMoves ==
    ASSUME Types, ChainOK, Reorg
    PROVE  ChainMove /\ ChainOK'
  <1>1. /\ UNCHANGED <<job, submit, proof, queue, procVars, clock, undone>> /\ chain' = proof
        /\ cands' = [i \in DOMAIN cands |->
                        [cands[i] EXCEPT !.fate = IF cands[i].proven THEN @ ELSE "live"]]
    BY DEF Reorg, boundVars
  <1>2. \A i \in DOMAIN cands : cands[i] \in Cand
    BY WinnersAreCands DEF Types
  <1>3. ASSUME NEW i \in DOMAIN cands
        PROVE  /\ cands'[i] \in Cand /\ Calldata(cands'[i]) = Calldata(cands[i])
               /\ cands'[i].proven = cands[i].proven /\ cands'[i].act = cands[i].act
               /\ cands[i].proven => cands'[i] = cands[i]
               /\ ~cands[i].proven => cands'[i].fate = "live"
    BY <1>1, <1>2 DEF Cand, Calldata
  <1>4. cands' \in Seq(Cand) /\ Len(cands') = Len(cands) /\ DOMAIN cands' = DOMAIN cands
    <2>1. cands' = [i \in DOMAIN cands |-> cands'[i]] /\ cands \in Seq(Cand)
      BY <1>1 DEF Types
    <2> QED
      BY <1>3, <2>1, Rewritten
  <1>5. Winners' = {i \in Winners : cands[i].proven}
    BY <1>3, <1>4 DEF Winners
  <1>6. \A i \in Winners' : cands'[i] = cands[i] /\ i \in Winners /\ cands[i].proven
    BY <1>3, <1>5 DEF Winners
  <1>7. proof \in ChainEnd => proof = chain /\ Winners' = Winners
    BY <1>5 DEF ChainOK
  <1>8. ChainOK'
    <2>1. \A i \in DOMAIN cands' : cands'[i].proven => cands'[i].fate # "live"
      BY <1>3, <1>4 DEF ChainOK
    <2>2. \A i \in Winners' : chain' = EffectOf(cands'[i].act) /\ cands'[i].proven /\ proof' \in ChainEnd
      BY <1>1, <1>6, <1>7 DEF ChainOK
    <2>3. chain' \in {"Completed", "Rejected"} => Winners' # {}
      BY <1>1, <1>7 DEF ChainOK, ChainEnd
    <2>4. chain' = "Expired" => clock' = "expired"
      BY <1>1, <1>7 DEF ChainOK, ChainEnd
    <2>5. \A i, k \in Winners' : i = k
      BY <1>5 DEF ChainOK
    <2> QED
      BY <1>1, <2>1, <2>2, <2>3, <2>4, <2>5 DEF ChainOK
  <1>9. ChainMove
    BY <1>1, <1>3, <1>4 DEF ChainMove, Types
  <1> QED
    BY <1>8, <1>9

(* The provider's submit, anybody's refund, the clock. *)
LEMMA WorldMoves ==
    ASSUME Types, ChainOK, SubmitMines \/ OutsiderRefund \/ Tick
    PROVE  ChainMove /\ ChainOK'
  <1>1. UNCHANGED <<job, cands, queue, procVars, undone>> /\ Winners' = Winners
    BY DEF SubmitMines, OutsiderRefund, Tick, Winners, boundVars
  <1>2. submit' \in Submits
    BY DEF SubmitMines, OutsiderRefund, Tick, Types, Submits
  <1>3. CASE SubmitMines
    <2>1. /\ chain = "Funded" /\ chain' = "Submitted" /\ proof' = "Submitted" /\ clock' = clock
      BY <1>3 DEF SubmitMines, boundVars
    <2>2. Winners = {} /\ proof = chain
      BY <2>1, Undecided DEF ChainEnd
    <2>3. ChainOK'
      BY <1>1, <2>1, <2>2 DEF ChainOK
    <2> QED
      BY <1>1, <1>2, <2>1, <2>2, <2>3 DEF ChainMove, Types, ChainStatus, ChainEnd
  <1>4. CASE OutsiderRefund
    <2>1. /\ chain \in {"Funded", "Submitted"} /\ chain' = "Expired" /\ clock' = clock
          /\ proof' = proof /\ clock = "expired"
      BY <1>4 DEF OutsiderRefund, boundVars
    <2>2. Winners = {} /\ proof = chain
      BY <2>1, Undecided DEF ChainEnd
    <2>3. ChainOK'
      BY <1>1, <2>1, <2>2 DEF ChainOK, ChainEnd
    <2> QED
      BY <1>1, <1>2, <2>1, <2>3 DEF ChainMove, Types, ChainStatus, ChainEnd
  <1>5. CASE Tick
    <2>1. UNCHANGED chainVars /\ clock # "expired"
      BY <1>5 DEF Tick
    <2>2. ChainOK'
      BY <1>1, <2>1 DEF ChainOK, chainVars
    <2> QED
      BY <1>1, <1>2, <2>1, <2>2 DEF ChainMove, Types, chainVars
  <1> QED
    BY <1>3, <1>4, <1>5

(* A candidate is recorded, and the row names it. *)
Recorded ==
    /\ w.pc = "record" /\ Recordable
    /\ UNCHANGED <<submit, chain, proof, clock, api, queue, failing, undone>>
    /\ w' = [w EXCEPT !.pc = "answer", !.cand = Len(cands) + 1]
    /\ job' = [job EXCEPT !.settleTx = Len(cands) + 1, !.stamp = TRUE]
    /\ \E c \in Cand : /\ Calldata(c) = Call /\ c.fate = "live" /\ ~c.proven
                       /\ cands' = Append(cands, c)

(* What the ledger records is the worker's call. *)
LEMMA RecordMoves ==
    ASSUME Types, Record, Recordable
    PROVE  Recorded
  <1>1. w.row \in JobRow /\ w.act \in Entries
    BY DEF Types, WorkerOf
  <1>2. Call.act \in Acts /\ Call.file \in Files /\ Call.why \in Reasons
    BY <1>1 DEF Call, Settles, Decision, Acts, Decisions, Entries, JobRow, Files, NoFile, Reasons
  <1> DEFINE c == [act |-> Call.act, file |-> Call.file, why |-> Call.why, fate |-> "live",
                   proven |-> FALSE]
  <1>3. Calldata(c) = Call
    BY DEF Calldata, Call
  <1>4. c \in Cand /\ c.fate = "live" /\ ~c.proven
    BY <1>2 DEF Cand
  <1> HIDE DEF c
  <1>5. cands' = Append(cands, c)
    BY DEF Record, c
  <1>6. \E d \in Cand : /\ Calldata(d) = Call /\ d.fate = "live" /\ ~d.proven
                        /\ cands' = Append(cands, d)
    BY <1>3, <1>4, <1>5
  <1> QED
    BY <1>6 DEF Record, Recorded, Busy, chainVars, boundVars

(* What a new candidate does to the list. *)
LEMMA RecordedList ==
    ASSUME Types, Recorded
    PROVE  \E c \in Cand : \E n \in Nat :
              /\ Calldata(c) = Call /\ c.fate = "live" /\ ~c.proven /\ n = Len(cands) + 1
              /\ cands' \in Seq(Cand) /\ Len(cands') = n /\ cands'[n] = c
              /\ DOMAIN cands' = DOMAIN cands \cup {n} /\ n \notin DOMAIN cands
              /\ \A i \in DOMAIN cands : cands'[i] = cands[i]
              /\ Winners' = Winners
  <1>1. PICK c \in Cand : /\ Calldata(c) = Call /\ c.fate = "live" /\ ~c.proven
                          /\ cands' = Append(cands, c)
    BY DEF Recorded
  <1>2. PICK n \in Nat : n = Len(cands) + 1
    BY DEF Types
  <1>3. /\ cands' \in Seq(Cand) /\ Len(cands') = n /\ cands'[n] = c
        /\ DOMAIN cands' = DOMAIN cands \cup {n} /\ n \notin DOMAIN cands
        /\ \A i \in DOMAIN cands : cands'[i] = cands[i]
    BY <1>1, <1>2 DEF Types
  <1>4. Winners' = Winners
    BY <1>1, <1>3 DEF Winners
  <1> QED
    BY <1>1, <1>2, <1>3, <1>4

(* Types survive a step that keeps the list or adds to it. *)
LEMMA TypesKept ==
    ASSUME Types, cands' \in Seq(Cand), Len(cands') \in {Len(cands), Len(cands) + 1},
           GoodRow(job') \/ GoodRow(job)', WorkerOf(w') \/ WorkerOf(w)', Others \/ ApiOf(api'),
           failing' \in Failures, submit' \in Submits, queue' \subseteq Entries,
           chain' \in ChainStatus, proof' \in ChainStatus, undone' \subseteq Undoings
    PROVE  Types'
  <1>1. Len(cands) \in Nat /\ Len(cands) <= Len(cands')
    BY DEF Types
  <1>2. ASSUME NEW r, GoodRow(r)
        PROVE  r \in JobRow /\ r.settleTx <= Len(cands') /\ (r.stamp => r.settleTx # 0)
    BY <1>1, <1>2 DEF GoodRow, JobRow
  <1>3. GoodRow(job)'
    BY <1>2 DEF GoodRow
  <1>4. WorkerOf(w)'
    <2>1. CASE WorkerOf(w')
      <3>1. /\ w' \in [pc : Pcs, act : Entries, row : JobRow, cand : Nat]
            /\ GoodRow(w'.row) /\ w'.cand <= Len(cands)
        BY <2>1 DEF WorkerOf
      <3>2. w'.cand <= Len(cands') /\ w'.row.settleTx <= Len(cands')
        BY <1>1, <1>2, <3>1
      <3> QED
        BY <1>2, <3>1, <3>2 DEF WorkerOf, GoodRow
    <2> QED
      BY <2>1
  <1>5. ApiOf(api)'
    <2>1. /\ api' \in [pc : {"idle", "check", "write"}, wants : {"contest"} \cup Decisions, row : JobRow]
          /\ GoodRow(api'.row)
      BY DEF Others, ApiOf
    <2> QED
      BY <1>2, <2>1 DEF ApiOf, GoodRow
  <1> QED
    BY <1>3, <1>4, <1>5 DEF Types

(* While the ledger and the chain stand, so does what is said of them. *)
LEMMA StillKeeps ==
    ASSUME Types, ChainOK, SendsAgree, Still
    PROVE  /\ ChainOK' /\ SendsAgree' /\ cands' = cands /\ Winners' = Winners
           /\ cands' \in Seq(Cand) /\ Len(cands') = Len(cands)
           /\ chain' \in ChainStatus /\ proof' \in ChainStatus /\ undone' \subseteq Undoings
           /\ w' = w /\ Sending => Sending'
  <1>1. cands' = cands /\ chain' = chain /\ proof' = proof /\ clock' = clock /\ Winners' = Winners
    BY DEF Still, Winners
  <1>2. ChainOK'
    BY <1>1 DEF ChainOK
  <1>3. SendsAgree'
    BY <1>1 DEF SendsAgree
  <1>4. ASSUME w' = w, Sending PROVE Sending'
    <2>1. Call' = Call
      BY <1>4 DEF Call, Settles, Decision
    <2> QED
      BY <1>1, <1>4, <2>1 DEF Sending
  <1> QED
    BY <1>1, <1>2, <1>3, <1>4 DEF Types, Still

(* What was asked for stays what could be asked for. *)
LEMMA AskedKept ==
    ASSUME Asked, ApiMove
    PROVE  Asked'
  BY DEF Asked, ApiMove

(***************************************************************************)
(* The first layer of the invariant.                                       *)
(***************************************************************************)
LEMMA InitBase == Init => Base
  <1> SUFFICES ASSUME Init PROVE Base
    OBVIOUS
  <1>1. cands = <<>> /\ cands \in Seq(Cand) /\ Len(cands) = 0 /\ DOMAIN cands = {}
    BY DEF Init
  <1>2. GoodRow(NoRow) /\ NoRow \in JobRow
    BY <1>1 DEF GoodRow, NoRow, JobRow, JobStatus, OnChain, Files, NoFile
  <1>3. WorkerOf(w) /\ ApiOf(api) /\ failing \in Failures /\ submit \in Submits
    BY <1>1, <1>2 DEF Init, WorkerOf, ApiOf, IdleWorker, IdleApi, NoFailure, Failures, Pcs, Entries,
       Submits
  <1>4. Types
    BY <1>1, <1>2, <1>3 DEF Init, Types, ChainStatus
  <1>5. Winners = {}
    BY <1>1 DEF Winners
  <1>6. ChainOK
    BY <1>1, <1>5 DEF Init, ChainOK
  <1>7. Sending /\ Asked
    BY DEF Init, IdleWorker, IdleApi, Sending, Asked
  <1>8. SendsAgree
    BY <1>1 DEF SendsAgree
  <1> QED
    BY <1>4, <1>6, <1>7, <1>8 DEF Base

(* The first layer survives what is done around the worker, ... *)
LEMMA BaseBackground ==
    ASSUME Base, Background
    PROVE  Base'
  <1>1. Types /\ ChainOK /\ Sending /\ Asked /\ SendsAgree
    BY DEF Base
  <1>2. Still /\ RowMove /\ Others /\ w' = w /\ ApiMove
    BY DEF Background
  <1>3. Types'
    BY <1>1, <1>2, StillKeeps, TypesKept DEF RowMove, Others
  <1>4. Asked'
    BY <1>1, <1>2, AskedKept
  <1> QED
    BY <1>1, <1>2, <1>3, <1>4, StillKeeps DEF Base

(* ... what the worker does without recording, ... *)
LEMMA BaseWorking ==
    ASSUME Base, Working, Sending'
    PROVE  Base'
  <1>1. Types /\ ChainOK /\ Asked /\ SendsAgree
    BY DEF Base
  <1>2. Still /\ RowMove /\ Others /\ api' = api
    BY DEF Working
  <1>3. Types'
    BY <1>1, <1>2, StillKeeps, TypesKept DEF RowMove, Others
  <1>4. Asked'
    BY <1>1, <1>2 DEF Asked
  <1> QED
    BY <1>1, <1>2, <1>3, <1>4, StillKeeps DEF Base

(* ... what the chain does, ... *)
LEMMA BaseChain ==
    ASSUME Base, ChainMove, ChainOK'
    PROVE  Base'
  <1>1. Types /\ ChainOK /\ Sending /\ Asked /\ SendsAgree
    BY DEF Base
  <1>2. job' = job /\ w' = w /\ api' = api /\ failing' = failing /\ queue' = queue
    BY DEF ChainMove, procVars
  <1>3. /\ cands' \in Seq(Cand) /\ Len(cands') = Len(cands) /\ DOMAIN cands' = DOMAIN cands
    BY <1>1, WinnersAreCands DEF ChainMove, Types
  <1>4. \A i \in DOMAIN cands : /\ Calldata(cands'[i]) = Calldata(cands[i])
                                /\ cands[i].proven => cands'[i] = cands[i]
    BY DEF ChainMove
  <1>5. Types'
    <2>1. GoodRow(job') /\ WorkerOf(w') /\ ApiOf(api')
      BY <1>1, <1>2 DEF Types
    <2> QED
      BY <1>1, <1>2, <1>3, <2>1, TypesKept DEF ChainMove, Types, Others
  <1>6. Call' = Call
    BY <1>2 DEF Call, Settles, Decision
  <1>7. Sending'
    <2>1. w.pc = "record" => \A i \in DOMAIN cands' : Over(cands'[i]) \/ Calldata(cands'[i]) = Call'
      <3>1. \A i \in DOMAIN cands : Over(cands[i]) => Over(cands'[i])
        BY <1>4 DEF Over
      <3> QED
        BY <1>1, <1>3, <1>4, <1>6, <3>1 DEF Sending
    <2>2. w.pc \in {"answer", "receipt", "book"} =>
             w.cand \in DOMAIN cands' /\ Calldata(cands'[w.cand]) = Call'
      BY <1>1, <1>3, <1>4, <1>6 DEF Sending
    <2>3. w.pc \in {"book", "mirror", "finalize"} => proof' \in ChainEnd
      BY <1>1 DEF Sending, ChainMove
    <2>4. w.pc = "book" => cands'[w.cand].fate = "won"
      <3>1. ASSUME w.pc = "book" PROVE cands'[w.cand].fate = "won"
        <4>1. /\ w.cand \in DOMAIN cands /\ cands[w.cand].fate = "won" /\ proof \in ChainEnd
          BY <1>1, <3>1 DEF Sending
        <4>2. cands[w.cand].proven
          BY <1>1, <4>1 DEF ChainOK, Winners
        <4> QED
          BY <1>4, <4>1, <4>2
      <3> QED
        BY <3>1
    <2> QED
      BY <1>2, <2>1, <2>2, <2>3, <2>4 DEF Sending
  <1>8. Asked'
    BY <1>1, <1>2 DEF Asked
  <1>9. SendsAgree'
    <2>1. \A i \in DOMAIN cands : ~cands'[i].proven => ~cands[i].proven
      BY <1>4
    <2> QED
      BY <1>1, <1>3, <1>4, <2>1 DEF SendsAgree
  <1> QED
    BY <1>5, <1>7, <1>8, <1>9 DEF Base

(* ... a new candidate, whose calldata is the only one in flight, ... *)
LEMMA BaseRecorded ==
    ASSUME Base, Recorded
    PROVE  Base'
  <1>1. Types /\ ChainOK /\ Sending /\ Asked /\ SendsAgree
    BY DEF Base
  <1>2. PICK c \in Cand, n \in Nat :
              /\ Calldata(c) = Call /\ c.fate = "live" /\ ~c.proven /\ n = Len(cands) + 1
              /\ cands' \in Seq(Cand) /\ Len(cands') = n /\ cands'[n] = c
              /\ DOMAIN cands' = DOMAIN cands \cup {n} /\ n \notin DOMAIN cands
              /\ \A i \in DOMAIN cands : cands'[i] = cands[i]
              /\ Winners' = Winners
    BY <1>1, RecordedList
  <1>3. /\ w.pc = "record"
        /\ UNCHANGED <<submit, chain, proof, clock, api, queue, failing, undone>>
        /\ w' = [w EXCEPT !.pc = "answer", !.cand = n]
        /\ job' = [job EXCEPT !.settleTx = n, !.stamp = TRUE]
    BY <1>2 DEF Recorded
  <1>4. /\ w \in [pc : Pcs, act : Entries, row : JobRow, cand : Nat] /\ GoodRow(w.row)
        /\ job \in JobRow /\ Len(cands) \in Nat
    BY <1>1 DEF Types, WorkerOf, GoodRow
  <1>5. w'.pc = "answer" /\ w'.act = w.act /\ w'.row = w.row /\ w'.cand = n /\ Call' = Call
    <2>1. w'.pc = "answer" /\ w'.act = w.act /\ w'.row = w.row /\ w'.cand = n
      BY <1>3, <1>4
    <2> QED
      BY <2>1 DEF Call, Settles, Decision
  <1>6. Types'
    <2>1. GoodRow(job)'
      <3>1. job' \in JobRow /\ job'.settleTx = n
        BY <1>3, <1>4 DEF JobRow
      <3>2. n <= Len(cands') /\ n # 0
        BY <1>2, <1>4
      <3> QED
        BY <3>1, <3>2 DEF GoodRow
    <2>2. GoodRow(w.row)'
      BY <1>2, <1>4, <1>5 DEF GoodRow, JobRow
    <2>3. WorkerOf(w)'
      <3>1. w' \in [pc : Pcs, act : Entries, row : JobRow, cand : Nat]
        BY <1>3, <1>4 DEF Pcs
      <3>2. n <= Len(cands')
        BY <1>2
      <3> QED
        BY <1>5, <2>2, <3>1, <3>2 DEF WorkerOf
    <2>4. GoodRow(api.row)'
      BY <1>1, <1>2, <1>3, <1>4 DEF Types, ApiOf, GoodRow, JobRow
    <2>5. ApiOf(api)'
      BY <1>1, <1>3, <2>4 DEF Types, ApiOf
    <2> QED
      BY <1>1, <1>2, <1>3, <2>1, <2>3, <2>5 DEF Types
  <1>7. ChainOK'
    <2>1. \A i \in DOMAIN cands' : cands'[i].proven => cands'[i].fate # "live"
      BY <1>1, <1>2 DEF ChainOK
    <2>2. \A i \in Winners : cands'[i] = cands[i]
      BY <1>2 DEF Winners
    <2> QED
      BY <1>1, <1>2, <1>3, <2>1, <2>2 DEF ChainOK
  <1>8. Sending'
    BY <1>2, <1>5 DEF Sending
  <1>9. Asked'
    BY <1>1, <1>3 DEF Asked
  <1>10. SendsAgree'
    <2>1. \A i \in DOMAIN cands : ~cands[i].proven => Calldata(cands[i]) = Call
      BY <1>1, <1>3 DEF Sending, Over
    <2> QED
      BY <1>1, <1>2, <2>1 DEF SendsAgree
  <1> QED
    BY <1>6, <1>7, <1>8, <1>9, <1>10 DEF Base

(* Every step of the worker but the one that records a candidate. *)
Turn ==
    \/ ReadTerminal \/ ReadSettle \/ ReadReject \/ ReadRefund \/ Claim \/ File
    \/ Gate \/ (Record /\ ~Recordable) \/ Answer \/ Receipt \/ Book \/ MirrorRow \/ Finalize
    \/ Unreadable \/ Defer \/ \E a \in Entries : Take(a)

(* Every step is one of these five. *)
LEMMA Effects ==
    ASSUME Base, [Next]_setVars
    PROVE  \/ Background
           \/ Working /\ Sending' /\ Turn
           \/ ChainMove /\ ChainOK'
           \/ Record /\ Recorded
           \/ Crash
  <1>1. Types /\ ChainOK /\ Asked
    BY DEF Base
  <1>2. CASE Delivery
    <2>1. CASE SubmitMines
      BY <1>1, <2>1, WorldMoves
    <2> QED
      BY <1>1, <1>2, <2>1, DeliveryMoves DEF Delivery
  <1>3. CASE Review
    BY <1>1, <1>3, ReviewMoves
  <1>4. CASE WorkerStep
    BY <1>1, <1>4, ReadMoves, ClaimMoves, TurnMoves, RecordMoves, BookMoves DEF WorkerStep, Turn
  <1>5. CASE Unreadable \/ Defer \/ \E a \in Entries : Take(a)
    BY <1>5, TurnMoves DEF Turn
  <1>6. CASE Handler
    BY <1>1, <1>6, HandlerMoves
  <1>7. CASE Recover \/ Sweep \/ CandidatePass
    BY <1>1, <1>7, TickMoves
  <1>8. CASE ProofCatchesUp \/ Reorg \/ OutsiderRefund \/ Tick \/ \E i \in DOMAIN cands : Mine(i)
    BY <1>1, <1>8, MineMoves, ProofMoves, ReorgMoves, WorldMoves
  <1>9. CASE UNCHANGED setVars
    <2>1. UNCHANGED <<job, submit, cands, chainVars, queue, procVars, boundVars>>
      BY <1>9 DEF setVars
    <2> QED
      BY <1>1, <2>1, SameRowMoves, OthersStay DEF Background, Others
  <1> QED
    BY <1>2, <1>3, <1>4, <1>5, <1>6, <1>7, <1>8, <1>9 DEF Next

(* ... and every step. *)
LEMMA BaseStep ==
    ASSUME Base, [Next]_setVars
    PROVE  Base'
  <1>1. CASE Crash
    <2>1. /\ w' = IdleWorker /\ api' = IdleApi /\ failing' = NoFailure
          /\ UNCHANGED <<job, submit, cands, chainVars, boundVars>>
      BY <1>1 DEF Crash
    <2>2. Types /\ ChainOK /\ SendsAgree /\ Still
      BY <2>1, OthersStay DEF Base
    <2>3. queue' \subseteq Entries
      BY <1>1, <2>2 DEF Crash, Types, WorkerOf
    <2>4. Types'
      <3>1. Others /\ RowMove
        BY <2>1, <2>2, <2>3, OthersStay, SameRowMoves DEF Others
      <3> QED
        BY <2>2, <3>1, StillKeeps, TypesKept DEF RowMove, Others
    <2>5. Sending' /\ Asked'
      BY <2>1 DEF Sending, Asked, IdleWorker, IdleApi
    <2> QED
      BY <2>2, <2>4, <2>5, StillKeeps DEF Base
  <1> QED
    BY <1>1, Effects, BaseBackground, BaseWorking, BaseChain, BaseRecorded

(* The first layer holds in every reachable state. *)
LEMMA BaseHolds == SetSpec => []Base
  <1>1. Base /\ [Next]_setVars => Base'
    BY BaseStep
  <1> QED
    BY <1>1, InitBase, PTL DEF SetSpec

(* The state has its types in every reachable state. *)
THEOREM SetTypeCorrect == SetSpec => []SetTypeOK
  <1>1. Base => SetTypeOK
    <2> SUFFICES ASSUME Base PROVE SetTypeOK
      OBVIOUS
    <2>1. /\ GoodRow(job) /\ GoodRow(w.row) /\ GoodRow(api.row) /\ Len(cands) \in Nat
          /\ w.cand \in 0..Len(cands) /\ queue \subseteq Entries
          /\ submit \in Submits /\ chain \in ChainStatus /\ proof \in ChainStatus
          /\ undone \subseteq Undoings
      BY DEF Base, Types, WorkerOf, ApiOf
    <2> QED
      BY <2>1 DEF SetTypeOK, GoodRow, JobRow, Files, Submits, ChainStatus, Undoings
  <1> QED
    BY <1>1, BaseHolds, PTL

(* What the evaluator may still have mined is of one mind. *)
THEOREM SendsAgreeHolds == SetSpec => []SendsAgree
  <1>1. Base => SendsAgree
    BY DEF Base
  <1> QED
    BY <1>1, BaseHolds, PTL

(***************************************************************************)
(* The second layer, step by step.                                         *)
(***************************************************************************)
(* Only while nothing is in flight can the job still be open at the proof  *)
(* tag, or have been refunded by somebody else.                            *)
LEMMA InFlight ==
    ASSUME Types, ChainOK
    PROVE  /\ \A i \in Winners : i \in DOMAIN cands /\ ~Over(cands[i])
           /\ NoneInFlight => Winners = {} /\ proof \notin {"Completed", "Rejected"}
  <1>1. \A i \in Winners : i \in DOMAIN cands /\ ~Over(cands[i])
    BY DEF Winners, Over
  <1>2. NoneInFlight => Winners = {}
    BY <1>1 DEF NoneInFlight
  <1>3. proof \in {"Completed", "Rejected"} => Winners # {}
    BY DEF ChainOK, ChainEnd
  <1> QED
    BY <1>1, <1>2, <1>3

(* No move of the row, while the chain stands, parts it from the file and  *)
(* the decision of what is in flight, nor from what the proof tag shows.   *)
LEMMA RowKeeps ==
    ASSUME Base, Orderly, Still, RowMove
    PROVE  FilesOK' /\ DecisionsOK' /\ BooksFollowChain'
  <1>1. /\ Types /\ ChainOK /\ Tidy /\ Checked /\ FilesOK /\ DecisionsOK /\ BooksFollowChain
    BY DEF Base, Orderly
  <1>2. cands' = cands /\ proof' = proof
    BY DEF Still
  <1>3. \/ job'.onChain = job.onChain
        \/ proof \in ChainEnd /\ job'.onChain = FinalOf(proof)
        \/ job'.onChain \notin Final
    BY DEF RowMove
  <1>4. job'.onChain \in Final => proof \in ChainEnd /\ FinalOf(proof) = job'.onChain
    BY <1>1, <1>3 DEF BooksFollowChain
  <1>5. BooksFollowChain'
    <2>1. job'.status = "COMPLETED" => proof = "Completed"
      BY <1>1 DEF RowMove, BooksFollowChain
    <2>2. job'.status = "PAYMENT_FAILED" => proof \in {"Rejected", "Expired"}
      BY <1>1 DEF RowMove, BooksFollowChain
    <2> QED
      BY <1>2, <1>4, <2>1, <2>2 DEF BooksFollowChain
  <1>6. FilesOK'
    <2>1. job'.file # NoFile => proof # "Funded"
      BY <1>1 DEF RowMove, FilesOK, Tidy
    <2>2. ASSUME NEW i \in DOMAIN cands, ~Over(cands[i]), cands[i].act # "claimRefund",
                 proof # "Expired"
          PROVE  job'.file = cands[i].file
      <3>1. job.file = cands[i].file /\ ~NoneInFlight
        BY <1>1, <2>2 DEF FilesOK, NoneInFlight
      <3>2. \A k \in Winners : cands[k].act # "claimRefund" => job.file = cands[k].file
        BY <1>1, <2>2, InFlight DEF FilesOK
      <3> QED
        BY <2>2, <3>1, <3>2 DEF RowMove
    <2> QED
      BY <1>1, <1>2, <2>1, <2>2 DEF FilesOK
  <1>7. DecisionsOK'
    <2>1. CASE "claim" \in undone
      BY <2>1 DEF DecisionsOK, Still
    <2>2. CASE "claim" \notin undone /\ job'.contested = job.contested /\ job'.resolution = job.resolution
      BY <1>1, <1>2, <2>2 DEF DecisionsOK
    <2>3. CASE api.pc = "write" /\ Unmoved
      <3>1. NoneInFlight
        BY <1>1, <2>3 DEF Checked, Unmoved
      <3> QED
        BY <1>2, <3>1 DEF DecisionsOK, NoneInFlight
    <2> QED
      BY <2>1, <2>2, <2>3 DEF RowMove
  <1> QED
    BY <1>5, <1>6, <1>7

(* What the API found settled stays so until it writes. *)
LEMMA CheckedKept ==
    ASSUME Base, Checked, Still, RowMove, ApiMove
    PROVE  Checked'
  <1>1. Types /\ ChainOK /\ cands' = cands
    BY DEF Base, Still
  <1>2. NoneInFlight' = NoneInFlight
    BY <1>1 DEF NoneInFlight
  <1>3. CASE api' = api /\ api.pc = "write"
    <2>1. job'.settleTx \in {job.settleTx} \cup Winners
      BY DEF RowMove
    <2>2. api.row.settleTx \in Winners => api.row.settleTx # 0
      BY <1>1, WinnersAreCands DEF Types
    <2>3. api.row.settleTx \notin Winners
      BY <1>1, <1>3, <2>2, InFlight DEF Checked
    <2> QED
      BY <1>1, <1>2, <1>3, <2>1, <2>3 DEF Checked
  <1>4. CASE api'.pc # "write"
    BY <1>4 DEF Checked
  <1>5. CASE api'.row = api.row /\ NoneInFlight
    <2>1. api.row.settleTx # 0 => api.row.settleTx \in DOMAIN cands
      BY <1>1 DEF Types, ApiOf, GoodRow, JobRow
    <2> QED
      BY <1>1, <1>2, <1>5, <2>1 DEF Checked, NoneInFlight
  <1> QED
    BY <1>3, <1>4, <1>5 DEF ApiMove

(* A worker that is not at work leaves nothing to be tidied. *)
LEMMA TidyIdle ==
    ASSUME w'.pc \in {"idle", "read", "answer", "receipt", "book", "mirror", "finalize"}
    PROVE  Tidy'
  BY DEF Tidy, FileHeld, Holding, ClaimHeld

(* The second layer survives what is done around the worker, ... *)
LEMMA OrderlyBackground ==
    ASSUME Base, Orderly, Background
    PROVE  Orderly'
  <1>1. Tidy /\ Checked
    BY DEF Orderly
  <1>2. Still /\ RowMove /\ ClaimKept /\ w' = w /\ ApiMove /\ proof' = proof
    BY DEF Background, Still
  <1>3. Tidy'
    <2>1. (Settles <=> Settles') /\ Rates' = Rates /\ (ClaimHeld <=> ClaimHeld')
      BY <1>2 DEF Settles, Rates, Decision, ClaimHeld
    <2>2. FileHeld'
      <3>1. ASSUME ClaimHeld, proof # "Expired" PROVE job'.file = w.row.file
        BY <1>1, <1>2, <3>1 DEF Tidy, FileHeld, ClaimKept
      <3> QED
        BY <1>2, <2>1, <3>1 DEF FileHeld
    <2>3. Holding'
      <3>1. "claim" \in undone => "claim" \in undone'
        BY <1>2 DEF Still
      <3> QED
        BY <1>1, <1>2, <2>1, <3>1 DEF Tidy, Holding, ClaimKept
    <2> QED
      BY <1>1, <1>2, <2>1, <2>2, <2>3 DEF Tidy, ClaimKept
  <1> QED
    BY <1>1, <1>2, <1>3, RowKeeps, CheckedKept DEF Orderly

(* ... and what the chain does. *)
LEMMA OrderlyChain ==
    ASSUME Base, Orderly, ChainMove
    PROVE  Orderly'
  <1>1. /\ Types /\ ChainOK /\ Tidy /\ Checked /\ FilesOK /\ DecisionsOK /\ BooksFollowChain
    BY DEF Base, Orderly
  <1>2. job' = job /\ w' = w /\ api' = api /\ undone' = undone
    BY DEF ChainMove, procVars
  <1>3. DOMAIN cands' = DOMAIN cands
    BY <1>1, WinnersAreCands DEF ChainMove, Types
  <1>4. \A i \in DOMAIN cands :
            /\ cands'[i].act = cands[i].act /\ cands'[i].file = cands[i].file
            /\ Over(cands[i]) => Over(cands'[i])
    BY DEF ChainMove, Calldata, Over
  <1>5. /\ proof \in ChainEnd => proof' = proof
        /\ proof # "Funded" => proof' # "Funded"
    BY DEF ChainMove
  <1>6. Tidy'
    <2>1. (Settles <=> Settles') /\ Rates' = Rates /\ (ClaimHeld <=> ClaimHeld')
      BY <1>2 DEF Settles, Rates, Decision, ClaimHeld
    <2>2. proof = "Expired" => proof' = "Expired"
      BY <1>5 DEF ChainEnd
    <2>3. FileHeld' /\ Holding'
      BY <1>1, <1>2, <2>1, <2>2 DEF Tidy, FileHeld, Holding
    <2> QED
      BY <1>1, <1>2, <1>5, <2>1, <2>3 DEF Tidy
  <1>7. Checked'
    <2>1. NoneInFlight => NoneInFlight'
      BY <1>3, <1>4 DEF NoneInFlight
    <2>2. api.row.settleTx # 0 => api.row.settleTx \in DOMAIN cands
      BY <1>1 DEF Types, ApiOf, GoodRow, JobRow
    <2> QED
      BY <1>1, <1>2, <1>4, <2>1, <2>2 DEF Checked
  <1>8. FilesOK'
    BY <1>1, <1>2, <1>3, <1>4, <1>5 DEF FilesOK, ChainEnd
  <1>9. DecisionsOK'
    BY <1>1, <1>2, <1>3, <1>4 DEF DecisionsOK
  <1>10. BooksFollowChain'
    BY <1>1, <1>2, <1>5 DEF BooksFollowChain, ChainEnd
  <1> QED
    BY <1>6, <1>7, <1>8, <1>9, <1>10 DEF Orderly

(* What the worker turns to next is in order. *)
LEMMA TidyRead ==
    ASSUME Base, Orderly, Working, ReadTerminal \/ ReadSettle \/ ReadReject \/ ReadRefund
    PROVE  Tidy'
  <1>1. Types /\ ChainOK /\ Tidy /\ FilesOK /\ proof' = proof
    BY DEF Base, Orderly, Working, Still
  <1>2. w.pc = "read"
    BY DEF ReadTerminal, ReadSettle, ReadReject, ReadRefund, Busy
  <1>4. \/ Goto("mirror") \/ Done \/ Throw
        \/ Goto("claim") /\ Settles /\ chain = "Submitted"
        \/ Goto("gate") /\ w.act = "reject" /\ chain = "Funded" /\ job' = job
        \/ Goto("gate") /\ w.act = "claimRefund"
    BY DEF ReadTerminal, ReadSettle, ReadReject, ReadRefund
  <1>5. CASE Goto("mirror") \/ Done \/ Throw
    <2>1. w'.pc \in {"mirror", "idle"}
      BY <1>1, <1>5, GotoMoves, DoneMoves, ThrowMoves DEF Pcs
    <2> QED
      BY <2>1, TidyIdle
  <1>6. CASE Goto("claim") /\ Settles /\ chain = "Submitted"
    <2>1. w'.pc = "claim" /\ w'.act = w.act
      BY <1>1, <1>6, GotoMoves DEF Pcs
    <2>2. Settles' /\ proof # "Funded"
      BY <1>1, <1>6, <2>1, Undecided DEF Settles, ChainEnd
    <2> QED
      BY <1>1, <2>1, <2>2 DEF Tidy, FileHeld, Holding, ClaimHeld
  <1>7. CASE Goto("gate") /\ w.act = "reject" /\ chain = "Funded" /\ job' = job
    <2>1. w'.pc = "gate" /\ w'.act = w.act
      BY <1>1, <1>7, GotoMoves DEF Pcs
    <2>2. ~Settles' /\ job'.file = NoFile
      BY <1>1, <1>7, <2>1, Undecided DEF Settles, ChainEnd, FilesOK
    <2> QED
      BY <2>1, <2>2 DEF Tidy, FileHeld, Holding, ClaimHeld
  <1>8. CASE Goto("gate") /\ w.act = "claimRefund"
    <2>1. w'.pc = "gate" /\ w'.act = w.act
      BY <1>1, <1>8, GotoMoves DEF Pcs
    <2>2. ~Settles' /\ w'.act # "reject"
      BY <1>8, <2>1 DEF Settles
    <2> QED
      BY <2>1, <2>2 DEF Tidy, FileHeld, Holding, ClaimHeld
  <1> QED
    BY <1>4, <1>5, <1>6, <1>7, <1>8

(* A claim that was won, and its feedback file, are in order. *)
LEMMA TidyClaim ==
    ASSUME Base, Orderly, Working, Claim \/ File
    PROVE  Tidy'
  <1>1. /\ Types /\ Tidy /\ proof' = proof /\ job \in JobRow
        /\ w \in [pc : Pcs, act : Entries, row : JobRow, cand : Nat]
    BY DEF Base, Orderly, Working, Still, Types, WorkerOf, GoodRow
  <1>2. w.pc \in {"claim", "file"} /\ Settles /\ proof # "Funded"
    BY <1>1 DEF Claim, File, Busy, Tidy
  <1>3. "claim" \in undone => "claim" \in undone'
    BY DEF Working, Still
  <1>4. CASE Throw \/ Done
    <2>1. w'.pc = "idle"
      BY <1>1, <1>4, DoneMoves, ThrowMoves
    <2> QED
      BY <2>1, TidyIdle
  <1>5. CASE Claim /\ Claimable(job)
    <2> DEFINE claimed == [job EXCEPT !.onChain = "SETTLING"]
    <2>1. job' = claimed /\ w' = [w EXCEPT !.pc = "file", !.row = claimed]
      BY <1>5 DEF Claim
    <2>2. /\ claimed.onChain = "SETTLING" /\ claimed.contested = job.contested
          /\ claimed.resolution = job.resolution
      BY <1>1 DEF JobRow
    <2> HIDE DEF claimed
    <2>3. w'.pc = "file" /\ w'.act = w.act /\ w'.row = job'
      BY <1>1, <2>1
    <2>4. job'.onChain = "SETTLING" /\ (job'.resolution = "none" => ~job'.contested)
      BY <1>5, <2>1, <2>2 DEF Claimable
    <2>5. Settles'
      BY <1>2, <2>3 DEF Settles
    <2>6. Holding' /\ FileHeld'
      BY <2>3, <2>4 DEF Holding, FileHeld
    <2> QED
      BY <1>1, <1>2, <2>3, <2>5, <2>6 DEF Tidy
  <1>6. CASE File /\ w.row.file.for = Rates /\ Goto("gate") /\ job' = job
    <2>1. w'.pc = "gate" /\ w'.act = w.act /\ w'.row = w.row /\ w.pc = "file"
      BY <1>1, <1>6, GotoMoves DEF Pcs, File, Busy
    <2>2. Settles' /\ Rates' = Rates /\ w'.act # "reject"
      BY <1>2, <2>1 DEF Settles, Rates, Decision
    <2>3. Holding' /\ FileHeld'
      BY <1>1, <1>2, <1>3, <1>6, <2>1 DEF Tidy, Holding, FileHeld, ClaimHeld
    <2> QED
      BY <1>6, <2>1, <2>2, <2>3 DEF Tidy
  <1>7. CASE File /\ w.row.file.for # Rates /\ FileMutable /\ w'.pc = "gate"
    <2> DEFINE f == IF Rates = "nothing" THEN NoFile ELSE [for |-> Rates, at |-> Len(cands)]
               row == [w.row EXCEPT !.file = f]
    <2>1. job' = [job EXCEPT !.file = f] /\ w' = [w EXCEPT !.pc = "gate", !.row.file = f]
          /\ w.pc = "file"
      BY <1>7 DEF File, Throw, Done, IdleWorker, Busy
    <2>2. f.for = Rates
      BY DEF NoFile
    <2> HIDE DEF f
    <2>3. w' = [w EXCEPT !.pc = "gate", !.row = row]
      BY <1>1, <2>1
    <2>4. /\ row.file = f /\ row.contested = w.row.contested
          /\ row.resolution = w.row.resolution
      BY <1>1 DEF JobRow
    <2>5. /\ job'.file = f /\ job'.contested = job.contested /\ job'.onChain = job.onChain
          /\ job'.resolution = job.resolution
      BY <1>1, <2>1 DEF JobRow
    <2> HIDE DEF row
    <2>6. w'.pc = "gate" /\ w'.act = w.act /\ w'.row = row
      BY <1>1, <2>3
    <2>7. Settles' /\ Rates' = Rates /\ w'.act # "reject"
      BY <1>2, <2>4, <2>6 DEF Settles, Rates, Decision
    <2>8. FileHeld'
      BY <2>4, <2>5, <2>6 DEF FileHeld
    <2>9. Holding'
      BY <1>1, <1>2, <1>3, <2>1, <2>4, <2>5, <2>6 DEF Tidy, Holding, ClaimHeld
    <2> QED
      BY <2>2, <2>4, <2>6, <2>7, <2>8, <2>9 DEF Tidy
  <1>8. \/ Throw \/ Done \/ (Claim /\ Claimable(job))
        \/ File /\ w.row.file.for = Rates /\ Goto("gate") /\ job' = job
        \/ File /\ w.row.file.for # Rates /\ FileMutable /\ w'.pc = "gate"
    BY <1>1 DEF Claim, File
  <1> QED
    BY <1>4, <1>5, <1>6, <1>7, <1>8

(* Whatever the worker turns to, what it relies on is in order. *)
LEMMA TidyTurn ==
    ASSUME Base, Orderly, Working, Turn
    PROVE  Tidy'
  <1>1. Types /\ Tidy /\ proof' = proof
    BY DEF Base, Orderly, Working, Still
  <1>2. CASE \E a \in Entries : Take(a)
    <2>1. w'.pc = "read"
      BY <1>2 DEF Take
    <2> QED
      BY <2>1, TidyIdle
  <1>3. CASE \/ Unreadable \/ Defer \/ Answer \/ Receipt \/ Book \/ MirrorRow \/ Finalize
             \/ Record /\ ~Recordable
    <2>1. \/ Throw \/ Done \/ Goto("receipt") \/ Goto("book") \/ Goto("mirror")
          \/ Goto("finalize")
      BY <1>3 DEF Unreadable, Defer, Retried, Answer, Receipt, Book, MirrorRow, Finalize, Record
    <2>2. w'.pc \in {"idle", "receipt", "book", "mirror", "finalize"}
      BY <1>1, <2>1, GotoMoves, DoneMoves, ThrowMoves DEF Pcs
    <2> QED
      BY <2>2, TidyIdle
  <1>4. CASE Gate
    <2>1. w.pc = "gate" /\ job' = job /\ undone' = undone /\ (Goto("record") \/ Throw)
      BY <1>4 DEF Gate, Busy, boundVars
    <2>2. CASE Throw
      <3>1. w'.pc = "idle"
        BY <1>1, <2>2, ThrowMoves
      <3> QED
        BY <3>1, TidyIdle
    <2>3. CASE Goto("record")
      <3>1. w'.pc = "record" /\ w'.act = w.act /\ w'.row = w.row
        BY <1>1, <2>3, GotoMoves DEF Pcs
      <3>2. (Settles <=> Settles') /\ Rates' = Rates
        BY <3>1 DEF Settles, Rates, Decision
      <3>3. Holding' /\ FileHeld'
        BY <1>1, <2>1, <3>1, <3>2 DEF Tidy, Holding, FileHeld, ClaimHeld
      <3> QED
        BY <1>1, <2>1, <3>1, <3>2, <3>3 DEF Tidy
    <2> QED
      BY <2>1, <2>2, <2>3
  <1> QED
    BY <1>2, <1>3, <1>4, TidyRead, TidyClaim DEF Turn

(* The second layer survives the worker, ... *)
LEMMA OrderlyWorking ==
    ASSUME Base, Orderly, Working, Turn
    PROVE  Orderly'
  <1>1. Checked /\ Still /\ RowMove /\ ApiMove
    BY DEF Orderly, Working, ApiMove
  <1> QED
    BY <1>1, TidyTurn, RowKeeps, CheckedKept DEF Orderly

(* What is recorded carries the row's own file and decision. *)
LEMMA OrderlyRecorded ==
    ASSUME Base, Orderly, Recorded
    PROVE  Orderly'
  <1>1. /\ Types /\ Tidy /\ Checked /\ FilesOK /\ DecisionsOK /\ BooksFollowChain
    BY DEF Base, Orderly
  <1>2. PICK c \in Cand, n \in Nat :
              /\ Calldata(c) = Call /\ c.fate = "live" /\ ~c.proven /\ n = Len(cands) + 1
              /\ cands' \in Seq(Cand) /\ Len(cands') = n /\ cands'[n] = c
              /\ DOMAIN cands' = DOMAIN cands \cup {n} /\ n \notin DOMAIN cands
              /\ \A i \in DOMAIN cands : cands'[i] = cands[i]
              /\ Winners' = Winners
    BY <1>1, RecordedList
  <1>3. /\ w.pc = "record" /\ proof' = proof /\ api' = api /\ undone' = undone /\ Recordable
        /\ w' = [w EXCEPT !.pc = "answer", !.cand = n]
        /\ job' = [job EXCEPT !.settleTx = n, !.stamp = TRUE]
    BY <1>2 DEF Recorded
  <1>4. /\ w \in [pc : Pcs, act : Entries, row : JobRow, cand : Nat]
        /\ job \in JobRow /\ Len(cands) \in Nat /\ api.row \in JobRow /\ GoodRow(api.row)
    BY <1>1 DEF Types, WorkerOf, GoodRow, ApiOf
  <1>5. /\ job'.settleTx = n /\ job'.onChain = job.onChain /\ job'.status = job.status
        /\ job'.contested = job.contested /\ job'.resolution = job.resolution
        /\ job'.file = job.file
    BY <1>3, <1>4 DEF JobRow
  <1>6. c.act = Call.act /\ c.file = Call.file
    BY <1>2 DEF Calldata, Call
  <1>7. /\ c.act = "pay" => c.file.for = "completed"
        /\ c.act # "claimRefund" => job.file = c.file \/ proof = "Expired"
        /\ \/ "claim" \in undone
           \/ /\ c.act = "pay" =>
                    job.resolution = "pay" \/ (job.resolution = "none" /\ ~job.contested)
              /\ c.act \in {"refund", "quality"} => job.resolution = c.act
    <2>1. CASE Settles
      <3>1. /\ job.file = w.row.file \/ proof = "Expired"
            /\ w.row.file.for = Rates
            /\ \/ "claim" \in undone
               \/ /\ job.resolution = w.row.resolution
                  /\ w.row.resolution = "none" => ~job.contested
        BY <1>1, <1>3, <2>1 DEF Tidy, FileHeld, Holding, ClaimHeld
      <3>2. c.act = Decision /\ c.file = w.row.file
        BY <1>6, <2>1 DEF Call, Settles
      <3> QED
        BY <3>1, <3>2 DEF Decision, Rates
    <2>2. CASE ~Settles
      <3>1. c.act = (IF w.act = "reject" THEN "unwind" ELSE w.act) /\ c.file = NoFile
        BY <1>6, <2>2 DEF Call, Settles
      <3>2. w.act \in {"reject", "claimRefund"}
        BY <1>4, <2>2 DEF Settles, Entries
      <3>3. w.act = "reject" => job.file = NoFile
        BY <1>1, <1>3 DEF Tidy
      <3> QED
        BY <3>1, <3>2, <3>3
    <2> QED
      BY <2>1, <2>2
  <1>8. Tidy'
    <2>1. w'.pc = "answer"
      BY <1>3, <1>4
    <2> QED
      BY <2>1, TidyIdle
  <1>9. Checked'
    <2>1. api.row.settleTx \in Nat /\ api.row.settleTx <= Len(cands)
      BY <1>4 DEF GoodRow, JobRow
    <2>2. api.row.settleTx # 0 => api.row.settleTx \in DOMAIN cands
      BY <1>1, <2>1 DEF Types
    <2>3. n # api.row.settleTx
      BY <1>2, <1>4, <2>1
    <2> QED
      BY <1>1, <1>2, <1>3, <1>5, <2>2, <2>3 DEF Checked
  <1>10. FilesOK'
    <2>1. job'.file # NoFile => proof' # "Funded"
      BY <1>1, <1>3, <1>5 DEF FilesOK
    <2>2. ASSUME NEW i \in DOMAIN cands'
          PROVE  /\ cands'[i].act = "pay" => cands'[i].file.for = "completed"
                 /\ ~Over(cands'[i]) /\ cands'[i].act # "claimRefund" =>
                       job'.file = cands'[i].file \/ proof' = "Expired"
      <3>1. CASE i = n
        BY <1>2, <1>3, <1>5, <1>7, <3>1
      <3>2. CASE i \in DOMAIN cands
        BY <1>1, <1>2, <1>3, <1>5, <3>2 DEF FilesOK
      <3> QED
        BY <1>2, <3>1, <3>2
    <2> QED
      BY <2>1, <2>2 DEF FilesOK
  <1>11. DecisionsOK'
    BY <1>1, <1>2, <1>3, <1>5, <1>7 DEF DecisionsOK
  <1>12. BooksFollowChain'
    BY <1>1, <1>3, <1>5 DEF BooksFollowChain
  <1> QED
    BY <1>8, <1>9, <1>10, <1>11, <1>12 DEF Orderly

(* A crash forgets who was at work, and leaves the rest. *)
LEMMA OrderlyCrash ==
    ASSUME Base, Orderly, Crash
    PROVE  Orderly'
  <1>1. /\ w' = IdleWorker /\ api' = IdleApi /\ failing' = NoFailure
        /\ UNCHANGED <<job, cands, chainVars, undone>>
    BY DEF Crash, boundVars
  <1>2. Tidy'
    BY <1>1, TidyIdle DEF IdleWorker
  <1>3. Checked'
    BY <1>1 DEF Checked, IdleApi
  <1>4. /\ job' = job /\ cands' = cands /\ proof' = proof
        /\ FilesOK /\ DecisionsOK /\ BooksFollowChain
    BY <1>1 DEF Orderly, chainVars
  <1>5. FilesOK'
    BY <1>4 DEF FilesOK
  <1>6. DecisionsOK'
    BY <1>1, <1>4 DEF DecisionsOK
  <1>7. BooksFollowChain'
    BY <1>4 DEF BooksFollowChain
  <1> QED
    BY <1>2, <1>3, <1>5, <1>6, <1>7 DEF Orderly

(* The second layer holds at first, ... *)
LEMMA InitOrderly == Init => Orderly
  <1> SUFFICES ASSUME Init PROVE Orderly
    OBVIOUS
  <1>1. /\ w = IdleWorker /\ api = IdleApi /\ failing = NoFailure /\ job = NoRow
        /\ cands = <<>> /\ DOMAIN cands = {}
    BY DEF Init
  <1>2. Tidy /\ Checked
    BY <1>1 DEF Tidy, FileHeld, Holding, ClaimHeld, Checked, IdleWorker, IdleApi
  <1>3. FilesOK /\ DecisionsOK
    BY <1>1 DEF FilesOK, DecisionsOK, NoRow
  <1>4. BooksFollowChain
    BY <1>1 DEF BooksFollowChain, NoRow, Final
  <1> QED
    BY <1>2, <1>3, <1>4 DEF Orderly

(* ... survives every step, ... *)
LEMMA OrderlyStep ==
    ASSUME Base, Orderly, [Next]_setVars
    PROVE  Orderly'
  BY Effects, OrderlyBackground, OrderlyWorking, OrderlyChain, OrderlyRecorded, OrderlyCrash

(* ... and so holds, with the first, in every reachable state. *)
LEMMA OrderlyHolds == SetSpec => [](Base /\ Orderly)
  <1>1. Init => Base /\ Orderly
    BY InitBase, InitOrderly
  <1>2. Base /\ Orderly /\ [Next]_setVars => (Base /\ Orderly)'
    BY BaseStep, OrderlyStep
  <1> QED
    BY <1>1, <1>2, PTL DEF SetSpec

(* The row never shows an outcome the chain can still take back: whoever   *)
(* wrote it, from whatever snapshot, the failed handler's included.        *)
THEOREM BooksFollow == SetSpec => []BooksFollowChain
  <1>1. Base /\ Orderly => BooksFollowChain
    BY DEF Orderly
  <1> QED
    BY <1>1, OrderlyHolds, PTL

(* The feedback file served as committed is the one that was hashed into   *)
(* the settlement that was mined, however late the failed handler writes.  *)
THEOREM FileIsCommittedHolds == SetSpec => []FileIsCommitted
  <1>1. Base /\ Orderly => FileIsCommitted
    <2> SUFFICES ASSUME Base, Orderly PROVE FileIsCommitted
      OBVIOUS
    <2>1. Types /\ ChainOK /\ FilesOK /\ BooksFollowChain
      BY DEF Base, Orderly
    <2>2. \A i \in Winners : /\ i \in DOMAIN cands /\ ~Over(cands[i]) /\ cands[i] \in Cand
                             /\ chain = EffectOf(cands[i].act)
      BY <2>1, InFlight, WinnersAreCands DEF Types, ChainOK
    <2>3. ASSUME job.onChain \in {"COMPLETED", "REJECTED"}
          PROVE  chain = proof /\ proof \in {"Completed", "Rejected"}
      BY <2>1, <2>3 DEF BooksFollowChain, Final, FinalOf, ChainEnd, ChainOK
    <2>4. ASSUME job.onChain \in {"COMPLETED", "REJECTED"}, NEW i \in Winners
          PROVE  job.file = cands[i].file
      <3>1. cands[i].act # "claimRefund"
        BY <2>2, <2>3, <2>4 DEF EffectOf
      <3> QED
        BY <2>1, <2>2, <2>3, <2>4, <3>1 DEF FilesOK
    <2>5. ASSUME job.onChain = "COMPLETED" PROVE job.file # NoFile
      <3>1. proof = "Completed" /\ chain = "Completed"
        BY <2>1, <2>3, <2>5 DEF BooksFollowChain, Final, FinalOf, ChainEnd
      <3>2. PICK i \in Winners : TRUE
        BY <2>1, <3>1 DEF ChainOK
      <3>3. cands[i].act = "pay"
        BY <2>2, <3>1 DEF EffectOf
      <3>4. cands[i].file.for = "completed" /\ job.file = cands[i].file
        BY <2>1, <2>2, <2>4, <2>5, <3>3 DEF FilesOK
      <3> QED
        BY <3>4 DEF NoFile
    <2> QED
      BY <2>4, <2>5 DEF FileIsCommitted
  <1> QED
    BY <1>1, OrderlyHolds, PTL

(***************************************************************************)
(* The settlement keeps the promises of JobReview.                         *)
(***************************************************************************)
(* Whether a refund of a cancelled job was sent. *)
Unwound == \E i \in DOMAIN cands : cands[i].act = "unwind"

Promised == <<Outcome, job.contested, job.resolution, Unwound, clock = "expired">>

(* Outcome looks at nothing but the proof tag and the winner. *)
LEMMA SameOutcome ==
    ASSUME proof' = proof, proof = "Rejected" => Winners' = Winners,
           \A i \in Winners : cands'[i].act = cands[i].act
    PROVE  Outcome' = Outcome
  <1>1. proof = "Rejected" =>
          ((\E i \in Winners : cands[i].act = "quality") <=> (\E i \in Winners' : cands'[i].act = "quality"))
    OBVIOUS
  <1> QED
    BY <1>1 DEF Outcome, ChainEnd

(* The requester and the operator are only heard while nothing is in flight *)
(* and the proof tag shows no settlement of the backend.                    *)
LEMMA HeardStep ==
    ASSUME Base, Orderly, Still, RowMove
    PROVE  \/ UNCHANGED Promised
           \/ Promise!Contest
           \/ \E d \in Promise!Decisions : Promise!Decide(d)
  <1>1. Types /\ ChainOK /\ Checked
    BY DEF Base, Orderly
  <1>2. cands' = cands /\ proof' = proof /\ clock' = clock /\ Unwound' = Unwound
    BY DEF Still, Unwound
  <1>3. Outcome' = Outcome
    BY <1>2, SameOutcome DEF Winners
  <1>4. CASE job'.contested = job.contested /\ job'.resolution = job.resolution
    BY <1>2, <1>3, <1>4 DEF Promised
  <1>5. CASE /\ api.pc = "write" /\ Unmoved
             /\ \/ job'.contested = job.contested /\ job'.resolution \in Decisions
                \/ job'.contested /\ ~job.contested /\ job'.resolution = job.resolution
    <2>1. NoneInFlight
      BY <1>1, <1>5 DEF Checked, Unmoved
    <2>2. proof \notin {"Completed", "Rejected"}
      BY <1>1, <2>1, InFlight
    <2>3. Promise!Heard
      BY <2>2 DEF Promise!Heard, Outcome, ChainEnd
    <2>4. CASE job'.contested = job.contested /\ job'.resolution \in Decisions
      <3>1. job'.resolution \in Promise!Decisions
        BY <2>4 DEF Decisions, Promise!Decisions
      <3>2. Promise!Decide(job'.resolution)
        BY <1>2, <1>3, <2>3, <2>4 DEF Promise!Decide, Unwound
      <3> QED
        BY <3>1, <3>2
    <2>5. CASE job'.contested /\ ~job.contested /\ job'.resolution = job.resolution
      <3>1. job \in JobRow /\ job' \in JobRow
        BY <1>1 DEF Types, RowMove, GoodRow
      <3>2. job'.contested = TRUE
        BY <2>5, <3>1 DEF JobRow
      <3> QED
        BY <1>2, <1>3, <2>3, <2>5, <3>2 DEF Promise!Contest, Unwound
    <2> QED
      BY <1>5, <2>4, <2>5
  <1> QED
    BY <1>4, <1>5 DEF RowMove

(* A refund of a cancelled job is sent while nothing else is in flight. *)
LEMMA WithdrawStep ==
    ASSUME Base, Recorded
    PROVE  UNCHANGED Promised \/ Promise!Withdraw
  <1>1. Types /\ ChainOK /\ Sending
    BY DEF Base
  <1>2. PICK c \in Cand, n \in Nat :
              /\ Calldata(c) = Call /\ c.fate = "live" /\ ~c.proven /\ n = Len(cands) + 1
              /\ cands' \in Seq(Cand) /\ Len(cands') = n /\ cands'[n] = c
              /\ DOMAIN cands' = DOMAIN cands \cup {n} /\ n \notin DOMAIN cands
              /\ \A i \in DOMAIN cands : cands'[i] = cands[i]
              /\ Winners' = Winners
    BY <1>1, RecordedList
  <1>3. /\ w.pc = "record" /\ proof' = proof /\ clock' = clock
        /\ job' = [job EXCEPT !.settleTx = n, !.stamp = TRUE] /\ job \in JobRow
    BY <1>1, <1>2 DEF Recorded, Types, GoodRow
  <1>4. job'.contested = job.contested /\ job'.resolution = job.resolution
    BY <1>3 DEF JobRow
  <1>5. Outcome' = Outcome
    <2>1. \A i \in Winners : cands'[i].act = cands[i].act
      BY <1>2 DEF Winners
    <2> QED
      BY <1>2, <1>3, <2>1, SameOutcome
  <1>6. Unwound' <=> Unwound \/ c.act = "unwind"
    BY <1>2 DEF Unwound
  <1>7. CASE Unwound' = Unwound
    BY <1>3, <1>4, <1>5, <1>7 DEF Promised
  <1>8. CASE ~Unwound /\ c.act = "unwind"
    <2>1. NoneInFlight
      <3>1. ASSUME NEW i \in DOMAIN cands PROVE Over(cands[i])
        <4>1. cands[i].act # c.act
          BY <1>8 DEF Unwound
        <4>2. Calldata(cands[i]) # Calldata(c)
          BY <4>1 DEF Calldata
        <4> QED
          BY <1>1, <1>2, <1>3, <4>2 DEF Sending
      <3> QED
        BY <3>1 DEF NoneInFlight
    <2>2. proof \notin {"Completed", "Rejected"}
      BY <1>1, <2>1, InFlight
    <2>3. Promise!Heard
      BY <2>2 DEF Promise!Heard, Outcome, ChainEnd
    <2>4. Unwound' = TRUE
      BY <1>6, <1>8 DEF Unwound
    <2> QED
      BY <1>3, <1>4, <1>5, <2>3, <2>4 DEF Promise!Withdraw, Unwound
  <1>9. Unwound \in BOOLEAN /\ Unwound' \in BOOLEAN
    BY DEF Unwound
  <1> QED
    BY <1>6, <1>7, <1>8, <1>9

(* What the proof tag comes to show is what was asked for last, as long as *)
(* no claim was undone.                                                    *)
LEMMA SettleStep ==
    ASSUME Base, Orderly, "claim" \notin undone, ChainMove, ChainOK'
    PROVE  UNCHANGED Promised \/ Promise!MeetDeadline \/ Promise!Settle
  <1>1. Types /\ ChainOK /\ DecisionsOK /\ job' = job
    BY DEF Base, Orderly, ChainMove
  <1>2. DOMAIN cands' = DOMAIN cands
    BY <1>1, WinnersAreCands DEF ChainMove, Types
  <1>3. \A i \in DOMAIN cands : /\ cands'[i].act = cands[i].act
                                /\ cands[i].proven => cands'[i] = cands[i]
    BY DEF ChainMove, Calldata
  <1>4. Unwound' = Unwound
    BY <1>2, <1>3 DEF Unwound
  <1>5. \A i \in Winners : i \in DOMAIN cands
    BY DEF Winners
  <1>6. CASE proof' = proof
    <2>1. ASSUME proof = "Rejected" PROVE Winners' = Winners
      <3>1. chain = "Rejected" /\ Winners # {}
        BY <1>1, <2>1 DEF ChainOK, ChainEnd
      <3>2. PICK k \in Winners : TRUE
        BY <3>1
      <3>3. \A i \in Winners : i = k
        BY <1>1, <3>2 DEF ChainOK
      <3>4. k \in Winners'
        <4>1. k \in DOMAIN cands /\ cands[k].fate = "won" /\ cands[k].proven
          BY <1>1, <2>1, <3>2 DEF ChainOK, ChainEnd, Winners
        <4> QED
          BY <1>2, <1>3, <4>1 DEF Winners
      <3>5. \A i \in Winners' : i = k
        BY <3>4 DEF ChainOK
      <3> QED
        BY <3>2, <3>3, <3>4, <3>5
    <2>2. Outcome' = Outcome
      BY <1>3, <1>5, <1>6, <2>1, SameOutcome
    <2>3. CASE clock' = clock
      BY <1>1, <1>4, <2>2, <2>3 DEF Promised
    <2>4. CASE clock' # clock
      <3>1. CASE clock' = "expired"
        BY <1>1, <1>4, <2>2, <3>1 DEF Promise!MeetDeadline, Unwound
      <3>2. CASE clock' # "expired"
        <4>1. (clock' = "expired") = (clock = "expired")
          BY <2>4, <3>2 DEF ChainMove
        <4> QED
          BY <1>1, <1>4, <2>2, <4>1 DEF Promised
      <3> QED
        BY <3>1, <3>2
    <2> QED
      BY <2>3, <2>4
  <1>7. CASE proof' # proof
    <2>1. proof' = chain' /\ clock' = clock /\ proof \notin ChainEnd /\ Outcome = "open"
      BY <1>7 DEF ChainMove, Outcome, ChainEnd
    <2>2. UNCHANGED <<job.contested, job.resolution, Unwound, clock = "expired">>
      BY <1>1, <1>4, <2>1
    <2>3. CASE proof' \notin ChainEnd
      <3>1. Outcome' = "open"
        BY <2>3 DEF Outcome, ChainEnd
      <3> QED
        BY <2>1, <2>2, <3>1 DEF Promised
    <2>4. ASSUME NEW i \in Winners'
          PROVE  /\ i \in DOMAIN cands /\ proof' = EffectOf(cands[i].act) /\ ~Over(cands[i])
                 /\ cands[i] \in Cand
      <3>1. i \in DOMAIN cands /\ cands'[i].fate = "won"
        BY <1>2, <2>4 DEF Winners
      <3>2. ~Over(cands[i])
        BY <1>3, <3>1 DEF Over
      <3>3. cands[i] \in Cand
        BY <1>1, <3>1, WinnersAreCands DEF Types
      <3> QED
        BY <1>3, <2>1, <2>4, <3>1, <3>2, <3>3 DEF ChainOK
    <2>5. CASE proof' = "Expired"
      <3>1. clock = "expired" /\ Outcome' = "expired"
        BY <2>1, <2>5 DEF ChainOK, Outcome, ChainEnd
      <3> QED
        BY <2>1, <2>2, <3>1 DEF Promise!Settle, Unwound
    <2>6. CASE proof' \in {"Completed", "Rejected"}
      <3>1. PICK i \in Winners' : TRUE
        BY <2>1, <2>6 DEF ChainOK
      <3>2. \A k \in Winners' : k = i
        BY <3>1 DEF ChainOK
      <3>3. /\ proof' = EffectOf(cands[i].act) /\ ~Over(cands[i]) /\ i \in DOMAIN cands
            /\ cands'[i].act = cands[i].act /\ cands[i].act \in Acts
        BY <1>3, <2>4, <3>1 DEF Cand
      <3>4. CASE proof' = "Completed"
        <4>1. cands[i].act = "pay" /\ Outcome' = "paid"
          BY <3>3, <3>4 DEF EffectOf, Outcome, ChainEnd
        <4>2. job.resolution = "pay" \/ (job.resolution = "none" /\ ~job.contested)
          BY <1>1, <3>3, <4>1 DEF DecisionsOK
        <4> QED
          BY <2>1, <2>2, <4>1, <4>2 DEF Promise!Settle, Unwound
      <3>5. CASE proof' = "Rejected"
        <4>1. cands[i].act \in {"refund", "quality", "unwind"}
          BY <3>3, <3>5 DEF EffectOf, Acts, Decisions
        <4>2. Outcome' = IF cands[i].act = "quality" THEN "condemned" ELSE "refunded"
          <5>1. (\E k \in Winners' : cands'[k].act = "quality") <=> cands[i].act = "quality"
            BY <3>1, <3>2, <3>3
          <5> QED
            BY <3>5, <5>1 DEF Outcome, ChainEnd
        <4>3. cands[i].act \in {"refund", "quality"} => job.resolution = cands[i].act
          BY <1>1, <3>3 DEF DecisionsOK
        <4>4. cands[i].act = "unwind" => Unwound
          BY <3>3 DEF Unwound
        <4> QED
          BY <2>1, <2>2, <4>1, <4>2, <4>3, <4>4 DEF Promise!Settle, Unwound
      <3> QED
        BY <2>6, <3>4, <3>5
    <2> QED
      BY <2>3, <2>5, <2>6 DEF ChainEnd
  <1> QED
    BY <1>6, <1>7

(* The settlement implements JobReview: whatever the worker, the API, the  *)
(* recovery and the chain do in whatever order, the budget is paid, kept   *)
(* or refunded as nobody contested, as the operator last decided, as the   *)
(* cancelled job was withdrawn, or because the deadline has passed; until  *)
(* a late write of the failed handler takes a claim away from the worker.  *)
THEOREM SettlementKeepsPromise == SetSpec => ReviewIsObeyed
  <1>1. Init => Promise!ReviewInit
    BY DEF Init, NoRow, Promise!ReviewInit, Outcome, ChainEnd
  <1>2. Base /\ Orderly /\ [Next]_setVars =>
            [Promise!ReviewNext \/ "claim" \in undone]_(Promise!reviewVars)
    <2> SUFFICES ASSUME Base, Orderly, [Next]_setVars, "claim" \notin undone
                 PROVE  UNCHANGED Promised \/ Promise!ReviewNext
      BY DEF Promised, Unwound, Promise!reviewVars
    <2>1. CASE Background
      BY <2>1, HeardStep DEF Background, Promise!ReviewNext
    <2>2. CASE Working
      BY <2>2, HeardStep DEF Working, Promise!ReviewNext
    <2>3. CASE ChainMove /\ ChainOK'
      BY <2>3, SettleStep DEF Promise!ReviewNext
    <2>4. CASE Recorded
      BY <2>4, WithdrawStep DEF Promise!ReviewNext
    <2>5. CASE Crash
      <3>1. /\ job' = job /\ cands' = cands /\ proof' = proof /\ clock' = clock
        BY <2>5 DEF Crash, chainVars, boundVars
      <3> QED
        BY <3>1 DEF Promised, Outcome, Winners, Unwound
    <2> QED
      BY <2>1, <2>2, <2>3, <2>4, <2>5, Effects
  <1> QED
    BY <1>1, <1>2, OrderlyHolds, PTL DEF SetSpec, ReviewIsObeyed

=============================================================================
