------------------------ MODULE EscrowFundingProofs ------------------------
(***************************************************************************)
(* Theorems about EscrowFunding, for any jobs, budgets, numbers of rows    *)
(* and scenarios.  A job is taken for funded only after its fund was       *)
(* mined; what is behind that is the order in which rows are sent, mined   *)
(* and written back, and that an escrow job is created once.               *)
(***************************************************************************)
EXTENDS EscrowFunding, SequenceTheorems, TLAPS

RowStatus == IN_FLIGHT_TX \cup FailedTx
Rows(j, s) == tx[j][s]

(* The rows of every step, how many there are at most, and that create is  *)
(* never retried.                                                          *)
RowsOK ==
    /\ tx \in [Jobs -> [Steps -> Seq(RowStatus)]]
    /\ \A j \in Jobs, s \in Steps : Len(Rows(j, s)) <= MaxAttempts
    /\ \A j \in Jobs : Len(Rows(j, "create")) <= 1

(* Nothing exists of a job before it is started, an outcome is of a row    *)
(* that exists, and a job with an escrow id is past its creation.          *)
Begun ==
    /\ \A j \in Jobs : status[j] = "NONE" =>
          j \notin known /\ \A s \in Steps : Rows(j, s) = <<>>
    /\ \A t \in outcomes : t.n <= Len(Rows(t.job, t.step))
    /\ \A j \in known : onChain[j] \notin {"NONE", "CREATING"}

FundTypes == FundTypeOK /\ RowsOK /\ Begun

(* A row that exists, one that was broadcast. *)
Made(t) == t.n <= Len(Rows(t.job, t.step))
Sent(t) == Made(t) /\ RowOf(t) \notin {"QUEUED", "UNSENT"}

(* A transaction is in the mempool once, and not any more when it is       *)
(* mined; a confirmed row succeeded.                                       *)
InPool(t) == \E i \in DOMAIN mempool : mempool[i] = t
IsMined(t) == \E ok \in BOOLEAN : <<t, ok>> \in mined

MinedInOrder ==
    /\ \A i, k \in DOMAIN mempool : mempool[i] = mempool[k] => i = k
    /\ \A t \in Tx : InPool(t) => Sent(t) /\ ~IsMined(t)
    /\ \A t \in Tx : IsMined(t) => Sent(t)
    /\ \A t \in Tx : Made(t) /\ RowOf(t) = "CONFIRMED" => <<t, TRUE>> \in mined

(* The contract: a job exists once its create was mined, and is past Open  *)
(* once its fund succeeded.                                                *)
Creation(j) == [job |-> j, step |-> "create", n |-> 1]
PastOpen    == {"Funded", "Rejected", "Expired"}

ChainOrder ==
    /\ \A j \in Jobs : chain[j] # "None" => <<Creation(j), TRUE>> \in mined
    /\ \A t \in Tx : t.step = "fund" /\ <<t, TRUE>> \in mined => chain[t.job] \in PastOpen

(* What the backend believes of the chain. *)
Beliefs ==
    \A j \in Jobs :
        /\ onChain[j] = "FUNDED" => chain[j] \in PastOpen
        /\ chain[j] = "Rejected" => IsDead(j)
        /\ status[j] = "ACCEPTED" => chain[j] \in {"Funded", "Expired"}

(* With clocks that agree, what the backend closed as never funded has     *)
(* expired on the chain too.                                               *)
Closed ==
    ~ClockSkew =>
        /\ overdue = expired
        /\ \A j \in Jobs : onChain[j] \in FINAL_ON_CHAIN_STATUSES =>
              chain[j] \in {"Rejected", "Expired"} \/ (chain[j] = "Open" /\ j \in expired)

FundInv == FundTypes /\ MinedInOrder /\ ChainOrder /\ Beliefs /\ Closed

(***************************************************************************)
(* The rows.                                                               *)
(***************************************************************************)
(* What adding a row to a step of j does to all the others. *)
Added(j) ==
    /\ RowsOK'
    /\ \A i \in Jobs \ {j} : tx'[i] = tx[i]
    /\ \A t \in Tx : Made(t) => Made(t)' /\ RowOf(t)' = RowOf(t)
    /\ \A t \in Tx : Made(t)' /\ ~Made(t) => RowOf(t)' \in {"QUEUED", "UNSENT"}

(* A step that leaves the rows alone adds none. *)
LEMMA SameRows ==
    ASSUME RowsOK, UNCHANGED tx
    PROVE  \A j : Added(j)
  BY DEF RowsOK, Rows, Added, Made, RowOf

(* A step is enqueued. *)
LEMMA EnqueueRows ==
    ASSUME RowsOK, NEW j \in Jobs, NEW s \in Steps, Enqueue(j, s),
           s = "create" => Rows(j, s) = <<>>
    PROVE  Added(j)
  <1>1. CASE UNCHANGED tx
    BY <1>1, SameRows
  <1>2. CASE ~UNCHANGED tx
    <2>1. PICK x \in {"QUEUED", "UNSENT"} : tx' = [tx EXCEPT ![j][s] = Append(@, x)]
      BY <1>2 DEF Enqueue
    <2>2. Len(tx[j][s]) < MaxAttempts /\ MaxAttempts \in Nat \ {0}
      BY <1>2, FundingAssumption DEF Enqueue
    <2> DEFINE old == tx[j][s]
               new == Append(old, x)
    <2>3. tx[j] \in [Steps -> Seq(RowStatus)] /\ old \in Seq(RowStatus) /\ x \in RowStatus
      BY DEF RowsOK, RowStatus, IN_FLIGHT_TX, PENDING_TX_STATUSES, FailedTx
    <2>4. /\ new \in Seq(RowStatus) /\ Len(new) = Len(old) + 1 /\ Len(old) \in Nat
          /\ \A i \in 1..Len(old) : new[i] = old[i]
          /\ new[Len(old) + 1] = x
      BY <2>3
    <2>5. tx' = [tx EXCEPT ![j] = [tx[j] EXCEPT ![s] = new]]
      BY <2>1, <2>3 DEF RowsOK
    <2> HIDE DEF new
    <2>6. /\ tx' \in [Jobs -> [Steps -> Seq(RowStatus)]]
          /\ tx'[j][s] = new
          /\ \A i \in Jobs, u \in Steps : i # j \/ u # s => tx'[i][u] = tx[i][u]
          /\ \A i \in Jobs \ {j} : tx'[i] = tx[i]
      BY <2>3, <2>4, <2>5 DEF RowsOK
    <2>7. s = "create" => Len(old) = 0
      BY DEF Rows
    <2>8. RowsOK'
      <3>1. Len(new) <= MaxAttempts /\ (s = "create" => Len(new) <= 1)
        BY <2>2, <2>4, <2>7
      <3>2. "create" \in Steps
        BY DEF Steps
      <3> QED
        BY <2>6, <3>1, <3>2 DEF RowsOK, Rows
    <2>9. ASSUME NEW t \in Tx
          PROVE  /\ Made(t) => Made(t)' /\ RowOf(t)' = RowOf(t)
                 /\ Made(t)' /\ ~Made(t) => RowOf(t)' \in {"QUEUED", "UNSENT"}
      <3>1. t.job \in Jobs /\ t.step \in Steps /\ t.n \in Nat /\ t.n >= 1
        BY <2>2 DEF Tx
      <3>2. CASE t.job = j /\ t.step = s
        <4>1. Made(t) <=> t.n <= Len(old)
          BY <3>2 DEF Made, Rows
        <4>2. Made(t)' <=> t.n <= Len(old) + 1
          BY <2>4, <2>6, <3>2 DEF Made, Rows
        <4>3. RowOf(t)' = new[t.n] /\ RowOf(t) = old[t.n]
          BY <2>6, <3>2 DEF RowOf
        <4>4. t.n <= Len(old) => t.n \in 1..Len(old)
          BY <2>4, <3>1
        <4>5. t.n <= Len(old) + 1 /\ ~(t.n <= Len(old)) => t.n = Len(old) + 1
          BY <2>4, <3>1
        <4>6. t.n <= Len(old) => t.n <= Len(old) + 1
          BY <2>4, <3>1
        <4> QED
          BY <2>4, <4>1, <4>2, <4>3, <4>4, <4>5, <4>6
      <3>3. CASE ~(t.job = j /\ t.step = s)
        <4>1. tx'[t.job][t.step] = tx[t.job][t.step]
          BY <2>6, <3>1, <3>3
        <4> QED
          BY <4>1 DEF Made, RowOf, Rows
      <3> QED
        BY <3>2, <3>3
    <2> QED
      BY <2>6, <2>8, <2>9 DEF Added
  <1> QED
    BY <1>1, <1>2

(* The funding lane adds a row to the job that waits first, if any. *)
LEMMA PumpRows ==
    ASSUME RowsOK, NEW i \in Jobs, PumpFunding
    PROVE  \E j \in Jobs : Added(j) /\ (UNCHANGED tx \/ Live(j))
  <1>1. CASE UNCHANGED tx
    BY <1>1, SameRows
  <1>2. CASE ~UNCHANGED tx
    <2>1. PICK j \in Waiting : Enqueue(j, "approve")
      BY <1>2 DEF PumpFunding
    <2>2. j \in Jobs /\ Live(j)
      BY DEF Waiting
    <2> QED
      BY <2>1, <2>2, EnqueueRows DEF Steps
  <1> QED
    BY <1>1, <1>2

(* Writing the status of a row that exists. *)
LEMMA WriteRow ==
    ASSUME RowsOK, NEW t \in Tx, Made(t), NEW st \in RowStatus, SetRow(t, st)
    PROVE  /\ RowsOK'
           /\ \A j \in Jobs : j # t.job => tx'[j] = tx[j]
           /\ Rows(t.job, t.step) # <<>>
           /\ Made(t)' /\ RowOf(t)' = st
           /\ \A u \in Tx : Made(u)' <=> Made(u)
           /\ \A u \in Tx \ {t} : RowOf(u)' = RowOf(u)
  <1> DEFINE j == t.job
             s == t.step
             n == t.n
             old == tx[j][s]
             new == [old EXCEPT ![n] = st]
  <1>1. /\ j \in Jobs /\ s \in Steps /\ n \in 1..MaxAttempts
        /\ t = [job |-> j, step |-> s, n |-> n]
    BY DEF Tx
  <1>2. tx[j] \in [Steps -> Seq(RowStatus)] /\ old \in Seq(RowStatus) /\ n \in DOMAIN old
    <2>1. old \in Seq(RowStatus) /\ n \in Nat /\ n >= 1 /\ n <= Len(old)
      BY <1>1, FundingAssumption DEF RowsOK, Made, Rows
    <2> QED
      BY <1>1, <2>1 DEF RowsOK
  <1>3. tx' = [tx EXCEPT ![j] = [tx[j] EXCEPT ![s] = new]]
    BY <1>1, <1>2 DEF SetRow, RowsOK
  <1>4. /\ new \in Seq(RowStatus) /\ Len(new) = Len(old) /\ new[n] = st
        /\ \A i : i # n => new[i] = old[i]
    BY <1>2
  <1> HIDE DEF new, j, s, n
  <1>5. /\ tx' \in [Jobs -> [Steps -> Seq(RowStatus)]]
        /\ tx'[j][s] = new
        /\ \A i \in Jobs, u \in Steps : i # j \/ u # s => tx'[i][u] = tx[i][u]
        /\ \A i \in Jobs \ {j} : tx'[i] = tx[i]
    BY <1>1, <1>2, <1>3, <1>4 DEF RowsOK
  <1>6. \A i \in Jobs, u \in Steps : Len(tx'[i][u]) = Len(tx[i][u])
    BY <1>4, <1>5
  <1>7. RowsOK'
    <2>1. "create" \in Steps
      BY DEF Steps
    <2> QED
      BY <1>5, <1>6, <2>1 DEF RowsOK, Rows
  <1>8. old # <<>>
    BY <1>2
  <1>9. ASSUME NEW u \in Tx
        PROVE  /\ Made(u)' <=> Made(u)
               /\ u # t => RowOf(u)' = RowOf(u)
    <2>1. u.job \in Jobs /\ u.step \in Steps /\ u = [job |-> u.job, step |-> u.step, n |-> u.n]
      BY DEF Tx
    <2>2. Made(u)' <=> Made(u)
      BY <1>6, <2>1 DEF Made, Rows
    <2>3. ASSUME u # t PROVE RowOf(u)' = RowOf(u)
      <3>1. u.job # j \/ u.step # s \/ u.n # n
        BY <1>1, <2>1, <2>3
      <3> QED
        BY <1>4, <1>5, <2>1, <3>1 DEF RowOf
    <2> QED
      BY <2>2, <2>3
  <1>10. RowOf(t)' = st
    BY <1>4, <1>5 DEF RowOf, j, s, n
  <1> QED
    BY <1>5, <1>7, <1>8, <1>9, <1>10 DEF j, s, Rows

(***************************************************************************)
(* The types.                                                              *)
(***************************************************************************)
Statuses   == {"NONE"} \cup LIVE_JOB_STATUSES \cup Dead
OnChains   == {"NONE", "FUNDED"} \cup PRE_FUNDED_STATUSES \cup FINAL_ON_CHAIN_STATUSES
Todos      == {"setBudget", "budgetSet", "fund", "funded", "pump"} \X Jobs
ChainNames == {"None", "Open", "Funded", "Rejected", "Expired"}

(* The columns of Job: of their types, and a job that was started or has   *)
(* left its creation never goes back there.                                *)
JobMove ==
    /\ status' \in [Jobs -> Statuses] /\ onChain' \in [Jobs -> OnChains]
    /\ reserved' \subseteq Jobs
    /\ \A i \in Jobs : status'[i] = "NONE" => status[i] = "NONE"
    /\ \A i \in known : onChain'[i] \in {"NONE", "CREATING"} => onChain'[i] = onChain[i]

(* A job moves forward, and what comes next is left to do. *)
LEMMA AdvanceTypes ==
    ASSUME FundTypes, NEW j \in Jobs, UNCHANGED <<status, reserved>>,
           \/ \E to \in {"OPEN", "BUDGET_SET", "APPROVED", "FUNDED"} : onChain' = [onChain EXCEPT ![j] = to]
           \/ UNCHANGED onChain,
           \/ \E next \in {"setBudget", "budgetSet", "fund", "funded", "pump"} :
                 todo' = todo \cup {<<next, j>>}
           \/ UNCHANGED todo
    PROVE  JobMove /\ todo' \subseteq Todos
  <1>1. JobMove
    BY DEF FundTypes, FundTypeOK, JobMove, Statuses, OnChains, PRE_FUNDED_STATUSES
  <1>2. \A next \in {"setBudget", "budgetSet", "fund", "funded", "pump"} : <<next, j>> \in Todos
    BY DEF Todos
  <1>3. todo \subseteq Todos
    BY DEF FundTypes, FundTypeOK, Todos
  <1> QED
    BY <1>1, <1>2, <1>3

(* The conditional writes. *)
LEMMA WriteTypes ==
    ASSUME FundTypes, NEW j \in Jobs
    PROVE  /\ UNCHANGED <<status, onChain, reserved>> => JobMove
           /\ Mirror(j) \/ CloseUnfunded(j) =>
                  JobMove /\ UNCHANGED <<known, tx, unwinding, todo>>
           /\ AdvanceToFunded(j) /\ UNCHANGED <<status, reserved>> =>
                  JobMove /\ todo' \subseteq Todos
           /\ \A s \in Steps : OpenStepMined(j, s) =>
                  JobMove /\ todo' \subseteq Todos /\ UNCHANGED <<known, tx, unwinding>>
  <1>1. UNCHANGED <<status, onChain, reserved>> => JobMove
    BY DEF FundTypes, FundTypeOK, JobMove, Statuses, OnChains, PRE_FUNDED_STATUSES, Dead,
           FINAL_ON_CHAIN_STATUSES
  <1>2. Mirror(j) => JobMove /\ UNCHANGED <<known, tx, unwinding, todo>>
    BY DEF Mirror, Live, FundTypes, FundTypeOK, JobMove, Statuses, OnChains, PRE_FUNDED_STATUSES, Dead,
           FINAL_ON_CHAIN_STATUSES
  <1>3. CloseUnfunded(j) => JobMove /\ UNCHANGED <<known, tx, unwinding, todo>>
    BY DEF CloseUnfunded, Live, FundTypes, FundTypeOK, JobMove, Statuses, OnChains, PRE_FUNDED_STATUSES, Dead,
           FINAL_ON_CHAIN_STATUSES
  <1>4. AdvanceToFunded(j) /\ UNCHANGED <<status, reserved>> => JobMove /\ todo' \subseteq Todos
    BY AdvanceTypes DEF AdvanceToFunded
  <1>5. ASSUME NEW s \in Steps, OpenStepMined(j, s)
        PROVE  JobMove /\ todo' \subseteq Todos /\ UNCHANGED <<known, tx, unwinding>>
    BY <1>5, AdvanceTypes DEF OpenStepMined, Advance
  <1> QED
    BY <1>1, <1>2, <1>3, <1>4, <1>5

(* What makes a step keep Begun. *)
LEMMA BegunKept ==
    ASSUME FundTypes, JobMove, NEW j \in Jobs, Added(j), UNCHANGED tx \/ status'[j] # "NONE",
           known' \subseteq Jobs,
           \A i \in known' : status'[i] # "NONE" /\ onChain'[i] \notin {"NONE", "CREATING"},
           outcomes' \subseteq Tx, \A t \in outcomes' : t \in outcomes \/ Made(t)'
    PROVE  Begun' /\ RowsOK'
  <1>1. ASSUME NEW i \in Jobs, status'[i] = "NONE", NEW s \in Steps PROVE Rows(i, s)' = <<>>
    <2>1. status[i] = "NONE"
      BY <1>1 DEF JobMove
    <2>2. tx'[i] = tx[i]
      BY <1>1 DEF Added
    <2> QED
      BY <2>1, <2>2 DEF FundTypes, Begun, Rows
  <1>2. ASSUME NEW t \in outcomes' PROVE Made(t)'
    BY <1>2 DEF FundTypes, Begun, Made, Added
  <1> QED
    BY <1>1, <1>2 DEF Begun, Added, Made

(* Jobs with an escrow id were started. *)
LEMMA KnownStarted ==
    ASSUME FundTypes
    PROVE  /\ \A i \in known : status[i] # "NONE" /\ onChain[i] \notin {"NONE", "CREATING"}
           /\ \A t \in outcomes : status[t.job] # "NONE"
  <1>1. \A i \in known : status[i] # "NONE" /\ onChain[i] \notin {"NONE", "CREATING"}
    BY DEF FundTypes, FundTypeOK, Begun
  <1>2. ASSUME NEW t \in outcomes, status[t.job] = "NONE" PROVE FALSE
    <2>1. t.job \in Jobs /\ t.step \in Steps /\ t.n \in Nat /\ t.n >= 1
      BY FundingAssumption DEF FundTypes, FundTypeOK, Tx
    <2>2. t.n <= Len(Rows(t.job, t.step)) /\ Rows(t.job, t.step) = <<>>
      BY <1>2, <2>1 DEF FundTypes, Begun
    <2> QED
      BY <2>1, <2>2
  <1> QED
    BY <1>1, <1>2

(* An outcome is handled. *)
LEMMA HandledTypes ==
    ASSUME FundTypes, NEW t \in outcomes, HandleConfirmed(t) \/ HandleFailed(t)
    PROVE  FundTypes'
  <1> DEFINE j == t.job
  <1>1. j \in Jobs /\ t.step \in Steps /\ status[j] # "NONE"
    BY KnownStarted DEF FundTypes, FundTypeOK, Tx
  <1>2. CASE HandleConfirmed(t)
    <2>1. /\ outcomes' = outcomes \ {t}
          /\ UNCHANGED <<status, reserved, tx, unwinding, rejects, chainVars, timeVars>>
      BY <1>2 DEF HandleConfirmed
    <2>2. /\ JobMove /\ todo' \subseteq Todos /\ known' \subseteq known \cup {j}
          /\ j \in known' \ known => onChain'[j] = "OPEN"
      <3>1. /\ \/ \E to \in {"OPEN", "BUDGET_SET", "APPROVED", "FUNDED"} : onChain' = [onChain EXCEPT ![j] = to]
               \/ UNCHANGED onChain
            /\ \/ \E next \in {"setBudget", "budgetSet", "fund", "funded", "pump"} :
                     todo' = todo \cup {<<next, j>>}
               \/ UNCHANGED todo
        BY <1>2 DEF HandleConfirmed, Advance, AdvanceToFunded
      <3>2. /\ known' \subseteq known \cup {j}
            /\ j \in known' \ known => onChain'[j] = "OPEN"
        BY <1>1, <1>2 DEF HandleConfirmed, FundTypes, FundTypeOK
      <3> QED
        BY <1>1, <2>1, <3>1, <3>2, AdvanceTypes
    <2>3. \A i \in known' : status'[i] # "NONE" /\ onChain'[i] \notin {"NONE", "CREATING"}
      BY <1>1, <2>1, <2>2, KnownStarted DEF JobMove, FundTypes, FundTypeOK
    <2>4. Begun' /\ RowsOK'
      BY <1>1, <2>1, <2>2, <2>3, SameRows, BegunKept DEF FundTypes, FundTypeOK
    <2> QED
      BY <1>1, <2>1, <2>2, <2>4 DEF FundTypes, FundTypeOK, RowsOK, JobMove, Statuses, OnChains, Todos,
             RowStatus, chainVars, timeVars
  <1>3. CASE HandleFailed(t)
    <2>1. /\ outcomes' = outcomes \ {t}
          /\ UNCHANGED <<rejects, chainVars, timeVars>>
      BY <1>3 DEF HandleFailed
    <2>2. /\ JobMove /\ todo' \subseteq Todos /\ UNCHANGED <<known, tx>>
          /\ unwinding' \subseteq Jobs \X BOOLEAN
      <3>1. CASE FailureVerdict(j, t.step)
        <4>1. /\ todo \subseteq Todos /\ unwinding \subseteq Jobs \X BOOLEAN
              /\ <<j, Live(j)>> \in Jobs \X BOOLEAN
          <5>1. Live(j) \in BOOLEAN
            BY DEF Live
          <5> QED
            BY <1>1, <5>1 DEF FundTypes, FundTypeOK, Todos
        <4>2. CASE Mirror(j)
          BY <1>1, <4>1, <4>2, WriteTypes
        <4>3. CASE AdvanceToFunded(j) /\ UNCHANGED <<status, known, reserved, tx, unwinding>>
          BY <1>1, <4>1, <4>3, WriteTypes
        <4>4. CASE OpenStepMined(j, t.step)
          BY <1>1, <4>1, <4>4, WriteTypes
        <4>5. CASE unwinding' = unwinding \cup {<<j, Live(j)>>} /\ UNCHANGED <<rowVars, todo>>
          <5>1. UNCHANGED <<status, onChain, known, reserved, tx, todo>>
            BY <4>5 DEF rowVars
          <5> DEFINE u == <<j, Live(j)>>
          <5>2. unwinding' = unwinding \cup {u} /\ u \in Jobs \X BOOLEAN
            BY <4>1, <4>5
          <5> HIDE DEF u
          <5>3. JobMove
            BY <1>1, <5>1, WriteTypes
          <5> QED
            BY <4>1, <5>1, <5>2, <5>3
        <4> QED
          BY <3>1, <4>2, <4>3, <4>4, <4>5 DEF FailureVerdict
      <3>2. CASE UNCHANGED <<rowVars, unwinding, todo>>
        BY <1>1, <3>2, WriteTypes DEF FundTypes, FundTypeOK, rowVars, Todos
      <3> QED
        BY <1>3, <3>1, <3>2 DEF HandleFailed
    <2>3. Begun' /\ RowsOK'
      <3>1. \A i \in known : status'[i] # "NONE" /\ onChain'[i] \notin {"NONE", "CREATING"}
        BY <2>2, KnownStarted DEF JobMove, FundTypes, FundTypeOK
      <3> QED
        BY <1>1, <2>1, <2>2, <3>1, SameRows, BegunKept DEF FundTypes, FundTypeOK
    <2> QED
      BY <1>1, <2>1, <2>2, <2>3 DEF FundTypes, FundTypeOK, RowsOK, JobMove, Statuses, OnChains, Todos,
             RowStatus, chainVars, timeVars
  <1> QED
    BY <1>2, <1>3

(* A failure is written, and what follows a write. *)
LEMMA FollowTypes ==
    ASSUME FundTypes, NEW j \in Jobs,
           \/ \E wasLive \in BOOLEAN : Unwind(j, wasLive)
           \/ \E s \in {"setBudget", "fund"} : ContinueChain(j, s)
           \/ AfterBudgetSet(j) \/ AfterFunded(j) \/ Pump(j)
    PROVE  FundTypes'
  <1>1. CASE \E wasLive \in BOOLEAN : Unwind(j, wasLive)
    <2>1. /\ UNCHANGED <<known, tx, outcomes, rejects, chainVars, timeVars>>
          /\ unwinding' \subseteq unwinding /\ todo' = todo \cup {<<"pump", j>>}
      BY <1>1 DEF Unwind
    <2>2. JobMove
      BY <1>1 DEF Unwind, FundTypes, FundTypeOK, JobMove, Statuses, OnChains, PRE_FUNDED_STATUSES, Dead
    <2>3. Begun' /\ RowsOK'
      <3>1. \A i \in known : status'[i] # "NONE" /\ onChain'[i] \notin {"NONE", "CREATING"}
        BY <2>2, KnownStarted DEF JobMove, FundTypes, FundTypeOK
      <3> QED
        BY <2>1, <2>2, <3>1, SameRows, BegunKept DEF FundTypes, FundTypeOK
    <2> QED
      BY <2>1, <2>2, <2>3 DEF FundTypes, FundTypeOK, RowsOK, JobMove, Statuses, OnChains,
             RowStatus, chainVars, timeVars
  <1>2. CASE ~ \E wasLive \in BOOLEAN : Unwind(j, wasLive)
    <2>1. /\ UNCHANGED <<status, onChain, known, reserved, outcomes, unwinding, chainVars, timeVars>>
          /\ todo' \subseteq Todos /\ rejects' \subseteq Jobs
      BY <1>2 DEF ContinueChain, AfterBudgetSet, AfterFunded, Pump, FundTypes, FundTypeOK, rowVars, Todos
    <2>2. \E i \in Jobs : Added(i) /\ (UNCHANGED tx \/ Live(i))
      <3>1. CASE UNCHANGED tx
        BY <3>1, SameRows DEF FundTypes
      <3>2. CASE Pump(j)
        BY <3>2, PumpRows DEF Pump, FundTypes
      <3>3. ASSUME NEW s \in {"setBudget", "fund"}, Live(j) /\ Enqueue(j, s)
            PROVE  Added(j)
        BY <3>3, EnqueueRows DEF FundTypes, Steps
      <3> QED
        BY <1>2, <3>1, <3>2, <3>3 DEF ContinueChain, AfterBudgetSet, AfterFunded, rowVars
    <2>3. PICK i \in Jobs : Added(i) /\ (UNCHANGED tx \/ status[i] # "NONE")
      BY <2>2 DEF Live, LIVE_JOB_STATUSES
    <2>4. Begun' /\ RowsOK'
      BY <2>1, <2>3, WriteTypes, KnownStarted, BegunKept DEF FundTypes, FundTypeOK
    <2> QED
      BY <2>1, <2>4 DEF FundTypes, FundTypeOK, RowsOK, Todos, RowStatus, chainVars, timeVars
  <1> QED
    BY <1>1, <1>2

(* The parties. *)
LEMMA PartyTypes ==
    ASSUME FundTypes, NEW j \in Jobs, Parties(j)
    PROVE  FundTypes'
  <1>1. CASE Start(j)
    <2> DEFINE refused == tx'[j]["create"] = <<"UNSENT">>
    <2>1. /\ status[j] = "NONE" /\ j \notin known /\ Rows(j, "create") = <<>>
          /\ status' = [status EXCEPT ![j] = IF refused THEN "FAILED" ELSE "PENDING"]
          /\ onChain' = [onChain EXCEPT ![j] = IF refused THEN "FAILED" ELSE "CREATING"]
          /\ reserved' = IF refused THEN reserved ELSE reserved \cup {j}
          /\ UNCHANGED <<known, memVars, rejects, chainVars, timeVars>>
          /\ Enqueue(j, "create") \/ UNCHANGED tx
      BY <1>1 DEF Start, FundTypes, Begun, Steps
    <2> HIDE DEF refused
    <2>2. JobMove /\ status'[j] # "NONE"
      BY <2>1 DEF FundTypes, FundTypeOK, JobMove, Statuses, OnChains, LIVE_JOB_STATUSES, Dead,
             PRE_FUNDED_STATUSES
    <2>3. Added(j)
      BY <2>1, EnqueueRows, SameRows DEF FundTypes, Steps
    <2>4. \A i \in known : status'[i] # "NONE" /\ onChain'[i] \notin {"NONE", "CREATING"}
      BY <2>1, <2>2, KnownStarted DEF JobMove, FundTypes, FundTypeOK
    <2>5. Begun' /\ RowsOK'
      <3>1. known' \subseteq Jobs /\ outcomes' \subseteq Tx /\ known' = known /\ outcomes' = outcomes
        BY <2>1 DEF memVars, FundTypes, FundTypeOK
      <3> QED
        BY <2>2, <2>3, <2>4, <3>1, BegunKept
    <2> QED
      BY <2>1, <2>2, <2>5 DEF FundTypes, FundTypeOK, RowsOK, JobMove, Statuses, OnChains,
             RowStatus, memVars, chainVars, timeVars
  <1>2. CASE Accept(j) \/ \E to \in Dead : Leave(j, to)
    <2>1. /\ UNCHANGED <<onChain, known, tx, memVars, chainVars, timeVars>>
          /\ JobMove /\ rejects' \subseteq Jobs /\ status[j] # "NONE"
      BY <1>2 DEF Accept, MayAccept, Leave, RequestReject, Live, FundTypes, FundTypeOK, JobMove,
             Statuses, OnChains, LIVE_JOB_STATUSES, Dead
    <2>2. Begun' /\ RowsOK'
      <3>1. \A i \in known : status'[i] # "NONE" /\ onChain'[i] \notin {"NONE", "CREATING"}
        BY <2>1, KnownStarted DEF JobMove, FundTypes, FundTypeOK
      <3>2. known' \subseteq Jobs /\ outcomes' \subseteq Tx /\ known' = known /\ outcomes' = outcomes
        BY <2>1 DEF memVars, FundTypes, FundTypeOK
      <3> QED
        BY <2>1, <3>1, <3>2, SameRows, BegunKept DEF FundTypes
    <2> QED
      BY <2>1, <2>2 DEF FundTypes, FundTypeOK, RowsOK, JobMove, Statuses, OnChains,
             RowStatus, memVars, chainVars, timeVars
  <1> QED
    BY <1>1, <1>2 DEF Parties

(* The settlement queue. *)
LEMMA SettlementTypes ==
    ASSUME FundTypes, NEW j \in Jobs, EvaluatorReject(j) \/ SweepExpired(j)
    PROVE  FundTypes'
  <1>1. /\ UNCHANGED <<outcomes, budgetSet, allowance, mempool, mined, timeVars>>
        /\ rejects' \subseteq rejects
    BY DEF EvaluatorReject, SweepExpired
  <1>2. UNCHANGED <<known, tx, unwinding, todo>> /\ JobMove
    <2>1. CASE UNCHANGED <<rowVars, unwinding, todo>>
      BY <2>1, WriteTypes DEF rowVars
    <2>2. CASE Mirror(j) \/ CloseUnfunded(j)
      BY <2>2, WriteTypes
    <2>3. CASE /\ \E st \in {"REJECTED", "EXPIRED"} : onChain' = [onChain EXCEPT ![j] = st]
               /\ \/ UNCHANGED status
                  \/ status' = [status EXCEPT ![j] = IF Live(j) THEN "FAILED" ELSE @]
               /\ reserved' = reserved \ {j}
               /\ UNCHANGED <<known, tx, unwinding, todo>>
      BY <2>3 DEF FundTypes, FundTypeOK, JobMove, Statuses, OnChains, FINAL_ON_CHAIN_STATUSES, Dead, Live
    <2> QED
      BY <2>1, <2>2, <2>3 DEF EvaluatorReject, SweepExpired
  <1>3. chain' \in [Jobs -> ChainNames]
    <2>1. \/ UNCHANGED chain
          \/ \E st \in {"Rejected", "Expired"} : chain' = [chain EXCEPT ![j] = st]
      BY DEF EvaluatorReject, SweepExpired
    <2> QED
      BY <2>1 DEF FundTypes, FundTypeOK, ChainNames
  <1>4. Begun' /\ RowsOK'
    <2>1. \A i \in known : status'[i] # "NONE" /\ onChain'[i] \notin {"NONE", "CREATING"}
      BY <1>2, KnownStarted DEF JobMove, FundTypes, FundTypeOK
    <2> QED
      BY <1>1, <1>2, <2>1, SameRows, BegunKept DEF FundTypes, FundTypeOK
  <1> QED
    BY <1>1, <1>2, <1>3, <1>4 DEF FundTypes, FundTypeOK, RowsOK, JobMove, Statuses, OnChains,
           ChainNames, RowStatus, timeVars

(* The reconciliation. *)
LEMMA ReconcileTypes ==
    ASSUME FundTypes, NEW j \in Jobs, ReconcileEscrowJob(j)
    PROVE  FundTypes'
  <1>1. Stale(j) /\ Picked(j) /\ UNCHANGED <<chainVars, timeVars>>
    BY DEF ReconcileEscrowJob
  <1>2. status[j] # "NONE"
    BY <1>1 DEF Picked, Live, IsDead, LIVE_JOB_STATUSES, Dead
  <1>3. ASSUME NEW s \in Steps, HasRow(j, s)
        PROVE  [job |-> j, step |-> s, n |-> Len(tx[j][s])] \in Tx
    <2>1. tx[j][s] \in Seq(RowStatus) /\ tx[j][s] # <<>> /\ Len(tx[j][s]) <= MaxAttempts
      BY <1>3 DEF FundTypes, RowsOK, Rows, HasRow
    <2>2. Len(tx[j][s]) \in 1..MaxAttempts
      BY <2>1, FundingAssumption
    <2> QED
      BY <2>2 DEF Tx
  <1>4. ASSUME NEW s \in Steps, HasRow(j, s), Replay(j, s)
        PROVE  /\ UNCHANGED <<rowVars, unwinding, todo, rejects>> /\ JobMove
               /\ outcomes' \subseteq Tx /\ \A t \in outcomes' : t \in outcomes \/ Made(t)'
    <2>1. PICK t \in Tx : t = [job |-> j, step |-> s, n |-> Len(tx[j][s])]
      BY <1>3, <1>4
    <2>2. UNCHANGED <<rowVars, unwinding, todo, rejects>> /\ UNCHANGED tx
      BY <1>4 DEF Replay, rowVars
    <2>3. Made(t)'
      <3>1. tx[j][s] \in Seq(RowStatus)
        BY DEF FundTypes, RowsOK
      <3>2. Rows(t.job, t.step)' = tx[j][s] /\ t.n = Len(tx[j][s])
        BY <2>1, <2>2 DEF Rows
      <3> QED
        BY <3>1, <3>2 DEF Made
    <2>4. outcomes' \subseteq outcomes \cup {t}
      BY <1>4, <2>1 DEF Replay
    <2>5. JobMove
      BY <2>2, WriteTypes DEF rowVars
    <2>6. outcomes \subseteq Tx
      BY DEF FundTypes, FundTypeOK
    <2> QED
      BY <2>2, <2>3, <2>4, <2>5, <2>6
  <1>5. StepOf(j) \in Steps \/ ~ (j \in known /\ Live(j))
    BY <1>1 DEF Picked, Live, IsDead, LIVE_JOB_STATUSES, Dead, StepOf, Steps, FundTypes, Begun
  <1> DEFINE RowsKept == \E i \in Jobs : Added(i) /\ (UNCHANGED tx \/ status'[i] # "NONE")
             Outcomes == /\ outcomes' \subseteq Tx
                         /\ \A t \in outcomes' : t \in outcomes \/ Made(t)'
             Work     == /\ rejects' \subseteq Jobs /\ unwinding' \subseteq Jobs \X BOOLEAN
                         /\ todo' \subseteq Todos
             Effect   == JobMove /\ known' = known /\ RowsKept /\ Outcomes /\ Work
  <1>6. /\ UNCHANGED tx => RowsKept
        /\ UNCHANGED outcomes => Outcomes
        /\ UNCHANGED <<rejects, unwinding, todo>> => Work
    BY SameRows DEF FundTypes, FundTypeOK, Todos
  <1>7. /\ rejects' \subseteq rejects \cup {j} => rejects' \subseteq Jobs
        /\ unwinding' \subseteq unwinding \cup {<<j, TRUE>>} => unwinding' \subseteq Jobs \X BOOLEAN
        /\ todo \subseteq Todos
    <2>1. rejects \subseteq Jobs /\ unwinding \subseteq Jobs \X BOOLEAN /\ todo \subseteq Todos
      BY DEF FundTypes, FundTypeOK, Todos
    <2>2. <<j, TRUE>> \in Jobs \X BOOLEAN
      OBVIOUS
    <2> DEFINE u == <<j, TRUE>>
    <2> HIDE DEF u
    <2> QED
      BY <2>1, <2>2 DEF u
  <1> HIDE DEF RowsKept, Outcomes
  <1>8. UNCHANGED rowVars => UNCHANGED tx /\ UNCHANGED known /\ JobMove
    BY WriteTypes DEF rowVars
  <1>9. ASSUME ReconcileCreate(j) PROVE Effect
    <2>1. CASE HasRow(j, "create") /\ Replay(j, "create")
      <3>1. "create" \in Steps
        BY DEF Steps
      <3>2. Outcomes
        BY <1>4, <2>1, <3>1 DEF Outcomes
      <3>3. UNCHANGED <<rowVars, unwinding, todo, rejects>>
        BY <2>1 DEF Replay
      <3> QED
        BY <1>6, <1>8, <3>2, <3>3
    <2>2. CASE unwinding' = unwinding \cup {<<j, TRUE>>}
               /\ UNCHANGED <<rowVars, outcomes, todo, rejects>>
      <3>1. UNCHANGED rowVars /\ UNCHANGED outcomes
        BY <2>2
      <3>2. Work
        <4>1. rejects' \subseteq Jobs /\ unwinding' \subseteq Jobs \X BOOLEAN
          BY <1>7, <2>2
        <4>2. todo' \subseteq Todos
          BY <1>7, <2>2
        <4> QED
          BY <4>1, <4>2
      <3> HIDE DEF Work
      <3> QED
        BY <1>6, <1>8, <3>1, <3>2
    <2> QED
      BY <1>9, <2>1, <2>2 DEF ReconcileCreate
  <1>10. ASSUME Mirror(j) /\ UNCHANGED <<outcomes, rejects>> PROVE Effect
    BY <1>6, <1>10, WriteTypes
  <1>11. ASSUME ReconcileFunded(j) PROVE Effect
    <2>1. /\ AdvanceToFunded(j) /\ rejects' \subseteq rejects \cup {j}
          /\ UNCHANGED <<status, known, reserved, tx, outcomes, unwinding>>
      BY <1>11 DEF ReconcileFunded
    <2>2. JobMove /\ todo' \subseteq Todos
      BY <2>1, WriteTypes
    <2>3. Work
      BY <1>7, <2>1, <2>2
    <2> HIDE DEF Work
    <2> QED
      BY <1>6, <2>1, <2>2, <2>3
  <1>12. ASSUME j \in known /\ ReconcileOpen(j) PROVE Effect
    <2>1. CASE CloseUnfunded(j) /\ UNCHANGED <<outcomes, rejects>>
      BY <1>6, <2>1, WriteTypes
    <2>2. CASE Live(j) /\ ResumeFundingStep(j, StepOf(j))
      <3> DEFINE s == StepOf(j)
      <3>1. s \in Steps
        BY <1>5, <1>12, <2>2
      <3> HIDE DEF s
      <3>2. CASE HasRow(j, s) /\ Replay(j, s)
        <4>1. Outcomes
          BY <1>4, <3>1, <3>2 DEF Outcomes
        <4>2. UNCHANGED <<rowVars, unwinding, todo, rejects>>
          BY <3>2 DEF Replay
        <4> QED
          BY <1>6, <1>8, <4>1, <4>2
      <3>3. CASE OpenStepMined(j, s) /\ UNCHANGED <<outcomes, rejects>>
        <4>1. JobMove /\ todo' \subseteq Todos /\ UNCHANGED <<known, tx, unwinding>>
          BY <3>1, <3>3, WriteTypes
        <4>2. Work
          BY <1>7, <3>3, <4>1
        <4> HIDE DEF Work
        <4> QED
          BY <1>6, <3>3, <4>1, <4>2
      <3>4. CASE /\ (s \in {"setBudget", "fund"} /\ Enqueue(j, s)) \/ PumpFunding
                 /\ UNCHANGED <<status, onChain, known, reserved, unwinding, todo, outcomes, rejects>>
        <4>1. JobMove
          BY <3>4, WriteTypes
        <4>2. RowsKept
          <5>1. CASE s \in {"setBudget", "fund"} /\ Enqueue(j, s)
            BY <1>2, <3>1, <3>4, <5>1, EnqueueRows DEF FundTypes, RowsKept
          <5>2. CASE PumpFunding
            BY <3>4, <5>2, PumpRows DEF FundTypes, Live, LIVE_JOB_STATUSES, RowsKept
          <5> QED
            BY <3>4, <5>1, <5>2
        <4> QED
          BY <1>6, <3>4, <4>1, <4>2
      <3>5. \/ HasRow(j, s) /\ Replay(j, s)
            \/ OpenStepMined(j, s) /\ UNCHANGED <<outcomes, rejects>>
            \/ /\ (s \in {"setBudget", "fund"} /\ Enqueue(j, s)) \/ PumpFunding
               /\ UNCHANGED <<status, onChain, known, reserved, unwinding, todo, outcomes, rejects>>
        <4>1. ResumeFundingStep(j, s)
          BY <2>2 DEF s
        <4> QED
          BY <4>1 DEF ResumeFundingStep
      <3> QED
        BY <3>2, <3>3, <3>4, <3>5
    <2> QED
      BY <1>12, <2>1, <2>2 DEF ReconcileOpen
  <1>13. Effect
    <2> HIDE DEF Effect
    <2>1. \/ ReconcileCreate(j)
          \/ Mirror(j) /\ UNCHANGED <<outcomes, rejects>>
          \/ ReconcileFunded(j)
          \/ j \in known /\ ReconcileOpen(j)
      BY DEF ReconcileEscrowJob
    <2> QED
      BY <1>9, <1>10, <1>11, <1>12, <2>1
  <1>14. Begun' /\ RowsOK'
    <2>1. \A i \in known : status'[i] # "NONE" /\ onChain'[i] \notin {"NONE", "CREATING"}
      BY <1>13, KnownStarted DEF JobMove, FundTypes, FundTypeOK
    <2> QED
      BY <1>13, <2>1, BegunKept DEF FundTypes, FundTypeOK, RowsKept, Outcomes
  <1> QED
    BY <1>1, <1>13, <1>14 DEF FundTypes, FundTypeOK, RowsOK, JobMove, Statuses, OnChains, Todos,
           RowStatus, chainVars, timeVars, Outcomes

(* A sequence without its i-th element. *)
LEMMA Without ==
    ASSUME NEW S, NEW q \in Seq(S), NEW i \in 1..Len(q)
    PROVE  LET r == SubSeq(q, 1, i - 1) \o SubSeq(q, i + 1, Len(q))
           IN  /\ r \in Seq(S) /\ Len(r) = Len(q) - 1
               /\ \A k \in 1..Len(r) : r[k] = IF k < i THEN q[k] ELSE q[k + 1]
  <1> DEFINE a == SubSeq(q, 1, i - 1)
             b == SubSeq(q, i + 1, Len(q))
             n == Len(q)
  <1>1. n \in Nat /\ i \in Nat /\ i >= 1 /\ i <= n
    OBVIOUS
  <1>2. a \in Seq(S) /\ Len(a) = i - 1 /\ \A k \in 1..(i - 1) : a[k] = q[k]
    BY <1>1, SubSeqProperties
  <1>3. b \in Seq(S) /\ Len(b) = n - i /\ \A k \in 1..(n - i) : b[k] = q[i + k]
    BY <1>1, SubSeqProperties
  <1> HIDE DEF a, b, n
  <1> DEFINE r == a \o b
  <1>4. /\ r \in Seq(S) /\ Len(r) = n - 1
        /\ \A k \in 1..(n - 1) : r[k] = IF k <= i - 1 THEN a[k] ELSE b[k - (i - 1)]
    <2>1. Len(a) + Len(b) = n - 1
      BY <1>1, <1>2, <1>3
    <2> QED
      BY <1>2, <1>3, <2>1, ConcatProperties
  <1> HIDE DEF r
  <1>5. ASSUME NEW k \in 1..(n - 1) PROVE r[k] = IF k < i THEN q[k] ELSE q[k + 1]
    <2>1. CASE k < i
      <3>1. k \in 1..(i - 1) /\ k <= i - 1
        BY <1>1, <2>1
      <3> QED
        BY <1>2, <1>4, <2>1, <3>1
    <2>2. CASE ~(k < i)
      <3>1. k - (i - 1) \in 1..(n - i) /\ i + (k - (i - 1)) = k + 1 /\ ~(k <= i - 1)
        BY <1>1, <2>2
      <3> QED
        BY <1>3, <1>4, <2>2, <3>1
    <2> QED
      BY <2>1, <2>2
  <1> QED
    BY <1>4, <1>5 DEF a, b, n, r

(* What the wallet's transactions become, as a set, when one is evicted:   *)
(* none twice, none new.                                                   *)
LEMMA EvictMoves ==
    ASSUME FundTypes, NEW t \in Tx, Evict(t)
    PROVE  /\ mempool' \in Seq(Tx)
           /\ \A k \in DOMAIN mempool' : \E m \in DOMAIN mempool : mempool'[k] = mempool[m]
           /\ (\A i, k \in DOMAIN mempool : mempool[i] = mempool[k] => i = k)
              => \A i, k \in DOMAIN mempool' : mempool'[i] = mempool'[k] => i = k
  <1>1. mempool \in Seq(Tx)
    BY DEF FundTypes, FundTypeOK
  <1>2. PICK i \in 1..Len(mempool) :
            mempool' = SubSeq(mempool, 1, i - 1) \o SubSeq(mempool, i + 1, Len(mempool))
    <2>1. DOMAIN mempool = 1..Len(mempool)
      BY <1>1
    <2>2. \E k \in DOMAIN mempool :
             mempool' = SubSeq(mempool, 1, k - 1) \o SubSeq(mempool, k + 1, Len(mempool))
      BY DEF Evict
    <2> QED
      BY <2>1, <2>2
  <1> DEFINE q == mempool
             r == mempool'
  <1>3. /\ r \in Seq(Tx) /\ Len(r) = Len(q) - 1
        /\ \A k \in 1..Len(r) : r[k] = IF k < i THEN q[k] ELSE q[k + 1]
    BY <1>1, <1>2, Without
  <1>4. /\ DOMAIN q = 1..Len(q) /\ DOMAIN r = 1..Len(r) /\ Len(q) \in Nat /\ Len(r) \in Nat
    BY <1>1, <1>3
  <1> HIDE DEF q, r
  <1>5. ASSUME NEW k \in DOMAIN r
        PROVE  /\ k < i => k \in DOMAIN q /\ r[k] = q[k]
               /\ ~(k < i) => k + 1 \in DOMAIN q /\ r[k] = q[k + 1]
    BY <1>3, <1>4
  <1>6. ASSUME \A x, y \in DOMAIN q : q[x] = q[y] => x = y, NEW k \in DOMAIN r, NEW m \in DOMAIN r,
               r[k] = r[m]
        PROVE  k = m
    <2>1. k \in Nat /\ m \in Nat
      BY <1>4
    <2> QED
      BY <1>5, <1>6, <2>1
  <1>7. \A k \in DOMAIN r : \E m \in DOMAIN q : r[k] = q[m]
    BY <1>5
  <1> QED
    BY <1>3, <1>6, <1>7 DEF q, r

(* What the pipeline does to a row that exists, and to what it tells the    *)
(* wallet and the handlers.                                                *)
PipelineStep(t, st) ==
    /\ Made(t) /\ SetRow(t, st)
    /\ UNCHANGED <<status, onChain, known, reserved, unwinding, todo, rejects, chain,
                   budgetSet, allowance, mined, overdue, expired>>
    /\ \/ /\ RowOf(t) = "QUEUED" /\ st = "SUBMITTED"
          /\ mempool' = Append(mempool, t) /\ outcomes' = outcomes
       \/ /\ RowOf(t) = "QUEUED" /\ st = "UNSENT"
          /\ mempool' = mempool /\ outcomes' = outcomes \cup {t}
       \/ /\ RowOf(t) = "SUBMITTED" /\ st \in {"DROPPED", "REVERTED", "CONFIRMED"}
          /\ st = "CONFIRMED" => <<t, TRUE>> \in mined
          /\ mempool' = mempool /\ outcomes' = outcomes \cup {t}

(* A step of the pipeline writes the status of one row. *)
LEMMA PipelineRow ==
    ASSUME FundTypes, MinedInOrder, NEW t \in Tx, Pipeline(t)
    PROVE  \E st \in RowStatus : PipelineStep(t, st)
  <1>1. CASE Broadcast(t)
    <2>1. PipelineStep(t, "SUBMITTED")
      BY <1>1 DEF Broadcast, PipelineStep, Made, Rows, memVars, timeVars
    <2> QED
      BY <2>1 DEF RowStatus, IN_FLIGHT_TX, PENDING_TX_STATUSES
  <1>2. CASE Block(t)
    <2>1. PipelineStep(t, "UNSENT")
      BY <1>2 DEF Block, Close, PipelineStep, Made, Rows, chainVars, timeVars
    <2> QED
      BY <2>1 DEF RowStatus, FailedTx
  <1>3. CASE Drop(t)
    <2>1. Made(t)
      BY <1>3 DEF Drop, MinedInOrder, Sent, InPool
    <2>2. PipelineStep(t, "DROPPED")
      BY <1>3, <2>1 DEF Drop, Close, PipelineStep, chainVars, timeVars
    <2> QED
      BY <2>2 DEF RowStatus, FailedTx
  <1>4. ASSUME NEW ok \in BOOLEAN, Confirm(t, ok) PROVE \E st \in RowStatus : PipelineStep(t, st)
    <2> DEFINE st == IF ok THEN "CONFIRMED" ELSE "REVERTED"
    <2>1. Made(t)
      BY <1>4 DEF Confirm, MinedInOrder, Sent, IsMined
    <2>2. RowOf(t) = "SUBMITTED" /\ Close(t, st) /\ <<t, ok>> \in mined
      BY <1>4 DEF Confirm
    <2>3. st = "CONFIRMED" => <<t, TRUE>> \in mined
      BY <2>2
    <2>4. PipelineStep(t, st)
      <3>1. st \in {"DROPPED", "REVERTED", "CONFIRMED"}
        OBVIOUS
      <3> HIDE DEF st
      <3> QED
        BY <2>1, <2>2, <2>3, <3>1 DEF Close, PipelineStep, chainVars, timeVars
    <2> QED
      BY <2>4 DEF RowStatus, FailedTx, IN_FLIGHT_TX
  <1> QED
    BY <1>1, <1>2, <1>3, <1>4 DEF Pipeline

(* The pipeline, the chain and time. *)
LEMMA PipelineTypes ==
    ASSUME FundTypes, MinedInOrder, NEW t \in Tx, Pipeline(t)
    PROVE  FundTypes'
  <1>1. PICK st \in RowStatus : PipelineStep(t, st)
    BY PipelineRow
  <1>2. /\ UNCHANGED <<status, onChain, known, reserved, unwinding, todo, rejects, chain,
                       budgetSet, allowance, mined, overdue, expired>>
        /\ Made(t) /\ SetRow(t, st)
        /\ outcomes' \subseteq outcomes \cup {t}
        /\ mempool' = mempool \/ mempool' = Append(mempool, t)
    BY <1>1 DEF PipelineStep
  <1>3. /\ RowsOK'
        /\ \A j \in Jobs : j # t.job => tx'[j] = tx[j]
        /\ Rows(t.job, t.step) # <<>>
        /\ Made(t)'
        /\ \A u \in Tx : Made(u)' <=> Made(u)
    BY <1>2, WriteRow DEF FundTypes
  <1>4. mempool' \in Seq(Tx) /\ outcomes' \subseteq Tx
    BY <1>2 DEF FundTypes, FundTypeOK
  <1>5. Begun'
    <2>1. ASSUME NEW i \in Jobs, status'[i] = "NONE", NEW s \in Steps PROVE Rows(i, s)' = <<>>
      <3>1. Rows(i, s) = <<>> /\ \A u \in Steps : Rows(i, u) = <<>>
        BY <1>2, <2>1 DEF FundTypes, Begun
      <3>2. t.step \in Steps
        BY DEF Tx
      <3>3. i # t.job
        BY <1>3, <3>1, <3>2
      <3> QED
        BY <1>3, <3>1, <3>3 DEF Rows
    <2>2. \A u \in outcomes' : Made(u)'
      BY <1>2, <1>3, <1>4 DEF FundTypes, FundTypeOK, Begun, Made
    <2> QED
      BY <1>2, <2>1, <2>2 DEF FundTypes, Begun, Made
  <1> QED
    BY <1>2, <1>3, <1>4, <1>5 DEF FundTypes, FundTypeOK, RowsOK, RowStatus

(* Mining. *)
LEMMA MineTypes ==
    ASSUME FundTypes, Mine
    PROVE  FundTypes'
  <1>1. mempool \in Seq(Tx) /\ mempool # <<>>
    BY DEF Mine, FundTypes, FundTypeOK
  <1>2. PICK t \in Tx : t = Head(mempool)
    BY <1>1
  <1>3. PICK ok \in BOOLEAN : ok = Succeeds(t)
    <2>1. t.step \in Steps
      BY DEF Tx
    <2>2. Succeeds(t) \in BOOLEAN
      BY <2>1 DEF Succeeds, Steps
    <2> QED
      BY <2>2
  <1>4. /\ mempool' = Tail(mempool) /\ mined' = mined \cup {<<t, ok>>}
        /\ chain' = IF ok /\ t.step = "create" THEN [chain EXCEPT ![t.job] = "Open"]
                    ELSE IF ok /\ t.step = "fund" THEN [chain EXCEPT ![t.job] = "Funded"]
                    ELSE chain
        /\ budgetSet' = IF ok /\ t.step = "setBudget" THEN budgetSet \cup {t.job} ELSE budgetSet
        /\ allowance' = IF t.step = "approve" THEN Budget[t.job]
                        ELSE IF ok /\ t.step = "fund" THEN allowance - Budget[t.job] ELSE allowance
    BY <1>2, <1>3 DEF Mine
  <1>5. UNCHANGED <<rowVars, memVars, rejects, timeVars>>
    BY DEF Mine
  <1>6. t.job \in Jobs /\ <<t, ok>> \in Tx \X BOOLEAN
    BY DEF Tx
  <1>7. mempool' \in Seq(Tx)
    BY <1>1, <1>4
  <1>8. chain' \in [Jobs -> ChainNames] /\ budgetSet' \subseteq Jobs
    BY <1>4, <1>6 DEF FundTypes, FundTypeOK, ChainNames
  <1>9. mined' \subseteq Tx \X BOOLEAN
    BY <1>4, <1>6 DEF FundTypes, FundTypeOK
  <1>10. allowance' \in Nat
    <2>1. Budget[t.job] \in Nat /\ allowance \in Nat
      BY <1>6, FundingAssumption DEF FundTypes, FundTypeOK
    <2>2. t.step = "fund" /\ ok => allowance >= Budget[t.job]
      BY <1>3 DEF Succeeds
    <2> QED
      BY <1>4, <2>1, <2>2
  <1> QED
    BY <1>5, <1>7, <1>8, <1>9, <1>10 DEF FundTypes, FundTypeOK, RowsOK, Begun, Rows, ChainNames,
           rowVars, memVars, timeVars

(* Every step. *)
LEMMA NextTypes ==
    ASSUME FundTypes, MinedInOrder, [Next]_fundVars
    PROVE  FundTypes'
  <1>1. CASE UNCHANGED fundVars
    BY <1>1 DEF fundVars, rowVars, memVars, chainVars, timeVars, FundTypes, FundTypeOK, RowsOK,
           Begun, Rows
  <1>2. ASSUME NEW j \in Jobs, Parties(j) PROVE FundTypes'
    BY <1>2, PartyTypes
  <1>3. ASSUME NEW j \in Jobs, Handlers(j) PROVE FundTypes'
    BY <1>3, HandledTypes, FollowTypes DEF Handlers
  <1>4. ASSUME NEW j \in Jobs, EvaluatorReject(j) \/ SweepExpired(j) PROVE FundTypes'
    BY <1>4, SettlementTypes
  <1>5. ASSUME NEW j \in Jobs, ReconcileEscrowJob(j) PROVE FundTypes'
    BY <1>5, ReconcileTypes
  <1>6. ASSUME NEW j \in Jobs, Expire(j) PROVE FundTypes'
    BY <1>6 DEF Expire, rowVars, memVars, chainVars, FundTypes, FundTypeOK, RowsOK, Begun, Rows
  <1>7. ASSUME NEW t \in Tx, Pipeline(t) PROVE FundTypes'
    BY <1>7, PipelineTypes
  <1>8. ASSUME NEW t \in Tx, Evict(t) PROVE FundTypes'
    <2>1. mempool' \in Seq(Tx)
      BY <1>8, EvictMoves
    <2>2. UNCHANGED <<rowVars, memVars, rejects, chain, budgetSet, allowance, mined, timeVars>>
      BY <1>8 DEF Evict
    <2> QED
      BY <2>1, <2>2 DEF rowVars, memVars, timeVars, FundTypes, FundTypeOK, RowsOK, Begun, Rows
  <1>9. CASE Mine
    BY <1>9, MineTypes
  <1>10. CASE Crash
    BY <1>10 DEF Crash, rowVars, chainVars, timeVars, FundTypes, FundTypeOK, RowsOK, Begun, Rows
  <1> QED
    BY <1>1, <1>2, <1>3, <1>4, <1>5, <1>6, <1>7, <1>8, <1>9, <1>10 DEF Next

(***************************************************************************)
(* Rows, the wallet's transactions and what was mined.                     *)
(***************************************************************************)
(* No row changes but those that are added, which were not broadcast. *)
Kept ==
    /\ \A t \in Tx : Made(t) => Made(t)' /\ RowOf(t)' = RowOf(t)
    /\ \A t \in Tx : Made(t)' /\ ~Made(t) => RowOf(t)' \in {"QUEUED", "UNSENT"}

(* What the backend does outside the pipeline leaves the rows that exist   *)
(* and the wallet's transactions alone.                                    *)
LEMMA BackendKeeps ==
    ASSUME FundTypes, NEW j \in Jobs,
           Parties(j) \/ Handlers(j) \/ EvaluatorReject(j) \/ SweepExpired(j)
              \/ ReconcileEscrowJob(j) \/ Expire(j)
    PROVE  Kept /\ UNCHANGED <<mempool, mined>>
  <1> DEFINE Goal == Kept /\ UNCHANGED <<mempool, mined>>
  <1>1. UNCHANGED tx => Kept
    BY SameRows DEF FundTypes, Added, Kept
  <1>2. ASSUME NEW s \in Steps, Enqueue(j, s), s = "create" => Rows(j, s) = <<>> PROVE Kept
    BY <1>2, EnqueueRows DEF FundTypes, Added, Kept
  <1>3. PumpFunding => Kept
    BY PumpRows DEF FundTypes, Added, Kept
  <1>4. CASE Parties(j)
    <2>1. UNCHANGED <<mempool, mined>> /\ (UNCHANGED tx \/ (Start(j) /\ Enqueue(j, "create")))
      BY <1>4 DEF Parties, Start, Accept, Leave, chainVars
    <2>2. Start(j) => Rows(j, "create") = <<>>
      BY DEF Start, FundTypes, Begun, Steps
    <2> QED
      BY <1>1, <1>2, <2>1, <2>2 DEF Steps
  <1>5. CASE Handlers(j)
    <2>1. ASSUME NEW t \in outcomes, HandleConfirmed(t) \/ HandleFailed(t) PROVE Goal
      <3>1. UNCHANGED tx /\ UNCHANGED <<mempool, mined>>
        BY <2>1 DEF HandleConfirmed, HandleFailed, FailureVerdict, Mirror, AdvanceToFunded,
               OpenStepMined, chainVars, rowVars
      <3> QED
        BY <1>1, <3>1
    <2>2. ASSUME NEW wasLive \in BOOLEAN, Unwind(j, wasLive) PROVE Goal
      BY <1>1, <2>2 DEF Unwind, chainVars
    <2>3. ASSUME NEW s \in {"setBudget", "fund"}, ContinueChain(j, s) PROVE Goal
      <3>1. UNCHANGED <<mempool, mined>> /\ (UNCHANGED tx \/ Enqueue(j, s)) /\ s # "create" /\ s \in Steps
        BY <2>3 DEF ContinueChain, chainVars, Steps
      <3> QED
        BY <1>1, <1>2, <3>1
    <2>4. CASE AfterBudgetSet(j) \/ AfterFunded(j)
      BY <1>1, <2>4 DEF AfterBudgetSet, AfterFunded, rowVars, chainVars
    <2>5. CASE Pump(j)
      BY <1>3, <2>5 DEF Pump, chainVars
    <2> QED
      BY <1>5, <2>1, <2>2, <2>3, <2>4, <2>5 DEF Handlers
  <1>6. CASE EvaluatorReject(j) \/ SweepExpired(j)
    <2>1. UNCHANGED tx /\ UNCHANGED <<mempool, mined>>
      BY <1>6 DEF EvaluatorReject, SweepExpired, Mirror, CloseUnfunded, rowVars
    <2> QED
      BY <1>1, <2>1
  <1>7. CASE ReconcileEscrowJob(j)
    <2>1. UNCHANGED <<mempool, mined>>
      BY <1>7 DEF ReconcileEscrowJob, chainVars
    <2>2. \/ UNCHANGED tx \/ PumpFunding
          \/ \E s \in {"setBudget", "fund"} : Enqueue(j, s)
      <3>1. \/ UNCHANGED tx \/ (Live(j) /\ ResumeFundingStep(j, StepOf(j)))
        BY <1>7 DEF ReconcileEscrowJob, ReconcileCreate, Mirror, ReconcileFunded, ReconcileOpen,
               CloseUnfunded, Replay, rowVars
      <3> DEFINE s == StepOf(j)
      <3> HIDE DEF s
      <3>2. ResumeFundingStep(j, s) =>
               UNCHANGED tx \/ PumpFunding \/ (s \in {"setBudget", "fund"} /\ Enqueue(j, s))
        BY DEF ResumeFundingStep, Replay, OpenStepMined, rowVars
      <3> QED
        BY <3>1, <3>2 DEF s
    <2> QED
      BY <1>1, <1>2, <1>3, <2>1, <2>2 DEF Steps
  <1>8. CASE Expire(j)
    BY <1>1, <1>8 DEF Expire, rowVars, chainVars
  <1> QED
    BY <1>4, <1>5, <1>6, <1>7, <1>8

(* Whatever keeps the rows and the wallet's transactions keeps their order. *)
LEMMA KeptOrder ==
    ASSUME FundTypes, MinedInOrder, Kept, UNCHANGED <<mempool, mined>>
    PROVE  MinedInOrder'
  <1>1. \A t \in Tx : Sent(t) => Sent(t)'
    BY DEF Kept, Sent
  <1>2. \A t \in Tx : Made(t)' /\ RowOf(t)' = "CONFIRMED" => <<t, TRUE>> \in mined
    BY DEF Kept, MinedInOrder
  <1>3. \A t \in Tx : (InPool(t)' <=> InPool(t)) /\ (IsMined(t)' <=> IsMined(t))
    BY DEF InPool, IsMined
  <1> QED
    BY <1>1, <1>2, <1>3 DEF MinedInOrder

(* The pipeline keeps it. *)
LEMMA PipelineOrder ==
    ASSUME FundTypes, MinedInOrder, NEW t \in Tx, Pipeline(t)
    PROVE  MinedInOrder'
  <1>1. PICK st \in RowStatus : PipelineStep(t, st)
    BY PipelineRow
  <1>2. Made(t) /\ SetRow(t, st) /\ mined' = mined
    BY <1>1 DEF PipelineStep
  <1>3. /\ Made(t)' /\ RowOf(t)' = st
        /\ \A u \in Tx : Made(u)' <=> Made(u)
        /\ \A u \in Tx \ {t} : RowOf(u)' = RowOf(u)
    BY <1>2, WriteRow DEF FundTypes
  <1>4. mempool \in Seq(Tx)
    BY DEF FundTypes, FundTypeOK
  <1>5. \A u \in Tx : Sent(u) => Sent(u)'
    BY <1>1, <1>3 DEF Sent, PipelineStep
  <1>6. \A u \in Tx : Made(u)' /\ RowOf(u)' = "CONFIRMED" => <<u, TRUE>> \in mined
    <2>1. st = "CONFIRMED" => <<t, TRUE>> \in mined
      BY <1>1 DEF PipelineStep
    <2> QED
      BY <1>3, <2>1 DEF MinedInOrder
  <1>7. \A u \in Tx : IsMined(u)' <=> IsMined(u)
    BY <1>2 DEF IsMined
  <1>8. /\ \A i, k \in DOMAIN mempool' : mempool'[i] = mempool'[k] => i = k
        /\ \A u \in Tx : InPool(u)' => Sent(u)' /\ ~IsMined(u)
    <2>1. CASE mempool' = mempool
      BY <1>5, <2>1 DEF MinedInOrder, InPool
    <2>2. CASE mempool' = Append(mempool, t) /\ RowOf(t) = "QUEUED" /\ st = "SUBMITTED"
      <3>1. ~Sent(t) /\ Sent(t)'
        BY <1>3, <2>2 DEF Sent
      <3>2. ~InPool(t) /\ ~IsMined(t)
        BY <3>1 DEF MinedInOrder
      <3>3. /\ DOMAIN mempool' = 1..(Len(mempool) + 1) /\ DOMAIN mempool = 1..Len(mempool)
            /\ Len(mempool) \in Nat
            /\ \A i \in 1..Len(mempool) : mempool'[i] = mempool[i]
            /\ mempool'[Len(mempool) + 1] = t
        BY <1>4, <2>2
      <3> DEFINE n == Len(mempool) + 1
      <3>4. \A i \in DOMAIN mempool' : i \in DOMAIN mempool \/ i = n
        BY <3>3
      <3> HIDE DEF n
      <3>5. mempool'[n] = t /\ \A i \in DOMAIN mempool : mempool'[i] = mempool[i]
        BY <3>3 DEF n
      <3>6. \A i \in DOMAIN mempool : mempool[i] # t
        BY <3>2 DEF InPool
      <3>7. \A i, k \in DOMAIN mempool' : mempool'[i] = mempool'[k] => i = k
        BY <3>4, <3>5, <3>6 DEF MinedInOrder
      <3>8. \A u \in Tx : InPool(u)' => InPool(u) \/ u = t
        BY <3>4, <3>5 DEF InPool
      <3> QED
        BY <1>5, <3>1, <3>2, <3>7, <3>8 DEF MinedInOrder
    <2> QED
      BY <1>1, <2>1, <2>2 DEF PipelineStep
  <1> QED
    BY <1>2, <1>5, <1>6, <1>7, <1>8 DEF MinedInOrder

(* Mining takes the first transaction out of the mempool. *)
LEMMA MineOrder ==
    ASSUME FundTypes, MinedInOrder, Mine
    PROVE  MinedInOrder'
  <1>1. mempool \in Seq(Tx) /\ mempool # <<>>
    BY DEF Mine, FundTypes, FundTypeOK
  <1>2. PICK t \in Tx : t = Head(mempool)
    BY <1>1
  <1>3. mempool' = Tail(mempool) /\ mined' = mined \cup {<<t, Succeeds(t)>>} /\ UNCHANGED tx
    BY <1>2 DEF Mine, rowVars
  <1>4. /\ DOMAIN mempool = 1..Len(mempool) /\ Len(mempool) \in Nat /\ Len(mempool) >= 1
        /\ DOMAIN mempool' = 1..(Len(mempool) - 1) /\ mempool[1] = t
        /\ \A i \in 1..(Len(mempool) - 1) : mempool'[i] = mempool[i + 1]
    BY <1>1, <1>2, <1>3
  <1>5. 1 \in DOMAIN mempool /\ \A i \in DOMAIN mempool' : i + 1 \in DOMAIN mempool /\ i + 1 # 1
    BY <1>4
  <1>6. \A i, k \in DOMAIN mempool' : i + 1 = k + 1 => i = k
    BY <1>4
  <1>7. \A i \in DOMAIN mempool' : mempool'[i] = mempool[i + 1]
    BY <1>4
  <1>8. \A i \in DOMAIN mempool' : mempool'[i] # t
    BY <1>4, <1>5, <1>7 DEF MinedInOrder
  <1>9. \A i, k \in DOMAIN mempool' : mempool'[i] = mempool'[k] => i = k
    BY <1>5, <1>6, <1>7 DEF MinedInOrder
  <1>10. \A u \in Tx : InPool(u)' => InPool(u) /\ u # t
    BY <1>5, <1>7, <1>8 DEF InPool
  <1>11. InPool(t)
    BY <1>4, <1>5 DEF InPool
  <1>12. \A u \in Tx : IsMined(u)' => IsMined(u) \/ u = t
    BY <1>3 DEF IsMined
  <1>13. \A u \in Tx : Sent(u)' <=> Sent(u)
    BY <1>3 DEF Sent, Made, RowOf, Rows
  <1>14. \A u \in Tx : Made(u)' /\ RowOf(u)' = "CONFIRMED" => <<u, TRUE>> \in mined'
    BY <1>3 DEF MinedInOrder, Made, RowOf, Rows
  <1> QED
    BY <1>9, <1>10, <1>11, <1>12, <1>13, <1>14 DEF MinedInOrder

(* A transaction that is lost leaves no trace. *)
LEMMA EvictOrder ==
    ASSUME FundTypes, MinedInOrder, NEW t \in Tx, Evict(t)
    PROVE  MinedInOrder'
  <1>1. UNCHANGED tx /\ mined' = mined
    BY DEF Evict, rowVars
  <1>2. /\ \A k \in DOMAIN mempool' : \E m \in DOMAIN mempool : mempool'[k] = mempool[m]
        /\ \A i, k \in DOMAIN mempool' : mempool'[i] = mempool'[k] => i = k
    BY EvictMoves DEF MinedInOrder
  <1>3. \A u \in Tx : InPool(u)' => InPool(u)
    BY <1>2 DEF InPool
  <1>4. \A u \in Tx : /\ IsMined(u)' <=> IsMined(u)
                      /\ Sent(u)' <=> Sent(u)
                      /\ Made(u)' <=> Made(u)
                      /\ RowOf(u)' = RowOf(u)
    BY <1>1 DEF IsMined, Sent, Made, RowOf, Rows
  <1> QED
    BY <1>1, <1>2, <1>3, <1>4 DEF MinedInOrder

(* Every step keeps the order. *)
LEMMA NextOrder ==
    ASSUME FundTypes, MinedInOrder, [Next]_fundVars
    PROVE  MinedInOrder'
  <1>1. CASE UNCHANGED fundVars \/ Crash
    <2>1. UNCHANGED <<tx, mempool, mined>>
      BY <1>1 DEF fundVars, rowVars, chainVars, Crash
    <2> QED
      BY <2>1, KeptOrder DEF Kept, Made, RowOf, Rows
  <1>2. ASSUME NEW j \in Jobs,
               Parties(j) \/ Handlers(j) \/ EvaluatorReject(j) \/ SweepExpired(j)
                  \/ ReconcileEscrowJob(j) \/ Expire(j)
        PROVE  MinedInOrder'
    BY <1>2, BackendKeeps, KeptOrder
  <1>3. ASSUME NEW t \in Tx, Pipeline(t) \/ Evict(t) PROVE MinedInOrder'
    BY <1>3, PipelineOrder, EvictOrder
  <1>4. CASE Mine
    BY <1>4, MineOrder
  <1> QED
    BY <1>1, <1>2, <1>3, <1>4 DEF Next

(***************************************************************************)
(* The chain, and what the backend believes of it.                         *)
(***************************************************************************)
(* What any step but mining does to a job: it is funded in the books only  *)
(* after the chain has it past Open, a dead job stays dead, only the       *)
(* reject of a dead one or the deadline moves the chain, and a final state *)
(* is written of a job that is over, or of one that stayed Open too long.  *)
JobTurn(j) ==
    /\ IsDead(j) => IsDead(j)'
    /\ onChain'[j] = "FUNDED" => onChain[j] = "FUNDED" \/ chain[j] \in PastOpen
    /\ status'[j] = "ACCEPTED" =>
          status[j] = "ACCEPTED" \/ (status[j] = "PENDING" /\ onChain[j] = "FUNDED")
    /\ \/ chain'[j] = chain[j]
       \/ chain[j] = "Funded" /\ chain'[j] = "Expired"
       \/ chain[j] = "Funded" /\ chain'[j] = "Rejected" /\ IsDead(j)
    /\ onChain'[j] \in FINAL_ON_CHAIN_STATUSES =>
          \/ onChain[j] \in FINAL_ON_CHAIN_STATUSES
          \/ chain'[j] \in {"Rejected", "Expired"}
          \/ chain[j] = "Open" /\ j \in overdue

Turn ==
    /\ \A j \in Jobs : JobTurn(j)
    /\ overdue \subseteq overdue' /\ expired \subseteq expired'
    /\ ~ClockSkew /\ overdue = expired => overdue' = expired'

(* A step that turns no job. *)
LEMMA QuietTurn ==
    ASSUME UNCHANGED <<status, onChain, chain, overdue, expired>>
    PROVE  Turn
  BY DEF Turn, JobTurn, IsDead

(* One job is turned. *)
LEMMA OneTurn ==
    ASSUME FundTypes, NEW j \in Jobs, JobTurn(j), UNCHANGED <<overdue, expired>>,
           \A i \in Jobs \ {j} : status'[i] = status[i] /\ onChain'[i] = onChain[i]
                                   /\ chain'[i] = chain[i]
    PROVE  Turn
  BY DEF Turn, JobTurn, IsDead

(* The conditional writes turn a job as they should. *)
LEMMA WriteTurns ==
    ASSUME FundTypes, NEW j \in Jobs, UNCHANGED <<chain, overdue, expired>>,
           \/ Mirror(j) /\ chain[j] \in {"Rejected", "Expired"}
           \/ CloseUnfunded(j) /\ chain[j] = "Open" /\ j \in overdue
           \/ AdvanceToFunded(j) /\ chain[j] \in PastOpen /\ UNCHANGED status
           \/ \E s \in Steps : OpenStepMined(j, s)
           \/ /\ \E to \in {"OPEN", "BUDGET_SET", "APPROVED"} : onChain' = [onChain EXCEPT ![j] = to]
              /\ UNCHANGED status
    PROVE  Turn
  <1>1. /\ status \in [Jobs -> Statuses] /\ onChain \in [Jobs -> OnChains]
    BY DEF FundTypes, FundTypeOK, Statuses, OnChains
  <1>2. CASE Mirror(j) /\ chain[j] \in {"Rejected", "Expired"}
    <2>1. JobTurn(j)
      BY <1>1, <1>2 DEF Mirror, JobTurn, IsDead, Dead, Live, LIVE_JOB_STATUSES
    <2> QED
      BY <1>1, <1>2, <2>1, OneTurn DEF Mirror
  <1>3. CASE CloseUnfunded(j) /\ chain[j] = "Open" /\ j \in overdue
    <2>1. JobTurn(j)
      BY <1>1, <1>3 DEF CloseUnfunded, JobTurn, IsDead, Dead, Live, LIVE_JOB_STATUSES
    <2> QED
      BY <1>1, <1>3, <2>1, OneTurn DEF CloseUnfunded
  <1>4. CASE AdvanceToFunded(j) /\ chain[j] \in PastOpen /\ UNCHANGED status
    <2>1. JobTurn(j)
      BY <1>1, <1>4 DEF AdvanceToFunded, JobTurn, IsDead, FINAL_ON_CHAIN_STATUSES
    <2> QED
      BY <1>1, <1>4, <2>1, OneTurn DEF AdvanceToFunded
  <1>5. CASE /\ \/ \E to \in {"OPEN", "BUDGET_SET", "APPROVED"} : onChain' = [onChain EXCEPT ![j] = to]
                \/ UNCHANGED onChain
             /\ UNCHANGED status
    <2>1. JobTurn(j)
      BY <1>1, <1>5 DEF JobTurn, IsDead, FINAL_ON_CHAIN_STATUSES
    <2> QED
      BY <1>1, <1>5, <2>1, OneTurn
  <1>6. ASSUME NEW s \in Steps, OpenStepMined(j, s) PROVE Turn
    BY <1>5, <1>6 DEF OpenStepMined, Advance
  <1> QED
    BY <1>2, <1>3, <1>4, <1>5, <1>6

(* The handlers of outcomes: the fund that is confirmed was mined. *)
LEMMA HandledTurns ==
    ASSUME FundTypes, MinedInOrder, ChainOrder, NEW t \in outcomes,
           HandleConfirmed(t) \/ HandleFailed(t)
    PROVE  Turn
  <1> DEFINE j == t.job
  <1>1. t \in Tx /\ j \in Jobs /\ t.step \in Steps /\ Made(t)
    BY DEF FundTypes, FundTypeOK, Begun, Made, Tx
  <1>2. UNCHANGED <<chain, overdue, expired>>
    BY DEF HandleConfirmed, HandleFailed, chainVars, timeVars
  <1>3. CASE HandleConfirmed(t)
    <2>1. t.step = "fund" => chain[j] \in PastOpen
      BY <1>1, <1>3 DEF HandleConfirmed, MinedInOrder, ChainOrder
    <2>2. \/ /\ \E to \in {"OPEN", "BUDGET_SET", "APPROVED"} : onChain' = [onChain EXCEPT ![j] = to]
             /\ UNCHANGED status
          \/ UNCHANGED <<status, onChain>>
          \/ t.step = "fund" /\ AdvanceToFunded(j) /\ UNCHANGED status
      BY <1>3 DEF HandleConfirmed, Advance
    <2> HIDE DEF j
    <2> QED
      BY <1>1, <1>2, <2>1, <2>2, WriteTurns, QuietTurn
  <1>4. CASE HandleFailed(t)
    <2>1. \/ UNCHANGED rowVars
          \/ FailureVerdict(j, t.step)
      BY <1>4 DEF HandleFailed
    <2>2. \/ UNCHANGED <<status, onChain>>
          \/ Mirror(j) /\ chain[j] \in {"Rejected", "Expired"}
          \/ AdvanceToFunded(j) /\ chain[j] = "Funded" /\ UNCHANGED status
          \/ OpenStepMined(j, t.step)
      BY <2>1 DEF FailureVerdict, rowVars
    <2> HIDE DEF j
    <2> QED
      BY <1>1, <1>2, <2>2, WriteTurns, QuietTurn DEF PastOpen
  <1> QED
    BY <1>3, <1>4

(* Everything the backend does but the pipeline. *)
LEMMA BackendTurns ==
    ASSUME FundTypes, MinedInOrder, ChainOrder, NEW j \in Jobs,
           Parties(j) \/ Handlers(j) \/ EvaluatorReject(j) \/ SweepExpired(j)
              \/ ReconcileEscrowJob(j) \/ Expire(j)
    PROVE  Turn
  <1>1. /\ status \in [Jobs -> Statuses] /\ onChain \in [Jobs -> OnChains]
        /\ chain \in [Jobs -> ChainNames]
    BY DEF FundTypes, FundTypeOK, Statuses, OnChains, ChainNames
  <1>2. CASE Parties(j)
    <2>1. UNCHANGED <<chain, overdue, expired>>
      BY <1>2 DEF Parties, Start, Accept, Leave, chainVars, timeVars
    <2>2. CASE Start(j)
      <3>1. /\ status[j] = "NONE"
            /\ \E to \in {"FAILED", "PENDING"} : status' = [status EXCEPT ![j] = to]
            /\ \E to \in {"FAILED", "CREATING"} : onChain' = [onChain EXCEPT ![j] = to]
        BY <2>2 DEF Start
      <3>2. JobTurn(j)
        BY <1>1, <2>1, <3>1 DEF JobTurn, IsDead, Dead, FINAL_ON_CHAIN_STATUSES
      <3> QED
        BY <1>1, <2>1, <3>1, <3>2, OneTurn
    <2>3. CASE Accept(j)
      <3>1. JobTurn(j)
        BY <1>1, <2>1, <2>3 DEF Accept, MayAccept, JobTurn, IsDead, Dead
      <3> QED
        BY <1>1, <2>1, <2>3, <3>1, OneTurn DEF Accept
    <2>4. ASSUME NEW to \in Dead, Leave(j, to) PROVE Turn
      <3>1. JobTurn(j)
        BY <1>1, <2>1, <2>4 DEF Leave, JobTurn, IsDead, Dead
      <3> QED
        BY <1>1, <2>1, <2>4, <3>1, OneTurn DEF Leave
    <2> QED
      BY <1>2, <2>2, <2>3, <2>4 DEF Parties
  <1>3. CASE Handlers(j)
    <2>1. ASSUME NEW wasLive \in BOOLEAN, Unwind(j, wasLive) PROVE Turn
      <3>1. /\ UNCHANGED <<chain, overdue, expired>>
            /\ onChain' = [onChain EXCEPT ![j] = "FAILED"]
            /\ status' = [status EXCEPT ![j] = IF wasLive THEN "FAILED" ELSE @]
        BY <2>1 DEF Unwind, chainVars, timeVars
      <3>2. JobTurn(j)
        BY <1>1, <3>1 DEF JobTurn, IsDead, Dead, FINAL_ON_CHAIN_STATUSES
      <3> QED
        BY <1>1, <3>1, <3>2, OneTurn
    <2>2. CASE (\E s \in {"setBudget", "fund"} : ContinueChain(j, s)) \/ AfterBudgetSet(j)
                  \/ AfterFunded(j) \/ Pump(j)
      <3>1. UNCHANGED <<status, onChain, chain, overdue, expired>>
        BY <2>2 DEF ContinueChain, AfterBudgetSet, AfterFunded, Pump, rowVars, chainVars, timeVars
      <3> QED
        BY <3>1, QuietTurn
    <2> QED
      BY <1>3, <2>1, <2>2, HandledTurns DEF Handlers
  <1>4. CASE EvaluatorReject(j)
    <2>1. UNCHANGED <<overdue, expired>>
      BY <1>4 DEF EvaluatorReject, timeVars
    <2>2. \/ UNCHANGED <<status, onChain, chain>>
          \/ Mirror(j) /\ chain[j] \in {"Rejected", "Expired"} /\ UNCHANGED chain
          \/ /\ chain[j] = "Funded" /\ IsDead(j)
             /\ chain' = [chain EXCEPT ![j] = "Rejected"]
             /\ onChain' = [onChain EXCEPT ![j] = "REJECTED"]
             /\ UNCHANGED status
      BY <1>4 DEF EvaluatorReject, rowVars
    <2>3. CASE /\ chain[j] = "Funded" /\ IsDead(j)
               /\ chain' = [chain EXCEPT ![j] = "Rejected"]
               /\ onChain' = [onChain EXCEPT ![j] = "REJECTED"]
               /\ UNCHANGED status
      <3>1. JobTurn(j)
        BY <1>1, <2>3 DEF JobTurn, IsDead
      <3> QED
        BY <1>1, <2>1, <2>3, <3>1, OneTurn
    <2> QED
      BY <2>1, <2>2, <2>3, QuietTurn, WriteTurns
  <1>5. CASE SweepExpired(j)
    <2>1. UNCHANGED <<overdue, expired>> /\ j \in overdue
      BY <1>5 DEF SweepExpired, timeVars
    <2>2. \/ CloseUnfunded(j) /\ chain[j] = "Open" /\ UNCHANGED chain
          \/ Mirror(j) /\ chain[j] \in {"Rejected", "Expired"} /\ UNCHANGED chain
          \/ /\ chain[j] = "Funded"
             /\ chain' = [chain EXCEPT ![j] = "Expired"]
             /\ onChain' = [onChain EXCEPT ![j] = "EXPIRED"]
             /\ status' = [status EXCEPT ![j] = IF Live(j) THEN "FAILED" ELSE @]
      BY <1>5 DEF SweepExpired, Unfunded
    <2>3. CASE /\ chain[j] = "Funded"
               /\ chain' = [chain EXCEPT ![j] = "Expired"]
               /\ onChain' = [onChain EXCEPT ![j] = "EXPIRED"]
               /\ status' = [status EXCEPT ![j] = IF Live(j) THEN "FAILED" ELSE @]
      <3>1. JobTurn(j)
        BY <1>1, <2>3 DEF JobTurn, IsDead, Live, Dead, LIVE_JOB_STATUSES
      <3> QED
        BY <1>1, <2>1, <2>3, <3>1, OneTurn
    <2> QED
      BY <2>1, <2>2, <2>3, WriteTurns
  <1>6. CASE ReconcileEscrowJob(j)
    <2>1. UNCHANGED <<chain, overdue, expired>>
      BY <1>6 DEF ReconcileEscrowJob, chainVars, timeVars
    <2>2. \/ ReconcileCreate(j)
          \/ Mirror(j) /\ chain[j] \in {"Rejected", "Expired"}
          \/ AdvanceToFunded(j) /\ chain[j] = "Funded" /\ UNCHANGED status
          \/ CloseUnfunded(j) /\ chain[j] = "Open" /\ j \in overdue
          \/ \E s \in Steps : ResumeFundingStep(j, s)
      <3>1. CASE j \in known /\ Live(j) /\ ResumeFundingStep(j, StepOf(j))
        <4>1. onChain[j] \in {"OPEN", "BUDGET_SET", "APPROVED"}
          BY <1>6, <3>1 DEF ReconcileEscrowJob, Picked, Live, IsDead, LIVE_JOB_STATUSES, Dead,
                 FundTypes, Begun
        <4>2. StepOf(j) \in Steps
          BY <4>1 DEF StepOf, Steps
        <4> QED
          BY <3>1, <4>2
      <3> QED
        BY <1>6, <3>1 DEF ReconcileEscrowJob, ReconcileFunded, ReconcileOpen
    <2>3. ASSUME NEW s \in Steps, ResumeFundingStep(j, s)
          PROVE  UNCHANGED <<status, onChain>> \/ OpenStepMined(j, s)
      BY <2>3 DEF ResumeFundingStep, Replay, rowVars
    <2>4. ReconcileCreate(j) => UNCHANGED <<status, onChain>>
      BY DEF ReconcileCreate, Replay, rowVars
    <2> QED
      BY <2>1, <2>2, <2>3, <2>4, QuietTurn, WriteTurns DEF PastOpen
  <1>7. CASE Expire(j)
    <2>1. UNCHANGED <<status, onChain, chain>>
      BY <1>7 DEF Expire, rowVars, chainVars
    <2>2. /\ overdue \subseteq overdue' /\ expired \subseteq expired'
          /\ ~ClockSkew /\ overdue = expired => overdue' = expired'
      BY <1>7 DEF Expire
    <2> QED
      BY <2>1, <2>2 DEF Turn, JobTurn, IsDead
  <1> QED
    BY <1>2, <1>3, <1>4, <1>5, <1>6, <1>7

ChainInv == ChainOrder /\ Beliefs /\ Closed

(* A turn keeps what is believed of the chain. *)
LEMMA TurnKeeps ==
    ASSUME FundTypes, ChainInv, Turn, mined' = mined
    PROVE  ChainInv'
  <1>1. ChainOrder'
    <2>1. ASSUME NEW j \in Jobs
          PROVE  /\ chain'[j] # "None" => chain[j] # "None"
                 /\ chain[j] \in PastOpen => chain'[j] \in PastOpen
      BY DEF Turn, JobTurn, PastOpen
    <2>2. \A t \in Tx : t.job \in Jobs
      BY DEF Tx
    <2> QED
      BY <2>1, <2>2 DEF ChainInv, ChainOrder, Creation
  <1>2. Beliefs'
    <2>1. ASSUME NEW j \in Jobs
          PROVE  /\ onChain'[j] = "FUNDED" => chain'[j] \in PastOpen
                 /\ chain'[j] = "Rejected" => IsDead(j)'
      BY DEF Turn, JobTurn, PastOpen, ChainInv, Beliefs
    <2>2. ASSUME NEW j \in Jobs, status'[j] = "ACCEPTED"
          PROVE  chain'[j] \in {"Funded", "Expired"}
      <3>1. chain[j] \in {"Funded", "Expired"}
        BY <2>2 DEF Turn, JobTurn, PastOpen, ChainInv, Beliefs, IsDead, Dead
      <3>2. ~IsDead(j)'
        BY <2>2 DEF IsDead, Dead
      <3> QED
        BY <3>1, <3>2 DEF Turn, JobTurn
    <2> QED
      BY <2>1, <2>2 DEF Beliefs, IsDead
  <1>3. Closed'
    <2>1. SUFFICES ASSUME ~ClockSkew
                   PROVE  /\ overdue' = expired'
                          /\ \A j \in Jobs : onChain'[j] \in FINAL_ON_CHAIN_STATUSES =>
                                \/ chain'[j] \in {"Rejected", "Expired"}
                                \/ chain'[j] = "Open" /\ j \in expired'
      BY DEF Closed
    <2>2. overdue = expired /\ overdue' = expired' /\ expired \subseteq expired'
      BY <2>1 DEF ChainInv, Closed, Turn
    <2>3. ASSUME NEW j \in Jobs, onChain'[j] \in FINAL_ON_CHAIN_STATUSES
          PROVE  \/ chain'[j] \in {"Rejected", "Expired"}
                 \/ chain'[j] = "Open" /\ j \in expired'
      BY <2>1, <2>2, <2>3 DEF ChainInv, Closed, Turn, JobTurn
    <2> QED
      BY <2>2, <2>3
  <1> QED
    BY <1>1, <1>2, <1>3 DEF ChainInv

(* A mined transaction creates a job that did not exist, funds one that is *)
(* Open and not expired, or leaves the chain's jobs alone.                 *)
LEMMA MineChain ==
    ASSUME FundTypes, MinedInOrder, ChainInv, Mine
    PROVE  ChainInv'
  <1>1. mempool \in Seq(Tx) /\ mempool # <<>>
    BY DEF Mine, FundTypes, FundTypeOK
  <1>2. PICK t \in Tx : t = Head(mempool)
    BY <1>1
  <1>3. t.job \in Jobs /\ t.step \in Steps /\ t.n \in Nat /\ t.n >= 1
        /\ t = [job |-> t.job, step |-> t.step, n |-> t.n]
    BY FundingAssumption DEF Tx
  <1>4. Sent(t) /\ ~IsMined(t)
    <2>1. 1 \in DOMAIN mempool /\ mempool[1] = t
      BY <1>1, <1>2
    <2> QED
      BY <2>1 DEF MinedInOrder, InPool
  <1>5. UNCHANGED <<status, onChain, overdue, expired>>
    BY DEF Mine, rowVars, timeVars
  <1>6. /\ mined' = mined \cup {<<t, Succeeds(t)>>}
        /\ chain' = IF Succeeds(t) /\ t.step = "create" THEN [chain EXCEPT ![t.job] = "Open"]
                    ELSE IF Succeeds(t) /\ t.step = "fund" THEN [chain EXCEPT ![t.job] = "Funded"]
                    ELSE chain
    BY <1>2 DEF Mine
  <1>7. chain \in [Jobs -> ChainNames]
    BY DEF FundTypes, FundTypeOK, ChainNames
  <1>8. ASSUME t.step = "create" PROVE t = Creation(t.job) /\ chain[t.job] = "None"
    <2>1. t.n <= Len(Rows(t.job, "create")) /\ Len(Rows(t.job, "create")) <= 1
          /\ Rows(t.job, "create") \in Seq(RowStatus)
      BY <1>3, <1>4, <1>8 DEF Sent, Made, FundTypes, RowsOK, Rows, Steps
    <2>2. t.n = 1
      BY <1>3, <2>1
    <2>3. t = Creation(t.job)
      BY <1>3, <1>8, <2>2 DEF Creation
    <2> QED
      BY <1>3, <1>4, <2>3 DEF ChainInv, ChainOrder, IsMined
  <1>9. t.step = "fund" /\ Succeeds(t) => chain[t.job] = "Open" /\ t.job \notin expired
    BY DEF Succeeds
  <1>10. t.step = "create" => Succeeds(t)
    BY DEF Succeeds
  <1>11. ASSUME NEW j \in Jobs
         PROVE  /\ chain'[j] # chain[j] =>
                     \/ /\ chain[j] = "None" /\ chain'[j] = "Open" /\ <<Creation(j), TRUE>> \in mined'
                     \/ /\ chain[j] = "Open" /\ chain'[j] = "Funded" /\ j \notin expired
                /\ t.step = "fund" /\ Succeeds(t) /\ j = t.job => chain'[j] = "Funded"
    <2>1. CASE t.step = "create"
      <3>1. mined' = mined \cup {<<t, TRUE>>} /\ chain' = [chain EXCEPT ![t.job] = "Open"]
        BY <1>6, <1>10, <2>1 DEF Succeeds
      <3> QED
        BY <1>3, <1>7, <1>8, <2>1, <3>1
    <2>2. CASE t.step = "fund"
      BY <1>3, <1>6, <1>7, <1>9, <2>2
    <2>3. CASE t.step \notin {"create", "fund"}
      BY <1>6, <2>3
    <2> QED
      BY <2>1, <2>2, <2>3
  <1>12. mined \subseteq mined' /\ \A u \in Tx : <<u, TRUE>> \in mined' =>
             <<u, TRUE>> \in mined \/ (u = t /\ Succeeds(t))
    BY <1>6
  <1>13. ChainOrder'
    <2>1. ASSUME NEW j \in Jobs, chain'[j] # "None" PROVE <<Creation(j), TRUE>> \in mined'
      BY <1>11, <1>12, <2>1 DEF ChainInv, ChainOrder
    <2>2. ASSUME NEW u \in Tx, u.step = "fund", <<u, TRUE>> \in mined'
          PROVE  chain'[u.job] \in PastOpen
      <3>1. u.job \in Jobs
        BY DEF Tx
      <3> QED
        BY <1>11, <1>12, <2>2, <3>1 DEF ChainInv, ChainOrder, PastOpen
    <2> QED
      BY <2>1, <2>2 DEF ChainOrder, Creation
  <1>14. Beliefs'
    BY <1>5, <1>11 DEF ChainInv, Beliefs, IsDead, PastOpen
  <1>15. Closed'
    BY <1>5, <1>11 DEF ChainInv, Closed
  <1> QED
    BY <1>13, <1>14, <1>15 DEF ChainInv

(* Every step. *)
LEMMA NextChain ==
    ASSUME FundTypes, MinedInOrder, ChainInv, [Next]_fundVars
    PROVE  ChainInv'
  <1>1. CASE UNCHANGED fundVars \/ Crash
    <2>1. UNCHANGED <<status, onChain, chain, mined, overdue, expired>>
      BY <1>1 DEF fundVars, rowVars, chainVars, timeVars, Crash
    <2> QED
      BY <2>1, QuietTurn, TurnKeeps
  <1>2. ASSUME NEW j \in Jobs,
               Parties(j) \/ Handlers(j) \/ EvaluatorReject(j) \/ SweepExpired(j)
                  \/ ReconcileEscrowJob(j) \/ Expire(j)
        PROVE  ChainInv'
    BY <1>2, BackendKeeps, BackendTurns, TurnKeeps DEF ChainInv
  <1>3. ASSUME NEW t \in Tx, Pipeline(t) PROVE ChainInv'
    <2>1. PICK st \in RowStatus : PipelineStep(t, st)
      BY <1>3, PipelineRow
    <2>2. UNCHANGED <<status, onChain, chain, mined, overdue, expired>>
      BY <2>1 DEF PipelineStep
    <2> QED
      BY <2>2, QuietTurn, TurnKeeps
  <1>4. ASSUME NEW t \in Tx, Evict(t) PROVE ChainInv'
    <2>1. UNCHANGED <<status, onChain, chain, mined, overdue, expired>>
      BY <1>4 DEF Evict, rowVars, timeVars
    <2> QED
      BY <2>1, QuietTurn, TurnKeeps
  <1>5. CASE Mine
    BY <1>5, MineChain
  <1> QED
    BY <1>1, <1>2, <1>3, <1>4, <1>5 DEF Next

(***************************************************************************)
(* The theorems.                                                           *)
(***************************************************************************)
LEMMA FundInit == Init => FundInv
  <1> SUFFICES ASSUME Init PROVE FundInv
    OBVIOUS
  <1>1. FundTypes
    <2>1. \A j \in Jobs, s \in Steps : Rows(j, s) = <<>>
      BY DEF Init, Rows
    <2>2. <<>> \in Seq(RowStatus) /\ Len(<<>>) = 0 /\ <<>> \in Seq(Tx) /\ MaxAttempts \in Nat
      BY FundingAssumption
    <2>3. RowsOK /\ Begun
      BY <2>1, <2>2 DEF Init, RowsOK, Begun, Steps
    <2>4. FundTypeOK
      BY <2>2 DEF Init, FundTypeOK, RowStatus
    <2> QED
      BY <2>3, <2>4 DEF FundTypes
  <1>2. MinedInOrder
    <2>1. DOMAIN mempool = {} /\ mined = {}
      BY DEF Init
    <2>2. \A t \in Tx : ~Made(t)
      <3>1. \A t \in Tx : t.n >= 1 /\ t.n \in Nat /\ t.job \in Jobs /\ t.step \in Steps
        BY FundingAssumption DEF Tx
      <3>2. ASSUME NEW t \in Tx PROVE Len(Rows(t.job, t.step)) = 0
        BY <3>1 DEF Init, Rows
      <3> QED
        BY <3>1, <3>2 DEF Made
    <2> QED
      BY <2>1, <2>2 DEF MinedInOrder, InPool, IsMined
  <1>3. ChainOrder /\ Beliefs /\ Closed
    BY DEF Init, ChainOrder, Beliefs, Closed, FINAL_ON_CHAIN_STATUSES
  <1> QED
    BY <1>1, <1>2, <1>3 DEF FundInv

(* Every step keeps the invariant. *)
LEMMA FundStep == FundInv /\ [Next]_fundVars => FundInv'
  BY NextTypes, NextOrder, NextChain DEF FundInv, ChainInv

(* Every variable of the funding of a job stays of its type, whatever the  *)
(* rows, the budgets and the order of handlers, crashes and mining.        *)
THEOREM FundTypeCorrect == FundSpec => []FundTypeOK
  <1>1. FundInv => FundTypeOK
    BY DEF FundInv, FundTypes
  <1> QED
    BY FundInit, FundStep, <1>1, PTL DEF FundSpec

(* The books believe what the chain has done: a job that is FUNDED in the  *)
(* database was funded in the contract, an accepted one holds its budget   *)
(* until it expires, and only jobs that are over are rejected.             *)
THEOREM BooksBelieveTheChain == FundSpec => []Beliefs
  <1>1. FundInv => Beliefs
    BY DEF FundInv
  <1> QED
    BY FundInit, FundStep, <1>1, PTL DEF FundSpec

(* A provider that was let to accept works for a job whose budget is       *)
(* locked in the contract until it expires (assertEscrowAllowsAction with  *)
(* the outcome handlers, the unwinding and the reconciliation).            *)
THEOREM AcceptedHolds == FundSpec => []AcceptedIsFunded
  <1>1. FundInv => AcceptedIsFunded
    BY DEF FundInv, Beliefs, AcceptedIsFunded
  <1> QED
    BY FundInit, FundStep, <1>1, PTL DEF FundSpec

(* While the clocks agree, a job that the backend regards as over never    *)
(* holds a budget on the chain: the sweep closes an unfunded job only      *)
(* after the deadline, and then its fund reverts.                          *)
THEOREM FinalIsSettledHolds ==
    ASSUME ~ClockSkew
    PROVE  FundSpec => []FinalIsSettled
  <1>1. FundInv => FinalIsSettled
    BY DEF FundInv, Closed, FinalIsSettled
  <1> QED
    BY FundInit, FundStep, <1>1, PTL DEF FundSpec
=============================================================================
