------------------------ MODULE ProviderIdentityProofs ------------------------
(***************************************************************************)
(* Theorems about ProviderIdentity, for any jobs, scenarios and faults.    *)
(* None of its invariants is inductive.  What links a job's row to the     *)
(* chain is the one registration that was confirmed, and what each flow    *)
(* has read and not yet acted on: Base says of every flow, by where it is, *)
(* what still holds of that.  Claims is about the registrations, and       *)
(* Order about the provider's transactions.                                *)
(***************************************************************************)
EXTENDS ProviderIdentity, FiniteSetTheorems, TLAPS

(* The rows of a job, and the flow that starts its binding. *)
Binding(j)    == <<"bindAgent", j>>
Submission(j) == <<"submit", j>>
Start(j)      == <<"start", j>>

(* Where a row that was sent can be, and the registrations that are alive. *)
Sent == {"SUBMITTED", "CONFIRMED", "REVERTED", "DROPPED"}
Good == {r \in Registers : tx[r] \in IN_FLIGHT_TX}

(* The identities the backend can know of. *)
KnownIds == {token[r] : r \in {q \in Registers : tx[q] = "CONFIRMED"}} \ {NoId}

(* Where a flow is. *)
At(f, pcs) == flow[f].pc \in pcs

(***************************************************************************)
(* What needs no assumption.                                               *)
(***************************************************************************)
(* The registers are numbered in the order they were claimed. *)
InOrder == \E m \in 0..Cardinality(Jobs) :
              \A k \in 1..Cardinality(Jobs) : tx[<<"register", k>>] # None <=> k <= m

(* A row that is on the wire was sent, and a register is on it once. *)
OnTheWire ==
    /\ \A p \in DOMAIN mempool : tx[mempool[p]] # None
    /\ \A p \in DOMAIN mempool : mempool[p] \in Registers =>
          /\ tx[mempool[p]] \in {"SUBMITTED", "DROPPED"}
          /\ receipt[mempool[p]] = None /\ token[mempool[p]] = NoId
          /\ \A q \in DOMAIN mempool : mempool[q] = mempool[p] => q = p

(* What is minted was sent, and is reported. *)
Reported ==
    \A r \in Registers :
        /\ receipt[r] # None => tx[r] \in Sent
        /\ token[r] # NoId => receipt[r] = "CONFIRMED"
        /\ receipt[r] = "CONFIRMED" => token[r] # NoId
        /\ tx[r] \in {"CONFIRMED", "REVERTED"} => receipt[r] = tx[r]

(* The identities that are written or carried are of confirmed registers. *)
IdsKnown ==
    /\ identity.status = "REGISTERED" => identity.id \in KnownIds
    /\ \A f \in Flows : At(f, {"registered", "next", "claim", "enqueueBind"})
                          => flow[f].id \in KnownIds
    /\ \A j \in Jobs : agentId[j] # NoId => agentId[j] \in KnownIds

(* A binding begins once. *)
BeginsOnce ==
    /\ \A j \in Jobs : /\ onChain[j] = "APPROVED" => bind[j] = None
                       /\ bind[j] = None => agentId[j] = NoId
                       /\ agentId[j] = NoId => tx[Binding(j)] = None
    /\ \A f \in Flows : At(f, {"begin"}) => /\ f = Start(flow[f].job)
                                            /\ bind[flow[f].job] = None
                                            /\ onChain[flow[f].job] # "APPROVED"

(* The calldata of a bind is the id in the row of its job. *)
Carries == \A j \in Jobs : tx[Binding(j)] # None => calldata[j] = agentId[j]

(* The register with a number, if there is one, has failed. *)
IsFailed(k) == \A n \in Registers : n[2] = k => tx[n] \in FailedTx

(* What a flow has read, and still has to act on. *)
HandsOK ==
    \A f \in Flows :
        /\ At(f, {"claimRow"}) => flow[f].row \in {None, "FAILED"}
        /\ At(f, {"failing"}) => flow[f].todo # {}
        /\ At(f, {"failed"}) => IsFailed(flow[f].id)
        /\ At(f, {"enqueueBind"}) => /\ agentId[flow[f].job] # NoId
                                     /\ agentId[flow[f].job] = flow[f].id
        /\ At(f, {"bindEnded"}) /\ flow[f].ok
             => boundTo[flow[f].job] = agentId[flow[f].job] /\ agentId[flow[f].job] # NoId

(* A bind that succeeded has bound its job to the id in its row. *)
BindsHold ==
    \A j \in Jobs :
        (bind[j] = "BOUND" \/ tx[Binding(j)] = "CONFIRMED" \/ receipt[Binding(j)] = "CONFIRMED")
          => boundTo[j] = agentId[j] /\ agentId[j] # NoId

(* All of it. *)
Base == /\ IdTypeOK /\ InOrder /\ OnTheWire /\ Reported /\ IdsKnown
        /\ BeginsOnce /\ Carries /\ HandsOK /\ BindsHold

(***************************************************************************)
(* The registrations, until a late failure is written over one.            *)
(***************************************************************************)
Claiming == {"claimed", "enqueue"}

Claims ==
    \/ overwritten
    \/ /\ \A r, s \in Good : r = s
       /\ \A f, g \in Flows : At(f, Claiming) /\ At(g, Claiming) => f = g
       /\ (\E f \in Flows : At(f, Claiming)) => Good = {} /\ identity.status = "REGISTERING"
       /\ identity.status \in {None, "FAILED"} => Good = {}

(***************************************************************************)
(* The order of a job's bind and its submit, until its binding is passed   *)
(* by.                                                                     *)
(***************************************************************************)
(* A bind is enqueued once, and not ended before its row is. *)
OneBind ==
    /\ \A f, g \in Flows :
          At(f, {"enqueueBind"}) /\ At(g, {"enqueueBind"}) /\ flow[f].job = flow[g].job => f = g
    /\ \A f \in Flows : At(f, {"enqueueBind"}) => tx[Binding(flow[f].job)] = None
    /\ \A f \in Flows : At(f, {"bindEnded"}) =>
          /\ tx[Binding(flow[f].job)] \notin PENDING_TX
          /\ agentId[flow[f].job] # NoId
          /\ \A g \in Flows : At(g, {"enqueueBind"}) => flow[g].job # flow[f].job

(* What the guard has let pass is still to be bound. *)
VettedIsBinding ==
    \A j \in Jobs \ passed : tx[Binding(j)] = "VETTED" => bind[j] = "BINDING"

(* Is the binding of j ahead or under way? *)
Ahead(j) == \/ onChain[j] = "APPROVED" \/ bind[j] = "BINDING"
            \/ \E f \in Flows : At(f, {"begin"}) /\ flow[f].job = j

(* Until then nothing of the job is submitted. *)
NoSubmitYet ==
    /\ \A j \in Jobs \ passed : Ahead(j) =>
          /\ tx[Submission(j)] = None
          /\ \A f \in Flows : At(f, {"submit", "send"}) => flow[f].job # j
    /\ \A f \in Flows : At(f, {"defer"}) => bind[flow[f].job] # None
    /\ \A j \in Jobs : chain[j] = "Submitted" => tx[Submission(j)] # None

(* On the wire, the bind comes first. *)
BindsFirst ==
    \A q \in DOMAIN mempool : \A j \in Jobs \ passed : mempool[q] = Binding(j) =>
        /\ chain[j] # "Submitted"
        /\ \A p \in DOMAIN mempool : mempool[p] = Submission(j) => p > q

(* All of it. *)
Order == OneBind /\ VettedIsBinding /\ NoSubmitYet /\ BindsFirst

(* What holds of the registrations and the bindings. *)
IdInv == Base /\ Claims

(***************************************************************************)
(* Numbers, rows and flows.                                                *)
(***************************************************************************)
(* A non-empty set of natural numbers has a least one. *)
LEMMA LeastNumber ==
    ASSUME NEW T, T \subseteq Nat, T # {}
    PROVE  \E m \in T : \A k \in T : m <= k
  <1> DEFINE R == OpToRel(<, Nat)
  <1>1. IsWellFoundedOn(R, Nat)
    BY NatLessThanWellFounded, Zenon
  <1>2. \A x, y \in Nat : y < x => <<y, x>> \in R
    BY DEF OpToRel
  <1> HIDE DEF R
  <1>3. PICK m \in T : \A k \in T : ~ (<<k, m>> \in R)
    BY <1>1, WFMin
  <1>4. \A k \in T : ~ (k < m)
    BY <1>2, <1>3
  <1> QED
    BY <1>4

(* The oldest of some jobs is one of them. *)
LEMMA LeastIs ==
    ASSUME NEW S, S \subseteq Jobs, S # {}
    PROVE  Least(S) \in S
  <1>1. S \subseteq Nat
    BY IdentityAssumption
  <1>2. \E j \in S : \A i \in S : j <= i
    BY <1>1, LeastNumber
  <1> QED
    BY <1>2 DEF Least

(* The number of jobs bounds the registers. *)
LEMMA RegistersAreFinite ==
    /\ Cardinality(Jobs) \in Nat
    /\ IsFiniteSet(Registers)
    /\ \A k \in 1..Cardinality(Jobs) : <<"register", k>> \in Registers
    /\ \A r \in Registers : \E k \in 1..Cardinality(Jobs) : r = <<"register", k>>
  <1>1. Cardinality(Jobs) \in Nat
    BY FS_CardinalityType, IdentityAssumption
  <1>2. IsFiniteSet(1..Cardinality(Jobs))
    BY <1>1, FS_Interval
  <1>3. IsFiniteSet({"register"})
    BY FS_Singleton
  <1>4. IsFiniteSet({"register"} \X (1..Cardinality(Jobs)))
    BY <1>2, <1>3, FS_Product
  <1> QED
    BY <1>1, <1>4 DEF Registers

(* A register is known by its number. *)
LEMMA NumberIs ==
    \A n \in Registers : n[2] \in Nat \ {0} /\ n = <<"register", n[2]>>
  BY RegistersAreFinite DEF Registers

(* How many have been claimed is a number ... *)
LEMMA CountIsNumber == RegCount \in Nat /\ Minted \in Nat
  <1>1. IsFiniteSet({r \in Registers : tx[r] # None}) /\ IsFiniteSet({r \in Registers : token[r] # NoId})
    BY RegistersAreFinite, FS_Subset
  <1> QED
    BY <1>1, FS_CardinalityType DEF RegCount, Minted

(* ... and the one they are in order up to. *)
LEMMA CountIs ==
    ASSUME NEW m \in 0..Cardinality(Jobs),
           \A k \in 1..Cardinality(Jobs) : tx[<<"register", k>>] # None <=> k <= m
    PROVE  RegCount = m
  <1>1. Cardinality(Jobs) \in Nat /\ m \in Nat
    BY RegistersAreFinite
  <1>2. {r \in Registers : tx[r] # None} = {"register"} \X (1..m)
    BY <1>1 DEF Registers
  <1>3. IsFiniteSet({"register"}) /\ Cardinality({"register"}) = 1
    BY FS_Singleton
  <1>4. IsFiniteSet(1..m) /\ Cardinality(1..m) = m
    BY <1>1, FS_Interval
  <1>5. Cardinality({"register"} \X (1..m)) = Cardinality({"register"}) * Cardinality(1..m)
    BY <1>3, <1>4, FS_Product
  <1>6. 1 * m = m
    BY <1>1
  <1>7. RegCount = Cardinality({"register"} \X (1..m))
    BY <1>2, Zenon DEF RegCount
  <1> QED
    BY <1>3, <1>4, <1>5, <1>6, <1>7, Zenon

(* The rows are of three kinds, and no row is of two. *)
LEMMA RowKinds ==
    /\ \A j \in Jobs : /\ Binding(j) \in Rows /\ Submission(j) \in Rows /\ Binding(j) \in Identity
                       /\ Binding(j) \notin Registers /\ Submission(j) \notin Identity
                       /\ Binding(j)[1] = "bindAgent" /\ Submission(j)[1] = "submit"
                       /\ Binding(j)[2] = j /\ Submission(j)[2] = j
                       /\ Binding(j) \in Flows /\ Start(j) \in Flows
                       /\ Binding(j) # Start(j)
    /\ \A f \in Flows : f[1] = "start" => f[2] \in Jobs /\ f = Start(f[2])
    /\ \A i, j \in Jobs : Binding(i) # Submission(j)
    /\ \A i, j \in Jobs : (Binding(i) = Binding(j) \/ Submission(i) = Submission(j)) => i = j
    /\ \A r \in Registers : r \in Rows /\ r \in Identity /\ r \in Flows /\ r[1] = "register"
    /\ \A n \in Rows : n \in Registers \/ \E j \in Jobs : n = Binding(j) \/ n = Submission(j)
    /\ \A n \in Identity : n \in Rows /\ n \in Flows
                           /\ (n \in Registers \/ \E j \in Jobs : n = Binding(j))
  BY DEF Rows, Identity, Registers, Flows, Binding, Submission, Start

(* Every flow that goes on leaves the others alone. *)
LEMMA GoesOn ==
    ASSUME IdTypeOK, NEW f \in Flows, NEW r, Goes(f, r)
    PROVE  flow'[f] = r /\ \A g \in Flows : g # f => flow'[g] = flow[g]
  BY DEF IdTypeOK, Goes

(* Where a flow that is over is. *)
LEMMA OverIs ==
    ASSUME NEW f, NEW r
    PROVE  Over(f, r).pc \in {"idle", "release"}
  BY DEF Over, Idle

(***************************************************************************)
(* Where flows go.                                                         *)
(***************************************************************************)
FlowRec == [pc : Pcs, row : {None, "REGISTERING", "REGISTERED", "FAILED"},
            job : Jobs \cup {0}, id : Nat \cup {NoId}, ok : BOOLEAN,
            todo : SUBSET Jobs, ended : SUBSET Jobs]
(* A flow that acts for a job has one in hand. *)
OkRec   == {r \in FlowRec : r.pc \in InHand => r.job \in Jobs}

(* What holds when a flow gets to a place, by the place. *)
Expect(f, r) ==
    /\ r.pc = "begin" => f = Start(r.job) /\ onChain[r.job] = "APPROVED" /\ onChain'[r.job] # "APPROVED"
    /\ r.pc = "claimRow" => r.row \in {None, "FAILED"}
    /\ r.pc \in Claiming =>
          \/ identity.status \in {None, "FAILED"} /\ identity'.status = "REGISTERING"
          \/ At(f, {"claimed"})
    /\ r.pc \in {"registered", "next", "claim", "enqueueBind"} => r.id \in KnownIds
    /\ r.pc = "failed" =>
          \A n \in Registers : n[2] = r.id => (tx[n] \in FailedTx \/ tx'[n] \in FailedTx)
    /\ r.pc = "failing" => r.todo # {}
    /\ r.pc = "enqueueBind" => r.job \in Waiting /\ agentId'[r.job] # NoId /\ agentId'[r.job] = r.id
    /\ r.pc = "bindEnded" => /\ agentId[r.job] # NoId
                             /\ tx'[Binding(r.job)] \notin PENDING_TX
                             /\ r.ok => tx'[Binding(r.job)] = "CONFIRMED"
                             /\ \/ tx[Binding(r.job)] # None
                                \/ \A g \in Flows : At(g, {"enqueueBind"}) => flow[g].job # r.job
    /\ r.pc = "defer" => bind[r.job] = "BINDING"
    /\ r.pc = "submit" => /\ bind[r.job] # "BINDING"
                          /\ \/ /\ onChain[r.job] = "FUNDED"
                                /\ r.job \in passed' \/ ~ At(Start(r.job), {"begin"})
                             \/ At(f, {"defer"}) /\ r.job = flow[f].job
    /\ r.pc = "send" => bind[r.job] \in TERMINAL_BINDING_STATUSES

(* A flow goes somewhere, and what is expected there holds. *)
FlowStep(f) == \E r \in OkRec : Goes(f, r) /\ Expect(f, r)

(* Most places expect nothing. *)
Quiet == {"idle", "ensure", "lost", "waiting", "pump", "look", "release"}

(* Going to such a place is a step. *)
LEMMA QuietStep ==
    ASSUME NEW f, NEW r \in FlowRec, r.pc \in Quiet, Goes(f, r)
    PROVE  FlowStep(f)
  <1>1. r \in OkRec
    BY DEF OkRec, Quiet, InHand
  <1>2. Expect(f, r)
    BY DEF Expect, Quiet, Claiming
  <1> QED
    BY <1>1, <1>2 DEF FlowStep

(* The flows are records, and one that is over expects nothing. *)
LEMMA FlowIs ==
    ASSUME IdTypeOK, NEW f \in Flows
    PROVE  flow[f] \in FlowRec /\ (flow[f].pc \in InHand => flow[f].job \in Jobs)
  BY DEF IdTypeOK, FlowRec

(* So is being over. *)
LEMMA OverStep ==
    ASSUME NEW f, NEW r \in FlowRec, Goes(f, Over(f, r))
    PROVE  FlowStep(f)
  <1>1. Over(f, r) \in FlowRec /\ Over(f, r).pc \in Quiet
    BY DEF Over, Idle, FlowRec, Pcs, Quiet
  <1> QED
    BY <1>1, QuietStep

(* The id that a confirmed register minted is known. *)
LEMMA TokenIsKnown ==
    ASSUME IdTypeOK, Reported, NEW n \in Registers, tx[n] = "CONFIRMED"
    PROVE  token[n] \in KnownIds /\ token[n] \in Nat
  <1>1. token[n] # NoId
    BY DEF Reported
  <1> QED
    BY <1>1 DEF KnownIds, IdTypeOK

(* A flow that is about to fail a registration, or that of a dead claimer. *)
LEMMA FailsStep ==
    ASSUME NEW f, NEW r \in FlowRec, NEW k \in Nat, Fails(f, r, k),
           \A n \in Registers : n[2] = k => (tx[n] \in FailedTx \/ tx'[n] \in FailedTx)
    PROVE  FlowStep(f)
  <1> DEFINE x == [r EXCEPT !.pc = "failed", !.id = k]
  <1>1. x \in OkRec /\ x.pc = "failed" /\ x.id = k
    <2>1. x \in FlowRec /\ x.pc = "failed" /\ x.id = k
      BY DEF FlowRec, Pcs
    <2> QED
      BY <2>1 DEF OkRec, InHand
  <1> HIDE DEF x
  <1>2. Expect(f, x)
    BY <1>1 DEF Expect, Claiming
  <1> QED
    BY <1>1, <1>2 DEF FlowStep, Fails, x

(* The outcome of a register. *)
LEMMA OutcomeStep ==
    ASSUME IdTypeOK, Reported, NEW f, NEW r \in FlowRec, NEW n \in Registers,
           RegisterOutcome(f, r, n)
    PROVE  FlowStep(f)
  <1>1. CASE tx[n] = "CONFIRMED" /\ Goes(f, [r EXCEPT !.pc = "registered", !.id = token[n]])
    <2> DEFINE x == [r EXCEPT !.pc = "registered", !.id = token[n]]
    <2>1. token[n] \in KnownIds /\ token[n] \in Nat
      BY <1>1, TokenIsKnown
    <2>2. x \in OkRec /\ x.pc = "registered" /\ x.id \in KnownIds
      BY <2>1 DEF OkRec, FlowRec, InHand, Pcs
    <2> HIDE DEF x
    <2>3. Expect(f, x)
      BY <2>2 DEF Expect, Claiming
    <2> QED
      BY <1>1, <2>2, <2>3 DEF FlowStep, x
  <1>2. CASE Goes(f, Over(f, r))
    BY <1>2, OverStep
  <1>3. CASE tx[n] \in FailedTx /\ Fails(f, r, n[2])
    BY <1>3, NumberIs, FailsStep
  <1> QED
    BY <1>1, <1>2, <1>3 DEF RegisterOutcome

(* The latest register, when its outcome is asked for, is one. *)
LEMMA LatestIs ==
    ASSUME InOrder, LatestRegister = "ended"
    PROVE  Latest \in Registers
  <1>1. PICK m \in 0..Cardinality(Jobs) :
          \A k \in 1..Cardinality(Jobs) : tx[<<"register", k>>] # None <=> k <= m
    BY DEF InOrder
  <1>2. RegCount = m
    BY <1>1, CountIs
  <1>3. RegCount # 0
    BY DEF LatestRegister
  <1>4. m \in 1..Cardinality(Jobs)
    BY <1>2, <1>3, RegistersAreFinite
  <1> QED
    BY <1>2, <1>4, RegistersAreFinite DEF Latest

(* The repair of a registration. *)
LEMMA RepairStep ==
    ASSUME IdTypeOK, Reported, InOrder, NEW f, NEW r \in FlowRec, NEW b,
           RepairRegistration(f, r, b)
    PROVE  FlowStep(f)
  <1>1. CASE Goes(f, Over(f, r))
    BY <1>1, OverStep
  <1>2. CASE Fails(f, r, 0)
    BY <1>2, NumberIs, FailsStep
  <1>3. CASE LatestRegister = "ended" /\ RegisterOutcome(f, r, Latest)
    BY <1>3, LatestIs, OutcomeStep
  <1> QED
    BY <1>1, <1>2, <1>3 DEF RepairRegistration

(* A flow that stays what it was, but elsewhere. *)
LEMMA StaysRecord ==
    ASSUME IdTypeOK, NEW f \in Flows
    PROVE  /\ flow[f] \in FlowRec
           /\ \A p \in Pcs : LET r == [flow[f] EXCEPT !.pc = p]
                             IN  /\ r \in FlowRec /\ r.pc = p /\ r.job = flow[f].job /\ r.id = flow[f].id
                                 /\ r.todo = flow[f].todo
           /\ \A j \in Jobs : /\ [flow[f] EXCEPT !.ended = @ \cup {j}] \in FlowRec
                              /\ [flow[f] EXCEPT !.ended = @ \cup Ending(j)] \in FlowRec
           /\ \A j : [flow[f] EXCEPT !.ended = @ \ {j}] \in FlowRec
  BY FlowIs DEF FlowRec, Ending

(* The start of a binding. *)
LEMMA FundFlows ==
    ASSUME IdTypeOK, NEW j \in Jobs, FundConfirmed(j), flow' # flow
    PROVE  FlowStep(Start(j))
  <1> DEFINE x == [Idle EXCEPT !.pc = "begin", !.job = j]
  <1>1. Goes(Start(j), x) /\ onChain[j] = "APPROVED" /\ onChain' = [onChain EXCEPT ![j] = "FUNDED"]
    BY DEF FundConfirmed, Start
  <1>2. x \in OkRec /\ x.pc = "begin" /\ x.job = j
    BY DEF Idle, OkRec, FlowRec, Pcs
  <1>3. onChain'[j] # "APPROVED"
    BY <1>1 DEF IdTypeOK
  <1> HIDE DEF x
  <1>4. Expect(Start(j), x)
    BY <1>1, <1>2, <1>3 DEF Expect, Claiming
  <1> QED
    BY <1>1, <1>2, <1>4 DEF FlowStep

(* Steps to where nothing is expected. *)
LEMMA QuietFlows ==
    ASSUME IdTypeOK, NEW f \in Flows, Begin(f) \/ Registered(f) \/ BindEnded(f) \/ Submit(f)
    PROVE  FlowStep(f)
  <1>1. CASE Begin(f)
    <2>1. "ensure" \in Pcs
      BY DEF Pcs
    <2> QED
      BY <1>1, <2>1, StaysRecord, QuietStep DEF Begin, Quiet
  <1>2. CASE Registered(f)
    <2>1. "pump" \in Pcs
      BY DEF Pcs
    <2> QED
      BY <1>2, <2>1, StaysRecord, QuietStep DEF Registered, Quiet
  <1>3. CASE BindEnded(f)
    <2> DEFINE x == [flow[f] EXCEPT !.pc = "pump", !.ok = FALSE, !.ended = @ \cup {flow[f].job}]
    <2>1. x \in FlowRec /\ x.pc = "pump"
      BY <1>3, FlowIs DEF BindEnded, FlowRec, Pcs, InHand
    <2>2. Goes(f, x)
      BY <1>3 DEF BindEnded
    <2> HIDE DEF x
    <2> QED
      BY <2>1, <2>2, QuietStep DEF Quiet
  <1>4. CASE Submit(f)
    <2>1. Idle \in FlowRec /\ Idle.pc = "idle"
      BY DEF Idle, FlowRec, Pcs
    <2> QED
      BY <1>4, <2>1, QuietStep DEF Submit, Quiet
  <1> QED
    BY <1>1, <1>2, <1>3, <1>4

(* The row as it is read. *)
LEMMA JoinsStep ==
    ASSUME IdTypeOK, Reported, InOrder, NEW f \in Flows, Joins(f, flow[f])
    PROVE  FlowStep(f)
  <1>1. CASE Goes(f, [flow[f] EXCEPT !.pc = "pump"])
    <2>1. "pump" \in Pcs
      BY DEF Pcs
    <2> QED
      BY <1>1, <2>1, StaysRecord, QuietStep DEF Quiet
  <1>2. CASE RepairRegistration(f, flow[f], FALSE)
    BY <1>2, FlowIs, RepairStep
  <1> QED
    BY <1>1, <1>2 DEF Joins

(* The claim of a registration: what is read ... *)
LEMMA EnsureFlows ==
    ASSUME IdTypeOK, Reported, InOrder, NEW f \in Flows, Ensure(f)
    PROVE  FlowStep(f)
  <1>1. CASE /\ identity.status \in {None, "FAILED"}
             /\ Goes(f, [flow[f] EXCEPT !.pc = "claimRow", !.row = identity.status])
    <2> DEFINE x == [flow[f] EXCEPT !.pc = "claimRow", !.row = identity.status]
    <2>1. x \in OkRec /\ x.pc = "claimRow" /\ x.row = identity.status
      BY <1>1, FlowIs DEF OkRec, FlowRec, Pcs, InHand
    <2> HIDE DEF x
    <2>2. Expect(f, x)
      BY <1>1, <2>1 DEF Expect, Claiming
    <2> QED
      BY <1>1, <2>1, <2>2 DEF FlowStep, x
  <1> QED
    BY <1>1, JoinsStep DEF Ensure

(* ... what is written ... *)
LEMMA ClaimRowFlows ==
    ASSUME IdTypeOK, HandsOK, NEW f \in Flows, ClaimRow(f)
    PROVE  FlowStep(f)
  <1> DEFINE r == [flow[f] EXCEPT !.row = None]
             x == [r EXCEPT !.pc = "enqueue", !.row = "REGISTERING"]
             y == [r EXCEPT !.pc = "claimed"]
             z == [r EXCEPT !.pc = "lost"]
  <1>1. /\ x \in OkRec /\ x.pc = "enqueue"
        /\ y \in OkRec /\ y.pc = "claimed"
        /\ z \in FlowRec /\ z.pc = "lost"
    BY FlowIs DEF OkRec, FlowRec, Pcs, InHand
  <1>2. flow[f].row \in {None, "FAILED"}
    BY DEF ClaimRow, HandsOK, At
  <1>3. \/ /\ identity.status = flow[f].row
           /\ identity' = [status |-> "REGISTERING", id |-> 0, after |-> RegCount]
           /\ Goes(f, x) \/ Goes(f, y)
        \/ Goes(f, z)
    BY DEF ClaimRow
  <1> HIDE DEF x, y, z
  <1>5. CASE Goes(f, z)
    BY <1>1, <1>5, QuietStep DEF Quiet
  <1>6. CASE /\ identity.status = flow[f].row /\ identity'.status = "REGISTERING"
             /\ Goes(f, x) \/ Goes(f, y)
    <2>1. Expect(f, x) /\ Expect(f, y)
      BY <1>1, <1>2, <1>6 DEF Expect, Claiming
    <2> QED
      BY <1>1, <1>6, <2>1 DEF FlowStep
  <1>7. ASSUME identity' = [status |-> "REGISTERING", id |-> 0, after |-> RegCount]
        PROVE  identity'.status = "REGISTERING"
    BY <1>7
  <1> QED
    BY <1>3, <1>5, <1>6, <1>7

(* ... and what is read again. *)
LEMMA RereadFlows ==
    ASSUME IdTypeOK, Reported, InOrder, NEW f \in Flows, Reread(f)
    PROVE  FlowStep(f)
  <1>1. CASE flow[f].pc = "claimed" /\ Goes(f, [flow[f] EXCEPT !.pc = "enqueue", !.row = identity.status])
    <2> DEFINE x == [flow[f] EXCEPT !.pc = "enqueue", !.row = identity.status]
    <2>1. identity.status \in {None, "REGISTERING", "REGISTERED", "FAILED"}
      BY DEF IdTypeOK
    <2>2. flow[f] \in FlowRec /\ "enqueue" \in Pcs \ InHand
      BY FlowIs DEF Pcs, InHand
    <2>3. x \in FlowRec /\ x.pc = "enqueue"
      BY <2>1, <2>2 DEF FlowRec
    <2>4. x \in OkRec
      BY <2>2, <2>3 DEF OkRec
    <2> HIDE DEF x
    <2>5. Expect(f, x)
      BY <1>1, <2>3 DEF Expect, Claiming, At
    <2> QED
      BY <1>1, <2>4, <2>5 DEF FlowStep, x
  <1>2. CASE Goes(f, [flow[f] EXCEPT !.pc = "waiting"])
    <2>1. "waiting" \in Pcs
      BY DEF Pcs
    <2> QED
      BY <1>2, <2>1, StaysRecord, QuietStep DEF Quiet
  <1> QED
    BY <1>1, <1>2, JoinsStep DEF Reread

(* The register: where its flow goes ... *)
LEMMA EnqueueGoes ==
    ASSUME IdTypeOK, NEW f \in Flows, EnqueueRegister(f)
    PROVE  \/ \E x \in FlowRec : x.pc \in {"idle", "waiting", "pump"} /\ Goes(f, x)
           \/ \E x \in FlowRec : /\ Fails(f, x, RegCount + 1)
                                 /\ tx' = [tx EXCEPT ![<<"register", RegCount + 1>>] = "UNSENT"]
  <1> DEFINE w == [flow[f] EXCEPT !.pc = "waiting", !.row = None]
             p == [flow[f] EXCEPT !.pc = "pump", !.row = None]
             q == [flow[f] EXCEPT !.row = None]
  <1>1. /\ w \in FlowRec /\ w.pc = "waiting"
        /\ p \in FlowRec /\ p.pc = "pump"
        /\ q \in FlowRec
        /\ Idle \in FlowRec /\ Idle.pc = "idle"
    BY FlowIs DEF FlowRec, Pcs, Idle
  <1>2. \/ Goes(f, w) \/ Goes(f, p) \/ Goes(f, Idle)
        \/ /\ Fails(f, q, <<"register", RegCount + 1>>[2])
           /\ tx' = [tx EXCEPT ![<<"register", RegCount + 1>>] = "UNSENT"]
    BY DEF EnqueueRegister
  <1> HIDE DEF w, p, q
  <1>3. <<"register", RegCount + 1>>[2] = RegCount + 1
    OBVIOUS
  <1> QED
    BY <1>1, <1>2, <1>3

(* ... is a step. *)
LEMMA EnqueueFlows ==
    ASSUME IdTypeOK, NEW f \in Flows, EnqueueRegister(f)
    PROVE  FlowStep(f)
  <1> DEFINE n == <<"register", RegCount + 1>>
  <1>1. ASSUME NEW x \in FlowRec, x.pc \in {"idle", "waiting", "pump"}, Goes(f, x)
        PROVE  FlowStep(f)
    BY <1>1, QuietStep DEF Quiet
  <1>2. ASSUME NEW x \in FlowRec, Fails(f, x, RegCount + 1), tx' = [tx EXCEPT ![n] = "UNSENT"]
        PROVE  FlowStep(f)
    <2>1. \A m \in Registers : m[2] = RegCount + 1 => m = n
      BY NumberIs
    <2>2. \A m \in Registers : m[2] = RegCount + 1 => tx'[m] \in FailedTx
      BY <1>2, <2>1, RowKinds DEF IdTypeOK, FailedTx
    <2>3. RegCount + 1 \in Nat
      BY CountIsNumber
    <2> QED
      BY <1>2, <2>2, <2>3, FailsStep
  <1> QED
    BY <1>1, <1>2, EnqueueGoes

(* The end of a failed registration. *)
LEMMA FailFlows ==
    ASSUME IdTypeOK, NEW f \in Flows, FailIdentity(f)
    PROVE  FlowStep(f)
  <1> DEFINE x == [flow[f] EXCEPT !.pc = "waiting", !.id = 0]
  <1>1. x \in OkRec /\ x.pc = "waiting"
    BY FlowIs DEF OkRec, FlowRec, Pcs, InHand
  <1>2. Goes(f, x)
    BY DEF FailIdentity
  <1> HIDE DEF x
  <1>3. Expect(f, x)
    BY <1>1 DEF Expect, Claiming
  <1> QED
    BY <1>1, <1>2, <1>3 DEF FlowStep

(* The list of the waiting jobs ... *)
LEMMA ListFlows ==
    ASSUME IdTypeOK, NEW f \in Flows, ListWaiting(f)
    PROVE  FlowStep(f)
  <1>1. CASE Goes(f, Over(f, flow[f]))
    BY <1>1, FlowIs, OverStep
  <1>2. CASE /\ flow[f].pc = "waiting" /\ Waiting # {}
             /\ Goes(f, [flow[f] EXCEPT !.pc = "failing", !.todo = Waiting])
    <2> DEFINE x == [flow[f] EXCEPT !.pc = "failing", !.todo = Waiting]
    <2>1. x \in OkRec /\ x.pc = "failing" /\ x.todo = Waiting
      BY FlowIs DEF OkRec, FlowRec, Pcs, InHand, Waiting
    <2> HIDE DEF x
    <2>2. Expect(f, x)
      BY <1>2, <2>1 DEF Expect, Claiming, At
    <2> QED
      BY <1>2, <2>1, <2>2 DEF FlowStep, x
  <1> QED
    BY <1>1, <1>2 DEF ListWaiting

(* ... which are told one by one. *)
LEMMA FailWaitingFlows ==
    ASSUME IdTypeOK, HandsOK, NEW f \in Flows, FailWaiting(f)
    PROVE  FlowStep(f)
  <1> DEFINE j == Least(flow[f].todo)
             x == [flow[f] EXCEPT !.todo = @ \ {j}, !.ended = @ \cup Ending(j)]
  <1>1. flow[f] \in FlowRec /\ flow[f].todo # {} /\ flow[f].pc = "failing"
    BY FlowIs DEF FailWaiting, HandsOK, At
  <1>2. flow[f].todo \subseteq Jobs
    BY <1>1 DEF FlowRec
  <1>3. j \in Jobs
    BY <1>1, <1>2, LeastIs
  <1> HIDE DEF j
  <1>4. /\ x \in FlowRec /\ x.pc = "failing" /\ x.todo = flow[f].todo \ {j}
    BY <1>1, <1>3 DEF FlowRec, Ending
  <1> HIDE DEF x
  <1>5. (x.todo = {} /\ Goes(f, Over(f, x))) \/ (x.todo # {} /\ Goes(f, x))
    BY DEF FailWaiting, x, j
  <1>6. ASSUME x.todo # {}, Goes(f, x) PROVE FlowStep(f)
    <2>1. x \in OkRec
      BY <1>4 DEF OkRec, InHand
    <2>2. Expect(f, x)
      BY <1>1, <1>4, <1>6 DEF Expect, Claiming, At
    <2> QED
      BY <1>6, <2>1, <2>2 DEF FlowStep
  <1> QED
    BY <1>4, <1>5, <1>6, OverStep

(* The lane. *)
LEMMA LaneFlows ==
    ASSUME IdTypeOK, IdsKnown, NEW f \in Flows, LookAtLane(f)
    PROVE  FlowStep(f)
  <1>1. CASE Goes(f, Over(f, flow[f]))
    BY <1>1, FlowIs, OverStep
  <1>2. CASE identity.status = "REGISTERED" /\ Goes(f, [flow[f] EXCEPT !.pc = "next", !.id = identity.id])
    <2> DEFINE x == [flow[f] EXCEPT !.pc = "next", !.id = identity.id]
    <2>1. identity.id \in KnownIds /\ identity.id \in Nat \cup {NoId}
      BY <1>2 DEF IdsKnown, IdTypeOK
    <2>2. x \in OkRec /\ x.pc = "next" /\ x.id = identity.id
      BY <2>1, FlowIs DEF OkRec, FlowRec, Pcs, InHand
    <2> HIDE DEF x
    <2>3. Expect(f, x)
      BY <2>1, <2>2 DEF Expect, Claiming
    <2> QED
      BY <1>2, <2>2, <2>3 DEF FlowStep, x
  <1> QED
    BY <1>1, <1>2 DEF LookAtLane

(* The oldest waiting job is taken, or skipped ... *)
LEMMA NextFlows ==
    ASSUME IdTypeOK, IdsKnown, NEW f \in Flows, NextWaiting(f)
    PROVE  FlowStep(f)
  <1> DEFINE j == Least(Waiting)
  <1>1. flow[f] \in FlowRec /\ flow[f].pc = "next" /\ flow[f].id \in KnownIds
    BY FlowIs DEF NextWaiting, IdsKnown, At
  <1>2. Waiting # {} => j \in Jobs
    BY LeastIs DEF Waiting
  <1> HIDE DEF j
  <1>3. CASE Goes(f, Over(f, flow[f]))
    BY <1>1, <1>3, OverStep
  <1>4. CASE Waiting # {} /\ Goes(f, [flow[f] EXCEPT !.ended = @ \cup {j}])
    <2> DEFINE x == [flow[f] EXCEPT !.ended = @ \cup {j}]
    <2>1. x \in OkRec /\ x.pc = "next" /\ x.id = flow[f].id
      BY <1>1, <1>2, <1>4 DEF OkRec, FlowRec, InHand
    <2> HIDE DEF x
    <2>2. Expect(f, x)
      BY <1>1, <2>1 DEF Expect, Claiming
    <2> QED
      BY <1>4, <2>1, <2>2 DEF FlowStep, x
  <1>5. CASE Waiting # {} /\ Goes(f, [flow[f] EXCEPT !.pc = "claim", !.job = j])
    <2> DEFINE x == [flow[f] EXCEPT !.pc = "claim", !.job = j]
    <2>1. x \in OkRec /\ x.pc = "claim" /\ x.id = flow[f].id
      BY <1>1, <1>2, <1>5 DEF OkRec, FlowRec, Pcs, InHand
    <2> HIDE DEF x
    <2>2. Expect(f, x)
      BY <1>1, <2>1 DEF Expect, Claiming
    <2> QED
      BY <1>5, <2>1, <2>2 DEF FlowStep, x
  <1> QED
    BY <1>3, <1>4, <1>5 DEF NextWaiting, j

(* ... claimed ... *)
LEMMA ClaimFlows ==
    ASSUME IdTypeOK, IdsKnown, NEW f \in Flows, ClaimJob(f)
    PROVE  FlowStep(f)
  <1>1. flow[f] \in FlowRec /\ flow[f].pc = "claim" /\ flow[f].id \in KnownIds
    BY FlowIs DEF ClaimJob, IdsKnown, At
  <1>2. CASE Goes(f, Over(f, flow[f]))
    BY <1>1, <1>2, OverStep
  <1>3. CASE /\ flow[f].job \in Waiting
             /\ agentId' = [agentId EXCEPT ![flow[f].job] = flow[f].id]
             /\ Goes(f, [flow[f] EXCEPT !.pc = "enqueueBind"])
    <2> DEFINE x == [flow[f] EXCEPT !.pc = "enqueueBind"]
    <2>1. flow[f].job \in Jobs /\ flow[f].id # NoId
      BY <1>1, <1>3 DEF Waiting, KnownIds
    <2>2. x \in OkRec /\ x.pc = "enqueueBind" /\ x.id = flow[f].id /\ x.job = flow[f].job
      BY <1>1, <2>1 DEF OkRec, FlowRec, Pcs, InHand
    <2>3. agentId'[flow[f].job] # NoId /\ agentId'[flow[f].job] = flow[f].id
      BY <1>3, <2>1 DEF IdTypeOK
    <2> HIDE DEF x
    <2>4. Expect(f, x)
      BY <1>1, <1>3, <2>2, <2>3 DEF Expect, Claiming
    <2> QED
      BY <1>3, <2>2, <2>4 DEF FlowStep, x
  <1> QED
    BY <1>2, <1>3 DEF ClaimJob

(* ... and its bind enqueued. *)
LEMMA BindFlows ==
    ASSUME IdTypeOK, IdsKnown, NEW f \in Flows, EnqueueBind(f)
    PROVE  FlowStep(f)
  <1>1. flow[f] \in FlowRec /\ flow[f].pc = "enqueueBind" /\ flow[f].id \in KnownIds /\ flow[f].job \in Jobs
    BY FlowIs DEF EnqueueBind, IdsKnown, At, InHand
  <1>2. CASE Goes(f, Over(f, flow[f]))
    BY <1>1, <1>2, OverStep
  <1>3. CASE Goes(f, [flow[f] EXCEPT !.pc = "next", !.ended = @ \cup Ending(flow[f].job)])
    <2> DEFINE x == [flow[f] EXCEPT !.pc = "next", !.ended = @ \cup Ending(flow[f].job)]
    <2>1. x \in OkRec /\ x.pc = "next" /\ x.id = flow[f].id
      BY <1>1 DEF OkRec, FlowRec, Pcs, InHand, Ending
    <2> HIDE DEF x
    <2>2. Expect(f, x)
      BY <1>1, <2>1 DEF Expect, Claiming
    <2> QED
      BY <1>3, <2>1, <2>2 DEF FlowStep, x
  <1> QED
    BY <1>2, <1>3 DEF EnqueueBind

(* The handler of a register. *)
LEMMA RegisterFlows ==
    ASSUME IdTypeOK, Reported, NEW f \in Flows, RegisterEnded(f)
    PROVE  FlowStep(f)
  <1>1. CASE Goes(f, [flow[f] EXCEPT !.pc = "pump"])
    <2>1. "pump" \in Pcs
      BY DEF Pcs
    <2> QED
      BY <1>1, <2>1, StaysRecord, QuietStep DEF Quiet
  <1>2. CASE f \in Registers /\ RegisterOutcome(f, flow[f], f)
    BY <1>2, FlowIs, OutcomeStep
  <1> QED
    BY <1>1, <1>2 DEF RegisterEnded

(* The deliverable. *)
LEMMA DeliverFlows ==
    ASSUME IdTypeOK, NEW j \in Jobs, Deliver(j)
    PROVE  <<"deliver", j>> \in Flows /\ FlowStep(<<"deliver", j>>)
  <1> DEFINE x == [Idle EXCEPT !.pc = IF bind[j] = "BINDING" THEN "defer" ELSE "submit", !.job = j]
  <1>1. Goes(<<"deliver", j>>, x) /\ onChain[j] = "FUNDED"
        /\ (j \in passed' \/ ~ At(Start(j), {"begin"}))
    BY DEF Deliver, At, Start
  <1>2. /\ x \in OkRec /\ x.job = j
        /\ x.pc = IF bind[j] = "BINDING" THEN "defer" ELSE "submit"
    BY DEF Idle, OkRec, FlowRec, Pcs
  <1> HIDE DEF x
  <1>3. Expect(<<"deliver", j>>, x)
    BY <1>1, <1>2 DEF Expect, Claiming
  <1> QED
    BY <1>1, <1>2, <1>3 DEF FlowStep, Flows

(* It is deferred, or sent after all. *)
LEMMA DeferFlows ==
    ASSUME IdTypeOK, NEW f \in Flows, Defer(f)
    PROVE  FlowStep(f)
  <1>1. flow[f] \in FlowRec /\ flow[f].pc = "defer" /\ flow[f].job \in Jobs
    BY FlowIs DEF Defer, InHand
  <1>2. CASE Goes(f, Idle)
    <2>1. Idle \in FlowRec /\ Idle.pc = "idle"
      BY DEF Idle, FlowRec, Pcs
    <2> QED
      BY <1>2, <2>1, QuietStep DEF Quiet
  <1>3. CASE bind[flow[f].job] # "BINDING" /\ Goes(f, [flow[f] EXCEPT !.pc = "submit"])
    <2> DEFINE x == [flow[f] EXCEPT !.pc = "submit"]
    <2>1. x \in OkRec /\ x.pc = "submit" /\ x.job = flow[f].job
      BY <1>1 DEF OkRec, FlowRec, Pcs
    <2> HIDE DEF x
    <2>2. Expect(f, x)
      BY <1>1, <1>3, <2>1 DEF Expect, Claiming, At
    <2> QED
      BY <1>3, <2>1, <2>2 DEF FlowStep, x
  <1> QED
    BY <1>2, <1>3 DEF Defer

(* A deferred one is released ... *)
LEMMA ReleaseFlows ==
    ASSUME IdTypeOK, NEW f \in Flows, Release(f)
    PROVE  FlowStep(f)
  <1> DEFINE j == Least(flow[f].ended)
  <1>1. flow[f] \in FlowRec
    BY FlowIs
  <1> HIDE DEF j
  <1>2. CASE Goes(f, Over(f, [flow[f] EXCEPT !.ended = @ \ {j}]))
    BY <1>2, StaysRecord, OverStep
  <1>3. CASE /\ j \in deferred /\ [i \in Jobs |-> bind[i] \in TERMINAL_BINDING_STATUSES][j]
             /\ Goes(f, [flow[f] EXCEPT !.pc = "send", !.job = j, !.ended = @ \ {j}])
    <2> DEFINE x == [flow[f] EXCEPT !.pc = "send", !.job = j, !.ended = @ \ {j}]
    <2>1. j \in Jobs /\ bind[j] \in TERMINAL_BINDING_STATUSES
      BY <1>3 DEF IdTypeOK
    <2>2. x \in OkRec /\ x.pc = "send" /\ x.job = j
      BY <1>1, <2>1 DEF OkRec, FlowRec, Pcs
    <2> HIDE DEF x
    <2>3. Expect(f, x)
      BY <2>1, <2>2 DEF Expect, Claiming
    <2> QED
      BY <1>3, <2>2, <2>3 DEF FlowStep, x
  <1> QED
    BY <1>2, <1>3 DEF Release, Released, j

(* ... and sent. *)
LEMMA SendFlows ==
    ASSUME IdTypeOK, NEW f \in Flows, Send(f)
    PROVE  FlowStep(f)
  BY FlowIs, OverStep DEF Send

(* The recovery tick. *)
LEMMA AdvanceFlows ==
    ASSUME IdTypeOK, Reported, InOrder, NEW j \in Jobs, AdvanceBinding(j)
    PROVE  Tick \in Flows /\ FlowStep(Tick)
  <1> DEFINE e == IF j \in deferred THEN {j} ELSE {}
             r == [Idle EXCEPT !.job = j, !.ended = e]
  <1>1. r \in FlowRec /\ [r EXCEPT !.ended = {j}] \in FlowRec
    BY DEF Idle, FlowRec, Pcs
  <1>2. Tick \in Flows
    BY DEF Tick, Flows
  <1>3. CASE Goes(Tick, Over(Tick, r)) \/ Goes(Tick, Over(Tick, [r EXCEPT !.ended = {j}]))
    <2> HIDE DEF r
    <2> QED
      BY <1>1, <1>2, <1>3, OverStep
  <1>4. CASE /\ bind[j] = "BINDING" /\ agentId[j] # NoId /\ tx[Binding(j)] \notin PENDING_TX
             /\ Goes(Tick, [r EXCEPT !.pc = "bindEnded", !.ok = (tx[Binding(j)] = "CONFIRMED")])
             /\ tx' = tx /\ Stale(j)
    <2> DEFINE x == [r EXCEPT !.pc = "bindEnded", !.ok = (tx[Binding(j)] = "CONFIRMED")]
    <2>1. /\ x \in OkRec /\ x.pc = "bindEnded" /\ x.job = j
          /\ x.ok => tx[Binding(j)] = "CONFIRMED"
      BY DEF Idle, OkRec, FlowRec, Pcs
    <2>2. \A g \in Flows : At(g, {"enqueueBind"}) => flow[g].job # j
      BY <1>4 DEF Stale, At
    <2> HIDE DEF x
    <2>3. Expect(Tick, x)
      BY <1>4, <2>1, <2>2 DEF Expect, Claiming
    <2> QED
      BY <1>2, <1>4, <2>1, <2>3 DEF FlowStep, x
  <1>5. CASE RepairRegistration(Tick, r, ClaimerIsDead)
    <2> HIDE DEF r
    <2> QED
      BY <1>1, <1>2, <1>5, RepairStep
  <1>6. CASE identity.status = "FAILED" /\ identity' = identity /\ Goes(Tick, [r EXCEPT !.pc = "waiting"])
    <2> DEFINE x == [r EXCEPT !.pc = "waiting"]
    <2>1. x \in OkRec /\ x.pc = "waiting"
      BY DEF Idle, OkRec, FlowRec, Pcs, InHand
    <2> HIDE DEF x
    <2>2. Expect(Tick, x)
      BY <1>6, <2>1 DEF Expect, Claiming
    <2> QED
      BY <1>2, <1>6, <2>1, <2>2 DEF FlowStep, x
  <1>7. CASE Goes(Tick, [r EXCEPT !.pc = "pump"])
    <2> DEFINE x == [r EXCEPT !.pc = "pump"]
    <2>1. x \in FlowRec /\ x.pc = "pump"
      BY DEF Idle, FlowRec, Pcs
    <2> HIDE DEF x
    <2> QED
      BY <1>2, <1>7, <2>1, QuietStep DEF Quiet, x
  <1> QED
    BY <1>2, <1>3, <1>4, <1>5, <1>6, <1>7 DEF AdvanceBinding, RecoveryPicks, Tick, Binding

(* The handler of a row that is closed. *)
LEMMA CloseFlows ==
    ASSUME IdTypeOK, BeginsOnce, NEW n \in Rows, NEW st, st \notin PENDING_TX,
           tx[n] # None, Close(n, st), flow' # flow
    PROVE  n \in Flows /\ FlowStep(n)
  <1>1. n \in Identity /\ Goes(n, Handler(n))
    BY DEF Close
  <1>2. CASE n \in Registers
    <2> DEFINE x == [Idle EXCEPT !.pc = "look"]
    <2>1. Handler(n) = x
      BY <1>2, RowKinds DEF Handler
    <2>2. x \in FlowRec /\ x.pc = "look"
      BY DEF Idle, FlowRec, Pcs
    <2> HIDE DEF x
    <2> QED
      BY <1>1, <1>2, <2>1, <2>2, RowKinds, QuietStep DEF Quiet
  <1>3. ASSUME NEW j \in Jobs, n = Binding(j)
        PROVE  n \in Flows /\ FlowStep(n)
    <2> DEFINE b == (tx'[n] = "CONFIRMED")
               x == [Idle EXCEPT !.pc = "bindEnded", !.job = j, !.ok = b]
    <2>1. Handler(n) = x
      BY <1>3, RowKinds DEF Handler
    <2>2. /\ x \in OkRec /\ x.pc = "bindEnded" /\ x.job = j
          /\ x.ok => tx'[n] = "CONFIRMED"
      BY DEF Idle, OkRec, FlowRec, Pcs
    <2>3. agentId[j] # NoId
      BY <1>3 DEF BeginsOnce
    <2>4. tx'[n] = st
      BY DEF Close, IdTypeOK
    <2> HIDE DEF x
    <2>5. Expect(n, x)
      BY <1>3, <2>2, <2>3, <2>4 DEF Expect, Claiming
    <2> QED
      BY <1>1, <1>3, <2>1, <2>2, <2>5, RowKinds DEF FlowStep
  <1> QED
    BY <1>1, <1>2, <1>3, RowKinds

(***************************************************************************)
(* What the steps write.                                                   *)
(***************************************************************************)
WriteIdentity == \E f \in Flows : ClaimRow(f) \/ FailIdentity(f) \/ Registered(f)
WriteBind     == \/ \E f \in Flows : \/ Begin(f) \/ FailWaiting(f) \/ StartFails(f) \/ NextWaiting(f)
                                     \/ EnqueueBind(f) \/ BindEnded(f)
                 \/ \E j \in Jobs : AdvanceBinding(j) \/ VetBind(j)
WriteAgentId  == \E f \in Flows : Begin(f) \/ ClaimJob(f)
WriteStatus   == \/ \E f \in Flows : Submit(f) \/ Send(f)
                 \/ \E j \in Jobs : Deliver(j) \/ ReturnToAccepted(j) \/ Cancel(j) \/ Mirror(j)
WriteOnChain  == \/ \E j \in Jobs : FundConfirmed(j) \/ ReturnToAccepted(j) \/ Mirror(j)
                 \/ \E n \in Rows : Confirm(n)
WriteDeferred == \E f \in Flows : Defer(f) \/ Release(f)
WriteTx       == \/ \E f \in Flows : EnqueueRegister(f) \/ EnqueueBind(f) \/ Submit(f) \/ Send(f)
                 \/ \E n \in Rows : Broadcast(n) \/ Confirm(n) \/ GiveUp(n)
                 \/ \E j \in Jobs : VetBind(j)
                 \/ Crash
WriteMempool  == Mine \/ \E n \in Rows : Broadcast(n)
WriteChain    == Mine \/ \E j \in Jobs : Refund(j)
WriteFaults   == faults' = faults + 1
WritePassed   == \/ \E f \in Flows : FailWaiting(f) \/ StartFails(f)
                 \/ \E j \in Jobs : Deliver(j)

(* What is not written by these is left alone. *)
Writes ==
    /\ identity' = identity \/ WriteIdentity
    /\ bind' = bind \/ WriteBind
    /\ agentId' = agentId \/ WriteAgentId
    /\ status' = status \/ WriteStatus
    /\ onChain' = onChain \/ WriteOnChain
    /\ deferred' = deferred \/ WriteDeferred
    /\ tx' = tx \/ WriteTx
    /\ mempool' = mempool \/ WriteMempool
    /\ chain' = chain \/ WriteChain
    /\ (boundTo' = boundTo /\ token' = token /\ receipt' = receipt) \/ Mine
    /\ calldata' = calldata \/ \E f \in Flows : EnqueueBind(f)
    /\ overwritten' = overwritten \/ \E f \in Flows : FailIdentity(f)
    /\ passed' = passed \/ WritePassed
    /\ scenario' = scenario
    /\ faults' = faults \/ WriteFaults

(* The steps of a flow. *)
LEMMA FlowWrites ==
    ASSUME NEW f \in Flows, Steps(f)
    PROVE  Writes
  <1> USE DEF Writes, jobVars, chainVars, pastVars, WriteFaults, Fault
  <1>1. CASE Begin(f)
    BY <1>1 DEF Begin, WriteBind, WriteAgentId
  <1>2. CASE Ensure(f)
    BY <1>2 DEF Ensure, Joins, RepairRegistration, RegisterOutcome
  <1>3. CASE EnqueueRegister(f)
    BY <1>3 DEF EnqueueRegister, WriteTx
  <1>4. CASE FailIdentity(f)
    BY <1>4 DEF FailIdentity, WriteIdentity
  <1>5. CASE ListWaiting(f)
    BY <1>5 DEF ListWaiting
  <1>6. CASE FailWaiting(f)
    BY <1>6 DEF FailWaiting, WriteBind, WritePassed
  <1>7. CASE Registered(f)
    BY <1>7 DEF Registered, WriteIdentity
  <1>8. CASE LookAtLane(f)
    BY <1>8 DEF LookAtLane
  <1>9. CASE NextWaiting(f)
    BY <1>9 DEF NextWaiting, WriteBind
  <1>10. CASE ClaimJob(f)
    BY <1>10 DEF ClaimJob, WriteAgentId
  <1>11. CASE EnqueueBind(f)
    BY <1>11 DEF EnqueueBind, WriteBind, WriteTx
  <1>12. CASE RegisterEnded(f)
    BY <1>12 DEF RegisterEnded, RegisterOutcome
  <1>13. CASE BindEnded(f)
    BY <1>13 DEF BindEnded, WriteBind
  <1>14. CASE Defer(f)
    BY <1>14 DEF Defer, WriteDeferred
  <1>15. CASE Submit(f)
    BY <1>15 DEF Submit, SendSubmit, WriteTx, WriteStatus
  <1>16. CASE Release(f)
    BY <1>16 DEF Release, Released, WriteDeferred
  <1>17. CASE Send(f)
    BY <1>17 DEF Send, SendSubmit, WriteTx, WriteStatus
  <1>18. CASE ClaimRow(f)
    BY <1>18 DEF ClaimRow, WriteIdentity
  <1>19. CASE Reread(f)
    BY <1>19 DEF Reread, Joins, RepairRegistration, RegisterOutcome
  <1> QED
    BY <1>1, <1>2, <1>3, <1>4, <1>5, <1>6, <1>7, <1>8, <1>9, <1>10, <1>11, <1>12, <1>13,
       <1>14, <1>15, <1>16, <1>17, <1>18, <1>19 DEF Steps

(* All steps. *)
LEMMA StepWrites ==
    ASSUME Next
    PROVE  Writes
  <1> USE DEF Writes, jobVars, chainVars, pastVars, WriteFaults, Fault
  <1>1. CASE Mine
    BY <1>1 DEF Mine, WriteMempool, WriteChain
  <1>2. ASSUME NEW n \in Rows, Broadcast(n) \/ Confirm(n) \/ GiveUp(n)
        PROVE  Writes
    <2>1. CASE Broadcast(n)
      BY <2>1 DEF Broadcast, WriteTx, WriteMempool
    <2>2. CASE Confirm(n)
      BY <2>2 DEF Confirm, WriteTx, WriteOnChain
    <2>3. CASE GiveUp(n)
      BY <2>3 DEF GiveUp, WriteTx
    <2> QED
      BY <1>2, <2>1, <2>2, <2>3
  <1>3. ASSUME NEW j \in Jobs, FundConfirmed(j) \/ VetBind(j)
        PROVE  Writes
    <2>1. CASE FundConfirmed(j)
      BY <2>1 DEF FundConfirmed, WriteOnChain
    <2>2. CASE VetBind(j)
      BY <2>2 DEF VetBind, WriteTx, WriteBind
    <2> QED
      BY <1>3, <2>1, <2>2
  <1>4. ASSUME NEW j \in Jobs, \/ Deliver(j) \/ AdvanceBinding(j) \/ ReturnToAccepted(j)
                               \/ Cancel(j) \/ Refund(j) \/ Mirror(j)
        PROVE  Writes
    <2>1. CASE Deliver(j)
      BY <2>1 DEF Deliver, WriteStatus, WritePassed
    <2>2. CASE AdvanceBinding(j)
      BY <2>2 DEF AdvanceBinding, RepairRegistration, RegisterOutcome, WriteBind
    <2>3. CASE ReturnToAccepted(j)
      BY <2>3 DEF ReturnToAccepted, WriteStatus, WriteOnChain
    <2>4. CASE Cancel(j)
      BY <2>4 DEF Cancel, WriteStatus
    <2>5. CASE Refund(j)
      BY <2>5 DEF Refund, WriteChain
    <2>6. CASE Mirror(j)
      BY <2>6 DEF Mirror, WriteStatus, WriteOnChain
    <2> QED
      BY <1>4, <2>1, <2>2, <2>3, <2>4, <2>5, <2>6
  <1>5. CASE Crash
    BY <1>5 DEF Crash, WriteTx
  <1>6. ASSUME NEW f \in Flows, Steps(f)
        PROVE  Writes
    BY <1>6, FlowWrites
  <1>7. ASSUME NEW f \in Flows, StartFails(f)
        PROVE  Writes
    BY <1>7 DEF StartFails, WriteBind, WritePassed
  <1> QED
    BY <1>1, <1>2, <1>3, <1>4, <1>5, <1>6, <1>7 DEF Next, Pipeline

(* Where the flows go in a step. *)
LEMMA FlowsMove ==
    ASSUME Base, Next
    PROVE  \/ flow' = flow
           \/ \E f \in Flows : FlowStep(f)
           \/ flow' = [f \in Flows |-> Idle]
  <1> USE DEF Base
  <1>1. ASSUME NEW f \in Flows, Steps(f)
        PROVE  FlowStep(f)
    BY <1>1, QuietFlows, EnsureFlows, ClaimRowFlows, RereadFlows, EnqueueFlows, FailFlows, ListFlows, FailWaitingFlows,
       LaneFlows, NextFlows, ClaimFlows, BindFlows, RegisterFlows, DeferFlows, ReleaseFlows,
       SendFlows DEF Steps
  <1>2. ASSUME NEW n \in Rows, Confirm(n), flow' # flow
        PROVE  \E f \in Flows : FlowStep(f)
    <2>1. receipt[n] \notin PENDING_TX /\ tx[n] # None /\ Close(n, receipt[n])
      BY <1>2 DEF Confirm, IdTypeOK, PENDING_TX, None
    <2> QED
      BY <1>2, <2>1, CloseFlows
  <1>3. ASSUME NEW n \in Rows, GiveUp(n), flow' # flow
        PROVE  \E f \in Flows : FlowStep(f)
    <2>1. \E st \in {"UNSENT", "DROPPED"} : Close(n, st) /\ tx[n] # None
      BY <1>3 DEF GiveUp, None
    <2> QED
      BY <1>3, <2>1, CloseFlows DEF PENDING_TX
  <1>4. ASSUME NEW j \in Jobs, VetBind(j), flow' # flow
        PROVE  \E f \in Flows : FlowStep(f)
    <2>1. Close(Binding(j), "UNSENT") /\ tx[Binding(j)] # None
      BY <1>4 DEF VetBind, Binding, None
    <2> QED
      BY <1>4, <2>1, CloseFlows, RowKinds DEF PENDING_TX
  <1>5. ASSUME NEW j \in Jobs, FundConfirmed(j), flow' # flow
        PROVE  \E f \in Flows : FlowStep(f)
    BY <1>5, FundFlows, RowKinds
  <1>6. ASSUME NEW j \in Jobs, Deliver(j) \/ AdvanceBinding(j)
        PROVE  \E f \in Flows : FlowStep(f)
    BY <1>6, DeliverFlows, AdvanceFlows
  <1>7. CASE Crash
    BY <1>7 DEF Crash
  <1>8. ASSUME NEW n \in Rows, Broadcast(n)
        PROVE  flow' = flow
    BY <1>8 DEF Broadcast
  <1>9. ASSUME NEW j \in Jobs, ReturnToAccepted(j) \/ Cancel(j) \/ Refund(j) \/ Mirror(j)
        PROVE  flow' = flow
    BY <1>9 DEF ReturnToAccepted, Cancel, Refund, Mirror
  <1>10. CASE Mine
    BY <1>10 DEF Mine
  <1>11. ASSUME NEW f \in Flows, StartFails(f)
         PROVE  FlowStep(f)
    <2>1. Idle \in FlowRec /\ Idle.pc = "idle"
      BY DEF Idle, FlowRec, Pcs
    <2> QED
      BY <1>11, <2>1, QuietStep DEF StartFails, Quiet
  <1> QED
    BY <1>1, <1>2, <1>3, <1>4, <1>5, <1>6, <1>7, <1>8, <1>9, <1>10, <1>11 DEF Next, Pipeline

(* What a step does to one flow. *)
LEMMA FlowNow ==
    ASSUME Base, Next
    PROVE  /\ flow' \in [Flows -> OkRec]
           /\ \A f \in Flows :
                 \/ flow'[f] = flow[f]
                 \/ /\ Expect(f, flow'[f])
                    /\ flow'[f].pc # "idle" => \A g \in Flows : g # f => flow'[g] = flow[g]
  <1>1. flow \in [Flows -> OkRec]
    BY FlowIs DEF Base, OkRec, IdTypeOK
  <1>2. CASE flow' = flow
    BY <1>1, <1>2
  <1>3. ASSUME NEW f \in Flows, FlowStep(f)
        PROVE  /\ flow' \in [Flows -> OkRec]
               /\ \A g \in Flows :
                     \/ flow'[g] = flow[g]
                     \/ /\ Expect(g, flow'[g])
                        /\ flow'[g].pc # "idle" => \A h \in Flows : h # g => flow'[h] = flow[h]
    <2>1. PICK r \in OkRec : Goes(f, r) /\ Expect(f, r)
      BY <1>3 DEF FlowStep
    <2>2. flow'[f] = r /\ \A g \in Flows : g # f => flow'[g] = flow[g]
      BY <2>1, GoesOn DEF Base
    <2>3. flow' \in [Flows -> OkRec]
      BY <1>1, <2>1 DEF Goes
    <2> QED
      BY <2>1, <2>2, <2>3, Zenon
  <1>4. CASE flow' = [f \in Flows |-> Idle]
    <2>1. Idle \in OkRec /\ Idle.pc = "idle"
      BY DEF Idle, OkRec, FlowRec, Pcs, InHand
    <2>2. \A f \in Flows : flow'[f] = Idle
      BY <1>4
    <2>3. \A f \in Flows : Expect(f, Idle)
      BY <2>1 DEF Expect, Claiming
    <2>4. flow' \in [Flows -> OkRec]
      BY <1>4, <2>1
    <2> QED
      BY <2>1, <2>2, <2>3, <2>4, Zenon
  <1> QED
    BY <1>2, <1>3, <1>4, FlowsMove

(* What a step does to one row. *)
RowMove(n) ==
    \/ tx'[n] = tx[n]
    \/ /\ tx'[n] \in {"QUEUED", "UNSENT"}
       /\ n \in Registers => /\ tx[n] = None
                             /\ \E f \in Flows : EnqueueRegister(f) /\ n[2] = RegCount + 1
       /\ \A j \in Jobs : /\ n = Binding(j) => \E f \in Flows : EnqueueBind(f) /\ flow[f].job = j
                          /\ n = Submission(j) => \E f \in Flows : /\ Submit(f) \/ Send(f)
                                                                   /\ flow[f].job = j
    \/ /\ tx[n] = "QUEUED" /\ tx'[n] = "VETTED"
       /\ \E j \in Jobs : n = Binding(j) /\ MayBroadcast(j) /\ bind' = bind
    \/ tx[n] = "VETTED" /\ tx'[n] = "QUEUED"
    \/ tx[n] = "QUEUED" /\ tx'[n] = "UNSENT"
    \/ tx[n] \in {"QUEUED", "VETTED"} /\ tx'[n] = "SUBMITTED"
    \/ tx[n] = "SUBMITTED" /\ receipt[n] # None /\ tx'[n] = receipt[n]
    \/ tx[n] = "SUBMITTED" /\ receipt[n] = None /\ tx'[n] = "DROPPED"

(* The next register has no row yet. *)
LEMMA NextIsFree ==
    ASSUME InOrder, NEW n \in Registers, n[2] = RegCount + 1
    PROVE  tx[n] = None
  <1>1. PICK m \in 0..Cardinality(Jobs) :
          \A k \in 1..Cardinality(Jobs) : tx[<<"register", k>>] # None <=> k <= m
    BY DEF InOrder
  <1>2. RegCount = m
    BY <1>1, CountIs
  <1>3. PICK k \in 1..Cardinality(Jobs) : n = <<"register", k>>
    BY RegistersAreFinite
  <1> QED
    BY <1>1, <1>2, <1>3, RegistersAreFinite

(* The steps that write rows. *)
LEMMA RowsMove ==
    ASSUME Base, Next, NEW n \in Rows
    PROVE  RowMove(n)
  <1> USE DEF Base
  <1>1. CASE tx' = tx
    BY <1>1 DEF RowMove
  <1>2. ASSUME NEW f \in Flows, EnqueueRegister(f)
        PROVE  RowMove(n)
    <2> DEFINE m == <<"register", RegCount + 1>>
    <2>2. n # m => tx'[n] = tx[n]
      BY <1>2 DEF EnqueueRegister, IdTypeOK
    <2>3. n = m => tx'[n] \in {"QUEUED", "UNSENT"}
      BY <1>2 DEF EnqueueRegister, IdTypeOK
    <2>4. n = m => n \in Registers /\ n[2] = RegCount + 1
      BY RowKinds DEF Binding, Submission
    <2>5. n = m => tx[n] = None
      BY <2>4, NextIsFree
    <2>6. n = m => \A j \in Jobs : n # Binding(j) /\ n # Submission(j)
      BY DEF Binding, Submission
    <2> HIDE DEF m
    <2> QED
      BY <1>2, <2>2, <2>3, <2>4, <2>5, <2>6 DEF RowMove
  <1>3. ASSUME NEW f \in Flows, EnqueueBind(f)
        PROVE  RowMove(n)
    <2>1. flow[f].job \in Jobs
      BY <1>3, FlowIs DEF EnqueueBind, InHand
    <2>2. n # Binding(flow[f].job) => tx'[n] = tx[n]
      BY <1>3 DEF EnqueueBind, IdTypeOK, Binding
    <2>3. n = Binding(flow[f].job) => tx'[n] \in {"QUEUED", "UNSENT"}
      BY <1>3 DEF EnqueueBind, IdTypeOK, Binding
    <2>4. n = Binding(flow[f].job) => /\ n \notin Registers
                                      /\ \A j \in Jobs : n # Submission(j) /\ (n = Binding(j) => j = flow[f].job)
      BY <2>1, RowKinds
    <2> QED
      BY <1>3, <2>2, <2>3, <2>4 DEF RowMove
  <1>4. ASSUME NEW f \in Flows, Submit(f) \/ Send(f)
        PROVE  RowMove(n)
    <2>1. flow[f].job \in Jobs
      BY <1>4, FlowIs DEF Submit, Send, InHand
    <2>2. n # Submission(flow[f].job) => tx'[n] = tx[n]
      BY <1>4 DEF Submit, Send, SendSubmit, IdTypeOK, Submission
    <2>3. n = Submission(flow[f].job) => tx'[n] = tx[n] \/ tx'[n] \in {"QUEUED", "UNSENT"}
      BY <1>4 DEF Submit, Send, SendSubmit, IdTypeOK, Submission
    <2>4. n = Submission(flow[f].job) => /\ n \notin Registers
                                         /\ \A j \in Jobs : n # Binding(j) /\ (n = Submission(j) => j = flow[f].job)
      BY <2>1, RowKinds
    <2> QED
      BY <1>4, <2>2, <2>3, <2>4 DEF RowMove
  <1>5. ASSUME NEW m \in Rows, Broadcast(m) \/ Confirm(m) \/ GiveUp(m)
        PROVE  RowMove(n)
    <2>1. CASE n # m
      <3>1. tx'[n] = tx[n]
        BY <1>5, <2>1 DEF Broadcast, Confirm, GiveUp, Close, IdTypeOK
      <3> QED
        BY <3>1 DEF RowMove
    <2>2. CASE n = m
      <3>1. CASE Broadcast(m)
        BY <2>2, <3>1 DEF RowMove, Broadcast, IdTypeOK
      <3>2. CASE Confirm(m)
        BY <2>2, <3>2 DEF RowMove, Confirm, Close, IdTypeOK
      <3>3. CASE GiveUp(m)
        BY <2>2, <3>3 DEF RowMove, GiveUp, Close, IdTypeOK
      <3> QED
        BY <1>5, <3>1, <3>2, <3>3
    <2> QED
      BY <2>1, <2>2
  <1>6. ASSUME NEW j \in Jobs, VetBind(j)
        PROVE  RowMove(n)
    <2>1. CASE n # Binding(j)
      <3>1. tx'[n] = tx[n]
        BY <1>6, <2>1 DEF VetBind, Close, IdTypeOK, Binding
      <3> QED
        BY <3>1 DEF RowMove
    <2>2. CASE n = Binding(j)
      <3>1. \/ tx'[n] = tx[n]
            \/ tx[n] = "QUEUED" /\ tx'[n] = "UNSENT"
            \/ tx[n] = "QUEUED" /\ tx'[n] = "VETTED" /\ MayBroadcast(j) /\ bind' = bind
        BY <1>6, <2>2 DEF VetBind, Close, IdTypeOK, Binding
      <3> QED
        BY <2>2, <3>1 DEF RowMove
    <2> QED
      BY <2>1, <2>2
  <1>7. CASE Crash
    <2>1. tx'[n] = tx[n] \/ (tx[n] = "VETTED" /\ tx'[n] = "QUEUED")
      BY <1>7 DEF Crash
    <2> QED
      BY <2>1 DEF RowMove
  <1>8. tx' = tx \/ WriteTx
    BY StepWrites DEF Writes
  <1> QED
    BY <1>1, <1>2, <1>3, <1>4, <1>5, <1>6, <1>7, <1>8 DEF WriteTx

(* A row is never taken back, and a register ends once. *)
LEMMA RowsGoOn ==
    ASSUME Base, Next
    PROVE  /\ \A n \in Rows : tx[n] # None => tx'[n] # None
           /\ \A n \in Registers : /\ tx[n] \in FailedTx \cup {"CONFIRMED"} => tx'[n] = tx[n]
                                   /\ tx[n] \in Sent => tx'[n] \in Sent
  <1>1. \A n \in Rows : RowMove(n) /\ receipt[n] \in {None, "CONFIRMED", "REVERTED"}
    BY RowsMove DEF Base, IdTypeOK
  <1>2. \A n \in Rows : tx[n] # None => tx'[n] # None
    BY <1>1 DEF RowMove, None
  <1>3. \A n \in Registers : n \in Rows
    BY RowKinds
  <1>4. ASSUME NEW n \in Registers, tx[n] \in FailedTx \cup {"CONFIRMED"}
        PROVE  tx'[n] = tx[n]
    BY <1>1, <1>3, <1>4 DEF RowMove, FailedTx, None
  <1>5. ASSUME NEW n \in Registers, tx[n] \in Sent
        PROVE  tx'[n] \in Sent
    BY <1>1, <1>3, <1>5 DEF RowMove, Sent, None
  <1> QED
    BY <1>2, <1>4, <1>5

(* What is mined. *)
LEMMA MineIs ==
    ASSUME IdTypeOK, Mine
    PROVE  \E n \in Rows :
              /\ mempool # <<>> /\ n = mempool[1] /\ mempool' = Tail(mempool)
              /\ receipt' \in [Rows -> {None, "CONFIRMED", "REVERTED"}]
              /\ token' \in [Registers -> Nat \cup {NoId}]
              /\ boundTo' \in [Jobs -> Nat \cup {NoId}]
              /\ \A m \in Rows : m # n => receipt'[m] = receipt[m]
              /\ \A r \in Registers : r # n => token'[r] = token[r]
              /\ n \in Registers =>
                    \/ receipt'[n] = "CONFIRMED" /\ token'[n] # NoId
                    \/ receipt'[n] = "REVERTED" /\ token'[n] = token[n]
              /\ \A j \in Jobs : /\ boundTo'[j] # boundTo[j] => n = Binding(j) /\ boundTo'[j] = calldata[j]
                                 /\ n = Binding(j) => \/ receipt'[n] = "REVERTED"
                                                      \/ boundTo'[j] = calldata[j]
                                 /\ chain'[j] # chain[j] => n = Submission(j)
  <1> DEFINE n == Head(mempool)
             k == scenario.first + Minted
  <1>1. mempool # <<>> /\ mempool \in Seq(Rows)
    BY DEF Mine, IdTypeOK
  <1>2. n \in Rows /\ n = mempool[1]
    BY <1>1
  <1>3. k \in Nat
    BY CountIsNumber, IdentityAssumption DEF IdTypeOK
  <1>4. n \in Registers => n[1] = "register"
    BY RowKinds
  <1>5. \A j \in Jobs : /\ n[1] = "bindAgent" /\ n[2] = j <=> n = Binding(j)
                        /\ n[1] = "submit" /\ n[2] = j => n = Submission(j)
    BY <1>2, RowKinds
  <1> HIDE DEF n, k
  <1>6. \/ /\ n[1] = "register"
           /\ token' = [token EXCEPT ![n] = k]
           /\ receipt' = [receipt EXCEPT ![n] = "CONFIRMED"]
           /\ UNCHANGED <<chain, boundTo>>
        \/ /\ n[1] = "register"
           /\ receipt' = [receipt EXCEPT ![n] = "REVERTED"]
           /\ UNCHANGED <<chain, boundTo, token>>
        \/ /\ n[1] # "register"
           /\ receipt' = [receipt EXCEPT ![n] = "CONFIRMED"]
           /\ chain' = IF n[1] = "submit" THEN [chain EXCEPT ![n[2]] = "Submitted"] ELSE chain
           /\ boundTo' = IF n[1] = "bindAgent" THEN [boundTo EXCEPT ![n[2]] = calldata[n[2]]] ELSE boundTo
           /\ UNCHANGED token
        \/ /\ n[1] # "register"
           /\ receipt' = [receipt EXCEPT ![n] = "REVERTED"]
           /\ UNCHANGED <<chain, boundTo, token>>
    BY DEF Mine, n, k
  <1>7. /\ receipt \in [Rows -> {None, "CONFIRMED", "REVERTED"}]
        /\ token \in [Registers -> Nat \cup {NoId}]
        /\ boundTo \in [Jobs -> Nat \cup {NoId}] /\ calldata \in [Jobs -> Nat \cup {NoId}]
        /\ chain \in [Jobs -> {"Funded", "Submitted", "Refunded"}]
    BY DEF IdTypeOK
  <1>8. /\ receipt' \in [Rows -> {None, "CONFIRMED", "REVERTED"}]
        /\ \A m \in Rows : m # n => receipt'[m] = receipt[m]
    BY <1>6, <1>7
  <1>9. /\ token' \in [Registers -> Nat \cup {NoId}]
        /\ \A r \in Registers : r # n => token'[r] = token[r]
    BY <1>3, <1>6, <1>7
  <1>10. n \in Registers => \/ receipt'[n] = "CONFIRMED" /\ token'[n] # NoId
                            \/ receipt'[n] = "REVERTED" /\ token'[n] = token[n]
    BY <1>2, <1>3, <1>4, <1>6, <1>7 DEF NoId
  <1>11. boundTo' \in [Jobs -> Nat \cup {NoId}]
    BY <1>6, <1>7
  <1>12. ASSUME NEW j \in Jobs
         PROVE  /\ boundTo'[j] # boundTo[j] => n = Binding(j) /\ boundTo'[j] = calldata[j]
                /\ n = Binding(j) => \/ receipt'[n] = "REVERTED"
                                     \/ boundTo'[j] = calldata[j]
                /\ chain'[j] # chain[j] => n = Submission(j)
    <2>1. boundTo'[j] # boundTo[j] => n = Binding(j) /\ boundTo'[j] = calldata[j]
      BY <1>5, <1>6, <1>7
    <2>2. n = Binding(j) => receipt'[n] = "REVERTED" \/ boundTo'[j] = calldata[j]
      BY <1>2, <1>5, <1>6, <1>7
    <2>3. chain'[j] # chain[j] => n = Submission(j)
      BY <1>5, <1>6, <1>7
    <2> QED
      BY <2>1, <2>2, <2>3
  <1>13. mempool' = Tail(mempool)
    BY DEF Mine
  <1> QED
    BY <1>1, <1>2, <1>8, <1>9, <1>10, <1>11, <1>12, <1>13

(* What a step does to the bindings. *)
BindMove ==
    \/ bind' = bind
    \/ \E f \in Flows : Begin(f)
    \/ \E f \in Flows : BindEnded(f)
    \/ \E j \in Jobs, st \in {"FAILED", "SKIPPED"} :
          /\ EndBinding(j, st)
          /\ \/ agentId[j] = NoId \/ tx[Binding(j)] = "QUEUED"
             \/ PassBy(j)
             \/ \E f \in Flows : EnqueueBind(f) /\ j = flow[f].job

(* Nothing else is written into a binding. *)
LEMMA BindingsMove ==
    ASSUME Base, Next
    PROVE  BindMove
  <1> USE DEF Base
  <1>1. ASSUME NEW f \in Flows, FailWaiting(f)
        PROVE  BindMove
    <2> DEFINE j == Least(flow[f].todo)
    <2>1. flow[f] \in FlowRec /\ flow[f].todo # {}
      BY <1>1, FlowIs DEF FailWaiting, HandsOK, At
    <2>2. j \in Jobs
      BY <2>1, LeastIs DEF FlowRec
    <2>3. EndBinding(j, "FAILED") /\ PassBy(j)
      BY <1>1 DEF FailWaiting
    <2> HIDE DEF j
    <2> QED
      BY <2>2, <2>3 DEF BindMove
  <1>2. ASSUME NEW f \in Flows, NextWaiting(f)
        PROVE  BindMove
    <2> DEFINE j == Least(Waiting)
    <2>1. Waiting # {} => j \in Waiting
      BY LeastIs DEF Waiting
    <2>2. bind' = bind \/ (Waiting # {} /\ EndBinding(j, "SKIPPED"))
      BY <1>2 DEF NextWaiting
    <2> HIDE DEF j
    <2> QED
      BY <2>1, <2>2 DEF BindMove, Waiting
  <1>3. ASSUME NEW f \in Flows, EnqueueBind(f)
        PROVE  BindMove
    <2>1. flow[f].job \in Jobs
      BY <1>3, FlowIs DEF EnqueueBind, InHand
    <2>2. bind' = bind \/ EndBinding(flow[f].job, "FAILED")
      BY <1>3 DEF EnqueueBind
    <2> QED
      BY <1>3, <2>1, <2>2 DEF BindMove
  <1>4. ASSUME NEW j \in Jobs, AdvanceBinding(j)
        PROVE  BindMove
    <2>1. bind' = bind \/ (agentId[j] = NoId /\ EndBinding(j, "FAILED"))
      BY <1>4 DEF AdvanceBinding
    <2> QED
      BY <2>1 DEF BindMove
  <1>5. ASSUME NEW j \in Jobs, VetBind(j)
        PROVE  BindMove
    <2>1. bind' = bind \/ (tx[Binding(j)] = "QUEUED" /\ EndBinding(j, "SKIPPED"))
      BY <1>5 DEF VetBind, Binding
    <2> QED
      BY <2>1 DEF BindMove
  <1>6. ASSUME NEW f \in Flows, StartFails(f)
        PROVE  BindMove
    BY <1>6, RowKinds DEF StartFails, BindMove
  <1>7. bind' = bind \/ WriteBind
    BY StepWrites DEF Writes
  <1> QED
    BY <1>1, <1>2, <1>3, <1>4, <1>5, <1>6, <1>7 DEF WriteBind, BindMove

(***************************************************************************)
(* Every step preserves Base: the types.                                   *)
(***************************************************************************)
LEMMA RowTypes ==
    ASSUME Base, Next
    PROVE  /\ identity' \in [status : {None, "REGISTERING", "REGISTERED", "FAILED"},
                             id : Nat \cup {NoId}, after : Nat]
           /\ tx' \in [Rows -> {None, "CONFIRMED"} \cup PENDING_TX \cup FailedTx]
  <1> DEFINE X == {None, "CONFIRMED"} \cup PENDING_TX \cup FailedTx
             I == [status : {None, "REGISTERING", "REGISTERED", "FAILED"},
                   id : Nat \cup {NoId}, after : Nat]
  <1>1. RegCount \in Nat
    BY CountIsNumber
  <1>2. identity \in I /\ (identity' = identity \/ WriteIdentity)
    BY StepWrites DEF Base, IdTypeOK, Writes
  <1> HIDE DEF I
  <1>3. identity' \in I
    <2>1. ASSUME NEW f \in Flows, ClaimRow(f) PROVE identity' \in I
      <3>1. identity' = identity \/ identity' = [status |-> "REGISTERING", id |-> 0, after |-> RegCount]
        BY <2>1 DEF ClaimRow
      <3> QED
        BY <1>1, <1>2, <3>1 DEF I
    <2>2. ASSUME NEW f \in Flows, FailIdentity(f) PROVE identity' \in I
      <3>1. identity' = [identity EXCEPT !.status = "FAILED", !.after = RegCount]
        BY <2>2 DEF FailIdentity
      <3> QED
        BY <1>1, <1>2, <3>1 DEF I
    <2>3. ASSUME NEW f \in Flows, Registered(f) PROVE identity' \in I
      <3>1. flow[f].id \in Nat \cup {NoId}
        BY <2>3, FlowIs DEF FlowRec, Base
      <3> QED
        BY <1>1, <2>3, <3>1 DEF Registered, I
    <2> QED
      BY <1>2, <2>1, <2>2, <2>3 DEF WriteIdentity
  <1>4. tx \in [Rows -> X] /\ (tx' = tx \/ WriteTx) /\ receipt \in [Rows -> {None, "CONFIRMED", "REVERTED"}]
    BY StepWrites DEF Base, IdTypeOK, Writes
  <1>5. {"QUEUED", "VETTED", "SUBMITTED", "UNSENT", "DROPPED", "REVERTED", "CONFIRMED", None} \subseteq X
    BY DEF PENDING_TX, FailedTx
  <1> HIDE DEF X
  <1>6. tx' \in [Rows -> X]
    <2>1. ASSUME NEW f \in Flows, EnqueueRegister(f) \/ EnqueueBind(f)
          PROVE  tx' \in [Rows -> X]
      BY <1>4, <1>5, <2>1 DEF EnqueueRegister, EnqueueBind
    <2>2. ASSUME NEW f \in Flows, Submit(f) \/ Send(f)
          PROVE  tx' \in [Rows -> X]
      BY <1>4, <1>5, <2>2 DEF Submit, Send, SendSubmit
    <2>3. ASSUME NEW n \in Rows, Broadcast(n) \/ Confirm(n) \/ GiveUp(n)
          PROVE  tx' \in [Rows -> X]
      BY <1>4, <1>5, <2>3 DEF Broadcast, Confirm, GiveUp, Close
    <2>4. ASSUME NEW j \in Jobs, VetBind(j)
          PROVE  tx' \in [Rows -> X]
      BY <1>4, <1>5, <2>4 DEF VetBind, Close
    <2>5. CASE Crash
      BY <1>4, <1>5, <2>5 DEF Crash
    <2> QED
      BY <1>4, <2>1, <2>2, <2>3, <2>4, <2>5 DEF WriteTx
  <1> QED
    BY <1>3, <1>6 DEF X, I

(* The columns of a job keep their types ... *)
LEMMA JobTypes ==
    ASSUME Base, Next
    PROVE  /\ bind' \in [Jobs -> {None, "BINDING"} \cup TERMINAL_BINDING_STATUSES]
           /\ agentId' \in [Jobs -> Nat \cup {NoId}]
           /\ status' \in [Jobs -> {"ACCEPTED", "PAYMENT_PENDING", "CANCELLED", "FAILED"}]
           /\ onChain' \in [Jobs -> {"APPROVED", "FUNDED", "SUBMITTED", "REFUNDED"}]
           /\ deferred' \subseteq Jobs
  <1> DEFINE B == {None, "BINDING"} \cup TERMINAL_BINDING_STATUSES
             S == {"ACCEPTED", "PAYMENT_PENDING", "CANCELLED", "FAILED"}
             C == {"APPROVED", "FUNDED", "SUBMITTED", "REFUNDED"}
  <1>1. /\ bind \in [Jobs -> B] /\ agentId \in [Jobs -> Nat \cup {NoId}]
        /\ status \in [Jobs -> S] /\ onChain \in [Jobs -> C] /\ deferred \subseteq Jobs
    BY DEF Base, IdTypeOK
  <1>2. Writes
    BY StepWrites
  <1>3. {"BINDING", "BOUND", "FAILED", "SKIPPED"} \subseteq B
    BY DEF TERMINAL_BINDING_STATUSES
  <1>4. \A f \in Flows : flow[f] \in FlowRec /\ (flow[f].pc \in InHand => flow[f].job \in Jobs)
    BY FlowIs DEF Base
  <1> HIDE DEF B
  <1>5. bind' \in [Jobs -> B]
    <2>1. ASSUME NEW j, NEW st \in {"BOUND", "FAILED", "SKIPPED"}, EndBinding(j, st)
          PROVE  bind' \in [Jobs -> B]
      BY <1>1, <1>3, <2>1 DEF EndBinding
    <2>2. ASSUME NEW f \in Flows, Begin(f) PROVE bind' \in [Jobs -> B]
      BY <1>1, <1>3, <2>2 DEF Begin
    <2>3. ASSUME NEW f \in Flows, BindEnded(f) PROVE bind' \in [Jobs -> B]
      BY <2>1, <2>3 DEF BindEnded
    <2> QED
      BY <1>1, <2>1, <2>2, <2>3, BindingsMove DEF BindMove
  <1>6. agentId' \in [Jobs -> Nat \cup {NoId}]
    <2>1. ASSUME NEW f \in Flows, Begin(f) PROVE agentId' \in [Jobs -> Nat \cup {NoId}]
      BY <1>1, <2>1 DEF Begin
    <2>2. ASSUME NEW f \in Flows, ClaimJob(f) PROVE agentId' \in [Jobs -> Nat \cup {NoId}]
      <3>1. flow[f].id \in Nat \cup {NoId}
        BY <1>4 DEF FlowRec
      <3> QED
        BY <1>1, <2>2, <3>1 DEF ClaimJob
    <2> QED
      BY <1>1, <1>2, <2>1, <2>2 DEF Writes, WriteAgentId
  <1>7. status' \in [Jobs -> S]
    <2>1. ASSUME NEW f \in Flows, Submit(f) \/ Send(f) PROVE status' \in [Jobs -> S]
      BY <1>1, <2>1 DEF Submit, Send, SendSubmit
    <2>2. ASSUME NEW j \in Jobs, Deliver(j) \/ ReturnToAccepted(j) \/ Cancel(j) \/ Mirror(j)
          PROVE  status' \in [Jobs -> S]
      BY <1>1, <2>2 DEF Deliver, ReturnToAccepted, Cancel, Mirror
    <2> QED
      BY <1>1, <1>2, <2>1, <2>2 DEF Writes, WriteStatus
  <1>8. onChain' \in [Jobs -> C]
    <2>1. ASSUME NEW j \in Jobs, FundConfirmed(j) \/ ReturnToAccepted(j) \/ Mirror(j)
          PROVE  onChain' \in [Jobs -> C]
      BY <1>1, <2>1 DEF FundConfirmed, ReturnToAccepted, Mirror
    <2>2. ASSUME NEW n \in Rows, Confirm(n) PROVE onChain' \in [Jobs -> C]
      BY <1>1, <2>2 DEF Confirm
    <2> QED
      BY <1>1, <1>2, <2>1, <2>2 DEF Writes, WriteOnChain
  <1>9. deferred' \subseteq Jobs
    <2>1. ASSUME NEW f \in Flows, Defer(f) PROVE deferred' \subseteq Jobs
      BY <1>1, <1>4, <2>1 DEF Defer, InHand
    <2>2. ASSUME NEW f \in Flows, Release(f) PROVE deferred' \subseteq Jobs
      BY <1>1, <2>2 DEF Release, Released
    <2> QED
      BY <1>1, <1>2, <2>1, <2>2 DEF Writes, WriteDeferred
  <1> QED
    BY <1>5, <1>6, <1>7, <1>8, <1>9 DEF B

(* What is passed by stays so. *)
LEMMA PassedGrows ==
    ASSUME Base, Next
    PROVE  passed \subseteq passed' /\ passed' \subseteq Jobs
  <1>1. passed \subseteq Jobs
    BY DEF Base, IdTypeOK
  <1>2. ASSUME NEW j, PassBy(j)
        PROVE  passed \subseteq passed' /\ (j \in Jobs => passed' \subseteq Jobs)
    BY <1>1, <1>2 DEF PassBy, Ending
  <1>3. ASSUME NEW f \in Flows, FailWaiting(f)
        PROVE  passed \subseteq passed' /\ passed' \subseteq Jobs
    <2>1. flow[f] \in FlowRec /\ flow[f].todo # {}
      BY <1>3, FlowIs DEF FailWaiting, HandsOK, At, Base
    <2>2. Least(flow[f].todo) \in Jobs
      BY <2>1, LeastIs DEF FlowRec
    <2> QED
      BY <1>2, <1>3, <2>2 DEF FailWaiting
  <1>4. ASSUME NEW f \in Flows, StartFails(f)
        PROVE  passed \subseteq passed' /\ passed' \subseteq Jobs
    BY <1>2, <1>4, RowKinds DEF StartFails
  <1>5. ASSUME NEW j \in Jobs, Deliver(j)
        PROVE  passed \subseteq passed' /\ passed' \subseteq Jobs
    BY <1>1, <1>5 DEF Deliver
  <1> QED
    BY <1>1, <1>3, <1>4, <1>5, StepWrites DEF Writes, WritePassed

(* ... the chain and the bounds, too ... *)
LEMMA ChainTypes ==
    ASSUME Base, Next
    PROVE  /\ chain' \in [Jobs -> {"Funded", "Submitted", "Refunded"}]
           /\ boundTo' \in [Jobs -> Nat \cup {NoId}]
           /\ token' \in [Registers -> Nat \cup {NoId}]
           /\ mempool' \in Seq(Rows)
           /\ receipt' \in [Rows -> {None, "CONFIRMED", "REVERTED"}]
           /\ scenario' \in Scenarios /\ faults' \in Nat /\ overwritten' \in BOOLEAN
           /\ calldata' \in [Jobs -> Nat \cup {NoId}]
  <1>1. IdTypeOK /\ Writes
    BY StepWrites DEF Base
  <1>2. chain' \in [Jobs -> {"Funded", "Submitted", "Refunded"}]
    <2>1. CASE Mine
      BY <1>1, <2>1 DEF Mine, IdTypeOK
    <2>2. ASSUME NEW j \in Jobs, Refund(j)
          PROVE  chain' \in [Jobs -> {"Funded", "Submitted", "Refunded"}]
      BY <1>1, <2>2 DEF Refund, IdTypeOK
    <2> QED
      BY <1>1, <2>1, <2>2 DEF Writes, WriteChain, IdTypeOK
  <1>3. mempool' \in Seq(Rows)
    <2>1. CASE Mine
      BY <1>1, <2>1 DEF Mine, IdTypeOK
    <2>2. ASSUME NEW n \in Rows, Broadcast(n) PROVE mempool' \in Seq(Rows)
      BY <1>1, <2>2 DEF Broadcast, IdTypeOK
    <2> QED
      BY <1>1, <2>1, <2>2 DEF Writes, WriteMempool, IdTypeOK
  <1>4. /\ boundTo' \in [Jobs -> Nat \cup {NoId}]
        /\ token' \in [Registers -> Nat \cup {NoId}]
        /\ receipt' \in [Rows -> {None, "CONFIRMED", "REVERTED"}]
    BY <1>1, MineIs DEF Writes, IdTypeOK
  <1>5. scenario' \in Scenarios /\ faults' \in Nat
    BY <1>1 DEF Writes, WriteFaults, IdTypeOK
  <1>6. overwritten' \in BOOLEAN
    <2>1. ASSUME NEW f \in Flows, FailIdentity(f) PROVE overwritten' \in BOOLEAN
      <3>1. overwritten' = (overwritten \/ ClaimedSince(f))
        BY <2>1 DEF FailIdentity
      <3> QED
        BY <3>1, Zenon
    <2> QED
      BY <1>1, <2>1 DEF Writes, IdTypeOK
  <1>7. calldata' \in [Jobs -> Nat \cup {NoId}]
    <2>1. ASSUME NEW f \in Flows, EnqueueBind(f) PROVE calldata' \in [Jobs -> Nat \cup {NoId}]
      <3>1. flow[f].id \in Nat \cup {NoId} /\ calldata \in [Jobs -> Nat \cup {NoId}]
        BY <1>1, FlowIs DEF FlowRec, IdTypeOK
      <3> QED
        BY <2>1, <3>1 DEF EnqueueBind
    <2> QED
      BY <1>1, <2>1 DEF Writes, IdTypeOK
  <1> QED
    BY <1>2, <1>3, <1>4, <1>5, <1>6, <1>7

(* ... so IdTypeOK is preserved. *)
LEMMA TypesHold == Base /\ Next => IdTypeOK'
  <1> SUFFICES ASSUME Base, Next PROVE IdTypeOK'
    OBVIOUS
  <1>1. flow' \in [Flows -> FlowRec] /\ \A f \in Flows : flow'[f].pc \in InHand => flow'[f].job \in Jobs
    BY FlowNow DEF OkRec
  <1> QED
    BY <1>1, RowTypes, JobTypes, ChainTypes, PassedGrows DEF IdTypeOK, FlowRec

(***************************************************************************)
(* ... the registers, the wire and the chain.                              *)
(***************************************************************************)
LEMMA NewRegister ==
    ASSUME Base, Next, NEW n \in Registers, tx[n] = None, tx'[n] # None
    PROVE  /\ tx'[n] \in {"QUEUED", "UNSENT"}
           /\ \E f \in Flows : EnqueueRegister(f) /\ n[2] = RegCount + 1
  <1>1. n \in Rows
    BY RowKinds
  <1>2. RowMove(n)
    BY <1>1, RowsMove
  <1> QED
    BY <1>2 DEF RowMove, None

(* The registers stay in order. *)
LEMMA InOrderHolds ==
    ASSUME Base, Next
    PROVE  InOrder'
  <1> DEFINE c == Cardinality(Jobs)
             R(k) == <<"register", k>>
  <1>1. PICK m \in 0..c : \A k \in 1..c : tx[R(k)] # None <=> k <= m
    BY DEF Base, InOrder
  <1>2. RegCount = m
    BY <1>1, CountIs
  <1>3. c \in Nat /\ \A k \in 1..c : R(k) \in Registers /\ R(k)[2] = k /\ R(k) \in Rows
    BY RegistersAreFinite, RowKinds
  <1> HIDE DEF c, R
  <1>4. \A k \in 1..c : tx[R(k)] # None => tx'[R(k)] # None
    BY <1>3, RowsGoOn
  <1>5. \A k \in 1..c : tx[R(k)] = None /\ tx'[R(k)] # None => k = m + 1
    BY <1>2, <1>3, NewRegister
  <1>6. CASE \E k \in 1..c : tx[R(k)] = None /\ tx'[R(k)] # None
    <2>1. m + 1 \in 1..c /\ tx'[R(m + 1)] # None
      BY <1>5, <1>6
    <2>2. \A k \in 1..c : tx'[R(k)] # None <=> k <= m + 1
      BY <1>1, <1>3, <1>4, <1>5, <2>1
    <2>3. m + 1 \in 0..c
      BY <1>3, <2>1
    <2> QED
      BY <2>2, <2>3 DEF InOrder, c, R
  <1>7. CASE \A k \in 1..c : tx'[R(k)] # None => tx[R(k)] # None
    <2>1. \A k \in 1..c : tx'[R(k)] # None <=> k <= m
      BY <1>1, <1>4, <1>7
    <2> QED
      BY <2>1 DEF InOrder, c, R
  <1> QED
    BY <1>6, <1>7

(* Between the minings, the chain says what it said. *)
LEMMA ChainStays ==
    ASSUME Next, ~Mine
    PROVE  /\ boundTo' = boundTo /\ token' = token /\ receipt' = receipt
           /\ mempool' = mempool \/ \E n \in Rows : Broadcast(n)
  BY StepWrites DEF Writes, WriteMempool

(* What is on the wire stays sent, and once. *)
LEMMA OnTheWireHolds ==
    ASSUME Base, Next
    PROVE  OnTheWire'
  <1>1. mempool \in Seq(Rows) /\ OnTheWire /\ Reported
    BY DEF Base, IdTypeOK
  <1>2. \A r \in Registers : r \in Rows /\ RowMove(r)
    BY RowKinds, RowsMove
  <1>3. ASSUME NEW r \in Registers, tx[r] \in {"SUBMITTED", "DROPPED"}, receipt[r] = None
        PROVE  tx'[r] \in {"SUBMITTED", "DROPPED"}
    BY <1>2, <1>3 DEF RowMove, None
  <1>4. \A n \in Rows : tx[n] # None => tx'[n] # None
    BY RowsGoOn
  <1>5. CASE Mine
    <2>1. tx' = tx
      BY <1>5 DEF Mine
    <2>2. PICK n \in Rows :
            /\ mempool # <<>> /\ n = mempool[1] /\ mempool' = Tail(mempool)
            /\ \A m \in Rows : m # n => receipt'[m] = receipt[m]
            /\ \A r \in Registers : r # n => token'[r] = token[r]
      BY <1>5, MineIs DEF Base
    <2>3. \A p \in DOMAIN mempool' : /\ p + 1 \in DOMAIN mempool /\ p + 1 # 1
                                     /\ mempool'[p] = mempool[p + 1]
      BY <1>1, <2>2
    <2>4. 1 \in DOMAIN mempool
      BY <1>1, <2>2
    <2>5. ASSUME NEW p \in DOMAIN mempool', mempool'[p] \in Registers
          PROVE  /\ mempool'[p] # n
                 /\ \A q \in DOMAIN mempool' : mempool'[q] = mempool'[p] => q = p
      <3>1. p \in Nat /\ \A q \in DOMAIN mempool' : q \in Nat
        BY <1>1, <2>2
      <3> QED
        BY <1>1, <2>2, <2>3, <2>4, <2>5, <3>1 DEF OnTheWire
    <2> QED
      BY <1>1, <1>2, <2>1, <2>2, <2>3, <2>5 DEF OnTheWire
  <1>6. CASE ~Mine /\ mempool' = mempool
    BY <1>1, <1>3, <1>4, <1>6, ChainStays DEF OnTheWire
  <1>7. ASSUME ~Mine, NEW n \in Rows, Broadcast(n) PROVE OnTheWire'
    <2>1. /\ mempool' = Append(mempool, n) /\ tx' = [tx EXCEPT ![n] = "SUBMITTED"]
          /\ tx[n] # None /\ n \in Registers => tx[n] = "QUEUED"
      BY <1>7, RowKinds DEF Broadcast, None
    <2>2. tx'[n] = "SUBMITTED" /\ \A m \in Rows : m # n => tx'[m] = tx[m]
      BY <2>1 DEF Base, IdTypeOK
    <2>3. /\ DOMAIN mempool = 1..Len(mempool) /\ Len(mempool) \in Nat
          /\ DOMAIN mempool' = 1..(Len(mempool) + 1)
          /\ \A p \in 1..Len(mempool) : mempool'[p] = mempool[p] /\ mempool[p] \in Rows
          /\ mempool'[Len(mempool) + 1] = n
      BY <1>1, <2>1
    <2>4. n \in Registers => /\ receipt[n] = None /\ token[n] = NoId
                             /\ \A p \in 1..Len(mempool) : mempool[p] # n
      BY <1>1, <2>1, <2>3 DEF Reported, OnTheWire, Sent, None
    <2>5. receipt' = receipt /\ token' = token
      BY <1>7 DEF Broadcast
    <2>6. \A p \in DOMAIN mempool' : tx'[mempool'[p]] # None
      BY <1>1, <1>4, <2>2, <2>3 DEF OnTheWire, None
    <2>7. ASSUME NEW p \in DOMAIN mempool', mempool'[p] \in Registers
          PROVE  /\ tx'[mempool'[p]] \in {"SUBMITTED", "DROPPED"}
                 /\ receipt'[mempool'[p]] = None /\ token'[mempool'[p]] = NoId
                 /\ \A q \in DOMAIN mempool' : mempool'[q] = mempool'[p] => q = p
      <3>1. CASE p = Len(mempool) + 1
        BY <2>2, <2>3, <2>4, <2>5, <2>7, <3>1
      <3>2. CASE p \in 1..Len(mempool)
        BY <1>1, <2>2, <2>3, <2>4, <2>5, <2>7, <3>2 DEF OnTheWire
      <3> QED
        BY <2>3, <2>7, <3>1, <3>2
    <2> QED
      BY <2>6, <2>7 DEF OnTheWire
  <1> QED
    BY <1>5, <1>6, <1>7, ChainStays

(* What is minted stays reported. *)
LEMMA ReportedHolds ==
    ASSUME Base, Next
    PROVE  Reported'
  <1>1. Reported /\ OnTheWire /\ mempool \in Seq(Rows)
    BY DEF Base, IdTypeOK
  <1>2. CASE Mine
    <2>1. tx' = tx
      BY <1>2 DEF Mine
    <2>2. PICK n \in Rows :
            /\ mempool # <<>> /\ n = mempool[1]
            /\ \A m \in Rows : m # n => receipt'[m] = receipt[m]
            /\ \A r \in Registers : r # n => token'[r] = token[r]
            /\ n \in Registers =>
                  \/ receipt'[n] = "CONFIRMED" /\ token'[n] # NoId
                  \/ receipt'[n] = "REVERTED" /\ token'[n] = token[n]
      BY <1>2, MineIs DEF Base
    <2>3. 1 \in DOMAIN mempool
      BY <1>1, <2>2
    <2>4. n \in Registers => tx[n] \in {"SUBMITTED", "DROPPED"} /\ token[n] = NoId
      BY <1>1, <2>2, <2>3 DEF OnTheWire
    <2>5. \A r \in Registers : r \in Rows
      BY RowKinds
    <2> QED
      BY <1>1, <2>1, <2>2, <2>4, <2>5 DEF Reported, Sent
  <1>3. CASE ~Mine
    <2>1. receipt' = receipt /\ token' = token
      BY <1>3, ChainStays
    <2>2. \A r \in Registers : tx[r] \in Sent => tx'[r] \in Sent
      BY RowsGoOn
    <2>3. ASSUME NEW r \in Registers, tx'[r] \in {"CONFIRMED", "REVERTED"}
          PROVE  receipt[r] = tx'[r]
      <3>1. RowMove(r)
        BY RowKinds, RowsMove
      <3> QED
        BY <1>1, <2>3, <3>1 DEF RowMove, Reported
    <2> QED
      BY <1>1, <2>1, <2>2, <2>3 DEF Reported
  <1> QED
    BY <1>2, <1>3

(* An identity once known stays known ... *)
LEMMA KnownStays ==
    ASSUME Base, Next
    PROVE  KnownIds \subseteq KnownIds'
  <1>1. \A r \in Registers : tx[r] = "CONFIRMED" => tx'[r] = "CONFIRMED"
    BY RowsGoOn
  <1>2. ASSUME NEW r \in Registers, tx[r] = "CONFIRMED"
        PROVE  token'[r] = token[r]
    <2>1. CASE Mine
      <3>1. PICK n \in Rows : /\ mempool # <<>> /\ n = mempool[1]
                              /\ \A q \in Registers : q # n => token'[q] = token[q]
        BY <2>1, MineIs DEF Base
      <3>2. 1 \in DOMAIN mempool
        BY <3>1 DEF Base, IdTypeOK
      <3> QED
        BY <1>2, <3>1, <3>2 DEF Base, OnTheWire
    <2> QED
      BY <2>1, ChainStays
  <1> QED
    BY <1>1, <1>2 DEF KnownIds

(* ... and is never taken from a job. *)
LEMMA IdStays ==
    ASSUME Base, Next, NEW j \in Jobs
    PROVE  /\ agentId[j] # NoId => agentId'[j] = agentId[j]
           /\ agentId'[j] # NoId => agentId'[j] \in KnownIds
  <1>1. agentId \in [Jobs -> Nat \cup {NoId}] /\ IdsKnown /\ BeginsOnce
    BY DEF Base, IdTypeOK
  <1>2. ASSUME NEW f \in Flows, Begin(f)
        PROVE  /\ agentId[j] # NoId => agentId'[j] = agentId[j]
               /\ agentId'[j] # NoId => agentId'[j] \in KnownIds
    BY <1>1, <1>2 DEF Begin, BeginsOnce, IdsKnown, At
  <1>3. ASSUME NEW f \in Flows, ClaimJob(f)
        PROVE  /\ agentId[j] # NoId => agentId'[j] = agentId[j]
               /\ agentId'[j] # NoId => agentId'[j] \in KnownIds
    <2>1. flow[f].id \in KnownIds
      BY <1>1, <1>3 DEF ClaimJob, IdsKnown, At
    <2> QED
      BY <1>1, <1>3, <2>1 DEF ClaimJob, IdsKnown, Waiting
  <1> QED
    BY <1>1, <1>2, <1>3, StepWrites DEF Writes, WriteAgentId, IdsKnown

(* What is written or carried stays known. *)
LEMMA IdsKnownHolds ==
    ASSUME Base, Next
    PROVE  IdsKnown'
  <1>1. KnownIds \subseteq KnownIds'
    BY KnownStays
  <1>2. identity'.status = "REGISTERED" => identity'.id \in KnownIds
    <2>1. ASSUME NEW f \in Flows, ClaimRow(f)
          PROVE  identity' = identity \/ identity'.status = "REGISTERING"
      <3>1. identity' = identity \/ identity' = [status |-> "REGISTERING", id |-> 0, after |-> RegCount]
        BY <2>1 DEF ClaimRow
      <3> QED
        BY <3>1
    <2>2. ASSUME NEW f \in Flows, FailIdentity(f)
          PROVE  identity'.status = "FAILED"
      BY <2>2 DEF FailIdentity, Base, IdTypeOK
    <2>3. ASSUME NEW f \in Flows, Registered(f)
          PROVE  identity'.id \in KnownIds
      BY <2>3 DEF Registered, Base, IdsKnown, At
    <2> QED
      BY <2>1, <2>2, <2>3, StepWrites DEF Writes, WriteIdentity, Base, IdsKnown
  <1>3. ASSUME NEW f \in Flows, flow'[f].pc \in {"registered", "next", "claim", "enqueueBind"}
        PROVE  flow'[f].id \in KnownIds
    BY <1>3, FlowNow DEF Expect, Base, IdsKnown, At
  <1> QED
    BY <1>1, <1>2, <1>3, IdStays DEF IdsKnown, At

(***************************************************************************)
(* ... the bindings, and what the flows have in hand.                      *)
(***************************************************************************)
(* What a step does to one binding, and what cannot begin again. *)
LEMMA BindingGoes ==
    ASSUME Base, Next, NEW j \in Jobs
    PROVE  /\ onChain'[j] = "APPROVED" => onChain[j] = "APPROVED"
           /\ \/ bind'[j] = bind[j]
              \/ \E f \in Flows : Begin(f) /\ flow[f].job = j /\ bind[j] = None /\ bind'[j] = "BINDING"
              \/ \E f \in Flows : /\ BindEnded(f) /\ flow[f].job = j /\ bind[j] = "BINDING"
                                  /\ bind'[j] = IF flow[f].ok THEN "BOUND" ELSE "FAILED"
              \/ bind[j] = "BINDING" /\ bind'[j] \in {"FAILED", "SKIPPED"}
  <1>1. /\ bind \in [Jobs -> {None, "BINDING"} \cup TERMINAL_BINDING_STATUSES]
        /\ onChain \in [Jobs -> {"APPROVED", "FUNDED", "SUBMITTED", "REFUNDED"}]
        /\ \A f \in Flows : At(f, {"begin"}) => bind[flow[f].job] = None
        /\ \A f \in Flows : flow[f].pc \in InHand => flow[f].job \in Jobs
    BY DEF Base, IdTypeOK, BeginsOnce
  <1>2. onChain'[j] = "APPROVED" => onChain[j] = "APPROVED"
    <2>1. ASSUME NEW i \in Jobs, FundConfirmed(i) \/ ReturnToAccepted(i) \/ Mirror(i)
          PROVE  onChain'[j] = "APPROVED" => onChain[j] = "APPROVED"
      BY <1>1, <2>1 DEF FundConfirmed, ReturnToAccepted, Mirror
    <2>2. ASSUME NEW n \in Rows, Confirm(n)
          PROVE  onChain'[j] = "APPROVED" => onChain[j] = "APPROVED"
      BY <1>1, <2>2 DEF Confirm
    <2> QED
      BY <2>1, <2>2, StepWrites DEF Writes, WriteOnChain
  <1>3. ASSUME NEW f \in Flows, Begin(f)
        PROVE  \/ bind'[j] = bind[j]
               \/ flow[f].job = j /\ bind[j] = None /\ bind'[j] = "BINDING"
    BY <1>1, <1>3 DEF Begin, At
  <1>4. ASSUME NEW i, NEW st, EndBinding(i, st)
        PROVE  bind'[j] = bind[j] \/ (i = j /\ bind[j] = "BINDING" /\ bind'[j] = st)
    BY <1>1, <1>4 DEF EndBinding
  <1>5. ASSUME NEW f \in Flows, BindEnded(f)
        PROVE  \/ bind'[j] = bind[j]
               \/ /\ flow[f].job = j /\ bind[j] = "BINDING"
                  /\ bind'[j] = IF flow[f].ok THEN "BOUND" ELSE "FAILED"
    <2>1. EndBinding(flow[f].job, IF flow[f].ok THEN "BOUND" ELSE "FAILED")
      BY <1>5 DEF BindEnded
    <2> QED
      BY <1>4, <2>1
  <1> QED
    BY <1>2, <1>3, <1>4, <1>5, BindingsMove DEF BindMove

(* No binding begins twice. *)
LEMMA BeginsOnceHolds ==
    ASSUME Base, Next
    PROVE  BeginsOnce'
  <1>1. BeginsOnce /\ agentId \in [Jobs -> Nat \cup {NoId}]
    BY DEF Base, IdTypeOK
  <1>2. ASSUME NEW j \in Jobs
        PROVE  /\ onChain'[j] = "APPROVED" => bind'[j] = None
               /\ bind'[j] = None => agentId'[j] = NoId
               /\ agentId'[j] = NoId => tx'[Binding(j)] = None
    <2>1. onChain'[j] = "APPROVED" => bind'[j] = None
      <3>1. \A f \in Flows : Begin(f) => onChain[flow[f].job] # "APPROVED"
        BY <1>1 DEF BeginsOnce, Begin, At
      <3>2. onChain[j] = "APPROVED" => bind[j] = None
        BY <1>1 DEF BeginsOnce
      <3> QED
        BY <3>1, <3>2, BindingGoes DEF None
    <2>2. bind'[j] = None => bind[j] = None
      BY BindingGoes DEF None
    <2>3. ASSUME bind[j] = None
          PROVE  agentId'[j] = NoId
      <3>1. ASSUME NEW f \in Flows, Begin(f) PROVE agentId'[j] = NoId
        BY <1>1, <2>3, <3>1 DEF Begin, BeginsOnce
      <3>2. ASSUME NEW f \in Flows, ClaimJob(f) PROVE agentId'[j] = NoId
        BY <1>1, <2>3, <3>2 DEF ClaimJob, BeginsOnce, Waiting, None
      <3> QED
        BY <1>1, <2>3, <3>1, <3>2, StepWrites DEF Writes, WriteAgentId, BeginsOnce
    <2>4. ASSUME agentId'[j] = NoId
          PROVE  tx'[Binding(j)] = None
      <3>1. agentId[j] = NoId
        BY <2>4, IdStays
      <3>2. tx[Binding(j)] = None
        BY <1>1, <3>1 DEF BeginsOnce
      <3>3. Binding(j) \in Rows /\ Binding(j) \notin Registers /\ RowMove(Binding(j))
        BY RowKinds, RowsMove
      <3>4. ~ \E f \in Flows : EnqueueBind(f) /\ flow[f].job = j
        BY <3>1 DEF Base, HandsOK, EnqueueBind, At
      <3> QED
        BY <3>2, <3>3, <3>4 DEF RowMove, None
    <2> QED
      BY <2>1, <2>2, <2>3, <2>4
  <1>3. ASSUME NEW f \in Flows, flow'[f].pc = "begin"
        PROVE  /\ f = Start(flow'[f].job)
               /\ bind'[flow'[f].job] = None
               /\ onChain'[flow'[f].job] # "APPROVED"
    <2> DEFINE j == flow'[f].job
    <2>1. j \in Jobs
      BY <1>3, FlowNow DEF OkRec, InHand
    <2>2. CASE flow'[f] = flow[f]
      <3>1. f = Start(j) /\ bind[j] = None /\ onChain[j] # "APPROVED"
        BY <1>1, <1>3, <2>2 DEF BeginsOnce, At
      <3>2. ASSUME NEW g \in Flows, Begin(g), flow[g].job = j
            PROVE  FALSE
        <4>1. g = f
          BY <1>1, <3>1, <3>2 DEF BeginsOnce, Begin, At
        <4>2. flow'[f].pc = "ensure"
          BY <3>2, <4>1 DEF Begin, Goes, Base, IdTypeOK
        <4> QED
          BY <1>3, <4>2
      <3>3. bind'[j] = None
        BY <2>1, <3>1, <3>2, BindingGoes DEF None
      <3> QED
        BY <2>1, <3>1, <3>3, BindingGoes
    <2>3. CASE Expect(f, flow'[f])
      <3>1. f = Start(j) /\ onChain[j] = "APPROVED" /\ onChain'[j] # "APPROVED"
        BY <1>3, <2>3 DEF Expect
      <3>2. bind[j] = None
        BY <1>1, <2>1, <3>1 DEF BeginsOnce
      <3>3. bind'[j] = None
        BY <1>1, <2>1, <3>1, <3>2, BindingGoes DEF BeginsOnce, Begin, At, None
      <3> QED
        BY <3>1, <3>3
    <2> QED
      BY <2>2, <2>3, FlowNow
  <1> QED
    BY <1>2, <1>3 DEF BeginsOnce, At

(* The calldata of a bind stays the id of its job. *)
LEMMA CarriesHolds ==
    ASSUME Base, Next
    PROVE  Carries'
  <1> SUFFICES ASSUME NEW j \in Jobs, tx'[Binding(j)] # None
               PROVE  calldata'[j] = agentId'[j]
    BY DEF Carries
  <1>1. \A f \in Flows : EnqueueBind(f) /\ flow[f].job = j => agentId[j] = flow[f].id /\ agentId[j] # NoId
    BY DEF EnqueueBind, Base, HandsOK, At
  <1>2. tx[Binding(j)] # None \/ \E f \in Flows : EnqueueBind(f) /\ flow[f].job = j
    <2>1. Binding(j) \in Rows /\ Binding(j) \notin Registers /\ RowMove(Binding(j))
      BY RowKinds, RowsMove
    <2> QED
      BY <2>1 DEF RowMove, None
  <1>3. agentId[j] # NoId
    BY <1>1, <1>2 DEF Base, BeginsOnce
  <1>4. agentId'[j] = agentId[j]
    BY <1>3, IdStays
  <1>5. ASSUME NEW f \in Flows, EnqueueBind(f)
        PROVE  calldata'[j] = IF flow[f].job = j THEN flow[f].id ELSE calldata[j]
    BY <1>5 DEF EnqueueBind, Base, IdTypeOK
  <1>6. CASE tx[Binding(j)] # None
    <2>1. calldata[j] = agentId[j]
      BY <1>6 DEF Base, Carries
    <2> QED
      BY <1>1, <1>4, <1>5, <2>1, StepWrites DEF Writes
  <1>7. CASE \E f \in Flows : EnqueueBind(f) /\ flow[f].job = j
    BY <1>1, <1>4, <1>5, <1>7
  <1> QED
    BY <1>2, <1>6, <1>7

(* What is mined binds a job to the id in its row. *)
LEMMA BoundBy ==
    ASSUME Base, Next, NEW j \in Jobs
    PROVE  /\ boundTo'[j] \in {boundTo[j], agentId[j]}
           /\ (receipt'[Binding(j)] = "CONFIRMED" /\ receipt[Binding(j)] # "CONFIRMED")
                 => boundTo'[j] = agentId[j] /\ agentId[j] # NoId
  <1>1. Binding(j) \in Rows /\ mempool \in Seq(Rows)
    BY RowKinds DEF Base, IdTypeOK
  <1>2. CASE ~Mine
    BY <1>2, ChainStays
  <1>3. CASE Mine
    <2>1. PICK n \in Rows :
            /\ mempool # <<>> /\ n = mempool[1]
            /\ \A m \in Rows : m # n => receipt'[m] = receipt[m]
            /\ boundTo'[j] # boundTo[j] => n = Binding(j) /\ boundTo'[j] = calldata[j]
            /\ n = Binding(j) => receipt'[n] = "REVERTED" \/ boundTo'[j] = calldata[j]
      BY <1>3, MineIs DEF Base
    <2>2. n = Binding(j) => tx[Binding(j)] # None
      <3>1. 1 \in DOMAIN mempool
        BY <1>1, <2>1
      <3> QED
        BY <2>1, <3>1 DEF Base, OnTheWire
    <2>3. n = Binding(j) => calldata[j] = agentId[j] /\ agentId[j] # NoId
      BY <2>2 DEF Base, Carries, BeginsOnce
    <2>4. receipt'[Binding(j)] # receipt[Binding(j)] => n = Binding(j)
      BY <1>1, <2>1
    <2>5. CASE n = Binding(j)
      <3>1. boundTo'[j] \in {boundTo[j], agentId[j]}
        BY <2>1, <2>3, <2>5, Zenon
      <3>2. receipt'[Binding(j)] = "CONFIRMED" => boundTo'[j] = agentId[j] /\ agentId[j] # NoId
        BY <2>1, <2>3, <2>5
      <3> QED
        BY <3>1, <3>2
    <2>6. CASE n # Binding(j)
      BY <2>1, <2>4, <2>6
    <2> QED
      BY <2>5, <2>6
  <1> QED
    BY <1>2, <1>3

(* A bind that succeeded stays what it was. *)
LEMMA BindsHoldHolds ==
    ASSUME Base, Next
    PROVE  BindsHold'
  <1> SUFFICES ASSUME NEW j \in Jobs,
                      \/ bind'[j] = "BOUND" \/ tx'[Binding(j)] = "CONFIRMED"
                      \/ receipt'[Binding(j)] = "CONFIRMED"
               PROVE  boundTo'[j] = agentId'[j] /\ agentId'[j] # NoId
    BY DEF BindsHold
  <1> DEFINE b == Binding(j)
  <1>1. b \in Rows /\ b \notin Registers /\ RowMove(b) /\ mempool \in Seq(Rows)
    BY RowKinds, RowsMove DEF Base, IdTypeOK
  <1>2. agentId[j] # NoId => agentId'[j] = agentId[j]
    BY IdStays
  <1>3. boundTo'[j] \in {boundTo[j], agentId[j]}
    BY BoundBy
  <1>4. ASSUME boundTo[j] = agentId[j], agentId[j] # NoId
        PROVE  boundTo'[j] = agentId'[j] /\ agentId'[j] # NoId
    BY <1>2, <1>3, <1>4
  <1>5. CASE bind[j] = "BOUND" \/ tx[b] = "CONFIRMED" \/ receipt[b] = "CONFIRMED"
    BY <1>4, <1>5 DEF Base, BindsHold
  <1>6. CASE bind'[j] = "BOUND" /\ bind[j] # "BOUND"
    <2>1. PICK f \in Flows : BindEnded(f) /\ flow[f].job = j /\ flow[f].ok
      BY <1>6, BindingGoes
    <2>2. boundTo[j] = agentId[j] /\ agentId[j] # NoId
      BY <2>1 DEF Base, HandsOK, BindEnded, At
    <2> QED
      BY <1>4, <2>2
  <1>7. CASE tx'[b] = "CONFIRMED" /\ tx[b] # "CONFIRMED"
    <2>1. receipt[b] = "CONFIRMED"
      BY <1>1, <1>7 DEF RowMove
    <2> QED
      BY <1>5, <2>1
  <1>8. CASE receipt'[b] = "CONFIRMED" /\ receipt[b] # "CONFIRMED"
    BY <1>2, <1>8, BoundBy
  <1> QED
    BY <1>5, <1>6, <1>7, <1>8

(* What a flow has read stays true enough. *)
LEMMA HandsHold ==
    ASSUME Base, Next
    PROVE  HandsOK'
  <1>0. ASSUME NEW f \in Flows, flow'[f].pc = "claimRow"
        PROVE  flow'[f].row \in {None, "FAILED"}
    BY <1>0, FlowNow DEF Expect, Base, HandsOK, At
  <1>1. ASSUME NEW f \in Flows, flow'[f].pc = "failing"
        PROVE  flow'[f].todo # {}
    BY <1>1, FlowNow DEF Expect, Base, HandsOK, At
  <1>2. ASSUME NEW f \in Flows, flow'[f].pc = "failed", NEW n \in Registers, n[2] = flow'[f].id
        PROVE  tx'[n] \in FailedTx
    <2>1. tx[n] \in FailedTx \/ tx'[n] \in FailedTx
      BY <1>2, FlowNow DEF Expect, Base, HandsOK, IsFailed, At
    <2> QED
      BY <2>1, RowsGoOn
  <1>3. ASSUME NEW f \in Flows, flow'[f].pc = "enqueueBind"
        PROVE  agentId'[flow'[f].job] # NoId /\ agentId'[flow'[f].job] = flow'[f].id
    <2>1. flow'[f].job \in Jobs
      BY <1>3, FlowNow DEF OkRec, InHand
    <2> QED
      BY <1>3, <2>1, FlowNow, IdStays DEF Expect, Base, HandsOK, At
  <1>4. ASSUME NEW f \in Flows, flow'[f].pc = "bindEnded", flow'[f].ok
        PROVE  boundTo'[flow'[f].job] = agentId'[flow'[f].job] /\ agentId'[flow'[f].job] # NoId
    <2> DEFINE j == flow'[f].job
    <2>1. j \in Jobs
      BY <1>4, FlowNow DEF OkRec, InHand
    <2>2. CASE flow'[f] = flow[f]
      <3>1. boundTo[j] = agentId[j] /\ agentId[j] # NoId
        BY <1>4, <2>2 DEF Base, HandsOK, At
      <3>2. boundTo'[j] \in {boundTo[j], agentId[j]}
        BY <2>1, BoundBy
      <3> QED
        BY <2>1, <3>1, <3>2, IdStays
    <2>3. CASE Expect(f, flow'[f])
      <3>1. tx'[Binding(j)] = "CONFIRMED"
        BY <1>4, <2>3 DEF Expect
      <3> QED
        BY <2>1, <3>1, BindsHoldHolds DEF BindsHold
    <2> QED
      BY <2>2, <2>3, FlowNow
  <1> QED
    BY <1>0, <1>1, <1>2, <1>3, <1>4 DEF HandsOK, IsFailed, At

(* Base is inductive. *)
LEMMA BaseHolds == Base /\ Next => Base'
  BY TypesHold, InOrderHolds, OnTheWireHolds, ReportedHolds, IdsKnownHolds, BeginsOnceHolds,
     CarriesHolds, HandsHold, BindsHoldHolds DEF Base

(***************************************************************************)
(* Every step preserves Claims.                                            *)
(***************************************************************************)
(* A registration comes alive only when it is enqueued. *)
LEMMA GoodGoes ==
    ASSUME Base, Next
    PROVE  \A r \in Good' : \/ r \in Good
                            \/ \E f \in Flows : EnqueueRegister(f) /\ r[2] = RegCount + 1
  <1> SUFFICES ASSUME NEW r \in Registers, tx'[r] \in IN_FLIGHT_TX, tx[r] \notin IN_FLIGHT_TX
               PROVE  \E f \in Flows : EnqueueRegister(f) /\ r[2] = RegCount + 1
    BY DEF Good
  <1>1. tx[r] \notin FailedTx
    BY RowsGoOn
  <1>2. tx[r] = None /\ tx'[r] # None
    BY <1>1, RowKinds DEF Base, IdTypeOK, IN_FLIGHT_TX, PENDING_TX, None
  <1> QED
    BY <1>2, NewRegister

(* A failure that overwrites nothing finds no registration alive. *)
LEMMA FailsTheLast ==
    ASSUME Base, NEW f \in Flows, FailIdentity(f), ~overwritten'
    PROVE  Good = {} /\ \A g \in Flows : ~ At(g, Claiming)
  <1>1. overwritten' = (overwritten \/ ClaimedSince(f)) /\ flow[f].pc = "failed"
    BY DEF FailIdentity
  <1>2. ~ ClaimedSince(f)
    BY <1>1, Zenon
  <1>3. \A n \in Registers : n[2] = flow[f].id => tx[n] \in FailedTx
    BY <1>1 DEF Base, HandsOK, IsFailed, At
  <1>4. FailedTx \cap IN_FLIGHT_TX = {}
    BY DEF FailedTx, IN_FLIGHT_TX, PENDING_TX
  <1> QED
    BY <1>2, <1>3, <1>4 DEF ClaimedSince, Claiming, Good, At

(* A registered identity has a registration. *)
LEMMA KnownIsGood == KnownIds # {} => Good # {}
  BY DEF KnownIds, Good, IN_FLIGHT_TX

(* What a step does to the identity, until one is overwritten. *)
LEMMA IdentityGoes ==
    ASSUME Base, Next, ~overwritten'
    PROVE  \/ identity' = identity
           \/ identity.status \in {None, "FAILED"} /\ identity'.status = "REGISTERING"
           \/ /\ identity'.status = "FAILED"
              /\ Good = {} /\ tx' = tx /\ \A g \in Flows : ~ At(g, Claiming)
           \/ identity'.status = "REGISTERED" /\ Good # {}
  <1>1. ASSUME NEW f \in Flows, ClaimRow(f)
        PROVE  \/ identity' = identity
               \/ identity.status \in {None, "FAILED"} /\ identity'.status = "REGISTERING"
    <2>1. \/ identity' = identity
          \/ /\ identity.status \in {None, "FAILED"}
             /\ identity' = [status |-> "REGISTERING", id |-> 0, after |-> RegCount]
      BY <1>1 DEF ClaimRow, Base, HandsOK, At
    <2> QED
      BY <2>1
  <1>2. ASSUME NEW f \in Flows, FailIdentity(f)
        PROVE  /\ identity'.status = "FAILED"
               /\ Good = {} /\ tx' = tx /\ \A g \in Flows : ~ At(g, Claiming)
    <2>1. identity'.status = "FAILED" /\ tx' = tx
      BY <1>2 DEF FailIdentity, Base, IdTypeOK
    <2> QED
      BY <1>2, <2>1, FailsTheLast
  <1>3. ASSUME NEW f \in Flows, Registered(f)
        PROVE  identity'.status = "REGISTERED" /\ Good # {}
    <2>1. identity'.status = "REGISTERED"
      BY <1>3 DEF Registered
    <2>2. KnownIds # {}
      BY <1>3 DEF Registered, Base, IdsKnown, At
    <2> QED
      BY <2>1, <2>2, KnownIsGood
  <1> QED
    BY <1>1, <1>2, <1>3, StepWrites DEF Writes, WriteIdentity

(* Claims is inductive, relative to Base. *)
LEMMA ClaimsHold == Base /\ Claims /\ Next => Claims'
  <1> SUFFICES ASSUME Base, Claims, Next, ~overwritten' PROVE Claims'
    BY DEF Claims
  <1>1. ~overwritten
    <2>1. ASSUME NEW f \in Flows, FailIdentity(f) PROVE ~overwritten
      <3>1. overwritten' = (overwritten \/ ClaimedSince(f))
        BY <2>1 DEF FailIdentity
      <3> QED
        BY <3>1, Zenon
    <2> QED
      BY <2>1, StepWrites DEF Writes
  <1>2. /\ \A r, s \in Good : r = s
        /\ \A f, g \in Flows : At(f, Claiming) /\ At(g, Claiming) => f = g
        /\ (\E f \in Flows : At(f, Claiming)) => Good = {} /\ identity.status = "REGISTERING"
        /\ identity.status \in {None, "FAILED"} => Good = {}
    BY <1>1, Zenon DEF Claims
  <1>3. \A f \in Flows : flow'[f].pc \in Claiming =>
           \/ At(f, Claiming)
           \/ /\ identity.status \in {None, "FAILED"} /\ identity'.status = "REGISTERING"
              /\ \A g \in Flows : g # f => flow'[g] = flow[g]
    BY FlowNow DEF Expect, At, Claiming
  <1>4. ASSUME NEW f \in Flows, EnqueueRegister(f)
        PROVE  At(f, Claiming) /\ flow'[f].pc \notin Claiming /\ identity' = identity
    <2>1. At(f, Claiming) /\ identity' = identity
      BY <1>4 DEF EnqueueRegister, At, Claiming
    <2>2. \E r : Goes(f, r) /\ r.pc \notin Claiming
      <3>1. ASSUME NEW x \in FlowRec, Fails(f, x, RegCount + 1)
            PROVE  \E r : Goes(f, r) /\ r.pc \notin Claiming
        <4> DEFINE y == [x EXCEPT !.pc = "failed", !.id = RegCount + 1]
        <4>1. y.pc = "failed" /\ Goes(f, y)
          BY <3>1 DEF Fails, FlowRec
        <4> HIDE DEF y
        <4> QED
          BY <4>1 DEF Claiming
      <3> QED
        BY <1>4, <3>1, EnqueueGoes DEF Base, Claiming
    <2> QED
      BY <2>1, <2>2, GoesOn DEF Base
  <1>5. \A r, s \in Good' : r = s
    <2>1. CASE \E f \in Flows : EnqueueRegister(f)
      <3>1. Good = {}
        BY <1>2, <1>4, <2>1
      <3>2. \A r \in Good' : r \in Registers /\ r[2] = RegCount + 1
        BY <3>1, GoodGoes DEF Good
      <3> QED
        BY <3>2, NumberIs
    <2>2. CASE ~ \E f \in Flows : EnqueueRegister(f)
      BY <1>2, <2>2, GoodGoes
    <2> QED
      BY <2>1, <2>2
  <1>6. ASSUME NEW f \in Flows, NEW g \in Flows, flow'[f].pc \in Claiming, flow'[g].pc \in Claiming
        PROVE  f = g
    BY <1>2, <1>3, <1>6 DEF At, None
  <1>7. ASSUME NEW f \in Flows, flow'[f].pc \in Claiming
        PROVE  Good' = {} /\ identity'.status = "REGISTERING"
    <2>1. CASE At(f, Claiming)
      <3>1. Good = {} /\ identity.status = "REGISTERING"
        BY <1>2, <2>1
      <3>2. \A g \in Flows : ~EnqueueRegister(g)
        BY <1>2, <1>4, <1>7, <2>1
      <3>3. Good' = {}
        BY <3>1, <3>2, GoodGoes
      <3> QED
        BY <2>1, <3>1, <3>3, IdentityGoes DEF None
    <2>2. CASE identity.status \in {None, "FAILED"} /\ identity'.status = "REGISTERING"
      <3>1. Good = {} /\ \A g \in Flows : ~EnqueueRegister(g)
        BY <1>2, <1>4, <2>2 DEF None
      <3>2. Good' = {}
        BY <3>1, GoodGoes
      <3> QED
        BY <2>2, <3>2
    <2> QED
      BY <1>3, <1>7, <2>1, <2>2
  <1>8. ASSUME identity'.status \in {None, "FAILED"}
        PROVE  Good' = {}
    <2>1. CASE identity' = identity
      <3>1. Good = {} /\ \A g \in Flows : ~EnqueueRegister(g)
        BY <1>2, <1>4, <1>8, <2>1 DEF None
      <3> QED
        BY <3>1, GoodGoes
    <2>2. CASE Good = {} /\ tx' = tx
      BY <2>2 DEF Good
    <2> QED
      BY <1>8, <2>1, <2>2, IdentityGoes DEF None
  <1> QED
    BY <1>5, <1>6, <1>7, <1>8 DEF Claims, At

(***************************************************************************)
(* Every step preserves Order.                                             *)
(***************************************************************************)
(* A job gets its bind enqueued once. *)
LEMMA NewBind ==
    ASSUME Base, Next, NEW j \in Jobs,
           tx[Binding(j)] \notin PENDING_TX, tx'[Binding(j)] \notin {tx[Binding(j)]} \cup FailedTx
    PROVE  \E f \in Flows : EnqueueBind(f) /\ flow[f].job = j
  <1>1. RowMove(Binding(j))
    BY RowKinds, RowsMove
  <1> QED
    BY <1>1 DEF RowMove, PENDING_TX

(* A bind stays enqueued once. *)
LEMMA OneBindHolds ==
    ASSUME Base, OneBind, Next
    PROVE  OneBind'
  <1>1. /\ \A f \in Flows : At(f, {"enqueueBind"}) => /\ agentId[flow[f].job] # NoId
                                                      /\ tx[Binding(flow[f].job)] = None
        /\ \A f, g \in Flows :
              At(f, {"enqueueBind"}) /\ At(g, {"enqueueBind"}) /\ flow[f].job = flow[g].job => f = g
    BY DEF OneBind, Base, HandsOK
  <1>2. \A f \in Flows : flow'[f].pc = "enqueueBind" =>
           /\ flow'[f].job \in Jobs
           /\ \/ flow'[f] = flow[f]
              \/ /\ flow'[f].job \in Waiting
                 /\ \A g \in Flows : g # f => flow'[g] = flow[g]
    BY FlowNow DEF Expect, OkRec, InHand
  <1>3. ASSUME NEW f \in Flows, EnqueueBind(f)
        PROVE  At(f, {"enqueueBind"}) /\ flow'[f].pc # "enqueueBind"
    <2> DEFINE x == [flow[f] EXCEPT !.pc = "next", !.ended = @ \cup Ending(flow[f].job)]
    <2>1. At(f, {"enqueueBind"})
      BY <1>3 DEF EnqueueBind, At
    <2>2. x.pc = "next"
      BY FlowIs DEF FlowRec, Base
    <2>3. Goes(f, Over(f, flow[f])) \/ Goes(f, x)
      BY <1>3 DEF EnqueueBind
    <2> HIDE DEF x
    <2> QED
      BY <2>1, <2>2, <2>3, OverIs, GoesOn DEF Base
  <1>4. ASSUME NEW f \in Flows, NEW g \in Flows,
               flow'[f].pc = "enqueueBind", flow'[g].pc = "enqueueBind", flow'[f].job = flow'[g].job
        PROVE  f = g
    <2>1. CASE flow'[f] = flow[f] /\ flow'[g] = flow[g]
      BY <1>1, <1>4, <2>1 DEF At
    <2>2. CASE flow'[f].job \in Waiting
      BY <1>1, <1>2, <1>4, <2>2 DEF At, Waiting
    <2> QED
      BY <1>2, <1>4, <2>1, <2>2
  <1>5. ASSUME NEW f \in Flows, flow'[f].pc = "enqueueBind"
        PROVE  tx'[Binding(flow'[f].job)] = None
    <2> DEFINE j == flow'[f].job
    <2>1. j \in Jobs
      BY <1>2, <1>5
    <2>2. tx[Binding(j)] = None
      BY <1>1, <1>2, <1>5, <2>1 DEF At, Waiting, Base, BeginsOnce
    <2>3. ASSUME NEW g \in Flows, EnqueueBind(g), flow[g].job = j
          PROVE  FALSE
      <3>1. CASE flow'[f] = flow[f]
        BY <1>1, <1>3, <1>5, <2>3, <3>1 DEF At
      <3>2. CASE j \in Waiting
        BY <1>1, <1>3, <2>3, <3>2 DEF Waiting
      <3> QED
        BY <1>2, <1>5, <3>1, <3>2
    <2>4. RowMove(Binding(j)) /\ Binding(j) \notin Registers
      BY <2>1, RowKinds, RowsMove
    <2> HIDE DEF j
    <2>5. tx'[Binding(j)] = None
      BY <2>1, <2>2, <2>3, <2>4 DEF RowMove, None
    <2> QED
      BY <2>5 DEF j
  <1>6. ASSUME NEW f \in Flows, flow'[f].pc = "bindEnded"
        PROVE  /\ tx'[Binding(flow'[f].job)] \notin PENDING_TX
               /\ agentId'[flow'[f].job] # NoId
               /\ \A g \in Flows : flow'[g].pc = "enqueueBind" => flow'[g].job # flow'[f].job
    <2> DEFINE j == flow'[f].job
    <2>1. j \in Jobs
      BY <1>6, FlowNow DEF OkRec, InHand
    <2>2. agentId[j] # NoId
      BY <1>6, FlowNow DEF Expect, OneBind, At
    <2>3. \A g \in Flows : At(g, {"enqueueBind"}) => flow[g].job # j
      <3>1. CASE flow'[f] = flow[f]
        BY <1>6, <3>1 DEF OneBind, At
      <3>2. CASE Expect(f, flow'[f])
        BY <1>1, <1>6, <3>2 DEF Expect
      <3> QED
        BY <3>1, <3>2, FlowNow
    <2>4. tx'[Binding(j)] \notin PENDING_TX
      <3>1. CASE flow'[f] = flow[f]
        <4>1. tx[Binding(j)] \notin PENDING_TX
          BY <1>6, <3>1 DEF OneBind, At
        <4>2. FailedTx \cap PENDING_TX = {}
          BY DEF FailedTx, PENDING_TX
        <4> QED
          BY <1>3, <2>1, <2>3, <4>1, <4>2, NewBind
      <3>2. CASE Expect(f, flow'[f])
        BY <1>6, <3>2 DEF Expect
      <3> QED
        BY <3>1, <3>2, FlowNow
    <2>5. agentId'[j] # NoId
      BY <2>1, <2>2, IdStays
    <2>6. ASSUME NEW g \in Flows, flow'[g].pc = "enqueueBind", flow'[g].job = j
          PROVE  FALSE
      BY <1>2, <2>2, <2>3, <2>6 DEF Waiting, At
    <2> QED
      BY <2>4, <2>5, <2>6
  <1> QED
    BY <1>4, <1>5, <1>6 DEF OneBind, At

(* A bind that is vetted is not ended before it is sent. *)
LEMMA VettedHolds ==
    ASSUME Base, OneBind, VettedIsBinding, Next
    PROVE  VettedIsBinding'
  <1> SUFFICES ASSUME NEW j \in Jobs, j \notin passed', tx'[Binding(j)] = "VETTED"
               PROVE  bind'[j] = "BINDING"
    BY DEF VettedIsBinding
  <1> DEFINE b == Binding(j)
  <1>0. tx'[b] = "VETTED"
    OBVIOUS
  <1>1. tx[b] = "VETTED" => bind[j] = "BINDING"
    BY PassedGrows DEF VettedIsBinding
  <1>2. /\ b \in Rows /\ b \notin Registers /\ RowMove(b)
        /\ \A i \in Jobs : b = Binding(i) => i = j
    BY RowKinds, RowsMove
  <1>3. tx[b] = "VETTED" \/ (bind' = bind /\ bind[j] = "BINDING")
    <2>1. receipt[b] # "VETTED"
      BY <1>2 DEF Base, IdTypeOK, None
    <2> HIDE DEF b
    <2> QED
      BY <1>0, <1>2, <2>1 DEF RowMove, MayBroadcast, None
  <1>4. ASSUME tx[b] = "VETTED" PROVE bind'[j] = "BINDING"
    <2>1. bind[j] = "BINDING" /\ agentId[j] # NoId
      BY <1>1, <1>4 DEF Base, BeginsOnce, None
    <2>2. bind \in [Jobs -> {None, "BINDING"} \cup TERMINAL_BINDING_STATUSES]
      BY DEF Base, IdTypeOK
    <2>3. ASSUME NEW f \in Flows, Begin(f) PROVE bind'[j] = "BINDING"
      BY <2>1, <2>2, <2>3 DEF Begin
    <2>4. ASSUME NEW f \in Flows, BindEnded(f) PROVE bind'[j] = "BINDING"
      <3>1. flow[f].job # j
        BY <1>4, <2>4 DEF OneBind, BindEnded, At, PENDING_TX
      <3> QED
        BY <2>1, <2>2, <2>4, <3>1 DEF BindEnded, EndBinding
    <2>5. ASSUME NEW i \in Jobs, NEW st, EndBinding(i, st), i # j
          PROVE  bind'[j] = "BINDING"
      BY <2>1, <2>2, <2>5 DEF EndBinding
    <2>6. ~PassBy(j)
      BY <2>1 DEF PassBy, Ending
    <2>7. ASSUME NEW f \in Flows, EnqueueBind(f) PROVE flow[f].job # j
      BY <1>4, <2>7 DEF OneBind, EnqueueBind, At, None
    <2> QED
      BY <1>4, <2>1, <2>3, <2>4, <2>5, <2>6, <2>7, BindingsMove DEF BindMove
  <1> QED
    BY <1>3, <1>4

(* A binding ahead was ahead, and no submit is sent then. *)
LEMMA AheadStays ==
    ASSUME Base, Next, NEW j \in Jobs, Ahead(j)'
    PROVE  Ahead(j)
  <1>1. onChain'[j] = "APPROVED" => onChain[j] = "APPROVED"
    BY BindingGoes
  <1>2. bind'[j] = "BINDING" => bind[j] = "BINDING" \/ \E f \in Flows : Begin(f) /\ flow[f].job = j
    BY BindingGoes
  <1>3. \A f \in Flows : Begin(f) => At(f, {"begin"})
    BY DEF Begin, At
  <1>4. \A f \in Flows : flow'[f].pc = "begin" => \/ flow'[f] = flow[f]
                                                  \/ onChain[flow'[f].job] = "APPROVED"
    BY FlowNow DEF Expect
  <1> QED
    BY <1>1, <1>2, <1>3, <1>4 DEF Ahead, At

(* What a binding ahead looks like. *)
LEMMA AheadIs ==
    ASSUME Base, NEW j \in Jobs, Ahead(j)
    PROVE  /\ bind[j] \in {None, "BINDING"}
           /\ bind[j] = "BINDING" \/ onChain[j] = "APPROVED" \/ At(Start(j), {"begin"})
  BY DEF Base, BeginsOnce, Ahead

(* No submit is sent before the binding is through. *)
LEMMA NoSubmitHolds ==
    ASSUME Base, NoSubmitYet, Next
    PROVE  NoSubmitYet'
  <1>1. \A j \in Jobs \ passed' : Ahead(j) =>
          /\ tx[Submission(j)] = None
          /\ \A f \in Flows : At(f, {"submit", "send"}) => flow[f].job # j
    BY PassedGrows DEF NoSubmitYet
  <1>2. ASSUME NEW j \in Jobs \ passed', Ahead(j)'
        PROVE  tx'[Submission(j)] = None
    <2>1. Ahead(j)
      BY <1>2, AheadStays
    <2>2. \A f \in Flows : ~ ((Submit(f) \/ Send(f)) /\ flow[f].job = j)
      BY <1>1, <2>1 DEF Submit, Send, At
    <2>3. RowMove(Submission(j)) /\ Submission(j) \notin Registers
      BY RowKinds, RowsMove DEF Submission, Registers
    <2>4. tx[Submission(j)] = None
      BY <1>1, <2>1
    <2> QED
      BY <2>2, <2>3, <2>4 DEF RowMove, None
  <1>3. ASSUME NEW j \in Jobs \ passed', Ahead(j)', NEW f \in Flows,
               flow'[f].pc \in {"submit", "send"}, flow'[f].job = j
        PROVE  FALSE
    <2>1. Ahead(j)
      BY <1>3, AheadStays
    <2>2. CASE flow'[f] = flow[f]
      BY <1>1, <1>3, <2>1, <2>2 DEF At
    <2>3. CASE Expect(f, flow'[f])
      <3>1. /\ bind[j] \in {None, "BINDING"}
            /\ bind[j] = "BINDING" \/ onChain[j] = "APPROVED" \/ At(Start(j), {"begin"})
        BY <2>1, AheadIs
      <3>2. \/ bind[j] # "BINDING" /\ onChain[j] = "FUNDED" /\ ~ At(Start(j), {"begin"})
            \/ bind[j] # "BINDING" /\ At(f, {"defer"}) /\ j = flow[f].job
            \/ bind[j] \in TERMINAL_BINDING_STATUSES
        BY <1>3, <2>3 DEF Expect
      <3>3. At(f, {"defer"}) => bind[flow[f].job] # None
        BY DEF NoSubmitYet
      <3> QED
        BY <3>1, <3>2, <3>3 DEF TERMINAL_BINDING_STATUSES, None
    <2> QED
      BY <2>2, <2>3, FlowNow
  <1>4. ASSUME NEW f \in Flows, flow'[f].pc = "defer"
        PROVE  bind'[flow'[f].job] # None
    <2>1. flow'[f].job \in Jobs
      BY <1>4, FlowNow DEF OkRec, InHand
    <2>2. bind[flow'[f].job] # None
      BY <1>4, FlowNow DEF Expect, NoSubmitYet, At, None
    <2> QED
      BY <2>1, <2>2, BindingGoes DEF None
  <1>5. ASSUME NEW j \in Jobs, chain'[j] = "Submitted"
        PROVE  tx'[Submission(j)] # None
    <2>1. Submission(j) \in Rows
      BY RowKinds
    <2>2. tx[Submission(j)] # None
      <3>1. CASE chain[j] = "Submitted"
        BY <3>1 DEF NoSubmitYet
      <3>2. CASE Mine /\ chain[j] # "Submitted"
        <4>1. mempool # <<>> /\ Submission(j) = mempool[1]
          BY <1>5, <3>2, MineIs DEF Base
        <4> QED
          BY <4>1 DEF Base, OnTheWire, IdTypeOK
      <3>3. ASSUME NEW i \in Jobs, Refund(i) PROVE chain[j] = "Submitted"
        BY <1>5, <3>3 DEF Refund, Base, IdTypeOK
      <3> QED
        BY <1>5, <3>1, <3>2, <3>3, StepWrites DEF Writes, WriteChain
    <2> QED
      BY <2>1, <2>2, RowsGoOn
  <1> QED
    BY <1>2, <1>3, <1>4, <1>5 DEF NoSubmitYet, At

(* The binds stay ahead of the submits. *)
LEMMA BindsFirstHolds ==
    ASSUME Base, VettedIsBinding, NoSubmitYet, BindsFirst, Next
    PROVE  BindsFirst'
  <1> SUFFICES ASSUME NEW q \in DOMAIN mempool', NEW j \in Jobs, j \notin passed', mempool'[q] = Binding(j)
               PROVE  /\ chain'[j] # "Submitted"
                      /\ \A p \in DOMAIN mempool' : mempool'[p] = Submission(j) => p > q
    BY DEF BindsFirst
  <1> DEFINE b == Binding(j)
             s == Submission(j)
  <1>1. /\ \A k \in DOMAIN mempool : mempool[k] = b =>
              /\ chain[j] # "Submitted"
              /\ \A p \in DOMAIN mempool : mempool[p] = s => p > k
        /\ tx[b] = "VETTED" => bind[j] = "BINDING"
    BY PassedGrows DEF BindsFirst, VettedIsBinding
  <1>2. mempool \in Seq(Rows) /\ b # s /\ b[1] = "bindAgent" /\ b \in Rows
    BY RowKinds DEF Base, IdTypeOK
  <1> HIDE DEF b, s
  <1>3. CASE Mine
    <2>1. /\ mempool # <<>> /\ mempool' = Tail(mempool)
          /\ chain'[j] # chain[j] => mempool[1] = s
      BY <1>3, MineIs DEF Base, s
    <2>2. \A p \in DOMAIN mempool' : /\ p \in Nat \ {0} /\ p + 1 \in DOMAIN mempool
                                     /\ mempool'[p] = mempool[p + 1]
      BY <1>2, <2>1
    <2>3. 1 \in DOMAIN mempool
      BY <1>2, <2>1
    <2>4. q + 1 \in DOMAIN mempool /\ mempool[q + 1] = b /\ q \in Nat \ {0}
      BY <2>2 DEF b
    <2>5. chain'[j] # "Submitted"
      BY <1>1, <2>1, <2>3, <2>4
    <2>6. \A p \in DOMAIN mempool' : mempool'[p] = s => p > q
      BY <1>1, <2>2, <2>4
    <2> QED
      BY <2>5, <2>6 DEF s
  <1>4. ASSUME ~Mine PROVE chain'[j] = "Submitted" => chain[j] = "Submitted"
    <2>1. ASSUME NEW i \in Jobs, Refund(i) PROVE chain'[j] = "Submitted" => chain[j] = "Submitted"
      BY <2>1 DEF Refund, Base, IdTypeOK
    <2> QED
      BY <1>4, <2>1, StepWrites DEF Writes, WriteChain
  <1>5. CASE ~Mine /\ mempool' = mempool
    BY <1>1, <1>4, <1>5 DEF b, s
  <1>6. ASSUME ~Mine, NEW n \in Rows, Broadcast(n)
        PROVE  /\ chain'[j] # "Submitted"
               /\ \A p \in DOMAIN mempool' : mempool'[p] = s => p > q
    <2>1. mempool' = Append(mempool, n) /\ (n = b => tx[b] = "VETTED")
      BY <1>2, <1>6 DEF Broadcast
    <2>2. /\ DOMAIN mempool = 1..Len(mempool) /\ Len(mempool) \in Nat
          /\ DOMAIN mempool' = 1..(Len(mempool) + 1)
          /\ \A p \in 1..Len(mempool) : mempool'[p] = mempool[p]
          /\ mempool'[Len(mempool) + 1] = n
      BY <1>2, <2>1
    <2>3. mempool'[q] = b
      BY DEF b
    <2>4. CASE q \in 1..Len(mempool)
      BY <1>1, <1>4, <1>6, <2>2, <2>3, <2>4
    <2>5. CASE q = Len(mempool) + 1
      <3>1. n = b /\ bind[j] = "BINDING"
        BY <1>1, <2>1, <2>2, <2>3, <2>5
      <3>2. Ahead(j)
        BY <3>1 DEF Ahead
      <3>3. tx[s] = None /\ chain[j] # "Submitted"
        BY <3>2, PassedGrows DEF NoSubmitYet, s
      <3>4. \A p \in 1..Len(mempool) : mempool[p] # s
        BY <2>2, <3>3 DEF Base, OnTheWire
      <3> QED
        BY <1>2, <1>4, <1>6, <2>2, <3>1, <3>3, <3>4
    <2> QED
      BY <2>2, <2>4, <2>5
  <1> QED
    BY <1>3, <1>5, <1>6, ChainStays DEF s

(* Order is inductive, relative to IdInv. *)
LEMMA OrderHolds == IdInv /\ Order /\ Next => Order'
  BY OneBindHolds, VettedHolds, NoSubmitHolds, BindsFirstHolds DEF Order, IdInv

(***************************************************************************)
(* The theorems.                                                           *)
(***************************************************************************)
(* Nothing has begun. *)
LEMMA InitHolds == Init => IdInv /\ Order
  <1> SUFFICES ASSUME Init PROVE IdInv /\ Order
    OBVIOUS
  <1>1. /\ Idle \in FlowRec /\ Idle.pc = "idle" /\ "idle" \notin InHand
        /\ flow = [f \in Flows |-> Idle]
    BY DEF Init, Idle, FlowRec, Pcs, InHand
  <1>2. \A f \in Flows : flow[f].pc = "idle"
    BY <1>1
  <1>3. /\ tx = [r \in Rows |-> None] /\ receipt = [r \in Rows |-> None]
        /\ token = [r \in Registers |-> NoId] /\ mempool = <<>>
    BY DEF Init
  <1>4. /\ bind = [j \in Jobs |-> None] /\ agentId = [j \in Jobs |-> NoId]
        /\ onChain = [j \in Jobs |-> "APPROVED"] /\ chain = [j \in Jobs |-> "Funded"]
        /\ identity = [status |-> None, id |-> 0, after |-> 0]
    BY DEF Init
  <1>5. /\ \A r \in Registers : r \in Rows /\ tx[r] = None /\ receipt[r] = None /\ token[r] = NoId
        /\ \A j \in Jobs : /\ tx[Binding(j)] = None /\ receipt[Binding(j)] = None
                           /\ tx[Submission(j)] = None
        /\ mempool \in Seq(Rows) /\ DOMAIN mempool = {}
    BY <1>3, RowKinds
  <1>6. IdTypeOK
    <2>1. flow \in [Flows -> FlowRec]
      BY <1>1
    <2>2. /\ bind \in [Jobs -> {None, "BINDING"} \cup TERMINAL_BINDING_STATUSES]
          /\ agentId \in [Jobs -> Nat \cup {NoId}]
          /\ onChain \in [Jobs -> {"APPROVED", "FUNDED", "SUBMITTED", "REFUNDED"}]
          /\ chain \in [Jobs -> {"Funded", "Submitted", "Refunded"}]
          /\ identity \in [status : {None, "REGISTERING", "REGISTERED", "FAILED"},
                           id : Nat \cup {NoId}, after : Nat]
      BY <1>4
    <2>3. /\ tx \in [Rows -> {None, "CONFIRMED"} \cup PENDING_TX \cup FailedTx]
          /\ receipt \in [Rows -> {None, "CONFIRMED", "REVERTED"}]
          /\ token \in [Registers -> Nat \cup {NoId}]
      BY <1>3
    <2>4. /\ status \in [Jobs -> {"ACCEPTED", "PAYMENT_PENDING", "CANCELLED", "FAILED"}]
          /\ boundTo \in [Jobs -> Nat \cup {NoId}]
          /\ deferred \subseteq Jobs
          /\ calldata \in [Jobs -> Nat \cup {NoId}]
          /\ scenario \in Scenarios /\ faults \in Nat /\ overwritten \in BOOLEAN
          /\ passed \subseteq Jobs
      BY DEF Init
    <2> QED
      BY <1>1, <1>2, <1>5, <2>1, <2>2, <2>3, <2>4 DEF IdTypeOK, FlowRec
  <1>7. InOrder
    <2>1. 0 \in 0..Cardinality(Jobs) /\ \A k \in 1..Cardinality(Jobs) : ~ (k <= 0)
      BY RegistersAreFinite
    <2>2. \A k \in 1..Cardinality(Jobs) : tx[<<"register", k>>] = None
      BY <1>5, RegistersAreFinite
    <2> QED
      BY <2>1, <2>2 DEF InOrder
  <1>8. OnTheWire /\ Reported
    BY <1>5 DEF OnTheWire, Reported, None
  <1>9. IdsKnown /\ BeginsOnce /\ Carries /\ HandsOK
    BY <1>2, <1>4, <1>5 DEF IdsKnown, BeginsOnce, Carries, HandsOK, At, None
  <1>10. BindsHold
    BY <1>4, <1>5 DEF BindsHold, None
  <1>11. Good = {}
    BY <1>5 DEF Good, IN_FLIGHT_TX, PENDING_TX, None
  <1>12. Claims
    BY <1>2, <1>11 DEF Claims, Claiming, At
  <1>13. OneBind
    BY <1>2 DEF OneBind, At
  <1>14. VettedIsBinding /\ BindsFirst
    BY <1>5 DEF VettedIsBinding, BindsFirst, None
  <1>15. NoSubmitYet
    BY <1>2, <1>4, <1>5 DEF NoSubmitYet, At
  <1> QED
    BY <1>6, <1>7, <1>8, <1>9, <1>10, <1>12, <1>13, <1>14, <1>15 DEF IdInv, Base, Order

(* Steps that change nothing. *)
LEMMA StutterHolds ==
    /\ IdInv /\ UNCHANGED idVars => IdInv'
    /\ Order /\ UNCHANGED idVars => Order'
  <1> USE DEF idVars, jobVars, chainVars, pastVars
  <1>1. ASSUME IdInv, UNCHANGED idVars PROVE IdInv'
    BY <1>1 DEF IdInv, Base, Claims, IdTypeOK, InOrder, OnTheWire, Reported, IdsKnown, KnownIds,
                BeginsOnce, Carries, HandsOK, IsFailed, BindsHold, Good, At
  <1>2. ASSUME Order, UNCHANGED idVars PROVE Order'
    BY <1>2 DEF Order, OneBind, VettedIsBinding, NoSubmitYet, BindsFirst, Ahead, At
  <1> QED
    BY <1>1, <1>2

(* IdInv is inductive. *)
LEMMA IdInvHolds == IdInv /\ [Next]_idVars => IdInv'
  BY BaseHolds, ClaimsHold, StutterHolds DEF IdInv

(* IdInv holds in every behaviour: one registration is alive at most, and  *)
(* what is written or carried of it is what it minted.                     *)
THEOREM IdInvariant == IdSpec => []IdInv
  <1>1. Init => IdInv
    BY InitHolds
  <1> QED
    BY <1>1, IdInvHolds, PTL DEF IdSpec

(* The state of the identities, the jobs, the flows and the chain is of    *)
(* its types, and a flow that acts for a job has one in hand.              *)
THEOREM IdTypeCorrect == IdSpec => []IdTypeOK
  <1>1. IdInv => IdTypeOK
    BY DEF IdInv, Base
  <1> QED
    BY <1>1, IdInvariant, PTL

(* A job that is BOUND (onBindOutcome) is bound on the chain to the        *)
(* identity of its row, which was minted to the provider; and all of them  *)
(* to one identity, until failIdentity writes over a live registration.    *)
THEOREM BoundAlwaysTrue == IdSpec => []BoundIsTrue
  <1>1. ASSUME IdInv PROVE BoundToMinted
    BY <1>1 DEF IdInv, Base, BindsHold, IdsKnown, KnownIds, BoundToMinted, Bound
  <1>2. ASSUME IdInv PROVE OneIdentityBound
    <2>1. \A j \in Bound : j \in Jobs /\ agentId[j] \in KnownIds
      BY <1>2 DEF IdInv, Base, BindsHold, IdsKnown, Bound
    <2>2. overwritten \/ \A i, j \in KnownIds : i = j
      <3>1. overwritten \/ \A r, s \in Good : r = s
        BY <1>2 DEF IdInv, Claims
      <3> QED
        BY <3>1 DEF KnownIds, Good, IN_FLIGHT_TX
    <2> QED
      BY <2>1, <2>2 DEF OneIdentityBound
  <1>3. IdInv => BoundIsTrue
    BY <1>1, <1>2 DEF BoundIsTrue
  <1> QED
    BY <1>3, IdInvariant, PTL

(* ensureIdentity and repairRegistration make the provider mint again only *)
(* after its register was declared dropped, or failIdentity has written    *)
(* over a live registration.                                               *)
THEOREM MintsOnceUnlessDropped == IdSpec => []OneMintUnlessDropped
  <1>1. ASSUME IdInv, ~overwritten, \A r \in Registers : tx[r] # "DROPPED"
        PROVE  ~ (Minted > 1)
    <2> DEFINE M == {r \in Registers : token[r] # NoId}
    <2>1. \A r \in M : r \in Good
      BY <1>1 DEF IdInv, Base, Reported, Good, Sent, IN_FLIGHT_TX, PENDING_TX, None
    <2>2. \A r, s \in M : r = s
      BY <1>1, <2>1 DEF IdInv, Claims
    <2> HIDE DEF M
    <2>3. CASE M = {}
      BY <2>3, FS_EmptySet DEF Minted, M
    <2>4. ASSUME NEW r \in M PROVE ~ (Minted > 1)
      <3>1. M = {r}
        BY <2>2, <2>4
      <3>2. Cardinality({r}) = 1
        BY FS_Singleton
      <3>3. Minted = 1
        BY <3>1, <3>2, Zenon DEF Minted, M
      <3> QED
        BY <3>3
    <2> QED
      BY <2>3, <2>4
  <1>2. IdInv => OneMintUnlessDropped
    BY <1>1 DEF OneMintUnlessDropped
  <1> QED
    BY <1>2, IdInvariant, PTL

(* A bind is mined before the submit of its job (enqueueSubmit defers the  *)
(* one until the other has ended), unless its binding was passed by: its   *)
(* delivery read it before BINDING was written, or a flow that took it for *)
(* waiting (failWaitingJobs), or whose query threw, ended it meanwhile.    *)
THEOREM BindsAlwaysFirst == IdSpec => []BindBeforeSubmit
  <1>1. IdInv /\ Order /\ [Next]_idVars => Order'
    BY OrderHolds, StutterHolds
  <1>2. ASSUME IdInv, Order PROVE BindBeforeSubmit
    <2> SUFFICES ASSUME mempool # <<>>, Head(mempool)[1] = "bindAgent",
                        Head(mempool)[2] \notin passed
                 PROVE  chain[Head(mempool)[2]] # "Submitted"
      BY DEF BindBeforeSubmit
    <2>1. mempool \in Seq(Rows)
      BY <1>2 DEF IdInv, Base, IdTypeOK
    <2>2. 1 \in DOMAIN mempool /\ Head(mempool) = mempool[1] /\ mempool[1] \in Rows
      BY <2>1
    <2>3. PICK j \in Jobs : mempool[1] = Binding(j)
      BY <2>2, RowKinds
    <2>4. chain[j] # "Submitted"
      BY <1>2, <2>2, <2>3, RowKinds DEF Order, BindsFirst
    <2> QED
      BY <2>2, <2>3, <2>4, RowKinds
  <1>3. Init => Order
    BY InitHolds
  <1>4. IdInv /\ Order => BindBeforeSubmit
    BY <1>2
  <1> QED
    BY <1>1, <1>3, <1>4, IdInvariant, PTL DEF IdSpec
=============================================================================
