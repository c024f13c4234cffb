------------------------ MODULE EscrowContractProofs ------------------------
(***************************************************************************)
(* Theorems about AgentJobEscrow and ReputationHook, for any accounts,     *)
(* identities, fees, budgets and any number of jobs.                       *)
(*                                                                         *)
(* The escrow comes first.  Solvency is not inductive: IInv below adds to  *)
(* it the types, that ids not counted yet hold no job, that a funded job   *)
(* has its parties, and which status a submission time goes with.          *)
(*                                                                         *)
(* The hook implements the escrow it is called by, so what is proved of    *)
(* one step of the escrow (which terms it keeps, where it can take a job)  *)
(* is the frame of every step of the hook.  What is said about a provider  *)
(* is tied to the identity bound for its address: nothing of it changes    *)
(* once the job is settled, which is what makes HInv inductive.            *)
(***************************************************************************)
EXTENDS ReputationHook, FiniteSetTheorems, TLAPS

(* A non-empty set of natural numbers has a least one. *)
LEMMA LeastNumber ==
    ASSUME NEW T, T \subseteq Nat, T # {}
    PROVE  \E m \in T : \A k \in T : m <= k
  <1> DEFINE R == OpToRel(<, Nat)
  <1>1. IsWellFoundedOn(R, Nat)
    BY NatLessThanWellFounded, Zenon
  <1>2. \A x, y \in Nat : y < x => <<y, x>> \in R
    BY DEF OpToRel
  <1> HIDE DEF R
  <1>3. PICK m \in T : \A k \in T : ~ (<<k, m>> \in R)
    BY <1>1, WFMin
  <1>4. \A k \in T : ~ (k < m)
    BY <1>2, <1>3
  <1> QED
    BY <1>4

(***************************************************************************)
(* What the escrow owes.                                                   *)
(***************************************************************************)
(* Partial sums of what is owed: the recursion HeldTotal is defined by. *)
IsSum(s, js) == s = [n \in 0..MaxJobs |-> IF n = 0 THEN 0 ELSE s[n - 1] + Liability(js, n)]

(* Two functions that both satisfy the recursion of the sum are equal. *)
LEMMA SumUnique ==
    ASSUME NEW js, NEW s, NEW t, IsSum(s, js), IsSum(t, js)
    PROVE  s = t
  <1> DEFINE T == {n \in 0..MaxJobs : s[n] # t[n]}
  <1>1. SUFFICES ASSUME T # {} PROVE FALSE
    BY DEF IsSum
  <1>2. PICK m \in T : \A k \in T : m <= k
    <2>1. T \subseteq Nat
      BY BoundAssumption
    <2> HIDE DEF T
    <2> QED
      BY <1>1, <2>1, LeastNumber
  <1>3. m # 0 /\ m - 1 \in 0..MaxJobs /\ m - 1 \notin T
    BY <1>2, BoundAssumption DEF IsSum
  <1> QED
    BY <1>2, <1>3 DEF IsSum

(* What the escrow owes, read off any function that satisfies the recursion. *)
LEMMA HeldTotalIsSum ==
    ASSUME NEW js, NEW s, IsSum(s, js)
    PROVE  HeldTotal(js) = s[MaxJobs]
  <1> DEFINE upTo == CHOOSE f : IsSum(f, js)
  <1>1. IsSum(upTo, js)
    OBVIOUS
  <1>2. upTo = s
    BY <1>1, SumUnique
  <1>3. HeldTotal(js) = upTo[MaxJobs]
    BY DEF HeldTotal, IsSum
  <1> QED
    BY <1>2, <1>3

(* The two fees of a budget and its payout are amounts, and add up to it. *)
LEMMA FeesFit ==
    ASSUME NEW budget \in Nat
    PROVE  /\ PlatformFee(budget) \in Nat
           /\ EvaluatorFee(budget) \in Nat
           /\ PlatformFee(budget) + EvaluatorFee(budget) <= budget
  <1> DEFINE q == budget \div BPS
             r == budget % BPS
             p == PlatformFeeBP
             e == EvaluatorFeeBP
  <1>1. q \in Nat /\ r \in 0..(BPS - 1) /\ budget = q * BPS + r
    BY DEF BPS
  <1>2. p \in Nat /\ e \in Nat /\ p + e < BPS
    BY FeeAssumption
  <1> HIDE DEF q, r, p, e
  <1>3. /\ q * p \in Nat /\ q * e \in Nat /\ q * BPS \in Nat
        /\ q * p + q * e <= q * BPS
    BY <1>1, <1>2 DEF BPS
  <1>4. /\ r * p \in Nat /\ r * e \in Nat
        /\ r * p + r * e <= r * BPS
    BY <1>1, <1>2 DEF BPS
  <1>5. ASSUME NEW x \in Nat, NEW y \in Nat, NEW z \in Nat, x + y <= z * BPS
        PROVE  x \div BPS \in Nat /\ y \div BPS \in Nat /\ x \div BPS + y \div BPS <= z
    BY <1>5 DEF BPS
  <1>6. /\ (r * p) \div BPS \in Nat /\ (r * e) \div BPS \in Nat
        /\ (r * p) \div BPS + (r * e) \div BPS <= r
    BY <1>1, <1>4, <1>5 DEF BPS
  <1>7. /\ PlatformFee(budget) = q * p + (r * p) \div BPS
        /\ EvaluatorFee(budget) = q * e + (r * e) \div BPS
    BY DEF PlatformFee, EvaluatorFee, FeeOf, q, r, p, e
  <1> QED
    BY <1>1, <1>3, <1>6, <1>7 DEF BPS

(***************************************************************************)
(* What a payment does to the balances.                                    *)
(***************************************************************************)
Balances == [Account -> Nat]

(* A payment to another account moves the amount and nothing else ... *)
LEMMA PaidFromEscrow ==
    ASSUME NEW bal \in Balances, NEW to \in Address, NEW amount \in Nat,
           bal[Escrow] >= amount
    PROVE  /\ Paid(bal, to, amount) \in Balances
           /\ Paid(bal, to, amount)[Escrow] = bal[Escrow] - amount
  BY AddressAssumption DEF Paid, Balances, Account

(* ... and one to the escrow itself moves nothing. *)
LEMMA PaidToItself ==
    ASSUME NEW bal \in Balances, NEW amount \in Nat, bal[Escrow] >= amount
    PROVE  Paid(bal, Escrow, amount) = bal
  <1>1. bal[Escrow] \in Nat /\ bal = [a \in Account |-> bal[a]] /\ Escrow \in Account
    BY DEF Balances, Account
  <1>2. bal[Escrow] - amount + amount = bal[Escrow]
    BY <1>1
  <1> QED
    BY <1>1, <1>2 DEF Paid, Balances

(***************************************************************************)
(* Changing one job changes the sum by the change of its liability.        *)
(***************************************************************************)
Sums == [0..MaxJobs -> Int]

(* With one job replaced there is again a function that satisfies the      *)
(* recursion, and its total differs by the change of that job's liability. *)
LEMMA SumUpdate ==
    ASSUME NEW js \in [JobIds -> Job], NEW ks \in [JobIds -> Job], NEW j \in JobIds,
           \A i \in JobIds \ {j} : ks[i] = js[i],
           NEW s \in Sums, IsSum(s, js)
    PROVE  \E t \in Sums :
              /\ IsSum(t, ks)
              /\ t[MaxJobs] = s[MaxJobs] + Liability(ks, j) - Liability(js, j)
  <1> DEFINE d == Liability(ks, j) - Liability(js, j)
             t == [n \in 0..MaxJobs |-> IF n < j THEN s[n] ELSE s[n] + d]
  <1>1. \A i \in JobIds : Liability(js, i) \in Nat /\ Liability(ks, i) \in Nat
    BY DEF Liability, Job
  <1>2. \A i \in JobIds \ {j} : Liability(ks, i) = Liability(js, i)
    BY DEF Liability
  <1>3. d \in Int
    BY <1>1
  <1> HIDE DEF d
  <1>4. t \in Sums
    BY <1>3, BoundAssumption DEF Sums, JobIds
  <1>5. ASSUME NEW n \in 0..MaxJobs
        PROVE  t[n] = IF n = 0 THEN 0 ELSE t[n - 1] + Liability(ks, n)
    <2>1. s[n] = IF n = 0 THEN 0 ELSE s[n - 1] + Liability(js, n)
      BY DEF IsSum
    <2>2. CASE n = 0
      BY <2>1, <2>2 DEF JobIds
    <2>3. CASE n # 0
      <3>1. n \in JobIds /\ n - 1 \in 0..MaxJobs
        BY <2>3, BoundAssumption DEF JobIds
      <3>2. s[n] \in Int /\ s[n - 1] \in Int /\ j \in Int
        BY <3>1 DEF Sums, JobIds
      <3>3. s[n] = s[n - 1] + Liability(js, n)
        BY <2>1, <2>3
      <3>4. Liability(ks, n) = IF n = j THEN Liability(js, n) + d ELSE Liability(js, n)
        BY <1>1, <1>2, <3>1 DEF d
      <3>5. Liability(js, n) \in Int
        BY <1>1, <3>1
      <3>6. /\ t[n] = IF n < j THEN s[n] ELSE s[n] + d
            /\ t[n - 1] = IF n - 1 < j THEN s[n - 1] ELSE s[n - 1] + d
        BY <3>1
      <3> HIDE DEF t
      <3> QED
        BY <2>3, <3>2, <3>3, <3>4, <3>5, <3>6, <1>3
    <2> QED
      BY <2>2, <2>3
  <1>6. IsSum(t, ks)
    BY <1>5 DEF IsSum
  <1>7. t[MaxJobs] = s[MaxJobs] + d
    BY <1>3, BoundAssumption DEF JobIds
  <1>8. s[MaxJobs] \in Int
    BY BoundAssumption DEF Sums
  <1> QED
    BY <1>1, <1>4, <1>6, <1>7, <1>8 DEF d

(***************************************************************************)
(* The inductive invariant.  Created says what every created job has,      *)
(* Stages what the status of a job says of its submission time, and Books  *)
(* is Solvency with the total given by a witness instead of a computation, *)
(* so that a step only has to say how the witness changes.                 *)
(***************************************************************************)
Created ==
    \A j \in JobIds :
        /\ j > jobCount => jobs[j] = EmptyJob /\ submittedAt[j] = 0
        /\ Exists(j) => jobs[j].evaluator \in Account
        /\ jobs[j].status \in Holding => Exists(j) /\ jobs[j].provider \in Account
        /\ jobs[j].status = "Submitted" => jobs[j].provider \in Address

(* A submission time goes with the status. *)
Stages ==
    \A j \in JobIds :
        /\ jobs[j].status = "Submitted" => submittedAt[j] # 0
        /\ submittedAt[j] # 0 => jobs[j].status \notin {"Open", "Funded"}

(* Some function of partial sums accounts for the balance. *)
Books ==
    \E s \in Sums :
        IsSum(s, jobs) /\ balance[Escrow] = s[MaxJobs] + pendingPlatformFees + stray

(* The inductive invariant of the escrow. *)
IInv == TypeOK /\ now >= 1 /\ Created /\ Stages /\ Books

(* The contract starts with an empty ledger. *)
LEMMA InitIInv == Init => IInv
  <1> SUFFICES ASSUME Init PROVE IInv
    OBVIOUS
  <1> USE AddressAssumption, BoundAssumption DEF Init
  <1>1. TypeOK /\ now >= 1
    <2>1. EmptyJob \in Job
      BY DEF EmptyJob, Job, Statuses
    <2>2. balance \in [Account -> Nat] /\ feeWallet \in Account /\ stray \in Nat
      BY DEF Account
    <2>3. /\ jobs \in [JobIds -> Job]
          /\ providerAgentId \in [JobIds -> AgentIds \cup {NoAgentId}]
          /\ submittedAt \in [JobIds -> Nat]
      BY <2>1
    <2>4. jobCount \in 0..MaxJobs
      OBVIOUS
    <2>5. pendingPlatformFees \in Nat /\ now \in Nat /\ now >= 1
      OBVIOUS
    <2>6. paused \in BOOLEAN /\ blocked \subseteq Address
      BY Zenon
    <2> QED
      BY ONLY <2>2, <2>3, <2>4, <2>5, <2>6 DEF TypeOK
  <1>2. Created /\ Stages
    BY DEF Created, Stages, Exists, EmptyJob, JobIds, Holding
  <1>3. Books
    <2> DEFINE zero == [n \in 0..MaxJobs |-> 0]
    <2>1. zero \in Sums /\ IsSum(zero, jobs)
      BY DEF Sums, IsSum, Liability, EmptyJob, Holding, JobIds
    <2>2. balance[Escrow] = zero[MaxJobs] + pendingPlatformFees + stray
      BY DEF Account
    <2> QED
      BY <2>1, <2>2 DEF Books
  <1> QED
    BY <1>1, <1>2, <1>3 DEF IInv

(* A job moved to another status is a job.                                 *)
LEMMA StatusTyped ==
    ASSUME TypeOK, NEW j \in JobIds, NEW s \in Statuses
    PROVE  [jobs EXCEPT ![j].status = s] \in [JobIds -> Job]
  <1>1. jobs \in [JobIds -> Job]
    BY DEF TypeOK
  <1>2. [jobs[j] EXCEPT !.status = s] \in Job
    BY <1>1 DEF Job
  <1> QED
    BY <1>1, <1>2

(* A step that changes at most job j, and the escrow's balance less its    *)
(* pending fees by the change of that job's liability, keeps the books.    *)
LEMMA BooksStep ==
    ASSUME TypeOK, TypeOK', Books, NEW j \in JobIds,
           \A i \in JobIds \ {j} : jobs'[i] = jobs[i],
           stray' = stray,
           balance'[Escrow] - pendingPlatformFees' =
               balance[Escrow] - pendingPlatformFees
                   + Liability(jobs', j) - Liability(jobs, j)
    PROVE  Books'
  <1>1. PICK s \in Sums : /\ IsSum(s, jobs)
                          /\ balance[Escrow] = s[MaxJobs] + pendingPlatformFees + stray
    BY DEF Books
  <1>2. PICK t \in Sums :
              /\ IsSum(t, jobs')
              /\ t[MaxJobs] = s[MaxJobs] + Liability(jobs', j) - Liability(jobs, j)
    BY <1>1, SumUpdate DEF TypeOK
  <1>3. /\ s[MaxJobs] \in Int /\ t[MaxJobs] \in Int
        /\ pendingPlatformFees \in Nat /\ pendingPlatformFees' \in Nat
        /\ balance[Escrow] \in Nat /\ balance'[Escrow] \in Nat /\ stray \in Nat
        /\ Liability(jobs, j) \in Int /\ Liability(jobs', j) \in Int
    <2>1. jobs[j].budget \in Nat /\ jobs'[j].budget \in Nat
      BY DEF TypeOK, Job
    <2>2. Liability(jobs, j) \in Int /\ Liability(jobs', j) \in Int
      BY <2>1 DEF Liability
    <2> QED
      BY <2>2, BoundAssumption DEF Sums, TypeOK, Account
  <1>4. balance'[Escrow] = t[MaxJobs] + pendingPlatformFees' + stray'
    BY <1>1, <1>2, <1>3
  <1> QED
    BY <1>2, <1>4 DEF Books

(* A step that changes no job and moves no token of the escrow but fees.   *)
LEMMA BooksSame ==
    ASSUME TypeOK, TypeOK', Books, jobs' = jobs,
           balance'[Escrow] - pendingPlatformFees' - stray' =
               balance[Escrow] - pendingPlatformFees - stray
    PROVE  Books'
  <1>1. PICK s \in Sums : /\ IsSum(s, jobs)
                          /\ balance[Escrow] = s[MaxJobs] + pendingPlatformFees + stray
    BY DEF Books
  <1>2. /\ s[MaxJobs] \in Int
        /\ pendingPlatformFees \in Nat /\ pendingPlatformFees' \in Nat
        /\ balance[Escrow] \in Nat /\ balance'[Escrow] \in Nat
        /\ stray \in Nat /\ stray' \in Nat
    BY BoundAssumption DEF Sums, TypeOK, Account
  <1>3. balance'[Escrow] = s[MaxJobs] + pendingPlatformFees' + stray'
    BY <1>1, <1>2
  <1> QED
    BY <1>1, <1>3 DEF Books

(***************************************************************************)
(* One lemma per operation: it preserves the invariant.                    *)
(***************************************************************************)
(* createJob *)
LEMMA CreateJobIInv ==
    ASSUME IInv, NEW a \in Address, NEW p \in Account \cup {NoAddress},
           NEW e \in Account, NEW t \in Nat, NEW h \in Hooks \cup {NoHook},
           CreateJob(a, p, e, t, h)
    PROVE  IInv'
  <1> USE DEF CreateJob, tokenVars
  <1>1. jobCount + 1 \in JobIds /\ jobs[jobCount + 1] = EmptyJob
    BY BoundAssumption DEF IInv, TypeOK, Created, JobIds
  <1>2. TypeOK' /\ now' >= 1
    <2>1. [client |-> a, provider |-> p, evaluator |-> e, budget |-> 0,
           expiredAt |-> t, status |-> "Open", hook |-> h] \in Job
      BY DEF Job, Statuses
    <2>2. jobs' \in [JobIds -> Job]
      BY <2>1 DEF IInv, TypeOK
    <2>3. jobCount' \in 0..MaxJobs
      BY BoundAssumption DEF IInv, TypeOK
    <2> QED
      BY <2>2, <2>3 DEF IInv, TypeOK
  <1>3. Created'
    BY <1>1, <1>2, AddressAssumption DEF IInv, TypeOK, Created, Exists, EmptyJob, JobIds, Holding
  <1>4. Stages'
    BY <1>1, <1>2, AddressAssumption DEF IInv, TypeOK, Created, Stages, EmptyJob, JobIds, Holding
  <1>5. Books'
    BY <1>1, <1>2, BooksStep DEF IInv, TypeOK, Liability, EmptyJob, Holding, tokenVars, Account
  <1> QED
    BY <1>2, <1>3, <1>4, <1>5 DEF IInv

(* setProvider *)
LEMMA SetProviderIInv ==
    ASSUME IInv, NEW a \in Address, NEW j \in JobIds, NEW p \in Account,
           SetProvider(a, j, p)
    PROVE  IInv'
  <1> USE DEF SetProvider, Open, tokenVars
  <1>1. TypeOK' /\ now' >= 1
    BY DEF IInv, TypeOK, Job
  <1>2. Created'
    BY AddressAssumption DEF IInv, TypeOK, Job, Created, Exists, EmptyJob, Holding
  <1>3. Stages'
    BY DEF IInv, TypeOK, Job, Stages
  <1>4. Books'
    BY <1>1, BooksStep DEF IInv, TypeOK, Job, Liability, Holding, tokenVars, Account
  <1> QED
    BY <1>1, <1>2, <1>3, <1>4 DEF IInv

(* setBudget *)
LEMMA SetBudgetIInv ==
    ASSUME IInv, NEW a \in Address, NEW j \in JobIds, NEW n \in Nat, SetBudget(a, j, n)
    PROVE  IInv'
  <1> USE DEF SetBudget, Open, tokenVars
  <1>1. TypeOK' /\ now' >= 1
    BY DEF IInv, TypeOK, Job
  <1>2. Created'
    BY AddressAssumption DEF IInv, TypeOK, Job, Created, Exists, EmptyJob, Holding
  <1>3. Stages'
    BY DEF IInv, TypeOK, Job, Stages
  <1>4. Books'
    BY <1>1, BooksStep DEF IInv, TypeOK, Job, Liability, Holding, tokenVars, Account
  <1> QED
    BY <1>1, <1>2, <1>3, <1>4 DEF IInv

(* fund: the budget enters the escrow with the liability for it. *)
LEMMA FundIInv ==
    ASSUME IInv, NEW a \in Address, NEW j \in JobIds, NEW n \in Nat, Fund(a, j, n)
    PROVE  IInv'
  <1> USE DEF Fund, Open
  <1>1. jobs[j].budget \in Nat /\ a # Escrow
    BY AddressAssumption DEF IInv, TypeOK, Job
  <1>2. /\ balance' \in Balances
        /\ balance'[Escrow] = balance[Escrow] + jobs[j].budget
    BY <1>1 DEF IInv, TypeOK, Balances, Account
  <1>3. jobs' \in [JobIds -> Job]
    BY StatusTyped DEF IInv, Statuses
  <1>4. TypeOK' /\ now' >= 1
    BY <1>2, <1>3 DEF IInv, TypeOK, Balances
  <1>5. Created'
    BY AddressAssumption DEF IInv, TypeOK, Job, Created, Exists, EmptyJob, Holding
  <1>6. Stages'
    BY DEF IInv, TypeOK, Job, Stages
  <1>7. Liability(jobs, j) = 0 /\ Liability(jobs', j) = jobs[j].budget
    BY DEF IInv, TypeOK, Job, Liability, Holding
  <1>8. Books'
    <2>1. \A i \in JobIds \ {j} : jobs'[i] = jobs[i]
      BY DEF IInv, TypeOK
    <2>2. balance'[Escrow] - pendingPlatformFees' =
              balance[Escrow] - pendingPlatformFees
                  + Liability(jobs', j) - Liability(jobs, j)
      BY <1>1, <1>2, <1>7 DEF IInv, TypeOK, Account
    <2> QED
      BY <1>4, <2>1, <2>2, BooksStep DEF IInv
  <1> QED
    BY <1>4, <1>5, <1>6, <1>8 DEF IInv

(* submit *)
LEMMA SubmitIInv ==
    ASSUME IInv, NEW a \in Address, NEW j \in JobIds, Submit(a, j)
    PROVE  IInv'
  <1> USE DEF Submit, tokenVars
  <1>1. TypeOK' /\ now' >= 1
    BY DEF IInv, TypeOK, Job, Statuses
  <1>2. Created'
    BY AddressAssumption DEF IInv, TypeOK, Job, Created, Exists, EmptyJob, Holding
  <1>3. Stages'
    BY DEF IInv, TypeOK, Job, Stages
  <1>4. Liability(jobs', j) = Liability(jobs, j)
    BY DEF IInv, TypeOK, Job, Liability, Holding
  <1>5. Liability(jobs, j) \in Int
    BY DEF IInv, TypeOK, Job, Liability
  <1>6. Books'
    <2>1. \A i \in JobIds \ {j} : jobs'[i] = jobs[i]
      BY DEF IInv, TypeOK
    <2>2. balance'[Escrow] - pendingPlatformFees' =
              balance[Escrow] - pendingPlatformFees
                  + Liability(jobs', j) - Liability(jobs, j)
      BY <1>4, <1>5 DEF IInv, TypeOK, Account
    <2> QED
      BY <1>1, <2>1, <2>2, BooksStep DEF IInv
  <1> QED
    BY <1>1, <1>2, <1>3, <1>6 DEF IInv

(* Sending a held budget back to the client. *)
LEMMA RefundIInv ==
    ASSUME IInv, NEW j \in JobIds, NEW st \in {"Rejected", "Expired"},
           Exists(j), jobs[j].status \in Holding,
           CanPay(jobs[j].client, jobs[j].budget),
           jobs' = [jobs EXCEPT ![j].status = st],
           balance' = Paid(balance, jobs[j].client, jobs[j].budget),
           UNCHANGED <<jobCount, providerAgentId, submittedAt, paused, feeWallet,
                       pendingPlatformFees, blocked, stray, now>>
    PROVE  IInv'
  <1>1. jobs[j].budget \in Nat /\ jobs[j].client \in Address
    BY DEF IInv, TypeOK, Job, Exists
  <1>2. /\ balance' \in Balances
        /\ balance'[Escrow] = balance[Escrow] - jobs[j].budget
    BY <1>1, PaidFromEscrow DEF IInv, TypeOK, CanPay, Balances
  <1>3. jobs' \in [JobIds -> Job]
    BY StatusTyped DEF IInv, Statuses
  <1>4. TypeOK' /\ now' >= 1
    BY <1>2, <1>3 DEF IInv, TypeOK, Balances
  <1>5. Created'
    BY AddressAssumption DEF IInv, TypeOK, Job, Created, Exists, EmptyJob, Holding
  <1>6. Stages'
    BY DEF IInv, TypeOK, Job, Stages
  <1>7. Liability(jobs, j) = jobs[j].budget /\ Liability(jobs', j) = 0
    BY DEF IInv, TypeOK, Job, Liability, Holding
  <1>8. Books'
    <2>1. \A i \in JobIds \ {j} : jobs'[i] = jobs[i]
      BY DEF IInv, TypeOK
    <2>2. balance'[Escrow] - pendingPlatformFees' =
              balance[Escrow] - pendingPlatformFees
                  + Liability(jobs', j) - Liability(jobs, j)
      BY <1>1, <1>2, <1>7 DEF IInv, TypeOK, Account
    <2> QED
      BY <1>4, <2>1, <2>2, BooksStep DEF IInv
  <1> QED
    BY <1>4, <1>5, <1>6, <1>8 DEF IInv

(* complete: payout and evaluator fee leave, the platform fee stays and is owed. *)
LEMMA CompleteIInv ==
    ASSUME IInv, NEW a \in Address, NEW j \in JobIds, Complete(a, j)
    PROVE  IInv'
  <1> DEFINE b   == jobs[j].budget
             p   == jobs[j].provider
             e   == jobs[j].evaluator
             mid == Paid(balance, p, Payout(b))
  <1>1. /\ b \in Nat /\ p \in Address /\ e \in Address
        /\ jobs[j].status = "Submitted" /\ balance[Escrow] >= Payout(b) + EvaluatorFee(b)
    BY DEF Complete, CanPay, IInv, TypeOK, Job, Created, Exists, Holding
  <1>2. /\ PlatformFee(b) \in Nat /\ EvaluatorFee(b) \in Nat /\ Payout(b) \in Nat
        /\ Payout(b) = b - PlatformFee(b) - EvaluatorFee(b)
    BY <1>1, FeesFit DEF Payout
  <1>3. balance \in Balances /\ balance[Escrow] \in Nat
    BY DEF IInv, TypeOK, Balances, Account
  <1>4. mid \in Balances /\ mid[Escrow] = balance[Escrow] - Payout(b)
    BY <1>1, <1>2, <1>3, PaidFromEscrow
  <1>5. balance' = Paid(mid, e, EvaluatorFee(b))
    BY DEF Complete
  <1> HIDE DEF mid
  <1>6. /\ balance' \in Balances
        /\ balance'[Escrow] = balance[Escrow] - Payout(b) - EvaluatorFee(b)
    BY <1>1, <1>2, <1>3, <1>4, <1>5, PaidFromEscrow
  <1>7. /\ jobs' = [jobs EXCEPT ![j].status = "Completed"]
        /\ pendingPlatformFees' = pendingPlatformFees + PlatformFee(b)
        /\ UNCHANGED <<jobCount, providerAgentId, submittedAt, paused, feeWallet,
                       blocked, stray, now>>
    BY DEF Complete
  <1>8. jobs' \in [JobIds -> Job]
    BY <1>7, StatusTyped DEF IInv, Statuses
  <1>9. TypeOK' /\ now' >= 1
    BY <1>2, <1>6, <1>7, <1>8 DEF IInv, TypeOK, Balances
  <1>10. Created'
    BY <1>1, <1>7, AddressAssumption
       DEF IInv, TypeOK, Job, Created, Exists, EmptyJob, Holding
  <1>11. Stages'
    BY <1>7 DEF IInv, TypeOK, Job, Stages
  <1>12. Liability(jobs, j) = b /\ Liability(jobs', j) = 0
    BY <1>1, <1>7 DEF IInv, TypeOK, Job, Liability, Holding
  <1>13. Books'
    <2>1. \A i \in JobIds \ {j} : jobs'[i] = jobs[i]
      BY <1>7 DEF IInv, TypeOK
    <2>2. balance'[Escrow] - pendingPlatformFees' =
              balance[Escrow] - pendingPlatformFees
                  + Liability(jobs', j) - Liability(jobs, j)
      BY <1>1, <1>2, <1>3, <1>6, <1>7, <1>12 DEF IInv, TypeOK
    <2> QED
      BY <1>7, <1>9, <2>1, <2>2, BooksStep DEF IInv
  <1> QED
    BY <1>9, <1>10, <1>11, <1>13 DEF IInv

(* reject, of an open job or of a held one. *)
LEMMA RejectIInv ==
    ASSUME IInv, NEW a \in Address, NEW j \in JobIds, Reject(a, j)
    PROVE  IInv'
  <1>1. CASE RejectHeld(a, j)
    BY <1>1, RefundIInv DEF RejectHeld
  <1>2. CASE RejectOpen(a, j)
    <2> USE <1>2 DEF RejectOpen, Open, tokenVars
    <2>1. TypeOK' /\ now' >= 1
      BY SMTT(30) DEF IInv, TypeOK, Job, Statuses
    <2>2. Created'
      BY AddressAssumption DEF IInv, TypeOK, Job, Created, Exists, EmptyJob, Holding
    <2>3. Stages'
      BY DEF IInv, TypeOK, Job, Stages
    <2>4. Liability(jobs, j) = 0 /\ Liability(jobs', j) = 0
      BY DEF IInv, TypeOK, Job, Liability, Holding
    <2>5. \A i \in JobIds \ {j} : jobs'[i] = jobs[i]
      BY DEF IInv, TypeOK
    <2>6. Books'
      <3>1. balance'[Escrow] - pendingPlatformFees' =
                balance[Escrow] - pendingPlatformFees
                    + Liability(jobs', j) - Liability(jobs, j)
        BY <2>4 DEF IInv, TypeOK, Account
      <3> QED
        BY <2>1, <2>5, <3>1, BooksStep DEF IInv
    <2> QED
      BY <2>1, <2>2, <2>3, <2>6 DEF IInv
  <1> QED
    BY <1>1, <1>2 DEF Reject

(* claimRefund *)
LEMMA ClaimRefundIInv ==
    ASSUME IInv, NEW j \in JobIds, ClaimRefund(j)
    PROVE  IInv'
  BY RefundIInv DEF ClaimRefund

(* withdrawPlatformFees: the fees leave with what is owed for them. *)
LEMMA WithdrawIInv ==
    ASSUME IInv, NEW a \in Address, WithdrawPlatformFees(a)
    PROVE  IInv'
  <1> USE DEF WithdrawPlatformFees
  <1>1. /\ balance' \in Balances
        /\ stray' \in Nat
        /\ balance'[Escrow] - stray' = balance[Escrow] - pendingPlatformFees - stray
    <2>1. /\ balance \in Balances /\ pendingPlatformFees \in Nat /\ stray \in Nat
          /\ balance[Escrow] \in Nat /\ balance[Escrow] >= pendingPlatformFees
      BY DEF IInv, TypeOK, CanPay, Balances, Account
    <2>2. CASE feeWallet = Escrow
      BY <2>1, <2>2, PaidToItself
    <2>3. CASE feeWallet # Escrow
      <3>1. feeWallet \in Address
        BY <2>3 DEF IInv, TypeOK, Account
      <3>2. /\ balance' \in Balances
            /\ balance'[Escrow] = balance[Escrow] - pendingPlatformFees
        BY <2>1, <3>1, PaidFromEscrow
      <3> QED
        BY <2>1, <2>3, <3>2
    <2> QED
      BY <2>2, <2>3
  <1>2. TypeOK' /\ now' >= 1
    BY <1>1 DEF IInv, TypeOK, Balances
  <1>3. Created' /\ Stages'
    BY DEF IInv, Created, Stages, Exists
  <1>4. Books'
    BY <1>1, <1>2, BooksSame DEF IInv, TypeOK, Account
  <1> QED
    BY <1>2, <1>3, <1>4 DEF IInv

(* The steps that touch neither the jobs nor the escrow's tokens. *)
LEMMA OtherIInv ==
    ASSUME IInv, UNCHANGED <<jobs, jobCount, submittedAt, pendingPlatformFees, balance, stray>>,
           TypeOK', now' >= 1
    PROVE  IInv'
  <1>1. Created' /\ Stages'
    BY DEF IInv, Created, Stages, Exists
  <1>2. Books'
    BY BooksSame DEF IInv, TypeOK
  <1> QED
    BY <1>1, <1>2 DEF IInv

(* Every step of the contract and of its environment preserves the invariant. *)
LEMMA NextIInv == IInv /\ [Next]_vars => IInv'
  <1> SUFFICES ASSUME IInv, [Next]_vars PROVE IInv'
    OBVIOUS
  <1>1. ASSUME NEW a \in Clients, Create(a) PROVE IInv'
    BY SMTT(30), <1>1, CreateJobIInv, BoundAssumption DEF Create, Account
  <1>2. ASSUME NEW a \in Address, Administer(a) PROVE IInv'
    <2>1. CASE WithdrawPlatformFees(a)
      BY <2>1, WithdrawIInv
    <2>2. ASSUME NEW w \in FeeWallets, SetFeeWallet(a, w) PROVE IInv'
      <3>1. TypeOK' /\ now' >= 1
        BY <2>2, BoundAssumption DEF SetFeeWallet, tokenVars, IInv, TypeOK, Account
      <3> QED
        BY <2>2, <3>1, OtherIInv DEF SetFeeWallet, tokenVars
    <2>3. ASSUME NEW on \in BOOLEAN, SetPaused(a, on) PROVE IInv'
      <3>1. TypeOK' /\ now' >= 1
        BY <2>3 DEF SetPaused, tokenVars, IInv, TypeOK
      <3> QED
        BY <2>3, <3>1, OtherIInv DEF SetPaused, tokenVars
    <2> QED
      BY <1>2, <2>1, <2>2, <2>3 DEF Administer
  <1>3. ASSUME NEW a \in Address, NEW j \in JobIds, Negotiate(a, j) PROVE IInv'
    <2>1. ASSUME NEW p \in Providers, SetProvider(a, j, p) PROVE IInv'
      BY <2>1, SetProviderIInv, BoundAssumption DEF Account
    <2>2. ASSUME NEW n \in Amounts, SetBudget(a, j, n) \/ Fund(a, j, n) PROVE IInv'
      BY <2>2, SetBudgetIInv, FundIInv, BoundAssumption
    <2>3. ASSUME NEW id \in AgentIds \cup {NoAgentId}, SetProviderAgentId(a, j, id)
          PROVE  IInv'
      <3>1. TypeOK' /\ now' >= 1
        BY <2>3 DEF SetProviderAgentId, tokenVars, IInv, TypeOK
      <3> QED
        BY <2>3, <3>1, OtherIInv DEF SetProviderAgentId, tokenVars
    <2> QED
      BY <1>3, <2>1, <2>2, <2>3 DEF Negotiate
  <1>4. ASSUME NEW a \in Address, NEW j \in JobIds, Settle(a, j) PROVE IInv'
    BY <1>4, SubmitIInv, CompleteIInv, RejectIInv DEF Settle
  <1>5. ASSUME NEW j \in JobIds, ClaimRefund(j) PROVE IInv'
    BY <1>5, ClaimRefundIInv
  <1>6. CASE Environment
    <2>1. TypeOK' /\ now' >= 1
      BY <1>6, BoundAssumption
         DEF Environment, Tick, Blacklist, escrowVars, tokenVars, IInv, TypeOK
    <2> QED
      BY <1>6, <2>1, OtherIInv DEF Environment, Tick, Blacklist, escrowVars, tokenVars
  <1>7. CASE UNCHANGED vars
    <2>1. TypeOK' /\ now' >= 1
      BY <1>7 DEF vars, escrowVars, tokenVars, IInv, TypeOK
    <2> QED
      BY <1>7, <2>1, OtherIInv DEF vars, escrowVars, tokenVars
  <1> QED
    BY <1>1, <1>2, <1>3, <1>4, <1>5, <1>6, <1>7 DEF Next

(* The inductive invariant holds in every reachable state. *)
LEMMA Invariance == Spec => []IInv
  BY InitIInv, NextIInv, PTL DEF Spec

(***************************************************************************)
(* The theorems.                                                           *)
(***************************************************************************)

(* Every reachable state of the contract is well typed; in particular no   *)
(* balance and no pending fee ever underflows.                             *)
THEOREM TypeCorrect == Spec => []TypeOK
  <1>1. IInv => TypeOK
    BY DEF IInv
  <1> QED
    BY <1>1, Invariance, PTL

(* For any number of jobs and accounts, any budgets and any fees, the      *)
(* contract always holds exactly the budgets of its held jobs, its pending *)
(* fees and the fees it swept to itself, whoever is named in its jobs.     *)
THEOREM SolvencyHolds == Spec => []Solvency
  <1>1. IInv => Solvency
    BY HeldTotalIsSum DEF IInv, Books, Solvency
  <1> QED
    BY <1>1, Invariance, PTL

(* What one step of the contract does to a job whose terms are agreed. *)
LEMMA TermsStep ==
    ASSUME IInv, [Next]_vars, NEW i \in JobIds
    PROVE  TermsKept(i)
  <1> SUFFICES ASSUME jobs[i].status # "Open" PROVE TermsKept(i)
    BY DEF TermsKept
  <1> USE DEF IInv, TypeOK, Job, Open, Stages, TermsKept, Terms, tokenVars
  <1>1. ASSUME NEW a \in Clients, Create(a) PROVE TermsKept(i)
    <2>1. i # jobCount + 1
      <3>1. ~ (i > jobCount)
        BY DEF Created, EmptyJob
      <3> QED
        BY <3>1, BoundAssumption DEF JobIds
    <2>2. /\ jobs'[i] = jobs[i]
          /\ UNCHANGED <<providerAgentId, submittedAt>>
      BY <1>1, <2>1, BoundAssumption DEF Create, CreateJob
    <2> QED
      BY <2>2
  <1>2. ASSUME NEW a \in Address, Administer(a) PROVE TermsKept(i)
    BY <1>2 DEF Administer, WithdrawPlatformFees, SetFeeWallet, SetPaused
  <1>3. ASSUME NEW a \in Address, NEW j \in JobIds, Negotiate(a, j) PROVE TermsKept(i)
    BY <1>3 DEF Negotiate, SetProvider, SetBudget, Fund, SetProviderAgentId
  <1>4. ASSUME NEW a \in Address, NEW j \in JobIds, Settle(a, j) PROVE TermsKept(i)
    BY <1>4 DEF Settle, Submit, Complete, Reject, RejectOpen, RejectHeld
  <1>5. ASSUME NEW j \in JobIds, ClaimRefund(j) PROVE TermsKept(i)
    BY <1>5 DEF ClaimRefund
  <1>6. CASE Environment
    BY <1>6 DEF Environment, Tick, Blacklist, escrowVars
  <1>7. CASE UNCHANGED vars
    BY <1>7 DEF vars, escrowVars
  <1> QED
    BY <1>1, <1>2, <1>3, <1>4, <1>5, <1>6, <1>7 DEF Next

(* Where one step of the contract can take a job. *)
LEMMA MoveStep ==
    ASSUME IInv, [Next]_vars, NEW i \in JobIds
    PROVE  LegalMove(i)
  <1> USE DEF IInv, TypeOK, Job, Open, Stages, LegalMove, Transitions, Holding, tokenVars
  <1>1. ASSUME NEW a \in Clients, Create(a) PROVE LegalMove(i)
    BY <1>1, BoundAssumption DEF Create, CreateJob, Created, EmptyJob, JobIds
  <1>2. ASSUME NEW a \in Address, Administer(a) PROVE LegalMove(i)
    BY <1>2 DEF Administer, WithdrawPlatformFees, SetFeeWallet, SetPaused
  <1>3. ASSUME NEW a \in Address, NEW j \in JobIds, Negotiate(a, j) PROVE LegalMove(i)
    BY <1>3 DEF Negotiate, SetProvider, SetBudget, Fund, SetProviderAgentId
  <1>4. ASSUME NEW a \in Address, NEW j \in JobIds, Settle(a, j) PROVE LegalMove(i)
    BY <1>4 DEF Settle, Submit, Complete, Reject, RejectOpen, RejectHeld
  <1>5. ASSUME NEW j \in JobIds, ClaimRefund(j) PROVE LegalMove(i)
    BY <1>5 DEF ClaimRefund
  <1>6. CASE Environment
    BY <1>6 DEF Environment, Tick, Blacklist, escrowVars
  <1>7. CASE UNCHANGED vars
    BY <1>7 DEF vars, escrowVars
  <1> QED
    BY <1>1, <1>2, <1>3, <1>4, <1>5, <1>6, <1>7 DEF Next

(* The terms of a funded job never change, in any number of jobs. *)
THEOREM TermsFrozenHolds == Spec => TermsFrozen
  <1>1. IInv /\ [Next]_vars => [\A j \in JobIds : TermsKept(j)]_vars
    BY TermsStep
  <1> QED
    BY <1>1, Invariance, PTL DEF Spec, TermsFrozen

(* Every status change is an edge of the documented state machine, so a    *)
(* settled job never moves again and is settled at most once.              *)
THEOREM LegalTransitionsHold == Spec => LegalTransitions
  <1>1. IInv /\ [Next]_vars => [\A j \in JobIds : LegalMove(j)]_vars
    BY MoveStep
  <1> QED
    BY <1>1, Invariance, PTL DEF Spec, LegalTransitions

(***************************************************************************)
(* The hook.                                                               *)
(***************************************************************************)
(* Everything said about a job: the feedback written and the penalties.    *)
Said == entries \cup unrecorded

(* It is said of the identity its provider is bound to. *)
Attributed ==
    \A e \in Said :
        /\ jobs[e.job].provider \in Address
        /\ e.agent = canonicalAgentId[jobs[e.job].provider]

(* A job was written about or charged, not both. *)
Apart == \A e \in entries, u \in unrecorded : e.job # u.job

(* A penalty that was not cleared is counted. *)
Counted == \A u \in unrecorded : ~u.cleared => penalties[u.agent] # 0

(* What a job was submitted under is its provider's identity still. *)
BoundUnder ==
    \A j \in JobIds : boundAtSubmit[j] # NoAgentId =>
        /\ jobs[j].status # "Open"
        /\ jobs[j].provider \in Address
        /\ boundAtSubmit[j] = canonicalAgentId[jobs[j].provider]

(* A job somebody was blamed for stays rejected. *)
VerdictsAreFinal == \A j \in verdicts : jobs[j].status = "Rejected"

(* The inductive invariant of the hooked contract. *)
HInv ==
    /\ HTypeOK
    /\ Attributed
    /\ EntriesMatchSettlements
    /\ Apart
    /\ Counted
    /\ BoundUnder
    /\ VerdictsAreFinal
    /\ NoVerdictDodged

(***************************************************************************)
(* The hook implements the escrow: each of its steps is one transaction of *)
(* the contract, or leaves the contract alone.                             *)
(***************************************************************************)
LEMMA StepIsEscrowStep == [HNext]_allVars => [Next]_vars
  <1> SUFFICES ASSUME [HNext]_allVars PROVE [Next]_vars
    OBVIOUS
  <1>1. CASE Unhooked
    BY <1>1 DEF Unhooked, Next
  <1>2. ASSUME NEW a \in Address, NEW j \in JobIds, HSettle(a, j) PROVE Next
    BY <1>2 DEF HSettle, HSubmit, HComplete, HReject, Next, Settle
  <1>3. ASSUME NEW a \in Address, NEW e \in entries, RevokeFeedback(a, e)
        PROVE  UNCHANGED vars
    BY <1>3 DEF RevokeFeedback
  <1>4. ASSUME NEW a \in Address, NEW id \in AgentIds, ClearPenalties(a, id)
        PROVE  UNCHANGED vars
    BY <1>4 DEF ClearPenalties
  <1>5. ASSUME NEW id \in AgentIds, NEW s \in SUBSET Controllers, MoveIdentity(id, s)
        PROVE  UNCHANGED vars
    BY <1>5 DEF MoveIdentity
  <1>6. CASE UNCHANGED allVars
    BY <1>6 DEF allVars
  <1> QED
    BY <1>1, <1>2, <1>3, <1>4, <1>5, <1>6 DEF HNext

(* With the hook attached the escrow behaves as the escrow alone: whatever *)
(* is proved of AgentJobEscrow holds of every job the hook is called for.  *)
THEOREM HookRefinesEscrow == HSpec => Spec
  <1>1. HInit => Init
    BY DEF HInit
  <1> QED
    BY <1>1, StepIsEscrowStep, PTL DEF HSpec, Spec

(***************************************************************************)
(* What a step of the contract keeps of a job that left Open.              *)
(***************************************************************************)
LEMMA AgreedStays ==
    ASSUME IInv, [Next]_vars, NEW j \in JobIds, jobs[j].status # "Open"
    PROVE  /\ jobs'[j].provider = jobs[j].provider
           /\ jobs'[j].evaluator = jobs[j].evaluator
           /\ jobs'[j].budget = jobs[j].budget
           /\ jobs'[j].status # "Open"
           /\ jobs[j].status \in Terminal => jobs'[j].status = jobs[j].status
           /\ submittedAt[j] # 0 => submittedAt'[j] = submittedAt[j]
  <1>1. IInv'
    BY NextIInv
  <1>2. jobs[j] \in Job /\ jobs'[j] \in Job
    BY <1>1 DEF IInv, TypeOK
  <1>3. TermsKept(j) /\ LegalMove(j)
    BY TermsStep, MoveStep
  <1>4. Terms(j)' = Terms(j) /\ (submittedAt[j] # 0 => submittedAt'[j] = submittedAt[j])
    BY <1>3 DEF TermsKept
  <1>5. /\ Terms(j)'.provider = jobs'[j].provider
        /\ Terms(j)'.evaluator = jobs'[j].evaluator
        /\ Terms(j)'.budget = jobs'[j].budget
        /\ Terms(j).provider = jobs[j].provider
        /\ Terms(j).evaluator = jobs[j].evaluator
        /\ Terms(j).budget = jobs[j].budget
    BY <1>2 DEF Terms, Job
  <1>6. /\ jobs'[j].status # "Open"
        /\ jobs[j].status \in Terminal => jobs'[j].status = jobs[j].status
    BY <1>3 DEF LegalMove, Transitions, Terminal
  <1> QED
    BY <1>4, <1>5, <1>6

(* Every job something was said about, or judged, is settled. *)
LEMMA SaidIsSettled ==
    ASSUME IInv, HInv
    PROVE  /\ \A e \in Said : e.job \in JobIds /\ jobs[e.job].status \in Terminal
           /\ \A j \in verdicts : j \in JobIds /\ jobs[j].status \in Terminal
  <1>1. \A e \in Said : e.job \in JobIds
    BY DEF HInv, HTypeOK, Said
  <1>2. \A e \in Said : jobs[e.job].status \in Terminal
    BY <1>1 DEF HInv, EntriesMatchSettlements, Said, Terminal
  <1>3. \A j \in verdicts : j \in JobIds /\ jobs[j].status \in Terminal
    BY DEF HInv, HTypeOK, VerdictsAreFinal, Terminal
  <1> QED
    BY <1>1, <1>2, <1>3

(***************************************************************************)
(* The invariant is established and kept, one lemma per operation.         *)
(***************************************************************************)
(* At the start nothing was said. *)
LEMMA InitHInv == HInit => HInv
  <1> SUFFICES ASSUME HInit PROVE HInv
    OBVIOUS
  <1>1. entries = {} /\ unrecorded = {} /\ verdicts = {}
    BY DEF HInit
  <1>2. HTypeOK
    BY <1>1 DEF HInit, HTypeOK
  <1>3. \A j \in JobIds : boundAtSubmit[j] = NoAgentId
    BY DEF HInit
  <1> QED
    BY <1>1, <1>2, <1>3
       DEF HInv, Said, Attributed, EntriesMatchSettlements, Apart, Counted, BoundUnder,
           VerdictsAreFinal, NoVerdictDodged

(* A transaction in which the hook does nothing, and a change of the       *)
(* identity registry: the record stays, and the jobs it speaks of too.     *)
LEMMA FrameHInv ==
    ASSUME IInv, HInv, [Next]_vars, HTypeOK',
           UNCHANGED <<canonicalAgentId, penalties, entries, historyVars>>
    PROVE  HInv'
  <1> USE DEF historyVars
  <1>1. \A e \in Said :
            /\ e.job \in JobIds /\ jobs[e.job].status \in Terminal
            /\ jobs'[e.job].provider = jobs[e.job].provider
            /\ jobs'[e.job].evaluator = jobs[e.job].evaluator
            /\ jobs'[e.job].budget = jobs[e.job].budget
            /\ jobs'[e.job].status = jobs[e.job].status
            /\ submittedAt[e.job] # 0 => submittedAt'[e.job] = submittedAt[e.job]
    BY SaidIsSettled, AgreedStays DEF Terminal
  <1>2. \A j \in verdicts : /\ jobs'[j].status = jobs[j].status
                             /\ jobs'[j].budget = jobs[j].budget
    BY SaidIsSettled, AgreedStays DEF Terminal
  <1>3. Said' = Said
    BY DEF Said
  <1>4. Attributed'
    BY <1>1, <1>3 DEF HInv, Attributed
  <1>5. EntriesMatchSettlements'
    BY <1>1 DEF HInv, EntriesMatchSettlements, Said
  <1>6. Apart' /\ Counted'
    BY DEF HInv, Apart, Counted
  <1>7. BoundUnder'
    BY AgreedStays DEF HInv, BoundUnder
  <1>8. VerdictsAreFinal' /\ NoVerdictDodged'
    BY <1>2 DEF HInv, VerdictsAreFinal, NoVerdictDodged
  <1> QED
    BY <1>4, <1>5, <1>6, <1>7, <1>8 DEF HInv

(* submit: the provider is bound the first time, and what was said of it   *)
(* before was said of the identity it is bound to already.                 *)
LEMMA SubmitHInv ==
    ASSUME IInv, HInv, NEW a \in Address, NEW j \in JobIds, HSubmit(a, j)
    PROVE  HInv'
  <1>1. [Next]_vars
    BY DEF HSubmit, Next, Settle
  <1>2. CASE ~Hooked(j)
    BY <1>1, <1>2, FrameHInv
       DEF HSubmit, hVars, hookVars, registryVars, historyVars, HInv, HTypeOK
  <1>3. CASE Hooked(j)
    <2> DEFINE p == jobs[j].provider
    <2>1. Submit(a, j) /\ BindOnSubmit(j)
      BY <1>3 DEF HSubmit
    <2>2. p \in Address /\ jobs[j].status = "Funded"
      BY <2>1, AddressAssumption DEF Submit, IInv, TypeOK, Job, Created, Holding
    <2>3. /\ jobs' = [jobs EXCEPT ![j].status = "Submitted"]
          /\ submittedAt' = [submittedAt EXCEPT ![j] = now]
      BY <2>1 DEF Submit
    <2>4. /\ UNCHANGED <<penalties, controllers, entries, verdicts, unrecorded>>
          /\ boundAtSubmit' = [boundAtSubmit EXCEPT ![j] = canonicalAgentId'[p]]
      BY <2>1 DEF BindOnSubmit, registryVars
    <2>5. \/ UNCHANGED canonicalAgentId
          \/ /\ canonicalAgentId[p] = NoAgentId
             /\ \E id \in AgentIds : canonicalAgentId' = [canonicalAgentId EXCEPT ![p] = id]
      <3>1. providerAgentId[j] \in AgentIds \cup {NoAgentId}
        BY DEF IInv, TypeOK
      <3> QED
        BY <2>1, <3>1 DEF BindOnSubmit
    <2>6. \A q \in Account : canonicalAgentId[q] # NoAgentId
                                => canonicalAgentId'[q] = canonicalAgentId[q]
      BY <2>5 DEF HInv, HTypeOK, Account
    <2>7. HTypeOK'
      <3>1. canonicalAgentId' \in [Account -> AgentIds \cup {NoAgentId}]
        BY <2>5 DEF HInv, HTypeOK
      <3>2. boundAtSubmit' \in [JobIds -> AgentIds \cup {NoAgentId}]
        BY <2>2, <2>4, <3>1 DEF HInv, HTypeOK, Account
      <3> QED
        BY <2>4, <3>1, <3>2 DEF HInv, HTypeOK
    <2>8. \A e \in Said :
              /\ e.job \in JobIds \ {j} /\ e.agent \in AgentIds
              /\ jobs'[e.job] = jobs[e.job] /\ submittedAt'[e.job] = submittedAt[e.job]
      <3>1. \A e \in Said : e.job # j /\ e.job \in JobIds
        BY <2>2, SaidIsSettled DEF Terminal
      <3>2. \A e \in Said : e.agent \in AgentIds
        BY DEF HInv, HTypeOK, Said
      <3> QED
        BY <2>3, <3>1, <3>2 DEF IInv, TypeOK
    <2>9. Said' = Said
      BY <2>4 DEF Said
    <2>10. Attributed'
      BY <2>6, <2>8, <2>9, AddressAssumption DEF HInv, Attributed, Account
    <2>11. EntriesMatchSettlements'
      BY <2>4, <2>8 DEF HInv, EntriesMatchSettlements, Said
    <2>12. Apart' /\ Counted'
      BY <2>4 DEF HInv, Apart, Counted
    <2>13. BoundUnder'
      <3>1. /\ jobs'[j].status = "Submitted" /\ jobs'[j].provider = p
            /\ boundAtSubmit'[j] = canonicalAgentId'[p]
        BY <2>3, <2>4 DEF IInv, TypeOK, Job, HInv, HTypeOK
      <3>2. ASSUME NEW i \in JobIds \ {j}, boundAtSubmit'[i] # NoAgentId
            PROVE  /\ jobs'[i].status # "Open"
                   /\ jobs'[i].provider \in Address
                   /\ boundAtSubmit'[i] = canonicalAgentId'[jobs'[i].provider]
        <4>1. jobs'[i] = jobs[i] /\ boundAtSubmit'[i] = boundAtSubmit[i]
          BY <2>3, <2>4 DEF IInv, TypeOK, HInv, HTypeOK
        <4> QED
          BY <2>6, <3>2, <4>1 DEF HInv, BoundUnder, Account
      <3> QED
        BY <2>2, <3>1, <3>2 DEF BoundUnder
    <2>14. \A i \in verdicts : /\ i \in JobIds \ {j} /\ jobs'[i] = jobs[i]
                               /\ boundAtSubmit'[i] = boundAtSubmit[i]
      <3>1. \A i \in verdicts : i \in JobIds \ {j}
        BY <2>2, SaidIsSettled DEF Terminal
      <3> QED
        BY <2>3, <2>4, <3>1 DEF IInv, TypeOK, HInv, HTypeOK
    <2>15. VerdictsAreFinal' /\ NoVerdictDodged'
      BY <2>4, <2>14 DEF HInv, VerdictsAreFinal, NoVerdictDodged
    <2> QED
      BY <2>7, <2>10, <2>11, <2>12, <2>13, <2>15 DEF HInv
  <1> QED
    BY <1>2, <1>3

(* What the hook may write or charge is about a job that was submitted, of *)
(* which nothing was said yet, for the identity of its provider.           *)
LEMMA GateOpen ==
    ASSUME IInv, HInv, NEW j \in JobIds, NEW completed \in BOOLEAN, NEW reason, NEW params,
           jobs[j].status \notin Terminal,
           completed => jobs[j].status = "Submitted",
           Gate(j, completed, reason, params)
    PROVE  /\ jobs[j].evaluator = TrustedEvaluator
           /\ jobs[j].budget >= MinFeedbackBudget
           /\ submittedAt[j] # 0
           /\ jobs[j].provider \in Address
           /\ RatedId(j) = canonicalAgentId[jobs[j].provider]
           /\ RatedId(j) \in AgentIds
  <1>1. submittedAt[j] # 0
    BY DEF Gate, IsVerdict, IInv, Stages
  <1>2. jobs[j].status = "Submitted"
    BY <1>1 DEF IInv, TypeOK, Job, Stages, Statuses, Terminal
  <1>3. jobs[j].provider \in Address
    BY <1>2 DEF IInv, Created, Holding
  <1>4. RatedId(j) = canonicalAgentId[jobs[j].provider]
    BY <1>3, AddressAssumption DEF RatedId
  <1>5. RatedId(j) \in AgentIds
    BY <1>3, <1>4 DEF Gate, HInv, HTypeOK, Account
  <1> QED
    BY <1>1, <1>3, <1>4, <1>5 DEF Gate

(* complete and reject: at most one thing is said, of the job settled, and *)
(* a verdict is said wherever one was owed.                                *)
LEMMA SettleHInv ==
    ASSUME IInv, HInv, [Next]_vars, NEW j \in JobIds, NEW completed \in BOOLEAN,
           NEW reason \in Reasons, NEW params \in Params,
           jobs[j].status \notin Terminal,
           completed => jobs[j].status = "Submitted",
           jobs' = [jobs EXCEPT ![j].status = IF completed THEN "Completed" ELSE "Rejected"],
           UNCHANGED submittedAt,
           AfterSettle(j, completed, reason, params)
    PROVE  HInv'
  <1> DEFINE id    == RatedId(j)
             entry == [job |-> j, agent |-> id, revoked |-> FALSE,
                       value |-> IF completed THEN CompletedValue ELSE RejectedValue]
             charge == [job |-> j, agent |-> id, cleared |-> FALSE]
  <1>1. /\ UNCHANGED <<canonicalAgentId, controllers, boundAtSubmit>>
        /\ verdicts' = IF /\ jobs[j].evaluator = TrustedEvaluator
                          /\ ~completed /\ IsVerdict(j, reason) /\ params = "valid"
                       THEN verdicts \cup {j} ELSE verdicts
    BY DEF AfterSettle
  <1>2. /\ \A e \in Said : e.job \in JobIds \ {j} /\ jobs'[e.job] = jobs[e.job]
        /\ \A i \in verdicts : i \in JobIds \ {j} /\ jobs'[i] = jobs[i]
    <2>1. /\ \A e \in Said : e.job \in JobIds \ {j}
          /\ \A i \in verdicts : i \in JobIds \ {j}
      BY SaidIsSettled
    <2> QED
      BY <2>1 DEF IInv, TypeOK
  <1>3. /\ jobs'[j].status = IF completed THEN "Completed" ELSE "Rejected"
        /\ jobs'[j].provider = jobs[j].provider
        /\ jobs'[j].evaluator = jobs[j].evaluator
        /\ jobs'[j].budget = jobs[j].budget
    BY DEF IInv, TypeOK, Job
  <1>4. BoundUnder'
    BY <1>1, AgreedStays DEF HInv, BoundUnder
  <1>5. VerdictsAreFinal'
    BY <1>1, <1>2, <1>3 DEF HInv, VerdictsAreFinal
  <1>6. verdicts' \subseteq JobIds
    BY <1>1 DEF HInv, HTypeOK
  <1>7. ASSUME j \in verdicts', boundAtSubmit[j] # NoAgentId,
               jobs[j].budget >= MinFeedbackBudget
        PROVE  /\ Gate(j, completed, reason, params) /\ params = "valid" /\ ~completed
               /\ id = boundAtSubmit[j]
    <2>1. j \notin verdicts
      BY <1>2
    <2>2. /\ jobs[j].evaluator = TrustedEvaluator
          /\ ~completed /\ IsVerdict(j, reason) /\ params = "valid"
      BY <1>1, <1>7, <2>1
    <2>3. id = boundAtSubmit[j]
      BY <1>7, AddressAssumption DEF HInv, BoundUnder, RatedId
    <2> QED
      BY <1>7, <2>2, <2>3 DEF Gate
  <1> SUFFICES HTypeOK' /\ Attributed' /\ EntriesMatchSettlements' /\ Apart' /\ Counted'
               /\ NoVerdictDodged'
    BY <1>4, <1>5 DEF HInv
  <1>8. CASE UNCHANGED <<entries, penalties, unrecorded>>
             /\ ~ (Gate(j, completed, reason, params) /\ params = "valid" /\ ~completed)
    <2>1. Said' = Said
      BY <1>8 DEF Said
    <2>2. HTypeOK'
      BY <1>1, <1>6, <1>8 DEF HInv, HTypeOK
    <2>3. Attributed'
      BY <1>1, <1>2, <2>1 DEF HInv, Attributed
    <2>4. EntriesMatchSettlements'
      BY <1>2, <1>8 DEF HInv, EntriesMatchSettlements, Said
    <2>5. Apart' /\ Counted'
      BY <1>8 DEF HInv, Apart, Counted
    <2>6. NoVerdictDodged'
      BY <1>1, <1>2, <1>3, <1>7, <1>8 DEF HInv, NoVerdictDodged
    <2> QED
      BY <2>2, <2>3, <2>4, <2>5, <2>6
  <1>9. CASE /\ Gate(j, completed, reason, params)
             /\ entries' = entries \cup {entry}
             /\ UNCHANGED <<penalties, unrecorded>>
    <2>1. /\ jobs[j].evaluator = TrustedEvaluator /\ jobs[j].budget >= MinFeedbackBudget
          /\ submittedAt[j] # 0 /\ jobs[j].provider \in Address
          /\ id = canonicalAgentId[jobs[j].provider] /\ id \in AgentIds
      BY <1>9, GateOpen
    <2>2. HTypeOK'
      <3>1. entry \in [job : JobIds, agent : AgentIds, revoked : BOOLEAN,
                       value : {CompletedValue, RejectedValue}]
        BY <2>1
      <3> QED
        BY <1>1, <1>6, <1>9, <3>1 DEF HInv, HTypeOK
    <2>3. entry.job = j /\ entry.agent = id
          /\ entry.value = IF completed THEN CompletedValue ELSE RejectedValue
      OBVIOUS
    <2> HIDE DEF entry, id
    <2>4. Said' = Said \cup {entry}
      BY <1>9 DEF Said
    <2>5. Attributed'
      BY <1>1, <1>2, <1>3, <2>1, <2>3, <2>4 DEF HInv, Attributed
    <2>6. EntriesMatchSettlements'
      <3>1. ASSUME NEW e \in Said
            PROVE  /\ e # entry /\ e.job # entry.job /\ jobs'[e.job] = jobs[e.job]
                   /\ e \in entries' <=> e \in entries
        BY <1>2, <1>9, <2>3
      <3>2. jobs'[j].status = IF entry \in entries' /\ entry.value = CompletedValue
                              THEN "Completed" ELSE "Rejected"
        BY <1>3, <1>9, <2>3 DEF CompletedValue, RejectedValue
      <3> QED
        BY <1>3, <2>1, <2>3, <2>4, <3>1, <3>2 DEF HInv, EntriesMatchSettlements, Said
    <2>7. Apart' /\ Counted'
      BY <1>2, <1>9, <2>3 DEF HInv, Apart, Counted, Said
    <2>8. NoVerdictDodged'
      <3>1. ASSUME NEW i \in verdicts', boundAtSubmit'[i] # NoAgentId,
                   jobs'[i].budget >= MinFeedbackBudget
            PROVE  \E e \in (entries \cup unrecorded)' :
                      /\ e.job = i /\ e.agent = boundAtSubmit'[i]
                      /\ e \in entries' => e.value = RejectedValue
        <4>1. CASE i = j
          BY <1>1, <1>3, <1>7, <1>9, <2>3, <3>1, <4>1
        <4>2. CASE i # j
          <5>1. i \in verdicts /\ jobs'[i] = jobs[i]
            BY <1>1, <1>2, <3>1, <4>2
          <5>2. PICK e \in Said : /\ e.job = i /\ e.agent = boundAtSubmit[i]
                                  /\ e \in entries => e.value = RejectedValue
            BY <1>1, <3>1, <5>1 DEF HInv, NoVerdictDodged, Said
          <5> QED
            BY <1>1, <1>9, <2>3, <4>2, <5>2 DEF Said
        <4> QED
          BY <4>1, <4>2
      <3> QED
        BY <3>1 DEF NoVerdictDodged
    <2> QED
      BY <2>2, <2>5, <2>6, <2>7, <2>8
  <1>10. CASE /\ Gate(j, completed, reason, params) /\ ~completed
              /\ UNCHANGED entries
              /\ penalties' = [penalties EXCEPT ![id] = @ + 1]
              /\ unrecorded' = unrecorded \cup {charge}
    <2>1. /\ jobs[j].evaluator = TrustedEvaluator /\ jobs[j].budget >= MinFeedbackBudget
          /\ submittedAt[j] # 0 /\ jobs[j].provider \in Address
          /\ id = canonicalAgentId[jobs[j].provider] /\ id \in AgentIds
      BY <1>10, GateOpen
    <2>2. /\ HTypeOK'
          /\ \A i \in AgentIds : penalties'[i] # 0 <=> (penalties[i] # 0 \/ i = id)
      <3>1. charge \in [job : JobIds, agent : AgentIds, cleared : BOOLEAN]
        BY <2>1
      <3>2. /\ penalties' \in [AgentIds -> Nat]
            /\ \A i \in AgentIds : penalties'[i] # 0 <=> (penalties[i] # 0 \/ i = id)
        BY <1>10, <2>1 DEF HInv, HTypeOK
      <3> QED
        BY <1>1, <1>6, <1>10, <3>1, <3>2 DEF HInv, HTypeOK
    <2>3. charge.job = j /\ charge.agent = id
      OBVIOUS
    <2> HIDE DEF charge, id
    <2>4. Said' = Said \cup {charge} /\ charge \notin entries
      BY <1>2, <1>10, <2>3 DEF Said
    <2>5. Attributed'
      BY <1>1, <1>2, <1>3, <2>1, <2>3, <2>4 DEF HInv, Attributed
    <2>6. EntriesMatchSettlements'
      <3>1. ASSUME NEW e \in Said
            PROVE  e # charge /\ e.job # charge.job /\ jobs'[e.job] = jobs[e.job]
        BY <1>2, <2>3
      <3> QED
        BY <1>3, <1>10, <2>1, <2>3, <2>4, <3>1 DEF HInv, EntriesMatchSettlements, Said
    <2>7. Apart'
      BY <1>2, <1>10, <2>3 DEF HInv, Apart, Said
    <2>8. Counted'
      <3>1. \A u \in unrecorded : u.agent \in AgentIds
        BY DEF HInv, HTypeOK
      <3> QED
        BY <1>10, <2>1, <2>2, <2>3, <3>1 DEF HInv, Counted
    <2>9. NoVerdictDodged'
      <3>1. ASSUME NEW i \in verdicts', boundAtSubmit'[i] # NoAgentId,
                   jobs'[i].budget >= MinFeedbackBudget
            PROVE  \E e \in (entries \cup unrecorded)' :
                      /\ e.job = i /\ e.agent = boundAtSubmit'[i]
                      /\ e \in entries' => e.value = RejectedValue
        <4>1. CASE i = j
          BY <1>1, <1>3, <1>7, <1>10, <2>3, <2>4, <3>1, <4>1
        <4>2. CASE i # j
          <5>1. i \in verdicts /\ jobs'[i] = jobs[i]
            BY <1>1, <1>2, <3>1, <4>2
          <5>2. PICK e \in Said : /\ e.job = i /\ e.agent = boundAtSubmit[i]
                                  /\ e \in entries => e.value = RejectedValue
            BY <1>1, <3>1, <5>1 DEF HInv, NoVerdictDodged, Said
          <5> QED
            BY <1>1, <1>10, <5>2 DEF Said
        <4> QED
          BY <4>1, <4>2
      <3> QED
        BY <3>1 DEF NoVerdictDodged
    <2> QED
      BY <2>2, <2>5, <2>6, <2>7, <2>8, <2>9
  <1>11. \/ /\ UNCHANGED <<entries, penalties, unrecorded>>
            /\ ~ (Gate(j, completed, reason, params) /\ params = "valid" /\ ~completed)
         \/ /\ Gate(j, completed, reason, params)
            /\ entries' = entries \cup {entry}
            /\ UNCHANGED <<penalties, unrecorded>>
         \/ /\ Gate(j, completed, reason, params) /\ ~completed
            /\ UNCHANGED entries
            /\ penalties' = [penalties EXCEPT ![id] = @ + 1]
            /\ unrecorded' = unrecorded \cup {charge}
    BY DEF AfterSettle, Write
  <1> QED
    BY <1>8, <1>9, <1>10, <1>11

(* revokeFeedback: the entry stays, marked. *)
LEMMA RevokeHInv ==
    ASSUME IInv, HInv, NEW a \in Address, NEW e \in entries, RevokeFeedback(a, e)
    PROVE  HInv'
  <1> DEFINE r == [e EXCEPT !.revoked = TRUE]
  <1>1. /\ entries' = (entries \ {e}) \cup {r}
        /\ UNCHANGED <<jobs, submittedAt, canonicalAgentId, penalties, controllers,
                       boundAtSubmit, verdicts, unrecorded>>
    BY DEF RevokeFeedback, vars, escrowVars, hookVars, historyVars
  <1>2. /\ r \in [job : JobIds, agent : AgentIds, revoked : BOOLEAN,
                   value : {CompletedValue, RejectedValue}]
        /\ r.job = e.job /\ r.agent = e.agent /\ r.value = e.value
    BY DEF HInv, HTypeOK
  <1> HIDE DEF r
  <1>3. HTypeOK'
    BY <1>1, <1>2 DEF HInv, HTypeOK
  <1>4. e \in Said /\ Said' = ((entries \ {e}) \cup {r}) \cup unrecorded
    BY <1>1 DEF Said
  <1>5. Attributed'
    BY <1>1, <1>2, <1>4 DEF HInv, Attributed, Said
  <1>6. Apart' /\ Counted'
    BY <1>1, <1>2 DEF HInv, Apart, Counted
  <1>7. EntriesMatchSettlements'
    BY <1>1, <1>2, <1>6 DEF HInv, EntriesMatchSettlements, Apart
  <1>8. BoundUnder' /\ VerdictsAreFinal'
    BY <1>1 DEF HInv, BoundUnder, VerdictsAreFinal
  <1>9. NoVerdictDodged'
    BY <1>1, <1>2, <1>6 DEF HInv, NoVerdictDodged, Apart
  <1> QED
    BY <1>3, <1>5, <1>6, <1>7, <1>8, <1>9 DEF HInv

(* clearPenalties: the count is reset, what was charged stays on record. *)
LEMMA ClearHInv ==
    ASSUME IInv, HInv, NEW a \in Address, NEW id \in AgentIds, ClearPenalties(a, id)
    PROVE  HInv'
  <1> DEFINE c(u) == IF u.agent = id THEN [u EXCEPT !.cleared = TRUE] ELSE u
  <1>1. /\ penalties' = [penalties EXCEPT ![id] = 0]
        /\ unrecorded' = {c(u) : u \in unrecorded}
        /\ UNCHANGED <<jobs, submittedAt, canonicalAgentId, controllers, entries,
                       boundAtSubmit, verdicts>>
    BY DEF ClearPenalties, vars, escrowVars, registryVars
  <1>2. \A u \in unrecorded :
            /\ c(u) \in [job : JobIds, agent : AgentIds, cleared : BOOLEAN]
            /\ c(u).job = u.job /\ c(u).agent = u.agent
            /\ ~c(u).cleared => ~u.cleared /\ u.agent # id
    BY DEF HInv, HTypeOK
  <1> HIDE DEF c
  <1>3. HTypeOK'
    BY <1>1, <1>2 DEF HInv, HTypeOK
  <1>4. Attributed'
    BY <1>1, <1>2 DEF HInv, Attributed, Said
  <1>5. Apart'
    BY <1>1, <1>2 DEF HInv, Apart
  <1>6. Counted'
    BY <1>1, <1>2 DEF HInv, HTypeOK, Counted
  <1>7. EntriesMatchSettlements'
    BY <1>1, <1>2, <1>5 DEF HInv, EntriesMatchSettlements, Apart
  <1>8. BoundUnder' /\ VerdictsAreFinal'
    BY <1>1 DEF HInv, BoundUnder, VerdictsAreFinal
  <1>9. NoVerdictDodged'
    BY <1>1, <1>2, <1>5 DEF HInv, NoVerdictDodged, Apart
  <1> QED
    BY <1>3, <1>4, <1>5, <1>6, <1>7, <1>8, <1>9 DEF HInv

(* Every step of the escrow, the hook and the registries keeps it. *)
LEMMA NextHInv == IInv /\ HInv /\ [HNext]_allVars => HInv'
  <1> SUFFICES ASSUME IInv, HInv, [HNext]_allVars PROVE HInv'
    OBVIOUS
  <1>0. [Next]_vars
    BY StepIsEscrowStep
  <1>1. ASSUME UNCHANGED hVars PROVE HInv'
    <2>1. HTypeOK'
      BY <1>1 DEF hVars, hookVars, registryVars, historyVars, HInv, HTypeOK
    <2> QED
      BY <1>0, <1>1, <2>1, FrameHInv DEF hVars, hookVars, registryVars, historyVars
  <1>2. CASE Unhooked
    BY <1>1, <1>2 DEF Unhooked
  <1>3. ASSUME NEW a \in Address, NEW j \in JobIds, HSubmit(a, j) PROVE HInv'
    BY <1>3, SubmitHInv
  <1>4. ASSUME NEW a \in Address, NEW j \in JobIds, NEW params \in Params,
               HComplete(a, j, params)
        PROVE  HInv'
    <2>1. CASE ~Hooked(j)
      BY <1>1, <1>4, <2>1 DEF HComplete
    <2>2. CASE Hooked(j)
      <3>1. Complete(a, j) /\ AfterSettle(j, TRUE, "other", params)
        BY <1>4, <2>2 DEF HComplete
      <3>2. /\ jobs[j].status = "Submitted"
            /\ jobs' = [jobs EXCEPT ![j].status = "Completed"]
            /\ UNCHANGED submittedAt
        BY <3>1 DEF Complete
      <3> QED
        BY <1>0, <3>1, <3>2, SettleHInv DEF Terminal, Reasons
    <2> QED
      BY <2>1, <2>2
  <1>5. ASSUME NEW a \in Address, NEW j \in JobIds, NEW params \in Params,
               NEW reason \in Reasons, HReject(a, j, reason, params)
        PROVE  HInv'
    <2>1. CASE ~Hooked(j)
      BY <1>1, <1>5, <2>1 DEF HReject
    <2>2. CASE Hooked(j)
      <3>1. Reject(a, j) /\ AfterSettle(j, FALSE, reason, params)
        BY <1>5, <2>2 DEF HReject
      <3>2. /\ jobs[j].status \notin Terminal
            /\ jobs' = [jobs EXCEPT ![j].status = "Rejected"]
            /\ UNCHANGED submittedAt
        BY <3>1 DEF Reject, RejectOpen, RejectHeld, Open, Holding, Terminal
      <3> QED
        BY <1>0, <3>1, <3>2, SettleHInv
    <2> QED
      BY <2>1, <2>2
  <1>6. ASSUME NEW a \in Address, NEW e \in entries, RevokeFeedback(a, e) PROVE HInv'
    BY <1>6, RevokeHInv
  <1>7. ASSUME NEW a \in Address, NEW id \in AgentIds, ClearPenalties(a, id) PROVE HInv'
    BY <1>7, ClearHInv
  <1>8. ASSUME NEW id \in AgentIds, NEW s \in SUBSET Controllers, MoveIdentity(id, s)
        PROVE  HInv'
    <2>1. /\ controllers' = [controllers EXCEPT ![id] = s]
          /\ UNCHANGED <<canonicalAgentId, penalties, entries, historyVars>>
      BY <1>8 DEF MoveIdentity, hookVars
    <2>2. HTypeOK'
      BY <2>1 DEF historyVars, HInv, HTypeOK
    <2> QED
      BY <1>0, <2>1, <2>2, FrameHInv
  <1>9. CASE UNCHANGED allVars
    BY <1>1, <1>9 DEF allVars
  <1> QED
    BY <1>2, <1>3, <1>4, <1>5, <1>6, <1>7, <1>8, <1>9 DEF HNext, HSettle

(* Both invariants hold in every reachable state. *)
LEMMA HInvariance == HSpec => [](IInv /\ HInv)
  <1>1. HInit => IInv /\ HInv
    BY InitIInv, InitHInv DEF HInit
  <1>2. IInv /\ HInv /\ [HNext]_allVars => (IInv /\ HInv)'
    BY StepIsEscrowStep, NextIInv, NextHInv
  <1> QED
    BY <1>1, <1>2, PTL DEF HSpec

(***************************************************************************)
(* The theorems.                                                           *)
(***************************************************************************)
(* Every reachable state of the escrow with its hook is well typed. *)
THEOREM HookTypeCorrect == HSpec => []HTypeOK
  <1>1. HInv => HTypeOK
    BY DEF HInv
  <1> QED
    BY <1>1, HInvariance, PTL

(* Whatever identities a provider presents and however they change hands,  *)
(* all that is said of its jobs is said of one identity.                   *)
THEOREM OneIdentityHolds == HSpec => []OneIdentityPerProvider
  <1>1. HInv => OneIdentityPerProvider
    BY DEF HInv, Attributed, Said, OneIdentityPerProvider
  <1> QED
    BY <1>1, HInvariance, PTL

(* The record agrees with the settlements, one statement at most per job. *)
THEOREM EntriesMatch == HSpec => []EntriesMatchSettlements
  <1>1. HInv => EntriesMatchSettlements
    BY DEF HInv
  <1> QED
    BY <1>1, HInvariance, PTL

(* No quality verdict on work submitted under an identity is lost. *)
THEOREM VerdictsAreSaid == HSpec => []NoVerdictDodged
  <1>1. HInv => NoVerdictDodged
    BY DEF HInv
  <1> QED
    BY <1>1, HInvariance, PTL

(* A praise written by settling a job. *)
LEMMA PraiseStep ==
    ASSUME IInv, HInv, NEW j \in JobIds, NEW completed \in BOOLEAN, NEW reason, NEW params,
           jobs[j].status \notin Terminal,
           completed => jobs[j].status = "Submitted",
           AfterSettle(j, completed, reason, params),
           NEW e \in entries' \ entries, e.value = CompletedValue,
           NEW u \in unrecorded, u.agent = e.agent
    PROVE  u.cleared
  <1>1. /\ Gate(j, completed, reason, params)
        /\ e = [job |-> j, agent |-> RatedId(j), revoked |-> FALSE,
                value |-> IF completed THEN CompletedValue ELSE RejectedValue]
    BY DEF AfterSettle, Write
  <1>2. completed
    BY <1>1 DEF CompletedValue, RejectedValue
  <1>3. penalties[e.agent] = 0
    BY <1>1, <1>2 DEF Gate
  <1>4. u.cleared \in BOOLEAN
    BY DEF HInv, HTypeOK
  <1> QED
    BY <1>3, <1>4 DEF HInv, Counted

(* No identity is praised while a charge against it stands, and no         *)
(* provider is bound twice, whatever transactions come in between.         *)
THEOREM PraiseIsEarnedHolds == HSpec => PraiseIsEarned
  <1> DEFINE Earned(e) ==
                 e.value = CompletedValue /\ ~e.revoked =>
                     ~ \E u \in unrecorded : u.agent = e.agent /\ ~u.cleared
             Kept == \A p \in Account : canonicalAgentId[p] # NoAgentId
                                           => canonicalAgentId'[p] = canonicalAgentId[p]
  <1>1. ASSUME IInv, HInv, HNext
        PROVE  (\A e \in entries' \ entries : Earned(e)) /\ Kept
    <2>1. ASSUME UNCHANGED hVars PROVE (\A e \in entries' \ entries : Earned(e)) /\ Kept
      BY <2>1 DEF hVars, hookVars, registryVars
    <2>2. CASE Unhooked
      BY <2>1, <2>2 DEF Unhooked
    <2>3. ASSUME NEW a \in Address, NEW j \in JobIds, HSubmit(a, j)
          PROVE  (\A e \in entries' \ entries : Earned(e)) /\ Kept
      <3>1. CASE ~Hooked(j)
        BY <2>1, <2>3, <3>1 DEF HSubmit
      <3>2. CASE Hooked(j)
        <4>1. BindOnSubmit(j)
          BY <2>3, <3>2 DEF HSubmit
        <4>2. entries' = entries
          BY <4>1 DEF BindOnSubmit, registryVars
        <4>3. Kept
          BY <1>1, <4>1 DEF BindOnSubmit, HInv, HTypeOK
        <4> QED
          BY <4>2, <4>3
      <3> QED
        BY <3>1, <3>2
    <2>4. ASSUME NEW a \in Address, NEW j \in JobIds, NEW params \in Params,
                 HComplete(a, j, params)
          PROVE  (\A e \in entries' \ entries : Earned(e)) /\ Kept
      <3>1. CASE ~Hooked(j)
        BY <2>1, <2>4, <3>1 DEF HComplete
      <3>2. CASE Hooked(j)
        <4>1. AfterSettle(j, TRUE, "other", params) /\ jobs[j].status = "Submitted"
          BY <2>4, <3>2 DEF HComplete, Complete
        <4>2. \A e \in entries' \ entries : Earned(e)
          BY <1>1, <4>1, PraiseStep DEF Terminal
        <4> QED
          BY <4>1, <4>2 DEF AfterSettle
      <3> QED
        BY <3>1, <3>2
    <2>5. ASSUME NEW a \in Address, NEW j \in JobIds, NEW params \in Params,
                 NEW reason \in Reasons, HReject(a, j, reason, params)
          PROVE  (\A e \in entries' \ entries : Earned(e)) /\ Kept
      <3>1. CASE ~Hooked(j)
        BY <2>1, <2>5, <3>1 DEF HReject
      <3>2. CASE Hooked(j)
        <4>1. AfterSettle(j, FALSE, reason, params) /\ jobs[j].status \notin Terminal
          BY <2>5, <3>2
             DEF HReject, Reject, RejectOpen, RejectHeld, Open, Holding, Terminal
        <4>2. \A e \in entries' \ entries : Earned(e)
          BY <1>1, <4>1, PraiseStep
        <4> QED
          BY <4>1, <4>2 DEF AfterSettle
      <3> QED
        BY <3>1, <3>2
    <2>6. ASSUME NEW a \in Address, NEW e \in entries, RevokeFeedback(a, e)
          PROVE  (\A f \in entries' \ entries : Earned(f)) /\ Kept
      <3>1. [e EXCEPT !.revoked = TRUE].revoked = TRUE
        BY DEF HInv, HTypeOK
      <3> QED
        BY <2>6, <3>1 DEF RevokeFeedback, hookVars
    <2>7. ASSUME NEW a \in Address, NEW id \in AgentIds, ClearPenalties(a, id)
          PROVE  (\A e \in entries' \ entries : Earned(e)) /\ Kept
      BY <2>7 DEF ClearPenalties, registryVars
    <2>8. ASSUME NEW id \in AgentIds, NEW s \in SUBSET Controllers, MoveIdentity(id, s)
          PROVE  (\A e \in entries' \ entries : Earned(e)) /\ Kept
      BY <2>8 DEF MoveIdentity, hookVars
    <2> QED
      BY <1>1, <2>2, <2>3, <2>4, <2>5, <2>6, <2>7, <2>8 DEF HNext, HSettle
  <1>2. IInv /\ HInv /\ [HNext]_allVars =>
            [(\A e \in entries' \ entries : Earned(e)) /\ Kept]_allVars
    BY <1>1
  <1> QED
    BY <1>2, HInvariance, PTL DEF HSpec, PraiseIsEarned
=============================================================================
