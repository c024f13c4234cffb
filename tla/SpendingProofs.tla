--------------------------- MODULE SpendingProofs ---------------------------
(***************************************************************************)
(* Theorems about what an agent may spend: ResourcePayments, SpendLedger   *)
(* and LegacyReservations, for any number of payments, transactions, jobs  *)
(* and days, and any payees, prices, values, limits and budget.            *)
(*                                                                         *)
(* After the sums, the payments.  UsableIsCounted is not inductive: a row  *)
(* that fails before signing stops counting, and nothing in it says that   *)
(* no authorization of it is out.  PInv adds that the row of every usable  *)
(* authorization says so (sent), and that a row in use names a payee and a *)
(* price and was reserved.                                                 *)
(***************************************************************************)
EXTENDS LegacyReservations, FiniteSetTheorems, TLAPS

(***************************************************************************)
(* What sums over rows are worth, for every number of rows: a sum is a     *)
(* number, changes with one row by the change of that row, and grows with  *)
(* its rows.  Induction is replaced by the least counterexample.           *)
(***************************************************************************)
(* A non-empty set of natural numbers has a least one. *)
LEMMA LeastNumber ==
    ASSUME NEW T, T \subseteq Nat, T # {}
    PROVE  \E m \in T : \A k \in T : m <= k
  <1> DEFINE R == OpToRel(<, Nat)
  <1>1. IsWellFoundedOn(R, Nat)
    BY NatLessThanWellFounded, Zenon
  <1>2. \A x, y \in Nat : y < x => <<y, x>> \in R
    BY DEF OpToRel
  <1> HIDE DEF R
  <1>3. PICK m \in T : \A k \in T : ~ (<<k, m>> \in R)
    BY <1>1, WFMin
  <1>4. \A k \in T : ~ (k < m)
    BY <1>2, <1>3
  <1> QED
    BY <1>4

(* The least number of a set, with what makes it useful: the one before it *)
(* is not in the set.                                                      *)
LEMMA FirstNumber ==
    ASSUME NEW M \in Nat, NEW T, T \subseteq 0..M, T # {}
    PROVE  \E m \in T : m # 0 => m - 1 \in 0..M /\ m - 1 \notin T /\ m \in 1..M
  <1>1. PICK m \in T : \A k \in T : m <= k
    <2>1. T \subseteq Nat
      OBVIOUS
    <2> QED
      BY <2>1, LeastNumber
  <1>2. m \in 0..M
    OBVIOUS
  <1>3. ASSUME m # 0 PROVE m - 1 \in 0..M /\ m \in 1..M
    BY <1>2, <1>3
  <1>4. m - 1 \notin T
    BY <1>1, <1>2
  <1> QED
    BY <1>3, <1>4

(* Partial sums: the recursion SumTo is defined by. *)
IsPartial(s, f, n) ==
    s = [k \in 0..n |-> IF k = 0 THEN 0 ELSE s[k - 1] + f[k]]

(* There are partial sums: the least n without any would extend those of   *)
(* n - 1 by one row.                                                       *)
LEMMA PartialExists ==
    ASSUME NEW n \in Nat, NEW f \in [1..n -> Nat]
    PROVE  \E s \in [0..n -> Nat] : IsPartial(s, f, n)
  <1> DEFINE Missing == {m \in 0..n : ~ \E s \in [0..m -> Nat] : IsPartial(s, f, m)}
  <1>1. SUFFICES ASSUME Missing # {} PROVE FALSE
    <2>1. n \in 0..n
      OBVIOUS
    <2> QED
      BY <2>1
  <1>2. PICK m \in Missing : m # 0 => m - 1 \in 0..n /\ m - 1 \notin Missing /\ m \in 1..n
    <2>1. Missing \subseteq 0..n
      OBVIOUS
    <2> HIDE DEF Missing
    <2> QED
      BY <1>1, <2>1, FirstNumber
  <1>3. CASE m = 0
    <2> DEFINE s == [k \in 0..0 |-> 0]
    <2>1. s \in [0..0 -> Nat] /\ IsPartial(s, f, 0)
      BY DEF IsPartial
    <2> QED
      BY <1>2, <1>3, <2>1
  <1>4. CASE m # 0
    <2>1. m \in 1..n /\ m - 1 \in 0..n /\ m - 1 \notin Missing
      BY <1>2, <1>4
    <2>2. PICK s \in [0..(m - 1) -> Nat] : IsPartial(s, f, m - 1)
      BY <2>1
    <2> DEFINE t == [k \in 0..m |-> IF k = m THEN s[m - 1] + f[m] ELSE s[k]]
    <2>3. t \in [0..m -> Nat]
      BY <2>1
    <2>4. ASSUME NEW k \in 0..m
          PROVE  t[k] = IF k = 0 THEN 0 ELSE t[k - 1] + f[k]
      <3>1. CASE k = m
        BY <2>1, <1>4, <3>1
      <3>2. CASE k # m
        <4>1. k \in 0..(m - 1) /\ t[k] = s[k]
          BY <2>1, <3>2
        <4>2. s[k] = IF k = 0 THEN 0 ELSE s[k - 1] + f[k]
          BY <2>2, <4>1 DEF IsPartial
        <4>3. k # 0 => t[k - 1] = s[k - 1]
          BY <2>1, <4>1
        <4> QED
          BY <4>1, <4>2, <4>3
      <3> QED
        BY <3>1, <3>2
    <2>5. IsPartial(t, f, m)
      BY <2>3, <2>4 DEF IsPartial
    <2> QED
      BY <1>2, <2>3, <2>5
  <1> QED
    BY <1>3, <1>4

(* Two functions of partial sums of the same rows are equal. *)
LEMMA PartialUnique ==
    ASSUME NEW n \in Nat, NEW f, NEW s, NEW t, IsPartial(s, f, n), IsPartial(t, f, n)
    PROVE  s = t
  <1> DEFINE T == {k \in 0..n : s[k] # t[k]}
  <1>1. SUFFICES ASSUME T # {} PROVE FALSE
    <2>1. s = [k \in 0..n |-> s[k]] /\ t = [k \in 0..n |-> t[k]]
      BY DEF IsPartial
    <2>2. SUFFICES \A k \in 0..n : s[k] = t[k]
      BY <2>1, Zenon
    <2> QED
      OBVIOUS
  <1>2. PICK m \in T : m # 0 => m - 1 \in 0..n /\ m - 1 \notin T /\ m \in 1..n
    BY <1>1, FirstNumber
  <1>3. s[m] # t[m] /\ m \in 0..n
    OBVIOUS
  <1>4. m # 0
    BY <1>3 DEF IsPartial
  <1>5. s[m - 1] = t[m - 1]
    BY <1>2, <1>4
  <1>6. s[m] = s[m - 1] + f[m] /\ t[m] = t[m - 1] + f[m]
    BY <1>3, <1>4 DEF IsPartial
  <1> QED
    BY <1>3, <1>5, <1>6

(* The sum can be read off any partial sums. *)
LEMMA SumIsPartial ==
    ASSUME NEW n \in Nat, NEW f, NEW s, IsPartial(s, f, n)
    PROVE  SumTo(f, n) = s[n]
  <1> DEFINE upTo == CHOOSE u : IsPartial(u, f, n)
  <1>1. IsPartial(upTo, f, n)
    OBVIOUS
  <1>2. upTo = s
    BY <1>1, PartialUnique
  <1>3. SumTo(f, n) = upTo[n]
    BY DEF SumTo, IsPartial
  <1> QED
    BY <1>2, <1>3

(* A sum of amounts is an amount. *)
LEMMA SumType ==
    ASSUME NEW n \in Nat, NEW f \in [1..n -> Nat]
    PROVE  SumTo(f, n) \in Nat
  <1>1. PICK s \in [0..n -> Nat] : IsPartial(s, f, n)
    BY PartialExists
  <1> QED
    BY <1>1, SumIsPartial

(* Changing one row changes the sum by as much. *)
LEMMA SumChange ==
    ASSUME NEW n \in Nat, NEW f \in [1..n -> Nat], NEW g \in [1..n -> Nat],
           NEW j \in 1..n, \A i \in 1..n : i # j => g[i] = f[i]
    PROVE  SumTo(g, n) = SumTo(f, n) - f[j] + g[j]
  <1>1. PICK s \in [0..n -> Nat] : IsPartial(s, f, n)
    BY PartialExists
  <1>2. PICK t \in [0..n -> Nat] : IsPartial(t, g, n)
    BY PartialExists
  <1> DEFINE Due(k) == IF k < j THEN s[k] ELSE s[k] - f[j] + g[j]
             T == {k \in 0..n : t[k] # Due(k)}
  <1>3. ASSUME T # {} PROVE FALSE
    <2>1. PICK m \in T : m # 0 => m - 1 \in 0..n /\ m - 1 \notin T /\ m \in 1..n
      BY <1>3, FirstNumber
    <2>2. m \in 0..n /\ t[m] # Due(m)
      OBVIOUS
    <2>3. s[0] = 0 /\ t[0] = 0
      BY <1>1, <1>2 DEF IsPartial
    <2>4. m # 0 /\ m \in 1..n
      BY <2>1, <2>2, <2>3
    <2>5. t[m - 1] = Due(m - 1) /\ m - 1 \in 0..n
      BY <2>1, <2>4
    <2>6. t[m] = t[m - 1] + g[m] /\ s[m] = s[m - 1] + f[m]
      BY <1>1, <1>2, <2>2, <2>4 DEF IsPartial
    <2>7. /\ s[m] \in Nat /\ t[m] \in Nat /\ s[m - 1] \in Nat /\ t[m - 1] \in Nat
          /\ f[j] \in Nat /\ g[j] \in Nat /\ f[m] \in Nat /\ g[m] \in Nat
          /\ m \in Nat /\ j \in Nat
      BY <2>4, <2>5
    <2>8. m # j => g[m] = f[m]
      BY <2>4
    <2>9. CASE m < j
      BY <2>2, <2>5, <2>6, <2>7, <2>8, <2>9
    <2>10. CASE m = j
      BY <2>2, <2>5, <2>6, <2>7, <2>10
    <2>11. CASE m > j
      BY SMTT(30), <2>2, <2>5, <2>6, <2>7, <2>8, <2>11
    <2> QED
      BY <2>7, <2>9, <2>10, <2>11
  <1>4. t[n] = s[n] - f[j] + g[j]
    <2>1. n \in 0..n /\ ~ (n < j)
      OBVIOUS
    <2> QED
      BY <1>3, <2>1
  <1> QED
    BY <1>1, <1>2, <1>4, SumIsPartial

(* A sum is no larger than another whose rows are all at least as large. *)
LEMMA SumMonotone ==
    ASSUME NEW n \in Nat, NEW f \in [1..n -> Nat], NEW g \in [1..n -> Nat],
           \A i \in 1..n : f[i] <= g[i]
    PROVE  SumTo(f, n) <= SumTo(g, n)
  <1>1. PICK s \in [0..n -> Nat] : IsPartial(s, f, n)
    BY PartialExists
  <1>2. PICK t \in [0..n -> Nat] : IsPartial(t, g, n)
    BY PartialExists
  <1> DEFINE T == {k \in 0..n : ~ (s[k] <= t[k])}
  <1>3. ASSUME T # {} PROVE FALSE
    <2>1. PICK m \in T : m # 0 => m - 1 \in 0..n /\ m - 1 \notin T /\ m \in 1..n
      BY <1>3, FirstNumber
    <2>2. m \in 0..n /\ ~ (s[m] <= t[m])
      OBVIOUS
    <2>3. s[0] = 0 /\ t[0] = 0
      BY <1>1, <1>2 DEF IsPartial
    <2>4. m # 0 /\ m \in 1..n
      BY <2>1, <2>2, <2>3
    <2>5. s[m - 1] <= t[m - 1] /\ m - 1 \in 0..n
      BY <2>1, <2>4
    <2>6. t[m] = t[m - 1] + g[m] /\ s[m] = s[m - 1] + f[m]
      BY <1>1, <1>2, <2>2, <2>4 DEF IsPartial
    <2>7. f[m] <= g[m]
      BY <2>4
    <2>8. /\ s[m - 1] \in Nat /\ t[m - 1] \in Nat
          /\ f[m] \in Nat /\ g[m] \in Nat
      BY <2>4, <2>5
    <2> HIDE DEF T
    <2> QED
      BY <2>2, <2>5, <2>6, <2>7, <2>8
  <1>4. s[n] <= t[n]
    <2>1. n \in 0..n
      OBVIOUS
    <2> QED
      BY <1>3, <2>1
  <1> QED
    BY <1>1, <1>2, <1>4, SumIsPartial

(* A row is not larger than the sum. *)
LEMMA RowWithinSum ==
    ASSUME NEW n \in Nat, NEW f \in [1..n -> Nat], NEW i \in 1..n
    PROVE  f[i] <= SumTo(f, n)
  <1> DEFINE g == [f EXCEPT ![i] = 0]
  <1>1. g \in [1..n -> Nat] /\ g[i] = 0 /\ \A k \in 1..n : k # i => g[k] = f[k]
    OBVIOUS
  <1> HIDE DEF g
  <1>2. SumTo(g, n) = SumTo(f, n) - f[i] + g[i]
    BY <1>1, SumChange
  <1>3. SumTo(g, n) \in Nat /\ SumTo(f, n) \in Nat /\ f[i] \in Nat
    BY <1>1, SumType
  <1> QED
    BY <1>1, <1>2, <1>3

(* A sum of nothing. *)
LEMMA SumOfNothing ==
    ASSUME NEW n \in Nat, NEW f, \A k \in 1..n : f[k] = 0
    PROVE  SumTo(f, n) = 0
  <1> DEFINE s == [k \in 0..n |-> 0]
  <1>1. IsPartial(s, f, n)
    BY DEF IsPartial
  <1>2. s[n] = 0
    OBVIOUS
  <1> QED
    BY <1>1, <1>2, SumIsPartial

(* Summing two columns together is summing each. *)
LEMMA SumOfSums ==
    ASSUME NEW n \in Nat, NEW f \in [1..n -> Nat], NEW g \in [1..n -> Nat]
    PROVE  SumTo([k \in 1..n |-> f[k] + g[k]], n) = SumTo(f, n) + SumTo(g, n)
  <1>1. PICK s \in [0..n -> Nat] : IsPartial(s, f, n)
    BY PartialExists
  <1>2. PICK t \in [0..n -> Nat] : IsPartial(t, g, n)
    BY PartialExists
  <1> DEFINE h == [k \in 1..n |-> f[k] + g[k]]
             u == [k \in 0..n |-> s[k] + t[k]]
  <1>3. ASSUME NEW k \in 0..n
        PROVE  u[k] = IF k = 0 THEN 0 ELSE u[k - 1] + h[k]
    <2>1. CASE k = 0
      BY <1>1, <1>2, <2>1 DEF IsPartial
    <2>2. CASE k # 0
      <3>1. k \in 1..n /\ k - 1 \in 0..n
        BY <2>2
      <3>2. s[k] = s[k - 1] + f[k] /\ t[k] = t[k - 1] + g[k]
        BY <1>1, <1>2, <2>2 DEF IsPartial
      <3>3. s[k - 1] \in Nat /\ t[k - 1] \in Nat /\ f[k] \in Nat /\ g[k] \in Nat
        BY <3>1
      <3> QED
        BY <2>2, <3>1, <3>2, <3>3
    <2> QED
      BY <2>1, <2>2
  <1>4. IsPartial(u, h, n)
    BY <1>3 DEF IsPartial
  <1>5. u[n] = s[n] + t[n]
    OBVIOUS
  <1> HIDE DEF u, h
  <1>6. SumTo(h, n) = u[n] /\ SumTo(f, n) = s[n] /\ SumTo(g, n) = t[n]
    BY <1>1, <1>2, <1>4, SumIsPartial
  <1> QED
    BY <1>5, <1>6 DEF h

(***************************************************************************)
(* Resource payments.                                                      *)
(***************************************************************************)
(* What a server can still take was sent. *)
UsableIsSent == \A a \in usable : pay[a.pay].sent

(* A row in use names whom it pays and what, and a free one was never tried. *)
RowsInUse ==
    \A p \in Pays :
        /\ pay[p].status \in {"reserved", "pending"} =>
              pay[p].payTo \in Payees /\ pay[p].usd \in Prices /\ pay[p].tries >= 1
        /\ pay[p].status = "none" => pay[p].tries = 0

(* The inductive invariant of the payments. *)
PInv ==
    /\ RpTypeOK
    /\ UsableIsCounted
    /\ UsableIsSent
    /\ RowsInUse
    /\ JobBudgetHolds

(* The rows of the payments. *)
Ledger == [Pays -> PayRow]

(***************************************************************************)
(* Sums of charges.                                                        *)
(***************************************************************************)
LEMMA ChargeType ==
    ASSUME NEW r \in PayRow
    PROVE  Charge(r) \in Nat
  <1>1. r.usd \in Prices \cup {0}
    BY DEF PayRow
  <1>2. Prices \cup {0} \subseteq Nat
    BY PaymentAssumption
  <1>3. r.usd \in Nat
    BY <1>1, <1>2
  <1> QED
    BY <1>3 DEF Charge, Counts

(* What counts of a job is a number. *)
LEMMA JobChargesType ==
    ASSUME NEW rows \in Ledger, NEW j \in Work
    PROVE  JobCharges(rows, j) \in [1..MaxPays -> Nat]
  <1>1. \A p \in Pays : Charge(rows[p]) \in Nat
    BY ChargeType DEF Ledger
  <1> QED
    BY <1>1 DEF JobCharges, Pays

(* Rows that charge no more keep a job within its budget. *)
LEMMA ChargesShrink ==
    ASSUME NEW rows \in Ledger, NEW news \in Ledger,
           \A p \in Pays : Charge(news[p]) <= Charge(rows[p]),
           NEW j \in Work, Spent(rows, j) <= Budget
    PROVE  Spent(news, j) <= Budget
  <1>1. /\ JobCharges(rows, j) \in [1..MaxPays -> Nat]
        /\ JobCharges(news, j) \in [1..MaxPays -> Nat]
    BY JobChargesType
  <1>2. \A p \in 1..MaxPays : JobCharges(news, j)[p] <= JobCharges(rows, j)[p]
    BY DEF JobCharges, Pays
  <1>3. MaxPays \in Nat /\ Budget \in Nat
    BY PaymentAssumption
  <1>4. SumTo(JobCharges(news, j), MaxPays) <= SumTo(JobCharges(rows, j), MaxPays)
    BY <1>1, <1>2, <1>3, SumMonotone
  <1>5. /\ SumTo(JobCharges(news, j), MaxPays) \in Nat
        /\ SumTo(JobCharges(rows, j), MaxPays) \in Nat
    BY <1>1, <1>3, SumType
  <1> QED
    BY <1>3, <1>4, <1>5 DEF Spent

(* A row that did not count adds its price. *)
LEMMA ChargeAdded ==
    ASSUME NEW rows \in Ledger, NEW news \in Ledger, NEW p \in Pays,
           \A q \in Pays : q # p => news[q] = rows[q],
           Charge(rows[p]) = 0, NEW j \in Work
    PROVE  Spent(news, j) = Spent(rows, j) + (IF JobOf[p] = j THEN Charge(news[p]) ELSE 0)
  <1>1. /\ JobCharges(rows, j) \in [1..MaxPays -> Nat]
        /\ JobCharges(news, j) \in [1..MaxPays -> Nat]
    BY JobChargesType
  <1>2. \A q \in 1..MaxPays : q # p => JobCharges(news, j)[q] = JobCharges(rows, j)[q]
    BY DEF JobCharges, Pays
  <1>3. /\ JobCharges(rows, j)[p] = 0
        /\ JobCharges(news, j)[p] = IF JobOf[p] = j THEN Charge(news[p]) ELSE 0
    BY DEF JobCharges
  <1>4. MaxPays \in Nat /\ p \in 1..MaxPays
    BY PaymentAssumption DEF Pays
  <1>5. SumTo(JobCharges(news, j), MaxPays)
          = SumTo(JobCharges(rows, j), MaxPays) - JobCharges(rows, j)[p] + JobCharges(news, j)[p]
    BY <1>1, <1>2, <1>4, SumChange
  <1>6. SumTo(JobCharges(rows, j), MaxPays) \in Nat /\ JobCharges(news, j)[p] \in Nat
    BY <1>1, <1>4, SumType
  <1> QED
    BY <1>3, <1>5, <1>6 DEF Spent

(***************************************************************************)
(* The invariant.                                                          *)
(***************************************************************************)
LEMMA PInit == RpInit => PInv
  <1> SUFFICES ASSUME RpInit PROVE PInv
    OBVIOUS
  <1> USE PaymentAssumption DEF RpInit
  <1>1. RpTypeOK
    BY DEF RpTypeOK, Days, PayRow, PayStatus
  <1>2. UsableIsCounted /\ UsableIsSent
    BY DEF UsableIsCounted, UsableIsSent
  <1>3. RowsInUse
    BY DEF RowsInUse
  <1>4. ASSUME NEW j \in Work PROVE Spent(pay, j) <= Budget
    <2> DEFINE zero == [p \in 1..MaxPays |-> 0]
               s == [k \in 0..MaxPays |-> 0]
    <2>1. JobCharges(pay, j) = zero
      BY DEF JobCharges, Charge, Counts, Pays
    <2>2. IsPartial(s, zero, MaxPays)
      BY DEF IsPartial
    <2>3. SumTo(zero, MaxPays) = 0
      BY <2>2, SumIsPartial
    <2> QED
      BY <2>1, <2>3 DEF Spent
  <1> QED
    BY <1>1, <1>2, <1>3, <1>4 DEF PInv, JobBudgetHolds

(* Steps after which no row charges more leave every job within budget. *)
LEMMA BudgetKept ==
    ASSUME PInv, RpTypeOK', \A p \in Pays : Charge(pay'[p]) <= Charge(pay[p])
    PROVE  JobBudgetHolds'
  <1>1. pay \in Ledger /\ pay' \in Ledger
    BY DEF PInv, RpTypeOK, Ledger
  <1>2. ASSUME NEW j \in Work PROVE Spent(pay', j) <= Budget
    <2>1. Spent(pay, j) <= Budget
      BY DEF PInv, JobBudgetHolds
    <2> QED
      BY <1>1, <2>1, ChargesShrink
  <1> QED
    BY <1>2 DEF JobBudgetHolds

(* A reservation within the budget. *)
LEMMA ReserveKeeps ==
    ASSUME PInv, NEW p \in Pays, NEW payee \in Payees, NEW usd \in Prices,
           NEW d \in Days, Reserve(p, payee, usd, d)
    PROVE  PInv'
  <1> USE PaymentAssumption
  <1>1. /\ pay \in Ledger /\ pay[p] \in PayRow
        /\ pay' = [pay EXCEPT ![p] = Taken(pay[p], payee, usd, d)]
        /\ usable' = usable /\ moved' = moved /\ today' = today /\ accepted' = accepted
        /\ Retryable(pay[p])
        /\ usd <= Budget - Spent(pay, JobOf[p])
        /\ pay[p].tries < MaxTries
    BY DEF PInv, RpTypeOK, Ledger, Reserve, Fits
  <1>2. Taken(pay[p], payee, usd, d) \in PayRow
    BY <1>1 DEF Taken, PayRow, PayStatus
  <1>3. pay' \in Ledger
    BY <1>1, <1>2 DEF Ledger
  <1>4. /\ pay'[p] = Taken(pay[p], payee, usd, d)
        /\ \A q \in Pays : q # p => pay'[q] = pay[q]
    BY <1>1 DEF Ledger
  <1>5. RpTypeOK'
    BY <1>1, <1>3, <1>4 DEF PInv, RpTypeOK, Ledger, Taken
  <1>6. \A a \in usable : a.pay \in Pays /\ a.pay # p
    BY <1>1 DEF PInv, RpTypeOK, UsableIsCounted, Counts, Retryable, Authorization
  <1>7. UsableIsCounted' /\ UsableIsSent'
    BY <1>1, <1>4, <1>6 DEF PInv, UsableIsCounted, UsableIsSent, AuthorizationOf
  <1>8. RowsInUse'
    BY <1>1, <1>4 DEF PInv, RowsInUse, Taken, PayRow
  <1>9. ASSUME NEW j \in Work PROVE Spent(pay', j) <= Budget
    <2>1. Charge(pay[p]) = 0
      BY <1>1 DEF Charge, Counts, Retryable
    <2>2. Charge(pay'[p]) = usd
      BY <1>4 DEF Charge, Counts, Taken
    <2>3. Spent(pay', j) = Spent(pay, j) + (IF JobOf[p] = j THEN usd ELSE 0)
      <3>1. Spent(pay', j) = Spent(pay, j) + (IF JobOf[p] = j THEN Charge(pay'[p]) ELSE 0)
        <4>1. pay \in Ledger
          BY <1>1
        <4>2. \A q \in Pays : q # p => pay'[q] = pay[q]
          BY <1>4
        <4> QED
          BY <4>1, <4>2, <1>3, <2>1, ChargeAdded
      <3> QED
        BY <2>2, <3>1
    <2>4. Spent(pay, j) <= Budget
      BY DEF PInv, JobBudgetHolds
    <2>5. Spent(pay, j) \in Nat /\ usd \in Nat
      BY <1>1, JobChargesType, SumType DEF Spent
    <2> QED
      BY <1>1, <2>3, <2>4, <2>5
  <1> QED
    BY <1>5, <1>7, <1>8, <1>9 DEF PInv, JobBudgetHolds

(* A row whose status is changed, with nothing else. *)
LEMMA RecordKeeps ==
    ASSUME PInv, NEW p \in Pays, NEW status \in PayStatus, Record(p, status),
           status \notin {"none", "reserved"},
           Counts(pay[p]) \/ status \in {"failed", "lapsed"},
           status = "pending" => pay[p].status = "reserved",
           pay[p].sent => status \in {"settled", "unknown", "refused", "lapsed"},
           status \in {"failed", "lapsed"} => \A a \in usable : a.pay # p
    PROVE  PInv'
  <1> USE PaymentAssumption
  <1>1. /\ pay \in Ledger /\ pay[p] \in PayRow
        /\ pay' = [pay EXCEPT ![p].status = status]
        /\ usable' = usable /\ moved' = moved /\ today' = today /\ accepted' = accepted
    BY DEF PInv, RpTypeOK, Ledger, Record
  <1>2. pay' \in Ledger
    BY <1>1 DEF Ledger, PayRow
  <1>3. /\ pay'[p].status = status /\ pay'[p].usd = pay[p].usd
        /\ pay'[p].payTo = pay[p].payTo /\ pay'[p].tries = pay[p].tries
        /\ pay'[p].sent = pay[p].sent
        /\ \A q \in Pays : q # p => pay'[q] = pay[q]
    BY <1>1 DEF Ledger, PayRow
  <1>4. RpTypeOK'
    BY <1>1, <1>2, <1>3 DEF PInv, RpTypeOK, Ledger
  <1>5. \A a \in usable : a.pay \in Pays
    BY DEF PInv, RpTypeOK, Authorization
  <1>6. \A q \in Pays : AuthorizationOf(q)' = AuthorizationOf(q) /\ pay'[q].sent = pay[q].sent
    BY <1>3 DEF AuthorizationOf
  <1>7. ASSUME NEW a \in usable PROVE Counts(pay'[a.pay])
    <2>1. CASE a.pay = p
      BY <1>3, <2>1 DEF Counts, PayStatus
    <2>2. CASE a.pay # p
      BY <1>3, <1>5, <2>2 DEF PInv, UsableIsCounted
    <2> QED
      BY <2>1, <2>2
  <1>8. UsableIsCounted' /\ UsableIsSent'
    BY <1>1, <1>5, <1>6, <1>7 DEF PInv, UsableIsCounted, UsableIsSent
  <1>9. RowsInUse'
    BY <1>3 DEF PInv, RowsInUse
  <1>10. \A q \in Pays : Charge(pay'[q]) <= Charge(pay[q])
    <2>1. \A q \in Pays : Charge(pay[q]) \in Nat
      BY <1>1, ChargeType DEF Ledger
    <2>2. Charge(pay'[p]) <= Charge(pay[p])
      <3>1. pay[p].usd \in Nat
        BY <1>1 DEF PayRow
      <3> QED
        BY <1>3, <3>1 DEF Charge, Counts
    <2>3. \A q \in Pays : q # p => Charge(pay'[q]) = Charge(pay[q])
      BY <1>3
    <2> QED
      BY <2>1, <2>2, <2>3
  <1> QED
    BY <1>4, <1>8, <1>9, <1>10, BudgetKept DEF PInv

(* A refusal is recorded. *)
LEMMA RecordRefusalKeeps ==
    ASSUME PInv, NEW p \in Pays, NEW payee \in Payees, NEW usd \in Prices,
           RecordRefusal(p, payee, usd)
    PROVE  PInv'
  <1> USE PaymentAssumption
  <1>1. /\ pay \in Ledger /\ pay[p] \in PayRow
        /\ pay' = [pay EXCEPT ![p].status = "failed", ![p].usd = usd,
                              ![p].payTo = payee, ![p].sent = FALSE]
        /\ usable' = usable /\ moved' = moved /\ today' = today /\ accepted' = accepted
        /\ Retryable(pay[p])
    BY DEF PInv, RpTypeOK, Ledger, RecordRefusal
  <1>2. pay' \in Ledger
    BY <1>1 DEF Ledger, PayRow, PayStatus
  <1>3. /\ pay'[p].status = "failed" /\ pay'[p].sent = FALSE
        /\ \A q \in Pays : q # p => pay'[q] = pay[q]
    BY <1>1 DEF Ledger, PayRow
  <1>4. RpTypeOK'
    BY <1>1, <1>2, <1>3 DEF PInv, RpTypeOK, Ledger
  <1>5. \A a \in usable : a.pay \in Pays /\ a.pay # p
    BY <1>1 DEF PInv, RpTypeOK, UsableIsCounted, Counts, Retryable, Authorization
  <1>6. UsableIsCounted' /\ UsableIsSent'
    BY <1>1, <1>3, <1>5 DEF PInv, UsableIsCounted, UsableIsSent, AuthorizationOf
  <1>7. RowsInUse'
    BY <1>3 DEF PInv, RowsInUse
  <1>8. \A q \in Pays : Charge(pay'[q]) <= Charge(pay[q])
    <2>1. \A q \in Pays : Charge(pay[q]) \in Nat
      BY <1>1, ChargeType DEF Ledger
    <2>2. Charge(pay'[p]) = 0
      BY <1>3 DEF Charge, Counts
    <2> QED
      BY <1>3, <2>1, <2>2
  <1> QED
    BY <1>4, <1>6, <1>7, <1>8, BudgetKept DEF PInv

(* A signed authorization leaves for the resource server. *)
LEMMA SendKeeps ==
    ASSUME PInv, NEW p \in Pays, Send(p)
    PROVE  PInv'
  <1> USE PaymentAssumption
  <1>1. /\ pay \in Ledger /\ pay[p] \in PayRow
        /\ pay' = [pay EXCEPT ![p].sent = TRUE]
        /\ usable' = usable \cup {AuthorizationOf(p)}
        /\ moved' = moved /\ today' = today /\ accepted' = accepted
        /\ pay[p].status = "pending"
    BY DEF PInv, RpTypeOK, Ledger, Send
  <1>2. pay' \in Ledger
    BY <1>1 DEF Ledger, PayRow
  <1>3. /\ pay'[p].status = pay[p].status /\ pay'[p].usd = pay[p].usd
        /\ pay'[p].payTo = pay[p].payTo /\ pay'[p].tries = pay[p].tries
        /\ pay'[p].sent = TRUE
        /\ \A q \in Pays : q # p => pay'[q] = pay[q]
    BY <1>1 DEF Ledger, PayRow
  <1>4. AuthorizationOf(p) \in Authorization
    BY <1>1 DEF PInv, RowsInUse, AuthorizationOf, Authorization, PayRow
  <1>5. RpTypeOK'
    BY <1>1, <1>2, <1>3, <1>4 DEF PInv, RpTypeOK, Ledger
  <1>6. \A a \in usable' : a.pay \in Pays
    BY <1>5 DEF RpTypeOK, Authorization
  <1>7. \A q \in Pays : AuthorizationOf(q)' = AuthorizationOf(q) /\ Counts(pay'[q]) = Counts(pay[q])
    BY <1>3 DEF AuthorizationOf, Counts
  <1>8. AuthorizationOf(p).pay = p /\ Counts(pay[p])
    BY <1>1 DEF AuthorizationOf, Counts
  <1>9. UsableIsCounted'
    BY <1>1, <1>6, <1>7, <1>8 DEF PInv, UsableIsCounted
  <1>10. UsableIsSent'
    BY <1>1, <1>3, <1>6, <1>8 DEF PInv, UsableIsSent
  <1>11. RowsInUse'
    BY <1>3 DEF PInv, RowsInUse
  <1>12. \A q \in Pays : Charge(pay'[q]) <= Charge(pay[q])
    <2>1. \A q \in Pays : Charge(pay[q]) \in Nat
      BY <1>1, ChargeType DEF Ledger
    <2>2. \A q \in Pays : Charge(pay'[q]) = Charge(pay[q])
      BY <1>3, <1>7 DEF Charge
    <2> QED
      BY <2>1, <2>2
  <1> QED
    BY <1>5, <1>9, <1>10, <1>11, <1>12, BudgetKept DEF PInv

(* The chain, the clock and the job do not touch a row. *)
LEMMA RowsUntouched ==
    ASSUME PInv, pay' = pay, usable' \subseteq usable, moved' \subseteq moved \cup usable,
           today' \in Days, accepted' \subseteq Work
    PROVE  PInv'
  <1>1. RpTypeOK'
    BY DEF PInv, RpTypeOK
  <1>2. UsableIsCounted' /\ UsableIsSent' /\ RowsInUse' /\ JobBudgetHolds'
    BY DEF PInv, UsableIsCounted, UsableIsSent, RowsInUse, JobBudgetHolds, AuthorizationOf
  <1> QED
    BY <1>1, <1>2 DEF PInv

(* Every step keeps the invariant. *)
LEMMA PStep == PInv /\ [RpNext]_rpVars => PInv'
  <1> SUFFICES ASSUME PInv, [RpNext]_rpVars PROVE PInv'
    OBVIOUS
  <1>1. today \in Days /\ accepted \subseteq Work /\ usable \subseteq Authorization
    BY DEF PInv, RpTypeOK
  <1>2. ASSUME NEW p \in Pays, NEW payee \in Payees, NEW usd \in Prices, NEW d \in CapturedDays,
               Reserve(p, payee, usd, d)
        PROVE  PInv'
    BY <1>2, ReserveKeeps DEF CapturedDays
  <1>3. ASSUME NEW p \in Pays, NEW payee \in Payees, NEW usd \in Prices,
               RecordRefusal(p, payee, usd)
        PROVE  PInv'
    BY <1>3, RecordRefusalKeeps
  <1>4. ASSUME NEW p \in Pays, AttemptStep(p) PROVE PInv'
    <2> USE DEF PayStatus
    <2>1. pay[p].sent => pay[p].status \in {"pending", "settled", "unknown", "refused", "lapsed"}
      BY DEF PInv, RpTypeOK
    <2>2. ~pay[p].sent => \A a \in usable : a.pay # p
      BY DEF PInv, UsableIsSent
    <2>3. CASE MarkPending(p)
      BY <2>1, <2>3, RecordKeeps DEF MarkPending, Counts
    <2>4. CASE FailBeforeSigning(p)
      BY <2>2, <2>4, RecordKeeps DEF FailBeforeSigning, Failable, Counts
    <2>5. CASE Send(p)
      BY <2>5, SendKeeps
    <2>6. CASE Unknown(p)
      BY <2>6, RecordKeeps DEF Unknown, Counts
    <2>7. CASE ReportSettled(p)
      BY <2>7, RecordKeeps DEF ReportSettled, Answered, Counts
    <2>8. CASE Refuse(p)
      BY <2>8, RecordKeeps DEF Refuse, Answered, Counts
    <2> QED
      BY <1>4, <2>3, <2>4, <2>5, <2>6, <2>7, <2>8 DEF AttemptStep
  <1>5. ASSUME OutsideStep PROVE PInv'
    <2>1. ASSUME NEW a \in usable, Settle(a) \/ Expire(a) PROVE PInv'
      BY <1>1, <2>1, RowsUntouched DEF Settle, Expire
    <2>2. ASSUME NEW p \in Pays, Lapse(p) PROVE PInv'
      BY <2>2, RecordKeeps DEF Lapse, Counts, PayStatus
    <2>3. ASSUME NEW j \in Work, CloseJob(j) PROVE PInv'
      BY <1>1, <2>3, RowsUntouched DEF CloseJob, payVars
    <2>4. ASSUME Midnight PROVE PInv'
      <3>1. today + 1 \in Days
        BY <1>1, <2>4, PaymentAssumption DEF Midnight, Days
      <3> QED
        BY <1>1, <2>4, <3>1, RowsUntouched DEF Midnight, payVars
    <2> QED
      BY <1>5, <2>1, <2>2, <2>3, <2>4 DEF OutsideStep
  <1>6. CASE UNCHANGED rpVars
    BY <1>1, <1>6, RowsUntouched DEF rpVars, payVars
  <1> QED
    BY <1>2, <1>3, <1>4, <1>5, <1>6 DEF RpNext

(* Money at stake is charged. *)
LEMMA MoneyIsCharged == PInv => MoneyWithinBudget
  <1> SUFFICES ASSUME PInv, NEW j \in Work
               PROVE  SumTo(AtStake(j), MaxPays) <= Budget
    BY DEF MoneyWithinBudget
  <1>1. pay \in Ledger /\ Spent(pay, j) <= Budget /\ MaxPays \in Nat /\ Budget \in Nat
    BY PaymentAssumption DEF PInv, RpTypeOK, Ledger, JobBudgetHolds
  <1>2. JobCharges(pay, j) \in [1..MaxPays -> Nat]
    BY <1>1, JobChargesType
  <1>3. \A p \in Pays : pay[p].usd \in Nat
    <2>1. Prices \cup {0} \subseteq Nat
      BY PaymentAssumption
    <2> QED
      BY <1>1, <2>1 DEF Ledger, PayRow
  <1>4. AtStake(j) \in [1..MaxPays -> Nat]
    BY <1>3 DEF AtStake, Pays
  <1>5. ASSUME NEW p \in Pays, NEW a \in usable \cup moved, a.pay = p, ~WrittenOff(a)
        PROVE  Counts(pay[p])
    <2>1. a \in Authorization /\ a = AuthorizationOf(p)
      BY <1>5 DEF PInv, RpTypeOK, WrittenOff
    <2>2. a.try \in 1..MaxTries /\ a.try = pay[p].tries
      BY <2>1 DEF Authorization, AuthorizationOf
    <2>3. pay[p].status # "none"
      BY <2>2, PaymentAssumption DEF PInv, RowsInUse
    <2>4. pay[p].status \in PayStatus
      BY <1>1 DEF Ledger, PayRow
    <2> QED
      BY <1>5, <2>3, <2>4 DEF WrittenOff, Counts, PayStatus
  <1>6. ASSUME NEW p \in 1..MaxPays PROVE AtStake(j)[p] <= JobCharges(pay, j)[p]
    <2>1. CASE JobOf[p] = j /\ \E a \in usable \cup moved : a.pay = p /\ ~WrittenOff(a)
      <3>1. Counts(pay[p])
        BY <1>5, <2>1 DEF Pays
      <3>2. AtStake(j)[p] = pay[p].usd /\ JobCharges(pay, j)[p] = pay[p].usd
        BY <2>1, <3>1 DEF AtStake, JobCharges, Charge, Pays
      <3> QED
        BY <1>3, <3>2 DEF Pays
    <2>2. CASE ~(JobOf[p] = j /\ \E a \in usable \cup moved : a.pay = p /\ ~WrittenOff(a))
      <3>1. AtStake(j)[p] = 0
        BY <2>2 DEF AtStake, Pays
      <3> QED
        BY <1>2, <3>1
    <2> QED
      BY <2>1, <2>2
  <1>7. SumTo(AtStake(j), MaxPays) <= SumTo(JobCharges(pay, j), MaxPays)
    BY <1>1, <1>2, <1>4, <1>6, SumMonotone
  <1>8. SumTo(AtStake(j), MaxPays) \in Nat /\ SumTo(JobCharges(pay, j), MaxPays) \in Nat
    BY <1>1, <1>2, <1>4, SumType
  <1> QED
    BY <1>1, <1>7, <1>8 DEF Spent

(***************************************************************************)
(* The theorems.                                                           *)
(***************************************************************************)
(* PInv is an invariant of the payments of a provider. *)
THEOREM PaymentInvariant == RpSpec => []PInv
  BY PInit, PStep, PTL DEF RpSpec

(* The ledger rows, the authorizations and the clock keep their types, and *)
(* a retried row keeps nothing of the authorization of an earlier attempt. *)
THEOREM RpTypeCorrect == RpSpec => []RpTypeOK
  BY PaymentInvariant, PTL DEF PInv

(* However many attempts and retries run at once, the rows of a job that   *)
(* count never exceed its budget.                                          *)
THEOREM JobBudgetAlwaysHolds == RpSpec => []JobBudgetHolds
  BY PaymentInvariant, PTL DEF PInv

(* Whatever a server can still use is the latest authorization of a row    *)
(* that counts: one per payment id, and none the budget forgot.            *)
THEOREM UsableIsAlwaysCounted == RpSpec => []UsableIsCounted
  BY PaymentInvariant, PTL DEF PInv

(* What moved, and what servers can still move, is within each job's       *)
(* budget, but for money taken after a refusal that lapsed since.          *)
THEOREM MoneyAlwaysWithinBudget == RpSpec => []MoneyWithinBudget
  BY PaymentInvariant, MoneyIsCharged, PTL

(***************************************************************************)
(* The daily limit.                                                        *)
(*                                                                         *)
(* BooksBalance is about sums of rows, and a step changes one row:         *)
(* SumChange turns each action into an equation between the share of that  *)
(* row before and after, and the volume.  It holds if the legacy path does *)
(* not see a midnight (OneDay): its reservation is added to the day of one *)
(* clock reading and given back to the day of another.  SentWithinLimit    *)
(* holds if it also does not meet x402 payments (NoX402), which it does    *)
(* not count.                                                              *)
(***************************************************************************)
OneDay == \A s \in Scenarios : s.legacy => s.days = 0
NoX402 == \A s \in Scenarios : s.legacy => s.pays = 0

(* A job that a legacy request has not created yet has no row, and what    *)
(* was judged without a limit adds nothing.                                *)
RequestsApart ==
    \A j \in Jobs :
        /\ legacy[j].step \notin {"none", "created"} => res[j].status = "NONE"
        /\ legacy[j].lim = 0 => legacy[j].usd = 0

(* The inductive invariant of the whole; it needs no assumption. *)
LInv ==
    /\ PInv
    /\ LegacyTypeOK
    /\ RequestsApart
    /\ scenario \in Scenarios
    /\ WithinScenario

(* The day that was added to is the day that is given back to. *)
SameDay == \A j \in Jobs : legacy[j].step = "created" => legacy[j].day = res[j].day

(* A reservation is only given back once nothing sent can still be mined. *)
Outcomes ==
    \A t \in Txs :
        /\ tx[t].sent => tx[t].status \in {"SUBMITTED", "CONFIRMED", "REVERTED", "FAILED"}
        /\ tx[t].vol = "RELEASED" =>
              tx[t].status = "REVERTED" \/ (tx[t].status = "FAILED" /\ ~tx[t].sent)

(* Under a steady policy every request was judged by it. *)
JudgedNow ==
    steady => active /\ \A j \in Jobs : legacy[j].step # "none" => legacy[j].lim = limit

(* What a legacy request added past the limit, or left behind. *)
Beyond(j, d) == legacy[j].step \in {"refused", "lost"} /\ legacy[j].day = d

(* The amounts of such requests, by job. *)
BeyondCharges(d) == [j \in Jobs |-> IF Beyond(j, d) THEN legacy[j].usd ELSE 0]

(* Under a steady policy a day is over its limit by such requests only. *)
WithinDays ==
    steady /\ limit > 0 =>
        \A d \in Days : Committed(d) <= limit + SumTo(BeyondCharges(d), MaxJobs)

(***************************************************************************)
(* Types.                                                                  *)
(***************************************************************************)
(* Adding to the volume of a day. *)
LEMMA AddedIs ==
    ASSUME NEW vol \in [Days -> Nat], NEW d \in Days, NEW usd \in Nat
    PROVE  /\ Added(vol, d, usd) \in [Days -> Nat]
           /\ \A e \in Days : Added(vol, d, usd)[e] = vol[e] + (IF e = d THEN usd ELSE 0)
  BY DEF Added

(* Subtracting from it, which stops at zero. *)
LEMMA SubtractedIs ==
    ASSUME NEW vol \in [Days -> Nat], NEW d \in Days, NEW usd \in Nat
    PROVE  /\ Subtracted(vol, d, usd) \in [Days -> Nat]
           /\ \A e \in Days : Subtracted(vol, d, usd)[e] <= vol[e]
           /\ vol[d] >= usd =>
                 \A e \in Days : Subtracted(vol, d, usd)[e] = vol[e] - (IF e = d THEN usd ELSE 0)
  BY DEF Subtracted

(* What the invariant says of the rows. *)
LEMMA Amounts ==
    ASSUME LInv
    PROVE  /\ volume \in [Days -> Nat]
           /\ tx \in [Txs -> TxRow] /\ res \in [Jobs -> JobRow] /\ legacy \in [Jobs -> Request]
           /\ limit \in Nat /\ limit \in Limits /\ CreationLimit \in Limits \cup {0}
           /\ \A t \in Txs : tx[t].usd \in Nat /\ tx[t].day \in Days
           /\ \A j \in Jobs : res[j].usd \in Nat /\ res[j].day \in Days
           /\ \A j \in Jobs : legacy[j].usd \in Nat /\ legacy[j].day \in Days /\ legacy[j].lim \in Nat
           /\ pay \in Ledger
           /\ \A d \in Days : d \in Nat
           /\ MaxTxs \in Nat /\ MaxJobs \in Nat /\ MaxPays \in Nat
  <1>1. Values \cup {0} \subseteq Nat /\ Limits \cup {0} \subseteq Nat /\ MaxTxs \in Nat /\ MaxJobs \in Nat
    BY SpendAssumption
  <1>2. MaxPays \in Nat /\ MaxDay \in Nat
    BY PaymentAssumption
  <1>3. /\ volume \in [Days -> Nat] /\ limit \in Limits /\ pay \in Ledger
        /\ tx \in [Txs -> TxRow] /\ res \in [Jobs -> JobRow] /\ legacy \in [Jobs -> Request]
    BY DEF LInv, LegacyTypeOK, SpendTypeOK, PInv, RpTypeOK, Ledger
  <1>4. CreationLimit \in Limits \cup {0} /\ limit \in Nat
    BY <1>1, <1>3 DEF CreationLimit
  <1>5. \A d \in Days : d \in Nat
    BY <1>2 DEF Days
  <1>6. \A t \in Txs : tx[t].usd \in Nat /\ tx[t].day \in Days
    BY <1>1, <1>3 DEF TxRow
  <1>7. \A j \in Jobs : res[j].usd \in Nat /\ res[j].day \in Days
    BY <1>1, <1>3 DEF JobRow
  <1>8. \A j \in Jobs : legacy[j].usd \in Nat /\ legacy[j].day \in Days /\ legacy[j].lim \in Nat
    BY <1>1, <1>3 DEF Request
  <1> QED
    BY <1>1, <1>2, <1>3, <1>4, <1>5, <1>6, <1>7, <1>8

(* The rows of transactions that say what they reserve. *)
Reserves(r) == r.vol # "NONE" <=> r.usd > 0 /\ r.status \notin {"none", "asked"}

(* One row of tx is written, and it says what it reserves. *)
LEMMA TxTypes ==
    ASSUME LInv, NEW t \in Txs, TxStep(t)
    PROVE  /\ \E r \in TxRow : tx' = [tx EXCEPT ![t] = r] /\ Reserves(r)
           /\ volume' \in [Days -> Nat]
           /\ UNCHANGED <<rpVars, policyVars, res>>
  <1>1. /\ volume \in [Days -> Nat] /\ tx \in [Txs -> TxRow] /\ tx[t] \in TxRow
        /\ tx[t].usd \in Nat /\ tx[t].day \in Days
    BY Amounts
  <1>2. Reserves(tx[t])
    BY DEF LInv, LegacyTypeOK, SpendTypeOK, Reserves
  <1>3. 0 \in Values \cup {0} /\ Values \cup {0} \subseteq Nat
    BY SpendAssumption
  <1>4. ASSUME NEW usd \in Values \cup {0}, NEW unpriced \in BOOLEAN, Ask(t, usd, unpriced)
        PROVE  /\ \E r \in TxRow : tx' = [tx EXCEPT ![t] = r] /\ Reserves(r)
               /\ volume' = volume /\ UNCHANGED <<rpVars, policyVars, res>>
    <2> DEFINE r == [tx[t] EXCEPT !.status = "asked", !.usd = usd, !.unpriced = unpriced]
    <2>1. tx' = [tx EXCEPT ![t] = r] /\ tx[t].status = "none"
      BY <1>4 DEF Ask
    <2>2. r \in TxRow /\ Reserves(r)
      BY <1>1, <1>2, <2>1 DEF TxRow, TxStatus, Reserves
    <2> QED
      BY <1>4, <2>1, <2>2 DEF Ask
  <1>5. CASE Withdraw(t)
    <2> DEFINE r == [tx[t] EXCEPT !.status = "none", !.usd = 0, !.unpriced = FALSE]
    <2>1. tx' = [tx EXCEPT ![t] = r] /\ tx[t].status = "asked"
      BY <1>5 DEF Withdraw
    <2>2. r \in TxRow /\ Reserves(r)
      BY <1>1, <1>2, <2>1 DEF TxRow, TxStatus, Reserves
    <2> QED
      BY <1>1, <1>5, <2>1, <2>2 DEF Withdraw
  <1>6. ASSUME NEW d \in CapturedDays, NEW gated \in BOOLEAN, Create(t, d, gated)
        PROVE  /\ \E r \in TxRow : tx' = [tx EXCEPT ![t] = r] /\ Reserves(r)
               /\ volume' \in [Days -> Nat] /\ UNCHANGED <<rpVars, policyVars, res>>
    <2>1. tx' = [tx EXCEPT ![t] = NewRow(tx[t], d, gated)] /\ tx[t].status = "asked" /\ d \in Days
      BY <1>6 DEF Create, CapturedDays
    <2>2. NewRow(tx[t], d, gated) \in TxRow /\ Reserves(NewRow(tx[t], d, gated))
      <3> DEFINE status == IF gated THEN "PENDING_APPROVAL" ELSE "QUEUED"
                 vol == IF tx[t].usd = 0 THEN "NONE" ELSE "RESERVED"
                 day == IF tx[t].usd = 0 THEN tx[t].day ELSE d
                 r == [tx[t] EXCEPT !.status = status, !.gated = gated, !.vol = vol, !.day = day]
      <3>1. /\ status \in TxStatus \ {"none", "asked"} /\ vol \in VolumeState /\ day \in Days
            /\ vol # "NONE" <=> tx[t].usd > 0
        BY <1>1, <2>1 DEF TxStatus, VolumeState
      <3>2. r = NewRow(tx[t], d, gated)
        BY DEF NewRow
      <3> HIDE DEF status, vol, day
      <3>3. r \in TxRow /\ Reserves(r)
        BY <1>1, <3>1 DEF TxRow, Reserves
      <3> QED
        BY <3>2, <3>3
    <2>3. volume' \in [Days -> Nat]
      BY <1>1, <1>6, <2>1, AddedIs DEF Create
    <2> QED
      BY <1>6, <2>1, <2>2, <2>3 DEF Create
  <1>7. ASSUME NEW d \in CapturedDays, Approve(t, d)
        PROVE  /\ \E r \in TxRow : tx' = [tx EXCEPT ![t] = r] /\ Reserves(r)
               /\ volume' \in [Days -> Nat] /\ UNCHANGED <<rpVars, policyVars, res>>
    <2>1. d \in Days /\ tx[t].status = "PENDING_APPROVAL" /\ UNCHANGED <<rpVars, policyVars, res>>
      BY <1>7 DEF Approve, Approvable, CapturedDays
    <2>2. CASE tx[t].vol = "RESERVED"
      <3> DEFINE r == [tx[t] EXCEPT !.status = "QUEUED", !.day = LaterDay(tx[t].day, d)]
      <3>1. tx' = [tx EXCEPT ![t] = r] /\ volume' = MovedVolume(tx[t], d)
        BY <1>7, <2>2 DEF Approve
      <3>2. r \in TxRow /\ Reserves(r)
        BY <1>1, <1>2, <2>1 DEF TxRow, TxStatus, Reserves, LaterDay
      <3>3. volume' \in [Days -> Nat]
        <4>1. Subtracted(volume, tx[t].day, tx[t].usd) \in [Days -> Nat]
          BY <1>1, SubtractedIs
        <4>2. Added(Subtracted(volume, tx[t].day, tx[t].usd), d, tx[t].usd) \in [Days -> Nat]
          BY <1>1, <2>1, <4>1, AddedIs
        <4> QED
          BY <1>1, <3>1, <4>2 DEF MovedVolume
      <3> QED
        BY <2>1, <3>1, <3>2, <3>3
    <2>3. CASE tx[t].vol # "RESERVED"
      <3> DEFINE r == [tx[t] EXCEPT !.status = "QUEUED"]
      <3>1. tx' = [tx EXCEPT ![t] = r] /\ volume' = volume
        BY <1>7, <2>3 DEF Approve
      <3>2. r \in TxRow /\ Reserves(r)
        BY <1>1, <1>2, <2>1 DEF TxRow, TxStatus, Reserves
      <3> QED
        BY <1>1, <2>1, <3>1, <3>2
    <2> QED
      BY <2>2, <2>3
  <1>8. ASSUME NEW status \in TxStatus \ {"none", "asked"}, SetStatus(t, status),
               tx[t].status \notin {"none", "asked"}
        PROVE  /\ \E r \in TxRow : tx' = [tx EXCEPT ![t] = r] /\ Reserves(r)
               /\ volume' = volume /\ UNCHANGED <<rpVars, policyVars, res>>
    <2> DEFINE r == [tx[t] EXCEPT !.status = status]
    <2>1. tx' = [tx EXCEPT ![t] = r]
      BY <1>8 DEF SetStatus
    <2>2. r \in TxRow /\ Reserves(r)
      BY <1>1, <1>2, <1>8 DEF TxRow, Reserves
    <2> QED
      BY <1>8, <2>1, <2>2 DEF SetStatus
  <1>9. CASE Reject(t) \/ Unapprove(t) \/ Stop(t) \/ Observe(t)
    <2>1. \E status \in TxStatus \ {"none", "asked"} :
             SetStatus(t, status) /\ tx[t].status \notin {"none", "asked"}
      BY <1>9 DEF Reject, Unapprove, Stop, Observe, TxStatus
    <2> QED
      BY <1>1, <1>8, <2>1
  <1>10. CASE Submit(t)
    <2> DEFINE r == [tx[t] EXCEPT !.status = "SUBMITTED", !.sent = TRUE]
    <2>1. tx' = [tx EXCEPT ![t] = r] /\ tx[t].status = "QUEUED"
      BY <1>10 DEF Submit
    <2>2. r \in TxRow /\ Reserves(r)
      BY <1>1, <1>2, <2>1 DEF TxRow, TxStatus, Reserves
    <2> QED
      BY <1>1, <1>10, <2>1, <2>2 DEF Submit
  <1>11. CASE SettleVolume(t)
    <2>1. PICK vol \in Settlements(tx[t]) :
             /\ tx' = [tx EXCEPT ![t].vol = vol]
             /\ volume' = IF vol = "RELEASED" THEN Subtracted(volume, tx[t].day, tx[t].usd) ELSE volume
      BY <1>11 DEF SettleVolume
    <2> DEFINE r == [tx[t] EXCEPT !.vol = vol]
    <2>2. vol \in {"COMMITTED", "RELEASED", "HELD"} /\ tx[t].vol = "RESERVED"
      BY <1>11, <2>1 DEF Settlements, SettleVolume
    <2>3. r \in TxRow /\ Reserves(r)
      BY <1>1, <1>2, <2>2 DEF TxRow, VolumeState, Reserves
    <2>4. volume' \in [Days -> Nat]
      BY <1>1, <2>1, SubtractedIs
    <2> QED
      BY <1>11, <2>1, <2>3, <2>4 DEF SettleVolume
  <1> QED
    BY <1>1, <1>4, <1>5, <1>6, <1>7, <1>9, <1>10, <1>11 DEF TxStep

(* What one step on a job's reservation writes. *)
LEMMA JobTypes ==
    ASSUME LInv, NEW j \in Jobs, JobStep(j)
    PROVE  /\ \E r \in JobRow : res' = [res EXCEPT ![j] = r] /\ (r.due => r.status = "CANCELLED")
           /\ volume' \in [Days -> Nat]
           /\ UNCHANGED <<rpVars, policyVars, tx>>
           /\ res[j].status # "NONE" => res'[j].status # "NONE" /\ res'[j].usd = res[j].usd
  <1>1. /\ volume \in [Days -> Nat] /\ res \in [Jobs -> JobRow] /\ res[j] \in JobRow
        /\ res[j].usd \in Nat /\ res[j].day \in Days
    BY Amounts
  <1>2. 0 \in Values \cup {0} /\ Values \cup {0} \subseteq Nat
    BY SpendAssumption
  <1>3. ASSUME NEW usd \in Values, NEW d \in CapturedDays, ReserveJob(j, usd, d)
        PROVE  /\ \E r \in JobRow : res' = [res EXCEPT ![j] = r] /\ (r.due => r.status = "CANCELLED")
               /\ volume' \in [Days -> Nat]
               /\ UNCHANGED <<rpVars, policyVars, tx>>
               /\ res[j].status = "NONE"
    <2> DEFINE amount == IF limit > 0 THEN usd ELSE 0
               r == [status |-> "PENDING", usd |-> amount, day |-> d, due |-> FALSE]
    <2>1. /\ res' = [res EXCEPT ![j] = r] /\ volume' = Added(volume, d, amount) /\ d \in Days
          /\ amount \in Nat /\ amount \in Values \cup {0}
      BY <1>2, <1>3 DEF ReserveJob, CapturedDays
    <2>2. r \in JobRow /\ r.due = FALSE
      BY <2>1 DEF JobRow
    <2>3. volume' \in [Days -> Nat]
      BY <1>1, <2>1, AddedIs
    <2> QED
      BY <1>3, <2>1, <2>2, <2>3 DEF ReserveJob
  <1>4. CASE ReleaseJob(j)
    <2> DEFINE r == [res[j] EXCEPT !.status = "CANCELLED", !.due = TRUE]
    <2>1. res' = [res EXCEPT ![j] = r] /\ UNCHANGED <<rpVars, policyVars, volume, tx>>
      BY <1>4 DEF ReleaseJob
    <2>2. r \in JobRow /\ r.status = "CANCELLED" /\ r.usd = res[j].usd
      BY <1>1 DEF JobRow
    <2> QED
      BY <1>1, <2>1, <2>2
  <1>5. CASE CreditJob(j)
    <2> DEFINE r == [res[j] EXCEPT !.due = FALSE]
    <2>1. /\ res' = [res EXCEPT ![j] = r] /\ UNCHANGED <<rpVars, policyVars, tx>>
          /\ volume' = Subtracted(volume, res[j].day, res[j].usd)
      BY <1>5 DEF CreditJob
    <2>2. r \in JobRow /\ r.due = FALSE /\ r.usd = res[j].usd /\ r.status = res[j].status
      BY <1>1 DEF JobRow
    <2>3. volume' \in [Days -> Nat]
      BY <1>1, <2>1, SubtractedIs
    <2> QED
      BY <1>1, <2>1, <2>2, <2>3
  <1>6. CASE PayJob(j)
    <2> DEFINE r == [res[j] EXCEPT !.status = "RELEASED"]
    <2>1. res' = [res EXCEPT ![j] = r] /\ UNCHANGED <<rpVars, policyVars, volume, tx>> /\ ~res[j].due
      BY <1>6 DEF PayJob, LInv, LegacyTypeOK, SpendTypeOK
    <2>2. r \in JobRow /\ r.due = FALSE /\ r.usd = res[j].usd /\ r.status = "RELEASED"
      BY <1>1, <2>1 DEF JobRow
    <2> QED
      BY <1>1, <2>1, <2>2
  <1> QED
    BY <1>3, <1>4, <1>5, <1>6 DEF JobStep

(* Every step is one of the payments', or leaves them alone. *)
LEMMA LegacyStepRefines == LegacyNext => [RpNext]_rpVars
  <1> SUFFICES ASSUME LegacyNext PROVE [RpNext]_rpVars
    OBVIOUS
  <1>1. ASSUME NEW j \in Jobs, LegacyJobStep(j) PROVE UNCHANGED rpVars
    BY <1>1 DEF LegacyJobStep, Judge, AddVolume, InsertJob, RollBack, Die, spendVars
  <1>2. ASSUME NEW t \in Txs, TxStep(t) PROVE UNCHANGED rpVars
    BY <1>2 DEF TxStep, Ask, Withdraw, Create, Approve, Reject, Unapprove, Stop, Submit, Observe,
                SettleVolume, SetStatus
  <1>3. ASSUME NEW j \in Jobs, JobStep(j) PROVE UNCHANGED rpVars
    BY <1>3 DEF JobStep, ReserveJob, ReleaseJob, CreditJob, PayJob
  <1>4. ASSUME NEW p \in Pays, NEW payee \in Payees, NEW usd \in Prices, NEW d \in CapturedDays,
               ReservePayment(p, payee, usd, d)
        PROVE  RpNext
    BY <1>4 DEF ReservePayment, RpNext
  <1>5. CASE PaymentStep
    BY <1>5 DEF PaymentStep, RpNext
  <1>6. CASE PolicyStep
    BY <1>6 DEF PolicyStep, SetLimit, SetActive
  <1> QED
    BY <1>1, <1>2, <1>3, <1>4, <1>5, <1>6 DEF LegacyNext, OtherStep, SpendNext

(* The payments and the policy write no row of the other two kinds. *)
LEMMA OthersKeepRows ==
    ASSUME LInv,
           \/ PaymentStep \/ PolicyStep
           \/ \E p \in Pays, payee \in Payees, usd \in Prices, d \in CapturedDays :
                 ReservePayment(p, payee, usd, d)
    PROVE  /\ UNCHANGED <<volume, tx, res>>
           /\ limit' \in Limits /\ active' \in BOOLEAN /\ steady' \in BOOLEAN
           /\ steady' => UNCHANGED policyVars
  <1>1. limit \in Limits /\ active \in BOOLEAN /\ steady \in BOOLEAN
    BY DEF LInv, LegacyTypeOK, SpendTypeOK
  <1>2. CASE PolicyStep
    BY <1>1, <1>2 DEF PolicyStep, SetLimit, SetActive
  <1>3. CASE UNCHANGED slVars
    BY <1>1, <1>3 DEF slVars, policyVars
  <1> QED
    BY <1>2, <1>3 DEF PaymentStep, ReservePayment

(* The ledgers of transactions and jobs start empty. *)
LEMMA LInit == LegacyInit => LInv
  <1> SUFFICES ASSUME LegacyInit PROVE LInv
    OBVIOUS
  <1> USE DEF LegacyInit, SpendInit
  <1>1. PInv
    BY PInit
  <1>2. 0 \in Days
    BY PaymentAssumption DEF Days
  <1>3. tx \in [Txs -> TxRow] /\ res \in [Jobs -> JobRow] /\ legacy \in [Jobs -> Request]
    BY <1>2 DEF TxRow, TxStatus, VolumeState, JobRow, Request, LegacyStep
  <1>4. LegacyTypeOK
    BY <1>3 DEF LegacyTypeOK, SpendTypeOK
  <1>5. RequestsApart
    BY DEF RequestsApart
  <1> QED
    BY <1>1, <1>4, <1>5 DEF LInv

(* A step on a transaction keeps the types. *)
LEMMA TxKeepsTypes ==
    ASSUME LInv, NEW t \in Txs, TxStep(t), UNCHANGED legacy
    PROVE  LegacyTypeOK' /\ RequestsApart'
  <1>1. PICK r \in TxRow : tx' = [tx EXCEPT ![t] = r] /\ Reserves(r)
    BY TxTypes
  <1>2. volume' \in [Days -> Nat] /\ UNCHANGED <<policyVars, res>>
    BY TxTypes
  <1>3. tx \in [Txs -> TxRow]
    BY Amounts
  <1>4. tx' \in [Txs -> TxRow] /\ \A u \in Txs : tx'[u] = IF u = t THEN r ELSE tx[u]
    BY <1>1, <1>3
  <1>5. \A u \in Txs : Reserves(tx'[u])
    BY <1>1, <1>4 DEF LInv, LegacyTypeOK, SpendTypeOK, Reserves
  <1> QED
    BY <1>2, <1>4, <1>5 DEF LInv, LegacyTypeOK, SpendTypeOK, Reserves, RequestsApart, policyVars

(* A step on a job that is reserved under the lock keeps them. *)
LEMMA JobKeepsTypes ==
    ASSUME LInv, NEW j \in Jobs, JobStep(j), UNCHANGED legacy,
           legacy[j].step # "none" => (res[j].status = "NONE" <=> res'[j].status = "NONE")
    PROVE  LegacyTypeOK' /\ RequestsApart'
  <1>1. PICK r \in JobRow : res' = [res EXCEPT ![j] = r] /\ (r.due => r.status = "CANCELLED")
    BY JobTypes
  <1>2. /\ volume' \in [Days -> Nat] /\ UNCHANGED <<policyVars, tx>>
        /\ res[j].status # "NONE" => res'[j].status # "NONE" /\ res'[j].usd = res[j].usd
    BY JobTypes
  <1>3. res \in [Jobs -> JobRow]
    BY Amounts
  <1>4. res' \in [Jobs -> JobRow] /\ \A i \in Jobs : res'[i] = IF i = j THEN r ELSE res[i]
    BY <1>1, <1>3
  <1>5. SpendTypeOK'
    BY <1>1, <1>2, <1>4 DEF LInv, LegacyTypeOK, SpendTypeOK, policyVars
  <1>6. ASSUME NEW i \in Jobs, legacy[i].step = "created"
        PROVE  res'[i].status # "NONE" /\ res'[i].usd = legacy[i].usd
    BY <1>2, <1>4, <1>6 DEF LInv, LegacyTypeOK
  <1>7. ASSUME NEW i \in Jobs, legacy[i].step \notin {"none", "created"}
        PROVE  res'[i].status = "NONE"
    BY <1>4, <1>7 DEF LInv, RequestsApart
  <1> QED
    BY <1>5, <1>6, <1>7 DEF LInv, LegacyTypeOK, RequestsApart

(* A step of a legacy request keeps them. *)
LEMMA LegacyKeepsTypes ==
    ASSUME LInv, NEW j \in Jobs, LegacyJobStep(j)
    PROVE  LegacyTypeOK' /\ RequestsApart'
  <1> DEFINE Well(r, row) ==
                /\ r.step \in {"reserved", "refused", "lost"} => r.lim > 0
                /\ r.step = "created" => row.status # "NONE" /\ row.usd = r.usd
                /\ r.step \notin {"none", "created"} => row.status = "NONE"
                /\ r.lim = 0 => r.usd = 0
  <1>1. /\ volume \in [Days -> Nat] /\ res \in [Jobs -> JobRow] /\ legacy \in [Jobs -> Request]
        /\ legacy[j] \in Request /\ res[j] \in JobRow
        /\ legacy[j].usd \in Nat /\ legacy[j].day \in Days /\ legacy[j].lim \in Nat
        /\ CreationLimit \in Limits \cup {0} /\ Limits \cup {0} \subseteq Nat
    BY Amounts, SpendAssumption
  <1>2. \A i \in Jobs : Well(legacy[i], res[i])
    BY DEF LInv, LegacyTypeOK, RequestsApart
  <1>3. SUFFICES ASSUME TRUE
                 PROVE  /\ \E r \in Request : legacy' = [legacy EXCEPT ![j] = r] /\ Well(r, res'[j])
                        /\ \E row \in JobRow : /\ res' = [res EXCEPT ![j] = row]
                                               /\ row.due => row.status = "CANCELLED"
                        /\ volume' \in [Days -> Nat]
                        /\ UNCHANGED <<policyVars, tx>>
    <2>1. PICK r \in Request : legacy' = [legacy EXCEPT ![j] = r] /\ Well(r, res'[j])
      BY <1>3
    <2>2. PICK row \in JobRow : res' = [res EXCEPT ![j] = row] /\ (row.due => row.status = "CANCELLED")
      BY <1>3
    <2>3. volume' \in [Days -> Nat] /\ UNCHANGED <<policyVars, tx>>
      BY <1>3
    <2>4. /\ legacy' \in [Jobs -> Request] /\ res' \in [Jobs -> JobRow]
          /\ \A i \in Jobs : i # j => legacy'[i] = legacy[i] /\ res'[i] = res[i]
          /\ legacy'[j] = r /\ res'[j] = row
      BY <1>1, <2>1, <2>2
    <2>5. \A i \in Jobs : Well(legacy'[i], res'[i])
      BY <1>2, <2>1, <2>4
    <2>6. SpendTypeOK'
      BY <2>2, <2>3, <2>4 DEF LInv, LegacyTypeOK, SpendTypeOK, policyVars
    <2> QED
      BY <2>4, <2>5, <2>6 DEF LegacyTypeOK, RequestsApart
  <1>4. res' = res => \E row \in JobRow : /\ res' = [res EXCEPT ![j] = row]
                                          /\ row.due => row.status = "CANCELLED"
    BY <1>1 DEF LInv, LegacyTypeOK, SpendTypeOK
  <1>5. ASSUME NEW usd \in Values, Judge(j, usd)
        PROVE  /\ \E r \in Request : legacy' = [legacy EXCEPT ![j] = r] /\ Well(r, res'[j])
               /\ UNCHANGED <<res, volume, policyVars, tx>>
    <2> DEFINE r == [legacy[j] EXCEPT !.step = "judged", !.lim = CreationLimit,
                                      !.usd = IF CreationLimit > 0 THEN usd ELSE 0]
    <2>1. legacy' = [legacy EXCEPT ![j] = r] /\ UNCHANGED <<res, volume, policyVars, tx>>
      BY <1>5 DEF Judge, spendVars, slVars
    <2>2. r \in Request
      BY <1>1 DEF Request, LegacyStep
    <2>3. Well(r, res[j])
      BY <1>1, <1>5 DEF Judge, Request
    <2> QED
      BY <2>1, <2>2, <2>3
  <1>6. ASSUME NEW d \in CapturedDays, AddVolume(j, d)
        PROVE  /\ \E r \in Request : legacy' = [legacy EXCEPT ![j] = r] /\ Well(r, res'[j])
               /\ UNCHANGED <<res, policyVars, tx>> /\ volume' \in [Days -> Nat]
    <2> DEFINE r == [legacy[j] EXCEPT
                        !.step = IF TooMuch(volume', legacy[j], d) THEN "refused" ELSE "reserved",
                        !.day = d]
    <2>1. /\ legacy' = [legacy EXCEPT ![j] = r] /\ UNCHANGED <<res, policyVars, tx>>
          /\ volume' = Added(volume, d, legacy[j].usd) /\ d \in Days
      BY <1>6 DEF AddVolume, CapturedDays
    <2>2. r \in Request
      BY <1>1, <2>1 DEF Request, LegacyStep
    <2>3. /\ r.step \in {"refused", "reserved"} /\ r.lim = legacy[j].lim
          /\ legacy[j].lim > 0 /\ legacy[j].step = "judged"
      BY <1>1, <1>6 DEF AddVolume, Request
    <2>4. Well(r, res[j])
      BY <1>1, <1>2, <2>3
    <2>5. volume' \in [Days -> Nat]
      BY <1>1, <2>1, AddedIs
    <2> QED
      BY <2>1, <2>2, <2>4, <2>5
  <1>7. ASSUME NEW d \in CapturedDays, InsertJob(j, d)
        PROVE  /\ \E r \in Request : legacy' = [legacy EXCEPT ![j] = r] /\ Well(r, res'[j])
               /\ \E row \in JobRow : /\ res' = [res EXCEPT ![j] = row]
                                      /\ row.due => row.status = "CANCELLED"
               /\ UNCHANGED <<policyVars, tx, volume>>
    <2> DEFINE r == [legacy[j] EXCEPT !.step = "created"]
               row == ReservedRow(legacy[j], d)
    <2>1. /\ legacy' = [legacy EXCEPT ![j] = r] /\ UNCHANGED <<volume, policyVars, tx>>
          /\ res' = [res EXCEPT ![j] = row] /\ d \in Days
      BY <1>7 DEF InsertJob, CapturedDays
    <2>2. r \in Request /\ r.step = "created" /\ r.usd = legacy[j].usd /\ r.lim = legacy[j].lim
      BY <1>1 DEF Request, LegacyStep
    <2>3. row \in JobRow /\ row.status = "PENDING" /\ row.usd = legacy[j].usd /\ row.due = FALSE
      BY <1>1, <2>1 DEF JobRow, ReservedRow, Request
    <2>4. res'[j] = row
      BY <1>1, <2>1
    <2>5. Well(r, row)
      BY <1>2, <2>2, <2>3
    <2> QED
      BY <2>1, <2>2, <2>3, <2>4, <2>5
  <1>8. CASE RollBack(j)
    <2> DEFINE r == [legacy[j] EXCEPT !.step = "over"]
    <2>1. /\ legacy' = [legacy EXCEPT ![j] = r] /\ UNCHANGED <<res, policyVars, tx>>
          /\ volume' = Subtracted(volume, legacy[j].day, legacy[j].usd) /\ legacy[j].step = "refused"
      BY <1>8 DEF RollBack
    <2>2. r \in Request /\ r.step = "over" /\ r.usd = legacy[j].usd /\ r.lim = legacy[j].lim
      BY <1>1 DEF Request, LegacyStep
    <2>3. Well(r, res[j])
      BY <1>2, <2>1, <2>2
    <2>4. volume' \in [Days -> Nat]
      BY <1>1, <2>1, SubtractedIs
    <2>5. res' = res
      BY <2>1
    <2> HIDE DEF Well, r
    <2> QED
      BY <1>4, <2>1, <2>2, <2>3, <2>4, <2>5
  <1>9. CASE Die(j)
    <2> DEFINE r == [legacy[j] EXCEPT !.step = "lost"]
    <2>1. /\ legacy' = [legacy EXCEPT ![j] = r] /\ UNCHANGED <<res, volume, policyVars, tx>>
          /\ legacy[j].step \in {"reserved", "refused"}
      BY <1>9 DEF Die, spendVars, slVars
    <2>2. r \in Request /\ r.step = "lost" /\ r.usd = legacy[j].usd /\ r.lim = legacy[j].lim
      BY <1>1 DEF Request, LegacyStep
    <2>3. Well(r, res[j])
      BY <1>2, <2>1, <2>2
    <2>4. res' = res /\ volume' = volume
      BY <2>1
    <2> HIDE DEF Well, r
    <2> QED
      BY <1>1, <1>4, <2>1, <2>2, <2>3, <2>4
  <1> HIDE DEF Well
  <1>10. ASSUME NEW usd \in Values, Judge(j, usd)
         PROVE  /\ \E r \in Request : legacy' = [legacy EXCEPT ![j] = r] /\ Well(r, res'[j])
                /\ \E row \in JobRow : /\ res' = [res EXCEPT ![j] = row]
                                       /\ row.due => row.status = "CANCELLED"
                /\ volume' \in [Days -> Nat]
                /\ UNCHANGED <<policyVars, tx>>
    BY <1>1, <1>4, <1>5, <1>10
  <1>11. ASSUME NEW d \in CapturedDays, AddVolume(j, d) \/ InsertJob(j, d)
         PROVE  /\ \E r \in Request : legacy' = [legacy EXCEPT ![j] = r] /\ Well(r, res'[j])
                /\ \E row \in JobRow : /\ res' = [res EXCEPT ![j] = row]
                                       /\ row.due => row.status = "CANCELLED"
                /\ volume' \in [Days -> Nat]
                /\ UNCHANGED <<policyVars, tx>>
    BY <1>1, <1>4, <1>6, <1>7, <1>11
  <1> QED
    BY <1>8, <1>9, <1>10, <1>11 DEF LegacyJobStep

(* The invariant of all the ledgers holds in every step. *)
LEMMA LStep == LInv /\ [LegacyNext]_legacyVars => LInv'
  <1> SUFFICES ASSUME LInv, [LegacyNext]_legacyVars PROVE LInv'
    OBVIOUS
  <1>1. CASE UNCHANGED legacyVars
    <2>1. UNCHANGED <<rpVars, slVars, legacy, scenario>> /\ UNCHANGED rpVars
      BY <1>1 DEF legacyVars, spendVars
    <2>2. PInv'
      BY <2>1, PStep DEF LInv
    <2>3. LegacyTypeOK' /\ RequestsApart'
      BY <2>1 DEF LInv, LegacyTypeOK, SpendTypeOK, RequestsApart, slVars, policyVars
    <2>4. WithinScenario' /\ scenario' \in Scenarios
      BY <2>1 DEF LInv, WithinScenario, slVars, policyVars, rpVars, payVars
    <2> QED
      BY <2>2, <2>3, <2>4 DEF LInv
  <1>2. CASE LegacyNext
    <2>1. PInv'
      BY <1>2, LegacyStepRefines, PStep DEF LInv
    <2>2. scenario' \in Scenarios /\ WithinScenario'
      BY <1>2 DEF LegacyNext, LInv
    <2>3. ASSUME NEW j \in Jobs, LegacyJobStep(j) PROVE LegacyTypeOK' /\ RequestsApart'
      BY <2>3, LegacyKeepsTypes
    <2>4. ASSUME OtherStep PROVE LegacyTypeOK' /\ RequestsApart'
      <3>1. UNCHANGED legacy
        BY <2>4 DEF OtherStep
      <3>2. ASSUME NEW t \in Txs, TxStep(t) PROVE LegacyTypeOK' /\ RequestsApart'
        BY <3>1, <3>2, TxKeepsTypes
      <3>3. ASSUME NEW j \in Jobs, JobStep(j) PROVE LegacyTypeOK' /\ RequestsApart'
        BY <2>4, <3>1, <3>3, JobKeepsTypes DEF OtherStep
      <3>4. ASSUME \/ PaymentStep \/ PolicyStep
                   \/ \E p \in Pays, payee \in Payees, usd \in Prices, d \in CapturedDays :
                         ReservePayment(p, payee, usd, d)
            PROVE  LegacyTypeOK' /\ RequestsApart'
        <4>1. UNCHANGED <<volume, tx, res>> /\ limit' \in Limits /\ active' \in BOOLEAN /\ steady' \in BOOLEAN
          BY <3>4, OthersKeepRows
        <4> QED
          BY <3>1, <4>1 DEF LInv, LegacyTypeOK, SpendTypeOK, RequestsApart
      <3> QED
        BY <2>4, <3>2, <3>3, <3>4 DEF OtherStep, SpendNext
    <2>5. LegacyTypeOK' /\ RequestsApart'
      BY <1>2, <2>3, <2>4 DEF LegacyNext
    <2> QED
      BY <2>1, <2>2, <2>5 DEF LInv
  <1> QED
    BY <1>1, <1>2

(***************************************************************************)
(* Books.                                                                  *)
(***************************************************************************)
(* What is held and left of a job. *)
Share(j, d) == HeldCharges(d)[j] + LeftCharges(d)[j]

(* The rows of a day's sums are amounts. *)
LEMMA ChargesType ==
    ASSUME LInv, NEW d \in Days
    PROVE  /\ TxCharges(tx, d) \in [1..MaxTxs -> Nat]
           /\ ResCharges(res, d) \in [1..MaxJobs -> Nat]
           /\ HeldCharges(d) \in [1..MaxJobs -> Nat]
           /\ LeftCharges(d) \in [1..MaxJobs -> Nat]
           /\ BeyondCharges(d) \in [1..MaxJobs -> Nat]
           /\ PayCharges(pay, d) \in [1..MaxPays -> Nat]
           /\ SumTo(TxCharges(tx, d), MaxTxs) \in Nat
           /\ SumTo(ResCharges(res, d), MaxJobs) \in Nat
           /\ SumTo(HeldCharges(d), MaxJobs) \in Nat
           /\ SumTo(LeftCharges(d), MaxJobs) \in Nat
           /\ SumTo(BeyondCharges(d), MaxJobs) \in Nat
           /\ X402On(d) \in Nat
  <1>1. /\ MaxTxs \in Nat /\ MaxJobs \in Nat /\ MaxPays \in Nat /\ pay \in Ledger
        /\ \A t \in Txs : tx[t].usd \in Nat
        /\ \A j \in Jobs : res[j].usd \in Nat /\ legacy[j].usd \in Nat
    BY Amounts
  <1>2. TxCharges(tx, d) \in [1..MaxTxs -> Nat]
    BY <1>1 DEF TxCharges, Txs
  <1>3. /\ ResCharges(res, d) \in [1..MaxJobs -> Nat]
        /\ LeftCharges(d) \in [1..MaxJobs -> Nat]
        /\ BeyondCharges(d) \in [1..MaxJobs -> Nat]
    BY <1>1 DEF ResCharges, LeftCharges, BeyondCharges, Jobs
  <1>4. HeldCharges(d) \in [1..MaxJobs -> Nat]
    <2>1. \A j \in Jobs : Held(j) \in Nat
      BY <1>1 DEF Held
    <2> QED
      BY <2>1 DEF HeldCharges, Jobs
  <1>5. PayCharges(pay, d) \in [1..MaxPays -> Nat]
    <2>1. \A p \in Pays : Charge(pay[p]) \in Nat
      BY <1>1, ChargeType DEF Ledger
    <2> QED
      BY <2>1 DEF PayCharges, Pays
  <1> QED
    BY <1>1, <1>2, <1>3, <1>4, <1>5, SumType DEF X402On

(* What a row counts for is in the volume of its day. *)
LEMMA RowInVolume ==
    ASSUME LInv, BooksBalance, NEW d \in Days
    PROVE  /\ \A t \in Txs : TxCharges(tx, d)[t] <= volume[d]
           /\ \A j \in Jobs : Share(j, d) <= volume[d]
  <1>1. volume[d] = SumTo(TxCharges(tx, d), MaxTxs)
                    + SumTo(HeldCharges(d), MaxJobs) + SumTo(LeftCharges(d), MaxJobs)
    BY DEF BooksBalance
  <1>2. MaxTxs \in Nat /\ MaxJobs \in Nat
    BY Amounts
  <1>3. ASSUME NEW t \in Txs PROVE TxCharges(tx, d)[t] <= volume[d]
    <2>1. TxCharges(tx, d)[t] <= SumTo(TxCharges(tx, d), MaxTxs) /\ TxCharges(tx, d)[t] \in Nat
      BY <1>2, ChargesType, RowWithinSum DEF Txs
    <2> QED
      BY <1>1, <2>1, ChargesType
  <1>4. ASSUME NEW j \in Jobs PROVE Share(j, d) <= volume[d]
    <2>1. /\ HeldCharges(d)[j] <= SumTo(HeldCharges(d), MaxJobs) /\ HeldCharges(d)[j] \in Nat
          /\ LeftCharges(d)[j] <= SumTo(LeftCharges(d), MaxJobs) /\ LeftCharges(d)[j] \in Nat
      BY <1>2, ChargesType, RowWithinSum DEF Jobs
    <2> QED
      BY <1>1, <2>1, ChargesType DEF Share
  <1> QED
    BY <1>3, <1>4

(* The sums of a day, of this state and, as PTL allows, of the next one. *)
Summable ==
    \A d \in Days :
        /\ TxCharges(tx, d) \in [1..MaxTxs -> Nat]
        /\ HeldCharges(d) \in [1..MaxJobs -> Nat]
        /\ LeftCharges(d) \in [1..MaxJobs -> Nat]
        /\ BeyondCharges(d) \in [1..MaxJobs -> Nat]
        /\ SumTo(BeyondCharges(d), MaxJobs) \in Nat
        /\ volume[d] \in Nat
        /\ X402On(d) \in Nat

(* The sums the books are made of are natural numbers, before a step. *)
LEMMA SumsAreNumbers == LInv => Summable
  BY Amounts, ChargesType DEF Summable

(* And after it. *)
LEMMA SumsStayNumbers == LInv' => Summable'
  BY SumsAreNumbers, PTL

(* What is committed on a day is a number before a step. *)
LEMMA CommittedIsNumber == LInv => \A d \in Days : Committed(d) \in Nat
  <1> SUFFICES ASSUME LInv, NEW d \in Days PROVE Committed(d) \in Nat
    OBVIOUS
  <1>1. volume[d] \in Nat
    BY Amounts
  <1>2. X402On(d) \in Nat
    BY SumsAreNumbers DEF Summable
  <1> QED
    BY <1>1, <1>2 DEF Committed

(* And after it. *)
LEMMA CommittedStaysNumber == LInv' => (\A d \in Days : Committed(d) \in Nat)'
  BY CommittedIsNumber, PTL

(* One transaction changes, and the volume with it. *)
LEMMA TxBooks ==
    ASSUME LInv, LInv', BooksBalance, NEW t \in Txs,
           \A u \in Txs : u # t => tx'[u] = tx[u],
           UNCHANGED <<res, legacy>>,
           \A d \in Days : volume'[d] = volume[d] - TxCharges(tx, d)[t] + TxCharges(tx', d)[t]
    PROVE  BooksBalance'
  <1> SUFFICES ASSUME NEW d \in Days
               PROVE  volume'[d] = SumTo(TxCharges(tx', d), MaxTxs)
                                   + SumTo(HeldCharges(d)', MaxJobs) + SumTo(LeftCharges(d)', MaxJobs)
    BY DEF BooksBalance
  <1>1. HeldCharges(d)' = HeldCharges(d) /\ LeftCharges(d)' = LeftCharges(d)
    BY DEF HeldCharges, LeftCharges, Holds, Held
  <1>2. /\ MaxTxs \in Nat /\ t \in 1..MaxTxs
        /\ TxCharges(tx, d) \in [1..MaxTxs -> Nat] /\ TxCharges(tx', d) \in [1..MaxTxs -> Nat]
    BY Amounts, ChargesType, SumsStayNumbers DEF Txs, Summable
  <1>3. \A u \in 1..MaxTxs : u # t => TxCharges(tx', d)[u] = TxCharges(tx, d)[u]
    BY DEF TxCharges, Txs
  <1>4. SumTo(TxCharges(tx', d), MaxTxs)
          = SumTo(TxCharges(tx, d), MaxTxs) - TxCharges(tx, d)[t] + TxCharges(tx', d)[t]
    BY <1>2, <1>3, SumChange
  <1>5. volume[d] = SumTo(TxCharges(tx, d), MaxTxs)
                    + SumTo(HeldCharges(d), MaxJobs) + SumTo(LeftCharges(d), MaxJobs)
    BY DEF BooksBalance
  <1>6. TxCharges(tx, d)[t] \in Nat /\ TxCharges(tx', d)[t] \in Nat
    BY <1>2
  <1> DEFINE A == SumTo(TxCharges(tx, d), MaxTxs)
             A1 == SumTo(TxCharges(tx', d), MaxTxs)
             H == SumTo(HeldCharges(d), MaxJobs)
             L == SumTo(LeftCharges(d), MaxJobs)
             c == TxCharges(tx, d)[t]
             c1 == TxCharges(tx', d)[t]
  <1>7. A \in Nat /\ H \in Nat /\ L \in Nat /\ volume[d] \in Nat
    BY Amounts, ChargesType
  <1>8. /\ A1 = A - c + c1 /\ volume[d] = A + H + L
        /\ volume'[d] = volume[d] - c + c1
        /\ c \in Nat /\ c1 \in Nat
    BY <1>4, <1>5, <1>6
  <1> HIDE DEF A, A1, H, L, c, c1
  <1>9. volume'[d] = A1 + H + L
    BY <1>7, <1>8
  <1>10. /\ SumTo(HeldCharges(d)', MaxJobs) = H /\ SumTo(LeftCharges(d)', MaxJobs) = L
         /\ SumTo(TxCharges(tx', d), MaxTxs) = A1
    BY <1>1, Zenon DEF A1, H, L
  <1> QED
    BY <1>9, <1>10, Zenon

(* One job or legacy request changes, and the volume with it. *)
LEMMA JobBooks ==
    ASSUME LInv, LInv', BooksBalance, NEW j \in Jobs,
           \A i \in Jobs : i # j => res'[i] = res[i] /\ legacy'[i] = legacy[i],
           UNCHANGED tx,
           \A d \in Days : volume'[d] = volume[d] - Share(j, d) + Share(j, d)'
    PROVE  BooksBalance'
  <1> SUFFICES ASSUME NEW d \in Days
               PROVE  volume'[d] = SumTo(TxCharges(tx', d), MaxTxs)
                                   + SumTo(HeldCharges(d)', MaxJobs) + SumTo(LeftCharges(d)', MaxJobs)
    BY DEF BooksBalance
  <1>1. /\ MaxJobs \in Nat /\ j \in 1..MaxJobs
        /\ HeldCharges(d) \in [1..MaxJobs -> Nat] /\ HeldCharges(d)' \in [1..MaxJobs -> Nat]
        /\ LeftCharges(d) \in [1..MaxJobs -> Nat] /\ LeftCharges(d)' \in [1..MaxJobs -> Nat]
    BY Amounts, ChargesType, SumsStayNumbers DEF Jobs, Summable
  <1>2. ASSUME NEW i \in 1..MaxJobs, i # j
        PROVE  HeldCharges(d)'[i] = HeldCharges(d)[i] /\ LeftCharges(d)'[i] = LeftCharges(d)[i]
    BY <1>2 DEF HeldCharges, LeftCharges, Holds, Held, Jobs
  <1>3. /\ SumTo(HeldCharges(d)', MaxJobs)
             = SumTo(HeldCharges(d), MaxJobs) - HeldCharges(d)[j] + HeldCharges(d)'[j]
        /\ SumTo(LeftCharges(d)', MaxJobs)
             = SumTo(LeftCharges(d), MaxJobs) - LeftCharges(d)[j] + LeftCharges(d)'[j]
    BY <1>1, <1>2, SumChange
  <1>4. volume[d] = SumTo(TxCharges(tx, d), MaxTxs)
                    + SumTo(HeldCharges(d), MaxJobs) + SumTo(LeftCharges(d), MaxJobs)
    BY DEF BooksBalance
  <1>5. /\ HeldCharges(d)[j] \in Nat /\ HeldCharges(d)'[j] \in Nat
        /\ LeftCharges(d)[j] \in Nat /\ LeftCharges(d)'[j] \in Nat
    BY <1>1
  <1>6. volume'[d] = volume[d] - (HeldCharges(d)[j] + LeftCharges(d)[j])
                     + (HeldCharges(d)'[j] + LeftCharges(d)'[j])
    BY DEF Share
  <1>7. /\ SumTo(TxCharges(tx, d), MaxTxs) \in Nat /\ SumTo(HeldCharges(d), MaxJobs) \in Nat
        /\ SumTo(LeftCharges(d), MaxJobs) \in Nat /\ TxCharges(tx', d) = TxCharges(tx, d)
    BY ChargesType
  <1> QED
    BY <1>3, <1>4, <1>5, <1>6, <1>7

(***************************************************************************)
(* Every action writes a row and the volume that goes with it.             *)
(***************************************************************************)
(* What a transaction, and what a job and its legacy request, add to a day. *)
TxShareOf(r, d) == IF TxCounts(r) /\ r.day = d THEN r.usd ELSE 0

(* The share of a job depends on how far its legacy request is. *)
ShareOf(r, row, d) ==
    CASE r.step = "created" -> IF JobCounts(row) /\ r.day = d THEN row.usd ELSE 0
      [] r.step \in {"reserved", "refused", "lost"} -> IF r.day = d THEN r.usd ELSE 0
      [] r.step \in {"none", "judged", "over"} -> IF JobCounts(row) /\ row.day = d THEN row.usd ELSE 0

(* A row that has no status yet, and one that was given back, counts for   *)
(* nothing.                                                                *)
LEMMA NoShare ==
    ASSUME LInv, NEW j \in Jobs, res[j].status = "NONE"
    PROVE  ~JobCounts(res[j])
  BY DEF LInv, LegacyTypeOK, SpendTypeOK, JobCounts

(* The terms of the sums are these shares. *)
LEMMA SharesAre ==
    ASSUME LInv, NEW d \in Days
    PROVE  /\ \A t \in Txs : TxCharges(tx, d)[t] = TxShareOf(tx[t], d)
           /\ \A j \in Jobs : Share(j, d) = ShareOf(legacy[j], res[j], d)
  <1>1. \A t \in Txs : TxCharges(tx, d)[t] = TxShareOf(tx[t], d)
    BY DEF TxCharges, TxShareOf
  <1>2. ASSUME NEW j \in Jobs PROVE Share(j, d) = ShareOf(legacy[j], res[j], d)
    <2>1. legacy[j].step \in LegacyStep /\ legacy[j].usd \in Nat /\ res[j].usd \in Nat
      BY Amounts DEF Request
    <2>2. legacy[j].step = "lost" => ~JobCounts(res[j])
      BY NoShare DEF LInv, RequestsApart
    <2>3. Share(j, d) = (IF Holds(j, d) THEN Held(j) ELSE 0)
                        + (IF legacy[j].step = "lost" /\ legacy[j].day = d THEN legacy[j].usd ELSE 0)
      BY DEF Share, HeldCharges, LeftCharges
    <2>4. CASE legacy[j].step = "created"
      BY <2>1, <2>3, <2>4 DEF ShareOf, Holds, Held
    <2>5. CASE legacy[j].step \in {"reserved", "refused"}
      BY <2>1, <2>3, <2>5 DEF ShareOf, Holds, Held
    <2>6. CASE legacy[j].step = "lost"
      BY <2>1, <2>2, <2>3, <2>6 DEF ShareOf, Holds, Held
    <2>7. CASE legacy[j].step \in {"none", "judged", "over"}
      BY <2>1, <2>3, <2>7 DEF ShareOf, Holds, Held
    <2> QED
      BY <2>1, <2>4, <2>5, <2>6, <2>7 DEF LegacyStep
  <1> QED
    BY <1>1, <1>2

(* The same for every day at once. *)
AllShares ==
    \A d \in Days :
        /\ \A t \in Txs : TxCharges(tx, d)[t] = TxShareOf(tx[t], d)
        /\ \A j \in Jobs : Share(j, d) = ShareOf(legacy[j], res[j], d)

(* The terms are the shares, before a step. *)
LEMMA SharesHold == LInv => AllShares
  BY SharesAre DEF AllShares

(* And after it. *)
LEMMA SharesStay == LInv' => AllShares'
  BY SharesHold, PTL

(* A step on a transaction moves the volume by the change of its share. *)
LEMMA TxMovesVolume ==
    ASSUME LInv, BooksBalance, NEW t \in Txs, TxStep(t), NEW d \in Days
    PROVE  volume'[d] = volume[d] - TxShareOf(tx[t], d) + TxShareOf(tx'[t], d)
  <1>1. /\ volume \in [Days -> Nat] /\ tx \in [Txs -> TxRow] /\ tx[t] \in TxRow
        /\ tx[t].usd \in Nat /\ tx[t].day \in Days /\ volume[d] \in Nat
        /\ \A e \in Days : e \in Nat
    BY Amounts
  <1>2. Reserves(tx[t])
    BY DEF LInv, LegacyTypeOK, SpendTypeOK, Reserves
  <1>3. TxShareOf(tx[t], d) \in Nat
    BY <1>1 DEF TxShareOf
  <1>4. ASSUME UNCHANGED volume, tx'[t].usd = tx[t].usd, tx'[t].day = tx[t].day, tx'[t].vol = tx[t].vol
        PROVE  volume'[d] = volume[d] - TxShareOf(tx[t], d) + TxShareOf(tx'[t], d)
    <2>1. TxShareOf(tx'[t], d) = TxShareOf(tx[t], d)
      BY <1>4 DEF TxShareOf, TxCounts
    <2> QED
      BY <1>1, <1>3, <1>4, <2>1
  <1>5. CASE \E usd \in Values \cup {0}, unpriced \in BOOLEAN : Ask(t, usd, unpriced)
    <2>1. UNCHANGED volume /\ tx[t].vol = "NONE" /\ tx'[t].vol = "NONE"
      BY <1>1, <1>2, <1>5 DEF Ask, TxRow, Reserves
    <2>2. TxShareOf(tx[t], d) = 0 /\ TxShareOf(tx'[t], d) = 0
      BY <2>1 DEF TxShareOf, TxCounts
    <2> QED
      BY <1>1, <2>1, <2>2
  <1>6. CASE Withdraw(t)
    <2>1. UNCHANGED volume /\ tx[t].vol = "NONE" /\ tx'[t].vol = "NONE"
      BY <1>1, <1>2, <1>6 DEF Withdraw, TxRow, Reserves
    <2>2. TxShareOf(tx[t], d) = 0 /\ TxShareOf(tx'[t], d) = 0
      BY <2>1 DEF TxShareOf, TxCounts
    <2> QED
      BY <1>1, <2>1, <2>2
  <1>7. ASSUME NEW e \in CapturedDays, NEW gated \in BOOLEAN, Create(t, e, gated)
        PROVE  volume'[d] = volume[d] - TxShareOf(tx[t], d) + TxShareOf(tx'[t], d)
    <2>1. /\ tx[t].vol = "NONE" /\ tx'[t] = NewRow(tx[t], e, gated) /\ e \in Days
          /\ volume' = IF tx[t].usd = 0 THEN volume ELSE Added(volume, e, tx[t].usd)
      BY <1>1, <1>2, <1>7 DEF Create, Reserves, CapturedDays
    <2>2. TxShareOf(tx[t], d) = 0
      BY <2>1 DEF TxShareOf, TxCounts
    <2>3. CASE tx[t].usd = 0
      <3>1. tx'[t].vol = "NONE"
        BY <1>1, <2>1, <2>3 DEF NewRow, TxRow
      <3>2. TxShareOf(tx'[t], d) = 0
        BY <3>1 DEF TxShareOf, TxCounts
      <3> QED
        BY <1>1, <2>1, <2>2, <2>3, <3>2
    <2>4. CASE tx[t].usd # 0
      <3>1. tx'[t].vol = "RESERVED" /\ tx'[t].day = e /\ tx'[t].usd = tx[t].usd
        BY <1>1, <2>1, <2>4 DEF NewRow, TxRow
      <3>2. TxShareOf(tx'[t], d) = IF e = d THEN tx[t].usd ELSE 0
        BY <3>1 DEF TxShareOf, TxCounts
      <3>3. volume'[d] = volume[d] + (IF d = e THEN tx[t].usd ELSE 0)
        <4>1. volume \in [Days -> Nat] /\ e \in Days /\ tx[t].usd \in Nat
          BY <1>1, <2>1
        <4>2. Added(volume, e, tx[t].usd)[d] = volume[d] + (IF d = e THEN tx[t].usd ELSE 0)
          BY <4>1, AddedIs
        <4> QED
          BY <2>1, <2>4, <4>2
      <3> QED
        BY <1>1, <2>2, <3>2, <3>3
    <2> QED
      BY <2>3, <2>4
  <1>8. tx[t].vol = "RESERVED" => volume[tx[t].day] >= tx[t].usd
    <2>1. TxCharges(tx, tx[t].day)[t] <= volume[tx[t].day]
      BY <1>1, RowInVolume
    <2>2. tx[t].vol = "RESERVED" => TxCharges(tx, tx[t].day)[t] = tx[t].usd
      BY DEF TxCharges, TxCounts
    <2> QED
      BY <1>1, <2>1, <2>2
  <1>14. ASSUME tx[t].vol = "RESERVED"
         PROVE  /\ Subtracted(volume, tx[t].day, tx[t].usd) \in [Days -> Nat]
                /\ Subtracted(volume, tx[t].day, tx[t].usd)[d]
                      = volume[d] - (IF d = tx[t].day THEN tx[t].usd ELSE 0)
    <2>1. volume[tx[t].day] >= tx[t].usd
      BY <1>8, <1>14
    <2> QED
      BY <1>1, <2>1 DEF Subtracted
  <1>9. ASSUME NEW e \in CapturedDays, Approve(t, e)
        PROVE  volume'[d] = volume[d] - TxShareOf(tx[t], d) + TxShareOf(tx'[t], d)
    <2>1. e \in Days
      BY DEF CapturedDays
    <2>2. CASE tx[t].vol # "RESERVED"
      <3>1. UNCHANGED volume /\ tx'[t].usd = tx[t].usd /\ tx'[t].day = tx[t].day /\ tx'[t].vol = tx[t].vol
        BY <1>1, <1>9, <2>2 DEF Approve, TxRow
      <3> QED
        BY <1>4, <3>1
    <2>3. CASE tx[t].vol = "RESERVED"
      <3>1. /\ volume' = MovedVolume(tx[t], e)
            /\ tx'[t].usd = tx[t].usd /\ tx'[t].day = LaterDay(tx[t].day, e) /\ tx'[t].vol = "RESERVED"
        BY <1>1, <1>9, <2>3 DEF Approve, TxRow
      <3>2. CASE ~(tx[t].day < e)
        <4>1. UNCHANGED volume /\ tx'[t].day = tx[t].day
          BY <3>1, <3>2 DEF MovedVolume, LaterDay
        <4> QED
          BY <1>4, <2>3, <3>1, <4>1
      <3>3. CASE tx[t].day < e
        <4> DEFINE less == Subtracted(volume, tx[t].day, tx[t].usd)
        <4>1. volume' = Added(less, e, tx[t].usd) /\ tx'[t].day = e
          BY <3>1, <3>3 DEF MovedVolume, LaterDay
        <4>2. less \in [Days -> Nat] /\ less[d] = volume[d] - (IF d = tx[t].day THEN tx[t].usd ELSE 0)
          BY <1>14, <2>3
        <4> HIDE DEF less
        <4>3. \A x \in Days : Added(less, e, tx[t].usd)[x] = less[x] + (IF x = e THEN tx[t].usd ELSE 0)
          BY <1>1, <2>1, <4>2 DEF Added
        <4>5. volume'[d] = less[d] + (IF d = e THEN tx[t].usd ELSE 0)
          BY <4>1, <4>3
        <4>4. /\ TxShareOf(tx[t], d) = IF d = tx[t].day THEN tx[t].usd ELSE 0
              /\ TxShareOf(tx'[t], d) = IF d = e THEN tx[t].usd ELSE 0
          BY <2>3, <3>1, <4>1 DEF TxShareOf, TxCounts
        <4> QED
          BY <1>1, <4>2, <4>4, <4>5
      <3> QED
        BY <3>2, <3>3
    <2> QED
      BY <2>2, <2>3
  <1>10. ASSUME NEW status, SetStatus(t, status)
         PROVE  volume'[d] = volume[d] - TxShareOf(tx[t], d) + TxShareOf(tx'[t], d)
    <2>1. UNCHANGED volume /\ tx'[t].usd = tx[t].usd /\ tx'[t].day = tx[t].day /\ tx'[t].vol = tx[t].vol
      BY <1>1, <1>10 DEF SetStatus, TxRow
    <2> QED
      BY <1>4, <2>1
  <1>11. CASE Reject(t) \/ Unapprove(t) \/ Stop(t) \/ Observe(t)
    BY <1>10, <1>11 DEF Reject, Unapprove, Stop, Observe
  <1>12. CASE Submit(t)
    <2>1. UNCHANGED volume /\ tx'[t].usd = tx[t].usd /\ tx'[t].day = tx[t].day /\ tx'[t].vol = tx[t].vol
      BY <1>1, <1>12 DEF Submit, TxRow
    <2> QED
      BY <1>4, <2>1
  <1>13. CASE SettleVolume(t)
    <2>1. PICK vol \in Settlements(tx[t]) :
             /\ tx' = [tx EXCEPT ![t].vol = vol]
             /\ volume' = IF vol = "RELEASED" THEN Subtracted(volume, tx[t].day, tx[t].usd) ELSE volume
      BY <1>13 DEF SettleVolume
    <2>2. vol \in {"COMMITTED", "RELEASED", "HELD"} /\ tx[t].vol = "RESERVED"
      BY <1>13, <2>1 DEF Settlements, SettleVolume
    <2>3. tx'[t].usd = tx[t].usd /\ tx'[t].day = tx[t].day /\ tx'[t].vol = vol
      BY <1>1, <2>1 DEF TxRow
    <2>4. TxShareOf(tx[t], d) = IF d = tx[t].day THEN tx[t].usd ELSE 0
      BY <2>2 DEF TxShareOf, TxCounts
    <2>5. CASE vol = "RELEASED"
      <3>1. TxShareOf(tx'[t], d) = 0
        BY <2>3, <2>5 DEF TxShareOf, TxCounts
      <3>2. volume'[d] = volume[d] - (IF d = tx[t].day THEN tx[t].usd ELSE 0)
        BY <1>14, <2>1, <2>2, <2>5
      <3> QED
        BY <1>1, <2>4, <3>1, <3>2
    <2>6. CASE vol # "RELEASED"
      <3>1. TxShareOf(tx'[t], d) = TxShareOf(tx[t], d)
        BY <2>2, <2>3, <2>6 DEF TxShareOf, TxCounts
      <3> QED
        BY <1>1, <1>3, <2>1, <2>6, <3>1
    <2> QED
      BY <2>5, <2>6
  <1> QED
    BY <1>5, <1>6, <1>7, <1>9, <1>11, <1>12, <1>13 DEF TxStep

(* Steps after which no row counts for more or less. *)
LEMMA SharesUnmoved ==
    ASSUME LInv, NEW j \in Jobs, UNCHANGED volume,
           \A d \in Days : ShareOf(legacy'[j], res'[j], d) = ShareOf(legacy[j], res[j], d)
    PROVE  \A d \in Days :
              volume'[d] = volume[d] - ShareOf(legacy[j], res[j], d) + ShareOf(legacy'[j], res'[j], d)
  <1> TAKE d \in Days
  <1>1. /\ legacy[j].step \in LegacyStep /\ legacy[j].usd \in Nat /\ res[j].usd \in Nat
        /\ volume[d] \in Nat
    BY Amounts DEF Request
  <1>2. ShareOf(legacy[j], res[j], d) \in Nat
    BY <1>1 DEF ShareOf, LegacyStep
  <1> QED
    BY <1>1, <1>2

(* A step on a job that is reserved under the lock moves the volume by the *)
(* change of its share.                                                    *)
LEMMA JobMovesVolume ==
    ASSUME LInv, BooksBalance, SameDay, NEW j \in Jobs, JobStep(j), UNCHANGED legacy,
           legacy[j].step # "none" => (res[j].status = "NONE" <=> res'[j].status = "NONE")
    PROVE  \A d \in Days :
              volume'[d] = volume[d] - ShareOf(legacy[j], res[j], d) + ShareOf(legacy'[j], res'[j], d)
  <1>1. /\ volume \in [Days -> Nat] /\ res \in [Jobs -> JobRow] /\ res[j] \in JobRow
        /\ res[j].usd \in Nat /\ res[j].day \in Days
        /\ legacy[j].step \in LegacyStep /\ legacy' = legacy
    BY Amounts DEF Request
  <1>2. legacy[j].step \notin {"none", "created"} => res[j].status = "NONE"
    BY DEF LInv, RequestsApart
  <1>3. legacy[j].step = "created" => legacy[j].day = res[j].day
    BY DEF SameDay
  <1>4. legacy[j].step \in {"none", "created"} =>
           \A d \in Days : /\ ShareOf(legacy[j], res[j], d)
                                = IF JobCounts(res[j]) /\ d = res[j].day THEN res[j].usd ELSE 0
                           /\ res'[j].day = res[j].day =>
                                ShareOf(legacy[j], res'[j], d)
                                = IF JobCounts(res'[j]) /\ d = res'[j].day THEN res'[j].usd ELSE 0
    BY <1>3 DEF ShareOf
  <1>5. ASSUME NEW usd \in Values, NEW e \in CapturedDays, ReserveJob(j, usd, e), NEW d \in Days
        PROVE  volume'[d] = volume[d] - ShareOf(legacy[j], res[j], d) + ShareOf(legacy'[j], res'[j], d)
    <2> DEFINE amount == IF limit > 0 THEN usd ELSE 0
    <2>1. /\ amount \in Nat /\ e \in Days /\ volume' = Added(volume, e, amount)
          /\ res'[j] = [status |-> "PENDING", usd |-> amount, day |-> e, due |-> FALSE]
          /\ res[j].status = "NONE"
      BY <1>1, <1>5, SpendAssumption DEF ReserveJob, CapturedDays
    <2> HIDE DEF amount
    <2>2. legacy[j].step = "none"
      BY <2>1
    <2>3. ShareOf(legacy[j], res[j], d) = 0
      BY <1>4, <2>1, <2>2, NoShare
    <2>4. ShareOf(legacy[j], res'[j], d) = IF d = e THEN amount ELSE 0
      BY <2>1, <2>2 DEF ShareOf, JobCounts
    <2>5. volume'[d] = volume[d] + (IF d = e THEN amount ELSE 0)
      BY <1>1, <2>1 DEF Added
    <2> QED
      BY <1>1, <2>1, <2>3, <2>4, <2>5
  <1>6. CASE ReleaseJob(j) \/ PayJob(j)
    <2>1. /\ UNCHANGED volume /\ res[j].status = "PENDING"
          /\ res'[j].usd = res[j].usd /\ res'[j].day = res[j].day
          /\ res'[j].status = "RELEASED" \/ res'[j].due
      BY <1>1, <1>6 DEF ReleaseJob, Releasable, PayJob, JobRow
    <2>2. legacy[j].step \in {"none", "created"}
      BY <1>2, <2>1
    <2>3. JobCounts(res[j]) /\ JobCounts(res'[j])
      BY <2>1 DEF JobCounts
    <2>4. \A d \in Days : ShareOf(legacy'[j], res'[j], d) = ShareOf(legacy[j], res[j], d)
      BY <1>1, <1>4, <2>1, <2>2, <2>3
    <2> QED
      BY <2>1, <2>4, SharesUnmoved
  <1>7. ASSUME CreditJob(j), NEW d \in Days
        PROVE  volume'[d] = volume[d] - ShareOf(legacy[j], res[j], d) + ShareOf(legacy'[j], res'[j], d)
    <2>1. /\ res[j].due /\ res[j].status = "CANCELLED"
          /\ volume' = Subtracted(volume, res[j].day, res[j].usd)
          /\ res'[j].status = "CANCELLED" /\ ~res'[j].due /\ res'[j].day = res[j].day
      BY <1>1, <1>7 DEF CreditJob, LInv, LegacyTypeOK, SpendTypeOK, JobRow
    <2>2. legacy[j].step \in {"none", "created"} /\ JobCounts(res[j]) /\ ~JobCounts(res'[j])
      BY <1>2, <2>1 DEF JobCounts
    <2>3. /\ ShareOf(legacy[j], res[j], d) = IF d = res[j].day THEN res[j].usd ELSE 0
          /\ ShareOf(legacy[j], res'[j], d) = 0
          /\ ShareOf(legacy[j], res[j], res[j].day) = res[j].usd
      BY <1>1, <1>4, <2>1, <2>2
    <2>4. res[j].usd <= volume[res[j].day]
      BY <1>1, <2>3, RowInVolume, SharesAre
    <2>5. volume'[d] = volume[d] - (IF d = res[j].day THEN res[j].usd ELSE 0)
      BY <1>1, <2>1, <2>4 DEF Subtracted
    <2> QED
      BY <1>1, <2>3, <2>5
  <1> QED
    BY <1>5, <1>6, <1>7 DEF JobStep

(* So does a step of a legacy request. *)
LEMMA LegacyMovesVolume ==
    ASSUME LInv, BooksBalance, NEW j \in Jobs, LegacyJobStep(j)
    PROVE  \A d \in Days :
              volume'[d] = volume[d] - ShareOf(legacy[j], res[j], d) + ShareOf(legacy'[j], res'[j], d)
  <1>1. /\ volume \in [Days -> Nat] /\ res \in [Jobs -> JobRow] /\ legacy \in [Jobs -> Request]
        /\ legacy[j] \in Request /\ legacy[j].usd \in Nat /\ legacy[j].day \in Days
        /\ res[j].usd \in Nat
    BY Amounts
  <1>2. legacy[j].step \notin {"none", "created"} => ~JobCounts(res[j])
    BY NoShare DEF LInv, RequestsApart
  <1>3. CASE \E usd \in Values : Judge(j, usd)
    <2>1. UNCHANGED <<volume, res>> /\ legacy[j].step = "none" /\ legacy'[j].step = "judged"
      BY <1>1, <1>3 DEF Judge, Request, spendVars, slVars
    <2>2. \A d \in Days : ShareOf(legacy'[j], res'[j], d) = ShareOf(legacy[j], res[j], d)
      BY <2>1 DEF ShareOf
    <2> QED
      BY <2>1, <2>2, SharesUnmoved
  <1>4. ASSUME NEW e \in CapturedDays, AddVolume(j, e), NEW d \in Days
        PROVE  volume'[d] = volume[d] - ShareOf(legacy[j], res[j], d) + ShareOf(legacy'[j], res'[j], d)
    <2>1. /\ legacy[j].step = "judged" /\ legacy'[j].step \in {"reserved", "refused"}
          /\ legacy'[j].day = e /\ legacy'[j].usd = legacy[j].usd
          /\ volume' = Added(volume, e, legacy[j].usd) /\ e \in Days
      BY <1>1, <1>4 DEF AddVolume, CapturedDays, Request
    <2>2. ShareOf(legacy[j], res[j], d) = 0
      BY <1>2, <2>1 DEF ShareOf
    <2>3. ShareOf(legacy'[j], res'[j], d) = IF d = e THEN legacy[j].usd ELSE 0
      BY <2>1 DEF ShareOf
    <2>4. volume'[d] = volume[d] + (IF d = e THEN legacy[j].usd ELSE 0)
      BY <1>1, <2>1 DEF Added
    <2> QED
      BY <1>1, <2>2, <2>3, <2>4
  <1>5. ASSUME NEW e \in CapturedDays, InsertJob(j, e)
        PROVE  UNCHANGED volume /\ \A d \in Days : ShareOf(legacy'[j], res'[j], d) = ShareOf(legacy[j], res[j], d)
    <2>1. /\ UNCHANGED volume /\ res'[j].status = "PENDING" /\ res'[j].usd = legacy[j].usd
          /\ legacy'[j].step = "created" /\ legacy'[j].day = legacy[j].day
          /\ legacy[j].step = "reserved" \/ (legacy[j].step = "judged" /\ legacy[j].lim = 0)
      BY <1>1, <1>5 DEF InsertJob, ReservedRow, Request
    <2>2. legacy[j].lim = 0 => legacy[j].usd = 0
      BY DEF LInv, RequestsApart
    <2>3. \A d \in Days : ShareOf(legacy'[j], res'[j], d) = IF legacy[j].day = d THEN legacy[j].usd ELSE 0
      BY <2>1 DEF ShareOf, JobCounts
    <2>4. \A d \in Days : ShareOf(legacy[j], res[j], d) = IF legacy[j].day = d THEN legacy[j].usd ELSE 0
      BY <1>2, <2>1, <2>2 DEF ShareOf
    <2> QED
      BY <2>1, <2>3, <2>4
  <1>6. ASSUME RollBack(j), NEW d \in Days
        PROVE  volume'[d] = volume[d] - ShareOf(legacy[j], res[j], d) + ShareOf(legacy'[j], res'[j], d)
    <2>1. /\ legacy[j].step = "refused" /\ legacy'[j].step = "over" /\ res' = res
          /\ volume' = Subtracted(volume, legacy[j].day, legacy[j].usd)
      BY <1>1, <1>6 DEF RollBack, Request
    <2>2. /\ ShareOf(legacy[j], res[j], d) = IF d = legacy[j].day THEN legacy[j].usd ELSE 0
          /\ ShareOf(legacy[j], res[j], legacy[j].day) = legacy[j].usd
      BY <2>1 DEF ShareOf
    <2>3. ShareOf(legacy'[j], res'[j], d) = 0
      BY <1>2, <2>1 DEF ShareOf
    <2>4. legacy[j].usd <= volume[legacy[j].day]
      BY <1>1, <2>2, RowInVolume, SharesAre
    <2>5. volume'[d] = volume[d] - (IF d = legacy[j].day THEN legacy[j].usd ELSE 0)
      BY <1>1, <2>1, <2>4 DEF Subtracted
    <2> QED
      BY <1>1, <2>2, <2>3, <2>5
  <1>7. CASE Die(j)
    <2>1. /\ UNCHANGED <<volume, res>> /\ legacy[j].step \in {"reserved", "refused"}
          /\ legacy'[j].step = "lost" /\ legacy'[j].usd = legacy[j].usd /\ legacy'[j].day = legacy[j].day
      BY <1>1, <1>7 DEF Die, Request, spendVars, slVars
    <2>2. \A d \in Days : ShareOf(legacy'[j], res'[j], d) = ShareOf(legacy[j], res[j], d)
      BY <2>1 DEF ShareOf
    <2> QED
      BY <2>1, <2>2, SharesUnmoved
  <1> QED
    BY <1>3, <1>4, <1>5, <1>6, <1>7, SharesUnmoved DEF LegacyJobStep

(* At the start nothing is reserved and every volume is zero. *)
LEMMA BooksInit == LegacyInit => BooksBalance /\ SameDay
  <1> SUFFICES ASSUME LegacyInit, NEW d \in Days
               PROVE  volume[d] = SumTo(TxCharges(tx, d), MaxTxs)
                                  + SumTo(HeldCharges(d), MaxJobs) + SumTo(LeftCharges(d), MaxJobs)
    BY DEF BooksBalance, SameDay, LegacyInit
  <1> USE DEF LegacyInit, SpendInit
  <1>1. MaxTxs \in Nat /\ MaxJobs \in Nat
    BY SpendAssumption
  <1>2. \A k \in 1..MaxTxs : TxCharges(tx, d)[k] = 0
    BY DEF TxCharges, TxCounts, Txs
  <1>3. \A k \in 1..MaxJobs : HeldCharges(d)[k] = 0
    BY DEF HeldCharges, Holds, JobCounts, Jobs
  <1>4. \A k \in 1..MaxJobs : LeftCharges(d)[k] = 0
    BY DEF LeftCharges, Jobs
  <1>5. /\ SumTo(TxCharges(tx, d), MaxTxs) = 0 /\ SumTo(HeldCharges(d), MaxJobs) = 0
        /\ SumTo(LeftCharges(d), MaxJobs) = 0
    BY <1>1, <1>2, <1>3, <1>4, SumOfNothing
  <1> QED
    BY <1>5

(* One row is written at a time. *)
LEMMA OneRow ==
    ASSUME LInv
    PROVE  /\ \A t \in Txs : TxStep(t) => /\ \A u \in Txs : u # t => tx'[u] = tx[u]
                                          /\ UNCHANGED res
           /\ \A j \in Jobs : JobStep(j) => /\ \A i \in Jobs : i # j => res'[i] = res[i]
                                            /\ UNCHANGED tx
           /\ \A j \in Jobs : LegacyJobStep(j) =>
                 /\ \A i \in Jobs : i # j => res'[i] = res[i] /\ legacy'[i] = legacy[i]
                 /\ UNCHANGED <<tx, rpVars, policyVars>>
  <1>1. tx \in [Txs -> TxRow] /\ res \in [Jobs -> JobRow] /\ legacy \in [Jobs -> Request]
    BY Amounts
  <1>2. ASSUME NEW t \in Txs, TxStep(t)
        PROVE  (\A u \in Txs : u # t => tx'[u] = tx[u]) /\ UNCHANGED res
    <2>1. PICK r \in TxRow : tx' = [tx EXCEPT ![t] = r]
      BY <1>2, TxTypes
    <2>2. UNCHANGED res
      BY <1>2, TxTypes
    <2> QED
      BY <1>1, <2>1, <2>2
  <1>3. ASSUME NEW j \in Jobs, JobStep(j)
        PROVE  (\A i \in Jobs : i # j => res'[i] = res[i]) /\ UNCHANGED tx
    <2>1. PICK r \in JobRow : res' = [res EXCEPT ![j] = r]
      BY <1>3, JobTypes
    <2>2. UNCHANGED tx
      BY <1>3, JobTypes
    <2> QED
      BY <1>1, <2>1, <2>2
  <1>4. ASSUME NEW j \in Jobs, LegacyJobStep(j)
        PROVE  /\ \A i \in Jobs : i # j => res'[i] = res[i] /\ legacy'[i] = legacy[i]
               /\ UNCHANGED <<tx, rpVars, policyVars>>
    <2>1. CASE \E usd \in Values : Judge(j, usd)
      BY <1>1, <2>1 DEF Judge, spendVars, slVars
    <2>2. CASE \E d \in CapturedDays : AddVolume(j, d)
      BY <1>1, <2>2 DEF AddVolume
    <2>3. CASE \E d \in CapturedDays : InsertJob(j, d)
      BY <1>1, <2>3 DEF InsertJob
    <2>4. CASE RollBack(j)
      BY <1>1, <2>4 DEF RollBack
    <2>5. CASE Die(j)
      BY <1>1, <2>5 DEF Die, spendVars, slVars
    <2> QED
      BY <1>4, <2>1, <2>2, <2>3, <2>4, <2>5 DEF LegacyJobStep
  <1> QED
    BY <1>2, <1>3, <1>4

(* The two days of a legacy reservation agree while there is one day. *)
LEMMA SameDayStep ==
    ASSUME OneDay, LInv, LInv', LegacyNext, SameDay
    PROVE  SameDay'
  <1>1. /\ res \in [Jobs -> JobRow] /\ legacy \in [Jobs -> Request]
        /\ \A j \in Jobs : legacy[j].day \in Nat
        /\ \A d \in Days : d \in Nat
    BY Amounts
  <1>2. ASSUME NEW t \in Txs, TxStep(t), UNCHANGED legacy PROVE SameDay'
    BY <1>2, OneRow DEF SameDay
  <1>3. ASSUME NEW j \in Jobs, JobStep(j), UNCHANGED legacy,
               legacy[j].step # "none" => (res[j].status = "NONE" <=> res'[j].status = "NONE")
        PROVE  SameDay'
    <2>1. ASSUME legacy[j].step = "created" PROVE res'[j].day = res[j].day
      <3>1. ASSUME NEW usd \in Values, NEW d \in CapturedDays, ReserveJob(j, usd, d) PROVE FALSE
        BY <1>1, <1>3, <2>1, <3>1 DEF ReserveJob
      <3>2. CASE ReleaseJob(j) \/ CreditJob(j) \/ PayJob(j)
        BY <1>1, <3>2 DEF ReleaseJob, CreditJob, PayJob, JobRow
      <3> QED
        BY <1>3, <3>1, <3>2 DEF JobStep
    <2>2. \A i \in Jobs : i # j => res'[i] = res[i]
      BY <1>3, OneRow
    <2> QED
      BY <1>3, <2>1, <2>2 DEF SameDay
  <1>4. ASSUME NEW j \in Jobs, LegacyJobStep(j) PROVE SameDay'
    <2>1. ASSUME legacy'[j].step = "created" PROVE legacy'[j].day = res'[j].day
      <3>1. PICK d \in CapturedDays : InsertJob(j, d) \/ (legacy[j].step = "created" /\ UNCHANGED <<res, legacy>>)
        <4>1. ASSUME NEW usd \in Values, Judge(j, usd) PROVE FALSE
          BY <1>1, <2>1, <4>1 DEF Judge, Request
        <4>2. ASSUME NEW d \in CapturedDays, AddVolume(j, d) PROVE FALSE
          BY <1>1, <2>1, <4>2 DEF AddVolume, Request
        <4>3. ASSUME RollBack(j) \/ Die(j) PROVE FALSE
          BY <1>1, <2>1, <4>3 DEF RollBack, Die, Request
        <4> QED
          BY <1>4, <4>1, <4>2, <4>3 DEF LegacyJobStep
      <3>2. CASE InsertJob(j, d)
        <4>1. legacy'[j].day = legacy[j].day /\ res'[j].day = d /\ d >= legacy[j].day /\ today' = today
          BY <1>1, <3>2 DEF InsertJob, ReservedRow, Request, rpVars
        <4>2. scenario' \in Scenarios /\ scenario'.legacy /\ today' <= scenario'.days
          BY <2>1 DEF LInv, WithinScenario
        <4>3. today <= 0
          BY <4>1, <4>2 DEF OneDay
        <4>4. today \in Nat /\ d \in Nat /\ d \in {today, today - 1}
          BY <1>1 DEF LInv, PInv, RpTypeOK, CapturedDays
        <4> QED
          BY <1>1, <4>1, <4>3, <4>4
      <3> QED
        BY <3>1, <3>2 DEF SameDay
    <2>2. \A i \in Jobs : i # j => res'[i] = res[i] /\ legacy'[i] = legacy[i]
      BY <1>4, OneRow
    <2> QED
      BY <2>1, <2>2 DEF SameDay
  <1>5. ASSUME \/ PaymentStep \/ PolicyStep
               \/ \E p \in Pays, payee \in Payees, usd \in Prices, d \in CapturedDays :
                     ReservePayment(p, payee, usd, d),
               UNCHANGED legacy
        PROVE  SameDay'
    BY <1>5, OthersKeepRows DEF SameDay
  <1>6. ASSUME OtherStep PROVE SameDay'
    BY <1>2, <1>3, <1>5, <1>6 DEF OtherStep, SpendNext
  <1> QED
    BY <1>4, <1>6 DEF LegacyNext

(* Each kind of step changes one term and the volume by the same amount. *)
LEMMA BooksStep ==
    ASSUME LInv, LInv', LegacyNext, SameDay, BooksBalance
    PROVE  BooksBalance'
  <1>0. AllShares /\ AllShares'
    BY SharesHold, SharesStay
  <1>1. ASSUME NEW t \in Txs, TxStep(t), UNCHANGED legacy PROVE BooksBalance'
    <2>1. \A d \in Days : volume'[d] = volume[d] - TxCharges(tx, d)[t] + TxCharges(tx', d)[t]
      <3> TAKE d \in Days
      <3>1. volume'[d] = volume[d] - TxShareOf(tx[t], d) + TxShareOf(tx'[t], d)
        BY <1>1, TxMovesVolume
      <3>2. TxCharges(tx, d)[t] = TxShareOf(tx[t], d) /\ TxCharges(tx', d)[t] = TxShareOf(tx'[t], d)
        BY DEF TxCharges, TxShareOf
      <3> QED
        BY <3>1, <3>2
    <2> QED
      BY <1>1, <2>1, OneRow, TxBooks
  <1>2. ASSUME NEW j \in Jobs, JobStep(j), UNCHANGED legacy,
               legacy[j].step # "none" => (res[j].status = "NONE" <=> res'[j].status = "NONE")
        PROVE  BooksBalance'
    <2>1. \A d \in Days :
             volume'[d] = volume[d] - ShareOf(legacy[j], res[j], d) + ShareOf(legacy'[j], res'[j], d)
      BY <1>2, JobMovesVolume
    <2>2. \A d \in Days : volume'[d] = volume[d] - Share(j, d) + Share(j, d)'
      BY <1>0, <2>1 DEF AllShares
    <2>3. UNCHANGED tx /\ \A i \in Jobs : i # j => res'[i] = res[i] /\ legacy'[i] = legacy[i]
      BY <1>2, OneRow
    <2> QED
      BY <2>2, <2>3, JobBooks
  <1>3. ASSUME NEW j \in Jobs, LegacyJobStep(j) PROVE BooksBalance'
    <2>1. \A d \in Days :
             volume'[d] = volume[d] - ShareOf(legacy[j], res[j], d) + ShareOf(legacy'[j], res'[j], d)
      BY <1>3, LegacyMovesVolume
    <2>2. \A d \in Days : volume'[d] = volume[d] - Share(j, d) + Share(j, d)'
      BY <1>0, <2>1 DEF AllShares
    <2>3. UNCHANGED tx /\ \A i \in Jobs : i # j => res'[i] = res[i] /\ legacy'[i] = legacy[i]
      BY <1>3, OneRow
    <2> QED
      BY <2>2, <2>3, JobBooks
  <1>4. ASSUME UNCHANGED <<volume, tx, res, legacy>> PROVE BooksBalance'
    BY <1>4 DEF BooksBalance, HeldCharges, LeftCharges, Holds, Held
  <1>5. ASSUME \/ PaymentStep \/ PolicyStep
               \/ \E p \in Pays, payee \in Payees, usd \in Prices, d \in CapturedDays :
                     ReservePayment(p, payee, usd, d),
               UNCHANGED legacy
        PROVE  BooksBalance'
    BY <1>4, <1>5, OthersKeepRows
  <1>6. ASSUME OtherStep PROVE BooksBalance'
    BY <1>1, <1>2, <1>5, <1>6 DEF OtherStep, SpendNext
  <1> QED
    BY <1>3, <1>6 DEF LegacyNext

(***************************************************************************)
(* What is committed to a day.                                             *)
(***************************************************************************)
(* What counts on a day counts since its start. *)
LEMMA OnIsSince ==
    ASSUME LInv, NEW d \in Days, NEW e \in Days, e <= d
    PROVE  X402On(d) <= X402Since(e) /\ X402Since(e) \in Nat
  <1> DEFINE since == [p \in Pays |-> IF pay[p].day >= e THEN Charge(pay[p]) ELSE 0]
  <1>1. MaxPays \in Nat /\ PayCharges(pay, d) \in [1..MaxPays -> Nat] /\ pay \in Ledger /\ d \in Nat /\ e \in Nat
    BY Amounts, ChargesType
  <1>2. \A p \in Pays : Charge(pay[p]) \in Nat
    BY <1>1, ChargeType DEF Ledger
  <1>3. since \in [1..MaxPays -> Nat]
    BY <1>2 DEF Pays
  <1>4. \A p \in 1..MaxPays : PayCharges(pay, d)[p] <= since[p]
    BY <1>1, <1>2 DEF PayCharges, Pays
  <1> HIDE DEF since
  <1>5. SumTo(PayCharges(pay, d), MaxPays) <= SumTo(since, MaxPays) /\ SumTo(since, MaxPays) \in Nat
    BY <1>1, <1>3, <1>4, SumMonotone, SumType
  <1> QED
    BY <1>5 DEF X402On, X402Since, since

(* A limited room that was found leaves the day within the limit. *)
LEMMA RoomIsWithin ==
    ASSUME LInv, NEW vol \in [Days -> Nat], NEW d \in Days, NEW e \in Days, e <= d,
           limit > 0, Room(limit, vol, d, e)
    PROVE  vol[d] + X402On(d) <= limit
  <1>1. X402On(d) <= X402Since(e) /\ X402Since(e) \in Nat /\ X402On(d) \in Nat /\ vol[d] \in Nat /\ limit \in Nat
    BY OnIsSince, ChargesType, Amounts
  <1>2. vol[d] + X402Since(e) <= limit
    BY DEF Room
  <1> QED
    BY <1>1, <1>2

(* Rows that charge no more, on the day they charged, take no more of a day. *)
LEMMA OnShrinks ==
    ASSUME NEW rows \in Ledger, NEW news \in Ledger, NEW d \in Days,
           \A p \in Pays : /\ Charge(news[p]) <= Charge(rows[p])
                           /\ news[p].day = rows[p].day \/ Charge(news[p]) = 0
    PROVE  SumTo(PayCharges(news, d), MaxPays) <= SumTo(PayCharges(rows, d), MaxPays)
  <1>1. \A p \in Pays : Charge(rows[p]) \in Nat /\ Charge(news[p]) \in Nat
    BY ChargeType DEF Ledger
  <1>2. MaxPays \in Nat
    BY PaymentAssumption
  <1>3. PayCharges(rows, d) \in [1..MaxPays -> Nat] /\ PayCharges(news, d) \in [1..MaxPays -> Nat]
    BY <1>1 DEF PayCharges, Pays
  <1>4. \A p \in 1..MaxPays : PayCharges(news, d)[p] <= PayCharges(rows, d)[p]
    BY <1>1 DEF PayCharges, Pays
  <1> QED
    BY <1>2, <1>3, <1>4, SumMonotone

(* A step of an attempt, of a server, of the chain or of time takes no     *)
(* more of any day.                                                        *)
LEMMA PaymentTakesNoMore ==
    ASSUME LInv, LInv', PaymentStep, NEW d \in Days
    PROVE  X402On(d)' <= X402On(d)
  <1>1. pay \in Ledger /\ pay' \in Ledger
    BY DEF LInv, PInv, RpTypeOK, Ledger
  <1>2. \A p \in Pays : Charge(pay[p]) \in Nat /\ Charge(pay'[p]) \in Nat /\ pay[p].usd \in Nat
    <2>1. \A p \in Pays : pay[p].usd \in Prices \cup {0}
      BY <1>1 DEF Ledger, PayRow
    <2>2. Prices \cup {0} \subseteq Nat
      BY PaymentAssumption
    <2> QED
      BY <1>1, <2>1, <2>2, ChargeType DEF Ledger
  <1>3. SUFFICES \A p \in Pays : /\ Charge(pay'[p]) <= Charge(pay[p])
                                 /\ pay'[p].day = pay[p].day \/ Charge(pay'[p]) = 0
    BY <1>1, OnShrinks DEF X402On
  <1>4. ASSUME pay' = pay
        PROVE  \A p \in Pays : /\ Charge(pay'[p]) <= Charge(pay[p])
                               /\ pay'[p].day = pay[p].day \/ Charge(pay'[p]) = 0
    BY <1>2, <1>4
  <1>5. ASSUME NEW p \in Pays, NEW status, Record(p, status),
               Counts(pay[p]) \/ status \in {"failed", "lapsed"}
        PROVE  \A q \in Pays : /\ Charge(pay'[q]) <= Charge(pay[q])
                               /\ pay'[q].day = pay[q].day \/ Charge(pay'[q]) = 0
    <2>1. /\ \A q \in Pays : q # p => pay'[q] = pay[q]
          /\ pay'[p].status = status /\ pay'[p].usd = pay[p].usd /\ pay'[p].day = pay[p].day
      BY <1>1, <1>5 DEF Record, Ledger, PayRow
    <2>2. Charge(pay'[p]) <= Charge(pay[p])
      BY <1>2, <1>5, <2>1 DEF Charge, Counts
    <2> QED
      BY <1>2, <2>1, <2>2
  <1>6. ASSUME NEW p \in Pays, AttemptStep(p)
        PROVE  \A q \in Pays : /\ Charge(pay'[q]) <= Charge(pay[q])
                               /\ pay'[q].day = pay[q].day \/ Charge(pay'[q]) = 0
    <2>1. CASE MarkPending(p) \/ FailBeforeSigning(p) \/ Unknown(p) \/ ReportSettled(p) \/ Refuse(p)
      BY <1>5, <2>1 DEF MarkPending, FailBeforeSigning, Failable, Unknown, ReportSettled, Refuse, Answered, Counts
    <2>2. CASE Send(p)
      <3>1. /\ \A q \in Pays : q # p => pay'[q] = pay[q]
            /\ pay'[p].status = pay[p].status /\ pay'[p].usd = pay[p].usd /\ pay'[p].day = pay[p].day
        BY <1>1, <2>2 DEF Send, Ledger, PayRow
      <3>2. Charge(pay'[p]) = Charge(pay[p])
        BY <3>1 DEF Charge, Counts
      <3> QED
        BY <1>2, <3>1, <3>2
    <2> QED
      BY <1>6, <2>1, <2>2 DEF AttemptStep
  <1>7. ASSUME NEW p \in Pays, NEW payee \in Payees, NEW usd \in Prices, RecordRefusal(p, payee, usd)
        PROVE  \A q \in Pays : /\ Charge(pay'[q]) <= Charge(pay[q])
                               /\ pay'[q].day = pay[q].day \/ Charge(pay'[q]) = 0
    <2>1. (\A q \in Pays : q # p => pay'[q] = pay[q]) /\ pay'[p].status = "failed"
      BY <1>1, <1>7 DEF RecordRefusal, Ledger, PayRow
    <2>2. Charge(pay'[p]) = 0
      BY <2>1 DEF Charge, Counts
    <2> QED
      BY <1>2, <2>1, <2>2
  <1>8. CASE OutsideStep
    <2>1. ASSUME NEW p \in Pays, Lapse(p)
          PROVE  \A q \in Pays : /\ Charge(pay'[q]) <= Charge(pay[q])
                                 /\ pay'[q].day = pay[q].day \/ Charge(pay'[q]) = 0
      BY <1>5, <2>1 DEF Lapse
    <2>2. ASSUME \/ \E a \in usable : Settle(a) \/ Expire(a)
                 \/ \E j \in Work : CloseJob(j)
                 \/ Midnight
          PROVE  pay' = pay
      BY <2>2 DEF Settle, Expire, CloseJob, Midnight, payVars
    <2> QED
      BY <1>4, <1>8, <2>1, <2>2 DEF OutsideStep
  <1> QED
    BY <1>6, <1>7, <1>8 DEF PaymentStep

(* A reservation of a payment takes its price, of the day it is made on.   *)
LEMMA ReservationTakes ==
    ASSUME LInv, LInv', NEW p \in Pays, NEW payee \in Payees, NEW usd \in Prices, NEW e \in Days,
           Reserve(p, payee, usd, e), NEW d \in Days
    PROVE  X402On(d)' = X402On(d) + (IF d = e THEN usd ELSE 0)
  <1>1. pay \in Ledger /\ pay' \in Ledger /\ MaxPays \in Nat /\ p \in 1..MaxPays
    BY PaymentAssumption DEF LInv, PInv, RpTypeOK, Ledger, Pays
  <1>2. \A q \in Pays : Charge(pay[q]) \in Nat /\ Charge(pay'[q]) \in Nat
    BY <1>1, ChargeType DEF Ledger
  <1>3. PayCharges(pay, d) \in [1..MaxPays -> Nat] /\ PayCharges(pay', d) \in [1..MaxPays -> Nat]
    BY <1>2 DEF PayCharges, Pays
  <1>4. /\ \A q \in Pays : q # p => pay'[q] = pay[q]
        /\ pay'[p] = Taken(pay[p], payee, usd, e) /\ Retryable(pay[p])
    BY <1>1 DEF Reserve, Ledger
  <1>5. \A q \in 1..MaxPays : q # p => PayCharges(pay', d)[q] = PayCharges(pay, d)[q]
    BY <1>4 DEF PayCharges, Pays
  <1>6. /\ PayCharges(pay, d)[p] = 0
        /\ PayCharges(pay', d)[p] = IF d = e THEN usd ELSE 0
    BY <1>4 DEF PayCharges, Charge, Counts, Retryable, Taken
  <1>7. SumTo(PayCharges(pay', d), MaxPays)
          = SumTo(PayCharges(pay, d), MaxPays) - PayCharges(pay, d)[p] + PayCharges(pay', d)[p]
    BY <1>1, <1>3, <1>5, SumChange
  <1>8. SumTo(PayCharges(pay, d), MaxPays) \in Nat /\ PayCharges(pay', d)[p] \in Nat
    BY <1>1, <1>3, SumType
  <1> QED
    BY <1>6, <1>7, <1>8 DEF X402On

(* No step under an active limit that takes the lock commits more to a day *)
(* than the limit.                                                         *)
LEMMA OtherStepWithinLimit ==
    ASSUME LInv, LInv', OtherStep, active, limit > 0, NEW d \in Days
    PROVE  Committed(d)' <= Committed(d) \/ Committed(d)' <= limit
  <1>1. /\ volume \in [Days -> Nat] /\ volume' \in [Days -> Nat] /\ limit \in Nat
        /\ volume[d] \in Nat /\ X402On(d) \in Nat /\ volume'[d] \in Nat /\ X402On(d)' \in Nat
    BY Amounts, ChargesType, SumsStayNumbers DEF LInv, LegacyTypeOK, SpendTypeOK, Summable
  <1>2. ASSUME pay' = pay, volume'[d] <= volume[d] \/ volume'[d] + X402On(d) <= limit
        PROVE  Committed(d)' <= Committed(d) \/ Committed(d)' <= limit
    <2>1. X402On(d)' = X402On(d)
      BY <1>2 DEF X402On
    <2> QED
      BY <1>1, <1>2, <2>1 DEF Committed
  <1>3. ASSUME NEW e \in Days, NEW usd \in Nat, volume' = Added(volume, e, usd),
               Room(limit, volume', e, e)
        PROVE  volume'[d] <= volume[d] \/ volume'[d] + X402On(d) <= limit
    <2>1. CASE d = e
      BY <1>1, <1>3, <2>1, RoomIsWithin, Amounts
    <2>2. CASE d # e
      BY <1>1, <1>3, <2>2 DEF Added
    <2> QED
      BY <2>1, <2>2
  <1>4. ASSUME NEW t \in Txs, TxStep(t)
        PROVE  Committed(d)' <= Committed(d) \/ Committed(d)' <= limit
    <2>1. pay' = pay
      BY <1>4, TxTypes DEF rpVars, payVars
    <2>2. tx[t].usd \in Nat /\ tx[t].day \in Days /\ \A x \in Days : x \in Nat
      BY Amounts
    <2>3. ASSUME NEW e \in CapturedDays, NEW gated \in BOOLEAN, Create(t, e, gated)
          PROVE  volume'[d] <= volume[d] \/ volume'[d] + X402On(d) <= limit
      <3>1. CASE tx[t].usd = 0
        BY <1>1, <2>3, <3>1 DEF Create
      <3>2. CASE tx[t].usd # 0
        <4>1. volume' = Added(volume, e, tx[t].usd) /\ Room(limit, volume', e, e) /\ e \in Days
          BY <2>2, <2>3, <3>2 DEF Create, CreationLimit, CapturedDays
        <4> QED
          BY <1>3, <2>2, <4>1
      <3> QED
        BY <3>1, <3>2
    <2>4. ASSUME NEW e \in CapturedDays, Approve(t, e)
          PROVE  volume'[d] <= volume[d] \/ volume'[d] + X402On(d) <= limit
      <3>1. CASE tx[t].vol # "RESERVED" \/ ~(tx[t].day < e)
        BY <1>1, <2>4, <3>1 DEF Approve, MovedVolume
      <3>2. CASE tx[t].vol = "RESERVED" /\ tx[t].day < e
        <4> DEFINE less == Subtracted(volume, tx[t].day, tx[t].usd)
        <4>1. volume' = Added(less, e, tx[t].usd) /\ Room(limit, volume', e, e) /\ e \in Days
          BY <2>4, <3>2 DEF Approve, MovedVolume, LaterDay, CapturedDays
        <4>2. CASE d = e
          BY <1>1, <2>2, <4>1, <4>2, RoomIsWithin
        <4>3. CASE d # e
          <5>1. less \in [Days -> Nat] /\ less[d] <= volume[d]
            BY <1>1, <2>2, SubtractedIs
          <5> HIDE DEF less
          <5>2. volume'[d] = less[d]
            BY <4>1, <4>3, <5>1 DEF Added
          <5> QED
            BY <5>1, <5>2
        <4> QED
          BY <4>2, <4>3
      <3> QED
        BY <3>1, <3>2
    <2>5. ASSUME SettleVolume(t) PROVE volume'[d] <= volume[d]
      <3>1. volume' = volume \/ volume' = Subtracted(volume, tx[t].day, tx[t].usd)
        BY <2>5 DEF SettleVolume
      <3>2. Subtracted(volume, tx[t].day, tx[t].usd)[d] <= volume[d] /\ volume[d] <= volume[d]
        BY <1>1, <2>2 DEF Subtracted
      <3> QED
        BY <3>1, <3>2
    <2>6. ASSUME volume' = volume PROVE volume'[d] <= volume[d]
      BY <1>1, <2>6
    <2>8. CASE \E usd \in Values \cup {0}, unpriced \in BOOLEAN : Ask(t, usd, unpriced)
      BY <1>2, <2>1, <2>6, <2>8 DEF Ask
    <2>9. CASE Withdraw(t) \/ Submit(t)
      BY <1>2, <2>1, <2>6, <2>9 DEF Withdraw, Submit
    <2>10. CASE Reject(t) \/ Unapprove(t) \/ Stop(t) \/ Observe(t)
      BY <1>2, <2>1, <2>6, <2>10 DEF Reject, Unapprove, Stop, Observe, SetStatus
    <2> QED
      BY <1>2, <1>4, <2>1, <2>3, <2>4, <2>5, <2>8, <2>9, <2>10 DEF TxStep
  <1>5. ASSUME NEW j \in Jobs, JobStep(j)
        PROVE  Committed(d)' <= Committed(d) \/ Committed(d)' <= limit
    <2>1. pay' = pay
      BY <1>5, JobTypes DEF rpVars, payVars
    <2>2. res[j].usd \in Nat /\ res[j].day \in Days
      BY Amounts
    <2>3. ASSUME NEW usd \in Values, NEW e \in CapturedDays, ReserveJob(j, usd, e)
          PROVE  volume'[d] <= volume[d] \/ volume'[d] + X402On(d) <= limit
      <3>1. /\ volume' = Added(volume, e, usd) /\ Room(limit, volume', e, e) /\ e \in Days
            /\ usd \in Nat
        BY <2>3, SpendAssumption DEF ReserveJob, CapturedDays
      <3> QED
        BY <1>3, <3>1
    <2>4. ASSUME CreditJob(j) PROVE volume'[d] <= volume[d]
      BY <1>1, <2>2, <2>4, SubtractedIs DEF CreditJob
    <2>5. ASSUME ReleaseJob(j) \/ PayJob(j) PROVE volume' = volume
      BY <2>5 DEF ReleaseJob, PayJob
    <2>6. volume'[d] <= volume[d] \/ volume'[d] + X402On(d) <= limit
      BY <1>1, <1>5, <2>3, <2>4, <2>5 DEF JobStep
    <2> QED
      BY <1>2, <2>1, <2>6
  <1>6. ASSUME NEW p \in Pays, NEW payee \in Payees, NEW usd \in Prices, NEW e \in CapturedDays,
               ReservePayment(p, payee, usd, e)
        PROVE  Committed(d)' <= Committed(d) \/ Committed(d)' <= limit
    <2>1. /\ Reserve(p, payee, usd, e) /\ volume' = volume /\ e \in Days /\ usd \in Nat
          /\ volume[e] + X402Since(e) + usd <= limit
      BY <1>6, PaymentAssumption DEF ReservePayment, slVars, CapturedDays
    <2>2. X402On(d)' = X402On(d) + (IF d = e THEN usd ELSE 0)
      BY <2>1, ReservationTakes
    <2>3. e \in Nat /\ volume[e] \in Nat /\ X402On(e) \in Nat
      BY <1>1, <2>1, ChargesType, Amounts
    <2>6. e <= e
      BY <2>3
    <2>7. X402On(e) <= X402Since(e) /\ X402Since(e) \in Nat
      BY <2>1, <2>6, OnIsSince
    <2>4. CASE d = e
      BY <1>1, <2>1, <2>2, <2>3, <2>4, <2>7 DEF Committed
    <2>5. CASE d # e
      BY <1>1, <2>1, <2>2, <2>5 DEF Committed
    <2> QED
      BY <2>4, <2>5
  <1>7. ASSUME PaymentStep PROVE Committed(d)' <= Committed(d)
    <2>1. X402On(d)' <= X402On(d) /\ volume' = volume
      BY <1>7, PaymentTakesNoMore, OthersKeepRows
    <2> QED
      BY <1>1, <2>1 DEF Committed
  <1>8. ASSUME PolicyStep PROVE Committed(d)' = Committed(d)
    BY <1>8 DEF PolicyStep, SetLimit, SetActive, Committed, X402On, rpVars, payVars
  <1>9. Committed(d) \in Nat
    BY <1>1 DEF Committed
  <1> QED
    BY <1>4, <1>5, <1>6, <1>7, <1>8, <1>9 DEF OtherStep, SpendNext

(* The step property itself. *)
LEMMA LimitStep ==
    ASSUME LInv, LInv', [LegacyNext]_legacyVars
    PROVE  active /\ limit > 0 /\ legacy' = legacy
           => \A d \in Days : Committed(d)' > Committed(d) => Committed(d)' <= limit
  <1> SUFFICES ASSUME active, limit > 0, legacy' = legacy, NEW d \in Days
               PROVE  Committed(d)' > Committed(d) => Committed(d)' <= limit
    OBVIOUS
  <1>1. Committed(d) \in Nat /\ Committed(d)' \in Nat /\ limit \in Nat
    BY Amounts, CommittedIsNumber, CommittedStaysNumber
  <1>2. CASE OtherStep
    BY <1>1, <1>2, OtherStepWithinLimit
  <1>3. ASSUME NEW j \in Jobs, LegacyJobStep(j) PROVE FALSE
    <2>1. legacy \in [Jobs -> Request]
      BY Amounts
    <2>2. legacy'[j].step # legacy[j].step
      <3>1. CASE \E usd \in Values : Judge(j, usd)
        BY <2>1, <3>1 DEF Judge, Request
      <3>2. CASE \E e \in CapturedDays : AddVolume(j, e)
        BY <2>1, <3>2 DEF AddVolume, Request
      <3>3. CASE \E e \in CapturedDays : InsertJob(j, e)
        BY <2>1, <3>3 DEF InsertJob, Request
      <3>4. CASE RollBack(j) \/ Die(j)
        BY <2>1, <3>4 DEF RollBack, Die, Request
      <3> QED
        BY <1>3, <3>1, <3>2, <3>3, <3>4 DEF LegacyJobStep
    <2> QED
      BY <2>2
  <1>4. CASE UNCHANGED legacyVars
    <2>1. Committed(d)' = Committed(d)
      BY <1>4 DEF legacyVars, spendVars, slVars, rpVars, payVars, Committed, X402On
    <2> QED
      BY <1>1, <2>1
  <1> QED
    BY <1>2, <1>3, <1>4 DEF LegacyNext

(***************************************************************************)
(* What was sent is within the limit.                                      *)
(***************************************************************************)
LEMMA LimitInit == LegacyInit => Outcomes /\ JudgedNow /\ WithinDays
  <1> SUFFICES ASSUME LegacyInit PROVE Outcomes /\ JudgedNow /\ WithinDays
    OBVIOUS
  <1>1. LInv
    BY LInit
  <1> USE DEF LegacyInit, SpendInit
  <1>2. Outcomes /\ JudgedNow
    BY DEF Outcomes, JudgedNow
  <1>3. ASSUME NEW d \in Days, limit > 0 PROVE Committed(d) <= limit + SumTo(BeyondCharges(d), MaxJobs)
    <2>1. \A p \in 1..MaxPays : PayCharges(pay, d)[p] = 0
      BY DEF RpInit, PayCharges, Charge, Counts, Pays
    <2>2. X402On(d) = 0
      BY <2>1, PaymentAssumption, SumOfNothing DEF X402On
    <2>3. Committed(d) = 0
      BY <2>2 DEF Committed
    <2>4. SumTo(BeyondCharges(d), MaxJobs) \in Nat /\ limit \in Nat
      BY <1>1, ChargesType, Amounts
    <2> QED
      BY <2>3, <2>4
  <1> QED
    BY <1>2, <1>3 DEF WithinDays

(* Nothing that was sent and may still be mined is given back. *)
LEMMA OutcomesStep ==
    ASSUME LInv, LegacyNext, Outcomes
    PROVE  Outcomes'
  <1> DEFINE Told(r) ==
                /\ r.sent => r.status \in {"SUBMITTED", "CONFIRMED", "REVERTED", "FAILED"}
                /\ r.vol = "RELEASED" => r.status = "REVERTED" \/ (r.status = "FAILED" /\ ~r.sent)
  <1>1. tx \in [Txs -> TxRow] /\ \A t \in Txs : Told(tx[t])
    BY Amounts DEF Outcomes
  <1>2. ASSUME NEW t \in Txs, TxStep(t) PROVE Outcomes'
    <2>1. tx[t] \in TxRow /\ Told(tx[t]) /\ Reserves(tx[t])
      BY <1>1 DEF LInv, LegacyTypeOK, SpendTypeOK, Reserves
    <2>2. CASE \E usd \in Values \cup {0}, unpriced \in BOOLEAN : Ask(t, usd, unpriced)
      <3>1. tx[t].status = "none" /\ tx'[t].sent = tx[t].sent /\ tx'[t].vol = tx[t].vol
        BY <1>1, <2>2 DEF Ask, TxRow
      <3> QED
        BY <2>1, <3>1, <1>1, <1>2, OneRow DEF Outcomes, Reserves
    <2>3. CASE Withdraw(t)
      <3>1. tx[t].status = "asked" /\ tx'[t].sent = tx[t].sent /\ tx'[t].vol = tx[t].vol
        BY <1>1, <2>3 DEF Withdraw, TxRow
      <3> QED
        BY <2>1, <3>1, <1>1, <1>2, OneRow DEF Outcomes, Reserves
    <2>4. CASE \E d \in CapturedDays, gated \in BOOLEAN : Create(t, d, gated)
      <3>1. tx[t].status = "asked" /\ tx'[t].sent = tx[t].sent /\ tx'[t].vol \in {"NONE", "RESERVED"}
        BY <1>1, <2>1, <2>4 DEF Create, NewRow, TxRow
      <3> QED
        BY <2>1, <3>1, <1>1, <1>2, OneRow DEF Outcomes, Reserves
    <2>5. CASE \E d \in CapturedDays : Approve(t, d)
      <3>1. tx[t].status = "PENDING_APPROVAL" /\ tx'[t].sent = tx[t].sent /\ tx'[t].vol = tx[t].vol
        BY <1>1, <2>5 DEF Approve, Approvable, TxRow
      <3> QED
        BY <2>1, <3>1, <1>1, <1>2, OneRow DEF Outcomes
    <2>6. CASE Reject(t) \/ Unapprove(t) \/ Stop(t)
      <3>1. /\ tx[t].status \in {"PENDING_APPROVAL", "QUEUED"}
            /\ tx'[t].sent = tx[t].sent /\ tx'[t].vol = tx[t].vol
        BY <1>1, <2>6 DEF Reject, Unapprove, Stop, SetStatus, TxRow
      <3> QED
        BY <2>1, <3>1, <1>1, <1>2, OneRow DEF Outcomes
    <2>7. CASE Submit(t)
      <3>1. tx[t].status = "QUEUED" /\ tx'[t].status = "SUBMITTED" /\ tx'[t].vol = tx[t].vol
        BY <1>1, <2>7 DEF Submit, TxRow
      <3> QED
        BY <2>1, <3>1, <1>1, <1>2, OneRow DEF Outcomes
    <2>8. CASE Observe(t)
      <3>1. /\ tx[t].status = "SUBMITTED" /\ tx'[t].status \in {"CONFIRMED", "REVERTED", "FAILED"}
            /\ tx'[t].vol = tx[t].vol
        BY <1>1, <2>8 DEF Observe, SetStatus, TxRow
      <3> QED
        BY <2>1, <3>1, <1>1, <1>2, OneRow DEF Outcomes
    <2>9. CASE SettleVolume(t)
      <3>1. PICK vol \in Settlements(tx[t]) : tx' = [tx EXCEPT ![t].vol = vol]
        BY <2>9 DEF SettleVolume
      <3>2. tx'[t].status = tx[t].status /\ tx'[t].sent = tx[t].sent /\ tx'[t].vol = vol
        BY <1>1, <3>1 DEF TxRow
      <3>3. vol = "RELEASED" => tx[t].status = "REVERTED" \/ (tx[t].status = "FAILED" /\ ~tx[t].sent)
        BY <3>1 DEF Settlements
      <3> QED
        BY <2>1, <3>2, <3>3, <1>1, <1>2, OneRow DEF Outcomes
    <2> QED
      BY <1>2, <2>2, <2>3, <2>4, <2>5, <2>6, <2>7, <2>8, <2>9 DEF TxStep
  <1>3. ASSUME UNCHANGED tx PROVE Outcomes'
    BY <1>3 DEF Outcomes
  <1>4. ASSUME OtherStep PROVE Outcomes'
    BY <1>2, <1>3, <1>4, OneRow, OthersKeepRows DEF OtherStep, SpendNext
  <1>5. ASSUME NEW j \in Jobs, LegacyJobStep(j) PROVE Outcomes'
    BY <1>3, <1>5, OneRow
  <1> QED
    BY <1>4, <1>5 DEF LegacyNext

(* The policy is written by its own steps only, and those end its steady   *)
(* time.                                                                   *)
LEMMA SteadyPolicy ==
    ASSUME LInv, LegacyNext, steady'
    PROVE  UNCHANGED policyVars
  <1>1. ASSUME NEW t \in Txs, TxStep(t) PROVE UNCHANGED policyVars
    BY <1>1, TxTypes
  <1>2. ASSUME NEW j \in Jobs, JobStep(j) PROVE UNCHANGED policyVars
    BY <1>2, JobTypes
  <1>3. ASSUME NEW j \in Jobs, LegacyJobStep(j) PROVE UNCHANGED policyVars
    BY <1>3, OneRow
  <1>4. ASSUME OtherStep PROVE UNCHANGED policyVars
    BY <1>1, <1>2, <1>4, OthersKeepRows DEF OtherStep, SpendNext
  <1> QED
    BY <1>3, <1>4 DEF LegacyNext

(* A request is judged by the policy of its time, which a steady one still is. *)
LEMMA JudgedStep ==
    ASSUME LInv, LegacyNext, JudgedNow
    PROVE  JudgedNow'
  <1> SUFFICES ASSUME steady'
               PROVE  active' /\ \A i \in Jobs : legacy'[i].step # "none" => legacy'[i].lim = limit'
    BY DEF JudgedNow
  <1>1. limit' = limit /\ active' = active /\ steady
    BY SteadyPolicy DEF policyVars
  <1>2. active /\ \A i \in Jobs : legacy[i].step # "none" => legacy[i].lim = limit
    BY <1>1 DEF JudgedNow
  <1>3. legacy \in [Jobs -> Request]
    BY Amounts
  <1>4. ASSUME NEW j \in Jobs, LegacyJobStep(j)
        PROVE  \A i \in Jobs : legacy'[i].step # "none" => legacy'[i].lim = limit
    <2>1. CASE \E usd \in Values : Judge(j, usd)
      <3>1. legacy'[j].lim = limit
        BY <1>2, <1>3, <2>1 DEF Judge, CreationLimit, Request
      <3> QED
        BY <1>2, <1>4, <3>1, OneRow
    <2>2. CASE ~ \E usd \in Values : Judge(j, usd)
      <3>1. legacy[j].step # "none" /\ legacy'[j].lim = legacy[j].lim
        <4>1. CASE \E d \in CapturedDays : AddVolume(j, d)
          BY <1>3, <4>1 DEF AddVolume, Request
        <4>2. CASE \E d \in CapturedDays : InsertJob(j, d)
          BY <1>3, <4>2 DEF InsertJob, Request
        <4>3. CASE RollBack(j) \/ Die(j)
          BY <1>3, <4>3 DEF RollBack, Die, Request
        <4> QED
          BY <1>4, <2>2, <4>1, <4>2, <4>3 DEF LegacyJobStep
      <3> QED
        BY <1>2, <1>4, <3>1, OneRow
    <2> QED
      BY <2>1, <2>2
  <1>5. ASSUME OtherStep
        PROVE  \A i \in Jobs : legacy'[i].step # "none" => legacy'[i].lim = limit
    BY <1>2, <1>5 DEF OtherStep
  <1> QED
    BY <1>1, <1>2, <1>4, <1>5 DEF LegacyNext

(* What a request has beyond the limit. *)
BeyondOf(r, d) == IF r.step \in {"refused", "lost"} /\ r.day = d THEN r.usd ELSE 0

(* The step of one job changes what requests have beyond the limit by its own. *)
LEMMA BeyondMoves ==
    ASSUME LInv, LInv', NEW j \in Jobs, \A i \in Jobs : i # j => legacy'[i] = legacy[i], NEW d \in Days
    PROVE  /\ SumTo(BeyondCharges(d)', MaxJobs)
                = SumTo(BeyondCharges(d), MaxJobs) - BeyondOf(legacy[j], d) + BeyondOf(legacy'[j], d)
           /\ SumTo(BeyondCharges(d), MaxJobs) \in Nat /\ SumTo(BeyondCharges(d)', MaxJobs) \in Nat
           /\ BeyondOf(legacy[j], d) \in Nat /\ BeyondOf(legacy'[j], d) \in Nat
  <1>1. /\ MaxJobs \in Nat /\ j \in 1..MaxJobs
        /\ BeyondCharges(d) \in [1..MaxJobs -> Nat] /\ BeyondCharges(d)' \in [1..MaxJobs -> Nat]
        /\ SumTo(BeyondCharges(d), MaxJobs) \in Nat /\ SumTo(BeyondCharges(d)', MaxJobs) \in Nat
    BY Amounts, SumsAreNumbers, SumsStayNumbers DEF Jobs, Summable
  <1>2. \A i \in 1..MaxJobs : i # j => BeyondCharges(d)'[i] = BeyondCharges(d)[i]
    BY DEF BeyondCharges, Beyond, Jobs
  <1>3. BeyondCharges(d)[j] = BeyondOf(legacy[j], d) /\ BeyondCharges(d)'[j] = BeyondOf(legacy'[j], d)
    BY DEF BeyondCharges, Beyond, BeyondOf
  <1>4. SumTo(BeyondCharges(d)', MaxJobs)
          = SumTo(BeyondCharges(d), MaxJobs) - BeyondCharges(d)[j] + BeyondCharges(d)'[j]
    BY <1>1, <1>2, SumChange
  <1>5. BeyondCharges(d)[j] \in Nat /\ BeyondCharges(d)'[j] \in Nat
    BY <1>1
  <1> QED
    BY <1>1, <1>3, <1>4, <1>5

(* Where a legacy request runs there are no payments. *)
LEMMA NoPayments ==
    ASSUME NoX402, LInv, NEW j \in Jobs, legacy[j].step # "none", NEW d \in Days
    PROVE  X402On(d) = 0
  <1>1. scenario \in Scenarios /\ scenario.legacy /\ \A p \in Pays : p > scenario.pays => pay[p].status = "none"
    BY DEF LInv, WithinScenario
  <1>2. scenario.pays = 0
    BY <1>1 DEF NoX402
  <1>3. \A p \in 1..MaxPays : PayCharges(pay, d)[p] = 0
    BY <1>1, <1>2, PaymentAssumption DEF PayCharges, Charge, Counts, Pays
  <1> QED
    BY <1>3, PaymentAssumption, SumOfNothing DEF X402On

(* A legacy request keeps the days within the limit, but for what it has   *)
(* beyond it.                                                              *)
LEMMA LegacyWithinDays ==
    ASSUME NoX402, LInv, LInv', BooksBalance, JudgedNow, WithinDays, steady, limit > 0,
           NEW j \in Jobs, LegacyJobStep(j), NEW d \in Days
    PROVE  Committed(d)' <= limit + SumTo(BeyondCharges(d)', MaxJobs)
  <1>1. /\ volume \in [Days -> Nat] /\ legacy \in [Jobs -> Request] /\ legacy[j] \in Request
        /\ legacy[j].usd \in Nat /\ legacy[j].day \in Days /\ limit \in Nat
        /\ volume[d] \in Nat /\ X402On(d) \in Nat /\ volume'[d] \in Nat
    BY Amounts, SumsAreNumbers, SumsStayNumbers DEF Summable
  <1>2. X402On(d)' = X402On(d) /\ \A i \in Jobs : i # j => legacy'[i] = legacy[i]
    BY OneRow DEF X402On, rpVars, payVars
  <1>3. Committed(d) <= limit + SumTo(BeyondCharges(d), MaxJobs)
    BY DEF WithinDays
  <1>4. /\ SumTo(BeyondCharges(d)', MaxJobs)
             = SumTo(BeyondCharges(d), MaxJobs) - BeyondOf(legacy[j], d) + BeyondOf(legacy'[j], d)
        /\ SumTo(BeyondCharges(d), MaxJobs) \in Nat /\ SumTo(BeyondCharges(d)', MaxJobs) \in Nat
        /\ BeyondOf(legacy[j], d) \in Nat /\ BeyondOf(legacy'[j], d) \in Nat
    BY <1>2, BeyondMoves
  <1>5. ASSUME volume'[d] - BeyondOf(legacy'[j], d) <= volume[d] - BeyondOf(legacy[j], d)
        PROVE  Committed(d)' <= limit + SumTo(BeyondCharges(d)', MaxJobs)
    BY <1>1, <1>2, <1>3, <1>4, <1>5 DEF Committed
  <1>6. ASSUME volume'[d] + X402On(d) <= limit
        PROVE  Committed(d)' <= limit + SumTo(BeyondCharges(d)', MaxJobs)
    BY <1>1, <1>2, <1>4, <1>6 DEF Committed
  <1>7. CASE \E usd \in Values : Judge(j, usd)
    <2>1. volume' = volume /\ legacy[j].step = "none" /\ legacy'[j].step = "judged"
      BY <1>1, <1>7 DEF Judge, Request, spendVars, slVars
    <2>2. BeyondOf(legacy[j], d) = 0 /\ BeyondOf(legacy'[j], d) = 0
      BY <2>1 DEF BeyondOf
    <2> QED
      BY <1>1, <1>5, <2>1, <2>2
  <1>8. ASSUME NEW e \in CapturedDays, AddVolume(j, e)
        PROVE  Committed(d)' <= limit + SumTo(BeyondCharges(d)', MaxJobs)
    <2>1. /\ legacy[j].step = "judged" /\ e \in Days
          /\ legacy'[j].step = IF TooMuch(volume', legacy[j], e) THEN "refused" ELSE "reserved"
          /\ legacy'[j].day = e /\ legacy'[j].usd = legacy[j].usd
          /\ volume' = Added(volume, e, legacy[j].usd)
      BY <1>1, <1>8 DEF AddVolume, CapturedDays, Request
    <2>2. BeyondOf(legacy[j], d) = 0
      BY <2>1 DEF BeyondOf
    <2>3. volume'[d] = volume[d] + (IF d = e THEN legacy[j].usd ELSE 0)
      BY <1>1, <2>1 DEF Added
    <2>4. CASE TooMuch(volume', legacy[j], e)
      <3>1. BeyondOf(legacy'[j], d) = IF d = e THEN legacy[j].usd ELSE 0
        BY <2>1, <2>4 DEF BeyondOf
      <3> QED
        BY <1>1, <1>5, <2>2, <2>3, <3>1
    <2>5. CASE ~TooMuch(volume', legacy[j], e)
      <3>1. BeyondOf(legacy'[j], d) = 0
        BY <2>1, <2>5 DEF BeyondOf
      <3>2. CASE d # e
        BY <1>1, <1>5, <2>2, <2>3, <3>1, <3>2
      <3>3. CASE d = e
        <4>1. legacy[j].lim = limit
          BY <2>1 DEF JudgedNow
        <4>2. volume'[d] <= limit
          BY <1>1, <2>5, <3>3, <4>1 DEF TooMuch
        <4>3. X402On(d) = 0
          BY <2>1, NoPayments
        <4> QED
          BY <1>1, <1>6, <4>2, <4>3
      <3> QED
        BY <3>2, <3>3
    <2> QED
      BY <2>4, <2>5
  <1>9. CASE \E e \in CapturedDays : InsertJob(j, e)
    <2>1. /\ volume' = volume /\ legacy[j].step \in {"reserved", "judged"}
          /\ legacy'[j].step = "created"
      BY <1>1, <1>9 DEF InsertJob, Request
    <2>2. BeyondOf(legacy[j], d) = 0 /\ BeyondOf(legacy'[j], d) = 0
      BY <2>1 DEF BeyondOf
    <2> QED
      BY <1>1, <1>5, <2>1, <2>2
  <1>10. CASE RollBack(j)
    <2>1. /\ legacy[j].step = "refused" /\ legacy'[j].step = "over"
      BY <1>1, <1>10 DEF RollBack, Request
    <2>2. BeyondOf(legacy'[j], d) = 0 /\ BeyondOf(legacy[j], d) = ShareOf(legacy[j], res[j], d)
      BY <2>1 DEF BeyondOf, ShareOf
    <2>3. ShareOf(legacy'[j], res'[j], d) = 0
      <3>1. res' = res /\ ~JobCounts(res[j])
        BY <1>10, <2>1, NoShare DEF RollBack, LInv, RequestsApart
      <3> QED
        BY <2>1, <3>1 DEF ShareOf
    <2>4. volume'[d] = volume[d] - ShareOf(legacy[j], res[j], d) + ShareOf(legacy'[j], res'[j], d)
      BY LegacyMovesVolume
    <2> QED
      BY <1>1, <1>4, <1>5, <2>2, <2>3, <2>4
  <1>11. CASE Die(j)
    <2>1. /\ volume' = volume /\ legacy[j].step \in {"reserved", "refused"}
          /\ legacy'[j].step = "lost" /\ legacy'[j].usd = legacy[j].usd /\ legacy'[j].day = legacy[j].day
      BY <1>1, <1>11 DEF Die, Request, spendVars, slVars
    <2>2. BeyondOf(legacy[j], d) <= BeyondOf(legacy'[j], d)
      BY <1>1, <2>1 DEF BeyondOf
    <2> QED
      BY <1>1, <1>4, <1>5, <2>1, <2>2
  <1> QED
    BY <1>7, <1>8, <1>9, <1>10, <1>11 DEF LegacyJobStep

(* A day that grows was checked, or grew by a request that is beyond the limit. *)
LEMMA WithinDaysStep ==
    ASSUME NoX402, LInv, LInv', LegacyNext, BooksBalance, JudgedNow, WithinDays
    PROVE  WithinDays'
  <1> SUFFICES ASSUME steady', limit' > 0, NEW d \in Days
               PROVE  Committed(d)' <= limit' + SumTo(BeyondCharges(d)', MaxJobs)
    BY DEF WithinDays
  <1>1. limit' = limit /\ steady /\ limit > 0 /\ active
    BY SteadyPolicy DEF policyVars, JudgedNow
  <1>2. CASE OtherStep
    <2>1. BeyondCharges(d)' = BeyondCharges(d)
      BY <1>2 DEF OtherStep, BeyondCharges, Beyond
    <2>2. Committed(d) <= limit + SumTo(BeyondCharges(d), MaxJobs)
      BY <1>1 DEF WithinDays
    <2>3. Committed(d)' <= Committed(d) \/ Committed(d)' <= limit
      BY <1>1, <1>2, OtherStepWithinLimit
    <2>4. /\ limit \in Nat /\ SumTo(BeyondCharges(d), MaxJobs) \in Nat
          /\ Committed(d) \in Nat /\ Committed(d)' \in Nat
      BY Amounts, ChargesType, CommittedIsNumber, CommittedStaysNumber
    <2> QED
      BY <1>1, <2>1, <2>2, <2>3, <2>4
  <1>3. ASSUME NEW j \in Jobs, LegacyJobStep(j)
        PROVE  Committed(d)' <= limit + SumTo(BeyondCharges(d)', MaxJobs)
    BY <1>1, <1>3, LegacyWithinDays
  <1> QED
    BY <1>1, <1>2, <1>3 DEF LegacyNext

(* What was sent or is promised of a day is in its volume, next to what    *)
(* requests have beyond the limit.                                         *)
LEMMA SentIsCommitted ==
    ASSUME LInv, BooksBalance, SameDay, Outcomes, NEW d \in Days
    PROVE  /\ SumTo(MaySpend(d), MaxTxs) + SumTo(ResCharges(res, d), MaxJobs)
                + SumTo(BeyondCharges(d), MaxJobs) <= volume[d]
           /\ SumTo(MaySpend(d), MaxTxs) \in Nat
  <1>1. /\ MaxTxs \in Nat /\ MaxJobs \in Nat
        /\ TxCharges(tx, d) \in [1..MaxTxs -> Nat] /\ ResCharges(res, d) \in [1..MaxJobs -> Nat]
        /\ HeldCharges(d) \in [1..MaxJobs -> Nat] /\ LeftCharges(d) \in [1..MaxJobs -> Nat]
        /\ BeyondCharges(d) \in [1..MaxJobs -> Nat]
        /\ \A t \in Txs : tx[t].usd \in Nat /\ tx[t] \in TxRow
        /\ \A i \in Jobs : res[i].usd \in Nat /\ legacy[i].usd \in Nat
    BY Amounts, ChargesType
  <1>2. MaySpend(d) \in [1..MaxTxs -> Nat]
    BY <1>1 DEF MaySpend, Txs
  <1>3. ASSUME NEW t \in 1..MaxTxs PROVE MaySpend(d)[t] <= TxCharges(tx, d)[t]
    <2>1. t \in Txs /\ tx[t].usd \in Nat
      BY <1>1 DEF Txs
    <2>2. Reserves(tx[t])
      BY <2>1 DEF LInv, LegacyTypeOK, SpendTypeOK, Reserves
    <2>3. CASE tx[t].sent /\ tx[t].status # "REVERTED" /\ tx[t].day = d /\ tx[t].usd > 0
      <3>1. tx[t].vol # "NONE" /\ tx[t].vol # "RELEASED" /\ tx[t].vol \in VolumeState
        BY <1>1, <2>1, <2>2, <2>3 DEF Outcomes, Reserves, TxRow
      <3>2. TxCounts(tx[t])
        BY <3>1 DEF TxCounts, VolumeState
      <3> QED
        BY <2>1, <2>3, <3>2 DEF MaySpend, TxCharges
    <2>4. CASE ~(tx[t].sent /\ tx[t].status # "REVERTED" /\ tx[t].day = d /\ tx[t].usd > 0)
      <3>1. MaySpend(d)[t] = 0
        BY <2>1, <2>4 DEF MaySpend
      <3>2. TxCharges(tx, d)[t] \in Nat
        BY <1>1
      <3> QED
        BY <3>1, <3>2
    <2> QED
      BY <2>3, <2>4
  <1>4. SumTo(MaySpend(d), MaxTxs) <= SumTo(TxCharges(tx, d), MaxTxs)
    BY <1>1, <1>2, <1>3, SumMonotone
  <1> DEFINE promised == [i \in 1..MaxJobs |-> ResCharges(res, d)[i] + BeyondCharges(d)[i]]
             share == [i \in 1..MaxJobs |-> HeldCharges(d)[i] + LeftCharges(d)[i]]
  <1>5. promised \in [1..MaxJobs -> Nat] /\ share \in [1..MaxJobs -> Nat]
    <2>1. ASSUME NEW i \in 1..MaxJobs
          PROVE  /\ ResCharges(res, d)[i] \in Nat /\ BeyondCharges(d)[i] \in Nat
                 /\ HeldCharges(d)[i] \in Nat /\ LeftCharges(d)[i] \in Nat
      BY <1>1
    <2> QED
      BY <2>1
  <1>6. ASSUME NEW i \in 1..MaxJobs PROVE promised[i] <= share[i]
    <2>1. i \in Jobs /\ legacy[i] \in Request /\ res[i].usd \in Nat /\ legacy[i].usd \in Nat
      BY <1>1, Amounts DEF Jobs
    <2>2. share[i] = ShareOf(legacy[i], res[i], d)
      BY <2>1, SharesAre DEF Share
    <2>3. promised[i] = (IF JobCounts(res[i]) /\ res[i].day = d THEN res[i].usd ELSE 0) + BeyondOf(legacy[i], d)
      BY <2>1 DEF ResCharges, BeyondCharges, Beyond, BeyondOf
    <2>4. legacy[i].step \notin {"none", "created"} => ~JobCounts(res[i])
      BY <2>1, NoShare DEF LInv, RequestsApart
    <2>5. legacy[i].step = "created" => legacy[i].day = res[i].day
      BY <2>1 DEF SameDay
    <2> HIDE DEF share, promised
    <2>6. CASE legacy[i].step = "created"
      BY <2>1, <2>2, <2>3, <2>5, <2>6 DEF ShareOf, BeyondOf
    <2>7. CASE legacy[i].step \in {"reserved", "refused", "lost"}
      BY <2>1, <2>2, <2>3, <2>4, <2>7 DEF ShareOf, BeyondOf
    <2>8. CASE legacy[i].step \in {"none", "judged", "over"}
      BY <2>1, <2>2, <2>3, <2>4, <2>8 DEF ShareOf, BeyondOf
    <2>9. legacy[i].step \in LegacyStep
      BY <2>1 DEF Request
    <2> QED
      BY <2>6, <2>7, <2>8, <2>9 DEF LegacyStep
  <1>7. /\ SumTo(promised, MaxJobs) = SumTo(ResCharges(res, d), MaxJobs) + SumTo(BeyondCharges(d), MaxJobs)
        /\ SumTo(share, MaxJobs) = SumTo(HeldCharges(d), MaxJobs) + SumTo(LeftCharges(d), MaxJobs)
    BY <1>1, SumOfSums
  <1> HIDE DEF promised, share
  <1>8. SumTo(promised, MaxJobs) <= SumTo(share, MaxJobs)
    BY <1>1, <1>5, <1>6, SumMonotone
  <1>9. volume[d] = SumTo(TxCharges(tx, d), MaxTxs)
                    + SumTo(HeldCharges(d), MaxJobs) + SumTo(LeftCharges(d), MaxJobs)
    BY DEF BooksBalance
  <1>10. SumTo(MaySpend(d), MaxTxs) \in Nat
    BY <1>1, <1>2, SumType
  <1> QED
    BY <1>4, <1>7, <1>8, <1>9, <1>10, ChargesType

(* What was sent or is promised is committed, and what is committed past    *)
(* the limit is neither.                                                   *)
LEMMA LimitKept ==
    ASSUME LInv, BooksBalance, SameDay, Outcomes, WithinDays
    PROVE  SentWithinLimit
  <1> SUFFICES ASSUME steady, limit > 0, NEW d \in Days
               PROVE  SumTo(MaySpend(d), MaxTxs) + SumTo(ResCharges(res, d), MaxJobs) + X402On(d) <= limit
    BY DEF SentWithinLimit, OneDailyLimit
  <1>1. /\ SumTo(MaySpend(d), MaxTxs) + SumTo(ResCharges(res, d), MaxJobs)
             + SumTo(BeyondCharges(d), MaxJobs) <= volume[d]
        /\ SumTo(MaySpend(d), MaxTxs) \in Nat
    BY SentIsCommitted
  <1>2. volume[d] + X402On(d) <= limit + SumTo(BeyondCharges(d), MaxJobs)
    BY DEF WithinDays, Committed
  <1>3. /\ SumTo(ResCharges(res, d), MaxJobs) \in Nat /\ SumTo(BeyondCharges(d), MaxJobs) \in Nat
        /\ X402On(d) \in Nat /\ volume[d] \in Nat /\ limit \in Nat
    BY ChargesType, Amounts
  <1> QED
    BY <1>1, <1>2, <1>3

(***************************************************************************)
(* The theorems about the daily limit.                                     *)
(***************************************************************************)
(* With what else an agent spends, its payments keep what they promise.    *)
THEOREM SpendingKeepsPayments == LegacySpec => RpSpec
  <1>1. LegacyInit => RpInit
    BY DEF LegacyInit, SpendInit
  <1>2. [LegacyNext]_legacyVars => [RpNext]_rpVars
    BY LegacyStepRefines DEF legacyVars, spendVars
  <1> QED
    BY <1>1, <1>2, PTL DEF LegacySpec, RpSpec

(* The inductive invariant holds of every behaviour. *)
THEOREM SpendingInvariant == LegacySpec => []LInv
  BY LInit, LStep, PTL DEF LegacySpec

(* Rows, requests and volumes keep their types, a row has a reservation    *)
(* exactly if it was created and is worth something, and a legacy job      *)
(* records the amount that was added for it.                               *)
THEOREM LegacyTypeCorrect == LegacySpec => []LegacyTypeOK
  BY SpendingInvariant, PTL DEF LInv

(* A step that adds to a day under an active policy leaves it within the   *)
(* limit, whichever of the three ways it is spent and however captured     *)
(* days, approvals and releases interleave.                                *)
THEOREM LimitAlwaysBinds == LegacySpec => LimitBinds
  <1>1. LInv /\ LInv' /\ [LegacyNext]_legacyVars
        => [active /\ limit > 0 /\ legacy' = legacy
            => \A d \in Days : Committed(d)' > Committed(d) => Committed(d)' <= limit]_legacyVars
    BY LimitStep
  <1> QED
    BY <1>1, SpendingInvariant, PTL DEF LegacySpec, LimitBinds

(* The volume of a day is what is reserved on it and what requests that    *)
(* died left there, if the legacy path sees no midnight.                   *)
THEOREM BooksAlwaysBalance ==
    ASSUME OneDay
    PROVE  LegacySpec => []BooksBalance
  <1>1. LegacyInit => BooksBalance /\ SameDay
    BY BooksInit
  <1>2. LInv /\ LInv' /\ BooksBalance /\ SameDay /\ [LegacyNext]_legacyVars => BooksBalance' /\ SameDay'
    <2>1. ASSUME LInv, LInv', BooksBalance, SameDay, LegacyNext PROVE BooksBalance' /\ SameDay'
      BY <2>1, BooksStep, SameDayStep
    <2>2. ASSUME LInv, LInv', BooksBalance, SameDay, UNCHANGED legacyVars PROVE BooksBalance' /\ SameDay'
      BY <2>2 DEF BooksBalance, SameDay, HeldCharges, LeftCharges, Holds, Held, legacyVars, spendVars, slVars
    <2> QED
      BY <2>1, <2>2
  <1> QED
    BY <1>1, <1>2, SpendingInvariant, PTL DEF LegacySpec

(* Under a policy that was neither changed nor paused, what was sent or is *)
(* promised of a day is within the limit, if the legacy path sees no       *)
(* midnight and no x402 payment.                                           *)
THEOREM SentAlwaysWithinLimit ==
    ASSUME OneDay, NoX402
    PROVE  LegacySpec => []SentWithinLimit
  <1> DEFINE Kept == BooksBalance /\ SameDay /\ Outcomes /\ JudgedNow /\ WithinDays
  <1>1. LegacyInit => Kept
    BY BooksInit, LimitInit
  <1>2. LInv /\ LInv' /\ Kept /\ [LegacyNext]_legacyVars => Kept'
    <2>1. ASSUME LInv, LInv', Kept, LegacyNext PROVE Kept'
      BY <2>1, BooksStep, SameDayStep, OutcomesStep, JudgedStep, WithinDaysStep
    <2>2. ASSUME LInv, LInv', Kept, UNCHANGED legacyVars PROVE Kept'
      <3>1. UNCHANGED <<limit, active, steady, volume, tx, res, pay, legacy>>
        BY <2>2 DEF legacyVars, spendVars, slVars, policyVars, rpVars, payVars
      <3>2. BooksBalance' /\ SameDay'
        BY <2>2, <3>1 DEF BooksBalance, SameDay, HeldCharges, LeftCharges, Holds, Held
      <3>3. Outcomes' /\ JudgedNow'
        BY <2>2, <3>1 DEF Outcomes, JudgedNow
      <3>4. WithinDays'
        BY <2>2, <3>1 DEF WithinDays, Committed, X402On, BeyondCharges, Beyond
      <3> QED
        BY <3>2, <3>3, <3>4
    <2> QED
      BY <2>1, <2>2
  <1>3. LInv /\ Kept => SentWithinLimit
    BY LimitKept
  <1> QED
    BY <1>1, <1>2, <1>3, SpendingInvariant, PTL DEF LegacySpec
=============================================================================
