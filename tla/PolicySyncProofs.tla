-------------------------- MODULE PolicySyncProofs --------------------------
(***************************************************************************)
(* Theorems about PolicyModule and PolicySync, for any addresses, stored   *)
(* policies, number of requests, changes, calls and faults.                *)
(*                                                                         *)
(* What a patient administrator is promised cannot be said of the module   *)
(* alone: Patient says of every call in flight, and of every request that  *)
(* has read, that the module is still at least as far as they saw it.      *)
(***************************************************************************)
EXTENDS PolicySync, FiniteSetTheorems, TLAPS

(* A non-empty set of natural numbers has a least one. *)
LEMMA LeastNumber ==
    ASSUME NEW T, T \subseteq Nat, T # {}
    PROVE  \E m \in T : \A k \in T : m <= k
  <1> DEFINE R == OpToRel(<, Nat)
  <1>1. IsWellFoundedOn(R, Nat)
    BY NatLessThanWellFounded, Zenon
  <1>2. \A x, y \in Nat : y < x => <<y, x>> \in R
    BY DEF OpToRel
  <1> HIDE DEF R
  <1>3. PICK m \in T : \A k \in T : ~ (<<k, m>> \in R)
    BY <1>1, WFMin
  <1>4. \A k \in T : ~ (k < m)
    BY <1>2, <1>3
  <1> QED
    BY <1>4

(* The least number of a set, with what makes it useful: the one before it *)
(* is not in the set.                                                      *)
LEMMA FirstNumber ==
    ASSUME NEW M \in Nat, NEW T, T \subseteq 0..M, T # {}
    PROVE  \E m \in T : m # 0 => m - 1 \in 0..M /\ m - 1 \notin T /\ m \in 1..M
  <1>1. PICK m \in T : \A k \in T : m <= k
    <2>1. T \subseteq Nat
      OBVIOUS
    <2> QED
      BY <2>1, LeastNumber
  <1>2. m \in 0..M
    OBVIOUS
  <1>3. ASSUME m # 0 PROVE m - 1 \in 0..M /\ m \in 1..M
    BY <1>2, <1>3
  <1>4. m - 1 \notin T
    BY <1>1, <1>2
  <1> QED
    BY <1>3, <1>4

(* The calls that a plan, or the operator, may consist of, by their form.  *)
ListCall == [name : {"updateWhitelist"}, entries : Seq(Entry)]
CoreCall == [name : {"setPolicy"}, core : Cores, active : BOOLEAN]
Switches == [name : {"emergencyPause", "resume"}]
Call     == ListCall \cup CoreCall \cup Switches

(* The addresses that a list of entries names. *)
Named(entries) == {entries[i].target : i \in DOMAIN entries}

(* A module whose counter is exact. *)
Exact(m) == m \in Module /\ m.count = Cardinality(m.allowed)

(* The entries say of every address they name whether L lists it. *)
Follows(entries, L) ==
    \A i \in DOMAIN entries : entries[i].allowed = (entries[i].target \in L)

(***************************************************************************)
(* One call of updateWhitelist.                                            *)
(***************************************************************************)
(* The loop of the contract after n entries. *)
IsLoop(f, m, entries, n) ==
    f = [i \in 0..n |-> IF i = 0 THEN m ELSE Listed(f[i - 1], entries[i])]

(* One entry leaves the counter exact, and lists its address or not. *)
LEMMA ListedIs ==
    ASSUME NEW m, Exact(m), NEW e \in Entry
    PROVE  /\ Exact(Listed(m, e))
           /\ Listed(m, e).hasPolicy = m.hasPolicy
           /\ Listed(m, e).core = m.core /\ Listed(m, e).active = m.active
           /\ Listed(m, e).allowed = IF e.allowed THEN m.allowed \cup {e.target}
                                                  ELSE m.allowed \ {e.target}
  <1>1. /\ m \in Module /\ m.count = Cardinality(m.allowed) /\ m.count \in Nat
        /\ m.allowed \in SUBSET Targets /\ e.target \in Targets /\ e.allowed \in BOOLEAN
    BY DEF Exact, Module, Entry
  <1>2. IsFiniteSet(m.allowed)
    BY <1>1, ModuleAssumption, FS_Subset
  <1>3. CASE (e.target \in m.allowed) = e.allowed
    <2>1. Listed(m, e) = m
      BY <1>3 DEF Listed
    <2>2. m.allowed = IF e.allowed THEN m.allowed \cup {e.target} ELSE m.allowed \ {e.target}
      BY <1>1, <1>3
    <2> QED
      BY <2>1, <2>2
  <1>4. CASE e.allowed /\ e.target \notin m.allowed
    <2>1. Listed(m, e) = [m EXCEPT !.allowed = m.allowed \cup {e.target}, !.count = m.count + 1]
      BY <1>4 DEF Listed
    <2>2. Cardinality(m.allowed \cup {e.target}) = m.count + 1
      <3>1. Cardinality(m.allowed \cup {e.target})
               = IF e.target \in m.allowed THEN Cardinality(m.allowed) ELSE Cardinality(m.allowed) + 1
        BY <1>2, FS_AddElement
      <3> QED
        BY <1>1, <1>4, <3>1
    <2>3. /\ Listed(m, e).allowed = m.allowed \cup {e.target} /\ Listed(m, e).count = m.count + 1
          /\ Listed(m, e).hasPolicy = m.hasPolicy /\ Listed(m, e).core = m.core
          /\ Listed(m, e).active = m.active /\ Listed(m, e) \in Module
      <3> DEFINE A == m.allowed \cup {e.target}
                 n == m.count + 1
      <3>1. A \in SUBSET Targets /\ n \in Nat
        BY <1>1
      <3>2. Listed(m, e) = [m EXCEPT !.allowed = A, !.count = n]
        BY <2>1
      <3> HIDE DEF A, n
      <3>3. [m EXCEPT !.allowed = A, !.count = n] \in Module
        BY <1>1, <3>1 DEF Module
      <3>4. /\ Listed(m, e).allowed = A /\ Listed(m, e).count = n
            /\ Listed(m, e).hasPolicy = m.hasPolicy /\ Listed(m, e).core = m.core
            /\ Listed(m, e).active = m.active
        BY <1>1, <3>2 DEF Module
      <3> QED
        BY <3>2, <3>3, <3>4 DEF A, n
    <2> QED
      BY <1>4, <2>2, <2>3 DEF Exact
  <1>5. CASE ~e.allowed /\ e.target \in m.allowed
    <2>1. Listed(m, e) = [m EXCEPT !.allowed = m.allowed \ {e.target}, !.count = m.count - 1]
      BY <1>5 DEF Listed
    <2>2. Cardinality(m.allowed \ {e.target}) = m.count - 1
      <3>1. Cardinality(m.allowed \ {e.target})
               = IF e.target \in m.allowed THEN Cardinality(m.allowed) - 1 ELSE Cardinality(m.allowed)
        BY <1>2, FS_RemoveElement
      <3> QED
        BY <1>1, <1>5, <3>1
    <2>3. Cardinality(m.allowed \ {e.target}) \in Nat
      BY <1>2, FS_RemoveElement, FS_CardinalityType
    <2>4. /\ Listed(m, e).allowed = m.allowed \ {e.target} /\ Listed(m, e).count = m.count - 1
          /\ Listed(m, e).hasPolicy = m.hasPolicy /\ Listed(m, e).core = m.core
          /\ Listed(m, e).active = m.active /\ Listed(m, e) \in Module
      <3> DEFINE A == m.allowed \ {e.target}
                 n == m.count - 1
      <3>1. A \in SUBSET Targets /\ n \in Nat
        BY <1>1, <2>2, <2>3
      <3>2. Listed(m, e) = [m EXCEPT !.allowed = A, !.count = n]
        BY <2>1
      <3> HIDE DEF A, n
      <3>3. [m EXCEPT !.allowed = A, !.count = n] \in Module
        BY <1>1, <3>1 DEF Module
      <3>4. /\ Listed(m, e).allowed = A /\ Listed(m, e).count = n
            /\ Listed(m, e).hasPolicy = m.hasPolicy /\ Listed(m, e).core = m.core
            /\ Listed(m, e).active = m.active
        BY <1>1, <3>2 DEF Module
      <3> QED
        BY <3>2, <3>3, <3>4 DEF A, n
    <2> QED
      BY <1>5, <2>2, <2>4 DEF Exact
  <1> QED
    BY <1>1, <1>3, <1>4, <1>5

(* The loop runs to its end: the least entry it did not reach would extend *)
(* the loop up to the one before.                                          *)
LEMMA LoopExists ==
    ASSUME NEW n \in Nat, NEW m, NEW entries
    PROVE  \E f : IsLoop(f, m, entries, n)
  <1> DEFINE Missing == {k \in 0..n : ~ \E f : IsLoop(f, m, entries, k)}
  <1>1. SUFFICES ASSUME Missing # {} PROVE FALSE
    <2>1. n \in 0..n
      OBVIOUS
    <2> QED
      BY <2>1
  <1>2. PICK k \in Missing : k # 0 => k - 1 \in 0..n /\ k - 1 \notin Missing /\ k \in 1..n
    <2>1. Missing \subseteq 0..n
      OBVIOUS
    <2> HIDE DEF Missing
    <2> QED
      BY <1>1, <2>1, FirstNumber
  <1>3. CASE k = 0
    <2> DEFINE f == [i \in 0..0 |-> m]
    <2>1. IsLoop(f, m, entries, 0)
      BY DEF IsLoop
    <2> QED
      BY <1>2, <1>3, <2>1
  <1>4. CASE k # 0
    <2>1. k \in 1..n /\ k - 1 \in 0..n /\ k - 1 \notin Missing
      BY <1>2, <1>4
    <2>2. PICK f : IsLoop(f, m, entries, k - 1)
      BY <2>1
    <2> DEFINE g == [i \in 0..k |-> IF i = k THEN Listed(f[k - 1], entries[k]) ELSE f[i]]
    <2>3. ASSUME NEW i \in 0..k
          PROVE  g[i] = IF i = 0 THEN m ELSE Listed(g[i - 1], entries[i])
      <3>1. CASE i = k
        BY <2>1, <1>4, <3>1
      <3>2. CASE i # k
        <4>1. i \in 0..(k - 1) /\ g[i] = f[i]
          BY <2>1, <3>2
        <4>2. f[i] = IF i = 0 THEN m ELSE Listed(f[i - 1], entries[i])
          BY <2>2, <4>1 DEF IsLoop
        <4>3. i # 0 => g[i - 1] = f[i - 1]
          BY <2>1, <4>1
        <4> QED
          BY <4>1, <4>2, <4>3
      <3> QED
        BY <3>1, <3>2
    <2>4. IsLoop(g, m, entries, k)
      BY <2>3 DEF IsLoop
    <2> QED
      BY <1>2, <2>4
  <1> QED
    BY <1>3, <1>4

(* What the module holds after the call is what some loop ends with. *)
LEMMA UpdateIsLoop ==
    ASSUME NEW m, NEW entries \in Seq(Entry)
    PROVE  \E f : /\ IsLoop(f, m, entries, Len(entries))
                  /\ UpdateWhitelist(m, entries) = f[Len(entries)]
  <1> DEFINE after == CHOOSE f : IsLoop(f, m, entries, Len(entries))
  <1>1. Len(entries) \in Nat
    OBVIOUS
  <1>2. IsLoop(after, m, entries, Len(entries))
    <2>1. \E f : IsLoop(f, m, entries, Len(entries))
      BY <1>1, LoopExists
    <2> QED
      BY <2>1
  <1>3. UpdateWhitelist(m, entries) = after[Len(entries)]
    BY DEF UpdateWhitelist, IsLoop
  <1> QED
    BY <1>2, <1>3

(* Every entry is read from the list. *)
LEMMA EntryAt ==
    ASSUME NEW entries \in Seq(Entry), NEW i \in 1..Len(entries)
    PROVE  entries[i] \in Entry /\ i \in DOMAIN entries
  OBVIOUS

(* The counter stays exact, and the rest of the policy is left alone. *)
LEMMA LoopKeeps ==
    ASSUME NEW m, Exact(m), NEW entries \in Seq(Entry), NEW f,
           IsLoop(f, m, entries, Len(entries)), NEW n \in 0..Len(entries)
    PROVE  /\ Exact(f[n]) /\ f[n].hasPolicy = m.hasPolicy
           /\ f[n].core = m.core /\ f[n].active = m.active
  <1> DEFINE Good(k) == /\ Exact(f[k]) /\ f[k].hasPolicy = m.hasPolicy
                        /\ f[k].core = m.core /\ f[k].active = m.active
             T == {k \in 0..Len(entries) : ~Good(k)}
  <1>1. SUFFICES ASSUME T # {} PROVE FALSE
    OBVIOUS
  <1>2. PICK k \in T : k # 0 => /\ k - 1 \in 0..Len(entries) /\ k - 1 \notin T
                                /\ k \in 1..Len(entries)
    <2>1. T \subseteq 0..Len(entries) /\ Len(entries) \in Nat
      OBVIOUS
    <2> HIDE DEF T
    <2> QED
      BY <1>1, <2>1, FirstNumber
  <1>3. k \in 0..Len(entries) /\ ~Good(k)
    BY <1>2
  <1>4. k # 0
    BY <1>3 DEF IsLoop
  <1>5. Good(k - 1) /\ k \in 1..Len(entries)
    BY <1>2, <1>4
  <1>6. f[k] = Listed(f[k - 1], entries[k]) /\ entries[k] \in Entry
    BY <1>3, <1>4, <1>5, EntryAt DEF IsLoop
  <1>7. Exact(f[k - 1])
    BY <1>5
  <1>8. /\ Exact(Listed(f[k - 1], entries[k]))
        /\ Listed(f[k - 1], entries[k]).hasPolicy = f[k - 1].hasPolicy
        /\ Listed(f[k - 1], entries[k]).core = f[k - 1].core
        /\ Listed(f[k - 1], entries[k]).active = f[k - 1].active
    BY <1>6, <1>7, ListedIs
  <1> QED
    BY <1>3, <1>5, <1>6, <1>8

(* Entries that follow L leave the addresses they name as L has them, and  *)
(* the others as they were.                                                *)
LEMMA LoopLists ==
    ASSUME NEW m, Exact(m), NEW entries \in Seq(Entry), NEW f,
           IsLoop(f, m, entries, Len(entries)), NEW L, Follows(entries, L), NEW t \in Targets
    PROVE  t \in f[Len(entries)].allowed
              <=> IF t \in Named(entries) THEN t \in L ELSE t \in m.allowed
  <1> DEFINE Before(k) == \E i \in 1..k : entries[i].target = t
             Good(k) == t \in f[k].allowed <=> IF Before(k) THEN t \in L ELSE t \in m.allowed
             T == {k \in 0..Len(entries) : ~Good(k)}
  <1>1. ASSUME T # {} PROVE FALSE
    <2>1. PICK k \in T : k # 0 => /\ k - 1 \in 0..Len(entries) /\ k - 1 \notin T
                                  /\ k \in 1..Len(entries)
      <3>1. T \subseteq 0..Len(entries) /\ Len(entries) \in Nat
        OBVIOUS
      <3> HIDE DEF T
      <3> QED
        BY <1>1, <3>1, FirstNumber
    <2>2. k \in 0..Len(entries) /\ ~Good(k)
      BY <2>1
    <2>3. k # 0
      BY <2>2 DEF IsLoop
    <2>4. Good(k - 1) /\ k \in 1..Len(entries) /\ k - 1 \in 0..Len(entries)
      BY <2>1, <2>3
    <2>5. f[k] = Listed(f[k - 1], entries[k]) /\ entries[k] \in Entry /\ k \in DOMAIN entries
      BY <2>2, <2>3, <2>4, EntryAt DEF IsLoop
    <2>6. f[k].allowed = IF entries[k].allowed THEN f[k - 1].allowed \cup {entries[k].target}
                                               ELSE f[k - 1].allowed \ {entries[k].target}
      <3>1. Exact(f[k - 1])
        BY <2>4, LoopKeeps
      <3>2. Listed(f[k - 1], entries[k]).allowed
               = IF entries[k].allowed THEN f[k - 1].allowed \cup {entries[k].target}
                                       ELSE f[k - 1].allowed \ {entries[k].target}
        BY <2>5, <3>1, ListedIs
      <3> QED
        BY <2>5, <3>2
    <2>7. entries[k].allowed = (entries[k].target \in L)
      BY <2>5 DEF Follows
    <2>8. Before(k) <=> Before(k - 1) \/ entries[k].target = t
      BY <2>4
    <2>9. Good(k)
      <3>1. CASE entries[k].target = t
        BY <2>6, <2>7, <2>8, <3>1
      <3>2. CASE entries[k].target # t
        <4>1. t \in f[k].allowed <=> t \in f[k - 1].allowed
          BY <2>6, <3>2
        <4> QED
          BY <2>4, <2>8, <3>2, <4>1
      <3> QED
        BY <3>1, <3>2
    <2> QED
      BY <2>2, <2>9
  <1>2. Good(Len(entries))
    <2>1. Len(entries) \in 0..Len(entries)
      OBVIOUS
    <2> QED
      BY <1>1, <2>1
  <1>3. Before(Len(entries)) <=> t \in Named(entries)
    BY DEF Named
  <1> QED
    BY <1>2, <1>3

(* The two together, of the call. *)
LEMMA UpdateKeeps ==
    ASSUME NEW m, Exact(m), NEW entries \in Seq(Entry)
    PROVE  /\ Exact(UpdateWhitelist(m, entries))
           /\ UpdateWhitelist(m, entries).hasPolicy = m.hasPolicy
           /\ UpdateWhitelist(m, entries).core = m.core
           /\ UpdateWhitelist(m, entries).active = m.active
           /\ \A L : Follows(entries, L) =>
                \A t \in Targets : t \in UpdateWhitelist(m, entries).allowed
                    <=> IF t \in Named(entries) THEN t \in L ELSE t \in m.allowed
  <1>1. PICK f : /\ IsLoop(f, m, entries, Len(entries))
                 /\ UpdateWhitelist(m, entries) = f[Len(entries)]
    BY UpdateIsLoop
  <1>2. Len(entries) \in 0..Len(entries)
    OBVIOUS
  <1>3. /\ Exact(f[Len(entries)]) /\ f[Len(entries)].hasPolicy = m.hasPolicy
        /\ f[Len(entries)].core = m.core /\ f[Len(entries)].active = m.active
    BY <1>1, <1>2, LoopKeeps
  <1>4. ASSUME NEW L, Follows(entries, L), NEW t \in Targets
        PROVE  t \in f[Len(entries)].allowed
                  <=> IF t \in Named(entries) THEN t \in L ELSE t \in m.allowed
    BY <1>1, <1>4, LoopLists
  <1> QED
    BY <1>1, <1>3, <1>4

(***************************************************************************)
(* The calls of a plan.                                                    *)
(***************************************************************************)
(* A finite set put into a sequence is all there. *)
LEMMA SeqOfSet ==
    ASSUME NEW S, IsFiniteSet(S)
    PROVE  /\ SetToSeq(S) \in Seq(S)
           /\ \A x \in S : \E i \in DOMAIN SetToSeq(S) : SetToSeq(S)[i] = x
  <1> DEFINE n == Cardinality(S)
  <1>1. n \in Nat /\ ExistsBijection(1..n, S)
    BY FS_CardinalityType
  <1>2. IsFiniteSet(1..n) /\ Cardinality(1..n) = n
    BY <1>1, FS_Interval
  <1>3. \E f \in [1..n -> S] : \A i, k \in DOMAIN f : f[i] = f[k] => i = k
    BY <1>1 DEF ExistsBijection, Bijection, Injection, IsInjective
  <1> DEFINE f == SetToSeq(S)
  <1>4. f \in [1..n -> S] /\ \A i, k \in DOMAIN f : f[i] = f[k] => i = k
    BY <1>3 DEF SetToSeq, IsInjective
  <1>5. f \in Injection(1..n, S)
    BY <1>4 DEF Injection, IsInjective
  <1>6. f \in Surjection(1..n, S)
    BY <1>2, <1>5, FS_Injection
  <1>7. f \in Seq(S)
    BY <1>1, <1>4
  <1>8. \A x \in S : \E i \in 1..n : f[i] = x
    BY <1>6 DEF Surjection
  <1> QED
    BY <1>4, <1>7, <1>8

(* Whitelist names what is added and what is removed, with what is meant. *)
LEMMA WhitelistIs ==
    ASSUME NEW add \in SUBSET Targets, NEW remove \in SUBSET Targets
    PROVE  /\ Whitelist(add, remove) \in ListCall
           /\ add \cup remove \subseteq Named(Whitelist(add, remove).entries)
           /\ Named(Whitelist(add, remove).entries) \subseteq add \cup remove
  <1> DEFINE A == {[target |-> t, allowed |-> TRUE] : t \in add}
             R == {[target |-> t, allowed |-> FALSE] : t \in remove}
             p == SetToSeq(A)
             q == SetToSeq(R)
             es == p \o q
  <1>1. IsFiniteSet(add) /\ IsFiniteSet(remove)
    BY ModuleAssumption, FS_Subset
  <1>2. IsFiniteSet(A) /\ IsFiniteSet(R)
    <2>1. IsFiniteSet(A)
      <3> DEFINE f == [t \in add |-> [target |-> t, allowed |-> TRUE]]
      <3>1. f \in Surjection(add, A)
        BY DEF Surjection
      <3> QED
        BY <1>1, <3>1, FS_Surjection
    <2>2. IsFiniteSet(R)
      <3> DEFINE f == [t \in remove |-> [target |-> t, allowed |-> FALSE]]
      <3>1. f \in Surjection(remove, R)
        BY DEF Surjection
      <3> QED
        BY <1>1, <3>1, FS_Surjection
    <2> QED
      BY <2>1, <2>2
  <1>3. p \in Seq(A) /\ \A x \in A : \E i \in DOMAIN p : p[i] = x
    BY <1>2, SeqOfSet
  <1>4. q \in Seq(R) /\ \A x \in R : \E i \in DOMAIN q : q[i] = x
    BY <1>2, SeqOfSet
  <1>5. A \subseteq Entry /\ R \subseteq Entry
    <2>1. ASSUME NEW t \in Targets, NEW b \in BOOLEAN PROVE [target |-> t, allowed |-> b] \in Entry
      BY DEF Entry
    <2> QED
      BY <2>1, Zenon
  <1>6. Whitelist(add, remove) = [name |-> "updateWhitelist", entries |-> es]
    BY DEF Whitelist
  <1> HIDE DEF A, R, p, q
  <1>7. p \in Seq(Entry) /\ q \in Seq(Entry)
    BY <1>3, <1>4, <1>5
  <1>8. /\ es \in Seq(Entry) /\ Len(es) = Len(p) + Len(q) /\ DOMAIN es = 1..(Len(p) + Len(q))
        /\ \A i \in 1..Len(p) : es[i] = p[i]
        /\ \A i \in 1..Len(q) : es[Len(p) + i] = q[i]
        /\ Len(p) \in Nat /\ Len(q) \in Nat /\ DOMAIN p = 1..Len(p) /\ DOMAIN q = 1..Len(q)
    BY <1>7
  <1>9. ASSUME NEW t \in add \cup remove PROVE \E i \in DOMAIN es : es[i].target = t
    <2>1. CASE t \in add
      <3>1. [target |-> t, allowed |-> TRUE] \in A
        BY <2>1 DEF A
      <3>2. PICK i \in 1..Len(p) : p[i] = [target |-> t, allowed |-> TRUE]
        BY <1>3, <1>8, <3>1
      <3>3. i \in DOMAIN es /\ es[i].target = t
        BY <1>8, <3>2
      <3> QED
        BY <3>3
    <2>2. CASE t \in remove
      <3>1. [target |-> t, allowed |-> FALSE] \in R
        BY <2>2 DEF R
      <3>2. PICK i \in 1..Len(q) : q[i] = [target |-> t, allowed |-> FALSE]
        BY <1>4, <1>8, <3>1
      <3>3. Len(p) + i \in DOMAIN es /\ es[Len(p) + i].target = t
        BY <1>8, <3>2
      <3> QED
        BY <3>3
    <2> QED
      BY <2>1, <2>2
  <1>10. ASSUME NEW i \in DOMAIN es PROVE es[i].target \in add \cup remove
    <2>1. CASE i \in 1..Len(p)
      <3>1. es[i] \in A
        BY <1>3, <1>8, <2>1
      <3>2. PICK t \in add : es[i] = [target |-> t, allowed |-> TRUE]
        BY <3>1 DEF A
      <3> QED
        BY <3>2
    <2>2. CASE i \notin 1..Len(p)
      <3>1. i - Len(p) \in 1..Len(q) /\ Len(p) + (i - Len(p)) = i
        BY <1>8, <2>2
      <3>2. es[i] = q[i - Len(p)]
        BY <1>8, <3>1
      <3>3. es[i] \in R
        BY <1>4, <1>8, <3>1, <3>2
      <3>4. PICK t \in remove : es[i] = [target |-> t, allowed |-> FALSE]
        BY <3>3 DEF R
      <3> QED
        BY <3>4
    <2> QED
      BY <2>1, <2>2
  <1> HIDE DEF es
  <1> QED
    BY <1>6, <1>8, <1>9, <1>10 DEF ListCall, Named

(* Every call leaves the counter exact. *)
LEMMA ApplyExact ==
    ASSUME NEW m, Exact(m), NEW c \in Call
    PROVE  Exact(Apply(m, c))
  <1>1. CASE c \in ListCall
    <2>1. c.name = "updateWhitelist" /\ c.entries \in Seq(Entry)
      BY <1>1 DEF ListCall
    <2>2. Apply(m, c) = UpdateWhitelist(m, c.entries)
      BY <2>1 DEF Apply
    <2> QED
      BY <2>1, <2>2, UpdateKeeps
  <1>2. CASE c \in CoreCall
    <2>1. c.name = "setPolicy" /\ c.core \in Cores /\ c.active \in BOOLEAN
      BY <1>2 DEF CoreCall
    <2>2. Apply(m, c) = [m EXCEPT !.hasPolicy = TRUE, !.core = c.core, !.active = c.active]
      BY <2>1 DEF Apply, SetPolicy
    <2> QED
      BY <2>1, <2>2 DEF Exact, Module
  <1>3. CASE c \in Switches
    <2>1. c.name \in {"emergencyPause", "resume"}
      BY <1>3 DEF Switches
    <2>2. \/ Apply(m, c) = [m EXCEPT !.active = FALSE]
          \/ Apply(m, c) = [m EXCEPT !.active = TRUE]
      BY <2>1 DEF Apply, EmergencyPause, Resume
    <2> QED
      BY <2>2 DEF Exact, Module
  <1> QED
    BY <1>1, <1>2, <1>3 DEF Call

(* An address is covered by a call if the call lists it, unless the module *)
(* does already.                                                           *)
Covered(m, c, L) == c \in ListCall => L \subseteq m.allowed \cup Named(c.entries)

(* A call that moves the module towards p never takes it further away: it  *)
(* keeps what agrees with p, and adds nothing that p does not list.        *)
LEMMA ApplyTowards ==
    ASSUME NEW m, Exact(m), NEW c \in Call, NEW p \in Policy, Towards(c, p), NEW u, u = Apply(m, c)
    PROVE  /\ m.hasPolicy => u.hasPolicy
           /\ m.core = p.core => u.core = p.core
           /\ m.active = p.active => u.active = p.active
           /\ m.allowed \cap p.list \subseteq u.allowed
           /\ u.allowed \subseteq m.allowed \cup p.list
           /\ c \in ListCall /\ Covered(m, c, p.list) => p.list \subseteq u.allowed
           /\ c \notin ListCall => u.allowed = m.allowed /\ u.count = m.count
  <1>0. /\ m \in Module /\ m.allowed \subseteq Targets /\ p.list \subseteq Targets
        /\ p.active \in BOOLEAN /\ m.active \in BOOLEAN
    BY DEF Exact, Module, Policy
  <1>1. CASE c \in ListCall
    <2>1. c.name = "updateWhitelist" /\ c.entries \in Seq(Entry)
      BY <1>1 DEF ListCall
    <2>2. u = UpdateWhitelist(m, c.entries)
      BY <2>1 DEF Apply
    <2>3. Follows(c.entries, p.list)
      BY <2>1 DEF Towards, Follows
    <2>4. /\ u.hasPolicy = m.hasPolicy /\ u.core = m.core /\ u.active = m.active
          /\ \A t \in Targets : t \in u.allowed
                <=> IF t \in Named(c.entries) THEN t \in p.list ELSE t \in m.allowed
          /\ Exact(u)
      BY <2>1, <2>2, <2>3, UpdateKeeps
    <2>5. u.allowed \subseteq Targets
      BY <2>4 DEF Exact, Module
    <2>6. m.allowed \cap p.list \subseteq u.allowed /\ u.allowed \subseteq m.allowed \cup p.list
      BY <1>0, <2>4, <2>5
    <2>7. Covered(m, c, p.list) => p.list \subseteq u.allowed
      BY <1>0, <1>1, <2>4 DEF Covered
    <2> QED
      BY <1>1, <2>4, <2>6, <2>7
  <1>2. CASE c \in CoreCall
    <2>1. c.name = "setPolicy" /\ c.core \in Cores /\ c.active \in BOOLEAN /\ c \notin ListCall
      BY <1>2 DEF CoreCall, ListCall
    <2>2. u = [m EXCEPT !.hasPolicy = TRUE, !.core = c.core, !.active = c.active]
      BY <2>1 DEF Apply, SetPolicy
    <2>3. c.core = p.core /\ c.active = p.active
      BY <2>1 DEF Towards
    <2>4. /\ u.hasPolicy /\ u.core = c.core /\ u.active = c.active
          /\ u.allowed = m.allowed /\ u.count = m.count
      BY <1>0, <2>2 DEF Module
    <2> QED
      BY <2>1, <2>3, <2>4
  <1>3. CASE c \in Switches
    <2>1. c.name \in {"emergencyPause", "resume"} /\ c \notin ListCall
      BY <1>3 DEF Switches, ListCall
    <2>2. u = [m EXCEPT !.active = p.active]
      <3>1. CASE c.name = "emergencyPause"
        <4>1. p.active = FALSE
          BY <1>0, <3>1 DEF Towards
        <4> QED
          BY <3>1, <4>1 DEF Apply, EmergencyPause
      <3>2. CASE c.name = "resume"
        <4>1. p.active = TRUE
          BY <1>0, <3>2 DEF Towards
        <4> QED
          BY <3>2, <4>1 DEF Apply, Resume
      <3> QED
        BY <2>1, <3>1, <3>2
    <2>3. /\ u.hasPolicy = m.hasPolicy /\ u.core = m.core /\ u.active = p.active
          /\ u.allowed = m.allowed /\ u.count = m.count
      BY <1>0, <2>2 DEF Module
    <2> QED
      BY <2>1, <2>3
  <1> QED
    BY <1>1, <1>2, <1>3 DEF Call

(***************************************************************************)
(* Types.                                                                  *)
(***************************************************************************)
(* A row, a transaction in the mempool, and a request. *)
Row      == [call : Call, status : {"QUEUED", "SUBMITTED", "MINED"}]
Signed   == [call : Call, given_up : BOOLEAN]
Request  == [pc : {"idle", "core", "members", "plan"}, policy : Policies,
             history : SUBSET Targets, reading : Module, members : SUBSET Targets]

(* The type invariant: the counter is exact, and what is in flight is what *)
(* a plan can contain.                                                     *)
SyncTypeOK ==
    /\ Exact(module)
    /\ db \in Policies
    /\ rows \subseteq Row
    /\ sent \subseteq Targets
    /\ syncs \in [Syncers -> Request]
    /\ answered \in BOOLEAN
    /\ mempool \in Seq(Signed)
    /\ scenario \in Scenarios
    /\ changes \in Nat /\ direct \in Nat /\ faults \in Nat

(* What a scenario is. *)
LEMMA ScenarioType ==
    ASSUME NEW s \in Scenarios
    PROVE  /\ s.waits \in BOOLEAN /\ s.policies \subseteq Policies
           /\ s.changes \in Nat /\ s.direct \in Nat /\ s.faults \in Nat
  BY SyncAssumption

(* The module of an agent that has none yet, and an idle request. *)
LEMMA NothingYet ==
    /\ Exact(Unset) /\ Unset.hasPolicy = FALSE /\ Unset.allowed = {}
    /\ Idle \in Request /\ Idle.pc = "idle"
  <1>1. Exact(Unset) /\ Unset.hasPolicy = FALSE /\ Unset.allowed = {}
    BY FS_EmptySet DEF Exact, Unset, Module
  <1>2. (CHOOSE p \in Policies : TRUE) \in Policies
    BY SyncAssumption
  <1>3. Unset \in Module
    BY <1>1 DEF Exact
  <1>4. Idle \in Request /\ Idle.pc = "idle"
    BY <1>2, <1>3 DEF Idle, Request
  <1> QED
    BY <1>1, <1>4

(* An empty list is one that counts nothing. *)
LEMMA EmptyCount ==
    ASSUME NEW m, Exact(m)
    PROVE  m.count = 0 <=> m.allowed = {}
  <1>1. m.allowed \in SUBSET Targets /\ m.count = Cardinality(m.allowed)
    BY DEF Exact, Module
  <1>2. IsFiniteSet(m.allowed)
    BY <1>1, ModuleAssumption, FS_Subset
  <1> QED
    BY <1>1, <1>2, FS_EmptySet

(* What is in a plan: calls whose list names all that is missing and only  *)
(* what is listed or known; an empty plan means that nothing was missing.  *)
LEMMA PlanIs ==
    ASSUME NEW p \in Policy, NEW r, NEW members \in SUBSET Targets, NEW history \in SUBSET Targets
    PROVE  /\ Plan(p, r, members, history) \subseteq Call
           /\ \A c \in Plan(p, r, members, history) : c \in ListCall =>
                 /\ p.list \ members \subseteq Named(c.entries)
                 /\ Named(c.entries) \subseteq p.list \cup history
           /\ Plan(p, r, members, history) = {} =>
                 /\ r.hasPolicy /\ r.core = p.core /\ r.active = p.active
                 /\ p.list \subseteq members /\ history \cap members \subseteq p.list
  <1> DEFINE add    == p.list \ members
             remove == (history \cap members) \ p.list
             W      == Whitelist(add, remove)
  <1>1. p.core \in Cores /\ p.active \in BOOLEAN /\ p.list \in SUBSET Targets
    BY DEF Policy
  <1>2. add \in SUBSET Targets /\ remove \in SUBSET Targets
    BY <1>1
  <1>3. W \in ListCall /\ add \cup remove \subseteq Named(W.entries)
        /\ Named(W.entries) \subseteq add \cup remove
    <2> HIDE DEF add, remove
    <2> QED
      BY <1>2, WhitelistIs
  <1>4. ListCalls(p, members, history) = IF add \cup remove = {} THEN {} ELSE {W}
    BY DEF ListCalls
  <1>5. ASSUME NEW c \in CoreCalls(p, r) PROVE c \in CoreCall \cup Switches /\ c \notin ListCall
    <2>1. \/ c = [name |-> "setPolicy", core |-> p.core, active |-> p.active]
          \/ c = [name |-> "resume"]
          \/ c = [name |-> "emergencyPause"]
      BY DEF CoreCalls
    <2>2. CASE c = [name |-> "setPolicy", core |-> p.core, active |-> p.active]
      BY <1>1, <2>2 DEF CoreCall, ListCall
    <2>3. CASE c = [name |-> "resume"]
      BY <2>3 DEF Switches, ListCall
    <2>4. CASE c = [name |-> "emergencyPause"]
      BY <2>4 DEF Switches, ListCall
    <2> QED
      BY <2>1, <2>2, <2>3, <2>4
  <1>6. CoreCalls(p, r) = {} => r.hasPolicy /\ r.core = p.core /\ r.active = p.active
    BY DEF CoreCalls
  <1> HIDE DEF W
  <1>7. Plan(p, r, members, history) = CoreCalls(p, r) \cup ListCalls(p, members, history)
    BY DEF Plan
  <1>8. Plan(p, r, members, history) \subseteq Call
    BY <1>3, <1>4, <1>5, <1>7 DEF Call
  <1>9. ASSUME NEW c \in Plan(p, r, members, history), c \in ListCall PROVE c = W
    BY <1>4, <1>5, <1>7, <1>9
  <1>10. \A c \in Plan(p, r, members, history) : c \in ListCall =>
            /\ p.list \ members \subseteq Named(c.entries)
            /\ Named(c.entries) \subseteq p.list \cup history
    BY <1>3, <1>9
  <1>11. Plan(p, r, members, history) = {} =>
            /\ r.hasPolicy /\ r.core = p.core /\ r.active = p.active
            /\ p.list \subseteq members /\ history \cap members \subseteq p.list
    <2> SUFFICES ASSUME Plan(p, r, members, history) = {}
                 PROVE  /\ r.hasPolicy /\ r.core = p.core /\ r.active = p.active
                        /\ p.list \subseteq members /\ history \cap members \subseteq p.list
      OBVIOUS
    <2>1. CoreCalls(p, r) = {} /\ ListCalls(p, members, history) = {}
      BY <1>7
    <2>2. add \cup remove = {}
      BY <1>4, <2>1
    <2> QED
      BY <1>6, <2>1, <2>2
  <1> QED
    BY <1>8, <1>10, <1>11

(* A sequence without its i-th member has no other members. *)
LEMMA RemoveAtIs ==
    ASSUME NEW T, NEW q \in Seq(T), NEW i \in DOMAIN q
    PROVE  /\ RemoveAt(q, i) \in Seq(T)
           /\ \A k \in DOMAIN RemoveAt(q, i) : \E l \in DOMAIN q : RemoveAt(q, i)[k] = q[l]
  <1> DEFINE u == SubSeq(q, 1, i - 1)
             v == SubSeq(q, i + 1, Len(q))
             n == Len(q)
  <1>1. i \in 1..n /\ n \in Nat /\ DOMAIN q = 1..n
    OBVIOUS
  <1>2. /\ u \in Seq(T) /\ Len(u) = i - 1
        /\ \A k \in 1..(i - 1) : u[k] = q[k]
    BY <1>1
  <1>3. /\ v \in Seq(T) /\ Len(v) = n - i
        /\ \A k \in 1..(n - i) : v[k] = q[i + k]
    <2>1. v = [k \in 1..(n - i) |-> q[i + k]]
      BY <1>1
    <2>2. n - i \in Nat /\ \A k \in 1..(n - i) : i + k \in 1..n
      BY <1>1
    <2>3. \A k \in 1..(n - i) : q[i + k] \in T
      BY <1>1, <2>2
    <2> HIDE DEF v, n
    <2> QED
      BY <2>1, <2>2, <2>3
  <1>4. RemoveAt(q, i) = u \o v
    BY DEF RemoveAt
  <1> HIDE DEF u, v, n
  <1> DEFINE w == u \o v
  <1>5. /\ w \in Seq(T) /\ DOMAIN w = 1..((i - 1) + (n - i))
        /\ \A k \in 1..(i - 1) : w[k] = u[k]
        /\ \A k \in 1..(n - i) : w[(i - 1) + k] = v[k]
    <2>1. /\ w \in Seq(T) /\ DOMAIN w = 1..(Len(u) + Len(v))
          /\ \A k \in 1..Len(u) : w[k] = u[k]
          /\ \A k \in 1..Len(v) : w[Len(u) + k] = v[k]
      <3>1. u \in Seq(T) /\ v \in Seq(T)
        BY <1>2, <1>3
      <3> QED
        BY <3>1
    <2> HIDE DEF w
    <2>2. Len(u) = i - 1 /\ Len(v) = n - i
      BY <1>2, <1>3
    <2> QED
      BY <2>1, <2>2, Zenon
  <1> HIDE DEF w
  <1>6. ASSUME NEW k \in DOMAIN w PROVE \E l \in DOMAIN q : w[k] = q[l]
    <2>1. k \in 1..(i - 1) \/ k - (i - 1) \in 1..(n - i)
      BY <1>1, <1>5
    <2>2. CASE k \in 1..(i - 1)
      <3>1. k \in DOMAIN q /\ w[k] = q[k]
        BY <1>1, <1>2, <1>5, <2>2
      <3> QED
        BY <3>1
    <2>3. CASE k - (i - 1) \in 1..(n - i)
      <3> DEFINE l == k - (i - 1)
      <3>1. k = (i - 1) + l /\ i + l \in DOMAIN q
        BY <1>1, <1>5, <2>3
      <3>2. l \in 1..(n - i)
        BY <2>3
      <3> HIDE DEF l
      <3>3. w[k] = q[i + l]
        BY <1>3, <1>5, <3>1, <3>2
      <3> QED
        BY <3>1, <3>3
    <2> QED
      BY <2>1, <2>2, <2>3
  <1> QED
    BY <1>4, <1>5, <1>6 DEF w

(* The program starts with these types. *)
LEMMA SyncTypeInit == Init => SyncTypeOK
  <1> SUFFICES ASSUME Init PROVE SyncTypeOK
    OBVIOUS
  <1>1. scenario \in Scenarios /\ scenario.policies \subseteq Policies
    BY ScenarioType DEF Init
  <1>2. <<>> \in Seq(Signed)
    OBVIOUS
  <1> QED
    BY <1>1, <1>2, NothingYet DEF Init, SyncTypeOK

(***************************************************************************)
(* What the steps do.                                                      *)
(***************************************************************************)
(* One request changes, and keeps its types. *)
Serves(s, y) == syncs' = [syncs EXCEPT ![s] = y] /\ y \in Request

(* A request starts with the policy and the addresses of now. *)
LEMMA LoadIs ==
    ASSUME SyncTypeOK, NEW s \in Syncers, Load(s)
    PROVE  /\ UNCHANGED <<module, db, rows, sent, answered, mempool, scenario, changes, direct, faults>>
           /\ \E y : /\ Serves(s, y)
                     /\ y.pc = "core" /\ y.policy = db /\ y.history = sent
  <1> DEFINE y == [Idle EXCEPT !.pc = "core", !.policy = db, !.history = sent]
  <1>1. db \in Policies /\ sent \in SUBSET Targets /\ Idle \in Request
    BY NothingYet DEF SyncTypeOK
  <1>2. y \in Request /\ y.pc = "core" /\ y.policy = db /\ y.history = sent
    BY <1>1 DEF Request
  <1>3. syncs' = [syncs EXCEPT ![s] = y]
    BY DEF Load
  <1> HIDE DEF y
  <1> QED
    BY <1>2, <1>3 DEF Load, Serves

(* It reads what the module says of itself. *)
LEMMA ReadCoreIs ==
    ASSUME SyncTypeOK, NEW s \in Syncers, ReadCore(s)
    PROVE  /\ UNCHANGED <<module, db, rows, sent, answered, mempool, scenario, changes, direct, faults>>
           /\ syncs[s].pc = "core"
           /\ \E y : /\ Serves(s, y)
                     /\ y.pc = "members" /\ y.policy = syncs[s].policy /\ y.history = syncs[s].history
                     /\ y.reading.hasPolicy => /\ module.hasPolicy /\ y.reading.core = module.core
                                               /\ y.reading.active = module.active
                                               /\ y.reading.count = module.count
  <1> DEFINE r == IF module.hasPolicy THEN [module EXCEPT !.allowed = {}] ELSE Unset
             y == [syncs[s] EXCEPT !.pc = "members", !.reading = r]
  <1>1. syncs[s] \in Request /\ module \in Module /\ Unset \in Module /\ Unset.hasPolicy = FALSE
    BY NothingYet DEF SyncTypeOK, Exact
  <1>2. /\ r \in Module
        /\ r.hasPolicy => /\ module.hasPolicy /\ r.core = module.core
                          /\ r.active = module.active /\ r.count = module.count
    BY <1>1 DEF Module
  <1>3. syncs' = [syncs EXCEPT ![s] = y] /\ syncs[s].pc = "core"
    BY <1>1 DEF ReadCore, SyncTypeOK
  <1> HIDE DEF r
  <1>4. /\ y \in Request /\ y.pc = "members" /\ y.policy = syncs[s].policy
        /\ y.history = syncs[s].history /\ y.reading = r
    BY <1>1, <1>2 DEF Request
  <1> HIDE DEF y
  <1> QED
    BY <1>2, <1>3, <1>4 DEF ReadCore, Serves

(* It asks the module for the addresses it knows of. *)
LEMMA ReadMembersIs ==
    ASSUME SyncTypeOK, NEW s \in Syncers, ReadMembers(s)
    PROVE  /\ UNCHANGED <<module, db, rows, sent, answered, mempool, scenario, changes, direct, faults>>
           /\ syncs[s].pc = "members"
           /\ \E y : /\ Serves(s, y)
                     /\ y.pc = "plan" /\ y.policy = syncs[s].policy
                     /\ y.history = syncs[s].history /\ y.reading = syncs[s].reading
                     /\ y.members = IF EmptyRead(s) THEN {}
                                    ELSE {t \in syncs[s].policy.list \cup syncs[s].history :
                                             IsAllowed(module, t)}
  <1> DEFINE known == {t \in syncs[s].policy.list \cup syncs[s].history : IsAllowed(module, t)}
             found == IF EmptyRead(s) THEN {} ELSE known
             y == [syncs[s] EXCEPT !.pc = "plan", !.members = found]
  <1>1. /\ syncs[s] \in Request /\ syncs[s].policy \in Policy
        /\ syncs[s].policy.list \subseteq Targets /\ syncs[s].history \subseteq Targets
    BY SyncAssumption DEF SyncTypeOK, Request, Policy
  <1>2. found \in SUBSET Targets
    BY <1>1
  <1>3. syncs' = [syncs EXCEPT ![s] = y] /\ syncs[s].pc = "members"
    BY <1>1 DEF ReadMembers, SyncTypeOK
  <1> HIDE DEF found
  <1>4. /\ y \in Request /\ y.pc = "plan" /\ y.policy = syncs[s].policy
        /\ y.history = syncs[s].history /\ y.reading = syncs[s].reading /\ y.members = found
    BY <1>1, <1>2 DEF Request
  <1> HIDE DEF y
  <1> QED
    BY <1>3, <1>4 DEF ReadMembers, Serves, found

(* The plan of a request. *)
PlanOf(y) == Plan(y.policy, y.reading, y.members, y.history)

(* What PlanIs says of it. *)
LEMMA PlanOfIs ==
    ASSUME NEW y, y.policy \in Policy, y.members \in SUBSET Targets, y.history \in SUBSET Targets
    PROVE  /\ PlanOf(y) \subseteq Call
           /\ \A c \in PlanOf(y) : c \in ListCall =>
                 /\ y.policy.list \ y.members \subseteq Named(c.entries)
                 /\ Named(c.entries) \subseteq y.policy.list \cup y.history
           /\ PlanOf(y) = {} =>
                 /\ y.reading.hasPolicy /\ y.reading.core = y.policy.core
                 /\ y.reading.active = y.policy.active
                 /\ y.policy.list \subseteq y.members
                 /\ y.history \cap y.members \subseteq y.policy.list
  BY PlanIs DEF PlanOf

(* It queues what is not in flight yet, or says that nothing is missing. *)
LEMMA QueueCallsIs ==
    ASSUME SyncTypeOK, NEW s \in Syncers, QueueCalls(s), NEW y, y = syncs[s]
    PROVE  /\ UNCHANGED <<module, db, mempool, scenario, changes, direct, faults>>
           /\ y.pc = "plan" /\ Serves(s, Idle)
           /\ y.policy \in Policy /\ y.members \in SUBSET Targets /\ y.history \in SUBSET Targets
           /\ rows \subseteq rows' /\ rows' \subseteq Row
           /\ \A r \in rows' \ rows : r.call \in PlanOf(y)
           /\ sent \subseteq sent' /\ sent' \subseteq sent \cup y.policy.list \cup y.history
           /\ answered' \in BOOLEAN
           /\ answered' => answered \/ (PlanOf(y) = {} /\ y.policy = db)
  <1>1. /\ y \in Request /\ y.policy \in Policy /\ y.members \in SUBSET Targets
        /\ y.history \in SUBSET Targets
    BY SyncAssumption DEF SyncTypeOK, Request
  <1> DEFINE calls == PlanOf(y)
             new   == calls \ {r.call : r \in rows}
             lists == {d \in calls : d.name = "updateWhitelist"}
             named == UNION {{c.entries[i].target : i \in DOMAIN c.entries} : c \in lists}
  <1>2. /\ calls \subseteq Call
        /\ \A c \in calls : c \in ListCall => Named(c.entries) \subseteq y.policy.list \cup y.history
    BY <1>1, PlanOfIs
  <1>3. /\ y.pc = "plan" /\ rows' = rows \cup {[call |-> c, status |-> "QUEUED"] : c \in new}
        /\ sent' = sent \cup named
        /\ answered' = (answered \/ (calls = {} /\ ~UnknownExtras(y.reading, y.members)
                                            /\ y.policy = db))
        /\ syncs' = [syncs EXCEPT ![s] = Idle]
        /\ UNCHANGED <<module, db, mempool, scenario, changes, direct, faults>>
    BY DEF QueueCalls, PlanOf
  <1> HIDE DEF calls
  <1>4. ASSUME NEW c \in lists PROVE c \in ListCall
    <2>1. c \in Call /\ c.name = "updateWhitelist"
      BY <1>2
    <2> QED
      BY <2>1 DEF Call, CoreCall, Switches
  <1>5. named \subseteq y.policy.list \cup y.history
    <2> SUFFICES ASSUME NEW t \in named PROVE t \in y.policy.list \cup y.history
      OBVIOUS
    <2>1. PICK c \in lists : t \in {c.entries[i].target : i \in DOMAIN c.entries}
      OBVIOUS
    <2>2. t \in Named(c.entries)
      BY <2>1 DEF Named
    <2> QED
      BY <1>2, <1>4, <2>2
  <1>6. ASSUME NEW c \in new
        PROVE  [call |-> c, status |-> "QUEUED"] \in Row
    BY <1>2 DEF Row
  <1>7. rows' \subseteq Row
    BY <1>3, <1>6 DEF SyncTypeOK
  <1>8. ASSUME NEW r \in rows', r \notin rows PROVE r.call \in calls
    <2>1. PICK c \in new : r = [call |-> c, status |-> "QUEUED"]
      BY <1>3, <1>8
    <2> QED
      BY <2>1
  <1>9. answered' \in BOOLEAN /\ (answered' => answered \/ (calls = {} /\ y.policy = db))
    BY <1>3 DEF SyncTypeOK
  <1> HIDE DEF new, named
  <1> QED
    BY <1>1, <1>3, <1>5, <1>7, <1>8, <1>9, NothingYet DEF Serves, calls

(* The calls that may still be mined. *)
InFlight == {r.call : r \in rows} \cup {mempool[i].call : i \in DOMAIN mempool}

(* What is in the mempool was there, or agrees with the stored policy. *)
SignedWell ==
    \A i \in DOMAIN mempool' :
        \/ Towards(mempool'[i].call, db)
        \/ \E k \in DOMAIN mempool : mempool'[i].call = mempool[k].call

(* What the steps of the rows have in common. *)
RowsMove ==
    /\ UNCHANGED <<db, sent, syncs, answered, scenario, changes, direct>>
    /\ rows' \subseteq Row /\ mempool' \in Seq(Signed) /\ faults' \in Nat
    /\ InFlight' \subseteq InFlight
    /\ SignedWell

(* A row is signed if it still moves the module towards the stored policy. *)
LEMMA BroadcastIs ==
    ASSUME SyncTypeOK, NEW r \in rows, Broadcast(r)
    PROVE  RowsMove /\ UNCHANGED module
  <1>1. /\ r \in Row /\ r.call \in Call /\ rows \subseteq Row /\ mempool \in Seq(Signed)
        /\ faults \in Nat
    BY DEF SyncTypeOK, Row
  <1>2. UNCHANGED <<module, db, sent, syncs, answered, scenario, changes, direct, faults>>
    BY DEF Broadcast
  <1>3. CASE Towards(r.call, db)
    <2> DEFINE e == [call |-> r.call, given_up |-> FALSE]
               f == [r EXCEPT !.status = "SUBMITTED"]
    <2>1. rows' = (rows \ {r}) \cup {f} /\ mempool' = Append(mempool, e)
      BY <1>3 DEF Broadcast
    <2>2. e \in Signed /\ e.call = r.call /\ f \in Row /\ f.call = r.call
      BY <1>1 DEF Signed, Row
    <2> HIDE DEF e, f
    <2>3. /\ mempool' \in Seq(Signed) /\ DOMAIN mempool' = 1..(Len(mempool) + 1)
          /\ Len(mempool) \in Nat /\ DOMAIN mempool = 1..Len(mempool)
          /\ mempool'[Len(mempool) + 1] = e
          /\ \A i \in 1..Len(mempool) : mempool'[i] = mempool[i]
      BY <1>1, <2>1, <2>2
    <2>4. \A i \in DOMAIN mempool' : i \in DOMAIN mempool \/ i = Len(mempool) + 1
      BY <2>3
    <2>5. rows' \subseteq Row
      BY <1>1, <2>1, <2>2
    <2>6. SignedWell
      BY <1>3, <2>2, <2>3, <2>4 DEF SignedWell
    <2>7. ASSUME NEW c \in InFlight' PROVE c \in InFlight
      <3>1. CASE c \in {q.call : q \in rows'}
        <4>1. PICK q \in rows' : c = q.call
          BY <3>1
        <4>2. q \in rows \/ q = f
          BY <2>1
        <4> QED
          BY <2>2, <4>1, <4>2 DEF InFlight
      <3>2. CASE c \in {mempool'[i].call : i \in DOMAIN mempool'}
        <4>1. PICK i \in DOMAIN mempool' : c = mempool'[i].call
          BY <3>2
        <4>2. CASE i \in DOMAIN mempool
          BY <2>3, <4>1, <4>2 DEF InFlight
        <4>3. CASE i = Len(mempool) + 1
          BY <2>2, <2>3, <4>1, <4>3 DEF InFlight
        <4> QED
          BY <2>4, <4>2, <4>3
      <3> QED
        BY <3>1, <3>2 DEF InFlight
    <2> QED
      BY <1>1, <1>2, <2>3, <2>5, <2>6, <2>7 DEF RowsMove
  <1>4. CASE ~Towards(r.call, db)
    <2>1. rows' = rows \ {r} /\ mempool' = mempool
      BY <1>4 DEF Broadcast
    <2> QED
      BY <1>1, <1>2, <2>1 DEF RowsMove, SignedWell, InFlight
  <1> QED
    BY <1>3, <1>4

(* A row that failed, or whose outcome is known, is not in flight. *)
LEMMA RowEnds ==
    ASSUME SyncTypeOK, NEW r \in rows, Fail(r) \/ Confirm(r)
    PROVE  RowsMove /\ UNCHANGED module
  <1>1. /\ rows' = rows \ {r} /\ faults' \in Nat
        /\ UNCHANGED <<module, db, sent, syncs, answered, mempool, scenario, changes, direct>>
    BY DEF Fail, Confirm, Fault, SyncTypeOK
  <1> QED
    BY <1>1 DEF RowsMove, SignedWell, InFlight, SyncTypeOK

(* A transaction that was given up may stay where it is, or be lost. *)
LEMMA DropIs ==
    ASSUME SyncTypeOK, NEW i \in DOMAIN mempool, Drop(i)
    PROVE  RowsMove /\ UNCHANGED module
  <1>1. mempool \in Seq(Signed) /\ faults \in Nat /\ rows \subseteq Row
    BY DEF SyncTypeOK
  <1>2. /\ rows' \subseteq rows /\ faults' \in Nat
        /\ UNCHANGED <<module, db, sent, syncs, answered, scenario, changes, direct>>
    BY <1>1 DEF Drop, Fault
  <1>3. /\ mempool' \in Seq(Signed)
        /\ \A k \in DOMAIN mempool' : \E l \in DOMAIN mempool : mempool'[k].call = mempool[l].call
    <2>1. CASE mempool' = [mempool EXCEPT ![i].given_up = TRUE]
      <3>1. /\ DOMAIN mempool' = DOMAIN mempool /\ DOMAIN mempool = 1..Len(mempool)
            /\ Len(mempool) \in Nat /\ \A k \in DOMAIN mempool : mempool[k] \in Signed
        BY <1>1, <2>1
      <3>2. ASSUME NEW k \in DOMAIN mempool
            PROVE  mempool'[k] \in Signed /\ mempool'[k].call = mempool[k].call
        <4>1. mempool[k] \in Signed
          BY <3>1
        <4>2. CASE k = i
          <5>1. mempool'[k] = [mempool[k] EXCEPT !.given_up = TRUE]
            BY <2>1, <4>2
          <5> QED
            BY <4>1, <5>1 DEF Signed
        <4>3. CASE k # i
          BY <2>1, <4>1, <4>3
        <4> QED
          BY <4>2, <4>3
      <3>3. mempool' = [k \in 1..Len(mempool) |-> mempool'[k]]
        BY <2>1, <3>1
      <3>4. mempool' \in Seq(Signed)
        BY <3>1, <3>2, <3>3
      <3> QED
        BY <3>1, <3>2, <3>4
    <2>2. CASE mempool' = RemoveAt(mempool, i)
      <3>1. /\ RemoveAt(mempool, i) \in Seq(Signed)
            /\ \A k \in DOMAIN RemoveAt(mempool, i) :
                  \E l \in DOMAIN mempool : RemoveAt(mempool, i)[k] = mempool[l]
        BY <1>1, RemoveAtIs
      <3> QED
        BY <2>2, <3>1
    <2> QED
      BY <2>1, <2>2 DEF Drop
  <1>4. InFlight' \subseteq InFlight
    BY <1>2, <1>3 DEF InFlight
  <1> QED
    BY <1>1, <1>2, <1>3, <1>4 DEF RowsMove, SignedWell

(* The oldest transaction is mined. *)
LEMMA MineIs ==
    ASSUME SyncTypeOK, Mine
    PROVE  /\ RowsMove
           /\ \E c \in Call : /\ module' = Apply(module, c)
                               /\ \E k \in DOMAIN mempool : c = mempool[k].call
  <1> DEFINE h == Head(mempool)
  <1>1. /\ mempool \in Seq(Signed) /\ mempool # <<>> /\ rows \subseteq Row /\ faults \in Nat
    BY DEF SyncTypeOK, Mine
  <1>2. /\ h = mempool[1] /\ 1 \in DOMAIN mempool /\ h \in Signed
        /\ Tail(mempool) \in Seq(Signed)
        /\ DOMAIN Tail(mempool) = 1..(Len(mempool) - 1) /\ DOMAIN mempool = 1..Len(mempool)
        /\ Len(mempool) \in Nat
        /\ \A k \in 1..(Len(mempool) - 1) : Tail(mempool)[k] = mempool[k + 1]
    BY <1>1
  <1>3. h.call \in Call /\ h.given_up \in BOOLEAN
    BY <1>2 DEF Signed
  <1>4. /\ module' = Apply(module, h.call) /\ mempool' = Tail(mempool)
        /\ rows' = IF h.given_up THEN rows
                   ELSE (rows \ {[call |-> h.call, status |-> "SUBMITTED"]})
                            \cup {[call |-> h.call, status |-> "MINED"]}
        /\ UNCHANGED <<db, sent, syncs, answered, scenario, changes, direct, faults>>
    BY DEF Mine
  <1> HIDE DEF h
  <1>5. ASSUME NEW k \in DOMAIN mempool' PROVE k + 1 \in DOMAIN mempool /\ mempool'[k] = mempool[k + 1]
    BY <1>2, <1>4
  <1>6. SignedWell
    BY <1>5 DEF SignedWell
  <1>7. [call |-> h.call, status |-> "MINED"] \in Row
    BY <1>3 DEF Row
  <1>8. ASSUME NEW r \in rows' PROVE r \in rows \/ r = [call |-> h.call, status |-> "MINED"]
    BY <1>4
  <1>9. rows' \subseteq Row
    BY <1>1, <1>7, <1>8
  <1>10. ASSUME NEW c \in InFlight' PROVE c \in InFlight
    <2>1. CASE c \in {q.call : q \in rows'}
      <3>1. PICK q \in rows' : c = q.call
        BY <2>1
      <3>2. q \in rows \/ c = h.call
        BY <1>8, <3>1
      <3> QED
        BY <1>2, <3>1, <3>2 DEF InFlight
    <2>2. CASE c \in {mempool'[i].call : i \in DOMAIN mempool'}
      BY <1>5, <2>2 DEF InFlight
    <2> QED
      BY <2>1, <2>2 DEF InFlight
  <1> QED
    BY <1>1, <1>2, <1>3, <1>4, <1>6, <1>9, <1>10 DEF RowsMove

(* The operator's calls are calls. *)
LEMMA DirectIs ==
    ASSUME NEW c \in DirectCalls
    PROVE  c \in Call
  <1>1. CASE c \in {[name |-> "emergencyPause"], [name |-> "resume"]}
    BY <1>1 DEF Call, Switches
  <1>2. CASE c \in {[name |-> "updateWhitelist", entries |-> <<e, e>>] : e \in Entry}
    <2>1. PICK e \in Entry : c = [name |-> "updateWhitelist", entries |-> <<e, e>>]
      BY <1>2
    <2>2. <<e, e>> \in Seq(Entry)
      OBVIOUS
    <2> QED
      BY <2>1, <2>2 DEF Call, ListCall
  <1> QED
    BY <1>1, <1>2 DEF DirectCalls

(* What the steps of the requests have in common. *)
LEMMA ServesKeepsType ==
    ASSUME SyncTypeOK, NEW s \in Syncers, NEW y, Serves(s, y)
    PROVE  syncs' \in [Syncers -> Request]
  BY DEF SyncTypeOK, Serves

(* Every step keeps the types. *)
LEMMA SyncTypeStep == SyncTypeOK /\ Next => SyncTypeOK'
  <1> SUFFICES ASSUME SyncTypeOK, Next PROVE SyncTypeOK'
    OBVIOUS
  <1>1. ASSUME NEW s \in Syncers, SyncStep(s) PROVE SyncTypeOK'
    <2>1. CASE Load(s) \/ ReadCore(s) \/ ReadMembers(s)
      <3>1. UNCHANGED <<module, db, rows, sent, answered, mempool, scenario, changes, direct, faults>>
        BY <2>1 DEF Load, ReadCore, ReadMembers
      <3>2. PICK y : Serves(s, y)
        BY <2>1, LoadIs, ReadCoreIs, ReadMembersIs
      <3>3. syncs' \in [Syncers -> Request]
        BY <3>2, ServesKeepsType
      <3> QED
        BY <3>1, <3>3 DEF SyncTypeOK
    <2>2. CASE QueueCalls(s)
      <3>1. /\ UNCHANGED <<module, db, mempool, scenario, changes, direct, faults>>
            /\ Serves(s, Idle) /\ rows' \subseteq Row /\ answered' \in BOOLEAN
            /\ syncs[s].policy \in Policy /\ syncs[s].history \in SUBSET Targets
            /\ sent' \subseteq sent \cup syncs[s].policy.list \cup syncs[s].history
        BY <2>2, QueueCallsIs
      <3>2. sent' \subseteq Targets
        BY <3>1 DEF SyncTypeOK, Policy
      <3>3. syncs' \in [Syncers -> Request]
        BY <3>1, ServesKeepsType
      <3> QED
        BY <3>1, <3>2, <3>3 DEF SyncTypeOK
    <2> QED
      BY <1>1, <2>1, <2>2 DEF SyncStep
  <1>2. ASSUME RowsMove, Exact(module') PROVE SyncTypeOK'
    BY <1>2 DEF RowsMove, SyncTypeOK
  <1>3. ASSUME NEW r \in rows, RowStep(r) \/ Fail(r) PROVE SyncTypeOK'
    BY <1>2, <1>3, BroadcastIs, RowEnds DEF RowStep, SyncTypeOK
  <1>4. ASSUME NEW i \in DOMAIN mempool, Drop(i) PROVE SyncTypeOK'
    BY <1>2, <1>4, DropIs DEF SyncTypeOK
  <1>5. CASE Mine
    <2>1. PICK c \in Call : module' = Apply(module, c)
      BY <1>5, MineIs
    <2>2. Exact(module')
      BY <2>1, ApplyExact DEF SyncTypeOK
    <2> QED
      BY <1>2, <1>5, <2>2, MineIs
  <1>6. ASSUME NEW p \in Policies, Store(p) PROVE SyncTypeOK'
    <2>1. /\ db' = p /\ changes' = changes + 1 /\ answered' = FALSE
          /\ UNCHANGED <<module, rows, sent, syncs, mempool, scenario, direct, faults>>
      BY <1>6 DEF Store
    <2>2. changes' \in Nat /\ answered' \in BOOLEAN
      <3>1. changes' \in Nat
        BY <2>1 DEF SyncTypeOK
      <3>2. answered' \in BOOLEAN
        BY <2>1, Zenon
      <3> QED
        BY <3>1, <3>2
    <2>3. /\ module' = module /\ rows' = rows /\ sent' = sent /\ syncs' = syncs
          /\ mempool' = mempool /\ scenario' = scenario /\ direct' = direct /\ faults' = faults
      BY <2>1
    <2> QED
      BY <2>1, <2>2, <2>3 DEF SyncTypeOK
  <1>7. ASSUME NEW c \in DirectCalls, Direct(c) PROVE SyncTypeOK'
    <2>1. /\ module' = Apply(module, c) /\ direct' = direct + 1 /\ answered' = FALSE
          /\ UNCHANGED <<db, rows, sent, syncs, mempool, scenario, changes, faults>>
      BY <1>7 DEF Direct
    <2>2. Exact(module')
      BY <2>1, DirectIs, ApplyExact DEF SyncTypeOK
    <2>3. direct' \in Nat /\ answered' \in BOOLEAN
      <3>1. direct' \in Nat
        BY <2>1 DEF SyncTypeOK
      <3>2. answered' \in BOOLEAN
        BY <2>1, Zenon
      <3> QED
        BY <3>1, <3>2
    <2>4. /\ db' = db /\ rows' = rows /\ sent' = sent /\ syncs' = syncs
          /\ mempool' = mempool /\ scenario' = scenario /\ changes' = changes /\ faults' = faults
      BY <2>1
    <2> QED
      BY <2>2, <2>3, <2>4 DEF SyncTypeOK
  <1> QED
    BY <1>1, <1>3, <1>4, <1>5, <1>6, <1>7 DEF Next

(***************************************************************************)
(* A patient administrator.                                                *)
(*                                                                         *)
(* While a request is served the stored policy does not change, so every   *)
(* call in flight moves the module towards it and every request read a     *)
(* module that was not further than it is now.  The operator's key must be *)
(* left alone (Alone): what it does no row and no request knows of.        *)
(***************************************************************************)
Alone == \A s \in Scenarios : s.waits => s.direct = 0

(* What a request saw holds still, as far as the plan depends on it. *)
Fresh(y) ==
    y.pc # "idle" =>
        /\ y.policy = db
        /\ y.history \subseteq sent /\ sent \subseteq y.history \cup db.list
        /\ y.pc \in {"members", "plan"} /\ y.reading.hasPolicy =>
              /\ module.hasPolicy
              /\ y.reading.core = db.core => module.core = db.core
              /\ y.reading.active = db.active => module.active = db.active
        /\ y.pc = "members" /\ y.reading.hasPolicy =>
              /\ y.reading.count = 0 => module.allowed \subseteq db.list
              /\ y.reading.count # 0 /\ db.list # {} => module.count # 0
        /\ y.pc = "plan" =>
              /\ y.members \cap db.list \subseteq module.allowed
              /\ y.history \cap module.allowed \subseteq y.members \cup db.list

(* Every call in flight leaves all that is stored listed, and nothing in   *)
(* the mempool contradicts what is stored.                                 *)
Patient ==
    scenario.waits =>
        /\ \A c \in InFlight : Covered(module, c, db.list)
        /\ \A i \in DOMAIN mempool : Towards(mempool[i].call, db)
        /\ \A s \in Syncers : Fresh(syncs[s])
        /\ answered => Holds(db)

(* The module comes closer to the stored policy. *)
Advances ==
    /\ module.hasPolicy => module'.hasPolicy
    /\ module.core = db.core => module'.core = db.core
    /\ module.active = db.active => module'.active = db.active
    /\ module.allowed \cap db.list \subseteq module'.allowed
    /\ module'.allowed \subseteq module.allowed \cup db.list
    /\ db.list # {} /\ module.count # 0 => module'.count # 0

(* A call that is mined while the administrator waits takes it closer, and *)
(* opens it to nobody.                                                     *)
LEMMA MineAdvances ==
    ASSUME SyncTypeOK, SyncTypeOK', Patient, scenario.waits, Mine
    PROVE  /\ Advances
           /\ db.list # {} =>
                 \A t \in Targets \ db.list : IsAllowed(module', t) => IsAllowed(module, t)
  <1>1. PICK c \in Call : /\ module' = Apply(module, c)
                           /\ \E k \in DOMAIN mempool : c = mempool[k].call
    BY MineIs
  <1>2. Towards(c, db) /\ Covered(module, c, db.list)
    BY <1>1 DEF Patient, InFlight
  <1>3. Exact(module) /\ Exact(module') /\ db \in Policy
    BY SyncAssumption DEF SyncTypeOK
  <1> DEFINE u == module'
  <1>4. /\ module.hasPolicy => u.hasPolicy
        /\ module.core = db.core => u.core = db.core
        /\ module.active = db.active => u.active = db.active
        /\ module.allowed \cap db.list \subseteq u.allowed
        /\ u.allowed \subseteq module.allowed \cup db.list
        /\ c \in ListCall /\ Covered(module, c, db.list) => db.list \subseteq u.allowed
        /\ c \notin ListCall => u.allowed = module.allowed /\ u.count = module.count
    BY <1>1, <1>2, <1>3, ApplyTowards
  <1>5. u.count = 0 <=> u.allowed = {}
    BY <1>3, EmptyCount
  <1>6. c \in ListCall /\ db.list # {} => u.count # 0
    BY <1>2, <1>4, <1>5
  <1> HIDE DEF u
  <1>7. /\ module.hasPolicy => u.hasPolicy
        /\ module.core = db.core => u.core = db.core
        /\ module.active = db.active => u.active = db.active
        /\ module.allowed \cap db.list \subseteq u.allowed
        /\ u.allowed \subseteq module.allowed \cup db.list
        /\ db.list # {} /\ module.count # 0 => u.count # 0
    BY <1>4, <1>6
  <1>8. ASSUME db.list # {}, NEW t \in Targets \ db.list, IsAllowed(u, t) PROVE IsAllowed(module, t)
    <2>1. CASE c \in ListCall
      <3>1. t \in u.allowed
        BY <1>6, <1>8, <2>1 DEF IsAllowed
      <3> QED
        BY <1>4, <1>8, <3>1 DEF IsAllowed
    <2>2. CASE c \notin ListCall
      BY <1>4, <1>8, <2>2 DEF IsAllowed
    <2> QED
      BY <2>1, <2>2
  <1> QED
    BY <1>7, <1>8 DEF Advances, u

(* What a request saw still holds of a module that came closer. *)
LEMMA FreshStays ==
    ASSUME NEW y, Fresh(y), Advances, UNCHANGED <<db, sent>>
    PROVE  Fresh(y)'
  <1> SUFFICES ASSUME y.pc # "idle" PROVE Fresh(y)'
    BY DEF Fresh
  <1>1. y.policy = db /\ y.history \subseteq sent /\ sent \subseteq y.history \cup db.list
    BY DEF Fresh
  <1>2. y.pc \in {"members", "plan"} /\ y.reading.hasPolicy =>
              /\ module'.hasPolicy
              /\ y.reading.core = db.core => module'.core = db.core
              /\ y.reading.active = db.active => module'.active = db.active
    BY DEF Fresh, Advances
  <1>3. y.pc = "members" /\ y.reading.hasPolicy =>
              /\ y.reading.count = 0 => module'.allowed \subseteq db.list
              /\ y.reading.count # 0 /\ db.list # {} => module'.count # 0
    BY DEF Fresh, Advances
  <1>4. y.pc = "plan" =>
              /\ y.members \cap db.list \subseteq module'.allowed
              /\ y.history \cap module'.allowed \subseteq y.members \cup db.list
    BY DEF Fresh, Advances
  <1> QED
    BY <1>1, <1>2, <1>3, <1>4 DEF Fresh

(* So does the promise itself. *)
LEMMA HoldsStays ==
    ASSUME Holds(db), Advances, UNCHANGED <<db, sent>>
    PROVE  Holds(db)'
  BY DEF Holds, Advances

(* The steps of rows and transactions keep Patient. *)
LEMMA RowsKeepPatient ==
    ASSUME Patient, RowsMove, Advances
    PROVE  Patient'
  <1> SUFFICES ASSUME scenario.waits PROVE Patient'
    BY DEF Patient, RowsMove
  <1>1. UNCHANGED <<db, sent, syncs, answered, scenario>>
    BY DEF RowsMove
  <1>2. ASSUME NEW c \in InFlight' PROVE Covered(module', c, db.list)
    <2>1. Covered(module, c, db.list)
      BY <1>2 DEF RowsMove, Patient
    <2> QED
      BY <2>1 DEF Covered, Advances
  <1>3. \A i \in DOMAIN mempool' : Towards(mempool'[i].call, db)
    BY DEF RowsMove, SignedWell, Patient
  <1>4. ASSUME NEW s \in Syncers PROVE Fresh(syncs[s])'
    <2>1. Fresh(syncs[s])
      BY DEF Patient
    <2> QED
      BY <1>1, <2>1, FreshStays
  <1>5. answered => Holds(db)'
    BY <1>1, HoldsStays DEF Patient
  <1> QED
    BY <1>1, <1>2, <1>3, <1>4, <1>5 DEF Patient

(* A request that starts, or reads, finds what it has to remember. *)
LEMMA ReaderIsFresh ==
    ASSUME SyncTypeOK, Patient, scenario.waits, NEW s \in Syncers, NEW y,
           \/ /\ y.pc = "core" /\ y.policy = db /\ y.history = sent
           \/ /\ syncs[s].pc = "core"
              /\ y.pc = "members" /\ y.policy = syncs[s].policy /\ y.history = syncs[s].history
              /\ y.reading.hasPolicy => /\ module.hasPolicy /\ y.reading.core = module.core
                                        /\ y.reading.active = module.active
                                        /\ y.reading.count = module.count
           \/ /\ syncs[s].pc = "members"
              /\ y.pc = "plan" /\ y.policy = syncs[s].policy
              /\ y.history = syncs[s].history /\ y.reading = syncs[s].reading
              /\ y.members = IF EmptyRead(s) THEN {}
                             ELSE {t \in syncs[s].policy.list \cup syncs[s].history :
                                      IsAllowed(module, t)}
    PROVE  Fresh(y)
  <1>1. Exact(module) /\ (module.count = 0 <=> module.allowed = {})
    BY EmptyCount DEF SyncTypeOK
  <1>2. Fresh(syncs[s])
    BY DEF Patient
  <1>3. CASE y.pc = "core" /\ y.policy = db /\ y.history = sent
    BY <1>3 DEF Fresh
  <1>4. CASE /\ syncs[s].pc = "core"
             /\ y.pc = "members" /\ y.policy = syncs[s].policy /\ y.history = syncs[s].history
             /\ y.reading.hasPolicy => /\ module.hasPolicy /\ y.reading.core = module.core
                                       /\ y.reading.active = module.active
                                       /\ y.reading.count = module.count
    BY <1>1, <1>2, <1>4 DEF Fresh
  <1>5. CASE /\ syncs[s].pc = "members"
             /\ y.pc = "plan" /\ y.policy = syncs[s].policy
             /\ y.history = syncs[s].history /\ y.reading = syncs[s].reading
             /\ y.members = IF EmptyRead(s) THEN {}
                            ELSE {t \in syncs[s].policy.list \cup syncs[s].history :
                                     IsAllowed(module, t)}
    <2>1. /\ y.policy = db
          /\ y.history \subseteq sent /\ sent \subseteq y.history \cup db.list
          /\ y.reading.hasPolicy =>
                /\ module.hasPolicy
                /\ y.reading.core = db.core => module.core = db.core
                /\ y.reading.active = db.active => module.active = db.active
                /\ y.reading.count = 0 => module.allowed \subseteq db.list
                /\ y.reading.count # 0 /\ db.list # {} => module.count # 0
      BY <1>2, <1>5 DEF Fresh
    <2>2. CASE EmptyRead(s)
      <3>1. y.members = {}
        BY <1>5, <2>2
      <3>2. (y.reading.hasPolicy /\ y.reading.count = 0) \/ (~y.reading.hasPolicy /\ module.count = 0)
        BY <1>5, <2>2 DEF EmptyRead
      <3>3. module.allowed \subseteq db.list
        BY <1>1, <2>1, <3>2
      <3> QED
        BY <1>5, <2>1, <3>1, <3>3 DEF Fresh
    <2>3. CASE ~EmptyRead(s)
      <3>1. y.members = {t \in db.list \cup y.history : IsAllowed(module, t)}
        BY <1>5, <2>1, <2>3
      <3>2. (y.reading.hasPolicy /\ y.reading.count # 0) \/ (~y.reading.hasPolicy /\ module.count # 0)
        BY <1>5, <2>3 DEF EmptyRead
      <3>3. db.list # {} => module.count # 0
        BY <2>1, <3>2
      <3>4. y.members \cap db.list \subseteq module.allowed
        BY <3>1, <3>3 DEF IsAllowed
      <3>5. y.history \cap module.allowed \subseteq y.members
        BY <3>1 DEF IsAllowed
      <3> QED
        BY <1>5, <2>1, <3>4, <3>5 DEF Fresh
    <2> QED
      BY <2>2, <2>3
  <1> QED
    BY <1>3, <1>4, <1>5

(* Loading and reading keep Patient. *)
LEMMA ReadsKeepPatient ==
    ASSUME SyncTypeOK, Patient, NEW s \in Syncers, Load(s) \/ ReadCore(s) \/ ReadMembers(s)
    PROVE  Patient'
  <1>1. UNCHANGED <<module, db, rows, sent, answered, mempool, scenario>>
    BY DEF Load, ReadCore, ReadMembers
  <1> SUFFICES ASSUME scenario.waits PROVE Patient'
    BY <1>1 DEF Patient
  <1>2. PICK y : /\ Serves(s, y)
                 /\ \/ /\ y.pc = "core" /\ y.policy = db /\ y.history = sent
                    \/ /\ syncs[s].pc = "core"
                       /\ y.pc = "members" /\ y.policy = syncs[s].policy
                       /\ y.history = syncs[s].history
                       /\ y.reading.hasPolicy => /\ module.hasPolicy /\ y.reading.core = module.core
                                                 /\ y.reading.active = module.active
                                                 /\ y.reading.count = module.count
                    \/ /\ syncs[s].pc = "members"
                       /\ y.pc = "plan" /\ y.policy = syncs[s].policy
                       /\ y.history = syncs[s].history /\ y.reading = syncs[s].reading
                       /\ y.members = IF EmptyRead(s) THEN {}
                                      ELSE {t \in syncs[s].policy.list \cup syncs[s].history :
                                               IsAllowed(module, t)}
    <2>1. CASE Load(s)
      BY <2>1, LoadIs
    <2>2. CASE ReadCore(s)
      BY <2>2, ReadCoreIs
    <2>3. CASE ReadMembers(s)
      BY <2>3, ReadMembersIs
    <2> QED
      BY <2>1, <2>2, <2>3
  <1>3. Fresh(y)
    BY <1>2, ReaderIsFresh
  <1>4. ASSUME NEW o \in Syncers PROVE Fresh(syncs'[o])
    <2>1. syncs'[o] = IF o = s THEN y ELSE syncs[o]
      BY <1>2 DEF Serves, SyncTypeOK
    <2> QED
      BY <1>3, <2>1 DEF Patient
  <1>5. ASSUME NEW o \in Syncers PROVE Fresh(syncs[o])'
    BY <1>1, <1>4 DEF Fresh
  <1>6. Holds(db) => Holds(db)'
    BY <1>1 DEF Holds
  <1>7. /\ \A c \in InFlight' : Covered(module', c, db'.list)
        /\ \A i \in DOMAIN mempool' : Towards(mempool'[i].call, db')
    BY <1>1 DEF Patient, InFlight
  <1> QED
    BY <1>1, <1>5, <1>6, <1>7 DEF Patient

(* So does queuing what is missing: whatever of the list the module lacks  *)
(* is named by the call, and an empty plan means that nothing is.          *)
LEMMA QueueKeepsPatient ==
    ASSUME SyncTypeOK, Patient, NEW s \in Syncers, QueueCalls(s)
    PROVE  Patient'
  <1> DEFINE y == syncs[s]
             P == PlanOf(y)
  <1>1. /\ UNCHANGED <<module, db, mempool, scenario>>
        /\ y.pc = "plan" /\ Serves(s, Idle)
        /\ y.policy \in Policy /\ y.members \in SUBSET Targets /\ y.history \in SUBSET Targets
        /\ rows \subseteq rows'
        /\ \A r \in rows' \ rows : r.call \in P
        /\ sent \subseteq sent' /\ sent' \subseteq sent \cup y.policy.list \cup y.history
        /\ answered' => answered \/ (P = {} /\ y.policy = db)
    BY QueueCallsIs
  <1> SUFFICES ASSUME scenario.waits PROVE Patient'
    BY <1>1 DEF Patient
  <1>2. Fresh(y)
    BY DEF Patient
  <1> HIDE DEF y, P
  <1>3. /\ \A c \in P : c \in ListCall => y.policy.list \ y.members \subseteq Named(c.entries)
        /\ P = {} => /\ y.reading.hasPolicy /\ y.reading.core = y.policy.core
                     /\ y.reading.active = y.policy.active
                     /\ y.policy.list \subseteq y.members /\ y.history \cap y.members \subseteq y.policy.list
    BY <1>1, PlanOfIs DEF P
  <1>4. /\ y.policy = db /\ y.history \subseteq sent /\ sent \subseteq y.history \cup db.list
        /\ y.reading.hasPolicy =>
              /\ module.hasPolicy
              /\ y.reading.core = db.core => module.core = db.core
              /\ y.reading.active = db.active => module.active = db.active
        /\ y.members \cap db.list \subseteq module.allowed
        /\ y.history \cap module.allowed \subseteq y.members \cup db.list
    BY <1>1, <1>2 DEF Fresh
  <1>5. sent' \subseteq sent \cup db.list
    BY <1>1, <1>4
  <1>6. ASSUME NEW c \in InFlight' PROVE Covered(module', c, db'.list)
    <2>1. CASE c \in InFlight
      BY <1>1, <2>1 DEF Patient
    <2>2. CASE c \notin InFlight
      <3>1. c \in {r.call : r \in rows'}
        BY <1>1, <1>6, <2>2 DEF InFlight
      <3>2. PICK r \in rows' : c = r.call
        BY <3>1
      <3>3. r \notin rows
        BY <2>2, <3>2 DEF InFlight
      <3>4. c \in P
        BY <1>1, <3>2, <3>3
      <3> QED
        BY <1>1, <1>3, <1>4, <3>4 DEF Covered
    <2> QED
      BY <2>1, <2>2
  <1>7. \A i \in DOMAIN mempool' : Towards(mempool'[i].call, db')
    BY <1>1 DEF Patient
  <1>8. ASSUME NEW o \in Syncers PROVE Fresh(syncs[o])'
    <2>1. CASE o = s
      <3>1. syncs'[o] = Idle
        BY <1>1, <2>1 DEF Serves, SyncTypeOK
      <3> QED
        BY <3>1, NothingYet DEF Fresh
    <2>2. CASE o # s
      <3>1. syncs'[o] = syncs[o] /\ Fresh(syncs[o])
        BY <1>1, <2>2 DEF Serves, SyncTypeOK, Patient
      <3> QED
        BY <1>1, <1>5, <3>1 DEF Fresh
    <2> QED
      BY <2>1, <2>2
  <1>9. answered' => Holds(db)'
    <2>1. CASE answered
      <3>1. Holds(db)
        BY <2>1 DEF Patient
      <3> QED
        BY <1>1, <1>5, <3>1 DEF Holds
    <2>2. CASE P = {} /\ y.policy = db
      <3>1. /\ y.reading.hasPolicy /\ y.reading.core = db.core /\ y.reading.active = db.active
            /\ db.list \subseteq y.members /\ y.history \cap y.members \subseteq db.list
        BY <1>3, <2>2
      <3>2. /\ module.hasPolicy /\ module.core = db.core /\ module.active = db.active
            /\ db.list \subseteq module.allowed /\ y.history \cap module.allowed \subseteq db.list
        BY <1>4, <3>1
      <3>3. module.allowed \cap sent' \subseteq db.list
        BY <1>4, <1>5, <3>2
      <3> QED
        BY <1>1, <3>2, <3>3 DEF Holds
    <2> QED
      BY <1>1, <2>1, <2>2
  <1> QED
    BY <1>1, <1>6, <1>7, <1>8, <1>9 DEF Patient

(* The administrator waited: there is nothing in flight to disagree with a *)
(* new policy.                                                             *)
LEMMA StoreKeepsPatient ==
    ASSUME Patient, NEW p \in Policies, Store(p)
    PROVE  Patient'
  <1>1. answered' = FALSE /\ UNCHANGED <<rows, syncs, mempool, scenario>>
    BY DEF Store
  <1> SUFFICES ASSUME scenario.waits PROVE Patient'
    BY <1>1 DEF Patient
  <1>2. rows' = {} /\ mempool' = <<>> /\ \A s \in Syncers : syncs'[s].pc = "idle"
    BY <1>1 DEF Store, Settled
  <1>3. InFlight' = {} /\ DOMAIN mempool' = {}
    BY <1>2 DEF InFlight
  <1>4. \A s \in Syncers : Fresh(syncs[s])'
    BY <1>2 DEF Fresh
  <1> QED
    BY <1>1, <1>3, <1>4 DEF Patient

(* The inductive invariant. *)
LEMMA PatientInit == Init => Patient
  <1> SUFFICES ASSUME Init PROVE Patient
    OBVIOUS
  <1>1. InFlight = {} /\ DOMAIN mempool = {} /\ ~answered
    BY DEF Init, InFlight
  <1>2. ASSUME NEW s \in Syncers PROVE Fresh(syncs[s])
    BY NothingYet DEF Init, Fresh
  <1> QED
    BY <1>1, <1>2 DEF Patient

(* Every step keeps Patient. *)
LEMMA PatientStep ==
    ASSUME Alone, SyncTypeOK, SyncTypeOK', Patient, Next
    PROVE  Patient'
  <1>1. ASSUME UNCHANGED module PROVE Advances
    BY <1>1 DEF Advances
  <1>2. ASSUME NEW s \in Syncers, SyncStep(s) PROVE Patient'
    BY <1>2, ReadsKeepPatient, QueueKeepsPatient DEF SyncStep
  <1>3. ASSUME NEW r \in rows, RowStep(r) \/ Fail(r) PROVE Patient'
    BY <1>1, <1>3, BroadcastIs, RowEnds, RowsKeepPatient DEF RowStep
  <1>4. ASSUME NEW i \in DOMAIN mempool, Drop(i) PROVE Patient'
    BY <1>1, <1>4, DropIs, RowsKeepPatient
  <1>5. CASE Mine
    <2>1. CASE scenario.waits
      BY <1>5, <2>1, MineIs, MineAdvances, RowsKeepPatient
    <2>2. CASE ~scenario.waits
      <3>1. scenario' = scenario
        BY <1>5 DEF Mine
      <3> QED
        BY <2>2, <3>1 DEF Patient
    <2> QED
      BY <2>1, <2>2
  <1>6. ASSUME NEW p \in Policies, Store(p) PROVE Patient'
    BY <1>6, StoreKeepsPatient
  <1>7. ASSUME NEW c \in DirectCalls, Direct(c) PROVE Patient'
    <2>1. direct < scenario.direct /\ scenario' = scenario /\ direct \in Nat /\ scenario \in Scenarios
      BY <1>7 DEF Direct, SyncTypeOK
    <2>2. ~scenario.waits
      BY <2>1 DEF Alone
    <2> QED
      BY <2>1, <2>2 DEF Patient
  <1> QED
    BY <1>2, <1>3, <1>4, <1>5, <1>6, <1>7 DEF Next

(***************************************************************************)
(* The theorems.                                                           *)
(***************************************************************************)
(* The counter of the module is exact, rows, requests and transactions     *)
(* keep their types, and what is in flight are calls a plan can contain.   *)
THEOREM SyncTypeCorrect == SyncSpec => []SyncTypeOK
  <1>1. SyncTypeOK /\ UNCHANGED syncVars => SyncTypeOK'
    BY DEF SyncTypeOK, syncVars
  <1> QED
    BY <1>1, SyncTypeInit, SyncTypeStep, PTL DEF SyncSpec

(* The counter that decides whether a whitelist restricts anything equals  *)
(* the number of listed addresses, whatever is listed twice and by whom.   *)
THEOREM CountsAlwaysMatch == SyncSpec => []CountsMatchLists
  <1>1. SyncTypeOK => CountsMatchLists
    BY DEF SyncTypeOK, Exact, CountsMatchLists
  <1> QED
    BY <1>1, SyncTypeCorrect, PTL

(* The invariant of an administrator who waits. *)
THEOREM PatientHolds ==
    ASSUME Alone
    PROVE  SyncSpec => []Patient
  <1>1. SyncTypeOK /\ SyncTypeOK' /\ Patient /\ [Next]_syncVars => Patient'
    <2>1. ASSUME SyncTypeOK, SyncTypeOK', Patient, Next PROVE Patient'
      BY <2>1, PatientStep
    <2>2. ASSUME Patient, UNCHANGED syncVars PROVE Patient'
      BY <2>2 DEF Patient, InFlight, Covered, Fresh, Holds, syncVars
    <2> QED
      BY <2>1, <2>2
  <1> QED
    BY <1>1, PatientInit, SyncTypeCorrect, PTL DEF SyncSpec

(* Told that the module holds the policy, an administrator who waits can   *)
(* rely on it until the next change, whatever is still in flight.          *)
THEOREM AnswerAlwaysHolds ==
    ASSUME Alone
    PROVE  SyncSpec => []AnswerHolds
  <1>1. Patient => AnswerHolds
    BY DEF Patient, AnswerHolds
  <1> QED
    BY <1>1, PatientHolds, PTL

(* On the way from one list to another no address outside the stored list  *)
(* becomes callable, not by an empty list either.                          *)
THEOREM NeverOpens ==
    ASSUME Alone
    PROVE  SyncSpec => NeverOpened
  <1> DEFINE Closed ==
                scenario.waits /\ db.list # {}
                    => \A t \in Targets \ db.list : IsAllowed(module', t) => IsAllowed(module, t)
  <1>1. SyncTypeOK /\ SyncTypeOK' /\ Patient /\ [Next]_syncVars => [Closed]_syncVars
    <2> SUFFICES ASSUME SyncTypeOK, SyncTypeOK', Patient, Next, scenario.waits, db.list # {},
                        NEW t \in Targets \ db.list, IsAllowed(module', t)
                 PROVE  IsAllowed(module, t)
      OBVIOUS
    <2>1. CASE Mine
      BY <2>1, MineAdvances
    <2>2. ASSUME NEW c \in DirectCalls, Direct(c) PROVE FALSE
      <3>1. direct < scenario.direct /\ direct \in Nat /\ scenario \in Scenarios
        BY <2>2 DEF Direct, SyncTypeOK
      <3> QED
        BY <3>1 DEF Alone
    <2>3. CASE UNCHANGED module
      BY <2>3
    <2> QED
      BY <2>1, <2>2, <2>3 DEF Next, SyncStep, RowStep, Load, ReadCore, ReadMembers, QueueCalls,
                             Broadcast, Confirm, Fail, Drop, Store
  <1> QED
    BY <1>1, SyncTypeCorrect, PatientHolds, PTL DEF SyncSpec, NeverOpened
=============================================================================
