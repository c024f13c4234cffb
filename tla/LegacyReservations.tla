------------------------- MODULE LegacyReservations -------------------------
(***************************************************************************)
(* The reservation of a job that is paid by an ordinary transaction        *)
(* (reserveJobEscrow, and POST /v1/jobs around it), next to all that       *)
(* SpendLedger models.  It takes no lock: the limit is read, the reward is *)
(* priced, the volume is added by one UPDATE that returns the new total,   *)
(* given back if that is too much, and only then the Job row is written,   *)
(* with a time of its own.  The request may die between any two.           *)
(***************************************************************************)
EXTENDS SpendLedger

CONSTANT
    Scenarios   \* bounds of a behaviour: are jobs paid this way, is there a policy;
                \* how many transactions, jobs, payments, reservations of payments
                \* and payees there are; the highest price, and the last day

ASSUME LegacyAssumption ==
    Scenarios \subseteq [legacy : BOOLEAN, policy : BOOLEAN, txs : 0..MaxTxs, jobs : 0..MaxJobs,
                         pays : 0..MaxPays, tries : Nat, payees : Nat, price : Nat, days : Days]

VARIABLES
    legacy,     \* the requests, by the job they create
    scenario    \* the bounds of this behaviour, chosen once

legacyVars == <<spendVars, legacy, scenario>>

(* "judged" has its limit, "reserved" has its volume, "refused" has volume *)
(* to give back, "lost" died with its volume added.                        *)
LegacyStep == {"none", "judged", "reserved", "refused", "lost", "created", "over"}

(* lim is the limit it was judged by, day the day its volume was added to. *)
Request == [step : LegacyStep, lim : Limits \cup {0}, usd : Values \cup {0}, day : Days]

(* A policy that is paused limits nothing here, either. *)
Judge(j, usd) ==
    /\ legacy[j].step = "none" /\ res[j].status = "NONE"
    /\ usd > 0
    /\ legacy' = [legacy EXCEPT ![j].step = "judged", ![j].lim = CreationLimit,
                                ![j].usd = IF CreationLimit > 0 THEN usd ELSE 0]
    /\ UNCHANGED spendVars

(* What addDailyVolume returned, against the limit.  Fault: the total      *)
(* before the addition is compared.                                        *)
FaultOldTotal(vol, r, d) == vol[d] - r.usd > r.lim
TooMuch(vol, r, d) == vol[d] > r.lim

AddVolume(j, d) ==
    /\ legacy[j].step = "judged" /\ legacy[j].lim > 0
    /\ volume' = Added(volume, d, legacy[j].usd)
    /\ legacy' = [legacy EXCEPT
                    ![j].step = IF TooMuch(volume', legacy[j], d) THEN "refused" ELSE "reserved",
                    ![j].day = d]
    /\ UNCHANGED <<rpVars, policyVars, tx, res>>

(* The request is refused and its volume given back. *)
RollBack(j) ==
    /\ legacy[j].step = "refused"
    /\ volume' = Subtracted(volume, legacy[j].day, legacy[j].usd)
    /\ legacy' = [legacy EXCEPT ![j].step = "over"]
    /\ UNCHANGED <<rpVars, policyVars, tx, res>>

(* The Job row, with the amount that was added. *)
ReservedRow(r, d) == [status |-> "PENDING", usd |-> r.usd, day |-> d, due |-> FALSE]

(* Its reservedAt is of a clock reading of its own. *)
InsertJob(j, d) ==
    /\ legacy[j].step = "reserved" \/ (legacy[j].step = "judged" /\ legacy[j].lim = 0)
    /\ d >= legacy[j].day
    /\ res' = [res EXCEPT ![j] = ReservedRow(legacy[j], d)]
    /\ legacy' = [legacy EXCEPT ![j].step = "created"]
    /\ UNCHANGED <<rpVars, policyVars, volume, tx>>

(* The process dies, or the insert fails: nothing gives the volume back. *)
Die(j) ==
    /\ legacy[j].step \in {"reserved", "refused"}
    /\ legacy' = [legacy EXCEPT ![j].step = "lost"]
    /\ UNCHANGED spendVars

(* What the scenario leaves out. *)
WithinScenario ==
    /\ today <= scenario.days
    /\ \A t \in Txs : t > scenario.txs => tx[t].status = "none"
    /\ \A j \in Jobs : j > scenario.jobs => res[j].status = "NONE"
    /\ \A p \in Pays : p > scenario.pays => pay[p].status = "none"
    /\ \A p \in Pays : pay[p].usd <= scenario.price
    /\ SumTo([p \in Pays |-> pay[p].tries], MaxPays) <= scenario.tries
    /\ Cardinality({pay[p].payTo : p \in Pays} \ {NoPayee}) <= scenario.payees
    /\ ~scenario.policy => limit = 0 /\ active
    /\ \A j \in Jobs : legacy[j].step # "none" => scenario.legacy /\ j <= scenario.jobs

LegacyInit ==
    /\ SpendInit
    /\ legacy = [j \in Jobs |-> [step |-> "none", lim |-> 0, usd |-> 0, day |-> 0]]
    /\ scenario \in Scenarios
    /\ WithinScenario

LegacyJobStep(j) ==
    \/ \E usd \in Values : Judge(j, usd)
    \/ \E d \in CapturedDays : AddVolume(j, d) \/ InsertJob(j, d)
    \/ RollBack(j) \/ Die(j)

(* A job is created on one path only. *)
OtherStep ==
    /\ SpendNext
    /\ \A j \in Jobs : legacy[j].step # "none" => (res[j].status = "NONE" <=> res'[j].status = "NONE")
    /\ UNCHANGED legacy

LegacyNext ==
    /\ (\E j \in Jobs : LegacyJobStep(j)) \/ OtherStep
    /\ UNCHANGED scenario
    /\ WithinScenario'
    /\ scenario.policy => UNCHANGED accepted   \* the paying job is closed in the others

LegacySpec == LegacyInit /\ [][LegacyNext]_legacyVars

(***************************************************************************)
(* Properties.                                                             *)
(***************************************************************************)
(* Types; what was added was judged by a limit, and a job that was created *)
(* records the amount that was added for it (reservedValueUsd).            *)
LegacyTypeOK ==
    /\ SpendTypeOK
    /\ legacy \in [Jobs -> Request]
    /\ \A j \in Jobs :
          /\ legacy[j].step \in {"reserved", "refused", "lost"} => legacy[j].lim > 0
          /\ legacy[j].step = "created" => res[j].status # "NONE" /\ res[j].usd = legacy[j].usd

(* What a reservation holds, on the day its volume was added to.           *)
Holds(j, d) ==
    IF legacy[j].step = "created" THEN JobCounts(res[j]) /\ legacy[j].day = d
    ELSE IF legacy[j].step \in {"reserved", "refused"} THEN legacy[j].day = d
    ELSE JobCounts(res[j]) /\ res[j].day = d

Held(j) == IF legacy[j].step \in {"reserved", "refused"} THEN legacy[j].usd ELSE res[j].usd

HeldCharges(d) == [j \in Jobs |-> IF Holds(j, d) THEN Held(j) ELSE 0]

(* What requests that died left behind. *)
LeftCharges(d) ==
    [j \in Jobs |-> IF legacy[j].step = "lost" /\ legacy[j].day = d THEN legacy[j].usd ELSE 0]

(* The volume of a day is what is reserved on it and what requests that    *)
(* died left there, neither more nor less, through midnights, approvals on *)
(* a later day, and releases that race each other; so what is given back   *)
(* is what was added, on the day it was added to (volumeReservedDate,      *)
(* reservedAt), and no later check finds room that is taken.               *)
BooksBalance ==
    \A d \in Days :
        volume[d] = SumTo(TxCharges(tx, d), MaxTxs)
                    + SumTo(HeldCharges(d), MaxJobs) + SumTo(LeftCharges(d), MaxJobs)

(* Whatever way it is spent, nothing is committed to a day past the limit  *)
(* that applies ("one daily limit holds across them"): a step that adds to *)
(* a day under an active policy leaves it within the limit, but for a      *)
(* legacy reservation, which takes back what did not fit.                  *)
LimitBinds ==
    [][active /\ limit > 0 /\ legacy' = legacy
       => \A d \in Days : Committed(d)' > Committed(d) => Committed(d)' <= limit]_legacyVars
=============================================================================
