------------------------------ MODULE PolicySync ------------------------------
(***************************************************************************)
(* How the stored policy of an agent reaches its policy module             *)
(* (services/policy/policy-sync.service.ts, policy-sync.ts).               *)
(*                                                                         *)
(* An administrator changes the policy in the database and asks for a      *)
(* sync.  A sync loads the policy, reads the module in several calls,      *)
(* plans what is missing and queues one row per call; rows of the agent    *)
(* are signed one after the other by its wallet, right after they were     *)
(* compared with the policy stored then, and mined in that order.  Nothing *)
(* keeps the policy from changing, or another sync from running, meanwhile.*)
(*                                                                         *)
(* A row that is no longer in flight only matters for the addresses it     *)
(* named (sent); TxPipeline has the life of a row in full.                 *)
(***************************************************************************)
EXTENDS PolicyModule, SequencesExt

CONSTANTS
    Syncers,    \* requests that may run at the same time
    Policies,   \* what an administrator may store
    Scenarios   \* bounds of a behaviour: does the administrator wait for the
                \* syncs and their rows before the next change, which requests
                \* there are, the policies, how many changes, calls of the
                \* operator's key, and lost rows

Policy == [core : Cores, active : BOOLEAN, list : SUBSET Targets]

ASSUME SyncAssumption ==
    /\ Policies \subseteq Policy /\ Policies # {}
    /\ Scenarios \subseteq [waits : BOOLEAN, syncers : SUBSET Syncers, policies : SUBSET Policies,
                            changes : Nat, direct : Nat, faults : Nat]

VARIABLES
    db,        \* the stored policy
    rows,      \* sync rows in flight: the call, and how far it is
    sent,      \* addresses that a row of this agent ever named
    syncs,     \* memory: the requests being served
    answered,  \* has a sync found the module to hold the policy stored now?
    mempool,   \* external: the wallet's transactions, in nonce order
    scenario,  \* the bounds of this behaviour, chosen once
    changes, direct, faults

syncVars == <<module, db, rows, sent, syncs, answered, mempool, scenario, changes, direct, faults>>

(***************************************************************************)
(* Calls (policy-sync.ts).                                                 *)
(***************************************************************************)
Whitelist(add, remove) ==
    [name    |-> "updateWhitelist",
     entries |-> SetToSeq({[target |-> t, allowed |-> TRUE] : t \in add})
                   \o SetToSeq({[target |-> t, allowed |-> FALSE] : t \in remove})]

Apply(m, call) ==
    CASE call.name = "setPolicy"       -> SetPolicy(m, call.core, call.active)
      [] call.name = "emergencyPause"  -> EmergencyPause(m)
      [] call.name = "resume"          -> Resume(m)
      [] call.name = "updateWhitelist" -> UpdateWhitelist(m, call.entries)

(* supersededReason: does the call still move the module towards p? *)
Towards(call, p) ==
    CASE call.name = "setPolicy"       -> call.core = p.core /\ call.active = p.active
      [] call.name = "emergencyPause"  -> ~p.active
      [] call.name = "resume"          -> p.active
      [] call.name = "updateWhitelist" ->
             \A i \in DOMAIN call.entries :
                 call.entries[i].allowed = (call.entries[i].target \in p.list)

(* planPolicySync: r is what the module answered about itself, members the  *)
(* addresses it answered yes for, history those that may be removed.       *)
CoreCalls(p, r) ==
    IF ~r.hasPolicy \/ r.core # p.core
    THEN {[name |-> "setPolicy", core |-> p.core, active |-> p.active]}
    ELSE IF r.active # p.active
    THEN {[name |-> IF p.active THEN "resume" ELSE "emergencyPause"]}
    ELSE {}

(* Fault: one call for the additions and one for the removals. *)
FaultListCalls(p, members, history) ==
    {Whitelist(a, {}) : a \in {p.list \ members} \ {{}}}
        \cup {Whitelist({}, d) : d \in {(history \cap members) \ p.list} \ {{}}}

ListCalls(p, members, history) ==
    LET add    == p.list \ members
        remove == (history \cap members) \ p.list
    IN  IF add \cup remove = {} THEN {} ELSE {Whitelist(add, remove)}

(* Fault: only what the stored policy lists is looked at. *)
FaultPlan(p, r, members, history) == CoreCalls(p, r) \cup ListCalls(p, members, {})

Plan(p, r, members, history) == CoreCalls(p, r) \cup ListCalls(p, members, history)

(* Entries the backend cannot name; it refuses to call that in sync. *)
UnknownExtras(r, members) == r.hasPolicy /\ r.count > Cardinality(members)

(***************************************************************************)
(* A sync (PolicySyncService.sync): load, read, read, plan and queue.      *)
(***************************************************************************)
Idle == [pc |-> "idle", policy |-> CHOOSE p \in Policies : TRUE, history |-> {},
         reading |-> Unset, members |-> {}]

Init ==
    /\ scenario \in Scenarios /\ db \in scenario.policies
    /\ rows = {} /\ sent = {} /\ mempool = <<>>
    /\ module = Unset
    /\ syncs = [s \in Syncers |-> Idle]
    /\ answered = FALSE
    /\ changes = 0 /\ direct = 0 /\ faults = 0

Load(s) ==
    /\ s \in scenario.syncers /\ syncs[s].pc = "idle"
    /\ syncs' = [syncs EXCEPT ![s] = [Idle EXCEPT !.pc = "core", !.policy = db, !.history = sent]]
    /\ UNCHANGED <<module, db, rows, sent, answered, mempool, scenario, changes, direct, faults>>

(* hasPolicy and getPolicy, which answers only if there is one *)
ReadCore(s) ==
    /\ syncs[s].pc = "core"
    /\ syncs' = [syncs EXCEPT ![s].pc = "members",
                              ![s].reading = IF module.hasPolicy
                                             THEN [module EXCEPT !.allowed = {}] ELSE Unset]
    /\ UNCHANGED <<module, db, rows, sent, answered, mempool, scenario, changes, direct, faults>>

(* Fault: an empty list, which answers yes to all, is asked like any other. *)
FaultEmptyRead(s) == FALSE

(* The list is known to be empty from the count read before, or without a   *)
(* policy from a probe; otherwise every candidate is asked for.            *)
EmptyRead(s) ==
    IF syncs[s].reading.hasPolicy THEN syncs[s].reading.count = 0 ELSE module.count = 0

ReadMembers(s) ==
    /\ syncs[s].pc = "members"
    /\ LET candidates == syncs[s].policy.list \cup syncs[s].history
       IN  syncs' = [syncs EXCEPT ![s].pc = "plan",
                                  ![s].members = IF EmptyRead(s) THEN {}
                                                 ELSE {t \in candidates : IsAllowed(module, t)}]
    /\ UNCHANGED <<module, db, rows, sent, answered, mempool, scenario, changes, direct, faults>>

(* Under the agent's lock; a call that is in flight is not queued again. *)
QueueCalls(s) ==
    /\ syncs[s].pc = "plan"
    /\ LET y     == syncs[s]
           calls == Plan(y.policy, y.reading, y.members, y.history)
           new   == calls \ {r.call : r \in rows}
           named == UNION {{c.entries[i].target : i \in DOMAIN c.entries} :
                              c \in {d \in calls : d.name = "updateWhitelist"}}
       IN  /\ rows' = rows \cup {[call |-> c, status |-> "QUEUED"] : c \in new}
           /\ sent' = sent \cup named
           /\ answered' = (answered \/ (calls = {} /\ ~UnknownExtras(y.reading, y.members)
                                              /\ y.policy = db))
    /\ syncs' = [syncs EXCEPT ![s] = Idle]
    /\ UNCHANGED <<module, db, mempool, scenario, changes, direct, faults>>

(***************************************************************************)
(* The rows (TxPipeline) and the chain.                                    *)
(***************************************************************************)
Fault == faults < scenario.faults /\ faults' = faults + 1

(* Compared with the stored policy before the delivery and again in the    *)
(* wallet lane (recheckBeforeBroadcast).                                   *)
Broadcast(r) ==
    /\ r \in rows /\ r.status = "QUEUED"
    /\ IF Towards(r.call, db)
       THEN /\ rows' = (rows \ {r}) \cup {[r EXCEPT !.status = "SUBMITTED"]}
            /\ mempool' = Append(mempool, [call |-> r.call, given_up |-> FALSE])
       ELSE rows' = rows \ {r} /\ UNCHANGED mempool
    /\ UNCHANGED <<module, db, sent, syncs, answered, scenario, changes, direct, faults>>

(* The queue refuses the entry, or its last attempt fails. *)
Fail(r) ==
    /\ r \in rows /\ r.status = "QUEUED"
    /\ Fault
    /\ rows' = rows \ {r}
    /\ UNCHANGED <<module, db, sent, syncs, answered, mempool, scenario, changes, direct>>

(* Given up as dropped; the nodes may still mine it, or have lost it. *)
Drop(i) ==
    /\ ~mempool[i].given_up
    /\ Fault
    /\ rows' = rows \ {[call |-> mempool[i].call, status |-> "SUBMITTED"]}
    /\ \/ mempool' = [mempool EXCEPT ![i].given_up = TRUE]
       \/ mempool' = RemoveAt(mempool, i)
    /\ UNCHANGED <<module, db, sent, syncs, answered, scenario, changes, direct>>

Mine ==
    /\ mempool # <<>>
    /\ module' = Apply(module, Head(mempool).call)
    /\ mempool' = Tail(mempool)
    /\ rows' = IF Head(mempool).given_up THEN rows
               ELSE (rows \ {[call |-> Head(mempool).call, status |-> "SUBMITTED"]})
                        \cup {[call |-> Head(mempool).call, status |-> "MINED"]}
    /\ UNCHANGED <<db, sent, syncs, answered, scenario, changes, direct, faults>>

Confirm(r) ==
    /\ r \in rows /\ r.status = "MINED"
    /\ rows' = rows \ {r}
    /\ UNCHANGED <<module, db, sent, syncs, answered, mempool, scenario, changes, direct, faults>>

(***************************************************************************)
(* The administrator, and the holder of the operator's key.                *)
(***************************************************************************)
Settled == rows = {} /\ mempool = <<>> /\ \A s \in Syncers : syncs[s].pc = "idle"

Store(p) ==
    /\ p \in scenario.policies \ {db} /\ changes < scenario.changes
    /\ scenario.waits => Settled
    /\ db' = p /\ changes' = changes + 1 /\ answered' = FALSE
    /\ UNCHANGED <<module, rows, sent, syncs, mempool, scenario, direct, faults>>

DirectCalls == {[name |-> "emergencyPause"], [name |-> "resume"]}
                  \cup {[name |-> "updateWhitelist", entries |-> <<e, e>>] : e \in Entry}

Direct(call) ==
    /\ direct < scenario.direct
    /\ module' = Apply(module, call)
    /\ direct' = direct + 1 /\ answered' = FALSE
    /\ UNCHANGED <<db, rows, sent, syncs, mempool, scenario, changes, faults>>

SyncStep(s) == Load(s) \/ ReadCore(s) \/ ReadMembers(s) \/ QueueCalls(s)
RowStep(r)  == Broadcast(r) \/ Confirm(r)

Next ==
    \/ \E s \in Syncers : SyncStep(s)
    \/ \E r \in rows : RowStep(r) \/ Fail(r)
    \/ \E i \in DOMAIN mempool : Drop(i)
    \/ Mine
    \/ \E p \in Policies : Store(p)
    \/ \E call \in DirectCalls : Direct(call)

SyncSpec == Init /\ [][Next]_syncVars

(* The administrator goes on asking for syncs until the module agrees; the  *)
(* worker delivers the rows, and the nodes mine what they hold.            *)
Fairness ==
    /\ \A s \in Syncers : WF_syncVars(SyncStep(s))
    /\ WF_syncVars(\E r \in rows : RowStep(r))
    /\ WF_syncVars(Mine)

FairSyncSpec == SyncSpec /\ Fairness

(***************************************************************************)
(* Properties.                                                             *)
(***************************************************************************)
(* The module holds p, but for entries that no sync can name. *)
Holds(p) ==
    /\ module.hasPolicy /\ module.core = p.core /\ module.active = p.active
    /\ p.list \subseteq module.allowed
    /\ (module.allowed \cap sent) \subseteq p.list

(* Whatever was changed, lost, given up or done with the operator's key,    *)
(* asking again in the end leaves the module with the stored policy.       *)
SyncConverges == <>[]Holds(db)

(* An administrator who waits for a change to arrive before the next one    *)
(* never opens the wallet to an address outside the stored list on the way *)
(* from one list to another: the last entry is not removed before the      *)
(* first is added.                                                         *)
NeverOpened ==
    [][ scenario.waits /\ db.list # {}
        => \A t \in Targets \ db.list : IsAllowed(module', t) => IsAllowed(module, t) ]_syncVars

(* ... and once told that the module holds the policy, can rely on it.  One  *)
(* who does not wait cannot: a call signed earlier may still be mined.     *)
AnswerHolds == scenario.waits => (answered => Holds(db))
=============================================================================
