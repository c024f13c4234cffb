--------------------------- MODULE ReputationHook ---------------------------
(***************************************************************************)
(* The reputation hook (packages/contracts/src/ReputationHook.sol) composed *)
(* with the escrow that calls it: on submit it binds the provider's address *)
(* to one ERC-8004 identity, on complete and reject it writes feedback for  *)
(* that identity in the same transaction as the settlement.                 *)
(*                                                                          *)
(* The two ERC-8004 registries are external.  The identity registry is the  *)
(* set of accounts it confirms for each id, which the owners change at will *)
(* and which it may fail to report; the reputation registry records or      *)
(* refuses any feedback (an outage, or a provider that approved the hook to *)
(* trip the registry's anti-self-feedback rule).  A transaction with too    *)
(* little gas reverts and is no step.                                       *)
(***************************************************************************)
EXTENDS AgentJobEscrow, FiniteSets

CONSTANTS
    RepHook,            \* the address of this hook
    TrustedEvaluator,   \* the only evaluator whose settlements are rated
    MinFeedbackBudget,  \* budget below which a job is not rated
    Controllers         \* bound: the accounts the identity registry names

ASSUME HookAssumption ==
    /\ RepHook \in Hooks
    /\ TrustedEvaluator \in Address
    /\ MinFeedbackBudget \in Nat
    /\ Controllers \subseteq Address

VARIABLES
    canonicalAgentId,  \* provider -> the identity rated for it
    penalties,         \* id -> negative verdicts the registry did not record
    controllers,       \* external: id -> accounts the identity registry confirms
    entries,           \* external: the feedback this hook wrote
    \* history, read by the properties only:
    boundAtSubmit,     \* job -> canonical id of its provider when it was submitted
    verdicts,          \* jobs the trusted evaluator rejected for quality
    unrecorded         \* verdicts charged as a penalty

hookVars == <<canonicalAgentId, penalties>>
registryVars == <<controllers, entries>>
historyVars == <<boundAtSubmit, verdicts, unrecorded>>
hVars == <<hookVars, registryVars, historyVars>>
allVars == <<vars, hVars>>

CompletedValue == 100
RejectedValue  == 0

Reasons == {"quality-rejected", "other"}    \* "other" is any other code
Params  == {"empty", "malformed", "valid"}   \* optParams, by how they decode

HInit ==
    /\ Init
    /\ canonicalAgentId = [p \in Account |-> NoAgentId]
    /\ penalties = [id \in AgentIds |-> 0]
    /\ controllers \in [AgentIds -> SUBSET Controllers]
    /\ entries = {}
    /\ boundAtSubmit = [j \in JobIds |-> NoAgentId]
    /\ verdicts = {}
    /\ unrecorded = {}

(***************************************************************************)
(* afterAction.                                                            *)
(***************************************************************************)

(* _bindOnSubmit: the first verified bind of a provider wins.  An id the   *)
(* registry confirms may still go unverified, when the call fails.         *)
BindOnSubmit(j) ==
    LET p  == jobs[j].provider
        id == providerAgentId[j]
        mayBind == /\ jobs[j].evaluator = TrustedEvaluator
                   /\ canonicalAgentId[p] = NoAgentId
                   /\ id # NoAgentId
                   /\ p \in controllers[id]
    IN  /\ \/ mayBind /\ canonicalAgentId' = [canonicalAgentId EXCEPT ![p] = id]
           \/ UNCHANGED canonicalAgentId
        /\ boundAtSubmit' = [boundAtSubmit EXCEPT ![j] = canonicalAgentId'[p]]
        /\ UNCHANGED <<penalties, registryVars, verdicts, unrecorded>>

(* Faults: rate the id the job carries, or read the registry again. *)
FaultRatePresentedId(j) == providerAgentId[j]
FaultRateIfStillOwned(j) ==
    LET p == jobs[j].provider
    IN  IF \E id \in AgentIds : id = canonicalAgentId[p] /\ p \in controllers[id]
        THEN canonicalAgentId[p] ELSE NoAgentId
RatedId(j) ==
    IF jobs[j].provider = NoAddress THEN NoAgentId ELSE canonicalAgentId[jobs[j].provider]

FaultUnsubmittedVerdict(j, reason) == reason = "quality-rejected"
IsVerdict(j, reason) == submittedAt[j] # 0 /\ reason = "quality-rejected"

(* Fault: no check that the identity is not penalized. *)
FaultGatePenalized(j, completed, reason, params) ==
    /\ jobs[j].evaluator = TrustedEvaluator
    /\ params # "empty"
    /\ completed \/ IsVerdict(j, reason)
    /\ RatedId(j) # NoAgentId
    /\ jobs[j].budget >= MinFeedbackBudget

(* _gate: whether a write is attempted (the reasons it names for a skipped *)
(* write differ only in the event).                                        *)
Gate(j, completed, reason, params) ==
    /\ jobs[j].evaluator = TrustedEvaluator
    /\ params # "empty"
    /\ completed \/ IsVerdict(j, reason)
    /\ RatedId(j) # NoAgentId
    /\ jobs[j].budget >= MinFeedbackBudget
    /\ completed => penalties[RatedId(j)] = 0

(* _write: recorded in the registry, or, for a verdict, charged here. *)
Write(j, completed, params) ==
    LET id    == RatedId(j)
        entry == [job |-> j, agent |-> id, revoked |-> FALSE,
                  value |-> IF completed THEN CompletedValue ELSE RejectedValue]
    IN  \/ /\ params = "malformed"
           /\ UNCHANGED <<entries, penalties, unrecorded>>
        \/ /\ params = "valid"
           /\ entries' = entries \cup {entry}
           /\ UNCHANGED <<penalties, unrecorded>>
        \/ /\ params = "valid"
           /\ UNCHANGED entries
           /\ IF completed
              THEN UNCHANGED <<penalties, unrecorded>>
              ELSE /\ penalties' = [penalties EXCEPT ![id] = @ + 1]
                   /\ unrecorded' = unrecorded \cup {[job |-> j, agent |-> id, cleared |-> FALSE]}

AfterSettle(j, completed, reason, params) ==
    /\ IF Gate(j, completed, reason, params)
       THEN Write(j, completed, params)
       ELSE UNCHANGED <<entries, penalties, unrecorded>>
    /\ verdicts' = IF /\ jobs[j].evaluator = TrustedEvaluator
                      /\ ~completed /\ IsVerdict(j, reason) /\ params = "valid"
                   THEN verdicts \cup {j} ELSE verdicts
    /\ UNCHANGED <<canonicalAgentId, controllers, boundAtSubmit>>

(***************************************************************************)
(* The escrow's transactions with the hook in them.                        *)
(***************************************************************************)
Hooked(j) == jobs[j].hook = RepHook

HSubmit(a, j) ==
    /\ Submit(a, j)
    /\ IF Hooked(j) THEN BindOnSubmit(j) ELSE UNCHANGED hVars

HComplete(a, j, params) ==
    /\ Complete(a, j)
    /\ IF Hooked(j) THEN AfterSettle(j, TRUE, "other", params) ELSE UNCHANGED hVars

HReject(a, j, reason, params) ==
    /\ Reject(a, j)
    /\ IF Hooked(j) THEN AfterSettle(j, FALSE, reason, params) ELSE UNCHANGED hVars

(***************************************************************************)
(* The correction paths of the trusted evaluator.                          *)
(***************************************************************************)
RevokeFeedback(a, e) ==
    /\ a = TrustedEvaluator
    /\ e \in entries /\ ~e.revoked
    /\ entries' = (entries \ {e}) \cup {[e EXCEPT !.revoked = TRUE]}
    /\ UNCHANGED <<vars, hookVars, controllers, historyVars>>

ClearPenalties(a, id) ==
    /\ a = TrustedEvaluator
    /\ penalties' = [penalties EXCEPT ![id] = 0]
    /\ unrecorded' = {IF u.agent = id THEN [u EXCEPT !.cleared = TRUE] ELSE u : u \in unrecorded}
    /\ UNCHANGED <<vars, canonicalAgentId, registryVars, boundAtSubmit, verdicts>>

(* External: the owner of an identity transfers it or changes its wallet. *)
MoveIdentity(id, accounts) ==
    /\ controllers[id] # accounts
    /\ controllers' = [controllers EXCEPT ![id] = accounts]
    /\ UNCHANGED <<vars, hookVars, entries, historyVars>>

HSettle(a, j) ==
    \/ HSubmit(a, j)
    \/ \E params \in Params :
          \/ HComplete(a, j, params)
          \/ \E reason \in Reasons : HReject(a, j, reason, params)

(* Operations of the escrow in which the hook does nothing. *)
Unhooked ==
    /\ \/ \E a \in Clients : Create(a)
       \/ \E a \in Address : Administer(a)
       \/ \E a \in Address, j \in JobIds : Negotiate(a, j)
       \/ \E j \in JobIds : ClaimRefund(j)
       \/ Environment
    /\ UNCHANGED hVars

HNext ==
    \/ Unhooked
    \/ \E a \in Address, j \in JobIds : HSettle(a, j)
    \/ \E a \in Address, e \in entries : RevokeFeedback(a, e)
    \/ \E a \in Address, id \in AgentIds : ClearPenalties(a, id)
    \/ \E id \in AgentIds, s \in SUBSET Controllers : MoveIdentity(id, s)

HSpec == HInit /\ [][HNext]_allVars

(***************************************************************************)
(* Properties.                                                             *)
(***************************************************************************)
HTypeOK ==
    /\ canonicalAgentId \in [Account -> AgentIds \cup {NoAgentId}]
    /\ penalties \in [AgentIds -> Nat]
    /\ controllers \in [AgentIds -> SUBSET Controllers]
    /\ entries \subseteq [job : JobIds, agent : AgentIds, revoked : BOOLEAN,
                          value : {CompletedValue, RejectedValue}]
    /\ boundAtSubmit \in [JobIds -> AgentIds \cup {NoAgentId}]
    /\ verdicts \subseteq JobIds
    /\ unrecorded \subseteq [job : JobIds, agent : AgentIds, cleared : BOOLEAN]

(* Everything ever said about the jobs of one provider address, written or *)
(* charged as a penalty, is said about one identity: presenting another id *)
(* on the next job or moving the identity around does not split a record.  *)
OneIdentityPerProvider ==
    \A e, f \in entries \cup unrecorded :
        jobs[e.job].provider = jobs[f.job].provider => e.agent = f.agent

(* A quality verdict on work submitted under a bound identity is never     *)
(* lost: it is in the registry or was charged as a penalty, for the        *)
(* identity bound when the work was submitted, whatever the provider did   *)
(* to its identities and approvals between submission and verdict.         *)
NoVerdictDodged ==
    \A j \in verdicts :
        boundAtSubmit[j] # NoAgentId /\ jobs[j].budget >= MinFeedbackBudget =>
            \E e \in entries \cup unrecorded :
                /\ e.job = j
                /\ e.agent = boundAtSubmit[j]
                /\ e \in entries => e.value = RejectedValue

(* An entry agrees with how its job was settled, at most one entry or      *)
(* penalty exists for a job, and only jobs the trusted evaluator settled,  *)
(* above the minimum budget and after a submission, have one.              *)
EntriesMatchSettlements ==
    \A e \in entries \cup unrecorded :
        LET job == jobs[e.job]
        IN  /\ job.evaluator = TrustedEvaluator
            /\ job.budget >= MinFeedbackBudget
            /\ submittedAt[e.job] # 0
            /\ job.status = IF e \in entries /\ e.value = CompletedValue
                            THEN "Completed" ELSE "Rejected"
            /\ \A f \in entries \cup unrecorded : f.job = e.job => f = e

(* While an identity has penalties no praise is written for it, nor is the *)
(* identity of a provider ever replaced.                                   *)
PraiseIsEarned ==
    [][/\ \A e \in entries' \ entries :
             e.value = CompletedValue /\ ~e.revoked =>
                 ~ \E u \in unrecorded : u.agent = e.agent /\ ~u.cleared
       /\ \A p \in Account :
             canonicalAgentId[p] # NoAgentId => canonicalAgentId'[p] = canonicalAgentId[p]
      ]_allVars
=============================================================================
