------------------------------- MODULE B3Exit -------------------------------
(***************************************************************************)
(* The exit-workflow service of run B3 (services/workflow.py) over its     *)
(* PostgreSQL tables, the payment gateway and the object store.            *)
(*                                                                         *)
(* A request is a process: it runs a sequence of database transactions and *)
(* outside calls, and may die between any two of them.  A transaction that *)
(* touches nothing outside the database is one action (row locks make it   *)
(* atomic).  The NOC transaction calls the object store while it is open,  *)
(* so it is two actions, IssueStore and IssueCommit, with the workflow row *)
(* locked in between.                                                      *)
(*                                                                         *)
(* Requests that the code refuses change nothing and have no action, except*)
(* IssueRefused, which ends a settlement that is already under way.        *)
(***************************************************************************)
EXTENDS KitStates, Naturals, FiniteSets

CONSTANTS
  WorkflowIds,        \* ids the sequence hands out (EX-YYYYMMDD-NNNNN)
  Contracts, Properties, PropertyOf,
  Deposit,            \* contracts.security_deposit_minor, which nobody edits
  Requests,           \* concurrent API calls and background tasks
  Damages,            \* amounts an inspector may report, in fils
  ExclusiveTenancy,   \* the contracting module never runs two tenancies at once
  Nobody              \* NULL

ASSUME B3ExitAssumption ==
  /\ PropertyOf \in [Contracts -> Properties]
  /\ Deposit \in [Contracts -> Nat]
  /\ Damages \subseteq Nat
  /\ ExclusiveTenancy \in BOOLEAN
  /\ Nobody \notin WorkflowIds \cup Contracts \cup Nat

VARIABLES
  active,     \* contracts with status ACTIVE (external table)
  cleared,    \* contracts whose property the guard has found free
  seen,       \* history: exits under way on the property at that read
  status,     \* exit_workflows.status; "none": no such row
  contract,   \* exit_workflows.contract_id
  damage,     \* exit_workflows.damage_amount_minor
  late,       \* workflows more than 30 days past move_out_date
  audit,      \* exit_workflow_audit: the <<from, to>> pairs of each workflow
  stallTask,  \* workflows with an EXIT_WORKFLOW_STALLED admin task
  lock,       \* properties.exit_lock_workflow_id; exit_lock is lock[p] # Nobody
  payment,    \* payments.status by idempotency key; "none": no row
  refund,     \* payments.amount_minor
  noc,        \* workflows with a noc_documents row
  object,     \* workflows whose noc/<id>.pdf is in the bucket (external)
  gateway,    \* the gateway's record of the key (external); "none": unknown
  charged,    \* the amount the gateway accepted for the key (external)
  pc,         \* what each request does next
  target,     \* the workflow a request works on
  claim,      \* the contract an initiation works on
  answer      \* the gateway answer a settlement carries

tables == <<status, contract, damage, late, audit, stallTask, lock,
            payment, refund, noc>>
leasing == <<active, cleared, seen>>
outside == <<object, gateway, charged>>
requests == <<pc, target, claim, answer>>
vars == <<tables, leasing, outside, requests>>

Settled == {"REFUND_PROCESSED", "NOC_ISSUED", "COMPLETE"}
PaymentStatuses == {"PENDING", "SUCCEEDED", "FAILED"}
Steps == {"idle", "insert", "notify", "gateway", "record", "issue", "stored"}

Init ==
  /\ active \in {S \in SUBSET Contracts :
                   ExclusiveTenancy =>
                     \A c, d \in S : PropertyOf[c] = PropertyOf[d] => c = d}
  /\ cleared = {}
  /\ seen = [c \in Contracts |-> {}]
  /\ status = [w \in WorkflowIds |-> "none"]
  /\ contract = [w \in WorkflowIds |-> Nobody]
  /\ damage = [w \in WorkflowIds |-> Nobody]
  /\ late = {}
  /\ audit = [w \in WorkflowIds |-> {}]
  /\ stallTask = {}
  /\ lock = [p \in Properties |-> Nobody]
  /\ payment = [w \in WorkflowIds |-> "none"]
  /\ refund = [w \in WorkflowIds |-> Nobody]
  /\ noc = {}
  /\ object = {}
  /\ gateway = [w \in WorkflowIds |-> "none"]
  /\ charged = [w \in WorkflowIds |-> Nobody]
  /\ pc = [r \in Requests |-> "idle"]
  /\ target = [r \in Requests |-> Nobody]
  /\ claim = [r \in Requests |-> Nobody]
  /\ answer = [r \in Requests |-> "none"]

-----------------------------------------------------------------------------
\* transitions.py: the row lock, the audit history, the single write path.

\* SELECT ... FOR UPDATE waits while the NOC transaction holds the row.
Locked(w) == \E r \in Requests : pc[r] = "stored" /\ target[r] = w

History(w) == {e[2] : e \in audit[w]} \cup {status[w]}

MayMove(w, to, actor) == Allowed(status[w], to, actor, History(w))

\* apply_transition on one workflow.
Move(w, to, actor) ==
  /\ MayMove(w, to, actor)
  /\ status' = [status EXCEPT ![w] = to]
  /\ audit' = [audit EXCEPT ![w] = @ \cup {<<status[w], to>>}]

\* apply_transition on every workflow of a sweep's batch.
MoveAll(batch, to, actor) ==
  /\ \A w \in batch : MayMove(w, to, actor)
  /\ status' = [w \in WorkflowIds |-> IF w \in batch THEN to ELSE status[w]]
  /\ audit' = [w \in WorkflowIds |->
                 IF w \in batch THEN audit[w] \cup {<<status[w], to>>}
                                ELSE audit[w]]

\* A request's program counter and locals after a step.
Goto(r, step) == pc' = [pc EXCEPT ![r] = step]

Finish(r) ==
  /\ pc' = [pc EXCEPT ![r] = "idle"]
  /\ target' = [target EXCEPT ![r] = Nobody]
  /\ claim' = [claim EXCEPT ![r] = Nobody]
  /\ answer' = [answer EXCEPT ![r] = "none"]

-----------------------------------------------------------------------------
\* Contracting (external): asks assert_property_free_for_new_contract "before
\* creating a contract".  The guard is a plain SELECT, so an initiation may
\* commit between its answer and the contract.  Under ExclusiveTenancy nobody
\* is let in beside a tenant who has not left.

PropertyOfWorkflow(w) == PropertyOf[contract[w]]

\* The exits of a property that are not over.
UnderWay(p) ==
  {w \in WorkflowIds : /\ status[w] \notin {"none", "COMPLETE"}
                       /\ PropertyOfWorkflow(w) = p}

\* The exit of c is over.
Ended(c) == \E w \in WorkflowIds : contract[w] = c /\ status[w] = "COMPLETE"

AskGuard(c) ==
  /\ c \notin active \cup cleared
  /\ lock[PropertyOf[c]] = Nobody
  /\ cleared' = cleared \cup {c}
  /\ seen' = [seen EXCEPT ![c] = UnderWay(PropertyOf[c])]
  /\ UNCHANGED <<active, tables, outside, requests>>

SignContract(c) ==
  /\ c \in cleared
  /\ ExclusiveTenancy =>
       \A d \in active : PropertyOf[d] = PropertyOf[c] => Ended(d)
  /\ active' = active \cup {c}
  /\ cleared' = cleared \ {c}
  /\ seen' = [seen EXCEPT ![c] = {}]
  /\ UNCHANGED <<tables, outside, requests>>

\* 30 days and one more pass after the move-out date (external).
WindowElapses(w) ==
  /\ status[w] # "none"
  /\ w \notin late
  /\ late' = late \cup {w}
  /\ UNCHANGED <<leasing, status, contract, damage, audit, stallTask, lock,
                 payment, refund, noc, outside, requests>>

-----------------------------------------------------------------------------
\* POST /exit-workflows.

\* uq_exit_workflows_contract_id
ContractIsUnique(c) == \A w \in WorkflowIds : contract[w] # c

\* Bound: the sequence has an id for every contract about to be entered.
IdIsLeft(c) ==
  LET entering == {c} \cup {claim[r] : r \in {q \in Requests : pc[q] = "insert"}}
  IN  Cardinality({d \in entering : ContractIsUnique(d)}) <=
        Cardinality({w \in WorkflowIds : status[w] = "none"})

\* The unlocked reads at the head of the initiation transaction.
InitiateCheck(r, c) ==
  /\ pc[r] = "idle"
  /\ c \in active
  /\ ContractIsUnique(c)
  /\ IdIsLeft(c)
  /\ claim' = [claim EXCEPT ![r] = c]
  /\ Goto(r, "insert")
  /\ UNCHANGED <<tables, leasing, outside, target, answer>>

\* Mutant of InitiateInsert: the exit lock is left to a later step.
InitiateInsertUnlocked(r, w) ==
  LET c == claim[r] IN
  /\ pc[r] = "insert"
  /\ status[w] = "none"
  /\ ContractIsUnique(c)
  /\ contract' = [contract EXCEPT ![w] = c]
  /\ status' = [status EXCEPT ![w] = "DOCS_SUBMITTED"]
  /\ audit' = [audit EXCEPT ![w] = {<<"none", "INITIATED">>,
                                    <<"INITIATED", "DOCS_SUBMITTED">>}]
  /\ target' = [target EXCEPT ![r] = w]
  /\ claim' = [claim EXCEPT ![r] = Nobody]
  /\ Goto(r, "notify")
  /\ UNCHANGED <<leasing, damage, late, stallTask, lock, payment, refund, noc,
                 outside, answer>>

\* The writes, under the property row lock; the background task follows.
InitiateInsert(r, w) ==
  LET c == claim[r] IN
  /\ pc[r] = "insert"
  /\ status[w] = "none"
  /\ ContractIsUnique(c)
  /\ Allowed("INITIATED", "DOCS_SUBMITTED", "tenant", {"INITIATED"})
  /\ contract' = [contract EXCEPT ![w] = c]
  /\ status' = [status EXCEPT ![w] = "DOCS_SUBMITTED"]
  /\ audit' = [audit EXCEPT ![w] = {<<"none", "INITIATED">>,
                                    <<"INITIATED", "DOCS_SUBMITTED">>}]
  /\ lock' = [lock EXCEPT ![PropertyOf[c]] = w]
  /\ target' = [target EXCEPT ![r] = w]
  /\ claim' = [claim EXCEPT ![r] = Nobody]
  /\ Goto(r, "notify")
  /\ UNCHANGED <<leasing, damage, late, stallTask, payment, refund, noc,
                 outside, answer>>

\* The UNIQUE constraint answers ExitAlreadyInProgress.
InitiateRefused(r) ==
  /\ pc[r] = "insert"
  /\ ~ ContractIsUnique(claim[r])
  /\ Finish(r)
  /\ UNCHANGED <<tables, leasing, outside>>

\* notify_owner, first transaction.  The delivery that follows is B3Outbox.
NotifyOwner(r) ==
  LET w == target[r] IN
  /\ pc[r] = "notify"
  /\ ~ Locked(w)
  /\ \/ /\ status[w] = "DOCS_SUBMITTED"
        /\ Move(w, "OWNER_NOTIFIED", "system")
     \/ /\ status[w] # "DOCS_SUBMITTED"
        /\ UNCHANGED <<status, audit>>
  /\ Finish(r)
  /\ UNCHANGED <<leasing, contract, damage, late, stallTask, lock, payment,
                 refund, noc, outside>>

\* recover_unnotified: every unlocked DOCS_SUBMITTED row (at most 100).
RecoverUnnotified ==
  LET stuck == {w \in WorkflowIds : status[w] = "DOCS_SUBMITTED" /\ ~ Locked(w)}
  IN
  /\ stuck # {}
  /\ MoveAll(stuck, "OWNER_NOTIFIED", "system")
  /\ UNCHANGED <<leasing, contract, damage, late, stallTask, lock, payment,
                 refund, noc, outside, requests>>

-----------------------------------------------------------------------------
\* Inspection, one transaction each.

ScheduleInspection(w) ==
  /\ ~ Locked(w)
  /\ Move(w, "INSPECTION_SCHEDULED", "owner")
  /\ UNCHANGED <<leasing, contract, damage, late, stallTask, lock, payment,
                 refund, noc, outside, requests>>

SubmitInspectionReport(w, amount) ==
  /\ ~ Locked(w)
  /\ Move(w, "INSPECTION_DONE", "inspector")
  /\ damage' = [damage EXCEPT ![w] = amount]
  /\ UNCHANGED <<leasing, contract, late, stallTask, lock, payment, refund,
                 noc, outside, requests>>

ConfirmDamage(w) ==
  /\ ~ Locked(w)
  /\ Move(w, "DAMAGE_CONFIRMED", "owner")
  /\ UNCHANGED <<leasing, contract, damage, late, stallTask, lock, payment,
                 refund, noc, outside, requests>>

Waiting(w) == status[w] \in {"OWNER_NOTIFIED", "INSPECTION_SCHEDULED"}

\* run_stall_sweep (at most 500 rows).
RunStallSweep ==
  LET candidates == {w \in late : Waiting(w) /\ ~ Locked(w)} IN
  /\ candidates # {}
  /\ MoveAll(candidates, "STALLED", "system")
  /\ stallTask' = stallTask \cup candidates
  /\ UNCHANGED <<leasing, contract, damage, late, lock, payment, refund, noc,
                 outside, requests>>

-----------------------------------------------------------------------------
\* POST /{id}/settle: _create_or_get_refund, the gateway call,
\* _record_gateway_result, _issue_noc_and_complete.

\* money.py refund_minor; the caller has refused damage > deposit.
RefundMinor(deposit, confirmed) ==
  IF confirmed > deposit THEN 0 ELSE deposit - confirmed

SettleCreate(r, w) ==
  LET c == contract[w] IN
  /\ pc[r] = "idle"
  /\ ~ Locked(w)
  /\ status[w] = "DAMAGE_CONFIRMED"
  /\ damage[w] <= Deposit[c]                 \* else SpecUnresolved("R8")
  /\ payment[w] = "none"                     \* uq_payments_idempotency_key
  /\ Move(w, "REFUND_PROCESSED", "system")
  /\ payment' = [payment EXCEPT ![w] = "PENDING"]
  /\ refund' = [refund EXCEPT ![w] = RefundMinor(Deposit[c], damage[w])]
  /\ target' = [target EXCEPT ![r] = w]
  /\ Goto(r, "gateway")
  /\ UNCHANGED <<leasing, contract, damage, late, stallTask, lock, noc,
                 outside, claim, answer>>

\* Mutant of SettleReenter: a refund that was sent is left to its sender.
SettleReenterNotPaid(r, w) ==
  /\ pc[r] = "idle"
  /\ ~ Locked(w)
  /\ status[w] \in {"NOC_ISSUED", "COMPLETE"}
  /\ target' = [target EXCEPT ![r] = w]
  /\ Goto(r, "gateway")
  /\ UNCHANGED <<tables, leasing, outside, claim, answer>>

SettleReenter(r, w) ==
  /\ pc[r] = "idle"
  /\ ~ Locked(w)
  /\ status[w] \in Settled
  /\ target' = [target EXCEPT ![r] = w]
  /\ Goto(r, "gateway")
  /\ UNCHANGED <<tables, leasing, outside, claim, answer>>

\* Mutant of InitiateRefund: an accepted disbursement is taken for a paid one.
InitiateRefundAssumed(r) ==
  LET w == target[r] IN
  /\ pc[r] = "gateway"
  /\ \/ /\ gateway[w] = "none"
        /\ \E s \in PaymentStatuses : gateway' = [gateway EXCEPT ![w] = s]
        /\ charged' = [charged EXCEPT ![w] = refund[w]]
     \/ /\ gateway[w] # "none"
        /\ UNCHANGED <<gateway, charged>>
  /\ answer' = [answer EXCEPT ![r] = "SUCCEEDED"]
  /\ Goto(r, "record")
  /\ UNCHANGED <<tables, leasing, object, target, claim>>

\* gateway.initiate_refund: creates the disbursement or returns the one the
\* key already has; the caller receives its status.
InitiateRefund(r) ==
  LET w == target[r] IN
  /\ pc[r] = "gateway"
  /\ \/ /\ gateway[w] = "none"
        /\ \E s \in PaymentStatuses : gateway' = [gateway EXCEPT ![w] = s]
        /\ charged' = [charged EXCEPT ![w] = refund[w]]
     \/ /\ gateway[w] # "none"
        /\ UNCHANGED <<gateway, charged>>
  /\ answer' = [answer EXCEPT ![r] = gateway'[w]]
  /\ Goto(r, "record")
  /\ UNCHANGED <<tables, leasing, object, target, claim>>

\* The gateway finishes a pending disbursement (external).
GatewaySettles(w) ==
  /\ gateway[w] = "PENDING"
  /\ \E s \in {"SUCCEEDED", "FAILED"} : gateway' = [gateway EXCEPT ![w] = s]
  /\ UNCHANGED <<tables, leasing, object, charged, requests>>

\* Overwrites the row with the answer this request carries, however old.
RecordGatewayResult(r) ==
  /\ pc[r] = "record"
  /\ payment' = [payment EXCEPT ![target[r]] = answer[r]]
  /\ \/ answer[r] = "SUCCEEDED" /\ Goto(r, "issue")
                                /\ UNCHANGED <<target, claim, answer>>
     \/ answer[r] # "SUCCEEDED" /\ Finish(r)
  /\ UNCHANGED <<leasing, status, contract, damage, late, audit, stallTask,
                 lock, refund, noc, outside>>

\* Mutants of IssueRefused: re-entry into a completed exit releases the lock
\* again; a StorageError leaves the request hanging.
IssueRefusedReleases(r) ==
  LET w == target[r] IN
  /\ pc[r] = "issue"
  /\ ~ Locked(w)
  /\ status[w] = "COMPLETE"
  /\ lock' = [lock EXCEPT ![PropertyOfWorkflow(w)] = Nobody]
  /\ Finish(r)
  /\ UNCHANGED <<leasing, status, contract, damage, late, audit, stallTask,
                 payment, refund, noc, outside>>

IssueRefusedHangs(r) ==
  LET w == target[r] IN
  /\ pc[r] = "issue"
  /\ ~ Locked(w)
  /\ status[w] = "COMPLETE" \/ payment[w] # "SUCCEEDED"
  /\ Finish(r)
  /\ UNCHANGED <<tables, leasing, outside>>

\* COMPLETE already, payment not SUCCEEDED, or StorageError because the
\* object is there: the transaction ends without a write.
IssueRefused(r) ==
  LET w == target[r] IN
  /\ pc[r] = "issue"
  /\ ~ Locked(w)
  /\ status[w] = "COMPLETE" \/ payment[w] # "SUCCEEDED" \/ w \in object
  /\ Finish(r)
  /\ UNCHANGED <<tables, leasing, outside>>

\* Locks the workflow row, checks, and puts the PDF; no NOC row exists yet
\* because IssueCommit writes it together with COMPLETE.
IssueStore(r) ==
  LET w == target[r] IN
  /\ pc[r] = "issue"
  /\ ~ Locked(w)
  /\ status[w] # "COMPLETE"
  /\ payment[w] = "SUCCEEDED"
  /\ w \notin object
  /\ object' = object \cup {w}
  /\ Goto(r, "stored")
  /\ UNCHANGED <<tables, leasing, gateway, charged, target, claim, answer>>

\* Mutant of IssueCommit: one audit row for two transitions.
IssueCommitOneAuditRow(r) ==
  LET w == target[r] IN
  /\ pc[r] = "stored"
  /\ noc' = noc \cup {w}
  /\ status' = [status EXCEPT ![w] = "COMPLETE"]
  /\ audit' = [audit EXCEPT ![w] = @ \cup {<<status[w], "COMPLETE">>}]
  /\ lock' = [lock EXCEPT ![PropertyOfWorkflow(w)] = Nobody]
  /\ Finish(r)
  /\ UNCHANGED <<leasing, contract, damage, late, stallTask, payment, refund,
                 outside>>

IssueCommit(r) ==
  LET w == target[r] IN
  /\ pc[r] = "stored"
  /\ MayMove(w, "NOC_ISSUED", "system")
  /\ Allowed("NOC_ISSUED", "COMPLETE", "system", History(w) \cup {"NOC_ISSUED"})
  /\ noc' = noc \cup {w}
  /\ status' = [status EXCEPT ![w] = "COMPLETE"]
  /\ audit' = [audit EXCEPT ![w] = @ \cup {<<status[w], "NOC_ISSUED">>,
                                           <<"NOC_ISSUED", "COMPLETE">>}]
  /\ lock' = [lock EXCEPT ![PropertyOfWorkflow(w)] = Nobody]
  /\ Finish(r)
  /\ UNCHANGED <<leasing, contract, damage, late, stallTask, payment, refund,
                 outside>>

\* The process dies, or the database or an outside call raises, between two
\* steps: the open transaction rolls back, what left the database stays.
Crash(r) ==
  /\ pc[r] # "idle"
  /\ Finish(r)
  /\ UNCHANGED <<tables, leasing, outside>>

-----------------------------------------------------------------------------
Service(r) ==
  \/ \E w \in WorkflowIds : InitiateInsert(r, w)
  \/ InitiateRefused(r) \/ NotifyOwner(r)
  \/ InitiateRefund(r) \/ RecordGatewayResult(r)
  \/ IssueRefused(r) \/ IssueStore(r) \/ IssueCommit(r)

Jobs == RecoverUnnotified \/ RunStallSweep

Users ==
  \/ \E r \in Requests, c \in Contracts : InitiateCheck(r, c)
  \/ \E w \in WorkflowIds :
       \/ ScheduleInspection(w)
       \/ \E amount \in Damages : SubmitInspectionReport(w, amount)
       \/ ConfirmDamage(w)
       \/ \E r \in Requests : SettleCreate(r, w) \/ SettleReenter(r, w)

Environment ==
  \/ \E c \in Contracts : AskGuard(c) \/ SignContract(c)
  \/ \E w \in WorkflowIds : WindowElapses(w) \/ GatewaySettles(w)
  \/ \E r \in Requests : Crash(r)

Next == Users \/ Jobs \/ (\E r \in Requests : Service(r)) \/ Environment

Spec == Init /\ [][Next]_vars

\* A request that is being served goes on; the two jobs are on a scheduler
\* (README.md, "Scheduled jobs").  Users and the environment owe nothing.
FairSpec ==
  /\ Spec
  /\ WF_vars(RecoverUnnotified)
  /\ WF_vars(RunStallSweep)
  /\ \A r \in Requests : WF_vars(Service(r))

\* In addition the gateway finishes what it accepted, a settlement that did
\* not finish is tried again, and retries are not all killed at one point.
FairSettlement ==
  /\ FairSpec
  /\ \A w \in WorkflowIds :
       /\ WF_vars(GatewaySettles(w))
       /\ SF_vars(\E r \in Requests : SettleReenter(r, w))
  /\ \A r \in Requests :
       /\ SF_vars(InitiateRefund(r))
       /\ SF_vars(RecordGatewayResult(r))
       /\ SF_vars(IssueStore(r))
       /\ SF_vars(IssueCommit(r))

-----------------------------------------------------------------------------
TypeOK ==
  /\ active \subseteq Contracts
  /\ cleared \subseteq Contracts
  /\ seen \in [Contracts -> SUBSET WorkflowIds]
  /\ status \in [WorkflowIds -> WorkflowStates \cup {"none"}]
  /\ contract \in [WorkflowIds -> Contracts \cup {Nobody}]
  /\ damage \in [WorkflowIds -> Nat \cup {Nobody}]
  /\ late \subseteq WorkflowIds
  /\ audit \in [WorkflowIds ->
       SUBSET ((WorkflowStates \cup {"none"}) \X WorkflowStates)]
  /\ stallTask \subseteq WorkflowIds
  /\ lock \in [Properties -> WorkflowIds \cup {Nobody}]
  /\ payment \in [WorkflowIds -> PaymentStatuses \cup {"none"}]
  /\ refund \in [WorkflowIds -> Nat \cup {Nobody}]
  /\ noc \subseteq WorkflowIds
  /\ object \subseteq WorkflowIds
  /\ gateway \in [WorkflowIds -> PaymentStatuses \cup {"none"}]
  /\ charged \in [WorkflowIds -> Nat \cup {Nobody}]
  /\ pc \in [Requests -> Steps]
  /\ target \in [Requests -> WorkflowIds \cup {Nobody}]
  /\ claim \in [Requests -> Contracts \cup {Nobody}]
  /\ answer \in [Requests -> PaymentStatuses \cup {"none"}]

\* X-001: two initiations racing past the unlocked pre-check never leave two
\* workflows for one contract.
OneExitPerContract ==
  \A w, v \in WorkflowIds :
    contract[w] # Nobody /\ contract[w] = contract[v] => w = v

\* EXIT-03: from its initiation until COMPLETE a workflow holds the exit lock
\* of its property; late retries of an earlier tenancy's settlement, stalls
\* and crashes do not take it away.
IncompleteHoldsLock ==
  \A w \in WorkflowIds :
    status[w] \notin {"none", "COMPLETE"} => lock[PropertyOfWorkflow(w)] = w

\* EXIT-09: no lock outlives its workflow; a locked property always names an
\* incomplete workflow of that property, so COMPLETE can still release it.
LockHasIncompleteHolder ==
  \A p \in Properties :
    lock[p] # Nobody =>
      /\ status[lock[p]] \notin {"none", "COMPLETE"}
      /\ PropertyOfWorkflow(lock[p]) = p

\* EXIT-10: the audit rows of a workflow form one path through states.yaml
\* that starts at the creation and ends at the current status.
AuditTrailIsAPath == \A w \in WorkflowIds : PathTo(status[w], audit[w])

\* EXIT-08, X-004: a certificate exists, in the bucket or as a row, only for a
\* deposit the gateway has really paid out, whatever order the answers of
\* concurrent settlements are recorded in.
NocOnlyAfterPaid ==
  \A w \in object \cup noc : gateway[w] = "SUCCEEDED"

\* EXIT-07, X-003, X-005: whatever the gateway was asked to pay, by whichever
\* of several settlements, is the deposit less the damage the owner confirmed.
ChargedIsDepositLessDamage ==
  \A w \in WorkflowIds :
    gateway[w] # "none" =>
      /\ <<"INSPECTION_DONE", "DAMAGE_CONFIRMED">> \in audit[w]
      /\ charged[w] + damage[w] = Deposit[contract[w]]

\* EXIT-09: one settlement at a time is between the PDF and its commit, and
\* until that commit the workflow has no NOC row and is not COMPLETE.
OneNocWriter ==
  \A r \in Requests : pc[r] = "stored" =>
    /\ \A q \in Requests : pc[q] = "stored" /\ target[q] = target[r] => q = r
    /\ target[r] \in object \ noc
    /\ status[target[r]] = "REFUND_PROCESSED"

\* The NOC row, its object and COMPLETE agree once the transaction is over.
NocRowIffComplete ==
  /\ noc = {w \in WorkflowIds : status[w] = "COMPLETE"}
  /\ noc \subseteq object

\* EXIT-05: exactly the stalled workflows are on the administrators' list.
StalledIffTask ==
  stallTask = {w \in WorkflowIds : status[w] = "STALLED"}

\* Another tenancy of the property has, or had, an exit.
Shared(w) ==
  \E v \in WorkflowIds \ {w} :
    contract[v] # Nobody /\ PropertyOfWorkflow(v) = PropertyOfWorkflow(w)

\* EXIT-03 ("blocks new contracts on the property") as the unlocked guard can
\* keep it: an exit that is under way when a contract is signed on its property
\* was initiated after the guard's answer, or shares the property's one lock
\* column with the exit of another tenancy.
MidExitOnlyByRace ==
  [][\A c \in active' \ active : \A w \in UnderWay(PropertyOf[c]) :
       w \in seen[c] => Shared(w)]_vars

\* EXIT-04: a workflow whose initiating process died before notify_owner is
\* still moved on; none stays DOCS_SUBMITTED.
OwnerIsReached ==
  \A w \in WorkflowIds :
    status[w] = "DOCS_SUBMITTED" ~> status[w] # "DOCS_SUBMITTED"

\* EXIT-05: past the window a workflow does not wait for an inspection for
\* ever: it is inspected at last or it stalls.
LateExitsLeave ==
  \A w \in WorkflowIds : w \in late /\ Waiting(w) ~> ~ Waiting(w)

\* No request waits for ever for a row lock another one keeps.
RequestsFinish == \A r \in Requests : pc[r] # "idle" ~> pc[r] = "idle"

\* algorithm.md 11-13 as the code achieves it: once the money moved, repeated
\* settlement ends in COMPLETE, unless a PDF was stored whose transaction was
\* lost; that one is then beside no row for ever.
PaidExitCompletesOrOrphans ==
  \A w \in WorkflowIds :
    gateway[w] = "SUCCEEDED" ~> \/ status[w] = "COMPLETE"
                               \/ [](w \in object \ noc)

\* X-001, EXIT-03, EXIT-09: over any succession of tenancies the locks are
\* exactly those of the exits under way, one exit for each contract.
LocksFollowExits ==
  OneExitPerContract /\ IncompleteHoldsLock /\ LockHasIncompleteHolder

\* EXIT-05, EXIT-10: what the service wrote beside the status agrees with it.
RecordsAgree == TypeOK /\ AuditTrailIsAPath /\ StalledIffTask

\* EXIT-07 to EXIT-09: the right amount is asked for, the certificate comes after
\* the money, from one writer, and its row with COMPLETE.
MoneyThenNoc ==
  /\ ChargedIsDepositLessDamage /\ NocOnlyAfterPaid
  /\ OneNocWriter /\ NocRowIffComplete

\* EXIT-04, EXIT-05: with the jobs scheduled no exit and no request waits for
\* ever for its notification, its inspection or a row lock.
NobodyWaitsForEver == OwnerIsReached /\ LateExitsLeave /\ RequestsFinish

-----------------------------------------------------------------------------
\* The inductive invariant of B3Exit_proofs.

\* What a request knows about the rows it works on.
RequestsOK ==
  \A r \in Requests :
    /\ pc[r] = "insert" => claim[r] \in Contracts
    /\ pc[r] = "notify" => target[r] \in WorkflowIds
    /\ pc[r] \in {"gateway", "record", "issue", "stored"} =>
         /\ target[r] \in WorkflowIds
         /\ status[target[r]] \in Settled
    /\ pc[r] = "record" => answer[r] \in PaymentStatuses

\* Which columns a workflow in each status has.
RowsOK ==
  \A w \in WorkflowIds :
    /\ status[w] # "INITIATED" /\ status[w] # "NOC_ISSUED"
    /\ status[w] = "none" <=> contract[w] = Nobody
    /\ status[w] \in {"INSPECTION_DONE", "DAMAGE_CONFIRMED"} \cup Settled
         => damage[w] \in Nat

\* A SUCCEEDED in a payment row or on its way there came from the gateway.
SucceededIsTrue ==
  /\ \A w \in WorkflowIds : payment[w] = "SUCCEEDED" => gateway[w] = "SUCCEEDED"
  /\ \A r \in Requests :
       pc[r] = "record" /\ answer[r] = "SUCCEEDED"
         => gateway[target[r]] = "SUCCEEDED"

\* What the rows and the gateway know of the amount.
RefundOK ==
  \A w \in WorkflowIds :
    /\ status[w] \in {"DAMAGE_CONFIRMED"} \cup Settled
         => <<"INSPECTION_DONE", "DAMAGE_CONFIRMED">> \in audit[w]
    /\ status[w] \in Settled
         => refund[w] \in Nat /\ refund[w] + damage[w] = Deposit[contract[w]]
    /\ gateway[w] # "none" => status[w] \in Settled /\ charged[w] = refund[w]

IndInv ==
  /\ TypeOK /\ RequestsOK /\ RowsOK /\ SucceededIsTrue
  /\ NocOnlyAfterPaid /\ OneNocWriter /\ NocRowIffComplete
  /\ StalledIffTask /\ RefundOK

AuditInv ==
  \A w \in WorkflowIds :
    PathTo(status[w], audit[w]) /\ Climbs(status[w], audit[w])

\* Exits are of signed contracts; of two tenancies on one property, one is over.
TenancyOK ==
  /\ \A w \in WorkflowIds : contract[w] # Nobody => contract[w] \in active
  /\ \A r \in Requests : pc[r] = "insert" => claim[r] \in active
  /\ ExclusiveTenancy =>
       \A c, d \in active :
         PropertyOf[c] = PropertyOf[d] /\ c # d => Ended(c) \/ Ended(d)

\* Where a lock is not the one of an exit under way, two exits share it.
GuardOK ==
  /\ \A w \in WorkflowIds :
       status[w] \notin {"none", "COMPLETE"} /\ lock[PropertyOfWorkflow(w)] # w
         => Shared(w)
  /\ \A c \in Contracts : \A w \in seen[c] :
       /\ contract[w] # Nobody /\ PropertyOfWorkflow(w) = PropertyOf[c]
       /\ Shared(w)

LockInv ==
  /\ TenancyOK
  /\ GuardOK
  /\ OneExitPerContract
  /\ ExclusiveTenancy => IncompleteHoldsLock /\ LockHasIncompleteHolder

-----------------------------------------------------------------------------
\* The abstract promise, keyed by contract.
ExitOf(c) == CHOOSE w \in WorkflowIds : contract[w] = c
HasExit(c) == \E w \in WorkflowIds : contract[w] = c

Promise == INSTANCE ExitPromise WITH
  status <- [c \in Contracts |-> IF HasExit(c) THEN status[ExitOf(c)] ELSE "none"],
  holder <- [p \in Properties |->
               IF lock[p] = Nobody THEN Nobody ELSE contract[lock[p]]],
  paid <- [c \in Contracts |-> HasExit(c) /\ gateway[ExitOf(c)] = "SUCCEEDED"],
  noc <- [c \in Contracts |-> HasExit(c) /\ ExitOf(c) \in object]

\* Every behaviour of the service, retries and crashes included, is one of the
\* abstract promise.
ImplementsPromise == Promise!Spec

=============================================================================
