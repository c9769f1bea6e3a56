------------------------------- MODULE B1Exit -------------------------------
(***************************************************************************)
(* The exit-workflow service of run B1 over its PostgreSQL tables, the     *)
(* payment gateway, the bucket of certificates and the message broker.     *)
(*                                                                         *)
(* B1 keeps a transaction open across its outside calls.  A settlement is  *)
(* one transaction from the row lock to COMPLETE, with the gateway and the *)
(* bucket called inside it; a dispatch is one transaction with the broker  *)
(* called inside it.  Each outside call is therefore an action of its own, *)
(* what the transaction has written so far is in locals of the request     *)
(* (answer, ref), and only the action that commits changes a table.  A     *)
(* Crash between two of them rolls back the locals and nothing else.       *)
(*                                                                         *)
(* Requests the code refuses change nothing and have no action.            *)
(***************************************************************************)
EXTENDS KitStates, Naturals, FiniteSets

CONSTANTS
  WorkflowIds,        \* ids the sequence hands out
  Contracts, Properties, PropertyOf,
  FirstDeposit,       \* contracts.security_deposit_minor when signed
  Edits,              \* deposits a later edit of a contract may write
  Damages,            \* amounts an inspector may report
  Requests,           \* API calls and runs of the dispatcher
  MaxAttempts,        \* NOTIFICATION_MAX_ATTEMPTS (5)
  MaxFaults,          \* bound on deaths, gateway errors and bucket errors
  ExclusiveTenancy,   \* the contracting module never runs two tenancies at once
  Nobody              \* NULL

ASSUME B1ExitAssumption ==
  /\ PropertyOf \in [Contracts -> Properties]
  /\ FirstDeposit \in [Contracts -> Nat]
  /\ Edits \subseteq Nat
  /\ Damages \subseteq Nat
  /\ MaxAttempts \in Nat \ {0}
  /\ MaxFaults \in Nat
  /\ ExclusiveTenancy \in BOOLEAN
  /\ Nobody \notin WorkflowIds \cup Contracts \cup Nat

VARIABLES
  active,     \* contracts with status ACTIVE (external table)
  cleared,    \* contracts whose property the guard has found free
  deposit,    \* contracts.security_deposit_minor (external table)
  status,     \* exit_workflows.status; "none": no such row
  contract,   \* exit_workflows.contract_id
  snapshot,   \* exit_workflows.security_deposit_minor
  damage,     \* exit_workflows.damage_amount_minor
  late,       \* workflows more than 30 days past move_out_date
  audit,      \* exit_workflow_audit: the <<from, to>> pairs of each workflow
  stallTask,  \* workflows with an EXIT_STALLED admin task
  lock,       \* properties.exit_lock_workflow_id; exit_lock is lock[p] # Nobody
  payment,    \* payments.status by idempotency key; "none": no row
  paymentRef, \* payments.id, also exit_workflows.payment_id
  nocRef,     \* the payment named in the certificate noc_documents records
  event,      \* event_outbox.status of the workflow's one event
  attempts,   \* event_outbox.attempts
  alert,      \* workflows with a NOTIFICATION_DEAD_LETTER admin task
  gateway,    \* the gateway's record of the key (external); "none": unknown
  charged,    \* the amount the gateway accepted for the key (external)
  objectRef,  \* the payment named in the stored PDF (external); Nobody: none
  broker,     \* workflows whose event the broker received (external)
  pc,         \* what each request does next
  target,     \* the workflow a request works on
  answer,     \* payment status an open settlement is about to commit
  ref,        \* payment id an open settlement is about to commit
  nextRef,    \* uuid4() of the next payment row
  faults      \* faults so far

contracts == <<active, cleared, deposit>>
columns == <<contract, snapshot, damage, late>>
history == <<status, audit, stallTask>>
settlement == <<payment, paymentRef, nocRef>>
outbox == <<event, attempts, alert>>
tables == <<contracts, columns, history, lock, settlement, outbox>>
outside == <<gateway, charged, objectRef, broker>>
requests == <<pc, target, answer, ref>>
bounds == <<nextRef, faults>>
vars == <<tables, outside, requests, bounds>>

PaymentStatuses == {"PENDING", "SUCCEEDED", "FAILED"}
OutboxStatuses == {"PENDING", "SENT", "DEAD_LETTER"}
Settling == {"submit", "refresh", "hold", "issue", "commit"}
Dispatching == {"sent", "unsent"}
Steps == {"idle", "dispatch"} \cup Dispatching \cup Settling

NullOf(S) == [s \in S |-> Nobody]

Init ==
  /\ active \in {S \in SUBSET Contracts :
                   ExclusiveTenancy =>
                     \A c, d \in S : PropertyOf[c] = PropertyOf[d] => c = d}
  /\ cleared = {}
  /\ deposit = FirstDeposit
  /\ status = [w \in WorkflowIds |-> "none"]
  /\ audit = [w \in WorkflowIds |-> {}]
  /\ contract = NullOf(WorkflowIds)
  /\ snapshot = NullOf(WorkflowIds)
  /\ damage = NullOf(WorkflowIds)
  /\ late = {}
  /\ stallTask = {}
  /\ lock = NullOf(Properties)
  /\ payment = [w \in WorkflowIds |-> "none"]
  /\ paymentRef = NullOf(WorkflowIds)
  /\ nocRef = NullOf(WorkflowIds)
  /\ event = [w \in WorkflowIds |-> "none"]
  /\ attempts = [w \in WorkflowIds |-> 0]
  /\ alert = {}
  /\ gateway = [w \in WorkflowIds |-> "none"]
  /\ charged = NullOf(WorkflowIds)
  /\ objectRef = NullOf(WorkflowIds)
  /\ broker = {}
  /\ pc = [r \in Requests |-> "idle"]
  /\ target = NullOf(Requests)
  /\ answer = [r \in Requests |-> "none"]
  /\ ref = NullOf(Requests)
  /\ nextRef = 0
  /\ faults = 0

-----------------------------------------------------------------------------
\* The state machine, the single write path and the row locks.

\* StateMachine.check: unlike B3's it looks at the source state only, so the
\* rule "without REFUND_PROCESSED" needs no history, and it compares no actor.
Check(from, to) ==
  /\ ~ Blocked(from, to, {})
  /\ \E a \in Actors : Row(from, to, a) \in Transitions

\* apply_transition on one workflow.
Move(w, to) ==
  /\ Check(status[w], to)
  /\ status' = [status EXCEPT ![w] = to]
  /\ audit' = [audit EXCEPT ![w] = @ \cup {<<status[w], to>>}]

\* apply_transition on every workflow of a scan.
MoveAll(batch, to) ==
  /\ \A w \in batch : Check(status[w], to)
  /\ status' = [w \in WorkflowIds |-> IF w \in batch THEN to ELSE status[w]]
  /\ audit' = [w \in WorkflowIds |->
                 IF w \in batch THEN audit[w] \cup {<<status[w], to>>}
                                ELSE audit[w]]

\* Mutant of Locked: settle reads the row without FOR UPDATE.
NeverLocked(w) == FALSE

\* SELECT ... FOR UPDATE on the workflow waits for an open settlement, and on
\* the outbox row for an open dispatch.
Locked(w) == \E r \in Requests : pc[r] \in Settling /\ target[r] = w
EventHeld(w) == \E r \in Requests : pc[r] \in Dispatching /\ target[r] = w

\* A request moves on within its transaction, or ends.
Goto(r, step, w) ==
  /\ pc' = [pc EXCEPT ![r] = step]
  /\ target' = [target EXCEPT ![r] = w]

Finish(r) ==
  /\ Goto(r, "idle", Nobody)
  /\ answer' = [answer EXCEPT ![r] = "none"]
  /\ ref' = [ref EXCEPT ![r] = Nobody]

Fault ==
  /\ faults < MaxFaults
  /\ faults' = faults + 1

PropertyOfWorkflow(w) == PropertyOf[contract[w]]

-----------------------------------------------------------------------------
\* Outside the service: contracts, the calendar, the gateway's own work.

\* The exit of c is over.
Ended(c) == \E w \in WorkflowIds : contract[w] = c /\ status[w] = "COMPLETE"

\* assert_property_contractable: a read without a row lock, so an initiation may
\* commit before the contracting module acts on what it said.
AskGuard(c) ==
  /\ c \notin active \cup cleared
  /\ lock[PropertyOf[c]] = Nobody
  /\ cleared' = cleared \cup {c}
  /\ UNCHANGED <<active, deposit, columns, history, lock, settlement, outbox,
                 outside, requests, bounds>>

\* The contract is signed, some time after the guard let it pass (external).
SignContract(c) ==
  /\ c \in cleared
  /\ ExclusiveTenancy =>
       \A d \in active : PropertyOf[d] = PropertyOf[c] => Ended(d)
  /\ active' = active \cup {c}
  /\ cleared' = cleared \ {c}
  /\ UNCHANGED <<deposit, columns, history, lock, settlement, outbox, outside,
                 requests, bounds>>

EditDeposit(c, amount) ==
  /\ deposit' = [deposit EXCEPT ![c] = amount]
  /\ UNCHANGED <<active, cleared, columns, history, lock, settlement, outbox,
                 outside, requests, bounds>>

WindowElapses(w) ==
  /\ status[w] # "none"
  /\ w \notin late
  /\ late' = late \cup {w}
  /\ UNCHANGED <<contracts, contract, snapshot, damage, history, lock,
                 settlement, outbox, outside, requests, bounds>>

GatewaySettles(w) ==
  /\ gateway[w] = "PENDING"
  /\ \E s \in {"SUCCEEDED", "FAILED"} : gateway' = [gateway EXCEPT ![w] = s]
  /\ UNCHANGED <<tables, charged, objectRef, broker, requests, bounds>>

-----------------------------------------------------------------------------
\* POST /exit-workflows.

HasNoExit(c) == \A w \in WorkflowIds : contract[w] # c

\* Mutant of Released: the lock is kept.
NotReleased(w) == lock

\* acquire_exit_lock and release_exit_lock; neither looks who holds it.
Acquired(c, w) == [lock EXCEPT ![PropertyOf[c]] = w]
Released(w) == [lock EXCEPT ![PropertyOfWorkflow(w)] = Nobody]

\* One transaction under the contract's row lock, so the look for an existing
\* workflow and the insert are not interleaved with another initiation of the
\* contract.  The request then has the event to dispatch.
Initiate(r, c, w) ==
  /\ pc[r] = "idle"
  /\ c \in active
  /\ HasNoExit(c)
  /\ status[w] = "none"
  /\ Check("INITIATED", "DOCS_SUBMITTED")
  /\ contract' = [contract EXCEPT ![w] = c]
  /\ snapshot' = [snapshot EXCEPT ![w] = deposit[c]]
  /\ status' = [status EXCEPT ![w] = "DOCS_SUBMITTED"]
  /\ audit' = [audit EXCEPT ![w] = {<<"none", "INITIATED">>,
                                    <<"INITIATED", "DOCS_SUBMITTED">>}]
  /\ lock' = Acquired(c, w)
  /\ event' = [event EXCEPT ![w] = "PENDING"]
  /\ Goto(r, "dispatch", w)
  /\ UNCHANGED <<contracts, damage, late, stallTask, settlement, attempts, alert,
                 outside, answer, ref, bounds>>

-----------------------------------------------------------------------------
\* OutboxDispatcher.  Any PENDING event may be due: backoff is time, and the
\* clock runs free here (B3Outbox has the delays).

\* publish, with the outbox row locked: the broker takes the message, or the
\* call raises, and then the message may be there all the same.
Publish(r, w) ==
  /\ \/ /\ broker' = broker \cup {w}
        /\ Goto(r, "sent", w)
     \/ /\ broker' \in {broker, broker \cup {w}}
        /\ Goto(r, "unsent", w)
  /\ UNCHANGED <<tables, gateway, charged, objectRef, answer, ref, bounds>>

\* dispatch_event, after the initiation committed; it waits for the row.
DispatchEvent(r) ==
  LET w == target[r] IN
  /\ pc[r] = "dispatch"
  /\ ~ EventHeld(w)
  /\ event[w] = "PENDING"
  /\ Publish(r, w)

DispatchSkipped(r) ==
  /\ pc[r] = "dispatch"
  /\ ~ EventHeld(target[r])
  /\ event[target[r]] # "PENDING"
  /\ Finish(r)
  /\ UNCHANGED <<tables, outside, bounds>>

\* dispatch_due: one event, SKIP LOCKED.
DispatchDue(r, w) ==
  /\ pc[r] = "idle"
  /\ event[w] = "PENDING"
  /\ ~ EventHeld(w)
  /\ Publish(r, w)

\* Mutant of RecordSent: SENT is committed without the transition.
RecordSentAlone(r) ==
  LET w == target[r] IN
  /\ pc[r] = "sent"
  /\ event' = [event EXCEPT ![w] = "SENT"]
  /\ attempts' = [attempts EXCEPT ![w] = @ + 1]
  /\ Finish(r)
  /\ UNCHANGED <<contracts, columns, history, lock, settlement, alert, outside,
                 bounds>>

\* SENT and the transition to OWNER_NOTIFIED are one commit.  The other branch
\* of _apply_side_effect, for a workflow that has moved on, is never taken
\* (QueueAgreesWithWorkflow).
RecordSent(r) ==
  LET w == target[r] IN
  /\ pc[r] = "sent"
  /\ ~ Locked(w)
  /\ IF status[w] = "DOCS_SUBMITTED"
     THEN Move(w, "OWNER_NOTIFIED")
     ELSE UNCHANGED <<status, audit>>
  /\ event' = [event EXCEPT ![w] = "SENT"]
  /\ attempts' = [attempts EXCEPT ![w] = @ + 1]
  /\ Finish(r)
  /\ UNCHANGED <<contracts, columns, stallTask, lock, settlement, alert, outside,
                 bounds>>

\* event.attempts >= NOTIFICATION_MAX_ATTEMPTS, after the increment.
Exhausted(w) == attempts[w] + 1 >= MaxAttempts

RecordRetry(r) ==
  LET w == target[r] IN
  /\ pc[r] = "unsent"
  /\ ~ Exhausted(w)
  /\ attempts' = [attempts EXCEPT ![w] = @ + 1]
  /\ Finish(r)
  /\ UNCHANGED <<contracts, columns, history, lock, settlement, event, alert,
                 outside, bounds>>

RecordDeadLetter(r) ==
  LET w == target[r] IN
  /\ pc[r] = "unsent"
  /\ Exhausted(w)
  /\ attempts' = [attempts EXCEPT ![w] = @ + 1]
  /\ event' = [event EXCEPT ![w] = "DEAD_LETTER"]
  /\ alert' = alert \cup {w}
  /\ Finish(r)
  /\ UNCHANGED <<contracts, columns, history, lock, settlement, outside, bounds>>

-----------------------------------------------------------------------------
\* Inspection and damage: one transaction each, under the workflow's row lock.

ScheduleInspection(w) ==
  /\ ~ Locked(w)
  /\ Move(w, "INSPECTION_SCHEDULED")
  /\ UNCHANGED <<contracts, columns, stallTask, lock, settlement, outbox, outside,
                 requests, bounds>>

SubmitReport(w, amount) ==
  /\ ~ Locked(w)
  /\ Move(w, "INSPECTION_DONE")
  /\ damage' = [damage EXCEPT ![w] = amount]
  /\ UNCHANGED <<contracts, contract, snapshot, late, stallTask, lock, settlement,
                 outbox, outside, requests, bounds>>

ConfirmDamage(w) ==
  /\ ~ Locked(w)
  /\ damage[w] # Nobody
  /\ Move(w, "DAMAGE_CONFIRMED")
  /\ UNCHANGED <<contracts, columns, stallTask, lock, settlement, outbox, outside,
                 requests, bounds>>

Waiting(w) == status[w] \in {"OWNER_NOTIFIED", "INSPECTION_SCHEDULED"}

\* run_stall_scan: due_for_stall skips locked rows (at most 500 a scan).
StallScan ==
  LET due == {w \in late : Waiting(w) /\ ~ Locked(w)} IN
  /\ due # {}
  /\ MoveAll(due, "STALLED")
  /\ stallTask' = stallTask \cup due
  /\ UNCHANGED <<contracts, columns, lock, settlement, outbox, outside, requests,
                 bounds>>

-----------------------------------------------------------------------------
\* POST /{id}/settle, one transaction.  It is entered in DAMAGE_CONFIRMED only:
\* COMPLETE returns at once, and REFUND_PROCESSED and NOC_ISSUED are never
\* committed (RowsOK), so the branches that resume there are dead.

\* Mutant of RefundMinor: the deposit the contract has today.
RefundOfToday(w) ==
  LET d == deposit[contract[w]] IN IF damage[w] > d THEN 0 ELSE d - damage[w]

\* max(security_deposit - confirmed_damage, 0), on the snapshot.
RefundMinor(w) ==
  IF damage[w] > snapshot[w] THEN 0 ELSE snapshot[w] - damage[w]

\* Under the row lock; more damage than deposit is SpecUnresolved("R8").
MaySettle(r, w) ==
  /\ pc[r] = "idle"
  /\ ~ Locked(w)
  /\ status[w] = "DAMAGE_CONFIRMED"
  /\ damage[w] <= snapshot[w]

\* create_or_get inserts (PENDING, a fresh id); nothing is committed yet.
SettleCreate(r, w) ==
  /\ MaySettle(r, w)
  /\ payment[w] = "none"
  /\ ref' = [ref EXCEPT ![r] = nextRef]
  /\ nextRef' = nextRef + 1
  /\ answer' = [answer EXCEPT ![r] = "PENDING"]
  /\ Goto(r, "submit", w)
  /\ UNCHANGED <<tables, outside, faults>>

\* create_or_get finds the row of an earlier, held settlement.  A FAILED one is
\* refused without a change.
SettleResume(r, w) ==
  /\ MaySettle(r, w)
  /\ payment[w] = "PENDING"
  /\ ref' = [ref EXCEPT ![r] = paymentRef[w]]
  /\ answer' = [answer EXCEPT ![r] = "PENDING"]
  /\ Goto(r, "refresh", w)
  /\ UNCHANGED <<tables, outside, bounds>>

HeedPending(r, w, s) ==
  /\ answer' = [answer EXCEPT ![r] = "SUCCEEDED"]
  /\ Goto(r, IF s \in {"SUCCEEDED", "PENDING"} THEN "issue" ELSE "hold", w)

\* _apply_gateway_result and _require_succeeded: SUCCEEDED goes on, PENDING and
\* FAILED hold.
Heed(r, w, s) ==
  /\ answer' = [answer EXCEPT ![r] = s]
  /\ Goto(r, IF s = "SUCCEEDED" THEN "issue" ELSE "hold", w)

\* The gateway, idempotent on the key: a new disbursement or the old one.
Disburse(w) ==
  \/ /\ gateway[w] = "none"
     /\ \E s \in PaymentStatuses : gateway' = [gateway EXCEPT ![w] = s]
     /\ charged' = [charged EXCEPT ![w] = RefundMinor(w)]
  \/ /\ gateway[w] # "none"
     /\ UNCHANGED <<gateway, charged>>

\* submit_refund answers.
SubmitRefund(r) ==
  LET w == target[r] IN
  /\ pc[r] = "submit"
  /\ Disburse(w)
  /\ Heed(r, w, gateway'[w])
  /\ UNCHANGED <<tables, objectRef, broker, ref, bounds>>

\* submit_refund raises GatewayError, before or after the gateway acted: the
\* row stays PENDING and is committed.
SubmitFails(r) ==
  LET w == target[r] IN
  /\ pc[r] = "submit"
  /\ Fault
  /\ Disburse(w) \/ UNCHANGED <<gateway, charged>>
  /\ Heed(r, w, "PENDING")
  /\ UNCHANGED <<tables, objectRef, broker, ref, nextRef>>

\* fetch_status answers.
FetchStatus(r) ==
  LET w == target[r] IN
  /\ pc[r] = "refresh"
  /\ gateway[w] # "none"
  /\ Heed(r, w, gateway[w])
  /\ UNCHANGED <<tables, outside, ref, bounds>>

\* fetch_status raises GatewayError, as it must for a key the gateway never saw:
\* the row stays PENDING.
FetchFails(r) ==
  LET w == target[r] IN
  /\ pc[r] = "refresh"
  /\ IF gateway[w] = "none" THEN UNCHANGED faults ELSE Fault
  /\ Heed(r, w, "PENDING")
  /\ UNCHANGED <<tables, outside, ref, nextRef>>

\* preserves_transaction: the route commits the payment row and raises.
Hold(r) ==
  LET w == target[r] IN
  /\ pc[r] = "hold"
  /\ payment' = [payment EXCEPT ![w] = answer[r]]
  /\ paymentRef' = [paymentRef EXCEPT ![w] = ref[r]]
  /\ Finish(r)
  /\ UNCHANGED <<contracts, columns, history, lock, nocRef, outbox, outside,
                 bounds>>

\* Mutant of StorePdf: ImmutableObjectExists is not handled.
StorePdfOnce(r) ==
  LET w == target[r] IN
  /\ pc[r] = "issue"
  /\ objectRef[w] = Nobody
  /\ objectRef' = [objectRef EXCEPT ![w] = ref[r]]
  /\ Goto(r, "commit", w)
  /\ UNCHANGED <<tables, gateway, charged, broker, answer, ref, bounds>>

\* put_immutable of a PDF that names the payment; an object that is there
\* already stays, and is the one that will be recorded.
StorePdf(r) ==
  LET w == target[r] IN
  /\ pc[r] = "issue"
  /\ \/ /\ objectRef[w] = Nobody
        /\ objectRef' = [objectRef EXCEPT ![w] = ref[r]]
     \/ /\ objectRef[w] # Nobody
        /\ UNCHANGED objectRef
  /\ Goto(r, "commit", w)
  /\ UNCHANGED <<tables, gateway, charged, broker, answer, ref, bounds>>

\* The audit rows of the three transitions.
SettledTrail(w) ==
  audit[w] \cup {<<status[w], "REFUND_PROCESSED">>,
                 <<"REFUND_PROCESSED", "NOC_ISSUED">>,
                 <<"NOC_ISSUED", "COMPLETE">>}

\* The commit of payment, three transitions, certificate and lock release.
SettleCommit(r) ==
  LET w == target[r] IN
  /\ pc[r] = "commit"
  /\ Check(status[w], "REFUND_PROCESSED")
  /\ Check("REFUND_PROCESSED", "NOC_ISSUED")
  /\ Check("NOC_ISSUED", "COMPLETE")
  /\ status' = [status EXCEPT ![w] = "COMPLETE"]
  /\ audit' = [audit EXCEPT ![w] = SettledTrail(w)]
  /\ payment' = [payment EXCEPT ![w] = answer[r]]
  /\ paymentRef' = [paymentRef EXCEPT ![w] = ref[r]]
  /\ nocRef' = [nocRef EXCEPT ![w] = objectRef[w]]
  /\ lock' = Released(w)
  /\ Finish(r)
  /\ UNCHANGED <<contracts, columns, stallTask, outbox, outside, bounds>>

\* The process dies, or the database or the bucket raises: the transaction
\* rolls back, what left the database stays.
Crash(r) ==
  /\ pc[r] # "idle"
  /\ Fault
  /\ Finish(r)
  /\ UNCHANGED <<tables, outside, nextRef>>

-----------------------------------------------------------------------------
Dispatcher(r) ==
  \/ DispatchEvent(r) \/ DispatchSkipped(r)
  \/ RecordSent(r) \/ RecordRetry(r) \/ RecordDeadLetter(r)

Settlement(r) ==
  \/ SubmitRefund(r) \/ SubmitFails(r) \/ FetchStatus(r) \/ FetchFails(r)
  \/ Hold(r) \/ StorePdf(r) \/ SettleCommit(r)

Jobs ==
  \/ StallScan
  \/ \E r \in Requests, w \in WorkflowIds : DispatchDue(r, w)

Users ==
  \/ \E r \in Requests, c \in Contracts, w \in WorkflowIds : Initiate(r, c, w)
  \/ \E w \in WorkflowIds :
       \/ ScheduleInspection(w)
       \/ \E amount \in Damages : SubmitReport(w, amount)
       \/ ConfirmDamage(w)
       \/ \E r \in Requests : SettleCreate(r, w) \/ SettleResume(r, w)

Environment ==
  \/ \E c \in Contracts : \/ AskGuard(c) \/ SignContract(c)
                          \/ \E amount \in Edits : EditDeposit(c, amount)
  \/ \E w \in WorkflowIds : WindowElapses(w) \/ GatewaySettles(w)
  \/ \E r \in Requests : Crash(r)

Next ==
  \/ Users \/ Jobs \/ Environment
  \/ \E r \in Requests : Dispatcher(r) \/ Settlement(r)

Spec == Init /\ [][Next]_vars

\* Somebody runs the two jobs again and again, as their docstrings ask (nothing
\* in the build does), an open transaction goes on, and the gateway finishes
\* what it accepted.  Users owe nothing.
FairSpec ==
  /\ Spec
  /\ WF_vars(StallScan)
  /\ \A w \in WorkflowIds :
       /\ WF_vars(\E r \in Requests : DispatchDue(r, w))
       /\ WF_vars(GatewaySettles(w))
  /\ \A r \in Requests : WF_vars(Dispatcher(r)) /\ WF_vars(Settlement(r))

\* In addition a settlement that was held or died is tried again.
FairSettlement ==
  /\ FairSpec
  /\ \A w \in WorkflowIds :
       SF_vars(\E r \in Requests : SettleCreate(r, w) \/ SettleResume(r, w))

-----------------------------------------------------------------------------
TypeOK ==
  /\ active \subseteq Contracts
  /\ cleared \subseteq Contracts
  /\ deposit \in [Contracts -> Nat]
  /\ status \in [WorkflowIds -> WorkflowStates \cup {"none"}]
  /\ contract \in [WorkflowIds -> Contracts \cup {Nobody}]
  /\ snapshot \in [WorkflowIds -> Nat \cup {Nobody}]
  /\ damage \in [WorkflowIds -> Nat \cup {Nobody}]
  /\ late \subseteq WorkflowIds
  /\ audit \in [WorkflowIds ->
       SUBSET ((WorkflowStates \cup {"none"}) \X WorkflowStates)]
  /\ stallTask \subseteq WorkflowIds
  /\ lock \in [Properties -> WorkflowIds \cup {Nobody}]
  /\ payment \in [WorkflowIds -> PaymentStatuses \cup {"none"}]
  /\ paymentRef \in [WorkflowIds -> Nat \cup {Nobody}]
  /\ nocRef \in [WorkflowIds -> Nat \cup {Nobody}]
  /\ event \in [WorkflowIds -> OutboxStatuses \cup {"none"}]
  /\ attempts \in [WorkflowIds -> 0 .. MaxAttempts]
  /\ alert \subseteq WorkflowIds
  /\ gateway \in [WorkflowIds -> PaymentStatuses \cup {"none"}]
  /\ charged \in [WorkflowIds -> Nat \cup {Nobody}]
  /\ objectRef \in [WorkflowIds -> Nat \cup {Nobody}]
  /\ broker \subseteq WorkflowIds
  /\ pc \in [Requests -> Steps]
  /\ target \in [Requests -> WorkflowIds \cup {Nobody}]
  /\ answer \in [Requests -> PaymentStatuses \cup {"none"}]
  /\ ref \in [Requests -> Nat \cup {Nobody}]
  /\ nextRef \in Nat
  /\ faults \in 0 .. MaxFaults

\* X-001: racing initiations leave one workflow for a contract.
OneExitPerContract ==
  \A w, v \in WorkflowIds :
    contract[w] # Nobody /\ contract[w] = contract[v] => w = v

\* EXIT-03: from its initiation until COMPLETE a workflow holds the exit lock
\* of its property, also while its notification is retried or dead-lettered
\* and while an earlier tenancy's exit is settled.
IncompleteHoldsLock ==
  \A w \in WorkflowIds :
    status[w] \notin {"none", "COMPLETE"} => lock[PropertyOfWorkflow(w)] = w

\* EXIT-09: no lock outlives its workflow.
LockHasIncompleteHolder ==
  \A p \in Properties :
    lock[p] # Nobody =>
      /\ status[lock[p]] \notin {"none", "COMPLETE"}
      /\ PropertyOfWorkflow(lock[p]) = p

\* EXIT-10: the audit rows of a workflow are one path through states.yaml that
\* ends at its status; a settlement that commits three transitions at once
\* leaves all three.
AuditTrailIsAPath == \A w \in WorkflowIds : PathTo(status[w], audit[w])

\* EXIT-08, X-004: a certificate, stored or recorded, is of a deposit the
\* gateway has paid out, whatever was rolled back in between.
NocOnlyAfterPaid ==
  \A w \in WorkflowIds :
    objectRef[w] # Nobody \/ nocRef[w] # Nobody => gateway[w] = "SUCCEEDED"

\* EXIT-07: what the gateway was asked to pay is the deposit as it was at
\* initiation less the damage the owner confirmed, whatever became of the
\* contract, and however often the request was repeated.
ChargedIsSnapshotLessDamage ==
  \A w \in WorkflowIds :
    gateway[w] # "none" =>
      /\ <<"INSPECTION_DONE", "DAMAGE_CONFIRMED">> \in audit[w]
      /\ charged[w] + damage[w] = snapshot[w]

\* EXIT-09, X-004: a SUCCEEDED payment row, the certificate's row and COMPLETE
\* come in one commit, so a late answer never contradicts a completed exit.
CompleteIsPaidAndCertified ==
  \A w \in WorkflowIds :
    /\ status[w] = "COMPLETE" <=> payment[w] = "SUCCEEDED"
    /\ status[w] = "COMPLETE" <=> nocRef[w] # Nobody

\* X-005: a payment row that is committed is the workflow's payment for ever;
\* a later or concurrent settlement works on it and never on another.
PaymentRowStays ==
  [][\A w \in WorkflowIds :
       paymentRef[w] # Nobody => paymentRef'[w] = paymentRef[w]]_vars

\* dispatcher.py:120-122: "the queue state can never disagree with the workflow
\* state": an event is SENT, and the broker has it, exactly when the workflow
\* has left DOCS_SUBMITTED.
QueueAgreesWithWorkflow ==
  \A w \in WorkflowIds :
    /\ event[w] = "none" <=> status[w] = "none"
    /\ event[w] \in {"PENDING", "DEAD_LETTER"} <=> status[w] = "DOCS_SUBMITTED"
    /\ event[w] = "SENT" => w \in broker

\* EXIT-04: an event is given up after MaxAttempts attempts, not before, and
\* exactly then the administrators are told.
GivenUpMeansAlert ==
  /\ alert = {w \in WorkflowIds : event[w] = "DEAD_LETTER"}
  /\ \A w \in WorkflowIds :
       event[w] \in {"PENDING", "DEAD_LETTER"} =>
         (event[w] = "DEAD_LETTER" <=> attempts[w] = MaxAttempts)

\* EXIT-05: exactly the stalled workflows are on the administrators' list.
StalledIffTask ==
  stallTask = {w \in WorkflowIds : status[w] = "STALLED"}

\* EXIT-04: the owner is notified in the end, or the event is dead-lettered,
\* also when the initiating request died before it dispatched.
OwnerIsToldOrGivenUp ==
  \A w \in WorkflowIds :
    status[w] = "DOCS_SUBMITTED" ~>
      status[w] = "OWNER_NOTIFIED" \/ event[w] = "DEAD_LETTER"

\* EXIT-05: past its window a notified workflow does not wait for ever.
LateExitsLeave ==
  \A w \in WorkflowIds : w \in late /\ Waiting(w) ~> ~ Waiting(w)

Payable(w) == status[w] = "DAMAGE_CONFIRMED" /\ damage[w] <= snapshot[w]

\* A settlement that is tried again completes a confirmed exit, whatever died
\* after the gateway or the bucket was called; unless the gateway refuses the
\* refund, or a submission that never arrived left a row that is only asked
\* after.
ConfirmedExitSettles ==
  \A w \in WorkflowIds :
    Payable(w) ~> \/ status[w] = "COMPLETE"
                  \/ gateway[w] = "FAILED"
                  \/ [](payment[w] = "PENDING" /\ gateway[w] = "none")

\* X-001, EXIT-03, EXIT-09: over any succession of tenancies the locks are
\* exactly those of the exits under way, one exit for each contract.
LocksFollowExits ==
  OneExitPerContract /\ IncompleteHoldsLock /\ LockHasIncompleteHolder

\* EXIT-04, EXIT-05, EXIT-10: audit rows, queue, alerts and admin tasks agree
\* with the status of every workflow.
RecordsAgree ==
  /\ TypeOK /\ AuditTrailIsAPath
  /\ QueueAgreesWithWorkflow /\ GivenUpMeansAlert /\ StalledIffTask

\* EXIT-07 to EXIT-09: the right amount is asked for, the certificate comes after
\* the money, and its row with the SUCCEEDED payment and COMPLETE.
MoneyThenNoc ==
  /\ ChargedIsSnapshotLessDamage /\ NocOnlyAfterPaid
  /\ CompleteIsPaidAndCertified

\* EXIT-04, EXIT-05, EXIT-08: with the jobs run and settlements tried again
\* every exit is notified or given up, inspected or stalled, and settled.
ExitsGoOn == OwnerIsToldOrGivenUp /\ LateExitsLeave /\ ConfirmedExitSettles

-----------------------------------------------------------------------------
\* What is inductive, for the proofs.

\* What a request may rely on.  The row locks make it stay true: an open
\* settlement is alone on its workflow, an open dispatch on its event.
RequestsOK ==
  \A r \in Requests :
    LET w == target[r] IN
    /\ pc[r] # "idle" => w \in WorkflowIds
    /\ pc[r] \in Dispatching => event[w] = "PENDING"
    /\ pc[r] = "sent" => w \in broker
    /\ pc[r] \in Settling =>
         /\ status[w] = "DAMAGE_CONFIRMED"
         /\ damage[w] <= snapshot[w]
         /\ answer[r] \in PaymentStatuses
         /\ ref[r] \in Nat
         /\ \/ payment[w] = "none"
            \/ payment[w] = "PENDING" /\ paymentRef[w] = ref[r]
    /\ pc[r] = "hold" => answer[r] # "SUCCEEDED"
    /\ pc[r] \in {"issue", "commit"} =>
         answer[r] = "SUCCEEDED" /\ gateway[w] = "SUCCEEDED"
    /\ pc[r] = "commit" => objectRef[w] # Nobody

RequestsExclude ==
  \A r, q \in Requests :
    target[r] = target[q] =>
      /\ pc[r] \in Settling /\ pc[q] \in Settling => r = q
      /\ pc[r] \in Dispatching /\ pc[q] \in Dispatching => r = q

\* Which columns a workflow in each status has.  A settlement commits three
\* transitions at once and an initiation two, so no row is left in between.
RowsOK ==
  \A w \in WorkflowIds :
    /\ status[w] \notin {"INITIATED", "REFUND_PROCESSED", "NOC_ISSUED"}
    /\ status[w] = "none" <=> contract[w] = Nobody
    /\ status[w] = "none" <=> snapshot[w] = Nobody
    /\ status[w] \in {"INSPECTION_DONE", "DAMAGE_CONFIRMED", "COMPLETE"}
         => damage[w] \in Nat
    /\ payment[w] = "none" <=> paymentRef[w] = Nobody
    /\ gateway[w] # "none" \/ payment[w] # "none"
         => status[w] \in {"DAMAGE_CONFIRMED", "COMPLETE"}
    /\ status[w] \in {"DAMAGE_CONFIRMED", "COMPLETE"}
         => <<"INSPECTION_DONE", "DAMAGE_CONFIRMED">> \in audit[w]
    /\ objectRef[w] # Nobody => gateway[w] = "SUCCEEDED"
    /\ nocRef[w] # Nobody => objectRef[w] # Nobody
    /\ status[w] # "COMPLETE" => payment[w] # "SUCCEEDED" /\ nocRef[w] = Nobody

IndInv ==
  /\ TypeOK /\ RequestsOK /\ RequestsExclude /\ RowsOK
  /\ ChargedIsSnapshotLessDamage /\ CompleteIsPaidAndCertified
  /\ QueueAgreesWithWorkflow /\ GivenUpMeansAlert /\ StalledIffTask
  /\ \A w \in WorkflowIds : event[w] = "none" => attempts[w] = 0

AuditInv ==
  \A w \in WorkflowIds :
    PathTo(status[w], audit[w]) /\ Climbs(status[w], audit[w])

\* Exits are of signed contracts; of two tenancies on one property, one is over.
TenancyOK ==
  /\ \A w \in WorkflowIds : contract[w] # Nobody => contract[w] \in active
  /\ ExclusiveTenancy =>
       \A c, d \in active :
         PropertyOf[c] = PropertyOf[d] /\ c # d => Ended(c) \/ Ended(d)

LockInv ==
  /\ TenancyOK
  /\ OneExitPerContract
  /\ ExclusiveTenancy => IncompleteHoldsLock /\ LockHasIncompleteHolder

-----------------------------------------------------------------------------
\* The abstract promise, keyed by contract.
ExitOf(c) == CHOOSE w \in WorkflowIds : contract[w] = c
HasExit(c) == \E w \in WorkflowIds : contract[w] = c

Promise == INSTANCE ExitPromise WITH
  status <- [c \in Contracts |-> IF HasExit(c) THEN status[ExitOf(c)] ELSE "none"],
  holder <- [p \in Properties |->
               IF lock[p] = Nobody THEN Nobody ELSE contract[lock[p]]],
  paid <- [c \in Contracts |-> HasExit(c) /\ gateway[ExitOf(c)] = "SUCCEEDED"],
  noc <- [c \in Contracts |-> HasExit(c) /\ objectRef[ExitOf(c)] # Nobody]

\* Every behaviour of the service, deaths and retries included, is one of the
\* abstract promise.
ImplementsPromise == Promise!Spec

=============================================================================
