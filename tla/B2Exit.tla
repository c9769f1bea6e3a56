------------------------------- MODULE B2Exit -------------------------------
(***************************************************************************)
(* The exit-workflow module of run B2.                                     *)
(*                                                                         *)
(* B2 cuts its work into short transactions with the outside calls between *)
(* them: a dispatch reads the event, publishes, and then records the       *)
(* outcome; a settlement ensures the payment row, reads it, asks the       *)
(* gateway, records the answer, advances the workflow, and issues the NOC. *)
(* Only the last step keeps the workflow's row lock across an outside      *)
(* call.  Every transaction is an action, and so is every outside call;    *)
(* what a request carries from one to the next is in pc, target, answer    *)
(* and tries, and a Crash drops it.                                        *)
(*                                                                         *)
(* A workflow id stands for one exit of the contract ContractOf names, as  *)
(* ids are fresh; a contract may have several, one after the other.        *)
(* Requests the code refuses change nothing and have no action.            *)
(***************************************************************************)
EXTENDS KitStates, Naturals, FiniteSets

CONSTANTS
  WorkflowIds, Contracts, Properties,
  ContractOf,       \* [WorkflowIds -> Contracts]
  PropertyOf,       \* [Contracts -> Properties]
  Deposits,         \* contracts.security_deposit_minor at initiation
  Damages,          \* amounts an agency may report
  Requests,         \* API calls and runs of the dispatcher
  MaxAttempts,      \* notification_max_attempts (5)
  MaxFaults,        \* bound on deaths and failed outside calls
  Nobody

ASSUME B2ExitAssumption ==
  /\ ContractOf \in [WorkflowIds -> Contracts]
  /\ PropertyOf \in [Contracts -> Properties]
  /\ Deposits \subseteq Nat
  /\ Damages \subseteq Nat
  /\ MaxAttempts \in Nat \ {0}
  /\ MaxFaults \in Nat
  /\ Nobody \notin WorkflowIds \cup Nat

VARIABLES
  active,    \* contracts with status ACTIVE (external table)
  status,    \* exit_workflows.status; "none": no such row
  snapshot,  \* exit_workflows.security_deposit_minor
  damage,    \* exit_workflows.damage_amount_minor, later the confirmed one
  audit,     \* exit_workflow_audit: the <<from, to>> pairs
  exitLock,  \* properties whose exit_lock is true
  payment,   \* payments.status by idempotency key; "none": no row
  nocRow,    \* workflows with a noc_documents row
  event,     \* exit_workflow_events.status of the workflow's one event
  attempts,  \* exit_workflow_events.attempts
  tasks,     \* open admin tasks: <<workflow, task type>>
  gateway,   \* the gateway's record of the key (external)
  stored,    \* workflows whose PDF is in the bucket (external)
  broker,    \* workflows whose event the broker received (external)
  pc, target, answer, tries,   \* what a request is doing
  faults     \* faults so far

outbox == <<event, attempts>>
columns == <<snapshot, damage>>
outside == <<gateway, stored, broker>>
requests == <<pc, target, answer, tries>>
vars == <<active, status, columns, audit, exitLock, payment, nocRow, outbox,
          tasks, outside, requests, faults>>

PaymentStatuses == {"PENDING", "SUCCEEDED", "FAILED"}
OutboxStatuses == {"PENDING", "PUBLISHED", "DEAD_LETTERED"}
TaskTypes == {"STALLED_EXIT", "NOTIFICATION_DEAD_LETTER"}
Steps == {"idle", "sent", "unsent",
          "ensured", "call", "record", "advance", "noc", "commit"}

PropertyAt(w) == PropertyOf[ContractOf[w]]
Open(w) == status[w] \notin {"none", "COMPLETE"}

\* One tenancy at a time on a property is the contracting module's promise.
Init ==
  /\ active \in {S \in SUBSET Contracts :
                   \A c, d \in S : PropertyOf[c] = PropertyOf[d] => c = d}
  /\ status = [w \in WorkflowIds |-> "none"]
  /\ snapshot = [w \in WorkflowIds |-> 0]
  /\ damage = [w \in WorkflowIds |-> Nobody]
  /\ audit = [w \in WorkflowIds |-> {}]
  /\ exitLock = {}
  /\ payment = [w \in WorkflowIds |-> "none"]
  /\ nocRow = {}
  /\ event = [w \in WorkflowIds |-> "none"]
  /\ attempts = [w \in WorkflowIds |-> 0]
  /\ tasks = {}
  /\ gateway = [w \in WorkflowIds |-> "none"]
  /\ stored = {}
  /\ broker = {}
  /\ pc = [r \in Requests |-> "idle"]
  /\ target = [r \in Requests |-> Nobody]
  /\ answer = [r \in Requests |-> "none"]
  /\ tries = [r \in Requests |-> 0]
  /\ faults = 0

-----------------------------------------------------------------------------
\* TransitionService.apply.

\* StateMachine.validate: "any -> NOC_ISSUED without REFUND_PROCESSED" looks at
\* the source state only.
Move(w, to, actor) ==
  /\ Allowed(status[w], to, actor, {})
  /\ status' = [status EXCEPT ![w] = to]
  /\ audit' = [audit EXCEPT ![w] = @ \cup {<<status[w], to>>}]

\* The workflow's row is locked across the bucket write and no other call.
Locked(w) == \E r \in Requests : pc[r] = "commit" /\ target[r] = w

Goto(r, step, w) ==
  /\ pc' = [pc EXCEPT ![r] = step]
  /\ target' = [target EXCEPT ![r] = w]

Finish(r) ==
  /\ Goto(r, "idle", Nobody)
  /\ answer' = [answer EXCEPT ![r] = "none"]
  /\ tries' = [tries EXCEPT ![r] = 0]

Fault ==
  /\ faults < MaxFaults
  /\ faults' = faults + 1

-----------------------------------------------------------------------------
\* The contracting module and the gateway (external).

\* A contract is signed once the property is contractable and free.  The answer
\* of assert_property_contractable is used in one step: nobody has an active
\* contract on the property then, so no initiation can come between.
SignContract(c) ==
  /\ c \notin active
  /\ PropertyOf[c] \notin exitLock
  /\ \A d \in active : PropertyOf[d] # PropertyOf[c]
  /\ active' = active \cup {c}
  /\ UNCHANGED <<status, columns, audit, exitLock, payment, nocRow, outbox,
                 tasks, outside, requests, faults>>

\* A contract ends after its exit.  An end while the exit is open opens nothing:
\* the lock keeps the next contract out until COMPLETE.
EndContract(c) ==
  /\ c \in active
  /\ \E w \in WorkflowIds : ContractOf[w] = c /\ status[w] = "COMPLETE"
  /\ \A w \in WorkflowIds : ContractOf[w] = c => ~ Open(w)
  /\ active' = active \ {c}
  /\ UNCHANGED <<status, columns, audit, exitLock, payment, nocRow, outbox,
                 tasks, outside, requests, faults>>

GatewaySettles(w) ==
  /\ gateway[w] = "PENDING"
  /\ \E s \in {"SUCCEEDED", "FAILED"} : gateway' = [gateway EXCEPT ![w] = s]
  /\ UNCHANGED <<active, status, columns, audit, exitLock, payment, nocRow,
                 outbox, tasks, stored, broker, requests, faults>>

-----------------------------------------------------------------------------
\* POST /exit-workflows.

\* Mutant of Acquired: the flag is left to a later transaction.
AcquiredLater(w) == exitLock

Acquired(w) == exitLock \cup {PropertyAt(w)}
NoOpenExit(c) == \A w \in WorkflowIds : ContractOf[w] = c => ~ Open(w)

\* One transaction under the contract's row lock: the insert, both audit rows,
\* the lock flag and the outbox event.  The flag is set whatever it was.
Initiate(w, deposit) ==
  /\ status[w] = "none"
  /\ ContractOf[w] \in active
  /\ NoOpenExit(ContractOf[w])
  /\ Allowed("INITIATED", "DOCS_SUBMITTED", "tenant", {})
  /\ status' = [status EXCEPT ![w] = "DOCS_SUBMITTED"]
  /\ audit' = [audit EXCEPT ![w] = {<<"none", "INITIATED">>,
                                    <<"INITIATED", "DOCS_SUBMITTED">>}]
  /\ snapshot' = [snapshot EXCEPT ![w] = deposit]
  /\ exitLock' = Acquired(w)
  /\ event' = [event EXCEPT ![w] = "PENDING"]
  /\ UNCHANGED <<active, damage, payment, nocRow, attempts, tasks,
                 outside, requests, faults>>

-----------------------------------------------------------------------------
\* NotificationService.  The first attempt after the commit and the attempts of
\* the sweep are the same call; any PENDING event may be due.

\* The row is read and unlocked, then published.  What happens to the row in
\* between shows when the outcome is recorded, so the two are one step.
Attempt(r, w) ==
  /\ pc[r] = "idle"
  /\ event[w] = "PENDING"
  /\ tries' = [tries EXCEPT ![r] = attempts[w] + 1]
  /\ \/ /\ broker' = broker \cup {w}
        /\ Goto(r, "sent", w)
     \/ /\ broker' \in {broker, broker \cup {w}}
        /\ Goto(r, "unsent", w)
  /\ UNCHANGED <<active, status, columns, audit, exitLock, payment, nocRow,
                 outbox, tasks, gateway, stored, answer, faults>>

\* The transition of a workflow that still waits for its notification.
Advanced(w) ==
  IF status[w] = "DOCS_SUBMITTED"
  THEN Move(w, "OWNER_NOTIFIED", "system")
  ELSE UNCHANGED <<status, audit>>

\* _record_success: it asks whether the event is PUBLISHED, not whether it is
\* still PENDING.
RecordSuccess(r) ==
  LET w == target[r] IN
  /\ pc[r] = "sent"
  /\ ~ Locked(w)
  /\ IF event[w] = "PUBLISHED"
     THEN UNCHANGED <<status, audit, outbox>>
     ELSE /\ event' = [event EXCEPT ![w] = "PUBLISHED"]
          /\ attempts' = [attempts EXCEPT ![w] = @ + 1]
          /\ Advanced(w)
  /\ Finish(r)
  /\ UNCHANGED <<active, columns, exitLock, payment, nocRow, tasks, outside,
                 faults>>

\* Mutant of DeadLettered: nobody is told.
DeadLetteredSilently(w) == tasks

DeadLettered(w) == tasks \cup {<<w, "NOTIFICATION_DEAD_LETTER">>}

\* _record_failure writes the count it read before publishing, and the status
\* DEAD_LETTERED, without looking at either.
RecordFailure(r) ==
  LET w == target[r] IN
  /\ pc[r] = "unsent"
  /\ attempts' = [attempts EXCEPT ![w] = tries[r]]
  /\ IF tries[r] >= MaxAttempts
     THEN /\ event' = [event EXCEPT ![w] = "DEAD_LETTERED"]
          /\ tasks' = DeadLettered(w)
     ELSE UNCHANGED <<event, tasks>>
  /\ Finish(r)
  /\ UNCHANGED <<active, status, columns, audit, exitLock, payment, nocRow,
                 outside, faults>>

-----------------------------------------------------------------------------
\* Inspection, confirmation and the stall sweep: one transaction each.

ScheduleInspection(w) ==
  /\ Move(w, "INSPECTION_SCHEDULED", "owner")
  /\ UNCHANGED <<active, columns, exitLock, payment, nocRow, outbox, tasks,
                 outside, requests, faults>>

SubmitReport(w, amount) ==
  /\ Move(w, "INSPECTION_DONE", "inspector")
  /\ damage' = [damage EXCEPT ![w] = amount]
  /\ UNCHANGED <<active, snapshot, exitLock, payment, nocRow, outbox,
                 tasks, outside, requests, faults>>

ConfirmDamage(w) ==
  /\ Move(w, "DAMAGE_CONFIRMED", "owner")
  /\ UNCHANGED <<active, columns, exitLock, payment, nocRow, outbox, tasks,
                 outside, requests, faults>>

\* _stall_one: status and date are read again under the row lock.  Which day it
\* is is free here (B3Exit and B1Exit have the window).
StallOne(w) ==
  /\ status[w] \in {"OWNER_NOTIFIED", "INSPECTION_SCHEDULED"}
  /\ Move(w, "STALLED", "system")
  /\ tasks' = tasks \cup {<<w, "STALLED_EXIT">>}
  /\ UNCHANGED <<active, columns, exitLock, payment, nocRow, outbox, outside,
                 requests, faults>>

-----------------------------------------------------------------------------
\* POST /{id}/settle: a chain of transactions.  Another request, a death or the
\* gateway's own work may come between any two of them.

Refundable(w) == damage[w] <= snapshot[w]

\* _ensure_payment, the first call: damage above the deposit raises R8, else
\* the PENDING row is inserted.
EnsureCreates(r, w) ==
  /\ pc[r] = "idle"
  /\ status[w] = "DAMAGE_CONFIRMED" /\ Refundable(w)
  /\ payment[w] = "none"
  /\ payment' = [payment EXCEPT ![w] = "PENDING"]
  /\ Goto(r, "ensured", w)
  /\ UNCHANGED <<active, status, columns, audit, exitLock, nocRow, outbox,
                 tasks, outside, answer, tries, faults>>

\* Mutant of EnsureFinds: an existing row is taken for a settlement under way.
EnsureFindsRefunded(r, w) ==
  /\ pc[r] = "idle"
  /\ ~ Locked(w)
  /\ status[w] = "REFUND_PROCESSED"
  /\ Goto(r, "advance", w)
  /\ UNCHANGED <<active, status, columns, audit, exitLock, payment, nocRow,
                 outbox, tasks, outside, answer, tries, faults>>

\* _ensure_payment again: the row is there, or the gateway is not asked any more.
\* After COMPLETE the call changes nothing.
EnsureFinds(r, w) ==
  /\ pc[r] = "idle"
  /\ ~ Locked(w)
  /\ \/ /\ status[w] = "DAMAGE_CONFIRMED" /\ payment[w] # "none"
        /\ Goto(r, "ensured", w)
     \/ /\ status[w] = "REFUND_PROCESSED"
        /\ Goto(r, "advance", w)
  /\ UNCHANGED <<active, status, columns, audit, exitLock, payment, nocRow,
                 outbox, tasks, outside, answer, tries, faults>>

\* _drive_gateway, first transaction.
ReadPayment(r) ==
  /\ pc[r] = "ensured"
  /\ Goto(r, IF payment[target[r]] = "SUCCEEDED" THEN "advance" ELSE "call",
          target[r])
  /\ UNCHANGED <<active, status, columns, audit, exitLock, payment, nocRow,
                 outbox, tasks, outside, answer, tries, faults>>

\* What the gateway knows of the key after a call: get_status of a refund it
\* has, and initiate_refund under a key it has, both give the record there is.
Outcomes(w) == IF gateway[w] = "none" THEN PaymentStatuses ELSE {gateway[w]}

CallGateway(r) ==
  LET w == target[r] IN
  /\ pc[r] = "call"
  /\ \E s \in Outcomes(w) :
       /\ gateway' = [gateway EXCEPT ![w] = s]
       /\ answer' = [answer EXCEPT ![r] = s]
  /\ Goto(r, "record", w)
  /\ UNCHANGED <<active, status, columns, audit, exitLock, payment, nocRow,
                 outbox, tasks, stored, broker, tries, faults>>

\* The call raises; the refund may have reached the gateway all the same.
CallFails(r) ==
  LET w == target[r] IN
  /\ pc[r] = "call"
  /\ Fault
  /\ \E s \in Outcomes(w) \cup {gateway[w]} :
       gateway' = [gateway EXCEPT ![w] = s]
  /\ Finish(r)
  /\ UNCHANGED <<active, status, columns, audit, exitLock, payment, nocRow,
                 outbox, tasks, stored, broker>>

\* _drive_gateway, second transaction: the answer replaces whatever the row
\* says by now.
RecordAnswer(r) ==
  /\ pc[r] = "record"
  /\ payment' = [payment EXCEPT ![target[r]] = answer[r]]
  /\ answer' = [answer EXCEPT ![r] = "none"]
  /\ Goto(r, "advance", target[r])
  /\ UNCHANGED <<active, status, columns, audit, exitLock, nocRow, outbox,
                 tasks, outside, tries, faults>>

\* What _advance_after_payment and issue_and_complete ask of the payment row.
MayAdvance(w) == payment[w] = "SUCCEEDED"
MayIssue(w) == payment[w] = "SUCCEEDED"

\* _advance_after_payment.
Advance(r) ==
  LET w == target[r] IN
  /\ pc[r] = "advance"
  /\ ~ Locked(w)
  /\ IF status[w] = "DAMAGE_CONFIRMED"
     THEN MayAdvance(w) /\ Move(w, "REFUND_PROCESSED", "system")
     ELSE UNCHANGED <<status, audit>>
  /\ Goto(r, "noc", w)
  /\ UNCHANGED <<active, columns, exitLock, payment, nocRow, outbox, tasks,
                 outside, answer, tries, faults>>

\* PENDING or FAILED: 409, and the workflow stays where it is.
Hold(r) ==
  LET w == target[r] IN
  /\ \/ pc[r] = "advance" /\ status[w] = "DAMAGE_CONFIRMED" /\ ~ MayAdvance(w)
     \/ pc[r] = "noc" /\ status[w] = "REFUND_PROCESSED" /\ ~ MayIssue(w)
     \/ pc[r] = "noc" /\ status[w] = "COMPLETE"
  /\ ~ Locked(w)
  /\ Finish(r)
  /\ UNCHANGED <<active, status, columns, audit, exitLock, payment, nocRow,
                 outbox, tasks, outside, faults>>

\* issue_and_complete up to put_immutable: from here the row lock is kept.
StorePdf(r) ==
  LET w == target[r] IN
  /\ pc[r] = "noc"
  /\ ~ Locked(w)
  /\ status[w] = "REFUND_PROCESSED"
  /\ MayIssue(w)
  /\ w \notin stored
  /\ stored' = stored \cup {w}
  /\ Goto(r, "commit", w)
  /\ UNCHANGED <<active, status, columns, audit, exitLock, payment, nocRow,
                 outbox, tasks, gateway, broker, answer, tries, faults>>

\* The bucket refuses: the object is there already (the write is conditional on
\* its absence), and the transaction rolls back.
StoreRefused(r) ==
  LET w == target[r] IN
  /\ pc[r] = "noc"
  /\ ~ Locked(w)
  /\ status[w] = "REFUND_PROCESSED"
  /\ MayIssue(w)
  /\ w \in stored
  /\ Finish(r)
  /\ UNCHANGED <<active, status, columns, audit, exitLock, payment, nocRow,
                 outbox, tasks, outside, faults>>

Released(w) == exitLock \ {PropertyAt(w)}

\* The rest of the transaction: the NOC row, both transitions, the release.
IssueCommit(r) ==
  LET w == target[r] IN
  /\ pc[r] = "commit"
  /\ Allowed("REFUND_PROCESSED", "NOC_ISSUED", "system", {})
  /\ Allowed("NOC_ISSUED", "COMPLETE", "system", {})
  /\ status' = [status EXCEPT ![w] = "COMPLETE"]
  /\ audit' = [audit EXCEPT ![w] = @ \cup {<<"REFUND_PROCESSED", "NOC_ISSUED">>,
                                           <<"NOC_ISSUED", "COMPLETE">>}]
  /\ nocRow' = nocRow \cup {w}
  /\ exitLock' = Released(w)
  /\ Finish(r)
  /\ UNCHANGED <<active, columns, payment, outbox, tasks, outside, faults>>

\* The process dies or the database raises: an open transaction rolls back,
\* committed ones and outside effects stay.
Crash(r) ==
  /\ pc[r] # "idle"
  /\ Fault
  /\ Finish(r)
  /\ UNCHANGED <<active, status, columns, audit, exitLock, payment, nocRow,
                 outbox, tasks, outside>>

-----------------------------------------------------------------------------
Dispatcher(r) == RecordSuccess(r) \/ RecordFailure(r)

Settlement(r) ==
  \/ ReadPayment(r) \/ CallGateway(r) \/ RecordAnswer(r)
  \/ Advance(r) \/ Hold(r) \/ StorePdf(r) \/ StoreRefused(r) \/ IssueCommit(r)

Settle(w) == \E r \in Requests : EnsureCreates(r, w) \/ EnsureFinds(r, w)

Users ==
  \E w \in WorkflowIds :
    \/ \E deposit \in Deposits : Initiate(w, deposit)
    \/ ScheduleInspection(w)
    \/ \E amount \in Damages : SubmitReport(w, amount)
    \/ ConfirmDamage(w)
    \/ Settle(w)

Jobs ==
  \E w \in WorkflowIds : StallOne(w) \/ \E r \in Requests : Attempt(r, w)

Environment ==
  \/ \E c \in Contracts : SignContract(c) \/ EndContract(c)
  \/ \E w \in WorkflowIds : GatewaySettles(w)
  \/ \E r \in Requests : CallFails(r) \/ Crash(r)

Next ==
  \/ Users \/ Jobs \/ Environment
  \/ \E r \in Requests : Dispatcher(r) \/ Settlement(r)

Spec == Init /\ [][Next]_vars

\* A request goes on, the gateway finishes what it accepted, and a settlement
\* that was held or died is asked for again.
FairSpec ==
  /\ Spec
  /\ \A r \in Requests : WF_vars(Dispatcher(r) \/ Settlement(r))
  /\ \A w \in WorkflowIds : WF_vars(GatewaySettles(w)) /\ SF_vars(Settle(w))

-----------------------------------------------------------------------------
TypeOK ==
  /\ active \subseteq Contracts
  /\ status \in [WorkflowIds -> WorkflowStates \cup {"none"}]
  /\ snapshot \in [WorkflowIds -> Nat]
  /\ damage \in [WorkflowIds -> Nat \cup {Nobody}]
  /\ audit \in [WorkflowIds ->
       SUBSET ((WorkflowStates \cup {"none"}) \X WorkflowStates)]
  /\ exitLock \subseteq Properties
  /\ payment \in [WorkflowIds -> PaymentStatuses \cup {"none"}]
  /\ nocRow \subseteq WorkflowIds
  /\ event \in [WorkflowIds -> OutboxStatuses \cup {"none"}]
  /\ attempts \in [WorkflowIds -> 0 .. MaxAttempts + 1]
  /\ tasks \subseteq WorkflowIds \X TaskTypes
  /\ gateway \in [WorkflowIds -> PaymentStatuses \cup {"none"}]
  /\ stored \subseteq WorkflowIds
  /\ broker \subseteq WorkflowIds
  /\ pc \in [Requests -> Steps]
  /\ target \in [Requests -> WorkflowIds \cup {Nobody}]
  /\ answer \in [Requests -> PaymentStatuses \cup {"none"}]
  /\ tries \in [Requests -> 0 .. MaxAttempts]
  /\ faults \in 0 .. MaxFaults

\* EXIT-04, notification.py:180-184: whatever the order in which concurrent
\* attempts of one event record their outcomes, an exit waits in DOCS_SUBMITTED
\* only with its event still queued or with the administrators told, and it has
\* left that state once its event was ever recorded as published.
NobodyIsForgotten ==
  \A w \in WorkflowIds :
    /\ status[w] = "DOCS_SUBMITTED" =>
         \/ event[w] = "PENDING"
         \/ event[w] = "DEAD_LETTERED"
            /\ <<w, "NOTIFICATION_DEAD_LETTER">> \in tasks
    /\ event[w] = "PENDING" => status[w] = "DOCS_SUBMITTED"
    /\ event[w] = "PUBLISHED" => w \in broker

\* What one transaction writes beside another's work stays of one piece: the
\* audit trail is one path through states.yaml to the status, and the
\* administrators' stall tasks are the stalled exits.  All rows typed.
RecordsAgree ==
  /\ TypeOK
  /\ \A w \in WorkflowIds :
       /\ PathTo(status[w], audit[w])
       /\ status[w] = "STALLED" <=> <<w, "STALLED_EXIT">> \in tasks
  /\ NobodyIsForgotten

\* The two ways a refunded exit gets stuck: the row no longer says SUCCEEDED,
\* so the NOC is refused and the gateway never asked again; or the PDF of a
\* transaction that rolled back is in the bucket, and the write-once put fails.
Stranded(w) ==
  /\ status[w] = "REFUND_PROCESSED"
  /\ payment[w] # "SUCCEEDED" \/ w \in stored

\* algorithm.md steps 9-13: a confirmed exit whose settlement is asked for again
\* and again is completed, unless the gateway refuses the refund or one of the
\* two dead ends of Stranded is reached; there is no third.
ConfirmedExitSettles ==
  \A w \in WorkflowIds :
    status[w] = "DAMAGE_CONFIRMED" /\ Refundable(w) ~>
      \/ status[w] = "COMPLETE"
      \/ gateway[w] = "FAILED"
      \/ []Stranded(w)

\* settlement.py:266-270: a workflow proceeds on SUCCEEDED only, and "the payment
\* row carries the true status", so past DAMAGE_CONFIRMED the row is SUCCEEDED.
ProceededOnSucceeded ==
  \A w \in WorkflowIds :
    status[w] \in {"REFUND_PROCESSED", "COMPLETE"} => payment[w] = "SUCCEEDED"

-----------------------------------------------------------------------------
\* The abstract promise, one exit per workflow id.  exit_lock is a flag: its
\* holder is the open exit on the property.
HolderOf(p) == CHOOSE w \in WorkflowIds : PropertyAt(w) = p /\ Open(w)

Promise == INSTANCE ExitPromise WITH
  Contracts <- WorkflowIds,
  PropertyOf <- [w \in WorkflowIds |-> PropertyOf[ContractOf[w]]],
  status <- status,
  holder <- [p \in Properties |->
               IF p \in exitLock THEN HolderOf(p) ELSE Nobody],
  paid <- [w \in WorkflowIds |-> gateway[w] = "SUCCEEDED"],
  noc <- [w \in WorkflowIds |-> w \in stored]

\* Every behaviour, deaths, lost and late answers and succeeding tenancies
\* included, is one of the abstract promise.
ImplementsPromise == Promise!Spec

=============================================================================
