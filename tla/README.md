# TLA+ models of the exit-workflow implementations

The repository holds one study: the same feature, a tenant's exit from a lease
(hand in documents, inspection, damage, deposit refund, no-objection certificate),
written six times. Runs A1, A2 and A3 were written from a prose requirements
document (`inputs/group-A-srs`), runs B1, B2 and B3 from a specification kit
(`inputs/group-B-kit`: `states.yaml`, `rules.yaml`, `edges.yaml`, `algorithm.md`).
Rule and edge numbers cited below (EXIT-07, X-005, BR-1, T13, ...) are theirs.

The programs are ordinary services: HTTP handlers, hooks and scheduled jobs over one
PostgreSQL database, a payment gateway, a bucket of write-once objects and a message
broker. What is hard in them is what happens *between* transactions: concurrent
requests, answers that arrive late, jobs that race users, processes that die, outside
calls whose transaction is rolled back. That is what the modules here describe. All six
runs are modelled; the three B runs are shown to implement one abstract promise.

## Inventory

Each run has the same parts and draws its transaction boundaries differently, which is
why each has a module of its own and its own properties.

| Run | Parts that keep state | Where the boundaries are | What is hard |
| --- | --- | --- | --- |
| B3 `runs/B3/src/exit_workflow` | workflow service (`services/workflow.py`, `transitions.py`, `exit_lock.py`), outbox (`services/outbox.py`) | outside calls between transactions; the certificate's transaction calls the bucket while open | a late answer recorded over a newer one; a stored PDF whose transaction is lost; jobs racing users |
| B1 `runs/B1/exit_workflow` | services, repositories, dispatcher (`events/dispatcher.py`) | one transaction across all outside calls of a settlement or a dispatch | what a rolled-back transaction leaves outside; an edited deposit |
| B2 `runs/B2/exit_workflow` | services, notification dispatcher, settlement, NOC | many short transactions, nothing locked in between | any order of the short transactions of two settlements or two dispatches |
| A2 `runs/A2/app` | services, payout dispatch, webhooks, reconciler | a row lock for each command; the payout in a hook after the commit, its locks held over the gateway call | the payout's hook, sweep and webhook at once; rounds of inspection over five tables; batches read without a lock |
| A3 `runs/A3/exit_workflow` | services | one transaction for each request, the gateway called inside it | a rolled-back payout; keys and stored answers; repeated inspections |
| A1 `runs/A1/app` | services | one transaction for each request; three reads outside the row lock | superseded assignments, a disputed settlement, a rolled-back payment |

Operations, by run (each is an action, or several, of the run's module):

* B runs: initiate, notify the owner (dispatch, retry, give up), schedule inspection,
  submit report, confirm damage, settle (refund, certificate, completion), stall sweep;
  contracting asks a guard before it signs.
* A runs: initiate or draft, documents, submit, approve or reject, request inspection,
  offer and select slots, reschedule, report, dispute, adjust, re-inspect, finalise or
  approve the settlement, pay, certify, download, complete, cancel; in A2 also reopen,
  revoke, the reconciler's sweeps and the payment webhooks; in A3 also reconciliation
  of an unknown payout.

What makes the parts correct. State machine: an exit moves along its table, and where
there is an audit trail it shows the way. Exit: at most one for a contract, the
property's lock held from start to end and no longer. Inspection: the appointment, the
report and the charges belong to the round that is under way. Money: the right amount,
at most once, certificate only for money that moved. Messages: exclusion of
dispatchers, truth of SENT, giving up is reported, nobody is forgotten. Time: whatever
waits for a job, a lock or a retry gets on.

`inputs/` is requirements text, `scoring/` the study's yardstick and `archives/` zip
copies of the runs: none of them is a running system.

## The modules

| Module | What it is |
| --- | --- |
| `KitStates` | the state table of the kit, shared by the B runs; `Allowed` is the validation; what an audit trail looks like |
| `ExitPromise` | abstract specification: what the parties of a contract are promised |
| `B3Exit`, `B1Exit`, `B2Exit` | the three B services with their outside world; each implements `ExitPromise` |
| `B3Outbox` | B3's outbox with any number of dispatchers |
| `A1States`, `A2States`, `A3States` | tables, roles, and rules on dates, slots, documents and money of the A runs |
| `A1Exit`, `A3Exit` | the services of A1 and A3, payment included |
| `A2Exit` | A2's services and reconciler; a payout is one step that succeeds or fails |
| `A2Payout` | A2's payout between SETTLEMENT_PROCESSING and its outcome, in full |
| `B3Exit_proofs`, `B3Outbox_proofs`, `B1Exit_proofs`, `B2Exit_proofs`, `A1Exit_proofs`, `A2Exit_proofs`, `A2Payout_proofs`, `A3Exit_proofs` | theorems about the module of the same name, and their proofs |
| `MC...` | small instances for TLC, with the `.cfg` files beside them |

`ExitPromise` knows contracts and properties only: the status of a contract's exit,
who holds a property, whether the deposit is paid and whether a certificate exists.
A confirmed exit may be paid, then certified, then completed; payment and certificate
are allowed from DAMAGE_CONFIRMED on, because B3 and B2 record their steps one by one
and B1 all at once. `A2Payout` refines the two steps `ConfirmSettlement` and
`FailSettlement` of `A2Exit` by hand, not by a checked mapping: it has only the states
a payout can meet.

In all modules one action is one transaction, or the part of one up to an outside call
or a commit; a table column is a variable, an outside party (gateway, bucket, broker)
is a variable that no rollback changes. Requests the code refuses (authorisation,
validation, wrong state) change nothing and have no action.

### `B3Exit`

A request is a process with a program counter `pc[r]`, the workflow it works on
(`target`), the contract of an initiation (`claim`) and the gateway answer a settlement
carries (`answer`). `initiate` reads without a lock before it takes one, and the NOC
transaction calls the bucket while it is open (`Locked(w)`): each is two actions.

| Code | Action |
| --- | --- |
| `initiate`: reads, writes, unique violation | `InitiateCheck`, `InitiateInsert`, `InitiateRefused` |
| `notify_owner`, `recover_unnotified` | `NotifyOwner`, `RecoverUnnotified` |
| `schedule_inspection`, `submit_inspection_report`, `confirm_damage` | `ScheduleInspection`, `SubmitInspectionReport`, `ConfirmDamage` |
| `_create_or_get_refund`, both branches | `SettleCreate`, `SettleReenter` |
| `gateway.initiate_refund`, `_record_gateway_result` | `InitiateRefund`, `RecordGatewayResult` |
| `_issue_noc_and_complete` | `IssueRefused`, `IssueStore`, `IssueCommit` |
| `run_stall_sweep` | `RunStallSweep` |
| a death, a rollback, an outside call that raises | `Crash` |
| `assert_property_free_for_new_contract` | `AskGuard` |
| outside: signing, the window passes, the gateway finishes | `SignContract`, `WindowElapses`, `GatewaySettles` |

Dates are reduced to whether a workflow is past its window; the sweeps' row limits are
never reached; the branch that finds an existing NOC row is unreachable. The deposit is
a constant: a settlement reads the live contract (`workflow.py:609`), and edits of a
contract under way are left to `B1Exit`, which has them. `IdIsLeft` bounds the ids: an
initiation begins only while a free one is left for it.

The guard is a plain SELECT and the contracting module inserts later, so `AskGuard` and
`SignContract` are two steps (`cleared` between them) and anything may happen in
between; `seen`, a history variable, is which exits of the property were under way when
the guard was asked. `ExclusiveTenancy` says whether contracting signs only when the
exits of all other tenancies of the property are over; the build states neither.
`B1Exit` has the same two steps.

### `B3Outbox`

`LockEvent` (the background task's one event) or `LockDue` (all due rows) locks, each
`Publish` calls the broker, `Commit` writes all verdicts together. A crash forgets the
verdicts, never what the broker received. `B3Exit` has the state change of
`notify_owner` and `B3Outbox` the delivery: in the code they are separate transactions
without a common row.

### `B1Exit`

A request is at most one open transaction. What it has written so far is in the locals
`answer` and `ref`, and tables change only in `Hold`, `SettleCommit` and the
`Record...` actions. Row locks are `Locked(w)` and `EventHeld(w)`.

| Code | Action |
| --- | --- |
| `ExitInitiationService.initiate` and the route's commit | `Initiate` |
| `dispatch_event`, `dispatch_due`, `publish` | `DispatchEvent`, `DispatchSkipped`, `DispatchDue`, `Publish` |
| `_process` after `publish` | `RecordSent`, `RecordRetry`, `RecordDeadLetter` |
| `schedule_inspection`, `submit_report`, `confirm_damage`, `run_stall_scan` | `ScheduleInspection`, `SubmitReport`, `ConfirmDamage`, `StallScan` |
| `settle`, by outside call | `SettleCreate`, `SettleResume`, `SubmitRefund`, `SubmitFails`, `FetchStatus`, `FetchFails`, `Hold`, `StorePdf`, `SettleCommit` |
| a death, a rollback | `Crash` |
| `assert_property_contractable` | `AskGuard` |
| outside | `SignContract`, `EditDeposit`, `WindowElapses`, `GatewaySettles` |

The unique violation in `initiate` is unreachable behind the contract's row lock, the
branches of `settle` that resume in REFUND_PROCESSED or NOC_ISSUED are dead (no
transaction commits there: `RowsOK`, proved), and the backoff is time, so any PENDING
event may be due.

### `B2Exit`

Every short transaction and every outside call is an action; `pc`, `target`, `answer`
and `tries` are what a request carries between them. A workflow id stands for one exit,
so a contract may have several, one after the other; the lock is a flag on the property
that names nobody.

| Code | Action |
| --- | --- |
| `initiate` | `Initiate` |
| dispatch: read and publish, record success, record failure or give up | `Attempt`, `RecordSuccess`, `RecordFailure` |
| inspection, report, confirmation, stall sweep | `ScheduleInspection`, `SubmitReport`, `ConfirmDamage`, `StallOne` |
| settlement: ensure the payment row, read it, call, record, advance or hold | `EnsureCreates`, `EnsureFinds`, `ReadPayment`, `CallGateway`, `CallFails`, `RecordAnswer`, `Advance`, `Hold` |
| NOC: put the PDF (or be refused), rows, completion, lock release | `StorePdf`, `StoreRefused`, `IssueCommit` |
| a death, a rollback | `Crash` |

### `A2Exit` and `A2Payout`

Every command holds the workflow's row lock from its first read to its commit, so a
command is one action of `A2Exit` and writes all its tables (state, documents,
inspection, slots, report items and disputes, settlement lines and figures,
certificate). The reconciler reads a batch unlocked and commits later: `LoadDrafts`,
`ExpireDrafts`, `LoadIssued`, `CompleteIssued`, with `SweepFails` where a version check
rolls a batch back. Items carry the round they were reported in, and the code mixes
rounds in some commands, as the model does.

`A2Payout` takes the finalised settlement on: `PayDeposit` (with the replay of an
Idempotency-Key), the hook and `Redrive` both queue a dispatch; the dispatch takes
`LockWorkflow`, then `LockSettlement`, calls (`Answer`, or an error) and
`CommitDispatch`; a webhook takes the two rows the other way round (`Find`, `Handle`),
which may deadlock (`Victim`); `Ignore` is the 202 for a reference not yet stored.
`Mishaps` says what the gateway may do to a call: an error, a lost answer, a rejection
of a payout it has not made, or `"refused"`, a final refusal of one it has made: the
adapter takes every 4xx and every unknown status word for final
(`adapters/payments.py:107-112`, `155-158`), also on a redrive. `denied` remembers the
keys so refused.

### `A3Exit`

A command is one transaction and one action. A payment
with nothing to refund is `PayNothing`; one that calls the gateway ends in `PayAccepted`,
`PayDeclined`, `PayUnknown` or, rolled back after the call, `PayLost`, which changes the
gateway and nothing else. An answer counts as accepted when it is a 2xx whose status
is not FAILED (`integrations/payments.py:110-121`), so `moved` means that the gateway
took the payout on. Idempotency keys hold the answer given; the ten-step view `Steps` is a
function of the row, as in `domain/steps.py`.

### `A1Exit`

A command that locks the exit's row is one action; the three unlocked reads are
`CheckInitiate` before `Initiate`, `ClearContract` before `CreateContract`, and the
status that `ProposeSlots` writes back for an assignment it read before the lock.
`Close` is the end of `approve` and `pay`: it issues the certificate and passes through
SETTLED in one transaction. `PayLost` is a payment whose transaction is rolled back.
`moved` is the provider's record: the movement each key stands for, with its exit, leg
and amount, and a key it knows moves nothing again. `detour`, a history variable, is how
a report of a superseded assignment came to count.

## What the runs check

| Run | Instance | Distinct states | Question |
| --- | --- | --- | --- |
| `b3_succession` | 2 contracts on 1 property, 2 workflows, 3 requests, damage below and above the deposit; symmetry | 31,334 | locks, trail, money, refinement |
| `b3_jobs` | 2 contracts on 1 property whose tenancies may overlap, 1 workflow, 2 requests, fair jobs, settlements tried again | 4,251 | does everyone who waits get on, does a paid exit complete, what may a signing meet? |
| `b3_outbox` | 2 events, 2 dispatchers, 3 attempts, 2 crashes | 139,261 | exclusion, truth of SENT, reports, bounded calls; is every event settled? |
| `b1` | 2 contracts on 1 property, 2 requests, 2 attempts, 2 faults, an edited deposit | 68,208 | locks, records, money, payment rows, refinement, progress |
| `b2_transactions` | 2 contracts on 1 property, 2 workflows, 2 requests, 2 attempts, 2 faults | 138,605 | records, refinement, progress of a confirmed exit |
| `a2_rounds` | 1 exit, 2 rounds, 1 edit, disputes and payout failures | 376,478 | do five tables tell one story, is what is settled what was reviewed? |
| `a2_sweeps` | 2 exits of one tenant beside the reconciler, fair | 143,126 | one active exit, no live draft expired, certified exits completed |
| `a2_payout` | 1 exit, 2 keys, 2 amounts, errors, lost answers, rejections, refusals, fair | 27,424 | paid once, frozen meanwhile, certified only if paid, recorded in the end |
| `a3` | 2 exits of a contract, 2 keys, 2 attempts, 2 payouts; symmetry | 253,260 | inspection, payment, stored answers, steps, disputes |
| `a1` | 2 exits, 2 contracts on 1 property, 2 keys, 2 attempts; symmetry | 1,930,520 | settlement, figures, appointment, money |
| `b2_late_answer` | 1 exit, 2 requests, no faults | | *violated*: an exit past DAMAGE_CONFIRMED has a SUCCEEDED payment row |
| `a3_twice` | 1 exit, 2 keys, 2 payouts | | *violated*: money moves once |

Why the bounds are enough. Two contracts on one property is the smallest instance in
which an exit meets the lock of another, and a completed exit can be asked for again
while the next tenancy's exit holds it. Two requests race; the third of `b3_succession`
is left over from an earlier step. Damage or totals below, at and above the deposit
cover the branches of the arithmetic; the theorems cover the amounts. Two rounds or
attempts are the live one and a superseded one; two keys are a retry with the same and
one with a new key. Two faults lose a transaction after the gateway acted and another
after the bucket did. Retries return to `idle`, so behaviours are unbounded in length.
`MaxAttempts`, `MaxRounds`, `MaxEdits`, `MaxPayouts`, `MaxHour`, `MaxCrashes` and
`MaxFaults` are the only bounds that are not the code's; B's `MaxAttempts` is the
code's retry limit, made small.

Deadlock checking is off because every one of these systems may really come to rest:
all exits over or waiting for somebody, no request under way.

### Fairness

Users and contracting owe nothing anywhere, except where a name says so.

* `B3Exit!FairSpec`: a request being served goes on, the two jobs are on a scheduler
  ("Scheduled jobs" in B3's README). `FairSettlement` adds that the gateway finishes
  what it accepted, that somebody tries a settlement again, and that retries are not
  all killed at one point. Nothing in the code retries: the assumption is the caller's.
* `B3Outbox!FairSpec`: the sweep is scheduled, an open transaction goes on, delays pass.
* `B1Exit!FairSpec`: both jobs run again and again, as `stall.py` and `dispatcher.py`
  ask (nothing in the build starts them), an open transaction goes on, the gateway
  finishes. `FairSettlement` adds the retried settlement.
* `B2Exit!FairSpec`: a request goes on, the gateway finishes, a settlement that was
  held or died is asked for again.
* `A2Exit!FairSpec`: the reconciler's loop goes on (`workers/reconciler.py` starts it)
  and an idle draft grows old.
* `A2Payout!FairSpec`: the sweep goes on, a lock is granted in the order of the queue,
  the database aborts one side of a deadlock, the gateway ends what it began and
  redelivers a webhook until it is acknowledged, once at least between two dispatches.

### What the violated runs show

* `b2_late_answer` (`runs/B2/exit_workflow/services/settlement.py:239`): of two
  settlements the one told PENDING may record last. The row then says PENDING beside an
  exit in REFUND_PROCESSED, the NOC is refused, the gateway is asked only from
  DAMAGE_CONFIRMED, and the exit stays there, its property locked. The comment at 270
  says "the payment row carries the true status".
* `a3_twice` (`runs/A3/exit_workflow/services/settlement.py:309`): transaction row,
  status and Idempotency-Key share the transaction that calls the gateway. Rolled back
  after the call, all three are gone; the next click pays again under a new transaction
  id. `models/settlement.py:118` says a retry "can never produce a second transfer".

### What else the models showed

Each of these is the exception of a property that holds with it, or a guard's absence
that turned out harmless.

* B3: the PDF is stored, under a key that cannot be written twice, before its
  transaction commits; if the commit is lost, every later settlement is refused by the
  bucket and the exit stays in REFUND_PROCESSED (`PaidExitCompletesOrOrphans`,
  `OrphanStaysOne`). An old gateway answer may overwrite the row's SUCCEEDED
  (`workflow.py:676`); the certificate is safe, the row of a completed exit is not. The
  release of the lock does not look whose it is: harmless under exclusive tenancy only.
  `dispatch_event` does not look at `next_attempt_at`.
* B3 and B1: the lock "blocks new contracts on the property" (`exit_lock.py:3-5`,
  X-006) up to the guard's answer only. An initiation that commits between answer and
  signing is met by nobody; `MidExitOnlyByRace` says that this, and a lock column
  shared by two overlapping tenancies, are the only ways to sign mid-exit. A guard that
  read the row FOR UPDATE in the signing transaction would close the first. With
  exclusive tenancies nobody is left who could initiate in between, and `B1Exit`, which
  is run so, has no such property.
* B1: a submission that raised leaves a PENDING row, the retry asks for a refund the
  gateway may never have seen (`ExitsGoOn` names the exception); a certificate may name
  the payment id of a transaction that was rolled back, amount and key being right.
* B2: `Stranded` names two dead ends, and there is no third (`ConfirmedExitSettles`);
  neither has a way out (`DeadEndIsForGood`).
* A2: a webhook that comes before the dispatch has stored the reference is answered 202
  and dropped, and the payout stays PROCESSING (`PaidIsRecorded`); slots of earlier
  rounds stay selectable; a failing batch of drafts ends the reconciler's cycle before
  the certificates' turn (`IssuedIsCompleted`); a dispute of an earlier round
  blocks finalisation until it is resolved, though it charges nothing any more.
* A2: a 4xx or an unknown status on the redrive of a payout already made fails the
  settlement (`payout_dispatch.py:78-86`). The owner may then review again or cancel,
  while the money has moved; finalised at another amount and paid again, under the same
  key, the gateway replays the first payout and the exit is certified at the new amount.
  `PayingIsFrozen`, `CertifiedWasPaid` and `PaidIsRecorded` name just these keys
  (`denied`) as their exception.
* A3: that the view "can never drift" (`domain/steps.py:3-4`) is not so for the
  appointment. INSPECTION_SCHEDULING stays COMPLETE while the visit is REQUESTED or has
  proposals only, after a repeated inspection was ordered, an exit approved again, or a
  cancelled one given proposals (`Outdated` in `StepsAreBacked`).
* A3: an administrator may name any transaction of the settlement when reconciling;
  an exit that was cancelled still gets proposals. `approve` (`services/workflow.py:387`)
  looks at the table only, and the rows meant for a cancelled inspection let an owner
  approve again while an inspection is under way. The exit is then OWNER_APPROVED beside
  an active inspection: a new one is refused because of it, and neither scheduling nor
  reporting nor cancelling it is a transition from there (`ReapprovedIsStuck`).
* A1: "the latest attempt is the operative one" (`models/inspection.py:7-8`), and
  a re-inspection voids the settlement of the earlier one (`settlement_service.py:70-71`).
  A superseded report may be settled all the same, in two cases
  (`SettlesOperativeReport`, `detour`): its agency files it late, after the order for a
  new inspection, or a tenant disputes in INSPECTION_COMPLETED, which turns a VOID
  settlement into a DRAFT that can be approved and paid (`settlement_service.py:247-248`).
  A late request from DAMAGE_REVIEW leaves the old DRAFT standing.
* A1: a payment that is rolled back leaves its key free at the tables and used at the
  provider. Used again, for another leg, amount or exit, the provider replays the first
  movement and the table records the second as paid (`PaidIsFinal` names the case).

## What is proved

Every safety property the passing runs check is a theorem. All theorems hold for every
number of workflows, contracts, properties, requests, events, dispatchers, keys and
attempts and every amount, from the named assumptions on the constants (their types;
`Nobody` is no id and no stored answer; a damage report has finitely many lines). Every
inductive invariant was first checked as an invariant by TLC on the instance of its run.

Two facts about the kit's table come first in each B module: transitions climb
(`TransitionsClimb`), a path grows by a transition (`PathGrows`).

`B3Exit_proofs`. `IndInv`: `NocOnlyAfterPaid` is not inductive, because between the
gateway's answer and the PDF lie two transactions that other settlements interleave
with. `SucceededIsTrue` closes the gap, `RequestsOK` says what a request may rely on,
`RowsOK` and `RefundOK` which columns each state implies. `AuditInv`: rows form a path
only because no state is reached twice (`Climbs`). `LockInv`: whoever completes
releases its own lock because of two contracts on a property one is over (`TenancyOK`).
`LocksAreRight` assumes `ExclusiveTenancy`; `RecordsStayRight`, `MoneyComesFirst` and
`NeverASecondExit` assume nothing, and neither does `SigningMidExitIsARace`: an exit under
way that does not share its lock column holds it (`GuardOK`), so the guard saw it.

`ServiceKeepsPromise`, at the end, is the refinement under `ExclusiveTenancy`. The
mapping finds the exit of a contract with CHOOSE, which `OneExitPerContract` makes
unique; insert, gateway answers, PDF and last commit map to one action of the promise
each, every other move to `Advance`, the rest to a stutter. `OrphanStaysOne` proves the
other branch of a liveness property: an exit whose stored PDF lost its transaction never
leaves REFUND_PROCESSED.

`B3Outbox_proofs`: one invariant. `AttemptsOK` relates the row's attempts, the broker's
calls and the crashes, and bounds the calls; `VerdictsOK` says an uncommitted verdict is
about a row that is held and is true. Result: `OutboxStaysRight`.

`B1Exit_proofs`: the plan of B3 with B1's invariants. `RequestsExclude` (an open
settlement is alone on its workflow) lets `RequestsOK` carry facts across an outside
call. A settlement adds three audit rows in one step, so the path grows three times.
Results: locks, records, money, payment rows, refinement.

`B2Exit_proofs`: `RequestsOK` holds although nothing is locked between the short
transactions, because each fact is about something that no other request takes back (a
paid refund, a published message); the only lock that matters is that of the last
transaction (`LockOK`). The payment row has no part in the invariant: what the code
says of it does not hold (`b2_late_answer`). `TenancyOK` is proved, not assumed, as a
contract of B2 ends only after its exit. Results: `RecordsStayRight`,
`NobodyStaysForgotten`, `ServiceKeepsPromise`; and `OrderlyRowIsTrue`, which finds the
one cause of `b2_late_answer`: where no settlement asks the gateway while another's
answer for the same exit is unrecorded (`Orderly`), the row says what the comment
claims, deaths and failed calls included. `DeadEndIsForGood`: no step of anybody takes
an exit out of the two dead ends.

`A2Payout_proofs`: `KeysOK` (a settlement owns its key for good) alone gives `PaysOnce`,
whatever the gateway answers. `DispatchOK` says what the answer of a call in flight is
worth while webhooks and the other dispatcher go on, `WebhooksOK` that an event in
flight is true of the settlement whose rows are locked. `PaymentFreezes` and
`CertificateMeansPaid` hold for every answer of the gateway as well, with the keys in
`denied` as their exception: a refusal adds its key in the step that fails the
settlement, so until then nothing is lost.

`A1Exit_proofs`: `OwedOK` is the point. Of the two legs of a settlement at most one is
owed (`Figuring`, by arithmetic), a payable settlement waits for exactly that leg, so
the first payment closes it and nothing can come between money and certificate.
`RowsOK` says a settlement belongs to a row whose contract no longer changes, `VisitsOK`
that assignments form a sequence to which old ones are never lost. Results:
`SettlementFollows`, `SettlesOperative`, `AppointmentHolds`, `MoneyIsFinal`.

`A3Exit_proofs`: `LedgerOK` is the point of the stored answers. A key without a record
has no row in any ledger, one with a record owns exactly one, which keeps its key when a
reconciliation rewrites it; `AnswersHold` alone does not say that an unused key is free
of rows, and is not inductive. `SettlementOK` ties the settlement to the final report
and to the last statuses, so that an inspection repeated after a release never meets
one; `MarksOK` says which progress columns a status implies, which the ten-step view
needs. Results: `InspectionFollows`, `PaymentIsTrue`, `StoredAnswersHold`,
`ViewIsBacked`, `DisputesHold`. `CarefulPaysOnce` finds the causes of `a3_twice`: without
a payment rolled back after its call and without a reconciliation that fails a row
which is not PENDING (`Careful`), money moves once, because what a settlement in doubt
may have moved is what its one pending row asked for (`InDoubtOK`). `ReapprovedIsStuck`
is about a guard that is missing, see "What else the models showed".

`A2Exit_proofs`: seven of the ten parts of `IndInv` are the properties and their types.
What they rest on: an exit that was never approved has neither report nor appointment
(`FreshOK`), or an approval would hand the agency an old one; a batch of drafts whose
rows nobody wrote since it was read still consists of idle drafts (`SweepOK`), which
is what lets the sweep commit what it read unlocked; items are finitely many
(`RowsOK`). Results: `OneIsActive`, `TablesFollow`, `ReportIsCurrent`,
`AppointmentHolds`, `ChargesHold`, `DisputesSettled`, `ExpiryIsOfIdle`.

In both, amounts are sums over a set of lines by the fold of the community modules,
whose recursive definition has to be shown to have a value. That is an induction over
finite sets. The library's induction rule takes an operator, which the provers cannot
instantiate, so the proof takes a smallest set without a sum (the subset ordering of a
finite set is well-founded) and contradicts it (`Smallest`, `SumsExist`, then
`AssessedIsNat` and `TotalIsNat`).

Only model-checked: liveness (`NobodyWaitsForEver`, `PaidExitCompletesOrOrphans`,
`EveryEventSettles`, `ExitsGoOn`, `ConfirmedExitSettles`, `IssuedIsCompleted`,
`PaidIsRecorded`), which is beyond the prover, and the two counterexamples. That a sum
is the *right* number is the definition of the fold; proved is that it is an amount.

## Not modelled

* HTTP layers, identity, rendering, configuration, migrations' DDL beyond the unique
  constraints: no state of an exit.
* The outbox relays of A1, A2 and A3: they publish events nothing in the service reads
  back; `B3Outbox`, `B1Exit` and `B2Exit` model relays whose outcome matters.
* The five-digit sequence of B3's ids at its end, a refund that fails for good, the
  missing way out of STALLED: the builds and the kit leave them open.
* A race of signing and initiating in A1 beyond what the unique indexes decide: the code
  promises no order.

## Plan

Done: B3, B1, B2, A2, A3, A1 with the runs above; proofs for every module with state.
Next, in this order:

1. The mapping of `A2Payout` onto the two payout steps of `A2Exit` as a checked
   refinement, instead of by hand.
2. Larger instances of `a2_payout` (two exits sharing keys) and `a3` (two contracts).
