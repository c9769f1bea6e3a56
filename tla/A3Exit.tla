------------------------------- MODULE A3Exit -------------------------------
(***************************************************************************)
(* Run A3: the exit from initiation to the certificate over its PostgreSQL *)
(* tables, with the inspection attempts, the damage report, the            *)
(* settlement and the payout.                                              *)
(*                                                                         *)
(* One transaction per request (db_session), and every command locks the   *)
(* workflow's row before it reads anything else, so a command is one       *)
(* action and commands that are refused have none.  The gateway is called  *)
(* inside that transaction: what a rollback undoes in the tables it does   *)
(* not undo at the gateway (PayLost).                                      *)
(***************************************************************************)
EXTENDS A3States, FiniteSetsExt

CONSTANTS
  Workflows,          \* ids of exits
  Contracts, PropertyOf, TenantOf, DepositOf,
  Days,               \* move-out dates asked for, in days from today
  MinNotice, Horizon, \* settings.min_notice_days, max_move_out_horizon_days
  DocTypes,           \* document types uploaded
  Required,           \* settings.required_document_types
  Hours, Lead,        \* times of slots; inspection_slot_min_lead_hours
  Reports,            \* sets of lines <<n, amount, liable>>
  Waivers,            \* deductions the owner may enter
  AllowAbove,         \* settings.allow_deduction_above_deposit
  Keys,               \* Idempotency-Key values
  MaxAttempts,        \* bound on inspection attempts of an exit
  MaxPayouts,         \* bound on gateway calls of an exit
  MaxHour,            \* bound on the clock
  Nobody              \* NULL

ASSUME A3ExitAssumption ==
  /\ DepositOf \in [Contracts -> Nat]
  /\ \A S \in Reports : IsFiniteSet(S) /\ S \subseteq Nat \X Nat \X BOOLEAN
  /\ Waivers \subseteq Nat
  /\ Hours \subseteq Nat
  /\ Lead \in Nat
  /\ MaxAttempts \in Nat
  /\ MaxPayouts \in Nat
  /\ MaxHour \in Nat
  /\ Nobody \notin Contracts \cup Nat \cup Workflows

VARIABLES
  status,     \* exit_workflow.status; "none": no such row
  contract,   \* exit_workflow.contract_id
  docs,       \* types of the exit_document rows
  marks,      \* progress columns of exit_workflow that are not NULL
  attempt,    \* inspection.attempt_no of the latest attempt
  visit,      \* inspection.status of the latest attempt; earlier ones are over
  offered,    \* hours of its slots that are PROPOSED
  picked,     \* hour of its slot that is SELECTED
  report,     \* the latest damage_report
  settlement, \* settlement.status; "none": no such row
  figures,    \* amounts of the settlement
  ledger,     \* payment_transaction
  minted,     \* payout requests made, those of lost transactions included
  moved,      \* the gateway: requests it took on, and pays
  keys,       \* idempotency_record: the exit and the answer stored
  noc,        \* exit_noc: "none", "valid" or "revoked"
  certified,  \* amounts frozen on the certificate
  now         \* the clock

request == <<contract, docs>>
inspecting == <<attempt, visit, offered, picked>>
money == <<settlement, figures, ledger, keys>>
gateway == <<minted, moved>>
certificate == <<noc, certified>>
vars ==
  <<status, request, marks, inspecting, report, money, gateway, certificate,
    now>>

Figures == [deposit : Nat, deduction : Nat, refund : Nat, due : Nat]
NoFigures == Breakdown(0, 0)

ReportRows ==
  [attempt : Nat, status : ReportStatuses, assessed : Nat,
   final : Nat \cup {Nobody}]
NoReport == [attempt |-> 0, status |-> "none", assessed |-> 0, final |-> Nobody]

Payments == [tx : Nat \ {0}, key : Keys, status : PaymentStatuses]
Answers == [of : Workflows, answer : {"paid", "declined", "unknown"}]
\* A key without a record holds no answer.
ASSUME KeysAssumption == Nobody \notin Answers

Marks ==
  {"submitted", "scheduled", "reviewed", "settled", "issued", "downloaded",
   "completed"}

Init ==
  /\ status = [w \in Workflows |-> "none"]
  /\ contract = [w \in Workflows |-> Nobody]
  /\ docs = [w \in Workflows |-> {}]
  /\ marks = [w \in Workflows |-> {}]
  /\ attempt = [w \in Workflows |-> 0]
  /\ visit = [w \in Workflows |-> "none"]
  /\ offered = [w \in Workflows |-> {}]
  /\ picked = [w \in Workflows |-> Nobody]
  /\ report = [w \in Workflows |-> NoReport]
  /\ settlement = [w \in Workflows |-> "none"]
  /\ figures = [w \in Workflows |-> NoFigures]
  /\ ledger = [w \in Workflows |-> {}]
  /\ minted = [w \in Workflows |-> 0]
  /\ moved = [w \in Workflows |-> {}]
  /\ keys = [k \in Keys |-> Nobody]
  /\ noc = [w \in Workflows |-> "none"]
  /\ certified = [w \in Workflows |-> NoFigures]
  /\ now = 0

-----------------------------------------------------------------------------
\* apply_transition, asked for by one of the roles the service lets through.
Enter(w, to, roles) ==
  /\ \E role \in roles \cup Admins : May(status[w], to, role)
  /\ status' = [status EXCEPT ![w] = to]

Mark(w, m) == marks' = [marks EXCEPT ![w] = @ \cup m]

Active(w) == status[w] \in ActiveStatuses

\* What check_contract_creation answers, and what the partial unique indexes
\* repeat at the insert.
FreeProperty(p) ==
  \A w \in Workflows : Active(w) => PropertyOf[contract[w]] # p
FreeTenant(t) ==
  \A w \in Workflows : Active(w) => TenantOf[contract[w]] # t
FreeContract(c) == \A w \in Workflows : Active(w) => contract[w] # c

Eligible(c) == FreeProperty(PropertyOf[c]) /\ FreeTenant(TenantOf[c])

-----------------------------------------------------------------------------
\* services/workflow.py

\* A tenant; the answer of the check may be out of date at the insert, which
\* the indexes then refuse, so both are read here.
Initiate(w, c, days) ==
  /\ status[w] = "none"
  /\ MoveOutAccepted(days, MinNotice, Horizon)
  /\ Eligible(c)
  /\ FreeContract(c)
  /\ status' = [status EXCEPT ![w] = "INITIATED"]
  /\ contract' = [contract EXCEPT ![w] = c]
  /\ UNCHANGED <<docs, marks, inspecting, report, money, gateway,
                 certificate, now>>

Upload(w, type) ==
  /\ Active(w)
  /\ \E role \in Roles : type \in Uploadable(role)
  /\ docs' = [docs EXCEPT ![w] = @ \cup {type}]
  /\ UNCHANGED <<status, contract, marks, inspecting, report, money, gateway,
                 certificate, now>>

Submit(w) ==
  /\ Required \subseteq docs[w]
  /\ Enter(w, "PENDING_OWNER_APPROVAL", {"TENANT"})
  /\ Mark(w, {"submitted"})
  /\ UNCHANGED <<request, inspecting, report, money, gateway, certificate,
                 now>>

\* Every row of the table that leads to OWNER_APPROVED will do, also the ones
\* meant for a cancelled inspection and for a re-inspection.
Approve(w) ==
  /\ Enter(w, "OWNER_APPROVED", {"OWNER"})
  /\ UNCHANGED <<request, marks, inspecting, report, money, gateway,
                 certificate, now>>

Reject(w) ==
  /\ Enter(w, "REJECTED", {"OWNER"})
  /\ UNCHANGED <<request, marks, inspecting, report, money, gateway,
                 certificate, now>>

\* The inspection, the settlement and a payout in flight stay as they are.
Cancel(w) ==
  /\ Enter(w, "CANCELLED", {"TENANT", "OWNER"})
  /\ UNCHANGED <<request, marks, inspecting, report, money, gateway,
                 certificate, now>>

-----------------------------------------------------------------------------
\* services/inspection.py

RequestInspection(w) ==
  /\ visit[w] \notin ActiveVisits
  /\ attempt[w] < MaxAttempts
  /\ Enter(w, "INSPECTION_REQUESTED", {"OWNER"})
  /\ attempt' = [attempt EXCEPT ![w] = @ + 1]
  /\ visit' = [visit EXCEPT ![w] = "REQUESTED"]
  /\ offered' = [offered EXCEPT ![w] = {}]
  /\ picked' = [picked EXCEPT ![w] = Nobody]
  /\ UNCHANGED <<request, marks, report, money, gateway, certificate, now>>

\* Mutant of Releases: the appointment is dropped, the workflow is not told.
ReleasesNever(w) == FALSE

\* The agency goes back on an appointment.
Releases(w) == visit[w] = "SCHEDULED" /\ status[w] = "INSPECTION_SCHEDULED"

\* Supersedes every slot on the table; only the inspection is looked at, so
\* this goes on after the exit is cancelled.
ProposeSlots(w, hours) ==
  /\ visit[w] \in ActiveVisits
  /\ hours # {}
  /\ \A h \in hours : SlotAccepted(h, now, Lead)
  /\ visit' = [visit EXCEPT ![w] = "SLOTS_PROPOSED"]
  /\ offered' = [offered EXCEPT ![w] = hours]
  /\ picked' = [picked EXCEPT ![w] = Nobody]
  /\ IF Releases(w)
     THEN /\ Enter(w, "INSPECTION_REQUESTED", {"INSPECTION_AGENCY"})
          /\ marks' = [marks EXCEPT ![w] = @ \ {"scheduled"}]
     ELSE UNCHANGED <<status, marks>>
  /\ UNCHANGED <<request, attempt, report, money, gateway, certificate, now>>

Schedule(w, h) ==
  /\ visit[w] = "SLOTS_PROPOSED"
  /\ h \in offered[w]
  /\ h > now
  /\ Enter(w, "INSPECTION_SCHEDULED", {"TENANT", "OWNER"})
  /\ visit' = [visit EXCEPT ![w] = "SCHEDULED"]
  /\ offered' = [offered EXCEPT ![w] = {}]
  /\ picked' = [picked EXCEPT ![w] = h]
  /\ Mark(w, {"scheduled"})
  /\ UNCHANGED <<request, attempt, report, money, gateway, certificate, now>>

CancelInspection(w) ==
  /\ visit[w] \in ActiveVisits
  /\ Enter(w, "OWNER_APPROVED", {"OWNER", "INSPECTION_AGENCY"})
  /\ visit' = [visit EXCEPT ![w] = "CANCELLED"]
  /\ offered' = [offered EXCEPT ![w] = {}]
  /\ picked' = [picked EXCEPT ![w] = Nobody]
  /\ marks' = [marks EXCEPT ![w] = @ \ {"scheduled"}]
  /\ UNCHANGED <<request, attempt, report, money, gateway, certificate, now>>

Assessed(lines) == MapThenSumSet(LAMBDA l : l[2], LiableLines(lines))

\* Two transitions in one request; the appointed hour need not have come.
SubmitDamageReport(w, lines) ==
  /\ visit[w] = "SCHEDULED"
  /\ \E role \in {"INSPECTION_AGENCY"} \cup Admins :
       May(status[w], "INSPECTION_COMPLETED", role)
  /\ MaySystem("INSPECTION_COMPLETED", "DAMAGE_REVIEW")
  /\ status' = [status EXCEPT ![w] = "DAMAGE_REVIEW"]
  /\ visit' = [visit EXCEPT ![w] = "COMPLETED"]
  /\ report' = [report EXCEPT ![w] =
       [attempt |-> attempt[w], status |-> "SUBMITTED",
        assessed |-> Assessed(lines), final |-> Nobody]]
  /\ UNCHANGED <<request, marks, attempt, offered, picked, money, gateway,
                 certificate, now>>

ReviewOpen(w) ==
  /\ status[w] = "DAMAGE_REVIEW"
  /\ report[w].status \in {"SUBMITTED", "ACKNOWLEDGED"}

TenantReview(w, verdict) ==
  /\ ReviewOpen(w)
  /\ report' = [report EXCEPT ![w].status = verdict]
  /\ UNCHANGED <<status, request, marks, inspecting, money, gateway,
                 certificate, now>>

\* The owner or an administrator, whatever the status of the exit.
ResolveDispute(w) ==
  /\ report[w].status = "DISPUTED"
  /\ report' = [report EXCEPT ![w].status = "DISPUTE_RESOLVED"]
  /\ UNCHANGED <<status, request, marks, inspecting, money, gateway,
                 certificate, now>>

-----------------------------------------------------------------------------
\* services/settlement.py

\* Mutant of ReadyForSettlement: an open dispute does not hold the deposit.
ReadyUnlessFinal(w) == report[w].status \notin {"none", "FINALIZED"}

ReadyForSettlement(w) ==
  report[w].status \notin {"none", "DISPUTED", "FINALIZED"}

FinalizeDeduction(w, final) ==
  /\ ReadyForSettlement(w)
  /\ AdjustmentAccepted(report[w].assessed, final)
  /\ AllowAbove \/ final <= DepositOf[contract[w]]
  /\ settlement[w] # "PAID"
  /\ Enter(w, "SETTLEMENT_PENDING", {"OWNER"})
  /\ report' = [report EXCEPT ![w].status = "FINALIZED", ![w].final = final]
  /\ settlement' = [settlement EXCEPT ![w] = "PENDING"]
  /\ figures' = [figures EXCEPT ![w] =
       Breakdown(DepositOf[contract[w]], final)]
  /\ Mark(w, {"reviewed"})
  /\ UNCHANGED <<request, inspecting, ledger, keys, gateway, certificate, now>>

\* Mutant of Milestones: the certificate's, without the settlement's.
MilestonesOfNoc == {"issued", "completed"}

Milestones == {"settled", "issued", "completed"}

\* _complete and NocService.issue: three transitions, the certificate and
\* the end of the exit, in the transaction of the payment.
Complete(w) ==
  /\ \E role \in {"OWNER"} \cup Admins :
       May(status[w], "SETTLEMENT_COMPLETED", role)
  /\ MaySystem("SETTLEMENT_COMPLETED", "NOC_ISSUED")
  /\ MaySystem("NOC_ISSUED", "COMPLETED")
  /\ noc[w] = "none"
  /\ status' = [status EXCEPT ![w] = "COMPLETED"]
  /\ settlement' = [settlement EXCEPT ![w] = "PAID"]
  /\ noc' = [noc EXCEPT ![w] = "valid"]
  /\ certified' = [certified EXCEPT ![w] = figures[w]]
  /\ Mark(w, Milestones)

MayPay(w) ==
  /\ status[w] = "SETTLEMENT_PENDING"
  /\ settlement[w] \notin {"PAID", "PROCESSING"}

\* A payment request under a key that has no record yet; one that has is
\* answered from the record and changes nothing.
Fresh(w, k) == keys[k] = Nobody /\ minted[w] < MaxPayouts /\ MayPay(w)

\* transaction.id, made by the request.
NextTx(w) == minted[w] + 1

\* Mutant of Remembered: a request that failed is forgotten under its key.
RememberedIfPaid(answer) == answer = "paid"

\* store() is reached by every answer that is not an exception, and a
\* declined or unknown payout is not one.
Remembered(answer) == answer \in {"paid", "declined", "unknown"}

Attempt(w, k, outcome, answer) ==
  /\ minted' = [minted EXCEPT ![w] = NextTx(w)]
  /\ ledger' = [ledger EXCEPT ![w] =
       @ \cup {[tx |-> NextTx(w), key |-> k, status |-> outcome]}]
  /\ keys' = IF Remembered(answer)
             THEN [keys EXCEPT ![k] = [of |-> w, answer |-> answer]]
             ELSE keys

Transfer(w) == moved' = [moved EXCEPT ![w] = @ \cup {NextTx(w)}]

\* The damage took the whole deposit: the gateway is not called.
PayNothing(w, k) ==
  /\ Fresh(w, k)
  /\ figures[w].refund = 0
  /\ Attempt(w, k, "SUCCEEDED", "paid")
  /\ Complete(w)
  /\ UNCHANGED <<request, inspecting, report, figures, moved, now>>

\* Any 2xx that does not say FAILED; the money may still be on its way.
PayAccepted(w, k) ==
  /\ Fresh(w, k)
  /\ figures[w].refund > 0
  /\ Attempt(w, k, "SUCCEEDED", "paid")
  /\ Transfer(w)
  /\ Complete(w)
  /\ UNCHANGED <<request, inspecting, report, figures, now>>

PayDeclined(w, k) ==
  /\ Fresh(w, k)
  /\ figures[w].refund > 0
  /\ Attempt(w, k, "FAILED", "declined")
  /\ settlement' = [settlement EXCEPT ![w] = "PENDING"]
  /\ UNCHANGED <<status, request, marks, inspecting, report, figures, moved,
                 certificate, now>>

\* No answer, or a 5xx: the money may have moved or not, and the request
\* commits that nobody knows.
PayUnknown(w, k) ==
  /\ Fresh(w, k)
  /\ figures[w].refund > 0
  /\ Attempt(w, k, "PENDING", "unknown")
  /\ Transfer(w) \/ UNCHANGED moved
  /\ settlement' = [settlement EXCEPT ![w] = "PROCESSING"]
  /\ UNCHANGED <<status, request, marks, inspecting, report, figures,
                 certificate, now>>

\* The gateway moved the money and the transaction rolls back: the process
\* dies, the certificate cannot be stored, the body of the answer cannot be
\* parsed.  The ledger's row and the key's record go with it.
PayLost(w, k) ==
  /\ Fresh(w, k)
  /\ figures[w].refund > 0
  /\ minted' = [minted EXCEPT ![w] = NextTx(w)]
  /\ Transfer(w)
  /\ UNCHANGED <<status, request, marks, inspecting, report, money,
                 certificate, now>>

\* Mutant of Reconciles: also a settlement that is not in doubt.
ReconcilesAny(w, r) == r \in ledger[w]

\* The administrator names any transaction of the settlement and says what
\* the gateway tells of it; it need not be the one in doubt.
Reconciles(w, r) == settlement[w] = "PROCESSING" /\ r \in ledger[w]
Resolve(w, r, outcome) ==
  ledger' = [ledger EXCEPT ![w] =
    (@ \ {r}) \cup {[r EXCEPT !.status = outcome]}]

ReconcilePaid(w, r) ==
  /\ Reconciles(w, r)
  /\ r.tx \in moved[w]
  /\ Resolve(w, r, "SUCCEEDED")
  /\ Complete(w)
  /\ UNCHANGED <<request, inspecting, report, figures, keys, gateway, now>>

ReconcileFailed(w, r) ==
  /\ Reconciles(w, r)
  /\ r.tx \notin moved[w]
  /\ Resolve(w, r, "FAILED")
  /\ settlement' = [settlement EXCEPT ![w] = "PENDING"]
  /\ UNCHANGED <<status, request, marks, inspecting, report, figures, keys,
                 gateway, certificate, now>>

-----------------------------------------------------------------------------
\* services/noc.py

Download(w) ==
  /\ noc[w] = "valid"
  /\ Mark(w, {"downloaded"})
  /\ UNCHANGED <<status, request, inspecting, report, money, gateway,
                 certificate, now>>

Revoke(w) ==
  /\ noc[w] = "valid"
  /\ noc' = [noc EXCEPT ![w] = "revoked"]
  /\ UNCHANGED <<status, request, marks, inspecting, report, money, gateway,
                 certified, now>>

Tick ==
  /\ now < MaxHour
  /\ now' = now + 1
  /\ UNCHANGED <<status, request, marks, inspecting, report, money, gateway,
                 certificate>>

-----------------------------------------------------------------------------
\* The routes of api/v1.

Requesting(w) ==
  \/ \E c \in Contracts, d \in Days : Initiate(w, c, d)
  \/ \E type \in DocTypes : Upload(w, type)
  \/ Submit(w) \/ Approve(w) \/ Reject(w) \/ Cancel(w)

Inspecting(w) ==
  \/ RequestInspection(w)
  \/ \E hours \in SUBSET Hours : ProposeSlots(w, hours)
  \/ \E h \in Hours : Schedule(w, h)
  \/ CancelInspection(w)
  \/ \E lines \in Reports : SubmitDamageReport(w, lines)
  \/ \E verdict \in {"ACKNOWLEDGED", "DISPUTED"} : TenantReview(w, verdict)
  \/ ResolveDispute(w)

Settling(w) ==
  \/ \E final \in Waivers \cup {report[w].assessed} :
       FinalizeDeduction(w, final)
  \/ \E k \in Keys :
       \/ PayNothing(w, k) \/ PayAccepted(w, k) \/ PayDeclined(w, k)
       \/ PayUnknown(w, k) \/ PayLost(w, k)
  \/ \E r \in ledger[w] : ReconcilePaid(w, r) \/ ReconcileFailed(w, r)

Certifying(w) == Download(w) \/ Revoke(w)

Next ==
  \/ \E w \in Workflows :
       Requesting(w) \/ Inspecting(w) \/ Settling(w) \/ Certifying(w)
  \/ Tick

Spec == Init /\ [][Next]_vars

-----------------------------------------------------------------------------
\* domain/steps.py: the ten-step view, derived from the row at every read.
Halted(w) == status[w] \in {"CANCELLED", "REJECTED"}

Step(w, complete, running) ==
  IF complete THEN "COMPLETE"
  ELSE IF Halted(w) THEN "BLOCKED"
  ELSE IF running THEN "IN_PROGRESS" ELSE "PENDING"

Steps(w) ==
  [OWNER_NOTIFICATION |->
     Step(w, "submitted" \in marks[w], status[w] = "INITIATED"),
   INSPECTION_SCHEDULING |->
     Step(w, "scheduled" \in marks[w],
          status[w] \in {"OWNER_APPROVED", "INSPECTION_REQUESTED"}),
   DAMAGE_REVIEW |->
     Step(w, "reviewed" \in marks[w],
          status[w] \in {"INSPECTION_SCHEDULED", "INSPECTION_COMPLETED",
                         "DAMAGE_REVIEW"}),
   DEPOSIT_REFUND |->
     Step(w, "settled" \in marks[w], status[w] = "SETTLEMENT_PENDING"),
   NOC_DOWNLOAD |->
     Step(w, "downloaded" \in marks[w], "issued" \in marks[w]),
   WORKFLOW_COMPLETION |-> Step(w, "completed" \in marks[w], FALSE)]

-----------------------------------------------------------------------------
TypeOK ==
  /\ status \in [Workflows -> Statuses \cup {"none"}]
  /\ contract \in [Workflows -> Contracts \cup {Nobody}]
  /\ docs \in [Workflows -> SUBSET DocTypes]
  /\ marks \in [Workflows -> SUBSET Marks]
  /\ attempt \in [Workflows -> 0 .. MaxAttempts]
  /\ visit \in [Workflows -> VisitStatuses \cup {"none"}]
  /\ offered \in [Workflows -> SUBSET Hours]
  /\ picked \in [Workflows -> Hours \cup {Nobody}]
  /\ report \in [Workflows -> ReportRows \cup {NoReport}]
  /\ settlement \in [Workflows -> SettlementStatuses \cup {"none"}]
  /\ figures \in [Workflows -> Figures]
  /\ \A w \in Workflows : ledger[w] \subseteq Payments
  /\ minted \in [Workflows -> 0 .. MaxPayouts]
  /\ \A w \in Workflows : moved[w] \subseteq 1 .. MaxPayouts
  /\ keys \in [Keys -> Answers \cup {Nobody}]
  /\ noc \in [Workflows -> {"none", "valid", "revoked"}]
  /\ certified \in [Workflows -> Figures]
  /\ now \in 0 .. MaxHour

\* An exit that waits for its inspection, or reviews it, has the inspection,
\* the slot and the report that go with it, of the latest attempt, however
\* often appointments were released, cancelled and inspections repeated; all
\* rows typed.
InspectionAgrees ==
  /\ TypeOK
  /\ \A w \in Workflows :
       /\ status[w] = "INSPECTION_REQUESTED" =>
            visit[w] \in {"REQUESTED", "SLOTS_PROPOSED"}
       /\ status[w] = "INSPECTION_SCHEDULED" =>
            visit[w] = "SCHEDULED" /\ picked[w] # Nobody
       /\ status[w] \in {"DAMAGE_REVIEW", "SETTLEMENT_PENDING", "COMPLETED"} =>
            visit[w] = "COMPLETED" /\ report[w].attempt = attempt[w]

\* An open dispute holds the deposit: no step settles or pays an exit whose
\* report is disputed, nor is a report disputed once it is settled, however
\* the tenant's answer and the owner's finalisation fall together
\* (inspection.py:709).
DisputeHoldsDeposit ==
  [][\A w \in Workflows :
       report[w].status = "DISPUTED" =>
         settlement'[w] = "none" /\ minted'[w] = 0]_vars

\* PAID, COMPLETED and the certificate are one: what the tables call paid was
\* taken on by the gateway in a request of theirs or there was nothing to
\* transfer, and the certificate shows the figures that were paid
\* (NocService.issue).
PaidIsTrue ==
  \A w \in Workflows :
    /\ settlement[w] = "PAID" <=> status[w] = "COMPLETED"
    /\ settlement[w] = "PAID" <=> noc[w] # "none"
    /\ settlement[w] = "PAID" =>
         /\ certified[w] = figures[w]
         /\ \/ figures[w].refund = 0
            \/ \E r \in ledger[w] : r.status = "SUCCEEDED" /\ r.tx \in moved[w]

\* Whatever an answer stored under a key said stays true: "paid" of a paid
\* settlement only, and each key has exactly one row in the ledger of the
\* exit it was used for.
AnswersHold ==
  \A k \in Keys : keys[k] # Nobody =>
    LET w == keys[k].of IN
    /\ keys[k].answer = "paid" => settlement[w] = "PAID"
    /\ Quantify(ledger[w], LAMBDA r : r.key = k) = 1
    /\ \A v \in Workflows \ {w} : \A r \in ledger[v] : r.key # k

\* The mark of an appointment that is gone.  Only a release from
\* INSPECTION_SCHEDULED and a cancelled inspection clear it (inspection.py:291,
\* 452): it survives an approval for a re-inspection, and new proposals after an
\* approval out of turn or after the exit was cancelled.
Outdated(w) ==
  /\ visit[w] \in {"REQUESTED", "SLOTS_PROPOSED"}
  /\ \/ report[w].attempt \in 1 .. attempt[w] - 1
     \/ status[w] \in {"OWNER_APPROVED", "CANCELLED"}

\* steps.py:3 "can never drift": a step shown COMPLETE is backed by the table
\* of its service, and where the table says it is done the step is shown; the
\* one step that does drift is the appointment's, in the cases of Outdated.
StepsAreBacked ==
  \A w \in Workflows :
    LET Done(s) == Steps(w)[s] = "COMPLETE" IN
    /\ Done("OWNER_NOTIFICATION") => status[w] \notin {"none", "INITIATED"}
    /\ status[w] \notin {"none", "INITIATED", "CANCELLED"} =>
         Done("OWNER_NOTIFICATION")
    /\ Done("INSPECTION_SCHEDULING") =>
         visit[w] \in {"SCHEDULED", "COMPLETED"} \/ Outdated(w)
    /\ visit[w] = "SCHEDULED" => Done("INSPECTION_SCHEDULING")
    /\ Done("DAMAGE_REVIEW") <=> settlement[w] # "none"
    /\ Done("DEPOSIT_REFUND") <=> settlement[w] = "PAID"
    /\ Done("NOC_DOWNLOAD") => noc[w] # "none"
    /\ Done("WORKFLOW_COMPLETION") <=> status[w] = "COMPLETED"
    /\ status[w] = "COMPLETED" => Done("INSPECTION_SCHEDULING")

\* models/settlement.py:118: a retried "Pay Deposit" never produces a second
\* transfer; payments.py:3: a retry re-attaches to the original transfer.
MoneyMovesOnce ==
  \A w \in Workflows : Cardinality(moved[w]) <= 1

=============================================================================
