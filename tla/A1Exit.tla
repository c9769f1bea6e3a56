------------------------------- MODULE A1Exit -------------------------------
(***************************************************************************)
(* Run A1: the exit from initiation to the certificate, with its           *)
(* inspection assignments, the damage report, the settlement and its       *)
(* payment, and the contract guard of BR-1.                                *)
(*                                                                         *)
(* One transaction per request (get_session).  A command that changes an   *)
(* exit locks its row first, so it is one action, and a refused one has    *)
(* none.  Three things are read outside that lock: the BR-1 checks of an   *)
(* initiation and of a new contract (two actions each), and the assignment *)
(* an agency names, which may be out of date when the lock is granted.     *)
(* The caller's identity is left out: someone may make each request.       *)
(***************************************************************************)
EXTENDS A1States, Sequences, FiniteSets

CONSTANTS
  Workflows,          \* ids of exits
  Contracts, PropertyOf, TenantOf, DepositOf,
  Existing,           \* contracts that are there from the start
  Days, MinNotice, MaxNotice,
  Kinds, Required,    \* document kinds; settings.required_document_kinds
  Hours,              \* times of slots
  Totals,             \* total deductions a report may come to
  Keys,               \* idempotency keys of clients
  MaxAttempts,        \* bound on the assignments of an exit
  MaxHour,            \* bound on the clock
  Nobody              \* NULL

ASSUME A1ExitAssumption ==
  /\ Existing \subseteq Contracts
  /\ DepositOf \in [Contracts -> Nat]
  /\ Totals \subseteq Nat
  /\ Hours \subseteq Nat
  /\ MaxAttempts \in Nat
  /\ MaxHour \in Nat
  /\ Nobody \notin Contracts \cup Hours

VARIABLES
  state,      \* exit_workflows.state; "none": no such row
  contract,   \* exit_workflows.contract_id
  opening,    \* an initiation that has passed _assert_no_active_workflow
  docs,       \* kinds of the exit_documents rows
  signed,     \* contracts rows
  cleared,    \* contracts whose request has passed check_eligibility
  visits,     \* inspection_assignments, by attempt
  report,     \* the latest damage_reports row
  detour,     \* history: how a report of an earlier attempt came to count
  bill,       \* the deposit_settlements row
  ledger,     \* payment_transactions that SUCCEEDED
  moved,      \* the provider: movements of money, one for a key
  noc,        \* figures in the snapshot of the exit_nocs row
  downloaded, \* exit_nocs.download_count > 0
  now         \* the clock

leasing == <<signed, cleared>>
request == <<contract, opening, docs>>
damage == <<visits, report, detour>>
money == <<bill, ledger, moved>>
certificate == <<noc, downloaded>>
vars == <<state, leasing, request, damage, money, certificate, now>>

Figures == [deposit : Nat, deductions : Nat, refund : Nat, balance : Nat]

Visits ==
  [status : VisitStatuses, slots : SUBSET Hours,
   picked : Hours \cup {Nobody}, reported : BOOLEAN]
NewVisit ==
  [status |-> "REQUESTED", slots |-> {}, picked |-> Nobody,
   reported |-> FALSE]

Reports == [attempt : Nat, total : Nat]
NoReport == [attempt |-> 0, total |-> 0]

\* paid: the legs whose settled_at is not NULL.
Bills ==
  [status : SettlementStatuses, attempt : Nat, figures : Figures,
   paid : SUBSET Legs]
NoBill ==
  [status |-> "none", attempt |-> 0, figures |-> Breakdown(0, 0), paid |-> {}]

Payments == [leg : Legs, key : Keys, amount : Nat \ {0}]

\* lost: the transaction of the payment rolled back.
Movements ==
  [key : Keys, of : Workflows, leg : Legs, amount : Nat, lost : BOOLEAN]

\* NULL is no certificate.
NoNoc == Nobody

ASSUME NocAssumption == Nobody \notin Figures

Init ==
  /\ state = [w \in Workflows |-> "none"]
  /\ contract = [w \in Workflows |-> Nobody]
  /\ opening = [w \in Workflows |-> Nobody]
  /\ docs = [w \in Workflows |-> {}]
  /\ signed = Existing
  /\ cleared = {}
  /\ visits = [w \in Workflows |-> <<>>]
  /\ report = [w \in Workflows |-> NoReport]
  /\ detour = [w \in Workflows |-> "none"]
  /\ bill = [w \in Workflows |-> NoBill]
  /\ ledger = [w \in Workflows |-> {}]
  /\ moved = {}
  /\ noc = [w \in Workflows |-> NoNoc]
  /\ downloaded = [w \in Workflows |-> FALSE]
  /\ now = 0

-----------------------------------------------------------------------------
\* WorkflowService.transition.
Enter(w, to) ==
  /\ Can(state[w], to)
  /\ state' = [state EXCEPT ![w] = to]

Active(w) == state[w] \in ActiveStates

-----------------------------------------------------------------------------
\* contract_service.py

\* check_eligibility of a new contract's property and tenant.
Eligible(c) ==
  \A w \in Workflows : Active(w) =>
    /\ PropertyOf[contract[w]] # PropertyOf[c]
    /\ TenantOf[contract[w]] # TenantOf[c]

ClearContract(c) ==
  /\ c \notin signed \cup cleared
  /\ Eligible(c)
  /\ cleared' = cleared \cup {c}
  /\ UNCHANGED <<state, signed, request, damage, money, certificate, now>>

\* Nothing holds the property between the check and this insert.
CreateContract(c) ==
  /\ c \in cleared
  /\ cleared' = cleared \ {c}
  /\ signed' = signed \cup {c}
  /\ UNCHANGED <<state, request, damage, money, certificate, now>>

-----------------------------------------------------------------------------
\* workflow_service.py

\* _assert_no_active_workflow.
NoActiveWorkflow(c) ==
  \A w \in Workflows : Active(w) =>
    /\ contract[w] # c
    /\ PropertyOf[contract[w]] # PropertyOf[c]
    /\ TenantOf[contract[w]] # TenantOf[c]

CheckInitiate(w, c, days) ==
  /\ state[w] = "none"
  /\ opening[w] = Nobody
  /\ c \in signed
  /\ MoveOutAccepted(days, MinNotice, MaxNotice)
  /\ NoActiveWorkflow(c)
  /\ opening' = [opening EXCEPT ![w] = c]
  /\ UNCHANGED <<state, contract, docs, leasing, damage, money, certificate,
                 now>>

\* uq_exit_workflows_active_contract and _property; the tenant has no index.
IndexesAllow(c) ==
  \A w \in Workflows : Active(w) =>
    contract[w] # c /\ PropertyOf[contract[w]] # PropertyOf[c]

Initiate(w) ==
  /\ opening[w] # Nobody
  /\ IndexesAllow(opening[w])
  /\ state' = [state EXCEPT ![w] =
       IF Required = {} THEN "DRAFT" ELSE "DOCUMENTS_PENDING"]
  /\ contract' = [contract EXCEPT ![w] = opening[w]]
  /\ opening' = [opening EXCEPT ![w] = Nobody]
  /\ UNCHANGED <<docs, leasing, damage, money, certificate, now>>

\* The insert meets an index: the request ends with 409.
RefuseInitiate(w) ==
  /\ opening[w] # Nobody
  /\ ~IndexesAllow(opening[w])
  /\ opening' = [opening EXCEPT ![w] = Nobody]
  /\ UNCHANGED <<state, contract, docs, leasing, damage, money, certificate,
                 now>>

UploadDocument(w, kind) ==
  /\ state[w] \in {"DRAFT", "DOCUMENTS_PENDING"}
  /\ docs' = [docs EXCEPT ![w] = @ \cup {kind}]
  /\ UNCHANGED <<state, contract, opening, leasing, damage, money,
                 certificate, now>>

Missing(w) == Required \ docs[w]

Submit(w) ==
  /\ Missing(w) = {}
  /\ Enter(w, "PENDING_OWNER_APPROVAL")
  /\ UNCHANGED <<leasing, request, damage, money, certificate, now>>

OwnerApprove(w) ==
  /\ Enter(w, "OWNER_APPROVED")
  /\ UNCHANGED <<leasing, request, damage, money, certificate, now>>

\* An agency is named with the approval: two transitions, one transaction.
OwnerApproveRequesting(w) ==
  /\ Can(state[w], "OWNER_APPROVED")
  /\ Can("OWNER_APPROVED", "INSPECTION_SCHEDULING")
  /\ Len(visits[w]) < MaxAttempts
  /\ state' = [state EXCEPT ![w] = "INSPECTION_SCHEDULING"]
  /\ visits' = [visits EXCEPT ![w] = Append(@, NewVisit)]
  /\ UNCHANGED <<leasing, request, report, detour, money, certificate, now>>

OwnerReject(w) ==
  /\ Enter(w, "REJECTED")
  /\ UNCHANGED <<leasing, request, damage, money, certificate, now>>

\* The assignments and the settlement stay as they are.
Cancel(w) ==
  /\ state[w] \in Cancellable
  /\ Enter(w, "CANCELLED")
  /\ UNCHANGED <<leasing, request, damage, money, certificate, now>>

\* complete_by_id, by any party.
Complete(w) ==
  /\ Enter(w, "COMPLETED")
  /\ UNCHANGED <<leasing, request, damage, money, certificate, now>>

-----------------------------------------------------------------------------
\* inspection_service.py

\* request_inspection: the table alone says when, so an appointment that was
\* made, or a report under review, is no obstacle, and the settlement stays.
RequestInspection(w) ==
  /\ Len(visits[w]) < MaxAttempts
  /\ Enter(w, "INSPECTION_SCHEDULING")
  /\ visits' = [visits EXCEPT ![w] = Append(@, NewVisit)]
  /\ detour' = [detour EXCEPT ![w] = "none"]
  /\ UNCHANGED <<leasing, request, report, money, certificate, now>>

Offered(visit, written, hours) ==
  [visit EXCEPT !.status = written, !.slots = @ \cup hours]

\* Any assignment of the agency's, not only the live one.  Its status was
\* read before the lock and may be any it has had: an assignment seen as
\* REQUESTED is written back as SLOTS_PROPOSED.
ProposeSlots(w, n, hours) ==
  /\ state[w] = "INSPECTION_SCHEDULING"
  /\ hours # {} /\ \A h \in hours : h > now
  /\ \E written \in {"SLOTS_PROPOSED", visits[w][n].status} \ {"REQUESTED"} :
       visits' = [visits EXCEPT ![w][n] = Offered(@, written, hours)]
  /\ UNCHANGED <<state, leasing, request, report, detour, money, certificate,
                 now>>

\* Mutant of Live: the first assignment.
LiveIsFirst(w) == 1

\* workflow.current_assignment.
Live(w) == Len(visits[w])

SelectSlot(w, h) ==
  /\ Enter(w, "INSPECTION_SCHEDULED")
  /\ state[w] = "INSPECTION_SCHEDULING"
  /\ h \in visits[w][Live(w)].slots
  /\ h > now
  /\ visits' = [visits EXCEPT
       ![w][Live(w)] = [@ EXCEPT !.status = "SCHEDULED", !.picked = h]]
  /\ UNCHANGED <<leasing, request, report, detour, money, certificate, now>>

\* complete_inspection, for any assignment of the agency's and at any hour;
\* of the assignment only completed_at is written.
CompleteInspection(w) ==
  /\ visits[w] # <<>>
  /\ Enter(w, "INSPECTION_COMPLETED")
  /\ UNCHANGED <<leasing, request, damage, money, certificate, now>>

\* Mutant of Computed: a settlement that exists keeps its figures.
ComputedOnce(w, n, total) ==
  [status |-> "DRAFT", attempt |-> n, paid |-> {},
   figures |-> IF bill[w].status = "none"
               THEN Breakdown(DepositOf[contract[w]], total)
               ELSE bill[w].figures]

\* compute_for_report: one row, reused.
Computed(w, n, total) ==
  [status |-> "DRAFT", attempt |-> n, paid |-> {},
   figures |-> Breakdown(DepositOf[contract[w]], total)]

\* From INSPECTION_SCHEDULED the visit is taken to have happened.  The
\* assignment need not be the live one; a second report for it is refused,
\* by uq_damage_reports_assignment if the row read is out of date.
SubmitDamageReport(w, n, total) ==
  /\ state[w] \in {"INSPECTION_SCHEDULED", "INSPECTION_COMPLETED"}
  /\ ~visits[w][n].reported
  /\ bill[w].status \in {"none", "DRAFT", "VOID"}
  /\ state' = [state EXCEPT ![w] = "DAMAGE_REVIEW"]
  /\ visits' = [visits EXCEPT
       ![w][n] = [@ EXCEPT !.status = "COMPLETED", !.reported = TRUE]]
  /\ report' = [report EXCEPT ![w] = [attempt |-> n, total |-> total]]
  /\ detour' = [detour EXCEPT ![w] = IF n = Live(w) THEN "none" ELSE "late"]
  /\ bill' = [bill EXCEPT ![w] = Computed(w, n, total)]
  /\ UNCHANGED <<leasing, request, ledger, moved, certificate, now>>

\* The settlement is voided first.
OrderReinspection(w) ==
  /\ state[w] = "DAMAGE_REVIEW"
  /\ bill[w].status # "CLOSED"
  /\ Len(visits[w]) < MaxAttempts
  /\ Enter(w, "INSPECTION_SCHEDULING")
  /\ bill' = [bill EXCEPT ![w].status = "VOID"]
  /\ visits' = [visits EXCEPT ![w] = Append(@, NewVisit)]
  /\ detour' = [detour EXCEPT ![w] = "none"]
  /\ UNCHANGED <<leasing, request, report, ledger, moved, certificate, now>>

-----------------------------------------------------------------------------
\* settlement_service.py, noc_service.py

\* A leg of nothing is settled when the settlement is approved.
ZeroLegs(w) == {leg \in Legs : LegAmount(bill[w].figures, leg) = 0}

\* Mutant of Settled: one leg will do.
SettledByOneLeg(paid) == paid # {}

\* is_fully_settled.
Settled(paid) == paid = Legs

\* _close_if_fully_settled with NOCService.issue, in the same transaction:
\* SETTLED is passed through and never seen, and workflow.noc is None until
\* then.
Close(w, paid) ==
  IF Settled(paid)
  THEN /\ Can("PENDING_SETTLEMENT", "SETTLED") /\ Can("SETTLED", "NOC_ISSUED")
       /\ state' = [state EXCEPT ![w] = "NOC_ISSUED"]
       /\ bill' = [bill EXCEPT ![w].status = "CLOSED", ![w].paid = paid]
       /\ noc' = [noc EXCEPT ![w] = bill[w].figures]
  ELSE /\ state' = [state EXCEPT ![w] = "PENDING_SETTLEMENT"]
       /\ bill' = [bill EXCEPT ![w].status = "PAYABLE", ![w].paid = paid]
       /\ UNCHANGED noc

ApproveSettlement(w) ==
  /\ bill[w].status = "DRAFT"
  /\ Can(state[w], "PENDING_SETTLEMENT")
  /\ Close(w, ZeroLegs(w))
  /\ UNCHANGED <<leasing, request, damage, ledger, moved, downloaded, now>>

\* Mutant of Reopened: the settlement stays payable while it is reviewed.
ReopenedPayable(w) == [bill EXCEPT ![w].paid = {}]

Reopened(w) == [bill EXCEPT ![w].status = "DRAFT", ![w].paid = {}]

\* The table lets a tenant dispute from INSPECTION_COMPLETED too, before the
\* report of a re-inspection: the settlement of the superseded report, VOID or
\* still a draft, becomes the draft that is reviewed.
Dispute(w) ==
  /\ bill[w].status # "none"
  /\ ledger[w] = {}
  /\ Enter(w, "DAMAGE_REVIEW")
  /\ bill' = Reopened(w)
  /\ detour' = IF state[w] = "INSPECTION_COMPLETED" /\ bill[w].attempt # Live(w)
               THEN [detour EXCEPT ![w] = "revived"] ELSE detour
  /\ UNCHANGED <<leasing, request, visits, report, ledger, moved, certificate,
                 now>>

\* The key is looked for in every payment; its replay returns the row found
\* and is left out.
Payable(w, leg, key) ==
  /\ \A v \in Workflows : \A p \in ledger[v] : p.key # key
  /\ bill[w].status = "PAYABLE"
  /\ state[w] = "PENDING_SETTLEMENT"
  /\ LegAmount(bill[w].figures, leg) > 0
  /\ leg \notin bill[w].paid

Payment(w, leg, key) ==
  [leg |-> leg, key |-> key, amount |-> LegAmount(bill[w].figures, leg)]

Movement(w, leg, key, lost) ==
  [key |-> key, of |-> w, leg |-> leg,
   amount |-> LegAmount(bill[w].figures, leg), lost |-> lost]

\* The provider moves money once for a key: a key whose payment was lost gets
\* the first movement's answer, whatever leg, amount or exit that was for.
Known(key) == \E m \in moved : m.key = key

Pay(w, leg, key) ==
  /\ Payable(w, leg, key)
  /\ moved' = IF Known(key) THEN moved
              ELSE moved \cup {Movement(w, leg, key, FALSE)}
  /\ ledger' = [ledger EXCEPT ![w] = @ \cup {Payment(w, leg, key)}]
  /\ Close(w, bill[w].paid \cup {leg})
  /\ UNCHANGED <<leasing, request, damage, downloaded, now>>

\* The provider has moved the money and the transaction rolls back: the
\* process dies, the certificate cannot be rendered.  Nothing is left of the
\* payment, nor of one that the provider declines, which has no action here.
PayLost(w, leg, key) ==
  /\ Payable(w, leg, key)
  /\ ~Known(key)
  /\ moved' = moved \cup {Movement(w, leg, key, TRUE)}
  /\ UNCHANGED <<state, leasing, request, damage, bill, ledger, certificate,
                 now>>

\* The first download completes the exit.
DownloadNoc(w) ==
  /\ noc[w] # NoNoc
  /\ downloaded' = [downloaded EXCEPT ![w] = TRUE]
  /\ IF state[w] = "NOC_ISSUED" THEN Enter(w, "COMPLETED") ELSE UNCHANGED state
  /\ UNCHANGED <<leasing, request, damage, money, noc, now>>

Tick ==
  /\ now < MaxHour
  /\ now' = now + 1
  /\ UNCHANGED <<state, leasing, request, damage, money, certificate>>

-----------------------------------------------------------------------------
\* The routes of app/api.

Leasing ==
  \E c \in Contracts : ClearContract(c) \/ CreateContract(c)

Requesting(w) ==
  \/ \E c \in Contracts, d \in Days : CheckInitiate(w, c, d)
  \/ Initiate(w) \/ RefuseInitiate(w)
  \/ \E kind \in Kinds : UploadDocument(w, kind)
  \/ Submit(w)
  \/ OwnerApprove(w) \/ OwnerApproveRequesting(w) \/ OwnerReject(w)
  \/ Cancel(w) \/ Complete(w)
  \/ RequestInspection(w)
  \/ \E h \in Hours : SelectSlot(w, h)
  \/ OrderReinspection(w)

AgencyRequests(w) ==
  \/ \E n \in 1 .. Len(visits[w]) :
       \/ \E hours \in SUBSET Hours : ProposeSlots(w, n, hours)
       \/ \E total \in Totals : SubmitDamageReport(w, n, total)
  \/ CompleteInspection(w)

Settling(w) ==
  \/ ApproveSettlement(w)
  \/ Dispute(w)
  \/ \E leg \in Legs, key \in Keys : Pay(w, leg, key) \/ PayLost(w, leg, key)
  \/ DownloadNoc(w)

Next ==
  \/ Leasing
  \/ \E w \in Workflows : Requesting(w) \/ AgencyRequests(w) \/ Settling(w)
  \/ Tick

Spec == Init /\ [][Next]_vars

-----------------------------------------------------------------------------
TypeOK ==
  /\ state \in [Workflows -> States \cup {"none"}]
  /\ contract \in [Workflows -> Contracts \cup {Nobody}]
  /\ opening \in [Workflows -> Contracts \cup {Nobody}]
  /\ docs \in [Workflows -> SUBSET Kinds]
  /\ signed \subseteq Contracts
  /\ cleared \subseteq Contracts
  /\ \A w \in Workflows :
       /\ Len(visits[w]) <= MaxAttempts
       /\ \A n \in 1 .. Len(visits[w]) : visits[w][n] \in Visits
  /\ report \in [Workflows -> Reports]
  /\ detour \in [Workflows -> {"none", "late", "revived"}]
  /\ bill \in [Workflows -> Bills \cup {NoBill}]
  /\ \A w \in Workflows : ledger[w] \subseteq Payments
  /\ moved \subseteq Movements
  /\ noc \in [Workflows -> Figures \cup {NoNoc}]
  /\ downloaded \in [Workflows -> BOOLEAN]
  /\ now \in 0 .. MaxHour

\* An exit and its settlement never contradict each other, over disputes,
\* re-inspections and inspections requested past the settlement: reviewed is
\* a draft, pending is payable, certified is closed, and a settlement that is
\* payable beside another state is that of a cancelled exit; all rows typed.
SettlementAgrees ==
  /\ TypeOK
  /\ \A w \in Workflows :
       /\ state[w] = "DAMAGE_REVIEW" => bill[w].status = "DRAFT"
       /\ state[w] = "PENDING_SETTLEMENT" => bill[w].status = "PAYABLE"
       /\ bill[w].status = "PAYABLE" =>
            state[w] \in {"PENDING_SETTLEMENT", "CANCELLED"}
       /\ bill[w].status = "CLOSED" <=>
            state[w] \in {"NOC_ISSUED", "COMPLETED"}

\* The settlement is computed from the report filed last, and the same in
\* every figure.
ComputedFromLastReport ==
  \A w \in Workflows : bill[w].status # "none" =>
    /\ bill[w].attempt = report[w].attempt
    /\ bill[w].figures = Breakdown(DepositOf[contract[w]], report[w].total)

\* "the latest attempt is the operative one" (models/inspection.py:7):
\* once the live assignment has reported, its report is the one settled; and an
\* exit under review, to be paid or certified counts on a superseded report
\* exactly when an agency filed it after it had been superseded, or a dispute
\* from INSPECTION_COMPLETED revived its settlement (settlement_service.py:247),
\* void or not.
SettlesOperativeReport ==
  /\ ComputedFromLastReport
  /\ \A w \in Workflows :
       /\ Live(w) > 0 /\ visits[w][Live(w)].reported =>
            bill[w].attempt = Live(w)
       /\ state[w] \in {"DAMAGE_REVIEW", "PENDING_SETTLEMENT", "NOC_ISSUED",
                        "COMPLETED"} =>
            (bill[w].attempt = Live(w) <=> detour[w] = "none")

\* A confirmed appointment is that of the live assignment, at an hour its
\* agency offered, although agencies may write to assignments of earlier
\* attempts, with a status read before the lock.
AppointmentIsLive ==
  \A w \in Workflows :
    /\ state[w] = "INSPECTION_SCHEDULED" =>
         LET v == visits[w][Len(visits[w])]
         IN  v.status = "SCHEDULED" /\ v.picked \in v.slots
    /\ state[w] = "INSPECTION_SCHEDULING" =>
         visits[w][Len(visits[w])].status \in {"REQUESTED", "SLOTS_PROPOSED"}

\* Money that the tables know of is final ("Not permitted once money has
\* moved", workflow_service.py:433): it was paid once, in full, for the leg
\* that is owed, the certificate shows those figures, and the provider moved
\* that amount for that leg of that exit, unless the client had used the key
\* for a payment that was rolled back.
PaidIsFinal ==
  \A w \in Workflows :
    /\ ledger[w] # {} => state[w] \in {"NOC_ISSUED", "COMPLETED"}
    /\ state[w] \in {"NOC_ISSUED", "COMPLETED"} =>
         /\ noc[w] = bill[w].figures
         /\ \A leg \in Legs :
              LET owed == LegAmount(bill[w].figures, leg)
                  paid == {p \in ledger[w] : p.leg = leg}
              IN  IF owed = 0 THEN paid = {}
                  ELSE \E m \in moved :
                         /\ paid = {[leg |-> leg, key |-> m.key,
                                     amount |-> owed]}
                         /\ \/ m.lost
                            \/ m.of = w /\ m.leg = leg /\ m.amount = owed

=============================================================================
