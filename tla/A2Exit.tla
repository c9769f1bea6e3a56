------------------------------- MODULE A2Exit -------------------------------
(***************************************************************************)
(* Run A2: the exit from draft to closure over its PostgreSQL tables, with *)
(* the inspection rounds, the damage review, the settlement's figures, the *)
(* certificate and the reconciler's sweeps.  The payout between            *)
(* SETTLEMENT_PROCESSING and its outcome is A2Payout's; here it succeeds   *)
(* or fails in one step.                                                   *)
(*                                                                         *)
(* Every command of the API holds the workflow's row lock from its first   *)
(* read to its commit (LockedWorkflowDep), so a command is one action.     *)
(* The sweeps read without a lock and commit later, and are two.           *)
(* Commands that are refused change nothing and have no action.            *)
(***************************************************************************)
EXTENDS A2States, FiniteSetsExt

CONSTANTS
  Workflows,          \* ids a client may get for its drafts
  Contracts, PropertyOf, TenantOf,
  DocTypes,           \* document types uploaded
  Terms,              \* what a client enters: a notice, or "missing"
  Deposits,           \* amounts the client, or the approving owner, gives
  Hours,              \* slot times the agency may offer
  Reports,            \* sets of <<n, estimate, liable>>: a report's lines
  Manual,             \* totals of the owner's manual deductions
  MaxRounds,          \* bound on inspection rounds
  MaxEdits,           \* bound on edits of drafts and removals of documents
  Nobody              \* NULL

ASSUME A2ExitAssumption ==
  /\ \A S \in Reports : IsFiniteSet(S) /\ S \subseteq Nat \X Nat \X BOOLEAN
  /\ Deposits \subseteq Nat
  /\ Manual \subseteq Nat
  /\ Terms \subseteq Notices \cup {"missing"}
  /\ MaxRounds \in Nat \ {0}
  /\ MaxEdits \in Nat
  /\ Nobody \notin Contracts \cup Nat

VARIABLES
  state,      \* exit_workflow.state; "none": no such row
  contract,   \* exit_workflow.contract_id
  notice,     \* move_out_date and reason: "missing", or the notice they give
  docs,       \* types of the documents not deleted
  reference,  \* workflows with a reference
  deposit,    \* exit_workflow.security_deposit_amount
  inspection, \* exit_workflow_inspection.status; "none": no such row
  round,      \* exit_workflow_inspection.round_number
  slots,      \* exit_workflow_inspection_slot: <<round, hour>> pairs
  selected,   \* the slot with is_selected; also scheduled_start
  reported,   \* workflows whose inspection has reported_at
  items,      \* exit_workflow_damage_item
  window,     \* dispute_window_closes_at: "unset", "open" or "closed"
  settlement, \* exit_workflow_settlement.status; "none": no such row
  lines,      \* the amount each damage item contributed, and the manual one
  figures,    \* deposit, deductions, refund, liability of the settlement
  noc,        \* exit_workflow_noc.status; "none": no such row
  certified,  \* the figures rendered into the certificate
  passed,     \* hours that are in the past
  stale,      \* workflows not written for longer than the sweeps' cutoff
  sweep,      \* the open transaction of the reconciler
  edits       \* edits and removals so far

row == <<state, contract, notice, deposit, window>>
files == <<docs, reference>>
visit == <<inspection, round, slots, selected, reported>>
money == <<settlement, lines, figures>>
certificate == <<noc, certified>>
sweeping == <<stale, sweep>>
bounds == <<passed, edits>>
vars == <<row, files, visit, items, money, certificate, sweeping, bounds>>

ItemRows ==
  [round : Nat, n : Nat, estimated : Nat, approved : Nat \cup {Nobody},
   liable : BOOLEAN, dispute : DisputeStatuses]
SlotRows == Nat \X Hours
FigureRows ==
  [deposit : Nat, deductions : Nat, refund : Nat, liability : Nat]
Batches ==
  [job : {"idle", "drafts", "completions"}, turn : {"drafts", "completions"},
   rows : SUBSET Workflows, dirty : BOOLEAN]

NoFigures == [deposit |-> 0, deductions |-> 0, refund |-> 0, liability |-> 0]
Idle(turn) == [job |-> "idle", turn |-> turn, rows |-> {}, dirty |-> FALSE]

Init ==
  /\ state = [w \in Workflows |-> "none"]
  /\ contract = [w \in Workflows |-> Nobody]
  /\ notice = [w \in Workflows |-> "missing"]
  /\ deposit = [w \in Workflows |-> 0]
  /\ window = [w \in Workflows |-> "unset"]
  /\ docs = [w \in Workflows |-> {}]
  /\ reference = {}
  /\ inspection = [w \in Workflows |-> "none"]
  /\ round = [w \in Workflows |-> 0]
  /\ slots = [w \in Workflows |-> {}]
  /\ selected = [w \in Workflows |-> Nobody]
  /\ reported = {}
  /\ items = [w \in Workflows |-> {}]
  /\ settlement = [w \in Workflows |-> "none"]
  /\ lines = [w \in Workflows |-> {}]
  /\ figures = [w \in Workflows |-> NoFigures]
  /\ noc = [w \in Workflows |-> "none"]
  /\ certified = [w \in Workflows |-> NoFigures]
  /\ passed = {}
  /\ stale = {}
  /\ sweep = Idle("drafts")
  /\ edits = 0

-----------------------------------------------------------------------------
\* The engine and the row.

\* Some role passes the route's gate and is in the row.
Takes(from, action, to) ==
  \E r \in Table, role \in Roles :
    /\ r.from = from /\ r.action = action /\ r.to = to
    /\ Passes(role, action) /\ May(role, r)

\* Any write of the row moves updated_at and the version the sweeps compare.
Touch(w) ==
  /\ stale' = stale \ {w}
  /\ sweep' = [sweep EXCEPT !.dirty = @ \/ w \in sweep.rows]

\* WorkflowEngine.transition; a terminal state has no row.
Enter(w, action, to) ==
  /\ Takes(state[w], action, to)
  /\ state' = [state EXCEPT ![w] = to]
  /\ Touch(w)

Active(w) == state[w] \in Blocking

\* ContractGuard.find_blocks, and the two partial unique indexes.
BlocksProperty(w, c) ==
  Active(w) /\ PropertyOf[contract[w]] = PropertyOf[c]
BlocksTenant(w, c) == Active(w) /\ TenantOf[contract[w]] = TenantOf[c]
BlocksContract(w, c) == Active(w) /\ contract[w] = c

\* The guard's answer for a new contract like c.
Allowed(c) ==
  \A w \in Workflows : ~ BlocksProperty(w, c) /\ ~ BlocksTenant(w, c)

-----------------------------------------------------------------------------
\* Drafts (T13 steps 1-6).

\* Mutant of MayInitiate: drafts do not count as active.
MayInitiateBesideDrafts(c) ==
  \A w \in Workflows : state[w] # "DRAFT" =>
    ~ BlocksContract(w, c) /\ ~ BlocksProperty(w, c)

\* The unique indexes decide between two concurrent initiations.
MayInitiate(c) ==
  \A w \in Workflows : ~ BlocksContract(w, c) /\ ~ BlocksProperty(w, c)

Initiate(w, c, n, amount) ==
  /\ state[w] = "none"
  /\ MayInitiate(c)
  /\ state' = [state EXCEPT ![w] = "DRAFT"]
  /\ contract' = [contract EXCEPT ![w] = c]
  /\ notice' = [notice EXCEPT ![w] = n]
  /\ deposit' = [deposit EXCEPT ![w] = amount]
  /\ UNCHANGED <<window, files, visit, items, money, certificate, sweeping,
                 bounds>>

\* update_draft writes what the client sends; a complete one is assessed.
UpdateDraft(w, n) ==
  /\ state[w] = "DRAFT"
  /\ edits < MaxEdits
  /\ edits' = edits + 1
  /\ notice' = [notice EXCEPT ![w] = n]
  /\ Touch(w)
  /\ UNCHANGED <<state, contract, deposit, window, files, visit, items, money,
                 certificate, passed>>

\* A document row does not touch the workflow's row: updated_at stays.
Upload(w, role, type) ==
  /\ state[w] \in Uploadable
  /\ MayAttach(role, type)
  /\ role = "INSPECTION_AGENCY" => inspection[w] # "none"
  /\ docs' = [docs EXCEPT ![w] = @ \cup {type}]
  /\ UNCHANGED <<row, reference, visit, items, money, certificate, sweeping,
                 bounds>>

\* The parties remove from a draft, the ADMIN from any exit.
MayRemove(w, role) == role = "ADMIN" \/ state[w] = "DRAFT"

Remove(w, role, type) ==
  /\ MayRemove(w, role)
  /\ type \in docs[w]
  /\ edits < MaxEdits
  /\ edits' = edits + 1
  /\ docs' = [docs EXCEPT ![w] = @ \ {type}]
  /\ UNCHANGED <<row, reference, visit, items, money, certificate, sweeping,
                 passed>>

\* submit assesses the notice again: it may have lapsed since it was given.
\* The reference is allocated once and survives a withdrawal.
Submit(w, role) ==
  /\ Enter(w, "submit", "SUBMITTED")
  /\ NoticeAccepted(notice[w], role)
  /\ DocumentsComplete(docs[w])
  /\ reference' = reference \cup {w}
  /\ UNCHANGED <<contract, notice, deposit, window, docs, visit, items, money,
                 certificate, bounds>>

\* withdraw, owner_reject and cancel are a transition and nothing else.
Return(w, action, to) ==
  /\ Enter(w, action, to)
  /\ UNCHANGED <<contract, notice, deposit, window, files, visit, items, money,
                 certificate, bounds>>

Withdraw(w) == Return(w, "withdraw", "DRAFT")
OwnerReject(w) == Return(w, "owner_reject", "REJECTED")
Cancel(w) == Return(w, "cancel", "CANCELLED")

\* owner_approve may correct the deposit, and engages the agency.
OwnerApprove(w, amount) ==
  /\ Enter(w, "owner_approve", "OWNER_APPROVED")
  /\ deposit' = [deposit EXCEPT ![w] = amount]
  /\ inspection' = [inspection EXCEPT ![w] = "REQUESTED"]
  /\ round' = [round EXCEPT ![w] = IF inspection[w] = "none" THEN 1 ELSE @]
  /\ UNCHANGED <<contract, notice, window, files, slots, selected, reported,
                 items, money, certificate, bounds>>

-----------------------------------------------------------------------------
\* Scheduling (O15).

\* Re-proposing deletes the previous offer.
ProposeSlots(w, hours) ==
  /\ Enter(w, "propose_inspection_slots", "INSPECTION_SLOTS_PROPOSED")
  /\ hours # {}
  /\ hours \cap passed = {}
  /\ slots' = [slots EXCEPT ![w] = {<<round[w], h>> : h \in hours}]
  /\ selected' = [selected EXCEPT ![w] = Nobody]
  /\ inspection' = [inspection EXCEPT ![w] = "SLOTS_PROPOSED"]
  /\ UNCHANGED <<contract, notice, deposit, window, files, round, reported,
                 items, money, certificate, bounds>>

\* require_slot does not look at the slot's round.
SelectSlot(w, s) ==
  /\ Enter(w, "select_inspection_slot", "INSPECTION_SCHEDULED")
  /\ s \in slots[w]
  /\ s[2] \notin passed
  /\ selected' = [selected EXCEPT ![w] = s]
  /\ inspection' = [inspection EXCEPT ![w] = "SCHEDULED"]
  /\ UNCHANGED <<contract, notice, deposit, window, files, round, slots,
                 reported, items, money, certificate, bounds>>

\* Mutant of Reschedule: the selection is kept.
RescheduleKept(w) ==
  /\ Enter(w, "reschedule_inspection", "INSPECTION_SLOTS_PROPOSED")
  /\ inspection' = [inspection EXCEPT ![w] = "SLOTS_PROPOSED"]
  /\ UNCHANGED <<contract, notice, deposit, window, files, round, slots,
                 selected, reported, items, money, certificate, bounds>>

\* The offered slots stay, the appointment goes.
Reschedule(w) ==
  /\ Enter(w, "reschedule_inspection", "INSPECTION_SLOTS_PROPOSED")
  /\ selected' = [selected EXCEPT ![w] = Nobody]
  /\ inspection' = [inspection EXCEPT ![w] = "SLOTS_PROPOSED"]
  /\ UNCHANGED <<contract, notice, deposit, window, files, round, slots,
                 reported, items, money, certificate, bounds>>

-----------------------------------------------------------------------------
\* The damage report and its review (O16, T13 step 8).

NewItem(r, entry) ==
  [round |-> r, n |-> entry[1], estimated |-> entry[2], approved |-> Nobody,
   liable |-> entry[3], dispute |-> "NONE"]

\* DamageItem.chargeable_amount
Chargeable(item) ==
  IF ~ item.liable THEN 0
  ELSE IF item.approved = Nobody THEN item.estimated ELSE item.approved

OfRound(w, r) == {i \in items[w] : i.round = r}

\* submit_report replaces the round's items and opens the review in the same
\* transaction, so INSPECTION_COMPLETED is never committed.
SubmitReport(w, report) ==
  /\ Takes(state[w], "submit_inspection_report", "INSPECTION_COMPLETED")
  /\ Takes("INSPECTION_COMPLETED", "open_damage_review", "DAMAGE_REVIEW")
  /\ state' = [state EXCEPT ![w] = "DAMAGE_REVIEW"]
  /\ Touch(w)
  /\ items' = [items EXCEPT ![w] = (@ \ OfRound(w, round[w]))
                                     \cup {NewItem(round[w], e) : e \in report}]
  /\ inspection' = [inspection EXCEPT ![w] = "COMPLETED"]
  /\ reported' = reported \cup {w}
  /\ window' = [window EXCEPT ![w] = "open"]
  /\ UNCHANGED <<contract, notice, deposit, files, round, slots, selected,
                 money, certificate, bounds>>

\* _require_state of the three commands on an item, which may be of any round.
InReview(w) == state[w] = "DAMAGE_REVIEW"

Replace(w, old, new) ==
  /\ items' = [items EXCEPT ![w] = (@ \ {old}) \cup {new}]
  /\ UNCHANGED <<row, files, visit, money, certificate, sweeping, bounds>>

\* APPROVED_COST_ABOVE_ASSESSMENT
Affordable(i, amount) == amount <= i.estimated

\* The amounts tried.
Amounts == Manual \cup Deposits \cup {e[2] : e \in UNION Reports}

\* The dispute status is not looked at.
AdjustDamageItem(w, i, amount, liable) ==
  /\ InReview(w)
  /\ i \in items[w]
  /\ Affordable(i, amount)
  /\ Replace(w, i, [i EXCEPT !.approved = amount, !.liable = liable])

RaiseDispute(w, i) ==
  /\ InReview(w)
  /\ window[w] = "open"
  /\ i \in items[w]
  /\ i.dispute = "NONE"
  /\ Replace(w, i, [i EXCEPT !.dispute = "RAISED"])

ResolveDispute(w, i, amount) ==
  /\ InReview(w)
  /\ i \in items[w]
  /\ i.dispute = "RAISED"
  /\ \/ /\ Affordable(i, amount)
        /\ Replace(w, i, [i EXCEPT !.dispute = "UPHELD", !.approved = amount])
     \/ Replace(w, i, [i EXCEPT !.dispute = "REJECTED"])

\* Mutant of Reset: the report of the round before stays on file.
ResetKeepsReport(w) == reported

\* reported_at and conducted_at of the new round.
Reset(w) == reported \ {w}

\* A new round: the appointment, the report and the window go, the old slots
\* and the old items stay.
RequestReinspection(w) ==
  /\ Enter(w, "request_reinspection", "INSPECTION_SLOTS_PROPOSED")
  /\ round[w] < MaxRounds
  /\ round' = [round EXCEPT ![w] = @ + 1]
  /\ inspection' = [inspection EXCEPT ![w] = "REQUESTED"]
  /\ reported' = Reset(w)
  /\ selected' = [selected EXCEPT ![w] = Nobody]
  /\ window' = [window EXCEPT ![w] = "unset"]
  /\ UNCHANGED <<contract, notice, deposit, files, slots, items, money,
                 certificate, bounds>>

-----------------------------------------------------------------------------
\* The settlement (T13 step 9).

\* Mutants of Charged and Undisputed: every round is charged; only the
\* current round's disputes count.
ChargedEveryRound(w) == {i \in items[w] : Chargeable(i) > 0}
UndisputedThisRound(w) ==
  \A i \in OfRound(w, round[w]) : i.dispute # "RAISED"

\* _lines_from_inspection
Charged(w) == {i \in OfRound(w, round[w]) : Chargeable(i) > 0}

\* count_open_disputes, over all rounds
Undisputed(w) == \A i \in items[w] : i.dispute # "RAISED"

LinesOf(S) == {<<i.round, i.n, Chargeable(i)>> : i \in S}

\* money.total
Total(L) == MapThenSumSet(LAMBDA l : l[3], L)

Settle(d, deductions) ==
  [deposit |-> d, deductions |-> deductions,
   refund |-> Refund(d, deductions), liability |-> Liability(d, deductions)]

\* finalise: a settlement is created, or one in DRAFT or PENDING_APPROVAL is
\* computed again.  Manual deductions are one line <<0, 0, total>>.
Finalise(w, manual) ==
  LET L == LinesOf(Charged(w)) \cup {<<0, 0, manual>>} IN
  /\ Enter(w, "finalise_settlement", "SETTLEMENT_PENDING")
  /\ w \in reported
  /\ Undisputed(w)
  /\ settlement[w] \in {"none", "DRAFT", "PENDING_APPROVAL"}
  /\ settlement' = [settlement EXCEPT ![w] = "PENDING_APPROVAL"]
  /\ lines' = [lines EXCEPT ![w] = L]
  /\ figures' = [figures EXCEPT ![w] = Settle(deposit[w], Total(L))]
  /\ UNCHANGED <<contract, notice, deposit, window, files, visit, items,
                 certificate, bounds>>

\* Mutant of ReopenReview: the settlement's row is forgotten.
ReopenReviewStateOnly(w) ==
  Return(w, "reopen_damage_review", "DAMAGE_REVIEW")

ReopenReview(w) ==
  /\ Enter(w, "reopen_damage_review", "DAMAGE_REVIEW")
  /\ settlement[w] = "PENDING_APPROVAL"
  /\ settlement' = [settlement EXCEPT ![w] = "DRAFT"]
  /\ UNCHANGED <<contract, notice, deposit, window, files, visit, items, lines,
                 figures, certificate, bounds>>

\* pay_deposit with money to move.
PayDeposit(w) ==
  /\ Enter(w, "pay_deposit", "SETTLEMENT_PROCESSING")
  /\ settlement[w] = "PENDING_APPROVAL"
  /\ figures[w].refund > 0
  /\ settlement' = [settlement EXCEPT ![w] = "PROCESSING"]
  /\ UNCHANGED <<contract, notice, deposit, window, files, visit, items, lines,
                 figures, certificate, bounds>>

\* NocService.issue, called by confirm_settlement: both transitions and the
\* certificate are one transaction.
Certify(w) ==
  /\ Takes("SETTLEMENT_PROCESSING", "settlement_succeeded",
           "SETTLEMENT_COMPLETED")
  /\ Takes("SETTLEMENT_COMPLETED", "issue_noc", "NOC_ISSUED")
  /\ state' = [state EXCEPT ![w] = "NOC_ISSUED"]
  /\ Touch(w)
  /\ settlement' = [settlement EXCEPT ![w] = "COMPLETED"]
  /\ noc' = [noc EXCEPT ![w] = "ISSUED"]
  /\ certified' = [certified EXCEPT ![w] = figures[w]]
  /\ UNCHANGED <<contract, notice, deposit, window, files, visit, items, lines,
                 figures, bounds>>

\* pay_deposit of a refund of zero (OFFSET_ONLY) confirms in the same call.
PayNothing(w) ==
  /\ Takes(state[w], "pay_deposit", "SETTLEMENT_PROCESSING")
  /\ settlement[w] = "PENDING_APPROVAL"
  /\ figures[w].refund = 0
  /\ Certify(w)

ConfirmSettlement(w) ==
  /\ state[w] = "SETTLEMENT_PROCESSING"
  /\ Certify(w)

\* Mutant of FailSettlement: the settlement's row is told it FAILED.
FailSettlementAsFailed(w) ==
  /\ Enter(w, "settlement_failed", "SETTLEMENT_PENDING")
  /\ settlement[w] = "PROCESSING"
  /\ settlement' = [settlement EXCEPT ![w] = "FAILED"]
  /\ UNCHANGED <<contract, notice, deposit, window, files, visit, items, lines,
                 figures, certificate, bounds>>

FailSettlement(w) ==
  /\ Enter(w, "settlement_failed", "SETTLEMENT_PENDING")
  /\ settlement[w] = "PROCESSING"
  /\ settlement' = [settlement EXCEPT ![w] = "PENDING_APPROVAL"]
  /\ UNCHANGED <<contract, notice, deposit, window, files, visit, items, lines,
                 figures, certificate, bounds>>

\* The ADMIN revokes; the workflow's state is not looked at.
Revoke(w) ==
  /\ noc[w] = "ISSUED"
  /\ noc' = [noc EXCEPT ![w] = "REVOKED"]
  /\ UNCHANGED <<row, files, visit, items, money, certified, sweeping, bounds>>

Complete(w) == Return(w, "complete", "COMPLETED")

-----------------------------------------------------------------------------
\* The reconciler: one transaction per job, the jobs of a cycle in order.

Found(s) == {w \in Workflows : state[w] = s /\ w \in stale}

\* find_stale, without a lock; a job that finds nothing is over at once.
Load(job, s, next) ==
  /\ sweep.job = "idle" /\ sweep.turn = job
  /\ sweep' = IF Found(s) = {} THEN Idle(next)
              ELSE [job |-> job, turn |-> job, rows |-> Found(s),
                    dirty |-> FALSE]
  /\ UNCHANGED <<row, files, visit, items, money, certificate, stale, bounds>>

\* Mutant of LoadDrafts: the cycle ends when there is nothing to expire.
LoadDraftsOnly == Load("drafts", "DRAFT", "drafts")

LoadDrafts == Load("drafts", "DRAFT", "completions")
LoadIssued == Load("completions", "NOC_ISSUED", "drafts")

CommitSweep(to, turn) ==
  /\ state' = [w \in Workflows |-> IF w \in sweep.rows THEN to ELSE state[w]]
  /\ stale' = stale \ sweep.rows
  /\ sweep' = Idle(turn)
  /\ UNCHANGED <<contract, notice, deposit, window, files, visit, items, money,
                 certificate, bounds>>

\* Mutant of Unchanged: without version_id_col.
UnchangedIgnored == TRUE

\* version_id_col: no row of the batch was written since it was read.
Unchanged == ~ sweep.dirty

ExpireDrafts ==
  /\ sweep.job = "drafts"
  /\ Unchanged
  /\ CommitSweep("EXPIRED", "completions")

\* complete() reads every row again, under its lock.
CompleteIssued ==
  /\ sweep.job = "completions"
  /\ \A w \in sweep.rows : state[w] = "NOC_ISSUED"
  /\ CommitSweep("COMPLETED", "drafts")

\* One row that was written (StaleDataError), or completed, meanwhile: the
\* batch is rolled back and the cycle ends.
SweepFails ==
  /\ \/ sweep.job = "drafts" /\ ~ Unchanged
     \/ sweep.job = "completions"
          /\ \E w \in sweep.rows : state[w] # "NOC_ISSUED"
  /\ sweep' = Idle("drafts")
  /\ UNCHANGED <<row, files, visit, items, money, certificate, stale, bounds>>

-----------------------------------------------------------------------------
\* Time.

\* A draft's notice shrinks.
NoticeLapses(w) ==
  /\ state[w] = "DRAFT"
  /\ \/ notice[w] = "ample" /\ notice' = [notice EXCEPT ![w] = "short"]
     \/ notice[w] = "short" /\ notice' = [notice EXCEPT ![w] = "past"]
  /\ UNCHANGED <<state, contract, deposit, window, files, visit, items, money,
                 certificate, sweeping, bounds>>

\* The window is looked at in the review only.
WindowCloses(w) ==
  /\ InReview(w)
  /\ window[w] = "open"
  /\ window' = [window EXCEPT ![w] = "closed"]
  /\ UNCHANGED <<state, contract, notice, deposit, files, visit, items, money,
                 certificate, sweeping, bounds>>

\* An hour is looked at while slots are proposed and chosen.
HourPasses(h) ==
  /\ \E w \in Workflows :
       state[w] \in {"OWNER_APPROVED", "INSPECTION_SLOTS_PROPOSED"}
  /\ h \notin passed
  /\ passed' = passed \cup {h}
  /\ UNCHANGED <<row, files, visit, items, money, certificate, sweeping, edits>>

\* Age matters where a sweep looks, and is lost with the next write.
Ages(w) ==
  /\ state[w] \in {"DRAFT", "NOC_ISSUED"}
  /\ w \notin stale
  /\ stale' = stale \cup {w}
  /\ UNCHANGED <<row, files, visit, items, money, certificate, sweep, bounds>>

-----------------------------------------------------------------------------
Drafting(w) ==
  \/ \E c \in Contracts, n \in Terms, d \in Deposits :
       Initiate(w, c, n, d)
  \/ \E n \in Terms : UpdateDraft(w, n)
  \/ \E role \in Roles, t \in DocTypes : Upload(w, role, t) \/ Remove(w, role, t)
  \/ \E role \in {"TENANT", "ADMIN"} : Submit(w, role)
  \/ Withdraw(w) \/ OwnerReject(w) \/ Cancel(w)
  \/ \E d \in Deposits : OwnerApprove(w, d)

Inspecting(w) ==
  \/ \E hours \in SUBSET Hours : ProposeSlots(w, hours)
  \/ \E s \in slots[w] : SelectSlot(w, s)
  \/ Reschedule(w)
  \/ \E report \in Reports : SubmitReport(w, report)
  \/ RequestReinspection(w)

Reviewing(w) ==
  \E i \in items[w] :
    \/ \E a \in Amounts, l \in BOOLEAN : AdjustDamageItem(w, i, a, l)
    \/ RaiseDispute(w, i)
    \/ \E a \in Amounts : ResolveDispute(w, i, a)

Settling(w) ==
  \/ \E m \in Manual : Finalise(w, m)
  \/ ReopenReview(w) \/ PayDeposit(w) \/ PayNothing(w)
  \/ ConfirmSettlement(w) \/ FailSettlement(w)
  \/ Revoke(w) \/ Complete(w)

Reconciler ==
  LoadDrafts \/ ExpireDrafts \/ LoadIssued \/ CompleteIssued \/ SweepFails

Time ==
  \/ \E w \in Workflows : NoticeLapses(w) \/ WindowCloses(w) \/ Ages(w)
  \/ \E h \in Hours : HourPasses(h)

Next ==
  \/ \E w \in Workflows :
       Drafting(w) \/ Inspecting(w) \/ Reviewing(w) \/ Settling(w)
  \/ Reconciler \/ Time

Spec == Init /\ [][Next]_vars

\* The reconciler's loop goes on and time passes; users owe nothing.
FairSpec ==
  /\ Spec
  /\ WF_vars(Reconciler)
  /\ \A w \in Workflows : WF_vars(Ages(w))

-----------------------------------------------------------------------------
TypeOK ==
  /\ state \in [Workflows -> States \cup {"none"}]
  /\ contract \in [Workflows -> Contracts \cup {Nobody}]
  /\ notice \in [Workflows -> Notices \cup {"missing"}]
  /\ deposit \in [Workflows -> Nat]
  /\ window \in [Workflows -> {"unset", "open", "closed"}]
  /\ docs \in [Workflows -> SUBSET DocTypes]
  /\ reference \subseteq Workflows
  /\ inspection \in [Workflows -> InspectionStatuses \cup {"none"}]
  /\ round \in [Workflows -> Nat]
  /\ slots \in [Workflows -> SUBSET SlotRows]
  /\ selected \in [Workflows -> SlotRows \cup {Nobody}]
  /\ reported \subseteq Workflows
  /\ \A w \in Workflows : items[w] \subseteq ItemRows
  /\ settlement \in [Workflows -> SettlementStatuses \cup {"none"}]
  /\ figures \in [Workflows -> FigureRows]
  /\ certified \in [Workflows -> FigureRows]
  /\ noc \in [Workflows -> {"none", "ISSUED", "REVOKED"}]
  /\ passed \subseteq Hours
  /\ stale \subseteq Workflows
  /\ sweep \in Batches
  /\ edits \in 0 .. MaxEdits

\* BR-1: of all exits ever begun on a contract or a property at most one is
\* under way, withdrawn and re-drafted ones included.
OneActiveExit ==
  \A v, w \in Workflows :
    Active(v) /\ Active(w) /\ v # w =>
      /\ contract[v] # contract[w]
      /\ PropertyOf[contract[v]] # PropertyOf[contract[w]]

Settled(w) == state[w] \in {"NOC_ISSUED", "COMPLETED"}
Reviewed(w) ==
  Settled(w) \/ state[w] \in {"SETTLEMENT_PENDING", "SETTLEMENT_PROCESSING"}

\* Five tables, written by different services, tell one story: in each state
\* of the workflow the settlement and the certificate are the ones of that
\* state, whichever way through withdrawals, re-inspections, reopened reviews
\* and failed payouts led to it; all rows typed.
TablesAgree ==
  /\ TypeOK
  /\ \A w \in Workflows :
       /\ state[w] = "SETTLEMENT_PENDING" <=>
            settlement[w] = "PENDING_APPROVAL"
       /\ state[w] = "SETTLEMENT_PROCESSING" <=> settlement[w] = "PROCESSING"
       /\ Settled(w) <=> settlement[w] = "COMPLETED"
       /\ Settled(w) <=> noc[w] # "none"
       /\ state[w] \notin {"SETTLEMENT_COMPLETED", "INSPECTION_COMPLETED"}

\* A review, a settlement and a certificate rest on a report of the current
\* round, and an exit that waits for an inspection has none on file.
ReportIsOfThisRound ==
  \A w \in Workflows :
    /\ state[w] = "DAMAGE_REVIEW" \/ Reviewed(w) =>
         /\ w \in reported
         /\ inspection[w] = "COMPLETED"
         /\ window[w] # "unset"
    /\ state[w] \in {"OWNER_APPROVED", "INSPECTION_SLOTS_PROPOSED",
                     "INSPECTION_SCHEDULED"} => w \notin reported

\* An appointment is a slot the agency offers, and there is one exactly while
\* the workflow says so.
AppointmentIffScheduled ==
  \A w \in Workflows :
    /\ state[w] = "INSPECTION_SCHEDULED" =>
         selected[w] \in slots[w] /\ inspection[w] = "SCHEDULED"
    /\ state[w] \in {"OWNER_APPROVED", "INSPECTION_SLOTS_PROPOSED"} =>
         selected[w] = Nobody

\* From finalisation on, the settlement is what the owner last reviewed: every
\* charge of the current round at its present amount and no other, with the
\* deposit split exactly; and the certificate states these figures for ever.
ChargedAsReviewed ==
  \A w \in Workflows : Reviewed(w) =>
    /\ \A l \in lines[w] :
         l[1] # 0 => \E i \in items[w] :
           i.round = round[w] /\ l = <<i.round, i.n, Chargeable(i)>>
    /\ \A i \in items[w] :
         i.round = round[w] /\ Chargeable(i) > 0 =>
           <<i.round, i.n, Chargeable(i)>> \in lines[w]
    /\ figures[w] = Settle(deposit[w], Total(lines[w]))
    /\ Settled(w) => certified[w] = figures[w]

\* UNRESOLVED_DISPUTES: no dispute, of whatever round, is open once the
\* settlement is final, nor raised afterwards.
NoDisputeIsPassedOver ==
  \A w \in Workflows :
    Reviewed(w) => \A i \in items[w] : i.dispute # "RAISED"

\* The sweep closes a draft only when nobody wrote it for the whole grace
\* period, however its edit, submission or withdrawal interleaves with the batch.
ExpiredWasIdle ==
  [][\A w \in Workflows :
       state'[w] = "EXPIRED" /\ state[w] # "EXPIRED" =>
         state[w] = "DRAFT" /\ w \in stale]_vars

\* reconciler.py:94: an exit with a certificate is completed in the end, by a
\* party or by the sweep, unless a batch is rolled back again and again: a
\* batch of drafts that fails ends the cycle before the certificates' turn.
IssuedIsCompleted ==
  \/ []<><<SweepFails>>_vars
  \/ \A w \in Workflows : state[w] = "NOC_ISSUED" ~> state[w] = "COMPLETED"

=============================================================================
