------------------------------ MODULE A1States ------------------------------
(***************************************************************************)
(* The state machine of run A1 (app/domain): states, the table of          *)
(* transitions, and the settlement's arithmetic.  The table knows neither  *)
(* roles nor operations: who may ask for a target, and when, is the        *)
(* services' business.                                                     *)
(***************************************************************************)
EXTENDS Integers

States ==
  {"DRAFT", "DOCUMENTS_PENDING", "PENDING_OWNER_APPROVAL", "OWNER_APPROVED",
   "INSPECTION_SCHEDULING", "INSPECTION_SCHEDULED", "INSPECTION_COMPLETED",
   "DAMAGE_REVIEW", "PENDING_SETTLEMENT", "SETTLED", "NOC_ISSUED",
   "COMPLETED", "CANCELLED", "REJECTED"}

Terminal == {"COMPLETED", "CANCELLED", "REJECTED"}

\* Any of these blocks a new contract (BR-1).
ActiveStates == States \ Terminal

Cancellable ==
  {"DRAFT", "DOCUMENTS_PENDING", "PENDING_OWNER_APPROVAL", "OWNER_APPROVED",
   "INSPECTION_SCHEDULING", "INSPECTION_SCHEDULED", "INSPECTION_COMPLETED",
   "DAMAGE_REVIEW", "PENDING_SETTLEMENT"}

Transitions ==
  [DRAFT |-> {"DOCUMENTS_PENDING", "PENDING_OWNER_APPROVAL", "CANCELLED"},
   DOCUMENTS_PENDING |-> {"PENDING_OWNER_APPROVAL", "CANCELLED"},
   PENDING_OWNER_APPROVAL |-> {"OWNER_APPROVED", "REJECTED", "CANCELLED"},
   OWNER_APPROVED |-> {"INSPECTION_SCHEDULING", "CANCELLED"},
   INSPECTION_SCHEDULING |-> {"INSPECTION_SCHEDULED", "CANCELLED"},
   INSPECTION_SCHEDULED |->
     {"INSPECTION_COMPLETED", "INSPECTION_SCHEDULING", "CANCELLED"},
   INSPECTION_COMPLETED |-> {"DAMAGE_REVIEW", "CANCELLED"},
   DAMAGE_REVIEW |->
     {"PENDING_SETTLEMENT", "INSPECTION_SCHEDULING", "CANCELLED"},
   PENDING_SETTLEMENT |-> {"SETTLED", "DAMAGE_REVIEW", "CANCELLED"},
   SETTLED |-> {"NOC_ISSUED"},
   NOC_ISSUED |-> {"COMPLETED"},
   COMPLETED |-> {},
   CANCELLED |-> {},
   REJECTED |-> {}]

\* can_transition.
Can(from, to) == from \in States /\ to \in Transitions[from]

-----------------------------------------------------------------------------
\* CANCELLED is declared for an assignment, and PENDING and FAILED for a
\* payment: no transaction that commits leaves such a row.
VisitStatuses == {"REQUESTED", "SLOTS_PROPOSED", "SCHEDULED", "COMPLETED"}
SettlementStatuses == {"DRAFT", "PAYABLE", "CLOSED", "VOID"}
Legs == {"OWNER_REFUND", "TENANT_BALANCE"}

\* Mutant of Positive: without the floor.
Signed(n) == n

\* compute_settlement over the total of the report's lines.
Positive(n) == IF n > 0 THEN n ELSE 0
Breakdown(deposit, deducted) ==
  [deposit |-> deposit, deductions |-> deducted,
   refund |-> Positive(deposit - deducted),
   balance |-> Positive(deducted - deposit)]

LegAmount(figures, leg) ==
  IF leg = "OWNER_REFUND" THEN figures.refund ELSE figures.balance

\* _validate_move_out_date, in days from today.
MoveOutAccepted(days, minNotice, maxNotice) ==
  days >= minNotice /\ days <= maxNotice
=============================================================================
