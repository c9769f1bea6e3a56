------------------------------ MODULE A3States ------------------------------
(***************************************************************************)
(* The state machine of run A3 (exit_workflow/domain): statuses, the table *)
(* of transitions with the roles of each row, and the rules that are pure  *)
(* functions of their arguments (dates, slots, documents, money).  Unlike  *)
(* A2's, a row is found by its two statuses: the table does not know which *)
(* operation asks for the target.                                          *)
(***************************************************************************)
EXTENDS Integers

Statuses ==
  {"INITIATED", "PENDING_OWNER_APPROVAL", "OWNER_APPROVED",
   "INSPECTION_REQUESTED", "INSPECTION_SCHEDULED", "INSPECTION_COMPLETED",
   "DAMAGE_REVIEW", "SETTLEMENT_PENDING", "SETTLEMENT_COMPLETED",
   "NOC_ISSUED", "COMPLETED", "CANCELLED", "REJECTED"}

Terminal == {"COMPLETED", "CANCELLED", "REJECTED"}

\* ACTIVE_STATUSES: the exit holds its property, tenant and contract (BR-1).
ActiveStatuses == Statuses \ Terminal

Roles == {"TENANT", "OWNER", "INSPECTION_AGENCY", "ADMIN", "SERVICE"}

\* Principal.is_admin: also ADMIN and SERVICE pass every check of a party.
Admins == {"ADMIN", "SERVICE"}

Row(from, to, roles) == [from |-> from, to |-> to, roles |-> roles]

Table ==
  {Row("INITIATED", "PENDING_OWNER_APPROVAL", {"TENANT"}),
   Row("INITIATED", "CANCELLED", {"TENANT"}),
   Row("PENDING_OWNER_APPROVAL", "OWNER_APPROVED", {"OWNER"}),
   Row("PENDING_OWNER_APPROVAL", "REJECTED", {"OWNER"}),
   Row("PENDING_OWNER_APPROVAL", "CANCELLED", {"TENANT"}),
   Row("OWNER_APPROVED", "INSPECTION_REQUESTED", {"OWNER"}),
   Row("OWNER_APPROVED", "CANCELLED", {"TENANT", "OWNER"}),
   Row("INSPECTION_REQUESTED", "INSPECTION_SCHEDULED", {"OWNER", "TENANT"}),
   Row("INSPECTION_REQUESTED", "OWNER_APPROVED",
       {"OWNER", "INSPECTION_AGENCY"}),
   Row("INSPECTION_REQUESTED", "CANCELLED", {"OWNER"}),
   Row("INSPECTION_SCHEDULED", "INSPECTION_COMPLETED", {"INSPECTION_AGENCY"}),
   Row("INSPECTION_SCHEDULED", "INSPECTION_REQUESTED",
       {"INSPECTION_AGENCY", "OWNER"}),
   Row("INSPECTION_SCHEDULED", "OWNER_APPROVED",
       {"OWNER", "INSPECTION_AGENCY"}),
   Row("INSPECTION_SCHEDULED", "CANCELLED", {"OWNER"}),
   Row("INSPECTION_COMPLETED", "DAMAGE_REVIEW", {"INSPECTION_AGENCY"}),
   Row("DAMAGE_REVIEW", "SETTLEMENT_PENDING", {"OWNER"}),
   Row("DAMAGE_REVIEW", "OWNER_APPROVED", {}),
   Row("DAMAGE_REVIEW", "CANCELLED", {}),
   Row("SETTLEMENT_PENDING", "SETTLEMENT_COMPLETED", {"OWNER"}),
   Row("SETTLEMENT_PENDING", "DAMAGE_REVIEW", {}),
   Row("SETTLEMENT_PENDING", "CANCELLED", {}),
   Row("SETTLEMENT_COMPLETED", "NOC_ISSUED", {}),
   Row("NOC_ISSUED", "COMPLETED", {})}

\* assert_can_transition with a role, and with actor_role=None.
May(from, to, role) ==
  \E r \in Table :
    r.from = from /\ r.to = to /\ role \in r.roles \cup Admins
MaySystem(from, to) == \E r \in Table : r.from = from /\ r.to = to

-----------------------------------------------------------------------------
\* FAILED and CANCELLED are declared for a settlement and never written, and
\* so is EXPIRED for a slot.
VisitStatuses ==
  {"REQUESTED", "SLOTS_PROPOSED", "SCHEDULED", "COMPLETED", "CANCELLED"}
ActiveVisits == {"REQUESTED", "SLOTS_PROPOSED", "SCHEDULED"}
ReportStatuses ==
  {"SUBMITTED", "ACKNOWLEDGED", "DISPUTED", "DISPUTE_RESOLVED", "FINALIZED"}
SettlementStatuses == {"PENDING", "PROCESSING", "PAID"}
PaymentStatuses == {"PENDING", "SUCCEEDED", "FAILED"}

\* Which document types a role may upload; EXIT_NOC is the system's.
TenantTypes ==
  {"EXIT_REQUEST_ATTACHMENT", "EMIRATES_ID", "TENANCY_CONTRACT",
   "UTILITY_CLEARANCE", "KEY_HANDOVER", "OTHER"}
AgencyTypes == {"DAMAGE_PHOTO", "INSPECTION_REPORT"}
OwnerTypes == {"KEY_HANDOVER", "EXIT_REQUEST_ATTACHMENT", "OTHER"}
Uploadable(role) ==
  CASE role = "TENANT" -> TenantTypes
    [] role = "OWNER" -> OwnerTypes
    [] role = "INSPECTION_AGENCY" -> AgencyTypes
    [] OTHER -> TenantTypes \cup AgencyTypes

\* validate_move_out_date, in days from today.
MoveOutAccepted(days, minNotice, horizon) ==
  days >= 0 /\ days >= minNotice /\ days <= horizon

\* validate_slot: the lead time (lengths of slots are left out).
SlotAccepted(start, now, lead) == start >= now + lead

\* assessed_total over a report's lines <<n, amount, liable>>; the sum is
\* FiniteSetsExt's and taken by the user of this operator.
LiableLines(lines) == {l \in lines : l[3]}

\* validate_owner_adjustment: the owner may waive damage, never add to it.
AdjustmentAccepted(assessed, final) == final <= assessed

\* Mutant of FloorZero: a plain difference.
Difference(a, b) == a - b

\* subtract_floor_zero, compute_settlement.
FloorZero(a, b) == IF a > b THEN a - b ELSE 0
Breakdown(deposit, deduction) ==
  [deposit |-> deposit, deduction |-> deduction,
   refund |-> FloorZero(deposit, deduction),
   due |-> FloorZero(deduction, deposit)]
=============================================================================
