------------------------------ MODULE A2States ------------------------------
(***************************************************************************)
(* The state machine of run A2 (app/domain): states, the transition table  *)
(* with the roles of each action, and the rules that are pure functions of *)
(* their arguments (notice, documents, dispute window, money).             *)
(***************************************************************************)
EXTENDS Naturals

States ==
  {"DRAFT", "SUBMITTED", "OWNER_APPROVED", "INSPECTION_SLOTS_PROPOSED",
   "INSPECTION_SCHEDULED", "INSPECTION_COMPLETED", "DAMAGE_REVIEW",
   "SETTLEMENT_PENDING", "SETTLEMENT_PROCESSING", "SETTLEMENT_COMPLETED",
   "NOC_ISSUED", "COMPLETED", "REJECTED", "CANCELLED", "EXPIRED"}

Terminal == {"COMPLETED", "REJECTED", "CANCELLED", "EXPIRED"}

\* BLOCKING_STATES: an exit in one of them holds its property, contract and
\* tenant (BR-1).
Blocking == States \ Terminal

Roles == {"TENANT", "OWNER", "INSPECTION_AGENCY", "ADMIN", "SYSTEM"}
Parties == {"TENANT", "OWNER"}

Row(from, action, to, roles) ==
  [from |-> from, action |-> action, to |-> to, roles |-> roles]

\* A pair <<from, action>> occurs once, so an action has one target.
Table ==
  {Row("DRAFT", "submit", "SUBMITTED", {"TENANT"}),
   Row("DRAFT", "cancel", "CANCELLED", {"TENANT"}),
   Row("DRAFT", "expire", "EXPIRED", {"SYSTEM"}),
   Row("SUBMITTED", "owner_approve", "OWNER_APPROVED", {"OWNER"}),
   Row("SUBMITTED", "owner_reject", "REJECTED", {"OWNER"}),
   Row("SUBMITTED", "withdraw", "DRAFT", {"TENANT"}),
   Row("OWNER_APPROVED", "propose_inspection_slots",
       "INSPECTION_SLOTS_PROPOSED", {"INSPECTION_AGENCY"}),
   Row("INSPECTION_SLOTS_PROPOSED", "propose_inspection_slots",
       "INSPECTION_SLOTS_PROPOSED", {"INSPECTION_AGENCY"}),
   Row("INSPECTION_SLOTS_PROPOSED", "select_inspection_slot",
       "INSPECTION_SCHEDULED", Parties),
   Row("INSPECTION_SCHEDULED", "reschedule_inspection",
       "INSPECTION_SLOTS_PROPOSED", Parties \cup {"INSPECTION_AGENCY"}),
   Row("INSPECTION_SCHEDULED", "submit_inspection_report",
       "INSPECTION_COMPLETED", {"INSPECTION_AGENCY"}),
   Row("INSPECTION_COMPLETED", "open_damage_review", "DAMAGE_REVIEW",
       {"OWNER", "SYSTEM"}),
   Row("DAMAGE_REVIEW", "finalise_settlement", "SETTLEMENT_PENDING",
       {"OWNER"}),
   Row("DAMAGE_REVIEW", "request_reinspection",
       "INSPECTION_SLOTS_PROPOSED", {"OWNER"}),
   Row("SETTLEMENT_PENDING", "pay_deposit", "SETTLEMENT_PROCESSING",
       {"OWNER"}),
   Row("SETTLEMENT_PENDING", "reopen_damage_review", "DAMAGE_REVIEW",
       {"OWNER"}),
   Row("SETTLEMENT_PROCESSING", "settlement_succeeded",
       "SETTLEMENT_COMPLETED", {"SYSTEM"}),
   Row("SETTLEMENT_PROCESSING", "settlement_failed", "SETTLEMENT_PENDING",
       {"SYSTEM"}),
   Row("SETTLEMENT_COMPLETED", "issue_noc", "NOC_ISSUED", {"SYSTEM"}),
   Row("NOC_ISSUED", "complete", "COMPLETED", Parties \cup {"SYSTEM"})}
  \cup {Row(s, "cancel", "CANCELLED", Parties) :
          s \in {"SUBMITTED", "OWNER_APPROVED", "INSPECTION_SLOTS_PROPOSED",
                 "INSPECTION_SCHEDULED"}}

\* assert_transition_allowed: the ADMIN may take every row.
May(role, row) == role = "ADMIN" \/ role \in row.roles

\* The roles a route lets through (require_roles); {"SYSTEM"} marks actions
\* no route leads to.
Gates ==
  [action \in {r.action : r \in Table} |->
     CASE action \in {"submit", "withdraw"} -> {"TENANT"}
       [] action \in {"owner_approve", "owner_reject", "finalise_settlement",
                      "request_reinspection", "pay_deposit",
                      "reopen_damage_review"} -> {"OWNER"}
       [] action \in {"cancel", "complete", "select_inspection_slot"} -> Parties
       [] action \in {"propose_inspection_slots", "submit_inspection_report"}
            -> {"INSPECTION_AGENCY"}
       [] action = "reschedule_inspection" -> Parties \cup {"INSPECTION_AGENCY"}
       [] OTHER -> {"SYSTEM"}]

Passes(role, action) ==
  role \in Gates[action] \/ (role = "ADMIN" /\ Gates[action] # {"SYSTEM"})

-----------------------------------------------------------------------------
\* IN_PROGRESS and CANCELLED are declared and never written.
InspectionStatuses ==
  {"REQUESTED", "SLOTS_PROPOSED", "SCHEDULED", "COMPLETED"}
DisputeStatuses == {"NONE", "RAISED", "UPHELD", "REJECTED"}
\* FAILED and CANCELLED are declared and never written.
SettlementStatuses == {"DRAFT", "PENDING_APPROVAL", "PROCESSING", "COMPLETED"}

\* Who may attach which document (AGENCY_DOCUMENT_TYPES).
AgencyDocs == {"INSPECTION_REPORT", "DAMAGE_PHOTO"}
MayAttach(role, type) ==
  \/ role = "ADMIN"
  \/ type \in AgencyDocs /\ role = "INSPECTION_AGENCY"
  \/ type \notin AgencyDocs /\ role \in Parties

\* _UPLOADABLE_STATES
Uploadable ==
  {"DRAFT", "SUBMITTED", "OWNER_APPROVED", "INSPECTION_SLOTS_PROPOSED",
   "INSPECTION_SCHEDULED", "INSPECTION_COMPLETED", "DAMAGE_REVIEW"}

\* assess_move_out_date: a date in the past is refused to everybody, a short
\* notice to everybody but the ADMIN; LANDLORD_REQUEST and
\* PROPERTY_CONDITION make a notice exempt and count as ample.
Notices == {"ample", "short", "past"}
NoticeAccepted(notice, role) ==
  notice = "ample" \/ (notice = "short" /\ role = "ADMIN")

\* assert_documents_complete as configured: no required type, one document
\* (min_documents_for_submission), of whatever type.
DocumentsComplete(present) == present # {}

\* money.settle: the refund floors at zero, the excess is the tenant's debt.
Refund(deposit, deductions) ==
  IF deductions <= deposit THEN deposit - deductions ELSE 0
Liability(deposit, deductions) ==
  IF deductions <= deposit THEN 0 ELSE deductions - deposit
=============================================================================
