----------------------------- MODULE KitStates -----------------------------
(***************************************************************************)
(* The exit-workflow state machine of the specification kit, as run B3     *)
(* compiles it from spec/states.yaml into domain/states.py (runs B1 and B2 *)
(* load the same table).  The table, the actor of every transition and the *)
(* forbidden list are data; StateMachine.validate is Allowed.              *)
(*                                                                         *)
(* A row of the table is a record [from, to, actor]; the field list that   *)
(* the one row INITIATED -> DOCS_SUBMITTED requires is always supplied by  *)
(* its only caller and is left out.                                        *)
(***************************************************************************)
EXTENDS Naturals

WorkflowStates ==
  {"INITIATED", "DOCS_SUBMITTED", "OWNER_NOTIFIED", "INSPECTION_SCHEDULED",
   "INSPECTION_DONE", "DAMAGE_CONFIRMED", "REFUND_PROCESSED", "NOC_ISSUED",
   "COMPLETE", "STALLED"}

Actors == {"tenant", "owner", "inspector", "system"}

Row(f, t, a) == [from |-> f, to |-> t, actor |-> a]

Transitions ==
  {Row("INITIATED", "DOCS_SUBMITTED", "tenant"),
   Row("DOCS_SUBMITTED", "OWNER_NOTIFIED", "system"),
   Row("OWNER_NOTIFIED", "INSPECTION_SCHEDULED", "owner"),
   Row("INSPECTION_SCHEDULED", "INSPECTION_DONE", "inspector"),
   Row("INSPECTION_DONE", "DAMAGE_CONFIRMED", "owner"),
   Row("DAMAGE_CONFIRMED", "REFUND_PROCESSED", "system"),
   Row("REFUND_PROCESSED", "NOC_ISSUED", "system"),
   Row("NOC_ISSUED", "COMPLETE", "system"),
   Row("OWNER_NOTIFIED", "STALLED", "system"),
   Row("INSPECTION_SCHEDULED", "STALLED", "system")}

\* The rows "X -> Y" of the forbidden list.
ForbiddenPairs ==
  {<<"INITIATED", "COMPLETE">>,
   <<"DOCS_SUBMITTED", "REFUND_PROCESSED">>,
   <<"INSPECTION_DONE", "REFUND_PROCESSED">>,
   <<"STALLED", "COMPLETE">>}

\* ForbiddenRule.blocks: a plain pair, or "any -> NOC_ISSUED without
\* REFUND_PROCESSED", which looks at the states the workflow has been in.
Blocked(from, to, history) ==
  \/ <<from, to>> \in ForbiddenPairs
  \/ /\ to = "NOC_ISSUED"
     /\ "REFUND_PROCESSED" \notin history
     /\ from # "REFUND_PROCESSED"

\* StateMachine.validate returns the row; it raises in every other case.
Allowed(from, to, actor, history) ==
  /\ ~ Blocked(from, to, history)
  /\ Row(from, to, actor) \in Transitions

-----------------------------------------------------------------------------
\* What the audit trail of a workflow looks like (EXIT-10).

\* The set A of <<from, to>> pairs is one path through states.yaml from the
\* creation to the state s; "none" has the empty path.
PathTo(s, A) ==
  LET sources == {e[1] : e \in A}
      arrivals == {e[2] : e \in A}
  IN
  /\ s = "none" <=> A = {}
  /\ s # "none" => arrivals \ sources = {s}
  /\ sources \subseteq arrivals \cup {"none"}
  /\ \A e \in A :
       \/ e = <<"none", "INITIATED">>
       \/ \E a \in Actors : Row(e[1], e[2], a) \in Transitions

\* The position of a state in the workflow: no transition goes back.
Rank ==
  [s \in WorkflowStates \cup {"none"} |->
     CASE s = "none" -> 0
       [] s = "INITIATED" -> 1
       [] s = "DOCS_SUBMITTED" -> 2
       [] s = "OWNER_NOTIFIED" -> 3
       [] s = "INSPECTION_SCHEDULED" -> 4
       [] s = "INSPECTION_DONE" -> 5
       [] s = "DAMAGE_CONFIRMED" -> 6
       [] s = "REFUND_PROCESSED" -> 7
       [] s = "NOC_ISSUED" -> 8
       [] OTHER -> 9]

\* A path climbs in rank and ends no higher than s.
Climbs(s, A) ==
  \A e \in A : Rank[e[1]] < Rank[e[2]] /\ Rank[e[2]] <= Rank[s]

=============================================================================
