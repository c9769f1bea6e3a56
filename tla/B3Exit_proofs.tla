--------------------------- MODULE B3Exit_proofs ---------------------------
(***************************************************************************)
(* Proofs about B3Exit, for every number of workflows, contracts,          *)
(* properties and requests, every deposit and every damage.                *)
(*                                                                         *)
(* Three invariants are inductive, each on top of the one before it:       *)
(*   IndInv   types, what a request knows, money and the certificate;      *)
(*   AuditInv the audit trail;                                             *)
(*   LockInv  tenancies, one exit per contract and the exit lock.          *)
(* Each has one step per action.  The liveness properties stay with TLC.   *)
(***************************************************************************)
EXTENDS B3Exit, TLAPS

\* Every transition of states.yaml goes up.
LEMMA TransitionsClimb ==
  ASSUME NEW s, NEW t, NEW a, Row(s, t, a) \in Transitions
  PROVE  /\ s \in WorkflowStates /\ t \in WorkflowStates /\ a \in Actors
         /\ Rank[s] \in Nat /\ Rank[t] \in Nat /\ Rank[s] < Rank[t]
  BY DEF Row, Transitions, WorkflowStates, Actors, Rank

\* A path followed by a transition from its end is a path to the new end.
LEMMA PathGrows ==
  ASSUME NEW s, NEW t, NEW a, Row(s, t, a) \in Transitions,
         NEW A \in SUBSET ((WorkflowStates \cup {"none"}) \X WorkflowStates),
         PathTo(s, A), Climbs(s, A)
  PROVE  /\ PathTo(t, A \cup {<<s, t>>})
         /\ Climbs(t, A \cup {<<s, t>>})
  <1> DEFINE B == A \cup {<<s, t>>}
             sources == {e[1] : e \in A}
             arrivals == {e[2] : e \in A}
  <1>1. /\ s \in WorkflowStates /\ t \in WorkflowStates /\ a \in Actors
        /\ Rank[s] \in Nat /\ Rank[t] \in Nat /\ Rank[s] < Rank[t]
    BY TransitionsClimb
  <1>2. \A u \in WorkflowStates \cup {"none"} : Rank[u] \in Nat
    BY DEF Rank
  <1>3. s # "none" /\ t # "none"
    BY <1>1 DEF WorkflowStates
  <1>4. Climbs(t, B)
    <2>1. ASSUME NEW e \in A
          PROVE  Rank[e[1]] < Rank[e[2]] /\ Rank[e[2]] <= Rank[t]
      BY <1>1, <1>2, <2>1 DEF Climbs
    <2>2. QED
      BY <1>1, <2>1 DEF Climbs
  <1>5. /\ {e[1] : e \in B} = sources \cup {s}
        /\ {e[2] : e \in B} = arrivals \cup {t}
    <2> DEFINE last == <<s, t>>
    <2>1. last[1] = s /\ last[2] = t
      OBVIOUS
    <2>2. \A e : e \in B <=> e \in A \/ e = last
      OBVIOUS
    <2> HIDE DEF last, B
    <2>3. \A x : (\E e \in B : x = e[1]) <=> (\E e \in A : x = e[1]) \/ x = s
      BY <2>1, <2>2, Zenon
    <2>4. \A x : (\E e \in B : x = e[2]) <=> (\E e \in A : x = e[2]) \/ x = t
      BY <2>1, <2>2, Zenon
    <2>5. QED
      BY <2>3, <2>4
  <1>6. arrivals \ sources = {s} /\ sources \subseteq arrivals \cup {"none"}
    BY <1>3 DEF PathTo
  \* The path has not been at t: all it passed is no higher than s.
  <1>7. t \notin sources
    <2>1. ASSUME NEW e \in A, e[1] = t PROVE FALSE
      <3>1. Rank[e[1]] < Rank[e[2]] /\ Rank[e[2]] <= Rank[s]
        BY DEF Climbs
      <3>2. QED
        BY <1>1, <1>2, <2>1, <3>1
    <2>2. QED
      BY <2>1
  <1>8. \A e \in B : \/ e = <<"none", "INITIATED">>
                     \/ \E b \in Actors : Row(e[1], e[2], b) \in Transitions
    BY <1>1 DEF PathTo
  <1>9. (arrivals \cup {t}) \ (sources \cup {s}) = {t}
    BY <1>1, <1>6, <1>7
  <1>10. QED
    BY <1>3, <1>4, <1>5, <1>6, <1>8, <1>9 DEF PathTo

\* states.yaml read backwards: the only origins of each target state.
LEMMA Origins ==
  ASSUME NEW f, NEW t, NEW a, NEW h, Allowed(f, t, a, h)
  PROVE  /\ f \in WorkflowStates /\ t \in WorkflowStates
         /\ t = "DOCS_SUBMITTED" => f = "INITIATED"
         /\ t = "OWNER_NOTIFIED" => f = "DOCS_SUBMITTED"
         /\ t = "INSPECTION_SCHEDULED" => f = "OWNER_NOTIFIED"
         /\ t = "INSPECTION_DONE" => f = "INSPECTION_SCHEDULED"
         /\ t = "DAMAGE_CONFIRMED" => f = "INSPECTION_DONE"
         /\ t = "REFUND_PROCESSED" => f = "DAMAGE_CONFIRMED"
         /\ t = "NOC_ISSUED" => f = "REFUND_PROCESSED"
         /\ t = "COMPLETE" => f = "NOC_ISSUED"
         /\ t = "STALLED" => f \in {"OWNER_NOTIFIED", "INSPECTION_SCHEDULED"}
  BY DEF Allowed, Transitions, Row, WorkflowStates

-----------------------------------------------------------------------------
\* IndInv.

\* The initial state, where there is no workflow and no request, satisfies it.
LEMMA InitInd == Init => IndInv
  BY B3ExitAssumption
  DEF Init, IndInv, TypeOK, RequestsOK, RowsOK, SucceededIsTrue,
      NocOnlyAfterPaid, OneNocWriter, NocRowIffComplete, StalledIffTask,
      RefundOK, Steps, PaymentStatuses, Settled, WorkflowStates

\* Every step writes columns and locals of their types.
LEMMA TypeStep == IndInv /\ [Next]_vars => TypeOK'
  <1> SUFFICES ASSUME IndInv, [Next]_vars PROVE TypeOK'
    OBVIOUS
  <1> USE B3ExitAssumption
      DEF IndInv, TypeOK, tables, leasing, outside, requests, Steps
  <1>1. ASSUME NEW c \in Contracts, AskGuard(c) \/ SignContract(c)
        PROVE  TypeOK'
    <2>1. UnderWay(PropertyOf[c]) \subseteq WorkflowIds
      BY DEF UnderWay
    <2>2. QED
      BY <1>1, <2>1 DEF AskGuard, SignContract
  <1>2. ASSUME NEW w \in WorkflowIds, WindowElapses(w) PROVE TypeOK'
    BY <1>2 DEF WindowElapses
  <1>3. ASSUME NEW r \in Requests, NEW c \in Contracts, InitiateCheck(r, c)
        PROVE TypeOK'
    BY <1>3 DEF InitiateCheck, Goto
  <1>4. ASSUME NEW r \in Requests, NEW w \in WorkflowIds, InitiateInsert(r, w)
        PROVE TypeOK'
    BY <1>4 DEF InitiateInsert, Goto, RequestsOK, WorkflowStates
  <1>5. ASSUME NEW r \in Requests, InitiateRefused(r) PROVE TypeOK'
    BY <1>5 DEF InitiateRefused, Finish
  <1>6. ASSUME NEW r \in Requests, NotifyOwner(r) PROVE TypeOK'
    BY <1>6, Origins DEF NotifyOwner, Finish, Move, MayMove, RequestsOK
  <1>7. ASSUME RecoverUnnotified PROVE TypeOK'
    BY <1>7, Origins DEF RecoverUnnotified, MoveAll, MayMove
  <1>8. ASSUME NEW w \in WorkflowIds, ScheduleInspection(w) PROVE TypeOK'
    BY <1>8, Origins DEF ScheduleInspection, Move, MayMove
  <1>9. ASSUME NEW w \in WorkflowIds, NEW n \in Damages,
               SubmitInspectionReport(w, n)
        PROVE TypeOK'
    BY <1>9, Origins DEF SubmitInspectionReport, Move, MayMove
  <1>10. ASSUME NEW w \in WorkflowIds, ConfirmDamage(w) PROVE TypeOK'
    BY <1>10, Origins DEF ConfirmDamage, Move, MayMove
  <1>11. ASSUME RunStallSweep PROVE TypeOK'
    BY <1>11, Origins DEF RunStallSweep, MoveAll, MayMove
  <1>12. ASSUME NEW r \in Requests, NEW w \in WorkflowIds, SettleCreate(r, w)
         PROVE TypeOK'
    BY <1>12, Origins
    DEF SettleCreate, Move, MayMove, Goto, RefundMinor, RowsOK,
        PaymentStatuses
  <1>13. ASSUME NEW r \in Requests, NEW w \in WorkflowIds, SettleReenter(r, w)
         PROVE TypeOK'
    BY <1>13 DEF SettleReenter, Goto
  <1>14. ASSUME NEW r \in Requests, InitiateRefund(r) PROVE TypeOK'
    BY <1>14 DEF InitiateRefund, Goto, RequestsOK
  <1>15. ASSUME NEW w \in WorkflowIds, GatewaySettles(w) PROVE TypeOK'
    BY <1>15 DEF GatewaySettles, PaymentStatuses
  <1>16. ASSUME NEW r \in Requests, RecordGatewayResult(r) PROVE TypeOK'
    <2>1. target[r] \in WorkflowIds /\ answer[r] \in PaymentStatuses
      BY <1>16 DEF RecordGatewayResult, RequestsOK
    <2>2. payment' \in [WorkflowIds -> PaymentStatuses \cup {"none"}]
      BY <1>16, <2>1 DEF RecordGatewayResult
    <2>3. CASE Goto(r, "issue") /\ UNCHANGED <<target, claim, answer>>
      BY <1>16, <2>2, <2>3 DEF RecordGatewayResult, Goto
    <2>4. CASE Finish(r)
      BY <1>16, <2>2, <2>4 DEF RecordGatewayResult, Finish
    <2>5. QED
      BY <1>16, <2>3, <2>4 DEF RecordGatewayResult
  <1>17. ASSUME NEW r \in Requests, IssueRefused(r) PROVE TypeOK'
    BY <1>17 DEF IssueRefused, Finish
  <1>18. ASSUME NEW r \in Requests, IssueStore(r) PROVE TypeOK'
    BY <1>18 DEF IssueStore, Goto, RequestsOK
  <1>19. ASSUME NEW r \in Requests, IssueCommit(r) PROVE TypeOK'
    <2> DEFINE w == target[r]
    <2>1. w \in WorkflowIds
      BY <1>19 DEF IssueCommit, RequestsOK
    <2>2. <<status[w], "NOC_ISSUED">> \in (WorkflowStates \cup {"none"}) \X WorkflowStates
      BY <1>19, <2>1, Origins DEF IssueCommit, MayMove
    <2>3. <<"NOC_ISSUED", "COMPLETE">> \in (WorkflowStates \cup {"none"}) \X WorkflowStates
      BY DEF WorkflowStates
    <2>4. audit' \in [WorkflowIds ->
                     SUBSET ((WorkflowStates \cup {"none"}) \X WorkflowStates)]
      BY <1>19, <2>1, <2>2, <2>3 DEF IssueCommit
    <2>5. QED
      BY <1>19, <2>1, <2>4 DEF IssueCommit, Finish, WorkflowStates
  <1>20. ASSUME NEW r \in Requests, Crash(r) PROVE TypeOK'
    BY <1>20 DEF Crash, Finish
  <1>21. CASE UNCHANGED vars
    BY <1>21 DEF vars
  <1>22. QED
    BY <1>1, <1>2, <1>3, <1>4, <1>5, <1>6, <1>7, <1>8, <1>9, <1>10, <1>11,
       <1>12, <1>13, <1>14, <1>15, <1>16, <1>17, <1>18, <1>19, <1>20, <1>21
    DEF Next, Users, Jobs, Service, Environment

\* Every step keeps what a request knows of its rows, that one settlement at a
\* time writes the certificate, and the two lists of ended workflows.
LEMMA RowsStep ==
  IndInv /\ [Next]_vars => /\ RequestsOK' /\ RowsOK' /\ OneNocWriter'
                           /\ NocRowIffComplete' /\ StalledIffTask'
  <1> DEFINE Kept == /\ RequestsOK' /\ RowsOK' /\ OneNocWriter'
                           /\ NocRowIffComplete' /\ StalledIffTask'
  <1> SUFFICES ASSUME IndInv, [Next]_vars PROVE Kept
    OBVIOUS
  <1> USE B3ExitAssumption
      DEF IndInv, TypeOK, RequestsOK, RowsOK, OneNocWriter, NocRowIffComplete,
          StalledIffTask, tables, leasing, outside, requests, Settled
  <1>1. ASSUME NEW c \in Contracts, AskGuard(c) \/ SignContract(c)
        PROVE  Kept
    BY <1>1 DEF AskGuard, SignContract
  <1>2. ASSUME NEW v \in WorkflowIds, WindowElapses(v) PROVE Kept
    BY <1>2 DEF WindowElapses
  <1>3. ASSUME NEW q \in Requests, NEW c \in Contracts, InitiateCheck(q, c)
        PROVE Kept
    BY <1>3 DEF InitiateCheck, Goto
  <1>4. ASSUME NEW q \in Requests, NEW v \in WorkflowIds, InitiateInsert(q, v)
        PROVE Kept
    BY <1>4 DEF InitiateInsert, Goto
  <1>5. ASSUME NEW q \in Requests, InitiateRefused(q) PROVE Kept
    BY <1>5 DEF InitiateRefused, Finish
  <1>6. ASSUME NEW q \in Requests, NotifyOwner(q) PROVE Kept
    BY <1>6, Origins DEF NotifyOwner, Finish, Move, MayMove
  <1>7. ASSUME RecoverUnnotified PROVE Kept
    BY <1>7, Origins DEF RecoverUnnotified, MoveAll, MayMove
  <1>8. ASSUME NEW v \in WorkflowIds, ScheduleInspection(v) PROVE Kept
    BY <1>8, Origins DEF ScheduleInspection, Move, MayMove
  <1>9. ASSUME NEW v \in WorkflowIds,
               NEW n \in Damages, SubmitInspectionReport(v, n)
        PROVE Kept
    BY <1>9, Origins DEF SubmitInspectionReport, Move, MayMove
  <1>10. ASSUME NEW v \in WorkflowIds, ConfirmDamage(v) PROVE Kept
    BY <1>10, Origins DEF ConfirmDamage, Move, MayMove
  <1>11. ASSUME RunStallSweep PROVE Kept
    BY <1>11, Origins DEF RunStallSweep, MoveAll, MayMove
  <1>12. ASSUME NEW q \in Requests, NEW v \in WorkflowIds, SettleCreate(q, v)
        PROVE Kept
    BY <1>12, Origins DEF SettleCreate, Move, MayMove, Goto
  <1>13. ASSUME NEW q \in Requests, NEW v \in WorkflowIds, SettleReenter(q, v)
        PROVE Kept
    BY <1>13 DEF SettleReenter, Goto
  <1>14. ASSUME NEW q \in Requests, InitiateRefund(q) PROVE Kept
    BY <1>14 DEF InitiateRefund, Goto
  <1>15. ASSUME NEW v \in WorkflowIds, GatewaySettles(v) PROVE Kept
    BY <1>15 DEF GatewaySettles
  <1>16. ASSUME NEW q \in Requests, RecordGatewayResult(q) PROVE Kept
    BY <1>16 DEF RecordGatewayResult, Goto, Finish
  <1>17. ASSUME NEW q \in Requests, IssueRefused(q) PROVE Kept
    BY <1>17 DEF IssueRefused, Finish
  <1>18. ASSUME NEW q \in Requests, IssueStore(q) PROVE Kept
    BY <1>18 DEF IssueStore, Goto
  <1>19. ASSUME NEW q \in Requests, IssueCommit(q) PROVE Kept
    BY <1>19, Origins DEF IssueCommit, Finish, MayMove
  <1>20. ASSUME NEW q \in Requests, Crash(q) PROVE Kept
    BY <1>20 DEF Crash, Finish
  <1>21. CASE UNCHANGED vars
    BY <1>21 DEF vars
  <1>22. QED
    BY <1>1, <1>2, <1>3, <1>4, <1>5, <1>6, <1>7, <1>8, <1>9, <1>10, <1>11,
       <1>12, <1>13, <1>14, <1>15, <1>16, <1>17, <1>18, <1>19, <1>20, <1>21
    DEF Next, Users, Jobs, Service, Environment

\* Every step keeps the money right: SUCCEEDED comes from the gateway, a
\* certificate from SUCCEEDED, the amount from the confirmed damage.
LEMMA MoneyStep ==
  IndInv /\ [Next]_vars => SucceededIsTrue' /\ NocOnlyAfterPaid' /\ RefundOK'
  <1> DEFINE Kept == SucceededIsTrue' /\ NocOnlyAfterPaid' /\ RefundOK'
  <1> SUFFICES ASSUME IndInv, [Next]_vars PROVE Kept
    OBVIOUS
  <1> USE B3ExitAssumption
      DEF IndInv, TypeOK, RequestsOK, RowsOK, OneNocWriter, SucceededIsTrue,
          NocOnlyAfterPaid, RefundOK, tables, leasing, outside, requests, Settled
  <1>1. ASSUME NEW c \in Contracts, AskGuard(c) \/ SignContract(c)
        PROVE  Kept
    BY <1>1 DEF AskGuard, SignContract
  <1>2. ASSUME NEW v \in WorkflowIds, WindowElapses(v) PROVE Kept
    BY <1>2 DEF WindowElapses
  <1>3. ASSUME NEW q \in Requests, NEW c \in Contracts, InitiateCheck(q, c)
        PROVE Kept
    BY <1>3 DEF InitiateCheck, Goto
  <1>4. ASSUME NEW q \in Requests, NEW v \in WorkflowIds, InitiateInsert(q, v)
        PROVE Kept
    BY <1>4 DEF InitiateInsert, Goto
  <1>5. ASSUME NEW q \in Requests, InitiateRefused(q) PROVE Kept
    BY <1>5 DEF InitiateRefused, Finish
  <1>6. ASSUME NEW q \in Requests, NotifyOwner(q) PROVE Kept
    BY <1>6, Origins DEF NotifyOwner, Finish, Move, MayMove
  <1>7. ASSUME RecoverUnnotified PROVE Kept
    BY <1>7, Origins DEF RecoverUnnotified, MoveAll, MayMove
  <1>8. ASSUME NEW v \in WorkflowIds, ScheduleInspection(v) PROVE Kept
    BY <1>8, Origins DEF ScheduleInspection, Move, MayMove
  <1>9. ASSUME NEW v \in WorkflowIds,
               NEW n \in Damages, SubmitInspectionReport(v, n)
        PROVE Kept
    BY <1>9, Origins DEF SubmitInspectionReport, Move, MayMove
  <1>10. ASSUME NEW v \in WorkflowIds, ConfirmDamage(v) PROVE Kept
    BY <1>10, Origins DEF ConfirmDamage, Move, MayMove
  <1>11. ASSUME RunStallSweep PROVE Kept
    BY <1>11, Origins DEF RunStallSweep, MoveAll, MayMove
  <1>12. ASSUME NEW q \in Requests, NEW v \in WorkflowIds, SettleCreate(q, v)
        PROVE Kept
    <2>1. /\ status[v] = "DAMAGE_CONFIRMED"
          /\ damage[v] \in Nat /\ Deposit[contract[v]] \in Nat
      BY <1>12 DEF SettleCreate
    <2>2. damage[v] <= Deposit[contract[v]]
      BY <1>12 DEF SettleCreate
    <2>3. RefundMinor(Deposit[contract[v]], damage[v])
            = Deposit[contract[v]] - damage[v]
      BY <2>1, <2>2 DEF RefundMinor
    <2>4. gateway[v] = "none"
      BY <2>1
    <2>5. SucceededIsTrue' /\ NocOnlyAfterPaid'
      BY <1>12 DEF SettleCreate, Goto
    <2>6. RefundOK'
      BY <1>12, <2>1, <2>2, <2>3, <2>4 DEF SettleCreate, Move
    <2>7. QED
      BY <2>5, <2>6
  <1>13. ASSUME NEW q \in Requests, NEW v \in WorkflowIds, SettleReenter(q, v)
        PROVE Kept
    BY <1>13 DEF SettleReenter, Goto
  <1>14. ASSUME NEW q \in Requests, InitiateRefund(q) PROVE Kept
    <2> DEFINE w == target[q]
    <2>1. w \in WorkflowIds /\ status[w] \in Settled /\ pc[q] = "gateway"
      BY <1>14 DEF InitiateRefund
    \* The answer is the gateway's own, and no SUCCEEDED is taken back.
    <2>2. SucceededIsTrue'
      BY <1>14, <2>1 DEF InitiateRefund, Goto
    <2>3. NocOnlyAfterPaid'
      BY <1>14, <2>1 DEF InitiateRefund
    <2>4. RefundOK'
      BY <1>14, <2>1 DEF InitiateRefund
    <2>5. QED
      BY <2>2, <2>3, <2>4
  <1>15. ASSUME NEW v \in WorkflowIds, GatewaySettles(v) PROVE Kept
    BY <1>15 DEF GatewaySettles
  <1>16. ASSUME NEW q \in Requests, RecordGatewayResult(q) PROVE Kept
    BY <1>16 DEF RecordGatewayResult, Goto, Finish
  <1>17. ASSUME NEW q \in Requests, IssueRefused(q) PROVE Kept
    BY <1>17 DEF IssueRefused, Finish
  <1>18. ASSUME NEW q \in Requests, IssueStore(q) PROVE Kept
    BY <1>18 DEF IssueStore, Goto
  <1>19. ASSUME NEW q \in Requests, IssueCommit(q) PROVE Kept
    BY <1>19, Origins DEF IssueCommit, Finish, MayMove
  <1>20. ASSUME NEW q \in Requests, Crash(q) PROVE Kept
    BY <1>20 DEF Crash, Finish
  <1>21. CASE UNCHANGED vars
    BY <1>21 DEF vars
  <1>22. QED
    BY <1>1, <1>2, <1>3, <1>4, <1>5, <1>6, <1>7, <1>8, <1>9, <1>10, <1>11,
       <1>12, <1>13, <1>14, <1>15, <1>16, <1>17, <1>18, <1>19, <1>20, <1>21
    DEF Next, Users, Jobs, Service, Environment

\* IndInv holds in every reachable state.
THEOREM Invariance == Spec => []IndInv
  <1>1. IndInv /\ [Next]_vars => IndInv'
    BY TypeStep, RowsStep, MoneyStep DEF IndInv
  <1>2. QED
    BY InitInd, <1>1, PTL DEF Spec

\* Every column and every local of a request keeps its type.
THEOREM TypeCorrect == Spec => []TypeOK
  BY Invariance, PTL DEF IndInv

\* EXIT-08: no certificate, as object or as row, without the money, in whatever
\* order concurrent settlements record the gateway's answers.
THEOREM NocNeedsMoney == Spec => []NocOnlyAfterPaid
  BY Invariance, PTL DEF IndInv

\* EXIT-09: at most one settlement is between the PDF and its commit.
THEOREM SingleNocWriter == Spec => []OneNocWriter
  BY Invariance, PTL DEF IndInv

\* EXIT-09: the NOC row and COMPLETE appear in one commit.
THEOREM NocWithComplete == Spec => []NocRowIffComplete
  BY Invariance, PTL DEF IndInv

\* EXIT-07: the gateway is only ever asked for the deposit less the damage the
\* owner confirmed, whatever the amounts are.
THEOREM RefundIsRight == Spec => []ChargedIsDepositLessDamage
  <1>1. IndInv => ChargedIsDepositLessDamage
    BY DEF IndInv, RefundOK, ChargedIsDepositLessDamage
  <1>2. QED
    BY Invariance, <1>1, PTL

\* EXIT-05: the administrators' list is the stalled workflows.
THEOREM StalledAreReported == Spec => []StalledIffTask
  BY Invariance, PTL DEF IndInv

\* The right amount, the certificate after the money, by one writer, and with
\* COMPLETE.
THEOREM MoneyComesFirst == Spec => []MoneyThenNoc
  BY RefundIsRight, NocNeedsMoney, SingleNocWriter, NocWithComplete, PTL
  DEF MoneyThenNoc

-----------------------------------------------------------------------------
\* AuditInv.

\* No workflow, no path.
LEMMA InitAudit == Init => AuditInv
  BY DEF Init, AuditInv, PathTo, Climbs

\* One transition of one workflow keeps the trails.
LEMMA MoveKeepsTrail ==
  ASSUME TypeOK, AuditInv, NEW w \in WorkflowIds, NEW to, NEW a, Move(w, to, a)
  PROVE  AuditInv'
  <1>1. Row(status[w], to, a) \in Transitions
    BY DEF Move, MayMove, Allowed
  <1>2. /\ PathTo(to, audit[w] \cup {<<status[w], to>>})
        /\ Climbs(to, audit[w] \cup {<<status[w], to>>})
    BY <1>1, PathGrows DEF AuditInv, TypeOK
  <1>3. QED
    BY <1>2 DEF AuditInv, TypeOK, Move

\* So does one transition of every workflow of a sweep.
LEMMA MoveAllKeepsTrail ==
  ASSUME TypeOK, AuditInv, NEW batch \in SUBSET WorkflowIds, NEW to, NEW a,
         MoveAll(batch, to, a)
  PROVE  AuditInv'
  <1>1. ASSUME NEW w \in batch
        PROVE  /\ PathTo(to, audit[w] \cup {<<status[w], to>>})
               /\ Climbs(to, audit[w] \cup {<<status[w], to>>})
    <2>1. Row(status[w], to, a) \in Transitions
      BY DEF MoveAll, MayMove, Allowed
    <2>2. QED
      BY <2>1, PathGrows DEF AuditInv, TypeOK
  <1>2. QED
    BY <1>1 DEF AuditInv, TypeOK, MoveAll

\* Every step keeps the trails.
LEMMA AuditStep == IndInv /\ AuditInv /\ [Next]_vars => AuditInv'
  <1> SUFFICES ASSUME IndInv, AuditInv, [Next]_vars PROVE AuditInv'
    OBVIOUS
  <1> USE DEF tables, leasing, outside, requests
  <1>1. TypeOK
    BY DEF IndInv
  <1>2. UNCHANGED <<status, audit>> => AuditInv'
    BY DEF AuditInv
  <1>3. ASSUME NEW q \in Requests, NEW w \in WorkflowIds, InitiateInsert(q, w)
        PROVE AuditInv'
    <2> DEFINE A == {<<"none", "INITIATED">>, <<"INITIATED", "DOCS_SUBMITTED">>}
    <2>1. Row("INITIATED", "DOCS_SUBMITTED", "tenant") \in Transitions
      BY DEF Transitions
    <2>2. PathTo("DOCS_SUBMITTED", A)
      <3>1. {e[1] : e \in A} = {"none", "INITIATED"}
        OBVIOUS
      <3>2. {e[2] : e \in A} = {"INITIATED", "DOCS_SUBMITTED"}
        OBVIOUS
      <3>3. QED
        BY <2>1, <3>1, <3>2 DEF PathTo, Actors
    <2>3. Climbs("DOCS_SUBMITTED", A)
      BY DEF Climbs, Rank, WorkflowStates
    <2>4. QED
      BY <1>1, <1>3, <2>2, <2>3 DEF InitiateInsert, AuditInv, TypeOK
  <1>4. ASSUME NEW q \in Requests, NotifyOwner(q) PROVE AuditInv'
    BY <1>1, <1>2, <1>4, MoveKeepsTrail DEF NotifyOwner, IndInv, RequestsOK
  <1>5. ASSUME RecoverUnnotified PROVE AuditInv'
    BY <1>1, <1>5, MoveAllKeepsTrail DEF RecoverUnnotified
  <1>6. ASSUME NEW w \in WorkflowIds, ScheduleInspection(w) PROVE AuditInv'
    BY <1>1, <1>6, MoveKeepsTrail DEF ScheduleInspection
  <1>7. ASSUME NEW w \in WorkflowIds, NEW n \in Damages,
               SubmitInspectionReport(w, n)
        PROVE AuditInv'
    BY <1>1, <1>7, MoveKeepsTrail DEF SubmitInspectionReport
  <1>8. ASSUME NEW w \in WorkflowIds, ConfirmDamage(w) PROVE AuditInv'
    BY <1>1, <1>8, MoveKeepsTrail DEF ConfirmDamage
  <1>9. ASSUME RunStallSweep PROVE AuditInv'
    <2>1. \A w \in late : w \in WorkflowIds
      BY <1>1 DEF TypeOK
    <2>2. QED
      BY <1>1, <1>9, <2>1, MoveAllKeepsTrail DEF RunStallSweep
  <1>10. ASSUME NEW q \in Requests, NEW w \in WorkflowIds, SettleCreate(q, w)
         PROVE AuditInv'
    BY <1>1, <1>10, MoveKeepsTrail DEF SettleCreate
  <1>11. ASSUME NEW q \in Requests, IssueCommit(q) PROVE AuditInv'
    <2> DEFINE w == target[q]
               A == audit[w] \cup {<<"REFUND_PROCESSED", "NOC_ISSUED">>}
    <2>1. w \in WorkflowIds /\ status[w] = "REFUND_PROCESSED"
      BY <1>11 DEF IssueCommit, IndInv, RequestsOK, OneNocWriter
    <2>2. /\ Row("REFUND_PROCESSED", "NOC_ISSUED", "system") \in Transitions
          /\ Row("NOC_ISSUED", "COMPLETE", "system") \in Transitions
      BY DEF Transitions
    <2>3. PathTo("NOC_ISSUED", A) /\ Climbs("NOC_ISSUED", A)
      BY <1>1, <2>1, <2>2, PathGrows DEF AuditInv, TypeOK
    <2>4. A \in SUBSET ((WorkflowStates \cup {"none"}) \X WorkflowStates)
      BY <1>1, <2>1 DEF TypeOK, WorkflowStates
    <2>5. /\ PathTo("COMPLETE", A \cup {<<"NOC_ISSUED", "COMPLETE">>})
          /\ Climbs("COMPLETE", A \cup {<<"NOC_ISSUED", "COMPLETE">>})
      BY <2>2, <2>3, <2>4, PathGrows
    <2>6. audit'[w] = A \cup {<<"NOC_ISSUED", "COMPLETE">>}
      BY <1>1, <1>11, <2>1 DEF IssueCommit, TypeOK
    <2>7. QED
      BY <1>1, <1>11, <2>1, <2>5, <2>6 DEF IssueCommit, AuditInv, TypeOK
  <1>12. ASSUME \/ \E c \in Contracts : AskGuard(c) \/ SignContract(c)
                \/ \E w \in WorkflowIds : WindowElapses(w) \/ GatewaySettles(w)
                \/ \E q \in Requests, c \in Contracts : InitiateCheck(q, c)
                \/ \E q \in Requests, w \in WorkflowIds : SettleReenter(q, w)
                \/ \E q \in Requests : \/ InitiateRefused(q) \/ InitiateRefund(q)
                                       \/ RecordGatewayResult(q)
                                       \/ IssueRefused(q) \/ IssueStore(q)
                                       \/ Crash(q)
                \/ UNCHANGED vars
         PROVE AuditInv'
    BY <1>2, <1>12
    DEF AskGuard, SignContract, WindowElapses, GatewaySettles, InitiateCheck,
        SettleReenter, InitiateRefused, InitiateRefund, RecordGatewayResult,
        IssueRefused, IssueStore, Crash, vars
  <1>13. QED
    BY <1>3, <1>4, <1>5, <1>6, <1>7, <1>8, <1>9, <1>10, <1>11, <1>12
    DEF Next, Users, Jobs, Service, Environment

\* AuditInv holds in every reachable state.
THEOREM AuditInvariance == Spec => []AuditInv
  BY InitAudit, AuditStep, Invariance, PTL DEF Spec

\* EXIT-10: the audit table of every workflow is one path through states.yaml
\* that ends at its status.
THEOREM TrailIsAPath == Spec => []AuditTrailIsAPath
  <1>1. AuditInv => AuditTrailIsAPath
    BY DEF AuditInv, AuditTrailIsAPath
  <1>2. QED
    BY AuditInvariance, <1>1, PTL

\* The types, the audit trails and the administrators' list, as one.
THEOREM RecordsStayRight == Spec => []RecordsAgree
  BY TypeCorrect, TrailIsAPath, StalledAreReported, PTL DEF RecordsAgree

-----------------------------------------------------------------------------
\* LockInv.

\* A step that leaves the contract column, the active contracts, the locks, the
\* claims and every initiating request alone, completes nothing and creates
\* nothing, keeps the lock discipline.
LEMMA QuietStep ==
  ASSUME IndInv, LockInv,
         UNCHANGED <<active, seen, contract, lock>>,
         \A w \in WorkflowIds :
           /\ status'[w] = "none" <=> status[w] = "none"
           /\ status'[w] = "COMPLETE" <=> status[w] = "COMPLETE",
         \A r \in Requests :
           pc'[r] = "insert" => pc[r] = "insert" /\ claim'[r] = claim[r]
  PROVE  LockInv'
  <1>. USE DEF LockInv, PropertyOfWorkflow
  <1>1. TenancyOK'
    BY DEF TenancyOK, Ended
  <1>2. OneExitPerContract'
    BY DEF OneExitPerContract
  <1>3. ExclusiveTenancy => IncompleteHoldsLock'
    BY DEF IncompleteHoldsLock
  <1>4. ExclusiveTenancy => LockHasIncompleteHolder'
    BY DEF LockHasIncompleteHolder, IndInv, TypeOK
  <1>5. GuardOK'
    BY DEF GuardOK, Shared
  <1>6. QED
    BY <1>1, <1>2, <1>3, <1>4, <1>5

\* The guard answers at once; an exit under way that it does not see shares its
\* lock with another one.
LEMMA AskKeepsLocks ==
  ASSUME IndInv, LockInv, NEW c \in Contracts, AskGuard(c)
  PROVE  LockInv'
  <1>1. UNCHANGED <<active, contract, status, lock, pc, claim>>
    BY DEF AskGuard, tables, requests
  <1>2. LockInv!1' /\ LockInv!3' /\ LockInv!4'
    BY <1>1
    DEF LockInv, TenancyOK, Ended, OneExitPerContract, IncompleteHoldsLock,
        LockHasIncompleteHolder, PropertyOfWorkflow
  <1>3. \A w \in WorkflowIds : Shared(w)' <=> Shared(w)
    BY <1>1 DEF Shared, PropertyOfWorkflow
  <1>4. ASSUME NEW w \in UnderWay(PropertyOf[c])
        PROVE  /\ w \in WorkflowIds
               /\ contract[w] # Nobody /\ PropertyOfWorkflow(w) = PropertyOf[c]
               /\ Shared(w)
    <2>1. /\ w \in WorkflowIds /\ status[w] \notin {"none", "COMPLETE"}
          /\ PropertyOfWorkflow(w) = PropertyOf[c]
      BY DEF UnderWay
    <2>2. lock[PropertyOfWorkflow(w)] # w /\ contract[w] # Nobody
      BY <2>1, B3ExitAssumption DEF AskGuard, IndInv, RowsOK
    <2>3. QED
      BY <2>1, <2>2 DEF LockInv, GuardOK
  <1>5. GuardOK'
    <2>1. ASSUME NEW w \in WorkflowIds,
                 status[w] \notin {"none", "COMPLETE"},
                 lock[PropertyOfWorkflow(w)] # w
          PROVE  Shared(w)
      BY <2>1 DEF LockInv, GuardOK
    <2>2. ASSUME NEW d \in Contracts, NEW w \in seen'[d]
          PROVE  /\ contract[w] # Nobody
                 /\ PropertyOfWorkflow(w) = PropertyOf[d]
                 /\ w \in WorkflowIds /\ Shared(w)
      <3>1. seen'[d] = IF d = c THEN UnderWay(PropertyOf[c]) ELSE seen[d]
        BY DEF AskGuard, IndInv, TypeOK
      <3>2. CASE d = c
        BY <1>4, <3>1, <3>2
      <3>3. CASE d # c
        BY <3>1, <3>3 DEF LockInv, GuardOK, IndInv, TypeOK
      <3>4. QED
        BY <3>2, <3>3
    <2>3. QED
      BY <1>1, <1>3, <2>1, <2>2 DEF GuardOK, PropertyOfWorkflow
  <1>6. QED
    BY <1>2, <1>5 DEF LockInv

\* Under exclusive tenancy a contract is signed beside exits that are over.
LEMMA SignKeepsLocks ==
  ASSUME IndInv, LockInv, NEW c \in Contracts, SignContract(c)
  PROVE  LockInv'
  <1>. USE DEF LockInv, SignContract, requests, tables
  <1>1. (\A w \in WorkflowIds : contract[w] # Nobody => contract[w] \in active)'
    BY DEF TenancyOK
  <1>2. (\A r \in Requests : pc[r] = "insert" => claim[r] \in active)'
    BY DEF TenancyOK
  <1>3. ASSUME ExclusiveTenancy,
               NEW d \in active, PropertyOf[d] = PropertyOf[c]
        PROVE  Ended(d)
    BY <1>3
  <1>4. TenancyOK'
    BY <1>1, <1>2, <1>3 DEF TenancyOK, Ended
  <1>5. OneExitPerContract'
    BY DEF OneExitPerContract
  <1>6. ExclusiveTenancy => IncompleteHoldsLock' /\ LockHasIncompleteHolder'
    BY DEF IncompleteHoldsLock, LockHasIncompleteHolder, PropertyOfWorkflow
  <1>7. GuardOK'
    <2>1. \A d \in Contracts : seen'[d] \subseteq seen[d]
      BY DEF IndInv, TypeOK
    <2>2. QED
      BY <2>1 DEF GuardOK, Shared, PropertyOfWorkflow
  <1>8. QED
    BY <1>4, <1>5, <1>6, <1>7

\* The insert takes the lock from nobody who still needs it.
LEMMA InsertKeepsLocks ==
  ASSUME IndInv, LockInv, NEW r \in Requests, NEW w \in WorkflowIds,
         InitiateInsert(r, w)
  PROVE  LockInv'
  <1>. DEFINE c == claim[r]
  <1>. USE DEF LockInv
  <1>1. /\ c \in active /\ c \in Contracts /\ c # Nobody
        /\ \A v \in WorkflowIds : contract[v] # c
        /\ contract[w] = Nobody
    BY B3ExitAssumption
    DEF InitiateInsert, ContractIsUnique, TenancyOK, IndInv, TypeOK,
        RequestsOK, RowsOK
  <1>2. /\ contract' = [contract EXCEPT ![w] = c]
        /\ status' = [status EXCEPT ![w] = "DOCS_SUBMITTED"]
        /\ lock' = [lock EXCEPT ![PropertyOf[c]] = w]
        /\ active' = active
        /\ status[w] = "none"
    BY DEF InitiateInsert, leasing
  <1>3. /\ contract \in [WorkflowIds -> Contracts \cup {Nobody}]
        /\ status \in [WorkflowIds -> WorkflowStates \cup {"none"}]
        /\ lock \in [Properties -> WorkflowIds \cup {Nobody}]
        /\ PropertyOf \in [Contracts -> Properties]
    BY B3ExitAssumption DEF IndInv, TypeOK
  <1>4. \A d \in Contracts : Ended(d) => Ended(d)'
    BY <1>2, <1>3 DEF Ended
  <1>5. TenancyOK'
    <2>1. (\A v \in WorkflowIds : contract[v] # Nobody => contract[v] \in active)'
      BY <1>1, <1>2, <1>3 DEF TenancyOK
    <2>2. (\A q \in Requests : pc[q] = "insert" => claim[q] \in active)'
      BY DEF InitiateInsert, Goto, TenancyOK, IndInv, TypeOK, leasing
    <2>3. QED
      BY <1>2, <1>4, <2>1, <2>2 DEF TenancyOK, IndInv, TypeOK
  <1>6. OneExitPerContract'
    BY <1>1, <1>2, <1>3 DEF OneExitPerContract
  <1>7. ASSUME ExclusiveTenancy, NEW v \in WorkflowIds, v # w,
               status[v] \notin {"none", "COMPLETE"}
        PROVE  PropertyOf[contract[v]] # PropertyOf[c]
    <2>1. contract[v] \in active /\ contract[v] # c
      BY <1>1, <1>3, <1>7 DEF TenancyOK, IndInv, RowsOK
    <2>2. ~ Ended(c)
      BY <1>1 DEF Ended
    <2>3. ~ Ended(contract[v])
      BY <1>3, <1>7, <2>1, B3ExitAssumption
      DEF Ended, OneExitPerContract, IndInv, TypeOK
    <2>4. QED
      BY <1>1, <1>7, <2>1, <2>2, <2>3 DEF TenancyOK
  <1>8. ExclusiveTenancy => IncompleteHoldsLock'
    BY <1>1, <1>2, <1>3, <1>7
    DEF IncompleteHoldsLock, PropertyOfWorkflow, IndInv, RowsOK
  <1>9. ExclusiveTenancy => LockHasIncompleteHolder'
    BY <1>1, <1>2, <1>3 DEF LockHasIncompleteHolder, PropertyOfWorkflow
  <1>10. GuardOK'
    <2>1. \A v \in WorkflowIds :
            contract[v] # Nobody => v # w /\ contract'[v] = contract[v]
      BY <1>1, <1>2, <1>3
    <2>2. ASSUME NEW v \in WorkflowIds, contract[v] # Nobody, Shared(v)
          PROVE  Shared(v)'
      BY <2>1, <2>2 DEF Shared, PropertyOfWorkflow
    <2>3. ASSUME NEW v \in WorkflowIds,
                 status'[v] \notin {"none", "COMPLETE"},
                 lock'[PropertyOf[contract'[v]]] # v
          PROVE  Shared(v)'
      <3>1. v # w
        BY <1>1, <1>2, <1>3, <2>3
      <3>2. /\ status[v] \notin {"none", "COMPLETE"}
            /\ contract[v] \in Contracts /\ contract[v] # Nobody
        BY <1>2, <1>3, <2>3, <3>1, B3ExitAssumption DEF IndInv, RowsOK
      <3>3. CASE PropertyOf[contract[v]] = PropertyOf[c]
        <4>1. /\ contract'[w] # Nobody /\ contract'[w] = c
              /\ contract'[v] = contract[v]
          BY <1>1, <1>2, <1>3, <2>1, <3>2
        <4>2. QED
          BY <3>1, <3>3, <4>1 DEF Shared, PropertyOfWorkflow
      <3>4. CASE PropertyOf[contract[v]] # PropertyOf[c]
        <4>1. lock[PropertyOfWorkflow(v)] # v
          BY <1>1, <1>2, <1>3, <2>1, <2>3, <3>2, <3>4 DEF PropertyOfWorkflow
        <4>2. QED
          BY <2>2, <3>2, <4>1 DEF GuardOK
      <3>5. QED
        BY <3>3, <3>4
    <2>4. ASSUME NEW d \in Contracts, NEW v \in seen[d]
          PROVE  /\ contract'[v] # Nobody
                 /\ PropertyOf[contract'[v]] = PropertyOf[d]
                 /\ Shared(v)'
      <3>1. v \in WorkflowIds
        BY DEF IndInv, TypeOK
      <3>2. /\ contract[v] # Nobody /\ PropertyOfWorkflow(v) = PropertyOf[d]
            /\ Shared(v)
        BY DEF GuardOK
      <3>3. QED
        BY <2>1, <2>2, <3>1, <3>2 DEF PropertyOfWorkflow
    <2>5. seen' = seen
      BY DEF InitiateInsert, leasing
    <2>6. QED
      BY <2>3, <2>4, <2>5 DEF GuardOK, PropertyOfWorkflow
  <1>11. QED
    BY <1>5, <1>6, <1>8, <1>9, <1>10

\* The release frees the lock of the workflow that completes and no other.
LEMMA CommitKeepsLocks ==
  ASSUME IndInv, LockInv, NEW r \in Requests, IssueCommit(r)
  PROVE  LockInv'
  <1>. DEFINE w == target[r]
  <1>. USE DEF LockInv
  <1>1. w \in WorkflowIds /\ status[w] = "REFUND_PROCESSED"
    BY DEF IssueCommit, IndInv, RequestsOK, OneNocWriter
  <1>2. /\ status' = [status EXCEPT ![w] = "COMPLETE"]
        /\ lock' = [lock EXCEPT ![PropertyOfWorkflow(w)] = Nobody]
        /\ active' = active
        /\ contract' = contract
    BY DEF IssueCommit, leasing
  <1>3. /\ contract \in [WorkflowIds -> Contracts \cup {Nobody}]
        /\ status \in [WorkflowIds -> WorkflowStates \cup {"none"}]
        /\ lock \in [Properties -> WorkflowIds \cup {Nobody}]
        /\ PropertyOf \in [Contracts -> Properties]
        /\ contract[w] \in Contracts
        /\ PropertyOfWorkflow(w) \in Properties
    BY <1>1, B3ExitAssumption DEF IndInv, TypeOK, RowsOK, PropertyOfWorkflow
  <1>4. TenancyOK'
    <2>1. \A d \in Contracts : Ended(d) => Ended(d)'
      BY <1>2, <1>3 DEF Ended
    <2>2. (\A q \in Requests : pc[q] = "insert" => claim[q] \in active)'
      BY <1>2 DEF IssueCommit, Finish, TenancyOK, IndInv, TypeOK
    <2>3. QED
      BY <1>2, <2>1, <2>2 DEF TenancyOK, IndInv, TypeOK
  <1>5. OneExitPerContract'
    BY <1>2 DEF OneExitPerContract
  <1>6. ExclusiveTenancy => IncompleteHoldsLock'
    BY <1>1, <1>2, <1>3 DEF IncompleteHoldsLock, PropertyOfWorkflow
  <1>7. ExclusiveTenancy => LockHasIncompleteHolder'
    BY <1>1, <1>2, <1>3, B3ExitAssumption
    DEF LockHasIncompleteHolder, IncompleteHoldsLock, PropertyOfWorkflow
  \* Who else is under way on the property shares its lock with w.
  <1>8. GuardOK'
    <2>1. \A v \in WorkflowIds : Shared(v)' <=> Shared(v)
      BY <1>2 DEF Shared, PropertyOfWorkflow
    <2>2. ASSUME NEW v \in WorkflowIds,
                 status'[v] \notin {"none", "COMPLETE"},
                 lock'[PropertyOfWorkflow(v)] # v
          PROVE  Shared(v)
      <3>1. v # w /\ status[v] \notin {"none", "COMPLETE"}
        BY <1>1, <1>2, <1>3, <2>2
      <3>2. CASE PropertyOfWorkflow(v) = PropertyOfWorkflow(w)
        BY <1>1, <1>3, <3>1, <3>2, B3ExitAssumption DEF Shared
      <3>3. CASE PropertyOfWorkflow(v) # PropertyOfWorkflow(w)
        <4>1. contract[v] \in Contracts
          BY <1>3, <3>1 DEF IndInv, RowsOK
        <4>2. lock[PropertyOfWorkflow(v)] # v
          BY <1>2, <1>3, <2>2, <3>3, <4>1 DEF PropertyOfWorkflow
        <4>3. QED
          BY <3>1, <4>2 DEF GuardOK
      <3>4. QED
        BY <3>2, <3>3
    <2>3. seen' = seen /\ \A d \in Contracts : seen[d] \subseteq WorkflowIds
      BY DEF IssueCommit, leasing, IndInv, TypeOK
    <2>4. QED
      BY <1>2, <2>1, <2>2, <2>3 DEF GuardOK, PropertyOfWorkflow
  <1>9. QED
    BY <1>4, <1>5, <1>6, <1>7, <1>8

\* Every step keeps the lock discipline.
LEMMA LockStep == IndInv /\ LockInv /\ [Next]_vars => LockInv'
  <1> SUFFICES ASSUME IndInv, LockInv, [Next]_vars PROVE LockInv'
    OBVIOUS
  <1> USE DEF tables, leasing, outside, requests
  <1>1. ASSUME NEW c \in Contracts, AskGuard(c) \/ SignContract(c)
        PROVE  LockInv'
    BY <1>1, AskKeepsLocks, SignKeepsLocks
  <1>2. ASSUME NEW q \in Requests, NEW v \in WorkflowIds, InitiateInsert(q, v)
        PROVE LockInv'
    BY <1>2, InsertKeepsLocks
  <1>3. ASSUME NEW q \in Requests, IssueCommit(q) PROVE LockInv'
    BY <1>3, CommitKeepsLocks
  <1>4. ASSUME NEW q \in Requests, NEW c \in Contracts, InitiateCheck(q, c)
        PROVE LockInv'
    BY <1>4
    DEF InitiateCheck, Goto, LockInv, TenancyOK, Ended, OneExitPerContract,
        IncompleteHoldsLock, LockHasIncompleteHolder, PropertyOfWorkflow,
        GuardOK, Shared, IndInv, TypeOK
  <1>5. ASSUME NEW q \in Requests, InitiateRefused(q)
        PROVE LockInv'
    BY <1>5, QuietStep DEF InitiateRefused, Finish, IndInv, TypeOK
  <1>6. ASSUME NEW v \in WorkflowIds, WindowElapses(v)
        PROVE LockInv'
    BY <1>6, QuietStep DEF WindowElapses, IndInv, TypeOK
  <1>7. ASSUME NEW q \in Requests, NotifyOwner(q)
        PROVE LockInv'
    BY <1>7, QuietStep, Origins
    DEF NotifyOwner, Finish, Move, MayMove, IndInv, TypeOK
  <1>8. ASSUME RecoverUnnotified
        PROVE LockInv'
    BY <1>8, QuietStep, Origins
    DEF RecoverUnnotified, MoveAll, MayMove, IndInv, TypeOK
  <1>9. ASSUME NEW v \in WorkflowIds, ScheduleInspection(v)
        PROVE LockInv'
    BY <1>9, QuietStep, Origins
    DEF ScheduleInspection, Move, MayMove, IndInv, TypeOK
  <1>10. ASSUME NEW v \in WorkflowIds, NEW n \in Damages,
               SubmitInspectionReport(v, n)
        PROVE LockInv'
    BY <1>10, QuietStep, Origins
    DEF SubmitInspectionReport, Move, MayMove, IndInv, TypeOK
  <1>11. ASSUME NEW v \in WorkflowIds, ConfirmDamage(v)
        PROVE LockInv'
    BY <1>11, QuietStep, Origins
    DEF ConfirmDamage, Move, MayMove, IndInv, TypeOK
  <1>12. ASSUME RunStallSweep
        PROVE LockInv'
    BY <1>12, QuietStep, Origins
    DEF RunStallSweep, MoveAll, MayMove, IndInv, TypeOK
  <1>13. ASSUME NEW q \in Requests, NEW v \in WorkflowIds, SettleCreate(q, v)
        PROVE LockInv'
    BY <1>13, QuietStep, Origins
    DEF SettleCreate, Move, MayMove, Goto, IndInv, TypeOK
  <1>14. ASSUME NEW q \in Requests, NEW v \in WorkflowIds, SettleReenter(q, v)
        PROVE LockInv'
    BY <1>14, QuietStep DEF SettleReenter, Goto, IndInv, TypeOK
  <1>15. ASSUME NEW q \in Requests, InitiateRefund(q)
        PROVE LockInv'
    BY <1>15, QuietStep DEF InitiateRefund, Goto, IndInv, TypeOK
  <1>16. ASSUME NEW v \in WorkflowIds, GatewaySettles(v)
        PROVE LockInv'
    BY <1>16, QuietStep DEF GatewaySettles, IndInv, TypeOK
  <1>17. ASSUME NEW q \in Requests, RecordGatewayResult(q)
        PROVE LockInv'
    BY <1>17, QuietStep DEF RecordGatewayResult, Goto, Finish, IndInv, TypeOK
  <1>18. ASSUME NEW q \in Requests, IssueRefused(q)
        PROVE LockInv'
    BY <1>18, QuietStep DEF IssueRefused, Finish, IndInv, TypeOK
  <1>19. ASSUME NEW q \in Requests, IssueStore(q)
        PROVE LockInv'
    BY <1>19, QuietStep DEF IssueStore, Goto, IndInv, TypeOK
  <1>20. ASSUME NEW q \in Requests, Crash(q)
        PROVE LockInv'
    BY <1>20, QuietStep DEF Crash, Finish, IndInv, TypeOK
  <1>21. CASE UNCHANGED vars
    BY <1>21, QuietStep DEF vars
  <1>22. QED
    BY <1>1, <1>2, <1>3, <1>4, <1>5, <1>6, <1>7, <1>8, <1>9, <1>10, <1>11,
       <1>12, <1>13, <1>14, <1>15, <1>16, <1>17, <1>18, <1>19, <1>20, <1>21
    DEF Next, Users, Jobs, Service, Environment

\* No workflow, no lock; the tenancies of the initial state exclude each other.
LEMMA InitLock == Init => LockInv
  BY B3ExitAssumption
  DEF Init, LockInv, TenancyOK, OneExitPerContract, IncompleteHoldsLock,
      LockHasIncompleteHolder, Ended, GuardOK

\* LockInv holds in every reachable state.
THEOREM LockInvariance == Spec => []LockInv
  BY InitLock, LockStep, Invariance, PTL DEF Spec

\* X-001: however many initiations race, a contract has one exit.
THEOREM NeverASecondExit == Spec => []OneExitPerContract
  BY LockInvariance, PTL DEF LockInv

\* EXIT-03: where tenancies exclude each other, an exit holds the lock of its
\* property from its initiation to COMPLETE.
THEOREM LockHeldToTheEnd ==
  ASSUME ExclusiveTenancy
  PROVE  Spec => []IncompleteHoldsLock
  <1>1. LockInv => IncompleteHoldsLock
    BY DEF LockInv
  <1>2. QED
    BY LockInvariance, <1>1, PTL

\* EXIT-09: where tenancies exclude each other, no lock outlives its exit.
THEOREM NoLockIsLeftOver ==
  ASSUME ExclusiveTenancy
  PROVE  Spec => []LockHasIncompleteHolder
  <1>1. LockInv => LockHasIncompleteHolder
    BY DEF LockInv
  <1>2. QED
    BY LockInvariance, <1>1, PTL

\* Where tenancies exclude each other, the locks are those of the exits under
\* way, and a contract has one exit, over any succession of tenancies.
THEOREM LocksAreRight ==
  ASSUME ExclusiveTenancy
  PROVE  Spec => []LocksFollowExits
  <1>1. LockInv => LocksFollowExits
    BY DEF LockInv, LocksFollowExits
  <1>2. QED
    BY LockInvariance, <1>1, PTL

\* EXIT-03: an exit is under way beside a contract that is signed only if it was
\* initiated after the guard had answered, or if it shares the property's lock
\* with another exit; no assumption on the tenancies.
THEOREM SigningMidExitIsARace == Spec => MidExitOnlyByRace
  <1> DEFINE Signing ==
        \A c \in active' \ active : \A w \in UnderWay(PropertyOf[c]) :
          w \in seen[c] => Shared(w)
  <1>1. IndInv /\ LockInv /\ [Next]_vars => [Signing]_vars
    <2>1. SUFFICES ASSUME IndInv, LockInv, [Next]_vars PROVE Signing
      OBVIOUS
    <2>2. active' \subseteq Contracts
      BY <2>1, TypeStep DEF TypeOK
    <2>3. QED
      BY <2>1, <2>2 DEF LockInv, GuardOK
  <1>2. QED
    BY Invariance, LockInvariance, <1>1, PTL DEF Spec, MidExitOnlyByRace

-----------------------------------------------------------------------------
\* B3Exit implements ExitPromise: under exclusive tenancy every step of the
\* service, retries, late answers and crashes included, is a step of the
\* promise or changes nothing the promise speaks of.

\* The refinement mapping of Promise, by name.
Status == [c \in Contracts |-> IF HasExit(c) THEN status[ExitOf(c)] ELSE "none"]
Holder == [p \in Properties |->
             IF lock[p] = Nobody THEN Nobody ELSE contract[lock[p]]]
Paid == [c \in Contracts |-> HasExit(c) /\ gateway[ExitOf(c)] = "SUCCEEDED"]
Noc == [c \in Contracts |-> HasExit(c) /\ ExitOf(c) \in object]

\* A contract with one exit has that exit: CHOOSE has no choice.
LEMMA ExitOfIs ==
  ASSUME OneExitPerContract, NEW w \in WorkflowIds, contract[w] # Nobody
  PROVE  HasExit(contract[w]) /\ ExitOf(contract[w]) = w
  BY DEF OneExitPerContract, HasExit, ExitOf

\* The exit of a contract is a workflow of it.
LEMMA ExitOfHas ==
  ASSUME NEW c \in Contracts, HasExit(c)
  PROVE  ExitOf(c) \in WorkflowIds /\ contract[ExitOf(c)] = c
  BY DEF HasExit, ExitOf

\* The promise reads the same state table.
LEMMA SameTable ==
  /\ Promise!WorkflowStates = WorkflowStates /\ Promise!Actors = Actors
  /\ \A f, t, a : Promise!Row(f, t, a) = Row(f, t, a)
  /\ Promise!Transitions = Transitions
  BY
  DEF Promise!WorkflowStates, WorkflowStates, Promise!Actors, Actors,
      Promise!Row, Row, Promise!Transitions, Transitions

\* The initial states map to the initial state of the promise.
LEMMA InitImplements == Init => Promise!Init
  <1> SUFFICES ASSUME Init PROVE Promise!Init
    OBVIOUS
  <1>1. \A c \in Contracts : ~ HasExit(c)
    BY B3ExitAssumption DEF Init, HasExit
  <1>2. \A p \in Properties : lock[p] = Nobody
    BY DEF Init
  <1>3. QED
    BY <1>1, <1>2 DEF Promise!Init

\* A step that leaves every column of the mapping alone is a stutter.
LEMMA Stutter ==
  ASSUME UNCHANGED <<contract, lock, status, gateway, object>>
  PROVE  UNCHANGED Promise!vars
  BY DEF Promise!vars, HasExit, ExitOf

\* A step that moves a batch of workflows along one row of the table, and
\* neither money nor lock nor certificate, is an Advance of their contracts.
LEMMA BatchAdvances ==
  ASSUME IndInv, LockInv, UNCHANGED <<contract, lock, gateway, object>>,
         NEW batch \in SUBSET WorkflowIds, NEW to, NEW a,
         to \notin {"NOC_ISSUED", "COMPLETE"},
         \A w \in batch : Row(status[w], to, a) \in Transitions,
         \A w \in WorkflowIds :
           status'[w] = IF w \in batch THEN to ELSE status[w]
  PROVE  \E cs \in SUBSET Contracts : Promise!Advance(cs)
  <1> DEFINE cs == {c \in Contracts : HasExit(c) /\ ExitOf(c) \in batch}
  <1>1. \A c \in Contracts : /\ HasExit(c)' <=> HasExit(c)
                             /\ ExitOf(c)' = ExitOf(c)
    BY DEF HasExit, ExitOf
  <1>2. ASSUME NEW c \in Contracts, c \in cs
        PROVE  /\ Status'[c] = to /\ to \in WorkflowStates
               /\ \E b \in Actors : Row(Status[c], to, b) \in Transitions
    <2>1. Status[c] = status[ExitOf(c)] /\ Status'[c] = status'[ExitOf(c)]
      BY <1>1, <1>2 DEF Status
    <2>2. status'[ExitOf(c)] = to
      BY <1>2
    <2>3. Row(status[ExitOf(c)], to, a) \in Transitions
      BY <1>2
    <2>4. a \in Actors /\ to \in WorkflowStates
      BY <2>3, TransitionsClimb
    <2>5. QED
      BY <2>1, <2>2, <2>3, <2>4
  <1>3. ASSUME NEW c \in Contracts, c \notin cs PROVE Status'[c] = Status[c]
    BY <1>1, <1>3, ExitOfHas DEF Status
  <1>4. Status' \in [Contracts -> WorkflowStates \cup {"none"}]
    <2>1. \A c \in Contracts : Status[c] \in WorkflowStates \cup {"none"}
      BY ExitOfHas DEF Status, IndInv, TypeOK
    <2>2. \A c \in Contracts : Status'[c] \in WorkflowStates \cup {"none"}
      BY <1>2, <1>3, <2>1
    <2>3. QED
      BY <2>2 DEF Status
  <1>5. UNCHANGED <<Holder, Paid, Noc>>
    BY <1>1 DEF Holder, Paid, Noc
  <1>6. Promise!Advance(cs)
    BY <1>2, <1>3, <1>4, <1>5, SameTable
    DEF Promise!Advance, Status, Holder, Paid, Noc
  <1>7. QED
    BY <1>6

\* One workflow that moves is a batch of one.
LEMMA MoveAdvances ==
  ASSUME IndInv, LockInv, UNCHANGED <<contract, lock, gateway, object>>,
         NEW w \in WorkflowIds, NEW to, NEW a,
         to \notin {"NOC_ISSUED", "COMPLETE"}, Move(w, to, a)
  PROVE  \E cs \in SUBSET Contracts : Promise!Advance(cs)
  <1>1. Row(status[w], to, a) \in Transitions
    BY DEF Move, MayMove, Allowed
  <1>2. \A v \in WorkflowIds :
          status'[v] = IF v \in {w} THEN to ELSE status[v]
    BY DEF Move, IndInv, TypeOK
  <1>3. QED
    BY <1>1, <1>2, BatchAdvances

\* A sweep.
LEMMA SweepAdvances ==
  ASSUME IndInv, LockInv, UNCHANGED <<contract, lock, gateway, object>>,
         NEW batch \in SUBSET WorkflowIds, NEW to, NEW a,
         to \notin {"NOC_ISSUED", "COMPLETE"}, MoveAll(batch, to, a)
  PROVE  \E cs \in SUBSET Contracts : Promise!Advance(cs)
  <1>1. \A w \in batch : Row(status[w], to, a) \in Transitions
    BY DEF MoveAll, MayMove, Allowed
  <1>2. \A v \in WorkflowIds :
          status'[v] = IF v \in batch THEN to ELSE status[v]
    BY DEF MoveAll
  <1>3. QED
    BY <1>1, <1>2, BatchAdvances

\* The insert is the Initiate of the contract it was asked for: that contract
\* has no exit and nobody holds the property.
LEMMA InsertInitiates ==
  ASSUME ExclusiveTenancy, IndInv, LockInv, NEW r \in Requests,
         NEW w \in WorkflowIds, InitiateInsert(r, w)
  PROVE  \E c \in Contracts : Promise!Initiate(c)
  <1>1. PICK c \in Contracts :
          /\ c = claim[r] /\ c \in active /\ c # Nobody
          /\ contract[w] = Nobody
          /\ \A v \in WorkflowIds : contract[v] # c
          /\ PropertyOf[c] \in Properties
    BY B3ExitAssumption
    DEF InitiateInsert, ContractIsUnique, LockInv, TenancyOK, IndInv, TypeOK,
        RequestsOK, RowsOK
  <1>2. /\ contract' = [contract EXCEPT ![w] = c]
        /\ status' = [status EXCEPT ![w] = "DOCS_SUBMITTED"]
        /\ lock' = [lock EXCEPT ![PropertyOf[c]] = w]
        /\ UNCHANGED <<gateway, object>>
    BY <1>1 DEF InitiateInsert, outside
  <1>3. /\ contract \in [WorkflowIds -> Contracts \cup {Nobody}]
        /\ status \in [WorkflowIds -> WorkflowStates \cup {"none"}]
        /\ lock \in [Properties -> WorkflowIds \cup {Nobody}]
        /\ Nobody \notin WorkflowIds
    BY B3ExitAssumption DEF IndInv, TypeOK
  <1>4. gateway[w] # "SUCCEEDED" /\ w \notin object
    BY DEF InitiateInsert, IndInv, RefundOK, NocOnlyAfterPaid, Settled
  \* Whoever held the property would be the exit of a tenancy that is not over.
  <1>5. lock[PropertyOf[c]] = Nobody
    <2> DEFINE v == lock[PropertyOf[c]]
    <2>1. SUFFICES ASSUME v # Nobody PROVE FALSE
      OBVIOUS
    <2>2. /\ v \in WorkflowIds
          /\ status[v] \notin {"none", "COMPLETE"}
          /\ PropertyOf[contract[v]] = PropertyOf[c]
      BY <1>1, <1>3, <2>1
      DEF LockInv, LockHasIncompleteHolder, PropertyOfWorkflow
    <2>3. contract[v] \in active /\ contract[v] # c
      BY <1>1, <1>3, <2>2 DEF LockInv, TenancyOK, IndInv, RowsOK
    <2>4. ~ Ended(c)
      BY <1>1 DEF Ended
    <2>5. ~ Ended(contract[v])
      BY <1>3, <2>2, <2>3, B3ExitAssumption
      DEF Ended, LockInv, OneExitPerContract, IndInv, TypeOK, RowsOK
    <2>6. QED
      BY <1>1, <2>2, <2>3, <2>4, <2>5 DEF LockInv, TenancyOK
  <1>6. ~ HasExit(c)
    BY <1>1 DEF HasExit
  <1>7. HasExit(c)' /\ ExitOf(c)' = w
    <2>1. \A v \in WorkflowIds : contract'[v] = c <=> v = w
      BY <1>1, <1>2, <1>3
    <2>2. QED
      BY <2>1 DEF HasExit, ExitOf
  <1>8. ASSUME NEW d \in Contracts, d # c
        PROVE  /\ HasExit(d)' <=> HasExit(d)
               /\ HasExit(d) => ExitOf(d)' = ExitOf(d)
    <2>1. \A v \in WorkflowIds : contract'[v] = d <=> contract[v] = d
      BY <1>1, <1>2, <1>3, <1>8, B3ExitAssumption
    <2>2. \A v, u \in WorkflowIds : contract[v] = d /\ contract[u] = d => v = u
      BY B3ExitAssumption DEF LockInv, OneExitPerContract
    <2>3. QED
      BY <2>1, <2>2 DEF HasExit, ExitOf
  <1>9. ASSUME NEW d \in Contracts, d # c, HasExit(d) PROVE ExitOf(d) # w
    BY <1>1, <1>9, ExitOfHas, B3ExitAssumption
  <1>10. Status' = [Status EXCEPT ![c] = "DOCS_SUBMITTED"] /\ Status[c] = "none"
    <2>1. Status[c] = "none"
      BY <1>1, <1>6 DEF Status
    <2>2. Status'[c] = "DOCS_SUBMITTED"
      BY <1>1, <1>2, <1>3, <1>7 DEF Status
    <2>3. ASSUME NEW d \in Contracts, d # c PROVE Status'[d] = Status[d]
      BY <1>2, <1>3, <1>8, <1>9, <2>3, ExitOfHas DEF Status
    <2>4. QED
      BY <2>1, <2>2, <2>3 DEF Status
  <1>11. Holder' = [Holder EXCEPT ![PropertyOf[c]] = c]
         /\ Holder[PropertyOf[c]] = Nobody
    <2>1. \A p \in Properties : lock[p] # w
      <3>1. status[w] = "none"
        BY DEF InitiateInsert
      <3>2. QED
        BY <1>3, <3>1 DEF LockInv, LockHasIncompleteHolder
    <2>2. QED
      BY <1>1, <1>2, <1>3, <1>5, <2>1 DEF Holder
  <1>12. Paid' = Paid /\ Noc' = Noc
    <2>1. ASSUME NEW d \in Contracts
          PROVE  /\ (HasExit(d) /\ gateway[ExitOf(d)] = "SUCCEEDED")'
                    <=> HasExit(d) /\ gateway[ExitOf(d)] = "SUCCEEDED"
                 /\ (HasExit(d) /\ ExitOf(d) \in object)'
                    <=> HasExit(d) /\ ExitOf(d) \in object
      BY <1>2, <1>4, <1>6, <1>7, <1>8
    <2>2. QED
      BY <2>1 DEF Paid, Noc
  <1>13. QED
    BY <1>1, <1>10, <1>11, <1>12
    DEF Promise!Initiate, Status, Holder, Paid, Noc

\* What a settlement knows of the contract it works for.
LEMMA SettledExit ==
  ASSUME IndInv, LockInv, NEW w \in WorkflowIds, status[w] \in Settled
  PROVE  /\ contract[w] \in Contracts /\ contract[w] # Nobody
         /\ HasExit(contract[w]) /\ ExitOf(contract[w]) = w
         /\ Status[contract[w]] = status[w]
         /\ \A d \in Contracts : d # contract[w] /\ HasExit(d) => ExitOf(d) # w
  <1>1. contract[w] \in Contracts /\ contract[w] # Nobody
    BY B3ExitAssumption DEF IndInv, TypeOK, RowsOK, Settled
  <1>2. HasExit(contract[w]) /\ ExitOf(contract[w]) = w
    BY <1>1, ExitOfIs DEF LockInv
  <1>3. QED
    BY <1>1, <1>2, ExitOfHas DEF Status

\* What the gateway does is Pay, or nothing the promise sees.
LEMMA GatewayPays ==
  ASSUME IndInv, LockInv, NEW w \in WorkflowIds, status[w] = "REFUND_PROCESSED",
         UNCHANGED <<contract, lock, status, object>>,
         gateway[w] # "SUCCEEDED", NEW s, gateway' = [gateway EXCEPT ![w] = s]
  PROVE  Promise!Pay(contract[w]) \/ UNCHANGED Promise!vars
  <1>1. /\ contract[w] \in Contracts /\ HasExit(contract[w])
        /\ ExitOf(contract[w]) = w
        /\ Status[contract[w]] = "REFUND_PROCESSED"
        /\ \A d \in Contracts : d # contract[w] /\ HasExit(d) => ExitOf(d) # w
    BY SettledExit DEF Settled
  <1>2. \A c \in Contracts : (HasExit(c)' <=> HasExit(c)) /\ ExitOf(c)' = ExitOf(c)
    BY DEF HasExit, ExitOf
  <1>3. gateway \in [WorkflowIds -> PaymentStatuses \cup {"none"}]
    BY DEF IndInv, TypeOK
  <1>4. UNCHANGED <<Status, Holder, Noc>>
    BY <1>2 DEF Status, Holder, Noc
  <1>5. CASE s = "SUCCEEDED"
    <2>1. gateway'[w] = "SUCCEEDED"
          /\ \A v \in WorkflowIds : v # w => gateway'[v] = gateway[v]
      BY <1>3, <1>5
    <2>2. Paid'[contract[w]] = TRUE
      BY <1>1, <1>2, <2>1 DEF Paid
    <2>3. ASSUME NEW d \in Contracts, d # contract[w]
          PROVE  Paid'[d] = Paid[d]
      <3>1. CASE HasExit(d)
        <4>1. ExitOf(d) \in WorkflowIds /\ ExitOf(d) # w
          BY <1>1, <2>3, <3>1, ExitOfHas
        <4>2. gateway'[ExitOf(d)'] = gateway[ExitOf(d)]
          BY <1>2, <2>1, <4>1
        <4>3. QED
          BY <1>2, <3>1, <4>2 DEF Paid
      <3>2. CASE ~ HasExit(d)
        BY <1>2, <3>2 DEF Paid
      <3>3. QED
        BY <3>1, <3>2
    <2>4. Paid' = [Paid EXCEPT ![contract[w]] = TRUE]
      BY <2>2, <2>3 DEF Paid
    <2>5. QED
      BY <1>1, <1>4, <2>4
      DEF Promise!Pay, Promise!Confirmed, Status, Holder, Paid, Noc
  <1>6. CASE s # "SUCCEEDED"
    <2>1. Paid' = Paid
      BY <1>1, <1>2, <1>3, <1>6, ExitOfHas DEF Paid
    <2>2. QED
      BY <1>4, <2>1 DEF Promise!vars, Status, Holder, Paid, Noc
  <1>7. QED
    BY <1>5, <1>6

\* Storing the PDF is IssueNoc: the exit is settled and paid.
LEMMA StoreIssues ==
  ASSUME IndInv, LockInv, NEW r \in Requests, IssueStore(r)
  PROVE  \E c \in Contracts : Promise!IssueNoc(c)
  <1>1. PICK w \in WorkflowIds :
          /\ w = target[r] /\ status[w] = "REFUND_PROCESSED"
          /\ gateway[w] = "SUCCEEDED"
          /\ object' = object \cup {w}
          /\ UNCHANGED <<contract, lock, status, gateway>>
    BY
    DEF IssueStore, IndInv, RequestsOK, RowsOK, SucceededIsTrue, Settled,
        tables
  <1>2. PICK c \in Contracts :
          /\ c = contract[w] /\ HasExit(c) /\ ExitOf(c) = w
          /\ Status[c] = "REFUND_PROCESSED"
          /\ \A d \in Contracts : d # c /\ HasExit(d) => ExitOf(d) # w
    BY <1>1, SettledExit DEF Settled
  <1>3. \A d \in Contracts : (HasExit(d)' <=> HasExit(d)) /\ ExitOf(d)' = ExitOf(d)
    BY <1>1 DEF HasExit, ExitOf
  <1>4. UNCHANGED <<Status, Holder, Paid>>
    BY <1>1, <1>3 DEF Status, Holder, Paid
  <1>5. Paid[c]
    BY <1>1, <1>2 DEF Paid
  <1>6. Noc' = [Noc EXCEPT ![c] = TRUE]
    BY <1>1, <1>2, <1>3 DEF Noc
  <1>7. QED
    BY <1>1, <1>2, <1>4, <1>5, <1>6
    DEF Promise!IssueNoc, Promise!Confirmed, Status, Holder, Paid, Noc

\* The last commit is Complete: the certificate exists and the exit holds the
\* lock it releases.
LEMMA CommitCompletes ==
  ASSUME ExclusiveTenancy, IndInv, LockInv, NEW r \in Requests, IssueCommit(r)
  PROVE  \E c \in Contracts : Promise!Complete(c)
  <1>1. PICK w \in WorkflowIds :
          /\ w = target[r] /\ status[w] = "REFUND_PROCESSED" /\ w \in object
          /\ status' = [status EXCEPT ![w] = "COMPLETE"]
          /\ lock' = [lock EXCEPT ![PropertyOfWorkflow(w)] = Nobody]
          /\ UNCHANGED <<contract, object, gateway>>
    BY DEF IssueCommit, IndInv, RequestsOK, OneNocWriter, outside
  <1>2. PICK c \in Contracts :
          /\ c = contract[w] /\ HasExit(c) /\ ExitOf(c) = w
          /\ Status[c] = "REFUND_PROCESSED"
          /\ \A d \in Contracts : d # c /\ HasExit(d) => ExitOf(d) # w
    BY <1>1, SettledExit DEF Settled
  <1>3. \A d \in Contracts : (HasExit(d)' <=> HasExit(d)) /\ ExitOf(d)' = ExitOf(d)
    BY <1>1 DEF HasExit, ExitOf
  <1>4. PropertyOf[c] \in Properties /\ Nobody \notin WorkflowIds
    BY <1>2, B3ExitAssumption
  <1>5. lock[PropertyOf[c]] = w
    BY <1>1, <1>2 DEF LockInv, IncompleteHoldsLock, PropertyOfWorkflow
  <1>6. Holder[PropertyOf[c]] = c /\ Noc[c]
    BY <1>1, <1>2, <1>4, <1>5 DEF Holder, Noc
  <1>7. Status' = [Status EXCEPT ![c] = "COMPLETE"]
    <2>1. ASSUME NEW d \in Contracts
          PROVE  Status'[d] = IF d = c THEN "COMPLETE" ELSE Status[d]
      BY <1>1, <1>2, <1>3, <2>1, ExitOfHas DEF Status, IndInv, TypeOK
    <2>2. QED
      BY <2>1 DEF Status
  <1>8. Holder' = [Holder EXCEPT ![PropertyOf[c]] = Nobody]
    BY <1>1, <1>2, <1>4 DEF Holder, PropertyOfWorkflow, IndInv, TypeOK
  <1>9. UNCHANGED <<Paid, Noc>>
    BY <1>1, <1>3 DEF Paid, Noc
  <1>10. QED
    BY <1>1, <1>2, <1>6, <1>7, <1>8, <1>9
    DEF Promise!Complete, Promise!Confirmed, Status, Holder, Paid, Noc

\* Every step maps to a step of the promise or to a stutter.
LEMMA StepImplements ==
  ASSUME ExclusiveTenancy, IndInv, LockInv, [Next]_vars
  PROVE  [Promise!Next]_Promise!vars
  <1> USE DEF tables, leasing, outside, requests
  <1>1. (\E cs \in SUBSET Contracts : Promise!Advance(cs)) => Promise!Next
    BY DEF Promise!Next
  <1>2. ASSUME NEW r \in Requests, NEW w \in WorkflowIds, InitiateInsert(r, w)
        PROVE  Promise!Next
    BY <1>2, InsertInitiates DEF Promise!Next
  <1>3. ASSUME NEW r \in Requests, NotifyOwner(r) PROVE [Promise!Next]_Promise!vars
    <2>1. target[r] \in WorkflowIds
      BY <1>3 DEF NotifyOwner, IndInv, RequestsOK
    <2>2. CASE Move(target[r], "OWNER_NOTIFIED", "system")
      BY <1>1, <1>3, <2>1, <2>2, MoveAdvances DEF NotifyOwner
    <2>3. CASE UNCHANGED <<status, audit>>
      BY <1>3, <2>3, Stutter DEF NotifyOwner
    <2>4. QED
      BY <1>3, <2>2, <2>3 DEF NotifyOwner
  <1>4. ASSUME RecoverUnnotified PROVE Promise!Next
    <2>1. UNCHANGED <<contract, lock, gateway, object>>
      BY <1>4 DEF RecoverUnnotified
    <2>2. PICK batch \in SUBSET WorkflowIds :
            MoveAll(batch, "OWNER_NOTIFIED", "system")
      BY <1>4 DEF RecoverUnnotified
    <2>3. QED
      BY <1>1, <2>1, <2>2, SweepAdvances
  <1>5. ASSUME NEW w \in WorkflowIds, ScheduleInspection(w) PROVE Promise!Next
    BY <1>1, <1>5, MoveAdvances DEF ScheduleInspection
  <1>6. ASSUME NEW w \in WorkflowIds, NEW n \in Damages,
               SubmitInspectionReport(w, n)
        PROVE  Promise!Next
    BY <1>1, <1>6, MoveAdvances DEF SubmitInspectionReport
  <1>7. ASSUME NEW w \in WorkflowIds, ConfirmDamage(w) PROVE Promise!Next
    BY <1>1, <1>7, MoveAdvances DEF ConfirmDamage
  <1>8. ASSUME RunStallSweep PROVE Promise!Next
    <2> DEFINE found == {w \in late : Waiting(w) /\ ~ Locked(w)}
    <2>1. found \in SUBSET WorkflowIds
      BY DEF IndInv, TypeOK
    <2>2. /\ MoveAll(found, "STALLED", "system")
          /\ UNCHANGED <<contract, lock, gateway, object>>
      BY <1>8 DEF RunStallSweep
    <2> HIDE DEF found
    <2>3. QED
      BY <1>1, <2>1, <2>2, SweepAdvances
  <1>9. ASSUME NEW r \in Requests, NEW w \in WorkflowIds, SettleCreate(r, w)
        PROVE  Promise!Next
    BY <1>1, <1>9, MoveAdvances DEF SettleCreate
  <1>10. ASSUME NEW r \in Requests, InitiateRefund(r)
         PROVE  [Promise!Next]_Promise!vars
    <2> DEFINE w == target[r]
    <2>1. /\ w \in WorkflowIds /\ status[w] \in Settled
          /\ UNCHANGED <<contract, lock, status, object>>
      BY <1>10 DEF InitiateRefund, IndInv, RequestsOK
    <2>2. CASE gateway[w] = "none"
      <3>1. status[w] = "REFUND_PROCESSED"
        BY <2>1, <2>2
        DEF IndInv, RowsOK, NocRowIffComplete, NocOnlyAfterPaid, Settled
      <3>2. contract[w] \in Contracts
        BY <2>1, SettledExit
      <3>3. PICK s \in PaymentStatuses : gateway' = [gateway EXCEPT ![w] = s]
        BY <1>10, <2>2 DEF InitiateRefund
      <3>4. QED
        BY <2>1, <2>2, <3>1, <3>2, <3>3, GatewayPays DEF Promise!Next
    <2>3. CASE gateway[w] # "none"
      BY <1>10, <2>1, <2>3, Stutter DEF InitiateRefund
    <2>4. QED
      BY <2>2, <2>3
  <1>11. ASSUME NEW w \in WorkflowIds, GatewaySettles(w)
         PROVE  [Promise!Next]_Promise!vars
    <2>1. /\ gateway[w] = "PENDING"
          /\ UNCHANGED <<contract, lock, status, object>>
      BY <1>11 DEF GatewaySettles
    <2>2. status[w] = "REFUND_PROCESSED"
      BY <2>1
      DEF IndInv, RowsOK, RefundOK, NocRowIffComplete, NocOnlyAfterPaid,
          Settled
    <2>3. contract[w] \in Contracts
      BY <2>2, SettledExit DEF Settled
    <2>4. PICK s \in {"SUCCEEDED", "FAILED"} : gateway' = [gateway EXCEPT ![w] = s]
      BY <1>11 DEF GatewaySettles
    <2>5. QED
      BY <2>1, <2>2, <2>3, <2>4, GatewayPays DEF Promise!Next
  <1>12. ASSUME NEW r \in Requests, IssueStore(r) PROVE Promise!Next
    BY <1>12, StoreIssues DEF Promise!Next
  <1>13. ASSUME NEW r \in Requests, IssueCommit(r) PROVE Promise!Next
    BY <1>13, CommitCompletes DEF Promise!Next
  <1>14. ASSUME \/ \E c \in Contracts : AskGuard(c) \/ SignContract(c)
                \/ \E w \in WorkflowIds : WindowElapses(w)
                \/ \E q \in Requests, c \in Contracts : InitiateCheck(q, c)
                \/ \E q \in Requests, w \in WorkflowIds : SettleReenter(q, w)
                \/ \E q \in Requests : \/ InitiateRefused(q)
                                       \/ RecordGatewayResult(q)
                                       \/ IssueRefused(q) \/ Crash(q)
                \/ UNCHANGED vars
         PROVE  UNCHANGED Promise!vars
    BY <1>14, Stutter
    DEF AskGuard, SignContract, WindowElapses, InitiateCheck, SettleReenter,
        InitiateRefused, RecordGatewayResult, IssueRefused, Crash, vars
  <1>15. QED
    BY <1>2, <1>3, <1>4, <1>5, <1>6, <1>7, <1>8, <1>9, <1>10, <1>11, <1>12,
       <1>13, <1>14
    DEF Next, Users, Jobs, Service, Environment

\* Under exclusive tenancy the service implements the promise: for each
\* contract one exit, the lock held to its end, money only after the damage is
\* confirmed, a certificate only after the money.
THEOREM ServiceKeepsPromise ==
  ASSUME ExclusiveTenancy
  PROVE  Spec => ImplementsPromise
  <1>1. IndInv /\ LockInv /\ [Next]_vars => [Promise!Next]_Promise!vars
    BY StepImplements
  <1>2. QED
    BY InitImplements, Invariance, LockInvariance, <1>1, PTL
    DEF Spec, ImplementsPromise, Promise!Spec

-----------------------------------------------------------------------------
\* The dead end of PaidExitCompletesOrOrphans: the transaction that stored the
\* PDF was lost, and the bucket refuses every later one.
Orphaned(w) ==
  status[w] = "REFUND_PROCESSED" /\ w \in object /\ ~ Locked(w)

\* Each step, of any request, leaves the exit where it is.
LEMMA OrphanStep ==
  ASSUME IndInv, [Next]_vars, NEW w \in WorkflowIds, Orphaned(w)
  PROVE  Orphaned(w)'
  <1>0. /\ status[w] = "REFUND_PROCESSED" /\ w \in object
        /\ \A r \in Requests : pc[r] = "stored" => target[r] # w
        /\ status \in [WorkflowIds -> WorkflowStates \cup {"none"}]
        /\ pc \in [Requests -> Steps]
        /\ target \in [Requests -> WorkflowIds \cup {Nobody}]
    BY DEF Orphaned, Locked, IndInv, TypeOK
  <1> USE <1>0 DEF Orphaned, Locked, tables, leasing, outside, requests, Goto, Finish
  <1>1. ASSUME NEW r \in Requests, IssueStore(r) PROVE Orphaned(w)'
    BY <1>1 DEF IssueStore
  <1>2. ASSUME NEW r \in Requests, IssueCommit(r) PROVE Orphaned(w)'
    BY <1>2 DEF IssueCommit
  <1>3. ASSUME NEW r \in Requests, NEW v \in WorkflowIds,
               \/ InitiateInsert(r, v) \/ SettleCreate(r, v)
               \/ SettleReenter(r, v)
        PROVE  Orphaned(w)'
    BY <1>3 DEF InitiateInsert, SettleCreate, SettleReenter, Move
  <1>4. ASSUME NEW r \in Requests,
               \/ NotifyOwner(r) \/ InitiateRefused(r) \/ InitiateRefund(r)
               \/ RecordGatewayResult(r) \/ IssueRefused(r) \/ Crash(r)
               \/ \E c \in Contracts : InitiateCheck(r, c)
        PROVE  Orphaned(w)'
    BY <1>4
    DEF NotifyOwner, Move, InitiateRefused, InitiateRefund,
        RecordGatewayResult, IssueRefused, Crash, InitiateCheck
  <1>5. ASSUME NEW v \in WorkflowIds,
               \/ ScheduleInspection(v) \/ ConfirmDamage(v)
               \/ \E n \in Damages : SubmitInspectionReport(v, n)
        PROVE  Orphaned(w)'
    BY <1>5, Origins
    DEF ScheduleInspection, ConfirmDamage, SubmitInspectionReport, Move,
        MayMove
  <1>6. ASSUME RecoverUnnotified \/ RunStallSweep PROVE Orphaned(w)'
    BY <1>6 DEF RecoverUnnotified, RunStallSweep, MoveAll, Waiting
  <1>7. ASSUME \/ \E c \in Contracts : AskGuard(c) \/ SignContract(c)
               \/ \E v \in WorkflowIds : WindowElapses(v) \/ GatewaySettles(v)
               \/ UNCHANGED vars
        PROVE  Orphaned(w)'
    BY <1>7 DEF AskGuard, SignContract, WindowElapses, GatewaySettles, vars
  <1> HIDE <1>0 DEF Orphaned, Locked, Goto, Finish
  <1>8. CASE Users
    BY <1>3, <1>4, <1>5, <1>8 DEF Users
  <1>9. ASSUME NEW r \in Requests, Service(r) PROVE Orphaned(w)'
    BY <1>1, <1>2, <1>3, <1>4, <1>9 DEF Service
  <1>10. CASE Environment
    BY <1>4, <1>7, <1>10 DEF Environment
  <1>11. QED
    BY <1>6, <1>7, <1>8, <1>9, <1>10 DEF Next, Jobs

\* Once the transaction that stored an exit's PDF is lost, no step of anybody
\* takes the exit out of REFUND_PROCESSED: money paid, no certificate row.
THEOREM OrphanStaysOne ==
  Spec => [][\A w \in WorkflowIds : Orphaned(w) => Orphaned(w)']_vars
  <1>1. IndInv /\ [Next]_vars =>
          \A w \in WorkflowIds : Orphaned(w) => Orphaned(w)'
    BY OrphanStep
  <1>2. QED
    BY Invariance, <1>1, PTL DEF Spec

=============================================================================
