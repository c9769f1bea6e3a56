--------------------------- MODULE B1Exit_proofs ---------------------------
(***************************************************************************)
(* Proofs about B1Exit, for every number of workflows, contracts,          *)
(* properties and requests, every deposit and every damage, and any number *)
(* of faults.                                                              *)
(*                                                                         *)
(* IndInv is inductive; AuditInv (the trails) and LockInv (the locks) are  *)
(* inductive on top of it.  The liveness properties stay with TLC.         *)
(***************************************************************************)
EXTENDS B1Exit, TLAPS

\* Every transition of states.yaml goes up.
LEMMA TransitionsClimb ==
  ASSUME NEW s, NEW t, NEW a, Row(s, t, a) \in Transitions
  PROVE  /\ s \in WorkflowStates /\ t \in WorkflowStates /\ a \in Actors
         /\ Rank[s] \in Nat /\ Rank[t] \in Nat /\ Rank[s] < Rank[t]
  BY DEF Row, Transitions, WorkflowStates, Actors, Rank

\* A path followed by a transition from its end is a path to the new end.
LEMMA PathGrows ==
  ASSUME NEW s, NEW t, NEW a, Row(s, t, a) \in Transitions,
         NEW A \in SUBSET ((WorkflowStates \cup {"none"}) \X WorkflowStates),
         PathTo(s, A), Climbs(s, A)
  PROVE  /\ PathTo(t, A \cup {<<s, t>>})
         /\ Climbs(t, A \cup {<<s, t>>})
  <1> DEFINE B == A \cup {<<s, t>>}
             sources == {e[1] : e \in A}
             arrivals == {e[2] : e \in A}
  <1>1. /\ s \in WorkflowStates /\ t \in WorkflowStates /\ a \in Actors
        /\ Rank[s] \in Nat /\ Rank[t] \in Nat /\ Rank[s] < Rank[t]
    BY TransitionsClimb
  <1>2. \A u \in WorkflowStates \cup {"none"} : Rank[u] \in Nat
    BY DEF Rank
  <1>3. s # "none" /\ t # "none"
    BY <1>1 DEF WorkflowStates
  <1>4. Climbs(t, B)
    <2>1. ASSUME NEW e \in A
          PROVE  Rank[e[1]] < Rank[e[2]] /\ Rank[e[2]] <= Rank[t]
      BY <1>1, <1>2, <2>1 DEF Climbs
    <2>2. QED
      BY <1>1, <2>1 DEF Climbs
  <1>5. /\ {e[1] : e \in B} = sources \cup {s}
        /\ {e[2] : e \in B} = arrivals \cup {t}
    <2> DEFINE last == <<s, t>>
    <2>1. last[1] = s /\ last[2] = t
      OBVIOUS
    <2>2. \A e : e \in B <=> e \in A \/ e = last
      OBVIOUS
    <2> HIDE DEF last, B
    <2>3. \A x : (\E e \in B : x = e[1]) <=> (\E e \in A : x = e[1]) \/ x = s
      BY <2>1, <2>2, Zenon
    <2>4. \A x : (\E e \in B : x = e[2]) <=> (\E e \in A : x = e[2]) \/ x = t
      BY <2>1, <2>2, Zenon
    <2>5. QED
      BY <2>3, <2>4
  <1>6. arrivals \ sources = {s} /\ sources \subseteq arrivals \cup {"none"}
    BY <1>3 DEF PathTo
  \* The path has not been at t: all it passed is no higher than s.
  <1>7. t \notin sources
    <2>1. ASSUME NEW e \in A, e[1] = t PROVE FALSE
      <3>1. Rank[e[1]] < Rank[e[2]] /\ Rank[e[2]] <= Rank[s]
        BY DEF Climbs
      <3>2. QED
        BY <1>1, <1>2, <2>1, <3>1
    <2>2. QED
      BY <2>1
  <1>8. \A e \in B : \/ e = <<"none", "INITIATED">>
                     \/ \E b \in Actors : Row(e[1], e[2], b) \in Transitions
    BY <1>1 DEF PathTo
  <1>9. (arrivals \cup {t}) \ (sources \cup {s}) = {t}
    BY <1>1, <1>6, <1>7
  <1>10. QED
    BY <1>3, <1>4, <1>5, <1>6, <1>8, <1>9 DEF PathTo

\* states.yaml read backwards: the only origins of each target state.
LEMMA Origins ==
  ASSUME NEW f, NEW t, Check(f, t)
  PROVE  /\ f \in WorkflowStates /\ t \in WorkflowStates
         /\ f # "none" /\ t \notin {"none", "INITIATED"}
         /\ t = "DOCS_SUBMITTED" => f = "INITIATED"
         /\ t = "OWNER_NOTIFIED" => f = "DOCS_SUBMITTED"
         /\ t = "INSPECTION_SCHEDULED" => f = "OWNER_NOTIFIED"
         /\ t = "INSPECTION_DONE" => f = "INSPECTION_SCHEDULED"
         /\ t = "DAMAGE_CONFIRMED" => f = "INSPECTION_DONE"
         /\ t = "STALLED" => f \in {"OWNER_NOTIFIED", "INSPECTION_SCHEDULED"}
  BY DEF Check, Transitions, Row, WorkflowStates

-----------------------------------------------------------------------------
\* IndInv.

\* The initial state, where there is no workflow and no request, satisfies it.
LEMMA InitInd == Init => IndInv
  BY B1ExitAssumption
  DEF Init, NullOf, IndInv, TypeOK, RequestsOK, RequestsExclude, RowsOK,
      ChargedIsSnapshotLessDamage, CompleteIsPaidAndCertified,
      QueueAgreesWithWorkflow, GivenUpMeansAlert, StalledIffTask, Steps,
      Settling, Dispatching, PaymentStatuses, OutboxStatuses, WorkflowStates

\* A PENDING event has an attempt left.
LEMMA PendingHasRoom ==
  ASSUME IndInv, NEW w \in WorkflowIds, event[w] = "PENDING"
  PROVE  /\ attempts[w] \in Nat /\ attempts[w] < MaxAttempts
         /\ attempts[w] + 1 \in 0 .. MaxAttempts
         /\ Exhausted(w) => attempts[w] + 1 = MaxAttempts
         /\ ~ Exhausted(w) => attempts[w] + 1 < MaxAttempts
  <1>1. attempts[w] \in 0 .. MaxAttempts /\ MaxAttempts \in Nat
    BY B1ExitAssumption DEF IndInv, TypeOK
  <1>2. attempts[w] # MaxAttempts
    BY DEF IndInv, GivenUpMeansAlert
  <1>3. QED
    BY <1>1, <1>2 DEF Exhausted

\* A refund is an amount; it and the damage are the deposit when the damage
\* does not exceed it.
LEMMA RefundIsAmount ==
  ASSUME NEW w \in WorkflowIds, damage[w] \in Nat, snapshot[w] \in Nat
  PROVE  /\ RefundMinor(w) \in Nat
         /\ damage[w] <= snapshot[w] => RefundMinor(w) + damage[w] = snapshot[w]
  BY DEF RefundMinor

\* An attempt to publish changes the broker and the request's place only.
LEMMA PublishTypes ==
  ASSUME TypeOK, NEW q \in Requests, NEW w \in WorkflowIds, Publish(q, w)
  PROVE  TypeOK'
  <1>1. broker' \subseteq WorkflowIds
    BY DEF Publish, TypeOK
  <1>2. pc' \in [Requests -> Steps]
    BY DEF Publish, TypeOK, Goto, Steps, Dispatching
  <1>3. target' \in [Requests -> WorkflowIds \cup {Nobody}]
    BY DEF Publish, TypeOK, Goto
  <1>4. UNCHANGED <<tables, gateway, charged, objectRef, answer, ref, bounds>>
    BY DEF Publish
  <1>5. QED
    BY <1>1, <1>2, <1>3, <1>4
    DEF TypeOK, tables, contracts, columns, history, settlement, outbox,
        bounds

\* The gateway records a status and the amount it was asked for.
LEMMA DisburseTypes ==
  ASSUME TypeOK, NEW w \in WorkflowIds, RefundMinor(w) \in Nat, Disburse(w)
  PROVE  /\ gateway' \in [WorkflowIds -> PaymentStatuses \cup {"none"}]
         /\ charged' \in [WorkflowIds -> Nat \cup {Nobody}]
         /\ gateway'[w] \in PaymentStatuses
  BY DEF TypeOK, Disburse

\* Every step writes columns and locals of their types.
LEMMA TypeStep == IndInv /\ [Next]_vars => TypeOK'
  <1> SUFFICES ASSUME IndInv, [Next]_vars PROVE TypeOK'
    OBVIOUS
  <1> USE B1ExitAssumption
      DEF IndInv, TypeOK, contracts, columns, history, settlement, outbox,
          tables, outside, requests, bounds, Steps, Settling, Dispatching,
          PaymentStatuses, RequestsOK, RowsOK, OutboxStatuses, WorkflowStates,
          GivenUpMeansAlert
  <1>1. ASSUME NEW c \in Contracts, AskGuard(c) \/ SignContract(c)
        PROVE  TypeOK'
    BY <1>1 DEF AskGuard, SignContract
  <1>2. ASSUME NEW c \in Contracts, NEW n \in Edits,
               EditDeposit(c, n)
        PROVE TypeOK'
    BY <1>2 DEF EditDeposit
  <1>3. ASSUME NEW v \in WorkflowIds, WindowElapses(v) PROVE TypeOK'
    BY <1>3 DEF WindowElapses
  <1>4. ASSUME NEW v \in WorkflowIds, GatewaySettles(v) PROVE TypeOK'
    BY <1>4 DEF GatewaySettles
  <1>5. ASSUME NEW q \in Requests, NEW c \in Contracts, NEW v \in WorkflowIds,
               Initiate(q, c, v)
        PROVE TypeOK'
    BY <1>5 DEF Initiate, Goto, Acquired
  <1>6. ASSUME NEW q \in Requests, DispatchEvent(q) PROVE TypeOK'
    <2>1. target[q] \in WorkflowIds
      BY <1>6 DEF DispatchEvent
    <2>2. QED
      BY <1>6, <2>1, PublishTypes DEF DispatchEvent
  <1>7. ASSUME NEW q \in Requests, DispatchSkipped(q) PROVE TypeOK'
    BY <1>7 DEF DispatchSkipped, Finish, Goto
  <1>8. ASSUME NEW q \in Requests, NEW v \in WorkflowIds,
               DispatchDue(q, v)
        PROVE TypeOK'
    BY <1>8, PublishTypes DEF DispatchDue
  <1>9. ASSUME NEW q \in Requests, RecordSent(q) PROVE TypeOK'
    <2> DEFINE w == target[q]
    <2>1. w \in WorkflowIds /\ event[w] = "PENDING"
      BY <1>9 DEF RecordSent
    <2>2. attempts[w] + 1 \in 0 .. MaxAttempts
      BY <2>1, PendingHasRoom
    <2>3. attempts' = [attempts EXCEPT ![w] = attempts[w] + 1]
      BY <1>9 DEF RecordSent
    <2>4. CASE Move(w, "OWNER_NOTIFIED")
      <3>1. status[w] = "DOCS_SUBMITTED"
        BY <2>4, Origins DEF Move
      <3>2. <<status[w], "OWNER_NOTIFIED">> \in
              (WorkflowStates \cup {"none"}) \X WorkflowStates
        BY <3>1
      <3>3. QED
        BY <1>9, <2>1, <2>2, <2>3, <2>4, <3>2
        DEF RecordSent, Move, Finish, Goto
    <2>5. CASE UNCHANGED <<status, audit>>
      BY <1>9, <2>1, <2>2, <2>3, <2>5 DEF RecordSent, Finish, Goto
    <2>6. QED
      BY <1>9, <2>4, <2>5 DEF RecordSent
  <1>10. ASSUME NEW q \in Requests, RecordRetry(q) PROVE TypeOK'
    <2> DEFINE w == target[q]
    <2>1. w \in WorkflowIds /\ event[w] = "PENDING"
      BY <1>10 DEF RecordRetry
    <2>2. attempts[w] + 1 \in 0 .. MaxAttempts
      BY <2>1, PendingHasRoom
    <2>3. attempts' = [attempts EXCEPT ![w] = attempts[w] + 1]
      BY <1>10 DEF RecordRetry
    <2>4. QED
      BY <1>10, <2>1, <2>2, <2>3 DEF RecordRetry, Finish, Goto
  <1>11. ASSUME NEW q \in Requests, RecordDeadLetter(q) PROVE TypeOK'
    <2> DEFINE w == target[q]
    <2>1. w \in WorkflowIds /\ event[w] = "PENDING"
      BY <1>11 DEF RecordDeadLetter
    <2>2. attempts[w] + 1 \in 0 .. MaxAttempts
      BY <2>1, PendingHasRoom
    <2>3. attempts' = [attempts EXCEPT ![w] = attempts[w] + 1]
      BY <1>11 DEF RecordDeadLetter
    <2>4. QED
      BY <1>11, <2>1, <2>2, <2>3 DEF RecordDeadLetter, Finish, Goto
  <1>12. ASSUME NEW v \in WorkflowIds, ScheduleInspection(v) PROVE TypeOK'
    BY <1>12, Origins DEF ScheduleInspection, Move, Locked
  <1>13. ASSUME NEW v \in WorkflowIds, NEW n \in Damages,
               SubmitReport(v, n)
        PROVE TypeOK'
    BY <1>13, Origins DEF SubmitReport, Move, Locked
  <1>14. ASSUME NEW v \in WorkflowIds, ConfirmDamage(v) PROVE TypeOK'
    BY <1>14, Origins DEF ConfirmDamage, Move, Locked
  <1>15. ASSUME StallScan PROVE TypeOK'
    BY <1>15, Origins DEF StallScan, MoveAll, Waiting, Locked
  <1>16. ASSUME NEW q \in Requests, NEW v \in WorkflowIds,
               SettleCreate(q, v)
        PROVE TypeOK'
    BY <1>16 DEF SettleCreate, MaySettle, Locked, Goto
  <1>17. ASSUME NEW q \in Requests, NEW v \in WorkflowIds,
               SettleResume(q, v)
        PROVE TypeOK'
    BY <1>17 DEF SettleResume, MaySettle, Locked, Goto
  <1>18. ASSUME NEW q \in Requests, SubmitRefund(q) PROVE TypeOK'
    <2> DEFINE w == target[q]
    <2>1. w \in WorkflowIds /\ RefundMinor(w) \in Nat
      BY <1>18, RefundIsAmount DEF SubmitRefund
    <2>2. /\ gateway' \in [WorkflowIds -> PaymentStatuses \cup {"none"}]
          /\ charged' \in [WorkflowIds -> Nat \cup {Nobody}]
          /\ gateway'[w] \in PaymentStatuses
      BY <1>18, <2>1, DisburseTypes DEF SubmitRefund
    <2>3. /\ pc' \in [Requests -> Steps]
          /\ target' \in [Requests -> WorkflowIds \cup {Nobody}]
          /\ answer' \in [Requests -> PaymentStatuses \cup {"none"}]
      BY <1>18, <2>1, <2>2 DEF SubmitRefund, Heed, Goto
    <2>4. QED
      BY <1>18, <2>2, <2>3 DEF SubmitRefund
  <1>19. ASSUME NEW q \in Requests, SubmitFails(q) PROVE TypeOK'
    <2> DEFINE w == target[q]
    <2>1. w \in WorkflowIds /\ RefundMinor(w) \in Nat
      BY <1>19, RefundIsAmount DEF SubmitFails
    <2>2. /\ gateway' \in [WorkflowIds -> PaymentStatuses \cup {"none"}]
          /\ charged' \in [WorkflowIds -> Nat \cup {Nobody}]
      <3>1. CASE Disburse(w)
        BY <2>1, <3>1, DisburseTypes
      <3>2. CASE UNCHANGED <<gateway, charged>>
        BY <3>2
      <3>3. QED
        BY <1>19, <3>1, <3>2 DEF SubmitFails
    <2>3. faults' \in 0 .. MaxFaults
      BY <1>19 DEF SubmitFails, Fault
    <2>4. QED
      BY <1>19, <2>2, <2>3 DEF SubmitFails, Heed, Goto
  <1>20. ASSUME NEW q \in Requests, FetchStatus(q) PROVE TypeOK'
    BY <1>20 DEF FetchStatus, Heed, Goto
  <1>21. ASSUME NEW q \in Requests, FetchFails(q) PROVE TypeOK'
    BY <1>21 DEF FetchFails, Heed, Fault, Goto
  <1>22. ASSUME NEW q \in Requests, Hold(q) PROVE TypeOK'
    BY <1>22 DEF Hold, Finish, Goto
  <1>23. ASSUME NEW q \in Requests, StorePdf(q) PROVE TypeOK'
    <2> DEFINE w == target[q]
    <2>1. w \in WorkflowIds /\ ref[q] \in Nat
      BY <1>23 DEF StorePdf
    <2>2. objectRef' \in [WorkflowIds -> Nat \cup {Nobody}]
      BY <1>23, <2>1 DEF StorePdf
    <2>3. /\ pc' \in [Requests -> Steps]
          /\ target' \in [Requests -> WorkflowIds \cup {Nobody}]
      BY <1>23, <2>1 DEF StorePdf, Goto
    <2>4. QED
      BY <1>23, <2>2, <2>3 DEF StorePdf
  <1>24. ASSUME NEW q \in Requests, SettleCommit(q) PROVE TypeOK'
    <2> DEFINE w == target[q]
    <2>1. w \in WorkflowIds /\ status[w] = "DAMAGE_CONFIRMED"
      BY <1>24 DEF SettleCommit
    <2>2. SettledTrail(w) \in SUBSET ((WorkflowStates \cup {"none"}) \X WorkflowStates)
      BY <2>1 DEF SettledTrail
    <2>3. audit' \in [WorkflowIds ->
                     SUBSET ((WorkflowStates \cup {"none"}) \X WorkflowStates)]
      BY <1>24, <2>1, <2>2 DEF SettleCommit
    <2>4. /\ payment' \in [WorkflowIds -> PaymentStatuses \cup {"none"}]
          /\ paymentRef' \in [WorkflowIds -> Nat \cup {Nobody}]
          /\ nocRef' \in [WorkflowIds -> Nat \cup {Nobody}]
          /\ lock' \in [Properties -> WorkflowIds \cup {Nobody}]
          /\ status' \in [WorkflowIds -> WorkflowStates \cup {"none"}]
      <3>1. lock' \in [Properties -> WorkflowIds \cup {Nobody}]
        BY <1>24 DEF SettleCommit, Released
      <3>2. /\ answer[q] \in PaymentStatuses /\ ref[q] \in Nat
            /\ objectRef[w] \in Nat \cup {Nobody}
        BY <1>24, <2>1 DEF SettleCommit
      <3>3. QED
        BY <1>24, <2>1, <3>1, <3>2 DEF SettleCommit
    <2>5. /\ pc' \in [Requests -> Steps]
          /\ target' \in [Requests -> WorkflowIds \cup {Nobody}]
          /\ answer' \in [Requests -> PaymentStatuses \cup {"none"}]
          /\ ref' \in [Requests -> Nat \cup {Nobody}]
      BY <1>24 DEF SettleCommit, Finish, Goto
    <2>6. QED
      BY <1>24, <2>3, <2>4, <2>5 DEF SettleCommit
  <1>25. ASSUME NEW q \in Requests, Crash(q) PROVE TypeOK'
    BY <1>25 DEF Crash, Fault, Finish, Goto
  <1>26. CASE UNCHANGED vars
    BY <1>26 DEF vars
  <1>27. QED
    BY <1>1, <1>2, <1>3, <1>4, <1>5, <1>6, <1>7, <1>8, <1>9, <1>10, <1>11,
       <1>12, <1>13, <1>14, <1>15, <1>16, <1>17, <1>18, <1>19, <1>20, <1>21,
       <1>22, <1>23, <1>24, <1>25, <1>26
    DEF Next, Users, Jobs, Environment, Dispatcher, Settlement

\* Every step keeps what the open requests rely on, each alone on its row.
LEMMA RequestsStep ==
  IndInv /\ [Next]_vars =>
    RequestsOK' /\ RequestsExclude'
  <1> DEFINE Kept ==
    RequestsOK' /\ RequestsExclude'
  <1> SUFFICES ASSUME IndInv, [Next]_vars PROVE Kept
    OBVIOUS
  <1> USE B1ExitAssumption
      DEF IndInv, TypeOK, contracts, columns, history, settlement, outbox,
          tables, outside, requests, bounds, Settling, Dispatching,
          PaymentStatuses, RequestsOK, RequestsExclude, RowsOK,
          QueueAgreesWithWorkflow
  <1>1. ASSUME NEW c \in Contracts, AskGuard(c) \/ SignContract(c) PROVE Kept
    BY <1>1 DEF AskGuard, SignContract
  <1>2. ASSUME NEW c \in Contracts, NEW n \in Edits,
               EditDeposit(c, n)
        PROVE Kept
    BY <1>2 DEF EditDeposit
  <1>3. ASSUME NEW v \in WorkflowIds, WindowElapses(v) PROVE Kept
    BY <1>3 DEF WindowElapses
  <1>4. ASSUME NEW v \in WorkflowIds, GatewaySettles(v) PROVE Kept
    BY <1>4 DEF GatewaySettles
  <1>5. ASSUME NEW q \in Requests, NEW c \in Contracts, NEW v \in WorkflowIds,
               Initiate(q, c, v)
        PROVE Kept
    BY <1>5 DEF Initiate, Goto, Acquired
  <1>6. ASSUME NEW q \in Requests, DispatchEvent(q) PROVE Kept
    <2> DEFINE w == target[q]
    <2>1. /\ w \in WorkflowIds /\ event[w] = "PENDING" /\ pc[q] = "dispatch"
          /\ \A r \in Requests : pc[r] \in Dispatching => target[r] # w
      BY <1>6 DEF DispatchEvent, EventHeld
    <2>2. target' = target
      BY <1>6 DEF DispatchEvent, Publish, Goto
    <2>3. /\ pc' \in {[pc EXCEPT ![q] = "sent"], [pc EXCEPT ![q] = "unsent"]}
          /\ pc'[q] = "sent" => broker' = broker \cup {w}
          /\ broker \subseteq broker'
      BY <1>6 DEF DispatchEvent, Publish, Goto
    <2>4. UNCHANGED <<tables, gateway, objectRef, answer, ref>>
      BY <1>6 DEF DispatchEvent, Publish
    <2>5. CASE pc' = [pc EXCEPT ![q] = "sent"]
      BY <2>1, <2>2, <2>3, <2>4, <2>5
    <2>6. CASE pc' = [pc EXCEPT ![q] = "unsent"]
      BY <2>1, <2>2, <2>3, <2>4, <2>6
    <2>7. QED
      BY <2>3, <2>5, <2>6
  <1>7. ASSUME NEW q \in Requests, DispatchSkipped(q) PROVE Kept
    BY <1>7 DEF DispatchSkipped, Finish, Goto
  <1>8. ASSUME NEW q \in Requests, NEW v \in WorkflowIds,
               DispatchDue(q, v)
        PROVE Kept
    <2>1. /\ event[v] = "PENDING" /\ pc[q] = "idle"
          /\ \A r \in Requests : pc[r] \in Dispatching => target[r] # v
      BY <1>8 DEF DispatchDue, EventHeld
    <2>2. /\ pc' \in {[pc EXCEPT ![q] = "sent"], [pc EXCEPT ![q] = "unsent"]}
          /\ target' = [target EXCEPT ![q] = v]
          /\ pc'[q] = "sent" => broker' = broker \cup {v}
          /\ broker \subseteq broker'
      BY <1>8, <2>1 DEF DispatchDue, Publish, Goto
    <2>3. UNCHANGED <<tables, gateway, objectRef, answer, ref>>
      BY <1>8 DEF DispatchDue, Publish
    <2>4. QED
      BY <2>1, <2>2, <2>3
  <1>9. ASSUME NEW q \in Requests, RecordSent(q) PROVE Kept
    BY <1>9, Origins DEF RecordSent, Move, Finish, Goto
  <1>10. ASSUME NEW q \in Requests, RecordRetry(q) PROVE Kept
    BY <1>10 DEF RecordRetry, Exhausted, Finish, Goto
  <1>11. ASSUME NEW q \in Requests, RecordDeadLetter(q) PROVE Kept
    BY <1>11 DEF RecordDeadLetter, Exhausted, Finish, Goto
  <1>12. ASSUME NEW v \in WorkflowIds, ScheduleInspection(v) PROVE Kept
    BY <1>12, Origins DEF ScheduleInspection, Move, Locked
  <1>13. ASSUME NEW v \in WorkflowIds, NEW n \in Damages,
               SubmitReport(v, n)
        PROVE Kept
    BY <1>13, Origins DEF SubmitReport, Move, Locked
  <1>14. ASSUME NEW v \in WorkflowIds, ConfirmDamage(v) PROVE Kept
    BY <1>14, Origins DEF ConfirmDamage, Move, Locked
  <1>15. ASSUME StallScan PROVE Kept
    BY <1>15, Origins DEF StallScan, MoveAll, Waiting, Locked
  <1>16. ASSUME NEW q \in Requests, NEW v \in WorkflowIds,
               SettleCreate(q, v)
        PROVE Kept
    BY <1>16 DEF SettleCreate, MaySettle, Locked, Goto
  <1>17. ASSUME NEW q \in Requests, NEW v \in WorkflowIds,
               SettleResume(q, v)
        PROVE Kept
    BY <1>17 DEF SettleResume, MaySettle, Locked, Goto
  <1>18. ASSUME NEW q \in Requests, SubmitRefund(q) PROVE Kept
    BY <1>18 DEF SubmitRefund, Disburse, RefundMinor, Heed, Goto
  <1>19. ASSUME NEW q \in Requests, SubmitFails(q) PROVE Kept
    BY <1>19 DEF SubmitFails, Disburse, RefundMinor, Heed, Fault, Goto
  <1>20. ASSUME NEW q \in Requests, FetchStatus(q) PROVE Kept
    BY <1>20 DEF FetchStatus, Heed, Goto
  <1>21. ASSUME NEW q \in Requests, FetchFails(q) PROVE Kept
    BY <1>21 DEF FetchFails, Heed, Fault, Goto
  <1>22. ASSUME NEW q \in Requests, Hold(q) PROVE Kept
    BY <1>22 DEF Hold, Finish, Goto
  <1>23. ASSUME NEW q \in Requests, StorePdf(q) PROVE Kept
    BY <1>23 DEF StorePdf, Goto
  <1>24. ASSUME NEW q \in Requests, SettleCommit(q) PROVE Kept
    BY <1>24 DEF SettleCommit, SettledTrail, Released, Finish, Goto
  <1>25. ASSUME NEW q \in Requests, Crash(q) PROVE Kept
    BY <1>25 DEF Crash, Fault, Finish, Goto
  <1>26. CASE UNCHANGED vars
    BY <1>26 DEF vars
  <1>27. QED
    BY <1>1, <1>2, <1>3, <1>4, <1>5, <1>6, <1>7, <1>8, <1>9, <1>10, <1>11,
       <1>12, <1>13, <1>14, <1>15, <1>16, <1>17, <1>18, <1>19, <1>20, <1>21,
       <1>22, <1>23, <1>24, <1>25, <1>26
    DEF Next, Users, Jobs, Environment, Dispatcher, Settlement

\* Every step keeps the rows, the gateway and the bucket in agreement.
LEMMA RowsStep ==
  IndInv /\ [Next]_vars =>
    RowsOK' /\ ChargedIsSnapshotLessDamage' /\ CompleteIsPaidAndCertified'
  <1> DEFINE Kept ==
    RowsOK' /\ ChargedIsSnapshotLessDamage' /\ CompleteIsPaidAndCertified'
  <1> SUFFICES ASSUME IndInv, [Next]_vars PROVE Kept
    OBVIOUS
  <1> USE B1ExitAssumption
      DEF IndInv, TypeOK, contracts, columns, history, settlement, outbox,
          tables, outside, requests, bounds, Settling, PaymentStatuses,
          RequestsOK, RequestsExclude, RowsOK, ChargedIsSnapshotLessDamage,
          CompleteIsPaidAndCertified
  <1>1. ASSUME NEW c \in Contracts, AskGuard(c) \/ SignContract(c) PROVE Kept
    BY <1>1 DEF AskGuard, SignContract
  <1>2. ASSUME NEW c \in Contracts, NEW n \in Edits,
               EditDeposit(c, n)
        PROVE Kept
    BY <1>2 DEF EditDeposit
  <1>3. ASSUME NEW v \in WorkflowIds, WindowElapses(v) PROVE Kept
    BY <1>3 DEF WindowElapses
  <1>4. ASSUME NEW v \in WorkflowIds, GatewaySettles(v) PROVE Kept
    BY <1>4 DEF GatewaySettles
  <1>5. ASSUME NEW q \in Requests, NEW c \in Contracts, NEW v \in WorkflowIds,
               Initiate(q, c, v)
        PROVE Kept
    BY <1>5 DEF Initiate, Goto, Acquired
  <1>6. ASSUME NEW q \in Requests, DispatchEvent(q) PROVE Kept
    BY <1>6 DEF DispatchEvent, Publish, Goto, EventHeld
  <1>7. ASSUME NEW q \in Requests, DispatchSkipped(q) PROVE Kept
    BY <1>7 DEF DispatchSkipped, Finish, Goto
  <1>8. ASSUME NEW q \in Requests, NEW v \in WorkflowIds,
               DispatchDue(q, v)
        PROVE Kept
    BY <1>8 DEF DispatchDue, Publish, Goto, EventHeld
  <1>9. ASSUME NEW q \in Requests, RecordSent(q) PROVE Kept
    <2> DEFINE w == target[q]
    <2>1. w \in WorkflowIds
      BY <1>9 DEF RecordSent
    <2>2. CASE Move(w, "OWNER_NOTIFIED")
      BY <1>9, <2>1, <2>2, Origins DEF RecordSent, Move
    <2>3. CASE UNCHANGED <<status, audit>>
      BY <1>9, <2>1, <2>3 DEF RecordSent
    <2>4. QED
      BY <1>9, <2>2, <2>3 DEF RecordSent
  <1>10. ASSUME NEW q \in Requests, RecordRetry(q) PROVE Kept
    BY <1>10 DEF RecordRetry, Exhausted, Finish, Goto
  <1>11. ASSUME NEW q \in Requests, RecordDeadLetter(q) PROVE Kept
    BY <1>11 DEF RecordDeadLetter, Exhausted, Finish, Goto
  <1>12. ASSUME NEW v \in WorkflowIds, ScheduleInspection(v) PROVE Kept
    BY <1>12, Origins DEF ScheduleInspection, Move, Locked
  <1>13. ASSUME NEW v \in WorkflowIds, NEW n \in Damages,
               SubmitReport(v, n)
        PROVE Kept
    BY <1>13, Origins DEF SubmitReport, Move, Locked
  <1>14. ASSUME NEW v \in WorkflowIds, ConfirmDamage(v) PROVE Kept
    BY <1>14, Origins DEF ConfirmDamage, Move, Locked
  <1>15. ASSUME StallScan PROVE Kept
    BY <1>15, Origins DEF StallScan, MoveAll, Waiting, Locked
  <1>16. ASSUME NEW q \in Requests, NEW v \in WorkflowIds,
               SettleCreate(q, v)
        PROVE Kept
    BY <1>16 DEF SettleCreate, MaySettle, Locked, Goto
  <1>17. ASSUME NEW q \in Requests, NEW v \in WorkflowIds,
               SettleResume(q, v)
        PROVE Kept
    BY <1>17 DEF SettleResume, MaySettle, Locked, Goto
  <1>18. ASSUME NEW q \in Requests, SubmitRefund(q) PROVE Kept
    BY <1>18 DEF SubmitRefund, Disburse, RefundMinor, Heed, Goto
  <1>19. ASSUME NEW q \in Requests, SubmitFails(q) PROVE Kept
    BY <1>19 DEF SubmitFails, Disburse, RefundMinor, Heed, Fault, Goto
  <1>20. ASSUME NEW q \in Requests, FetchStatus(q) PROVE Kept
    BY <1>20 DEF FetchStatus, Heed, Goto
  <1>21. ASSUME NEW q \in Requests, FetchFails(q) PROVE Kept
    BY <1>21 DEF FetchFails, Heed, Fault, Goto
  <1>22. ASSUME NEW q \in Requests, Hold(q) PROVE Kept
    BY <1>22 DEF Hold, Finish, Goto
  <1>23. ASSUME NEW q \in Requests, StorePdf(q) PROVE Kept
    BY <1>23 DEF StorePdf, Goto
  <1>24. ASSUME NEW q \in Requests, SettleCommit(q) PROVE Kept
    BY <1>24 DEF SettleCommit, SettledTrail, Released, Finish, Goto
  <1>25. ASSUME NEW q \in Requests, Crash(q) PROVE Kept
    BY <1>25 DEF Crash, Fault, Finish, Goto
  <1>26. CASE UNCHANGED vars
    BY <1>26 DEF vars
  <1>27. QED
    BY <1>1, <1>2, <1>3, <1>4, <1>5, <1>6, <1>7, <1>8, <1>9, <1>10, <1>11,
       <1>12, <1>13, <1>14, <1>15, <1>16, <1>17, <1>18, <1>19, <1>20, <1>21,
       <1>22, <1>23, <1>24, <1>25, <1>26
    DEF Next, Users, Jobs, Environment, Dispatcher, Settlement

\* Every step keeps the outbox in agreement with the workflows, and the two
\* lists of the administrators complete.
LEMMA QueueStep ==
  IndInv /\ [Next]_vars =>
    /\ QueueAgreesWithWorkflow' /\ GivenUpMeansAlert' /\ StalledIffTask'
    /\ (\A w \in WorkflowIds : event[w] = "none" => attempts[w] = 0)'
  <1> DEFINE Kept ==
    /\ QueueAgreesWithWorkflow' /\ GivenUpMeansAlert' /\ StalledIffTask'
    /\ (\A w \in WorkflowIds : event[w] = "none" => attempts[w] = 0)'
  <1> SUFFICES ASSUME IndInv, [Next]_vars PROVE Kept
    OBVIOUS
  <1> USE B1ExitAssumption
      DEF IndInv, TypeOK, contracts, columns, history, settlement, outbox,
          tables, outside, requests, bounds, Settling, Dispatching,
          OutboxStatuses, RequestsOK, RowsOK, QueueAgreesWithWorkflow,
          GivenUpMeansAlert, StalledIffTask
  <1>1. ASSUME NEW c \in Contracts, AskGuard(c) \/ SignContract(c) PROVE Kept
    BY <1>1 DEF AskGuard, SignContract
  <1>2. ASSUME NEW c \in Contracts, NEW n \in Edits,
               EditDeposit(c, n)
        PROVE Kept
    BY <1>2 DEF EditDeposit
  <1>3. ASSUME NEW v \in WorkflowIds, WindowElapses(v) PROVE Kept
    BY <1>3 DEF WindowElapses
  <1>4. ASSUME NEW v \in WorkflowIds, GatewaySettles(v) PROVE Kept
    BY <1>4 DEF GatewaySettles
  <1>5. ASSUME NEW q \in Requests, NEW c \in Contracts, NEW v \in WorkflowIds,
               Initiate(q, c, v)
        PROVE Kept
    BY <1>5 DEF Initiate, Goto, Acquired
  <1>6. ASSUME NEW q \in Requests, DispatchEvent(q) PROVE Kept
    BY <1>6 DEF DispatchEvent, Publish, Goto, EventHeld
  <1>7. ASSUME NEW q \in Requests, DispatchSkipped(q) PROVE Kept
    BY <1>7 DEF DispatchSkipped, Finish, Goto
  <1>8. ASSUME NEW q \in Requests, NEW v \in WorkflowIds,
               DispatchDue(q, v)
        PROVE Kept
    BY <1>8 DEF DispatchDue, Publish, Goto, EventHeld
  <1>9. ASSUME NEW q \in Requests, RecordSent(q) PROVE Kept
    BY <1>9, Origins DEF RecordSent, Move, Finish, Goto
  <1>10. ASSUME NEW q \in Requests, RecordRetry(q) PROVE Kept
    BY <1>10 DEF RecordRetry, Exhausted, Finish, Goto
  <1>11. ASSUME NEW q \in Requests, RecordDeadLetter(q) PROVE Kept
    <2> DEFINE w == target[q]
    <2>1. w \in WorkflowIds /\ event[w] = "PENDING"
      BY <1>11 DEF RecordDeadLetter
    <2>2. attempts[w] + 1 = MaxAttempts
      BY <1>11, <2>1, PendingHasRoom DEF RecordDeadLetter
    <2>3. attempts' = [attempts EXCEPT ![w] = MaxAttempts]
      BY <1>11, <2>2 DEF RecordDeadLetter
    <2>4. QED
      BY <1>11, <2>1, <2>3 DEF RecordDeadLetter
  <1>12. ASSUME NEW v \in WorkflowIds, ScheduleInspection(v) PROVE Kept
    BY <1>12, Origins DEF ScheduleInspection, Move, Locked
  <1>13. ASSUME NEW v \in WorkflowIds, NEW n \in Damages,
               SubmitReport(v, n)
        PROVE Kept
    BY <1>13, Origins DEF SubmitReport, Move, Locked
  <1>14. ASSUME NEW v \in WorkflowIds, ConfirmDamage(v) PROVE Kept
    BY <1>14, Origins DEF ConfirmDamage, Move, Locked
  <1>15. ASSUME StallScan PROVE Kept
    BY <1>15, Origins DEF StallScan, MoveAll, Waiting, Locked
  <1>16. ASSUME NEW q \in Requests, NEW v \in WorkflowIds,
               SettleCreate(q, v)
        PROVE Kept
    BY <1>16 DEF SettleCreate, MaySettle, Locked, Goto
  <1>17. ASSUME NEW q \in Requests, NEW v \in WorkflowIds,
               SettleResume(q, v)
        PROVE Kept
    BY <1>17 DEF SettleResume, MaySettle, Locked, Goto
  <1>18. ASSUME NEW q \in Requests, SubmitRefund(q) PROVE Kept
    BY <1>18 DEF SubmitRefund, Disburse, RefundMinor, Heed, Goto
  <1>19. ASSUME NEW q \in Requests, SubmitFails(q) PROVE Kept
    BY <1>19 DEF SubmitFails, Disburse, RefundMinor, Heed, Fault, Goto
  <1>20. ASSUME NEW q \in Requests, FetchStatus(q) PROVE Kept
    BY <1>20 DEF FetchStatus, Heed, Goto
  <1>21. ASSUME NEW q \in Requests, FetchFails(q) PROVE Kept
    BY <1>21 DEF FetchFails, Heed, Fault, Goto
  <1>22. ASSUME NEW q \in Requests, Hold(q) PROVE Kept
    BY <1>22 DEF Hold, Finish, Goto
  <1>23. ASSUME NEW q \in Requests, StorePdf(q) PROVE Kept
    BY <1>23 DEF StorePdf, Goto
  <1>24. ASSUME NEW q \in Requests, SettleCommit(q) PROVE Kept
    BY <1>24 DEF SettleCommit, SettledTrail, Released, Finish, Goto
  <1>25. ASSUME NEW q \in Requests, Crash(q) PROVE Kept
    BY <1>25 DEF Crash, Fault, Finish, Goto
  <1>26. CASE UNCHANGED vars
    BY <1>26 DEF vars
  <1>27. QED
    BY <1>1, <1>2, <1>3, <1>4, <1>5, <1>6, <1>7, <1>8, <1>9, <1>10, <1>11,
       <1>12, <1>13, <1>14, <1>15, <1>16, <1>17, <1>18, <1>19, <1>20, <1>21,
       <1>22, <1>23, <1>24, <1>25, <1>26
    DEF Next, Users, Jobs, Environment, Dispatcher, Settlement

\* IndInv holds in every reachable state.
THEOREM Invariance == Spec => []IndInv
  <1>1. IndInv /\ [Next]_vars => IndInv'
    BY TypeStep, RequestsStep, RowsStep, QueueStep DEF IndInv
  <1>2. QED
    BY InitInd, <1>1, PTL DEF Spec

\* Every column and every local of a request keeps its type.
THEOREM TypeCorrect == Spec => []TypeOK
  BY Invariance, PTL DEF IndInv

\* EXIT-08, X-004: a certificate, stored or recorded, is of a deposit the
\* gateway has paid out, whichever transactions were rolled back.
THEOREM NocNeedsMoney == Spec => []NocOnlyAfterPaid
  <1>1. IndInv => NocOnlyAfterPaid
    BY DEF IndInv, RowsOK, NocOnlyAfterPaid
  <1>2. QED
    BY Invariance, <1>1, PTL

\* EXIT-07: the gateway is asked for the deposit as it was at initiation less
\* the confirmed damage, whatever is edited and however often it is asked.
THEOREM RefundIsRight == Spec => []ChargedIsSnapshotLessDamage
  BY Invariance, PTL DEF IndInv

\* EXIT-09, X-004: SUCCEEDED, the certificate's row and COMPLETE are one commit.
THEOREM CompleteMeansPaid == Spec => []CompleteIsPaidAndCertified
  BY Invariance, PTL DEF IndInv

\* dispatcher.py:120-122: the queue never disagrees with the workflow.
THEOREM QueueNeverDisagrees == Spec => []QueueAgreesWithWorkflow
  BY Invariance, PTL DEF IndInv

\* EXIT-04: dead-lettered after exactly MaxAttempts attempts, and reported.
THEOREM GivenUpIsReported == Spec => []GivenUpMeansAlert
  BY Invariance, PTL DEF IndInv

\* EXIT-05: the administrators' list is the stalled workflows.
THEOREM StalledAreReported == Spec => []StalledIffTask
  BY Invariance, PTL DEF IndInv

\* The right amount, the certificate after the money, and with COMPLETE.
THEOREM MoneyComesFirst == Spec => []MoneyThenNoc
  BY RefundIsRight, NocNeedsMoney, CompleteMeansPaid, PTL DEF MoneyThenNoc

\* X-005: a committed payment row is the workflow's payment for ever.
THEOREM OnePaymentForEver == Spec => PaymentRowStays
  <1> DEFINE Stays ==
        \A w \in WorkflowIds :
          paymentRef[w] # Nobody => paymentRef'[w] = paymentRef[w]
  <1>1. ASSUME IndInv, [Next]_vars PROVE Stays
    <2>1. ASSUME NEW q \in Requests, Hold(q) \/ SettleCommit(q) PROVE Stays
      <3>1. /\ pc[q] \in Settling
            /\ paymentRef' = [paymentRef EXCEPT ![target[q]] = ref[q]]
        BY <2>1 DEF Hold, SettleCommit, Settling
      <3>2. paymentRef[target[q]] # Nobody => paymentRef[target[q]] = ref[q]
        BY <1>1, <3>1 DEF IndInv, RequestsOK, RowsOK, Settling
      <3>3. QED
        BY <1>1, <3>1, <3>2 DEF IndInv, TypeOK
    <2>2. paymentRef' = paymentRef => Stays
      OBVIOUS
    <2>3. \/ \E q \in Requests : Hold(q) \/ SettleCommit(q)
          \/ paymentRef' = paymentRef
      BY <1>1
      DEF Next, Users, Jobs, Environment, Dispatcher, Settlement, vars,
          tables, settlement, AskGuard, SignContract, EditDeposit, WindowElapses,
          GatewaySettles, Initiate, DispatchEvent, DispatchSkipped,
          DispatchDue, Publish, RecordSent, RecordRetry, RecordDeadLetter,
          ScheduleInspection, SubmitReport, ConfirmDamage, StallScan,
          SettleCreate, SettleResume, SubmitRefund, SubmitFails, FetchStatus,
          FetchFails, StorePdf, Crash
    <2>4. QED
      BY <2>1, <2>2, <2>3
  <1>2. IndInv /\ [Next]_vars => [Stays]_vars
    BY <1>1
  <1>3. Spec => [][Stays]_vars
    BY Invariance, <1>2, PTL DEF Spec
  <1>4. QED
    BY <1>3 DEF PaymentRowStays

-----------------------------------------------------------------------------
\* AuditInv.

\* No workflow, no path.
LEMMA InitAudit == Init => AuditInv
  BY DEF Init, AuditInv, PathTo, Climbs

\* One transition of one workflow keeps the trails.
LEMMA MoveKeepsTrail ==
  ASSUME TypeOK, AuditInv, NEW w \in WorkflowIds, NEW to, Move(w, to)
  PROVE  AuditInv'
  <1>1. PICK a : Row(status[w], to, a) \in Transitions
    BY DEF Move, Check
  <1>2. /\ PathTo(to, audit[w] \cup {<<status[w], to>>})
        /\ Climbs(to, audit[w] \cup {<<status[w], to>>})
    BY <1>1, PathGrows DEF AuditInv, TypeOK
  <1>3. QED
    BY <1>2 DEF AuditInv, TypeOK, Move

\* So does one transition of every workflow of a scan.
LEMMA ScanKeepsTrail ==
  ASSUME TypeOK, AuditInv, NEW batch \in SUBSET WorkflowIds, NEW to,
         MoveAll(batch, to)
  PROVE  AuditInv'
  <1>1. ASSUME NEW w \in batch
        PROVE  /\ PathTo(to, audit[w] \cup {<<status[w], to>>})
               /\ Climbs(to, audit[w] \cup {<<status[w], to>>})
    <2>1. PICK a : Row(status[w], to, a) \in Transitions
      BY DEF MoveAll, Check
    <2>2. QED
      BY <2>1, PathGrows DEF AuditInv, TypeOK
  <1>2. QED
    BY <1>1 DEF AuditInv, TypeOK, MoveAll

\* And so do the three transitions of a settlement.
LEMMA CommitKeepsTrail ==
  ASSUME IndInv, AuditInv, NEW q \in Requests, SettleCommit(q)
  PROVE  AuditInv'
  <1> DEFINE w == target[q]
             A == audit[w] \cup {<<"DAMAGE_CONFIRMED", "REFUND_PROCESSED">>}
             B == A \cup {<<"REFUND_PROCESSED", "NOC_ISSUED">>}
             C == B \cup {<<"NOC_ISSUED", "COMPLETE">>}
             Pairs == (WorkflowStates \cup {"none"}) \X WorkflowStates
  <1>1. w \in WorkflowIds /\ status[w] = "DAMAGE_CONFIRMED"
    BY DEF SettleCommit, IndInv, RequestsOK, Settling
  <1>2. /\ Row("DAMAGE_CONFIRMED", "REFUND_PROCESSED", "system") \in Transitions
        /\ Row("REFUND_PROCESSED", "NOC_ISSUED", "system") \in Transitions
        /\ Row("NOC_ISSUED", "COMPLETE", "system") \in Transitions
    BY DEF Transitions
  <1>3. /\ audit[w] \in SUBSET Pairs
        /\ PathTo("DAMAGE_CONFIRMED", audit[w])
        /\ Climbs("DAMAGE_CONFIRMED", audit[w])
    BY <1>1 DEF IndInv, TypeOK, AuditInv
  <1>4. A \in SUBSET Pairs /\ B \in SUBSET Pairs
    BY <1>3 DEF WorkflowStates
  <1>5. PathTo("REFUND_PROCESSED", A) /\ Climbs("REFUND_PROCESSED", A)
    BY <1>2, <1>3, PathGrows
  <1> HIDE DEF A
  <1>6. PathTo("NOC_ISSUED", B) /\ Climbs("NOC_ISSUED", B)
    BY <1>2, <1>4, <1>5, PathGrows
  <1> HIDE DEF B
  <1>7. PathTo("COMPLETE", C) /\ Climbs("COMPLETE", C)
    BY <1>2, <1>4, <1>6, PathGrows
  <1>8. SettledTrail(w) = C
    BY <1>1 DEF SettledTrail, A, B
  <1>9. QED
    BY <1>1, <1>7, <1>8 DEF SettleCommit, IndInv, AuditInv, TypeOK

\* Every step keeps the trails.
LEMMA AuditStep == IndInv /\ AuditInv /\ [Next]_vars => AuditInv'
  <1> SUFFICES ASSUME IndInv, AuditInv, [Next]_vars PROVE AuditInv'
    OBVIOUS
  <1>1. TypeOK
    BY DEF IndInv
  <1>2. UNCHANGED <<status, audit>> => AuditInv'
    BY DEF AuditInv
  <1>3. ASSUME NEW q \in Requests, NEW c \in Contracts, NEW w \in WorkflowIds,
               Initiate(q, c, w)
        PROVE AuditInv'
    <2> DEFINE A == {<<"none", "INITIATED">>, <<"INITIATED", "DOCS_SUBMITTED">>}
    <2>1. Row("INITIATED", "DOCS_SUBMITTED", "tenant") \in Transitions
      BY DEF Transitions
    <2>2. PathTo("DOCS_SUBMITTED", A)
      <3>1. {e[1] : e \in A} = {"none", "INITIATED"}
        OBVIOUS
      <3>2. {e[2] : e \in A} = {"INITIATED", "DOCS_SUBMITTED"}
        OBVIOUS
      <3>3. QED
        BY <2>1, <3>1, <3>2 DEF PathTo, Actors
    <2>3. Climbs("DOCS_SUBMITTED", A)
      BY DEF Climbs, Rank, WorkflowStates
    <2>4. QED
      BY <1>1, <1>3, <2>2, <2>3 DEF Initiate, AuditInv, TypeOK
  <1>4. ASSUME NEW q \in Requests, RecordSent(q) PROVE AuditInv'
    BY <1>1, <1>2, <1>4, MoveKeepsTrail DEF RecordSent, IndInv, RequestsOK
  <1>5. ASSUME NEW w \in WorkflowIds, ScheduleInspection(w) PROVE AuditInv'
    BY <1>1, <1>5, MoveKeepsTrail DEF ScheduleInspection
  <1>6. ASSUME NEW w \in WorkflowIds, NEW n \in Damages, SubmitReport(w, n)
        PROVE AuditInv'
    BY <1>1, <1>6, MoveKeepsTrail DEF SubmitReport
  <1>7. ASSUME NEW w \in WorkflowIds, ConfirmDamage(w) PROVE AuditInv'
    BY <1>1, <1>7, MoveKeepsTrail DEF ConfirmDamage
  <1>8. ASSUME StallScan PROVE AuditInv'
    <2>1. \A w \in late : w \in WorkflowIds
      BY <1>1 DEF TypeOK
    <2>2. QED
      BY <1>1, <1>8, <2>1, ScanKeepsTrail DEF StallScan
  <1>9. ASSUME NEW q \in Requests, SettleCommit(q) PROVE AuditInv'
    BY <1>9, CommitKeepsTrail
  <1>10. ASSUME \/ \E c \in Contracts : \/ AskGuard(c) \/ SignContract(c)
                                        \/ \E n \in Edits : EditDeposit(c, n)
                \/ \E w \in WorkflowIds : WindowElapses(w) \/ GatewaySettles(w)
                \/ \E q \in Requests, w \in WorkflowIds :
                     DispatchDue(q, w) \/ SettleCreate(q, w) \/ SettleResume(q, w)
                \/ \E q \in Requests :
                     \/ DispatchEvent(q) \/ DispatchSkipped(q)
                     \/ RecordRetry(q) \/ RecordDeadLetter(q)
                     \/ SubmitRefund(q) \/ SubmitFails(q) \/ FetchStatus(q)
                     \/ FetchFails(q) \/ Hold(q) \/ StorePdf(q) \/ Crash(q)
                \/ UNCHANGED vars
         PROVE UNCHANGED <<status, audit>>
    BY <1>10
    DEF AskGuard, SignContract, EditDeposit, WindowElapses, GatewaySettles, DispatchDue,
        SettleCreate, SettleResume, DispatchEvent, DispatchSkipped, Publish,
        RecordRetry, RecordDeadLetter, SubmitRefund, SubmitFails, FetchStatus,
        FetchFails, Hold, StorePdf, Crash, vars, tables, history
  <1>11. QED
    BY <1>2, <1>3, <1>4, <1>5, <1>6, <1>7, <1>8, <1>9, <1>10
    DEF Next, Users, Jobs, Environment, Dispatcher, Settlement

\* AuditInv holds in every reachable state.
THEOREM AuditInvariance == Spec => []AuditInv
  BY InitAudit, AuditStep, Invariance, PTL DEF Spec

\* EXIT-10: the audit table of every workflow is one path through states.yaml
\* that ends at its status, also when a commit makes three transitions.
THEOREM TrailIsAPath == Spec => []AuditTrailIsAPath
  <1>1. AuditInv => AuditTrailIsAPath
    BY DEF AuditInv, AuditTrailIsAPath
  <1>2. QED
    BY AuditInvariance, <1>1, PTL

\* The types, the audit trails, the queue, the alerts and the administrators'
\* list, as one.
THEOREM RecordsStayRight == Spec => []RecordsAgree
  BY TypeCorrect, TrailIsAPath, QueueNeverDisagrees, GivenUpIsReported,
     StalledAreReported, PTL
  DEF RecordsAgree

-----------------------------------------------------------------------------
\* LockInv.

\* A step that leaves the contract column, the active contracts and the locks
\* alone, completes nothing and creates nothing, keeps the lock discipline.
LEMMA QuietStep ==
  ASSUME IndInv, LockInv,
         active' = active, contract' = contract, lock' = lock,
         \A w \in WorkflowIds :
           /\ status'[w] = "none" <=> status[w] = "none"
           /\ status'[w] = "COMPLETE" <=> status[w] = "COMPLETE"
  PROVE  LockInv'
  <1>. USE DEF LockInv, PropertyOfWorkflow
  <1>1. TenancyOK'
    BY DEF TenancyOK, Ended
  <1>2. OneExitPerContract'
    BY DEF OneExitPerContract
  <1>3. ExclusiveTenancy => IncompleteHoldsLock'
    BY DEF IncompleteHoldsLock
  <1>4. ExclusiveTenancy => LockHasIncompleteHolder'
    BY DEF LockHasIncompleteHolder, IndInv, TypeOK
  <1>5. QED
    BY <1>1, <1>2, <1>3, <1>4

\* A transition that neither creates nor completes is such a step.
LEMMA MoveIsQuiet ==
  ASSUME IndInv, LockInv, active' = active, contract' = contract, lock' = lock,
         NEW w \in WorkflowIds, NEW to, to # "COMPLETE", Move(w, to)
  PROVE  LockInv'
  <1>1. /\ status[w] \in WorkflowStates /\ status[w] # "none"
        /\ to # "none" /\ status[w] # "COMPLETE"
    BY DEF Move, Check, Transitions, Row, WorkflowStates
  <1>2. QED
    BY <1>1, QuietStep DEF Move, IndInv, TypeOK

\* Where tenancies exclude each other, those before it are over when a contract
\* is signed; the locks are as they were.
LEMMA SignKeepsLocks ==
  ASSUME IndInv, LockInv, NEW c \in Contracts, SignContract(c)
  PROVE  LockInv'
  <1>. USE DEF LockInv
  <1>1. /\ active' = active \cup {c}
        /\ UNCHANGED <<contract, status, lock>>
    BY DEF SignContract, columns, history
  <1>2. ASSUME ExclusiveTenancy,
               NEW d \in active, PropertyOf[d] = PropertyOf[c]
        PROVE  Ended(d)
    BY <1>2 DEF SignContract
  <1>3. TenancyOK'
    BY <1>1, <1>2 DEF TenancyOK, Ended
  <1>4. OneExitPerContract'
    BY <1>1 DEF OneExitPerContract
  <1>5. ExclusiveTenancy => IncompleteHoldsLock' /\ LockHasIncompleteHolder'
    BY <1>1
    DEF IncompleteHoldsLock, LockHasIncompleteHolder, PropertyOfWorkflow
  <1>6. QED
    BY <1>3, <1>4, <1>5

\* The initiation takes the lock from nobody who still needs it.
LEMMA InitiateKeepsLocks ==
  ASSUME IndInv, LockInv, NEW r \in Requests, NEW c \in Contracts,
         NEW w \in WorkflowIds, Initiate(r, c, w)
  PROVE  LockInv'
  <1>. USE DEF LockInv
  <1>1. /\ c \in active /\ c # Nobody
        /\ \A v \in WorkflowIds : contract[v] # c
        /\ contract[w] = Nobody
    BY B1ExitAssumption DEF Initiate, HasNoExit, IndInv, RowsOK
  <1>2. /\ contract' = [contract EXCEPT ![w] = c]
        /\ status' = [status EXCEPT ![w] = "DOCS_SUBMITTED"]
        /\ lock' = [lock EXCEPT ![PropertyOf[c]] = w]
        /\ active' = active
        /\ status[w] = "none"
    BY DEF Initiate, Acquired, contracts
  <1>3. /\ contract \in [WorkflowIds -> Contracts \cup {Nobody}]
        /\ status \in [WorkflowIds -> WorkflowStates \cup {"none"}]
        /\ lock \in [Properties -> WorkflowIds \cup {Nobody}]
        /\ PropertyOf \in [Contracts -> Properties]
        /\ Nobody \notin WorkflowIds
        /\ active \subseteq Contracts
    BY B1ExitAssumption DEF IndInv, TypeOK
  <1>4. \A d \in Contracts : Ended(d) => Ended(d)'
    BY <1>2, <1>3 DEF Ended
  <1>5. TenancyOK'
    <2>1. (\A v \in WorkflowIds : contract[v] # Nobody => contract[v] \in active)'
      BY <1>1, <1>2, <1>3 DEF TenancyOK
    <2>2. QED
      BY <1>2, <1>3, <1>4, <2>1 DEF TenancyOK
  <1>6. OneExitPerContract'
    BY <1>1, <1>2, <1>3 DEF OneExitPerContract
  <1>7. ASSUME ExclusiveTenancy, NEW v \in WorkflowIds, v # w,
               status[v] \notin {"none", "COMPLETE"}
        PROVE  PropertyOf[contract[v]] # PropertyOf[c]
    <2>1. contract[v] \in active /\ contract[v] # c
      BY <1>1, <1>3, <1>7 DEF TenancyOK, IndInv, RowsOK
    <2>2. ~ Ended(c)
      BY <1>1 DEF Ended
    <2>3. ~ Ended(contract[v])
      BY <1>3, <1>7, <2>1, B1ExitAssumption DEF Ended, OneExitPerContract
    <2>4. QED
      BY <1>1, <1>7, <2>1, <2>2, <2>3 DEF TenancyOK
  <1>8. ExclusiveTenancy => IncompleteHoldsLock'
    BY <1>1, <1>2, <1>3, <1>7
    DEF IncompleteHoldsLock, PropertyOfWorkflow, IndInv, RowsOK
  <1>9. ExclusiveTenancy => LockHasIncompleteHolder'
    BY <1>1, <1>2, <1>3 DEF LockHasIncompleteHolder, PropertyOfWorkflow
  <1>10. QED
    BY <1>5, <1>6, <1>8, <1>9

\* The release frees the lock of the workflow that completes and no other.
LEMMA CommitKeepsLocks ==
  ASSUME IndInv, LockInv, NEW r \in Requests, SettleCommit(r)
  PROVE  LockInv'
  <1>. DEFINE w == target[r]
  <1>. USE DEF LockInv
  <1>1. w \in WorkflowIds /\ status[w] = "DAMAGE_CONFIRMED"
    BY DEF SettleCommit, IndInv, RequestsOK, Settling
  <1>2. /\ status' = [status EXCEPT ![w] = "COMPLETE"]
        /\ lock' = [lock EXCEPT ![PropertyOfWorkflow(w)] = Nobody]
        /\ active' = active
        /\ contract' = contract
    BY DEF SettleCommit, Released, contracts, columns
  <1>3. /\ contract \in [WorkflowIds -> Contracts \cup {Nobody}]
        /\ status \in [WorkflowIds -> WorkflowStates \cup {"none"}]
        /\ lock \in [Properties -> WorkflowIds \cup {Nobody}]
        /\ PropertyOf \in [Contracts -> Properties]
        /\ contract[w] \in Contracts
        /\ PropertyOfWorkflow(w) \in Properties
    BY <1>1, B1ExitAssumption DEF IndInv, TypeOK, RowsOK, PropertyOfWorkflow
  <1>4. TenancyOK'
    <2>1. \A d \in Contracts : Ended(d) => Ended(d)'
      BY <1>2, <1>3 DEF Ended
    <2>2. QED
      BY <1>2, <2>1 DEF TenancyOK, IndInv, TypeOK
  <1>5. OneExitPerContract'
    BY <1>2 DEF OneExitPerContract
  <1>6. ExclusiveTenancy => IncompleteHoldsLock'
    BY <1>1, <1>2, <1>3 DEF IncompleteHoldsLock, PropertyOfWorkflow
  <1>7. ExclusiveTenancy => LockHasIncompleteHolder'
    BY <1>1, <1>2, <1>3, B1ExitAssumption
    DEF LockHasIncompleteHolder, IncompleteHoldsLock, PropertyOfWorkflow
  <1>8. QED
    BY <1>4, <1>5, <1>6, <1>7

\* Every step keeps the lock discipline.
LEMMA LockStep == IndInv /\ LockInv /\ [Next]_vars => LockInv'
  <1> SUFFICES ASSUME IndInv, LockInv, [Next]_vars PROVE LockInv'
    OBVIOUS
  <1> USE DEF contracts, columns
  <1>1. ASSUME NEW c \in Contracts, SignContract(c) PROVE LockInv'
    BY <1>1, SignKeepsLocks
  <1>2. ASSUME NEW q \in Requests, NEW c \in Contracts, NEW v \in WorkflowIds,
               Initiate(q, c, v)
        PROVE LockInv'
    BY <1>2, InitiateKeepsLocks
  <1>3. ASSUME NEW q \in Requests, SettleCommit(q) PROVE LockInv'
    BY <1>3, CommitKeepsLocks
  <1>4. ASSUME NEW q \in Requests, RecordSent(q) PROVE LockInv'
    <2>1. target[q] \in WorkflowIds
      BY <1>4 DEF RecordSent, IndInv, RequestsOK
    <2>2. UNCHANGED <<active, contract, lock>>
      BY <1>4 DEF RecordSent
    <2>3. CASE Move(target[q], "OWNER_NOTIFIED")
      BY <2>1, <2>2, <2>3, MoveIsQuiet
    <2>4. CASE UNCHANGED <<status, audit>>
      BY <2>2, <2>4, QuietStep
    <2>5. QED
      BY <1>4, <2>3, <2>4 DEF RecordSent
  <1>5. ASSUME NEW v \in WorkflowIds, ScheduleInspection(v) PROVE LockInv'
    BY <1>5, MoveIsQuiet DEF ScheduleInspection
  <1>6. ASSUME NEW v \in WorkflowIds, NEW n \in Damages, SubmitReport(v, n)
        PROVE LockInv'
    BY <1>6, MoveIsQuiet DEF SubmitReport
  <1>7. ASSUME NEW v \in WorkflowIds, ConfirmDamage(v) PROVE LockInv'
    BY <1>7, MoveIsQuiet DEF ConfirmDamage
  <1>8. ASSUME StallScan PROVE LockInv'
    BY <1>8, QuietStep DEF StallScan, MoveAll, Waiting
  <1>9. ASSUME \/ \E c \in Contracts : \/ AskGuard(c)
                                       \/ \E n \in Edits : EditDeposit(c, n)
               \/ \E w \in WorkflowIds : WindowElapses(w) \/ GatewaySettles(w)
               \/ \E q \in Requests, w \in WorkflowIds :
                    DispatchDue(q, w) \/ SettleCreate(q, w) \/ SettleResume(q, w)
               \/ \E q \in Requests :
                    \/ DispatchEvent(q) \/ DispatchSkipped(q)
                    \/ RecordRetry(q) \/ RecordDeadLetter(q)
                    \/ SubmitRefund(q) \/ SubmitFails(q) \/ FetchStatus(q)
                    \/ FetchFails(q) \/ Hold(q) \/ StorePdf(q) \/ Crash(q)
               \/ UNCHANGED vars
        PROVE  LockInv'
    <2>1. UNCHANGED <<active, contract, lock, status>>
      BY <1>9
      DEF AskGuard, EditDeposit, WindowElapses, GatewaySettles, DispatchDue,
          SettleCreate, SettleResume, DispatchEvent, DispatchSkipped, Publish,
          RecordRetry, RecordDeadLetter, SubmitRefund, SubmitFails,
          FetchStatus, FetchFails, Hold, StorePdf, Crash, vars, tables,
          history
    <2>2. QED
      BY <2>1, QuietStep
  <1>10. QED
    BY <1>1, <1>2, <1>3, <1>4, <1>5, <1>6, <1>7, <1>8, <1>9
    DEF Next, Users, Jobs, Environment, Dispatcher, Settlement

\* No workflow, no lock; the tenancies of the initial state exclude each other.
LEMMA InitLock == Init => LockInv
  BY B1ExitAssumption
  DEF Init, NullOf, LockInv, TenancyOK, OneExitPerContract,
      IncompleteHoldsLock, LockHasIncompleteHolder, Ended

\* LockInv holds in every reachable state.
THEOREM LockInvariance == Spec => []LockInv
  BY InitLock, LockStep, Invariance, PTL DEF Spec

\* X-001: however many initiations race, a contract has one exit.
THEOREM NeverASecondExit == Spec => []OneExitPerContract
  BY LockInvariance, PTL DEF LockInv

\* EXIT-03: where tenancies exclude each other, an exit holds the lock of its
\* property from its initiation to COMPLETE.
THEOREM LockHeldToTheEnd ==
  ASSUME ExclusiveTenancy
  PROVE  Spec => []IncompleteHoldsLock
  <1>1. LockInv => IncompleteHoldsLock
    BY DEF LockInv
  <1>2. QED
    BY LockInvariance, <1>1, PTL

\* EXIT-09: where tenancies exclude each other, no lock outlives its exit.
THEOREM NoLockIsLeftOver ==
  ASSUME ExclusiveTenancy
  PROVE  Spec => []LockHasIncompleteHolder
  <1>1. LockInv => LockHasIncompleteHolder
    BY DEF LockInv
  <1>2. QED
    BY LockInvariance, <1>1, PTL

\* Where tenancies exclude each other, the locks are those of the exits under
\* way, and a contract has one exit, over any succession of tenancies.
THEOREM LocksAreRight ==
  ASSUME ExclusiveTenancy
  PROVE  Spec => []LocksFollowExits
  <1>1. LockInv => LocksFollowExits
    BY DEF LockInv, LocksFollowExits
  <1>2. QED
    BY LockInvariance, <1>1, PTL

-----------------------------------------------------------------------------
\* The refinement of ExitPromise.

\* The refinement mapping of Promise, by name.
Status == [c \in Contracts |-> IF HasExit(c) THEN status[ExitOf(c)] ELSE "none"]
Holder == [p \in Properties |->
             IF lock[p] = Nobody THEN Nobody ELSE contract[lock[p]]]
Paid == [c \in Contracts |-> HasExit(c) /\ gateway[ExitOf(c)] = "SUCCEEDED"]
Noc == [c \in Contracts |-> HasExit(c) /\ objectRef[ExitOf(c)] # Nobody]

\* The exit of a contract is a workflow of it.
LEMMA ExitOfHas ==
  \A c \in Contracts : HasExit(c) =>
    ExitOf(c) \in WorkflowIds /\ contract[ExitOf(c)] = c
  BY DEF HasExit, ExitOf

\* When no contract has two, a row is the exit of its contract.
LEMMA ExitOfIs ==
  /\ OneExitPerContract =>
       \A w \in WorkflowIds : contract[w] # Nobody =>
         HasExit(contract[w]) /\ ExitOf(contract[w]) = w
  /\ \A c \in Contracts : HasExit(c) =>
       ExitOf(c) \in WorkflowIds /\ contract[ExitOf(c)] = c
  BY DEF OneExitPerContract, HasExit, ExitOf

\* The promise reads the same state table.
LEMMA SameTable ==
  /\ Promise!WorkflowStates = WorkflowStates /\ Promise!Actors = Actors
  /\ \A f, t, a : Promise!Row(f, t, a) = Row(f, t, a)
  /\ Promise!Transitions = Transitions
  BY
  DEF Promise!WorkflowStates, WorkflowStates, Promise!Actors, Actors,
      Promise!Row, Row, Promise!Transitions, Transitions

\* The initial states map to the initial state of the promise.
LEMMA InitImplements == Init => Promise!Init
  <1> SUFFICES ASSUME Init PROVE Promise!Init
    OBVIOUS
  <1>1. \A c \in Contracts : ~ HasExit(c)
    BY B1ExitAssumption DEF Init, NullOf, HasExit
  <1>2. \A p \in Properties : lock[p] = Nobody
    BY DEF Init, NullOf
  <1>3. QED
    BY <1>1, <1>2 DEF Promise!Init

\* A step that leaves every column of the mapping alone is a stutter.
LEMMA Stutter ==
  ASSUME UNCHANGED <<contract, lock, status, gateway, objectRef>>
  PROVE  UNCHANGED Promise!vars
  BY DEF Promise!vars, HasExit, ExitOf

\* A step that moves a batch of workflows to one state, and neither money nor
\* lock nor certificate, is an Advance of their contracts.
LEMMA BatchAdvances ==
  ASSUME IndInv, LockInv, UNCHANGED <<contract, lock, gateway, objectRef>>,
         NEW batch \in SUBSET WorkflowIds, NEW to,
         to \notin {"NOC_ISSUED", "COMPLETE"},
         \A w \in batch : Check(status[w], to),
         \A w \in WorkflowIds :
           status'[w] = IF w \in batch THEN to ELSE status[w]
  PROVE  Promise!Next
  <1> DEFINE cs == {c \in Contracts : HasExit(c) /\ ExitOf(c) \in batch}
  <1>1. \A c \in Contracts : /\ HasExit(c)' <=> HasExit(c)
                             /\ ExitOf(c)' = ExitOf(c)
    BY DEF HasExit, ExitOf
  <1>2. ASSUME NEW c \in Contracts, c \in cs
        PROVE  /\ Status'[c] = to /\ to \in WorkflowStates
               /\ \E a \in Actors : Row(Status[c], to, a) \in Transitions
    <2>1. Status[c] = status[ExitOf(c)] /\ Status'[c] = status'[ExitOf(c)]
      BY <1>1, <1>2 DEF Status
    <2>2. status'[ExitOf(c)] = to
      BY <1>2
    <2>3. PICK a \in Actors : Row(status[ExitOf(c)], to, a) \in Transitions
      BY <1>2 DEF Check
    <2>4. to \in WorkflowStates
      BY <2>3, TransitionsClimb
    <2>5. QED
      BY <2>1, <2>2, <2>3, <2>4
  <1>3. ASSUME NEW c \in Contracts, c \notin cs PROVE Status'[c] = Status[c]
    BY <1>1, <1>3, ExitOfIs DEF Status
  <1>4. Status' \in [Contracts -> WorkflowStates \cup {"none"}]
    <2>1. \A c \in Contracts : Status[c] \in WorkflowStates \cup {"none"}
      BY ExitOfIs DEF Status, IndInv, TypeOK
    <2>2. \A c \in Contracts : Status'[c] \in WorkflowStates \cup {"none"}
      BY <1>2, <1>3, <2>1
    <2>3. QED
      BY <2>2 DEF Status
  <1>5. UNCHANGED <<Holder, Paid, Noc>>
    BY <1>1 DEF Holder, Paid, Noc
  <1>6. Promise!Advance(cs)
    BY <1>2, <1>3, <1>4, <1>5, SameTable
    DEF Promise!Advance, Status, Holder, Paid, Noc
  <1>7. QED
    BY <1>6 DEF Promise!Next

\* One workflow that moves is a batch of one.
LEMMA MoveAdvances ==
  ASSUME IndInv, LockInv, UNCHANGED <<contract, lock, gateway, objectRef>>,
         NEW w \in WorkflowIds, NEW to,
         to \notin {"NOC_ISSUED", "COMPLETE"}, Move(w, to)
  PROVE  Promise!Next
  <1>1. \A v \in WorkflowIds :
          status'[v] = IF v \in {w} THEN to ELSE status[v]
    BY DEF Move, IndInv, TypeOK
  <1>2. QED
    BY <1>1, BatchAdvances DEF Move

\* The initiation is the Initiate of its contract: that contract has no exit and
\* nobody holds the property.
LEMMA InitiateInitiates ==
  ASSUME ExclusiveTenancy, IndInv, LockInv, NEW r \in Requests,
         NEW c \in Contracts, NEW w \in WorkflowIds, Initiate(r, c, w)
  PROVE  Promise!Initiate(c)
  <1>1. /\ c \in active /\ c # Nobody
        /\ contract[w] = Nobody /\ status[w] = "none"
        /\ \A v \in WorkflowIds : contract[v] # c
        /\ PropertyOf[c] \in Properties
    BY B1ExitAssumption DEF Initiate, HasNoExit, IndInv, RowsOK
  <1>2. /\ contract' = [contract EXCEPT ![w] = c]
        /\ status' = [status EXCEPT ![w] = "DOCS_SUBMITTED"]
        /\ lock' = [lock EXCEPT ![PropertyOf[c]] = w]
        /\ UNCHANGED <<gateway, objectRef>>
    BY DEF Initiate, Acquired, outside
  <1>3. /\ contract \in [WorkflowIds -> Contracts \cup {Nobody}]
        /\ status \in [WorkflowIds -> WorkflowStates \cup {"none"}]
        /\ lock \in [Properties -> WorkflowIds \cup {Nobody}]
        /\ Nobody \notin WorkflowIds
    BY B1ExitAssumption DEF IndInv, TypeOK
  <1>4. gateway[w] # "SUCCEEDED" /\ objectRef[w] = Nobody
    BY <1>1 DEF IndInv, RowsOK
  \* Whoever held the property would be the exit of a tenancy that is not over.
  <1>5. lock[PropertyOf[c]] = Nobody
    <2> DEFINE v == lock[PropertyOf[c]]
    <2>1. SUFFICES ASSUME v # Nobody PROVE FALSE
      OBVIOUS
    <2>2. /\ v \in WorkflowIds
          /\ status[v] \notin {"none", "COMPLETE"}
          /\ PropertyOf[contract[v]] = PropertyOf[c]
      BY <1>1, <1>3, <2>1
      DEF LockInv, LockHasIncompleteHolder, PropertyOfWorkflow
    <2>3. contract[v] \in active /\ contract[v] # c
      BY <1>1, <1>3, <2>2 DEF LockInv, TenancyOK, IndInv, RowsOK
    <2>4. ~ Ended(c)
      BY <1>1 DEF Ended
    <2>5. ~ Ended(contract[v])
      BY <1>3, <2>2, <2>3, B1ExitAssumption
      DEF Ended, LockInv, OneExitPerContract, IndInv, TypeOK, RowsOK
    <2>6. QED
      BY <1>1, <2>2, <2>3, <2>4, <2>5 DEF LockInv, TenancyOK
  <1>6. ~ HasExit(c)
    BY <1>1 DEF HasExit
  <1>7. HasExit(c)' /\ ExitOf(c)' = w
    <2>1. \A v \in WorkflowIds : contract'[v] = c <=> v = w
      BY <1>1, <1>2, <1>3
    <2>2. QED
      BY <2>1 DEF HasExit, ExitOf
  <1>8. ASSUME NEW d \in Contracts, d # c
        PROVE  /\ HasExit(d)' <=> HasExit(d)
               /\ HasExit(d) => ExitOf(d)' = ExitOf(d)
    <2>1. \A v \in WorkflowIds : contract'[v] = d <=> contract[v] = d
      BY <1>1, <1>2, <1>3, <1>8, B1ExitAssumption
    <2>2. QED
      BY <2>1 DEF HasExit, ExitOf
  <1>9. ASSUME NEW d \in Contracts, d # c, HasExit(d) PROVE ExitOf(d) # w
    BY <1>1, <1>9, ExitOfIs, B1ExitAssumption
  <1>10. Status' = [Status EXCEPT ![c] = "DOCS_SUBMITTED"] /\ Status[c] = "none"
    <2>1. Status[c] = "none"
      BY <1>1, <1>6 DEF Status
    <2>2. Status'[c] = "DOCS_SUBMITTED"
      BY <1>1, <1>2, <1>3, <1>7 DEF Status
    <2>3. ASSUME NEW d \in Contracts, d # c PROVE Status'[d] = Status[d]
      BY <1>2, <1>3, <1>8, <1>9, <2>3, ExitOfIs DEF Status
    <2>4. QED
      BY <2>1, <2>2, <2>3 DEF Status
  <1>11. Holder' = [Holder EXCEPT ![PropertyOf[c]] = c]
         /\ Holder[PropertyOf[c]] = Nobody
    <2>1. \A p \in Properties : lock[p] # w
      BY <1>1, <1>3 DEF LockInv, LockHasIncompleteHolder
    <2>2. QED
      BY <1>1, <1>2, <1>3, <1>5, <2>1 DEF Holder
  <1>12. Paid' = Paid /\ Noc' = Noc
    <2>1. ASSUME NEW d \in Contracts
          PROVE  /\ (HasExit(d) /\ gateway[ExitOf(d)] = "SUCCEEDED")'
                    <=> HasExit(d) /\ gateway[ExitOf(d)] = "SUCCEEDED"
                 /\ (HasExit(d) /\ objectRef[ExitOf(d)] # Nobody)'
                    <=> HasExit(d) /\ objectRef[ExitOf(d)] # Nobody
      BY <1>2, <1>4, <1>6, <1>7, <1>8
    <2>2. QED
      BY <2>1 DEF Paid, Noc
  <1>13. QED
    BY <1>1, <1>10, <1>11, <1>12
    DEF Promise!Initiate, Status, Holder, Paid, Noc

\* A confirmed exit is the exit of its contract, and of no other.
LEMMA ConfirmedExit ==
  ASSUME IndInv, LockInv, NEW w \in WorkflowIds, status[w] = "DAMAGE_CONFIRMED"
  PROVE  \E c \in Contracts :
           /\ c = contract[w] /\ HasExit(c) /\ ExitOf(c) = w
           /\ Status[c] = "DAMAGE_CONFIRMED"
           /\ \A d \in Contracts : d # c /\ HasExit(d) => ExitOf(d) # w
  <1>1. contract[w] \in Contracts /\ contract[w] # Nobody
    BY B1ExitAssumption DEF IndInv, TypeOK, RowsOK
  <1>2. HasExit(contract[w]) /\ ExitOf(contract[w]) = w
    BY <1>1, ExitOfIs DEF LockInv
  <1>3. QED
    BY <1>1, <1>2, ExitOfIs DEF Status

\* What the gateway does is Pay, or nothing the promise sees.
LEMMA GatewayPays ==
  ASSUME IndInv, LockInv, NEW w \in WorkflowIds, status[w] = "DAMAGE_CONFIRMED",
         UNCHANGED <<contract, lock, status, objectRef>>,
         gateway[w] # "SUCCEEDED", NEW s, gateway' = [gateway EXCEPT ![w] = s]
  PROVE  [Promise!Next]_Promise!vars
  <1>1. PICK c \in Contracts :
          /\ c = contract[w] /\ HasExit(c) /\ ExitOf(c) = w
          /\ Status[c] = "DAMAGE_CONFIRMED"
          /\ \A d \in Contracts : d # c /\ HasExit(d) => ExitOf(d) # w
    BY ConfirmedExit
  <1>2. \A d \in Contracts : (HasExit(d)' <=> HasExit(d)) /\ ExitOf(d)' = ExitOf(d)
    BY DEF HasExit, ExitOf
  <1>3. gateway \in [WorkflowIds -> PaymentStatuses \cup {"none"}]
    BY DEF IndInv, TypeOK
  <1>4. UNCHANGED <<Status, Holder, Noc>>
    BY <1>2 DEF Status, Holder, Noc
  <1>5. CASE s = "SUCCEEDED"
    <2>1. gateway'[w] = "SUCCEEDED"
          /\ \A v \in WorkflowIds : v # w => gateway'[v] = gateway[v]
      BY <1>3, <1>5
    <2>2. Paid'[c] = TRUE
      BY <1>1, <1>2, <2>1 DEF Paid
    <2>3. ASSUME NEW d \in Contracts, d # c PROVE Paid'[d] = Paid[d]
      <3>1. CASE HasExit(d)
        <4>1. ExitOf(d) \in WorkflowIds /\ ExitOf(d) # w
          BY <1>1, <2>3, <3>1, ExitOfHas
        <4>2. gateway'[ExitOf(d)'] = gateway[ExitOf(d)]
          BY <1>2, <2>1, <4>1
        <4>3. QED
          BY <1>2, <3>1, <4>2 DEF Paid
      <3>2. CASE ~ HasExit(d)
        BY <1>2, <3>2 DEF Paid
      <3>3. QED
        BY <3>1, <3>2
    <2>4. Paid' = [Paid EXCEPT ![c] = TRUE]
      BY <2>2, <2>3 DEF Paid
    <2>5. Promise!Pay(c)
      BY <1>1, <1>4, <2>4
      DEF Promise!Pay, Promise!Confirmed, Status, Holder, Paid, Noc
    <2>6. QED
      BY <2>5 DEF Promise!Next
  <1>6. CASE s # "SUCCEEDED"
    <2>1. Paid' = Paid
      BY <1>1, <1>2, <1>3, <1>6, ExitOfIs DEF Paid
    <2>2. QED
      BY <1>4, <2>1 DEF Promise!vars, Status, Holder, Paid, Noc
  <1>7. QED
    BY <1>5, <1>6

\* So is a submission: the gateway acts on a key it does not know.
LEMMA DisbursePays ==
  ASSUME IndInv, LockInv, NEW w \in WorkflowIds, status[w] = "DAMAGE_CONFIRMED",
         UNCHANGED <<contract, lock, status, objectRef>>, Disburse(w)
  PROVE  [Promise!Next]_Promise!vars
  <1>1. CASE gateway[w] = "none"
    <2>1. PICK s \in PaymentStatuses : gateway' = [gateway EXCEPT ![w] = s]
      BY <1>1 DEF Disburse
    <2>2. QED
      BY <1>1, <2>1, GatewayPays
  <1>2. CASE gateway[w] # "none"
    BY <1>2, Stutter DEF Disburse
  <1>3. QED
    BY <1>1, <1>2

\* Storing the PDF is IssueNoc: the exit is confirmed and paid.
LEMMA StoreIssues ==
  ASSUME IndInv, LockInv, NEW q \in Requests, StorePdf(q),
         objectRef[target[q]] = Nobody
  PROVE  Promise!Next
  <1>1. PICK w \in WorkflowIds :
          /\ w = target[q] /\ status[w] = "DAMAGE_CONFIRMED"
          /\ gateway[w] = "SUCCEEDED" /\ ref[q] \in Nat /\ ref[q] # Nobody
          /\ objectRef' = [objectRef EXCEPT ![w] = ref[q]]
          /\ UNCHANGED <<contract, lock, status, gateway>>
    BY B1ExitAssumption
    DEF StorePdf, IndInv, RequestsOK, Settling, tables, columns, history
  <1>2. PICK c \in Contracts :
          /\ c = contract[w] /\ HasExit(c) /\ ExitOf(c) = w
          /\ Status[c] = "DAMAGE_CONFIRMED"
          /\ \A d \in Contracts : d # c /\ HasExit(d) => ExitOf(d) # w
    BY <1>1, ConfirmedExit
  <1>3. \A d \in Contracts : (HasExit(d)' <=> HasExit(d)) /\ ExitOf(d)' = ExitOf(d)
    BY <1>1 DEF HasExit, ExitOf
  <1>4. UNCHANGED <<Status, Holder, Paid>>
    BY <1>1, <1>3 DEF Status, Holder, Paid
  <1>5. Paid[c]
    BY <1>1, <1>2 DEF Paid
  <1>6. Noc' = [Noc EXCEPT ![c] = TRUE]
    <2>1. objectRef \in [WorkflowIds -> Nat \cup {Nobody}]
      BY DEF IndInv, TypeOK
    <2>2. objectRef'[w] # Nobody
          /\ \A v \in WorkflowIds : v # w => objectRef'[v] = objectRef[v]
      BY <1>1, <2>1
    <2>3. Noc'[c] = TRUE
      BY <1>1, <1>2, <1>3, <2>2 DEF Noc
    <2>4. ASSUME NEW d \in Contracts, d # c PROVE Noc'[d] = Noc[d]
      <3>1. CASE HasExit(d)
        <4>1. ExitOf(d) \in WorkflowIds /\ ExitOf(d) # w
          BY <1>2, <2>4, <3>1, ExitOfHas
        <4>2. objectRef'[ExitOf(d)'] = objectRef[ExitOf(d)]
          BY <1>3, <2>2, <4>1
        <4>3. QED
          BY <1>3, <3>1, <4>2 DEF Noc
      <3>2. CASE ~ HasExit(d)
        BY <1>3, <3>2 DEF Noc
      <3>3. QED
        BY <3>1, <3>2
    <2>5. QED
      BY <2>3, <2>4 DEF Noc
  <1>7. Promise!IssueNoc(c)
    BY <1>1, <1>2, <1>4, <1>5, <1>6
    DEF Promise!IssueNoc, Promise!Confirmed, Status, Holder, Paid, Noc
  <1>8. QED
    BY <1>7 DEF Promise!Next

\* The commit is Complete: the certificate exists and the exit holds the lock
\* it releases.
LEMMA CommitCompletes ==
  ASSUME ExclusiveTenancy, IndInv, LockInv, NEW q \in Requests, SettleCommit(q)
  PROVE  Promise!Next
  <1>1. PICK w \in WorkflowIds :
          /\ w = target[q] /\ status[w] = "DAMAGE_CONFIRMED"
          /\ objectRef[w] # Nobody
          /\ status' = [status EXCEPT ![w] = "COMPLETE"]
          /\ lock' = [lock EXCEPT ![PropertyOfWorkflow(w)] = Nobody]
          /\ UNCHANGED <<contract, objectRef, gateway>>
    BY
    DEF SettleCommit, Released, IndInv, RequestsOK, Settling, outside, columns
  <1>2. PICK c \in Contracts :
          /\ c = contract[w] /\ HasExit(c) /\ ExitOf(c) = w
          /\ Status[c] = "DAMAGE_CONFIRMED"
          /\ \A d \in Contracts : d # c /\ HasExit(d) => ExitOf(d) # w
    BY <1>1, ConfirmedExit
  <1>3. \A d \in Contracts : (HasExit(d)' <=> HasExit(d)) /\ ExitOf(d)' = ExitOf(d)
    BY <1>1 DEF HasExit, ExitOf
  <1>4. PropertyOf[c] \in Properties /\ Nobody \notin WorkflowIds
    BY <1>2, B1ExitAssumption
  <1>5. lock[PropertyOf[c]] = w
    BY <1>1, <1>2 DEF LockInv, IncompleteHoldsLock, PropertyOfWorkflow
  <1>6. Holder[PropertyOf[c]] = c /\ Noc[c]
    BY <1>1, <1>2, <1>4, <1>5 DEF Holder, Noc
  <1>7. Status' = [Status EXCEPT ![c] = "COMPLETE"]
    <2>1. ASSUME NEW d \in Contracts
          PROVE  Status'[d] = IF d = c THEN "COMPLETE" ELSE Status[d]
      BY <1>1, <1>2, <1>3, <2>1, ExitOfIs DEF Status, IndInv, TypeOK
    <2>2. QED
      BY <2>1 DEF Status
  <1>8. Holder' = [Holder EXCEPT ![PropertyOf[c]] = Nobody]
    BY <1>1, <1>2, <1>4 DEF Holder, PropertyOfWorkflow, IndInv, TypeOK
  <1>9. UNCHANGED <<Paid, Noc>>
    BY <1>1, <1>3 DEF Paid, Noc
  <1>10. Promise!Complete(c)
    BY <1>1, <1>2, <1>6, <1>7, <1>8, <1>9
    DEF Promise!Complete, Promise!Confirmed, Status, Holder, Paid, Noc
  <1>11. QED
    BY <1>10 DEF Promise!Next

\* Every step maps to a step of the promise or to a stutter.
LEMMA StepImplements ==
  ASSUME ExclusiveTenancy, IndInv, LockInv, [Next]_vars
  PROVE  [Promise!Next]_Promise!vars
  <1> USE DEF tables, outside, columns
  <1>1. ASSUME NEW q \in Requests, NEW c \in Contracts, NEW w \in WorkflowIds,
               Initiate(q, c, w)
        PROVE  Promise!Next
    BY <1>1, InitiateInitiates DEF Promise!Next
  <1>2. ASSUME NEW q \in Requests, RecordSent(q) PROVE [Promise!Next]_Promise!vars
    <2>1. target[q] \in WorkflowIds
      BY <1>2 DEF RecordSent, IndInv, RequestsOK
    <2>2. CASE Move(target[q], "OWNER_NOTIFIED")
      BY <1>2, <2>1, <2>2, MoveAdvances DEF RecordSent
    <2>3. CASE UNCHANGED <<status, audit>>
      BY <1>2, <2>3, Stutter DEF RecordSent
    <2>4. QED
      BY <1>2, <2>2, <2>3 DEF RecordSent
  <1>3. ASSUME NEW w \in WorkflowIds, ScheduleInspection(w) PROVE Promise!Next
    BY <1>3, MoveAdvances DEF ScheduleInspection
  <1>4. ASSUME NEW w \in WorkflowIds, NEW n \in Damages, SubmitReport(w, n)
        PROVE  Promise!Next
    BY <1>4, MoveAdvances DEF SubmitReport
  <1>5. ASSUME NEW w \in WorkflowIds, ConfirmDamage(w) PROVE Promise!Next
    BY <1>5, MoveAdvances DEF ConfirmDamage
  <1>6. ASSUME StallScan PROVE Promise!Next
    <2> DEFINE due == {w \in late : Waiting(w) /\ ~ Locked(w)}
    <2>1. due \in SUBSET WorkflowIds
      BY DEF IndInv, TypeOK
    <2>2. /\ MoveAll(due, "STALLED")
          /\ UNCHANGED <<contract, lock, gateway, objectRef>>
      BY <1>6 DEF StallScan
    <2> HIDE DEF due
    <2>3. QED
      BY <2>1, <2>2, BatchAdvances DEF MoveAll
  <1>7. ASSUME NEW q \in Requests, SubmitRefund(q) \/ SubmitFails(q)
        PROVE  [Promise!Next]_Promise!vars
    <2>1. /\ target[q] \in WorkflowIds /\ status[target[q]] = "DAMAGE_CONFIRMED"
          /\ UNCHANGED <<contract, lock, status, objectRef>>
      BY <1>7
      DEF SubmitRefund, SubmitFails, IndInv, RequestsOK, Settling, history
    <2>2. CASE Disburse(target[q])
      BY <2>1, <2>2, DisbursePays
    <2>3. CASE UNCHANGED gateway
      BY <2>1, <2>3, Stutter
    <2>4. QED
      BY <1>7, <2>2, <2>3 DEF SubmitRefund, SubmitFails
  <1>8. ASSUME NEW w \in WorkflowIds, GatewaySettles(w)
        PROVE  [Promise!Next]_Promise!vars
    <2>1. /\ gateway[w] = "PENDING"
          /\ UNCHANGED <<contract, lock, status, objectRef>>
      BY <1>8 DEF GatewaySettles, history
    <2>2. status[w] = "DAMAGE_CONFIRMED"
      BY <2>1 DEF IndInv, RowsOK, CompleteIsPaidAndCertified
    <2>3. PICK s \in {"SUCCEEDED", "FAILED"} : gateway' = [gateway EXCEPT ![w] = s]
      BY <1>8 DEF GatewaySettles
    <2>4. QED
      BY <2>1, <2>2, <2>3, GatewayPays
  <1>9. ASSUME NEW q \in Requests, StorePdf(q)
        PROVE  [Promise!Next]_Promise!vars
    <2>1. CASE objectRef[target[q]] = Nobody
      BY <1>9, <2>1, StoreIssues
    <2>2. CASE objectRef[target[q]] # Nobody
      BY <1>9, <2>2, Stutter DEF StorePdf, history
    <2>3. QED
      BY <2>1, <2>2
  <1>10. ASSUME NEW q \in Requests, SettleCommit(q) PROVE Promise!Next
    BY <1>10, CommitCompletes
  <1>11. ASSUME \/ \E c \in Contracts : \/ AskGuard(c) \/ SignContract(c)
                                        \/ \E n \in Edits : EditDeposit(c, n)
                \/ \E w \in WorkflowIds : WindowElapses(w)
                \/ \E q \in Requests, w \in WorkflowIds :
                     DispatchDue(q, w) \/ SettleCreate(q, w) \/ SettleResume(q, w)
                \/ \E q \in Requests :
                     \/ DispatchEvent(q) \/ DispatchSkipped(q)
                     \/ RecordRetry(q) \/ RecordDeadLetter(q)
                     \/ FetchStatus(q) \/ FetchFails(q) \/ Hold(q) \/ Crash(q)
                \/ UNCHANGED vars
         PROVE  UNCHANGED Promise!vars
    <2>1. UNCHANGED <<contract, lock, status, gateway, objectRef>>
      BY <1>11
      DEF AskGuard, SignContract, EditDeposit, WindowElapses, DispatchDue, SettleCreate,
          SettleResume, DispatchEvent, DispatchSkipped, Publish, RecordRetry,
          RecordDeadLetter, FetchStatus, FetchFails, Hold, Crash, vars,
          history
    <2>2. QED
      BY <2>1, Stutter
  <1>12. QED
    BY <1>1, <1>2, <1>3, <1>4, <1>5, <1>6, <1>7, <1>8, <1>9, <1>10, <1>11
    DEF Next, Users, Jobs, Environment, Dispatcher, Settlement

\* Under exclusive tenancy the service implements the promise, whatever dies
\* inside its long transactions.
THEOREM ServiceKeepsPromise ==
  ASSUME ExclusiveTenancy
  PROVE  Spec => ImplementsPromise
  <1>1. IndInv /\ LockInv /\ [Next]_vars => [Promise!Next]_Promise!vars
    BY StepImplements
  <1>2. QED
    BY InitImplements, Invariance, LockInvariance, <1>1, PTL
    DEF Spec, ImplementsPromise, Promise!Spec

=============================================================================
