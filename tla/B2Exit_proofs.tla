--------------------------- MODULE B2Exit_proofs ---------------------------
(***************************************************************************)
(* Proofs about B2Exit, for any number of exits, contracts, properties and *)
(* requests, every amount and every number of faults.                      *)
(*                                                                         *)
(* IndInv says what a request may rely on between two of its transactions, *)
(* what the outbox row and the gateway say of an exit, and whose exits     *)
(* hold the lock flags; AuditInv is the audit trail.  On both rest the     *)
(* agreement of the records and the refinement of ExitPromise: run B2      *)
(* needs no assumption on tenancies, because a contract ends only after    *)
(* its exit.  The payment row is left out on purpose: what the code says   *)
(* of it does not hold (ProceededOnSucceeded), except where answers are    *)
(* recorded in the order of their calls (OrderlyRowIsTrue, at the end).    *)
(***************************************************************************)
EXTENDS B2Exit, TLAPS

\* Every transition of states.yaml goes up.
LEMMA TransitionsClimb ==
  ASSUME NEW s, NEW t, NEW a, Row(s, t, a) \in Transitions
  PROVE  /\ s \in WorkflowStates /\ t \in WorkflowStates /\ a \in Actors
         /\ Rank[s] \in Nat /\ Rank[t] \in Nat /\ Rank[s] < Rank[t]
  BY DEF Row, Transitions, WorkflowStates, Actors, Rank

\* A path followed by a transition from its end is a path to the new end.
LEMMA PathGrows ==
  ASSUME NEW s, NEW t, NEW a, Row(s, t, a) \in Transitions,
         NEW A \in SUBSET ((WorkflowStates \cup {"none"}) \X WorkflowStates),
         PathTo(s, A), Climbs(s, A)
  PROVE  /\ PathTo(t, A \cup {<<s, t>>})
         /\ Climbs(t, A \cup {<<s, t>>})
  <1> DEFINE B == A \cup {<<s, t>>}
             sources == {e[1] : e \in A}
             arrivals == {e[2] : e \in A}
  <1>1. /\ s \in WorkflowStates /\ t \in WorkflowStates /\ a \in Actors
        /\ Rank[s] \in Nat /\ Rank[t] \in Nat /\ Rank[s] < Rank[t]
    BY TransitionsClimb
  <1>2. \A u \in WorkflowStates \cup {"none"} : Rank[u] \in Nat
    BY DEF Rank
  <1>3. s # "none" /\ t # "none"
    BY <1>1 DEF WorkflowStates
  <1>4. Climbs(t, B)
    <2>1. ASSUME NEW e \in A
          PROVE  Rank[e[1]] < Rank[e[2]] /\ Rank[e[2]] <= Rank[t]
      BY <1>1, <1>2, <2>1 DEF Climbs
    <2>2. QED
      BY <1>1, <2>1 DEF Climbs
  <1>5. /\ {e[1] : e \in B} = sources \cup {s}
        /\ {e[2] : e \in B} = arrivals \cup {t}
    <2> DEFINE last == <<s, t>>
    <2>1. last[1] = s /\ last[2] = t
      OBVIOUS
    <2>2. \A e : e \in B <=> e \in A \/ e = last
      OBVIOUS
    <2> HIDE DEF last, B
    <2>3. \A x : (\E e \in B : x = e[1]) <=> (\E e \in A : x = e[1]) \/ x = s
      BY <2>1, <2>2, Zenon
    <2>4. \A x : (\E e \in B : x = e[2]) <=> (\E e \in A : x = e[2]) \/ x = t
      BY <2>1, <2>2, Zenon
    <2>5. QED
      BY <2>3, <2>4
  <1>6. arrivals \ sources = {s} /\ sources \subseteq arrivals \cup {"none"}
    BY <1>3 DEF PathTo
  \* The path has not been at t: all it passed is no higher than s.
  <1>7. t \notin sources
    <2>1. ASSUME NEW e \in A, e[1] = t PROVE FALSE
      <3>1. Rank[e[1]] < Rank[e[2]] /\ Rank[e[2]] <= Rank[s]
        BY DEF Climbs
      <3>2. QED
        BY <1>1, <1>2, <2>1, <3>1
    <2>2. QED
      BY <2>1
  <1>8. \A e \in B : \/ e = <<"none", "INITIATED">>
                     \/ \E b \in Actors : Row(e[1], e[2], b) \in Transitions
    BY <1>1 DEF PathTo
  <1>9. (arrivals \cup {t}) \ (sources \cup {s}) = {t}
    BY <1>1, <1>6, <1>7
  <1>10. QED
    BY <1>3, <1>4, <1>5, <1>6, <1>8, <1>9 DEF PathTo

Settled == {"DAMAGE_CONFIRMED", "REFUND_PROCESSED", "COMPLETE"}
Paying == {"ensured", "call", "record", "advance"}

\* What a request knows of its exit, whatever happened since it last looked.
RequestsOK ==
  \A r \in Requests :
    /\ pc[r] # "idle" => target[r] \in WorkflowIds
    /\ pc[r] \in {"sent", "unsent"} => event[target[r]] # "none"
    /\ pc[r] = "sent" => target[r] \in broker
    /\ pc[r] \in Paying => status[target[r]] \in Settled
    /\ pc[r] = "noc" => status[target[r]] \in {"REFUND_PROCESSED", "COMPLETE"}
    /\ pc[r] = "commit" => /\ status[target[r]] = "REFUND_PROCESSED"
                           /\ target[r] \in stored
    /\ answer[r] = "SUCCEEDED"
         => pc[r] = "record" /\ gateway[target[r]] = "SUCCEEDED"

\* The row lock: one request at most is in the last transaction of an exit.
LockOK ==
  \A q, r \in Requests :
    pc[q] = "commit" /\ pc[r] = "commit" /\ target[q] = target[r] => q = r

\* A refund exists from the confirmation on, is never taken back once paid,
\* and what is recorded as paid, advanced or certified was paid.
MoneyOK ==
  \A w \in WorkflowIds :
    /\ gateway[w] # "none" => status[w] \in Settled
    /\ status[w] \in {"REFUND_PROCESSED", "COMPLETE"}
         => gateway[w] = "SUCCEEDED"
    /\ payment[w] = "SUCCEEDED" \/ w \in stored => gateway[w] = "SUCCEEDED"

\* The outbox row of an exit; a PENDING one has attempts left.
OutboxOK ==
  /\ NobodyIsForgotten
  /\ \A w \in WorkflowIds :
       /\ event[w] = "none" <=> status[w] = "none"
       /\ event[w] \in {"none", "PENDING"} => attempts[w] < MaxAttempts
       /\ event[w] = "DEAD_LETTERED" => attempts[w] <= MaxAttempts
       /\ status[w] = "STALLED" <=> <<w, "STALLED_EXIT">> \in tasks

\* An open exit has its contract's tenancy and the flag of its property, a
\* flag has an open exit, and neither tenancies nor exits overlap.
TenancyOK ==
  /\ \A c, d \in active : PropertyOf[c] = PropertyOf[d] => c = d
  /\ \A w \in WorkflowIds : Open(w) =>
       ContractOf[w] \in active /\ PropertyAt(w) \in exitLock
  /\ \A v, w \in WorkflowIds :
       Open(v) /\ Open(w) /\ ContractOf[v] = ContractOf[w] => v = w
  /\ \A p \in exitLock : \E w \in WorkflowIds : PropertyAt(w) = p /\ Open(w)

IndInv ==
  TypeOK /\ RequestsOK /\ LockOK /\ MoneyOK /\ OutboxOK /\ TenancyOK

\* The trail is a path to the status and climbs.
AuditInv ==
  \A w \in WorkflowIds :
    PathTo(status[w], audit[w]) /\ Climbs(status[w], audit[w])

-----------------------------------------------------------------------------
\* states.yaml read backwards: the only origins of each target state.
LEMMA Origins ==
  ASSUME NEW f, NEW t, NEW a, NEW h, Allowed(f, t, a, h)
  PROVE  /\ f \in WorkflowStates /\ t \in WorkflowStates
         /\ t = "OWNER_NOTIFIED" => f = "DOCS_SUBMITTED"
         /\ t = "INSPECTION_SCHEDULED" => f = "OWNER_NOTIFIED"
         /\ t = "INSPECTION_DONE" => f = "INSPECTION_SCHEDULED"
         /\ t = "DAMAGE_CONFIRMED" => f = "INSPECTION_DONE"
         /\ t = "REFUND_PROCESSED" => f = "DAMAGE_CONFIRMED"
         /\ t = "STALLED" => f \in {"OWNER_NOTIFIED", "INSPECTION_SCHEDULED"}
  BY DEF Allowed, Transitions, Row, WorkflowStates

\* What the attempt counter of an event has left.
LEMMA AttemptsLeft ==
  ASSUME IndInv, NEW w \in WorkflowIds
  PROVE  /\ event[w] = "PENDING" => attempts[w] + 1 \in 0 .. MaxAttempts
         /\ event[w] # "PUBLISHED" => attempts[w] + 1 \in 0 .. MaxAttempts + 1
  <1>1. attempts[w] \in 0 .. MaxAttempts + 1 /\ MaxAttempts \in Nat
    BY B2ExitAssumption DEF IndInv, TypeOK
  <1>2. event[w] \in {"PENDING", "PUBLISHED", "DEAD_LETTERED", "none"}
    BY DEF IndInv, TypeOK, OutboxStatuses
  <1>3. /\ event[w] \in {"none", "PENDING"} => attempts[w] < MaxAttempts
        /\ event[w] = "DEAD_LETTERED" => attempts[w] <= MaxAttempts
    BY DEF IndInv, OutboxOK
  <1>4. QED
    BY <1>1, <1>2, <1>3

\* No exit, no request, tenancies that do not overlap.
LEMMA InitInd == Init => IndInv
  BY B2ExitAssumption
  DEF Init, IndInv, TypeOK, RequestsOK, LockOK, MoneyOK, OutboxOK, TenancyOK,
      NobodyIsForgotten, Open, Steps, PaymentStatuses, OutboxStatuses,
      Settled, Paying, WorkflowStates

\* Every step writes values of the columns' types.
LEMMA TypeStep == IndInv /\ [Next]_vars => TypeOK'
  <1> SUFFICES ASSUME IndInv, [Next]_vars PROVE TypeOK'
    OBVIOUS
  <1>0. /\ TypeOK
        /\ RequestsOK
        /\ OutboxOK
    BY DEF IndInv, TypeOK
  <1> USE B2ExitAssumption, <1>0
      DEF outbox, columns, outside, requests, Goto, Finish, TypeOK,
          RequestsOK, OutboxOK, Steps, PaymentStatuses, OutboxStatuses,
          TaskTypes, Paying
  <1>1. ASSUME NEW c \in Contracts, SignContract(c)
        PROVE  TypeOK'
    BY <1>1 DEF SignContract
  <1>2. ASSUME NEW c \in Contracts, EndContract(c)
        PROVE  TypeOK'
    BY <1>2 DEF EndContract
  <1>3. ASSUME NEW w \in WorkflowIds, GatewaySettles(w)
        PROVE  TypeOK'
    BY <1>3 DEF GatewaySettles
  <1>4. ASSUME NEW w \in WorkflowIds, NEW deposit \in Deposits,
               Initiate(w, deposit)
        PROVE  TypeOK'
    <2>1. PropertyAt(w) \in Properties
      BY B2ExitAssumption DEF PropertyAt
    <2>2. /\ status' \in [WorkflowIds -> WorkflowStates \cup {"none"}]
          /\ audit' \in [WorkflowIds ->
               SUBSET ((WorkflowStates \cup {"none"}) \X WorkflowStates)]
      BY <1>4 DEF Initiate, WorkflowStates
    <2>3. /\ exitLock' \subseteq Properties
          /\ event' \in [WorkflowIds -> OutboxStatuses \cup {"none"}]
          /\ snapshot' \in [WorkflowIds -> Nat]
      BY <1>4, <2>1 DEF Initiate, Acquired
    <2>4. QED
      BY <1>4, <2>2, <2>3 DEF Initiate
  <1>5. ASSUME NEW r \in Requests, NEW w \in WorkflowIds, Attempt(r, w)
        PROVE  TypeOK'
    <2>0. attempts[w] + 1 \in 0 .. MaxAttempts
      BY <1>5, AttemptsLeft DEF Attempt
    <2>1. tries' \in [Requests -> 0 .. MaxAttempts]
      BY <1>5, <2>0 DEF Attempt
    <2>2. QED
      BY <1>5, <2>1 DEF Attempt
  <1>6. ASSUME NEW r \in Requests, RecordSuccess(r)
        PROVE  TypeOK'
    <2>1. target[r] \in WorkflowIds /\ event[target[r]] # "none"
      BY <1>6 DEF RecordSuccess
    <2>2. attempts' \in [WorkflowIds -> 0 .. MaxAttempts + 1]
      <3>1. CASE event[target[r]] = "PUBLISHED"
        BY <1>6, <3>1 DEF RecordSuccess
      <3>2. CASE event[target[r]] # "PUBLISHED"
        <4>1. attempts[target[r]] + 1 \in 0 .. MaxAttempts + 1
          BY <2>1, <3>2, AttemptsLeft
        <4>2. QED
          BY <1>6, <2>1, <3>2, <4>1 DEF RecordSuccess
      <3>3. QED
        BY <3>1, <3>2
    <2>3. /\ status' \in [WorkflowIds -> WorkflowStates \cup {"none"}]
          /\ audit' \in [WorkflowIds ->
               SUBSET ((WorkflowStates \cup {"none"}) \X WorkflowStates)]
      BY <1>6, <2>1, Origins DEF RecordSuccess, Advanced, Move
    <2>4. QED
      BY <1>6, <2>1, <2>2, <2>3 DEF RecordSuccess
  <1>7. ASSUME NEW r \in Requests, RecordFailure(r)
        PROVE  TypeOK'
    BY <1>7 DEF RecordFailure, DeadLettered
  <1>8. ASSUME NEW w \in WorkflowIds, ScheduleInspection(w)
        PROVE  TypeOK'
    BY <1>8, Origins DEF ScheduleInspection, Move
  <1>9. ASSUME NEW w \in WorkflowIds, NEW amount \in Damages,
               SubmitReport(w, amount)
        PROVE  TypeOK'
    BY <1>9, Origins DEF SubmitReport, Move
  <1>10. ASSUME NEW w \in WorkflowIds, ConfirmDamage(w)
        PROVE  TypeOK'
    BY <1>10, Origins DEF ConfirmDamage, Move
  <1>11. ASSUME NEW w \in WorkflowIds, StallOne(w)
        PROVE  TypeOK'
    BY <1>11, Origins DEF StallOne, Move
  <1>12. ASSUME NEW r \in Requests, NEW w \in WorkflowIds, EnsureCreates(r, w)
        PROVE  TypeOK'
    BY <1>12 DEF EnsureCreates
  <1>13. ASSUME NEW r \in Requests, NEW w \in WorkflowIds, EnsureFinds(r, w)
        PROVE  TypeOK'
    BY <1>13 DEF EnsureFinds
  <1>14. ASSUME NEW r \in Requests, ReadPayment(r)
        PROVE  TypeOK'
    BY <1>14 DEF ReadPayment
  <1>15. ASSUME NEW r \in Requests, CallGateway(r)
        PROVE  TypeOK'
    BY <1>15 DEF CallGateway, Outcomes
  <1>16. ASSUME NEW r \in Requests, CallFails(r)
        PROVE  TypeOK'
    BY <1>16 DEF CallFails, Outcomes, Fault
  <1>17. ASSUME NEW r \in Requests, RecordAnswer(r)
        PROVE  TypeOK'
    BY <1>17 DEF RecordAnswer
  <1>18. ASSUME NEW r \in Requests, Advance(r)
        PROVE  TypeOK'
    BY <1>18, Origins DEF Advance, MayAdvance, Move
  <1>19. ASSUME NEW r \in Requests, Hold(r)
        PROVE  TypeOK'
    BY <1>19 DEF Hold
  <1>20. ASSUME NEW r \in Requests, StorePdf(r)
        PROVE  TypeOK'
    BY <1>20 DEF StorePdf, MayIssue
  <1>21. ASSUME NEW r \in Requests, StoreRefused(r)
        PROVE  TypeOK'
    BY <1>21 DEF StoreRefused
  <1>22. ASSUME NEW r \in Requests, IssueCommit(r)
        PROVE  TypeOK'
    <2>1. target[r] \in WorkflowIds
      BY <1>22 DEF IssueCommit
    <2>2. /\ status' \in [WorkflowIds -> WorkflowStates \cup {"none"}]
          /\ audit' \in [WorkflowIds ->
               SUBSET ((WorkflowStates \cup {"none"}) \X WorkflowStates)]
      BY <1>22, <2>1 DEF IssueCommit, WorkflowStates
    <2>3. QED
      BY <1>22, <2>1, <2>2 DEF IssueCommit, Released
  <1>23. ASSUME NEW r \in Requests, Crash(r)
        PROVE  TypeOK'
    BY <1>23 DEF Crash, Fault
  <1>24. CASE UNCHANGED vars
    BY <1>24 DEF vars
  <1>25. QED
    BY <1>1, <1>2, <1>3, <1>4, <1>5, <1>6, <1>7, <1>8, <1>9, <1>10, <1>11,
       <1>12, <1>13, <1>14, <1>15, <1>16, <1>17, <1>18, <1>19, <1>20, <1>21,
       <1>22, <1>23, <1>24
    DEF Next, Users, Jobs, Environment, Dispatcher, Settlement, Settle,
        outbox, columns, outside, requests, Goto, Finish, vars

\* Whoever enters the last transaction finds the row unlocked.
LEMMA LockStep == IndInv /\ [Next]_vars => LockOK'
  <1> SUFFICES ASSUME IndInv, [Next]_vars PROVE LockOK'
    OBVIOUS
  <1>0. /\ pc \in [Requests -> Steps]
        /\ target \in [Requests -> WorkflowIds \cup {Nobody}]
        /\ LockOK
    BY DEF IndInv, TypeOK
  <1> USE B2ExitAssumption, <1>0
      DEF outbox, columns, outside, requests, Goto, Finish, LockOK, Locked
  <1>1. ASSUME NEW r \in Requests, NEW w \in WorkflowIds, Attempt(r, w)
        PROVE  LockOK'
    BY <1>1 DEF Attempt
  <1>2. ASSUME NEW r \in Requests, RecordSuccess(r)
        PROVE  LockOK'
    BY <1>2 DEF RecordSuccess, Advanced, Move
  <1>3. ASSUME NEW r \in Requests, RecordFailure(r)
        PROVE  LockOK'
    BY <1>3 DEF RecordFailure, DeadLettered
  <1>4. ASSUME NEW r \in Requests, NEW w \in WorkflowIds, EnsureCreates(r, w)
        PROVE  LockOK'
    BY <1>4 DEF EnsureCreates
  <1>5. ASSUME NEW r \in Requests, NEW w \in WorkflowIds, EnsureFinds(r, w)
        PROVE  LockOK'
    BY <1>5 DEF EnsureFinds
  <1>6. ASSUME NEW r \in Requests, ReadPayment(r)
        PROVE  LockOK'
    BY <1>6 DEF ReadPayment
  <1>7. ASSUME NEW r \in Requests, CallGateway(r)
        PROVE  LockOK'
    BY <1>7 DEF CallGateway, Outcomes
  <1>8. ASSUME NEW r \in Requests, CallFails(r)
        PROVE  LockOK'
    BY <1>8 DEF CallFails, Outcomes, Fault
  <1>9. ASSUME NEW r \in Requests, RecordAnswer(r)
        PROVE  LockOK'
    BY <1>9 DEF RecordAnswer
  <1>10. ASSUME NEW r \in Requests, Advance(r)
        PROVE  LockOK'
    BY <1>10 DEF Advance, MayAdvance, Move
  <1>11. ASSUME NEW r \in Requests, Hold(r)
        PROVE  LockOK'
    BY <1>11 DEF Hold
  <1>12. ASSUME NEW r \in Requests, StorePdf(r)
        PROVE  LockOK'
    BY <1>12 DEF StorePdf, MayIssue
  <1>13. ASSUME NEW r \in Requests, StoreRefused(r)
        PROVE  LockOK'
    BY <1>13 DEF StoreRefused
  <1>14. ASSUME NEW r \in Requests, IssueCommit(r)
        PROVE  LockOK'
    BY <1>14 DEF IssueCommit, Released
  <1>15. ASSUME NEW r \in Requests, Crash(r)
        PROVE  LockOK'
    BY <1>15 DEF Crash, Fault
  <1>16. CASE UNCHANGED <<pc, target>>
    BY <1>16 DEF vars
  <1>17. QED
    BY <1>1, <1>2, <1>3, <1>4, <1>5, <1>6, <1>7, <1>8, <1>9, <1>10, <1>11,
       <1>12, <1>13, <1>14, <1>15, <1>16
    DEF Next, Users, Jobs, Environment, Dispatcher, Settlement, Settle,
        outbox, columns, outside, requests, Goto, Finish, vars, SignContract,
        EndContract, GatewaySettles, Initiate, ScheduleInspection,
        SubmitReport, ConfirmDamage, StallOne, Acquired, NoOpenExit, Move

\* Money that was paid stays paid, and only a recorded success moves an exit on.
LEMMA MoneyStep == IndInv /\ [Next]_vars => MoneyOK'
  <1> SUFFICES ASSUME IndInv, [Next]_vars PROVE MoneyOK'
    OBVIOUS
  <1>0. /\ status \in [WorkflowIds -> WorkflowStates \cup {"none"}]
        /\ payment \in [WorkflowIds -> PaymentStatuses \cup {"none"}]
        /\ gateway \in [WorkflowIds -> PaymentStatuses \cup {"none"}]
        /\ pc \in [Requests -> Steps]
        /\ target \in [Requests -> WorkflowIds \cup {Nobody}]
        /\ answer \in [Requests -> PaymentStatuses \cup {"none"}]
        /\ stored \subseteq WorkflowIds
        /\ MoneyOK
        /\ RequestsOK
    BY DEF IndInv, TypeOK
  <1> USE B2ExitAssumption, <1>0
      DEF outbox, columns, outside, requests, Goto, Finish, MoneyOK,
          RequestsOK, Settled, Paying
  <1>1. ASSUME NEW w \in WorkflowIds, GatewaySettles(w)
        PROVE  MoneyOK'
    BY <1>1 DEF GatewaySettles
  <1>2. ASSUME NEW w \in WorkflowIds, NEW deposit \in Deposits,
               Initiate(w, deposit)
        PROVE  MoneyOK'
    BY <1>2 DEF Initiate, Acquired, NoOpenExit
  <1>3. ASSUME NEW r \in Requests, RecordSuccess(r)
        PROVE  MoneyOK'
    BY <1>3, Origins DEF RecordSuccess, Advanced, Move
  <1>4. ASSUME NEW w \in WorkflowIds, ScheduleInspection(w)
        PROVE  MoneyOK'
    BY <1>4, Origins DEF ScheduleInspection, Move
  <1>5. ASSUME NEW w \in WorkflowIds, NEW amount \in Damages,
               SubmitReport(w, amount)
        PROVE  MoneyOK'
    BY <1>5, Origins DEF SubmitReport, Move
  <1>6. ASSUME NEW w \in WorkflowIds, ConfirmDamage(w)
        PROVE  MoneyOK'
    BY <1>6, Origins DEF ConfirmDamage, Move
  <1>7. ASSUME NEW w \in WorkflowIds, StallOne(w)
        PROVE  MoneyOK'
    BY <1>7, Origins DEF StallOne, Move
  <1>8. ASSUME NEW r \in Requests, NEW w \in WorkflowIds, EnsureCreates(r, w)
        PROVE  MoneyOK'
    BY <1>8 DEF EnsureCreates
  <1>9. ASSUME NEW r \in Requests, CallGateway(r)
        PROVE  MoneyOK'
    BY <1>9 DEF CallGateway, Outcomes
  <1>10. ASSUME NEW r \in Requests, CallFails(r)
        PROVE  MoneyOK'
    BY <1>10 DEF CallFails, Outcomes, Fault
  <1>11. ASSUME NEW r \in Requests, RecordAnswer(r)
        PROVE  MoneyOK'
    BY <1>11 DEF RecordAnswer
  <1>12. ASSUME NEW r \in Requests, Advance(r)
        PROVE  MoneyOK'
    BY <1>12, Origins DEF Advance, MayAdvance, Move
  <1>13. ASSUME NEW r \in Requests, StorePdf(r)
        PROVE  MoneyOK'
    BY <1>13 DEF StorePdf, MayIssue
  <1>14. ASSUME NEW r \in Requests, IssueCommit(r)
        PROVE  MoneyOK'
    BY <1>14 DEF IssueCommit, Released
  <1>15. CASE UNCHANGED <<status, payment, gateway, stored>>
    BY <1>15 DEF vars
  <1>16. QED
    BY <1>1, <1>2, <1>3, <1>4, <1>5, <1>6, <1>7, <1>8, <1>9, <1>10, <1>11,
       <1>12, <1>13, <1>14, <1>15
    DEF Next, Users, Jobs, Environment, Dispatcher, Settlement, Settle,
        outbox, columns, outside, requests, Goto, Finish, vars, SignContract,
        EndContract, Attempt, RecordFailure, EnsureFinds, ReadPayment, Hold,
        StoreRefused, Crash, DeadLettered, Fault

\* In whatever order two attempts record their outcomes, the exit has been
\* moved on, or its event waits, or the administrators know.
LEMMA OutboxStep == IndInv /\ [Next]_vars => OutboxOK'
  <1> SUFFICES ASSUME IndInv, [Next]_vars PROVE OutboxOK'
    OBVIOUS
  <1>0. /\ status \in [WorkflowIds -> WorkflowStates \cup {"none"}]
        /\ event \in [WorkflowIds -> OutboxStatuses \cup {"none"}]
        /\ attempts \in [WorkflowIds -> 0 .. MaxAttempts + 1]
        /\ tasks \subseteq WorkflowIds \X TaskTypes
        /\ pc \in [Requests -> Steps]
        /\ target \in [Requests -> WorkflowIds \cup {Nobody}]
        /\ tries \in [Requests -> 0 .. MaxAttempts]
        /\ broker \subseteq WorkflowIds
        /\ OutboxOK
        /\ RequestsOK
    BY DEF IndInv, TypeOK
  <1> USE B2ExitAssumption, <1>0
      DEF outbox, columns, outside, requests, Goto, Finish, OutboxOK,
          NobodyIsForgotten, RequestsOK
  <1>1. ASSUME NEW w \in WorkflowIds, NEW deposit \in Deposits,
               Initiate(w, deposit)
        PROVE  OutboxOK'
    BY <1>1 DEF Initiate, Acquired, NoOpenExit
  <1>2. ASSUME NEW r \in Requests, NEW w \in WorkflowIds, Attempt(r, w)
        PROVE  OutboxOK'
    BY <1>2 DEF Attempt
  <1>3. ASSUME NEW r \in Requests, RecordSuccess(r)
        PROVE  OutboxOK'
    BY <1>3, Origins DEF RecordSuccess, Advanced, Move
  <1>4. ASSUME NEW r \in Requests, RecordFailure(r)
        PROVE  OutboxOK'
    BY <1>4 DEF RecordFailure, DeadLettered
  <1>5. ASSUME NEW w \in WorkflowIds, ScheduleInspection(w)
        PROVE  OutboxOK'
    BY <1>5, Origins DEF ScheduleInspection, Move
  <1>6. ASSUME NEW w \in WorkflowIds, NEW amount \in Damages,
               SubmitReport(w, amount)
        PROVE  OutboxOK'
    BY <1>6, Origins DEF SubmitReport, Move
  <1>7. ASSUME NEW w \in WorkflowIds, ConfirmDamage(w)
        PROVE  OutboxOK'
    BY <1>7, Origins DEF ConfirmDamage, Move
  <1>8. ASSUME NEW w \in WorkflowIds, StallOne(w)
        PROVE  OutboxOK'
    BY <1>8, Origins DEF StallOne, Move
  <1>9. ASSUME NEW r \in Requests, Advance(r)
        PROVE  OutboxOK'
    BY <1>9, Origins DEF Advance, MayAdvance, Move
  <1>10. ASSUME NEW r \in Requests, IssueCommit(r)
        PROVE  OutboxOK'
    BY <1>10 DEF IssueCommit, Released
  <1>11. CASE UNCHANGED <<status, outbox, tasks, broker>>
    BY <1>11 DEF vars
  <1>12. QED
    BY <1>1, <1>2, <1>3, <1>4, <1>5, <1>6, <1>7, <1>8, <1>9, <1>10, <1>11
    DEF Next, Users, Jobs, Environment, Dispatcher, Settlement, Settle,
        outbox, columns, outside, requests, Goto, Finish, vars, SignContract,
        EndContract, GatewaySettles, EnsureCreates, EnsureFinds, ReadPayment,
        CallGateway, CallFails, RecordAnswer, Hold, StorePdf, StoreRefused,
        Crash, Outcomes, Fault, MayIssue

\* What a request knows of its exit outlives the steps of all others.
LEMMA RequestsStep == IndInv /\ [Next]_vars => RequestsOK'
  <1> SUFFICES ASSUME IndInv, [Next]_vars PROVE RequestsOK'
    OBVIOUS
  <1>0. /\ status \in [WorkflowIds -> WorkflowStates \cup {"none"}]
        /\ event \in [WorkflowIds -> OutboxStatuses \cup {"none"}]
        /\ gateway \in [WorkflowIds -> PaymentStatuses \cup {"none"}]
        /\ pc \in [Requests -> Steps]
        /\ target \in [Requests -> WorkflowIds \cup {Nobody}]
        /\ answer \in [Requests -> PaymentStatuses \cup {"none"}]
        /\ stored \subseteq WorkflowIds
        /\ broker \subseteq WorkflowIds
        /\ RequestsOK
        /\ LockOK
        /\ MoneyOK
    BY DEF IndInv, TypeOK
  <1> USE B2ExitAssumption, <1>0
      DEF outbox, columns, outside, requests, Goto, Finish, RequestsOK,
          Settled, Paying, MoneyOK
  <1>1. ASSUME NEW w \in WorkflowIds, GatewaySettles(w)
        PROVE  RequestsOK'
    BY <1>1 DEF GatewaySettles
  <1>2. ASSUME NEW w \in WorkflowIds, NEW deposit \in Deposits,
               Initiate(w, deposit)
        PROVE  RequestsOK'
    BY <1>2 DEF Initiate, Acquired, NoOpenExit
  <1>3. ASSUME NEW r \in Requests, NEW w \in WorkflowIds, Attempt(r, w)
        PROVE  RequestsOK'
    BY <1>3 DEF Attempt
  <1>4. ASSUME NEW r \in Requests, RecordSuccess(r)
        PROVE  RequestsOK'
    BY <1>4, Origins DEF RecordSuccess, Advanced, Move
  <1>5. ASSUME NEW r \in Requests, RecordFailure(r)
        PROVE  RequestsOK'
    BY <1>5 DEF RecordFailure, DeadLettered
  <1>6. ASSUME NEW w \in WorkflowIds, ScheduleInspection(w)
        PROVE  RequestsOK'
    BY <1>6, Origins DEF ScheduleInspection, Move
  <1>7. ASSUME NEW w \in WorkflowIds, NEW amount \in Damages,
               SubmitReport(w, amount)
        PROVE  RequestsOK'
    BY <1>7, Origins DEF SubmitReport, Move
  <1>8. ASSUME NEW w \in WorkflowIds, ConfirmDamage(w)
        PROVE  RequestsOK'
    BY <1>8, Origins DEF ConfirmDamage, Move
  <1>9. ASSUME NEW w \in WorkflowIds, StallOne(w)
        PROVE  RequestsOK'
    BY <1>9, Origins DEF StallOne, Move
  <1>10. ASSUME NEW r \in Requests, NEW w \in WorkflowIds, EnsureCreates(r, w)
        PROVE  RequestsOK'
    BY <1>10 DEF EnsureCreates
  <1>11. ASSUME NEW r \in Requests, NEW w \in WorkflowIds, EnsureFinds(r, w)
        PROVE  RequestsOK'
    BY <1>11 DEF EnsureFinds
  <1>12. ASSUME NEW r \in Requests, ReadPayment(r)
        PROVE  RequestsOK'
    BY <1>12 DEF ReadPayment
  <1>13. ASSUME NEW r \in Requests, CallGateway(r)
        PROVE  RequestsOK'
    BY <1>13 DEF CallGateway, Outcomes
  <1>14. ASSUME NEW r \in Requests, CallFails(r)
        PROVE  RequestsOK'
    BY <1>14 DEF CallFails, Outcomes, Fault
  <1>15. ASSUME NEW r \in Requests, RecordAnswer(r)
        PROVE  RequestsOK'
    BY <1>15 DEF RecordAnswer
  <1>16. ASSUME NEW r \in Requests, Advance(r)
        PROVE  RequestsOK'
    BY <1>16, Origins DEF Advance, MayAdvance, Move
  <1>17. ASSUME NEW r \in Requests, Hold(r)
        PROVE  RequestsOK'
    BY <1>17 DEF Hold
  <1>18. ASSUME NEW r \in Requests, StorePdf(r)
        PROVE  RequestsOK'
    BY <1>18 DEF StorePdf, MayIssue
  <1>19. ASSUME NEW r \in Requests, StoreRefused(r)
        PROVE  RequestsOK'
    BY <1>19 DEF StoreRefused
  <1>20. ASSUME NEW r \in Requests, IssueCommit(r)
        PROVE  RequestsOK'
    <2>1. target[r] \in WorkflowIds /\ pc[r] = "commit"
      BY <1>20 DEF IssueCommit
    <2>2. ASSUME NEW q \in Requests, q # r, pc[q] = "commit"
          PROVE  target[q] # target[r]
      BY <2>1, <2>2 DEF LockOK
    <2>3. status' = [status EXCEPT ![target[r]] = "COMPLETE"]
      BY <1>20 DEF IssueCommit
    <2>4. QED
      BY <1>20, <2>1, <2>2, <2>3 DEF IssueCommit
  <1>21. ASSUME NEW r \in Requests, Crash(r)
        PROVE  RequestsOK'
    BY <1>21 DEF Crash, Fault
  <1>22. CASE UNCHANGED <<status, event, gateway, requests, stored, broker>>
    BY <1>22 DEF vars
  <1>23. QED
    BY <1>1, <1>2, <1>3, <1>4, <1>5, <1>6, <1>7, <1>8, <1>9, <1>10, <1>11,
       <1>12, <1>13, <1>14, <1>15, <1>16, <1>17, <1>18, <1>19, <1>20, <1>21,
       <1>22
    DEF Next, Users, Jobs, Environment, Dispatcher, Settlement, Settle,
        outbox, columns, outside, requests, Goto, Finish, vars, SignContract,
        EndContract

\* A tenancy outlives its exit, so nobody else's exit can be open on the
\* property when one is initiated.
LEMMA TenancyStep == IndInv /\ [Next]_vars => TenancyOK'
  <1> SUFFICES ASSUME IndInv, [Next]_vars PROVE TenancyOK'
    OBVIOUS
  <1>0. /\ status \in [WorkflowIds -> WorkflowStates \cup {"none"}]
        /\ active \subseteq Contracts
        /\ exitLock \subseteq Properties
        /\ pc \in [Requests -> Steps]
        /\ target \in [Requests -> WorkflowIds \cup {Nobody}]
        /\ TenancyOK
        /\ RequestsOK
    BY DEF IndInv, TypeOK
  <1> USE B2ExitAssumption, <1>0
      DEF outbox, columns, outside, requests, Goto, Finish, TenancyOK, Open,
          PropertyAt
  <1>1. ASSUME NEW c \in Contracts, SignContract(c)
        PROVE  TenancyOK'
    BY <1>1 DEF SignContract
  <1>2. ASSUME NEW c \in Contracts, EndContract(c)
        PROVE  TenancyOK'
    BY <1>2 DEF EndContract
  <1>3. ASSUME NEW w \in WorkflowIds, NEW deposit \in Deposits,
               Initiate(w, deposit)
        PROVE  TenancyOK'
    BY <1>3 DEF Initiate, Acquired, NoOpenExit
  <1>4. ASSUME NEW r \in Requests, RecordSuccess(r)
        PROVE  TenancyOK'
    BY <1>4, Origins DEF RecordSuccess, Advanced, Move
  <1>5. ASSUME NEW w \in WorkflowIds, ScheduleInspection(w)
        PROVE  TenancyOK'
    BY <1>5, Origins DEF ScheduleInspection, Move
  <1>6. ASSUME NEW w \in WorkflowIds, NEW amount \in Damages,
               SubmitReport(w, amount)
        PROVE  TenancyOK'
    BY <1>6, Origins DEF SubmitReport, Move
  <1>7. ASSUME NEW w \in WorkflowIds, ConfirmDamage(w)
        PROVE  TenancyOK'
    BY <1>7, Origins DEF ConfirmDamage, Move
  <1>8. ASSUME NEW w \in WorkflowIds, StallOne(w)
        PROVE  TenancyOK'
    BY <1>8, Origins DEF StallOne, Move
  <1>9. ASSUME NEW r \in Requests, Advance(r)
        PROVE  TenancyOK'
    BY <1>9, Origins DEF Advance, MayAdvance, Move
  <1>10. ASSUME NEW r \in Requests, IssueCommit(r)
        PROVE  TenancyOK'
    <2> DEFINE w == target[r]
    <2>1. w \in WorkflowIds /\ Open(w)
      BY <1>10 DEF IssueCommit, RequestsOK
    <2>2. /\ active' = active
          /\ exitLock' = exitLock \ {PropertyAt(w)}
          /\ \A v \in WorkflowIds : Open(v)' <=> Open(v) /\ v # w
      BY <1>10, <2>1 DEF IssueCommit, Released
    <2>3. \A v \in WorkflowIds : Open(v) /\ PropertyAt(v) = PropertyAt(w) => v
       = w
      BY <2>1
    <2> HIDE DEF w, Open
    <2>4. QED
      BY <2>1, <2>2, <2>3
  <1>11. CASE UNCHANGED <<active, status, exitLock>>
    BY <1>11 DEF vars
  <1>12. QED
    BY <1>1, <1>2, <1>3, <1>4, <1>5, <1>6, <1>7, <1>8, <1>9, <1>10, <1>11
    DEF Next, Users, Jobs, Environment, Dispatcher, Settlement, Settle,
        outbox, columns, outside, requests, Goto, Finish, vars,
        GatewaySettles, Attempt, RecordFailure, EnsureCreates, EnsureFinds,
        ReadPayment, CallGateway, CallFails, RecordAnswer, Hold, StorePdf,
        StoreRefused, Crash, DeadLettered, Outcomes, Fault, MayIssue

\* IndInv holds in every reachable state.
THEOREM Invariance == Spec => []IndInv
  <1>1. IndInv /\ [Next]_vars => IndInv'
    BY TypeStep, LockStep, MoneyStep, OutboxStep, RequestsStep, TenancyStep
    DEF IndInv
  <1>2. QED
    BY InitInd, <1>1, PTL DEF Spec

\* Every column keeps its type.
THEOREM TypeCorrect == Spec => []TypeOK
  BY Invariance, PTL DEF IndInv

\* EXIT-04: whatever the order in which attempts of one event record their
\* outcomes, an exit is notified, queued, or on the administrators' list.
THEOREM NobodyStaysForgotten == Spec => []NobodyIsForgotten
  <1>1. IndInv => NobodyIsForgotten
    BY DEF IndInv, OutboxOK
  <1>2. QED
    BY Invariance, <1>1, PTL

-----------------------------------------------------------------------------
\* AuditInv.

\* No exit, no path.
LEMMA InitAudit == Init => AuditInv
  BY DEF Init, AuditInv, PathTo, Climbs

\* One transition of one exit keeps the trails.
LEMMA MoveKeepsTrail ==
  ASSUME TypeOK, AuditInv, NEW w \in WorkflowIds, NEW to, NEW a, Move(w, to, a)
  PROVE  AuditInv'
  <1>1. Row(status[w], to, a) \in Transitions
    BY DEF Move, Allowed
  <1>2. /\ PathTo(to, audit[w] \cup {<<status[w], to>>})
        /\ Climbs(to, audit[w] \cup {<<status[w], to>>})
    BY <1>1, PathGrows DEF AuditInv, TypeOK
  <1>3. QED
    BY <1>2 DEF AuditInv, TypeOK, Move

\* Every step keeps the trails.
LEMMA AuditStep == IndInv /\ AuditInv /\ [Next]_vars => AuditInv'
  <1> SUFFICES ASSUME IndInv, AuditInv, [Next]_vars PROVE AuditInv'
    OBVIOUS
  <1> USE DEF outbox, columns, outside, requests, Goto, Finish
  <1>1. TypeOK
    BY DEF IndInv
  <1>2. UNCHANGED <<status, audit>> => AuditInv'
    BY DEF AuditInv
  <1>3. ASSUME NEW w \in WorkflowIds, NEW deposit \in Deposits,
               Initiate(w, deposit)
        PROVE  AuditInv'
    <2> DEFINE A == {<<"none", "INITIATED">>, <<"INITIATED", "DOCS_SUBMITTED">>}
    <2>1. PathTo("DOCS_SUBMITTED", A)
      <3>1. {e[1] : e \in A} = {"none", "INITIATED"}
        OBVIOUS
      <3>2. {e[2] : e \in A} = {"INITIATED", "DOCS_SUBMITTED"}
        OBVIOUS
      <3>3. Row("INITIATED", "DOCS_SUBMITTED", "tenant") \in Transitions
        BY DEF Transitions
      <3>4. QED
        BY <3>1, <3>2, <3>3 DEF PathTo, Actors
    <2>2. Climbs("DOCS_SUBMITTED", A)
      BY DEF Climbs, Rank, WorkflowStates
    <2>3. QED
      BY <1>1, <1>3, <2>1, <2>2 DEF Initiate, AuditInv, TypeOK
  <1>4. ASSUME NEW r \in Requests, RecordSuccess(r) PROVE AuditInv'
    <2>1. target[r] \in WorkflowIds
      BY <1>4 DEF RecordSuccess, IndInv, RequestsOK
    <2>2. \/ Move(target[r], "OWNER_NOTIFIED", "system")
          \/ UNCHANGED <<status, audit>>
      BY <1>4 DEF RecordSuccess, Advanced
    <2>3. QED
      BY <1>1, <1>2, <2>1, <2>2, MoveKeepsTrail
  <1>5. ASSUME NEW r \in Requests, Advance(r) PROVE AuditInv'
    <2>1. target[r] \in WorkflowIds
      BY <1>5 DEF Advance, IndInv, RequestsOK
    <2>2. \/ Move(target[r], "REFUND_PROCESSED", "system")
          \/ UNCHANGED <<status, audit>>
      BY <1>5 DEF Advance
    <2>3. QED
      BY <1>1, <1>2, <2>1, <2>2, MoveKeepsTrail
  <1>6. ASSUME NEW w \in WorkflowIds,
               \/ ScheduleInspection(w) \/ ConfirmDamage(w) \/ StallOne(w)
               \/ \E amount \in Damages : SubmitReport(w, amount)
        PROVE  AuditInv'
    BY <1>1, <1>6, MoveKeepsTrail
    DEF ScheduleInspection, ConfirmDamage, StallOne, SubmitReport
  <1>7. ASSUME NEW r \in Requests, IssueCommit(r) PROVE AuditInv'
    <2> DEFINE w == target[r]
               A == audit[w] \cup {<<"REFUND_PROCESSED", "NOC_ISSUED">>}
    <2>1. w \in WorkflowIds /\ status[w] = "REFUND_PROCESSED"
      BY <1>7 DEF IssueCommit, IndInv, RequestsOK
    <2>2. /\ Row("REFUND_PROCESSED", "NOC_ISSUED", "system") \in Transitions
          /\ Row("NOC_ISSUED", "COMPLETE", "system") \in Transitions
      BY DEF Transitions
    <2>3. PathTo("NOC_ISSUED", A) /\ Climbs("NOC_ISSUED", A)
      BY <1>1, <2>1, <2>2, PathGrows DEF AuditInv, TypeOK
    <2>4. A \in SUBSET ((WorkflowStates \cup {"none"}) \X WorkflowStates)
      BY <1>1, <2>1 DEF TypeOK, WorkflowStates
    <2>5. /\ PathTo("COMPLETE", A \cup {<<"NOC_ISSUED", "COMPLETE">>})
          /\ Climbs("COMPLETE", A \cup {<<"NOC_ISSUED", "COMPLETE">>})
      BY <2>2, <2>3, <2>4, PathGrows
    <2>6. audit'[w] = A \cup {<<"NOC_ISSUED", "COMPLETE">>}
      BY <1>1, <1>7, <2>1 DEF IssueCommit, TypeOK
    <2>7. QED
      BY <1>1, <1>7, <2>1, <2>5, <2>6 DEF IssueCommit, AuditInv, TypeOK
  <1>8. ASSUME \/ \E c \in Contracts : SignContract(c) \/ EndContract(c)
               \/ \E w \in WorkflowIds : GatewaySettles(w)
               \/ \E r \in Requests, w \in WorkflowIds :
                    Attempt(r, w) \/ EnsureCreates(r, w) \/ EnsureFinds(r, w)
               \/ \E r \in Requests :
                    \/ RecordFailure(r) \/ ReadPayment(r) \/ CallGateway(r)
                    \/ CallFails(r) \/ RecordAnswer(r) \/ Hold(r)
                    \/ StorePdf(r) \/ StoreRefused(r) \/ Crash(r)
               \/ UNCHANGED vars
        PROVE  AuditInv'
    BY <1>2, <1>8
    DEF SignContract, EndContract, GatewaySettles, Attempt, EnsureCreates,
        EnsureFinds, RecordFailure, ReadPayment, CallGateway, CallFails,
        RecordAnswer, Hold, StorePdf, StoreRefused, Crash, vars
  <1>9. QED
    BY <1>3, <1>4, <1>5, <1>6, <1>7, <1>8
    DEF Next, Users, Jobs, Environment, Dispatcher, Settlement, Settle

\* AuditInv holds in every reachable state.
THEOREM AuditInvariance == Spec => []AuditInv
  BY InitAudit, AuditStep, Invariance, PTL DEF Spec

\* Types, trails, stall tasks and notifications, as one: what one transaction
\* writes beside another's work stays of one piece.
THEOREM RecordsStayRight == Spec => []RecordsAgree
  <1>1. IndInv /\ AuditInv => RecordsAgree
    BY DEF IndInv, AuditInv, OutboxOK, RecordsAgree
  <1>2. QED
    BY Invariance, AuditInvariance, <1>1, PTL

-----------------------------------------------------------------------------
\* The refinement of ExitPromise.

\* The refinement mapping of Promise, by name.
Holder == [p \in Properties |-> IF p \in exitLock THEN HolderOf(p) ELSE Nobody]
Paid == [w \in WorkflowIds |-> gateway[w] = "SUCCEEDED"]
Noc == [w \in WorkflowIds |-> w \in stored]

\* The promise reads the same state table.
LEMMA SameTable ==
  /\ Promise!WorkflowStates = WorkflowStates /\ Promise!Actors = Actors
  /\ \A f, t, a : Promise!Row(f, t, a) = Row(f, t, a)
  /\ Promise!Transitions = Transitions
  BY
  DEF Promise!WorkflowStates, WorkflowStates, Promise!Actors, Actors,
      Promise!Row, Row, Promise!Transitions, Transitions

\* Two exits open on one property are one.
LEMMA OneOpenExit ==
  ASSUME IndInv, NEW v \in WorkflowIds, NEW w \in WorkflowIds,
         Open(v), Open(w), PropertyAt(v) = PropertyAt(w)
  PROVE  v = w
  BY DEF IndInv, TenancyOK, PropertyAt

\* An open exit is the holder of the flag of its property.
LEMMA HolderIs ==
  ASSUME IndInv, NEW w \in WorkflowIds, Open(w)
  PROVE  /\ PropertyAt(w) \in exitLock
         /\ Holder[PropertyAt(w)] = w
  <1>1. PropertyAt(w) \in exitLock /\ PropertyAt(w) \in Properties
    BY B2ExitAssumption DEF IndInv, TypeOK, TenancyOK
  <1>2. HolderOf(PropertyAt(w)) = w
    BY OneOpenExit DEF HolderOf
  <1>3. QED
    BY <1>1, <1>2 DEF Holder

\* The holders stay where neither a flag nor an open exit changes.
LEMMA HoldersStay ==
  ASSUME exitLock' = exitLock, \A v \in WorkflowIds : Open(v)' <=> Open(v)
  PROVE  Holder' = Holder
  <1>1. \A p : HolderOf(p)' = HolderOf(p)
    BY DEF HolderOf, PropertyAt
  <1>2. QED
    BY <1>1 DEF Holder

\* The initial states map to the initial state of the promise.
LEMMA InitImplements == Init => Promise!Init
  <1> SUFFICES ASSUME Init PROVE Promise!Init
    OBVIOUS
  <1>1. \A w \in WorkflowIds : gateway[w] # "SUCCEEDED" /\ w \notin stored
    BY DEF Init
  <1>2. status = [w \in WorkflowIds |-> "none"] /\ exitLock = {}
    BY DEF Init
  <1>3. Holder = [p \in Properties |-> Nobody]
    BY <1>2 DEF Holder
  <1>4. /\ Paid = [w \in WorkflowIds |-> FALSE]
        /\ Noc = [w \in WorkflowIds |-> FALSE]
    <2>1. \A w \in WorkflowIds : /\ (gateway[w] = "SUCCEEDED") = FALSE
                                 /\ (w \in stored) = FALSE
      BY <1>1
    <2>2. QED
      BY <2>1, Zenon DEF Paid, Noc
  <1>5. QED
    BY <1>2, <1>3, <1>4 DEF Promise!Init, Holder, Paid, Noc

\* A step that leaves every column of the mapping alone is a stutter.
LEMMA Stutter ==
  ASSUME UNCHANGED <<status, exitLock, gateway, stored>>
  PROVE  UNCHANGED Promise!vars
  <1>1. \A v \in WorkflowIds : Open(v)' <=> Open(v)
    BY DEF Open
  <1>2. UNCHANGED <<status, Holder, Paid, Noc>>
    BY <1>1, HoldersStay DEF Paid, Noc
  <1>3. QED
    BY <1>2 DEF Promise!vars, Holder, Paid, Noc

\* A transition that moves neither money nor the lock is an Advance of one.
LEMMA MoveAdvances ==
  ASSUME IndInv, UNCHANGED <<exitLock, gateway, stored>>,
         NEW w \in WorkflowIds, NEW to, NEW a,
         to \notin {"NOC_ISSUED", "COMPLETE"}, Move(w, to, a)
  PROVE  Promise!Next
  <1>1. Row(status[w], to, a) \in Transitions
    BY DEF Move, Allowed
  <1>2. /\ status[w] \in WorkflowStates /\ to \in WorkflowStates /\ a \in Actors
        /\ Rank[status[w]] < Rank[to]
        /\ status[w] # "COMPLETE"
    BY <1>1, TransitionsClimb DEF Row, Transitions
  <1>3. status \in [WorkflowIds -> WorkflowStates \cup {"none"}]
    BY DEF IndInv, TypeOK
  <1>4. status' = [status EXCEPT ![w] = to]
    BY DEF Move
  <1>5. \A v \in WorkflowIds : Open(v)' <=> Open(v)
    BY <1>2, <1>3, <1>4 DEF Open, WorkflowStates
  <1>6. UNCHANGED <<Holder, Paid, Noc>>
    BY <1>5, HoldersStay DEF Paid, Noc
  <1>7. Promise!Advance({w})
    BY <1>1, <1>2, <1>3, <1>4, <1>6, SameTable
    DEF Promise!Advance, Holder, Paid, Noc
  <1>8. QED
    BY <1>7 DEF Promise!Next

\* The initiation: its contract is active and has no open exit, so no other
\* contract's exit can be open on the property and the flag is free.
LEMMA InitiationInitiates ==
  ASSUME IndInv, NEW w \in WorkflowIds, NEW deposit \in Deposits,
         Initiate(w, deposit)
  PROVE  Promise!Initiate(w)
  <1>1. /\ status[w] = "none"
        /\ status' = [status EXCEPT ![w] = "DOCS_SUBMITTED"]
        /\ exitLock' = exitLock \cup {PropertyAt(w)}
        /\ UNCHANGED <<gateway, stored>>
        /\ ContractOf[w] \in active
        /\ \A v \in WorkflowIds : ContractOf[v] = ContractOf[w] => ~ Open(v)
    BY DEF Initiate, Acquired, NoOpenExit, outside
  <1>2. status \in [WorkflowIds -> WorkflowStates \cup {"none"}]
    BY DEF IndInv, TypeOK
  <1>3. \A v \in WorkflowIds : Open(v) => PropertyAt(v) # PropertyAt(w)
    BY <1>1 DEF IndInv, TenancyOK, PropertyAt
  <1>4. PropertyAt(w) \notin exitLock /\ PropertyAt(w) \in Properties
    BY <1>3, B2ExitAssumption DEF IndInv, TenancyOK, PropertyAt
  <1>5. \A v \in WorkflowIds : Open(v)' <=> Open(v) \/ v = w
    BY <1>1, <1>2 DEF Open
  <1>6. HolderOf(PropertyAt(w))' = w
    <2>1. \A v \in WorkflowIds :
            PropertyAt(v) = PropertyAt(w) /\ Open(v)' <=> v = w
      BY <1>3, <1>5
    <2>2. QED
      BY <2>1 DEF HolderOf, PropertyAt
  <1>7. ASSUME NEW p \in Properties, p # PropertyAt(w)
        PROVE  HolderOf(p)' = HolderOf(p)
    <2>1. \A v \in WorkflowIds :
            PropertyAt(v) = p /\ Open(v)' <=> PropertyAt(v) = p /\ Open(v)
      BY <1>5, <1>7
    <2>2. QED
      BY <2>1 DEF HolderOf, PropertyAt
  <1>8. Holder' = [Holder EXCEPT ![PropertyAt(w)] = w]
        /\ Holder[PropertyAt(w)] = Nobody
    <2>1. \A p \in Properties :
            Holder'[p] = IF p = PropertyAt(w) THEN w ELSE Holder[p]
      BY <1>1, <1>4, <1>6, <1>7 DEF Holder
    <2>2. QED
      BY <1>4, <2>1 DEF Holder
  <1>9. UNCHANGED <<Paid, Noc>>
    BY <1>1 DEF Paid, Noc
  <1>10. QED
    BY <1>1, <1>8, <1>9 DEF Promise!Initiate, Holder, Paid, Noc, PropertyAt

\* What the gateway does to a refund it has not paid is Pay, or nothing the
\* promise sees.
LEMMA GatewayPays ==
  ASSUME IndInv, NEW w \in WorkflowIds, NEW s,
         status[w] \in Settled, gateway[w] # "SUCCEEDED",
         gateway' = [gateway EXCEPT ![w] = s],
         UNCHANGED <<status, exitLock, stored>>
  PROVE  Promise!Pay(w) \/ UNCHANGED Promise!vars
  <1>1. status[w] = "DAMAGE_CONFIRMED"
    BY DEF IndInv, MoneyOK, Settled
  <1>2. UNCHANGED <<Holder, Noc>>
    <2>1. \A v \in WorkflowIds : Open(v)' <=> Open(v)
      BY DEF Open
    <2>2. QED
      BY <2>1, HoldersStay DEF Noc
  <1>3. gateway \in [WorkflowIds -> PaymentStatuses \cup {"none"}]
    BY DEF IndInv, TypeOK
  <1>4. CASE s = "SUCCEEDED"
    <2>1. Paid' = [Paid EXCEPT ![w] = TRUE]
      <3>1. Paid'[w] = TRUE
        BY <1>3, <1>4 DEF Paid
      <3>2. ASSUME NEW v \in WorkflowIds, v # w PROVE Paid'[v] = Paid[v]
        BY <1>3, <3>2 DEF Paid
      <3>3. QED
        BY <3>1, <3>2 DEF Paid
    <2>2. QED
      BY <1>1, <1>2, <2>1
      DEF Promise!Pay, Promise!Confirmed, Holder, Paid, Noc
  <1>5. CASE s # "SUCCEEDED"
    <2>1. \A v \in WorkflowIds :
            gateway'[v] = "SUCCEEDED" <=> gateway[v] = "SUCCEEDED"
      BY <1>3, <1>5
    <2>2. Paid' = Paid
      BY <2>1 DEF Paid
    <2>3. QED
      BY <1>2, <2>2 DEF Promise!vars, Holder, Paid, Noc
  <1>6. QED
    BY <1>4, <1>5

\* A call of the gateway, answered or not.
LEMMA CallPays ==
  ASSUME IndInv, NEW w \in WorkflowIds, status[w] \in Settled,
         NEW s \in Outcomes(w) \cup {gateway[w]},
         gateway' = [gateway EXCEPT ![w] = s],
         UNCHANGED <<status, exitLock, stored>>
  PROVE  Promise!Pay(w) \/ UNCHANGED Promise!vars
  <1>1. CASE gateway[w] = "SUCCEEDED"
    <2>1. gateway' = gateway
      BY <1>1 DEF Outcomes, IndInv, TypeOK
    <2>2. QED
      BY <2>1, Stutter
  <1>2. CASE gateway[w] # "SUCCEEDED"
    BY <1>2, GatewayPays
  <1>3. QED
    BY <1>1, <1>2

\* Storing the PDF is IssueNoc: an exit in REFUND_PROCESSED has been paid.
LEMMA StoreIssues ==
  ASSUME IndInv, NEW r \in Requests, StorePdf(r)
  PROVE  \E w \in WorkflowIds : Promise!IssueNoc(w)
  <1>1. PICK w \in WorkflowIds :
          /\ w = target[r] /\ status[w] = "REFUND_PROCESSED"
          /\ stored' = stored \cup {w}
          /\ UNCHANGED <<status, exitLock, gateway>>
    BY DEF StorePdf, IndInv, RequestsOK
  <1>2. Paid[w]
    BY <1>1 DEF IndInv, MoneyOK, Paid
  <1>3. UNCHANGED <<Holder, Paid>>
    <2>1. \A v \in WorkflowIds : Open(v)' <=> Open(v)
      BY <1>1 DEF Open
    <2>2. QED
      BY <1>1, <2>1, HoldersStay DEF Paid
  <1>4. Noc' = [Noc EXCEPT ![w] = TRUE]
    <2>1. Noc'[w] = TRUE
      BY <1>1 DEF Noc
    <2>2. ASSUME NEW v \in WorkflowIds, v # w PROVE Noc'[v] = Noc[v]
      <3>1. v \in stored' <=> v \in stored
        BY <1>1, <2>2
      <3>2. QED
        BY <3>1 DEF Noc
    <2>3. QED
      BY <2>1, <2>2 DEF Noc
  <1>5. QED
    BY <1>1, <1>2, <1>3, <1>4
    DEF Promise!IssueNoc, Promise!Confirmed, Holder, Paid, Noc

\* The last commit is Complete: the certificate exists and the exit holds the
\* flag it takes down.
LEMMA CommitCompletes ==
  ASSUME IndInv, NEW r \in Requests, IssueCommit(r)
  PROVE  \E w \in WorkflowIds : Promise!Complete(w)
  <1>1. PICK w \in WorkflowIds :
          /\ w = target[r] /\ status[w] = "REFUND_PROCESSED" /\ w \in stored
          /\ status' = [status EXCEPT ![w] = "COMPLETE"]
          /\ exitLock' = exitLock \ {PropertyAt(w)}
          /\ UNCHANGED <<stored, gateway>>
    BY DEF IssueCommit, Released, IndInv, RequestsOK, outside
  <1>2. Open(w) /\ PropertyAt(w) \in Properties
    BY <1>1, B2ExitAssumption DEF Open, PropertyAt
  <1>3. Holder[PropertyAt(w)] = w /\ Noc[w]
    BY <1>1, <1>2, HolderIs DEF Noc
  <1>4. \A v \in WorkflowIds : Open(v)' <=> Open(v) /\ v # w
    BY <1>1 DEF Open, IndInv, TypeOK
  <1>5. ASSUME NEW p \in Properties, p # PropertyAt(w)
        PROVE  HolderOf(p)' = HolderOf(p)
    <2>1. \A v \in WorkflowIds :
            PropertyAt(v) = p /\ Open(v)' <=> PropertyAt(v) = p /\ Open(v)
      BY <1>4, <1>5
    <2>2. QED
      BY <2>1 DEF HolderOf, PropertyAt
  <1>6. Holder' = [Holder EXCEPT ![PropertyAt(w)] = Nobody]
    <2>1. \A p \in Properties :
            Holder'[p] = IF p = PropertyAt(w) THEN Nobody ELSE Holder[p]
      BY <1>1, <1>5 DEF Holder
    <2>2. QED
      BY <2>1 DEF Holder
  <1>7. UNCHANGED <<Paid, Noc>>
    BY <1>1 DEF Paid, Noc
  <1>8. QED
    BY <1>1, <1>3, <1>6, <1>7
    DEF Promise!Complete, Promise!Confirmed, Holder, Paid, Noc, PropertyAt

\* Every step maps to a step of the promise or to a stutter.
LEMMA StepImplements ==
  ASSUME IndInv, [Next]_vars
  PROVE  [Promise!Next]_Promise!vars
  <1> USE DEF outside, columns, outbox
  <1>1. ASSUME NEW w \in WorkflowIds, NEW deposit \in Deposits,
               Initiate(w, deposit)
        PROVE  Promise!Next
    BY <1>1, InitiationInitiates DEF Promise!Next
  <1>2. ASSUME NEW r \in Requests, RecordSuccess(r)
        PROVE  [Promise!Next]_Promise!vars
    <2>1. target[r] \in WorkflowIds
      BY <1>2 DEF RecordSuccess, IndInv, RequestsOK
    <2>2. /\ \/ Move(target[r], "OWNER_NOTIFIED", "system")
             \/ UNCHANGED status
          /\ UNCHANGED <<exitLock, gateway, stored>>
      BY <1>2 DEF RecordSuccess, Advanced
    <2>3. QED
      BY <2>1, <2>2, MoveAdvances, Stutter
  <1>3. ASSUME NEW r \in Requests, Advance(r)
        PROVE  [Promise!Next]_Promise!vars
    <2>1. target[r] \in WorkflowIds
      BY <1>3 DEF Advance, IndInv, RequestsOK
    <2>2. /\ \/ Move(target[r], "REFUND_PROCESSED", "system")
             \/ UNCHANGED status
          /\ UNCHANGED <<exitLock, gateway, stored>>
      BY <1>3 DEF Advance
    <2>3. QED
      BY <2>1, <2>2, MoveAdvances, Stutter
  <1>4. ASSUME NEW w \in WorkflowIds,
               \/ ScheduleInspection(w) \/ ConfirmDamage(w) \/ StallOne(w)
               \/ \E amount \in Damages : SubmitReport(w, amount)
        PROVE  Promise!Next
    BY <1>4, MoveAdvances
    DEF ScheduleInspection, ConfirmDamage, StallOne, SubmitReport
  <1>5. ASSUME NEW w \in WorkflowIds, GatewaySettles(w)
        PROVE  [Promise!Next]_Promise!vars
    <2>1. PICK s : gateway' = [gateway EXCEPT ![w] = s]
      BY <1>5 DEF GatewaySettles
    <2>2. /\ status[w] \in Settled /\ gateway[w] # "SUCCEEDED"
          /\ UNCHANGED <<status, exitLock, stored>>
      BY <1>5 DEF GatewaySettles, IndInv, MoneyOK
    <2>3. QED
      BY <2>1, <2>2, GatewayPays DEF Promise!Next
  <1>6. ASSUME NEW r \in Requests, CallGateway(r) \/ CallFails(r)
        PROVE  [Promise!Next]_Promise!vars
    <2>1. PICK w \in WorkflowIds : w = target[r] /\ status[w] \in Settled
      BY <1>6 DEF CallGateway, CallFails, IndInv, RequestsOK, Paying
    <2>2. PICK s \in Outcomes(w) \cup {gateway[w]} :
            gateway' = [gateway EXCEPT ![w] = s]
      BY <1>6, <2>1 DEF CallGateway, CallFails
    <2>3. UNCHANGED <<status, exitLock, stored>>
      BY <1>6 DEF CallGateway, CallFails
    <2>4. QED
      BY <2>1, <2>2, <2>3, CallPays DEF Promise!Next
  <1>7. ASSUME NEW r \in Requests, StorePdf(r) PROVE Promise!Next
    BY <1>7, StoreIssues DEF Promise!Next
  <1>8. ASSUME NEW r \in Requests, IssueCommit(r) PROVE Promise!Next
    BY <1>8, CommitCompletes DEF Promise!Next
  <1>9. ASSUME \/ \E c \in Contracts : SignContract(c) \/ EndContract(c)
               \/ \E r \in Requests, w \in WorkflowIds :
                    Attempt(r, w) \/ EnsureCreates(r, w) \/ EnsureFinds(r, w)
               \/ \E r \in Requests :
                    \/ RecordFailure(r) \/ ReadPayment(r) \/ RecordAnswer(r)
                    \/ Hold(r) \/ StoreRefused(r) \/ Crash(r)
               \/ UNCHANGED vars
        PROVE  UNCHANGED Promise!vars
    BY <1>9, Stutter
    DEF SignContract, EndContract, Attempt, EnsureCreates, EnsureFinds,
        RecordFailure, ReadPayment, RecordAnswer, Hold, StoreRefused, Crash,
        vars
  <1>10. QED
    BY <1>1, <1>2, <1>3, <1>4, <1>5, <1>6, <1>7, <1>8, <1>9
    DEF Next, Users, Jobs, Environment, Dispatcher, Settlement, Settle

\* Run B2 keeps the abstract promise: one open exit and one lock per property,
\* money only after the confirmation, a certificate only after the money; late
\* answers, deaths and concurrent settlements included.
THEOREM ServiceKeepsPromise == Spec => ImplementsPromise
  <1>1. IndInv /\ [Next]_vars => [Promise!Next]_Promise!vars
    BY StepImplements
  <1>2. QED
    BY InitImplements, Invariance, <1>1, PTL
    DEF Spec, ImplementsPromise, Promise!Spec

-----------------------------------------------------------------------------
\* ProceededOnSucceeded, which does not hold (MCB2ExitLateAnswer), fails only
\* because a settlement may ask the gateway while the answer another got for
\* the same exit is not recorded yet.
Orderly ==
  \A q, r \in Requests :
    CallGateway(r) /\ pc[q] = "record" => target[q] # target[r]

OrderlySpec == Init /\ [][Next /\ Orderly]_vars

\* The one unrecorded answer of an exit is no older than its payment row.
AnswersInOrder ==
  /\ ProceededOnSucceeded
  /\ \A r \in Requests :
       pc[r] = "record" /\ payment[target[r]] = "SUCCEEDED" =>
         answer[r] = "SUCCEEDED"
  /\ \A q, r \in Requests :
       pc[q] = "record" /\ pc[r] = "record" /\ target[q] = target[r] => q = r

\* An answer is as new as the gateway's record, and nobody writes in between.
LEMMA OrderStep ==
  IndInv /\ AnswersInOrder /\ Orderly /\ [Next]_vars => AnswersInOrder'
  <1> SUFFICES ASSUME IndInv, AnswersInOrder, Orderly, [Next]_vars
               PROVE  AnswersInOrder'
    OBVIOUS
  <1>0. /\ status \in [WorkflowIds -> WorkflowStates \cup {"none"}]
        /\ payment \in [WorkflowIds -> PaymentStatuses \cup {"none"}]
        /\ gateway \in [WorkflowIds -> PaymentStatuses \cup {"none"}]
        /\ pc \in [Requests -> Steps]
        /\ target \in [Requests -> WorkflowIds \cup {Nobody}]
        /\ answer \in [Requests -> PaymentStatuses \cup {"none"}]
        /\ RequestsOK
        /\ MoneyOK
        /\ AnswersInOrder
    BY DEF IndInv, TypeOK
  <1> USE <1>0
      DEF outbox, columns, outside, requests, Goto, Finish, AnswersInOrder,
          ProceededOnSucceeded
  <1>1. ASSUME NEW w \in WorkflowIds, NEW deposit \in Deposits,
               Initiate(w, deposit)
        PROVE  AnswersInOrder'
    BY <1>1 DEF Initiate
  <1>2. ASSUME NEW w \in WorkflowIds,
               \/ ScheduleInspection(w) \/ ConfirmDamage(w) \/ StallOne(w)
               \/ \E amount \in Damages : SubmitReport(w, amount)
        PROVE  AnswersInOrder'
    BY <1>2, Origins
    DEF ScheduleInspection, ConfirmDamage, StallOne, SubmitReport, Move
  <1>3. ASSUME NEW r \in Requests, RecordSuccess(r)
        PROVE  AnswersInOrder'
    BY <1>3, Origins DEF RecordSuccess, Advanced, Move
  <1>4. ASSUME NEW w \in WorkflowIds, NEW r \in Requests, EnsureCreates(r, w)
        PROVE  AnswersInOrder'
    BY <1>4 DEF EnsureCreates
  <1>5. ASSUME NEW w \in WorkflowIds, NEW r \in Requests,
               Attempt(r, w) \/ EnsureFinds(r, w)
        PROVE  AnswersInOrder'
    BY <1>5 DEF Attempt, EnsureFinds
  <1>6. ASSUME NEW r \in Requests, CallGateway(r)
        PROVE  AnswersInOrder'
    <2>1. \A q \in Requests : pc[q] = "record" => target[q] # target[r]
      BY <1>6 DEF Orderly
    <2>2. payment[target[r]] = "SUCCEEDED" => answer'[r] = "SUCCEEDED"
      BY <1>6 DEF CallGateway, Outcomes, RequestsOK, MoneyOK
    <2>3. QED
      BY <1>6, <2>1, <2>2 DEF CallGateway
  <1>7. ASSUME NEW r \in Requests, RecordAnswer(r)
        PROVE  AnswersInOrder'
    BY <1>7 DEF RecordAnswer, RequestsOK
  <1>8. ASSUME NEW r \in Requests, Advance(r)
        PROVE  AnswersInOrder'
    BY <1>8, Origins DEF Advance, MayAdvance, Move
  <1>9. ASSUME NEW r \in Requests, IssueCommit(r)
        PROVE  AnswersInOrder'
    BY <1>9 DEF IssueCommit, RequestsOK
  <1>10. ASSUME NEW r \in Requests,
               \/ RecordFailure(r) \/ ReadPayment(r) \/ CallFails(r)
               \/ Hold(r) \/ StorePdf(r) \/ StoreRefused(r) \/ Crash(r)
        PROVE  AnswersInOrder'
    BY <1>10
    DEF RecordFailure, ReadPayment, CallFails, Hold, StorePdf, StoreRefused,
        Crash
  <1>11. CASE UNCHANGED <<status, payment, pc, target, answer>>
    BY <1>11
  <1>12. ASSUME \/ \E c \in Contracts : SignContract(c) \/ EndContract(c)
                \/ \E w \in WorkflowIds : GatewaySettles(w)
                \/ UNCHANGED vars
         PROVE  AnswersInOrder'
    BY <1>11, <1>12 DEF SignContract, EndContract, GatewaySettles, vars
  <1> HIDE <1>0 DEF AnswersInOrder, ProceededOnSucceeded, Goto, Finish
  <1>13. CASE Users
    BY <1>1, <1>2, <1>4, <1>5, <1>13 DEF Users, Settle
  <1>14. CASE Jobs
    BY <1>2, <1>5, <1>14 DEF Jobs
  <1>15. CASE Environment
    BY <1>10, <1>12, <1>15 DEF Environment
  <1>16. ASSUME NEW r \in Requests, Dispatcher(r) \/ Settlement(r)
         PROVE  AnswersInOrder'
    BY <1>3, <1>6, <1>7, <1>8, <1>9, <1>10, <1>16 DEF Dispatcher, Settlement
  <1>17. QED
    BY <1>12, <1>13, <1>14, <1>15, <1>16 DEF Next

\* Where no settlement asks the gateway while another's answer for the same exit
\* is unrecorded, an exit past DAMAGE_CONFIRMED has a SUCCEEDED payment row,
\* deaths, failed calls and repeated settlements included.
THEOREM OrderlyRowIsTrue == OrderlySpec => []ProceededOnSucceeded
  <1>1. Init => AnswersInOrder
    BY DEF Init, AnswersInOrder, ProceededOnSucceeded
  <1>2. IndInv /\ AnswersInOrder /\ [Next /\ Orderly]_vars => AnswersInOrder'
    <2> SUFFICES ASSUME IndInv, AnswersInOrder, [Next /\ Orderly]_vars
                 PROVE  AnswersInOrder'
      OBVIOUS
    <2>1. CASE UNCHANGED vars
      BY <2>1
      DEF vars, requests, AnswersInOrder, ProceededOnSucceeded
    <2>2. CASE Next /\ Orderly
      BY <2>2, OrderStep
    <2>3. QED
      BY <2>1, <2>2
  <1>3. [Next /\ Orderly]_vars => [Next]_vars
    OBVIOUS
  <1>4. AnswersInOrder => ProceededOnSucceeded
    BY DEF AnswersInOrder
  <1>5. OrderlySpec => Spec
    BY <1>3, PTL DEF OrderlySpec, Spec
  <1>6. QED
    BY <1>1, <1>2, <1>4, <1>5, Invariance, PTL DEF OrderlySpec

-----------------------------------------------------------------------------
\* The two dead ends of Stranded, once no request is under way that could still
\* lead out: nobody carries an answer for the row, or holds the row of the PDF.
Answering == {"ensured", "call", "record", "commit"}

DeadEnd(w) ==
  /\ status[w] = "REFUND_PROCESSED"
  /\ \/ w \in stored /\ ~ Locked(w)
     \/ /\ payment[w] # "SUCCEEDED"
        /\ \A r \in Requests : pc[r] \in Answering => target[r] # w

\* Each step, of any request, leaves the exit where it is.
LEMMA DeadEndStep ==
  ASSUME IndInv, [Next]_vars, NEW w \in WorkflowIds, DeadEnd(w)
  PROVE  DeadEnd(w)'
  <1>0. /\ status[w] = "REFUND_PROCESSED"
        /\ \A r \in Requests : pc[r] = "commit" => target[r] # w
        /\ \/ w \in stored
           \/ /\ payment[w] # "SUCCEEDED"
              /\ \A r \in Requests : pc[r] \in Answering => target[r] # w
        /\ status \in [WorkflowIds -> WorkflowStates \cup {"none"}]
        /\ payment \in [WorkflowIds -> PaymentStatuses \cup {"none"}]
        /\ pc \in [Requests -> Steps]
        /\ target \in [Requests -> WorkflowIds \cup {Nobody}]
    BY DEF DeadEnd, Locked, Answering, IndInv, TypeOK
  <1> USE <1>0
      DEF DeadEnd, Locked, Answering, outbox, columns, outside, requests, Goto,
          Finish
  <1>1. ASSUME NEW r \in Requests, RecordAnswer(r) PROVE DeadEnd(w)'
    BY <1>1 DEF RecordAnswer
  <1>2. ASSUME NEW r \in Requests, StorePdf(r) PROVE DeadEnd(w)'
    BY <1>2 DEF StorePdf, MayIssue
  <1>3. ASSUME NEW r \in Requests, IssueCommit(r) PROVE DeadEnd(w)'
    BY <1>3 DEF IssueCommit
  <1>4. ASSUME NEW r \in Requests, NEW v \in WorkflowIds,
               EnsureCreates(r, v) \/ EnsureFinds(r, v) \/ Attempt(r, v)
        PROVE  DeadEnd(w)'
    BY <1>4 DEF EnsureCreates, EnsureFinds, Attempt
  <1>5. ASSUME NEW r \in Requests,
               \/ ReadPayment(r) \/ CallGateway(r) \/ CallFails(r)
               \/ Hold(r) \/ StoreRefused(r) \/ Crash(r)
        PROVE  DeadEnd(w)'
    BY <1>5
    DEF ReadPayment, CallGateway, CallFails, Hold, StoreRefused, Crash
  <1>6. ASSUME NEW r \in Requests,
               Advance(r) \/ RecordSuccess(r) \/ RecordFailure(r)
        PROVE  DeadEnd(w)'
    BY <1>6 DEF Advance, RecordSuccess, Advanced, RecordFailure, Move
  <1>7. ASSUME NEW v \in WorkflowIds,
               \/ ScheduleInspection(v) \/ ConfirmDamage(v) \/ StallOne(v)
               \/ \E amount \in Damages : SubmitReport(v, amount)
               \/ \E deposit \in Deposits : Initiate(v, deposit)
        PROVE  DeadEnd(w)'
    BY <1>7, Origins
    DEF ScheduleInspection, ConfirmDamage, StallOne, SubmitReport, Initiate,
        Move
  <1>8. ASSUME \/ \E c \in Contracts : SignContract(c) \/ EndContract(c)
               \/ \E v \in WorkflowIds : GatewaySettles(v)
               \/ UNCHANGED vars
        PROVE  DeadEnd(w)'
    BY <1>8 DEF SignContract, EndContract, GatewaySettles, vars
  <1> HIDE <1>0 DEF DeadEnd, Locked, Goto, Finish
  <1>9. CASE Users
    BY <1>4, <1>7, <1>9 DEF Users, Settle
  <1>10. CASE Jobs
    BY <1>4, <1>7, <1>10 DEF Jobs
  <1>11. CASE Environment
    BY <1>5, <1>8, <1>11 DEF Environment
  <1>12. ASSUME NEW r \in Requests, Dispatcher(r) \/ Settlement(r)
         PROVE  DeadEnd(w)'
    BY <1>1, <1>2, <1>3, <1>5, <1>6, <1>12 DEF Dispatcher, Settlement
  <1>13. QED
    BY <1>8, <1>9, <1>10, <1>11, <1>12 DEF Next

\* An exit in one of the two dead ends stays there whatever anybody does, also
\* by further settlements: paid, and never certified or completed.
THEOREM DeadEndIsForGood ==
  Spec => [][\A w \in WorkflowIds : DeadEnd(w) => DeadEnd(w)']_vars
  <1>1. IndInv /\ [Next]_vars =>
          \A w \in WorkflowIds : DeadEnd(w) => DeadEnd(w)'
    BY DeadEndStep
  <1>2. QED
    BY Invariance, <1>1, PTL DEF Spec

=============================================================================
