-------------------------- MODULE B3Outbox_proofs --------------------------
(***************************************************************************)
(* Proofs about B3Outbox for any number of events and dispatchers, any     *)
(* number of allowed attempts and any number of crashes.                   *)
(***************************************************************************)
EXTENDS B3Outbox, TLAPS

\* An empty outbox satisfies the inductive invariant.
LEMMA InitInd == Init => IndInv
  BY B3OutboxAssumption
  DEF Init, IndInv, TypeOK, DispatchersExclude, SentWasDelivered, VerdictsOK,
      AttemptsOK, InFlight, NoOutcome, Statuses

\* Every step writes columns and dispatcher locals of their types.
LEMMA TypeStep == IndInv /\ [Next]_vars => TypeOK'
  <1> SUFFICES ASSUME IndInv, [Next]_vars PROVE TypeOK'
    OBVIOUS
  <1> USE B3OutboxAssumption
      DEF IndInv, TypeOK, rows, NoOutcome, Statuses, AttemptsOK,
          DispatchersExclude
  <1>1. ASSUME NEW e \in Events, Enqueue(e)
        PROVE TypeOK'
    BY <1>1 DEF Enqueue
  <1>2. ASSUME NEW e \in Events, DropFresh(e)
        PROVE TypeOK'
    BY <1>2 DEF DropFresh
  <1>3. ASSUME NEW e \in Events, BackoffElapses(e)
        PROVE TypeOK'
    BY <1>3 DEF BackoffElapses
  <1>4. ASSUME NEW k \in Dispatchers, NEW e \in Events, LockEvent(k, e)
        PROVE TypeOK'
    BY <1>4 DEF LockEvent
  <1>5. ASSUME NEW k \in Dispatchers, LockDue(k)
        PROVE TypeOK'
    BY <1>5 DEF LockDue
  <1>6. ASSUME NEW k \in Dispatchers, NEW e \in Events, Publish(k, e)
        PROVE TypeOK'
    <2>1. outcome' \in [Dispatchers -> [Events -> {"none", "sent", "failed"}]]
      <3>1. PICK v \in {"sent", "failed"} : outcome' = [outcome EXCEPT ![k][e] = v]
        BY <1>6 DEF Publish
      <3>2. QED
        BY <3>1
    <2>2. QED
      BY <1>6, <2>1 DEF Publish
  <1>7. ASSUME NEW k \in Dispatchers, Commit(k)
        PROVE TypeOK'
    BY <1>7 DEF Commit, Sent, Failed, Exhausted
  <1>8. ASSUME NEW k \in Dispatchers, Crash(k)
        PROVE TypeOK'
    BY <1>8 DEF Crash
  <1>9. CASE UNCHANGED vars
    BY <1>9 DEF vars, Held
  <1>10. QED
    BY <1>1, <1>2, <1>3, <1>4, <1>5, <1>6, <1>7, <1>8, <1>9 DEF Next, Dispatch

\* Every step keeps two dispatchers off one row.
LEMMA ExcludeStep == IndInv /\ [Next]_vars => DispatchersExclude'
  <1> SUFFICES ASSUME IndInv, [Next]_vars PROVE DispatchersExclude'
    OBVIOUS
  <1> USE B3OutboxAssumption
      DEF IndInv, TypeOK, DispatchersExclude, rows, NoOutcome, Held
  <1>1. ASSUME NEW e \in Events, Enqueue(e)
        PROVE DispatchersExclude'
    BY <1>1 DEF Enqueue
  <1>2. ASSUME NEW e \in Events, DropFresh(e)
        PROVE DispatchersExclude'
    BY <1>2 DEF DropFresh
  <1>3. ASSUME NEW e \in Events, BackoffElapses(e)
        PROVE DispatchersExclude'
    BY <1>3 DEF BackoffElapses
  <1>4. ASSUME NEW k \in Dispatchers, NEW e \in Events, LockEvent(k, e)
        PROVE DispatchersExclude'
    BY <1>4 DEF LockEvent
  <1>5. ASSUME NEW k \in Dispatchers, LockDue(k)
        PROVE DispatchersExclude'
    BY <1>5 DEF LockDue
  <1>6. ASSUME NEW k \in Dispatchers, NEW e \in Events, Publish(k, e)
        PROVE DispatchersExclude'
    BY <1>6 DEF Publish
  <1>7. ASSUME NEW k \in Dispatchers, Commit(k)
        PROVE DispatchersExclude'
    BY <1>7 DEF Commit, Sent, Failed, Exhausted
  <1>8. ASSUME NEW k \in Dispatchers, Crash(k)
        PROVE DispatchersExclude'
    BY <1>8 DEF Crash
  <1>9. CASE UNCHANGED vars
    BY <1>9 DEF vars, Held
  <1>10. QED
    BY <1>1, <1>2, <1>3, <1>4, <1>5, <1>6, <1>7, <1>8, <1>9 DEF Next, Dispatch

\* Every step marks SENT only what the broker took.
LEMMA SentStep == IndInv /\ [Next]_vars => SentWasDelivered'
  <1> SUFFICES ASSUME IndInv, [Next]_vars PROVE SentWasDelivered'
    OBVIOUS
  <1> USE B3OutboxAssumption
      DEF IndInv, TypeOK, SentWasDelivered, rows, NoOutcome, VerdictsOK
  <1>1. ASSUME NEW e \in Events, Enqueue(e)
        PROVE SentWasDelivered'
    BY <1>1 DEF Enqueue
  <1>2. ASSUME NEW e \in Events, DropFresh(e)
        PROVE SentWasDelivered'
    BY <1>2 DEF DropFresh
  <1>3. ASSUME NEW e \in Events, BackoffElapses(e)
        PROVE SentWasDelivered'
    BY <1>3 DEF BackoffElapses
  <1>4. ASSUME NEW k \in Dispatchers, NEW e \in Events, LockEvent(k, e)
        PROVE SentWasDelivered'
    BY <1>4 DEF LockEvent
  <1>5. ASSUME NEW k \in Dispatchers, LockDue(k)
        PROVE SentWasDelivered'
    BY <1>5 DEF LockDue
  <1>6. ASSUME NEW k \in Dispatchers, NEW e \in Events, Publish(k, e)
        PROVE SentWasDelivered'
    BY <1>6 DEF Publish
  <1>7. ASSUME NEW k \in Dispatchers, Commit(k)
        PROVE SentWasDelivered'
    BY <1>7 DEF Commit, Sent, Failed, Exhausted
  <1>8. ASSUME NEW k \in Dispatchers, Crash(k)
        PROVE SentWasDelivered'
    BY <1>8 DEF Crash
  <1>9. CASE UNCHANGED vars
    BY <1>9 DEF vars, Held
  <1>10. QED
    BY <1>1, <1>2, <1>3, <1>4, <1>5, <1>6, <1>7, <1>8, <1>9 DEF Next, Dispatch

\* Every step keeps a dispatcher's verdicts to rows it holds and true to the
\* broker.
LEMMA VerdictsStep == IndInv /\ [Next]_vars => VerdictsOK'
  <1> SUFFICES ASSUME IndInv, [Next]_vars PROVE VerdictsOK'
    OBVIOUS
  <1> USE B3OutboxAssumption
      DEF IndInv, TypeOK, VerdictsOK, rows, NoOutcome, DispatchersExclude
  <1>1. ASSUME NEW e \in Events, Enqueue(e)
        PROVE VerdictsOK'
    BY <1>1 DEF Enqueue
  <1>2. ASSUME NEW e \in Events, DropFresh(e)
        PROVE VerdictsOK'
    BY <1>2 DEF DropFresh
  <1>3. ASSUME NEW e \in Events, BackoffElapses(e)
        PROVE VerdictsOK'
    BY <1>3 DEF BackoffElapses
  <1>4. ASSUME NEW k \in Dispatchers, NEW e \in Events, LockEvent(k, e)
        PROVE VerdictsOK'
    BY <1>4 DEF LockEvent
  <1>5. ASSUME NEW k \in Dispatchers, LockDue(k)
        PROVE VerdictsOK'
    BY <1>5 DEF LockDue
  <1>6. ASSUME NEW k \in Dispatchers, NEW e \in Events, Publish(k, e)
        PROVE VerdictsOK'
    BY <1>6 DEF Publish
  <1>7. ASSUME NEW k \in Dispatchers, Commit(k)
        PROVE VerdictsOK'
    BY <1>7 DEF Commit, Sent, Failed, Exhausted
  <1>8. ASSUME NEW k \in Dispatchers, Crash(k)
        PROVE VerdictsOK'
    BY <1>8 DEF Crash
  <1>9. CASE UNCHANGED vars
    BY <1>9 DEF vars, Held
  <1>10. QED
    BY <1>1, <1>2, <1>3, <1>4, <1>5, <1>6, <1>7, <1>8, <1>9 DEF Next, Dispatch

\* Every step counts each broker call in the row, or in the crash that lost it.
LEMMA AttemptsStep == IndInv /\ [Next]_vars => AttemptsOK'
  <1> SUFFICES ASSUME IndInv, [Next]_vars PROVE AttemptsOK'
    OBVIOUS
  <1> USE B3OutboxAssumption
      DEF IndInv, TypeOK, AttemptsOK, rows, NoOutcome, DispatchersExclude,
          VerdictsOK, InFlight, Statuses
  <1>1. ASSUME NEW e \in Events, Enqueue(e)
        PROVE AttemptsOK'
    BY <1>1 DEF Enqueue
  <1>2. ASSUME NEW e \in Events, DropFresh(e)
        PROVE AttemptsOK'
    BY <1>2 DEF DropFresh
  <1>3. ASSUME NEW e \in Events, BackoffElapses(e)
        PROVE AttemptsOK'
    BY <1>3 DEF BackoffElapses
  <1>4. ASSUME NEW k \in Dispatchers, NEW e \in Events, LockEvent(k, e)
        PROVE AttemptsOK'
    BY <1>4 DEF LockEvent
  <1>5. ASSUME NEW k \in Dispatchers, LockDue(k)
        PROVE AttemptsOK'
    BY <1>5 DEF LockDue
  <1>6. ASSUME NEW k \in Dispatchers, NEW e \in Events, Publish(k, e)
        PROVE AttemptsOK'
    BY <1>6 DEF Publish
  <1>7. ASSUME NEW k \in Dispatchers, Commit(k)
        PROVE AttemptsOK'
    BY <1>7 DEF Commit, Sent, Failed, Exhausted
  <1>8. ASSUME NEW k \in Dispatchers, Crash(k)
        PROVE AttemptsOK'
    BY <1>8 DEF Crash
  <1>9. CASE UNCHANGED vars
    BY <1>9 DEF vars, Held
  <1>10. QED
    BY <1>1, <1>2, <1>3, <1>4, <1>5, <1>6, <1>7, <1>8, <1>9 DEF Next, Dispatch

\* The inductive invariant holds in every reachable state.
THEOREM Invariance == Spec => []IndInv
  <1>1. IndInv /\ [Next]_vars =>
          (alert = {e \in Events : row[e] = "DEAD_LETTER"})'
    <2> SUFFICES ASSUME IndInv, [Next]_vars
                 PROVE  (alert = {e \in Events : row[e] = "DEAD_LETTER"})'
      OBVIOUS
    <2>1. ASSUME NEW k \in Dispatchers, Commit(k)
          PROVE  (alert = {e \in Events : row[e] = "DEAD_LETTER"})'
      BY <2>1
      DEF Commit, Sent, Failed, Exhausted, IndInv, TypeOK, DispatchersExclude
    <2>2. ASSUME NEW e \in Events, Enqueue(e)
          PROVE  (alert = {f \in Events : row[f] = "DEAD_LETTER"})'
      BY <2>2 DEF Enqueue, IndInv, TypeOK
    <2>3. CASE UNCHANGED <<row, alert>>
      BY <2>3 DEF IndInv
    <2>4. QED
      BY <2>1, <2>2, <2>3
      DEF Next, Dispatch, vars, rows, DropFresh, BackoffElapses, LockEvent,
          LockDue, Publish, Crash
  <1>2. IndInv /\ [Next]_vars => IndInv'
    BY <1>1, TypeStep, ExcludeStep, SentStep, VerdictsStep, AttemptsStep
    DEF IndInv
  <1>3. QED
    BY InitInd, <1>2, PTL DEF Spec

\* Type correctness of the outbox.
THEOREM TypeCorrect == Spec => []TypeOK
  BY Invariance, PTL DEF IndInv

\* Parallel sweeps are safe: SKIP LOCKED keeps two dispatchers off one event.
THEOREM ParallelSweepsExclude == Spec => []DispatchersExclude
  BY Invariance, PTL DEF IndInv

\* A row marked SENT was received by the broker.
THEOREM SentIsTrue == Spec => []SentWasDelivered
  BY Invariance, PTL DEF IndInv

\* An event is given up after all its attempts and never without an alert.
THEOREM GivenUpIsReported == Spec => []GivenUpMeansAlert
  <1>1. IndInv => GivenUpMeansAlert
    BY B3OutboxAssumption DEF IndInv, TypeOK, AttemptsOK, GivenUpMeansAlert
  <1>2. QED
    BY Invariance, <1>1, PTL

\* The broker sees at most MaxAttempts calls for an event, plus the crashes.
THEOREM BrokerCallsBounded == Spec => []AttemptsAreBounded
  <1>1. IndInv => AttemptsAreBounded
    <2> SUFFICES ASSUME IndInv, NEW e \in Events
                 PROVE  calls[e] <= MaxAttempts + crashes
      BY DEF AttemptsAreBounded
    <2>1. CASE InFlight(e)
      <3>1. row[e] = "PENDING"
        BY <2>1 DEF InFlight, IndInv, VerdictsOK, DispatchersExclude
      <3>2. QED
        BY <3>1, B3OutboxAssumption DEF IndInv, TypeOK, AttemptsOK
    <2>2. CASE ~ InFlight(e)
      BY <2>2, B3OutboxAssumption DEF IndInv, TypeOK, AttemptsOK
    <2>3. QED
      BY <2>1, <2>2
  <1>2. QED
    BY Invariance, <1>1, PTL

\* Rows, broker, alerts and attempts agree, for any number of dispatchers.
THEOREM OutboxStaysRight == Spec => []OutboxAgrees
  BY TypeCorrect, ParallelSweepsExclude, SentIsTrue, GivenUpIsReported,
     BrokerCallsBounded, PTL
  DEF OutboxAgrees
=============================================================================
