-------------------------- MODULE A2Payout_proofs --------------------------
(***************************************************************************)
(* Proofs about A2Payout, for any number of exits and keys and for every   *)
(* amount: the gateway pays an exit once, a payout under way freezes its   *)
(* exit, and a certificate follows a payment in full.                      *)
(*                                                                         *)
(* All three hold whatever the gateway answers: where it turns down a key  *)
(* it has accepted, "denied" remembers the key, and the last two say what  *)
(* is left of them for it.                                                 *)
(* PaidIsRecorded is a liveness property and stays with TLC.               *)
(***************************************************************************)
EXTENDS A2Payout, TLAPS

Busy == {"calling", "rejected", "PENDING"} \cup Outcomes

\* A settlement owns its key, for good, and the gateway knows whose it is.
KeysOK ==
  /\ \A v, w \in Workflows : key[v] = key[w] /\ key[v] # Nobody => v = w
  /\ \A w \in Workflows :
       state[w] \in {"SETTLEMENT_PROCESSING", "NOC_ISSUED"} => key[w] # Nobody
  /\ \A k \in Keys : payee[k] # Nobody => key[payee[k]] = k

\* What the gateway keeps of a payout.
LedgerOK ==
  \A k \in Keys :
    /\ payee[k] = Nobody <=> payout[k] = "none"
    /\ payout[k] = "none" => original[k] = "none"
    /\ payout[k] = "PENDING" => original[k] = "PENDING"
    /\ payout[k] \in Outcomes => original[k] \in {"PENDING", payout[k]}

\* A dispatch past its locks works on an exit in PROCESSING, and what it heard
\* is what the gateway said.
DispatchOK ==
  \A w \in Workflows :
    /\ phase[w] \in Busy => state[w] = "SETTLEMENT_PROCESSING"
    /\ phase[w] \in Outcomes \cup {"PENDING"} => original[key[w]] = phase[w]

\* A webhook tells the truth about the settlement it has locked.
WebhooksOK ==
  /\ \A e \in events : payout[e[1]] = e[2]
  /\ \A w \in Workflows : hook[w] # Nobody =>
       /\ key[w] = hook[w][1]
       /\ payout[hook[w][1]] = hook[w][2]

\* A certified exit's key has been paid.
CertifiedOK ==
  \A w \in Workflows :
    state[w] = "NOC_ISSUED" => payout[key[w]] = "SUCCEEDED"

IndInv ==
  /\ TypeOK /\ KeysOK /\ LedgerOK /\ DispatchOK /\ WebhooksOK /\ CertifiedOK
  /\ PayingIsFrozen

-----------------------------------------------------------------------------
\* The table read backwards: where each command may be given.
LEMMA Rows ==
  ASSUME NEW w \in Workflows, NEW a, NEW t, Enter(w, a, t), IndInv
  PROVE  /\ state' = [state EXCEPT ![w] = t]
         /\ a = "pay_deposit" => state[w] = "SETTLEMENT_PENDING"
         /\ a = "reopen_damage_review" => state[w] = "SETTLEMENT_PENDING"
         /\ a \in {"request_reinspection", "finalise_settlement"}
              => state[w] = "DAMAGE_REVIEW"
         /\ a = "cancel"
              => state[w] \notin {"SETTLEMENT_PROCESSING", "NOC_ISSUED"}
         /\ a = "settlement_failed" => state[w] = "SETTLEMENT_PROCESSING"
  BY DEF Enter, Table, Row, IndInv, TypeOK

\* A dispatch past its locks has a key.
LEMMA Working ==
  ASSUME IndInv, NEW w \in Workflows, phase[w] \in Busy
  PROVE  /\ state[w] = "SETTLEMENT_PROCESSING"
         /\ key[w] \in Keys
  BY A2PayoutAssumption DEF IndInv, TypeOK, DispatchOK, KeysOK

\* What the gateway answers for a key it knows; a payout that succeeded at
\* once is still succeeded.
LEMMA Answered ==
  ASSUME IndInv, NEW k \in Keys, payout[k] # "none"
  PROVE  /\ original[k] \in Outcomes \cup {"PENDING"}
         /\ original[k] \in Outcomes => payout[k] = original[k]
  BY DEF IndInv, TypeOK, LedgerOK, Payouts, Outcomes

-----------------------------------------------------------------------------
\* No key, no payout, no dispatch: the initial state satisfies it.
LEMMA InitInd == Init => IndInv
  BY A2PayoutAssumption
  DEF Init, IndInv, TypeOK, Under, Payouts, Phases, Outcomes, Busy, KeysOK,
      LedgerOK, DispatchOK, WebhooksOK, CertifiedOK, PayingIsFrozen

\* Every step writes values of the columns' types.
LEMMA TypeStep == IndInv /\ [Next]_vars => TypeOK'
  <1> SUFFICES ASSUME IndInv, [Next]_vars PROVE TypeOK'
    OBVIOUS
  <1>0. TypeOK
    BY DEF IndInv, TypeOK
  <1> USE A2PayoutAssumption, <1>0
      DEF rows, gateway, history, TypeOK, Under, Payouts, Phases, Outcomes
  <1>1. ASSUME NEW w \in Workflows, NEW k \in Keys, PayDeposit(w, k)
        PROVE  TypeOK'
    BY <1>1, Rows DEF PayDeposit, KeyFor, KeyIsUnique
  <1>2. ASSUME NEW k \in Keys, Purge(k)
        PROVE  TypeOK'
    BY <1>2 DEF Purge
  <1>3. ASSUME NEW w \in Workflows, ReopenReview(w)
        PROVE  TypeOK'
    BY <1>3, Rows DEF ReopenReview, Command
  <1>4. ASSUME NEW w \in Workflows, RequestReinspection(w)
        PROVE  TypeOK'
    BY <1>4, Rows DEF RequestReinspection, Command
  <1>5. ASSUME NEW w \in Workflows, Cancel(w)
        PROVE  TypeOK'
    BY <1>5, Rows DEF Cancel, Command
  <1>6. ASSUME NEW w \in Workflows, NEW amount \in Refunds,
               Finalise(w, amount)
        PROVE  TypeOK'
    BY <1>6, Rows DEF Finalise
  <1>7. ASSUME Redrive
        PROVE  TypeOK'
    BY <1>7 DEF Redrive
  <1>8. ASSUME NEW w \in Workflows, LockWorkflow(w)
        PROVE  TypeOK'
    BY <1>8 DEF LockWorkflow
  <1>9. ASSUME NEW w \in Workflows, LockSettlement(w)
        PROVE  TypeOK'
    BY <1>9 DEF LockSettlement, ToDispatch
  <1>10. ASSUME NEW w \in Workflows, GiveUp(w)
        PROVE  TypeOK'
    BY <1>10 DEF GiveUp
  <1>11. ASSUME NEW w \in Workflows, Reject(w)
        PROVE  TypeOK'
    BY <1>11 DEF Reject
  <1>12. ASSUME NEW w \in Workflows, NEW answer \in Outcomes \cup {"PENDING"},
                Accept(w, answer)
        PROVE  TypeOK'
    BY <1>12, Working DEF Accept, Heard, Busy
  <1>13. ASSUME NEW w \in Workflows, Replay(w)
        PROVE  TypeOK'
    BY <1>13, Working, Answered DEF Replay, Heard, Busy
  <1>14. ASSUME NEW w \in Workflows, CommitDispatch(w)
        PROVE  TypeOK'
    <2>1. denied' \subseteq Keys
      BY <1>14, Working DEF CommitDispatch, RefusedPaid, Busy
    <2>2. QED
      BY <1>14, <2>1, Rows DEF CommitDispatch, Confirm, Fail, Referred
  <1>15. ASSUME Crash
        PROVE  TypeOK'
    BY <1>15 DEF Crash
  <1>16. ASSUME NEW k \in Keys, NEW outcome \in Outcomes, End(k, outcome)
        PROVE  TypeOK'
    BY <1>16 DEF End
  <1>17. ASSUME NEW e \in Keys \X Outcomes, NEW w \in Workflows, Find(e, w)
        PROVE  TypeOK'
    BY <1>17 DEF Find
  <1>18. ASSUME NEW e \in Keys \X Outcomes, Ignore(e)
        PROVE  TypeOK'
    BY <1>18 DEF Ignore
  <1>19. ASSUME NEW w \in Workflows, Handle(w)
        PROVE  TypeOK'
    BY <1>19, Rows DEF Handle, Confirm, Fail, Refuses
  <1>20. ASSUME NEW w \in Workflows, Victim(w)
        PROVE  TypeOK'
    BY <1>20 DEF Victim
  <1>21. CASE UNCHANGED vars
    BY <1>21 DEF vars, rows, gateway, history
  <1>22. QED
    BY <1>1, <1>2, <1>3, <1>4, <1>5, <1>6, <1>7, <1>8, <1>9, <1>10, <1>11,
       <1>12, <1>13, <1>14, <1>15, <1>16, <1>17, <1>18, <1>19, <1>20, <1>21
    DEF Next, Owner, Dispatching, Answer, Delivered, Ended, vars, rows,
        gateway, history

\* A click never changes the key of a settlement that has one, no other
\* settlement takes it, and the gateway enters an exit under its own key.
LEMMA KeysStep == IndInv /\ [Next]_vars => KeysOK'
  <1> SUFFICES ASSUME IndInv, [Next]_vars PROVE KeysOK'
    OBVIOUS
  <1>0. /\ state \in [Workflows -> Under]
        /\ key \in [Workflows -> Keys \cup {Nobody}]
        /\ payee \in [Keys -> Workflows \cup {Nobody}]
        /\ KeysOK
    BY DEF IndInv, TypeOK
  <1> USE A2PayoutAssumption, <1>0 DEF rows, gateway, history, KeysOK
  <1>1. ASSUME NEW w \in Workflows, NEW k \in Keys, PayDeposit(w, k)
        PROVE  KeysOK'
    BY <1>1, Rows DEF PayDeposit, KeyFor, KeyIsUnique
  <1>2. ASSUME NEW w \in Workflows, ReopenReview(w)
        PROVE  KeysOK'
    BY <1>2, Rows DEF ReopenReview, Command
  <1>3. ASSUME NEW w \in Workflows, RequestReinspection(w)
        PROVE  KeysOK'
    BY <1>3, Rows DEF RequestReinspection, Command
  <1>4. ASSUME NEW w \in Workflows, Cancel(w)
        PROVE  KeysOK'
    BY <1>4, Rows DEF Cancel, Command
  <1>5. ASSUME NEW w \in Workflows, NEW amount \in Refunds,
               Finalise(w, amount)
        PROVE  KeysOK'
    BY <1>5, Rows DEF Finalise
  <1>6. ASSUME NEW w \in Workflows, NEW answer \in Outcomes \cup {"PENDING"},
               Accept(w, answer)
        PROVE  KeysOK'
    BY <1>6, Working DEF Accept, Heard, Busy
  <1>7. ASSUME NEW w \in Workflows, CommitDispatch(w)
        PROVE  KeysOK'
    BY <1>7, Rows DEF CommitDispatch, Confirm, Fail, Referred
  <1>8. ASSUME NEW w \in Workflows, Handle(w)
        PROVE  KeysOK'
    BY <1>8, Rows DEF Handle, Confirm, Fail, Refuses
  <1>9. CASE UNCHANGED <<key, state, payee>>
    BY <1>9 DEF vars, rows, gateway, history
  <1>10. QED
    BY <1>1, <1>2, <1>3, <1>4, <1>5, <1>6, <1>7, <1>8, <1>9
    DEF Next, Owner, Dispatching, Answer, Delivered, Ended, vars, rows,
        gateway, history, Purge, Redrive, LockWorkflow, LockSettlement, ToDispatch,
        GiveUp, Reject, Replay, Heard, Busy, Crash, End, Find, Ignore, Victim

\* The gateway's first answer stays; a payout under way ends once.
LEMMA LedgerStep == IndInv /\ [Next]_vars => LedgerOK'
  <1> SUFFICES ASSUME IndInv, [Next]_vars PROVE LedgerOK'
    OBVIOUS
  <1>0. /\ payout \in [Keys -> Payouts]
        /\ original \in [Keys -> Payouts]
        /\ payee \in [Keys -> Workflows \cup {Nobody}]
        /\ LedgerOK
    BY DEF IndInv, TypeOK
  <1> USE A2PayoutAssumption, <1>0 DEF rows, gateway, history, LedgerOK, Outcomes
  <1>1. ASSUME NEW w \in Workflows, NEW answer \in Outcomes \cup {"PENDING"},
               Accept(w, answer)
        PROVE  LedgerOK'
    BY <1>1, Working DEF Accept, Heard, Busy
  <1>2. ASSUME NEW k \in Keys, NEW outcome \in Outcomes, End(k, outcome)
        PROVE  LedgerOK'
    BY <1>2 DEF End
  <1>3. CASE UNCHANGED gateway
    BY <1>3 DEF vars, rows, gateway, history
  <1>4. QED
    BY <1>1, <1>2, <1>3
    DEF Next, Owner, Dispatching, Answer, Delivered, Ended, vars, rows,
        gateway, history, PayDeposit, KeyFor, KeyIsUnique, Purge, ReopenReview,
        Command, RequestReinspection, Cancel, Finalise, Redrive, LockWorkflow,
        LockSettlement, ToDispatch, GiveUp, Reject, Replay, Heard, Busy,
        CommitDispatch, Confirm, Fail, Referred, Crash, Find, Ignore, Handle,
        Refuses, Victim

\* While a dispatch works nobody else moves its exit, and what it heard stays
\* what the gateway says under the key.
LEMMA DispatchStep == IndInv /\ [Next]_vars => DispatchOK'
  <1> SUFFICES ASSUME IndInv, [Next]_vars PROVE DispatchOK'
    OBVIOUS
  <1>0. /\ state \in [Workflows -> Under]
        /\ key \in [Workflows -> Keys \cup {Nobody}]
        /\ phase \in [Workflows -> Phases]
        /\ payout \in [Keys -> Payouts]
        /\ original \in [Keys -> Payouts]
        /\ DispatchOK /\ KeysOK /\ LedgerOK
    BY DEF IndInv, TypeOK
  <1> USE A2PayoutAssumption, <1>0
      DEF rows, gateway, history, DispatchOK, LedgerOK, KeysOK, Outcomes,
          Busy, WorkflowFree
  <1>1. ASSUME NEW w \in Workflows, NEW k \in Keys, PayDeposit(w, k)
        PROVE  DispatchOK'
    BY <1>1, Rows DEF PayDeposit, KeyFor, KeyIsUnique
  <1>2. ASSUME NEW w \in Workflows, ReopenReview(w)
        PROVE  DispatchOK'
    BY <1>2, Rows DEF ReopenReview, Command
  <1>3. ASSUME NEW w \in Workflows, RequestReinspection(w)
        PROVE  DispatchOK'
    BY <1>3, Rows DEF RequestReinspection, Command
  <1>4. ASSUME NEW w \in Workflows, Cancel(w)
        PROVE  DispatchOK'
    BY <1>4, Rows DEF Cancel, Command
  <1>5. ASSUME NEW w \in Workflows, NEW amount \in Refunds,
               Finalise(w, amount)
        PROVE  DispatchOK'
    BY <1>5, Rows DEF Finalise
  <1>6. ASSUME NEW w \in Workflows, LockWorkflow(w)
        PROVE  DispatchOK'
    BY <1>6 DEF LockWorkflow
  <1>7. ASSUME NEW w \in Workflows, LockSettlement(w)
        PROVE  DispatchOK'
    BY <1>7 DEF LockSettlement, ToDispatch
  <1>8. ASSUME NEW w \in Workflows, GiveUp(w)
        PROVE  DispatchOK'
    BY <1>8 DEF GiveUp
  <1>9. ASSUME NEW w \in Workflows, Reject(w)
        PROVE  DispatchOK'
    BY <1>9 DEF Reject
  <1>10. ASSUME NEW w \in Workflows, NEW answer \in Outcomes \cup {"PENDING"},
                Accept(w, answer)
        PROVE  DispatchOK'
    BY <1>10 DEF Accept, Heard, Busy
  <1>11. ASSUME NEW w \in Workflows, Replay(w)
        PROVE  DispatchOK'
    BY <1>11, Working, Answered DEF Replay, Heard, Busy
  <1>12. ASSUME NEW w \in Workflows, CommitDispatch(w)
        PROVE  DispatchOK'
    BY <1>12, Rows DEF CommitDispatch, Confirm, Fail, Referred
  <1>13. ASSUME Crash
        PROVE  DispatchOK'
    BY <1>13 DEF Crash
  <1>14. ASSUME NEW k \in Keys, NEW outcome \in Outcomes, End(k, outcome)
        PROVE  DispatchOK'
    BY <1>14 DEF End
  <1>15. ASSUME NEW w \in Workflows, Handle(w)
        PROVE  DispatchOK'
    BY <1>15, Rows DEF Handle, Confirm, Fail, Refuses
  <1>16. ASSUME NEW w \in Workflows, Victim(w)
        PROVE  DispatchOK'
    BY <1>16 DEF Victim
  <1>17. CASE UNCHANGED <<state, key, phase, payout, original>>
    BY <1>17 DEF vars, rows, gateway, history
  <1>18. QED
    BY <1>1, <1>2, <1>3, <1>4, <1>5, <1>6, <1>7, <1>8, <1>9, <1>10, <1>11,
       <1>12, <1>13, <1>14, <1>15, <1>16, <1>17
    DEF Next, Owner, Dispatching, Answer, Delivered, Ended, vars, rows,
        gateway, history, Purge, Redrive, Find, Ignore

\* An ended payout does not change, so a delayed or repeated webhook and the
\* settlement it found stay right.
LEMMA WebhooksStep == IndInv /\ [Next]_vars => WebhooksOK'
  <1> SUFFICES ASSUME IndInv, [Next]_vars PROVE WebhooksOK'
    OBVIOUS
  <1>0. /\ key \in [Workflows -> Keys \cup {Nobody}]
        /\ hook \in [Workflows -> (Keys \X Outcomes) \cup {Nobody}]
        /\ payout \in [Keys -> Payouts]
        /\ events \subseteq Keys \X Outcomes
        /\ WebhooksOK /\ KeysOK
    BY DEF IndInv, TypeOK
  <1> USE A2PayoutAssumption, <1>0
      DEF rows, gateway, history, WebhooksOK, KeysOK, Outcomes
  <1>1. ASSUME NEW w \in Workflows, NEW k \in Keys, PayDeposit(w, k)
        PROVE  WebhooksOK'
    BY <1>1, Rows DEF PayDeposit, KeyFor, KeyIsUnique
  <1>2. ASSUME NEW w \in Workflows, NEW answer \in Outcomes \cup {"PENDING"},
               Accept(w, answer)
        PROVE  WebhooksOK'
    BY <1>2 DEF Accept, Heard, Busy
  <1>3. ASSUME NEW k \in Keys, NEW outcome \in Outcomes, End(k, outcome)
        PROVE  WebhooksOK'
    BY <1>3 DEF End
  <1>4. ASSUME NEW e \in Keys \X Outcomes, NEW w \in Workflows, Find(e, w)
        PROVE  WebhooksOK'
    BY <1>4 DEF Find
  <1>5. ASSUME NEW e \in Keys \X Outcomes, Ignore(e)
        PROVE  WebhooksOK'
    BY <1>5 DEF Ignore
  <1>6. ASSUME NEW w \in Workflows, Handle(w)
        PROVE  WebhooksOK'
    BY <1>6, Rows DEF Handle, Confirm, Fail, Refuses
  <1>7. ASSUME NEW w \in Workflows, Victim(w)
        PROVE  WebhooksOK'
    BY <1>7 DEF Victim
  <1>8. CASE UNCHANGED <<key, hook, payout, events>>
    BY <1>8 DEF vars, rows, gateway, history
  <1>9. QED
    BY <1>1, <1>2, <1>3, <1>4, <1>5, <1>6, <1>7, <1>8
    DEF Next, Owner, Dispatching, Answer, Delivered, Ended, vars, rows,
        gateway, history, Purge, ReopenReview, Command, RequestReinspection, Cancel,
        Finalise, Redrive, LockWorkflow, LockSettlement, ToDispatch, GiveUp,
        Reject, Replay, Heard, Busy, CommitDispatch, Confirm, Fail, Referred,
        Crash

\* Every path to the certificate, answer, replay or webhook, has seen success.
LEMMA CertifiedStep == IndInv /\ [Next]_vars => CertifiedOK'
  <1> SUFFICES ASSUME IndInv, [Next]_vars PROVE CertifiedOK'
    OBVIOUS
  <1>0. /\ state \in [Workflows -> Under]
        /\ key \in [Workflows -> Keys \cup {Nobody}]
        /\ phase \in [Workflows -> Phases]
        /\ hook \in [Workflows -> (Keys \X Outcomes) \cup {Nobody}]
        /\ payout \in [Keys -> Payouts]
        /\ original \in [Keys -> Payouts]
        /\ CertifiedOK /\ KeysOK /\ LedgerOK /\ DispatchOK /\ WebhooksOK
    BY DEF IndInv, TypeOK
  <1> USE A2PayoutAssumption, <1>0
      DEF rows, gateway, history, CertifiedOK, KeysOK, LedgerOK, DispatchOK,
          WebhooksOK, Outcomes, Busy
  <1>1. ASSUME NEW w \in Workflows, NEW k \in Keys, PayDeposit(w, k)
        PROVE  CertifiedOK'
    BY <1>1, Rows DEF PayDeposit, KeyFor, KeyIsUnique
  <1>2. ASSUME NEW w \in Workflows, ReopenReview(w)
        PROVE  CertifiedOK'
    BY <1>2, Rows DEF ReopenReview, Command
  <1>3. ASSUME NEW w \in Workflows, RequestReinspection(w)
        PROVE  CertifiedOK'
    BY <1>3, Rows DEF RequestReinspection, Command
  <1>4. ASSUME NEW w \in Workflows, Cancel(w)
        PROVE  CertifiedOK'
    BY <1>4, Rows DEF Cancel, Command
  <1>5. ASSUME NEW w \in Workflows, NEW amount \in Refunds,
               Finalise(w, amount)
        PROVE  CertifiedOK'
    BY <1>5, Rows DEF Finalise
  <1>6. ASSUME NEW w \in Workflows, NEW answer \in Outcomes \cup {"PENDING"},
               Accept(w, answer)
        PROVE  CertifiedOK'
    BY <1>6 DEF Accept, Heard, Busy
  <1>7. ASSUME NEW w \in Workflows, CommitDispatch(w)
        PROVE  CertifiedOK'
        BY <1>7, Rows, Working, Answered
        DEF CommitDispatch, Confirm, Fail, Referred
  <1>8. ASSUME NEW k \in Keys, NEW outcome \in Outcomes, End(k, outcome)
        PROVE  CertifiedOK'
    BY <1>8 DEF End
  <1>9. ASSUME NEW w \in Workflows, Handle(w)
        PROVE  CertifiedOK'
    BY <1>9, Rows DEF Handle, Confirm, Fail, Refuses
  <1>10. CASE UNCHANGED <<state, key, payout>>
    BY <1>10 DEF vars, rows, gateway, history
  <1>11. QED
    BY <1>1, <1>2, <1>3, <1>4, <1>5, <1>6, <1>7, <1>8, <1>9, <1>10
    DEF Next, Owner, Dispatching, Answer, Delivered, Ended, vars, rows,
        gateway, history, Purge, Redrive, LockWorkflow, LockSettlement, ToDispatch,
        GiveUp, Reject, Replay, Heard, Busy, Crash, Find, Ignore, Victim

\* Nothing reviews, re-opens or cancels an exit whose payout is under way:
\* such a command needs a state the exit left and can only reach by a failure.
LEMMA FrozenStep == IndInv /\ [Next]_vars => PayingIsFrozen'
  <1> SUFFICES ASSUME IndInv, [Next]_vars PROVE PayingIsFrozen'
    OBVIOUS
  <1>0. /\ state \in [Workflows -> Under]
        /\ refund \in [Workflows -> Refunds]
        /\ key \in [Workflows -> Keys \cup {Nobody}]
        /\ phase \in [Workflows -> Phases]
        /\ hook \in [Workflows -> (Keys \X Outcomes) \cup {Nobody}]
        /\ payout \in [Keys -> Payouts]
        /\ original \in [Keys -> Payouts]
        /\ moved \in [Keys -> Refunds \cup {0}]
        /\ payee \in [Keys -> Workflows \cup {Nobody}]
        /\ PayingIsFrozen /\ KeysOK /\ LedgerOK /\ DispatchOK /\
           WebhooksOK
    BY DEF IndInv, TypeOK
  <1> USE A2PayoutAssumption, <1>0
      DEF rows, gateway, history, PayingIsFrozen, KeysOK, LedgerOK, DispatchOK,
          WebhooksOK, Outcomes, Busy
  <1>1. ASSUME NEW w \in Workflows, NEW k \in Keys, PayDeposit(w, k)
        PROVE  PayingIsFrozen'
    BY <1>1, Rows DEF PayDeposit, KeyFor, KeyIsUnique
  <1>2. ASSUME NEW w \in Workflows, ReopenReview(w)
        PROVE  PayingIsFrozen'
    BY <1>2, Rows DEF ReopenReview, Command
  <1>3. ASSUME NEW w \in Workflows, RequestReinspection(w)
        PROVE  PayingIsFrozen'
    BY <1>3, Rows DEF RequestReinspection, Command
  <1>4. ASSUME NEW w \in Workflows, Cancel(w)
        PROVE  PayingIsFrozen'
    BY <1>4, Rows DEF Cancel, Command
  <1>5. ASSUME NEW w \in Workflows, NEW amount \in Refunds,
               Finalise(w, amount)
        PROVE  PayingIsFrozen'
    BY <1>5, Rows DEF Finalise
  <1>6. ASSUME NEW w \in Workflows, NEW answer \in Outcomes \cup {"PENDING"},
               Accept(w, answer)
        PROVE  PayingIsFrozen'
    BY <1>6 DEF Accept, Heard, Busy
  <1>7. ASSUME NEW w \in Workflows, CommitDispatch(w)
        PROVE  PayingIsFrozen'
    <2>1. /\ state[w] = "SETTLEMENT_PROCESSING"
          /\ key[w] \in Keys
      BY <1>7, Working DEF CommitDispatch
    <2>2. \A k \in Keys : payee[k] = w => k = key[w]
      OBVIOUS
    <2>3. UNCHANGED <<refund, gateway>>
      BY <1>7 DEF CommitDispatch, Confirm, Fail
    <2>4. CASE state' = [state EXCEPT ![w] = "SETTLEMENT_PENDING"]
      <3>1. phase[w] \in {"FAILED", "rejected"}
        BY <1>7, <2>1, <2>4 DEF CommitDispatch, Confirm
      <3>2. phase[w] = "FAILED" => payout[key[w]] = "FAILED"
        BY <2>1, Answered
      <3>3. payout[key[w]] \in {"PENDING", "SUCCEEDED"} => key[w] \in denied'
        BY <1>7, <2>1, <3>1, <3>2 DEF CommitDispatch, RefusedPaid
      <3>4. denied \subseteq denied'
        BY <1>7 DEF CommitDispatch
      <3>5. QED
        BY <2>1, <2>2, <2>3, <2>4, <3>3, <3>4
    <2>5. CASE state' = [state EXCEPT ![w] = "NOC_ISSUED"]
      BY <1>7, <2>1, <2>3, <2>5 DEF CommitDispatch
    <2>6. CASE state' = state
      BY <1>7, <2>3, <2>6 DEF CommitDispatch
    <2>7. QED
      BY <1>7, <2>4, <2>5, <2>6, Rows DEF CommitDispatch, Confirm, Fail
  <1>8. ASSUME NEW k \in Keys, NEW outcome \in Outcomes, End(k, outcome)
        PROVE  PayingIsFrozen'
    BY <1>8 DEF End
  <1>9. ASSUME NEW w \in Workflows, Handle(w)
        PROVE  PayingIsFrozen'
    BY <1>9, Rows DEF Handle, Confirm, Fail, Refuses
  <1>10. CASE UNCHANGED <<state, refund, gateway, denied>>
    BY <1>10 DEF vars, rows, gateway, history
  <1>11. QED
    BY <1>1, <1>2, <1>3, <1>4, <1>5, <1>6, <1>7, <1>8, <1>9, <1>10
    DEF Next, Owner, Dispatching, Answer, Delivered, Ended, vars, rows,
        gateway, history, Purge, Redrive, LockWorkflow, LockSettlement, ToDispatch,
        GiveUp, Reject, Replay, Heard, Busy, Crash, Find, Ignore, Victim

\* IndInv holds in every reachable state.
THEOREM Invariance == Spec => []IndInv
  <1>1. IndInv /\ [Next]_vars => IndInv'
    BY TypeStep, KeysStep, LedgerStep, DispatchStep, WebhooksStep,
       CertifiedStep, FrozenStep
    DEF IndInv
  <1>2. QED
    BY InitInd, <1>1, PTL DEF Spec

-----------------------------------------------------------------------------
\* Every column keeps its type.
THEOREM TypeCorrect == Spec => []TypeOK
  <1>1. IndInv => TypeOK
    BY DEF IndInv
  <1>2. QED
    BY Invariance, <1>1, PTL

\* reconciler.py:29: whatever clicks, retries, redrives, crashes and answers
\* there are, the gateway makes one payout for an exit.
THEOREM PaysOnce == Spec => []PaidOnce
  <1>1. IndInv => PaidOnce
    BY DEF IndInv, TypeOK, KeysOK, PaidOnce
  <1>2. QED
    BY Invariance, <1>1, PTL

\* An exit whose money is under way or was moved is neither reviewed again nor
\* cancelled, and the amount due stays the amount moved, until a refusal of
\* that very payout, which the adapter takes for final, fails its settlement.
THEOREM PaymentFreezes == Spec => []PayingIsFrozen
  <1>1. IndInv => PayingIsFrozen
    BY DEF IndInv
  <1>2. QED
    BY Invariance, <1>1, PTL

\* A certificate means that money was paid for this exit, whichever of answer,
\* replay and webhook brought it, and that it was this refund, unless a refusal
\* of the payout had let the figures be worked out again.
THEOREM CertificateMeansPaid == Spec => []CertifiedWasPaid
  <1>1. ASSUME IndInv, NEW w \in Workflows, state[w] = "NOC_ISSUED"
        PROVE  /\ key[w] # Nobody
               /\ payout[key[w]] = "SUCCEEDED"
               /\ payee[key[w]] = w
               /\ moved[key[w]] = refund[w] \/ key[w] \in denied
    <2>1. key[w] \in Keys /\ payout[key[w]] = "SUCCEEDED"
      BY <1>1 DEF IndInv, TypeOK, KeysOK, CertifiedOK
    <2>2. payee[key[w]] \in Workflows
      BY <1>1, <2>1 DEF IndInv, TypeOK, LedgerOK
    <2>3. payee[key[w]] = w
      BY <1>1, <2>1, <2>2, A2PayoutAssumption DEF IndInv, KeysOK
    <2>4. moved[key[w]] = refund[w] \/ key[w] \in denied
      BY <1>1, <2>1, <2>3 DEF IndInv, PayingIsFrozen
    <2>5. QED
      BY <2>1, <2>3, <2>4, A2PayoutAssumption
  <1>2. IndInv => CertifiedWasPaid
    BY <1>1 DEF CertifiedWasPaid
  <1>3. QED
    BY Invariance, <1>2, PTL

=============================================================================
