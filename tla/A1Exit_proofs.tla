--------------------------- MODULE A1Exit_proofs ---------------------------
(***************************************************************************)
(* Proofs about A1Exit, for any number of exits, contracts, assignments,   *)
(* keys and hours, and for every deposit and every total of a report.      *)
(*                                                                         *)
(* IndInv adds to the four invariants of the run what they rest on: a row  *)
(* that is not there has no settlement, a payable settlement has open      *)
(* exactly the leg that is owed, and money is recorded on certified exits  *)
(* only.  The arithmetic is one fact: of the two legs at most one is owed. *)
(***************************************************************************)
EXTENDS A1Exit, TLAPS

\* The assignments of an exit, as a sequence of rows.
VisitsOK ==
  /\ visits \in [Workflows -> Seq(Visits)]
  /\ \A w \in Workflows : Len(visits[w]) <= MaxAttempts

\* An initiation under way has no row yet, a row has a contract, no row means
\* no settlement, and where an agency is at work there is an assignment.
RowsOK ==
  /\ ledger \in [Workflows -> SUBSET Payments]
  /\ \A w \in Workflows :
       /\ opening[w] # Nobody => state[w] = "none"
       /\ state[w] = "none" => bill[w] = NoBill
       /\ state[w] # "none" => contract[w] \in Contracts
       /\ state[w] \in {"INSPECTION_SCHEDULING", "INSPECTION_SCHEDULED"} =>
            visits[w] # <<>>

Certified(w) == state[w] \in {"NOC_ISSUED", "COMPLETED"}

\* The part of SettlementAgrees that is not typing.
AgreeOK ==
  \A w \in Workflows :
    /\ state[w] = "DAMAGE_REVIEW" => bill[w].status = "DRAFT"
    /\ state[w] = "PENDING_SETTLEMENT" => bill[w].status = "PAYABLE"
    /\ bill[w].status = "PAYABLE" =>
         state[w] \in {"PENDING_SETTLEMENT", "CANCELLED"}
    /\ bill[w].status = "CLOSED" <=> Certified(w)

\* What is payable waits for the leg that is owed.
OwedOK ==
  \A w \in Workflows : bill[w].status = "PAYABLE" =>
    bill[w].paid = ZeroLegs(w) /\ bill[w].paid # Legs

\* What PaidIsFinal says of a certified exit.
Shown(w) ==
  /\ noc[w] = bill[w].figures
  /\ \A leg \in Legs :
       LET owed == LegAmount(bill[w].figures, leg)
           paid == {p \in ledger[w] : p.leg = leg}
       IN  IF owed = 0 THEN paid = {}
           ELSE \E m \in moved :
                  /\ paid = {[leg |-> leg, key |-> m.key, amount |-> owed]}
                  /\ \/ m.lost
                     \/ m.of = w /\ m.leg = leg /\ m.amount = owed

\* A movement whose transaction was not lost is in the ledger of its exit, so
\* its key cannot be used again.
MovedOK ==
  \A m \in moved : m.lost \/ \E p \in ledger[m.of] : p.key = m.key

Counting == {"DAMAGE_REVIEW", "PENDING_SETTLEMENT", "NOC_ISSUED", "COMPLETED"}

\* Until an exit is reviewed the live assignment has not reported; when it has,
\* its report counts; and what else counts came by a detour.
OperativeOK ==
  \A w \in Workflows :
    /\ /\ Live(w) > 0
       /\ state[w] \in {"INSPECTION_SCHEDULING", "INSPECTION_SCHEDULED",
                        "INSPECTION_COMPLETED"}
       => ~visits[w][Live(w)].reported
    /\ Live(w) > 0 /\ visits[w][Live(w)].reported => bill[w].attempt = Live(w)
    /\ state[w] \in Counting =>
         (bill[w].attempt = Live(w) <=> detour[w] = "none")
    /\ state[w] \notin Counting \cup {"CANCELLED"} => detour[w] = "none"

IndInv ==
  /\ TypeOK
  /\ VisitsOK
  /\ RowsOK
  /\ AgreeOK
  /\ ComputedFromLastReport
  /\ AppointmentIsLive
  /\ OwedOK
  /\ MovedOK
  /\ OperativeOK
  /\ PaidIsFinal

-----------------------------------------------------------------------------
\* The table read backwards: from where the states that matter are entered.
LEMMA Moves ==
  ASSUME NEW f, NEW t, Can(f, t)
  PROVE  /\ f \in States /\ t \in States /\ f # "none" /\ t # "none"
         /\ f \notin Terminal
         /\ f \in Cancellable => f \notin {"NOC_ISSUED", "SETTLED"}
         /\ t \in {"PENDING_OWNER_APPROVAL", "OWNER_APPROVED", "REJECTED"} =>
              f \in {"DRAFT", "DOCUMENTS_PENDING", "PENDING_OWNER_APPROVAL"}
         /\ t = "INSPECTION_SCHEDULED" => f = "INSPECTION_SCHEDULING"
         /\ t = "INSPECTION_COMPLETED" => f = "INSPECTION_SCHEDULED"
         /\ t = "DAMAGE_REVIEW" =>
              f \in {"INSPECTION_COMPLETED", "PENDING_SETTLEMENT"}
         /\ t = "PENDING_SETTLEMENT" => f = "DAMAGE_REVIEW"
         /\ t = "INSPECTION_SCHEDULING" =>
              f \in {"OWNER_APPROVED", "INSPECTION_SCHEDULED",
                     "DAMAGE_REVIEW"}
         /\ t = "COMPLETED" <=> f = "NOC_ISSUED"
         /\ t = "NOC_ISSUED" <=> f = "SETTLED"
  BY DEF Can, Transitions, States, Terminal, Cancellable

\* A settlement that is fully paid may be closed and certified.
LEMMA Closing ==
  /\ Can("PENDING_SETTLEMENT", "SETTLED") /\ Can("SETTLED", "NOC_ISSUED")
  /\ "PENDING_SETTLEMENT" \in States /\ "NOC_ISSUED" \in States
  BY DEF Can, Transitions, States

\* The settlement's figures are amounts, and one of the legs is of nothing.
LEMMA Figuring ==
  ASSUME NEW deposit \in Nat, NEW deducted \in Nat
  PROVE  /\ Breakdown(deposit, deducted) \in Figures
         /\ \/ Breakdown(deposit, deducted).refund = 0
            \/ Breakdown(deposit, deducted).balance = 0
  <1>1. Positive(deposit - deducted) \in Nat
    BY DEF Positive
  <1>2. Positive(deducted - deposit) \in Nat
    BY DEF Positive
  <1>3. Positive(deposit - deducted) = 0 \/ Positive(deducted - deposit) = 0
    BY DEF Positive
  <1>4. QED
    BY <1>1, <1>2, <1>3 DEF Breakdown, Figures

\* One row of the assignments of one exit is written.
LEMMA Writing ==
  ASSUME VisitsOK, NEW w \in Workflows, NEW n \in 1 .. Len(visits[w]),
         NEW v \in Visits, visits' = [visits EXCEPT ![w][n] = v]
  PROVE  /\ VisitsOK'
         /\ \A u \in Workflows : Len(visits'[u]) = Len(visits[u])
         /\ \A u \in Workflows : \A m \in 1 .. Len(visits[u]) :
              visits'[u][m] = IF u = w /\ m = n THEN v ELSE visits[u][m]
  <1>1. /\ visits[w] \in Seq(Visits)
        /\ [visits[w] EXCEPT ![n] = v] \in Seq(Visits)
    BY DEF VisitsOK
  <1>2. Len([visits[w] EXCEPT ![n] = v]) = Len(visits[w])
    BY <1>1
  <1>3. visits' = [visits EXCEPT ![w] = [visits[w] EXCEPT ![n] = v]]
    BY DEF VisitsOK
  <1>4. QED
    BY <1>1, <1>2, <1>3 DEF VisitsOK

\* An assignment is appended to those of one exit.
LEMMA Asking ==
  ASSUME VisitsOK, NEW w \in Workflows, Len(visits[w]) < MaxAttempts,
         visits' = [visits EXCEPT ![w] = Append(@, NewVisit)]
  PROVE  /\ VisitsOK'
         /\ \A u \in Workflows \ {w} : visits'[u] = visits[u]
         /\ visits'[w] # <<>> /\ visits'[w][Len(visits'[w])] = NewVisit
  <1>1. NewVisit \in Visits
    BY DEF NewVisit, Visits, VisitStatuses
  <1>2. visits[w] \in Seq(Visits) /\ Len(visits[w]) \in Nat
    BY DEF VisitsOK
  <1>3. /\ Append(visits[w], NewVisit) \in Seq(Visits)
        /\ Len(Append(visits[w], NewVisit)) = Len(visits[w]) + 1
        /\ Append(visits[w], NewVisit)[Len(visits[w]) + 1] = NewVisit
    BY <1>1, <1>2
  <1>4. Len(visits[w]) + 1 <= MaxAttempts
    BY <1>2, A1ExitAssumption
  <1>5. QED
    BY <1>2, <1>3, <1>4 DEF VisitsOK

\* No exit, no money, nothing under way.
LEMMA InitInd == Init => IndInv
  BY A1ExitAssumption, NocAssumption
  DEF Init, IndInv, MovedOK, OperativeOK, Live, Counting, TypeOK, VisitsOK, RowsOK, AgreeOK, Certified, OwedOK,
      ComputedFromLastReport, AppointmentIsLive, PaidIsFinal, NoBill, NoNoc,
      NoReport, Reports, Figures, Breakdown, Positive

\* Whoever writes to an assignment writes a row.
LEMMA VisitsStep == IndInv /\ [Next]_vars => VisitsOK'
  <1> SUFFICES ASSUME IndInv, [Next]_vars PROVE VisitsOK'
    OBVIOUS
  <1>0. /\ VisitsOK
        /\ RowsOK
    BY DEF IndInv, TypeOK, VisitsOK, RowsOK
  <1> USE <1>0
      DEF leasing, request, damage, money, certificate, VisitsOK, RowsOK
  <1>1. ASSUME NEW w \in Workflows, OwnerApproveRequesting(w)
        PROVE  VisitsOK'
    BY <1>1, Asking DEF OwnerApproveRequesting
  <1>2. ASSUME NEW w \in Workflows, RequestInspection(w) PROVE VisitsOK'
    BY <1>2, Asking DEF RequestInspection, Enter
  <1>3. ASSUME NEW w \in Workflows, NEW h \in Hours, SelectSlot(w, h)
        PROVE  VisitsOK'
    <2>1. Live(w) \in 1 .. Len(visits[w])
      BY <1>3 DEF SelectSlot, Live
    <2>0. visits[w][Live(w)] \in Visits
      BY <2>1
    <2>2. [visits[w][Live(w)] EXCEPT !.status = "SCHEDULED", !.picked = h]
            \in Visits
      BY <2>0 DEF Visits, VisitStatuses
    <2>3. QED
      BY <1>3, <2>1, <2>2, Writing DEF SelectSlot
  <1>4. ASSUME NEW w \in Workflows, OrderReinspection(w) PROVE VisitsOK'
    BY <1>4, Asking DEF OrderReinspection, Enter
  <1>5. ASSUME NEW w \in Workflows, NEW n \in 1 .. Len(visits[w]),
               NEW hours \in SUBSET Hours,
               ProposeSlots(w, n, hours)
        PROVE  VisitsOK'
    <2>1. visits[w][n] \in Visits /\ hours \subseteq Hours
      OBVIOUS
    <2>2. PICK written \in VisitStatuses :
            visits' = [visits EXCEPT ![w][n] = Offered(@, written, hours)]
      BY <1>5, <2>1 DEF ProposeSlots, Visits, VisitStatuses
    <2>3. Offered(visits[w][n], written, hours) \in Visits
      BY <2>1 DEF Visits, Offered
    <2>4. QED
      BY <2>2, <2>3, Writing
  <1>6. ASSUME NEW w \in Workflows, NEW n \in 1 .. Len(visits[w]),
               NEW total \in Totals,
               SubmitDamageReport(w, n, total)
        PROVE  VisitsOK'
    <2>0. visits[w][n] \in Visits
      OBVIOUS
    <2>1. [visits[w][n] EXCEPT !.status = "COMPLETED", !.reported = TRUE]
            \in Visits
      BY <2>0 DEF Visits, VisitStatuses
    <2>2. QED
      BY <1>6, <2>1, Writing DEF SubmitDamageReport
  <1>7. ASSUME \/ UNCHANGED vars
               \/ \E c \in Contracts :
                     \/ ClearContract(c) \/ CreateContract(c)
               \/ \E w \in Workflows : \E c \in Contracts : \E d \in Days :
                    CheckInitiate(w, c, d)
               \/ \E w \in Workflows :
                     \/ Initiate(w) \/ RefuseInitiate(w) \/ Submit(w)
                     \/ OwnerApprove(w) \/ OwnerReject(w) \/ Cancel(w)
                     \/ Complete(w) \/ CompleteInspection(w)
                     \/ ApproveSettlement(w) \/ Dispute(w) \/ DownloadNoc(w)
               \/ \E w \in Workflows : \E kind \in Kinds :
                    UploadDocument(w, kind)
               \/ \E w \in Workflows : \E leg \in Legs : \E key \in Keys :
                     \/ Pay(w, leg, key) \/ PayLost(w, leg, key)
               \/ Tick
        PROVE  VisitsOK'
    <2>1. UNCHANGED visits
      BY <1>7
      DEF vars, ClearContract, CreateContract, CheckInitiate, Initiate,
          RefuseInitiate, Submit, OwnerApprove, OwnerReject, Cancel, Complete,
          CompleteInspection, ApproveSettlement, Dispute, DownloadNoc,
          UploadDocument, Pay, PayLost, Tick
    <2>2. QED
      BY <2>1
  <1> HIDE <1>0 DEF VisitsOK, RowsOK
  <1>8. ASSUME Leasing PROVE VisitsOK'
    BY <1>8, <1>7 DEF Leasing
  <1>9. ASSUME NEW w \in Workflows, Requesting(w) PROVE VisitsOK'
    BY <1>9, <1>1, <1>2, <1>3, <1>4, <1>7 DEF Requesting
  <1>10. ASSUME NEW w \in Workflows, AgencyRequests(w) PROVE VisitsOK'
    BY <1>10, <1>5, <1>6, <1>7 DEF AgencyRequests
  <1>11. ASSUME NEW w \in Workflows, Settling(w) PROVE VisitsOK'
    BY <1>11, <1>7 DEF Settling
  <1>12. QED
    BY <1>7, <1>8, <1>9, <1>10, <1>11 DEF Next

\* A payment that is made is of the one leg that is owed, in full, and it is
\* the exit's first.
LEMMA Paying ==
  ASSUME IndInv, NEW w \in Workflows, NEW leg \in Legs, NEW key \in Keys,
         Payable(w, leg, key)
  PROVE  /\ Settled(bill[w].paid \cup {leg})
         /\ ledger[w] = {}
         /\ Payment(w, leg, key) \in Payments
         /\ \A other \in Legs \ {leg} : LegAmount(bill[w].figures, other) = 0
         /\ LegAmount(bill[w].figures, leg) # 0
  <1>1. /\ bill[w].status = "PAYABLE" /\ state[w] = "PENDING_SETTLEMENT"
        /\ LegAmount(bill[w].figures, leg) > 0
    BY DEF Payable
  <1>2. /\ contract[w] \in Contracts
        /\ DepositOf[contract[w]] \in Nat /\ report[w].total \in Nat
    BY <1>1, A1ExitAssumption DEF IndInv, RowsOK, TypeOK, Reports
  <1>3. bill[w].figures = Breakdown(DepositOf[contract[w]], report[w].total)
    BY <1>1 DEF IndInv, ComputedFromLastReport
  <1>4. /\ bill[w].figures \in Figures
        /\ bill[w].figures.refund = 0 \/ bill[w].figures.balance = 0
    BY <1>2, <1>3, Figuring
  <1>5. LegAmount(bill[w].figures, leg) \in Nat \ {0}
    BY <1>1, <1>4 DEF LegAmount, Figures
  <1>6. \A other \in Legs \ {leg} : LegAmount(bill[w].figures, other) = 0
    BY <1>4, <1>5 DEF LegAmount, Legs
  <1>7. bill[w].paid = ZeroLegs(w)
    BY <1>1 DEF IndInv, OwedOK
  <1>8. bill[w].paid \cup {leg} = Legs
    BY <1>6, <1>7 DEF ZeroLegs
  <1>9. ledger[w] = {}
    BY <1>1 DEF IndInv, PaidIsFinal
  <1>10. QED
    BY <1>5, <1>6, <1>8, <1>9 DEF Settled, Payment, Payments

\* Settlement and exit change together.
LEMMA AgreeStep == IndInv /\ [Next]_vars => AgreeOK'
  <1> SUFFICES ASSUME IndInv, [Next]_vars PROVE AgreeOK'
    OBVIOUS
  <1>0. /\ state \in [Workflows -> States \cup {"none"}]
        /\ bill \in [Workflows -> Bills \cup {NoBill}]
        /\ RowsOK
        /\ AgreeOK
    BY DEF IndInv, TypeOK, VisitsOK, RowsOK
  <1> USE <1>0
      DEF leasing, request, damage, money, certificate, RowsOK, AgreeOK,
          Certified, SettlementStatuses, Bills, NoBill
  <1>1. ASSUME NEW w \in Workflows, Initiate(w) PROVE AgreeOK'
    BY <1>1 DEF Initiate
  <1>2. ASSUME NEW w \in Workflows, Submit(w) PROVE AgreeOK'
    BY <1>2, Moves DEF Submit, Enter
  <1>3. ASSUME NEW w \in Workflows, OwnerApprove(w) PROVE AgreeOK'
    BY <1>3, Moves DEF OwnerApprove, Enter
  <1>4. ASSUME NEW w \in Workflows, OwnerApproveRequesting(w)
        PROVE  AgreeOK'
    BY <1>4, Moves DEF OwnerApproveRequesting
  <1>5. ASSUME NEW w \in Workflows, OwnerReject(w) PROVE AgreeOK'
    BY <1>5, Moves DEF OwnerReject, Enter
  <1>6. ASSUME NEW w \in Workflows, Cancel(w) PROVE AgreeOK'
    BY <1>6, Moves DEF Cancel, Enter, Cancellable
  <1>7. ASSUME NEW w \in Workflows, Complete(w) PROVE AgreeOK'
    BY <1>7, Moves DEF Complete, Enter
  <1>8. ASSUME NEW w \in Workflows, RequestInspection(w) PROVE AgreeOK'
    BY <1>8, Moves DEF RequestInspection, Enter
  <1>9. ASSUME NEW w \in Workflows, NEW h \in Hours, SelectSlot(w, h)
        PROVE  AgreeOK'
    BY <1>9, Moves DEF SelectSlot, Enter, Live
  <1>10. ASSUME NEW w \in Workflows, OrderReinspection(w) PROVE AgreeOK'
    BY <1>10, Moves DEF OrderReinspection, Enter
  <1>11. ASSUME NEW w \in Workflows, NEW n \in 1 .. Len(visits[w]),
                NEW total \in Totals,
               SubmitDamageReport(w, n, total)
        PROVE  AgreeOK'
    BY <1>11 DEF SubmitDamageReport, Computed
  <1>12. ASSUME NEW w \in Workflows, CompleteInspection(w) PROVE AgreeOK'
    BY <1>12, Moves DEF CompleteInspection, Enter
  <1>13. ASSUME NEW w \in Workflows, ApproveSettlement(w) PROVE AgreeOK'
    BY <1>13, Moves, Closing DEF ApproveSettlement, Close
  <1>14. ASSUME NEW w \in Workflows, Dispute(w) PROVE AgreeOK'
    BY <1>14, Moves DEF Dispute, Enter, Reopened
  <1>15. ASSUME NEW w \in Workflows, NEW leg \in Legs, NEW key \in Keys,
               Pay(w, leg, key)
        PROVE  AgreeOK'
    BY <1>15, Closing, Paying DEF Pay, Close, Payable
  <1>16. ASSUME NEW w \in Workflows, DownloadNoc(w) PROVE AgreeOK'
    BY <1>16, Moves DEF DownloadNoc, Enter
  <1>17. ASSUME \/ UNCHANGED vars
                \/ \E c \in Contracts :
                      \/ ClearContract(c) \/ CreateContract(c)
                \/ \E w \in Workflows : \E c \in Contracts : \E d \in Days :
                     CheckInitiate(w, c, d)
                \/ \E w \in Workflows : RefuseInitiate(w)
                \/ \E w \in Workflows : \E kind \in Kinds :
                     UploadDocument(w, kind)
                \/ \E w \in Workflows, hours \in SUBSET Hours :
                     \E n \in 1 .. Len(visits[w]) :
                     ProposeSlots(w, n, hours)
                \/ \E w \in Workflows : \E leg \in Legs : \E key \in Keys :
                     PayLost(w, leg, key)
                \/ Tick
        PROVE  AgreeOK'
    <2>1. UNCHANGED <<state, bill>>
      BY <1>17
      DEF vars, ClearContract, CreateContract, CheckInitiate, RefuseInitiate,
          UploadDocument, ProposeSlots, PayLost, Tick
    <2>2. QED
      BY <2>1
  <1> HIDE <1>0
      DEF RowsOK, AgreeOK, Certified, SettlementStatuses, Bills, NoBill
  <1>18. ASSUME Leasing PROVE AgreeOK'
    BY <1>18, <1>17 DEF Leasing
  <1>19. ASSUME NEW w \in Workflows, Requesting(w) PROVE AgreeOK'
    BY <1>19, <1>1, <1>2, <1>3, <1>4, <1>5, <1>6, <1>7, <1>8, <1>9, <1>10,
       <1>17
    DEF Requesting
  <1>20. ASSUME NEW w \in Workflows, AgencyRequests(w) PROVE AgreeOK'
    BY <1>20, <1>11, <1>12, <1>17 DEF AgencyRequests
  <1>21. ASSUME NEW w \in Workflows, Settling(w) PROVE AgreeOK'
    BY <1>21, <1>13, <1>14, <1>15, <1>16, <1>17 DEF Settling
  <1>22. QED
    BY <1>17, <1>18, <1>19, <1>20, <1>21 DEF Next

\* A report and the settlement computed from it are written together, and the
\* contract of a row is not.
LEMMA ComputedStep == IndInv /\ [Next]_vars => ComputedFromLastReport'
  <1> SUFFICES ASSUME IndInv, [Next]_vars PROVE ComputedFromLastReport'
    OBVIOUS
  <1>0. /\ state \in [Workflows -> States \cup {"none"}]
        /\ contract \in [Workflows -> Contracts \cup {Nobody}]
        /\ bill \in [Workflows -> Bills \cup {NoBill}]
        /\ report \in [Workflows -> Reports]
        /\ RowsOK
        /\ AgreeOK
        /\ ComputedFromLastReport
    BY DEF IndInv, TypeOK, VisitsOK, RowsOK
  <1> USE <1>0
      DEF leasing, request, damage, money, certificate, RowsOK, AgreeOK,
          ComputedFromLastReport, NoBill, Bills
  <1>1. ASSUME NEW w \in Workflows, Initiate(w) PROVE ComputedFromLastReport'
    BY <1>1 DEF Initiate
  <1>2. ASSUME NEW w \in Workflows, OrderReinspection(w)
        PROVE  ComputedFromLastReport'
    BY <1>2, Moves DEF OrderReinspection, Enter
  <1>3. ASSUME NEW w \in Workflows, NEW n \in 1 .. Len(visits[w]),
               NEW total \in Totals,
               SubmitDamageReport(w, n, total)
        PROVE  ComputedFromLastReport'
    BY <1>3 DEF SubmitDamageReport, Computed
  <1>4. ASSUME NEW w \in Workflows, ApproveSettlement(w)
        PROVE  ComputedFromLastReport'
    BY <1>4, Moves, Closing DEF ApproveSettlement, Close
  <1>5. ASSUME NEW w \in Workflows, Dispute(w) PROVE ComputedFromLastReport'
    BY <1>5, Moves DEF Dispute, Enter, Reopened
  <1>6. ASSUME NEW w \in Workflows, NEW leg \in Legs, NEW key \in Keys,
               Pay(w, leg, key)
        PROVE  ComputedFromLastReport'
    BY <1>6, Closing, Paying DEF Pay, Close, Payable
  <1>7. ASSUME \/ UNCHANGED vars
               \/ \E c \in Contracts :
                     \/ ClearContract(c) \/ CreateContract(c)
               \/ \E w \in Workflows : \E c \in Contracts : \E d \in Days :
                    CheckInitiate(w, c, d)
               \/ \E w \in Workflows :
                     \/ RefuseInitiate(w) \/ Submit(w) \/ OwnerApprove(w)
                     \/ OwnerApproveRequesting(w) \/ OwnerReject(w)
                     \/ Cancel(w) \/ Complete(w) \/ RequestInspection(w)
                     \/ CompleteInspection(w) \/ DownloadNoc(w)
               \/ \E w \in Workflows : \E kind \in Kinds :
                    UploadDocument(w, kind)
               \/ \E w \in Workflows : \E h \in Hours : SelectSlot(w, h)
               \/ \E w \in Workflows, hours \in SUBSET Hours :
                    \E n \in 1 .. Len(visits[w]) :
                    ProposeSlots(w, n, hours)
               \/ \E w \in Workflows : \E leg \in Legs : \E key \in Keys :
                    PayLost(w, leg, key)
               \/ Tick
        PROVE  ComputedFromLastReport'
    <2>1. UNCHANGED <<contract, bill, report>>
      BY <1>7
      DEF vars, ClearContract, CreateContract, CheckInitiate, RefuseInitiate,
          Submit, OwnerApprove, OwnerApproveRequesting, OwnerReject, Cancel,
          Complete, RequestInspection, CompleteInspection, DownloadNoc,
          UploadDocument, SelectSlot, ProposeSlots, PayLost, Tick
    <2>2. QED
      BY <2>1
  <1> HIDE <1>0 DEF RowsOK, AgreeOK, ComputedFromLastReport, NoBill, Bills
  <1>8. ASSUME Leasing PROVE ComputedFromLastReport'
    BY <1>8, <1>7 DEF Leasing
  <1>9. ASSUME NEW w \in Workflows, Requesting(w)
        PROVE  ComputedFromLastReport'
    BY <1>9, <1>1, <1>2, <1>7 DEF Requesting
  <1>10. ASSUME NEW w \in Workflows, AgencyRequests(w)
        PROVE  ComputedFromLastReport'
    BY <1>10, <1>3, <1>7 DEF AgencyRequests
  <1>11. ASSUME NEW w \in Workflows, Settling(w) PROVE ComputedFromLastReport'
    BY <1>11, <1>4, <1>5, <1>6, <1>7 DEF Settling
  <1>12. QED
    BY <1>7, <1>8, <1>9, <1>10, <1>11 DEF Next

\* A payable settlement is closed by the first payment.
LEMMA OwedStep == IndInv /\ [Next]_vars => OwedOK'
  <1> SUFFICES ASSUME IndInv, [Next]_vars PROVE OwedOK'
    OBVIOUS
  <1>0. /\ bill \in [Workflows -> Bills \cup {NoBill}]
        /\ OwedOK
    BY DEF IndInv, TypeOK, VisitsOK, RowsOK
  <1> USE <1>0
      DEF leasing, request, damage, money, certificate, OwedOK, ZeroLegs,
          Settled, Bills, NoBill
  <1>1. ASSUME NEW w \in Workflows, OrderReinspection(w) PROVE OwedOK'
    BY <1>1, Moves DEF OrderReinspection, Enter
  <1>2. ASSUME NEW w \in Workflows, NEW n \in 1 .. Len(visits[w]),
               NEW total \in Totals,
               SubmitDamageReport(w, n, total)
        PROVE  OwedOK'
    BY <1>2 DEF SubmitDamageReport, Computed
  <1>3. ASSUME NEW w \in Workflows, ApproveSettlement(w) PROVE OwedOK'
    BY <1>3, Moves, Closing DEF ApproveSettlement, Close
  <1>4. ASSUME NEW w \in Workflows, Dispute(w) PROVE OwedOK'
    BY <1>4, Moves DEF Dispute, Enter, Reopened
  <1>5. ASSUME NEW w \in Workflows, NEW leg \in Legs, NEW key \in Keys,
               Pay(w, leg, key)
        PROVE  OwedOK'
    BY <1>5, Closing, Paying DEF Pay, Close, Payable
  <1>6. ASSUME \/ UNCHANGED vars
               \/ \E c \in Contracts :
                     \/ ClearContract(c) \/ CreateContract(c)
               \/ \E w \in Workflows : \E c \in Contracts : \E d \in Days :
                    CheckInitiate(w, c, d)
               \/ \E w \in Workflows :
                     \/ Initiate(w) \/ RefuseInitiate(w) \/ Submit(w)
                     \/ OwnerApprove(w) \/ OwnerApproveRequesting(w)
                     \/ OwnerReject(w) \/ Cancel(w) \/ Complete(w)
                     \/ RequestInspection(w) \/ CompleteInspection(w)
                     \/ DownloadNoc(w)
               \/ \E w \in Workflows : \E kind \in Kinds :
                    UploadDocument(w, kind)
               \/ \E w \in Workflows : \E h \in Hours : SelectSlot(w, h)
               \/ \E w \in Workflows, hours \in SUBSET Hours :
                    \E n \in 1 .. Len(visits[w]) :
                    ProposeSlots(w, n, hours)
               \/ \E w \in Workflows : \E leg \in Legs : \E key \in Keys :
                    PayLost(w, leg, key)
               \/ Tick
        PROVE  OwedOK'
    <2>1. UNCHANGED bill
      BY <1>6
      DEF vars, ClearContract, CreateContract, CheckInitiate, Initiate,
          RefuseInitiate, Submit, OwnerApprove, OwnerApproveRequesting,
          OwnerReject, Cancel, Complete, RequestInspection,
          CompleteInspection, DownloadNoc, UploadDocument, SelectSlot,
          ProposeSlots, PayLost, Tick
    <2>2. QED
      BY <2>1
  <1> HIDE <1>0 DEF OwedOK, ZeroLegs, Settled, Bills, NoBill
  <1>7. ASSUME Leasing PROVE OwedOK'
    BY <1>7, <1>6 DEF Leasing
  <1>8. ASSUME NEW w \in Workflows, Requesting(w) PROVE OwedOK'
    BY <1>8, <1>1, <1>6 DEF Requesting
  <1>9. ASSUME NEW w \in Workflows, AgencyRequests(w) PROVE OwedOK'
    BY <1>9, <1>2, <1>6 DEF AgencyRequests
  <1>10. ASSUME NEW w \in Workflows, Settling(w) PROVE OwedOK'
    BY <1>10, <1>3, <1>4, <1>5, <1>6 DEF Settling
  <1>11. QED
    BY <1>6, <1>7, <1>8, <1>9, <1>10 DEF Next

\* Money is recorded with the certificate, and nothing moves a certified exit
\* but its completion.
LEMMA PaidStep == IndInv /\ [Next]_vars => PaidIsFinal'
  <1> SUFFICES ASSUME IndInv, [Next]_vars PROVE PaidIsFinal'
    OBVIOUS
  <1>0. /\ state \in [Workflows -> States \cup {"none"}]
        /\ bill \in [Workflows -> Bills \cup {NoBill}]
        /\ ledger \in [Workflows -> SUBSET Payments]
        /\ noc \in [Workflows -> Figures \cup {NoNoc}]
        /\ RowsOK
        /\ PaidIsFinal
        /\ AgreeOK
    BY DEF IndInv, TypeOK, VisitsOK, RowsOK
  <1> USE <1>0
      DEF leasing, request, damage, money, certificate, RowsOK, PaidIsFinal,
          AgreeOK, Certified
  <1>1. ASSUME NEW w \in Workflows, Initiate(w) PROVE PaidIsFinal'
    BY <1>1 DEF Initiate
  <1>2. ASSUME NEW w \in Workflows, Submit(w) PROVE PaidIsFinal'
    BY <1>2, Moves DEF Submit, Enter
  <1>3. ASSUME NEW w \in Workflows, OwnerApprove(w) PROVE PaidIsFinal'
    BY <1>3, Moves DEF OwnerApprove, Enter
  <1>4. ASSUME NEW w \in Workflows, OwnerApproveRequesting(w)
        PROVE  PaidIsFinal'
    BY <1>4, Moves DEF OwnerApproveRequesting
  <1>5. ASSUME NEW w \in Workflows, OwnerReject(w) PROVE PaidIsFinal'
    BY <1>5, Moves DEF OwnerReject, Enter
  <1>6. ASSUME NEW w \in Workflows, Cancel(w) PROVE PaidIsFinal'
    BY <1>6, Moves DEF Cancel, Enter, Cancellable
  <1>7. ASSUME NEW w \in Workflows, Complete(w) PROVE PaidIsFinal'
    BY <1>7, Moves DEF Complete, Enter
  <1>8. ASSUME NEW w \in Workflows, RequestInspection(w) PROVE PaidIsFinal'
    BY <1>8, Moves DEF RequestInspection, Enter
  <1>9. ASSUME NEW w \in Workflows, NEW h \in Hours, SelectSlot(w, h)
        PROVE  PaidIsFinal'
    BY <1>9, Moves DEF SelectSlot, Enter, Live
  <1>10. ASSUME NEW w \in Workflows, OrderReinspection(w) PROVE PaidIsFinal'
    BY <1>10, Moves DEF OrderReinspection, Enter
  <1>11. ASSUME NEW w \in Workflows, NEW n \in 1 .. Len(visits[w]),
                NEW total \in Totals,
               SubmitDamageReport(w, n, total)
        PROVE  PaidIsFinal'
    BY <1>11 DEF SubmitDamageReport, Computed
  <1>12. ASSUME NEW w \in Workflows, CompleteInspection(w) PROVE PaidIsFinal'
    BY <1>12, Moves DEF CompleteInspection, Enter
  <1>13. ASSUME NEW w \in Workflows, ApproveSettlement(w) PROVE PaidIsFinal'
    <2>0. /\ bill[w] \in Bills \cup {NoBill}
          /\ Can(state[w], "PENDING_SETTLEMENT")
      BY <1>13 DEF ApproveSettlement
    <2>1. /\ state[w] = "DAMAGE_REVIEW" /\ ledger[w] = {}
          /\ \A u \in Workflows : bill'[u].figures = bill[u].figures
          /\ UNCHANGED <<ledger, moved>>
      BY <1>13, <2>0, Moves DEF ApproveSettlement, Close, Bills, NoBill
    <2>2. \A u \in Workflows \ {w} : state'[u] = state[u] /\ noc'[u] = noc[u]
      BY <1>13 DEF ApproveSettlement, Close
    <2>3. CASE Settled(ZeroLegs(w))
      <3>1. \A leg \in Legs : LegAmount(bill'[w].figures, leg) = 0
        BY <2>1, <2>3 DEF Settled, ZeroLegs
      <3>2. noc'[w] = bill'[w].figures
        BY <1>13, <2>1, <2>3 DEF ApproveSettlement, Close
      <3>3. QED
        BY <2>1, <2>2, <3>1, <3>2
    <2>4. CASE ~Settled(ZeroLegs(w))
      <3>1. state'[w] = "PENDING_SETTLEMENT"
        BY <1>13, <2>4 DEF ApproveSettlement, Close
      <3>2. QED
        BY <2>1, <2>2, <3>1
    <2>5. QED
      BY <2>3, <2>4
  <1>14. ASSUME NEW w \in Workflows, Dispute(w) PROVE PaidIsFinal'
    BY <1>14, Moves DEF Dispute, Enter, Reopened
  <1>15. ASSUME NEW w \in Workflows, NEW leg \in Legs, NEW key \in Keys,
               Pay(w, leg, key)
        PROVE  PaidIsFinal'
    <2>1. /\ Settled(bill[w].paid \cup {leg}) /\ ledger[w] = {}
          /\ \A other \in Legs \ {leg} :
               LegAmount(bill[w].figures, other) = 0
          /\ LegAmount(bill[w].figures, leg) # 0
      <3>1. Payable(w, leg, key)
        BY <1>15 DEF Pay
      <3> HIDE <1>0
      <3>2. QED
        BY <3>1, Paying
    <2>2. /\ state'[w] = "NOC_ISSUED" /\ noc'[w] = bill[w].figures
          /\ bill'[w].figures = bill[w].figures
          /\ ledger'[w] = {Payment(w, leg, key)}
      BY <1>15, <2>1 DEF Pay, Close, Bills, NoBill
    <2>3. \A u \in Workflows \ {w} :
            /\ state'[u] = state[u] /\ noc'[u] = noc[u]
            /\ bill'[u] = bill[u] /\ ledger'[u] = ledger[u]
      BY <1>15, <2>1 DEF Pay, Close
    <2>4. \A other \in Legs \ {leg} : {p \in ledger'[w] : p.leg = other} = {}
      BY <2>2 DEF Payment
    <2>5. {p \in ledger'[w] : p.leg = leg} =
            {[leg |-> leg, key |-> key,
              amount |-> LegAmount(bill'[w].figures, leg)]}
      BY <2>2 DEF Payment
    <2>6. moved \subseteq moved'
      BY <1>15 DEF Pay
    <2>10. PICK m \in moved' :
             /\ m.key = key
             /\ \/ m.lost
                \/ /\ m.of = w /\ m.leg = leg
                   /\ m.amount = LegAmount(bill[w].figures, leg)
      <3>1. CASE Known(key)
        <4>1. PICK m \in moved : m.key = key
          BY <3>1 DEF Known
        <4>2. m.of \in Workflows
          BY DEF IndInv, TypeOK, Movements
        <4>3. \A p \in ledger[m.of] : p.key # key
          BY <1>15, <4>2 DEF Pay, Payable
        <4>4. m.lost
          BY <4>1, <4>3 DEF IndInv, MovedOK
        <4>5. QED
          BY <2>6, <4>1, <4>4
      <3>2. CASE ~Known(key)
        <4> DEFINE m == Movement(w, leg, key, FALSE)
        <4>1. m \in moved'
          BY <1>15, <3>2 DEF Pay
        <4>2. /\ m.key = key /\ m.of = w /\ m.leg = leg
              /\ m.amount = LegAmount(bill[w].figures, leg)
          BY DEF Movement
        <4> HIDE DEF m
        <4>3. QED
          BY <4>1, <4>2
      <3>3. QED
        BY <3>1, <3>2
    <2>7. \A u \in Workflows \ {w} :
            /\ ledger'[u] # {} => state'[u] \in {"NOC_ISSUED", "COMPLETED"}
            /\ state'[u] \in {"NOC_ISSUED", "COMPLETED"} => Shown(u)'
      BY <2>3, <2>6 DEF Shown
    <2>8. Shown(w)'
      <3>1. /\ LegAmount(bill'[w].figures, leg) # 0
            /\ \A other \in Legs \ {leg} :
                 LegAmount(bill'[w].figures, other) = 0
            /\ noc'[w] = bill'[w].figures
        BY <2>1, <2>2
      <3>2. /\ \/ m.lost
               \/ /\ m.of = w /\ m.leg = leg
                  /\ m.amount = LegAmount(bill'[w].figures, leg)
            /\ {p \in ledger'[w] : p.leg = leg} =
                 {[leg |-> leg, key |-> m.key,
                   amount |-> LegAmount(bill'[w].figures, leg)]}
        BY <2>2, <2>5, <2>10
      <3>3. QED
        BY <2>4, <3>1, <3>2 DEF Shown
    <2> HIDE DEF PaidIsFinal
    <2>9. QED
      BY <2>2, <2>7, <2>8 DEF PaidIsFinal, Shown
  <1>16. ASSUME NEW w \in Workflows, NEW leg \in Legs, NEW key \in Keys,
               PayLost(w, leg, key)
        PROVE  PaidIsFinal'
    <2>1. /\ UNCHANGED <<state, bill, ledger, noc>>
          /\ moved \subseteq moved'
      BY <1>16 DEF PayLost
    <2>2. \A u \in Workflows :
            /\ ledger'[u] # {} => state'[u] \in {"NOC_ISSUED", "COMPLETED"}
            /\ state'[u] \in {"NOC_ISSUED", "COMPLETED"} => Shown(u)'
      BY <2>1 DEF Shown
    <2> HIDE DEF PaidIsFinal
    <2>3. QED
      BY <2>2 DEF PaidIsFinal, Shown
  <1>17. ASSUME NEW w \in Workflows, DownloadNoc(w) PROVE PaidIsFinal'
    BY <1>17, Moves DEF DownloadNoc, Enter
  <1>18. ASSUME \/ UNCHANGED vars
                \/ \E c \in Contracts :
                      \/ ClearContract(c) \/ CreateContract(c)
                \/ \E w \in Workflows : \E c \in Contracts : \E d \in Days :
                     CheckInitiate(w, c, d)
                \/ \E w \in Workflows : RefuseInitiate(w)
                \/ \E w \in Workflows : \E kind \in Kinds :
                     UploadDocument(w, kind)
                \/ \E w \in Workflows, hours \in SUBSET Hours :
                     \E n \in 1 .. Len(visits[w]) :
                     ProposeSlots(w, n, hours)
                \/ Tick
        PROVE  PaidIsFinal'
    <2>1. UNCHANGED <<state, bill, ledger, moved, noc>>
      BY <1>18
      DEF vars, ClearContract, CreateContract, CheckInitiate, RefuseInitiate,
          UploadDocument, ProposeSlots, Tick
    <2>2. QED
      BY <2>1
  <1> HIDE <1>0 DEF RowsOK, PaidIsFinal, AgreeOK, Certified
  <1>19. ASSUME Leasing PROVE PaidIsFinal'
    BY <1>19, <1>18 DEF Leasing
  <1>20. ASSUME NEW w \in Workflows, Requesting(w) PROVE PaidIsFinal'
    BY <1>20, <1>1, <1>2, <1>3, <1>4, <1>5, <1>6, <1>7, <1>8, <1>9, <1>10,
       <1>18
    DEF Requesting
  <1>21. ASSUME NEW w \in Workflows, AgencyRequests(w) PROVE PaidIsFinal'
    BY <1>21, <1>11, <1>12, <1>18 DEF AgencyRequests
  <1>22. ASSUME NEW w \in Workflows, Settling(w) PROVE PaidIsFinal'
    BY <1>22, <1>13, <1>14, <1>15, <1>16, <1>17 DEF Settling
  <1>23. QED
    BY <1>18, <1>19, <1>20, <1>21, <1>22 DEF Next

\* A row is there from the initiation on, and an exit that is sent to an
\* agency has an assignment.
LEMMA RowsStep == IndInv /\ [Next]_vars => RowsOK'
  <1> SUFFICES ASSUME IndInv, [Next]_vars PROVE RowsOK'
    OBVIOUS
  <1>0. /\ state \in [Workflows -> States \cup {"none"}]
        /\ contract \in [Workflows -> Contracts \cup {Nobody}]
        /\ opening \in [Workflows -> Contracts \cup {Nobody}]
        /\ bill \in [Workflows -> Bills \cup {NoBill}]
        /\ ledger \in [Workflows -> SUBSET Payments]
        /\ visits \in [Workflows -> Seq(Visits)]
        /\ RowsOK
        /\ VisitsOK
    BY DEF IndInv, TypeOK, VisitsOK, RowsOK
  <1> USE <1>0 DEF leasing, request, damage, money, certificate, RowsOK
  <1>1. ASSUME NEW w \in Workflows, NEW c \in Contracts, NEW d \in Days,
               CheckInitiate(w, c, d)
        PROVE  RowsOK'
    BY <1>1 DEF CheckInitiate
  <1>2. ASSUME NEW w \in Workflows, Initiate(w) PROVE RowsOK'
    BY <1>2 DEF Initiate
  <1>3. ASSUME NEW w \in Workflows, RefuseInitiate(w) PROVE RowsOK'
    BY <1>3 DEF RefuseInitiate
  <1>4. ASSUME NEW w \in Workflows, Submit(w) PROVE RowsOK'
    BY <1>4, Moves DEF Submit, Enter
  <1>5. ASSUME NEW w \in Workflows, OwnerApprove(w) PROVE RowsOK'
    BY <1>5, Moves DEF OwnerApprove, Enter
  <1>6. ASSUME NEW w \in Workflows, OwnerApproveRequesting(w)
        PROVE  RowsOK'
    BY <1>6, Moves, Asking DEF OwnerApproveRequesting
  <1>7. ASSUME NEW w \in Workflows, OwnerReject(w) PROVE RowsOK'
    BY <1>7, Moves DEF OwnerReject, Enter
  <1>8. ASSUME NEW w \in Workflows, Cancel(w) PROVE RowsOK'
    BY <1>8, Moves DEF Cancel, Enter, Cancellable
  <1>9. ASSUME NEW w \in Workflows, Complete(w) PROVE RowsOK'
    BY <1>9, Moves DEF Complete, Enter
  <1>10. ASSUME NEW w \in Workflows, RequestInspection(w) PROVE RowsOK'
    BY <1>10, Moves, Asking DEF RequestInspection, Enter
  <1>11. ASSUME NEW w \in Workflows, NEW h \in Hours, SelectSlot(w, h)
        PROVE  RowsOK'
    <2>0. Live(w) \in 1 .. Len(visits[w])
      BY <1>11 DEF SelectSlot, Live, VisitsOK
    <2>1. PICK v : visits' = [visits EXCEPT ![w][Live(w)] = v]
      BY <1>11 DEF SelectSlot
    <2>2. \A u \in Workflows : visits'[u] # <<>> <=> visits[u] # <<>>
      BY <2>0, <2>1
    <2>3. /\ state[w] = "INSPECTION_SCHEDULING"
          /\ state' = [state EXCEPT ![w] = "INSPECTION_SCHEDULED"]
          /\ UNCHANGED <<contract, opening, bill, ledger>>
      BY <1>11 DEF SelectSlot, Enter
    <2>4. QED
      BY <2>2, <2>3
  <1>12. ASSUME NEW w \in Workflows, OrderReinspection(w) PROVE RowsOK'
    BY <1>12, Moves, Asking DEF OrderReinspection, Enter
  <1>13. ASSUME NEW w \in Workflows, NEW n \in 1 .. Len(visits[w]),
                NEW hours \in SUBSET Hours,
               ProposeSlots(w, n, hours)
        PROVE  RowsOK'
    <2>1. PICK v : visits' = [visits EXCEPT ![w][n] = v]
      BY <1>13 DEF ProposeSlots
    <2>2. \A u \in Workflows : visits'[u] # <<>> <=> visits[u] # <<>>
      BY <2>1
    <2>3. UNCHANGED <<state, contract, opening, bill, ledger>>
      BY <1>13 DEF ProposeSlots
    <2>4. QED
      BY <2>2, <2>3
  <1>14. ASSUME NEW w \in Workflows, NEW n \in 1 .. Len(visits[w]),
                NEW total \in Totals,
               SubmitDamageReport(w, n, total)
        PROVE  RowsOK'
    <2>1. visits[w] # <<>> /\ state[w] # "none"
      BY <1>14 DEF SubmitDamageReport
    <2>2. state' = [state EXCEPT ![w] = "DAMAGE_REVIEW"]
      BY <1>14 DEF SubmitDamageReport
    <2>3. \A u \in Workflows \ {w} :
            bill'[u] = bill[u] /\ visits'[u] = visits[u]
      BY <1>14 DEF SubmitDamageReport
    <2>4. UNCHANGED <<contract, opening, ledger>>
      BY <1>14 DEF SubmitDamageReport
    <2>5. QED
      BY <2>1, <2>2, <2>3, <2>4
  <1>15. ASSUME NEW w \in Workflows, CompleteInspection(w) PROVE RowsOK'
    BY <1>15, Moves DEF CompleteInspection, Enter
  <1>16. ASSUME NEW w \in Workflows, ApproveSettlement(w) PROVE RowsOK'
    BY <1>16, Moves, Closing DEF ApproveSettlement, Close
  <1>17. ASSUME NEW w \in Workflows, Dispute(w) PROVE RowsOK'
    BY <1>17, Moves DEF Dispute, Enter, Reopened
  <1>18. ASSUME NEW w \in Workflows, NEW leg \in Legs, NEW key \in Keys,
               Pay(w, leg, key)
        PROVE  RowsOK'
    <2>1. /\ Settled(bill[w].paid \cup {leg}) /\ ledger[w] = {}
          /\ Payment(w, leg, key) \in Payments
      BY <1>18, Paying DEF Pay
    <2>2. /\ state[w] = "PENDING_SETTLEMENT"
          /\ state' = [state EXCEPT ![w] = "NOC_ISSUED"]
          /\ \A u \in Workflows \ {w} : bill'[u] = bill[u]
          /\ ledger' = [ledger EXCEPT ![w] = @ \cup {Payment(w, leg, key)}]
          /\ UNCHANGED <<contract, opening, visits>>
      BY <1>18, <2>1 DEF Pay, Close, Payable
    <2>3. QED
      BY <2>1, <2>2
  <1>19. ASSUME NEW w \in Workflows, DownloadNoc(w) PROVE RowsOK'
    BY <1>19, Moves DEF DownloadNoc, Enter
  <1>20. ASSUME \/ UNCHANGED vars
                \/ \E c \in Contracts :
                      \/ ClearContract(c) \/ CreateContract(c)
                \/ \E w \in Workflows : \E kind \in Kinds :
                     UploadDocument(w, kind)
                \/ \E w \in Workflows : \E leg \in Legs : \E key \in Keys :
                     PayLost(w, leg, key)
                \/ Tick
        PROVE  RowsOK'
    <2>1. UNCHANGED <<state, contract, opening, bill, ledger, visits>>
      BY <1>20
      DEF vars, ClearContract, CreateContract, UploadDocument, PayLost, Tick
    <2>2. QED
      BY <2>1
  <1> HIDE <1>0 DEF RowsOK
  <1>21. ASSUME Leasing PROVE RowsOK'
    BY <1>21, <1>20 DEF Leasing
  <1>22. ASSUME NEW w \in Workflows, Requesting(w) PROVE RowsOK'
    BY <1>22, <1>1, <1>2, <1>3, <1>4, <1>5, <1>6, <1>7, <1>8, <1>9, <1>10,
       <1>11, <1>12, <1>20
    DEF Requesting
  <1>23. ASSUME NEW w \in Workflows, AgencyRequests(w) PROVE RowsOK'
    BY <1>23, <1>13, <1>14, <1>15 DEF AgencyRequests
  <1>24. ASSUME NEW w \in Workflows, Settling(w) PROVE RowsOK'
    BY <1>24, <1>16, <1>17, <1>18, <1>19, <1>20 DEF Settling
  <1>25. QED
    BY <1>20, <1>21, <1>22, <1>23, <1>24 DEF Next

\* Only the live assignment is confirmed, and the agencies' writes to it keep
\* the appointment they answer.
LEMMA AppointmentStep == IndInv /\ [Next]_vars => AppointmentIsLive'
  <1> SUFFICES ASSUME IndInv, [Next]_vars PROVE AppointmentIsLive'
    OBVIOUS
  <1>0. /\ state \in [Workflows -> States \cup {"none"}]
        /\ visits \in [Workflows -> Seq(Visits)]
        /\ RowsOK
        /\ VisitsOK
        /\ AppointmentIsLive
    BY DEF IndInv, TypeOK, VisitsOK, RowsOK
  <1> USE <1>0
      DEF leasing, request, damage, money, certificate, RowsOK,
          AppointmentIsLive, NewVisit
  <1>1. ASSUME NEW w \in Workflows, Initiate(w) PROVE AppointmentIsLive'
    BY <1>1 DEF Initiate
  <1>2. ASSUME NEW w \in Workflows, Submit(w) PROVE AppointmentIsLive'
    BY <1>2, Moves DEF Submit, Enter
  <1>3. ASSUME NEW w \in Workflows, OwnerApprove(w) PROVE AppointmentIsLive'
    BY <1>3, Moves DEF OwnerApprove, Enter
  <1>4. ASSUME NEW w \in Workflows, OwnerApproveRequesting(w)
        PROVE  AppointmentIsLive'
    BY <1>4, Moves, Asking DEF OwnerApproveRequesting
  <1>5. ASSUME NEW w \in Workflows, OwnerReject(w) PROVE AppointmentIsLive'
    BY <1>5, Moves DEF OwnerReject, Enter
  <1>6. ASSUME NEW w \in Workflows, Cancel(w) PROVE AppointmentIsLive'
    BY <1>6, Moves DEF Cancel, Enter, Cancellable
  <1>7. ASSUME NEW w \in Workflows, Complete(w) PROVE AppointmentIsLive'
    BY <1>7, Moves DEF Complete, Enter
  <1>8. ASSUME NEW w \in Workflows, RequestInspection(w)
        PROVE  AppointmentIsLive'
    BY <1>8, Moves, Asking DEF RequestInspection, Enter
  <1>9. ASSUME NEW w \in Workflows, NEW h \in Hours, SelectSlot(w, h)
        PROVE  AppointmentIsLive'
    BY <1>9, Moves DEF SelectSlot, Enter, Live
  <1>10. ASSUME NEW w \in Workflows, OrderReinspection(w)
        PROVE  AppointmentIsLive'
    BY <1>10, Moves, Asking DEF OrderReinspection, Enter
  <1>11. ASSUME NEW w \in Workflows, NEW n \in 1 .. Len(visits[w]),
                NEW hours \in SUBSET Hours,
               ProposeSlots(w, n, hours)
        PROVE  AppointmentIsLive'
    <2>1. visits[w][n] \in Visits
      BY DEF VisitsOK
    <2>2. PICK written \in
                 {"SLOTS_PROPOSED", visits[w][n].status} \ {"REQUESTED"} :
            visits' = [visits EXCEPT ![w][n] = Offered(@, written, hours)]
      BY <1>11 DEF ProposeSlots
    <2>3. Offered(visits[w][n], written, hours) \in Visits
      BY <1>11, <2>1, <2>2 DEF Offered, Visits, VisitStatuses, ProposeSlots
    <2>4. /\ \A u \in Workflows : Len(visits'[u]) = Len(visits[u])
          /\ \A u \in Workflows : \A m \in 1 .. Len(visits[u]) :
               visits'[u][m] = IF u = w /\ m = n
                               THEN Offered(visits[w][n], written, hours)
                               ELSE visits[u][m]
      BY <2>2, <2>3, Writing
    <2>5. /\ state[w] = "INSPECTION_SCHEDULING" /\ state' = state
          /\ Offered(visits[w][n], written, hours).status = written
      BY <1>11, <2>1 DEF ProposeSlots, Offered, Visits
    <2>6. \A u \in Workflows :
            visits[u] # <<>> => Len(visits[u]) \in 1 .. Len(visits[u])
      BY DEF VisitsOK
    <2>7. QED
      BY <2>2, <2>4, <2>5, <2>6
  <1>12. ASSUME NEW w \in Workflows, NEW n \in 1 .. Len(visits[w]),
                NEW total \in Totals,
               SubmitDamageReport(w, n, total)
        PROVE  AppointmentIsLive'
    BY <1>12 DEF SubmitDamageReport, Computed
  <1>13. ASSUME NEW w \in Workflows, CompleteInspection(w)
        PROVE  AppointmentIsLive'
    BY <1>13, Moves DEF CompleteInspection, Enter
  <1>14. ASSUME NEW w \in Workflows, ApproveSettlement(w)
        PROVE  AppointmentIsLive'
    BY <1>14, Moves, Closing DEF ApproveSettlement, Close
  <1>15. ASSUME NEW w \in Workflows, Dispute(w) PROVE AppointmentIsLive'
    BY <1>15, Moves DEF Dispute, Enter, Reopened
  <1>16. ASSUME NEW w \in Workflows, NEW leg \in Legs, NEW key \in Keys,
               Pay(w, leg, key)
        PROVE  AppointmentIsLive'
    BY <1>16, Closing, Paying DEF Pay, Close, Payable
  <1>17. ASSUME NEW w \in Workflows, DownloadNoc(w) PROVE AppointmentIsLive'
    BY <1>17, Moves DEF DownloadNoc, Enter
  <1>18. ASSUME \/ UNCHANGED vars
                \/ \E c \in Contracts :
                      \/ ClearContract(c) \/ CreateContract(c)
                \/ \E w \in Workflows : \E c \in Contracts : \E d \in Days :
                     CheckInitiate(w, c, d)
                \/ \E w \in Workflows : RefuseInitiate(w)
                \/ \E w \in Workflows : \E kind \in Kinds :
                     UploadDocument(w, kind)
                \/ \E w \in Workflows : \E leg \in Legs : \E key \in Keys :
                     PayLost(w, leg, key)
                \/ Tick
        PROVE  AppointmentIsLive'
    <2>1. UNCHANGED <<state, visits>>
      BY <1>18
      DEF vars, ClearContract, CreateContract, CheckInitiate, RefuseInitiate,
          UploadDocument, PayLost, Tick
    <2>2. QED
      BY <2>1
  <1> HIDE <1>0 DEF RowsOK, AppointmentIsLive, NewVisit
  <1>19. ASSUME Leasing PROVE AppointmentIsLive'
    BY <1>19, <1>18 DEF Leasing
  <1>20. ASSUME NEW w \in Workflows, Requesting(w) PROVE AppointmentIsLive'
    BY <1>20, <1>1, <1>2, <1>3, <1>4, <1>5, <1>6, <1>7, <1>8, <1>9, <1>10,
       <1>18
    DEF Requesting
  <1>21. ASSUME NEW w \in Workflows, AgencyRequests(w)
        PROVE  AppointmentIsLive'
    BY <1>21, <1>11, <1>12, <1>13 DEF AgencyRequests
  <1>22. ASSUME NEW w \in Workflows, Settling(w) PROVE AppointmentIsLive'
    BY <1>22, <1>14, <1>15, <1>16, <1>17, <1>18 DEF Settling
  <1>23. QED
    BY <1>18, <1>19, <1>20, <1>21, <1>22 DEF Next

\* A payment of a key the provider does not know is entered with its movement.
LEMMA MovedStep == IndInv /\ [Next]_vars => MovedOK'
  <1> SUFFICES ASSUME IndInv, [Next]_vars PROVE MovedOK'
    OBVIOUS
  <1>0. /\ ledger \in [Workflows -> SUBSET Payments]
        /\ moved \subseteq Movements
        /\ MovedOK
    BY DEF IndInv, TypeOK, RowsOK
  <1>1. ASSUME NEW w \in Workflows, NEW leg \in Legs, NEW key \in Keys,
               Pay(w, leg, key)
        PROVE  MovedOK'
    <2>1. \A u \in Workflows : ledger[u] \subseteq ledger'[u]
      BY <1>0, <1>1 DEF Pay
    <2>2. Payment(w, leg, key) \in ledger'[w] /\ Payment(w, leg, key).key = key
      BY <1>0, <1>1 DEF Pay, Payment
    <2>3. \A m \in moved' \ moved : m.of = w /\ m.key = key
      BY <1>1 DEF Pay, Movement
    <2>4. \A m \in moved : m.of \in Workflows
      BY <1>0 DEF Movements
    <2>5. QED
      BY <1>0, <2>1, <2>2, <2>3, <2>4 DEF MovedOK
  <1>2. ASSUME NEW w \in Workflows, NEW leg \in Legs, NEW key \in Keys,
               PayLost(w, leg, key)
        PROVE  MovedOK'
    BY <1>0, <1>2 DEF PayLost, Movement, MovedOK
  <1>3. ASSUME UNCHANGED <<ledger, moved>> PROVE MovedOK'
    BY <1>0, <1>3 DEF MovedOK
  <1>4. ASSUME Leasing \/ Tick \/ UNCHANGED vars PROVE MovedOK'
    BY <1>3, <1>4
    DEF Leasing, ClearContract, CreateContract, Tick, vars, money
  <1>5. ASSUME NEW w \in Workflows, Requesting(w) PROVE MovedOK'
    <2>1. UNCHANGED <<ledger, moved>>
      BY <1>5
      DEF Requesting, CheckInitiate, Initiate, RefuseInitiate, UploadDocument,
          Submit, OwnerApprove, OwnerApproveRequesting, OwnerReject, Cancel,
          Complete, RequestInspection, SelectSlot, OrderReinspection, money
    <2>2. QED
      BY <1>3, <2>1
  <1>6. ASSUME NEW w \in Workflows, AgencyRequests(w) PROVE MovedOK'
    <2>1. UNCHANGED <<ledger, moved>>
      BY <1>6
      DEF AgencyRequests, ProposeSlots, CompleteInspection,
          SubmitDamageReport, money
    <2>2. QED
      BY <1>3, <2>1
  <1>7. ASSUME NEW w \in Workflows, Settling(w) PROVE MovedOK'
    <2>1. ASSUME ApproveSettlement(w) \/ Dispute(w) \/ DownloadNoc(w)
          PROVE  MovedOK'
      BY <1>3, <2>1 DEF ApproveSettlement, Dispute, DownloadNoc, money
    <2>2. QED
      BY <1>7, <1>1, <1>2, <2>1 DEF Settling
  <1>8. QED
    BY <1>4, <1>5, <1>6, <1>7 DEF Next

\* A state that counts is entered by a report, which says whose it is, or by a
\* dispute, which says what it revives; a new assignment has not reported.
LEMMA OperativeStep == IndInv /\ [Next]_vars => OperativeOK'
  <1> SUFFICES ASSUME IndInv, [Next]_vars PROVE OperativeOK'
    OBVIOUS
  <1>0. /\ state \in [Workflows -> States \cup {"none"}]
        /\ bill \in [Workflows -> Bills \cup {NoBill}]
        /\ detour \in [Workflows -> {"none", "late", "revived"}]
        /\ VisitsOK
        /\ OperativeOK
    BY DEF IndInv, TypeOK
  <1>a. \A w \in Workflows :
          /\ visits[w] \in Seq(Visits) /\ Len(visits[w]) \in Nat
          /\ visits[w] # <<>> => Len(visits[w]) \in 1 .. Len(visits[w])
    BY <1>0 DEF VisitsOK
  <1> USE <1>0, <1>a
      DEF leasing, request, damage, money, certificate, OperativeOK, Live,
          Counting
  \* Every step that leaves the visits, the settlement's report and the detour
  \* alone and enters no state that counts from outside.
  <1>1. ASSUME NEW w \in Workflows, NEW t, NEW f,
               f = state[w], state' = [state EXCEPT ![w] = t],
               \/ t \in {"DRAFT", "DOCUMENTS_PENDING", "PENDING_OWNER_APPROVAL",
                         "OWNER_APPROVED", "REJECTED"}
                  /\ f \notin Counting \cup {"CANCELLED"}
               \/ t = "INSPECTION_COMPLETED" /\ f = "INSPECTION_SCHEDULED"
               \/ t = "CANCELLED"
               \/ t \in Counting /\ f \in Counting,
               \A u \in Workflows : bill'[u].attempt = bill[u].attempt,
               UNCHANGED <<visits, detour>>
        PROVE  OperativeOK'
    BY <1>1
  <1>2. ASSUME NEW w \in Workflows, Len(visits[w]) < MaxAttempts,
               visits' = [visits EXCEPT ![w] = Append(@, NewVisit)],
               state' = [state EXCEPT ![w] = "INSPECTION_SCHEDULING"],
               detour'[w] = "none",
               \A u \in Workflows \ {w} : detour'[u] = detour[u],
               \A u \in Workflows : bill'[u].attempt = bill[u].attempt
        PROVE  OperativeOK'
    <2>1. /\ VisitsOK'
          /\ \A u \in Workflows \ {w} : visits'[u] = visits[u]
          /\ visits'[w][Len(visits'[w])] = NewVisit
      BY <1>2, Asking
    <2>2. NewVisit.reported = FALSE
      BY DEF NewVisit
    <2>3. QED
      BY <1>2, <2>1, <2>2
  <1>3. ASSUME NEW w \in Workflows, NEW n \in 1 .. Len(visits[w]),
               NEW v \in Visits, v.reported = visits[w][n].reported,
               visits' = [visits EXCEPT ![w][n] = v],
               \/ UNCHANGED state
               \/ /\ state[w] = "INSPECTION_SCHEDULING"
                  /\ state' = [state EXCEPT ![w] = "INSPECTION_SCHEDULED"],
               UNCHANGED <<bill, detour>>
        PROVE  OperativeOK'
    <2>1. /\ \A u \in Workflows : Len(visits'[u]) = Len(visits[u])
          /\ \A u \in Workflows : \A m \in 1 .. Len(visits[u]) :
               visits'[u][m] = IF u = w /\ m = n THEN v ELSE visits[u][m]
      <3>1. VisitsOK /\ visits' = [visits EXCEPT ![w][n] = v]
        BY <1>3
      <3> HIDE <1>0, <1>a
      <3>2. QED
        BY <3>1, Writing
    <2>2. \A u \in Workflows : Live(u) > 0 =>
            visits'[u][Live(u)].reported = visits[u][Live(u)].reported
      BY <1>3, <2>1
    <2>3. \A u \in Workflows : Live(u)' = Live(u)
      BY <2>1
    <2> HIDE DEF Live
    <2>4. QED
      BY <1>3, <2>2, <2>3
  <1>4. ASSUME NEW w \in Workflows, NEW n \in 1 .. Len(visits[w]),
               NEW total \in Totals, SubmitDamageReport(w, n, total)
        PROVE  OperativeOK'
    <2> DEFINE v == [visits[w][n] EXCEPT !.status = "COMPLETED",
                                         !.reported = TRUE]
    <2>0. visits[w][n] \in Visits
      OBVIOUS
    <2>1. v \in Visits /\ v.reported = TRUE
      BY <2>0 DEF Visits, VisitStatuses
    <2>2. /\ \A u \in Workflows : Len(visits'[u]) = Len(visits[u])
          /\ \A u \in Workflows : \A m \in 1 .. Len(visits[u]) :
               visits'[u][m] = IF u = w /\ m = n THEN v ELSE visits[u][m]
      <3>1. VisitsOK /\ visits' = [visits EXCEPT ![w][n] = v]
        BY <1>4 DEF SubmitDamageReport
      <3> HIDE <1>0, <1>a DEF v
      <3>2. QED
        BY <2>1, <3>1, Writing
    <2>3. /\ state[w] \in {"INSPECTION_SCHEDULED", "INSPECTION_COMPLETED"}
          /\ state' = [state EXCEPT ![w] = "DAMAGE_REVIEW"]
          /\ detour' = [detour EXCEPT
               ![w] = IF n = Live(w) THEN "none" ELSE "late"]
          /\ bill'[w].attempt = n
          /\ \A u \in Workflows \ {w} : bill'[u] = bill[u]
      BY <1>4 DEF SubmitDamageReport, Computed
    <2> HIDE DEF v, Live
    <2>4. \A u \in Workflows : Live(u)' = Live(u)
      BY <2>2 DEF Live
    <2>5. \A u \in Workflows \ {w} : Live(u) > 0 =>
            visits'[u][Live(u)].reported = visits[u][Live(u)].reported
      <3> SUFFICES ASSUME NEW u \in Workflows \ {w}, Live(u) > 0
                   PROVE  visits'[u][Live(u)] = visits[u][Live(u)]
        OBVIOUS
      <3>1. Live(u) \in 1 .. Len(visits[u])
        BY DEF Live
      <3> HIDE <1>0, <1>a
      <3>2. QED
        BY <2>2, <3>1
    <2>6. /\ Live(w) > 0 /\ visits'[w][n].reported
          /\ n # Live(w) => ~visits'[w][Live(w)].reported
      <3>1. n \in 1 .. Len(visits[w]) /\ Live(w) \in 1 .. Len(visits[w])
        BY DEF Live
      <3>2. visits'[w][n] = v
        BY <2>2
      <3>3. n # Live(w) => visits'[w][Live(w)] = visits[w][Live(w)]
        BY <2>2, <3>1
      <3>4. ~visits[w][Live(w)].reported
        BY <2>3, <3>1
      <3>5. QED
        BY <2>1, <3>1, <3>2, <3>3, <3>4
    <2>7. /\ state'[w] = "DAMAGE_REVIEW" /\ bill'[w].attempt = n
          /\ detour'[w] = "none" <=> n = Live(w)
      BY <2>3
    <2>8. \A u \in Workflows \ {w} :
            /\ state'[u] = state[u] /\ bill'[u] = bill[u]
            /\ detour'[u] = detour[u]
      BY <2>3
    <2>9. QED
      BY <2>4, <2>5, <2>6, <2>7, <2>8
  <1>5. ASSUME NEW w \in Workflows, Dispute(w) PROVE OperativeOK'
    <2>1. /\ state[w] \in {"INSPECTION_COMPLETED", "PENDING_SETTLEMENT"}
          /\ state' = [state EXCEPT ![w] = "DAMAGE_REVIEW"]
          /\ UNCHANGED visits
      BY <1>5, Moves DEF Dispute, Enter
    <2>2. \A u \in Workflows : bill'[u].attempt = bill[u].attempt
      BY <1>5 DEF Dispute, Reopened, Bills, NoBill
    <2>3. detour' =
            IF state[w] = "INSPECTION_COMPLETED" /\ bill[w].attempt # Live(w)
            THEN [detour EXCEPT ![w] = "revived"] ELSE detour
      BY <1>5 DEF Dispute
    <2>4. QED
      BY <2>1, <2>2, <2>3
  <1>6. ASSUME UNCHANGED <<state, visits, bill, detour>> PROVE OperativeOK'
    BY <1>6
  <1>7. ASSUME NEW w \in Workflows, NEW paid, Close(w, paid),
               state[w] \in {"DAMAGE_REVIEW", "PENDING_SETTLEMENT"},
               UNCHANGED <<visits, detour>>
        PROVE  OperativeOK'
    <2>1. \A u \in Workflows : bill'[u].attempt = bill[u].attempt
      <3> HIDE <1>a DEF OperativeOK
      <3>1. \E b : bill' = [bill EXCEPT ![w].status = b, ![w].paid = paid]
        BY <1>7 DEF Close
      <3>2. QED
        BY <3>1 DEF Bills, NoBill
    <2>2. \E t \in Counting : state' = [state EXCEPT ![w] = t]
      BY <1>7 DEF Close
    <2>3. QED
      BY <1>1, <1>7, <2>1, <2>2
  <1> HIDE <1>0, <1>a DEF OperativeOK, Live, Counting
  <1>8. ASSUME Leasing PROVE OperativeOK'
    BY <1>8, <1>6 DEF Leasing, ClearContract, CreateContract
  <1>9. ASSUME NEW w \in Workflows, Requesting(w) PROVE OperativeOK'
    <2>1. ASSUME Initiate(w) PROVE OperativeOK'
      <3>1. state[w] = "none"
        BY <2>1 DEF Initiate, IndInv, RowsOK
      <3>2. QED
        BY <1>1, <2>1, <3>1 DEF Initiate, Counting
    <2>2. ASSUME Submit(w) \/ OwnerApprove(w) \/ OwnerReject(w) \/ Cancel(w)
                   \/ Complete(w)
          PROVE  OperativeOK'
      <3>1. PICK t : /\ Can(state[w], t) /\ state' = [state EXCEPT ![w] = t]
                     /\ \/ t \in {"PENDING_OWNER_APPROVAL", "OWNER_APPROVED",
                                  "REJECTED", "CANCELLED"}
                        \/ t = "COMPLETED"
        BY <2>2
        DEF Submit, OwnerApprove, OwnerReject, Cancel, Complete, Enter
      <3>2. UNCHANGED <<visits, detour, bill>>
        BY <2>2 DEF Submit, OwnerApprove, OwnerReject, Cancel, Complete
      <3>3. \/ t \in {"PENDING_OWNER_APPROVAL", "OWNER_APPROVED", "REJECTED"}
               /\ state[w] \notin Counting \cup {"CANCELLED"}
            \/ t = "CANCELLED"
            \/ t \in Counting /\ state[w] \in Counting
        BY <3>1, Moves DEF Counting
      <3>4. QED
        BY <1>1, <3>1, <3>2, <3>3
    <2>3. ASSUME OwnerApproveRequesting(w) PROVE OperativeOK'
      <3>1. state[w] \notin Counting \cup {"CANCELLED"}
        BY <2>3, Moves DEF OwnerApproveRequesting, Counting
      <3>2. detour'[w] = "none" /\ detour' = detour
        BY <1>0, <2>3, <3>1 DEF OwnerApproveRequesting, OperativeOK
      <3>3. QED
        BY <1>2, <2>3, <3>2 DEF OwnerApproveRequesting
    <2>4. ASSUME RequestInspection(w) \/ OrderReinspection(w)
          PROVE  OperativeOK'
      <3>1. \A u \in Workflows : bill'[u].attempt = bill[u].attempt
        BY <1>0, <2>4
        DEF RequestInspection, OrderReinspection, Bills, NoBill
      <3>2. /\ detour'[w] = "none"
            /\ \A u \in Workflows \ {w} : detour'[u] = detour[u]
        BY <1>0, <2>4 DEF RequestInspection, OrderReinspection
      <3>3. QED
        BY <1>2, <2>4, <3>1, <3>2
        DEF RequestInspection, OrderReinspection, Enter
    <2>5. ASSUME NEW h \in Hours, SelectSlot(w, h) PROVE OperativeOK'
      <3> DEFINE v == [visits[w][Live(w)] EXCEPT !.status = "SCHEDULED",
                                                 !.picked = h]
      <3>1. /\ state[w] = "INSPECTION_SCHEDULING"
            /\ state' = [state EXCEPT ![w] = "INSPECTION_SCHEDULED"]
            /\ visits' = [visits EXCEPT ![w][Live(w)] = v]
            /\ UNCHANGED <<bill, detour>>
        BY <2>5 DEF SelectSlot, Enter
      <3>2. Live(w) \in 1 .. Len(visits[w]) /\ visits[w][Live(w)] \in Visits
        BY <1>0, <1>a, <3>1 DEF IndInv, RowsOK, Live
      <3>3. v \in Visits /\ v.reported = visits[w][Live(w)].reported
        BY <3>2 DEF Visits, VisitStatuses
      <3> HIDE DEF v
      <3>4. QED
        BY <1>3, <3>1, <3>2, <3>3
    <2>6. ASSUME \/ \E c \in Contracts, d \in Days : CheckInitiate(w, c, d)
                 \/ RefuseInitiate(w)
                 \/ \E kind \in Kinds : UploadDocument(w, kind)
          PROVE  OperativeOK'
      BY <2>6, <1>6 DEF CheckInitiate, RefuseInitiate, UploadDocument
    <2>7. QED
      BY <1>9, <2>1, <2>2, <2>3, <2>4, <2>5, <2>6 DEF Requesting
  <1>10. ASSUME NEW w \in Workflows, AgencyRequests(w) PROVE OperativeOK'
    <2>1. ASSUME NEW n \in 1 .. Len(visits[w]), NEW hours \in SUBSET Hours,
                 ProposeSlots(w, n, hours)
          PROVE  OperativeOK'
      <3>1. visits[w][n] \in Visits
        BY <1>a
      <3>2. PICK written \in VisitStatuses :
              visits' = [visits EXCEPT ![w][n] = Offered(@, written, hours)]
        BY <2>1, <3>1 DEF ProposeSlots, Visits, VisitStatuses
      <3>3. /\ Offered(visits[w][n], written, hours) \in Visits
            /\ Offered(visits[w][n], written, hours).reported =
                 visits[w][n].reported
        BY <3>1 DEF Visits, Offered
      <3>4. UNCHANGED <<state, bill, detour>>
        BY <2>1 DEF ProposeSlots
      <3>5. QED
        BY <1>3, <3>2, <3>3, <3>4
    <2>2. ASSUME CompleteInspection(w) PROVE OperativeOK'
      BY <1>1, <2>2, Moves DEF CompleteInspection, Enter
    <2>3. QED
      BY <1>10, <1>4, <2>1, <2>2 DEF AgencyRequests
  <1>11. ASSUME NEW w \in Workflows, Settling(w) PROVE OperativeOK'
    <2>1. ASSUME ApproveSettlement(w) PROVE OperativeOK'
      BY <1>7, <2>1, Moves DEF ApproveSettlement
    <2>2. ASSUME NEW leg \in Legs, NEW key \in Keys, Pay(w, leg, key)
          PROVE  OperativeOK'
      BY <1>7, <2>2 DEF Pay, Payable
    <2>3. ASSUME NEW leg \in Legs, NEW key \in Keys, PayLost(w, leg, key)
          PROVE  OperativeOK'
      BY <1>6, <2>3 DEF PayLost
    <2>4. ASSUME DownloadNoc(w) PROVE OperativeOK'
      BY <1>1, <1>6, <2>4 DEF DownloadNoc, Enter, Counting
    <2>5. QED
      BY <1>11, <1>5, <2>1, <2>2, <2>3, <2>4 DEF Settling
  <1>12. ASSUME Tick \/ UNCHANGED vars PROVE OperativeOK'
    BY <1>12, <1>6 DEF Tick, vars
  <1>13. QED
    BY <1>8, <1>9, <1>10, <1>11, <1>12 DEF Next

\* The history of the superseded reports has its three values.
LEMMA DetourStep ==
  IndInv /\ [Next]_vars =>
    detour' \in [Workflows -> {"none", "late", "revived"}]
  <1> SUFFICES ASSUME IndInv, [Next]_vars
               PROVE  detour' \in [Workflows -> {"none", "late", "revived"}]
    OBVIOUS
  <1>0. detour \in [Workflows -> {"none", "late", "revived"}]
    BY DEF IndInv, TypeOK
  <1> DEFINE Good == detour' \in [Workflows -> {"none", "late", "revived"}]
  <1>1. ASSUME Leasing \/ Tick \/ UNCHANGED vars PROVE Good
    <2>1. UNCHANGED detour
      BY <1>1
      DEF Leasing, ClearContract, CreateContract, Tick, vars, damage
    <2>2. QED
      BY <1>0, <2>1
  <1>2. ASSUME NEW w \in Workflows, Requesting(w) PROVE Good
    <2>1. detour' \in {detour, [detour EXCEPT ![w] = "none"]}
      BY <1>2
      DEF Requesting, CheckInitiate, Initiate, RefuseInitiate, UploadDocument,
          Submit, OwnerApprove, OwnerApproveRequesting, OwnerReject, Cancel,
          Complete, RequestInspection, SelectSlot, OrderReinspection, damage
    <2>2. QED
      BY <1>0, <2>1
  <1>3. ASSUME NEW w \in Workflows, AgencyRequests(w) PROVE Good
    <2>1. \/ UNCHANGED detour
          \/ \E d \in {"none", "late"} : detour' = [detour EXCEPT ![w] = d]
      BY <1>3
      DEF AgencyRequests, ProposeSlots, CompleteInspection,
          SubmitDamageReport, damage
    <2>2. QED
      BY <1>0, <2>1
  <1>4. ASSUME NEW w \in Workflows, Settling(w) PROVE Good
    <2>1. detour' \in {detour, [detour EXCEPT ![w] = "revived"]}
      BY <1>4
      DEF Settling, ApproveSettlement, Dispute, Pay, PayLost, DownloadNoc,
          damage
    <2>2. QED
      BY <1>0, <2>1
  <1>5. QED
    BY <1>1, <1>2, <1>3, <1>4 DEF Next

\* Every step writes values of the columns' types.
LEMMA TypeStep == IndInv /\ [Next]_vars => TypeOK'
  <1> SUFFICES ASSUME IndInv, [Next]_vars PROVE TypeOK'
    OBVIOUS
  <1>0. /\ TypeOK
        /\ RowsOK
        /\ AgreeOK
    BY DEF IndInv, TypeOK, VisitsOK, RowsOK
  <1> USE A1ExitAssumption, <1>0
      DEF leasing, request, damage, money, certificate, TypeOK
  <1>a. VisitsOK' /\ RowsOK'
    BY VisitsStep, RowsStep
  <1>b. /\ \A w \in Workflows :
             /\ Len(visits'[w]) <= MaxAttempts
             /\ \A n \in 1 .. Len(visits'[w]) : visits'[w][n] \in Visits
        /\ \A w \in Workflows : ledger'[w] \subseteq Payments
        /\ detour' \in [Workflows -> {"none", "late", "revived"}]
    BY <1>a, DetourStep DEF VisitsOK, RowsOK
  <1> USE <1>b
  <1>1. ASSUME NEW c \in Contracts, ClearContract(c) PROVE TypeOK'
    BY <1>1 DEF ClearContract
  <1>2. ASSUME NEW c \in Contracts, CreateContract(c) PROVE TypeOK'
    BY <1>2 DEF CreateContract
  <1>3. ASSUME NEW w \in Workflows, NEW c \in Contracts, NEW d \in Days,
               CheckInitiate(w, c, d)
        PROVE  TypeOK'
    BY <1>3 DEF CheckInitiate
  <1>4. ASSUME NEW w \in Workflows, Initiate(w) PROVE TypeOK'
    <2>1. opening[w] \in Contracts
      BY <1>4 DEF Initiate
    <2>2. "DRAFT" \in States /\ "DOCUMENTS_PENDING" \in States
      BY DEF States
    <2>3. QED
      BY <1>4, <2>1, <2>2 DEF Initiate
  <1>5. ASSUME NEW w \in Workflows, RefuseInitiate(w) PROVE TypeOK'
    BY <1>5 DEF RefuseInitiate
  <1>6. ASSUME NEW w \in Workflows, NEW kind \in Kinds,
               UploadDocument(w, kind)
        PROVE  TypeOK'
    BY <1>6 DEF UploadDocument
  <1>7. ASSUME NEW w \in Workflows, Submit(w) PROVE TypeOK'
    BY <1>7, Moves DEF Submit, Enter
  <1>8. ASSUME NEW w \in Workflows, OwnerApprove(w) PROVE TypeOK'
    BY <1>8, Moves DEF OwnerApprove, Enter
  <1>9. ASSUME NEW w \in Workflows, OwnerApproveRequesting(w)
        PROVE  TypeOK'
    BY <1>9, Moves DEF OwnerApproveRequesting
  <1>10. ASSUME NEW w \in Workflows, OwnerReject(w) PROVE TypeOK'
    BY <1>10, Moves DEF OwnerReject, Enter
  <1>11. ASSUME NEW w \in Workflows, Cancel(w) PROVE TypeOK'
    BY <1>11, Moves DEF Cancel, Enter, Cancellable
  <1>12. ASSUME NEW w \in Workflows, Complete(w) PROVE TypeOK'
    BY <1>12, Moves DEF Complete, Enter
  <1>13. ASSUME NEW w \in Workflows, RequestInspection(w) PROVE TypeOK'
    BY <1>13, Moves DEF RequestInspection, Enter
  <1>14. ASSUME NEW w \in Workflows, NEW h \in Hours, SelectSlot(w, h)
        PROVE  TypeOK'
    BY <1>14, Moves DEF SelectSlot, Enter, Live
  <1>15. ASSUME NEW w \in Workflows, OrderReinspection(w) PROVE TypeOK'
    <2>1. bill[w] \in Bills
      BY <1>15, Moves DEF OrderReinspection, NoBill, AgreeOK
    <2>2. [bill[w] EXCEPT !.status = "VOID"] \in Bills
      BY <2>1 DEF Bills, SettlementStatuses
    <2>3. bill' = [bill EXCEPT ![w] = [@ EXCEPT !.status = "VOID"]]
      BY <1>15, <2>1 DEF OrderReinspection, Bills
    <2>4. state' \in [Workflows -> States \cup {"none"}]
      BY <1>15, Moves DEF OrderReinspection, Enter
    <2>5. UNCHANGED <<contract, opening, docs, signed, cleared, report, moved,
                      noc, downloaded, now>>
      BY <1>15 DEF OrderReinspection
    <2>6. QED
      BY <2>2, <2>3, <2>4, <2>5
  <1>16. ASSUME NEW w \in Workflows, NEW n \in 1 .. Len(visits[w]),
                NEW hours \in SUBSET Hours,
               ProposeSlots(w, n, hours)
        PROVE  TypeOK'
    BY <1>16 DEF ProposeSlots
  <1>17. ASSUME NEW w \in Workflows, NEW n \in 1 .. Len(visits[w]),
                NEW total \in Totals,
               SubmitDamageReport(w, n, total)
        PROVE  TypeOK'
    <2>1. /\ state[w] # "none" /\ n \in Nat /\ total \in Nat
      BY <1>17, A1ExitAssumption DEF SubmitDamageReport
    <2>2. DepositOf[contract[w]] \in Nat
      BY <2>1, A1ExitAssumption DEF RowsOK
    <2>3. Computed(w, n, total) \in Bills
      BY <2>1, <2>2, Figuring DEF Computed, Bills, SettlementStatuses
    <2>4. [attempt |-> n, total |-> total] \in Reports
      BY <2>1 DEF Reports
    <2>5. /\ bill' = [bill EXCEPT ![w] = Computed(w, n, total)]
          /\ report' = [report EXCEPT ![w] = [attempt |-> n, total |-> total]]
          /\ state' = [state EXCEPT ![w] = "DAMAGE_REVIEW"]
          /\ UNCHANGED <<contract, opening, docs, signed, cleared, moved, noc,
                         downloaded, now>>
      BY <1>17 DEF SubmitDamageReport
    <2>6. "DAMAGE_REVIEW" \in States
      BY DEF States
    <2>7. QED
      BY <2>3, <2>4, <2>5, <2>6
  <1>18. ASSUME NEW w \in Workflows, CompleteInspection(w) PROVE TypeOK'
    BY <1>18, Moves DEF CompleteInspection, Enter
  <1>19. ASSUME NEW w \in Workflows, ApproveSettlement(w) PROVE TypeOK'
    <2>1. bill[w] \in Bills /\ bill[w].figures \in Figures
      BY <1>19 DEF ApproveSettlement, NoBill, Bills
    <2> DEFINE Row(s) == [bill[w] EXCEPT !.status = s, !.paid = ZeroLegs(w)]
    <2>2. Row("CLOSED") \in Bills /\ Row("PAYABLE") \in Bills
      BY <2>1 DEF Bills, SettlementStatuses, ZeroLegs
    <2>3. PICK s \in {"CLOSED", "PAYABLE"} :
            bill' = [bill EXCEPT ![w] = Row(s)]
      BY <1>19, <2>1 DEF ApproveSettlement, Close, Bills
    <2>4. /\ state' \in [Workflows -> States \cup {"none"}]
          /\ noc' \in [Workflows -> Figures \cup {NoNoc}]
      <3>1. CASE Settled(ZeroLegs(w))
        <4>1. /\ state' = [state EXCEPT ![w] = "NOC_ISSUED"]
              /\ noc' = [noc EXCEPT ![w] = bill[w].figures]
          BY <1>19, <3>1 DEF ApproveSettlement, Close
        <4>2. QED
          BY <2>1, <4>1, Closing
      <3>2. CASE ~Settled(ZeroLegs(w))
        <4>1. state' = [state EXCEPT ![w] = "PENDING_SETTLEMENT"] /\ noc' = noc
          BY <1>19, <3>2 DEF ApproveSettlement, Close
        <4>2. QED
          BY <4>1, Closing
      <3>3. QED
        BY <3>1, <3>2
    <2>5. UNCHANGED <<contract, opening, docs, signed, cleared, report, moved,
                      downloaded, now>>
      BY <1>19 DEF ApproveSettlement
    <2> HIDE DEF Row
    <2>6. QED
      BY <2>2, <2>3, <2>4, <2>5
  <1>20. ASSUME NEW w \in Workflows, Dispute(w) PROVE TypeOK'
    <2>1. bill[w] \in Bills
      BY <1>20 DEF Dispute, Reopened, NoBill, AgreeOK
    <2>2. [bill[w] EXCEPT !.status = "DRAFT", !.paid = {}] \in Bills
      BY <2>1 DEF Bills, SettlementStatuses
    <2>3. bill' = [bill EXCEPT
            ![w] = [@ EXCEPT !.status = "DRAFT", !.paid = {}]]
      BY <1>20, <2>1 DEF Dispute, Reopened, Bills
    <2>4. state' \in [Workflows -> States \cup {"none"}]
      BY <1>20, Moves DEF Dispute, Enter
    <2>5. UNCHANGED <<contract, opening, docs, signed, cleared, report, moved,
                      noc, downloaded, now>>
      BY <1>20 DEF Dispute
    <2>6. QED
      BY <2>2, <2>3, <2>4, <2>5
  <1>21. ASSUME NEW w \in Workflows, NEW leg \in Legs, NEW key \in Keys,
               Pay(w, leg, key)
        PROVE  TypeOK'
    <2>1. Settled(bill[w].paid \cup {leg})
      BY <1>21, Paying DEF Pay
    <2>2. bill[w] \in Bills /\ bill[w].figures \in Figures
      BY <1>21 DEF Pay, Payable, Bills, NoBill, SettlementStatuses
    <2>3. [bill[w] EXCEPT !.status = "CLOSED", !.paid = @ \cup {leg}] \in Bills
      BY <2>2 DEF Bills, SettlementStatuses
    <2>4. /\ bill' = [bill EXCEPT ![w] =
               [@ EXCEPT !.status = "CLOSED",
                         !.paid = bill[w].paid \cup {leg}]]
          /\ noc' = [noc EXCEPT ![w] = bill[w].figures]
          /\ state' = [state EXCEPT ![w] = "NOC_ISSUED"]
      BY <1>21, <2>1, <2>2 DEF Pay, Close, Bills
    <2>8. LegAmount(bill[w].figures, leg) \in Nat
      BY <2>2 DEF LegAmount, Figures
    <2>9. Movement(w, leg, key, FALSE) \in Movements
      BY <2>8 DEF Movement, Movements
    <2>7. moved' \subseteq Movements
      BY <1>21, <2>9 DEF Pay
    <2>5. UNCHANGED <<contract, opening, docs, signed, cleared, report,
                      downloaded, now>>
      BY <1>21 DEF Pay
    <2>6. QED
      BY <2>2, <2>3, <2>4, <2>5, <2>7, Closing
  <1>22. ASSUME NEW w \in Workflows, NEW leg \in Legs, NEW key \in Keys,
               PayLost(w, leg, key)
        PROVE  TypeOK'
    <2>1. bill[w].figures \in Figures
      BY <1>22 DEF PayLost, Payable, Bills, NoBill, SettlementStatuses
    <2>2. LegAmount(bill[w].figures, leg) \in Nat
      BY <2>1 DEF LegAmount, Figures
    <2>3. Movement(w, leg, key, TRUE) \in Movements
      BY <2>2 DEF Movement, Movements
    <2>4. moved' \subseteq Movements
      BY <1>22, <2>3 DEF PayLost
    <2>5. QED
      BY <1>22, <2>4 DEF PayLost
  <1>23. ASSUME NEW w \in Workflows, DownloadNoc(w) PROVE TypeOK'
    BY <1>23, Moves DEF DownloadNoc, Enter
  <1>24. ASSUME Tick PROVE TypeOK'
    BY <1>24 DEF Tick
  <1>25. ASSUME UNCHANGED vars
        PROVE  TypeOK'
    <2>1. UNCHANGED <<state, contract, opening, docs, leasing, report, bill,
                      moved, certificate, now>>
      BY <1>25 DEF vars
    <2>2. QED
      BY <2>1
  <1> HIDE <1>0 DEF TypeOK
  <1>26. ASSUME Leasing PROVE TypeOK'
    BY <1>26, <1>1, <1>2 DEF Leasing
  <1>27. ASSUME NEW w \in Workflows, Requesting(w) PROVE TypeOK'
    BY <1>27, <1>3, <1>4, <1>5, <1>6, <1>7, <1>8, <1>9, <1>10, <1>11, <1>12,
       <1>13, <1>14, <1>15
    DEF Requesting
  <1>28. ASSUME NEW w \in Workflows, AgencyRequests(w) PROVE TypeOK'
    BY <1>28, <1>16, <1>17, <1>18 DEF AgencyRequests
  <1>29. ASSUME NEW w \in Workflows, Settling(w) PROVE TypeOK'
    BY <1>29, <1>19, <1>20, <1>21, <1>22, <1>23 DEF Settling
  <1>30. QED
    BY <1>25, <1>26, <1>27, <1>28, <1>29, <1>24 DEF Next

\* IndInv holds in every reachable state.
THEOREM Invariance == Spec => []IndInv
  <1>1. IndInv /\ [Next]_vars => IndInv'
    BY TypeStep, VisitsStep, RowsStep, AgreeStep, ComputedStep,
       AppointmentStep, OwedStep, MovedStep, OperativeStep, PaidStep
    DEF IndInv
  <1>2. QED
    BY InitInd, <1>1, PTL DEF Spec

-----------------------------------------------------------------------------
\* Every row has values of the columns' types, whatever the requests.
THEOREM TypeCorrect == Spec => []TypeOK
  <1>1. IndInv => TypeOK
    BY DEF IndInv
  <1>2. QED
    BY Invariance, <1>1, PTL

\* The exit and its settlement never contradict each other: over disputes,
\* re-inspections and inspections requested past the settlement, the state of
\* the one fixes the status of the other.
THEOREM SettlementFollows == Spec => []SettlementAgrees
  <1>1. IndInv => SettlementAgrees
    BY DEF IndInv, AgreeOK, Certified, SettlementAgrees
  <1>2. QED
    BY Invariance, <1>1, PTL

\* For every deposit and every report, the settlement's figures are those of
\* the report filed last, and that is the live assignment's once this has
\* reported; an exit counts on a superseded report only by one of the two
\* detours, a late report or a dispute that revives its settlement.
THEOREM SettlesOperative == Spec => []SettlesOperativeReport
  <1>1. IndInv => SettlesOperativeReport
    BY DEF IndInv, OperativeOK, Counting, SettlesOperativeReport
  <1>2. QED
    BY Invariance, <1>1, PTL

\* A confirmed appointment is the live assignment's, at an hour its agency
\* offered, in spite of writes to older assignments and of stale reads.
THEOREM AppointmentHolds == Spec => []AppointmentIsLive
  <1>1. IndInv => AppointmentIsLive
    BY DEF IndInv
  <1>2. QED
    BY Invariance, <1>1, PTL

\* Money that the tables know of was paid once, in full, for the leg that is
\* owed, by an exit that is certified with the same figures.
THEOREM MoneyIsFinal == Spec => []PaidIsFinal
  <1>1. IndInv => PaidIsFinal
    BY DEF IndInv
  <1>2. QED
    BY Invariance, <1>1, PTL

=============================================================================
