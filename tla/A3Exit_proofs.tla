--------------------------- MODULE A3Exit_proofs ---------------------------
(***************************************************************************)
(* Proofs about A3Exit, for any number of exits, contracts, keys, hours,   *)
(* attempts and payouts, every deposit and every damage report.            *)
(*                                                                         *)
(* IndInv adds to the four invariants of the run what they rest on: the    *)
(* report is final exactly when there is a settlement, which ties the      *)
(* settlement to the last three statuses (SettlementOK); a key that was    *)
(* used owns one row of one ledger and a key that was not owns none, which *)
(* a row keeps through reconciliation (LedgerOK); and the progress columns *)
(* follow the status, not the other way round (MarksOK).                   *)
(***************************************************************************)
EXTENDS A3Exit, FiniteSetTheorems, WellFoundedInduction, TLAPS

\* One row for each exit in every table; an exit has a contract.
RowsOK ==
  /\ ledger \in [Workflows -> SUBSET Payments]
  /\ moved \in [Workflows -> SUBSET (1 .. MaxPayouts)]
  /\ \A w \in Workflows : status[w] # "none" => contract[w] \in Contracts

\* The part of InspectionAgrees that is not typing.
InspectionOK ==
  \A w \in Workflows :
    /\ status[w] = "INSPECTION_REQUESTED" =>
         visit[w] \in {"REQUESTED", "SLOTS_PROPOSED"}
    /\ status[w] = "INSPECTION_SCHEDULED" =>
         visit[w] = "SCHEDULED" /\ picked[w] # Nobody
    /\ status[w] \in {"DAMAGE_REVIEW", "SETTLEMENT_PENDING", "COMPLETED"} =>
         visit[w] = "COMPLETED" /\ report[w].attempt = attempt[w]

\* A settlement begins with the final report and ends with the exit.
SettlementOK ==
  \A w \in Workflows :
    /\ settlement[w] # "none" <=> report[w].status = "FINALIZED"
    /\ settlement[w] # "none" =>
         status[w] \in {"SETTLEMENT_PENDING", "COMPLETED", "CANCELLED"}
    /\ status[w] \in {"SETTLEMENT_PENDING", "COMPLETED"} =>
         settlement[w] # "none"
    /\ settlement[w] = "none" => minted[w] = 0

\* The only row with this key, of all in the ledgers L, is row r of exit w.
OwnRow(L, k, w, r) ==
  /\ r.key = k
  /\ \A v \in Workflows : \A s \in L[v] : s.key = k => v = w /\ s = r

\* What an answer stored under a key refers to.
LedgerOK ==
  \A k \in Keys :
    /\ keys[k] = Nobody => \A v \in Workflows : \A s \in ledger[v] : s.key # k
    /\ keys[k] # Nobody =>
         /\ keys[k].answer = "paid" => settlement[keys[k].of] = "PAID"
         /\ \E r \in ledger[keys[k].of] : OwnRow(ledger, k, keys[k].of, r)

\* The progress columns behind the ten-step view.
MarksOK ==
  \A w \in Workflows :
    /\ status[w] \notin {"none", "INITIATED", "CANCELLED"} =>
         "submitted" \in marks[w]
    /\ visit[w] = "SCHEDULED" => "scheduled" \in marks[w]
    /\ status[w] \in {"DAMAGE_REVIEW", "SETTLEMENT_PENDING", "COMPLETED"} =>
         "scheduled" \in marks[w]
    /\ "reviewed" \in marks[w] <=> settlement[w] # "none"
    /\ "settled" \in marks[w] <=> settlement[w] = "PAID"
    /\ status[w] = "COMPLETED" => "completed" \in marks[w]

\* And what a mark says of the row: every mark but the appointment's stays
\* true, and the appointment's is outdated only in the ways of Outdated.
ViewOK ==
  \A w \in Workflows :
    /\ "submitted" \in marks[w] => status[w] \notin {"none", "INITIATED"}
    /\ "completed" \in marks[w] => status[w] = "COMPLETED"
    /\ "downloaded" \in marks[w] => noc[w] # "none"
    /\ "scheduled" \in marks[w] =>
         visit[w] \in {"SCHEDULED", "COMPLETED"} \/ Outdated(w)
    /\ visit[w] = "SCHEDULED" =>
         status[w] \in {"INSPECTION_SCHEDULED", "OWNER_APPROVED", "CANCELLED"}
    /\ visit[w] # "none" => attempt[w] \in Nat \ {0}
    /\ visit[w] = "COMPLETED" => report[w].attempt = attempt[w]

IndInv ==
  /\ TypeOK
  /\ InspectionOK
  /\ RowsOK
  /\ SettlementOK
  /\ PaidIsTrue
  /\ LedgerOK
  /\ MarksOK
  /\ ViewOK

-----------------------------------------------------------------------------
\* What a transition by the table says of the status it starts from.
LEMMA Moves ==
  ASSUME NEW f, NEW t, NEW role, May(f, t, role)
  PROVE  /\ f \in ActiveStatuses /\ f # "none" /\ t \in Statuses
         /\ t = "PENDING_OWNER_APPROVAL" => f = "INITIATED"
         /\ t = "REJECTED" => f = "PENDING_OWNER_APPROVAL"
         /\ t = "OWNER_APPROVED" =>
              f \in {"PENDING_OWNER_APPROVAL", "INSPECTION_REQUESTED",
                     "INSPECTION_SCHEDULED", "DAMAGE_REVIEW"}
         /\ t = "INSPECTION_REQUESTED" =>
              f \in {"OWNER_APPROVED", "INSPECTION_SCHEDULED"}
         /\ t = "INSPECTION_SCHEDULED" => f = "INSPECTION_REQUESTED"
         /\ t = "INSPECTION_COMPLETED" => f = "INSPECTION_SCHEDULED"
         /\ t = "SETTLEMENT_PENDING" => f = "DAMAGE_REVIEW"
         /\ t = "SETTLEMENT_COMPLETED" => f = "SETTLEMENT_PENDING"
  BY DEF May, Table, Row, Statuses, ActiveStatuses, Terminal

\* The same of a command that enters a status.
LEMMA Entering ==
  ASSUME NEW w, NEW t, NEW roles, Enter(w, t, roles)
  PROVE  /\ status' = [status EXCEPT ![w] = t]
         /\ status[w] \in ActiveStatuses /\ status[w] # "none"
         /\ t \in Statuses
         /\ t = "PENDING_OWNER_APPROVAL" => status[w] = "INITIATED"
         /\ t = "REJECTED" => status[w] = "PENDING_OWNER_APPROVAL"
         /\ t = "OWNER_APPROVED" =>
              status[w] \in {"PENDING_OWNER_APPROVAL", "INSPECTION_REQUESTED",
                             "INSPECTION_SCHEDULED", "DAMAGE_REVIEW"}
         /\ t = "INSPECTION_REQUESTED" =>
              status[w] \in {"OWNER_APPROVED", "INSPECTION_SCHEDULED"}
         /\ t = "INSPECTION_SCHEDULED" => status[w] = "INSPECTION_REQUESTED"
         /\ t = "SETTLEMENT_PENDING" => status[w] = "DAMAGE_REVIEW"
  BY Moves DEF Enter

\* A report ends an appointment, and a certificate a settlement.
LEMMA Reporting ==
  ASSUME NEW w, NEW lines, SubmitDamageReport(w, lines)
  PROVE  status[w] = "INSPECTION_SCHEDULED"
  BY Moves DEF SubmitDamageReport

LEMMA Completing ==
  ASSUME NEW w, Complete(w)
  PROVE  status[w] = "SETTLEMENT_PENDING"
  BY Moves DEF Complete

\* A refund and a debt are amounts.
LEMMA Figuring ==
  ASSUME NEW deposit \in Nat, NEW deduction \in Nat
  PROVE  Breakdown(deposit, deduction) \in Figures
  BY DEF Breakdown, FloorZero, Figures

\* The row a payment adds.
Entry(w, k, outcome) == [tx |-> NextTx(w), key |-> k, status |-> outcome]

\* A payment is of a settlement that is open, and has a row of its own.
LEMMA Paying ==
  ASSUME IndInv, NEW w \in Workflows, NEW k \in Keys, Fresh(w, k)
  PROVE  /\ status[w] = "SETTLEMENT_PENDING"
         /\ settlement[w] \notin {"none", "PAID", "PROCESSING"}
         /\ keys[k] = Nobody
         /\ NextTx(w) \in 1 .. MaxPayouts
         /\ \A outcome \in PaymentStatuses :
              Entry(w, k, outcome) \in Payments
  <1>1. minted[w] \in Nat /\ minted[w] < MaxPayouts /\ MaxPayouts \in Nat
    BY A3ExitAssumption DEF Fresh, IndInv, TypeOK
  <1>2. NextTx(w) \in 1 .. MaxPayouts
    BY <1>1 DEF NextTx
  <1>3. NextTx(w) \in Nat \ {0}
    BY <1>2, A3ExitAssumption
  <1>4. QED
    BY <1>2, <1>3 DEF Fresh, MayPay, Entry, Payments, IndInv, SettlementOK

\* A request that was answered has added one row under its key.
LEMMA Attempting ==
  ASSUME IndInv, NEW w \in Workflows, NEW k \in Keys, Fresh(w, k),
         NEW outcome \in PaymentStatuses,
         NEW answer \in {"paid", "declined", "unknown"},
         Attempt(w, k, outcome, answer)
  PROVE  /\ Entry(w, k, outcome) \in Payments
         /\ minted' = [minted EXCEPT ![w] = NextTx(w)]
         /\ ledger' = [ledger EXCEPT ![w] = @ \cup {Entry(w, k, outcome)}]
         /\ keys' = [keys EXCEPT ![k] = [of |-> w, answer |-> answer]]
         /\ [of |-> w, answer |-> answer] \in Answers
  BY Paying DEF Attempt, Remembered, Answers, Entry

\* A key that had no row gets one.
LEMMA NewRow ==
  ASSUME RowsOK, LedgerOK, keys \in [Keys -> Answers \cup {Nobody}],
         NEW w \in Workflows, NEW k \in Keys, keys[k] = Nobody,
         NEW row, row.key = k, NEW a \in Answers, a.of = w,
         ledger' = [ledger EXCEPT ![w] = @ \cup {row}],
         keys' = [keys EXCEPT ![k] = a],
         a.answer = "paid" => settlement'[w] = "PAID",
         \A v \in Workflows : settlement[v] = "PAID" => settlement'[v] = "PAID"
  PROVE  LedgerOK'
  <1> SUFFICES ASSUME NEW j \in Keys
               PROVE  /\ keys'[j] = Nobody =>
                           \A v \in Workflows : \A s \in ledger'[v] : s.key # j
                      /\ keys'[j] # Nobody =>
                           /\ keys'[j].answer = "paid" =>
                                settlement'[keys'[j].of] = "PAID"
                           /\ \E r \in ledger'[keys'[j].of] :
                                OwnRow(ledger', j, keys'[j].of, r)
    BY DEF LedgerOK, OwnRow
  <1>1. \A v \in Workflows :
          ledger'[v] = IF v = w THEN ledger[w] \cup {row} ELSE ledger[v]
    BY DEF RowsOK
  <1>2. CASE j = k
    <2>1. keys'[k] = a /\ a # Nobody
      BY KeysAssumption
    <2>2. \A v \in Workflows : \A s \in ledger[v] : s.key # k
      BY DEF LedgerOK
    <2>3. row \in ledger'[w] /\ OwnRow(ledger', k, w, row)
      BY <1>1, <2>2 DEF OwnRow
    <2>4. QED
      BY <1>2, <2>1, <2>3
  <1>3. CASE j # k
    <2>1. keys'[j] = keys[j]
      BY <1>3
    <2>2. CASE keys[j] = Nobody
      BY <1>1, <1>3, <2>1, <2>2 DEF LedgerOK
    <2>3. CASE keys[j] # Nobody
      <3> DEFINE o == keys[j].of
      <3>1. o \in Workflows
        BY <2>3 DEF Answers
      <3>2. PICK r \in ledger[o] : OwnRow(ledger, j, o, r)
        BY <2>3 DEF LedgerOK
      <3>3. r \in ledger'[o] /\ OwnRow(ledger', j, o, r)
        BY <1>1, <1>3, <3>1, <3>2 DEF OwnRow
      <3>4. QED
        BY <2>1, <2>3, <3>1, <3>3 DEF LedgerOK
    <2>4. QED
      BY <2>2, <2>3
  <1>4. QED
    BY <1>2, <1>3

\* A row that is resolved keeps its key.
LEMMA ResolvedRow ==
  ASSUME RowsOK, LedgerOK, keys \in [Keys -> Answers \cup {Nobody}],
         NEW w \in Workflows, NEW r \in ledger[w],
         NEW outcome \in PaymentStatuses, Resolve(w, r, outcome),
         UNCHANGED keys,
         \A v \in Workflows : settlement[v] = "PAID" => settlement'[v] = "PAID"
  PROVE  LedgerOK'
  <1> DEFINE new == [r EXCEPT !.status = outcome]
  <1>1. new.key = r.key
    BY DEF RowsOK, Payments
  <1>2. \A v \in Workflows :
          ledger'[v] = IF v = w THEN (ledger[w] \ {r}) \cup {new}
                       ELSE ledger[v]
    BY DEF RowsOK, Resolve
  <1> HIDE DEF new
  <1> SUFFICES ASSUME NEW j \in Keys
               PROVE  /\ keys[j] = Nobody =>
                           \A v \in Workflows : \A s \in ledger'[v] : s.key # j
                      /\ keys[j] # Nobody =>
                           /\ keys[j].answer = "paid" =>
                                settlement'[keys[j].of] = "PAID"
                           /\ \E s \in ledger'[keys[j].of] :
                                OwnRow(ledger', j, keys[j].of, s)
    BY DEF LedgerOK, OwnRow
  <1>3. CASE keys[j] = Nobody
    BY <1>1, <1>2, <1>3 DEF LedgerOK
  <1>4. CASE keys[j] # Nobody
    <2> DEFINE o == keys[j].of
    <2>1. o \in Workflows
      BY <1>4 DEF Answers
    <2>2. PICK s \in ledger[o] : OwnRow(ledger, j, o, s)
      BY <1>4 DEF LedgerOK
    <2>3. CASE s = r
      <3>1. w = o
        BY <2>2, <2>3 DEF OwnRow
      <3>2. new \in ledger'[o] /\ OwnRow(ledger', j, o, new)
        BY <1>1, <1>2, <2>1, <2>2, <2>3, <3>1 DEF OwnRow
      <3>3. QED
        BY <1>4, <2>1, <3>2 DEF LedgerOK
    <2>4. CASE s # r
      <3>1. r.key # j
        BY <2>2, <2>4 DEF OwnRow
      <3>2. s \in ledger'[o] /\ OwnRow(ledger', j, o, s)
        BY <1>1, <1>2, <2>1, <2>2, <2>4, <3>1 DEF OwnRow
      <3>3. QED
        BY <1>4, <2>1, <3>2 DEF LedgerOK
    <2>5. QED
      BY <2>3, <2>4
  <1>5. QED
    BY <1>3, <1>4

\* The element a fold takes next, what is left, and the equation of the fold.
Taken(s) == CHOOSE x \in s : TRUE
Rest(s) == s \ {Taken(s)}
Sums(S, f) ==
  \A s \in SUBSET S : f[s] = IF s = {} THEN 0 ELSE Taken(s)[2] + f[Rest(s)]

\* Taking an element leaves a smaller set.
LEMMA Resting ==
  ASSUME NEW s, s # {}
  PROVE  Taken(s) \in s /\ Rest(s) \in SUBSET s /\ Rest(s) # s
  BY DEF Taken, Rest

\* Of the subsets of a finite set that are in a family, one is minimal.
LEMMA Smallest ==
  ASSUME NEW S, IsFiniteSet(S), NEW B \in SUBSET SUBSET S, B # {}
  PROVE  \E T \in B : \A U \in SUBSET T : U # T => U \notin B
  <1>1. IsWellFoundedOn(StrictSubsetOrdering(S), FiniteSubsetsOf(S))
    BY FS_StrictSubsetOrderingWellFounded
  <1>2. FiniteSubsetsOf(S) = SUBSET S
    BY FS_FiniteSubsetsOfFinite
  <1>3. PICK T \in B : \A U \in B : <<U, T>> \notin StrictSubsetOrdering(S)
    BY <1>1, <1>2, WFMin, ZenonT(60)
  <1>4. ASSUME NEW U \in SUBSET T, U # T PROVE U \notin B
    BY <1>3, <1>4 DEF StrictSubsetOrdering
  <1>5. QED
    BY <1>4

\* Two functions that both satisfy the equation agree where both do.
LEMMA SumsAgree ==
  ASSUME NEW S, IsFiniteSet(S), NEW f, NEW g,
         NEW T \in SUBSET S, NEW U \in SUBSET S,
         Sums(T, f), Sums(U, g)
  PROVE  \A s \in SUBSET (T \cap U) : f[s] = g[s]
  <1> DEFINE B == {s \in SUBSET (T \cap U) : f[s] # g[s]}
  <1>1. CASE B = {}
    BY <1>1
  <1>2. CASE B # {}
    <2>1. B \in SUBSET SUBSET S
      OBVIOUS
    <2>2. \A s \in B : s \in SUBSET T /\ s \in SUBSET U /\ f[s] # g[s]
      OBVIOUS
    <2>3. \A s \in SUBSET (T \cap U) : s \notin B => f[s] = g[s]
      OBVIOUS
    <2> HIDE DEF B
    <2>4. PICK s \in B : \A t \in SUBSET s : t # s => t \notin B
      BY <2>1, <1>2, Smallest
    <2>5. s # {}
      BY <2>2 DEF Sums
    <2>6. f[Rest(s)] = g[Rest(s)]
      BY <2>2, <2>3, <2>4, <2>5, Resting
    <2>7. QED
      BY <2>2, <2>5, <2>6 DEF Sums
  <1>3. QED
    BY <1>1, <1>2

\* A finite set of lines has such a function: a minimal subset that had none
\* would get one from its rest.
LEMMA SumsExist ==
  ASSUME NEW S, IsFiniteSet(S), \A l \in S : l[2] \in Nat
  PROVE  \E f \in [SUBSET S -> Nat] : Sums(S, f)
  <1> DEFINE B == {T \in SUBSET S : ~ \E f \in [SUBSET T -> Nat] : Sums(T, f)}
  <1>1. CASE B = {}
    BY <1>1
  <1>2. CASE B # {}
    <2>0. B \in SUBSET SUBSET S
      OBVIOUS
    <2>1. PICK T \in B : \A U \in SUBSET T : U # T => U \notin B
      <3> HIDE DEF B
      <3>1. QED
        BY <1>2, <2>0, Smallest
    <2>2. T \in SUBSET S
      BY <2>1
    <2> DEFINE F(U) == CHOOSE f \in [SUBSET U -> Nat] : Sums(U, f)
    <2>3. \A U \in SUBSET T :
            U # T => F(U) \in [SUBSET U -> Nat] /\ Sums(U, F(U))
      BY <2>1, <2>2
    <2> HIDE DEF F
    <2> DEFINE g == [s \in SUBSET T |->
                       IF s = {} THEN 0
                       ELSE Taken(s)[2] + F(Rest(s))[Rest(s)]]
    <2>4. ASSUME NEW s \in SUBSET T, s # {}
          PROVE  /\ F(Rest(s)) \in [SUBSET Rest(s) -> Nat]
                 /\ Sums(Rest(s), F(Rest(s)))
                 /\ Rest(s) \in SUBSET T
                 /\ Taken(s)[2] \in Nat
      <3>1. Taken(s) \in s /\ Rest(s) \in SUBSET s /\ Rest(s) # s
        BY <2>4, Resting
      <3>2. Rest(s) \in SUBSET T /\ Rest(s) # T /\ Taken(s) \in S
        BY <2>2, <3>1
      <3>3. QED
        BY <2>3, <3>2
    <2>5. g \in [SUBSET T -> Nat]
      <3>1. ASSUME NEW s \in SUBSET T PROVE g[s] \in Nat
        <4>1. CASE s = {}
          BY <4>1
        <4>2. CASE s # {}
          <5>1. F(Rest(s))[Rest(s)] \in Nat
            BY <2>4, <4>2
          <5>2. g[s] = Taken(s)[2] + F(Rest(s))[Rest(s)]
            BY <4>2
          <5>3. Taken(s)[2] \in Nat
            BY <2>4, <4>2
          <5> HIDE DEF g
          <5>4. QED
            BY <5>1, <5>2, <5>3
        <4>3. QED
          BY <4>1, <4>2
      <3>2. QED
        BY <3>1
    <2>6. ASSUME NEW s \in SUBSET T, s # {}
          PROVE  g[Rest(s)] = F(Rest(s))[Rest(s)]
      <3> DEFINE r == Rest(s)
      <3>1. r \in SUBSET T /\ F(r) \in [SUBSET r -> Nat] /\ Sums(r, F(r))
        BY <2>4, <2>6
      <3>2. CASE r = {}
        BY <3>1, <3>2 DEF Sums
      <3>3. CASE r # {}
        <4>1. /\ F(Rest(r)) \in [SUBSET Rest(r) -> Nat]
              /\ Sums(Rest(r), F(Rest(r)))
          BY <2>4, <3>1, <3>3
        <4>2. Rest(r) \in SUBSET r
          BY <3>3, Resting
        <4>3. r \in SUBSET S /\ Rest(r) \in SUBSET S
          BY <2>2, <3>1, <4>2
        <4>4. F(r)[Rest(r)] = F(Rest(r))[Rest(r)]
          <5>1. \A t \in SUBSET (r \cap Rest(r)) : F(r)[t] = F(Rest(r))[t]
            BY <3>1, <4>1, <4>3, SumsAgree
          <5>2. QED
            BY <4>2, <5>1
        <4>5. F(r)[r] = Taken(r)[2] + F(r)[Rest(r)]
          BY <3>1, <3>3 DEF Sums
        <4>6. QED
          BY <3>1, <3>3, <4>4, <4>5
      <3>4. QED
        BY <3>2, <3>3
    <2>7. Sums(T, g)
      <3> SUFFICES ASSUME NEW s \in SUBSET T
                   PROVE  g[s] = IF s = {} THEN 0
                                 ELSE Taken(s)[2] + g[Rest(s)]
        BY DEF Sums
      <3>1. QED
        BY <2>6
    <2>8. QED
      BY <2>1, <2>5, <2>7
  <1>3. QED
    BY <1>1, <1>2

\* The total of a report that is filed is an amount.
LEMMA AssessedIsNat ==
  ASSUME NEW lines \in Reports
  PROVE  Assessed(lines) \in Nat
  <1> DEFINE S == LiableLines(lines)
             Body(f, s) == IF s = {} THEN 0
                           ELSE (CHOOSE x \in s : TRUE)[2]
                                  + f[s \ {CHOOSE x \in s : TRUE}]
             it == CHOOSE h : h = [s \in SUBSET S |-> Body(h, s)]
  <1>1. IsFiniteSet(S) /\ \A l \in S : l[2] \in Nat
    <2>1. /\ IsFiniteSet(lines) /\ lines \subseteq Nat \X Nat \X BOOLEAN
          /\ S \in SUBSET lines
      BY A3ExitAssumption DEF LiableLines
    <2>2. QED
      BY <2>1, FS_Subset
  <1>2. Assessed(lines) = it[S]
    BY DEF Assessed, MapThenSumSet, MapThenFoldSet
  <1> HIDE DEF S
  <1>3. PICK f \in [SUBSET S -> Nat] : Sums(S, f)
    BY <1>1, SumsExist
  <1>4. f = [s \in SUBSET S |-> Body(f, s)]
    BY <1>3 DEF Sums, Taken, Rest
  <1>5. it = [s \in SUBSET S |-> Body(it, s)]
    BY <1>4
  <1>6. Sums(S, it)
    BY <1>5 DEF Sums, Taken, Rest
  <1>7. it[S] = f[S]
    <2>1. \A s \in SUBSET (S \cap S) : it[s] = f[s]
      BY <1>1, <1>3, <1>6, SumsAgree
    <2>2. QED
      BY <2>1
  <1>8. QED
    BY <1>2, <1>3, <1>7

\* No exit, no row of any table.
LEMMA InitInd == Init => IndInv
  BY A3ExitAssumption, KeysAssumption
  DEF Init, IndInv, TypeOK, InspectionOK, RowsOK, SettlementOK, PaidIsTrue,
      LedgerOK, MarksOK, ViewOK, NoFigures, NoReport, Breakdown, FloorZero, Figures

\* Rows are added, and resolved, in the ledger of the exit that is paid.
LEMMA RowsStep == IndInv /\ [Next]_vars => RowsOK'
  <1> SUFFICES ASSUME IndInv, [Next]_vars PROVE RowsOK'
    OBVIOUS
  <1>0. /\ status \in [Workflows -> Statuses \cup {"none"}]
        /\ minted \in [Workflows -> 0 .. MaxPayouts]
        /\ contract \in [Workflows -> Contracts \cup {Nobody}]
        /\ RowsOK
    BY DEF IndInv, TypeOK
  <1> USE <1>0 DEF request, inspecting, money, gateway, certificate, RowsOK
  <1>1. ASSUME NEW w \in Workflows, NEW c \in Contracts, NEW d \in Days,
               Initiate(w, c, d)
        PROVE  RowsOK'
    BY <1>1 DEF Initiate
  <1>2. ASSUME NEW w \in Workflows, Submit(w) PROVE RowsOK'
    BY <1>2, Entering DEF Submit, Mark
  <1>3. ASSUME NEW w \in Workflows, Approve(w) PROVE RowsOK'
    BY <1>3, Entering DEF Approve
  <1>4. ASSUME NEW w \in Workflows, Reject(w) PROVE RowsOK'
    BY <1>4, Entering DEF Reject
  <1>5. ASSUME NEW w \in Workflows, Cancel(w) PROVE RowsOK'
    BY <1>5, Entering DEF Cancel
  <1>6. ASSUME NEW w \in Workflows, RequestInspection(w) PROVE RowsOK'
    BY <1>6, Entering DEF RequestInspection
  <1>7. ASSUME NEW w \in Workflows, NEW hours \in SUBSET Hours,
               ProposeSlots(w, hours)
        PROVE  RowsOK'
    BY <1>7, Entering DEF ProposeSlots, Releases
  <1>8. ASSUME NEW w \in Workflows, NEW h \in Hours, Schedule(w, h)
        PROVE  RowsOK'
    BY <1>8, Entering DEF Schedule, Mark
  <1>9. ASSUME NEW w \in Workflows, CancelInspection(w) PROVE RowsOK'
    BY <1>9, Entering DEF CancelInspection
  <1>10. ASSUME NEW w \in Workflows, NEW lines \in Reports,
               SubmitDamageReport(w, lines)
        PROVE  RowsOK'
    BY <1>10, Reporting DEF SubmitDamageReport
  <1>11. ASSUME NEW w \in Workflows,
                NEW final \in Waivers \cup {report[w].assessed},
               FinalizeDeduction(w, final)
        PROVE  RowsOK'
    BY <1>11, Entering DEF FinalizeDeduction, Mark, ReadyForSettlement
  <1>12. ASSUME NEW w \in Workflows, NEW k \in Keys, PayNothing(w, k)
        PROVE  RowsOK'
    <2>1. /\ Fresh(w, k) /\ Attempt(w, k, "SUCCEEDED", "paid")
          /\ "SUCCEEDED" \in PaymentStatuses
      BY <1>12 DEF PayNothing, PaymentStatuses
    <2>2. /\ Entry(w, k, "SUCCEEDED") \in Payments
          /\ minted' = [minted EXCEPT ![w] = NextTx(w)]
          /\ ledger' = [ledger EXCEPT ![w] = @ \cup {Entry(w, k, "SUCCEEDED")}]
          /\ keys' = [keys EXCEPT ![k] = [of |-> w, answer |-> "paid"]]
          /\ [of |-> w, answer |-> "paid"] \in Answers
      BY <2>1, Attempting
    <2>3. QED
      BY <1>12, <2>1, <2>2, Paying, Completing DEF PayNothing, Complete, Mark
  <1>13. ASSUME NEW w \in Workflows, NEW k \in Keys, PayAccepted(w, k)
        PROVE  RowsOK'
    <2>1. /\ Fresh(w, k) /\ Attempt(w, k, "SUCCEEDED", "paid")
          /\ "SUCCEEDED" \in PaymentStatuses
      BY <1>13 DEF PayAccepted, PaymentStatuses
    <2>2. /\ Entry(w, k, "SUCCEEDED") \in Payments
          /\ minted' = [minted EXCEPT ![w] = NextTx(w)]
          /\ ledger' = [ledger EXCEPT ![w] = @ \cup {Entry(w, k, "SUCCEEDED")}]
          /\ keys' = [keys EXCEPT ![k] = [of |-> w, answer |-> "paid"]]
          /\ [of |-> w, answer |-> "paid"] \in Answers
      BY <2>1, Attempting
    <2>3. QED
      BY <1>13, <2>1, <2>2, Paying, Completing
      DEF PayAccepted, Transfer, Complete, Mark
  <1>14. ASSUME NEW w \in Workflows, NEW k \in Keys, PayDeclined(w, k)
        PROVE  RowsOK'
    <2>1. /\ Fresh(w, k) /\ Attempt(w, k, "FAILED", "declined")
          /\ "FAILED" \in PaymentStatuses
      BY <1>14 DEF PayDeclined, PaymentStatuses
    <2>2. /\ Entry(w, k, "FAILED") \in Payments
          /\ minted' = [minted EXCEPT ![w] = NextTx(w)]
          /\ ledger' = [ledger EXCEPT ![w] = @ \cup {Entry(w, k, "FAILED")}]
          /\ keys' = [keys EXCEPT ![k] = [of |-> w, answer |-> "declined"]]
          /\ [of |-> w, answer |-> "declined"] \in Answers
      BY <2>1, Attempting
    <2>3. QED
      BY <1>14, <2>1, <2>2, Paying DEF PayDeclined
  <1>15. ASSUME NEW w \in Workflows, NEW k \in Keys, PayUnknown(w, k)
        PROVE  RowsOK'
    <2>1. /\ Fresh(w, k) /\ Attempt(w, k, "PENDING", "unknown")
          /\ "PENDING" \in PaymentStatuses
      BY <1>15 DEF PayUnknown, PaymentStatuses
    <2>2. /\ Entry(w, k, "PENDING") \in Payments
          /\ minted' = [minted EXCEPT ![w] = NextTx(w)]
          /\ ledger' = [ledger EXCEPT ![w] = @ \cup {Entry(w, k, "PENDING")}]
          /\ keys' = [keys EXCEPT ![k] = [of |-> w, answer |-> "unknown"]]
          /\ [of |-> w, answer |-> "unknown"] \in Answers
      BY <2>1, Attempting
    <2>3. QED
      BY <1>15, <2>1, <2>2, Paying DEF PayUnknown, Transfer
  <1>16. ASSUME NEW w \in Workflows, NEW k \in Keys, PayLost(w, k)
        PROVE  RowsOK'
    BY <1>16, Paying DEF PayLost, Transfer
  <1>17. ASSUME NEW w \in Workflows, NEW r \in ledger[w], ReconcilePaid(w, r)
        PROVE  RowsOK'
    <2>1. [r EXCEPT !.status = "SUCCEEDED"] \in Payments
      BY DEF Payments, PaymentStatuses
    <2>2. QED
      BY <1>17, <2>1, Completing
      DEF ReconcilePaid, Reconciles, Resolve, Complete, Mark
  <1>18. ASSUME NEW w \in Workflows, NEW r \in ledger[w],
               ReconcileFailed(w, r)
        PROVE  RowsOK'
    <2>1. [r EXCEPT !.status = "FAILED"] \in Payments
      BY DEF Payments, PaymentStatuses
    <2>2. QED
      BY <1>18, <2>1 DEF ReconcileFailed, Reconciles, Resolve
  <1>19. ASSUME \/ UNCHANGED vars
                \/ \E w \in Workflows : \E type \in DocTypes : Upload(w, type)
                \/ \E w \in Workflows :
                   \E verdict \in {"ACKNOWLEDGED", "DISPUTED"} :
                     TenantReview(w, verdict)
                \/ \E w \in Workflows :
                      \/ ResolveDispute(w) \/ Download(w) \/ Revoke(w)
                \/ Tick
        PROVE  RowsOK'
    <2>1. UNCHANGED <<status, contract, ledger, moved>>
      BY <1>19
      DEF vars, Upload, TenantReview, ResolveDispute, Download, Revoke, Tick
    <2>2. QED
      BY <2>1
  <1> HIDE <1>0 DEF RowsOK
  <1>20. ASSUME NEW w \in Workflows, Requesting(w) PROVE RowsOK'
    BY <1>20, <1>1, <1>2, <1>3, <1>4, <1>5, <1>19 DEF Requesting
  <1>21. ASSUME NEW w \in Workflows, Inspecting(w) PROVE RowsOK'
    BY <1>21, <1>6, <1>7, <1>8, <1>9, <1>10, <1>19 DEF Inspecting
  <1>22. ASSUME NEW w \in Workflows, Settling(w) PROVE RowsOK'
    BY <1>22, <1>11, <1>12, <1>13, <1>14, <1>15, <1>16, <1>17, <1>18
    DEF Settling
  <1>23. ASSUME NEW w \in Workflows, Certifying(w) PROVE RowsOK'
    BY <1>23, <1>19 DEF Certifying
  <1>24. QED
    BY <1>19, <1>20, <1>21, <1>22, <1>23 DEF Next

\* A status of an inspection is entered with the rows that belong to it.
LEMMA InspectionStep == IndInv /\ [Next]_vars => InspectionOK'
  <1> SUFFICES ASSUME IndInv, [Next]_vars PROVE InspectionOK'
    OBVIOUS
  <1>0. /\ status \in [Workflows -> Statuses \cup {"none"}]
        /\ visit \in [Workflows -> VisitStatuses \cup {"none"}]
        /\ picked \in [Workflows -> Hours \cup {Nobody}]
        /\ attempt \in [Workflows -> 0 .. MaxAttempts]
        /\ report \in [Workflows -> ReportRows \cup {NoReport}]
        /\ InspectionOK
    BY DEF IndInv, TypeOK
  <1> USE A3ExitAssumption, <1>0
      DEF request, inspecting, money, gateway, certificate, InspectionOK,
          ActiveVisits
  <1>1. ASSUME NEW w \in Workflows, NEW c \in Contracts, NEW d \in Days,
               Initiate(w, c, d)
        PROVE  InspectionOK'
    BY <1>1 DEF Initiate
  <1>2. ASSUME NEW w \in Workflows, Submit(w) PROVE InspectionOK'
    BY <1>2, Entering DEF Submit, Mark
  <1>3. ASSUME NEW w \in Workflows, Approve(w) PROVE InspectionOK'
    BY <1>3, Entering DEF Approve
  <1>4. ASSUME NEW w \in Workflows, Reject(w) PROVE InspectionOK'
    BY <1>4, Entering DEF Reject
  <1>5. ASSUME NEW w \in Workflows, Cancel(w) PROVE InspectionOK'
    BY <1>5, Entering DEF Cancel
  <1>6. ASSUME NEW w \in Workflows, RequestInspection(w) PROVE InspectionOK'
    BY <1>6, Entering DEF RequestInspection
  <1>7. ASSUME NEW w \in Workflows, NEW hours \in SUBSET Hours,
               ProposeSlots(w, hours)
        PROVE  InspectionOK'
    BY <1>7, Entering DEF ProposeSlots, Releases
  <1>8. ASSUME NEW w \in Workflows, NEW h \in Hours, Schedule(w, h)
        PROVE  InspectionOK'
    BY <1>8, Entering DEF Schedule, Mark
  <1>9. ASSUME NEW w \in Workflows, CancelInspection(w) PROVE InspectionOK'
    BY <1>9, Entering DEF CancelInspection
  <1>10. ASSUME NEW w \in Workflows, NEW lines \in Reports,
               SubmitDamageReport(w, lines)
        PROVE  InspectionOK'
    BY <1>10, Reporting DEF SubmitDamageReport
  <1>11. ASSUME NEW w \in Workflows,
                NEW verdict \in {"ACKNOWLEDGED", "DISPUTED"},
               TenantReview(w, verdict)
        PROVE  InspectionOK'
    BY <1>11 DEF TenantReview, ReviewOpen
  <1>12. ASSUME NEW w \in Workflows, ResolveDispute(w) PROVE InspectionOK'
    BY <1>12 DEF ResolveDispute
  <1>13. ASSUME NEW w \in Workflows,
                NEW final \in Waivers \cup {report[w].assessed},
               FinalizeDeduction(w, final)
        PROVE  InspectionOK'
    BY <1>13, Entering DEF FinalizeDeduction, Mark, ReadyForSettlement
  <1>14. ASSUME NEW w \in Workflows, NEW k \in Keys, PayNothing(w, k)
        PROVE  InspectionOK'
    BY <1>14, Completing, Paying DEF PayNothing, Attempt, Complete, Mark
  <1>15. ASSUME NEW w \in Workflows, NEW k \in Keys, PayAccepted(w, k)
        PROVE  InspectionOK'
    BY <1>15, Completing, Paying
    DEF PayAccepted, Attempt, Transfer, Complete, Mark
  <1>16. ASSUME NEW w \in Workflows, NEW r \in ledger[w], ReconcilePaid(w, r)
        PROVE  InspectionOK'
    BY <1>16, Completing
    DEF ReconcilePaid, Reconciles, Resolve, Complete, Mark
  <1>17. ASSUME \/ UNCHANGED vars
                \/ \E w \in Workflows : \E type \in DocTypes : Upload(w, type)
                \/ \E w \in Workflows : \E k \in Keys :
                      \/ PayDeclined(w, k) \/ PayUnknown(w, k)
                      \/ PayLost(w, k)
                \/ \E w \in Workflows : \E r \in ledger[w] :
                     ReconcileFailed(w, r)
                \/ \E w \in Workflows :
                      \/ Download(w) \/ Revoke(w)
                \/ Tick
        PROVE  InspectionOK'
    <2>1. UNCHANGED <<status, visit, picked, attempt, report>>
      BY <1>17
      DEF vars, Upload, PayDeclined, Attempt, PayUnknown, Transfer, PayLost,
          ReconcileFailed, Resolve, Download, Revoke, Tick
    <2>2. QED
      BY <2>1
  <1> HIDE <1>0 DEF InspectionOK, ActiveVisits
  <1>18. ASSUME NEW w \in Workflows, Requesting(w) PROVE InspectionOK'
    BY <1>18, <1>1, <1>2, <1>3, <1>4, <1>5, <1>17 DEF Requesting
  <1>19. ASSUME NEW w \in Workflows, Inspecting(w) PROVE InspectionOK'
    BY <1>19, <1>6, <1>7, <1>8, <1>9, <1>10, <1>11, <1>12 DEF Inspecting
  <1>20. ASSUME NEW w \in Workflows, Settling(w) PROVE InspectionOK'
    BY <1>20, <1>13, <1>14, <1>15, <1>16, <1>17 DEF Settling
  <1>21. ASSUME NEW w \in Workflows, Certifying(w) PROVE InspectionOK'
    BY <1>21, <1>17 DEF Certifying
  <1>22. QED
    BY <1>17, <1>18, <1>19, <1>20, <1>21 DEF Next

\* The final report, the settlement and the last statuses go together.
LEMMA SettlementStep == IndInv /\ [Next]_vars => SettlementOK'
  <1> SUFFICES ASSUME IndInv, [Next]_vars PROVE SettlementOK'
    OBVIOUS
  <1>0. /\ status \in [Workflows -> Statuses \cup {"none"}]
        /\ settlement \in [Workflows -> SettlementStatuses \cup {"none"}]
        /\ report \in [Workflows -> ReportRows \cup {NoReport}]
        /\ minted \in [Workflows -> 0 .. MaxPayouts]
        /\ SettlementOK
        /\ InspectionOK
    BY DEF IndInv, TypeOK
  <1> USE <1>0
      DEF request, inspecting, money, gateway, certificate, SettlementOK
  <1>1. ASSUME NEW w \in Workflows, NEW c \in Contracts, NEW d \in Days,
               Initiate(w, c, d)
        PROVE  SettlementOK'
    BY <1>1 DEF Initiate
  <1>2. ASSUME NEW w \in Workflows, Submit(w) PROVE SettlementOK'
    BY <1>2, Entering DEF Submit, Mark
  <1>3. ASSUME NEW w \in Workflows, Approve(w) PROVE SettlementOK'
    BY <1>3, Entering DEF Approve
  <1>4. ASSUME NEW w \in Workflows, Reject(w) PROVE SettlementOK'
    BY <1>4, Entering DEF Reject
  <1>5. ASSUME NEW w \in Workflows, Cancel(w) PROVE SettlementOK'
    BY <1>5, Entering DEF Cancel
  <1>6. ASSUME NEW w \in Workflows, RequestInspection(w) PROVE SettlementOK'
    BY <1>6, Entering DEF RequestInspection
  <1>7. ASSUME NEW w \in Workflows, NEW hours \in SUBSET Hours,
               ProposeSlots(w, hours)
        PROVE  SettlementOK'
    BY <1>7, Entering DEF ProposeSlots, Releases
  <1>8. ASSUME NEW w \in Workflows, NEW h \in Hours, Schedule(w, h)
        PROVE  SettlementOK'
    BY <1>8, Entering DEF Schedule, Mark
  <1>9. ASSUME NEW w \in Workflows, CancelInspection(w) PROVE SettlementOK'
    BY <1>9, Entering DEF CancelInspection
  <1>10. ASSUME NEW w \in Workflows, NEW lines \in Reports,
               SubmitDamageReport(w, lines)
        PROVE  SettlementOK'
    BY <1>10, Reporting DEF SubmitDamageReport
  <1>11. ASSUME NEW w \in Workflows,
                NEW verdict \in {"ACKNOWLEDGED", "DISPUTED"},
               TenantReview(w, verdict)
        PROVE  SettlementOK'
    BY <1>11 DEF TenantReview, ReviewOpen
  <1>12. ASSUME NEW w \in Workflows, ResolveDispute(w) PROVE SettlementOK'
    BY <1>12 DEF ResolveDispute
  <1>13. ASSUME NEW w \in Workflows,
                NEW final \in Waivers \cup {report[w].assessed},
               FinalizeDeduction(w, final)
        PROVE  SettlementOK'
    BY <1>13, Entering DEF FinalizeDeduction, Mark, ReadyForSettlement
  <1>14. ASSUME NEW w \in Workflows, NEW k \in Keys, PayNothing(w, k)
        PROVE  SettlementOK'
    BY <1>14, Completing, Paying DEF PayNothing, Attempt, Complete, Mark
  <1>15. ASSUME NEW w \in Workflows, NEW k \in Keys, PayAccepted(w, k)
        PROVE  SettlementOK'
    BY <1>15, Completing, Paying
    DEF PayAccepted, Attempt, Transfer, Complete, Mark
  <1>16. ASSUME NEW w \in Workflows, NEW k \in Keys, PayDeclined(w, k)
        PROVE  SettlementOK'
    BY <1>16, Paying DEF PayDeclined, Attempt
  <1>17. ASSUME NEW w \in Workflows, NEW k \in Keys, PayUnknown(w, k)
        PROVE  SettlementOK'
    BY <1>17, Paying DEF PayUnknown, Attempt, Transfer
  <1>18. ASSUME NEW w \in Workflows, NEW k \in Keys, PayLost(w, k)
        PROVE  SettlementOK'
    BY <1>18, Paying DEF PayLost, Transfer
  <1>19. ASSUME NEW w \in Workflows, NEW r \in ledger[w], ReconcilePaid(w, r)
        PROVE  SettlementOK'
    BY <1>19, Completing
    DEF ReconcilePaid, Reconciles, Resolve, Complete, Mark
  <1>20. ASSUME NEW w \in Workflows, NEW r \in ledger[w],
               ReconcileFailed(w, r)
        PROVE  SettlementOK'
    BY <1>20 DEF ReconcileFailed, Reconciles, Resolve
  <1>21. ASSUME \/ UNCHANGED vars
                \/ \E w \in Workflows : \E type \in DocTypes : Upload(w, type)
                \/ \E w \in Workflows :
                      \/ Download(w) \/ Revoke(w)
                \/ Tick
        PROVE  SettlementOK'
    <2>1. UNCHANGED <<status, settlement, report, minted>>
      BY <1>21 DEF vars, Upload, Download, Revoke, Tick
    <2>2. QED
      BY <2>1
  <1> HIDE <1>0 DEF SettlementOK
  <1>22. ASSUME NEW w \in Workflows, Requesting(w) PROVE SettlementOK'
    BY <1>22, <1>1, <1>2, <1>3, <1>4, <1>5, <1>21 DEF Requesting
  <1>23. ASSUME NEW w \in Workflows, Inspecting(w) PROVE SettlementOK'
    BY <1>23, <1>6, <1>7, <1>8, <1>9, <1>10, <1>11, <1>12 DEF Inspecting
  <1>24. ASSUME NEW w \in Workflows, Settling(w) PROVE SettlementOK'
    BY <1>24, <1>13, <1>14, <1>15, <1>16, <1>17, <1>18, <1>19, <1>20
    DEF Settling
  <1>25. ASSUME NEW w \in Workflows, Certifying(w) PROVE SettlementOK'
    BY <1>25, <1>21 DEF Certifying
  <1>26. QED
    BY <1>21, <1>22, <1>23, <1>24, <1>25 DEF Next

\* Only the end of an exit makes a settlement PAID, and nothing unmakes it.
LEMMA PaidStep == IndInv /\ [Next]_vars => PaidIsTrue'
  <1> SUFFICES ASSUME IndInv, [Next]_vars PROVE PaidIsTrue'
    OBVIOUS
  <1>0. /\ status \in [Workflows -> Statuses \cup {"none"}]
        /\ settlement \in [Workflows -> SettlementStatuses \cup {"none"}]
        /\ figures \in [Workflows -> Figures]
        /\ noc \in [Workflows -> {"none", "valid", "revoked"}]
        /\ certified \in [Workflows -> Figures]
        /\ RowsOK
        /\ SettlementOK
        /\ PaidIsTrue
    BY DEF IndInv, TypeOK
  <1> USE <1>0
      DEF request, inspecting, money, gateway, certificate, PaidIsTrue,
          RowsOK, SettlementOK, ActiveStatuses, Terminal
  <1>1. ASSUME NEW w \in Workflows, NEW c \in Contracts, NEW d \in Days,
               Initiate(w, c, d)
        PROVE  PaidIsTrue'
    BY <1>1 DEF Initiate
  <1>2. ASSUME NEW w \in Workflows, Submit(w) PROVE PaidIsTrue'
    BY <1>2, Entering DEF Submit, Mark
  <1>3. ASSUME NEW w \in Workflows, Approve(w) PROVE PaidIsTrue'
    BY <1>3, Entering DEF Approve
  <1>4. ASSUME NEW w \in Workflows, Reject(w) PROVE PaidIsTrue'
    BY <1>4, Entering DEF Reject
  <1>5. ASSUME NEW w \in Workflows, Cancel(w) PROVE PaidIsTrue'
    BY <1>5, Entering DEF Cancel
  <1>6. ASSUME NEW w \in Workflows, RequestInspection(w) PROVE PaidIsTrue'
    BY <1>6, Entering DEF RequestInspection
  <1>7. ASSUME NEW w \in Workflows, NEW hours \in SUBSET Hours,
               ProposeSlots(w, hours)
        PROVE  PaidIsTrue'
    BY <1>7, Entering DEF ProposeSlots, Releases
  <1>8. ASSUME NEW w \in Workflows, NEW h \in Hours, Schedule(w, h)
        PROVE  PaidIsTrue'
    BY <1>8, Entering DEF Schedule, Mark
  <1>9. ASSUME NEW w \in Workflows, CancelInspection(w) PROVE PaidIsTrue'
    BY <1>9, Entering DEF CancelInspection
  <1>10. ASSUME NEW w \in Workflows, NEW lines \in Reports,
               SubmitDamageReport(w, lines)
        PROVE  PaidIsTrue'
    BY <1>10, Reporting DEF SubmitDamageReport
  <1>11. ASSUME NEW w \in Workflows,
                NEW final \in Waivers \cup {report[w].assessed},
               FinalizeDeduction(w, final)
        PROVE  PaidIsTrue'
    BY <1>11, Entering DEF FinalizeDeduction, Mark, ReadyForSettlement
  <1>12. ASSUME NEW w \in Workflows, NEW k \in Keys, PayNothing(w, k)
        PROVE  PaidIsTrue'
    BY <1>12, Completing, Paying DEF PayNothing, Attempt, Complete, Mark
  <1>13. ASSUME NEW w \in Workflows, NEW k \in Keys, PayAccepted(w, k)
        PROVE  PaidIsTrue'
    <2>1. Fresh(w, k) /\ Attempt(w, k, "SUCCEEDED", "paid")
      BY <1>13 DEF PayAccepted
    <2> DEFINE row == Entry(w, k, "SUCCEEDED")
    <2>2. ledger' = [ledger EXCEPT ![w] = @ \cup {row}]
      BY <2>1, Attempting DEF PaymentStatuses
    <2>3. row \in ledger'[w] /\ row.status = "SUCCEEDED" /\ row.tx \in moved'[w]
      BY <1>13, <2>2 DEF PayAccepted, Transfer, Entry
    <2> HIDE DEF row
    <2>4. /\ \A v \in Workflows \ {w} :
               ledger'[v] = ledger[v] /\ moved'[v] = moved[v]
          /\ UNCHANGED figures
      BY <1>13, <2>2 DEF PayAccepted, Transfer
    <2>5. Complete(w)
      BY <1>13 DEF PayAccepted
    <2>6. QED
      BY <2>3, <2>4, <2>5, Completing DEF Complete
  <1>14. ASSUME NEW w \in Workflows, NEW k \in Keys, PayDeclined(w, k)
        PROVE  PaidIsTrue'
    BY <1>14, Paying DEF PayDeclined, Attempt
  <1>15. ASSUME NEW w \in Workflows, NEW k \in Keys, PayUnknown(w, k)
        PROVE  PaidIsTrue'
    BY <1>15, Paying DEF PayUnknown, Attempt, Transfer
  <1>16. ASSUME NEW w \in Workflows, NEW k \in Keys, PayLost(w, k)
        PROVE  PaidIsTrue'
    BY <1>16, Paying DEF PayLost, Transfer
  <1>17. ASSUME NEW w \in Workflows, NEW r \in ledger[w], ReconcilePaid(w, r)
        PROVE  PaidIsTrue'
    <2> DEFINE row == [r EXCEPT !.status = "SUCCEEDED"]
    <2>1. row.status = "SUCCEEDED" /\ row.tx \in moved[w]
      BY <1>17 DEF ReconcilePaid, Payments
    <2>2. row \in ledger'[w]
      BY <1>17 DEF ReconcilePaid, Resolve
    <2>3. \A v \in Workflows \ {w} : ledger'[v] = ledger[v]
      BY <1>17 DEF ReconcilePaid, Resolve
    <2> HIDE DEF row
    <2>4. Complete(w) /\ UNCHANGED <<figures, moved>>
      BY <1>17 DEF ReconcilePaid
    <2>5. QED
      BY <2>1, <2>2, <2>3, <2>4, Completing DEF Complete
  <1>18. ASSUME NEW w \in Workflows, NEW r \in ledger[w],
               ReconcileFailed(w, r)
        PROVE  PaidIsTrue'
    BY <1>18 DEF ReconcileFailed, Reconciles, Resolve
  <1>19. ASSUME NEW w \in Workflows, Revoke(w) PROVE PaidIsTrue'
    BY <1>19 DEF Revoke
  <1>20. ASSUME \/ UNCHANGED vars
                \/ \E w \in Workflows : \E type \in DocTypes : Upload(w, type)
                \/ \E w \in Workflows :
                   \E verdict \in {"ACKNOWLEDGED", "DISPUTED"} :
                     TenantReview(w, verdict)
                \/ \E w \in Workflows :
                      \/ ResolveDispute(w) \/ Download(w)
                \/ Tick
        PROVE  PaidIsTrue'
    <2>1. UNCHANGED <<status, settlement, figures, ledger, moved, noc,
                      certified>>
      BY <1>20 DEF vars, Upload, TenantReview, ResolveDispute, Download, Tick
    <2>2. QED
      BY <2>1
  <1> HIDE <1>0 DEF PaidIsTrue, RowsOK, SettlementOK, ActiveStatuses,
           Terminal
  <1>21. ASSUME NEW w \in Workflows, Requesting(w) PROVE PaidIsTrue'
    BY <1>21, <1>1, <1>2, <1>3, <1>4, <1>5, <1>20 DEF Requesting
  <1>22. ASSUME NEW w \in Workflows, Inspecting(w) PROVE PaidIsTrue'
    BY <1>22, <1>6, <1>7, <1>8, <1>9, <1>10, <1>20 DEF Inspecting
  <1>23. ASSUME NEW w \in Workflows, Settling(w) PROVE PaidIsTrue'
    BY <1>23, <1>11, <1>12, <1>13, <1>14, <1>15, <1>16, <1>17, <1>18
    DEF Settling
  <1>24. ASSUME NEW w \in Workflows, Certifying(w) PROVE PaidIsTrue'
    BY <1>24, <1>19, <1>20 DEF Certifying
  <1>25. QED
    BY <1>20, <1>21, <1>22, <1>23, <1>24 DEF Next

\* A key is used by the request that adds its row, and a resolved row keeps
\* its key.
LEMMA LedgerStep == IndInv /\ [Next]_vars => LedgerOK'
  <1> SUFFICES ASSUME IndInv, [Next]_vars PROVE LedgerOK'
    OBVIOUS
  <1>0. /\ settlement \in [Workflows -> SettlementStatuses \cup {"none"}]
        /\ keys \in [Keys -> Answers \cup {Nobody}]
        /\ RowsOK
        /\ LedgerOK
    BY DEF IndInv, TypeOK
  <1> USE <1>0 DEF request, inspecting, money, gateway, certificate
  <1>1. ASSUME NEW w \in Workflows,
               NEW final \in Waivers \cup {report[w].assessed},
               FinalizeDeduction(w, final)
        PROVE  LedgerOK'
    <2>1. /\ UNCHANGED <<ledger, keys>>
          /\ \A v \in Workflows :
               settlement[v] = "PAID" => settlement'[v] = "PAID"
      BY <1>1 DEF FinalizeDeduction
    <2>2. QED
      BY <2>1 DEF LedgerOK, OwnRow, Answers
  <1>2. ASSUME NEW w \in Workflows, NEW k \in Keys, PayNothing(w, k)
        PROVE  LedgerOK'
    <2>1. /\ Fresh(w, k) /\ Attempt(w, k, "SUCCEEDED", "paid")
          /\ "SUCCEEDED" \in PaymentStatuses
      BY <1>2 DEF PayNothing, PaymentStatuses
    <2>2. /\ keys[k] = Nobody /\ settlement[w] # "PAID"
          /\ \A v \in Workflows :
               settlement[v] = "PAID" => settlement'[v] = "PAID"
          /\ settlement'[w] = "PAID"
      BY <1>2, <2>1, Paying DEF PayNothing, Complete, Mark
    <2>3. /\ Entry(w, k, "SUCCEEDED") \in Payments
          /\ minted' = [minted EXCEPT ![w] = NextTx(w)]
          /\ ledger' = [ledger EXCEPT ![w] = @ \cup {Entry(w, k, "SUCCEEDED")}]
          /\ keys' = [keys EXCEPT ![k] = [of |-> w, answer |-> "paid"]]
          /\ [of |-> w, answer |-> "paid"] \in Answers
      BY <2>1, Attempting
    <2> DEFINE row == Entry(w, k, "SUCCEEDED")
               a == [of |-> w, answer |-> "paid"]
    <2>4. /\ ledger' = [ledger EXCEPT ![w] = @ \cup {row}]
          /\ keys' = [keys EXCEPT ![k] = a]
          /\ a \in Answers
      BY <2>3
    <2>5. /\ row.key = k /\ a.of = w
          /\ a.answer = "paid" => settlement'[w] = "PAID"
      BY <2>2 DEF Entry
    <2> HIDE DEF row, a
    <2>6. QED
      BY <2>2, <2>4, <2>5, NewRow
  <1>3. ASSUME NEW w \in Workflows, NEW k \in Keys, PayAccepted(w, k)
        PROVE  LedgerOK'
    <2>1. /\ Fresh(w, k) /\ Attempt(w, k, "SUCCEEDED", "paid")
          /\ "SUCCEEDED" \in PaymentStatuses
      BY <1>3 DEF PayAccepted, PaymentStatuses
    <2>2. /\ keys[k] = Nobody /\ settlement[w] # "PAID"
          /\ \A v \in Workflows :
               settlement[v] = "PAID" => settlement'[v] = "PAID"
          /\ settlement'[w] = "PAID"
      BY <1>3, <2>1, Paying DEF PayAccepted, Transfer, Complete, Mark
    <2>3. /\ Entry(w, k, "SUCCEEDED") \in Payments
          /\ minted' = [minted EXCEPT ![w] = NextTx(w)]
          /\ ledger' = [ledger EXCEPT ![w] = @ \cup {Entry(w, k, "SUCCEEDED")}]
          /\ keys' = [keys EXCEPT ![k] = [of |-> w, answer |-> "paid"]]
          /\ [of |-> w, answer |-> "paid"] \in Answers
      BY <2>1, Attempting
    <2> DEFINE row == Entry(w, k, "SUCCEEDED")
               a == [of |-> w, answer |-> "paid"]
    <2>4. /\ ledger' = [ledger EXCEPT ![w] = @ \cup {row}]
          /\ keys' = [keys EXCEPT ![k] = a]
          /\ a \in Answers
      BY <2>3
    <2>5. /\ row.key = k /\ a.of = w
          /\ a.answer = "paid" => settlement'[w] = "PAID"
      BY <2>2 DEF Entry
    <2> HIDE DEF row, a
    <2>6. QED
      BY <2>2, <2>4, <2>5, NewRow
  <1>4. ASSUME NEW w \in Workflows, NEW k \in Keys, PayDeclined(w, k)
        PROVE  LedgerOK'
    <2>1. /\ Fresh(w, k) /\ Attempt(w, k, "FAILED", "declined")
          /\ "FAILED" \in PaymentStatuses
      BY <1>4 DEF PayDeclined, PaymentStatuses
    <2>2. /\ keys[k] = Nobody /\ settlement[w] # "PAID"
          /\ \A v \in Workflows :
               settlement[v] = "PAID" => settlement'[v] = "PAID"
      BY <1>4, <2>1, Paying DEF PayDeclined
    <2>3. /\ Entry(w, k, "FAILED") \in Payments
          /\ minted' = [minted EXCEPT ![w] = NextTx(w)]
          /\ ledger' = [ledger EXCEPT ![w] = @ \cup {Entry(w, k, "FAILED")}]
          /\ keys' = [keys EXCEPT ![k] = [of |-> w, answer |-> "declined"]]
          /\ [of |-> w, answer |-> "declined"] \in Answers
      BY <2>1, Attempting
    <2> DEFINE row == Entry(w, k, "FAILED")
               a == [of |-> w, answer |-> "declined"]
    <2>4. /\ ledger' = [ledger EXCEPT ![w] = @ \cup {row}]
          /\ keys' = [keys EXCEPT ![k] = a]
          /\ a \in Answers
      BY <2>3
    <2>5. /\ row.key = k /\ a.of = w
          /\ a.answer = "paid" => settlement'[w] = "PAID"
      BY <2>2 DEF Entry
    <2> HIDE DEF row, a
    <2>6. QED
      BY <2>2, <2>4, <2>5, NewRow
  <1>5. ASSUME NEW w \in Workflows, NEW k \in Keys, PayUnknown(w, k)
        PROVE  LedgerOK'
    <2>1. /\ Fresh(w, k) /\ Attempt(w, k, "PENDING", "unknown")
          /\ "PENDING" \in PaymentStatuses
      BY <1>5 DEF PayUnknown, PaymentStatuses
    <2>2. /\ keys[k] = Nobody /\ settlement[w] # "PAID"
          /\ \A v \in Workflows :
               settlement[v] = "PAID" => settlement'[v] = "PAID"
      BY <1>5, <2>1, Paying DEF PayUnknown, Transfer
    <2>3. /\ Entry(w, k, "PENDING") \in Payments
          /\ minted' = [minted EXCEPT ![w] = NextTx(w)]
          /\ ledger' = [ledger EXCEPT ![w] = @ \cup {Entry(w, k, "PENDING")}]
          /\ keys' = [keys EXCEPT ![k] = [of |-> w, answer |-> "unknown"]]
          /\ [of |-> w, answer |-> "unknown"] \in Answers
      BY <2>1, Attempting
    <2> DEFINE row == Entry(w, k, "PENDING")
               a == [of |-> w, answer |-> "unknown"]
    <2>4. /\ ledger' = [ledger EXCEPT ![w] = @ \cup {row}]
          /\ keys' = [keys EXCEPT ![k] = a]
          /\ a \in Answers
      BY <2>3
    <2>5. /\ row.key = k /\ a.of = w
          /\ a.answer = "paid" => settlement'[w] = "PAID"
      BY <2>2 DEF Entry
    <2> HIDE DEF row, a
    <2>6. QED
      BY <2>2, <2>4, <2>5, NewRow
  <1>6. ASSUME NEW w \in Workflows, NEW k \in Keys, PayLost(w, k)
        PROVE  LedgerOK'
    <2>1. UNCHANGED <<settlement, ledger, keys>>
      BY <1>6 DEF PayLost
    <2>2. QED
      BY <2>1 DEF LedgerOK, OwnRow
  <1>7. ASSUME NEW w \in Workflows, NEW r \in ledger[w], ReconcilePaid(w, r)
        PROVE  LedgerOK'
    <2>1. /\ Resolve(w, r, "SUCCEEDED") /\ UNCHANGED keys
          /\ \A v \in Workflows :
               settlement[v] = "PAID" => settlement'[v] = "PAID"
      BY <1>7 DEF ReconcilePaid, Reconciles, Complete, Mark
    <2>2. QED
      BY <2>1, ResolvedRow DEF PaymentStatuses
  <1>8. ASSUME NEW w \in Workflows, NEW r \in ledger[w], ReconcileFailed(w, r)
        PROVE  LedgerOK'
    <2>1. /\ Resolve(w, r, "FAILED") /\ UNCHANGED keys
          /\ \A v \in Workflows :
               settlement[v] = "PAID" => settlement'[v] = "PAID"
      BY <1>8 DEF ReconcileFailed, Reconciles
    <2>2. QED
      BY <2>1, ResolvedRow DEF PaymentStatuses
  <1>9. ASSUME \/ UNCHANGED vars
               \/ \E w \in Workflows : \E c \in Contracts : \E d \in Days :
                    Initiate(w, c, d)
               \/ \E w \in Workflows : \E type \in DocTypes : Upload(w, type)
               \/ \E w \in Workflows :
                     \/ Submit(w) \/ Approve(w) \/ Reject(w) \/ Cancel(w)
                     \/ RequestInspection(w) \/ CancelInspection(w)
                     \/ ResolveDispute(w) \/ Download(w) \/ Revoke(w)
               \/ \E w \in Workflows : \E hours \in SUBSET Hours :
                    ProposeSlots(w, hours)
               \/ \E w \in Workflows : \E h \in Hours : Schedule(w, h)
               \/ \E w \in Workflows : \E lines \in Reports :
                    SubmitDamageReport(w, lines)
               \/ \E w \in Workflows :
                  \E verdict \in {"ACKNOWLEDGED", "DISPUTED"} :
                    TenantReview(w, verdict)
               \/ Tick
        PROVE  LedgerOK'
    <2>1. UNCHANGED <<settlement, ledger, keys>>
      BY <1>9
      DEF vars, Initiate, Upload, Submit, Approve, Reject, Cancel,
          RequestInspection, CancelInspection, ResolveDispute, Download,
          Revoke, ProposeSlots, Schedule, SubmitDamageReport, TenantReview,
          Tick
    <2>2. QED
      BY <2>1 DEF LedgerOK, OwnRow
  <1> HIDE <1>0
  <1>10. ASSUME NEW w \in Workflows, Requesting(w) PROVE LedgerOK'
    BY <1>10, <1>9 DEF Requesting
  <1>11. ASSUME NEW w \in Workflows, Inspecting(w) PROVE LedgerOK'
    BY <1>11, <1>9 DEF Inspecting
  <1>12. ASSUME NEW w \in Workflows, Settling(w) PROVE LedgerOK'
    BY <1>12, <1>1, <1>2, <1>3, <1>4, <1>5, <1>6, <1>7, <1>8 DEF Settling
  <1>13. ASSUME NEW w \in Workflows, Certifying(w) PROVE LedgerOK'
    BY <1>13, <1>9 DEF Certifying
  <1>14. QED
    BY <1>9, <1>10, <1>11, <1>12, <1>13 DEF Next

\* A step of the view is marked with the status it shows, and unmarked with
\* the appointment.
LEMMA MarksStep == IndInv /\ [Next]_vars => MarksOK'
  <1> SUFFICES ASSUME IndInv, [Next]_vars PROVE MarksOK'
    OBVIOUS
  <1>0. /\ status \in [Workflows -> Statuses \cup {"none"}]
        /\ visit \in [Workflows -> VisitStatuses \cup {"none"}]
        /\ marks \in [Workflows -> SUBSET Marks]
        /\ settlement \in [Workflows -> SettlementStatuses \cup {"none"}]
        /\ InspectionOK
        /\ SettlementOK
        /\ PaidIsTrue
        /\ MarksOK
    BY DEF IndInv, TypeOK
  <1> USE <1>0
      DEF request, inspecting, money, gateway, certificate, MarksOK,
          InspectionOK, SettlementOK, PaidIsTrue, ActiveStatuses, Statuses,
          Terminal, Milestones
  <1>1. ASSUME NEW w \in Workflows, NEW c \in Contracts, NEW d \in Days,
               Initiate(w, c, d)
        PROVE  MarksOK'
    BY <1>1 DEF Initiate
  <1>2. ASSUME NEW w \in Workflows, Submit(w) PROVE MarksOK'
    BY <1>2, Entering DEF Submit, Mark
  <1>3. ASSUME NEW w \in Workflows, Approve(w) PROVE MarksOK'
    BY <1>3, Entering DEF Approve
  <1>4. ASSUME NEW w \in Workflows, Reject(w) PROVE MarksOK'
    BY <1>4, Entering DEF Reject
  <1>5. ASSUME NEW w \in Workflows, Cancel(w) PROVE MarksOK'
    BY <1>5, Entering DEF Cancel
  <1>6. ASSUME NEW w \in Workflows, RequestInspection(w) PROVE MarksOK'
    BY <1>6, Entering DEF RequestInspection
  <1>7. ASSUME NEW w \in Workflows, NEW hours \in SUBSET Hours,
               ProposeSlots(w, hours)
        PROVE  MarksOK'
    <2>1. UNCHANGED settlement /\ visit' = [visit EXCEPT ![w] = "SLOTS_PROPOSED"]
      BY <1>7 DEF ProposeSlots
    <2>2. CASE Releases(w)
      <3>1. /\ status' = [status EXCEPT ![w] = "INSPECTION_REQUESTED"]
            /\ marks' = [marks EXCEPT ![w] = @ \ {"scheduled"}]
            /\ status[w] = "INSPECTION_SCHEDULED"
        BY <1>7, <2>2, Entering DEF ProposeSlots, Releases
      <3>2. QED
        BY <2>1, <3>1
    <2>3. CASE ~ Releases(w)
      <3>1. UNCHANGED <<status, marks>>
        BY <1>7, <2>3 DEF ProposeSlots
      <3>2. QED
        BY <2>1, <3>1
    <2>4. QED
      BY <2>2, <2>3
  <1>8. ASSUME NEW w \in Workflows, NEW h \in Hours, Schedule(w, h)
        PROVE  MarksOK'
    BY <1>8, Entering DEF Schedule, Mark
  <1>9. ASSUME NEW w \in Workflows, CancelInspection(w) PROVE MarksOK'
    BY <1>9, Entering DEF CancelInspection
  <1>10. ASSUME NEW w \in Workflows, NEW lines \in Reports,
               SubmitDamageReport(w, lines)
        PROVE  MarksOK'
    <2>1. /\ status' = [status EXCEPT ![w] = "DAMAGE_REVIEW"]
          /\ visit' = [visit EXCEPT ![w] = "COMPLETED"]
          /\ UNCHANGED <<marks, settlement>>
          /\ visit[w] = "SCHEDULED" /\ status[w] = "INSPECTION_SCHEDULED"
      BY <1>10, Reporting DEF SubmitDamageReport
    <2>2. QED
      BY <2>1
  <1>11. ASSUME NEW w \in Workflows,
                NEW final \in Waivers \cup {report[w].assessed},
               FinalizeDeduction(w, final)
        PROVE  MarksOK'
    BY <1>11, Entering DEF FinalizeDeduction, Mark, ReadyForSettlement
  <1>12. ASSUME NEW w \in Workflows, NEW k \in Keys, PayNothing(w, k)
        PROVE  MarksOK'
    <2>1. /\ status[w] = "SETTLEMENT_PENDING"
          /\ status' = [status EXCEPT ![w] = "COMPLETED"]
          /\ settlement' = [settlement EXCEPT ![w] = "PAID"]
          /\ marks' = [marks EXCEPT ![w] = @ \cup {"settled", "issued", "completed"}]
          /\ UNCHANGED visit
      BY <1>12, Completing DEF PayNothing, Complete, Mark
    <2>2. QED
      BY <2>1
  <1>13. ASSUME NEW w \in Workflows, NEW k \in Keys, PayAccepted(w, k)
        PROVE  MarksOK'
    <2>1. /\ status[w] = "SETTLEMENT_PENDING"
          /\ status' = [status EXCEPT ![w] = "COMPLETED"]
          /\ settlement' = [settlement EXCEPT ![w] = "PAID"]
          /\ marks' = [marks EXCEPT ![w] = @ \cup {"settled", "issued", "completed"}]
          /\ UNCHANGED visit
      BY <1>13, Completing DEF PayAccepted, Complete, Mark
    <2>2. QED
      BY <2>1
  <1>14. ASSUME NEW w \in Workflows, NEW k \in Keys, PayDeclined(w, k)
        PROVE  MarksOK'
    <2>1. UNCHANGED <<status, visit, marks>>
      BY <1>14 DEF PayDeclined, Attempt
    <2>2. settlement[w] \notin {"none", "PAID"}
      BY <1>14, Paying DEF PayDeclined
    <2>3. settlement' = [settlement EXCEPT ![w] = "PENDING"]
      BY <1>14 DEF PayDeclined
    <2>4. QED
      BY <2>1, <2>2, <2>3
  <1>15. ASSUME NEW w \in Workflows, NEW k \in Keys, PayUnknown(w, k)
        PROVE  MarksOK'
    <2>1. UNCHANGED <<status, visit, marks>>
      BY <1>15 DEF PayUnknown, Attempt, Transfer
    <2>2. settlement[w] \notin {"none", "PAID"}
      BY <1>15, Paying DEF PayUnknown
    <2>3. settlement' = [settlement EXCEPT ![w] = "PROCESSING"]
      BY <1>15 DEF PayUnknown
    <2>4. QED
      BY <2>1, <2>2, <2>3
  <1>16. ASSUME NEW w \in Workflows, NEW k \in Keys, PayLost(w, k)
        PROVE  MarksOK'
    <2>1. UNCHANGED <<status, visit, marks, settlement>>
      BY <1>16 DEF PayLost
    <2>2. QED
      BY <2>1
  <1>17. ASSUME NEW w \in Workflows, NEW r \in ledger[w], ReconcilePaid(w, r)
        PROVE  MarksOK'
    <2>1. /\ status[w] = "SETTLEMENT_PENDING"
          /\ status' = [status EXCEPT ![w] = "COMPLETED"]
          /\ settlement' = [settlement EXCEPT ![w] = "PAID"]
          /\ marks' = [marks EXCEPT ![w] = @ \cup {"settled", "issued", "completed"}]
          /\ UNCHANGED visit
      BY <1>17, Completing DEF ReconcilePaid, Complete, Mark
    <2>2. QED
      BY <2>1
  <1>18. ASSUME NEW w \in Workflows, NEW r \in ledger[w],
               ReconcileFailed(w, r)
        PROVE  MarksOK'
    BY <1>18 DEF ReconcileFailed, Reconciles, Resolve
  <1>19. ASSUME NEW w \in Workflows, Download(w) PROVE MarksOK'
    BY <1>19 DEF Download, Mark
  <1>20. ASSUME \/ UNCHANGED vars
                \/ \E w \in Workflows : \E type \in DocTypes : Upload(w, type)
                \/ \E w \in Workflows :
                   \E verdict \in {"ACKNOWLEDGED", "DISPUTED"} :
                     TenantReview(w, verdict)
                \/ \E w \in Workflows :
                      \/ ResolveDispute(w) \/ Revoke(w)
                \/ Tick
        PROVE  MarksOK'
    <2>1. UNCHANGED <<status, visit, marks, settlement>>
      BY <1>20 DEF vars, Upload, TenantReview, ResolveDispute, Revoke, Tick
    <2>2. QED
      BY <2>1
  <1> HIDE <1>0 DEF MarksOK, InspectionOK, SettlementOK, PaidIsTrue,
           ActiveStatuses, Statuses, Terminal, Milestones
  <1>21. ASSUME NEW w \in Workflows, Requesting(w) PROVE MarksOK'
    BY <1>21, <1>1, <1>2, <1>3, <1>4, <1>5, <1>20 DEF Requesting
  <1>22. ASSUME NEW w \in Workflows, Inspecting(w) PROVE MarksOK'
    BY <1>22, <1>6, <1>7, <1>8, <1>9, <1>10, <1>20 DEF Inspecting
  <1>23. ASSUME NEW w \in Workflows, Settling(w) PROVE MarksOK'
    BY <1>23, <1>11, <1>12, <1>13, <1>14, <1>15, <1>16, <1>17, <1>18
    DEF Settling
  <1>24. ASSUME NEW w \in Workflows, Certifying(w) PROVE MarksOK'
    BY <1>24, <1>19, <1>20 DEF Certifying
  <1>25. QED
    BY <1>20, <1>21, <1>22, <1>23, <1>24 DEF Next

\* What the marks say stays true: only the rows of the visit and the status
\* can put a mark out of date.
LEMMA ViewStep == IndInv /\ [Next]_vars => ViewOK'
  <1> SUFFICES ASSUME IndInv, [Next]_vars PROVE ViewOK'
    OBVIOUS
  <1>0. /\ status \in [Workflows -> Statuses \cup {"none"}]
        /\ visit \in [Workflows -> VisitStatuses \cup {"none"}]
        /\ marks \in [Workflows -> SUBSET Marks]
        /\ attempt \in [Workflows -> 0 .. MaxAttempts]
        /\ report \in [Workflows -> ReportRows \cup {NoReport}]
        /\ noc \in [Workflows -> {"none", "valid", "revoked"}]
        /\ InspectionOK
        /\ ViewOK
    BY DEF IndInv, TypeOK
  <1> USE <1>0, A3ExitAssumption
      DEF request, inspecting, money, gateway, certificate, ViewOK, Outdated,
          InspectionOK, ActiveStatuses, ActiveVisits, VisitStatuses, Terminal
  <1>1. ASSUME NEW w \in Workflows, NEW c \in Contracts, NEW d \in Days,
               Initiate(w, c, d)
        PROVE  ViewOK'
    BY <1>1 DEF Initiate
  <1>2. ASSUME NEW w \in Workflows, Submit(w) PROVE ViewOK'
    BY <1>2, Entering DEF Submit, Mark
  <1>3. ASSUME NEW w \in Workflows, Approve(w) PROVE ViewOK'
    BY <1>3, Entering DEF Approve
  <1>4. ASSUME NEW w \in Workflows, Reject(w) PROVE ViewOK'
    BY <1>4, Entering DEF Reject
  <1>5. ASSUME NEW w \in Workflows, Cancel(w) PROVE ViewOK'
    BY <1>5, Entering DEF Cancel
  <1>6. ASSUME NEW w \in Workflows, RequestInspection(w) PROVE ViewOK'
    BY <1>6, Entering DEF RequestInspection
  <1>7. ASSUME NEW w \in Workflows, NEW hours \in SUBSET Hours,
               ProposeSlots(w, hours)
        PROVE  ViewOK'
    <2>1. /\ visit' = [visit EXCEPT ![w] = "SLOTS_PROPOSED"]
          /\ visit[w] \in ActiveVisits
          /\ UNCHANGED <<attempt, report, noc>>
      BY <1>7 DEF ProposeSlots
    <2>2. CASE Releases(w)
      <3>1. /\ status' = [status EXCEPT ![w] = "INSPECTION_REQUESTED"]
            /\ marks' = [marks EXCEPT ![w] = @ \ {"scheduled"}]
            /\ status[w] = "INSPECTION_SCHEDULED"
        BY <1>7, <2>2, Entering DEF ProposeSlots, Releases
      <3>2. QED
        BY <2>1, <3>1
    <2>3. CASE ~ Releases(w)
      <3>1. UNCHANGED <<status, marks>>
        BY <1>7, <2>3 DEF ProposeSlots
      <3>2. QED
        BY <2>1, <2>3, <3>1 DEF Releases
    <2>4. QED
      BY <2>2, <2>3
  <1>8. ASSUME NEW w \in Workflows, NEW h \in Hours, Schedule(w, h)
        PROVE  ViewOK'
    BY <1>8, Entering DEF Schedule, Mark
  <1>9. ASSUME NEW w \in Workflows, CancelInspection(w) PROVE ViewOK'
    BY <1>9, Entering DEF CancelInspection
  <1>10. ASSUME NEW w \in Workflows, NEW lines \in Reports,
                SubmitDamageReport(w, lines)
         PROVE  ViewOK'
    <2>1. /\ status' = [status EXCEPT ![w] = "DAMAGE_REVIEW"]
          /\ visit' = [visit EXCEPT ![w] = "COMPLETED"]
          /\ UNCHANGED <<marks, attempt, noc>>
          /\ visit[w] = "SCHEDULED" /\ status[w] = "INSPECTION_SCHEDULED"
      BY <1>10, Reporting DEF SubmitDamageReport
    <2>2. \A v \in Workflows :
            report'[v].attempt =
              IF v = w THEN attempt[w] ELSE report[v].attempt
      BY <1>10 DEF SubmitDamageReport
    <2>3. QED
      BY <2>1, <2>2
  <1>11. ASSUME NEW w \in Workflows,
                \/ \E verdict \in {"ACKNOWLEDGED", "DISPUTED"} :
                     TenantReview(w, verdict)
                \/ ResolveDispute(w)
         PROVE  ViewOK'
    <2>1. UNCHANGED <<status, visit, marks, attempt, noc>>
      BY <1>11 DEF TenantReview, ResolveDispute
    <2>2. \A v \in Workflows : report'[v].attempt = report[v].attempt
      BY <1>11 DEF TenantReview, ResolveDispute, ReportRows, NoReport
    <2>3. QED
      BY <2>1, <2>2
  <1>12. ASSUME NEW w \in Workflows,
                NEW final \in Waivers \cup {report[w].assessed},
                FinalizeDeduction(w, final)
         PROVE  ViewOK'
    <2>1. /\ status' = [status EXCEPT ![w] = "SETTLEMENT_PENDING"]
          /\ status[w] = "DAMAGE_REVIEW"
          /\ marks' = [marks EXCEPT ![w] = @ \cup {"reviewed"}]
          /\ UNCHANGED <<visit, attempt, noc>>
      BY <1>12, Entering DEF FinalizeDeduction, Mark
    <2>2. \A v \in Workflows : report'[v].attempt = report[v].attempt
      BY <1>12 DEF FinalizeDeduction, ReportRows, NoReport
    <2>3. QED
      BY <2>1, <2>2
  <1>13. ASSUME NEW w \in Workflows, Complete(w),
                UNCHANGED <<visit, attempt, report>>
         PROVE  ViewOK'
    <2>1. /\ status[w] = "SETTLEMENT_PENDING"
          /\ status' = [status EXCEPT ![w] = "COMPLETED"]
          /\ noc' = [noc EXCEPT ![w] = "valid"]
          /\ marks' = [marks EXCEPT ![w] =
                          @ \cup {"settled", "issued", "completed"}]
      BY <1>13, Completing DEF Complete, Mark, Milestones
    <2>2. QED
      BY <1>13, <2>1
  <1>14. ASSUME NEW w \in Workflows, Settling(w),
                \A final \in Waivers \cup {report[w].assessed} :
                  ~ FinalizeDeduction(w, final)
         PROVE  ViewOK'
    <2>1. UNCHANGED <<visit, attempt, report>>
      BY <1>14
      DEF Settling, PayNothing, PayAccepted, PayDeclined, PayUnknown, PayLost,
          ReconcilePaid, ReconcileFailed
    <2>2. Complete(w) \/ UNCHANGED <<status, marks, noc>>
      BY <1>14
      DEF Settling, PayNothing, PayAccepted, PayDeclined, PayUnknown, PayLost,
          ReconcilePaid, ReconcileFailed
    <2>3. QED
      BY <1>13, <2>1, <2>2
  <1>15. ASSUME NEW w \in Workflows, Certifying(w) PROVE ViewOK'
    BY <1>15 DEF Certifying, Download, Revoke, Mark
  <1>16. ASSUME UNCHANGED <<status, visit, marks, attempt, report, noc>>
         PROVE  ViewOK'
    BY <1>16
  <1> HIDE <1>0 DEF ViewOK, Outdated, InspectionOK, ActiveStatuses,
           ActiveVisits, VisitStatuses, Terminal
  <1>17. ASSUME NEW w \in Workflows, Requesting(w) PROVE ViewOK'
    <2>1. ASSUME NEW type \in DocTypes, Upload(w, type) PROVE ViewOK'
      BY <2>1, <1>16 DEF Upload
    <2>2. QED
      BY <1>17, <1>1, <1>2, <1>3, <1>4, <1>5, <2>1 DEF Requesting
  <1>18. ASSUME NEW w \in Workflows, Inspecting(w) PROVE ViewOK'
    BY <1>18, <1>6, <1>7, <1>8, <1>9, <1>10, <1>11 DEF Inspecting
  <1>19. ASSUME NEW w \in Workflows, Settling(w) PROVE ViewOK'
    BY <1>19, <1>12, <1>14
  <1>20. ASSUME Tick \/ UNCHANGED vars PROVE ViewOK'
    BY <1>20, <1>16 DEF Tick, vars
  <1>21. QED
    BY <1>15, <1>17, <1>18, <1>19, <1>20 DEF Next

\* Every step writes values of the columns' types.
LEMMA TypeStep == IndInv /\ [Next]_vars => TypeOK'
  <1> SUFFICES ASSUME IndInv, [Next]_vars PROVE TypeOK'
    OBVIOUS
  <1>0. /\ TypeOK
        /\ RowsOK
    BY DEF IndInv, TypeOK
  <1> USE <1>0 DEF request, inspecting, money, gateway, certificate, TypeOK
  <1>a. RowsOK'
    BY RowsStep
  <1>b. /\ \A w \in Workflows : ledger'[w] \subseteq Payments
        /\ \A w \in Workflows : moved'[w] \subseteq 1 .. MaxPayouts
    BY <1>a DEF RowsOK
  <1> USE <1>b
  <1>1. ASSUME NEW w \in Workflows, NEW c \in Contracts, NEW d \in Days,
               Initiate(w, c, d)
        PROVE  TypeOK'
    BY <1>1 DEF Initiate, Statuses
  <1>2. ASSUME NEW w \in Workflows, NEW type \in DocTypes, Upload(w, type)
        PROVE  TypeOK'
    BY <1>2 DEF Upload
  <1>3. ASSUME NEW w \in Workflows, Submit(w) PROVE TypeOK'
    BY <1>3, Entering DEF Submit, Mark, Marks
  <1>4. ASSUME NEW w \in Workflows, Approve(w) PROVE TypeOK'
    BY <1>4, Entering DEF Approve
  <1>5. ASSUME NEW w \in Workflows, Reject(w) PROVE TypeOK'
    BY <1>5, Entering DEF Reject
  <1>6. ASSUME NEW w \in Workflows, Cancel(w) PROVE TypeOK'
    BY <1>6, Entering DEF Cancel
  <1>7. ASSUME NEW w \in Workflows, RequestInspection(w) PROVE TypeOK'
    <2>1. attempt[w] + 1 \in 0 .. MaxAttempts
      BY <1>7, A3ExitAssumption DEF RequestInspection
    <2>2. attempt' \in [Workflows -> 0 .. MaxAttempts]
      BY <1>7, <2>1 DEF RequestInspection
    <2>3. QED
      BY <1>7, <2>2, Entering DEF RequestInspection, VisitStatuses
  <1>8. ASSUME NEW w \in Workflows, NEW hours \in SUBSET Hours,
               ProposeSlots(w, hours)
        PROVE  TypeOK'
    <2>1. /\ status' \in [Workflows -> Statuses \cup {"none"}]
          /\ marks' \in [Workflows -> SUBSET Marks]
      BY <1>8, Entering DEF ProposeSlots
    <2>2. /\ visit' \in [Workflows -> VisitStatuses \cup {"none"}]
          /\ offered' \in [Workflows -> SUBSET Hours]
      BY <1>8 DEF ProposeSlots, VisitStatuses
    <2>3. QED
      BY <1>8, <2>1, <2>2 DEF ProposeSlots
  <1>9. ASSUME NEW w \in Workflows, NEW h \in Hours, Schedule(w, h)
        PROVE  TypeOK'
    BY <1>9, Entering DEF Schedule, Mark, VisitStatuses, Marks
  <1>10. ASSUME NEW w \in Workflows, CancelInspection(w) PROVE TypeOK'
    BY <1>10, Entering DEF CancelInspection, VisitStatuses
  <1>11. ASSUME NEW w \in Workflows, NEW lines \in Reports,
               SubmitDamageReport(w, lines)
        PROVE  TypeOK'
    <2>1. Assessed(lines) \in Nat
      BY AssessedIsNat
    <2>2. attempt[w] \in Nat
      BY A3ExitAssumption
    <2>3. [attempt |-> attempt[w], status |-> "SUBMITTED",
           assessed |-> Assessed(lines), final |-> Nobody] \in ReportRows
      BY <2>1, <2>2 DEF ReportRows, ReportStatuses
    <2>4. QED
      BY <1>11, <2>3 DEF SubmitDamageReport, Statuses, VisitStatuses
  <1>12. ASSUME NEW w \in Workflows,
                NEW verdict \in {"ACKNOWLEDGED", "DISPUTED"},
               TenantReview(w, verdict)
        PROVE  TypeOK'
    <2>1. report[w] \in ReportRows
      BY <1>12 DEF TenantReview, ReviewOpen, NoReport
    <2>2. [report[w] EXCEPT !.status = verdict] \in ReportRows
      BY <2>1 DEF ReportRows, ReportStatuses
    <2>3. QED
      BY <1>12, <2>2 DEF TenantReview
  <1>13. ASSUME NEW w \in Workflows, ResolveDispute(w) PROVE TypeOK'
    <2>1. report[w] \in ReportRows
      BY <1>13 DEF ResolveDispute, NoReport
    <2>2. [report[w] EXCEPT !.status = "DISPUTE_RESOLVED"] \in ReportRows
      BY <2>1 DEF ReportRows, ReportStatuses
    <2>3. QED
      BY <1>13, <2>2 DEF ResolveDispute
  <1>14. ASSUME NEW w \in Workflows,
                NEW final \in Waivers \cup {report[w].assessed},
               FinalizeDeduction(w, final)
        PROVE  TypeOK'
    <2>1. report[w] \in ReportRows
      BY <1>14 DEF FinalizeDeduction, ReadyForSettlement, NoReport
    <2>2. final \in Nat
      BY <2>1, A3ExitAssumption DEF ReportRows
    <2>3. [report[w] EXCEPT !.status = "FINALIZED", !.final = final]
            \in ReportRows
      BY <2>1, <2>2 DEF ReportRows, ReportStatuses
    <2>4. /\ status[w] # "none"
          /\ status' \in [Workflows -> Statuses \cup {"none"}]
      BY <1>14, Entering DEF FinalizeDeduction
    <2>5. Breakdown(DepositOf[contract[w]], final) \in Figures
      BY <2>2, <2>4, Figuring, A3ExitAssumption DEF RowsOK
    <2>6. QED
      BY <1>14, <2>3, <2>4, <2>5
      DEF FinalizeDeduction, Mark, Marks, SettlementStatuses
  <1>15. ASSUME NEW w \in Workflows, NEW k \in Keys, PayNothing(w, k)
        PROVE  TypeOK'
    <2>1. /\ Fresh(w, k) /\ Attempt(w, k, "SUCCEEDED", "paid")
          /\ "SUCCEEDED" \in PaymentStatuses
      BY <1>15 DEF PayNothing, PaymentStatuses
    <2>2. /\ Entry(w, k, "SUCCEEDED") \in Payments
          /\ minted' = [minted EXCEPT ![w] = NextTx(w)]
          /\ ledger' = [ledger EXCEPT ![w] = @ \cup {Entry(w, k, "SUCCEEDED")}]
          /\ keys' = [keys EXCEPT ![k] = [of |-> w, answer |-> "paid"]]
          /\ [of |-> w, answer |-> "paid"] \in Answers
      BY <2>1, Attempting
    <2>3. QED
      BY <1>15, <2>1, <2>2, Paying, Completing
      DEF PayNothing, Complete, Mark, Statuses, Marks, Milestones,
          SettlementStatuses
  <1>16. ASSUME NEW w \in Workflows, NEW k \in Keys, PayAccepted(w, k)
        PROVE  TypeOK'
    <2>1. /\ Fresh(w, k) /\ Attempt(w, k, "SUCCEEDED", "paid")
          /\ "SUCCEEDED" \in PaymentStatuses
      BY <1>16 DEF PayAccepted, PaymentStatuses
    <2>2. /\ Entry(w, k, "SUCCEEDED") \in Payments
          /\ minted' = [minted EXCEPT ![w] = NextTx(w)]
          /\ ledger' = [ledger EXCEPT ![w] = @ \cup {Entry(w, k, "SUCCEEDED")}]
          /\ keys' = [keys EXCEPT ![k] = [of |-> w, answer |-> "paid"]]
          /\ [of |-> w, answer |-> "paid"] \in Answers
      BY <2>1, Attempting
    <2>3. QED
      BY <1>16, <2>1, <2>2, Paying, Completing
      DEF PayAccepted, Transfer, Complete, Mark, Statuses, Marks, Milestones,
          SettlementStatuses
  <1>17. ASSUME NEW w \in Workflows, NEW k \in Keys, PayDeclined(w, k)
        PROVE  TypeOK'
    <2>1. /\ Fresh(w, k) /\ Attempt(w, k, "FAILED", "declined")
          /\ "FAILED" \in PaymentStatuses
      BY <1>17 DEF PayDeclined, PaymentStatuses
    <2>2. /\ Entry(w, k, "FAILED") \in Payments
          /\ minted' = [minted EXCEPT ![w] = NextTx(w)]
          /\ ledger' = [ledger EXCEPT ![w] = @ \cup {Entry(w, k, "FAILED")}]
          /\ keys' = [keys EXCEPT ![k] = [of |-> w, answer |-> "declined"]]
          /\ [of |-> w, answer |-> "declined"] \in Answers
      BY <2>1, Attempting
    <2>3. QED
      BY <1>17, <2>1, <2>2, Paying DEF PayDeclined, SettlementStatuses
  <1>18. ASSUME NEW w \in Workflows, NEW k \in Keys, PayUnknown(w, k)
        PROVE  TypeOK'
    <2>1. /\ Fresh(w, k) /\ Attempt(w, k, "PENDING", "unknown")
          /\ "PENDING" \in PaymentStatuses
      BY <1>18 DEF PayUnknown, PaymentStatuses
    <2>2. /\ Entry(w, k, "PENDING") \in Payments
          /\ minted' = [minted EXCEPT ![w] = NextTx(w)]
          /\ ledger' = [ledger EXCEPT ![w] = @ \cup {Entry(w, k, "PENDING")}]
          /\ keys' = [keys EXCEPT ![k] = [of |-> w, answer |-> "unknown"]]
          /\ [of |-> w, answer |-> "unknown"] \in Answers
      BY <2>1, Attempting
    <2>3. QED
      BY <1>18, <2>1, <2>2, Paying
      DEF PayUnknown, Transfer, SettlementStatuses
  <1>19. ASSUME NEW w \in Workflows, NEW k \in Keys, PayLost(w, k)
        PROVE  TypeOK'
    BY <1>19, Paying DEF PayLost, Transfer
  <1>20. ASSUME NEW w \in Workflows, NEW r \in ledger[w], ReconcilePaid(w, r)
        PROVE  TypeOK'
    BY <1>20, Completing
    DEF ReconcilePaid, Reconciles, Resolve, Complete, Mark, Statuses, Marks,
        Milestones, SettlementStatuses
  <1>21. ASSUME NEW w \in Workflows, NEW r \in ledger[w],
               ReconcileFailed(w, r)
        PROVE  TypeOK'
    BY <1>21 DEF ReconcileFailed, Reconciles, Resolve, SettlementStatuses
  <1>22. ASSUME NEW w \in Workflows, Download(w) PROVE TypeOK'
    BY <1>22 DEF Download, Mark, Marks
  <1>23. ASSUME NEW w \in Workflows, Revoke(w) PROVE TypeOK'
    BY <1>23 DEF Revoke
  <1>24. ASSUME Tick PROVE TypeOK'
    <2>1. now' \in 0 .. MaxHour
      BY <1>24, A3ExitAssumption DEF Tick
    <2>2. QED
      BY <1>24, <2>1 DEF Tick
  <1>25. ASSUME UNCHANGED vars
        PROVE  TypeOK'
    <2>1. UNCHANGED vars
      BY <1>25 DEF vars
    <2>2. QED
      BY <2>1 DEF vars
  <1> HIDE <1>0 DEF TypeOK
  <1>26. ASSUME NEW w \in Workflows, Requesting(w) PROVE TypeOK'
    BY <1>26, <1>1, <1>2, <1>3, <1>4, <1>5, <1>6 DEF Requesting
  <1>27. ASSUME NEW w \in Workflows, Inspecting(w) PROVE TypeOK'
    BY <1>27, <1>7, <1>8, <1>9, <1>10, <1>11, <1>12, <1>13 DEF Inspecting
  <1>28. ASSUME NEW w \in Workflows, Settling(w) PROVE TypeOK'
    BY <1>28, <1>14, <1>15, <1>16, <1>17, <1>18, <1>19, <1>20, <1>21
    DEF Settling
  <1>29. ASSUME NEW w \in Workflows, Certifying(w) PROVE TypeOK'
    BY <1>29, <1>22, <1>23 DEF Certifying
  <1>30. QED
    BY <1>25, <1>26, <1>27, <1>28, <1>29, <1>24 DEF Next

\* IndInv holds in every reachable state.
THEOREM Invariance == Spec => []IndInv
  <1>1. IndInv /\ [Next]_vars => IndInv'
    BY TypeStep, InspectionStep, RowsStep, SettlementStep, PaidStep,
       LedgerStep, MarksStep, ViewStep
    DEF IndInv
  <1>2. QED
    BY InitInd, <1>1, PTL DEF Spec

-----------------------------------------------------------------------------
\* Wherever an exit stands, its inspection, its slot and its report are those
\* of the latest attempt: proposals, cancellations and repeated inspections
\* leave no row of an earlier one in charge.
THEOREM InspectionFollows == Spec => []InspectionAgrees
  <1>1. IndInv => InspectionAgrees
    BY DEF IndInv, InspectionOK, InspectionAgrees
  <1>2. QED
    BY Invariance, <1>1, PTL

\* What the tables call paid was transferred or was nothing, and the
\* certificate shows it, although the gateway may answer, decline or be silent
\* and requests may be rolled back after it acted.
THEOREM PaymentIsTrue == Spec => []PaidIsTrue
  <1>1. IndInv => PaidIsTrue
    BY DEF IndInv
  <1>2. QED
    BY Invariance, <1>1, PTL

\* An answer that was stored under an Idempotency-Key stays true, and its key
\* belongs to one row of one ledger for good.
THEOREM StoredAnswersHold == Spec => []AnswersHold
  <1>1. IndInv => AnswersHold
    <2> SUFFICES ASSUME IndInv, NEW k \in Keys, keys[k] # Nobody
                 PROVE  LET w == keys[k].of IN
                        /\ keys[k].answer = "paid" => settlement[w] = "PAID"
                        /\ Quantify(ledger[w], LAMBDA r : r.key = k) = 1
                        /\ \A v \in Workflows \ {w} :
                             \A r \in ledger[v] : r.key # k
      BY DEF AnswersHold
    <2> DEFINE w == keys[k].of
    <2>1. PICK r \in ledger[w] : OwnRow(ledger, k, w, r)
      BY DEF IndInv, LedgerOK
    <2>2. w \in Workflows
      BY DEF IndInv, TypeOK, Answers
    <2>3. {s \in ledger[w] : s.key = k} = {r}
      BY <2>1, <2>2 DEF OwnRow
    <2>4. Cardinality({s \in ledger[w] : s.key = k}) = 1
      BY <2>3, FS_Singleton
    <2>5. Quantify(ledger[w], LAMBDA s : s.key = k) = 1
      BY <2>4 DEF Quantify
    <2>6. QED
      BY <2>1, <2>2, <2>5 DEF IndInv, LedgerOK, OwnRow
  <1>2. QED
    BY Invariance, <1>1, PTL

\* A step the ten-step view shows as complete is backed by the table of its
\* service and the other way round; the appointment alone may be shown after
\* it is gone, and Outdated says when.
THEOREM ViewIsBacked == Spec => []StepsAreBacked
  <1>1. IndInv => StepsAreBacked
    BY
    DEF IndInv, SettlementOK, PaidIsTrue, MarksOK, ViewOK, StepsAreBacked,
        Steps, Step, Halted
  <1>2. QED
    BY Invariance, <1>1, PTL

\* What an open dispute keeps out: its exit is not finalised before the owner
\* resolves it, and an exit that is not settled is neither paid nor reconciled.
LEMMA DisputedStep ==
  ASSUME IndInv, [Next]_vars, NEW w \in Workflows,
         report[w].status = "DISPUTED"
  PROVE  settlement'[w] = "none"
  <1>1. /\ settlement[w] = "none" /\ status[w] # "SETTLEMENT_PENDING"
        /\ settlement \in [Workflows -> SettlementStatuses \cup {"none"}]
    BY DEF IndInv, TypeOK, SettlementOK
  <1>2. ASSUME NEW v \in Workflows, Requesting(v) PROVE UNCHANGED settlement
    BY <1>2
    DEF Requesting, Initiate, Upload, Submit, Approve, Reject, Cancel, money
  <1>3. ASSUME NEW v \in Workflows, Inspecting(v) PROVE UNCHANGED settlement
    BY <1>3
    DEF Inspecting, RequestInspection, ProposeSlots, Schedule,
        CancelInspection, SubmitDamageReport, TenantReview, ResolveDispute,
        money
  <1>4. ASSUME NEW v \in Workflows, Certifying(v) PROVE UNCHANGED settlement
    BY <1>4 DEF Certifying, Download, Revoke, money
  <1>5. ASSUME NEW v \in Workflows, Settling(v) PROVE settlement'[w] = "none"
    <2>1. ASSUME NEW final, FinalizeDeduction(v, final)
          PROVE  settlement'[w] = "none"
      BY <1>1, <2>1 DEF FinalizeDeduction, ReadyForSettlement
    <2>2. ASSUME NEW k \in Keys, \/ PayNothing(v, k) \/ PayAccepted(v, k)
                                 \/ PayDeclined(v, k) \/ PayUnknown(v, k)
                                 \/ PayLost(v, k)
          PROVE  settlement'[w] = "none"
      BY <1>1, <2>2
      DEF PayNothing, PayAccepted, PayDeclined, PayUnknown, PayLost, Fresh,
          MayPay, Complete, money
    <2>3. ASSUME NEW r, ReconcilePaid(v, r) \/ ReconcileFailed(v, r)
          PROVE  settlement'[w] = "none"
      BY <1>1, <2>3 DEF ReconcilePaid, ReconcileFailed, Reconciles, Complete
    <2>4. QED
      BY <1>5, <2>1, <2>2, <2>3 DEF Settling
  <1>6. QED
    BY <1>1, <1>2, <1>3, <1>4, <1>5 DEF Next, Tick, vars, money

\* While a dispute is open nothing is settled or paid, and what is settled is
\* not disputed.
THEOREM DisputesHold == Spec => DisputeHoldsDeposit
  <1>1. IndInv /\ [Next]_vars =>
          \A w \in Workflows :
            report[w].status = "DISPUTED" =>
              settlement'[w] = "none" /\ minted'[w] = 0
    <2> SUFFICES ASSUME IndInv, [Next]_vars, NEW w \in Workflows,
                        report[w].status = "DISPUTED"
                 PROVE  settlement'[w] = "none" /\ minted'[w] = 0
      OBVIOUS
    <2>1. settlement'[w] = "none"
      BY DisputedStep
    <2>2. SettlementOK'
      BY SettlementStep DEF IndInv
    <2>3. QED
      BY <2>1, <2>2 DEF SettlementOK
  <1>2. QED
    BY Invariance, <1>1, PTL DEF Spec, DisputeHoldsDeposit

-----------------------------------------------------------------------------
\* approve looks at the table only, and two rows meant for a cancelled
\* inspection lead to OWNER_APPROVED: a second approval leaves the inspection
\* active behind an approved exit.
Reapproved(w) == status[w] = "OWNER_APPROVED" /\ visit[w] \in ActiveVisits

\* From there a step goes nowhere but to CANCELLED.
ReapprovalIsFinal ==
  [][\A w \in Workflows :
       Reapproved(w) => Reapproved(w)' \/ status'[w] = "CANCELLED"]_vars

LEMMA FromApproved ==
  ASSUME NEW to, NEW role, May("OWNER_APPROVED", to, role)
  PROVE  to \in {"INSPECTION_REQUESTED", "CANCELLED"}
  BY DEF May, Table, Row

LEMMA ReapprovedStep ==
  ASSUME IndInv, [Next]_vars, NEW w \in Workflows, Reapproved(w)
  PROVE  Reapproved(w)' \/ status'[w] = "CANCELLED"
  <1> DEFINE Stays == Reapproved(w)' \/ status'[w] = "CANCELLED"
  <1>0. /\ status[w] = "OWNER_APPROVED" /\ visit[w] \in ActiveVisits
        /\ status \in [Workflows -> Statuses \cup {"none"}]
        /\ visit \in [Workflows -> VisitStatuses \cup {"none"}]
    BY DEF IndInv, TypeOK, Reapproved
  <1>1. ASSUME UNCHANGED <<status, visit>> PROVE Stays
    BY <1>0, <1>1 DEF Reapproved
  <1>2. ASSUME NEW v \in Workflows, Requesting(v) PROVE Stays
    BY <1>0, <1>2, FromApproved
    DEF Requesting, Initiate, Upload, Submit, Approve, Reject, Cancel, Enter,
        inspecting, Reapproved
  <1>3. ASSUME NEW v \in Workflows, Inspecting(v) PROVE Stays
    BY <1>0, <1>3, FromApproved
    DEF Inspecting, RequestInspection, ProposeSlots, Schedule, Releases,
        CancelInspection, SubmitDamageReport, TenantReview, ResolveDispute,
        Enter, request, inspecting, ActiveVisits, Reapproved
  <1>4. ASSUME NEW v \in Workflows, Settling(v) PROVE Stays
    <2>1. ASSUME NEW final, FinalizeDeduction(v, final) PROVE Stays
      BY <1>0, <2>1, FromApproved
      DEF FinalizeDeduction, Enter, inspecting, Reapproved
    <2>2. ASSUME NEW k \in Keys, \/ PayNothing(v, k) \/ PayAccepted(v, k)
                                 \/ PayDeclined(v, k) \/ PayUnknown(v, k)
                                 \/ PayLost(v, k)
          PROVE  Stays
      BY <1>0, <2>2, FromApproved
      DEF PayNothing, PayAccepted, PayDeclined, PayUnknown, PayLost, Complete,
          inspecting, Reapproved
    <2>3. ASSUME NEW r, ReconcilePaid(v, r) \/ ReconcileFailed(v, r)
          PROVE  Stays
      BY <1>0, <2>3, FromApproved
      DEF ReconcilePaid, ReconcileFailed, Complete, inspecting, Reapproved
    <2>4. QED
      BY <1>4, <2>1, <2>2, <2>3 DEF Settling
  <1>5. ASSUME NEW v \in Workflows, Certifying(v) PROVE Stays
    BY <1>1, <1>5 DEF Certifying, Download, Revoke, inspecting
  <1>6. QED
    BY <1>1, <1>2, <1>3, <1>4, <1>5 DEF Next, Tick, vars, request, inspecting

\* An exit that was approved again while its inspection was under way never
\* moves on: the appointment can be neither held nor cancelled nor asked for
\* anew, and all that is left is to cancel the exit.
THEOREM ReapprovedIsStuck == Spec => ReapprovalIsFinal
  <1>1. IndInv /\ [Next]_vars =>
          \A w \in Workflows :
            Reapproved(w) => Reapproved(w)' \/ status'[w] = "CANCELLED"
    BY ReapprovedStep
  <1>2. QED
    BY Invariance, <1>1, PTL DEF Spec, ReapprovalIsFinal

-----------------------------------------------------------------------------
\* MoneyMovesOnce, which does not hold (MCA3ExitTwice), fails for two reasons
\* and no other: a transfer whose transaction is rolled back, and an
\* administrator who names another transaction than the one in doubt.
Careful ==
  /\ \A w \in Workflows : \A k \in Keys : ~ PayLost(w, k)
  /\ \A w \in Workflows : \A r \in ledger[w] :
       ReconcileFailed(w, r) => r.status = "PENDING"

CarefulSpec == Init /\ [][Next /\ Careful]_vars

\* An open settlement that nobody doubts has moved nothing; one in doubt has
\* moved what its one pending row asked for, or nothing.
InDoubt(w) ==
  /\ settlement[w] \notin {"PROCESSING", "PAID"} =>
       moved[w] = {} /\ \A s \in ledger[w] : s.status # "PENDING"
  /\ settlement[w] = "PROCESSING" =>
       \E r \in ledger[w] :
         /\ moved[w] \subseteq {r.tx}
         /\ \A s \in ledger[w] : s.status = "PENDING" => s = r
  /\ \E t \in Nat : moved[w] \subseteq {t}

InDoubtOK == \A w \in Workflows : InDoubt(w)

\* Only a transfer that is neither lost nor denied leaves its mark, and it ends
\* the payments.
LEMMA InDoubtStep == IndInv /\ InDoubtOK /\ Careful /\ [Next]_vars => InDoubtOK'
  <1> SUFFICES ASSUME IndInv, InDoubtOK, Careful, [Next]_vars PROVE InDoubtOK'
    OBVIOUS
  <1>0. /\ settlement \in [Workflows -> SettlementStatuses \cup {"none"}]
        /\ minted \in [Workflows -> 0 .. MaxPayouts]
        /\ RowsOK
        /\ SettlementOK
        /\ InDoubtOK
    BY DEF IndInv, TypeOK
  <1> USE <1>0 DEF request, inspecting, money, gateway, certificate, InDoubt
  <1>1. ASSUME NEW w \in Workflows,
               NEW final \in Waivers \cup {report[w].assessed},
               FinalizeDeduction(w, final)
        PROVE  InDoubtOK'
    <2>1. settlement[w] = "none"
      BY <1>1 DEF FinalizeDeduction, ReadyForSettlement, SettlementOK
    <2>2. /\ settlement' = [settlement EXCEPT ![w] = "PENDING"]
          /\ UNCHANGED <<ledger, moved>>
      BY <1>1 DEF FinalizeDeduction
    <2>3. QED
      BY <2>1, <2>2 DEF InDoubtOK, InDoubt
  <1>2. ASSUME NEW w \in Workflows, NEW k \in Keys, PayNothing(w, k)
        PROVE  InDoubtOK'
    <2>1. Fresh(w, k) /\ Attempt(w, k, "SUCCEEDED", "paid")
      BY <1>2 DEF PayNothing
    <2>2. ledger' = [ledger EXCEPT ![w] = @ \cup {Entry(w, k, "SUCCEEDED")}]
      BY <2>1, Attempting DEF PaymentStatuses
    <2>3. /\ settlement[w] \notin {"PROCESSING", "PAID"} /\ NextTx(w) \in Nat
          /\ moved[w] = {} /\ \A s \in ledger[w] : s.status # "PENDING"
      BY <2>1, Paying DEF InDoubtOK
    <2> DEFINE row == Entry(w, k, "SUCCEEDED")
    <2>4. row.tx = NextTx(w) /\ row.status = "SUCCEEDED"
      BY DEF Entry
    <2> HIDE DEF row
    <2>5. ledger' = [ledger EXCEPT ![w] = @ \cup {row}]
      BY <2>2 DEF row
    <2>6. /\ settlement' = [settlement EXCEPT ![w] = "PAID"]
          /\ moved'[w] = {}
          /\ \A v \in Workflows \ {w} : moved'[v] = moved[v]
      BY <1>2, <2>3 DEF PayNothing, Complete, RowsOK
    <2> SUFFICES ASSUME NEW v \in Workflows
                 PROVE  InDoubt(v)'
      BY DEF InDoubtOK
    <2>7. CASE v = w
      BY <2>3, <2>4, <2>5, <2>6, <2>7
    <2>8. CASE v # w
      BY <2>5, <2>6, <2>8 DEF InDoubtOK
    <2>9. QED
      BY <2>7, <2>8
  <1>3. ASSUME NEW w \in Workflows, NEW k \in Keys, PayAccepted(w, k)
        PROVE  InDoubtOK'
    <2>1. Fresh(w, k) /\ Attempt(w, k, "SUCCEEDED", "paid")
      BY <1>3 DEF PayAccepted
    <2>2. ledger' = [ledger EXCEPT ![w] = @ \cup {Entry(w, k, "SUCCEEDED")}]
      BY <2>1, Attempting DEF PaymentStatuses
    <2>3. /\ settlement[w] \notin {"PROCESSING", "PAID"} /\ NextTx(w) \in Nat
          /\ moved[w] = {} /\ \A s \in ledger[w] : s.status # "PENDING"
      BY <2>1, Paying DEF InDoubtOK
    <2> DEFINE row == Entry(w, k, "SUCCEEDED")
    <2>4. row.tx = NextTx(w) /\ row.status = "SUCCEEDED"
      BY DEF Entry
    <2> HIDE DEF row
    <2>5. ledger' = [ledger EXCEPT ![w] = @ \cup {row}]
      BY <2>2 DEF row
    <2>6. /\ settlement' = [settlement EXCEPT ![w] = "PAID"]
          /\ moved'[w] \subseteq {NextTx(w)}
          /\ \A v \in Workflows \ {w} : moved'[v] = moved[v]
      BY <1>3, <2>3 DEF PayAccepted, Complete, Transfer, RowsOK
    <2> SUFFICES ASSUME NEW v \in Workflows
                 PROVE  InDoubt(v)'
      BY DEF InDoubtOK
    <2>7. CASE v = w
      BY <2>3, <2>4, <2>5, <2>6, <2>7
    <2>8. CASE v # w
      BY <2>5, <2>6, <2>8 DEF InDoubtOK
    <2>9. QED
      BY <2>7, <2>8
  <1>4. ASSUME NEW w \in Workflows, NEW k \in Keys, PayDeclined(w, k)
        PROVE  InDoubtOK'
    <2>1. Fresh(w, k) /\ Attempt(w, k, "FAILED", "declined")
      BY <1>4 DEF PayDeclined
    <2>2. ledger' = [ledger EXCEPT ![w] = @ \cup {Entry(w, k, "FAILED")}]
      BY <2>1, Attempting DEF PaymentStatuses
    <2>3. /\ settlement[w] \notin {"PROCESSING", "PAID"} /\ NextTx(w) \in Nat
          /\ moved[w] = {} /\ \A s \in ledger[w] : s.status # "PENDING"
      BY <2>1, Paying DEF InDoubtOK
    <2> DEFINE row == Entry(w, k, "FAILED")
    <2>4. row.tx = NextTx(w) /\ row.status = "FAILED"
      BY DEF Entry
    <2> HIDE DEF row
    <2>5. ledger' = [ledger EXCEPT ![w] = @ \cup {row}]
      BY <2>2 DEF row
    <2>6. /\ settlement' = [settlement EXCEPT ![w] = "PENDING"]
          /\ moved'[w] = {}
          /\ \A v \in Workflows \ {w} : moved'[v] = moved[v]
      BY <1>4, <2>3 DEF PayDeclined, RowsOK
    <2> SUFFICES ASSUME NEW v \in Workflows
                 PROVE  InDoubt(v)'
      BY DEF InDoubtOK
    <2>7. CASE v = w
      BY <2>3, <2>4, <2>5, <2>6, <2>7
    <2>8. CASE v # w
      BY <2>5, <2>6, <2>8 DEF InDoubtOK
    <2>9. QED
      BY <2>7, <2>8
  <1>5. ASSUME NEW w \in Workflows, NEW k \in Keys, PayUnknown(w, k)
        PROVE  InDoubtOK'
    <2>1. Fresh(w, k) /\ Attempt(w, k, "PENDING", "unknown")
      BY <1>5 DEF PayUnknown
    <2>2. ledger' = [ledger EXCEPT ![w] = @ \cup {Entry(w, k, "PENDING")}]
      BY <2>1, Attempting DEF PaymentStatuses
    <2>3. /\ settlement[w] \notin {"PROCESSING", "PAID"} /\ NextTx(w) \in Nat
          /\ moved[w] = {} /\ \A s \in ledger[w] : s.status # "PENDING"
      BY <2>1, Paying DEF InDoubtOK
    <2> DEFINE row == Entry(w, k, "PENDING")
    <2>4. row.tx = NextTx(w) /\ row.status = "PENDING"
      BY DEF Entry
    <2> HIDE DEF row
    <2>5. ledger' = [ledger EXCEPT ![w] = @ \cup {row}]
      BY <2>2 DEF row
    <2>6. /\ settlement' = [settlement EXCEPT ![w] = "PROCESSING"]
          /\ moved'[w] \subseteq {NextTx(w)}
          /\ \A v \in Workflows \ {w} : moved'[v] = moved[v]
      BY <1>5, <2>3 DEF PayUnknown, Transfer, RowsOK
    <2> SUFFICES ASSUME NEW v \in Workflows
                 PROVE  InDoubt(v)'
      BY DEF InDoubtOK
    <2>7. CASE v = w
      <3>1. /\ settlement'[w] = "PROCESSING" /\ row \in ledger'[w]
            /\ moved'[w] \subseteq {row.tx} /\ row.tx \in Nat
        BY <2>3, <2>4, <2>5, <2>6 DEF RowsOK
      <3>2. \A s \in ledger'[w] : s.status = "PENDING" => s = row
        BY <2>3, <2>5 DEF RowsOK
      <3>3. QED
        BY <2>7, <3>1, <3>2
    <2>8. CASE v # w
      BY <2>5, <2>6, <2>8 DEF InDoubtOK
    <2>9. QED
      BY <2>7, <2>8
  <1>6. ASSUME NEW w \in Workflows, NEW k \in Keys, PayLost(w, k)
        PROVE  InDoubtOK'
    BY <1>6 DEF Careful
  <1>7. ASSUME NEW w \in Workflows, NEW r \in ledger[w], ReconcilePaid(w, r)
        PROVE  InDoubtOK'
    <2>1. settlement[w] = "PROCESSING" /\ Resolve(w, r, "SUCCEEDED")
          /\ settlement' = [settlement EXCEPT ![w] = "PAID"]
          /\ UNCHANGED moved
      BY <1>7 DEF ReconcilePaid, Reconciles, Complete
    <2> SUFFICES ASSUME NEW v \in Workflows
                 PROVE  InDoubt(v)'
      BY DEF InDoubtOK
    <2>2. CASE v = w
      BY <2>1, <2>2 DEF InDoubtOK
    <2>3. CASE v # w
      BY <2>1, <2>3 DEF InDoubtOK, Resolve
    <2>4. QED
      BY <2>2, <2>3
  <1>8. ASSUME NEW w \in Workflows, NEW r \in ledger[w], ReconcileFailed(w, r)
        PROVE  InDoubtOK'
    <2>1. r.status = "PENDING" /\ settlement[w] = "PROCESSING"
          /\ r.tx \notin moved[w] /\ UNCHANGED moved
          /\ settlement' = [settlement EXCEPT ![w] = "PENDING"]
      BY <1>8 DEF ReconcileFailed, Reconciles, Careful
    <2> DEFINE new == [r EXCEPT !.status = "FAILED"]
    <2>2. new.status = "FAILED"
      BY DEF RowsOK, Payments
    <2>3. ledger' = [ledger EXCEPT ![w] = (@ \ {r}) \cup {new}]
      BY <1>8 DEF ReconcileFailed, Resolve
    <2> HIDE DEF new
    <2>4. moved[w] = {} /\ \A s \in ledger[w] : s.status = "PENDING" => s = r
      BY <2>1 DEF InDoubtOK
    <2> SUFFICES ASSUME NEW v \in Workflows
                 PROVE  InDoubt(v)'
      BY DEF InDoubtOK
    <2>5. CASE v = w
      <3>1. \E t \in Nat : moved'[v] \subseteq {t}
        BY <2>1, <2>4, <2>5
      <3>2. QED
        BY <2>1, <2>2, <2>3, <2>4, <2>5, <3>1 DEF RowsOK
    <2>6. CASE v # w
      BY <2>1, <2>3, <2>6 DEF InDoubtOK
    <2>7. QED
      BY <2>5, <2>6
  <1>9. ASSUME \/ UNCHANGED vars
               \/ \E w \in Workflows : \E c \in Contracts : \E d \in Days :
                    Initiate(w, c, d)
               \/ \E w \in Workflows : \E type \in DocTypes : Upload(w, type)
               \/ \E w \in Workflows :
                     \/ Submit(w) \/ Approve(w) \/ Reject(w) \/ Cancel(w)
                     \/ RequestInspection(w) \/ CancelInspection(w)
                     \/ ResolveDispute(w) \/ Download(w) \/ Revoke(w)
               \/ \E w \in Workflows : \E hours \in SUBSET Hours :
                    ProposeSlots(w, hours)
               \/ \E w \in Workflows : \E h \in Hours : Schedule(w, h)
               \/ \E w \in Workflows : \E lines \in Reports :
                    SubmitDamageReport(w, lines)
               \/ \E w \in Workflows :
                  \E verdict \in {"ACKNOWLEDGED", "DISPUTED"} :
                    TenantReview(w, verdict)
               \/ Tick
        PROVE  InDoubtOK'
    <2>1. UNCHANGED <<settlement, ledger, moved>>
      BY <1>9
      DEF vars, Initiate, Upload, Submit, Approve, Reject, Cancel,
          RequestInspection, CancelInspection, ResolveDispute, Download,
          Revoke, ProposeSlots, Schedule, SubmitDamageReport, TenantReview,
          Tick
    <2>2. QED
      BY <2>1 DEF InDoubtOK, InDoubt
  <1> HIDE <1>0 DEF InDoubt
  <1>10. ASSUME NEW w \in Workflows, Requesting(w) PROVE InDoubtOK'
    BY <1>10, <1>9 DEF Requesting
  <1>11. ASSUME NEW w \in Workflows, Inspecting(w) PROVE InDoubtOK'
    BY <1>11, <1>9 DEF Inspecting
  <1>12. ASSUME NEW w \in Workflows, Settling(w) PROVE InDoubtOK'
    BY <1>12, <1>1, <1>2, <1>3, <1>4, <1>5, <1>6, <1>7, <1>8 DEF Settling
  <1>13. ASSUME NEW w \in Workflows, Certifying(w) PROVE InDoubtOK'
    BY <1>13, <1>9 DEF Certifying
  <1>14. QED
    BY <1>9, <1>10, <1>11, <1>12, <1>13 DEF Next

\* Without a transfer that is rolled back and a reconciliation of the wrong
\* row, no exit's money moves twice, whatever the gateway answers, however
\* often a payment is repeated and under whichever keys.
THEOREM CarefulPaysOnce == CarefulSpec => []MoneyMovesOnce
  <1>1. Init => InDoubtOK
    BY DEF Init, InDoubtOK, InDoubt
  <1>2. IndInv /\ InDoubtOK /\ [Next /\ Careful]_vars => InDoubtOK'
    <2> SUFFICES ASSUME IndInv, InDoubtOK, [Next /\ Careful]_vars
                 PROVE  InDoubtOK'
      OBVIOUS
    <2>1. CASE UNCHANGED vars
      BY <2>1 DEF vars, money, gateway, InDoubtOK, InDoubt
    <2>2. CASE Next /\ Careful
      BY <2>2, InDoubtStep
    <2>3. QED
      BY <2>1, <2>2
  <1>3. [Next /\ Careful]_vars => [Next]_vars
    OBVIOUS
  <1>4. InDoubtOK => MoneyMovesOnce
    <2> SUFFICES ASSUME InDoubtOK, NEW w \in Workflows
                 PROVE  Cardinality(moved[w]) <= 1
      BY DEF MoneyMovesOnce
    <2>1. PICK t \in Nat : moved[w] \subseteq {t}
      BY DEF InDoubtOK, InDoubt
    <2>2. moved[w] = {} \/ moved[w] = {t}
      BY <2>1
    <2>3. CASE moved[w] = {}
      BY <2>3, FS_EmptySet
    <2>4. CASE moved[w] = {t}
      <3>1. Cardinality({t}) = 1
        BY FS_Singleton
      <3>2. QED
        BY <2>4, <3>1
    <2>5. QED
      BY <2>2, <2>3, <2>4
  <1>5. CarefulSpec => Spec
    BY <1>3, PTL DEF CarefulSpec, Spec
  <1>6. QED
    BY <1>1, <1>2, <1>4, <1>5, Invariance, PTL DEF CarefulSpec
=============================================================================
