---------------------------- MODULE A2Exit_proofs ----------------------------
(***************************************************************************)
(* Proofs about A2Exit, for any number of exits, contracts, hours, rounds  *)
(* and edits, every deposit and every damage report.                       *)
(*                                                                         *)
(* IndInv adds to the invariants of the runs what they rest on: an exit    *)
(* that has not been approved has neither report nor appointment (FreshOK),*)
(* which is what an approval hands to the agency; a batch of drafts none   *)
(* of whose rows was written since it was read still consists of stale     *)
(* drafts (SweepOK), which is what lets the sweep commit without a lock;   *)
(* and an exit has finitely many damage items (RowsOK), so that their      *)
(* charges have a total.                                                   *)
(***************************************************************************)
EXTENDS A2Exit, FiniteSetTheorems, WellFoundedInduction, TLAPS

\* The items and the lines are rows of the exit, finitely many.
RowsOK ==
  /\ items \in [Workflows -> SUBSET ItemRows]
  /\ lines \in [Workflows -> SUBSET (Nat \X Nat \X Nat)]
  /\ \A w \in Workflows : IsFiniteSet(items[w])

\* The part of TablesAgree that is not typing.
TablesOK ==
  \A w \in Workflows :
    /\ state[w] = "SETTLEMENT_PENDING" <=> settlement[w] = "PENDING_APPROVAL"
    /\ state[w] = "SETTLEMENT_PROCESSING" <=> settlement[w] = "PROCESSING"
    /\ Settled(w) <=> settlement[w] = "COMPLETED"
    /\ Settled(w) <=> noc[w] # "none"
    /\ state[w] \notin {"SETTLEMENT_COMPLETED", "INSPECTION_COMPLETED"}

\* Before an approval there is neither a report nor an appointment.
FreshOK ==
  \A w \in Workflows :
    state[w] \in {"none", "DRAFT", "SUBMITTED"} =>
      w \notin reported /\ selected[w] = Nobody

\* What find_stale read is still so, unless the version says it is not.
SweepOK ==
  sweep.job = "drafts" /\ ~ sweep.dirty =>
    \A w \in sweep.rows : state[w] = "DRAFT" /\ w \in stale

IndInv ==
  /\ TypeOK
  /\ RowsOK
  /\ OneActiveExit
  /\ TablesOK
  /\ FreshOK
  /\ ReportIsOfThisRound
  /\ AppointmentIffScheduled
  /\ ChargedAsReviewed
  /\ NoDisputeIsPassedOver
  /\ SweepOK

-----------------------------------------------------------------------------
\* What an action by the table says of the state it starts from.
LEMMA Moves ==
  ASSUME NEW f, NEW action, NEW t, Takes(f, action, t)
  PROVE  /\ f \in Blocking /\ f \in States /\ f # "none" /\ t \in States
         /\ action = "submit" => f = "DRAFT"
         /\ action \in {"withdraw", "owner_reject", "owner_approve"} =>
              f = "SUBMITTED"
         /\ action = "cancel" =>
              f \in {"DRAFT", "SUBMITTED", "OWNER_APPROVED",
                      "INSPECTION_SLOTS_PROPOSED", "INSPECTION_SCHEDULED"}
         /\ action = "propose_inspection_slots" =>
              f \in {"OWNER_APPROVED", "INSPECTION_SLOTS_PROPOSED"}
         /\ action = "select_inspection_slot" =>
              f = "INSPECTION_SLOTS_PROPOSED"
         /\ action \in {"reschedule_inspection",
                         "submit_inspection_report"} =>
              f = "INSPECTION_SCHEDULED"
         /\ action \in {"request_reinspection", "finalise_settlement"} =>
              f = "DAMAGE_REVIEW"
         /\ action \in {"pay_deposit", "reopen_damage_review"} =>
              f = "SETTLEMENT_PENDING"
         /\ action = "settlement_failed" => f = "SETTLEMENT_PROCESSING"
         /\ action = "complete" => f = "NOC_ISSUED"
  <1>1. PICK r \in Table : r.from = f /\ r.action = action /\ r.to = t
    BY DEF Takes
  <1>2. f \in Blocking /\ f \in States /\ f # "none" /\ t \in States
    BY <1>1 DEF Table, Row, Blocking, States, Terminal
  <1>3. action = "cancel" =>
          f \in {"DRAFT", "SUBMITTED", "OWNER_APPROVED",
                "INSPECTION_SLOTS_PROPOSED", "INSPECTION_SCHEDULED"}
    BY <1>1 DEF Table, Row
  <1>4. /\ action = "submit" => f = "DRAFT"
        /\ action \in {"withdraw", "owner_reject", "owner_approve"} =>
             f = "SUBMITTED"
    BY <1>1 DEF Table, Row
  <1>5. /\ action = "propose_inspection_slots" =>
             f \in {"OWNER_APPROVED", "INSPECTION_SLOTS_PROPOSED"}
        /\ action = "select_inspection_slot" =>
             f = "INSPECTION_SLOTS_PROPOSED"
        /\ action \in {"reschedule_inspection",
                        "submit_inspection_report"} =>
             f = "INSPECTION_SCHEDULED"
    BY <1>1 DEF Table, Row
  <1>6. /\ action \in {"request_reinspection", "finalise_settlement"} =>
             f = "DAMAGE_REVIEW"
        /\ action \in {"pay_deposit", "reopen_damage_review"} =>
             f = "SETTLEMENT_PENDING"
    BY <1>1 DEF Table, Row
  <1>7. /\ action = "settlement_failed" => f = "SETTLEMENT_PROCESSING"
        /\ action = "complete" => f = "NOC_ISSUED"
    BY <1>1 DEF Table, Row
  <1>8. QED
    BY <1>2, <1>3, <1>4, <1>5, <1>6, <1>7

\* The same of a command that enters a state.
LEMMA Entering ==
  ASSUME NEW w, NEW action, NEW to, Enter(w, action, to)
  PROVE  /\ state' = [state EXCEPT ![w] = to] /\ Touch(w)
         /\ state[w] \in Blocking /\ state[w] \in States /\ state[w] # "none"
         /\ to \in States
         /\ action = "submit" => state[w] = "DRAFT"
         /\ action \in {"withdraw", "owner_reject", "owner_approve"} =>
              state[w] = "SUBMITTED"
         /\ action = "cancel" =>
              state[w] \in {"DRAFT", "SUBMITTED", "OWNER_APPROVED",
                      "INSPECTION_SLOTS_PROPOSED", "INSPECTION_SCHEDULED"}
         /\ action = "propose_inspection_slots" =>
              state[w] \in {"OWNER_APPROVED", "INSPECTION_SLOTS_PROPOSED"}
         /\ action = "select_inspection_slot" =>
              state[w] = "INSPECTION_SLOTS_PROPOSED"
         /\ action \in {"reschedule_inspection",
                         "submit_inspection_report"} =>
              state[w] = "INSPECTION_SCHEDULED"
         /\ action \in {"request_reinspection", "finalise_settlement"} =>
              state[w] = "DAMAGE_REVIEW"
         /\ action \in {"pay_deposit", "reopen_damage_review"} =>
              state[w] = "SETTLEMENT_PENDING"
         /\ action = "settlement_failed" => state[w] = "SETTLEMENT_PROCESSING"
         /\ action = "complete" => state[w] = "NOC_ISSUED"
  <1>1. /\ Takes(state[w], action, to)
        /\ state' = [state EXCEPT ![w] = to] /\ Touch(w)
    BY DEF Enter
  <1>2. QED
    BY <1>1, Moves

\* A write of a row makes it fresh, and the batch it is in stale.
LEMMA Touching ==
  ASSUME sweep \in Batches, NEW w, Touch(w)
  PROVE  /\ sweep' \in Batches /\ stale' = stale \ {w}
         /\ sweep'.job = sweep.job /\ sweep'.rows = sweep.rows
         /\ sweep.dirty \/ w \in sweep.rows => sweep'.dirty
  <1> DEFINE d == sweep.dirty \/ w \in sweep.rows
  <1>1. d \in BOOLEAN
    OBVIOUS
  <1>2. sweep' = [sweep EXCEPT !.dirty = d] /\ stale' = stale \ {w}
    BY DEF Touch
  <1>3. sweep' \in Batches
    <2> HIDE DEF d
    <2>1. QED
      BY <1>1, <1>2 DEF Batches
  <1>4. sweep'.job = sweep.job /\ sweep'.rows = sweep.rows /\ sweep'.dirty = d
    <2> HIDE DEF d
    <2>1. QED
      BY <1>2 DEF Batches
  <1>5. QED
    BY <1>2, <1>3, <1>4

\* So what a batch of drafts read is so, or it is dirty.
LEMMA TouchKeeps ==
  ASSUME SweepOK, sweep \in Batches, NEW w, Touch(w),
         \A v \in Workflows \ {w} : state'[v] = state[v]
  PROVE  SweepOK'
  <1> SUFFICES ASSUME sweep'.job = "drafts", ~ sweep'.dirty,
                      NEW v \in sweep'.rows
               PROVE  state'[v] = "DRAFT" /\ v \in stale'
    BY DEF SweepOK
  <1>1. sweep.job = "drafts" /\ ~ sweep.dirty /\ v \in sweep.rows /\ v # w
    BY Touching
  <1>2. state[v] = "DRAFT" /\ v \in stale /\ v \in Workflows
    BY <1>1 DEF SweepOK, Batches
  <1>3. QED
    BY <1>1, <1>2, Touching

\* What a final settlement writes.
LEMMA Finalising ==
  ASSUME NEW w, NEW m, Finalise(w, m)
  PROVE  \E L :
           /\ L = LinesOf(Charged(w)) \cup {<<0, 0, m>>}
           /\ lines' = [lines EXCEPT ![w] = L]
           /\ figures' = [figures EXCEPT ![w] = Settle(deposit[w], Total(L))]
  <1> DEFINE K == LinesOf(Charged(w)) \cup {<<0, 0, m>>}
  <1>1. /\ lines' = [lines EXCEPT ![w] = K]
        /\ figures' = [figures EXCEPT ![w] = Settle(deposit[w], Total(K))]
    BY DEF Finalise
  <1> HIDE DEF K
  <1>2. K = LinesOf(Charged(w)) \cup {<<0, 0, m>>}
    BY DEF K
  <1>3. QED
    BY <1>1, <1>2

\* What a row of a batch is when the batch is committed.
LEMMA Sweeping ==
  ASSUME SweepOK, sweep \in Batches
  PROVE  /\ ExpireDrafts =>
              \A w \in sweep.rows : state[w] = "DRAFT" /\ w \in stale
         /\ CompleteIssued => \A w \in sweep.rows : state[w] = "NOC_ISSUED"
  BY DEF SweepOK, ExpireDrafts, Unchanged, CompleteIssued

\* The element a fold takes next, what is left, and the equation of the fold.
Taken(s) == CHOOSE x \in s : TRUE
Rest(s) == s \ {Taken(s)}
Sums(S, f) ==
  \A s \in SUBSET S : f[s] = IF s = {} THEN 0 ELSE Taken(s)[3] + f[Rest(s)]

\* Taking an element leaves a smaller set.
LEMMA Resting ==
  ASSUME NEW s, s # {}
  PROVE  Taken(s) \in s /\ Rest(s) \in SUBSET s /\ Rest(s) # s
  BY DEF Taken, Rest

\* Of the subsets of a finite set that are in a family, one is minimal.
LEMMA Smallest ==
  ASSUME NEW S, IsFiniteSet(S), NEW B \in SUBSET SUBSET S, B # {}
  PROVE  \E T \in B : \A U \in SUBSET T : U # T => U \notin B
  <1>1. IsWellFoundedOn(StrictSubsetOrdering(S), FiniteSubsetsOf(S))
    BY FS_StrictSubsetOrderingWellFounded
  <1>2. FiniteSubsetsOf(S) = SUBSET S
    BY FS_FiniteSubsetsOfFinite
  <1>3. PICK T \in B : \A U \in B : <<U, T>> \notin StrictSubsetOrdering(S)
    BY <1>1, <1>2, WFMin, ZenonT(60)
  <1>4. ASSUME NEW U \in SUBSET T, U # T PROVE U \notin B
    BY <1>3, <1>4 DEF StrictSubsetOrdering
  <1>5. QED
    BY <1>4

\* Two functions that both satisfy the equation agree where both do.
LEMMA SumsAgree ==
  ASSUME NEW S, IsFiniteSet(S), NEW f, NEW g,
         NEW T \in SUBSET S, NEW U \in SUBSET S,
         Sums(T, f), Sums(U, g)
  PROVE  \A s \in SUBSET (T \cap U) : f[s] = g[s]
  <1> DEFINE B == {s \in SUBSET (T \cap U) : f[s] # g[s]}
  <1>1. CASE B = {}
    BY <1>1
  <1>2. CASE B # {}
    <2>1. B \in SUBSET SUBSET S
      OBVIOUS
    <2>2. \A s \in B : s \in SUBSET T /\ s \in SUBSET U /\ f[s] # g[s]
      OBVIOUS
    <2>3. \A s \in SUBSET (T \cap U) : s \notin B => f[s] = g[s]
      OBVIOUS
    <2> HIDE DEF B
    <2>4. PICK s \in B : \A t \in SUBSET s : t # s => t \notin B
      BY <2>1, <1>2, Smallest
    <2>5. s # {}
      BY <2>2 DEF Sums
    <2>6. f[Rest(s)] = g[Rest(s)]
      BY <2>2, <2>3, <2>4, <2>5, Resting
    <2>7. QED
      BY <2>2, <2>5, <2>6 DEF Sums
  <1>3. QED
    BY <1>1, <1>2

\* A finite set of lines has such a function: a minimal subset that had none
\* would get one from its rest.
LEMMA SumsExist ==
  ASSUME NEW S, IsFiniteSet(S), \A l \in S : l[3] \in Nat
  PROVE  \E f \in [SUBSET S -> Nat] : Sums(S, f)
  <1> DEFINE B == {T \in SUBSET S : ~ \E f \in [SUBSET T -> Nat] : Sums(T, f)}
  <1>1. CASE B = {}
    BY <1>1
  <1>2. CASE B # {}
    <2>0. B \in SUBSET SUBSET S
      OBVIOUS
    <2>1. PICK T \in B : \A U \in SUBSET T : U # T => U \notin B
      <3> HIDE DEF B
      <3>1. QED
        BY <1>2, <2>0, Smallest
    <2>2. T \in SUBSET S
      BY <2>1
    <2> DEFINE F(U) == CHOOSE f \in [SUBSET U -> Nat] : Sums(U, f)
    <2>3. \A U \in SUBSET T :
            U # T => F(U) \in [SUBSET U -> Nat] /\ Sums(U, F(U))
      BY <2>1, <2>2
    <2> HIDE DEF F
    <2> DEFINE g == [s \in SUBSET T |->
                       IF s = {} THEN 0
                       ELSE Taken(s)[3] + F(Rest(s))[Rest(s)]]
    <2>4. ASSUME NEW s \in SUBSET T, s # {}
          PROVE  /\ F(Rest(s)) \in [SUBSET Rest(s) -> Nat]
                 /\ Sums(Rest(s), F(Rest(s)))
                 /\ Rest(s) \in SUBSET T
                 /\ Taken(s)[3] \in Nat
      <3>1. Taken(s) \in s /\ Rest(s) \in SUBSET s /\ Rest(s) # s
        BY <2>4, Resting
      <3>2. Rest(s) \in SUBSET T /\ Rest(s) # T /\ Taken(s) \in S
        BY <2>2, <3>1
      <3>3. QED
        BY <2>3, <3>2
    <2>5. g \in [SUBSET T -> Nat]
      <3>1. ASSUME NEW s \in SUBSET T PROVE g[s] \in Nat
        <4>1. CASE s = {}
          BY <4>1
        <4>2. CASE s # {}
          <5>1. F(Rest(s))[Rest(s)] \in Nat
            BY <2>4, <4>2
          <5>2. g[s] = Taken(s)[3] + F(Rest(s))[Rest(s)]
            BY <4>2
          <5>3. Taken(s)[3] \in Nat
            BY <2>4, <4>2
          <5> HIDE DEF g
          <5>4. QED
            BY <5>1, <5>2, <5>3
        <4>3. QED
          BY <4>1, <4>2
      <3>2. QED
        BY <3>1
    <2>6. ASSUME NEW s \in SUBSET T, s # {}
          PROVE  g[Rest(s)] = F(Rest(s))[Rest(s)]
      <3> DEFINE r == Rest(s)
      <3>1. r \in SUBSET T /\ F(r) \in [SUBSET r -> Nat] /\ Sums(r, F(r))
        BY <2>4, <2>6
      <3>2. CASE r = {}
        BY <3>1, <3>2 DEF Sums
      <3>3. CASE r # {}
        <4>1. /\ F(Rest(r)) \in [SUBSET Rest(r) -> Nat]
              /\ Sums(Rest(r), F(Rest(r)))
          BY <2>4, <3>1, <3>3
        <4>2. Rest(r) \in SUBSET r
          BY <3>3, Resting
        <4>3. r \in SUBSET S /\ Rest(r) \in SUBSET S
          BY <2>2, <3>1, <4>2
        <4>4. F(r)[Rest(r)] = F(Rest(r))[Rest(r)]
          <5>1. \A t \in SUBSET (r \cap Rest(r)) : F(r)[t] = F(Rest(r))[t]
            BY <3>1, <4>1, <4>3, SumsAgree
          <5>2. QED
            BY <4>2, <5>1
        <4>5. F(r)[r] = Taken(r)[3] + F(r)[Rest(r)]
          BY <3>1, <3>3 DEF Sums
        <4>6. QED
          BY <3>1, <3>3, <4>4, <4>5
      <3>4. QED
        BY <3>2, <3>3
    <2>7. Sums(T, g)
      <3> SUFFICES ASSUME NEW s \in SUBSET T
                   PROVE  g[s] = IF s = {} THEN 0
                                 ELSE Taken(s)[3] + g[Rest(s)]
        BY DEF Sums
      <3>1. QED
        BY <2>6
    <2>8. QED
      BY <2>1, <2>5, <2>7
  <1>3. QED
    BY <1>1, <1>2

\* The total of finitely many lines is an amount.
LEMMA TotalIsNat ==
  ASSUME NEW L, IsFiniteSet(L), \A l \in L : l[3] \in Nat
  PROVE  Total(L) \in Nat
  <1> DEFINE Body(f, s) == IF s = {} THEN 0
                           ELSE (CHOOSE x \in s : TRUE)[3]
                                  + f[s \ {CHOOSE x \in s : TRUE}]
             it == CHOOSE h : h = [s \in SUBSET L |-> Body(h, s)]
  <1>1. Total(L) = it[L]
    BY DEF Total, MapThenSumSet, MapThenFoldSet
  <1>2. PICK f \in [SUBSET L -> Nat] : Sums(L, f)
    BY SumsExist
  <1>3. f = [s \in SUBSET L |-> Body(f, s)]
    BY <1>2 DEF Sums, Taken, Rest
  <1>4. it = [s \in SUBSET L |-> Body(it, s)]
    BY <1>3
  <1>5. Sums(L, it)
    BY <1>4 DEF Sums, Taken, Rest
  <1>6. it[L] = f[L]
    <2>1. \A s \in SUBSET (L \cap L) : it[s] = f[s]
      BY <1>2, <1>5, SumsAgree
    <2>2. QED
      BY <2>1
  <1>7. QED
    BY <1>1, <1>2, <1>6

\* The values of a function on a finite set are finitely many.
LEMMA ValuesAreFinite ==
  ASSUME NEW S, IsFiniteSet(S), NEW f, f = [x \in S |-> f[x]]
  PROVE  IsFiniteSet({f[x] : x \in S})
  <1> DEFINE R == {f[x] : x \in S}
  <1>1. f \in [S -> R] /\ \A y \in R : \E x \in S : f[x] = y
    OBVIOUS
  <1> HIDE DEF R
  <1>2. f \in Surjection(S, R)
    BY <1>1 DEF Surjection
  <1>3. QED
    BY <1>2, FS_Surjection DEF R

\* What an item charges is an amount.
LEMMA ChargeableIsNat ==
  ASSUME NEW i \in ItemRows
  PROVE  Chargeable(i) \in Nat
  BY DEF ItemRows, Chargeable

\* The lines of a settlement are finitely many rows, and have a total.
LEMMA Lining ==
  ASSUME RowsOK, NEW w \in Workflows, NEW m \in Manual,
         NEW L, L = LinesOf(Charged(w)) \cup {<<0, 0, m>>}
  PROVE  L \subseteq Nat \X Nat \X Nat /\ Total(L) \in Nat
  <1>1. /\ Charged(w) \in SUBSET items[w] /\ IsFiniteSet(items[w])
        /\ items[w] \subseteq ItemRows
    BY DEF RowsOK, Charged, OfRound
  <1>2. IsFiniteSet(Charged(w)) /\ Charged(w) \subseteq ItemRows
    BY <1>1, FS_Subset
  <1> DEFINE line(i) == <<i.round, i.n, Chargeable(i)>>
  <1>3. IsFiniteSet({line(i) : i \in Charged(w)})
    <2> DEFINE f == [i \in Charged(w) |-> line(i)]
    <2>1. f = [i \in Charged(w) |-> f[i]]
      OBVIOUS
    <2>2. {line(i) : i \in Charged(w)} = {f[i] : i \in Charged(w)}
      OBVIOUS
    <2> HIDE DEF f
    <2>3. QED
      BY <1>2, <2>1, <2>2, ValuesAreFinite
  <1>4. LinesOf(Charged(w)) = {line(i) : i \in Charged(w)}
    BY DEF LinesOf
  <1>5. IsFiniteSet(L)
    BY <1>3, <1>4, FS_AddElement
  <1>6. L \subseteq Nat \X Nat \X Nat
    <2>1. \A i \in Charged(w) : line(i) \in Nat \X Nat \X Nat
      BY <1>2, ChargeableIsNat DEF ItemRows
    <2>2. <<0, 0, m>> \in Nat \X Nat \X Nat
      BY A2ExitAssumption
    <2>3. QED
      BY <1>4, <2>1, <2>2
  <1>7. QED
    BY <1>5, <1>6, TotalIsNat

\* What a settlement shows are amounts.
LEMMA Figuring ==
  ASSUME NEW d \in Nat, NEW deductions \in Nat
  PROVE  Settle(d, deductions) \in FigureRows
  BY DEF Settle, Refund, Liability, FigureRows

\* The items of a report are finitely many rows.
LEMMA Itemising ==
  ASSUME NEW report \in Reports, NEW r \in Nat
  PROVE  /\ {NewItem(r, e) : e \in report} \subseteq ItemRows
         /\ IsFiniteSet({NewItem(r, e) : e \in report})
  <1>1. /\ IsFiniteSet(report)
        /\ \A e \in report : e[1] \in Nat /\ e[2] \in Nat /\ e[3] \in BOOLEAN
    BY A2ExitAssumption
  <1>2. \A e \in report : NewItem(r, e) \in ItemRows
    BY <1>1 DEF NewItem, ItemRows, DisputeStatuses
  <1> DEFINE f == [e \in report |-> NewItem(r, e)]
  <1>3. f = [e \in report |-> f[e]]
    OBVIOUS
  <1>4. {NewItem(r, e) : e \in report} = {f[e] : e \in report}
    OBVIOUS
  <1> HIDE DEF f
  <1>5. IsFiniteSet({NewItem(r, e) : e \in report})
    BY <1>1, <1>3, <1>4, ValuesAreFinite
  <1>6. QED
    BY <1>2, <1>5

\* The amounts tried are amounts.
LEMMA AmountsAreNat == Amounts \subseteq Nat
  <1>1. \A e \in UNION Reports : e[2] \in Nat
    BY A2ExitAssumption
  <1>2. QED
    BY <1>1, A2ExitAssumption DEF Amounts


\* No exit, no row of any table.
LEMMA InitInd == Init => IndInv
  <1> SUFFICES ASSUME Init PROVE IndInv
    OBVIOUS
  <1>1. TypeOK
    BY A2ExitAssumption DEF Init, TypeOK, NoFigures, FigureRows, Idle, Batches
  <1>2. RowsOK
    BY FS_EmptySet DEF Init, RowsOK
  <1>3. OneActiveExit /\ TablesOK /\ FreshOK /\ SweepOK
    BY
    DEF Init, OneActiveExit, Active, Blocking, States, TablesOK, Settled,
        FreshOK, SweepOK, Idle
  <1>4. /\ ReportIsOfThisRound /\ AppointmentIffScheduled
        /\ ChargedAsReviewed /\ NoDisputeIsPassedOver
    BY
    DEF Init, ReportIsOfThisRound, AppointmentIffScheduled, ChargedAsReviewed,
        NoDisputeIsPassedOver, Reviewed, Settled
  <1>5. QED
    BY <1>1, <1>2, <1>3, <1>4 DEF IndInv

\* An exit becomes active when it is begun, past the guard, and never later.
LEMMA OneStep == IndInv /\ [Next]_vars => OneActiveExit'
  <1> SUFFICES ASSUME IndInv, [Next]_vars PROVE OneActiveExit'
    OBVIOUS
  <1>0. /\ state \in [Workflows -> States \cup {"none"}]
        /\ contract \in [Workflows -> Contracts \cup {Nobody}]
        /\ sweep \in Batches
        /\ OneActiveExit
        /\ SweepOK
    BY DEF IndInv, TypeOK, RowsOK
  <1> USE <1>0
      DEF row, files, visit, money, certificate, sweeping, bounds,
          OneActiveExit, Active, Blocking, Terminal
  <1>1. ASSUME NEW w \in Workflows, NEW c \in Contracts, NEW n \in Terms,
               NEW d \in Deposits,
               Initiate(w, c, n, d)
        PROVE  OneActiveExit'
    BY <1>1 DEF Initiate, MayInitiate, BlocksContract, BlocksProperty, Active
  <1>2. ASSUME NEW w \in Workflows, NEW role \in {"TENANT", "ADMIN"},
               Submit(w, role)
        PROVE  OneActiveExit'
    BY <1>2, Entering DEF Submit
  <1>3. ASSUME NEW w \in Workflows, Withdraw(w) PROVE OneActiveExit'
    BY <1>3, Entering DEF Withdraw, Return
  <1>4. ASSUME NEW w \in Workflows, OwnerReject(w) PROVE OneActiveExit'
    BY <1>4, Entering DEF OwnerReject, Return
  <1>5. ASSUME NEW w \in Workflows, Cancel(w) PROVE OneActiveExit'
    BY <1>5, Entering DEF Cancel, Return
  <1>6. ASSUME NEW w \in Workflows, NEW d \in Deposits, OwnerApprove(w, d)
        PROVE  OneActiveExit'
    BY <1>6, Entering DEF OwnerApprove
  <1>7. ASSUME NEW w \in Workflows, NEW hours \in SUBSET Hours,
               ProposeSlots(w, hours)
        PROVE  OneActiveExit'
    BY <1>7, Entering DEF ProposeSlots
  <1>8. ASSUME NEW w \in Workflows, NEW s \in slots[w], SelectSlot(w, s)
        PROVE  OneActiveExit'
    BY <1>8, Entering DEF SelectSlot
  <1>9. ASSUME NEW w \in Workflows, Reschedule(w) PROVE OneActiveExit'
    BY <1>9, Entering DEF Reschedule
  <1>10. ASSUME NEW w \in Workflows, NEW report \in Reports,
               SubmitReport(w, report)
        PROVE  OneActiveExit'
    BY <1>10, Moves DEF SubmitReport
  <1>11. ASSUME NEW w \in Workflows, RequestReinspection(w)
         PROVE  OneActiveExit'
    BY <1>11, Entering DEF RequestReinspection, Reset
  <1>12. ASSUME NEW w \in Workflows, NEW m \in Manual, Finalise(w, m)
        PROVE  OneActiveExit'
    BY <1>12, Entering DEF Finalise
  <1>13. ASSUME NEW w \in Workflows, ReopenReview(w) PROVE OneActiveExit'
    BY <1>13, Entering DEF ReopenReview
  <1>14. ASSUME NEW w \in Workflows, PayDeposit(w) PROVE OneActiveExit'
    BY <1>14, Entering DEF PayDeposit
  <1>15. ASSUME NEW w \in Workflows, PayNothing(w) PROVE OneActiveExit'
    BY <1>15, Moves DEF PayNothing, Certify
  <1>16. ASSUME NEW w \in Workflows, ConfirmSettlement(w) PROVE OneActiveExit'
    BY <1>16 DEF ConfirmSettlement, Certify
  <1>17. ASSUME NEW w \in Workflows, FailSettlement(w) PROVE OneActiveExit'
    BY <1>17, Entering DEF FailSettlement
  <1>18. ASSUME NEW w \in Workflows, Complete(w) PROVE OneActiveExit'
    BY <1>18, Entering DEF Complete, Return
  <1>19. ASSUME ExpireDrafts PROVE OneActiveExit'
    BY <1>19, Sweeping DEF ExpireDrafts, Unchanged, CommitSweep
  <1>20. ASSUME CompleteIssued PROVE OneActiveExit'
    BY <1>20, Sweeping DEF CompleteIssued, CommitSweep
  <1>21. ASSUME \/ UNCHANGED vars
                \/ \E w \in Workflows : \E n \in Terms : UpdateDraft(w, n)
                \/ \E w \in Workflows : \E role \in Roles :
                   \E t \in DocTypes :
                      \/ Upload(w, role, t) \/ Remove(w, role, t)
                \/ \E w \in Workflows : \E i \in items[w] : \E a \in Amounts :
                   \E l \in BOOLEAN :
                     AdjustDamageItem(w, i, a, l)
                \/ \E w \in Workflows : \E i \in items[w] : RaiseDispute(w, i)
                \/ \E w \in Workflows : \E i \in items[w] : \E a \in Amounts :
                     ResolveDispute(w, i, a)
                \/ \E w \in Workflows :
                      \/ Revoke(w) \/ NoticeLapses(w) \/ WindowCloses(w)
                      \/ Ages(w)
                \/ LoadDrafts
                \/ LoadIssued
                \/ SweepFails
                \/ \E h \in Hours : HourPasses(h)
        PROVE  OneActiveExit'
    <2>1. UNCHANGED <<state, contract>>
      BY <1>21
      DEF vars, UpdateDraft, Upload, Remove, AdjustDamageItem, Replace,
          RaiseDispute, ResolveDispute, Revoke, NoticeLapses, WindowCloses,
          Ages, LoadDrafts, Load, LoadIssued, SweepFails, HourPasses
    <2>2. QED
      BY <2>1
  <1> HIDE <1>0 DEF OneActiveExit, Active, Blocking, Terminal
  <1>22. ASSUME NEW w \in Workflows, Drafting(w) PROVE OneActiveExit'
    BY <1>22, <1>1, <1>2, <1>3, <1>4, <1>5, <1>6, <1>21 DEF Drafting
  <1>23. ASSUME NEW w \in Workflows, Inspecting(w) PROVE OneActiveExit'
    BY <1>23, <1>7, <1>8, <1>9, <1>10, <1>11 DEF Inspecting
  <1>24. ASSUME NEW w \in Workflows, Reviewing(w) PROVE OneActiveExit'
    BY <1>24, <1>21 DEF Reviewing
  <1>25. ASSUME NEW w \in Workflows, Settling(w) PROVE OneActiveExit'
    BY <1>25, <1>12, <1>13, <1>14, <1>15, <1>16, <1>17, <1>18, <1>21
    DEF Settling
  <1>26. ASSUME Reconciler PROVE OneActiveExit'
    BY <1>26, <1>19, <1>20, <1>21 DEF Reconciler
  <1>27. ASSUME Time PROVE OneActiveExit'
    BY <1>27, <1>21 DEF Time
  <1>28. QED
    BY <1>21, <1>22, <1>23, <1>24, <1>25, <1>26, <1>27 DEF Next

\* Each state is entered with the settlement and the certificate that belong
\* to it.
LEMMA TablesStep == IndInv /\ [Next]_vars => TablesOK'
  <1> SUFFICES ASSUME IndInv, [Next]_vars PROVE TablesOK'
    OBVIOUS
  <1>0. /\ state \in [Workflows -> States \cup {"none"}]
        /\ settlement \in [Workflows -> SettlementStatuses \cup {"none"}]
        /\ noc \in [Workflows -> {"none", "ISSUED", "REVOKED"}]
        /\ sweep \in Batches
        /\ TablesOK
        /\ SweepOK
    BY DEF IndInv, TypeOK, RowsOK
  <1> USE <1>0
      DEF row, files, visit, money, certificate, sweeping, bounds, TablesOK,
          Settled, States
  <1>1. ASSUME NEW w \in Workflows, NEW c \in Contracts, NEW n \in Terms,
               NEW d \in Deposits,
               Initiate(w, c, n, d)
        PROVE  TablesOK'
    BY <1>1 DEF Initiate
  <1>2. ASSUME NEW w \in Workflows, NEW role \in {"TENANT", "ADMIN"},
               Submit(w, role)
        PROVE  TablesOK'
    BY <1>2, Entering DEF Submit
  <1>3. ASSUME NEW w \in Workflows, Withdraw(w) PROVE TablesOK'
    BY <1>3, Entering DEF Withdraw, Return
  <1>4. ASSUME NEW w \in Workflows, OwnerReject(w) PROVE TablesOK'
    BY <1>4, Entering DEF OwnerReject, Return
  <1>5. ASSUME NEW w \in Workflows, Cancel(w) PROVE TablesOK'
    BY <1>5, Entering DEF Cancel, Return
  <1>6. ASSUME NEW w \in Workflows, NEW d \in Deposits, OwnerApprove(w, d)
        PROVE  TablesOK'
    BY <1>6, Entering DEF OwnerApprove
  <1>7. ASSUME NEW w \in Workflows, NEW hours \in SUBSET Hours,
               ProposeSlots(w, hours)
        PROVE  TablesOK'
    BY <1>7, Entering DEF ProposeSlots
  <1>8. ASSUME NEW w \in Workflows, NEW s \in slots[w], SelectSlot(w, s)
        PROVE  TablesOK'
    BY <1>8, Entering DEF SelectSlot
  <1>9. ASSUME NEW w \in Workflows, Reschedule(w) PROVE TablesOK'
    BY <1>9, Entering DEF Reschedule
  <1>10. ASSUME NEW w \in Workflows, NEW report \in Reports,
               SubmitReport(w, report)
        PROVE  TablesOK'
    BY <1>10, Moves DEF SubmitReport
  <1>11. ASSUME NEW w \in Workflows, RequestReinspection(w) PROVE TablesOK'
    BY <1>11, Entering DEF RequestReinspection, Reset
  <1>12. ASSUME NEW w \in Workflows, NEW m \in Manual, Finalise(w, m)
        PROVE  TablesOK'
    BY <1>12, Entering DEF Finalise
  <1>13. ASSUME NEW w \in Workflows, ReopenReview(w) PROVE TablesOK'
    BY <1>13, Entering DEF ReopenReview
  <1>14. ASSUME NEW w \in Workflows, PayDeposit(w) PROVE TablesOK'
    BY <1>14, Entering DEF PayDeposit
  <1>15. ASSUME NEW w \in Workflows, PayNothing(w) PROVE TablesOK'
    BY <1>15, Moves DEF PayNothing, Certify
  <1>16. ASSUME NEW w \in Workflows, ConfirmSettlement(w) PROVE TablesOK'
    BY <1>16 DEF ConfirmSettlement, Certify
  <1>17. ASSUME NEW w \in Workflows, FailSettlement(w) PROVE TablesOK'
    BY <1>17, Entering DEF FailSettlement
  <1>18. ASSUME NEW w \in Workflows, Revoke(w) PROVE TablesOK'
    BY <1>18 DEF Revoke
  <1>19. ASSUME NEW w \in Workflows, Complete(w) PROVE TablesOK'
    BY <1>19, Entering DEF Complete, Return
  <1>20. ASSUME ExpireDrafts PROVE TablesOK'
    BY <1>20, Sweeping DEF ExpireDrafts, Unchanged, CommitSweep
  <1>21. ASSUME CompleteIssued PROVE TablesOK'
    BY <1>21, Sweeping DEF CompleteIssued, CommitSweep
  <1>22. ASSUME \/ UNCHANGED vars
                \/ \E w \in Workflows : \E n \in Terms : UpdateDraft(w, n)
                \/ \E w \in Workflows : \E role \in Roles :
                   \E t \in DocTypes :
                      \/ Upload(w, role, t) \/ Remove(w, role, t)
                \/ \E w \in Workflows : \E i \in items[w] : \E a \in Amounts :
                   \E l \in BOOLEAN :
                     AdjustDamageItem(w, i, a, l)
                \/ \E w \in Workflows : \E i \in items[w] : RaiseDispute(w, i)
                \/ \E w \in Workflows : \E i \in items[w] : \E a \in Amounts :
                     ResolveDispute(w, i, a)
                \/ LoadDrafts
                \/ LoadIssued
                \/ SweepFails
                \/ \E w \in Workflows :
                      \/ NoticeLapses(w) \/ WindowCloses(w) \/ Ages(w)
                \/ \E h \in Hours : HourPasses(h)
        PROVE  TablesOK'
    <2>1. UNCHANGED <<state, settlement, noc>>
      BY <1>22
      DEF vars, UpdateDraft, Upload, Remove, AdjustDamageItem, Replace,
          RaiseDispute, ResolveDispute, LoadDrafts, Load, LoadIssued,
          SweepFails, NoticeLapses, WindowCloses, Ages, HourPasses
    <2>2. QED
      BY <2>1
  <1> HIDE <1>0 DEF TablesOK, Settled, States
  <1>23. ASSUME NEW w \in Workflows, Drafting(w) PROVE TablesOK'
    BY <1>23, <1>1, <1>2, <1>3, <1>4, <1>5, <1>6, <1>22 DEF Drafting
  <1>24. ASSUME NEW w \in Workflows, Inspecting(w) PROVE TablesOK'
    BY <1>24, <1>7, <1>8, <1>9, <1>10, <1>11 DEF Inspecting
  <1>25. ASSUME NEW w \in Workflows, Reviewing(w) PROVE TablesOK'
    BY <1>25, <1>22 DEF Reviewing
  <1>26. ASSUME NEW w \in Workflows, Settling(w) PROVE TablesOK'
    BY <1>26, <1>12, <1>13, <1>14, <1>15, <1>16, <1>17, <1>18, <1>19
    DEF Settling
  <1>27. ASSUME Reconciler PROVE TablesOK'
    BY <1>27, <1>20, <1>21, <1>22 DEF Reconciler
  <1>28. ASSUME Time PROVE TablesOK'
    BY <1>28, <1>22 DEF Time
  <1>29. QED
    BY <1>22, <1>23, <1>24, <1>25, <1>26, <1>27, <1>28 DEF Next

\* Nothing before an approval makes a report or an appointment.
LEMMA FreshStep == IndInv /\ [Next]_vars => FreshOK'
  <1> SUFFICES ASSUME IndInv, [Next]_vars PROVE FreshOK'
    OBVIOUS
  <1>0. /\ state \in [Workflows -> States \cup {"none"}]
        /\ selected \in [Workflows -> SlotRows \cup {Nobody}]
        /\ reported \subseteq Workflows
        /\ sweep \in Batches
        /\ FreshOK
        /\ SweepOK
    BY DEF IndInv, TypeOK, RowsOK
  <1> USE <1>0
      DEF row, files, visit, money, certificate, sweeping, bounds, FreshOK
  <1>1. ASSUME NEW w \in Workflows, NEW c \in Contracts, NEW n \in Terms,
               NEW d \in Deposits,
               Initiate(w, c, n, d)
        PROVE  FreshOK'
    BY <1>1 DEF Initiate
  <1>2. ASSUME NEW w \in Workflows, NEW role \in {"TENANT", "ADMIN"},
               Submit(w, role)
        PROVE  FreshOK'
    BY <1>2, Entering DEF Submit
  <1>3. ASSUME NEW w \in Workflows, Withdraw(w) PROVE FreshOK'
    BY <1>3, Entering DEF Withdraw, Return
  <1>4. ASSUME NEW w \in Workflows, OwnerReject(w) PROVE FreshOK'
    BY <1>4, Entering DEF OwnerReject, Return
  <1>5. ASSUME NEW w \in Workflows, Cancel(w) PROVE FreshOK'
    BY <1>5, Entering DEF Cancel, Return
  <1>6. ASSUME NEW w \in Workflows, NEW d \in Deposits, OwnerApprove(w, d)
        PROVE  FreshOK'
    BY <1>6, Entering DEF OwnerApprove
  <1>7. ASSUME NEW w \in Workflows, NEW hours \in SUBSET Hours,
               ProposeSlots(w, hours)
        PROVE  FreshOK'
    BY <1>7, Entering DEF ProposeSlots
  <1>8. ASSUME NEW w \in Workflows, NEW s \in slots[w], SelectSlot(w, s)
        PROVE  FreshOK'
    BY <1>8, Entering DEF SelectSlot
  <1>9. ASSUME NEW w \in Workflows, Reschedule(w) PROVE FreshOK'
    BY <1>9, Entering DEF Reschedule
  <1>10. ASSUME NEW w \in Workflows, NEW report \in Reports,
               SubmitReport(w, report)
        PROVE  FreshOK'
    BY <1>10, Moves DEF SubmitReport
  <1>11. ASSUME NEW w \in Workflows, RequestReinspection(w) PROVE FreshOK'
    BY <1>11, Entering DEF RequestReinspection, Reset
  <1>12. ASSUME NEW w \in Workflows, NEW m \in Manual, Finalise(w, m)
        PROVE  FreshOK'
    BY <1>12, Entering DEF Finalise
  <1>13. ASSUME NEW w \in Workflows, ReopenReview(w) PROVE FreshOK'
    BY <1>13, Entering DEF ReopenReview
  <1>14. ASSUME NEW w \in Workflows, PayDeposit(w) PROVE FreshOK'
    BY <1>14, Entering DEF PayDeposit
  <1>15. ASSUME NEW w \in Workflows, PayNothing(w) PROVE FreshOK'
    BY <1>15, Moves DEF PayNothing, Certify
  <1>16. ASSUME NEW w \in Workflows, ConfirmSettlement(w) PROVE FreshOK'
    BY <1>16 DEF ConfirmSettlement, Certify
  <1>17. ASSUME NEW w \in Workflows, FailSettlement(w) PROVE FreshOK'
    BY <1>17, Entering DEF FailSettlement
  <1>18. ASSUME NEW w \in Workflows, Complete(w) PROVE FreshOK'
    BY <1>18, Entering DEF Complete, Return
  <1>19. ASSUME ExpireDrafts PROVE FreshOK'
    BY <1>19, Sweeping DEF ExpireDrafts, Unchanged, CommitSweep
  <1>20. ASSUME CompleteIssued PROVE FreshOK'
    BY <1>20, Sweeping DEF CompleteIssued, CommitSweep
  <1>21. ASSUME \/ UNCHANGED vars
                \/ \E w \in Workflows : \E n \in Terms : UpdateDraft(w, n)
                \/ \E w \in Workflows : \E role \in Roles :
                   \E t \in DocTypes :
                      \/ Upload(w, role, t) \/ Remove(w, role, t)
                \/ \E w \in Workflows : \E i \in items[w] : \E a \in Amounts :
                   \E l \in BOOLEAN :
                     AdjustDamageItem(w, i, a, l)
                \/ \E w \in Workflows : \E i \in items[w] : RaiseDispute(w, i)
                \/ \E w \in Workflows : \E i \in items[w] : \E a \in Amounts :
                     ResolveDispute(w, i, a)
                \/ \E w \in Workflows :
                      \/ Revoke(w) \/ NoticeLapses(w) \/ WindowCloses(w)
                      \/ Ages(w)
                \/ LoadDrafts
                \/ LoadIssued
                \/ SweepFails
                \/ \E h \in Hours : HourPasses(h)
        PROVE  FreshOK'
    <2>1. UNCHANGED <<state, selected, reported>>
      BY <1>21
      DEF vars, UpdateDraft, Upload, Remove, AdjustDamageItem, Replace,
          RaiseDispute, ResolveDispute, Revoke, NoticeLapses, WindowCloses,
          Ages, LoadDrafts, Load, LoadIssued, SweepFails, HourPasses
    <2>2. QED
      BY <2>1
  <1> HIDE <1>0 DEF FreshOK
  <1>22. ASSUME NEW w \in Workflows, Drafting(w) PROVE FreshOK'
    BY <1>22, <1>1, <1>2, <1>3, <1>4, <1>5, <1>6, <1>21 DEF Drafting
  <1>23. ASSUME NEW w \in Workflows, Inspecting(w) PROVE FreshOK'
    BY <1>23, <1>7, <1>8, <1>9, <1>10, <1>11 DEF Inspecting
  <1>24. ASSUME NEW w \in Workflows, Reviewing(w) PROVE FreshOK'
    BY <1>24, <1>21 DEF Reviewing
  <1>25. ASSUME NEW w \in Workflows, Settling(w) PROVE FreshOK'
    BY <1>25, <1>12, <1>13, <1>14, <1>15, <1>16, <1>17, <1>18, <1>21
    DEF Settling
  <1>26. ASSUME Reconciler PROVE FreshOK'
    BY <1>26, <1>19, <1>20, <1>21 DEF Reconciler
  <1>27. ASSUME Time PROVE FreshOK'
    BY <1>27, <1>21 DEF Time
  <1>28. QED
    BY <1>21, <1>22, <1>23, <1>24, <1>25, <1>26, <1>27 DEF Next

\* A review follows a report of the round, and a new round forgets it.
LEMMA ReportStep == IndInv /\ [Next]_vars => ReportIsOfThisRound'
  <1> SUFFICES ASSUME IndInv, [Next]_vars PROVE ReportIsOfThisRound'
    OBVIOUS
  <1>0. /\ state \in [Workflows -> States \cup {"none"}]
        /\ inspection \in [Workflows -> InspectionStatuses \cup {"none"}]
        /\ window \in [Workflows -> {"unset", "open", "closed"}]
        /\ reported \subseteq Workflows
        /\ sweep \in Batches
        /\ FreshOK
        /\ SweepOK
        /\ ReportIsOfThisRound
    BY DEF IndInv, TypeOK, RowsOK
  <1> USE <1>0
      DEF row, files, visit, money, certificate, sweeping, bounds,
          ReportIsOfThisRound, FreshOK, Reviewed, Settled
  <1>1. ASSUME NEW w \in Workflows, NEW c \in Contracts, NEW n \in Terms,
               NEW d \in Deposits,
               Initiate(w, c, n, d)
        PROVE  ReportIsOfThisRound'
    BY <1>1 DEF Initiate
  <1>2. ASSUME NEW w \in Workflows, NEW role \in {"TENANT", "ADMIN"},
               Submit(w, role)
        PROVE  ReportIsOfThisRound'
    BY <1>2, Entering DEF Submit
  <1>3. ASSUME NEW w \in Workflows, Withdraw(w) PROVE ReportIsOfThisRound'
    BY <1>3, Entering DEF Withdraw, Return
  <1>4. ASSUME NEW w \in Workflows, OwnerReject(w) PROVE ReportIsOfThisRound'
    BY <1>4, Entering DEF OwnerReject, Return
  <1>5. ASSUME NEW w \in Workflows, Cancel(w) PROVE ReportIsOfThisRound'
    BY <1>5, Entering DEF Cancel, Return
  <1>6. ASSUME NEW w \in Workflows, NEW d \in Deposits, OwnerApprove(w, d)
        PROVE  ReportIsOfThisRound'
    BY <1>6, Entering DEF OwnerApprove
  <1>7. ASSUME NEW w \in Workflows, NEW hours \in SUBSET Hours,
               ProposeSlots(w, hours)
        PROVE  ReportIsOfThisRound'
    BY <1>7, Entering DEF ProposeSlots
  <1>8. ASSUME NEW w \in Workflows, NEW s \in slots[w], SelectSlot(w, s)
        PROVE  ReportIsOfThisRound'
    BY <1>8, Entering DEF SelectSlot
  <1>9. ASSUME NEW w \in Workflows, Reschedule(w) PROVE ReportIsOfThisRound'
    BY <1>9, Entering DEF Reschedule
  <1>10. ASSUME NEW w \in Workflows, NEW report \in Reports,
               SubmitReport(w, report)
        PROVE  ReportIsOfThisRound'
    BY <1>10, Moves DEF SubmitReport
  <1>11. ASSUME NEW w \in Workflows, RequestReinspection(w)
         PROVE  ReportIsOfThisRound'
    BY <1>11, Entering DEF RequestReinspection, Reset
  <1>12. ASSUME NEW w \in Workflows, NEW m \in Manual, Finalise(w, m)
        PROVE  ReportIsOfThisRound'
    BY <1>12, Entering DEF Finalise
  <1>13. ASSUME NEW w \in Workflows, ReopenReview(w)
         PROVE  ReportIsOfThisRound'
    BY <1>13, Entering DEF ReopenReview
  <1>14. ASSUME NEW w \in Workflows, PayDeposit(w) PROVE ReportIsOfThisRound'
    BY <1>14, Entering DEF PayDeposit
  <1>15. ASSUME NEW w \in Workflows, PayNothing(w) PROVE ReportIsOfThisRound'
    BY <1>15, Moves DEF PayNothing, Certify
  <1>16. ASSUME NEW w \in Workflows, ConfirmSettlement(w)
         PROVE  ReportIsOfThisRound'
    BY <1>16 DEF ConfirmSettlement, Certify
  <1>17. ASSUME NEW w \in Workflows, FailSettlement(w)
         PROVE  ReportIsOfThisRound'
    BY <1>17, Entering DEF FailSettlement
  <1>18. ASSUME NEW w \in Workflows, Complete(w) PROVE ReportIsOfThisRound'
    BY <1>18, Entering DEF Complete, Return
  <1>19. ASSUME ExpireDrafts PROVE ReportIsOfThisRound'
    BY <1>19, Sweeping DEF ExpireDrafts, Unchanged, CommitSweep
  <1>20. ASSUME CompleteIssued PROVE ReportIsOfThisRound'
    BY <1>20, Sweeping DEF CompleteIssued, CommitSweep
  <1>21. ASSUME NEW w \in Workflows, WindowCloses(w)
         PROVE  ReportIsOfThisRound'
    BY <1>21 DEF WindowCloses
  <1>22. ASSUME \/ UNCHANGED vars
                \/ \E w \in Workflows : \E n \in Terms : UpdateDraft(w, n)
                \/ \E w \in Workflows : \E role \in Roles :
                   \E t \in DocTypes :
                      \/ Upload(w, role, t) \/ Remove(w, role, t)
                \/ \E w \in Workflows : \E i \in items[w] : \E a \in Amounts :
                   \E l \in BOOLEAN :
                     AdjustDamageItem(w, i, a, l)
                \/ \E w \in Workflows : \E i \in items[w] : RaiseDispute(w, i)
                \/ \E w \in Workflows : \E i \in items[w] : \E a \in Amounts :
                     ResolveDispute(w, i, a)
                \/ \E w \in Workflows :
                      \/ Revoke(w) \/ NoticeLapses(w) \/ Ages(w)
                \/ LoadDrafts
                \/ LoadIssued
                \/ SweepFails
                \/ \E h \in Hours : HourPasses(h)
        PROVE  ReportIsOfThisRound'
    <2>1. UNCHANGED <<state, inspection, window, reported>>
      BY <1>22
      DEF vars, UpdateDraft, Upload, Remove, AdjustDamageItem, Replace,
          RaiseDispute, ResolveDispute, Revoke, NoticeLapses, Ages,
          LoadDrafts, Load, LoadIssued, SweepFails, HourPasses
    <2>2. QED
      BY <2>1
  <1> HIDE <1>0 DEF ReportIsOfThisRound, FreshOK, Reviewed, Settled
  <1>23. ASSUME NEW w \in Workflows, Drafting(w) PROVE ReportIsOfThisRound'
    BY <1>23, <1>1, <1>2, <1>3, <1>4, <1>5, <1>6, <1>22 DEF Drafting
  <1>24. ASSUME NEW w \in Workflows, Inspecting(w) PROVE ReportIsOfThisRound'
    BY <1>24, <1>7, <1>8, <1>9, <1>10, <1>11 DEF Inspecting
  <1>25. ASSUME NEW w \in Workflows, Reviewing(w) PROVE ReportIsOfThisRound'
    BY <1>25, <1>22 DEF Reviewing
  <1>26. ASSUME NEW w \in Workflows, Settling(w) PROVE ReportIsOfThisRound'
    BY <1>26, <1>12, <1>13, <1>14, <1>15, <1>16, <1>17, <1>18, <1>22
    DEF Settling
  <1>27. ASSUME Reconciler PROVE ReportIsOfThisRound'
    BY <1>27, <1>19, <1>20, <1>22 DEF Reconciler
  <1>28. ASSUME Time PROVE ReportIsOfThisRound'
    BY <1>28, <1>21, <1>22 DEF Time
  <1>29. QED
    BY <1>22, <1>23, <1>24, <1>25, <1>26, <1>27, <1>28 DEF Next

\* A slot is chosen from the offer, and a new offer drops the choice.
LEMMA AppointmentStep == IndInv /\ [Next]_vars => AppointmentIffScheduled'
  <1> SUFFICES ASSUME IndInv, [Next]_vars PROVE AppointmentIffScheduled'
    OBVIOUS
  <1>0. /\ state \in [Workflows -> States \cup {"none"}]
        /\ inspection \in [Workflows -> InspectionStatuses \cup {"none"}]
        /\ slots \in [Workflows -> SUBSET SlotRows]
        /\ selected \in [Workflows -> SlotRows \cup {Nobody}]
        /\ sweep \in Batches
        /\ FreshOK
        /\ SweepOK
        /\ AppointmentIffScheduled
    BY DEF IndInv, TypeOK, RowsOK
  <1> USE <1>0
      DEF row, files, visit, money, certificate, sweeping, bounds,
          AppointmentIffScheduled, FreshOK
  <1>1. ASSUME NEW w \in Workflows, NEW c \in Contracts, NEW n \in Terms,
               NEW d \in Deposits,
               Initiate(w, c, n, d)
        PROVE  AppointmentIffScheduled'
    BY <1>1 DEF Initiate
  <1>2. ASSUME NEW w \in Workflows, NEW role \in {"TENANT", "ADMIN"},
               Submit(w, role)
        PROVE  AppointmentIffScheduled'
    BY <1>2, Entering DEF Submit
  <1>3. ASSUME NEW w \in Workflows, Withdraw(w) PROVE AppointmentIffScheduled'
    BY <1>3, Entering DEF Withdraw, Return
  <1>4. ASSUME NEW w \in Workflows, OwnerReject(w)
        PROVE  AppointmentIffScheduled'
    BY <1>4, Entering DEF OwnerReject, Return
  <1>5. ASSUME NEW w \in Workflows, Cancel(w) PROVE AppointmentIffScheduled'
    BY <1>5, Entering DEF Cancel, Return
  <1>6. ASSUME NEW w \in Workflows, NEW d \in Deposits, OwnerApprove(w, d)
        PROVE  AppointmentIffScheduled'
    BY <1>6, Entering DEF OwnerApprove
  <1>7. ASSUME NEW w \in Workflows, NEW hours \in SUBSET Hours,
               ProposeSlots(w, hours)
        PROVE  AppointmentIffScheduled'
    BY <1>7, Entering DEF ProposeSlots
  <1>8. ASSUME NEW w \in Workflows, NEW s \in slots[w], SelectSlot(w, s)
        PROVE  AppointmentIffScheduled'
    BY <1>8, Entering DEF SelectSlot
  <1>9. ASSUME NEW w \in Workflows, Reschedule(w)
        PROVE  AppointmentIffScheduled'
    BY <1>9, Entering DEF Reschedule
  <1>10. ASSUME NEW w \in Workflows, NEW report \in Reports,
               SubmitReport(w, report)
        PROVE  AppointmentIffScheduled'
    BY <1>10, Moves DEF SubmitReport
  <1>11. ASSUME NEW w \in Workflows, RequestReinspection(w)
         PROVE  AppointmentIffScheduled'
    BY <1>11, Entering DEF RequestReinspection, Reset
  <1>12. ASSUME NEW w \in Workflows, NEW m \in Manual, Finalise(w, m)
        PROVE  AppointmentIffScheduled'
    BY <1>12, Entering DEF Finalise
  <1>13. ASSUME NEW w \in Workflows, ReopenReview(w)
         PROVE  AppointmentIffScheduled'
    BY <1>13, Entering DEF ReopenReview
  <1>14. ASSUME NEW w \in Workflows, PayDeposit(w)
         PROVE  AppointmentIffScheduled'
    BY <1>14, Entering DEF PayDeposit
  <1>15. ASSUME NEW w \in Workflows, PayNothing(w)
         PROVE  AppointmentIffScheduled'
    BY <1>15, Moves DEF PayNothing, Certify
  <1>16. ASSUME NEW w \in Workflows, ConfirmSettlement(w)
         PROVE  AppointmentIffScheduled'
    BY <1>16 DEF ConfirmSettlement, Certify
  <1>17. ASSUME NEW w \in Workflows, FailSettlement(w)
         PROVE  AppointmentIffScheduled'
    BY <1>17, Entering DEF FailSettlement
  <1>18. ASSUME NEW w \in Workflows, Complete(w)
         PROVE  AppointmentIffScheduled'
    BY <1>18, Entering DEF Complete, Return
  <1>19. ASSUME ExpireDrafts PROVE AppointmentIffScheduled'
    BY <1>19, Sweeping DEF ExpireDrafts, Unchanged, CommitSweep
  <1>20. ASSUME CompleteIssued PROVE AppointmentIffScheduled'
    BY <1>20, Sweeping DEF CompleteIssued, CommitSweep
  <1>21. ASSUME \/ UNCHANGED vars
                \/ \E w \in Workflows : \E n \in Terms : UpdateDraft(w, n)
                \/ \E w \in Workflows : \E role \in Roles :
                   \E t \in DocTypes :
                      \/ Upload(w, role, t) \/ Remove(w, role, t)
                \/ \E w \in Workflows : \E i \in items[w] : \E a \in Amounts :
                   \E l \in BOOLEAN :
                     AdjustDamageItem(w, i, a, l)
                \/ \E w \in Workflows : \E i \in items[w] : RaiseDispute(w, i)
                \/ \E w \in Workflows : \E i \in items[w] : \E a \in Amounts :
                     ResolveDispute(w, i, a)
                \/ \E w \in Workflows :
                      \/ Revoke(w) \/ NoticeLapses(w) \/ WindowCloses(w)
                      \/ Ages(w)
                \/ LoadDrafts
                \/ LoadIssued
                \/ SweepFails
                \/ \E h \in Hours : HourPasses(h)
        PROVE  AppointmentIffScheduled'
    <2>1. UNCHANGED <<state, inspection, slots, selected>>
      BY <1>21
      DEF vars, UpdateDraft, Upload, Remove, AdjustDamageItem, Replace,
          RaiseDispute, ResolveDispute, Revoke, NoticeLapses, WindowCloses,
          Ages, LoadDrafts, Load, LoadIssued, SweepFails, HourPasses
    <2>2. QED
      BY <2>1
  <1> HIDE <1>0 DEF AppointmentIffScheduled, FreshOK
  <1>22. ASSUME NEW w \in Workflows, Drafting(w)
         PROVE  AppointmentIffScheduled'
    BY <1>22, <1>1, <1>2, <1>3, <1>4, <1>5, <1>6, <1>21 DEF Drafting
  <1>23. ASSUME NEW w \in Workflows, Inspecting(w)
         PROVE  AppointmentIffScheduled'
    BY <1>23, <1>7, <1>8, <1>9, <1>10, <1>11 DEF Inspecting
  <1>24. ASSUME NEW w \in Workflows, Reviewing(w)
         PROVE  AppointmentIffScheduled'
    BY <1>24, <1>21 DEF Reviewing
  <1>25. ASSUME NEW w \in Workflows, Settling(w)
         PROVE  AppointmentIffScheduled'
    BY <1>25, <1>12, <1>13, <1>14, <1>15, <1>16, <1>17, <1>18, <1>21
    DEF Settling
  <1>26. ASSUME Reconciler PROVE AppointmentIffScheduled'
    BY <1>26, <1>19, <1>20, <1>21 DEF Reconciler
  <1>27. ASSUME Time PROVE AppointmentIffScheduled'
    BY <1>27, <1>21 DEF Time
  <1>28. QED
    BY <1>21, <1>22, <1>23, <1>24, <1>25, <1>26, <1>27 DEF Next

\* A settlement is final only without an open dispute, and disputes are
\* raised in the review only.
LEMMA DisputeStep == IndInv /\ [Next]_vars => NoDisputeIsPassedOver'
  <1> SUFFICES ASSUME IndInv, [Next]_vars PROVE NoDisputeIsPassedOver'
    OBVIOUS
  <1>0. /\ state \in [Workflows -> States \cup {"none"}]
        /\ items \in [Workflows -> SUBSET ItemRows]
        /\ sweep \in Batches
        /\ SweepOK
        /\ NoDisputeIsPassedOver
    BY DEF IndInv, TypeOK, RowsOK
  <1> USE <1>0
      DEF row, files, visit, money, certificate, sweeping, bounds,
          NoDisputeIsPassedOver, Reviewed, Settled
  <1>1. ASSUME NEW w \in Workflows, NEW c \in Contracts, NEW n \in Terms,
               NEW d \in Deposits,
               Initiate(w, c, n, d)
        PROVE  NoDisputeIsPassedOver'
    BY <1>1 DEF Initiate
  <1>2. ASSUME NEW w \in Workflows, NEW role \in {"TENANT", "ADMIN"},
               Submit(w, role)
        PROVE  NoDisputeIsPassedOver'
    BY <1>2, Entering DEF Submit
  <1>3. ASSUME NEW w \in Workflows, Withdraw(w) PROVE NoDisputeIsPassedOver'
    BY <1>3, Entering DEF Withdraw, Return
  <1>4. ASSUME NEW w \in Workflows, OwnerReject(w)
        PROVE  NoDisputeIsPassedOver'
    BY <1>4, Entering DEF OwnerReject, Return
  <1>5. ASSUME NEW w \in Workflows, Cancel(w) PROVE NoDisputeIsPassedOver'
    BY <1>5, Entering DEF Cancel, Return
  <1>6. ASSUME NEW w \in Workflows, NEW d \in Deposits, OwnerApprove(w, d)
        PROVE  NoDisputeIsPassedOver'
    BY <1>6, Entering DEF OwnerApprove
  <1>7. ASSUME NEW w \in Workflows, NEW hours \in SUBSET Hours,
               ProposeSlots(w, hours)
        PROVE  NoDisputeIsPassedOver'
    BY <1>7, Entering DEF ProposeSlots
  <1>8. ASSUME NEW w \in Workflows, NEW s \in slots[w], SelectSlot(w, s)
        PROVE  NoDisputeIsPassedOver'
    BY <1>8, Entering DEF SelectSlot
  <1>9. ASSUME NEW w \in Workflows, Reschedule(w) PROVE NoDisputeIsPassedOver'
    BY <1>9, Entering DEF Reschedule
  <1>10. ASSUME NEW w \in Workflows, NEW report \in Reports,
               SubmitReport(w, report)
        PROVE  NoDisputeIsPassedOver'
    BY <1>10, Moves DEF SubmitReport
  <1>11. ASSUME NEW w \in Workflows, RequestReinspection(w)
         PROVE  NoDisputeIsPassedOver'
    BY <1>11, Entering DEF RequestReinspection, Reset
  <1>12. ASSUME NEW w \in Workflows, NEW i \in items[w], NEW a \in Amounts,
                NEW l \in BOOLEAN,
               AdjustDamageItem(w, i, a, l)
        PROVE  NoDisputeIsPassedOver'
    BY <1>12 DEF AdjustDamageItem, Replace, InReview
  <1>13. ASSUME NEW w \in Workflows, NEW i \in items[w], RaiseDispute(w, i)
        PROVE  NoDisputeIsPassedOver'
    BY <1>13 DEF RaiseDispute, Replace, InReview
  <1>14. ASSUME NEW w \in Workflows, NEW i \in items[w], NEW a \in Amounts,
               ResolveDispute(w, i, a)
        PROVE  NoDisputeIsPassedOver'
    BY <1>14 DEF ResolveDispute, Replace, InReview
  <1>15. ASSUME NEW w \in Workflows, NEW m \in Manual, Finalise(w, m)
        PROVE  NoDisputeIsPassedOver'
    BY <1>15, Entering DEF Finalise, Undisputed
  <1>16. ASSUME NEW w \in Workflows, ReopenReview(w)
         PROVE  NoDisputeIsPassedOver'
    BY <1>16, Entering DEF ReopenReview
  <1>17. ASSUME NEW w \in Workflows, PayDeposit(w)
         PROVE  NoDisputeIsPassedOver'
    BY <1>17, Entering DEF PayDeposit
  <1>18. ASSUME NEW w \in Workflows, PayNothing(w)
         PROVE  NoDisputeIsPassedOver'
    BY <1>18, Moves DEF PayNothing, Certify
  <1>19. ASSUME NEW w \in Workflows, ConfirmSettlement(w)
         PROVE  NoDisputeIsPassedOver'
    BY <1>19 DEF ConfirmSettlement, Certify
  <1>20. ASSUME NEW w \in Workflows, FailSettlement(w)
         PROVE  NoDisputeIsPassedOver'
    BY <1>20, Entering DEF FailSettlement
  <1>21. ASSUME NEW w \in Workflows, Complete(w) PROVE NoDisputeIsPassedOver'
    BY <1>21, Entering DEF Complete, Return
  <1>22. ASSUME ExpireDrafts PROVE NoDisputeIsPassedOver'
    BY <1>22, Sweeping DEF ExpireDrafts, Unchanged, CommitSweep
  <1>23. ASSUME CompleteIssued PROVE NoDisputeIsPassedOver'
    BY <1>23, Sweeping DEF CompleteIssued, CommitSweep
  <1>24. ASSUME \/ UNCHANGED vars
                \/ \E w \in Workflows : \E n \in Terms : UpdateDraft(w, n)
                \/ \E w \in Workflows : \E role \in Roles :
                   \E t \in DocTypes :
                      \/ Upload(w, role, t) \/ Remove(w, role, t)
                \/ \E w \in Workflows :
                      \/ Revoke(w) \/ NoticeLapses(w) \/ WindowCloses(w)
                      \/ Ages(w)
                \/ LoadDrafts
                \/ LoadIssued
                \/ SweepFails
                \/ \E h \in Hours : HourPasses(h)
        PROVE  NoDisputeIsPassedOver'
    <2>1. UNCHANGED <<state, items>>
      BY <1>24
      DEF vars, UpdateDraft, Upload, Remove, Revoke, NoticeLapses,
          WindowCloses, Ages, LoadDrafts, Load, LoadIssued, SweepFails,
          HourPasses
    <2>2. QED
      BY <2>1
  <1> HIDE <1>0 DEF NoDisputeIsPassedOver, Reviewed, Settled
  <1>25. ASSUME NEW w \in Workflows, Drafting(w) PROVE NoDisputeIsPassedOver'
    BY <1>25, <1>1, <1>2, <1>3, <1>4, <1>5, <1>6, <1>24 DEF Drafting
  <1>26. ASSUME NEW w \in Workflows, Inspecting(w)
         PROVE  NoDisputeIsPassedOver'
    BY <1>26, <1>7, <1>8, <1>9, <1>10, <1>11 DEF Inspecting
  <1>27. ASSUME NEW w \in Workflows, Reviewing(w) PROVE NoDisputeIsPassedOver'
    BY <1>27, <1>12, <1>13, <1>14 DEF Reviewing
  <1>28. ASSUME NEW w \in Workflows, Settling(w) PROVE NoDisputeIsPassedOver'
    BY <1>28, <1>15, <1>16, <1>17, <1>18, <1>19, <1>20, <1>21, <1>24
    DEF Settling
  <1>29. ASSUME Reconciler PROVE NoDisputeIsPassedOver'
    BY <1>29, <1>22, <1>23, <1>24 DEF Reconciler
  <1>30. ASSUME Time PROVE NoDisputeIsPassedOver'
    BY <1>30, <1>24 DEF Time
  <1>31. QED
    BY <1>24, <1>25, <1>26, <1>27, <1>28, <1>29, <1>30 DEF Next

\* The lines and the figures are computed when a settlement is made final,
\* and what they were computed from does not change before it is reopened.
LEMMA ChargedStep == IndInv /\ [Next]_vars => ChargedAsReviewed'
  <1> SUFFICES ASSUME IndInv, [Next]_vars PROVE ChargedAsReviewed'
    OBVIOUS
  <1>0. /\ state \in [Workflows -> States \cup {"none"}]
        /\ round \in [Workflows -> Nat]
        /\ deposit \in [Workflows -> Nat]
        /\ items \in [Workflows -> SUBSET ItemRows]
        /\ lines \in [Workflows -> SUBSET (Nat \X Nat \X Nat)]
        /\ figures \in [Workflows -> FigureRows]
        /\ certified \in [Workflows -> FigureRows]
        /\ sweep \in Batches
        /\ SweepOK
        /\ ChargedAsReviewed
    BY DEF IndInv, TypeOK, RowsOK
  <1> USE <1>0
      DEF row, files, visit, money, certificate, sweeping, bounds,
          ChargedAsReviewed, Reviewed, Settled
  <1>1. ASSUME NEW w \in Workflows, NEW c \in Contracts, NEW n \in Terms,
               NEW d \in Deposits,
               Initiate(w, c, n, d)
        PROVE  ChargedAsReviewed'
    BY <1>1 DEF Initiate
  <1>2. ASSUME NEW w \in Workflows, NEW role \in {"TENANT", "ADMIN"},
               Submit(w, role)
        PROVE  ChargedAsReviewed'
    BY <1>2, Entering DEF Submit
  <1>3. ASSUME NEW w \in Workflows, Withdraw(w) PROVE ChargedAsReviewed'
    BY <1>3, Entering DEF Withdraw, Return
  <1>4. ASSUME NEW w \in Workflows, OwnerReject(w) PROVE ChargedAsReviewed'
    BY <1>4, Entering DEF OwnerReject, Return
  <1>5. ASSUME NEW w \in Workflows, Cancel(w) PROVE ChargedAsReviewed'
    BY <1>5, Entering DEF Cancel, Return
  <1>6. ASSUME NEW w \in Workflows, NEW d \in Deposits, OwnerApprove(w, d)
        PROVE  ChargedAsReviewed'
    BY <1>6, Entering DEF OwnerApprove
  <1>7. ASSUME NEW w \in Workflows, NEW hours \in SUBSET Hours,
               ProposeSlots(w, hours)
        PROVE  ChargedAsReviewed'
    BY <1>7, Entering DEF ProposeSlots
  <1>8. ASSUME NEW w \in Workflows, NEW s \in slots[w], SelectSlot(w, s)
        PROVE  ChargedAsReviewed'
    BY <1>8, Entering DEF SelectSlot
  <1>9. ASSUME NEW w \in Workflows, Reschedule(w) PROVE ChargedAsReviewed'
    BY <1>9, Entering DEF Reschedule
  <1>10. ASSUME NEW w \in Workflows, NEW report \in Reports,
               SubmitReport(w, report)
        PROVE  ChargedAsReviewed'
    BY <1>10, Moves DEF SubmitReport
  <1>11. ASSUME NEW w \in Workflows, RequestReinspection(w)
         PROVE  ChargedAsReviewed'
    BY <1>11, Entering DEF RequestReinspection, Reset
  <1>12. ASSUME NEW w \in Workflows, NEW i \in items[w], NEW a \in Amounts,
                NEW l \in BOOLEAN,
               AdjustDamageItem(w, i, a, l)
        PROVE  ChargedAsReviewed'
    BY <1>12 DEF AdjustDamageItem, Replace, InReview
  <1>13. ASSUME NEW w \in Workflows, NEW i \in items[w], RaiseDispute(w, i)
        PROVE  ChargedAsReviewed'
    BY <1>13 DEF RaiseDispute, Replace, InReview
  <1>14. ASSUME NEW w \in Workflows, NEW i \in items[w], NEW a \in Amounts,
               ResolveDispute(w, i, a)
        PROVE  ChargedAsReviewed'
    BY <1>14 DEF ResolveDispute, Replace, InReview
  <1>15. ASSUME NEW w \in Workflows, NEW m \in Manual, Finalise(w, m)
        PROVE  ChargedAsReviewed'
    <2>1. PICK L :
            /\ L = LinesOf(Charged(w)) \cup {<<0, 0, m>>}
            /\ lines' = [lines EXCEPT ![w] = L]
            /\ figures' =
                 [figures EXCEPT ![w] = Settle(deposit[w], Total(L))]
      BY <1>15, Finalising
    <2>2. /\ state' = [state EXCEPT ![w] = "SETTLEMENT_PENDING"]
          /\ UNCHANGED <<round, deposit, items, certified>>
      BY <1>15, Entering DEF Finalise
    <2>3. /\ \A l \in L : l[1] # 0 => \E i \in Charged(w) :
               l = <<i.round, i.n, Chargeable(i)>>
          /\ \A i \in Charged(w) : <<i.round, i.n, Chargeable(i)>> \in L
      BY <2>1 DEF LinesOf
    <2>4. Charged(w) =
            {i \in items[w] : i.round = round[w] /\ Chargeable(i) > 0}
      BY DEF Charged, OfRound
    <2> SUFFICES ASSUME NEW v \in Workflows, Reviewed(v)'
                 PROVE  /\ \A l \in lines'[v] :
                             l[1] # 0 => \E i \in items[v] :
                               /\ i.round = round[v]
                               /\ l = <<i.round, i.n, Chargeable(i)>>
                        /\ \A i \in items[v] :
                             i.round = round[v] /\ Chargeable(i) > 0 =>
                               <<i.round, i.n, Chargeable(i)>> \in lines'[v]
                        /\ figures'[v] = Settle(deposit[v], Total(lines'[v]))
                        /\ Settled(v)' => certified[v] = figures'[v]
      BY <2>2
    <2>5. CASE v = w
      <3>1. lines'[w] = L /\ ~ Settled(w)'
        BY <2>1, <2>2
      <3>2. figures'[w] = Settle(deposit[w], Total(L))
        BY <2>1
      <3>3. QED
        BY <2>3, <2>4, <2>5, <3>1, <3>2
    <2>6. CASE v # w
      BY <2>1, <2>2, <2>6
    <2>7. QED
      BY <2>5, <2>6
  <1>16. ASSUME NEW w \in Workflows, ReopenReview(w) PROVE ChargedAsReviewed'
    BY <1>16, Entering DEF ReopenReview
  <1>17. ASSUME NEW w \in Workflows, PayDeposit(w) PROVE ChargedAsReviewed'
    BY <1>17, Entering DEF PayDeposit
  <1>18. ASSUME NEW w \in Workflows, PayNothing(w) PROVE ChargedAsReviewed'
    BY <1>18, Moves DEF PayNothing, Certify
  <1>19. ASSUME NEW w \in Workflows, ConfirmSettlement(w)
         PROVE  ChargedAsReviewed'
    BY <1>19 DEF ConfirmSettlement, Certify
  <1>20. ASSUME NEW w \in Workflows, FailSettlement(w)
         PROVE  ChargedAsReviewed'
    BY <1>20, Entering DEF FailSettlement
  <1>21. ASSUME NEW w \in Workflows, Complete(w) PROVE ChargedAsReviewed'
    BY <1>21, Entering DEF Complete, Return
  <1>22. ASSUME ExpireDrafts PROVE ChargedAsReviewed'
    BY <1>22, Sweeping DEF ExpireDrafts, Unchanged, CommitSweep
  <1>23. ASSUME CompleteIssued PROVE ChargedAsReviewed'
    BY <1>23, Sweeping DEF CompleteIssued, CommitSweep
  <1>24. ASSUME \/ UNCHANGED vars
                \/ \E w \in Workflows : \E n \in Terms : UpdateDraft(w, n)
                \/ \E w \in Workflows : \E role \in Roles :
                   \E t \in DocTypes :
                      \/ Upload(w, role, t) \/ Remove(w, role, t)
                \/ \E w \in Workflows :
                      \/ Revoke(w) \/ NoticeLapses(w) \/ WindowCloses(w)
                      \/ Ages(w)
                \/ LoadDrafts
                \/ LoadIssued
                \/ SweepFails
                \/ \E h \in Hours : HourPasses(h)
        PROVE  ChargedAsReviewed'
    <2>1. UNCHANGED <<state, round, deposit, items, lines, figures,
                      certified>>
      BY <1>24
      DEF vars, UpdateDraft, Upload, Remove, Revoke, NoticeLapses,
          WindowCloses, Ages, LoadDrafts, Load, LoadIssued, SweepFails,
          HourPasses
    <2>2. QED
      BY <2>1
  <1> HIDE <1>0 DEF ChargedAsReviewed, Reviewed, Settled
  <1>25. ASSUME NEW w \in Workflows, Drafting(w) PROVE ChargedAsReviewed'
    BY <1>25, <1>1, <1>2, <1>3, <1>4, <1>5, <1>6, <1>24 DEF Drafting
  <1>26. ASSUME NEW w \in Workflows, Inspecting(w) PROVE ChargedAsReviewed'
    BY <1>26, <1>7, <1>8, <1>9, <1>10, <1>11 DEF Inspecting
  <1>27. ASSUME NEW w \in Workflows, Reviewing(w) PROVE ChargedAsReviewed'
    BY <1>27, <1>12, <1>13, <1>14 DEF Reviewing
  <1>28. ASSUME NEW w \in Workflows, Settling(w) PROVE ChargedAsReviewed'
    BY <1>28, <1>15, <1>16, <1>17, <1>18, <1>19, <1>20, <1>21, <1>24
    DEF Settling
  <1>29. ASSUME Reconciler PROVE ChargedAsReviewed'
    BY <1>29, <1>22, <1>23, <1>24 DEF Reconciler
  <1>30. ASSUME Time PROVE ChargedAsReviewed'
    BY <1>30, <1>24 DEF Time
  <1>31. QED
    BY <1>24, <1>25, <1>26, <1>27, <1>28, <1>29, <1>30 DEF Next

\* Every write of a row in the batch is noticed.
LEMMA SweepStep == IndInv /\ [Next]_vars => SweepOK'
  <1> SUFFICES ASSUME IndInv, [Next]_vars PROVE SweepOK'
    OBVIOUS
  <1>0. /\ state \in [Workflows -> States \cup {"none"}]
        /\ stale \subseteq Workflows
        /\ sweep \in Batches
        /\ SweepOK
    BY DEF IndInv, TypeOK, RowsOK
  <1> USE <1>0
      DEF row, files, visit, money, certificate, sweeping, bounds, SweepOK
  <1>1. ASSUME NEW w \in Workflows, NEW c \in Contracts, NEW n \in Terms,
               NEW d \in Deposits,
               Initiate(w, c, n, d)
        PROVE  SweepOK'
    BY <1>1 DEF Initiate
  <1>2. ASSUME NEW w \in Workflows, NEW n \in Terms, UpdateDraft(w, n)
        PROVE  SweepOK'
    BY <1>2, TouchKeeps DEF UpdateDraft
  <1>3. ASSUME NEW w \in Workflows, NEW role \in {"TENANT", "ADMIN"},
               Submit(w, role)
        PROVE  SweepOK'
    BY <1>3, Entering, TouchKeeps DEF Submit
  <1>4. ASSUME NEW w \in Workflows, Withdraw(w) PROVE SweepOK'
    BY <1>4, Entering, TouchKeeps DEF Withdraw, Return
  <1>5. ASSUME NEW w \in Workflows, OwnerReject(w) PROVE SweepOK'
    BY <1>5, Entering, TouchKeeps DEF OwnerReject, Return
  <1>6. ASSUME NEW w \in Workflows, Cancel(w) PROVE SweepOK'
    BY <1>6, Entering, TouchKeeps DEF Cancel, Return
  <1>7. ASSUME NEW w \in Workflows, NEW d \in Deposits, OwnerApprove(w, d)
        PROVE  SweepOK'
    BY <1>7, Entering, TouchKeeps DEF OwnerApprove
  <1>8. ASSUME NEW w \in Workflows, NEW hours \in SUBSET Hours,
               ProposeSlots(w, hours)
        PROVE  SweepOK'
    BY <1>8, Entering, TouchKeeps DEF ProposeSlots
  <1>9. ASSUME NEW w \in Workflows, NEW s \in slots[w], SelectSlot(w, s)
        PROVE  SweepOK'
    BY <1>9, Entering, TouchKeeps DEF SelectSlot
  <1>10. ASSUME NEW w \in Workflows, Reschedule(w) PROVE SweepOK'
    BY <1>10, Entering, TouchKeeps DEF Reschedule
  <1>11. ASSUME NEW w \in Workflows, NEW report \in Reports,
               SubmitReport(w, report)
        PROVE  SweepOK'
    BY <1>11, TouchKeeps DEF SubmitReport
  <1>12. ASSUME NEW w \in Workflows, RequestReinspection(w) PROVE SweepOK'
    BY <1>12, Entering, TouchKeeps DEF RequestReinspection, Reset
  <1>13. ASSUME NEW w \in Workflows, NEW m \in Manual, Finalise(w, m)
        PROVE  SweepOK'
    BY <1>13, Entering, TouchKeeps DEF Finalise
  <1>14. ASSUME NEW w \in Workflows, ReopenReview(w) PROVE SweepOK'
    BY <1>14, Entering, TouchKeeps DEF ReopenReview
  <1>15. ASSUME NEW w \in Workflows, PayDeposit(w) PROVE SweepOK'
    BY <1>15, Entering, TouchKeeps DEF PayDeposit
  <1>16. ASSUME NEW w \in Workflows, PayNothing(w) PROVE SweepOK'
    BY <1>16, TouchKeeps DEF PayNothing, Certify
  <1>17. ASSUME NEW w \in Workflows, ConfirmSettlement(w) PROVE SweepOK'
    BY <1>17, TouchKeeps DEF ConfirmSettlement, Certify
  <1>18. ASSUME NEW w \in Workflows, FailSettlement(w) PROVE SweepOK'
    BY <1>18, Entering, TouchKeeps DEF FailSettlement
  <1>19. ASSUME NEW w \in Workflows, Complete(w) PROVE SweepOK'
    BY <1>19, Entering, TouchKeeps DEF Complete, Return
  <1>20. ASSUME LoadDrafts PROVE SweepOK'
    BY <1>20 DEF LoadDrafts, Load, Idle, Found, Batches
  <1>21. ASSUME ExpireDrafts PROVE SweepOK'
    BY <1>21 DEF ExpireDrafts, Unchanged, CommitSweep, Idle
  <1>22. ASSUME LoadIssued PROVE SweepOK'
    BY <1>22 DEF LoadIssued, Load, Idle, Found, Batches
  <1>23. ASSUME CompleteIssued PROVE SweepOK'
    BY <1>23 DEF CompleteIssued, CommitSweep, Idle
  <1>24. ASSUME SweepFails PROVE SweepOK'
    BY <1>24 DEF SweepFails, Idle
  <1>25. ASSUME NEW w \in Workflows, Ages(w) PROVE SweepOK'
    BY <1>25 DEF Ages
  <1>26. ASSUME \/ UNCHANGED vars
                \/ \E w \in Workflows : \E role \in Roles :
                   \E t \in DocTypes :
                      \/ Upload(w, role, t) \/ Remove(w, role, t)
                \/ \E w \in Workflows : \E i \in items[w] : \E a \in Amounts :
                   \E l \in BOOLEAN :
                     AdjustDamageItem(w, i, a, l)
                \/ \E w \in Workflows : \E i \in items[w] : RaiseDispute(w, i)
                \/ \E w \in Workflows : \E i \in items[w] : \E a \in Amounts :
                     ResolveDispute(w, i, a)
                \/ \E w \in Workflows :
                      \/ Revoke(w) \/ NoticeLapses(w) \/ WindowCloses(w)
                \/ \E h \in Hours : HourPasses(h)
        PROVE  SweepOK'
    <2>1. UNCHANGED <<state, stale, sweep>>
      BY <1>26
      DEF vars, Upload, Remove, AdjustDamageItem, Replace, RaiseDispute,
          ResolveDispute, Revoke, NoticeLapses, WindowCloses, HourPasses
    <2>2. QED
      BY <2>1
  <1> HIDE <1>0 DEF SweepOK
  <1>27. ASSUME NEW w \in Workflows, Drafting(w) PROVE SweepOK'
    BY <1>27, <1>1, <1>2, <1>3, <1>4, <1>5, <1>6, <1>7, <1>26 DEF Drafting
  <1>28. ASSUME NEW w \in Workflows, Inspecting(w) PROVE SweepOK'
    BY <1>28, <1>8, <1>9, <1>10, <1>11, <1>12 DEF Inspecting
  <1>29. ASSUME NEW w \in Workflows, Reviewing(w) PROVE SweepOK'
    BY <1>29, <1>26 DEF Reviewing
  <1>30. ASSUME NEW w \in Workflows, Settling(w) PROVE SweepOK'
    BY <1>30, <1>13, <1>14, <1>15, <1>16, <1>17, <1>18, <1>19, <1>26
    DEF Settling
  <1>31. ASSUME Reconciler PROVE SweepOK'
    BY <1>31, <1>20, <1>21, <1>22, <1>23, <1>24 DEF Reconciler
  <1>32. ASSUME Time PROVE SweepOK'
    BY <1>32, <1>25, <1>26 DEF Time
  <1>33. QED
    BY <1>26, <1>27, <1>28, <1>29, <1>30, <1>31, <1>32 DEF Next

\* Items are added with a report, one for each of its lines, and changed one
\* at a time.
LEMMA RowsStep == IndInv /\ [Next]_vars => RowsOK'
  <1> SUFFICES ASSUME IndInv, [Next]_vars PROVE RowsOK'
    OBVIOUS
  <1>0. /\ state \in [Workflows -> States \cup {"none"}]
        /\ round \in [Workflows -> Nat]
        /\ deposit \in [Workflows -> Nat]
        /\ RowsOK
    BY DEF IndInv, TypeOK, RowsOK
  <1> USE <1>0
      DEF row, files, visit, money, certificate, sweeping, bounds, RowsOK
  <1>1. ASSUME NEW w \in Workflows, NEW report \in Reports,
               SubmitReport(w, report)
        PROVE  RowsOK'
    <2> DEFINE new == {NewItem(round[w], e) : e \in report}
    <2>1. new \subseteq ItemRows /\ IsFiniteSet(new)
      BY Itemising
    <2>2. /\ items' = [items EXCEPT
                        ![w] = (@ \ OfRound(w, round[w])) \cup new]
          /\ UNCHANGED lines
      BY <1>1 DEF SubmitReport
    <2> HIDE DEF new
    <2>3. IsFiniteSet(items[w] \ OfRound(w, round[w]))
      BY FS_Subset
    <2>4. IsFiniteSet((items[w] \ OfRound(w, round[w])) \cup new)
      BY <2>1, <2>3, FS_Union
    <2>5. QED
      BY <2>1, <2>2, <2>4
  <1>2. ASSUME NEW w \in Workflows, NEW i \in items[w], NEW a \in Amounts,
               NEW l \in BOOLEAN,
               AdjustDamageItem(w, i, a, l)
        PROVE  RowsOK'
    <2> DEFINE new == [i EXCEPT !.approved = a, !.liable = l]
    <2>1. new \in ItemRows
      <3>1. i \in ItemRows /\ a \in Nat
        BY AmountsAreNat
      <3>2. QED
        BY <3>1 DEF ItemRows
    <2>2. /\ items' = [items EXCEPT ![w] = (@ \ {i}) \cup {new}]
          /\ UNCHANGED lines
      BY <1>2 DEF AdjustDamageItem, Replace
    <2> HIDE DEF new
    <2>3. IsFiniteSet(items[w] \ {i})
      BY FS_Subset
    <2>4. IsFiniteSet((items[w] \ {i}) \cup {new})
      BY <2>3, FS_AddElement
    <2>5. QED
      BY <2>1, <2>2, <2>4
  <1>3. ASSUME NEW w \in Workflows, NEW i \in items[w], RaiseDispute(w, i)
        PROVE  RowsOK'
    <2> DEFINE new == [i EXCEPT !.dispute = "RAISED"]
    <2>1. new \in ItemRows
      BY DEF ItemRows, DisputeStatuses
    <2>2. /\ items' = [items EXCEPT ![w] = (@ \ {i}) \cup {new}]
          /\ UNCHANGED lines
      BY <1>3 DEF RaiseDispute, Replace
    <2> HIDE DEF new
    <2>3. IsFiniteSet(items[w] \ {i})
      BY FS_Subset
    <2>4. IsFiniteSet((items[w] \ {i}) \cup {new})
      BY <2>3, FS_AddElement
    <2>5. QED
      BY <2>1, <2>2, <2>4
  <1>4. ASSUME NEW w \in Workflows, NEW i \in items[w], NEW a \in Amounts,
               ResolveDispute(w, i, a)
        PROVE  RowsOK'
    <2> DEFINE upheld == [i EXCEPT !.dispute = "UPHELD", !.approved = a]
               rejected == [i EXCEPT !.dispute = "REJECTED"]
    <2>6. upheld \in ItemRows /\ rejected \in ItemRows
      <3>1. i \in ItemRows /\ a \in Nat
        BY AmountsAreNat
      <3>2. QED
        BY <3>1 DEF ItemRows, DisputeStatuses
    <2>7. Replace(w, i, upheld) \/ Replace(w, i, rejected)
      BY <1>4 DEF ResolveDispute
    <2> HIDE DEF upheld, rejected
    <2>1. PICK new \in ItemRows : Replace(w, i, new)
      BY <2>6, <2>7
    <2>2. /\ items' = [items EXCEPT ![w] = (@ \ {i}) \cup {new}]
          /\ UNCHANGED lines
      BY <2>1 DEF Replace
    <2>3. IsFiniteSet(items[w] \ {i})
      BY FS_Subset
    <2>4. IsFiniteSet((items[w] \ {i}) \cup {new})
      BY <2>3, FS_AddElement
    <2>5. QED
      BY <2>1, <2>2, <2>4
  <1>5. ASSUME NEW w \in Workflows, NEW m \in Manual, Finalise(w, m)
        PROVE  RowsOK'
    <2>1. PICK L :
            /\ L = LinesOf(Charged(w)) \cup {<<0, 0, m>>}
            /\ lines' = [lines EXCEPT ![w] = L]
            /\ figures' =
                 [figures EXCEPT ![w] = Settle(deposit[w], Total(L))]
      BY <1>5, Finalising
    <2>2. L \subseteq Nat \X Nat \X Nat
      BY <2>1, Lining
    <2>3. UNCHANGED items
      BY <1>5 DEF Finalise
    <2>4. QED
      BY <2>1, <2>2, <2>3
  <1>6. ASSUME \/ UNCHANGED vars
               \/ \E w \in Workflows : \E c \in Contracts : \E n \in Terms :
                  \E d \in Deposits :
                    Initiate(w, c, n, d)
               \/ \E w \in Workflows : \E n \in Terms : UpdateDraft(w, n)
               \/ \E w \in Workflows : \E role \in Roles : \E t \in DocTypes :
                     \/ Upload(w, role, t) \/ Remove(w, role, t)
               \/ \E w \in Workflows : \E role \in {"TENANT", "ADMIN"} :
                    Submit(w, role)
               \/ \E w \in Workflows :
                     \/ Withdraw(w) \/ OwnerReject(w) \/ Cancel(w)
                     \/ Reschedule(w) \/ RequestReinspection(w)
                     \/ ReopenReview(w) \/ PayDeposit(w) \/ PayNothing(w)
                     \/ ConfirmSettlement(w) \/ FailSettlement(w)
                     \/ Revoke(w) \/ Complete(w) \/ NoticeLapses(w)
                     \/ WindowCloses(w) \/ Ages(w)
               \/ \E w \in Workflows : \E d \in Deposits : OwnerApprove(w, d)
               \/ \E w \in Workflows : \E hours \in SUBSET Hours :
                    ProposeSlots(w, hours)
               \/ \E w \in Workflows : \E s \in slots[w] : SelectSlot(w, s)
               \/ LoadDrafts
               \/ ExpireDrafts
               \/ LoadIssued
               \/ CompleteIssued
               \/ SweepFails
               \/ \E h \in Hours : HourPasses(h)
        PROVE  RowsOK'
    <2>1. UNCHANGED <<items, lines>>
      BY <1>6
      DEF vars, Initiate, UpdateDraft, Upload, Remove, Submit, Withdraw,
          Return, OwnerReject, Cancel, Reschedule, RequestReinspection,
          ReopenReview, PayDeposit, PayNothing, Certify, ConfirmSettlement,
          FailSettlement, Revoke, Complete, NoticeLapses, WindowCloses, Ages,
          OwnerApprove, ProposeSlots, SelectSlot, LoadDrafts, Load,
          ExpireDrafts, CommitSweep, LoadIssued, CompleteIssued, SweepFails,
          HourPasses
    <2>2. QED
      BY <2>1
  <1> HIDE <1>0 DEF RowsOK
  <1>7. ASSUME NEW w \in Workflows, Drafting(w) PROVE RowsOK'
    BY <1>7, <1>6 DEF Drafting
  <1>8. ASSUME NEW w \in Workflows, Inspecting(w) PROVE RowsOK'
    BY <1>8, <1>1, <1>6 DEF Inspecting
  <1>9. ASSUME NEW w \in Workflows, Reviewing(w) PROVE RowsOK'
    BY <1>9, <1>2, <1>3, <1>4 DEF Reviewing
  <1>10. ASSUME NEW w \in Workflows, Settling(w) PROVE RowsOK'
    BY <1>10, <1>5, <1>6 DEF Settling
  <1>11. ASSUME Reconciler PROVE RowsOK'
    BY <1>11, <1>6 DEF Reconciler
  <1>12. ASSUME Time PROVE RowsOK'
    BY <1>12, <1>6 DEF Time
  <1>13. QED
    BY <1>6, <1>7, <1>8, <1>9, <1>10, <1>11, <1>12 DEF Next

\* Every step writes values of the columns' types.
LEMMA TypeStep == IndInv /\ [Next]_vars => TypeOK'
  <1> SUFFICES ASSUME IndInv, [Next]_vars PROVE TypeOK'
    OBVIOUS
  <1>0. /\ TypeOK
        /\ RowsOK
    BY DEF IndInv, TypeOK, RowsOK
  <1> USE <1>0
      DEF row, files, visit, money, certificate, sweeping, bounds, TypeOK
  <1>a. RowsOK'
    BY RowsStep
  <1>b. \A w \in Workflows : items'[w] \subseteq ItemRows
    BY <1>a DEF RowsOK
  <1> USE <1>b
  <1>1. ASSUME NEW w \in Workflows, NEW c \in Contracts, NEW n \in Terms,
               NEW d \in Deposits,
               Initiate(w, c, n, d)
        PROVE  TypeOK'
    BY <1>1, A2ExitAssumption DEF Initiate, States
  <1>2. ASSUME NEW w \in Workflows, NEW n \in Terms, UpdateDraft(w, n)
        PROVE  TypeOK'
    BY <1>2, Touching, A2ExitAssumption DEF UpdateDraft
  <1>3. ASSUME NEW w \in Workflows, NEW role \in Roles, NEW t \in DocTypes,
               Upload(w, role, t)
        PROVE  TypeOK'
    BY <1>3 DEF Upload
  <1>4. ASSUME NEW w \in Workflows, NEW role \in Roles, NEW t \in DocTypes,
               Remove(w, role, t)
        PROVE  TypeOK'
    BY <1>4, A2ExitAssumption DEF Remove
  <1>5. ASSUME NEW w \in Workflows, NEW role \in {"TENANT", "ADMIN"},
               Submit(w, role)
        PROVE  TypeOK'
    BY <1>5, Entering, Touching DEF Submit
  <1>6. ASSUME NEW w \in Workflows, Withdraw(w) PROVE TypeOK'
    BY <1>6, Entering, Touching DEF Withdraw, Return
  <1>7. ASSUME NEW w \in Workflows, OwnerReject(w) PROVE TypeOK'
    BY <1>7, Entering, Touching DEF OwnerReject, Return
  <1>8. ASSUME NEW w \in Workflows, Cancel(w) PROVE TypeOK'
    BY <1>8, Entering, Touching DEF Cancel, Return
  <1>9. ASSUME NEW w \in Workflows, NEW d \in Deposits, OwnerApprove(w, d)
        PROVE  TypeOK'
    BY <1>9, Entering, Touching, A2ExitAssumption
    DEF OwnerApprove, InspectionStatuses
  <1>10. ASSUME NEW w \in Workflows, NEW hours \in SUBSET Hours,
               ProposeSlots(w, hours)
        PROVE  TypeOK'
    BY <1>10, Entering, Touching
    DEF ProposeSlots, InspectionStatuses, SlotRows
  <1>11. ASSUME NEW w \in Workflows, NEW s \in slots[w], SelectSlot(w, s)
        PROVE  TypeOK'
    BY <1>11, Entering, Touching DEF SelectSlot, InspectionStatuses
  <1>12. ASSUME NEW w \in Workflows, Reschedule(w) PROVE TypeOK'
    BY <1>12, Entering, Touching DEF Reschedule, InspectionStatuses
  <1>13. ASSUME NEW w \in Workflows, NEW report \in Reports,
               SubmitReport(w, report)
        PROVE  TypeOK'
    BY <1>13, Moves, Touching DEF SubmitReport, States, InspectionStatuses
  <1>14. ASSUME NEW w \in Workflows, RequestReinspection(w) PROVE TypeOK'
    BY <1>14, Entering, Touching
    DEF RequestReinspection, Reset, InspectionStatuses
  <1>15. ASSUME NEW w \in Workflows, NEW i \in items[w], NEW a \in Amounts,
                NEW l \in BOOLEAN,
               AdjustDamageItem(w, i, a, l)
        PROVE  TypeOK'
    BY <1>15 DEF AdjustDamageItem, Replace, InReview
  <1>16. ASSUME NEW w \in Workflows, NEW i \in items[w], RaiseDispute(w, i)
        PROVE  TypeOK'
    BY <1>16 DEF RaiseDispute, Replace, InReview
  <1>17. ASSUME NEW w \in Workflows, NEW i \in items[w], NEW a \in Amounts,
               ResolveDispute(w, i, a)
        PROVE  TypeOK'
    BY <1>17 DEF ResolveDispute, Replace, InReview
  <1>18. ASSUME NEW w \in Workflows, NEW m \in Manual, Finalise(w, m)
        PROVE  TypeOK'
    <2>1. PICK L :
            /\ L = LinesOf(Charged(w)) \cup {<<0, 0, m>>}
            /\ lines' = [lines EXCEPT ![w] = L]
            /\ figures' =
                 [figures EXCEPT ![w] = Settle(deposit[w], Total(L))]
      BY <1>18, Finalising
    <2>2. figures' \in [Workflows -> FigureRows]
      BY <2>1, Lining, Figuring
    <2>3. QED
      BY <1>18, <2>2, Entering, Touching DEF Finalise, SettlementStatuses
  <1>19. ASSUME NEW w \in Workflows, ReopenReview(w) PROVE TypeOK'
    BY <1>19, Entering, Touching DEF ReopenReview, SettlementStatuses
  <1>20. ASSUME NEW w \in Workflows, PayDeposit(w) PROVE TypeOK'
    BY <1>20, Entering, Touching DEF PayDeposit, SettlementStatuses
  <1>21. ASSUME NEW w \in Workflows, PayNothing(w) PROVE TypeOK'
    BY <1>21, Moves, Touching
    DEF PayNothing, Certify, States, SettlementStatuses
  <1>22. ASSUME NEW w \in Workflows, ConfirmSettlement(w) PROVE TypeOK'
    BY <1>22, Touching
    DEF ConfirmSettlement, Certify, States, SettlementStatuses
  <1>23. ASSUME NEW w \in Workflows, FailSettlement(w) PROVE TypeOK'
    BY <1>23, Entering, Touching DEF FailSettlement, SettlementStatuses
  <1>24. ASSUME NEW w \in Workflows, Revoke(w) PROVE TypeOK'
    BY <1>24 DEF Revoke
  <1>25. ASSUME NEW w \in Workflows, Complete(w) PROVE TypeOK'
    BY <1>25, Entering, Touching DEF Complete, Return
  <1>26. ASSUME LoadDrafts PROVE TypeOK'
    BY <1>26 DEF LoadDrafts, Load, Found, Idle, Batches
  <1>27. ASSUME ExpireDrafts PROVE TypeOK'
    BY <1>27 DEF ExpireDrafts, Unchanged, CommitSweep, States, Idle, Batches
  <1>28. ASSUME LoadIssued PROVE TypeOK'
    BY <1>28 DEF LoadIssued, Load, Found, Idle, Batches
  <1>29. ASSUME CompleteIssued PROVE TypeOK'
    BY <1>29 DEF CompleteIssued, CommitSweep, States, Idle, Batches
  <1>30. ASSUME SweepFails PROVE TypeOK'
    BY <1>30 DEF SweepFails, Idle, Batches
  <1>31. ASSUME NEW w \in Workflows, NoticeLapses(w) PROVE TypeOK'
    BY <1>31 DEF NoticeLapses, Notices
  <1>32. ASSUME NEW w \in Workflows, WindowCloses(w) PROVE TypeOK'
    BY <1>32 DEF WindowCloses
  <1>33. ASSUME NEW w \in Workflows, Ages(w) PROVE TypeOK'
    BY <1>33 DEF Ages
  <1>34. ASSUME NEW h \in Hours, HourPasses(h) PROVE TypeOK'
    BY <1>34 DEF HourPasses
  <1>35. ASSUME UNCHANGED vars
        PROVE  TypeOK'
    <2>1. UNCHANGED vars
      BY <1>35 DEF vars
    <2>2. QED
      BY <2>1 DEF vars
  <1> HIDE <1>0 DEF TypeOK
  <1>36. ASSUME NEW w \in Workflows, Drafting(w) PROVE TypeOK'
    BY <1>36, <1>1, <1>2, <1>3, <1>4, <1>5, <1>6, <1>7, <1>8, <1>9
    DEF Drafting
  <1>37. ASSUME NEW w \in Workflows, Inspecting(w) PROVE TypeOK'
    BY <1>37, <1>10, <1>11, <1>12, <1>13, <1>14 DEF Inspecting
  <1>38. ASSUME NEW w \in Workflows, Reviewing(w) PROVE TypeOK'
    BY <1>38, <1>15, <1>16, <1>17 DEF Reviewing
  <1>39. ASSUME NEW w \in Workflows, Settling(w) PROVE TypeOK'
    BY <1>39, <1>18, <1>19, <1>20, <1>21, <1>22, <1>23, <1>24, <1>25
    DEF Settling
  <1>40. ASSUME Reconciler PROVE TypeOK'
    BY <1>40, <1>26, <1>27, <1>28, <1>29, <1>30 DEF Reconciler
  <1>41. ASSUME Time PROVE TypeOK'
    BY <1>41, <1>31, <1>32, <1>33, <1>34 DEF Time
  <1>42. QED
    BY <1>35, <1>36, <1>37, <1>38, <1>39, <1>40, <1>41 DEF Next

\* Of all steps only the sweep's commit expires an exit.
LEMMA ExpiredStep ==
  ASSUME IndInv, [Next]_vars, NEW v \in Workflows,
         state'[v] = "EXPIRED", state[v] # "EXPIRED"
  PROVE  state[v] = "DRAFT" /\ v \in stale
  <1>1. /\ state \in [Workflows -> States \cup {"none"}] /\ sweep \in Batches
        /\ SweepOK
    BY DEF IndInv, TypeOK
  <1>2. ASSUME NEW w \in Workflows, Drafting(w) PROVE FALSE
    BY <1>1, <1>2, Entering
    DEF Drafting, Initiate, UpdateDraft, Upload, Remove, Submit, Withdraw,
        OwnerReject, Cancel, Return, OwnerApprove, row
  <1>3. ASSUME NEW w \in Workflows, Inspecting(w) PROVE FALSE
    BY <1>1, <1>3, Entering
    DEF Inspecting, ProposeSlots, SelectSlot, Reschedule, SubmitReport,
        RequestReinspection
  <1>4. ASSUME NEW w \in Workflows, Reviewing(w) PROVE FALSE
    BY <1>4
    DEF Reviewing, AdjustDamageItem, RaiseDispute, ResolveDispute, Replace,
        row
  <1>5. ASSUME NEW w \in Workflows, Settling(w) PROVE FALSE
    <2>1. ASSUME NEW m \in Manual, Finalise(w, m) PROVE FALSE
      BY <1>1, <2>1, Entering DEF Finalise
    <2>2. ASSUME ReopenReview(w) \/ PayDeposit(w) \/ FailSettlement(w)
                   \/ Complete(w)
          PROVE  FALSE
      BY <1>1, <2>2, Entering
      DEF ReopenReview, PayDeposit, FailSettlement, Complete, Return
    <2>3. ASSUME PayNothing(w) \/ ConfirmSettlement(w) \/ Revoke(w)
          PROVE  FALSE
      BY <1>1, <2>3 DEF PayNothing, ConfirmSettlement, Certify, Revoke, row
    <2>4. QED
      BY <1>5, <2>1, <2>2, <2>3 DEF Settling
  <1>6. ASSUME Reconciler PROVE state[v] = "DRAFT" /\ v \in stale
    BY <1>1, <1>6, Sweeping
    DEF Reconciler, LoadDrafts, LoadIssued, Load, ExpireDrafts,
        CompleteIssued, CommitSweep, SweepFails, row
  <1>7. ASSUME Time PROVE FALSE
    BY <1>7 DEF Time, NoticeLapses, WindowCloses, Ages, HourPasses, row
  <1>8. QED
    BY <1>2, <1>3, <1>4, <1>5, <1>6, <1>7 DEF Next, vars, row

\* IndInv holds in every reachable state.
THEOREM Invariance == Spec => []IndInv
  <1>1. IndInv /\ [Next]_vars => IndInv'
    BY TypeStep, RowsStep, OneStep, TablesStep, FreshStep, ReportStep,
       AppointmentStep, ChargedStep, DisputeStep, SweepStep
    DEF IndInv
  <1>2. QED
    BY InitInd, <1>1, PTL DEF Spec

-----------------------------------------------------------------------------
\* At most one exit of a contract, and of a property, is under way, however
\* many were begun, withdrawn and begun again.
THEOREM OneIsActive == Spec => []OneActiveExit
  <1>1. IndInv => OneActiveExit
    BY DEF IndInv
  <1>2. QED
    BY Invariance, <1>1, PTL

\* In each state of the workflow the settlement and the certificate are those
\* of that state, and all rows are typed.
THEOREM TablesFollow == Spec => []TablesAgree
  <1>1. IndInv => TablesAgree
    BY DEF IndInv, TablesOK, TablesAgree
  <1>2. QED
    BY Invariance, <1>1, PTL

\* A review, a settlement and a certificate rest on a report of the current
\* round; an exit that waits for an inspection has none on file.
THEOREM ReportIsCurrent == Spec => []ReportIsOfThisRound
  <1>1. IndInv => ReportIsOfThisRound
    BY DEF IndInv
  <1>2. QED
    BY Invariance, <1>1, PTL

\* An exit is scheduled exactly with a slot the agency offers.
THEOREM AppointmentHolds == Spec => []AppointmentIffScheduled
  <1>1. IndInv => AppointmentIffScheduled
    BY DEF IndInv
  <1>2. QED
    BY Invariance, <1>1, PTL

\* A final settlement charges the items of the current round at their present
\* amounts, splits the deposit exactly, and is what the certificate states.
THEOREM ChargesHold == Spec => []ChargedAsReviewed
  <1>1. IndInv => ChargedAsReviewed
    BY DEF IndInv
  <1>2. QED
    BY Invariance, <1>1, PTL

\* No dispute of any round is open once the settlement is final.
THEOREM DisputesSettled == Spec => []NoDisputeIsPassedOver
  <1>1. IndInv => NoDisputeIsPassedOver
    BY DEF IndInv
  <1>2. QED
    BY Invariance, <1>1, PTL

\* The sweep, which reads without a lock and commits later, closes only
\* drafts nobody wrote for the whole grace period.
THEOREM ExpiryIsOfIdle == Spec => ExpiredWasIdle
  <1>1. IndInv /\ [Next]_vars =>
          \A w \in Workflows :
            state'[w] = "EXPIRED" /\ state[w] # "EXPIRED" =>
              state[w] = "DRAFT" /\ w \in stale
    BY ExpiredStep
  <1>2. QED
    BY Invariance, <1>1, PTL DEF Spec, ExpiredWasIdle
=============================================================================
