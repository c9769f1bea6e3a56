------------------------------ MODULE A2Payout ------------------------------
(***************************************************************************)
(* Run A2: paying a finalised settlement.  The owner's command commits and *)
(* a hook after the commit, or the reconciler later, hands the payout to   *)
(* the gateway in a transaction of its own, whose row locks are held over  *)
(* the call; the outcome comes back in the answer or in a webhook.         *)
(*                                                                         *)
(* The settlement's status follows the workflow's state (TablesAgree of    *)
(* A2Exit), so one variable stands for both.  Refunds of zero are paid     *)
(* without a gateway and are A2Exit's.                                     *)
(***************************************************************************)
EXTENDS A2States, FiniteSets

CONSTANTS
  Workflows,    \* exits with a finalised settlement
  Keys,         \* values of the Idempotency-Key header
  Refunds,      \* amounts a settlement may come to
  Mishaps,      \* what may go wrong in a call of the gateway
  MaxAttempts,  \* bound on payment_attempts
  Nobody        \* NULL

\* "error": not reached.  "lost": done, but the answer is not readable.
\* "rejected": a 4xx for a payout it has not made.  "refused": a 4xx (429,
\* 409) or an unknown status word for one it has made or is making.
ASSUME A2PayoutAssumption ==
  /\ Refunds \subseteq Nat \ {0}
  /\ Mishaps \subseteq {"error", "lost", "rejected", "refused"}
  /\ MaxAttempts \in Nat
  /\ Nobody \notin Keys
  /\ Nobody \notin Workflows

VARIABLES
  state,      \* exit_workflow.state
  refund,     \* settlement.net_refund_amount
  key,        \* settlement.payment_idempotency_key
  referenced, \* exits whose settlement has the gateway's payment_reference
  attempts,   \* settlement.payment_attempts
  records,    \* keys in exit_workflow_idempotency
  queued,     \* dispatches due: after-commit hooks and the reconciler's batch
  phase,      \* where the dispatch of an exit is; it holds the row locks
  hook,       \* the webhook that holds the settlement's row lock
  payout,     \* at the gateway, by key: its present status
  original,   \* at the gateway, by key: its first answer
  moved,      \* at the gateway, by key: the amount
  payee,      \* at the gateway, by key: metadata.workflow_id
  events,     \* webhooks the gateway will (re)deliver
  dropped,    \* keys of webhooks answered 202 "unknown_payout_reference"
  denied      \* history: keys of payouts, under way or made, whose refusal
              \* failed the settlement

rows == <<state, refund, key, referenced, attempts>>
gateway == <<payout, original, moved, payee>>
history == <<dropped, denied>>
vars == <<rows, records, queued, phase, hook, gateway, events, history>>

Outcomes == {"SUCCEEDED", "FAILED"}

Init ==
  /\ state = [w \in Workflows |-> "SETTLEMENT_PENDING"]
  /\ refund \in [Workflows -> Refunds]
  /\ key = [w \in Workflows |-> Nobody]
  /\ referenced = {}
  /\ attempts = [w \in Workflows |-> 0]
  /\ records = {} /\ queued = {} /\ events = {} /\ dropped = {}
  /\ denied = {}
  /\ phase = [w \in Workflows |-> "idle"]
  /\ hook = [w \in Workflows |-> Nobody]
  /\ payout = [k \in Keys |-> "none"]
  /\ original = [k \in Keys |-> "none"]
  /\ moved = [k \in Keys |-> 0]
  /\ payee = [k \in Keys |-> Nobody]

Enter(w, action, to) ==
  /\ \E r \in Table : r.from = state[w] /\ r.action = action /\ r.to = to
  /\ state' = [state EXCEPT ![w] = to]

\* No other transaction holds the rows.
WorkflowFree(w) == phase[w] = "idle"
SettlementFree(w) == hook[w] = Nobody

-----------------------------------------------------------------------------
\* The owner's commands.

\* Mutant of KeyFor: every click brings its own key.
KeyForClick(w, k) == k

\* Bound to the settlement, not to the click.
KeyFor(w, k) == IF key[w] = Nobody THEN k ELSE key[w]

\* payment_idempotency_key is unique over the settlements.
KeyIsUnique(w, k) == \A v \in Workflows \ {w} : key[v] # k

\* IdempotencyGuard.begin: a key seen in the last 24 hours gets the stored
\* answer, or is refused, whichever exit it was used for.
Unseen(k) == k \notin records

PayDeposit(w, k) ==
  /\ WorkflowFree(w) /\ SettlementFree(w)
  /\ Enter(w, "pay_deposit", "SETTLEMENT_PROCESSING")
  /\ Unseen(k)
  /\ attempts[w] < MaxAttempts
  /\ KeyIsUnique(w, KeyFor(w, k))
  /\ records' = records \cup {k}
  /\ key' = [key EXCEPT ![w] = KeyFor(w, k)]
  /\ attempts' = [attempts EXCEPT ![w] = @ + 1]
  /\ queued' = queued \cup {w}
  /\ UNCHANGED <<refund, referenced, phase, hook, gateway, events, history>>

\* The retention of 24 hours is over (purge_idempotency_keys).
Purge(k) ==
  /\ k \in records
  /\ records' = records \ {k}
  /\ UNCHANGED <<rows, queued, phase, hook, gateway, events, history>>

\* reopen_review, request_reinspection and cancel leave the figures alone.
Command(w, action, to) ==
  /\ WorkflowFree(w) /\ SettlementFree(w)
  /\ Enter(w, action, to)
  /\ UNCHANGED <<refund, key, referenced, attempts, records, queued, phase,
                 hook, gateway, events, history>>

ReopenReview(w) == Command(w, "reopen_damage_review", "DAMAGE_REVIEW")
RequestReinspection(w) ==
  Command(w, "request_reinspection", "INSPECTION_SLOTS_PROPOSED")
Cancel(w) == Command(w, "cancel", "CANCELLED")

\* finalise after another review may come to another refund; the key stays.
Finalise(w, amount) ==
  /\ WorkflowFree(w) /\ SettlementFree(w)
  /\ Enter(w, "finalise_settlement", "SETTLEMENT_PENDING")
  /\ refund' = [refund EXCEPT ![w] = amount]
  /\ UNCHANGED <<key, referenced, attempts, records, queued, phase, hook,
                 gateway, events, history>>

-----------------------------------------------------------------------------
\* PayoutDispatchService.dispatch, from the hook or from the reconciler.

\* redrive_stuck_payouts: those in PROCESSING for 15 minutes, read unlocked.
Redrive ==
  /\ \E w \in Workflows : state[w] = "SETTLEMENT_PROCESSING" /\ w \notin queued
  /\ queued' = queued
       \cup {w \in Workflows : state[w] = "SETTLEMENT_PROCESSING"}
  /\ UNCHANGED <<rows, records, phase, hook, gateway, events, history>>

\* get_for_update
LockWorkflow(w) ==
  /\ w \in queued
  /\ WorkflowFree(w)
  /\ queued' = queued \ {w}
  /\ phase' = [phase EXCEPT ![w] = "locked"]
  /\ UNCHANGED <<rows, records, hook, gateway, events, history>>

\* Mutant of ToDispatch: a dispatch does not look at the status again.
ToDispatchAlways(w) == TRUE

\* A settlement that is no longer PROCESSING is skipped.
ToDispatch(w) == state[w] = "SETTLEMENT_PROCESSING"

\* get_for_workflow_for_update
LockSettlement(w) ==
  /\ phase[w] = "locked"
  /\ SettlementFree(w)
  /\ phase' = [phase EXCEPT ![w] = IF ToDispatch(w) THEN "calling" ELSE "idle"]
  /\ UNCHANGED <<rows, records, queued, hook, gateway, events, history>>

\* A retryable PaymentGatewayError: the settlement stays in PROCESSING.
GiveUp(w) ==
  /\ phase[w] = "calling"
  /\ "error" \in Mishaps
  /\ phase' = [phase EXCEPT ![w] = "idle"]
  /\ UNCHANGED <<rows, records, queued, hook, gateway, events, history>>

\* A 4xx: the gateway turns the call down; nothing changes there.
Reject(w) ==
  /\ phase[w] = "calling"
  /\ \/ "rejected" \in Mishaps /\ payout[key[w]] = "none"
     \/ "refused" \in Mishaps /\ payout[key[w]] # "none"
  /\ phase' = [phase EXCEPT ![w] = "rejected"]
  /\ UNCHANGED <<rows, records, queued, hook, gateway, events, history>>

\* Mutant of Heard: an answer that cannot be read is taken for success.
HeardOptimist(w, answer) ==
  \/ phase' = [phase EXCEPT ![w] = answer]
  \/ "lost" \in Mishaps /\ phase' = [phase EXCEPT ![w] = "SUCCEEDED"]

\* The answer, unless it is lost or no JSON, which is retryable, or has an
\* unknown status word, which is not.
Heard(w, answer) ==
  \/ phase' = [phase EXCEPT ![w] = answer]
  \/ "lost" \in Mishaps /\ phase' = [phase EXCEPT ![w] = "idle"]
  \/ "refused" \in Mishaps /\ phase' = [phase EXCEPT ![w] = "rejected"]

\* A key the gateway sees for the first time; the outcome may be immediate.
Accept(w, answer) ==
  LET k == key[w] IN
  /\ phase[w] = "calling"
  /\ payout[k] = "none"
  /\ payout' = [payout EXCEPT ![k] = answer]
  /\ original' = [original EXCEPT ![k] = answer]
  /\ moved' = [moved EXCEPT ![k] = refund[w]]
  /\ payee' = [payee EXCEPT ![k] = w]
  /\ events' = events \cup ({<<k, answer>>} \cap (Keys \X Outcomes))
  /\ Heard(w, answer)
  /\ UNCHANGED <<rows, records, queued, hook, history>>

\* The port: "return the original result for a replay".
Replay(w) ==
  /\ phase[w] = "calling"
  /\ payout[key[w]] # "none"
  /\ Heard(w, original[key[w]])
  /\ UNCHANGED <<rows, records, queued, hook, gateway, events, history>>

\* fail_settlement
Fail(w) ==
  /\ Enter(w, "settlement_failed", "SETTLEMENT_PENDING")
  /\ UNCHANGED <<refund, key, attempts>>

\* confirm_settlement and NocService.issue, in one transaction.
Confirm(w) ==
  /\ state[w] = "SETTLEMENT_PROCESSING"
  /\ state' = [state EXCEPT ![w] = "NOC_ISSUED"]
  /\ UNCHANGED <<refund, key, attempts>>

\* The reference of whatever the gateway answered; a rejection has none.
Referred(w) == IF phase[w] = "rejected" THEN referenced
               ELSE referenced \cup {w}

\* What fails the settlement is a refusal of money under way or moved.
RefusedPaid(w) ==
  phase[w] = "rejected" /\ payout[key[w]] \in {"PENDING", "SUCCEEDED"}

CommitDispatch(w) ==
  /\ phase[w] \in Outcomes \cup {"PENDING", "rejected"}
  /\ referenced' = Referred(w)
  /\ \/ phase[w] = "SUCCEEDED" /\ Confirm(w)
     \/ phase[w] \in {"FAILED", "rejected"} /\ Fail(w)
     \/ phase[w] = "PENDING" /\ UNCHANGED <<state, refund, key, attempts>>
  /\ phase' = [phase EXCEPT ![w] = "idle"]
  /\ denied' = IF RefusedPaid(w) THEN denied \cup {key[w]} ELSE denied
  /\ UNCHANGED <<records, queued, hook, gateway, events, dropped>>

\* The process dies: its transactions are rolled back, its hooks are gone.
Crash ==
  /\ queued # {} \/ \E w \in Workflows : phase[w] # "idle"
  /\ queued' = {}
  /\ phase' = [w \in Workflows |-> "idle"]
  /\ UNCHANGED <<rows, records, hook, gateway, events, history>>

-----------------------------------------------------------------------------
\* The gateway and its webhooks.

\* A payout under way ends.
End(k, outcome) ==
  /\ payout[k] = "PENDING"
  /\ payout' = [payout EXCEPT ![k] = outcome]
  /\ events' = events \cup {<<k, outcome>>}
  /\ UNCHANGED <<rows, records, queued, phase, hook, original, moved, payee,
                 history>>

\* Mutant of Find: the event is acknowledged before it is handled.
FindAcknowledges(e, w) ==
  /\ e \in events
  /\ w \in referenced /\ key[w] = e[1]
  /\ SettlementFree(w)
  /\ phase[w] \in {"idle", "locked"}
  /\ hook' = [hook EXCEPT ![w] = e]
  /\ events' = events \ {e}
  /\ UNCHANGED <<rows, records, queued, phase, gateway, history>>

\* find_by_payment_reference takes the settlement's lock, and waits for it.
Find(e, w) ==
  /\ e \in events
  /\ w \in referenced /\ key[w] = e[1]
  /\ SettlementFree(w)
  /\ phase[w] \in {"idle", "locked"}
  /\ hook' = [hook EXCEPT ![w] = e]
  /\ UNCHANGED <<rows, records, queued, phase, gateway, events, history>>

\* An unknown reference is acknowledged, and never delivered again.
Ignore(e) ==
  /\ e \in events
  /\ \A w \in Workflows : ~ (w \in referenced /\ key[w] = e[1])
  /\ events' = events \ {e}
  /\ dropped' = dropped \cup {e[1]}
  /\ UNCHANGED <<rows, records, queued, phase, hook, gateway, denied>>

\* settlement_succeeded has no row from this state: 409, and a redelivery.
Refuses(w) ==
  /\ hook[w][2] = "SUCCEEDED"
  /\ state[w] \notin {"SETTLEMENT_PROCESSING", "NOC_ISSUED"}

\* The handler's second lock, and the outcome.  An answer of 2xx may be lost
\* too: the gateway then delivers again.
Handle(w) ==
  /\ hook[w] # Nobody
  /\ WorkflowFree(w)
  /\ hook' = [hook EXCEPT ![w] = Nobody]
  /\ IF state[w] = "SETTLEMENT_PROCESSING"
     THEN IF hook[w][2] = "SUCCEEDED" THEN Confirm(w) ELSE Fail(w)
     ELSE UNCHANGED <<state, refund, key, attempts>>
  /\ events' = events \/ (~ Refuses(w) /\ events' = events \ {hook[w]})
  /\ UNCHANGED <<referenced, records, queued, phase, gateway, history>>

\* Opposite lock orders: PostgreSQL aborts one of the two.
Deadlocked(w) == phase[w] = "locked" /\ hook[w] # Nobody
Victim(w) ==
  /\ Deadlocked(w)
  /\ \/ phase' = [phase EXCEPT ![w] = "idle"] /\ UNCHANGED hook
     \/ hook' = [hook EXCEPT ![w] = Nobody] /\ UNCHANGED phase
  /\ UNCHANGED <<rows, records, queued, gateway, events, history>>

-----------------------------------------------------------------------------
Answer(w) ==
  \/ GiveUp(w) \/ Reject(w) \/ Replay(w)
  \/ \E answer \in Outcomes \cup {"PENDING"} : Accept(w, answer)

Owner(w) ==
  \/ \E k \in Keys : PayDeposit(w, k)
  \/ ReopenReview(w) \/ RequestReinspection(w) \/ Cancel(w)
  \/ \E amount \in Refunds : Finalise(w, amount)

Dispatching(w) ==
  LockWorkflow(w) \/ LockSettlement(w) \/ Answer(w) \/ CommitDispatch(w)

Delivered(e) == \E w \in Workflows : Find(e, w)
InTime(e) == \E w \in Workflows : Find(e, w) /\ WorkflowFree(w)
Ended(k) == \E outcome \in Outcomes : End(k, outcome)

Next ==
  \/ \E w \in Workflows : Owner(w) \/ Dispatching(w) \/ Handle(w) \/ Victim(w)
  \/ \E k \in Keys : Purge(k) \/ Ended(k)
  \/ \E e \in Keys \X Outcomes : Delivered(e) \/ Ignore(e)
  \/ Redrive \/ Crash

Spec == Init /\ [][Next]_vars

\* Workers go on, the gateway ends what it began and delivers until it is
\* acknowledged; a redelivery finds the exit between two dispatches in the end,
\* as these are minutes apart, and a transaction that waits for a lock gets it
\* (the queue is first come, first served).  The owner owes nothing.
FairSpec ==
  /\ Spec
  /\ WF_vars(Redrive)
  /\ \A w \in Workflows :
       SF_vars(Dispatching(w)) /\ SF_vars(Handle(w)) /\ WF_vars(Victim(w))
  /\ \A k \in Keys : WF_vars(Ended(k))
  /\ \A e \in Keys \X Outcomes : SF_vars(InTime(e)) /\ WF_vars(Ignore(e))

-----------------------------------------------------------------------------
Under ==
  {"SETTLEMENT_PENDING", "SETTLEMENT_PROCESSING", "NOC_ISSUED",
   "DAMAGE_REVIEW", "INSPECTION_SLOTS_PROPOSED", "CANCELLED"}
Payouts == {"none", "PENDING"} \cup Outcomes
Phases ==
  {"idle", "locked", "calling", "rejected", "PENDING"} \cup Outcomes

TypeOK ==
  /\ state \in [Workflows -> Under]
  /\ refund \in [Workflows -> Refunds]
  /\ key \in [Workflows -> Keys \cup {Nobody}]
  /\ referenced \subseteq Workflows
  /\ attempts \in [Workflows -> Nat]
  /\ records \subseteq Keys
  /\ queued \subseteq Workflows
  /\ phase \in [Workflows -> Phases]
  /\ hook \in [Workflows -> (Keys \X Outcomes) \cup {Nobody}]
  /\ payout \in [Keys -> Payouts]
  /\ original \in [Keys -> Payouts]
  /\ moved \in [Keys -> Refunds \cup {0}]
  /\ payee \in [Keys -> Workflows \cup {Nobody}]
  /\ events \subseteq Keys \X Outcomes
  /\ dropped \subseteq Keys
  /\ denied \subseteq Keys

\* reconciler.py:29, "so it cannot pay twice": whatever clicks, retries,
\* redrives and crashes do, the gateway makes one payout for an exit.
PaidOnce ==
  \A j, k \in Keys : payee[j] # Nobody /\ payee[j] = payee[k] => j = k

\* While the gateway has money under way for an exit, or has moved it, the
\* exit is locked at the amount being moved: it can be neither reviewed again
\* nor cancelled, and no other amount becomes due.  One answer ends this: the
\* adapter takes every 4xx and every unknown status word for final
\* (payments.py:107-112, 155-158), and fail_settlement on a redrive so
\* answered sends an exit that was paid back to its owner.
PayingIsFrozen ==
  \A k \in Keys \ denied : payout[k] \in {"PENDING", "SUCCEEDED"} =>
    /\ state[payee[k]] \in {"SETTLEMENT_PROCESSING", "NOC_ISSUED"}
    /\ moved[k] = refund[payee[k]]

\* T13 step 10: a certificate is issued only for a refund that was paid, to
\* this exit, whether the answer, a replay or a late webhook said so; and in
\* full, unless a refusal of that very payout had opened the exit again.
CertifiedWasPaid ==
  \A w \in Workflows : state[w] = "NOC_ISSUED" =>
    /\ key[w] # Nobody
    /\ payout[key[w]] = "SUCCEEDED"
    /\ payee[key[w]] = w
    /\ moved[key[w]] = refund[w] \/ key[w] \in denied

\* A payment that was made is certified in the end, unless its webhook came
\* before the dispatch had stored the reference and was answered 202, or the
\* gateway refused to confirm it and the owner was asked to pay again.
PaidIsRecorded ==
  \A w \in Workflows, k \in Keys :
    payee[k] = w /\ payout[k] = "SUCCEEDED"
      ~> state[w] = "NOC_ISSUED" \/ k \in dropped \cup denied

=============================================================================
