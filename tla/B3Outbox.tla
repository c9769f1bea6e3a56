------------------------------ MODULE B3Outbox ------------------------------
(***************************************************************************)
(* The transactional outbox of run B3 (services/outbox.py): the owner      *)
(* notification is enqueued by the initiation transaction and published    *)
(* later by dispatch_event (the background task of the request) or by      *)
(* dispatch_due (the scheduled sweep), any number of which run at once.    *)
(*                                                                         *)
(* A dispatching transaction locks its rows with SKIP LOCKED, publishes    *)
(* them one after the other while it is open, and commits all verdicts     *)
(* together.  It is therefore a Lock step, one Publish step for each event *)
(* and a Commit step; a crash in between forgets the verdicts but not what *)
(* the broker has received.  A timestamp is abstracted to whether          *)
(* next_attempt_at has passed.                                             *)
(***************************************************************************)
EXTENDS Naturals, FiniteSets

CONSTANTS
  Events,        \* one owner notification per initiated workflow
  Dispatchers,   \* transactions that may be open at once
  MaxAttempts,   \* notification_max_attempts (5)
  MaxCrashes     \* bound: dispatchers that die over a behaviour

ASSUME B3OutboxAssumption ==
  MaxAttempts \in Nat \ {0} /\ MaxCrashes \in Nat

VARIABLES
  row,        \* event_outbox.status; "none": not enqueued
  attempts,   \* event_outbox.attempts
  due,        \* PENDING events whose next_attempt_at has passed
  alert,      \* events with an OWNER_NOTIFICATION_DEAD_LETTER admin task
  fresh,      \* events whose background notify_owner has not run yet
  batch,      \* rows each dispatcher has locked
  outcome,    \* what each dispatcher learnt of each of its rows
  delivered,  \* events the broker has received (external)
  calls,      \* publisher.publish calls for each event
  crashes

rows == <<row, attempts, due, alert>>
vars == <<rows, fresh, batch, outcome, delivered, calls, crashes>>

Statuses == {"none", "PENDING", "SENT", "DEAD_LETTER"}
NoOutcome == [e \in Events |-> "none"]

Init ==
  /\ row = [e \in Events |-> "none"]
  /\ attempts = [e \in Events |-> 0]
  /\ due = {}
  /\ alert = {}
  /\ fresh = {}
  /\ batch = [k \in Dispatchers |-> {}]
  /\ outcome = [k \in Dispatchers |-> NoOutcome]
  /\ delivered = {}
  /\ calls = [e \in Events |-> 0]
  /\ crashes = 0

\* Mutant of Held: a plain SELECT, no FOR UPDATE SKIP LOCKED.
HeldUnlocked == {}

\* Rows another open transaction holds; SKIP LOCKED passes them over.
Held == UNION {batch[k] : k \in Dispatchers}

\* enqueue, inside the initiation transaction, which then schedules
\* notify_owner as a background task.
Enqueue(e) ==
  /\ row[e] = "none"
  /\ row' = [row EXCEPT ![e] = "PENDING"]
  /\ due' = due \cup {e}
  /\ fresh' = fresh \cup {e}
  /\ UNCHANGED <<attempts, alert, batch, outcome, delivered, calls, crashes>>

\* dispatch_event: PENDING and not locked; next_attempt_at is not looked at.
LockEvent(k, e) ==
  /\ batch[k] = {}
  /\ e \in fresh
  /\ row[e] = "PENDING"
  /\ e \notin Held
  /\ batch' = [batch EXCEPT ![k] = {e}]
  /\ fresh' = fresh \ {e}
  /\ UNCHANGED <<rows, outcome, delivered, calls, crashes>>

\* dispatch_event finds nothing to do, or the process died before it ran.
DropFresh(e) ==
  /\ e \in fresh
  /\ fresh' = fresh \ {e}
  /\ UNCHANGED <<rows, batch, outcome, delivered, calls, crashes>>

\* Mutant of LockDue: the sweep leaves new events to their background task.
LockDueOnlyRetries(k) ==
  LET found == {e \in due \ fresh : row[e] = "PENDING" /\ e \notin Held} IN
  /\ batch[k] = {}
  /\ found # {}
  /\ batch' = [batch EXCEPT ![k] = found]
  /\ UNCHANGED <<rows, fresh, outcome, delivered, calls, crashes>>

\* dispatch_due: every due row that nobody holds (at most 100).
LockDue(k) ==
  LET found == {e \in due : row[e] = "PENDING" /\ e \notin Held} IN
  /\ batch[k] = {}
  /\ found # {}
  /\ batch' = [batch EXCEPT ![k] = found]
  /\ UNCHANGED <<rows, fresh, outcome, delivered, calls, crashes>>

\* publisher.publish: it returns, or raises without or with the message
\* having reached the broker.
Publish(k, e) ==
  /\ e \in batch[k]
  /\ outcome[k][e] = "none"
  /\ calls' = [calls EXCEPT ![e] = @ + 1]
  /\ \/ /\ outcome' = [outcome EXCEPT ![k][e] = "sent"]
        /\ delivered' = delivered \cup {e}
     \/ /\ outcome' = [outcome EXCEPT ![k][e] = "failed"]
        /\ delivered' \in {delivered, delivered \cup {e}}
  /\ UNCHANGED <<rows, fresh, batch, crashes>>

\* The verdicts of _attempt on the rows of a batch.
Sent(k) == {e \in batch[k] : outcome[k][e] = "sent"}
Failed(k) == batch[k] \ Sent(k)
Exhausted(k) == {e \in Failed(k) : attempts[e] + 1 >= MaxAttempts}

Commit(k) ==
  /\ batch[k] # {}
  /\ \A e \in batch[k] : outcome[k][e] # "none"
  /\ attempts' = [e \in Events |->
                    IF e \in batch[k] THEN attempts[e] + 1 ELSE attempts[e]]
  /\ row' = [e \in Events |->
               IF e \in Sent(k) THEN "SENT"
               ELSE IF e \in Exhausted(k) THEN "DEAD_LETTER" ELSE row[e]]
  /\ alert' = alert \cup Exhausted(k)
  /\ due' = due \ batch[k]
  /\ batch' = [batch EXCEPT ![k] = {}]
  /\ outcome' = [outcome EXCEPT ![k] = NoOutcome]
  /\ UNCHANGED <<fresh, delivered, calls, crashes>>

\* The backoff delay of a failed attempt passes.
BackoffElapses(e) ==
  /\ row[e] = "PENDING"
  /\ e \notin due
  /\ due' = due \cup {e}
  /\ UNCHANGED <<row, attempts, alert, fresh, batch, outcome, delivered, calls,
                 crashes>>

\* The process dies, or the commit fails: the transaction rolls back.
Crash(k) ==
  /\ batch[k] # {}
  /\ crashes < MaxCrashes
  /\ crashes' = crashes + 1
  /\ batch' = [batch EXCEPT ![k] = {}]
  /\ outcome' = [outcome EXCEPT ![k] = NoOutcome]
  /\ UNCHANGED <<rows, fresh, delivered, calls>>

Dispatch(k) == (\E e \in Events : Publish(k, e)) \/ Commit(k)

Next ==
  \/ \E e \in Events : Enqueue(e) \/ DropFresh(e) \/ BackoffElapses(e)
  \/ \E k \in Dispatchers :
       \/ \E e \in Events : LockEvent(k, e)
       \/ LockDue(k) \/ Dispatch(k) \/ Crash(k)

Spec == Init /\ [][Next]_vars

\* The sweep is on a scheduler, an open transaction goes on, delays pass.
FairSpec ==
  /\ Spec
  /\ WF_vars(\E k \in Dispatchers : LockDue(k))
  /\ \A k \in Dispatchers : WF_vars(Dispatch(k))
  /\ \A e \in Events : WF_vars(BackoffElapses(e))

-----------------------------------------------------------------------------
TypeOK ==
  /\ row \in [Events -> Statuses]
  /\ attempts \in [Events -> 0..MaxAttempts]
  /\ due \subseteq Events
  /\ alert \subseteq Events
  /\ fresh \subseteq Events
  /\ batch \in [Dispatchers -> SUBSET Events]
  /\ outcome \in [Dispatchers -> [Events -> {"none", "sent", "failed"}]]
  /\ delivered \subseteq Events
  /\ calls \in [Events -> Nat]
  /\ crashes \in 0..MaxCrashes

\* outbox.py:153 "safe to run in parallel": two open dispatchers never work on
\* the same event, and none works on an event whose fate is already recorded.
DispatchersExclude ==
  \A k \in Dispatchers : \A e \in batch[k] :
    /\ row[e] = "PENDING"
    /\ \A m \in Dispatchers : e \in batch[m] => m = k

\* A row that says SENT tells the truth, however many dispatchers died.
SentWasDelivered == \A e \in Events : row[e] = "SENT" => e \in delivered

\* EXIT-04: an event is given up exactly when an administrator is told, and
\* never before all its attempts were made.
GivenUpMeansAlert ==
  /\ alert = {e \in Events : row[e] = "DEAD_LETTER"}
  /\ \A e \in alert : attempts[e] = MaxAttempts /\ calls[e] >= MaxAttempts

\* EXIT-04: an event costs the broker at most the allowed attempts and one more
\* for every dispatcher that died before it could write its verdict down.
AttemptsAreBounded ==
  \A e \in Events : calls[e] <= MaxAttempts + crashes

\* EXIT-04: whatever the interleaving and the deaths of dispatchers, the rows,
\* the broker, the alerts and the attempts tell the same story.
OutboxAgrees ==
  /\ TypeOK /\ DispatchersExclude /\ SentWasDelivered
  /\ GivenUpMeansAlert /\ AttemptsAreBounded

\* The inductive invariant of B3Outbox_proofs.
InFlight(e) == \E k \in Dispatchers : outcome[k][e] # "none"

VerdictsOK ==
  \A k \in Dispatchers, e \in Events :
    /\ outcome[k][e] # "none" => e \in batch[k]
    /\ outcome[k][e] = "sent" => e \in delivered

AttemptsOK ==
  \A e \in Events :
    /\ row[e] \in {"none", "PENDING"} => attempts[e] < MaxAttempts
    /\ row[e] = "DEAD_LETTER" => attempts[e] = MaxAttempts
    /\ attempts[e] <= calls[e]
    /\ calls[e] <= attempts[e] + crashes + 1
    /\ InFlight(e) => attempts[e] + 1 <= calls[e]
    /\ ~ InFlight(e) => calls[e] <= attempts[e] + crashes

IndInv ==
  /\ TypeOK /\ DispatchersExclude /\ SentWasDelivered
  /\ VerdictsOK /\ AttemptsOK
  /\ alert = {e \in Events : row[e] = "DEAD_LETTER"}

\* EXIT-04: no notification is left behind; each is sent or handed to an
\* administrator although dispatchers die and background tasks are lost.
EveryEventSettles ==
  \A e \in Events : row[e] = "PENDING" ~> row[e] \in {"SENT", "DEAD_LETTER"}

=============================================================================
