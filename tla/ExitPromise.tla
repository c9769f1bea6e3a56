---------------------------- MODULE ExitPromise ----------------------------
(***************************************************************************)
(* What the exit workflow promises the parties of a contract, whatever its *)
(* tables, transactions and retries look like.  It is keyed by contract,   *)
(* not by workflow, because a contract is promised at most one exit:       *)
(*   - a property is locked for one contract from initiation to COMPLETE;  *)
(*   - the deposit is paid out only after the owner confirmed the damage;  *)
(*   - the NOC exists only after the money moved;                          *)
(*   - COMPLETE and the release of the lock are one step.                  *)
(* Implementations refine it: see Promise in B3Exit and B1Exit.  They      *)
(* differ in when they write REFUND_PROCESSED, before the gateway is asked *)
(* or together with COMPLETE, so money may move in either state.           *)
(***************************************************************************)
EXTENDS KitStates

CONSTANTS Contracts, Properties, PropertyOf, Nobody

VARIABLES
  status,   \* [Contracts -> WorkflowStates \cup {"none"}]
  holder,   \* [Properties -> Contracts \cup {Nobody}]: who holds the exit lock
  paid,     \* [Contracts -> BOOLEAN]: the gateway moved the money
  noc       \* [Contracts -> BOOLEAN]: the certificate exists

vars == <<status, holder, paid, noc>>

Init ==
  /\ status = [c \in Contracts |-> "none"]
  /\ holder = [p \in Properties |-> Nobody]
  /\ paid = [c \in Contracts |-> FALSE]
  /\ noc = [c \in Contracts |-> FALSE]

Initiate(c) ==
  /\ status[c] = "none"
  /\ holder[PropertyOf[c]] = Nobody
  /\ status' = [status EXCEPT ![c] = "DOCS_SUBMITTED"]
  /\ holder' = [holder EXCEPT ![PropertyOf[c]] = c]
  /\ UNCHANGED <<paid, noc>>

\* One or several workflows (a sweep) each take one row of the table that
\* moves neither money nor the lock.
Advance(batch) ==
  /\ status' \in [Contracts -> WorkflowStates \cup {"none"}]
  /\ \A c \in Contracts :
       IF c \in batch
       THEN /\ status'[c] \notin {"NOC_ISSUED", "COMPLETE"}
            /\ \E a \in Actors : Row(status[c], status'[c], a) \in Transitions
       ELSE status'[c] = status[c]
  /\ UNCHANGED <<holder, paid, noc>>

\* The owner has confirmed the damage and the exit is not over.
Confirmed(c) == status[c] \in {"DAMAGE_CONFIRMED", "REFUND_PROCESSED"}

Pay(c) ==
  /\ Confirmed(c)
  /\ paid' = [paid EXCEPT ![c] = TRUE]
  /\ UNCHANGED <<status, holder, noc>>

IssueNoc(c) ==
  /\ Confirmed(c)
  /\ paid[c]
  /\ noc' = [noc EXCEPT ![c] = TRUE]
  /\ UNCHANGED <<status, holder, paid>>

Complete(c) ==
  /\ Confirmed(c)
  /\ noc[c]
  /\ holder[PropertyOf[c]] = c
  /\ status' = [status EXCEPT ![c] = "COMPLETE"]
  /\ holder' = [holder EXCEPT ![PropertyOf[c]] = Nobody]
  /\ UNCHANGED <<paid, noc>>

Next ==
  \/ \E c \in Contracts : Initiate(c) \/ Pay(c) \/ IssueNoc(c) \/ Complete(c)
  \/ \E batch \in SUBSET Contracts : Advance(batch)

Spec == Init /\ [][Next]_vars
=============================================================================
