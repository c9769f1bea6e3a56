------------------------------ MODULE MCB3Exit ------------------------------
(***************************************************************************)
(* Small instances of B3Exit.  Contracts share one property, so that one   *)
(* tenancy succeeds another on it; each damage amount is on one side of    *)
(* the deposit.                                                            *)
(***************************************************************************)
EXTENDS B3Exit, TLC

CONSTANTS p1

MCPropertyOf == [c \in Contracts |-> p1]
MCDeposit == [c \in Contracts |-> 2]
MCDamages == {1, 3}
Symmetry == Permutations(Requests) \cup Permutations(WorkflowIds)
              \cup Permutations(Contracts)
=============================================================================
