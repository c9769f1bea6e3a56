------------------------------ MODULE MCB2Exit ------------------------------
(***************************************************************************)
(* Small instances of B2Exit: exits on one property, of different contracts*)
(* and one after the other.                                                *)
(***************************************************************************)
EXTENDS B2Exit, TLC

CONSTANTS w1, w2, c1, c2, p1

MCContractOf == [w \in WorkflowIds |-> IF w = w1 THEN c1 ELSE c2]
MCPropertyOf == [c \in Contracts |-> p1]
MCDeposits == {2}
MCDamages == {1, 3}
=============================================================================
