------------------------------ MODULE MCB1Exit ------------------------------
(***************************************************************************)
(* Small instances of B1Exit.  The contracts share one property.           *)
(***************************************************************************)
EXTENDS B1Exit, TLC

CONSTANTS p1, c1

MCPropertyOf == [c \in Contracts |-> p1]
MCFirstDeposit == [c \in Contracts |-> IF c = c1 THEN 2 ELSE 4]
=============================================================================
