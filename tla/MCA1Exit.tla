------------------------------ MODULE MCA1Exit ------------------------------
(***************************************************************************)
(* Small instances of A1Exit: two leases of one property.                  *)
(***************************************************************************)
EXTENDS A1Exit, TLC

CONSTANTS c1, c2, p1, t1, t2

MCPropertyOf == c1 :> p1 @@ c2 :> p1
MCTenantOf == c1 :> t1 @@ c2 :> t2
MCDepositOf == c1 :> 2 @@ c2 :> 2
MCKinds == {"EMIRATES_ID"}
MCSymmetry == Permutations(Workflows) \cup Permutations(Keys)
=============================================================================
