------------------------------ MODULE MCA3Exit ------------------------------
(***************************************************************************)
(* Small instances of A3Exit.                                              *)
(***************************************************************************)
EXTENDS A3Exit, TLC

CONSTANTS c1, p1, t1

MCPropertyOf == c1 :> p1
MCTenantOf == c1 :> t1
MCDepositOf == [c \in Contracts |-> 2]
MCDocs == {"TENANCY_CONTRACT"}
\* One report with damage of the owner's beside the tenant's, one above the
\* deposit.
MCReports == {{<<1, 1, TRUE>>, <<2, 2, FALSE>>}, {<<1, 3, TRUE>>}}
MCDays == {1}
MCSymmetry == Permutations(Workflows) \cup Permutations(Keys)
=============================================================================
