------------------------------ MODULE MCA2Exit ------------------------------
(***************************************************************************)
(* Small instances of A2Exit.                                              *)
(***************************************************************************)
EXTENDS A2Exit, TLC

CONSTANTS p1, t1

MCPropertyOf == [c \in Contracts |-> p1]
MCTenantOf == [c \in Contracts |-> t1]
MCOwnProperty == [c \in Contracts |-> c]
MCOneDocument == {"TENANCY_CONTRACT"}
MCDeposits == {4}
MCHours == {1}
MCReports == {{<<1, 3, TRUE>>}, {<<1, 3, FALSE>>}}
MCNoDamage == {{}}
MCManual == {1}
MCAmple == {"ample"}
=============================================================================
