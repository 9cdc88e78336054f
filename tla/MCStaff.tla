------------------------------ MODULE MCStaff ------------------------------
(* Small instances of Staff.                                                *)
EXTENDS Staff, TLC

MCSymmetry == Permutations(Requests) \union Permutations(Emails)
                \union Permutations(TenantIds)
=============================================================================
