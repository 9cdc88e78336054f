---------------------------- MODULE MCDashboard ----------------------------
(* Small instances of Dashboard: an administrator in each of two tenants,   *)
(* and business units of one type.                                          *)
EXTENDS Dashboard, TLC

CONSTANTS t1, t2, admin, stranger, plan

MCUserTenant == admin :> t1 @@ stranger :> t2
MCDefaultPlan == [k \in Kinds |-> plan]
MCUnitYear == [n \in UnitIds |-> 2026]
MCSymmetry == Permutations(ExpIds)
=============================================================================
