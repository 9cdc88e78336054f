----------------------------- MODULE MCBudgets -----------------------------
(* Small instances of Budgets: an administrator in each of two tenants.     *)
EXTENDS Budgets, TLC

CONSTANTS t1, t2, admin, stranger, public, p1, p2

MCUserTenant == admin :> t1 @@ stranger :> t2
MCDefaultPlan == public :> p1
MCSymmetry == Permutations(UnitIds) \union Permutations(BudgetIds)
                \union Permutations(ExpIds) \union Permutations(Requests)
=============================================================================
