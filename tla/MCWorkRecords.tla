--------------------------- MODULE MCWorkRecords ---------------------------
(* Small instances of WorkRecords: tenant t1 with a social worker and an     *)
(* administrator, tenant t2 with a social worker, a senior in each.          *)
EXTENDS WorkRecords, TLC

CONSTANTS t1, t2, worker, admin, stranger, s1, s2

MCUserTenant == worker :> t1 @@ admin :> t1 @@ stranger :> t2
MCUsers == {worker, admin, stranger}
MCSeniorTenant == s1 :> t1 @@ s2 :> t2
MCSymmetry == Permutations(RecordIds) \union Permutations(Requests)
=============================================================================
