----------------------------- MODULE MCWorkHours -----------------------------
(* Small instances of WorkHours: TYPE_DEFAULTS and a market unit.           *)
EXTENDS WorkHours

MCPlans ==
  {[kind |-> "public_benefit", default |-> 30, max |-> 42],
   [kind |-> "social_service", default |-> 60, max |-> 60],
   [kind |-> "market", default |-> 40, max |-> 50]}
=============================================================================
