---------------------------- MODULE MCFulfilment ----------------------------
(* Instances of Fulfilment for TLC: a week is one day long, a month two. *)
EXTENDS Fulfilment, TLC

CONSTANTS f1, f2, f3

MCDays == [p \in Fulfilled |-> IF p = "SUB_WEEKLY_PRO" THEN 1 ELSE 2]
MCQuota == [p \in Fulfilled |-> getTier(p)]
\* Three plans, one reference each.
MCPlans == (f1 :> "SUB_WEEKLY_PRO" @@ f2 :> "SUB_MONTHLY_PRO" @@ f3 :> "SUB_ULTRA_PRO")
\* The same plan bought twice.
MCRenewals == (f1 :> "SUB_MONTHLY_PRO" @@ f2 :> "SUB_MONTHLY_PRO")
Symmetry == Permutations(Verifiers)
=============================================================================
