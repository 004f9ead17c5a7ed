------------------------------ MODULE MCSpend -------------------------------
(* Instances of Spend.                                                      *)
EXTENDS Spend

CONSTANTS ok, blocked

Rules(payment, daily, fee) ==
    [max_payment |-> payment, daily_limit |-> daily, max_fee |-> fee, blocked |-> {blocked}]

\* Every combination of a per-payment cap, a daily limit and a fee cap.
AllPolicies == {Rules(m, d, f) : m \in {2, NoLimit}, d \in {3, NoLimit}, f \in {1, NoLimit}}

\* A daily limit and a fee cap.
DailyOnly == {Rules(NoLimit, 3, 1)}
=============================================================================
