---------------------------- MODULE UsageLedger ----------------------------
(***************************************************************************)
(* What the usage accounting of one account promises: counters that change *)
(* only by charges, which never leave a counter they raise above its       *)
(* limit, and by refunds, which only lower counters.  A charge or a refund *)
(* is one step and concerns one month.                                     *)
(***************************************************************************)
EXTENDS Integers

CONSTANTS Months, Monthly, Limits   \* Limits has an entry for "storage" too

VARIABLES used, storage

LedgerInit ==
    /\ used = [m \in Months |-> [x \in Monthly |-> 0]]
    /\ storage = 0

Raises(old, new, limit) == old <= new /\ (old < new => new <= limit)
Lowers(old, new)        == 0 <= new /\ new <= old

OnlyMonth(m) == \A n \in Months \ {m} : used'[n] = used[n]

ChargeAccount(m) ==
    /\ OnlyMonth(m)
    /\ \A x \in Monthly : Raises(used[m][x], used'[m][x], Limits[x])
    /\ Raises(storage, storage', Limits["storage"])

RefundAccount(m) ==
    /\ OnlyMonth(m)
    /\ \A x \in Monthly : Lowers(used[m][x], used'[m][x])
    /\ Lowers(storage, storage')

LedgerNext == \E m \in Months : ChargeAccount(m) \/ RefundAccount(m)

LedgerSpec == LedgerInit /\ [][LedgerNext]_<<used, storage>>

=============================================================================
