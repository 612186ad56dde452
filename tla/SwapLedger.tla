----------------------------- MODULE SwapLedger -----------------------------
(***************************************************************************)
(* What the JIT-DEX ledger promises its callers: a swap takes the whole    *)
(* amount from its source at once or nothing at all, and what it took is   *)
(* owed to its destination until it is credited there, once.  Balances are *)
(* 64-bit words: a credit that does not fit wraps around.                  *)
(***************************************************************************)
EXTENDS Integers

CONSTANTS
    Accounts,   \* account ids with a slot
    Threads,    \* threads that may swap at the same time
    Amounts,    \* amounts asked for, in USDT
    Rates,      \* rates asked for
    Word,       \* 2^64
    Scale,      \* 1_000_000: fx rates are EURC per Scale USDT
    InitUsdt, InitEurc

VARIABLES
    usdt,     \* usdt[a]
    eurc,     \* eurc[a]
    owed      \* owed[t]: what thread t has taken and not yet credited

vars == <<usdt, eurc, owed>>

Nothing == [to |-> {}, eurc |-> 0]

(* amount.saturating_mul(rate) / 1_000_000                                 *)
Product(amount, rate) == IF amount * rate >= Word THEN Word - 1 ELSE amount * rate
EurcFor(amount, rate) == Product(amount, rate) \div Scale

Init ==
    /\ usdt = [a \in Accounts |-> InitUsdt]
    /\ eurc = [a \in Accounts |-> InitEurc]
    /\ owed = [t \in Threads |-> Nothing]

Debit(t, src, dst, amount, rate) ==
    /\ owed[t] = Nothing
    /\ usdt[src] >= amount
    /\ usdt' = [usdt EXCEPT ![src] = @ - amount]
    /\ owed' = [owed EXCEPT ![t] = [to |-> {dst}, eurc |-> EurcFor(amount, rate)]]
    /\ UNCHANGED eurc

Credit(t, dst) ==
    /\ owed[t].to = {dst}
    /\ eurc' = [eurc EXCEPT ![dst] = (@ + owed[t].eurc) % Word]
    /\ owed' = [owed EXCEPT ![t] = Nothing]
    /\ UNCHANGED usdt

Next ==
    \E t \in Threads, dst \in Accounts :
        \/ Credit(t, dst)
        \/ \E src \in Accounts, amount \in Amounts, rate \in Rates :
               Debit(t, src, dst, amount, rate)

Spec == Init /\ [][Next]_vars

=============================================================================
