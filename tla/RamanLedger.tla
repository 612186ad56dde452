----------------------------- MODULE RamanLedger -----------------------------
(***************************************************************************)
(* RamanLedger::execute_jit_dex_swap (src/blockchain/ledger.rs): a swap    *)
(* debits the USDT of one account and credits the EURC of another, each    *)
(* with a loop of load and compare_exchange_weak and no lock.              *)
(*                                                                         *)
(* A thread calls the ledger from the raw ingress; between any two of its  *)
(* atomic accesses other threads may take theirs.  An exchange can fail    *)
(* because the balance changed, or for no reason at all.                   *)
(*                                                                         *)
(* An operator named Bug... is a mutated form of the definition after it:  *)
(* no action uses it, the project file says which property rejects it.     *)
(***************************************************************************)
EXTENDS Integers, FiniteSets

CONSTANTS
    Ids,        \* account ids a frame can name (u16)
    Accounts,   \* those the ledger was created with
    Threads,    \* server threads
    Amounts,    \* amount_usdt_micro of the swaps asked for
    Rates,      \* fx_rate of the swaps asked for
    Word,       \* 2^64
    Scale,      \* 1_000_000
    InitUsdt, InitEurc,
    MaxSwaps    \* bound: swaps in a behaviour

ASSUME AccountsAssumption == Accounts \subseteq Ids /\ Accounts # {}
ASSUME WordAssumption     == Word \in Nat \ {0} /\ Scale \in Nat \ {0}
ASSUME WordsAssumption    ==
    /\ Amounts \subseteq 0 .. Word - 1
    /\ Rates \subseteq 0 .. Word - 1
    /\ InitUsdt \in 0 .. Word - 1
    /\ InitEurc \in 0 .. Word - 1
ASSUME SwapAssumption     == Amounts # {} /\ Rates # {} /\ MaxSwaps \in Nat

VARIABLES
    usdt, eurc,   \* the balances
    pc,           \* pc[t]: where thread t stands in execute_jit_dex_swap
    swap,         \* swap[t]: the arguments of its call
    cur,          \* cur[t]: the balance it loaded last
    result,       \* result[t]: how its last call ended
    \* history
    sold,         \* sold[a]: USDT debited from a
    bought,       \* bought[a]: EURC credited to a, without wrap-around
    swaps         \* calls so far

args == <<swap, swaps>>
vars == <<usdt, eurc, pc, swap, cur, result, sold, bought, swaps>>

Swaps == [src : Ids, dst : Ids, amount : Amounts, rate : Rates]

(* amount.saturating_mul(rate) / 1_000_000                                 *)
Product(amount, rate) == IF amount * rate >= Word THEN Word - 1 ELSE amount * rate
EurcFor(s) == Product(s.amount, s.rate) \div Scale

Init ==
    /\ usdt = [a \in Accounts |-> InitUsdt]
    /\ eurc = [a \in Accounts |-> InitEurc]
    /\ pc = [t \in Threads |-> "idle"]
    /\ swap = [t \in Threads |-> CHOOSE s \in Swaps : TRUE]
    /\ cur = [t \in Threads |-> 0]
    /\ result = [t \in Threads |-> "none"]
    /\ sold = [a \in Accounts |-> 0]
    /\ bought = [a \in Accounts |-> 0]
    /\ swaps = 0

Goto(t, there) == pc' = [pc EXCEPT ![t] = there] /\ UNCHANGED result

Return(t, r) ==
    /\ pc' = [pc EXCEPT ![t] = "idle"]
    /\ result' = [result EXCEPT ![t] = r]

(* Both accounts are looked up before anything moves.                      *)
Begin(t, s) ==
    /\ pc[t] = "idle"
    /\ swaps < MaxSwaps
    /\ swaps' = swaps + 1
    /\ swap' = [swap EXCEPT ![t] = s]
    /\ \/ /\ {s.src, s.dst} \subseteq Accounts
          /\ Goto(t, "load_usdt")
       \/ /\ ~({s.src, s.dst} \subseteq Accounts)
          /\ Return(t, "invalid_account")
    /\ UNCHANGED <<usdt, eurc, cur, sold, bought>>

LoadUsdt(t) ==
    /\ pc[t] = "load_usdt"
    /\ cur' = [cur EXCEPT ![t] = usdt[swap[t].src]]
    /\ \/ /\ usdt[swap[t].src] >= swap[t].amount
          /\ Goto(t, "debit")
       \/ /\ usdt[swap[t].src] < swap[t].amount
          /\ Return(t, "insufficient")
    /\ UNCHANGED <<usdt, eurc, args, sold, bought>>

(* The exchange stores cur - amount only over cur.                         *)
BugDebitBySubtraction(t) ==
    /\ pc[t] = "debit"
    /\ usdt' = [usdt EXCEPT ![swap[t].src] = @ - swap[t].amount]
    /\ sold' = [sold EXCEPT ![swap[t].src] = @ + swap[t].amount]
    /\ Goto(t, "load_eurc")
    /\ UNCHANGED <<eurc, args, cur, bought>>

Debit(t) ==
    /\ pc[t] = "debit"
    /\ usdt[swap[t].src] = cur[t]
    /\ usdt' = [usdt EXCEPT ![swap[t].src] = cur[t] - swap[t].amount]
    /\ sold' = [sold EXCEPT ![swap[t].src] = @ + swap[t].amount]
    /\ Goto(t, "load_eurc")
    /\ UNCHANGED <<eurc, args, cur, bought>>

RetryDebit(t) ==
    /\ pc[t] = "debit"
    /\ Goto(t, "load_usdt")
    /\ UNCHANGED <<usdt, eurc, args, cur, sold, bought>>

LoadEurc(t) ==
    /\ pc[t] = "load_eurc"
    /\ cur' = [cur EXCEPT ![t] = eurc[swap[t].dst]]
    /\ Goto(t, "credit")
    /\ UNCHANGED <<usdt, eurc, args, sold, bought>>

(* cur + eurc_amount wraps around in a release build.                      *)
BugCreditByStore(t) ==
    /\ pc[t] = "credit"
    /\ eurc' = [eurc EXCEPT ![swap[t].dst] = (cur[t] + EurcFor(swap[t])) % Word]
    /\ bought' = [bought EXCEPT ![swap[t].dst] = @ + EurcFor(swap[t])]
    /\ Return(t, "ok")
    /\ UNCHANGED <<usdt, args, cur, sold>>

Credit(t) ==
    /\ pc[t] = "credit"
    /\ eurc[swap[t].dst] = cur[t]
    /\ eurc' = [eurc EXCEPT ![swap[t].dst] = (cur[t] + EurcFor(swap[t])) % Word]
    /\ bought' = [bought EXCEPT ![swap[t].dst] = @ + EurcFor(swap[t])]
    /\ Return(t, "ok")
    /\ UNCHANGED <<usdt, args, cur, sold>>

BugRetryCredit(t) ==
    /\ pc[t] = "credit"
    /\ eurc[swap[t].dst] # cur[t]
    /\ UNCHANGED vars

RetryCredit(t) ==
    /\ pc[t] = "credit"
    /\ Goto(t, "load_eurc")
    /\ UNCHANGED <<usdt, eurc, args, cur, sold, bought>>

Exchange(t) == Debit(t) \/ Credit(t)

Step(t) == LoadUsdt(t) \/ LoadEurc(t) \/ RetryDebit(t) \/ RetryCredit(t) \/ Exchange(t)

Next == \E t \in Threads : Step(t) \/ \E s \in Swaps : Begin(t, s)

Spec == Init /\ [][Next]_vars

(* A thread in the loop keeps running, and an exchange that could succeed  *)
(* again and again does not fail for no reason for ever.  Other threads    *)
(* still can starve it for as long as they find swaps to do.               *)
Fairness == \A t \in Threads : WF_vars(Step(t)) /\ SF_vars(Debit(t)) /\ SF_vars(Credit(t))

FairSpec == Spec /\ Fairness

-----------------------------------------------------------------------------

InSwap == {"load_usdt", "debit", "load_eurc", "credit"}

(* Every variable has its type; balances are words, never negative,        *)
(* whatever debits interleave.                                             *)
TypeOK ==
    /\ usdt \in [Accounts -> 0 .. Word - 1]
    /\ eurc \in [Accounts -> 0 .. Word - 1]
    /\ pc \in [Threads -> {"idle"} \cup InSwap]
    /\ swap \in [Threads -> Swaps]
    /\ cur \in [Threads -> 0 .. Word - 1]
    /\ result \in [Threads -> {"none", "ok", "insufficient", "invalid_account"}]
    /\ sold \in [Accounts -> Nat]
    /\ bought \in [Accounts -> Nat]
    /\ swaps \in Nat

(* No debit is lost or made twice: what an account lost is what swaps took *)
(* from it.                                                                *)
UsdtIsSold == \A a \in Accounts : usdt[a] + sold[a] = InitUsdt

(* No credit is lost or made twice but for wrap-around: what an account    *)
(* holds is what swaps bought for it.                                      *)
EurcIsBought == \A a \in Accounts : eurc[a] = (InitEurc + bought[a]) % Word

(* A thread between its two exchanges owes the destination.                *)
Owed ==
    [t \in Threads |-> IF pc[t] \in {"load_eurc", "credit"}
                       THEN [to |-> {swap[t].dst}, eurc |-> EurcFor(swap[t])]
                       ELSE [to |-> {}, eurc |-> 0]]

Promise == INSTANCE SwapLedger WITH owed <- Owed

(* The two lock-free loops are one atomic debit and one atomic credit of   *)
(* the promised ledger, in this order, and a refused swap is none of them. *)
ImplementsPromise == Promise!Spec

(* Every swap that begins ends, once no new ones compete with it.          *)
EverySwapEnds == \A t \in Threads : pc[t] \in InSwap ~> pc[t] = "idle"

(* "credit the equivalent EURC amount ... using fx_rate (EURC per 1M       *)
(* USDT)": what a swap credits is what its rate says.                      *)
CreditIsEquivalent ==
    \A t \in Threads :
        pc[t] = "credit" => EurcFor(swap[t]) = (swap[t].amount * swap[t].rate) \div Scale

=============================================================================
