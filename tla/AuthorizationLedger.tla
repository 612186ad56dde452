------------------------- MODULE AuthorizationLedger -------------------------
(***************************************************************************)
(* What the gRPC gate promises about money, without its handlers, slot     *)
(* table or database: an authorization first reserves its amount, and the  *)
(* reservation then ends in exactly one way - spent, released, or          *)
(* abandoned when the caller went away and nobody undid the debit.         *)
(*                                                                         *)
(* An account opens once.  A deposit that reaches it before that is        *)
(* overwritten (the initial balance is stored, not added): the gate does   *)
(* not promise more, and the module says so in Open.  Nor does it promise  *)
(* that what is available fits: it is an i64, which wraps, and an amount   *)
(* may be negative (Int64).                                                *)
(***************************************************************************)
EXTENDS Integers, Functions, Int64

CONSTANTS Accounts, Requests, Totals

VARIABLES
    available,   \* available[a]: what a new authorization may reserve
    reserved,    \* reserved[r][a]: what request r holds of account a
    deposited,   \* deposited[a]: everything ever paid in
    spent,       \* spent[a]: authorizations answered "approved"
    abandoned,   \* abandoned[a]: reservations whose request was dropped
    wiped,       \* wiped[a]: paid in before the account opened, and lost
    opened,      \* opened[a]
    laps         \* laps[a]: how often available[a] wrapped, up less down

lvars == <<available, reserved, deposited, spent, abandoned, wiped, opened, laps>>

Nothing == [a \in Accounts |-> 0]

Init ==
    /\ available = Nothing
    /\ reserved = [r \in Requests |-> Nothing]
    /\ deposited = Nothing
    /\ spent = Nothing
    /\ abandoned = Nothing
    /\ wiped = Nothing
    /\ opened = [a \in Accounts |-> FALSE]
    /\ laps = Nothing

Store(a, x) ==
    /\ available' = [available EXCEPT ![a] = WrapI64(x)]
    /\ laps' = [laps EXCEPT ![a] = @ + Laps(x)]

Open(a) ==
    /\ ~opened[a]
    /\ opened' = [opened EXCEPT ![a] = TRUE]
    /\ wiped' = [wiped EXCEPT ![a] = @ + available[a]]
    /\ available' = [available EXCEPT ![a] = 0]
    /\ UNCHANGED <<reserved, deposited, spent, abandoned, laps>>

Deposit(a, t) ==
    /\ Store(a, available[a] + t)
    /\ deposited' = [deposited EXCEPT ![a] = @ + t]
    /\ UNCHANGED <<reserved, spent, abandoned, wiped, opened>>

Reserve(r, a, t) ==
    /\ reserved[r] = Nothing
    /\ available[a] >= t
    /\ Store(a, available[a] - t)
    /\ reserved' = [reserved EXCEPT ![r][a] = t]
    /\ UNCHANGED <<deposited, spent, abandoned, wiped, opened>>

Spend(r, a) ==
    /\ reserved' = [reserved EXCEPT ![r][a] = 0]
    /\ spent' = [spent EXCEPT ![a] = @ + reserved[r][a]]
    /\ UNCHANGED <<available, deposited, abandoned, wiped, opened, laps>>

Release(r, a) ==
    /\ reserved' = [reserved EXCEPT ![r][a] = 0]
    /\ Store(a, available[a] + reserved[r][a])
    /\ UNCHANGED <<deposited, spent, abandoned, wiped, opened>>

Abandon(r, a) ==
    /\ reserved' = [reserved EXCEPT ![r][a] = 0]
    /\ abandoned' = [abandoned EXCEPT ![a] = @ + reserved[r][a]]
    /\ UNCHANGED <<available, deposited, spent, wiped, opened, laps>>

Next ==
    \E a \in Accounts :
        \/ Open(a)
        \/ \E t \in Totals : Deposit(a, t)
        \/ \E r \in Requests :
              \/ \E t \in Totals : Reserve(r, a, t)
              \/ Spend(r, a)
              \/ Release(r, a)
              \/ Abandon(r, a)

Spec == Init /\ [][Next]_lvars

-----------------------------------------------------------------------------

(* Every unit ever paid in is in exactly one place: available, held by one *)
(* running request, spent, abandoned or wiped - or 2^64 of them are gone   *)
(* with a lap of what is available.                                        *)
Conservation ==
    \A a \in Accounts :
        deposited[a] = available[a] + 2 * Half * laps[a] + spent[a] + abandoned[a] + wiped[a]
            + SumFunction([r \in Requests |-> reserved[r][a]])

=============================================================================
