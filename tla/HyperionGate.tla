---------------------------- MODULE HyperionGate ----------------------------
(***************************************************************************)
(* The handlers of the gRPC gate (src/bin/hyperion_grpc_server.rs) on the  *)
(* shared account slots, and the Supabase tables they keep in step         *)
(* (src/db/supabase.rs).                                                   *)
(*                                                                         *)
(* A request is a process.  Between two of its steps any step of another   *)
(* request may happen: the runtime has eight threads, and every step below *)
(* is one atomic access to a slot or one call to the database.  A call to  *)
(* the database is an await point: it may succeed, fail before or after    *)
(* the row changed, or never be resumed because the caller went away.      *)
(*                                                                         *)
(* AccountTable shows that an account has one slot; here the account names *)
(* its slot, and what is left of ensure_account_slot is the claim and the  *)
(* stores that follow it.  Amounts are i64, as the handlers cast and store *)
(* them: a u64 of 2^63 or more is a negative amount, and sums wrap.        *)
(*                                                                         *)
(* An operator named Bug... is a mutated form of the definition after it:  *)
(* no action uses it, the project file says which property rejects it.     *)
(***************************************************************************)
EXTENDS Integers, FiniteSets, Int64

CONSTANTS
    Accounts,   \* account ids
    Users,      \* user keys (address_l2)
    Requests,   \* requests that may run at the same time
    Totals,     \* amounts as i64: debits with fx and fee applied, and deposits
    Limit,      \* SHARED_KYC_LIMIT_TX_COUNT
    PoolSize,   \* pre-signed approvals in the signature pool
    UseDb,      \* whether Supabase is configured
    MaxCalls    \* bound: requests in a behaviour

ASSUME NonEmptyAssumption  == Accounts # {} /\ Users # {}
ASSUME TotalsAreAmounts    == Totals \subseteq I64
ASSUME LimitAssumption     == Limit \in Nat
ASSUME PoolSizeAssumption  == PoolSize \in Nat \ {0}
ASSUME UseDbAssumption     == UseDb \in BOOLEAN
ASSUME MaxCallsAssumption  == MaxCalls \in Nat
ASSUME RequestsAssumption  == IsFiniteSet(Requests) /\ Requests # {}

Kinds  == {"deposit", "card", "approve", "reject"}
Levels == {"BASIC", "VERIFIED"}

VARIABLES
    claimed,    \* claimed[a]: the slot carries the account's tag
    balance,    \* balance[a]: balance_micro_usdt
    txCount,    \* txCount[a]: tx_count; -n stands for the u64 2^64 - n
    kycLevel,   \* kycLevel[a]: kyc_level
    dbCount,    \* dbCount[u]: users.tx_count (0 while there is no row)
    dbLevel,    \* dbLevel[u]: users.kyc_level (BASIC while there is no row)
    cursor,     \* the signature pool's cursor, modulo its length
    pc,         \* pc[r]: where request r stands; "idle" before and after
    kind,       \* kind[r]: what r asks for
    account,    \* account[r]
    user,       \* user[r]
    total,      \* total[r]: the debit of a card authorization
    seenCount,  \* seenCount[r]: the tx_count r read last
    seenLevel,  \* seenLevel[r]: the kyc_level r read last
    reply,      \* reply[r]: how the last call of r ended
    \* history
    audited,      \* audited[r]: the status r inserted in transactions
    deposited, spent, abandoned, wiped, opened,  \* see AuthorizationLedger
    laps,         \* laps[a]: how often the balance wrapped, up less down
    basicCharged, \* basicCharged[a]: charges let through at level BASIC
    forgotten,    \* forgotten[a]: those of them the first-use store of the count wiped
    calls         \* calls so far

slots   == <<claimed, balance, txCount, kycLevel>>
db      == <<dbCount, dbLevel>>
call    == <<kind, account, user>>
seen    == <<seenCount, seenLevel>>
tallies == <<deposited, spent, abandoned, wiped, opened>>
money   == <<tallies, laps>>
charges == <<basicCharged, forgotten>>
vars    == <<slots, db, cursor, pc, call, total, seen, reply, audited, money,
             charges, calls>>

Init ==
    /\ claimed = [a \in Accounts |-> FALSE]
    /\ balance = [a \in Accounts |-> 0]
    /\ txCount = [a \in Accounts |-> 0]
    /\ kycLevel = [a \in Accounts |-> "BASIC"]
    /\ dbCount = [u \in Users |-> 0]
    /\ dbLevel = [u \in Users |-> "BASIC"]
    /\ cursor = 0
    /\ pc = [r \in Requests |-> "idle"]
    /\ kind = [r \in Requests |-> "deposit"]
    /\ account = [r \in Requests |-> CHOOSE a \in Accounts : TRUE]
    /\ user = [r \in Requests |-> CHOOSE u \in Users : TRUE]
    /\ total = [r \in Requests |-> 0]
    /\ seenCount = [r \in Requests |-> 0]
    /\ seenLevel = [r \in Requests |-> "BASIC"]
    /\ reply = [r \in Requests |-> "none"]
    /\ audited = [r \in Requests |-> "none"]
    /\ deposited = [a \in Accounts |-> 0]
    /\ spent = [a \in Accounts |-> 0]
    /\ abandoned = [a \in Accounts |-> 0]
    /\ wiped = [a \in Accounts |-> 0]
    /\ opened = [a \in Accounts |-> FALSE]
    /\ laps = [a \in Accounts |-> 0]
    /\ basicCharged = [a \in Accounts |-> 0]
    /\ forgotten = [a \in Accounts |-> 0]
    /\ calls = 0

At(r, here) == pc[r] = here
Goto(r, there) == pc' = [pc EXCEPT ![r] = there] /\ UNCHANGED reply

(* The handler returns; v is the verdict, or the kind of gRPC status.      *)
Finish(r, v) ==
    /\ pc' = [pc EXCEPT ![r] = "idle"]
    /\ reply' = [reply EXCEPT ![r] = v]

(* What one awaited database call may come to.  A call that fails or is    *)
(* dropped may have changed the row all the same.                          *)
Outcomes == {"ok", "error", "error_applied", "dropped", "dropped_applied"}
Applied(o) == o \in {"ok", "error_applied", "dropped_applied"}
Failed(o)  == o \in {"error", "error_applied"}
Dropped(o) == o \in {"dropped", "dropped_applied"}

(* A failed or dropped call ends a request that holds nothing.             *)
GiveUp(r, o) ==
    \/ Failed(o) /\ Finish(r, "unavailable")
    \/ Dropped(o) /\ Finish(r, "dropped")

-----------------------------------------------------------------------------
(* Arrival and ensure_account_slot                                         *)

Arrive(r, k, a, u) ==
    /\ At(r, "idle")
    /\ calls < MaxCalls
    /\ calls' = calls + 1
    /\ pc' = [pc EXCEPT ![r] = "ensure_slot"]
    /\ reply' = [reply EXCEPT ![r] = "none"]
    /\ kind' = [kind EXCEPT ![r] = k]
    /\ account' = [account EXCEPT ![r] = a]
    /\ user' = [user EXCEPT ![r] = u]
    /\ total' = [total EXCEPT ![r] = 0]
    /\ seenCount' = [seenCount EXCEPT ![r] = 0]
    /\ seenLevel' = [seenLevel EXCEPT ![r] = "BASIC"]
    /\ audited' = [audited EXCEPT ![r] = "none"]
    /\ UNCHANGED <<slots, db, cursor, money, charges>>

(* Where a handler goes on once it has its slot.                           *)
Handler(k) ==
    CASE k = "deposit" -> "deposit"
      [] k = "card"    -> IF UseDb THEN "card_ensure_user" ELSE "card_read_count"
      [] OTHER         -> "set_level"

FindSlot(r) ==
    /\ At(r, "ensure_slot")
    /\ claimed[account[r]]
    /\ Goto(r, Handler(kind[r]))
    /\ UNCHANGED <<slots, db, cursor, call, total, seen, audited, money, charges, calls>>

BugClaimSlot(r) ==
    /\ At(r, "ensure_slot")
    /\ ~opened[account[r]]
    /\ claimed' = [claimed EXCEPT ![account[r]] = TRUE]
    /\ Goto(r, "init_level")
    /\ UNCHANGED <<balance, txCount, kycLevel, db, cursor, call, total, seen, audited, money,
                   charges, calls>>

(* The winner of the exchange initialises the slot with plain stores; from *)
(* the exchange on other requests find the slot and use it.                *)
ClaimSlot(r) ==
    /\ At(r, "ensure_slot")
    /\ ~claimed[account[r]]
    /\ claimed' = [claimed EXCEPT ![account[r]] = TRUE]
    /\ Goto(r, "init_level")
    /\ UNCHANGED <<balance, txCount, kycLevel, db, cursor, call, total, seen, audited, money,
                   charges, calls>>

InitLevel(r) ==
    /\ At(r, "init_level")
    /\ kycLevel' = [kycLevel EXCEPT ![account[r]] = "BASIC"]
    /\ Goto(r, "init_count")
    /\ UNCHANGED <<claimed, balance, txCount, db, cursor, call, total, seen, audited, money,
                   charges, calls>>

(* What other requests counted since the exchange is overwritten.          *)
InitCount(r) ==
    /\ At(r, "init_count")
    /\ txCount' = [txCount EXCEPT ![account[r]] = 0]
    /\ forgotten' = [forgotten EXCEPT ![account[r]] = basicCharged[account[r]]]
    /\ Goto(r, "init_balance")
    /\ UNCHANGED <<claimed, balance, kycLevel, db, cursor, call, total, seen, audited, money,
                   basicCharged, calls>>

InitBalance(r) ==
    /\ At(r, "init_balance")
    /\ balance' = [balance EXCEPT ![account[r]] = 0]
    /\ wiped' = [wiped EXCEPT ![account[r]] = @ + balance[account[r]]]
    /\ opened' = [opened EXCEPT ![account[r]] = TRUE]
    /\ Goto(r, Handler(kind[r]))
    /\ UNCHANGED <<claimed, txCount, kycLevel, db, cursor, call, total, seen, audited,
                   deposited, spent, abandoned, laps, charges, calls>>

-----------------------------------------------------------------------------
(* process_blockchain_deposit                                              *)

(* One exchange of the balance for the exact sum x, as an i64 keeps it.    *)
StoreBalance(a, x) ==
    /\ balance' = [balance EXCEPT ![a] = WrapI64(x)]
    /\ laps' = [laps EXCEPT ![a] = @ + Laps(x)]

BugCreditAccount(r, t) == StoreBalance(account[r], t)

CreditAccount(r, t) == StoreBalance(account[r], balance[account[r]] + t)

Deposit(r) ==
    /\ At(r, "deposit")
    /\ \E t \in Totals :
          /\ CreditAccount(r, t)
          /\ deposited' = [deposited EXCEPT ![account[r]] = @ + t]
    /\ Finish(r, "deposited")
    /\ UNCHANGED <<claimed, txCount, kycLevel, db, cursor, call, total, seen, audited,
                   spent, abandoned, wiped, opened, charges, calls>>

-----------------------------------------------------------------------------
(* process_kyc_approval                                                    *)

SetLevel(r) ==
    /\ At(r, "set_level")
    /\ kycLevel' = [kycLevel EXCEPT ![account[r]] =
                        IF kind[r] = "approve" THEN "VERIFIED" ELSE "BASIC"]
    /\ \/ UseDb /\ Goto(r, "kyc_ensure_user")
       \/ ~UseDb /\ Finish(r, "decided")
    /\ UNCHANGED <<claimed, balance, txCount, db, cursor, call, total, seen, audited, money,
                   charges, calls>>

(* ensure_user_record: an upsert with resolution=merge-duplicates, which   *)
(* writes tx_count 0 and the initial level over a row that exists.         *)
EnsureUserRecord(u) ==
    /\ dbCount' = [dbCount EXCEPT ![u] = 0]
    /\ dbLevel' = [dbLevel EXCEPT ![u] = "BASIC"]

KycEnsureUser(r) ==
    /\ At(r, "kyc_ensure_user")
    /\ \E o \in Outcomes :
          /\ IF Applied(o) THEN EnsureUserRecord(user[r]) ELSE UNCHANGED db
          /\ \/ o = "ok" /\ kind[r] = "approve" /\ Goto(r, "kyc_update_level")
             \/ o = "ok" /\ kind[r] # "approve" /\ Finish(r, "decided")
             \/ GiveUp(r, o)
    /\ UNCHANGED <<slots, cursor, call, total, seen, audited, money, charges, calls>>

KycUpdateLevel(r) ==
    /\ At(r, "kyc_update_level")
    /\ \E o \in Outcomes :
          /\ dbLevel' = IF Applied(o) THEN [dbLevel EXCEPT ![user[r]] = "VERIFIED"] ELSE dbLevel
          /\ \/ o = "ok" /\ Finish(r, "decided")
             \/ GiveUp(r, o)
    /\ UNCHANGED <<slots, dbCount, cursor, call, total, seen, audited, money, charges, calls>>

-----------------------------------------------------------------------------
(* process_card_authorization                                              *)

CardEnsureUser(r) ==
    /\ At(r, "card_ensure_user")
    /\ \E o \in Outcomes :
          /\ IF Applied(o) THEN EnsureUserRecord(user[r]) ELSE UNCHANGED db
          /\ \/ o = "ok" /\ Goto(r, "card_fetch_state")
             \/ GiveUp(r, o)
    /\ UNCHANGED <<slots, cursor, call, total, seen, audited, money, charges, calls>>

CardFetchState(r) ==
    /\ At(r, "card_fetch_state")
    /\ \E o \in {"ok", "error", "dropped"} :
          \/ /\ o = "ok"
             /\ seenCount' = [seenCount EXCEPT ![r] = dbCount[user[r]]]
             /\ seenLevel' = [seenLevel EXCEPT ![r] = dbLevel[user[r]]]
             /\ Goto(r, "card_store_count")
          \/ GiveUp(r, o) /\ UNCHANGED seen
    /\ UNCHANGED <<slots, db, cursor, call, total, audited, money, charges, calls>>

BugOverLimit(count, level) == count > Limit /\ level = "BASIC"

OverLimit(count, level) == (count >= Limit \/ count < 0) /\ level = "BASIC"

(* The verdict on the state just read; a refusal is recorded first.        *)
Admit(r, count, level) ==
    \/ OverLimit(count, level) /\ UseDb /\ Goto(r, "audit_upgrade")
    \/ OverLimit(count, level) /\ ~UseDb /\ Finish(r, "requires_kyc_upgrade")
    \/ ~OverLimit(count, level) /\ Goto(r, "debit")

(* The fetched row is stored in the slot, count before level, whatever     *)
(* happened to the slot since the row was read.                            *)
CardStoreCount(r) ==
    /\ At(r, "card_store_count")
    /\ txCount' = [txCount EXCEPT ![account[r]] = seenCount[r]]
    /\ Goto(r, "card_store_level")
    /\ UNCHANGED <<claimed, balance, kycLevel, db, cursor, call, total, seen, audited, money,
                   charges, calls>>

CardStoreLevel(r) ==
    /\ At(r, "card_store_level")
    /\ kycLevel' = [kycLevel EXCEPT ![account[r]] = seenLevel[r]]
    /\ Admit(r, seenCount[r], seenLevel[r])
    /\ UNCHANGED <<claimed, balance, txCount, db, cursor, call, total, seen, audited, money,
                   charges, calls>>

(* Without Supabase the slot itself is read, count before level.           *)
CardReadCount(r) ==
    /\ At(r, "card_read_count")
    /\ seenCount' = [seenCount EXCEPT ![r] = txCount[account[r]]]
    /\ Goto(r, "card_read_level")
    /\ UNCHANGED <<slots, db, cursor, call, total, seenLevel, audited, money, charges, calls>>

CardReadLevel(r) ==
    /\ At(r, "card_read_level")
    /\ seenLevel' = [seenLevel EXCEPT ![r] = kycLevel[account[r]]]
    /\ Admit(r, seenCount[r], kycLevel[account[r]])
    /\ UNCHANGED <<slots, db, cursor, call, total, seenCount, audited, money, charges, calls>>

(* The currency is only looked at here.                                    *)
RefuseCurrency(r) ==
    /\ At(r, "debit")
    /\ Finish(r, "invalid_argument")
    /\ UNCHANGED <<slots, db, cursor, call, total, seen, audited, money, charges, calls>>

(* debit_account goes on when the balance covers the amount.               *)
Covers(a, t) == balance[a] >= t

(* debit_account: the compare_exchange that succeeds, or the look at the   *)
(* balance that finds it too small.  The fx rate drifts in the background  *)
(* and the fee product may wrap, so one card amount may come to any total, *)
(* a negative one too, which any balance covers unless it is lower still.  *)
Debit(r) ==
    /\ At(r, "debit")
    /\ \E t \in Totals :
          \/ /\ Covers(account[r], t)
             /\ StoreBalance(account[r], balance[account[r]] - t)
             /\ total' = [total EXCEPT ![r] = t]
             /\ Goto(r, "bump")
          \/ /\ ~Covers(account[r], t)
             /\ UNCHANGED <<balance, laps, total>>
             /\ \/ UseDb /\ Goto(r, "audit_declined")
                \/ ~UseDb /\ Finish(r, "declined")
    /\ UNCHANGED <<claimed, txCount, kycLevel, db, cursor, call, seen, audited, tallies,
                   charges, calls>>

(* bump_user_tx_count: the slot first, then the row, read and written back *)
(* in two calls, then the row's value in the slot.                         *)
Charge(r, d) ==
    /\ basicCharged' = [basicCharged EXCEPT ![account[r]] =
                           IF seenLevel[r] = "BASIC" THEN @ + d ELSE @]
    /\ UNCHANGED forgotten

Bump(r) ==
    /\ At(r, "bump")
    /\ txCount' = [txCount EXCEPT ![account[r]] = @ + 1]
    /\ Charge(r, 1)
    /\ Goto(r, IF UseDb THEN "fetch_count" ELSE "sign")
    /\ UNCHANGED <<claimed, balance, kycLevel, db, cursor, call, total, seen, audited, money,
                   calls>>

(* A request dropped between debit and verdict: nobody credits it back.    *)
Abandon(r, o) ==
    /\ Dropped(o)
    /\ Finish(r, "dropped")
    /\ abandoned' = [abandoned EXCEPT ![account[r]] = @ + total[r]]
    /\ UNCHANGED <<deposited, spent, wiped, opened, laps>>

FetchCount(r) ==
    /\ At(r, "fetch_count")
    /\ \E o \in {"ok", "error", "dropped"} :
          \/ /\ o = "ok"
             /\ seenCount' = [seenCount EXCEPT ![r] = dbCount[user[r]]]
             /\ Goto(r, "write_count")
             /\ UNCHANGED money
          \/ Failed(o) /\ Goto(r, "unbump") /\ UNCHANGED <<seenCount, money>>
          \/ Abandon(r, o) /\ UNCHANGED seenCount
    /\ UNCHANGED <<slots, db, cursor, call, total, seenLevel, audited, charges, calls>>

WriteCount(r) ==
    /\ At(r, "write_count")
    /\ \E o \in Outcomes :
          /\ dbCount' = IF Applied(o) THEN [dbCount EXCEPT ![user[r]] = seenCount[r] + 1]
                                      ELSE dbCount
          /\ \/ o = "ok" /\ Goto(r, "store_count") /\ UNCHANGED money
             \/ Failed(o) /\ Goto(r, "unbump") /\ UNCHANGED money
             \/ Abandon(r, o)
    /\ UNCHANGED <<slots, dbLevel, cursor, call, total, seen, audited, charges, calls>>

StoreCount(r) ==
    /\ At(r, "store_count")
    /\ txCount' = [txCount EXCEPT ![account[r]] = seenCount[r] + 1]
    /\ Goto(r, "sign")
    /\ UNCHANGED <<claimed, balance, kycLevel, db, cursor, call, total, seen, audited, money,
                   charges, calls>>

(* The two undo steps of a failed bump: the count, then the money.         *)
Unbump(r) ==
    /\ At(r, "unbump")
    /\ txCount' = [txCount EXCEPT ![account[r]] = @ - 1]
    /\ Charge(r, -1)
    /\ Goto(r, "refund_bump")
    /\ UNCHANGED <<claimed, balance, kycLevel, db, cursor, call, total, seen, audited, money,
                   calls>>

RefundBump(r) ==
    /\ At(r, "refund_bump")
    /\ CreditAccount(r, total[r])
    /\ Finish(r, "unavailable")
    /\ UNCHANGED <<claimed, txCount, kycLevel, db, cursor, call, total, seen, audited, tallies,
                   charges, calls>>

(* The approval is signed before it is recorded and only then answered.    *)
Approve(r) ==
    /\ Finish(r, "approved")
    /\ spent' = [spent EXCEPT ![account[r]] = @ + total[r]]
    /\ UNCHANGED <<deposited, abandoned, wiped, opened, laps>>

Sign(r) ==
    /\ At(r, "sign")
    /\ cursor' = (cursor + 1) % PoolSize
    /\ \/ UseDb /\ Goto(r, "audit_approved") /\ UNCHANGED money
       \/ ~UseDb /\ Approve(r)
    /\ UNCHANGED <<slots, db, call, total, seen, audited, charges, calls>>

(* record_transaction inserts one row with the status of the request.      *)
Record(r, o, status) ==
    audited' = IF Applied(o) THEN [audited EXCEPT ![r] = status] ELSE audited

AuditRefusal(r, here, status, verdict) ==
    /\ At(r, here)
    /\ \E o \in Outcomes :
          /\ Record(r, o, status)
          /\ \/ o = "ok" /\ Finish(r, verdict)
             \/ GiveUp(r, o)
    /\ UNCHANGED <<slots, db, cursor, call, total, seen, money, charges, calls>>

AuditUpgrade(r)  == AuditRefusal(r, "audit_upgrade", "requires_kyc_upgrade", "requires_kyc_upgrade")
AuditDeclined(r) == AuditRefusal(r, "audit_declined", "declined", "declined")

BugAuditFails(r, o) == Failed(o) /\ Approve(r)

(* The approval cannot be recorded: it is not given.                       *)
AuditFails(r, o) == Failed(o) /\ Goto(r, "refund_audit") /\ UNCHANGED money

AuditApproved(r) ==
    /\ At(r, "audit_approved")
    /\ \E o \in Outcomes :
          /\ Record(r, o, "approved")
          /\ \/ o = "ok" /\ Approve(r)
             \/ AuditFails(r, o)
             \/ Abandon(r, o)
    /\ UNCHANGED <<slots, db, cursor, call, total, seen, charges, calls>>

RefundAudit(r) ==
    /\ At(r, "refund_audit")
    /\ CreditAccount(r, total[r])
    /\ Goto(r, "uncount")
    /\ UNCHANGED <<claimed, txCount, kycLevel, db, cursor, call, total, seen, audited, tallies,
                   charges, calls>>

(* Only the slot's counter is taken back; the row keeps the increment.     *)
Uncount(r) ==
    /\ At(r, "uncount")
    /\ txCount' = [txCount EXCEPT ![account[r]] = @ - 1]
    /\ Charge(r, -1)
    /\ Finish(r, "unavailable")
    /\ UNCHANGED <<claimed, balance, kycLevel, db, cursor, call, total, seen, audited, money,
                   calls>>

-----------------------------------------------------------------------------

Slot(r) == FindSlot(r) \/ ClaimSlot(r) \/ InitLevel(r) \/ InitCount(r) \/ InitBalance(r)

Kyc(r) == SetLevel(r) \/ KycEnsureUser(r) \/ KycUpdateLevel(r)

Authorize(r) ==
    \/ CardEnsureUser(r) \/ CardFetchState(r) \/ CardStoreCount(r) \/ CardStoreLevel(r)
    \/ CardReadCount(r) \/ CardReadLevel(r)
    \/ RefuseCurrency(r) \/ Debit(r) \/ AuditUpgrade(r) \/ AuditDeclined(r)

Conclude(r) ==
    \/ Bump(r) \/ FetchCount(r) \/ WriteCount(r) \/ StoreCount(r)
    \/ Unbump(r) \/ RefundBump(r)
    \/ Sign(r) \/ AuditApproved(r) \/ RefundAudit(r) \/ Uncount(r)

Step(r) == Slot(r) \/ Deposit(r) \/ Kyc(r) \/ Authorize(r) \/ Conclude(r)

Next ==
    \E r \in Requests :
        \/ Step(r)
        \/ \E k \in Kinds, a \in Accounts, u \in Users : Arrive(r, k, a, u)

Spec == Init /\ [][Next]_vars

-----------------------------------------------------------------------------

Steps == {"idle", "ensure_slot", "init_level", "init_count", "init_balance", "deposit",
          "set_level", "kyc_ensure_user", "kyc_update_level", "card_ensure_user",
          "card_fetch_state", "card_store_count", "card_store_level", "card_read_count",
          "card_read_level", "audit_upgrade",
          "debit", "audit_declined", "bump", "fetch_count", "write_count", "store_count",
          "unbump", "refund_bump", "sign", "audit_approved", "refund_audit", "uncount"}

Replies == {"none", "deposited", "decided", "approved", "declined", "requires_kyc_upgrade",
            "invalid_argument", "unavailable", "dropped"}

(* Every variable has its type; a balance and a total are i64.             *)
TypeOK ==
    /\ claimed \in [Accounts -> BOOLEAN]
    /\ balance \in [Accounts -> I64]
    /\ txCount \in [Accounts -> Int]
    /\ kycLevel \in [Accounts -> Levels]
    /\ dbCount \in [Users -> Nat]
    /\ dbLevel \in [Users -> Levels]
    /\ cursor \in 0 .. PoolSize - 1
    /\ pc \in [Requests -> Steps]
    /\ kind \in [Requests -> Kinds]
    /\ account \in [Requests -> Accounts]
    /\ user \in [Requests -> Users]
    /\ total \in [Requests -> I64]
    /\ seenCount \in [Requests -> Int]
    /\ seenLevel \in [Requests -> Levels]
    /\ reply \in [Requests -> Replies]
    /\ audited \in [Requests -> {"none", "approved", "declined", "requires_kyc_upgrade"}]
    /\ deposited \in [Accounts -> Int]
    /\ spent \in [Accounts -> Int]
    /\ abandoned \in [Accounts -> Int]
    /\ wiped \in [Accounts -> Int]
    /\ opened \in [Accounts -> BOOLEAN]
    /\ laps \in [Accounts -> Int]
    /\ basicCharged \in [Accounts -> Int]
    /\ forgotten \in [Accounts -> Int]
    /\ calls \in Nat

(* The steps at which a card authorization holds money it took from the    *)
(* balance: from the debit to the verdict or the refund.                   *)
Holding == {"bump", "fetch_count", "write_count", "store_count", "unbump", "refund_bump",
            "sign", "audit_approved", "refund_audit"}

Held(r) == IF pc[r] \in Holding THEN total[r] ELSE 0

Reserved == [r \in Requests |-> [a \in Accounts |-> IF account[r] = a THEN Held(r) ELSE 0]]

(* The abstract ledger this module implements.                             *)
Ledger == INSTANCE AuthorizationLedger WITH available <- balance, reserved <- Reserved

(* The handlers implement the ledger: whatever fails or is dropped, a      *)
(* debit is spent, credited back or abandoned once, never twice, and only  *)
(* the first use of an account may overwrite its balance.                  *)
ImplementsLedger == Ledger!Spec

(* At every instant each deposited unit is in exactly one place, and a     *)
(* balance that wrapped lacks, or has, 2^64 for each lap.                  *)
MoneyConserved == Ledger!Conservation

(* While what was ever deposited in an account stays within an i64, its    *)
(* balance has never wrapped and is not negative - when no amount is       *)
(* negative as an i64.                                                     *)
Solvent == \A a \in Accounts : deposited[a] < Half => balance[a] >= 0 /\ laps[a] = 0

(* An "approved" answer means the approval is in the transactions table.   *)
ApprovalIsRecorded ==
    UseDb => \A r \in Requests : reply[r] = "approved" => audited[r] = "approved"

(* The limit on unverified users is checked long before it is counted, so  *)
(* N requests in flight together pass it together, by N - 1 charges.  And  *)
(* it is passed twice when the account is new: the charges of the others   *)
(* that found the slot before its first count was stored (N - 2 over, for  *)
(* the one that stores is busy) are forgotten by that store.  In all,      *)
(* 2 * Limit + 2 * N - 3 charges at level BASIC, not Limit.                *)
LimitOvershootBounded ==
    LET N == Cardinality(Requests)
    IN  \A a \in Accounts :
            /\ forgotten[a] = 0 \/ forgotten[a] <= Limit + N - 2
            /\ basicCharged[a] <= forgotten[a] + Limit + N - 1

(* A level VERIFIED in Supabase is only taken back by a KYC decision       *)
(* against the user.                                                       *)
UpgradeIsKept ==
    [][\A u \in Users : dbLevel[u] = "VERIFIED" /\ dbLevel'[u] = "BASIC" =>
          \E r \in Requests : kind[r] = "reject" /\ user[r] = u /\ pc[r] = "kyc_ensure_user"]_vars

=============================================================================
