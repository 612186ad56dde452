------------------------- MODULE HyperionGateProofs -------------------------
(***************************************************************************)
(* Proofs about HyperionGate, for every number of accounts, users and      *)
(* requests, every limit and every set of amounts.                         *)
(***************************************************************************)
EXTENDS HyperionGate, SumLemmas

(* The count a request is about to write back came from the row, which is  *)
(* never negative.                                                         *)
RowCountSeen ==
    \A r \in Requests : pc[r] \in {"write_count", "store_count"} => seenCount[r] \in Nat

TInv == TypeOK /\ RowCountSeen

(* The first step of a handler after ensure_account_slot.                  *)
LEMMA HandlerType ==
    ASSUME NEW k \in Kinds
    PROVE  Handler(k) \in {"deposit", "card_ensure_user", "card_read_count", "set_level"}
  BY UseDbAssumption DEF Kinds, Handler

(* A sum or a difference of two i64 is stored as an i64, one lap away at   *)
(* most.                                                                   *)
LEMMA WrapFits ==
    ASSUME NEW b \in I64, NEW t \in I64, NEW x \in {b + t, b - t}
    PROVE  /\ WrapI64(x) \in I64 /\ Laps(x) \in Int /\ x \in Int
           /\ WrapI64(x) + 2 * Half * Laps(x) = x
  BY HalfAssumption DEF I64, WrapI64, Laps

(* Adding an amount to one account's tally.                                *)
LEMMA TallyType ==
    ASSUME NEW f \in [Accounts -> Int], NEW a \in Accounts, NEW t \in Int
    PROVE  [f EXCEPT ![a] = @ + t] \in [Accounts -> Int]
  OBVIOUS

(* A store of such a sum keeps the types of the slot.                      *)
LEMMA StoreType ==
    ASSUME TypeOK, NEW a \in Accounts, NEW t \in I64,
           NEW x \in {balance[a] + t, balance[a] - t}, StoreBalance(a, x)
    PROVE  balance' \in [Accounts -> I64] /\ laps' \in [Accounts -> Int]
  <1>1. balance[a] \in I64 /\ laps[a] \in Int
    BY DEF TypeOK
  <1>2. WrapI64(x) \in I64 /\ Laps(x) \in Int
    BY <1>1, WrapFits
  <1> QED
    BY <1>1, <1>2 DEF StoreBalance, TypeOK

(* The fresh server has its types.                                         *)
LEMMA InitType == Init => TInv
  BY NonEmptyAssumption, PoolSizeAssumption, HalfAssumption
  DEF Init, I64, TInv, TypeOK, RowCountSeen, Levels, Kinds, Steps, Replies

(* Every step of every request keeps them, one case per action.            *)
LEMMA StepKeepsType ==
    ASSUME TInv, [Next]_vars
    PROVE  TInv'
  <1> USE TotalsAreAmounts, PoolSizeAssumption
      DEF TInv, TypeOK, RowCountSeen, Levels, Steps, Replies, At, Goto, Finish, GiveUp,
          slots, db, call, seen, money, tallies, charges
  <1>0. I64 \subseteq Int /\ \A r \in Requests : total[r] \in Int
    BY HalfAssumption DEF I64
  <1>1. ASSUME NEW r \in Requests, NEW k \in Kinds, NEW a \in Accounts, NEW u \in Users,
               Arrive(r, k, a, u)
        PROVE  TInv'
    BY <1>1, HalfAssumption DEF Arrive, I64
  <1>2. ASSUME NEW r \in Requests, FindSlot(r)
        PROVE  TInv'
    BY <1>2, HandlerType DEF FindSlot
  <1>3. ASSUME NEW r \in Requests, ClaimSlot(r)
        PROVE  TInv'
    BY <1>3 DEF ClaimSlot
  <1>4. ASSUME NEW r \in Requests, InitLevel(r)
        PROVE  TInv'
    BY <1>4 DEF InitLevel
  <1>5. ASSUME NEW r \in Requests, InitCount(r)
        PROVE  TInv'
    BY <1>5 DEF InitCount
  <1>6. ASSUME NEW r \in Requests, InitBalance(r)
        PROVE  TInv'
    BY <1>6, HandlerType, HalfAssumption DEF InitBalance, I64
  <1>7. ASSUME NEW r \in Requests, Deposit(r)
        PROVE  TInv'
    <2>1. PICK t \in Totals :
             /\ StoreBalance(account[r], balance[account[r]] + t)
             /\ deposited' = [deposited EXCEPT ![account[r]] = @ + t]
      BY <1>7 DEF Deposit, CreditAccount
    <2>2. t \in I64 /\ t \in Int
      BY DEF I64
    <2>3. balance' \in [Accounts -> I64] /\ laps' \in [Accounts -> Int]
      BY <2>1, <2>2, StoreType
    <2>4. deposited' \in [Accounts -> Int]
      BY <2>1, <2>2
    <2> QED
      BY <1>7, <2>3, <2>4 DEF Deposit
  <1>8. ASSUME NEW r \in Requests, SetLevel(r)
        PROVE  TInv'
    <2>1. kycLevel' \in [Accounts -> Levels]
      BY <1>8 DEF SetLevel
    <2> QED
      BY <1>8, <2>1 DEF SetLevel
  <1>9. ASSUME NEW r \in Requests, KycEnsureUser(r)
        PROVE  TInv'
    BY <1>9, SMTT(30) DEF KycEnsureUser, EnsureUserRecord
  <1>10. ASSUME NEW r \in Requests, KycUpdateLevel(r)
         PROVE  TInv'
    <2>1. dbLevel' \in [Users -> Levels]
      BY <1>10 DEF KycUpdateLevel
    <2> QED
      BY <1>10, <2>1 DEF KycUpdateLevel
  <1>11. ASSUME NEW r \in Requests, CardEnsureUser(r)
         PROVE  TInv'
    BY <1>11 DEF CardEnsureUser, EnsureUserRecord
  <1>12. ASSUME NEW r \in Requests, CardFetchState(r)
         PROVE  TInv'
    BY <1>12 DEF CardFetchState
  <1>13. ASSUME NEW r \in Requests, CardStoreCount(r) \/ CardStoreLevel(r)
         PROVE  TInv'
    BY <1>13 DEF CardStoreCount, CardStoreLevel, Admit
  <1>14. ASSUME NEW r \in Requests, CardReadCount(r) \/ CardReadLevel(r)
         PROVE  TInv'
    BY <1>14, SMTT(30) DEF CardReadCount, CardReadLevel, Admit
  <1>15. ASSUME NEW r \in Requests, RefuseCurrency(r)
         PROVE  TInv'
    BY <1>15 DEF RefuseCurrency
  <1>16. ASSUME NEW r \in Requests, Debit(r)
         PROVE  TInv'
    <2>0. PICK t \in Totals :
             \/ /\ StoreBalance(account[r], balance[account[r]] - t)
                /\ total' = [total EXCEPT ![r] = t]
             \/ UNCHANGED <<balance, laps, total>>
      BY <1>16 DEF Debit
    <2>1. balance' \in [Accounts -> I64] /\ laps' \in [Accounts -> Int]
      BY <2>0, StoreType
    <2>2. total' \in [Requests -> I64]
      BY <2>0
    <2>3. pc' \in [Requests -> Steps] /\ reply' \in [Requests -> Replies] /\ RowCountSeen'
      BY <1>16 DEF Debit
    <2> QED
      BY <1>16, <2>1, <2>2, <2>3 DEF Debit
  <1>17. ASSUME NEW r \in Requests, Bump(r)
         PROVE  TInv'
    BY <1>17, UseDbAssumption DEF Bump, Charge
  <1>18. ASSUME NEW r \in Requests, FetchCount(r)
         PROVE  TInv'
    <2>1. abandoned' \in [Accounts -> Int]
      BY <1>0, <1>18, TallyType DEF FetchCount, Abandon
    <2>2. pc' \in [Requests -> Steps] /\ reply' \in [Requests -> Replies]
      BY <1>18 DEF FetchCount, Abandon
    <2>3. seenCount' \in [Requests -> Int] /\ RowCountSeen'
      BY <1>18 DEF FetchCount, Abandon
    <2>4. UNCHANGED <<deposited, spent, wiped, opened, laps>>
      BY <1>18 DEF FetchCount, Abandon
    <2> QED
      BY <1>18, <2>1, <2>2, <2>3, <2>4 DEF FetchCount
  <1>19. ASSUME NEW r \in Requests, WriteCount(r)
         PROVE  TInv'
    BY <1>0, <1>19, SMTT(30) DEF WriteCount, Abandon
  <1>20. ASSUME NEW r \in Requests, StoreCount(r)
         PROVE  TInv'
    BY <1>20 DEF StoreCount
  <1>21. ASSUME NEW r \in Requests, Unbump(r)
         PROVE  TInv'
    BY <1>21 DEF Unbump, Charge
  <1>22. ASSUME NEW r \in Requests, RefundBump(r)
         PROVE  TInv'
    <2>1. balance' \in [Accounts -> I64] /\ laps' \in [Accounts -> Int]
      BY <1>22, StoreType DEF RefundBump, CreditAccount
    <2> QED
      BY <1>22, <2>1 DEF RefundBump
  <1>23. ASSUME NEW r \in Requests, Sign(r)
         PROVE  TInv'
    <2>1. spent' \in [Accounts -> Int]
      BY <1>0, <1>23, TallyType DEF Sign, Approve
    <2>2. UNCHANGED <<deposited, abandoned, wiped, opened, laps>>
      BY <1>23 DEF Sign, Approve
    <2>3. pc' \in [Requests -> Steps] /\ reply' \in [Requests -> Replies] /\ RowCountSeen'
      BY <1>23 DEF Sign, Approve
    <2> QED
      BY <1>23, <2>1, <2>2, <2>3 DEF Sign
  <1>24. ASSUME NEW r \in Requests, AuditUpgrade(r)
         PROVE  TInv'
    BY <1>24 DEF AuditUpgrade, AuditRefusal, Record
  <1>25. ASSUME NEW r \in Requests, AuditDeclined(r)
         PROVE  TInv'
    BY <1>25 DEF AuditDeclined, AuditRefusal, Record
  <1>26. ASSUME NEW r \in Requests, AuditApproved(r)
         PROVE  TInv'
    <2>1. spent' \in [Accounts -> Int] /\ abandoned' \in [Accounts -> Int]
      BY <1>0, <1>26, TallyType DEF AuditApproved, Approve, AuditFails, Abandon
    <2>2. UNCHANGED <<deposited, wiped, opened, laps>>
      BY <1>26 DEF AuditApproved, Approve, AuditFails, Abandon
    <2>3. pc' \in [Requests -> Steps] /\ reply' \in [Requests -> Replies] /\ RowCountSeen'
      BY <1>26 DEF AuditApproved, Approve, AuditFails, Abandon
    <2> QED
      BY <1>26, <2>1, <2>2, <2>3 DEF AuditApproved, Record
  <1>27. ASSUME NEW r \in Requests, RefundAudit(r)
         PROVE  TInv'
    <2>1. balance' \in [Accounts -> I64] /\ laps' \in [Accounts -> Int]
      BY <1>27, StoreType DEF RefundAudit, CreditAccount
    <2> QED
      BY <1>27, <2>1 DEF RefundAudit
  <1>28. ASSUME NEW r \in Requests, Uncount(r)
         PROVE  TInv'
    BY <1>28 DEF Uncount, Charge
  <1>29. CASE UNCHANGED vars
    BY <1>29 DEF vars
  <1> QED
    BY <1>1, <1>2, <1>3, <1>4, <1>5, <1>6, <1>7, <1>8, <1>9, <1>10, <1>11, <1>12, <1>13, <1>14,
       <1>15, <1>16, <1>17, <1>18, <1>19, <1>20, <1>21, <1>22, <1>23, <1>24, <1>25, <1>26, <1>27,
       <1>28, <1>29
    DEF Next, Step, Slot, Kyc, Authorize, Conclude

(* Types are kept by every step: balances stay i64 because the stores wrap. *)
THEOREM TypeCorrect == Spec => []TypeOK
  <1>1. TInv /\ [Next]_vars => TInv'
    BY StepKeepsType
  <1> QED
    BY <1>1, InitType, PTL DEF Spec, TInv

-----------------------------------------------------------------------------
(* The handlers of HyperionGate implement AuthorizationLedger: initial     *)
(* states map to initial states, every step maps to a step of the ledger   *)
(* or to a stutter.                                                        *)

Opening == {"init_level", "init_count", "init_balance"}

(* One request initialises a slot, once: the exchange that claims the slot *)
(* has one winner.  Without this the ledger would open an account twice    *)
(* and wipe an account that is in use.                                     *)
OpenedOnce ==
    /\ \A a \in Accounts : opened[a] => claimed[a]
    /\ \A r \in Requests : pc[r] \in Opening => claimed[account[r]] /\ ~opened[account[r]]
    /\ \A r, q \in Requests :
          pc[r] \in Opening /\ pc[q] \in Opening /\ account[r] = account[q] => r = q

RInv == TInv /\ OpenedOnce

(* What a step of request r leaves alone.                                  *)
OthersKept(r) ==
    \A q \in Requests \ {r} :
        pc'[q] = pc[q] /\ total'[q] = total[q] /\ account'[q] = account[q]

(* A step that leaves every reservation as it is.                          *)
ReservesNothing(r) ==
    /\ OthersKept(r)
    /\ Held(r)' = Held(r)
    /\ account'[r] = account[r] \/ Held(r) = 0

(* A step that moves no money.                                             *)
QuietStep(r) == ReservesNothing(r) /\ UNCHANGED <<balance, money>>

(* A step of r that ends in another reservation of the same account.       *)
MoneyStep(r) == OthersKept(r) /\ account' = account

-----------------------------------------------------------------------------

(* A step that leaves its own request's money alone reserves nothing.      *)
LEMMA ReservedKept ==
    ASSUME NEW r \in Requests, ReservesNothing(r)
    PROVE  UNCHANGED Reserved
  <1>1. ASSUME NEW q \in Requests, NEW a \in Accounts
        PROVE  (IF account'[q] = a THEN Held(q)' ELSE 0) = IF account[q] = a THEN Held(q) ELSE 0
    <2>1. CASE q = r
      BY <2>1 DEF ReservesNothing
    <2>2. CASE q # r
      BY <2>2 DEF ReservesNothing, OthersKept, Held
    <2> QED
      BY <2>1, <2>2
  <1> QED
    BY <1>1 DEF Reserved

(* A step of r on its own account changes that one reservation.            *)
LEMMA ReservedChanged ==
    ASSUME TypeOK, NEW r \in Requests, MoneyStep(r)
    PROVE  Reserved' = [Reserved EXCEPT ![r][account[r]] = Held(r)']
  <1> DEFINE New == [q \in Requests |-> [a \in Accounts |->
                        IF q = r /\ a = account[r] THEN Held(r)' ELSE Reserved[q][a]]]
  <1>1. ASSUME NEW q \in Requests, q # r
        PROVE  Held(q)' = Held(q)
    BY <1>1 DEF MoneyStep, OthersKept, Held
  <1>2. ASSUME NEW q \in Requests, NEW a \in Accounts
        PROVE  (IF account'[q] = a THEN Held(q)' ELSE 0) = New[q][a]
    <2>1. CASE q = r
      BY <2>1 DEF Reserved, MoneyStep, TypeOK
    <2>2. CASE q # r
      BY <2>2, <1>1 DEF Reserved, MoneyStep, TypeOK
    <2> QED
      BY <2>1, <2>2
  <1>3. Reserved' = New
    BY <1>2 DEF Reserved
  <1>4. [Reserved EXCEPT ![r][account[r]] = Held(r)'] = New
    <2>1. ASSUME NEW f
          PROVE  [[q \in Requests |-> [a \in Accounts |-> f[q][a]]]
                      EXCEPT ![r][account[r]] = Held(r)']
                 = [q \in Requests |-> [a \in Accounts |->
                        IF q = r /\ a = account[r] THEN Held(r)' ELSE f[q][a]]]
      OBVIOUS
    <2>2. Reserved = [q \in Requests |-> [a \in Accounts |-> Reserved[q][a]]]
      BY DEF Reserved
    <2> QED
      BY <2>1, <2>2
  <1> QED
    BY <1>3, <1>4

(* What a request holds, it holds of its own account.                      *)
LEMMA ReservedHere ==
    ASSUME TypeOK, NEW r \in Requests
    PROVE  /\ Reserved[r][account[r]] = Held(r)
           /\ Held(r) = 0 => Reserved[r] = [a \in Accounts |-> 0]
  BY DEF Reserved, TypeOK

(* A step that moves no money is a stutter of the ledger.                  *)
LEMMA QuietIsStutter ==
    ASSUME NEW r \in Requests, QuietStep(r)
    PROVE  UNCHANGED Ledger!lvars
  BY ReservedKept DEF QuietStep, money, tallies, Ledger!lvars

-----------------------------------------------------------------------------

(* No slot is claimed at the start.                                        *)
LEMMA InitOpenedOnce == Init => OpenedOnce
  BY DEF Init, OpenedOnce, Opening

(* A step of r that claims and opens nothing, and does not start to        *)
(* initialise a slot.                                                      *)
OpensNothing(r) ==
    /\ UNCHANGED <<claimed, opened>>
    /\ pc'[r] \notin Opening
    /\ \A q \in Requests \ {r} : pc'[q] = pc[q] /\ account'[q] = account[q]

(* Only claims and initialising steps can disturb OpenedOnce.              *)
LEMMA OpensNothingKeeps ==
    ASSUME OpenedOnce, NEW r \in Requests, OpensNothing(r)
    PROVE  OpenedOnce'
  BY DEF OpenedOnce, OpensNothing

(* Every step keeps OpenedOnce: one request wins the exchange.             *)
LEMMA StepKeepsOpenedOnce ==
    ASSUME RInv, [Next]_vars
    PROVE  OpenedOnce'
  <1> USE DEF RInv, TInv, TypeOK
  <1>1. ASSUME NEW r \in Requests, ClaimSlot(r)
        PROVE  OpenedOnce'
    BY <1>1 DEF ClaimSlot, OpenedOnce, Opening, At, Goto, call, money, tallies
  <1>2. ASSUME NEW r \in Requests, InitLevel(r)
        PROVE  OpenedOnce'
    BY <1>2 DEF InitLevel, OpenedOnce, Opening, At, Goto, call, money, tallies
  <1>3. ASSUME NEW r \in Requests, InitCount(r)
        PROVE  OpenedOnce'
    BY <1>3 DEF InitCount, OpenedOnce, Opening, At, Goto, call, money, tallies
  <1>4. ASSUME NEW r \in Requests, InitBalance(r)
        PROVE  OpenedOnce'
    BY <1>4, HandlerType DEF InitBalance, OpenedOnce, Opening, At, Goto, call
  <1>5. ASSUME NEW r \in Requests, FindSlot(r)
        PROVE  OpensNothing(r)
    BY <1>5, HandlerType DEF FindSlot, OpensNothing, Opening, Goto, slots, call, money, tallies
  <1>6. ASSUME NEW r \in Requests, NEW k \in Kinds, NEW a \in Accounts, NEW u \in Users,
               Arrive(r, k, a, u)
        PROVE  OpensNothing(r)
    BY <1>6 DEF Arrive, OpensNothing, Opening, slots, money, tallies
  <1>7. ASSUME NEW r \in Requests, Deposit(r) \/ Kyc(r)
        PROVE  OpensNothing(r)
    BY <1>7 DEF Deposit, Kyc, SetLevel, KycEnsureUser, KycUpdateLevel, GiveUp,
                OpensNothing, Opening, Goto, Finish, slots, call, money, tallies
  <1>8. ASSUME NEW r \in Requests, Authorize(r)
        PROVE  OpensNothing(r)
    BY <1>8 DEF Authorize, CardEnsureUser, CardFetchState, CardStoreCount, CardStoreLevel,
                CardReadCount, CardReadLevel, Admit, RefuseCurrency, Debit, AuditUpgrade, AuditDeclined, AuditRefusal,
                GiveUp, OpensNothing, Opening, Goto, Finish, slots, call, money, tallies
  <1>9. ASSUME NEW r \in Requests, Conclude(r)
        PROVE  OpensNothing(r)
    BY <1>9 DEF Conclude, Bump, FetchCount, WriteCount, StoreCount, Unbump, RefundBump, Sign,
                AuditApproved, RefundAudit, Uncount, Abandon, Approve, AuditFails,
                OpensNothing, Opening, Goto, Finish, slots, call, money, tallies
  <1>10. CASE UNCHANGED vars
    BY <1>10 DEF vars, slots, call, money, tallies, OpenedOnce
  <1> QED
    BY <1>1, <1>2, <1>3, <1>4, <1>5, <1>6, <1>7, <1>8, <1>9, <1>10, OpensNothingKeeps
    DEF Next, Step, Slot

-----------------------------------------------------------------------------
(* The limit on unverified users, without Supabase.                        *)

(* Requests let past the limit, or about to be, and not yet counted.       *)
Admitted(a) ==
    {r \in Requests :
        /\ account[r] = a
        /\ \/ pc[r] = "card_read_level" /\ ~OverLimit(seenCount[r], "BASIC")
           \/ pc[r] \in {"debit", "bump"} /\ seenLevel[r] = "BASIC"}

(* A request still has to store the first count of account a.              *)
Storing(r, a) == account[r] = a /\ pc[r] \in {"init_level", "init_count"}

Unstored(a) == \E r \in Requests : Storing(r, a)

(* Without Supabase a request stays clear of the steps that await it.      *)
LocalSteps == {"idle", "ensure_slot", "init_level", "init_count", "init_balance", "deposit",
               "set_level", "card_read_count", "card_read_level", "debit", "bump", "sign"}

StaysLocal == \A r \in Requests : pc[r] \in LocalSteps

(* A request that is past ensure_slot found a slot, and a slot nobody      *)
(* claimed has no charges.                                                 *)
SlotFound == \A r \in Requests : pc[r] \notin {"idle", "ensure_slot"} => claimed[account[r]]

FreshSlot == \A a \in Accounts : ~claimed[a] => basicCharged[a] = 0 /\ forgotten[a] = 0

(* The slot's counter is never behind the charges since its first store,   *)
(* and these, with the requests admitted but not counted, stay within      *)
(* bounds.                                                                 *)
Since(a) == basicCharged[a] - forgotten[a]

CountKeepsUp ==
    \A a \in Accounts : basicCharged[a] >= 0 /\ Since(a) <= txCount[a]

RoomForAdmitted ==
    \A a \in Accounts :
        Since(a) + Cardinality(Admitted(a)) <= Limit + Cardinality(Requests) - 1

(* Before that store the storing request is not among the admitted, which  *)
(* leaves room for one charge less; what the store forgets stays so.       *)
RoomWhileStoring ==
    \A a \in Accounts : Unstored(a) =>
        /\ forgotten[a] = 0
        /\ \/ basicCharged[a] + Cardinality(Admitted(a)) = 0
           \/ basicCharged[a] + Cardinality(Admitted(a)) <= Limit + Cardinality(Requests) - 2

ForgottenBounded ==
    \A a \in Accounts : forgotten[a] = 0 \/ forgotten[a] <= Limit + Cardinality(Requests) - 2

Room == CountKeepsUp /\ RoomForAdmitted /\ RoomWhileStoring /\ ForgottenBounded

LInv == RInv /\ StaysLocal /\ SlotFound /\ FreshSlot /\ Room

(* Sets of requests are finite, and no larger than the whole.              *)
LEMMA RequestSets ==
    ASSUME NEW S \in SUBSET Requests
    PROVE  /\ IsFiniteSet(S)
           /\ Cardinality(S) \in Nat
           /\ Cardinality(S) <= Cardinality(Requests)
           /\ \A r \in Requests \ S : Cardinality(S) <= Cardinality(Requests) - 1
  <1>1. IsFiniteSet(S) /\ Cardinality(S) <= Cardinality(Requests)
    BY RequestsAssumption, FS_Subset
  <1>2. Cardinality(S) \in Nat /\ Cardinality(Requests) \in Nat
    BY <1>1, RequestsAssumption, FS_CardinalityType
  <1>3. ASSUME NEW r \in Requests \ S
        PROVE  Cardinality(S) <= Cardinality(Requests) - 1
    <2>1. Cardinality(S \cup {r}) = Cardinality(S) + 1
      BY <1>1, <1>3, FS_AddElement
    <2>2. Cardinality(S \cup {r}) <= Cardinality(Requests)
      BY RequestsAssumption, FS_Subset
    <2> QED
      BY <1>2, <2>1, <2>2
  <1> QED
    BY <1>1, <1>2, <1>3

(* What is counted here: sets of admitted requests, and charges.           *)
LEMMA Countable ==
    ASSUME TypeOK, NEW a \in Accounts
    PROVE  /\ Limit \in Nat /\ Cardinality(Requests) \in Nat /\ Cardinality(Requests) >= 1
           /\ Admitted(a) \in SUBSET Requests
           /\ Cardinality(Admitted(a)) \in Nat
           /\ Cardinality(Admitted(a)) <= Cardinality(Requests)
           /\ basicCharged[a] \in Int /\ forgotten[a] \in Int /\ txCount[a] \in Int
  <1>1. PICK r \in Requests : TRUE
    BY RequestsAssumption
  <1>2. Cardinality({}) <= Cardinality(Requests) - 1 /\ Cardinality({}) = 0
    BY <1>1, RequestSets, FS_EmptySet
  <1>3. Admitted(a) \in SUBSET Requests
    BY DEF Admitted
  <1>4. Cardinality(Requests) \in Nat /\ Limit \in Nat
    BY RequestsAssumption, LimitAssumption, FS_CardinalityType
  <1>5. Cardinality(Requests) >= 1
    BY <1>2, <1>4
  <1>6. basicCharged[a] \in Int /\ forgotten[a] \in Int /\ txCount[a] \in Int
    BY DEF TypeOK
  <1> QED
    BY <1>3, <1>4, <1>5, <1>6, RequestSets

(* No charge and no admitted request at the start.                         *)
LEMMA InitLimit == Init => LInv
  <1> SUFFICES ASSUME Init
               PROVE  LInv
    OBVIOUS
  <1>1. RInv
    BY InitType, InitOpenedOnce DEF RInv
  <1>2. StaysLocal /\ SlotFound /\ FreshSlot
    BY DEF Init, StaysLocal, LocalSteps, SlotFound, FreshSlot
  <1>3. ASSUME NEW a \in Accounts
        PROVE  Since(a) + Cardinality(Admitted(a)) <= Limit + Cardinality(Requests) - 1
    <2>1. Admitted(a) = {} /\ Since(a) = 0
      BY DEF Init, Admitted, Since
    <2>2. Cardinality(Admitted(a)) = 0
      BY <2>1, FS_EmptySet
    <2> QED
      BY <1>1, <2>1, <2>2, Countable DEF RInv, TInv
  <1>4. CountKeepsUp /\ RoomWhileStoring /\ ForgottenBounded
    BY DEF Init, CountKeepsUp, Since, RoomWhileStoring, Unstored, Storing, ForgottenBounded
  <1> QED
    BY <1>1, <1>2, <1>3, <1>4 DEF LInv, Room, RoomForAdmitted

(* A step that touches no count, admits nobody and stores nothing.         *)
Quiet ==
    /\ UNCHANGED <<txCount, basicCharged, forgotten>>
    /\ \A a \in Accounts : Admitted(a)' \subseteq Admitted(a)
    /\ \A a \in Accounts : Unstored(a)' => Unstored(a)

(* Where requests stand, and which slots have charges, after a step.       *)
Placed == StaysLocal' /\ SlotFound' /\ FreshSlot'

(* Without Supabase only three actions touch the count or add a charge,    *)
(* and one starts to initialise a slot.                                    *)
LEMMA LocalStep ==
    ASSUME LInv, [Next]_vars, ~UseDb
    PROVE  /\ Placed
           /\ \/ Quiet
              \/ \E r \in Requests : ClaimSlot(r) \/ InitCount(r) \/ CardReadCount(r) \/ Bump(r)
  <1> USE DEF LInv, RInv, TInv, TypeOK, StaysLocal, SlotFound, FreshSlot, LocalSteps, Quiet, Placed,
          Admitted, Unstored, Storing, At, Goto, Finish, slots, db, call, seen, money, tallies, charges
  <1>1. ASSUME NEW r \in Requests, NEW k \in Kinds, NEW a \in Accounts, NEW u \in Users,
               Arrive(r, k, a, u)
        PROVE  Placed /\ Quiet
    BY <1>1 DEF Arrive
  <1>2. ASSUME NEW k \in Kinds
        PROVE  Handler(k) \in {"deposit", "card_read_count", "set_level"}
    BY DEF Handler, Kinds
  <1>3. ASSUME NEW r \in Requests, FindSlot(r)
        PROVE  Placed /\ Quiet
    BY <1>2, <1>3 DEF FindSlot
  <1>4. ASSUME NEW r \in Requests, ClaimSlot(r)
        PROVE  Placed
    BY <1>4 DEF ClaimSlot
  <1>5. ASSUME NEW r \in Requests, InitLevel(r)
        PROVE  Placed /\ Quiet
    BY <1>5 DEF InitLevel
  <1>6. ASSUME NEW r \in Requests, InitBalance(r)
        PROVE  Placed /\ Quiet
    BY <1>2, <1>6 DEF InitBalance
  <1>7. ASSUME NEW r \in Requests, Deposit(r)
        PROVE  Placed /\ Quiet
    BY <1>7 DEF Deposit
  <1>8. ASSUME NEW r \in Requests, SetLevel(r)
        PROVE  Placed /\ Quiet
    BY <1>8 DEF SetLevel
  <1>9. ASSUME NEW r \in Requests, RefuseCurrency(r)
        PROVE  Placed /\ Quiet
    BY <1>9 DEF RefuseCurrency
  <1>10. ASSUME NEW r \in Requests, Debit(r)
         PROVE  Placed /\ Quiet
    BY <1>10 DEF Debit
  <1>15. ASSUME NEW r \in Requests, CardReadLevel(r)
         PROVE  Placed /\ Quiet
    BY <1>15 DEF CardReadLevel, Admit, OverLimit
  <1>11. ASSUME NEW r \in Requests, Sign(r)
         PROVE  Placed /\ Quiet
    BY <1>11 DEF Sign, Approve
  <1>12. ASSUME NEW r \in Requests, InitCount(r) \/ CardReadCount(r)
         PROVE  Placed
    BY <1>12 DEF InitCount, CardReadCount
  <1>16. ASSUME NEW r \in Requests, Bump(r)
         PROVE  Placed
    BY <1>16 DEF Bump, Charge
  <1>13. ASSUME NEW r \in Requests,
                \/ KycEnsureUser(r) \/ KycUpdateLevel(r)
                \/ CardEnsureUser(r) \/ CardFetchState(r) \/ CardStoreCount(r) \/ CardStoreLevel(r)
                \/ AuditUpgrade(r) \/ AuditDeclined(r)
                \/ FetchCount(r) \/ WriteCount(r) \/ StoreCount(r) \/ Unbump(r) \/ RefundBump(r)
                \/ AuditApproved(r) \/ RefundAudit(r) \/ Uncount(r)
         PROVE  FALSE
    BY <1>13 DEF KycEnsureUser, KycUpdateLevel, CardEnsureUser, CardFetchState, CardStoreCount,
                 CardStoreLevel, AuditUpgrade, AuditDeclined, AuditRefusal, FetchCount, WriteCount, StoreCount,
                 Unbump, RefundBump, AuditApproved, RefundAudit, Uncount
  <1>14. CASE UNCHANGED vars
    BY <1>14 DEF vars
  <1> QED
    BY <1>1, <1>3, <1>4, <1>5, <1>6, <1>7, <1>8, <1>9, <1>10, <1>11, <1>12, <1>13, <1>14, <1>15,
       <1>16
    DEF Next, Step, Slot, Kyc, Authorize, Conclude

(* What holds of one account after a step.                                 *)
RoomOf(a) ==
    LET N == Cardinality(Requests)
        admitted == Cardinality(Admitted(a))
    IN  /\ basicCharged[a] >= 0 /\ Since(a) <= txCount[a]
        /\ Since(a) + admitted <= Limit + N - 1
        /\ Unstored(a) =>
              /\ forgotten[a] = 0
              /\ basicCharged[a] + admitted = 0 \/ basicCharged[a] + admitted <= Limit + N - 2
        /\ forgotten[a] = 0 \/ forgotten[a] <= Limit + N - 2

(* Room, account by account.                                               *)
LEMMA RoomByAccount ==
    /\ Room <=> \A a \in Accounts : RoomOf(a)
    /\ Room' <=> \A a \in Accounts : RoomOf(a)'
  BY DEF Room, RoomOf, CountKeepsUp, RoomForAdmitted, RoomWhileStoring, ForgottenBounded

(* A quiet step leaves at least as much room.                              *)
LEMMA QuietKeepsRoom ==
    ASSUME TypeOK, TypeOK', NEW a \in Accounts, RoomOf(a), Quiet
    PROVE  RoomOf(a)'
  <1>1. Cardinality(Admitted(a)') <= Cardinality(Admitted(a))
    BY Countable, RequestSets, FS_Subset DEF Quiet
  <1>2. Cardinality(Admitted(a)') \in Nat /\ Cardinality(Admitted(a)) \in Nat
    <2>1. Admitted(a)' \in SUBSET Requests
      BY DEF Admitted
    <2> QED
      BY <2>1, Countable, RequestSets
  <1> DEFINE n == Cardinality(Admitted(a))
             m == Cardinality(Admitted(a)')
  <1>3. /\ basicCharged'[a] = basicCharged[a] /\ forgotten'[a] = forgotten[a]
        /\ txCount'[a] = txCount[a]
        /\ Unstored(a)' => Unstored(a)
    BY DEF Quiet
  <1>4. RoomOf(a)' <=>
          /\ basicCharged'[a] >= 0 /\ basicCharged'[a] - forgotten'[a] <= txCount'[a]
          /\ basicCharged'[a] - forgotten'[a] + m <= Limit + Cardinality(Requests) - 1
          /\ Unstored(a)' =>
              /\ forgotten'[a] = 0
              /\ \/ basicCharged'[a] + m = 0
                 \/ basicCharged'[a] + m <= Limit + Cardinality(Requests) - 2
          /\ forgotten'[a] = 0 \/ forgotten'[a] <= Limit + Cardinality(Requests) - 2
    BY DEF RoomOf, Since
  <1>5. /\ basicCharged[a] >= 0 /\ basicCharged[a] - forgotten[a] <= txCount[a]
        /\ basicCharged[a] - forgotten[a] + n <= Limit + Cardinality(Requests) - 1
        /\ Unstored(a) =>
              /\ forgotten[a] = 0
              /\ \/ basicCharged[a] + n = 0
                 \/ basicCharged[a] + n <= Limit + Cardinality(Requests) - 2
        /\ forgotten[a] = 0 \/ forgotten[a] <= Limit + Cardinality(Requests) - 2
    BY DEF RoomOf, Since
  <1>6. n \in Nat /\ m \in Nat /\ m <= n
    BY <1>1, <1>2
  <1>7. /\ Limit \in Nat /\ Cardinality(Requests) \in Nat
        /\ basicCharged[a] \in Int /\ forgotten[a] \in Int
    BY Countable
  <1> HIDE DEF n, m
  <1> QED
    BY <1>3, <1>4, <1>5, <1>6, <1>7

(* The count keeps up with the charges, and room is left for the admitted. *)
LEMMA StepKeepsLimit ==
    ASSUME LInv, [Next]_vars, ~UseDb
    PROVE  LInv'
  <1>0. TypeOK /\ OpenedOnce /\ SlotFound /\ FreshSlot /\ \A a \in Accounts : RoomOf(a)
    BY RoomByAccount DEF LInv, RInv, TInv
  <1>1. RInv' /\ TypeOK' /\ StaysLocal' /\ SlotFound' /\ FreshSlot'
    BY StepKeepsType, StepKeepsOpenedOnce, LocalStep DEF LInv, RInv, TInv, Placed
  <1> SUFFICES ASSUME NEW a \in Accounts
               PROVE  RoomOf(a)'
    BY <1>1, RoomByAccount DEF LInv
  <1> DEFINE n == Cardinality(Admitted(a))
             m == Cardinality(Admitted(a)')
             N == Cardinality(Requests)
  <1>2. /\ basicCharged[a] >= 0 /\ basicCharged[a] - forgotten[a] <= txCount[a]
        /\ basicCharged[a] - forgotten[a] + n <= Limit + N - 1
        /\ Unstored(a) =>
              /\ forgotten[a] = 0
              /\ basicCharged[a] + n = 0 \/ basicCharged[a] + n <= Limit + N - 2
        /\ forgotten[a] = 0 \/ forgotten[a] <= Limit + N - 2
    BY <1>0 DEF RoomOf, Since
  <1>3. ASSUME /\ basicCharged'[a] >= 0 /\ basicCharged'[a] - forgotten'[a] <= txCount'[a]
               /\ basicCharged'[a] - forgotten'[a] + m <= Limit + N - 1
               /\ Unstored(a)' =>
                     /\ forgotten'[a] = 0
                     /\ basicCharged'[a] + m = 0 \/ basicCharged'[a] + m <= Limit + N - 2
               /\ forgotten'[a] = 0 \/ forgotten'[a] <= Limit + N - 2
        PROVE  RoomOf(a)'
    BY <1>3 DEF RoomOf, Since
  <1>4. /\ Limit \in Nat /\ N \in Nat /\ N >= 1
        /\ Admitted(a) \in SUBSET Requests /\ n \in Nat /\ n <= N
        /\ basicCharged[a] \in Int /\ forgotten[a] \in Int /\ txCount[a] \in Int
    BY <1>0, Countable
  <1>5. Admitted(a)' \in SUBSET Requests
    BY DEF Admitted
  <1>6. /\ m \in Nat /\ m <= N
        /\ \A r \in Requests : r \notin Admitted(a)' => m <= N - 1
        /\ \A r \in Requests : r \notin Admitted(a) => n <= N - 1
    BY <1>4, <1>5, RequestSets
  <1>7. ASSUME Admitted(a)' = Admitted(a)
        PROVE  m = n
    BY <1>7
  <1>8. CASE Quiet
    BY <1>0, <1>1, <1>8, QuietKeepsRoom
  <1> HIDE DEF n, m, N
  <1>9. ASSUME NEW r \in Requests, ClaimSlot(r)
        PROVE  RoomOf(a)'
    <2>1. /\ UNCHANGED <<txCount, basicCharged, forgotten, account>> /\ Admitted(a)' = Admitted(a)
          /\ ~claimed[account[r]]
          /\ Unstored(a)' => Unstored(a) \/ a = account[r]
      BY <1>0, <1>9
      DEF ClaimSlot, Admitted, Unstored, Storing, At, Goto, TypeOK, call, seen, charges
    <2>2. CASE a = account[r]
      <3>1. basicCharged[a] = 0 /\ forgotten[a] = 0
        BY <1>0, <2>1, <2>2 DEF FreshSlot
      <3>2. Admitted(a) = {}
        BY <1>0, <2>1, <2>2 DEF SlotFound, Admitted
      <3>3. n = 0
        BY <3>2, FS_EmptySet DEF n
      <3> QED
        BY <1>2, <1>3, <1>4, <1>7, <2>1, <3>1, <3>3
    <2>3. CASE a # account[r]
      BY <1>2, <1>3, <1>7, <2>1, <2>3
    <2> QED
      BY <2>2, <2>3
  <1>10. ASSUME NEW r \in Requests, InitCount(r)
         PROVE  RoomOf(a)'
    <2>1. /\ Admitted(a)' = Admitted(a) /\ r \notin Admitted(a)
          /\ basicCharged' = basicCharged
          /\ \A q \in Requests : Storing(q, a)' => Storing(q, a) /\ q # r
          /\ Unstored(a)' => Unstored(a)
          /\ Storing(r, account[r]) /\ Unstored(account[r])
      BY <1>0, <1>10 DEF InitCount, Admitted, Unstored, Storing, At, Goto, TypeOK, call, seen
    <2>2. CASE a = account[r]
      <3>1. forgotten'[a] = basicCharged[a] /\ txCount'[a] = 0
        BY <1>0, <1>10, <2>2 DEF InitCount, TypeOK
      <3>2. ~Unstored(a)'
        BY <1>0, <2>1, <2>2 DEF Unstored, Storing, OpenedOnce, Opening
      <3>3. m <= N - 1 /\ m = n
        BY <1>6, <1>7, <2>1
      <3>4. basicCharged[a] = 0 \/ basicCharged[a] <= Limit + N - 2
        BY <1>2, <1>4, <2>1, <2>2
      <3> QED
        BY <1>2, <1>3, <1>4, <1>6, <2>1, <3>1, <3>2, <3>3, <3>4
    <2>3. CASE a # account[r]
      <3>1. forgotten'[a] = forgotten[a] /\ txCount'[a] = txCount[a]
        BY <1>0, <1>10, <2>3 DEF InitCount, TypeOK
      <3> QED
        BY <1>2, <1>3, <1>7, <2>1, <3>1
    <2> QED
      BY <2>2, <2>3
  <1>11. ASSUME NEW r \in Requests, CardReadCount(r)
         PROVE  RoomOf(a)'
    <2>1. /\ UNCHANGED <<txCount, basicCharged, forgotten, account>>
          /\ Unstored(a)' => Unstored(a)
          /\ Unstored(a) => \E q \in Requests : q \notin Admitted(a)'
      BY <1>0, <1>11 DEF CardReadCount, Unstored, Storing, Admitted, At, Goto, TypeOK, slots, call, charges
    <2>2. CASE r \in Admitted(a)'
      <3>1. a = account[r] /\ ~OverLimit(txCount[a], "BASIC")
        BY <1>0, <1>11, <2>2 DEF CardReadCount, Admitted, At, Goto, TypeOK, call
      <3>2. basicCharged[a] - forgotten[a] <= Limit - 1
        BY <1>2, <1>4, <3>1 DEF OverLimit
      <3>3. Unstored(a)' => forgotten[a] = 0 /\ m <= N - 1
        BY <1>2, <1>6, <2>1
      <3> QED
        BY <1>2, <1>3, <1>4, <1>6, <2>1, <3>2, <3>3
    <2>3. CASE r \notin Admitted(a)'
      <3>2. Admitted(a)' \subseteq Admitted(a)
        BY <1>0, <1>11, <2>3 DEF CardReadCount, Admitted, At, Goto, TypeOK, call
      <3>3. m <= n
        BY <1>4, <3>2, RequestSets, FS_Subset DEF n, m
      <3>4. /\ basicCharged'[a] = basicCharged[a] /\ forgotten'[a] = forgotten[a]
            /\ txCount'[a] = txCount[a]
        BY <2>1
      <3>a. /\ basicCharged[a] \in Int /\ forgotten[a] \in Int /\ basicCharged[a] >= 0
            /\ n \in Nat /\ m \in Nat /\ Limit \in Nat /\ N \in Nat
        BY <1>2, <1>4, <1>6
      <3>5. basicCharged[a] + n = 0 => basicCharged[a] + m = 0
        <4>1. ASSUME NEW x \in Int, NEW y \in Nat, NEW z \in Nat, x >= 0, z <= y, x + y = 0
              PROVE  x + z = 0
          BY ONLY <4>1
        <4> QED
          BY <3>3, <3>a, <4>1
      <3>6. basicCharged[a] + n <= Limit + N - 2 => basicCharged[a] + m <= Limit + N - 2
        BY <3>3, <3>a
      <3>7. basicCharged[a] - forgotten[a] + m <= Limit + N - 1
        <4>1. basicCharged[a] - forgotten[a] + n <= Limit + N - 1
          BY <1>2
        <4> QED
          BY <3>3, <3>a, <4>1
      <3>8. Unstored(a)' =>
               /\ forgotten[a] = 0
               /\ basicCharged[a] + m = 0 \/ basicCharged[a] + m <= Limit + N - 2
        BY <1>2, <2>1, <3>5, <3>6, Zenon
      <3> QED
        BY <1>2, <1>3, <3>4, <3>7, <3>8, Zenon
    <2> QED
      BY <2>2, <2>3
  <1>12. ASSUME NEW r \in Requests, Bump(r)
         PROVE  RoomOf(a)'
    <2> USE <1>0 DEF Bump, Charge, At, Goto, TypeOK, call, seen
    <2>1. /\ UNCHANGED <<forgotten, account>>
          /\ Unstored(a)' => Unstored(a)
      BY <1>12 DEF Unstored, Storing
    <2>2. CASE r \in Admitted(a)
      <3>1. Admitted(a)' = Admitted(a) \ {r}
        BY <1>12, <2>2 DEF Admitted
      <3>2. m = n - 1
        BY <1>4, <2>2, <3>1, RequestSets, FS_RemoveElement DEF n, m
      <3>3. basicCharged'[a] = basicCharged[a] + 1 /\ txCount'[a] = txCount[a] + 1
        BY <1>12, <2>2 DEF Admitted
      <3>4. basicCharged'[a] + m = basicCharged[a] + n
        BY <1>4, <3>2, <3>3
      <3> HIDE DEF Bump, Charge, At, Goto, TypeOK, call, seen
      <3> QED
        BY <1>2, <1>3, <1>4, <1>6, <2>1, <3>2, <3>3, <3>4
    <2>3. CASE r \notin Admitted(a)
      <3>1. Admitted(a)' = Admitted(a)
        BY <1>12, <2>3 DEF Admitted
      <3>2. basicCharged'[a] = basicCharged[a] /\ (txCount'[a] = txCount[a] \/ txCount'[a] = txCount[a] + 1)
        BY <1>12, <2>3 DEF Admitted
      <3> HIDE DEF Bump, Charge, At, Goto, TypeOK, call, seen
      <3> QED
        BY <1>2, <1>3, <1>4, <1>7, <2>1, <3>1, <3>2
    <2> QED
      BY <2>2, <2>3
  <1> QED
    BY <1>8, <1>9, <1>10, <1>11, <1>12, LocalStep

(* With the counters in memory, N requests in flight charge an unverified  *)
(* account at most N - 1 times more than SHARED_KYC_LIMIT_TX_COUNT; on its *)
(* first use, that and the at most Limit + N - 2 charges that the store of *)
(* the first count forgets.                                                *)
THEOREM LimitOvershootIsBounded ==
    ASSUME ~UseDb
    PROVE  Spec => []LimitOvershootBounded
  <1>1. LInv => LimitOvershootBounded
    <2> SUFFICES ASSUME LInv, NEW a \in Accounts
                 PROVE  /\ forgotten[a] = 0 \/ forgotten[a] <= Limit + Cardinality(Requests) - 2
                        /\ basicCharged[a] <= forgotten[a] + Limit + Cardinality(Requests) - 1
      BY DEF LimitOvershootBounded
    <2>1. TypeOK /\ RoomOf(a)
      BY RoomByAccount DEF LInv, RInv, TInv
    <2>2. basicCharged[a] - forgotten[a] + Cardinality(Admitted(a)) <= Limit + Cardinality(Requests) - 1
      BY <2>1 DEF RoomOf, Since
    <2>3. forgotten[a] = 0 \/ forgotten[a] <= Limit + Cardinality(Requests) - 2
      BY <2>1 DEF RoomOf
    <2> QED
      BY <2>1, <2>2, <2>3, Countable
  <1>2. LInv /\ [Next]_vars => LInv'
    BY StepKeepsLimit
  <1> QED
    BY <1>1, <1>2, InitLimit, PTL DEF Spec

-----------------------------------------------------------------------------
(* Which step of the ledger a step of the handlers is.                     *)

(* The store of the initial balance opens the account.                     *)
LEMMA InitBalanceOpens ==
    ASSUME RInv, NEW r \in Requests, InitBalance(r)
    PROVE  Ledger!Open(account[r])
  <1> USE DEF RInv, TInv, TypeOK
  <1>1. ReservesNothing(r)
    BY HandlerType DEF InitBalance, ReservesNothing, OthersKept, Held, Holding, At, Goto, call
  <1> QED
    BY <1>1, ReservedKept DEF InitBalance, OpenedOnce, Opening, At, Ledger!Open

(* The store of a balance is the ledger's store of what is available.      *)
LEMMA StoreIsStore ==
    ASSUME NEW a \in Accounts, NEW x, StoreBalance(a, x)
    PROVE  Ledger!Store(a, x)
  BY DEF StoreBalance, WrapI64, Laps, Ledger!Store, Ledger!WrapI64, Ledger!Laps

(* A deposit request deposits.                                             *)
LEMMA DepositDeposits ==
    ASSUME RInv, NEW r \in Requests, Deposit(r)
    PROVE  \E t \in Totals : Ledger!Deposit(account[r], t)
  <1> USE DEF RInv, TInv, TypeOK
  <1>1. ReservesNothing(r)
    BY DEF Deposit, ReservesNothing, OthersKept, Held, Holding, At, Finish, call
  <1>2. PICK t \in Totals :
           /\ StoreBalance(account[r], balance[account[r]] + t)
           /\ deposited' = [deposited EXCEPT ![account[r]] = @ + t]
    BY DEF Deposit, CreditAccount
  <1>3. Ledger!Store(account[r], balance[account[r]] + t)
    BY <1>2, StoreIsStore
  <1>4. UNCHANGED <<Reserved, spent, abandoned, wiped, opened>>
    BY <1>1, ReservedKept DEF Deposit
  <1> QED
    BY <1>2, <1>3, <1>4 DEF Ledger!Deposit

(* Either the balance covers the amount and the request reserves it, or    *)
(* nothing moves.                                                          *)
LEMMA DebitReserves ==
    ASSUME RInv, NEW r \in Requests, Debit(r)
    PROVE  (\E t \in Totals : Ledger!Reserve(r, account[r], t)) \/ QuietStep(r)
  <1> USE DEF RInv, TInv, TypeOK
  <1>1. PICK t \in Totals :
          \/ /\ Covers(account[r], t)
             /\ StoreBalance(account[r], balance[account[r]] - t)
             /\ total' = [total EXCEPT ![r] = t]
             /\ Goto(r, "bump")
          \/ /\ ~Covers(account[r], t)
             /\ UNCHANGED <<balance, laps, total>>
             /\ \/ UseDb /\ Goto(r, "audit_declined")
                \/ ~UseDb /\ Finish(r, "declined")
    BY DEF Debit
  <1>2. At(r, "debit") /\ UNCHANGED <<account, tallies>>
    BY DEF Debit, call
  <1>3. CASE Covers(account[r], t)
    <2>1. MoneyStep(r) /\ Held(r) = 0 /\ Held(r)' = t
      BY <1>1, <1>2, <1>3 DEF MoneyStep, OthersKept, Held, Holding, At, Goto
    <2>2. Reserved[r] = [a \in Accounts |-> 0] /\ Reserved' = [Reserved EXCEPT ![r][account[r]] = t]
      BY <2>1, ReservedHere, ReservedChanged
    <2>3. Ledger!Store(account[r], balance[account[r]] - t)
      BY <1>1, <1>3, StoreIsStore
    <2> QED
      BY <1>2, <1>3, <2>2, <2>3 DEF Covers, tallies, Ledger!Reserve, Ledger!Nothing
  <1>4. CASE ~Covers(account[r], t)
    BY <1>1, <1>2, <1>4
    DEF QuietStep, ReservesNothing, OthersKept, Held, Holding, At, Goto, Finish, money
  <1> QED
    BY <1>3, <1>4

(* The reservation of an answered approval is spent.                       *)
LEMMA ApproveSpends ==
    ASSUME RInv, NEW r \in Requests, pc[r] \in Holding, Approve(r),
           UNCHANGED <<balance, account, total>>
    PROVE  Ledger!Spend(r, account[r])
  <1> USE DEF RInv, TInv, TypeOK
  <1>1. MoneyStep(r) /\ Held(r) = total[r] /\ Held(r)' = 0
    BY DEF MoneyStep, OthersKept, Held, Holding, Approve, Finish
  <1>2. Reserved[r][account[r]] = total[r] /\ Reserved' = [Reserved EXCEPT ![r][account[r]] = 0]
    BY <1>1, ReservedHere, ReservedChanged
  <1> QED
    BY <1>2 DEF Approve, Ledger!Spend

(* The reservation of a dropped request is abandoned.                      *)
LEMMA AbandonAbandons ==
    ASSUME RInv, NEW r \in Requests, NEW o, pc[r] \in Holding, Abandon(r, o),
           UNCHANGED <<balance, account, total>>
    PROVE  Ledger!Abandon(r, account[r])
  <1> USE DEF RInv, TInv, TypeOK
  <1>1. MoneyStep(r) /\ Held(r) = total[r] /\ Held(r)' = 0
    BY DEF MoneyStep, OthersKept, Held, Holding, Abandon, Finish
  <1>2. Reserved[r][account[r]] = total[r] /\ Reserved' = [Reserved EXCEPT ![r][account[r]] = 0]
    BY <1>1, ReservedHere, ReservedChanged
  <1> QED
    BY <1>2 DEF Abandon, Ledger!Abandon

(* The credit that undoes a debit releases the reservation.                *)
LEMMA CreditReleases ==
    ASSUME RInv, NEW r \in Requests, pc[r] \in Holding, pc'[r] \notin Holding,
           CreditAccount(r, total[r]), OthersKept(r), UNCHANGED <<account, total, tallies>>
    PROVE  Ledger!Release(r, account[r])
  <1> USE DEF RInv, TInv, TypeOK
  <1>1. MoneyStep(r) /\ Held(r) = total[r] /\ Held(r)' = 0
    BY DEF MoneyStep, Held
  <1>2. Reserved[r][account[r]] = total[r] /\ Reserved' = [Reserved EXCEPT ![r][account[r]] = 0]
    BY <1>1, ReservedHere, ReservedChanged
  <1> QED
    BY <1>2, StoreIsStore DEF CreditAccount, tallies, Ledger!Release

-----------------------------------------------------------------------------

(* Every step of the handlers is a step of the ledger or a stutter.        *)
LEMMA StepImplementsLedger ==
    ASSUME RInv, [Next]_vars
    PROVE  [Ledger!Next]_(Ledger!lvars)
  <1> USE DEF RInv, TInv, TypeOK
  <1>1. ASSUME NEW r \in Requests, Slot(r), ~InitBalance(r)
        PROVE  QuietStep(r)
    BY <1>1, HandlerType
    DEF Slot, FindSlot, ClaimSlot, InitLevel, InitCount, QuietStep, ReservesNothing,
        OthersKept, Held, Holding, At, Goto, slots, call, money, tallies
  <1>2. ASSUME NEW r \in Requests, NEW k \in Kinds, NEW a \in Accounts, NEW u \in Users,
               Arrive(r, k, a, u)
        PROVE  QuietStep(r)
    BY <1>2 DEF Arrive, QuietStep, ReservesNothing, OthersKept, Held, Holding, At, slots
  <1>3. ASSUME NEW r \in Requests, Kyc(r)
        PROVE  QuietStep(r)
    BY <1>3
    DEF Kyc, SetLevel, KycEnsureUser, KycUpdateLevel, GiveUp, QuietStep, ReservesNothing,
        OthersKept, Held, Holding, At, Goto, Finish, slots, call
  <1>4. ASSUME NEW r \in Requests, Authorize(r), ~Debit(r)
        PROVE  QuietStep(r)
    BY <1>4
    DEF Authorize, CardEnsureUser, CardFetchState, CardStoreCount, CardStoreLevel,
        CardReadCount, CardReadLevel, Admit,
        RefuseCurrency, AuditUpgrade, AuditDeclined, AuditRefusal, GiveUp, QuietStep,
        ReservesNothing, OthersKept, Held, Holding, At, Goto, Finish, slots, call
  <1>5. ASSUME NEW r \in Requests, Bump(r) \/ StoreCount(r) \/ Unbump(r) \/ Uncount(r)
        PROVE  QuietStep(r)
    BY <1>5
    DEF Bump, StoreCount, Unbump, Uncount, QuietStep, ReservesNothing, OthersKept, Held,
        Holding, At, Goto, Finish, slots, call
  <1>6. ASSUME NEW r \in Requests, FetchCount(r) \/ WriteCount(r)
        PROVE  QuietStep(r) \/ Ledger!Abandon(r, account[r])
    <2>1. CASE \E o \in Outcomes : Abandon(r, o)
      BY <1>6, <2>1, AbandonAbandons
      DEF FetchCount, WriteCount, Holding, At, slots, call
    <2>2. CASE ~\E o \in Outcomes : Abandon(r, o)
      BY <1>6, <2>2
      DEF FetchCount, WriteCount, Outcomes, QuietStep, ReservesNothing, OthersKept, Held,
          Holding, At, Goto, slots, call
    <2> QED
      BY <2>1, <2>2
  <1>7. ASSUME NEW r \in Requests, Sign(r)
        PROVE  QuietStep(r) \/ Ledger!Spend(r, account[r])
    <2>1. CASE Approve(r)
      BY <1>7, <2>1, ApproveSpends DEF Sign, Holding, At, slots, call
    <2>2. CASE ~Approve(r)
      BY <1>7, <2>2
      DEF Sign, QuietStep, ReservesNothing, OthersKept, Held, Holding, At, Goto, slots, call
    <2> QED
      BY <2>1, <2>2
  <1>8. ASSUME NEW r \in Requests, AuditApproved(r)
        PROVE  QuietStep(r) \/ Ledger!Spend(r, account[r]) \/ Ledger!Abandon(r, account[r])
    <2>1. PICK o \in Outcomes : \/ o = "ok" /\ Approve(r)
                                \/ AuditFails(r, o)
                                \/ Abandon(r, o)
      BY <1>8 DEF AuditApproved
    <2>2. pc[r] \in Holding /\ UNCHANGED <<balance, account, total>>
      BY <1>8 DEF AuditApproved, At, Holding, slots, call
    <2>3. CASE AuditFails(r, o)
      BY <1>8, <2>2, <2>3
      DEF AuditFails, AuditApproved, QuietStep, ReservesNothing, OthersKept, Held, Holding,
          Goto, slots, call
    <2> QED
      BY <2>1, <2>2, <2>3, ApproveSpends, AbandonAbandons
  <1>9. ASSUME NEW r \in Requests, RefundBump(r) \/ RefundAudit(r)
        PROVE  Ledger!Release(r, account[r])
    <2>1. pc[r] \in Holding /\ pc'[r] \notin Holding
      BY <1>9 DEF RefundBump, RefundAudit, At, Goto, Finish, Holding
    <2>2. CreditAccount(r, total[r]) /\ OthersKept(r) /\ UNCHANGED <<account, total, tallies>>
      BY <1>9 DEF RefundBump, RefundAudit, OthersKept, Goto, Finish, call
    <2> QED
      BY <2>1, <2>2, CreditReleases
  <1>10. ASSUME NEW r \in Requests
         PROVE  account[r] \in Accounts
    OBVIOUS
  <1>11. CASE UNCHANGED vars
    BY <1>11
    DEF vars, slots, call, money, tallies, Reserved, Held, Ledger!lvars
  <1>12. ASSUME NEW r \in Requests, QuietStep(r)
         PROVE  UNCHANGED Ledger!lvars
    BY <1>12, QuietIsStutter
  <1>13. ASSUME NEW r \in Requests, Conclude(r)
         PROVE  [Ledger!Next]_(Ledger!lvars)
    BY <1>13, <1>5, <1>6, <1>7, <1>8, <1>9, <1>10, <1>12 DEF Conclude, Ledger!Next
  <1>14. ASSUME NEW r \in Requests, Slot(r) \/ Deposit(r) \/ Kyc(r) \/ Authorize(r)
         PROVE  [Ledger!Next]_(Ledger!lvars)
    BY <1>14, <1>1, <1>3, <1>4, <1>10, <1>12, InitBalanceOpens, DepositDeposits, DebitReserves
    DEF Ledger!Next
  <1> QED
    BY <1>2, <1>11, <1>12, <1>13, <1>14 DEF Next, Step

(* No account is opened twice, in any behaviour.                           *)
THEOREM OpenedOnceHolds == Spec => []RInv
  <1>1. Init => RInv
    BY InitType, InitOpenedOnce DEF RInv
  <1>2. RInv /\ [Next]_vars => RInv'
    BY StepKeepsType, StepKeepsOpenedOnce DEF RInv
  <1> QED
    BY <1>1, <1>2, PTL DEF Spec

(* The handlers implement the ledger: a debit is spent, credited back or   *)
(* abandoned once, whatever fails and however the requests interleave.     *)
THEOREM GateImplementsLedger == Spec => ImplementsLedger
  <1>1. Init => Ledger!Init
    BY DEF Init, Reserved, Held, Holding, Ledger!Init, Ledger!Nothing
  <1>2. RInv /\ [Next]_vars => [Ledger!Next]_(Ledger!lvars)
    BY StepImplementsLedger
  <1> QED
    BY <1>1, <1>2, OpenedOnceHolds, PTL DEF Spec, ImplementsLedger, Ledger!Spec

-----------------------------------------------------------------------------
(* Every unit is in one place: what the ledger's steps do to its sums.     *)

(* What the requests hold of account a, by a table of reservations.        *)
HeldOf(table, a) == SumFunction([r \in Requests |-> table[r][a]])

(* What request r holds of account a becomes t, and nothing else changes.  *)
OneChange(table, after, r, a, t) ==
    \A q \in Requests, b \in Accounts :
        after[q][b] = IF q = r /\ b = a THEN t ELSE table[q][b]

(* A change of one reservation changes what is held of its account by as   *)
(* much, and of no other account.                                          *)
LEMMA HeldChange ==
    ASSUME NEW table \in [Requests -> [Accounts -> Int]], NEW r \in Requests,
           NEW a \in Accounts, NEW t \in Int, NEW b \in Accounts, NEW after,
           OneChange(table, after, r, a, t)
    PROVE  HeldOf(after, b)
               = IF b = a THEN HeldOf(table, b) + t - table[r][b] ELSE HeldOf(table, b)
  <1> DEFINE f == [q \in Requests |-> table[q][b]]
             g == [q \in Requests |-> after[q][b]]
  <1>1. /\ f[r] = table[r][b]
        /\ g[r] = IF b = a THEN t ELSE table[r][b]
    BY DEF OneChange
  <1>a. \A q \in Requests : f[q] \in Int /\ g[q] \in Int
    BY DEF OneChange
  <1>b. \A q \in Requests \ {r} : g[q] = f[q]
    BY DEF OneChange
  <1>c. IsFiniteSet(Requests)
    BY RequestsAssumption
  <1>2. HeldOf(table, b) = SumFunctionOnSet(f, Requests)
    BY DEF HeldOf, SumFunction
  <1>3. HeldOf(after, b) = SumFunctionOnSet(g, Requests)
    BY DEF HeldOf, SumFunction
  <1> HIDE DEF f, g
  <1>4. SumFunctionOnSet(g, Requests) = SumFunctionOnSet(f, Requests) + g[r] - f[r]
    BY <1>a, <1>b, <1>c, SumChange
  <1>5. SumFunctionOnSet(f, Requests) \in Int
    BY <1>a, <1>c, SumIsInteger
  <1> QED
    BY <1>1, <1>a, <1>2, <1>3, <1>4, <1>5

(* The reservations are amounts, and so is what is held of an account.     *)
LEMMA HeldType ==
    ASSUME TypeOK
    PROVE  /\ Reserved \in [Requests -> [Accounts -> Int]]
           /\ \A a \in Accounts : HeldOf(Reserved, a) \in Int
  <1>1. Reserved \in [Requests -> [Accounts -> Int]]
    BY DEF Reserved, Held, TypeOK, I64
  <1>2. ASSUME NEW a \in Accounts
        PROVE  HeldOf(Reserved, a) \in Int
    <2> DEFINE f == [r \in Requests |-> Reserved[r][a]]
    <2>1. \A r \in Requests : f[r] \in Int
      BY <1>1
    <2>2. HeldOf(Reserved, a) = SumFunctionOnSet(f, Requests)
      BY DEF HeldOf, SumFunction
    <2> HIDE DEF f
    <2> QED
      BY <2>1, <2>2, RequestsAssumption, SumIsInteger
  <1> QED
    BY <1>1, <1>2

(* Conservation, account by account.                                       *)
Balanced(a) ==
    deposited[a] = balance[a] + 2 * Half * laps[a] + spent[a] + abandoned[a] + wiped[a]
                        + HeldOf(Reserved, a)

(* What a store of x changes: exactly what x differs from the balance by.  *)
LEMMA StoreExact ==
    ASSUME TypeOK, NEW a \in Accounts, NEW b \in Accounts, NEW t \in I64,
           NEW x \in {balance[b] + t, balance[b] - t}, Ledger!Store(b, x)
    PROVE  /\ balance'[a] \in Int /\ laps'[a] \in Int
           /\ balance'[a] + 2 * Half * laps'[a]
                  = IF a = b THEN x + 2 * Half * laps[b] ELSE balance[a] + 2 * Half * laps[a]
  <1>1. balance[b] \in I64 /\ laps[b] \in Int /\ balance[a] \in Int /\ laps[a] \in Int
    BY DEF TypeOK, I64
  <1>2. /\ WrapI64(x) \in I64 /\ Laps(x) \in Int /\ x \in Int
        /\ WrapI64(x) + 2 * Half * Laps(x) = x
    BY <1>1, WrapFits
  <1>3. /\ balance' = [balance EXCEPT ![b] = WrapI64(x)]
        /\ laps' = [laps EXCEPT ![b] = laps[b] + Laps(x)]
    BY DEF Ledger!Store, Ledger!WrapI64, Ledger!Laps, WrapI64, Laps
  <1>4. WrapI64(x) \in Int
    BY <1>2 DEF I64
  <1>5. CASE a = b
    <2>1. balance'[a] = WrapI64(x) /\ laps'[a] = laps[b] + Laps(x)
      BY <1>3, <1>5 DEF TypeOK
    <2>2. 2 * Half * (laps[b] + Laps(x)) = 2 * Half * laps[b] + 2 * Half * Laps(x)
      BY <1>1, <1>2, HalfAssumption
    <2>3. 2 * Half * laps[b] \in Int /\ 2 * Half * Laps(x) \in Int
      BY <1>1, <1>2, HalfAssumption
    <2> QED
      BY <1>1, <1>2, <1>4, <1>5, <2>1, <2>2, <2>3
  <1>6. CASE a # b
    <2>1. balance'[a] = balance[a] /\ laps'[a] = laps[a]
      BY <1>3, <1>6 DEF TypeOK
    <2> QED
      BY <1>1, <1>6, <2>1
  <1> QED
    BY <1>5, <1>6

(* Every step of the ledger keeps every account balanced.                  *)
LEMMA LedgerStepBalances ==
    ASSUME TypeOK, NEW a \in Accounts, Balanced(a), Ledger!Next
    PROVE  Balanced(a)'
  <1> DEFINE H == HeldOf(Reserved, a)
             B == balance[a] + 2 * Half * laps[a]
             After == balance'[a] + 2 * Half * laps'[a]
  <1>0. H \in Int /\ Reserved \in [Requests -> [Accounts -> Int]]
    BY HeldType
  <1>1. HeldOf(Reserved, a)' = HeldOf(Reserved', a)
    BY DEF HeldOf
  <1>2. ASSUME UNCHANGED Reserved
        PROVE  HeldOf(Reserved', a) = H
    BY <1>2
  <1>3. ASSUME NEW r \in Requests, NEW b \in Accounts, NEW t \in Int,
               Reserved' = [Reserved EXCEPT ![r][b] = t]
        PROVE  HeldOf(Reserved', a) = IF a = b THEN H + t - Reserved[r][a] ELSE H
    <2>1. OneChange(Reserved, Reserved', r, b, t)
      BY <1>0, <1>3 DEF OneChange
    <2>2. Reserved \in [Requests -> [Accounts -> Int]]
      BY <1>0
    <2> QED
      BY <2>1, <2>2, HeldChange
  <1>4. deposited[a] = B + spent[a] + abandoned[a] + wiped[a] + H
    BY DEF Balanced
  <1>5. Balanced(a)' <=> deposited'[a] = After + spent'[a] + abandoned'[a] + wiped'[a]
                                            + HeldOf(Reserved', a)
    BY <1>1 DEF Balanced
  <1>a. /\ \A c \in Accounts : /\ balance[c] \in I64 /\ balance[c] \in Int /\ laps[c] \in Int
                               /\ deposited[c] \in Int /\ spent[c] \in Int
                               /\ abandoned[c] \in Int /\ wiped[c] \in Int
        /\ \A t \in Totals : t \in I64 /\ t \in Int
        /\ \A r \in Requests, c \in Accounts : Reserved[r][c] \in I64 /\ Reserved[r][c] \in Int
    BY TotalsAreAmounts, HalfAssumption DEF TypeOK, I64, Reserved, Held
  <1>b. \A c \in Accounts : 2 * Half * laps[c] \in Int
    BY <1>a, HalfAssumption
  <1>c. ASSUME NEW b \in Accounts, NEW t \in I64,
               NEW x \in {balance[b] + t, balance[b] - t}, Ledger!Store(b, x)
        PROVE  /\ balance'[a] \in Int /\ laps'[a] \in Int
               /\ After = IF a = b THEN x + 2 * Half * laps[b] ELSE B
    BY <1>c, StoreExact
  <1> HIDE DEF H, After
  <1>6. PICK b \in Accounts :
           \/ Ledger!Open(b)
           \/ \E t \in Totals : Ledger!Deposit(b, t)
           \/ \E r \in Requests :
                 \/ \E t \in Totals : Ledger!Reserve(r, b, t)
                 \/ Ledger!Spend(r, b)
                 \/ Ledger!Release(r, b)
                 \/ Ledger!Abandon(r, b)
    BY DEF Ledger!Next
  <1> DEFINE L == 2 * Half * laps[a]
  <1>e. L \in Int /\ B = balance[a] + L /\ \A c \in Accounts : a = c => 2 * Half * laps[c] = L
    BY <1>b
  <1> HIDE DEF L, B
  <1>7. CASE Ledger!Open(b)
    <2>1. /\ laps' = laps /\ balance' = [balance EXCEPT ![b] = 0]
          /\ wiped' = [wiped EXCEPT ![b] = @ + balance[b]]
          /\ UNCHANGED <<Reserved, deposited, spent, abandoned>>
      BY <1>7 DEF Ledger!Open
    <2>2. /\ balance'[a] = IF a = b THEN 0 ELSE balance[a]
          /\ wiped'[a] = IF a = b THEN wiped[a] + balance[a] ELSE wiped[a]
      BY <2>1 DEF TypeOK
    <2>3. After = (IF a = b THEN 0 ELSE balance[a]) + L
      BY <2>1, <2>2 DEF After, L
    <2> QED
      BY <1>0, <1>2, <1>4, <1>5, <1>a, <1>e, <2>1, <2>2, <2>3
  <1>8. ASSUME NEW t \in Totals, Ledger!Deposit(b, t)
        PROVE  Balanced(a)'
    <2>1. After = IF a = b THEN balance[b] + t + L ELSE B
      BY <1>8, <1>a, <1>c, <1>e DEF Ledger!Deposit
    <2>2. /\ deposited'[a] = IF a = b THEN deposited[a] + t ELSE deposited[a]
          /\ UNCHANGED <<Reserved, spent, abandoned, wiped>>
      BY <1>8 DEF Ledger!Deposit, TypeOK
    <2> QED
      BY <1>0, <1>2, <1>4, <1>5, <1>a, <1>e, <2>1, <2>2
  <1>9. ASSUME NEW r \in Requests, NEW t \in Totals, Ledger!Reserve(r, b, t)
        PROVE  Balanced(a)'
    <2>1. After = IF a = b THEN balance[b] - t + L ELSE B
      BY <1>9, <1>a, <1>c, <1>e DEF Ledger!Reserve
    <2>2. Reserved' = [Reserved EXCEPT ![r][b] = t] /\ Reserved[r][b] = 0
      BY <1>9 DEF Ledger!Reserve, Ledger!Nothing
    <2>3. HeldOf(Reserved', a) = IF a = b THEN H + t - Reserved[r][a] ELSE H
      BY <1>3, <1>a, <2>2
    <2>4. UNCHANGED <<deposited, spent, abandoned, wiped>>
      BY <1>9 DEF Ledger!Reserve
    <2> QED
      BY <1>0, <1>4, <1>5, <1>a, <1>e, <2>1, <2>2, <2>3, <2>4
  <1>10. ASSUME NEW r \in Requests, Reserved' = [Reserved EXCEPT ![r][b] = 0]
         PROVE  HeldOf(Reserved', a) = IF a = b THEN H - Reserved[r][a] ELSE H
    <2>1. HeldOf(Reserved', a) = IF a = b THEN H + 0 - Reserved[r][a] ELSE H
      <3>1. Reserved' = [Reserved EXCEPT ![r][b] = 0] /\ 0 \in Int
        BY <1>10
      <3> QED
        BY <1>3, <3>1, Zenon
    <2> QED
      BY <1>0, <1>a, <2>1
  <1>11. ASSUME NEW r \in Requests, Ledger!Spend(r, b) \/ Ledger!Abandon(r, b)
         PROVE  Balanced(a)'
    <2>1. Reserved' = [Reserved EXCEPT ![r][b] = 0] /\ UNCHANGED <<balance, laps, deposited, wiped>>
      BY <1>11 DEF Ledger!Spend, Ledger!Abandon
    <2>2. spent'[a] + abandoned'[a] =
              spent[a] + abandoned[a] + IF a = b THEN Reserved[r][a] ELSE 0
      BY <1>11, <1>a DEF Ledger!Spend, Ledger!Abandon, TypeOK
    <2>3. spent'[a] \in Int /\ abandoned'[a] \in Int
      BY <1>11, <1>a DEF Ledger!Spend, Ledger!Abandon, TypeOK
    <2>4. After = B
      BY <2>1 DEF After, B
    <2>5. /\ HeldOf(Reserved', a) = IF a = b THEN H - Reserved[r][a] ELSE H
          /\ deposited'[a] = deposited[a] /\ wiped'[a] = wiped[a]
      BY <1>10, <2>1
    <2>6. Reserved[r][a] \in Int /\ B \in Int
      BY <1>a, <1>e
    <2>7. /\ deposited[a] \in Int /\ spent[a] \in Int /\ abandoned[a] \in Int /\ wiped[a] \in Int
          /\ H \in Int
      BY <1>0, <1>a
    <2> DEFINE c == Reserved[r][a]
               k == HeldOf(Reserved', a)
    <2>8. c \in Int /\ k = IF a = b THEN H - c ELSE H
      BY <2>5, <2>6
    <2>9. spent'[a] + abandoned'[a] = spent[a] + abandoned[a] + IF a = b THEN c ELSE 0
      BY <2>2
    <2>10. deposited'[a] = deposited[a] /\ wiped'[a] = wiped[a]
      BY <2>5
    <2>11. Balanced(a)' <=> deposited'[a] = After + spent'[a] + abandoned'[a] + wiped'[a] + k
      BY <1>5
    <2> HIDE DEF c, k
    <2> QED
      BY <1>4, <2>3, <2>4, <2>6, <2>7, <2>8, <2>9, <2>10, <2>11
  <1>12. ASSUME NEW r \in Requests, Ledger!Release(r, b)
         PROVE  Balanced(a)'
    <2>1. /\ Reserved' = [Reserved EXCEPT ![r][b] = 0]
          /\ Ledger!Store(b, balance[b] + Reserved[r][b])
          /\ UNCHANGED <<deposited, spent, abandoned, wiped>>
      BY <1>12 DEF Ledger!Release
    <2>2. After = IF a = b THEN balance[b] + Reserved[r][b] + L ELSE B
      BY <1>a, <1>c, <1>e, <2>1
    <2>3. /\ HeldOf(Reserved', a) = IF a = b THEN H - Reserved[r][a] ELSE H
          /\ UNCHANGED <<deposited, spent, abandoned, wiped>>
      BY <1>10, <2>1
    <2> QED
      BY <1>0, <1>4, <1>5, <1>a, <1>e, <2>2, <2>3
  <1> QED
    BY <1>6, <1>7, <1>8, <1>9, <1>11, <1>12

(* Every account is balanced at the start: there is nothing anywhere.      *)
LEMMA InitBalanced ==
    ASSUME Init
    PROVE  \A a \in Accounts : Balanced(a)
  <1> SUFFICES ASSUME NEW a \in Accounts PROVE Balanced(a)
    OBVIOUS
  <1> DEFINE f == [r \in Requests |-> Reserved[r][a]]
  <1>1. \A r \in Requests : f[r] = 0
    BY DEF Init, Reserved, Held, Holding
  <1>2. HeldOf(Reserved, a) = SumFunctionOnSet(f, Requests)
    BY DEF HeldOf, SumFunction
  <1> HIDE DEF f
  <1>3. HeldOf(Reserved, a) = 0
    BY <1>1, <1>2, RequestsAssumption, SumOfZeros
  <1>4. 2 * Half * 0 = 0
    BY HalfAssumption
  <1> QED
    BY <1>3, <1>4 DEF Init, Balanced

(* At every instant each deposited unit is in exactly one place, for any   *)
(* number of requests on any number of accounts, whatever fails or is      *)
(* dropped: the steps of the handlers are steps of the ledger, and those   *)
(* keep every account balanced.                                            *)
THEOREM MoneyConservedHolds == Spec => []MoneyConserved
  <1>1. MoneyConserved <=> \A a \in Accounts : Balanced(a)
    <2>1. ASSUME NEW f
          PROVE  Ledger!SumFunction(f) = SumFunction(f)
      BY DEF SumFunction, SumFunctionOnSet, FoldFunctionOnSet, MapThenFoldSet,
             Ledger!SumFunction, Ledger!SumFunctionOnSet, Ledger!FoldFunctionOnSet,
             Ledger!MapThenFoldSet
    <2> QED
      BY <2>1 DEF MoneyConserved, Ledger!Conservation, Balanced, HeldOf
  <1>2. Init => \A a \in Accounts : Balanced(a)
    BY InitBalanced
  <1>3. ASSUME RInv, [Next]_vars, \A a \in Accounts : Balanced(a)
        PROVE  (\A a \in Accounts : Balanced(a))'
    <2>1. CASE UNCHANGED Ledger!lvars
      <3>1. UNCHANGED <<deposited, balance, spent, abandoned, wiped, Reserved>>
        BY <2>1 DEF Ledger!lvars
      <3>2. laps' = laps
        BY <2>1 DEF Ledger!lvars
      <3> QED
        BY <1>3, <3>1, <3>2 DEF Balanced, HeldOf
    <2>2. CASE Ledger!Next
      BY <1>3, <2>2, LedgerStepBalances DEF RInv, TInv
    <2> QED
      BY <1>3, <2>1, <2>2, StepImplementsLedger
  <1> QED
    BY <1>1, <1>2, <1>3, OpenedOnceHolds, PTL DEF Spec

-----------------------------------------------------------------------------
(* No overdraft: amounts that are not negative, deposits that fit.         *)

(* Nothing of account a is negative, while its deposits fit an i64.        *)
Sound(a) ==
    /\ \A r \in Requests : Reserved[r][a] >= 0
    /\ spent[a] >= 0 /\ abandoned[a] >= 0
    /\ deposited[a] < Half => balance[a] >= 0 /\ laps[a] = 0 /\ wiped[a] >= 0

(* What is held of an account is at least what one request holds of it.    *)
LEMMA HeldAtLeast ==
    ASSUME TypeOK, NEW a \in Accounts, \A r \in Requests : Reserved[r][a] >= 0
    PROVE  /\ HeldOf(Reserved, a) \in Nat
           /\ \A r \in Requests : HeldOf(Reserved, a) >= Reserved[r][a]
  <1> DEFINE f == [r \in Requests |-> Reserved[r][a]]
  <1>1. \A r \in Requests : f[r] = Reserved[r][a] /\ f[r] \in Int /\ f[r] >= 0
    BY HeldType
  <1>2. HeldOf(Reserved, a) = SumFunctionOnSet(f, Requests)
    BY DEF HeldOf, SumFunction
  <1> HIDE DEF f
  <1>3. \A r \in Requests : f[r] \in Nat
    BY <1>1
  <1>4. SumFunctionOnSet(f, Requests) \in Nat
    BY <1>3, RequestsAssumption, SumIsNatural
  <1>5. ASSUME NEW r \in Requests
        PROVE  SumFunctionOnSet(f, Requests) >= f[r]
    <2>1. SumFunctionOnSet(f, Requests) = f[r] + SumFunctionOnSet(f, Requests \ {r})
      BY <1>1, RequestsAssumption, SumRemove
    <2>2. IsFiniteSet(Requests \ {r})
      BY RequestsAssumption, FS_Subset
    <2>3. SumFunctionOnSet(f, Requests \ {r}) \in Nat
      BY <1>3, <2>2, SumIsNatural
    <2> QED
      BY <1>3, <2>1, <2>3
  <1> QED
    BY <1>1, <1>2, <1>4, <1>5

(* A store of a sum that fits is exact.                                    *)
LEMMA StoreFits ==
    ASSUME TypeOK, NEW a \in Accounts, NEW b \in Accounts, NEW x \in Int,
           Ledger!Store(b, x), 0 <= x, x < Half
    PROVE  /\ balance'[a] = IF a = b THEN x ELSE balance[a]
           /\ laps'[a] = laps[a]
  <1>1. Ledger!WrapI64(x) = x /\ Ledger!Laps(x) = 0
    BY HalfAssumption DEF Ledger!WrapI64, Ledger!Laps
  <1>2. balance' = [balance EXCEPT ![b] = x] /\ laps' = [laps EXCEPT ![b] = laps[b] + 0]
    BY <1>1 DEF Ledger!Store
  <1> QED
    BY <1>2 DEF TypeOK

(* Every step of the ledger keeps every account sound.                     *)
LEMMA LedgerStepSound ==
    ASSUME TypeOK, Totals \subseteq Nat, NEW a \in Accounts, Balanced(a), Sound(a), Ledger!Next
    PROVE  Sound(a)'
  <1> DEFINE H == HeldOf(Reserved, a)
             L == 2 * Half * laps[a]
  <1>1. /\ H \in Nat /\ \A r \in Requests : H >= Reserved[r][a]
        /\ spent[a] >= 0 /\ abandoned[a] >= 0
        /\ \A r \in Requests : Reserved[r][a] >= 0
        /\ deposited[a] < Half => balance[a] >= 0 /\ laps[a] = 0 /\ wiped[a] >= 0
    BY HeldAtLeast DEF Sound
  <1>2. /\ Reserved \in [Requests -> [Accounts -> Int]]
        /\ \A c \in Accounts : /\ balance[c] \in I64 /\ balance[c] \in Int /\ laps[c] \in Int
                               /\ deposited[c] \in Int /\ spent[c] \in Int
                               /\ abandoned[c] \in Int /\ wiped[c] \in Int
        /\ Half \in Nat
    BY HeldType, HalfAssumption DEF TypeOK, I64
  <1>3. laps[a] = 0 => L = 0
    BY <1>2
  <1>4. deposited[a] = balance[a] + L + spent[a] + abandoned[a] + wiped[a] + H
    BY DEF Balanced
  <1> HIDE DEF H, L
  <1>5. deposited[a] < Half => balance[a] + H <= deposited[a]
    BY <1>1, <1>2, <1>3, <1>4
  <1>6. PICK b \in Accounts :
           \/ Ledger!Open(b)
           \/ \E t \in Totals : Ledger!Deposit(b, t)
           \/ \E r \in Requests :
                 \/ \E t \in Totals : Ledger!Reserve(r, b, t)
                 \/ Ledger!Spend(r, b)
                 \/ Ledger!Release(r, b)
                 \/ Ledger!Abandon(r, b)
    BY DEF Ledger!Next
  <1>s. ASSUME \A r \in Requests : Reserved'[r][a] >= 0,
               spent'[a] >= 0, abandoned'[a] >= 0,
               deposited'[a] < Half => balance'[a] >= 0 /\ laps'[a] = 0 /\ wiped'[a] >= 0
        PROVE  Sound(a)'
    BY <1>s DEF Sound
  <1>7. CASE Ledger!Open(b)
    <2>1. /\ UNCHANGED <<Reserved, deposited, spent, abandoned, laps>>
          /\ balance'[a] = IF a = b THEN 0 ELSE balance[a]
          /\ wiped'[a] = IF a = b THEN wiped[a] + balance[a] ELSE wiped[a]
      BY <1>7 DEF Ledger!Open, TypeOK
    <2> QED
      BY <1>1, <1>2, <1>s, <2>1
  <1>8. ASSUME NEW t \in Totals, Ledger!Deposit(b, t)
        PROVE  Sound(a)'
    <2>1. /\ UNCHANGED <<Reserved, spent, abandoned, wiped>>
          /\ deposited'[a] = IF a = b THEN deposited[a] + t ELSE deposited[a]
          /\ Ledger!Store(b, balance[b] + t) /\ t \in Nat
      BY <1>8 DEF Ledger!Deposit, TypeOK
    <2>2. ASSUME deposited'[a] < Half
          PROVE  balance'[a] >= 0 /\ laps'[a] = 0
      <3>1. CASE a = b
        <4>1. deposited[a] < Half /\ balance[a] >= 0 /\ balance[a] + t < Half
          BY <1>1, <1>2, <1>5, <2>1, <2>2, <3>1
        <4> QED
          BY <1>1, <1>2, <2>1, <3>1, <4>1, StoreFits
      <3>2. CASE a # b
        <4>1. balance'[a] = balance[a] /\ laps'[a] = laps[a]
          BY <2>1, <3>2 DEF Ledger!Store, TypeOK
        <4> QED
          BY <1>1, <2>1, <2>2, <3>2, <4>1
      <3> QED
        BY <3>1, <3>2
    <2> QED
      BY <1>1, <1>2, <1>s, <2>1, <2>2
  <1>9. ASSUME NEW r \in Requests, NEW t \in Totals, Ledger!Reserve(r, b, t)
        PROVE  Sound(a)'
    <2>1. /\ UNCHANGED <<deposited, spent, abandoned, wiped>>
          /\ Reserved' = [Reserved EXCEPT ![r][b] = t]
          /\ Ledger!Store(b, balance[b] - t) /\ t \in Nat /\ balance[b] >= t
      BY <1>9 DEF Ledger!Reserve
    <2>2. \A q \in Requests : Reserved'[q][a] >= 0
      <3> HIDE DEF Reserved
      <3> QED
        BY <1>1, <1>2, <2>1
    <2>3. ASSUME deposited[a] < Half
          PROVE  balance'[a] >= 0 /\ laps'[a] = 0
      <3>1. CASE a = b
        <4>1. 0 <= balance[a] - t /\ balance[a] - t < Half
          BY <1>2, <2>1, <3>1 DEF I64
        <4> QED
          BY <1>1, <1>2, <2>1, <2>3, <3>1, <4>1, StoreFits
      <3>2. CASE a # b
        <4>1. balance'[a] = balance[a] /\ laps'[a] = laps[a]
          BY <2>1, <3>2 DEF Ledger!Store, TypeOK
        <4> QED
          BY <1>1, <2>3, <4>1
      <3> QED
        BY <3>1, <3>2
    <2> QED
      BY <1>1, <1>s, <2>1, <2>2, <2>3
  <1>r. ASSUME NEW r \in Requests, Reserved' = [Reserved EXCEPT ![r][b] = 0]
        PROVE  \A q \in Requests : Reserved'[q][a] >= 0
    <2> HIDE DEF Reserved
    <2> QED
      BY <1>1, <1>2, <1>r
  <1>10. ASSUME NEW r \in Requests, Ledger!Spend(r, b) \/ Ledger!Abandon(r, b)
         PROVE  Sound(a)'
    <2>1. Reserved' = [Reserved EXCEPT ![r][b] = 0] /\ UNCHANGED <<balance, laps, deposited, wiped>>
      BY <1>10 DEF Ledger!Spend, Ledger!Abandon
    <2>2. Reserved[r][b] \in Int /\ (a = b => Reserved[r][b] >= 0)
      BY <1>1, <1>2
    <2>3. /\ spent'[a] = spent[a] \/ (a = b /\ spent'[a] = spent[a] + Reserved[r][b])
          /\ abandoned'[a] = abandoned[a] \/ (a = b /\ abandoned'[a] = abandoned[a] + Reserved[r][b])
      BY <1>10 DEF Ledger!Spend, Ledger!Abandon, TypeOK
    <2>4. spent'[a] >= 0 /\ abandoned'[a] >= 0
      BY <1>1, <1>2, <2>2, <2>3
    <2> QED
      BY <1>1, <1>r, <1>s, <2>1, <2>4
  <1>11. ASSUME NEW r \in Requests, Ledger!Release(r, b)
         PROVE  Sound(a)'
    <2>1. /\ Reserved' = [Reserved EXCEPT ![r][b] = 0]
          /\ Ledger!Store(b, balance[b] + Reserved[r][b])
          /\ UNCHANGED <<deposited, spent, abandoned, wiped>>
      BY <1>11 DEF Ledger!Release
    <2>2. ASSUME deposited[a] < Half
          PROVE  balance'[a] >= 0 /\ laps'[a] = 0
      <3>1. CASE a = b
        <4>1. Reserved[r][a] \in Int /\ H >= Reserved[r][a] /\ Reserved[r][a] >= 0
          BY <1>1, <1>2
        <4>2. 0 <= balance[a] + Reserved[r][a] /\ balance[a] + Reserved[r][a] < Half
          BY <1>1, <1>2, <1>5, <2>2, <4>1
        <4> QED
          BY <1>1, <1>2, <2>1, <2>2, <3>1, <4>1, <4>2, StoreFits
      <3>2. CASE a # b
        <4>1. balance'[a] = balance[a] /\ laps'[a] = laps[a]
          BY <2>1, <3>2 DEF Ledger!Store, TypeOK
        <4> QED
          BY <1>1, <2>2, <4>1
      <3> QED
        BY <3>1, <3>2
    <2> QED
      BY <1>1, <1>r, <1>s, <2>1, <2>2
  <1> QED
    BY <1>6, <1>7, <1>8, <1>9, <1>10, <1>11

(* When no amount is negative as an i64, an account whose deposits all fit *)
(* one is never overdrawn and never wraps, however debits, refunds and the *)
(* first-use store interleave.  The handlers check neither condition: they *)
(* cast u64 to i64.                                                        *)
THEOREM SolventHolds ==
    ASSUME Totals \subseteq Nat
    PROVE  Spec => []Solvent
  <1> DEFINE Books == \A a \in Accounts : Balanced(a) /\ Sound(a)
  <1>1. Init => Books
    <2> SUFFICES ASSUME Init
                 PROVE  Books
      OBVIOUS
    <2>1. \A a \in Accounts : Balanced(a)
      BY InitBalanced
    <2>2. \A r \in Requests, a \in Accounts : Reserved[r][a] = 0
      BY DEF Init, Reserved, Held, Holding
    <2>3. \A a \in Accounts : Sound(a)
      BY <2>2 DEF Init, Sound
    <2> QED
      BY <2>1, <2>3
  <1>2. RInv /\ [Next]_vars /\ Books => Books'
    <2> SUFFICES ASSUME RInv, [Next]_vars, Books, NEW a \in Accounts
                 PROVE  Balanced(a)' /\ Sound(a)'
      OBVIOUS
    <2>1. CASE UNCHANGED Ledger!lvars
      <3>1. UNCHANGED <<deposited, balance, laps, spent, abandoned, wiped, Reserved>>
        BY <2>1 DEF Ledger!lvars
      <3> QED
        BY <3>1 DEF Balanced, Sound, HeldOf
    <2>2. CASE Ledger!Next
      BY <2>2, LedgerStepBalances, LedgerStepSound DEF RInv, TInv
    <2> QED
      BY <2>1, <2>2, StepImplementsLedger
  <1>3. Books => Solvent
    BY DEF Sound, Solvent
  <1> HIDE DEF Books
  <1> QED
    BY <1>1, <1>2, <1>3, OpenedOnceHolds, PTL DEF Spec

-----------------------------------------------------------------------------
(* Answers and the transactions table.                                     *)

(* No request that runs has an answer of approval yet.                     *)
AnswerIsLast == \A r \in Requests : pc[r] # "idle" => reply[r] # "approved"

ApprovalInv == TInv /\ ApprovalIsRecorded /\ AnswerIsLast

(* Only the insertion that succeeded answers an approval.                  *)
LEMMA StepKeepsApproval ==
    ASSUME ApprovalInv, [Next]_vars
    PROVE  ApprovalIsRecorded' /\ AnswerIsLast'
  <1> USE UseDbAssumption DEF ApprovalInv, TInv, TypeOK, ApprovalIsRecorded, AnswerIsLast, Goto, Finish, At
  <1> DEFINE Kept(r) == /\ \A q \in Requests \ {r} :
                              pc'[q] = pc[q] /\ reply'[q] = reply[q] /\ audited'[q] = audited[q]
                        /\ pc'[r] # "idle" => reply'[r] # "approved"
                        /\ UseDb /\ reply'[r] = "approved" => audited'[r] = "approved"
  <1>1. ASSUME NEW r \in Requests, Kept(r)
        PROVE  ApprovalIsRecorded' /\ AnswerIsLast'
    BY <1>1
  <1>2. CASE UNCHANGED vars
    BY <1>2 DEF vars
  <1>3. ASSUME NEW r \in Requests, NEW k \in Kinds, NEW a \in Accounts, NEW u \in Users,
               Arrive(r, k, a, u)
        PROVE  Kept(r)
    BY <1>3 DEF Arrive
  <1>4. ASSUME NEW r \in Requests, Slot(r) \/ Deposit(r) \/ Kyc(r)
        PROVE  Kept(r)
    BY <1>4
    DEF Slot, FindSlot, ClaimSlot, InitLevel, InitCount, InitBalance, Deposit,
        Kyc, SetLevel, KycEnsureUser, KycUpdateLevel, GiveUp
  <1>5. ASSUME NEW r \in Requests, Authorize(r)
        PROVE  Kept(r)
    BY <1>5
    DEF Authorize, CardEnsureUser, CardFetchState, CardStoreCount, CardStoreLevel,
        CardReadCount, CardReadLevel, Admit, RefuseCurrency, Debit,
        AuditUpgrade, AuditDeclined, AuditRefusal, Record, GiveUp
  <1>6. ASSUME NEW r \in Requests, Conclude(r)
        PROVE  Kept(r)
    BY <1>6
    DEF Conclude, Bump, FetchCount, WriteCount, StoreCount, Unbump, RefundBump, Sign,
        AuditApproved, RefundAudit, Uncount, Abandon, Approve, AuditFails, Record, Applied
  <1> HIDE DEF Kept
  <1> QED
    BY <1>1, <1>2, <1>3, <1>4, <1>5, <1>6 DEF Next, Step

(* An "approved" answer means the approval is in the transactions table,   *)
(* whatever the awaited insertion comes to and however requests overlap.   *)
THEOREM ApprovalIsRecordedHolds == Spec => []ApprovalIsRecorded
  <1>1. Init => ApprovalInv
    BY InitType DEF ApprovalInv, Init, ApprovalIsRecorded, AnswerIsLast
  <1>2. ApprovalInv /\ [Next]_vars => ApprovalInv'
    BY StepKeepsType, StepKeepsApproval DEF ApprovalInv
  <1> QED
    BY <1>1, <1>2, PTL DEF Spec, ApprovalInv

=============================================================================
