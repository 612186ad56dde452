---------------------------- MODULE AccountTable ----------------------------
(***************************************************************************)
(* The lock-free account slot table of the gRPC gate:                      *)
(* HyperionEngine::ensure_account_slot (src/bin/hyperion_grpc_server.rs).  *)
(*                                                                         *)
(* A handler turns an account id into a 64-bit tag and probes the table    *)
(* linearly from its home slot.  A free slot (tag 0) is claimed with one   *)
(* compare_exchange; the loop loads the tag and exchanges it in two steps, *)
(* so any other handler may claim the slot in between.  Accounts are their *)
(* tags here: two ids with one FNV hash are one account, as in the code.   *)
(* Slots are never given back.                                             *)
(*                                                                         *)
(* An operator named Bug... is a mutated form of the definition after it:  *)
(* no action uses it, the project file says which property rejects it.     *)
(*                                                                         *)
(* What the winner of the exchange then stores in the slot, and who may    *)
(* see it half-initialised, is modelled in HyperionGate.                   *)
(***************************************************************************)
EXTENDS Integers, FiniteSets

CONSTANTS
    Accounts,    \* account tags
    Handlers,    \* gRPC handlers that may run at the same time
    SlotCount,   \* ACCOUNT_SLOT_COUNT
    Home,        \* tag % SlotCount, for every tag
    Free         \* the tag of a slot nobody claimed (0 in the code)

Slots == 0 .. SlotCount - 1

ASSUME AccountsAssumption  == Accounts # {}
ASSUME SlotCountAssumption == SlotCount \in Nat \ {0}
ASSUME HomeAssumption      == Home \in [Accounts -> Slots]
ASSUME FreeAssumption      == Free \notin Accounts

VARIABLES
    tag,      \* tag[s]: accounts[s].account_tag
    loop,     \* loop[h]: where handler h stands in ensure_account_slot
    account,  \* account[h]: the tag h looks for
    probe,    \* probe[h]: iterations of the probe loop h completed
    slot      \* slot[h]: the slot the last call of h returned

tableVars == <<tag, loop, account, probe, slot>>

(* The slot the loop looks at in its iteration number i: the code adds one *)
(* modulo the table length each time round.                                *)
ProbeSlot(a, i) == (Home[a] + i) % SlotCount

Here(h) == ProbeSlot(account[h], probe[h])

TableInit ==
    /\ tag = [s \in Slots |-> Free]
    /\ loop = [h \in Handlers |-> "idle"]
    /\ account = [h \in Handlers |-> CHOOSE a \in Accounts : TRUE]
    /\ probe = [h \in Handlers |-> 0]
    /\ slot = [h \in Handlers |-> 0]

CallTable(h, a) ==
    /\ loop[h] \in {"idle", "returned", "exhausted"}
    /\ loop' = [loop EXCEPT ![h] = "load"]
    /\ account' = [account EXCEPT ![h] = a]
    /\ probe' = [probe EXCEPT ![h] = 0]
    /\ slot' = [slot EXCEPT ![h] = 0]
    /\ UNCHANGED tag

ReturnSlot(h, s) ==
    /\ loop' = [loop EXCEPT ![h] = "returned"]
    /\ slot' = [slot EXCEPT ![h] = s]
    /\ UNCHANGED <<account, probe>>

(* The end of one loop iteration: the next slot, or "account slot table    *)
(* exhausted" when every slot has been looked at.                          *)
BugNextSlotRetriesSame(h) ==
    /\ loop' = [loop EXCEPT ![h] = "load"]
    /\ UNCHANGED <<account, slot, probe>>

NextSlot(h) ==
    /\ probe' = [probe EXCEPT ![h] = @ + 1]
    /\ loop' = [loop EXCEPT ![h] = IF probe[h] + 1 = SlotCount THEN "exhausted" ELSE "load"]
    /\ UNCHANGED <<account, slot>>

LoadTag(h) ==
    /\ loop[h] = "load"
    /\ UNCHANGED tag
    /\ \/ /\ tag[Here(h)] = account[h]
          /\ ReturnSlot(h, Here(h))
       \/ /\ tag[Here(h)] = Free
          /\ loop' = [loop EXCEPT ![h] = "exchange"]
          /\ UNCHANGED <<account, probe, slot>>
       \/ /\ tag[Here(h)] \notin {Free, account[h]}
          /\ NextSlot(h)

(* The exchange wins the free slot ...                                     *)
BugClaimWithoutExchange(h) ==
    /\ loop[h] = "exchange"
    /\ tag' = [tag EXCEPT ![Here(h)] = account[h]]
    /\ ReturnSlot(h, Here(h))

ClaimSlot(h) ==
    /\ loop[h] = "exchange"
    /\ tag[Here(h)] = Free
    /\ tag' = [tag EXCEPT ![Here(h)] = account[h]]
    /\ ReturnSlot(h, Here(h))

(* ... or fails because a handler of the same account came first ...       *)
ShareClaimed(h) ==
    /\ loop[h] = "exchange"
    /\ tag[Here(h)] = account[h]
    /\ ReturnSlot(h, Here(h))
    /\ UNCHANGED tag

(* ... or because one of another account did.                              *)
BugEveryLostClaimIsForeign(h) ==
    /\ loop[h] = "exchange"
    /\ tag[Here(h)] # Free
    /\ NextSlot(h)
    /\ UNCHANGED tag

LoseClaim(h) ==
    /\ loop[h] = "exchange"
    /\ tag[Here(h)] \notin {Free, account[h]}
    /\ NextSlot(h)
    /\ UNCHANGED tag

Step(h) == LoadTag(h) \/ ClaimSlot(h) \/ ShareClaimed(h) \/ LoseClaim(h)

TableNext == \E h \in Handlers : Step(h) \/ \E a \in Accounts : CallTable(h, a)

(* A handler runs the loop without an await point, so the runtime thread   *)
(* that runs it keeps taking its steps.                                    *)
TableFairness == \A h \in Handlers : WF_tableVars(Step(h))

TableSpec == TableInit /\ [][TableNext]_tableVars

TableFairSpec == TableSpec /\ TableFairness

-----------------------------------------------------------------------------

(* Types: a handler knows its account and its index whenever it probes.      *)
TableTypeOK ==
    /\ tag \in [Slots -> Accounts \cup {Free}]
    /\ loop \in [Handlers -> {"idle", "load", "exchange", "returned", "exhausted"}]
    /\ account \in [Handlers -> Accounts]
    /\ probe \in [Handlers -> 0 .. SlotCount]
    /\ slot \in [Handlers -> Slots]

(* No account ever owns two slots, whatever handlers race for its first    *)
(* use: two slots would be two balances for one account.                   *)
OneSlotPerAccount ==
    \A s, t \in Slots : tag[s] # Free /\ tag[s] = tag[t] => s = t

(* A call that returned a slot returned one that carries the caller's tag  *)
(* and still does: no two accounts ever share a balance.                   *)
ReturnedSlotIsOwn ==
    \A h \in Handlers : loop[h] = "returned" => tag[slot[h]] = account[h]

(* "account slot table exhausted" is only answered when every slot belongs *)
(* to some other account: a probe overtaken by claims of others misses     *)
(* neither a free slot nor its own.                                        *)
ExhaustedOnlyWhenFull ==
    \A h \in Handlers : loop[h] = "exhausted" =>
        \A s \in Slots : tag[s] \notin {Free, account[h]}

(* The search of a handler ends right: with a slot of its own account, or  *)
(* in a full table.                                                        *)
SearchIsRight == ReturnedSlotIsOwn /\ ExhaustedOnlyWhenFull

(* Every call returns, however often other handlers win the exchange: the  *)
(* loop is wait-free.                                                      *)
EveryCallReturns ==
    \A h \in Handlers : loop[h] = "load" ~> loop[h] \in {"returned", "exhausted"}

=============================================================================
