----------------------------- MODULE PartsProofs -----------------------------
(***************************************************************************)
(* Proofs about the parts that share no state, each by itself and for any  *)
(* size: the slot table of accounts, the nonce window, the channel         *)
(* ensemble, the anomaly detector, the telemetry frame, the laboratory     *)
(* radio, the drills of the simulator, the spin solver, the portable       *)
(* pipeline, the GPL policies, the lessons of COOPER.                      *)
(***************************************************************************)
EXTENDS AccountTable, ReplayWindow, ChannelEnsemble, AnomalyWindow, PeripheralLab,
        Anomalizer, SpinSolver, ChipPortability, PolicyTools, SumLemmas, SequenceTheorems,
        FiniteSetTheorems, NaturalsInduction, WellFoundedInduction, TLAPS

-----------------------------------------------------------------------------
(* The slot table: any number of accounts, handlers and slots, and every   *)
(* placement of home slots.                                                *)

(* What a handler has walked past: its probe loop only leaves a slot that  *)
(* belongs to another account, and such a slot stays so.                   *)
WalkedPast ==
    \A h \in Handlers : loop[h] \in {"load", "exchange", "exhausted"} =>
        \A i \in 0 .. probe[h] - 1 : tag[ProbeSlot(account[h], i)] \notin {Free, account[h]}

(* A claimed slot lies on its owner's probe sequence, behind slots of      *)
(* other accounts only.                                                    *)
ClaimedBehindForeign ==
    \A s \in Slots : tag[s] # Free =>
        \E j \in Nat : /\ s = ProbeSlot(tag[s], j)
                       /\ \A i \in 0 .. j - 1 : tag[ProbeSlot(tag[s], i)] \notin {Free, tag[s]}

ProbeBound ==
    \A h \in Handlers :
        /\ loop[h] \in {"load", "exchange"} => probe[h] < SlotCount
        /\ loop[h] = "exhausted" => probe[h] = SlotCount

TableInv ==
    /\ TableTypeOK
    /\ ProbeBound
    /\ WalkedPast
    /\ ClaimedBehindForeign
    /\ ReturnedSlotIsOwn

-----------------------------------------------------------------------------

(* The probe sequence stays inside the table ... *)
LEMMA ProbeSlotType ==
    ASSUME NEW a \in Accounts, NEW i \in Nat
    PROVE  ProbeSlot(a, i) \in Slots
  BY SlotCountAssumption, HomeAssumption DEF ProbeSlot, Slots

(* ... and SlotCount iterations of it visit every slot. *)
LEMMA ProbeCoversTable ==
    ASSUME NEW a \in Accounts, NEW s \in Slots
    PROVE  \E i \in 0 .. SlotCount - 1 : ProbeSlot(a, i) = s
  <1> DEFINE d == s - Home[a]
  <1>0. /\ SlotCount \in Nat \ {0}
        /\ Home[a] \in 0 .. SlotCount - 1
        /\ s \in 0 .. SlotCount - 1
    BY SlotCountAssumption, HomeAssumption DEF Slots
  <1>1. CASE s >= Home[a]
    <2>1. d \in 0 .. SlotCount - 1 /\ Home[a] + d = s
      BY <1>0, <1>1
    <2>2. s % SlotCount = s
      BY <1>0
    <2> QED
      BY <2>1, <2>2 DEF ProbeSlot
  <1>2. CASE s < Home[a]
    <2>1. d + SlotCount \in 0 .. SlotCount - 1 /\ Home[a] + (d + SlotCount) = s + SlotCount
      BY <1>0, <1>2
    <2>2. (s + SlotCount) % SlotCount = s
      BY <1>0
    <2> QED
      BY <2>1, <2>2 DEF ProbeSlot
  <1> QED
    BY <1>0, <1>1, <1>2

(* One step never changes the tag of a claimed slot: it either leaves the  *)
(* table alone or claims one free slot for the handler that takes it.      *)
LEMMA TagsOnlyClaimed ==
    ASSUME TableTypeOK, ProbeBound, [TableNext]_tableVars
    PROVE  \/ UNCHANGED tag
           \/ \E h \in Handlers :
                 /\ ClaimSlot(h)
                 /\ Here(h) \in Slots
                 /\ account[h] \in Accounts
                 /\ tag[Here(h)] = Free
                 /\ tag' = [tag EXCEPT ![Here(h)] = account[h]]
  <1>1. ASSUME NEW h \in Handlers, ClaimSlot(h)
        PROVE  Here(h) \in Slots /\ account[h] \in Accounts
    BY <1>1, ProbeSlotType DEF ClaimSlot, Here, TableTypeOK
  <1> QED
    BY <1>1 DEF TableNext, tableVars, Step, CallTable, LoadTag, ClaimSlot, ShareClaimed, LoseClaim

(* A slot once claimed keeps its tag: nothing in the server frees one.     *)
LEMMA ClaimedStaysClaimed ==
    ASSUME TableTypeOK, ProbeBound, [TableNext]_tableVars, NEW s \in Slots, tag[s] # Free
    PROVE  tag'[s] = tag[s]
  BY TagsOnlyClaimed DEF TableTypeOK

-----------------------------------------------------------------------------

(* The inductive step, with one named step per action. *)
LEMMA StepKeepsType ==
    ASSUME TableTypeOK, ProbeBound, [TableNext]_tableVars
    PROVE  TableTypeOK' /\ ProbeBound'
  <1> USE DEF TableTypeOK, ProbeBound
  <1>0. SlotCount \in Nat \ {0} /\ 0 \in Slots
    BY SlotCountAssumption DEF Slots
  <1>1. ASSUME NEW h \in Handlers, NEW a \in Accounts, CallTable(h, a)
        PROVE  TableTypeOK' /\ ProbeBound'
    BY <1>0, <1>1 DEF CallTable
  <1>2. ASSUME NEW h \in Handlers, loop[h] \in {"load", "exchange"}
        PROVE  Here(h) \in Slots
    BY <1>2, <1>0, ProbeSlotType DEF Here
  <1>3. ASSUME NEW h \in Handlers, LoadTag(h)
        PROVE  TableTypeOK' /\ ProbeBound'
    <2>1. CASE tag[Here(h)] = account[h] /\ ReturnSlot(h, Here(h))
      BY <1>2, <1>3, <2>1 DEF LoadTag, ReturnSlot
    <2>2. CASE tag[Here(h)] = Free /\ loop' = [loop EXCEPT ![h] = "exchange"]
               /\ UNCHANGED <<account, probe, slot>>
      BY <1>3, <2>2 DEF LoadTag
    <2>3. CASE NextSlot(h)
      BY <1>0, <1>3, <2>3 DEF LoadTag, NextSlot
    <2> QED
      BY <1>3, <2>1, <2>2, <2>3 DEF LoadTag
  <1>4. ASSUME NEW h \in Handlers, ClaimSlot(h)
        PROVE  TableTypeOK' /\ ProbeBound'
    BY <1>2, <1>4 DEF ClaimSlot, ReturnSlot
  <1>5. ASSUME NEW h \in Handlers, ShareClaimed(h)
        PROVE  TableTypeOK' /\ ProbeBound'
    BY <1>2, <1>5 DEF ShareClaimed, ReturnSlot
  <1>6. ASSUME NEW h \in Handlers, LoseClaim(h)
        PROVE  TableTypeOK' /\ ProbeBound'
    BY <1>0, <1>6 DEF LoseClaim, NextSlot
  <1>7. CASE UNCHANGED tableVars
    BY <1>7 DEF tableVars
  <1> QED
    BY <1>1, <1>3, <1>4, <1>5, <1>6, <1>7 DEF TableNext, Step

(* The slots a handler walked past stay claimed by other accounts.         *)
LEMMA StepKeepsWalkedPast ==
    ASSUME TableInv, [TableNext]_tableVars
    PROVE  WalkedPast'
  <1> USE DEF TableInv, TableTypeOK
  <1> SUFFICES ASSUME NEW h \in Handlers, loop'[h] \in {"load", "exchange", "exhausted"},
                      NEW i \in 0 .. probe'[h] - 1
               PROVE  tag'[ProbeSlot(account'[h], i)] \notin {Free, account'[h]}
    BY DEF WalkedPast
  <1>1. /\ TableTypeOK' /\ ProbeBound'
        /\ SlotCount \in Nat \ {0}
    BY StepKeepsType, SlotCountAssumption
  <1>2. i \in Nat /\ ProbeSlot(account'[h], i) \in Slots
    BY <1>1, ProbeSlotType
  <1>3. SUFFICES tag[ProbeSlot(account'[h], i)] \notin {Free, account'[h]}
    BY <1>1, <1>2, ClaimedStaysClaimed
  <1>4. CASE /\ loop[h] \in {"load", "exchange", "exhausted"}
             /\ account'[h] = account[h] /\ probe'[h] = probe[h]
    BY <1>4 DEF WalkedPast
  <1>5. CASE NextSlot(h) /\ loop[h] \in {"load", "exchange"} /\ tag[Here(h)] \notin {Free, account[h]}
    <2>1. account'[h] = account[h] /\ probe'[h] = probe[h] + 1
      BY <1>5 DEF NextSlot
    <2> QED
      BY <1>5, <2>1 DEF WalkedPast, Here
  <1>6. CASE probe'[h] = 0
    BY <1>6
  <1>7. \/ /\ loop[h] \in {"load", "exchange", "exhausted"}
           /\ account'[h] = account[h] /\ probe'[h] = probe[h]
        \/ NextSlot(h) /\ loop[h] \in {"load", "exchange"} /\ tag[Here(h)] \notin {Free, account[h]}
        \/ probe'[h] = 0
    <2>1. ASSUME NEW g \in Handlers, NEW a \in Accounts, CallTable(g, a)
          PROVE  <1>7!1 \/ <1>7!3
      BY <2>1 DEF CallTable
    <2>2. ASSUME NEW g \in Handlers, LoadTag(g)
          PROVE  <1>7!1 \/ <1>7!2
      <3>1. CASE g = h
        BY <2>2, <3>1 DEF LoadTag, ReturnSlot, NextSlot
      <3>2. CASE g # h
        BY <2>2, <3>2 DEF LoadTag, ReturnSlot, NextSlot
      <3> QED
        BY <3>1, <3>2
    <2>3. ASSUME NEW g \in Handlers, ClaimSlot(g) \/ ShareClaimed(g)
          PROVE  <1>7!1
      BY <2>3 DEF ClaimSlot, ShareClaimed, ReturnSlot
    <2>4. ASSUME NEW g \in Handlers, LoseClaim(g)
          PROVE  <1>7!1 \/ <1>7!2
      BY <2>4 DEF LoseClaim, NextSlot
    <2>5. CASE UNCHANGED tableVars
      BY <2>5 DEF tableVars
    <2> QED
      BY <2>1, <2>2, <2>3, <2>4, <2>5 DEF TableNext, Step
  <1> QED
    BY <1>4, <1>5, <1>6, <1>7

(* A claimed slot stays reachable from its home without a gap.             *)
LEMMA StepKeepsClaimed ==
    ASSUME TableInv, [TableNext]_tableVars
    PROVE  ClaimedBehindForeign'
  <1> USE DEF TableInv, TableTypeOK
  <1> SUFFICES ASSUME NEW s \in Slots, tag'[s] # Free
               PROVE  \E j \in Nat :
                         /\ s = ProbeSlot(tag'[s], j)
                         /\ \A i \in 0 .. j - 1 : tag'[ProbeSlot(tag'[s], i)] \notin {Free, tag'[s]}
    BY DEF ClaimedBehindForeign
  <1>1. CASE tag[s] # Free
    <2>1. tag'[s] = tag[s] /\ tag[s] \in Accounts
      BY <1>1, TagsOnlyClaimed
    <2>2. PICK j \in Nat : /\ s = ProbeSlot(tag[s], j)
                           /\ \A i \in 0 .. j - 1 : tag[ProbeSlot(tag[s], i)] \notin {Free, tag[s]}
      BY <1>1 DEF ClaimedBehindForeign
    <2>3. \A i \in 0 .. j - 1 : tag'[ProbeSlot(tag[s], i)] \notin {Free, tag[s]}
      <3> SUFFICES ASSUME NEW i \in 0 .. j - 1
                   PROVE  tag'[ProbeSlot(tag[s], i)] \notin {Free, tag[s]}
        OBVIOUS
      <3>1. ProbeSlot(tag[s], i) \in Slots
        BY <2>1, ProbeSlotType
      <3> QED
        BY <2>1, <2>2, <3>1, ClaimedStaysClaimed
    <2> QED
      BY <2>1, <2>2, <2>3
  <1>2. CASE tag[s] = Free
    <2>1. PICK h \in Handlers :
             /\ ClaimSlot(h) /\ Here(h) \in Slots /\ account[h] \in Accounts
             /\ tag' = [tag EXCEPT ![Here(h)] = account[h]]
      BY <1>2, TagsOnlyClaimed
    <2>2. s = Here(h) /\ tag'[s] = account[h] /\ loop[h] = "exchange"
      BY <1>2, <2>1 DEF ClaimSlot
    <2>3. probe[h] \in Nat /\ s = ProbeSlot(tag'[s], probe[h])
      BY <2>2, SlotCountAssumption DEF Here
    <2>4. ASSUME NEW i \in 0 .. probe[h] - 1
          PROVE  tag'[ProbeSlot(account[h], i)] \notin {Free, account[h]}
      <3>1. ProbeSlot(account[h], i) \in Slots
        BY <2>1, <2>3, ProbeSlotType
      <3>2. tag[ProbeSlot(account[h], i)] \notin {Free, account[h]}
        BY <2>2 DEF WalkedPast
      <3> QED
        BY <2>1, <3>1, <3>2, ClaimedStaysClaimed
    <2> QED
      BY <2>2, <2>3, <2>4
  <1> QED
    BY <1>1, <1>2

(* The slot a call returned still carries the tag it asked for.            *)
LEMMA StepKeepsReturned ==
    ASSUME TableInv, [TableNext]_tableVars
    PROVE  ReturnedSlotIsOwn'
  <1> USE DEF TableInv, TableTypeOK
  <1> SUFFICES ASSUME NEW h \in Handlers, loop'[h] = "returned"
               PROVE  tag'[slot'[h]] = account'[h]
    BY DEF ReturnedSlotIsOwn
  <1>1. CASE loop[h] = "returned" /\ slot'[h] = slot[h] /\ account'[h] = account[h]
    <2>1. tag[slot[h]] = account[h] /\ slot[h] \in Slots /\ account[h] # Free
      BY <1>1, FreeAssumption DEF ReturnedSlotIsOwn
    <2>2. tag'[slot[h]] = tag[slot[h]]
      BY <2>1, TagsOnlyClaimed
    <2> QED
      BY <1>1, <2>1, <2>2
  <1>2. CASE /\ ReturnSlot(h, Here(h)) /\ Here(h) \in Slots
             /\ tag'[Here(h)] = account[h]
    BY <1>2 DEF ReturnSlot
  <1>3. loop[h] \in {"load", "exchange"} => Here(h) \in Slots
    BY ProbeSlotType, SlotCountAssumption DEF Here
  <1>4. <1>1!1 \/ <1>2!1
    <2>1. ASSUME NEW g \in Handlers, NEW a \in Accounts, CallTable(g, a)
          PROVE  <1>1!1
      BY <2>1 DEF CallTable
    <2>2. ASSUME NEW g \in Handlers, g # h, Step(g)
          PROVE  <1>1!1
      BY <2>2 DEF Step, LoadTag, ClaimSlot, ShareClaimed, LoseClaim, ReturnSlot, NextSlot
    <2>3. ASSUME LoadTag(h)
          PROVE  <1>2!1
      BY <1>3, <2>3 DEF LoadTag, NextSlot
    <2>4. ASSUME ClaimSlot(h)
          PROVE  <1>2!1
      BY <1>3, <2>4 DEF ClaimSlot
    <2>5. ASSUME ShareClaimed(h)
          PROVE  <1>2!1
      BY <1>3, <2>5 DEF ShareClaimed
    <2>6. ASSUME LoseClaim(h)
          PROVE  FALSE
      BY <2>6 DEF LoseClaim, NextSlot
    <2>7. CASE UNCHANGED tableVars
      BY <2>7 DEF tableVars
    <2> QED
      BY <2>1, <2>2, <2>3, <2>4, <2>5, <2>6, <2>7 DEF TableNext, Step
  <1> QED
    BY <1>1, <1>2, <1>4

-----------------------------------------------------------------------------

(* The strengthening of the invariants below is inductive. *)
THEOREM TableInductive == TableSpec => []TableInv
  <1>1. TableInit => TableInv
    BY SlotCountAssumption, AccountsAssumption
    DEF TableInit, TableInv, TableTypeOK, ProbeBound, WalkedPast, ClaimedBehindForeign, ReturnedSlotIsOwn, Slots
  <1>2. TableInv /\ [TableNext]_tableVars => TableInv'
    BY StepKeepsType, StepKeepsWalkedPast, StepKeepsClaimed, StepKeepsReturned DEF TableInv
  <1> QED
    BY <1>1, <1>2, PTL DEF TableSpec

(* The variables of the slot table keep their types. *)
THEOREM TableTypeCorrect == TableSpec => []TableTypeOK
  BY TableInductive, PTL DEF TableInv

(* ensure_account_slot never gives an account a second slot: of two slots  *)
(* with one tag, the one further along the probe sequence lies behind the  *)
(* other, which would then have to belong to somebody else.                *)
THEOREM OneSlotPerAccountHolds == TableSpec => []OneSlotPerAccount
  <1>1. TableInv => OneSlotPerAccount
    <2> SUFFICES ASSUME TableInv, NEW s \in Slots, NEW t \in Slots,
                        tag[s] # Free, tag[s] = tag[t]
                 PROVE  s = t
      BY DEF OneSlotPerAccount
    <2>1. PICK j \in Nat : /\ s = ProbeSlot(tag[s], j)
                           /\ \A i \in 0 .. j - 1 : tag[ProbeSlot(tag[s], i)] \notin {Free, tag[s]}
      BY DEF TableInv, ClaimedBehindForeign
    <2>2. PICK k \in Nat : /\ t = ProbeSlot(tag[t], k)
                           /\ \A i \in 0 .. k - 1 : tag[ProbeSlot(tag[t], i)] \notin {Free, tag[t]}
      BY DEF TableInv, ClaimedBehindForeign
    <2>3. CASE j < k
      BY <2>1, <2>2, <2>3
    <2>4. CASE k < j
      BY <2>1, <2>2, <2>4
    <2> QED
      BY <2>1, <2>2, <2>3, <2>4
  <1> QED
    BY <1>1, TableInductive, PTL

(* A handler never goes on with the slot of another account, and is never  *)
(* told too early that the table is exhausted: the probe covers the table, *)
(* and what it walked past stays foreign.                                  *)
THEOREM SearchIsRightHolds == TableSpec => []SearchIsRight
  <1>1. TableInv => ExhaustedOnlyWhenFull
    <2> SUFFICES ASSUME TableInv, NEW h \in Handlers, loop[h] = "exhausted", NEW s \in Slots
                 PROVE  tag[s] \notin {Free, account[h]}
      BY DEF ExhaustedOnlyWhenFull
    <2>1. account[h] \in Accounts /\ probe[h] = SlotCount
      BY DEF TableInv, TableTypeOK, ProbeBound
    <2>2. PICK i \in 0 .. SlotCount - 1 : ProbeSlot(account[h], i) = s
      BY <2>1, ProbeCoversTable
    <2> QED
      BY <2>1, <2>2 DEF TableInv, WalkedPast
  <1>2. TableInv => SearchIsRight
    BY <1>1 DEF TableInv, SearchIsRight
  <1> QED
    BY <1>2, TableInductive, PTL

-----------------------------------------------------------------------------
(* The nonce window: any width of the nonces and any window.               *)

(* A frame was accepted no more often than the window was moved back from  *)
(* behind it, and once more if the window is past it now; frames that were *)
(* sent lie before the sender's cursor, and so does the window.            *)
WindowInv ==
    /\ WindowTypeOK
    /\ \A n \in sent : n < cursor
    /\ \A n \in Nonces : count[n] <= rewound[n] + (IF Passed(n) THEN 1 ELSE 0)
    /\ expected <= cursor

(* At the last nonce the sum of nonce and skew wraps around, and no frame  *)
(* is accepted any more.                                                   *)
LEMMA SaturatedWindowIsShut ==
    ASSUME expected = NonceLimit - 1, NEW n \in Nonces, NEW intact \in BOOLEAN
    PROVE  Verdict(n, intact) # "ok"
<1>1. CASE n < expected
  BY <1>1 DEF Verdict
<1>2. CASE n = expected
  <2>1. (expected + Skew) % NonceLimit = Skew - 1
    <3>1. expected + Skew = NonceLimit + (Skew - 1) /\ Skew - 1 \in 0 .. NonceLimit - 1
      BY NonceLimitAssumption, SkewAssumption
    <3> QED BY <3>1, NonceLimitAssumption
  <2>2. n > (expected + Skew) % NonceLimit
    BY <2>1, <1>2, NonceLimitAssumption, SkewAssumption
  <2> QED BY <2>2, <1>2, NonceLimitAssumption DEF Verdict, Nonces
<1> QED BY <1>1, <1>2, NonceLimitAssumption DEF Nonces

(* The initial state satisfies the inductive invariant.                    *)
LEMMA WindowInitHolds == WindowInit => WindowInv
BY NonceLimitAssumption, FirstAssumption
   DEF WindowInit, WindowInv, WindowTypeOK, Passed, Nonces

(* A frame sent is a nonce before the cursor; moving the window behind it  *)
(* leaves the window a nonce and no further than the cursor.               *)
LEMMA WindowStaysBehind ==
    ASSUME WindowInv, NEW n \in sent, MoveWindow(n), cursor' = cursor
    PROVE  n \in Nonces /\ n < cursor /\ expected' \in Nonces /\ expected' <= cursor'
BY NonceLimitAssumption DEF MoveWindow, Successor, WindowInv, WindowTypeOK, Nonces

(* Every step preserves the inductive invariant.                           *)
LEMMA WindowStepHolds == WindowInv /\ [WindowNext]_nonceVars => WindowInv'
<1> SUFFICES ASSUME WindowInv, [WindowNext]_nonceVars PROVE WindowInv'
  OBVIOUS
<1> USE NonceLimitAssumption
<1>1. ASSUME Transmit PROVE WindowInv'
  BY <1>1, SMTT(30) DEF Transmit, WindowInv, WindowTypeOK, Passed, Nonces
<1>2. ASSUME NEW a \in sent, NEW b \in sent, MoveWindow(b), UNCHANGED <<cursor, sent, count>>,
             rewound' = [n \in Nonces |-> IF Passed(n) /\ ~Passed(n)' THEN rewound[n] + 1
                                                                      ELSE rewound[n]]
      PROVE  WindowInv'
  <2>1. expected' \in Nonces /\ expected' <= cursor'
    BY <1>2, WindowStaysBehind
  <2>2. WindowTypeOK'
    BY <1>2, <2>1 DEF WindowInv, WindowTypeOK
  <2>3. ASSUME NEW n \in Nonces
        PROVE  count'[n] <= rewound'[n] + (IF Passed(n)' THEN 1 ELSE 0)
    <3>1. /\ count[n] \in Nat /\ rewound[n] \in Nat /\ count'[n] = count[n]
          /\ count[n] <= rewound[n] + (IF Passed(n) THEN 1 ELSE 0)
          /\ rewound'[n] = IF Passed(n) /\ ~Passed(n)' THEN rewound[n] + 1 ELSE rewound[n]
      BY <1>2 DEF WindowInv, WindowTypeOK
    <3> QED BY <3>1
  <2> QED BY <1>2, <2>1, <2>2, <2>3 DEF WindowInv
<1>3. ASSUME NEW n \in sent, NEW intact \in BOOLEAN, Verdict(n, intact) = "ok", MoveWindow(n),
             count' = [count EXCEPT ![n] = @ + 1], UNCHANGED <<cursor, sent, rewound>>
      PROVE  WindowInv'
  <2>1. n \in Nonces /\ expected' \in Nonces /\ expected' <= cursor'
    BY <1>3, WindowStaysBehind
  <2>2. expected # NonceLimit - 1
    BY <1>3, <2>1, SaturatedWindowIsShut
  <2>3. n >= expected
    BY <1>3, <2>1 DEF Verdict, WindowInv, WindowTypeOK, Nonces
  <2>4. ~Passed(n) /\ Passed(n)' /\ \A m \in Nonces : Passed(m) => Passed(m)'
    BY <1>3, <2>1, <2>2, <2>3 DEF Passed, MoveWindow, Successor, WindowInv, WindowTypeOK, Nonces
  <2>5. WindowTypeOK'
    BY <1>3, <2>1 DEF WindowInv, WindowTypeOK
  <2>6. ASSUME NEW m \in Nonces
        PROVE  count'[m] <= rewound'[m] + (IF Passed(m)' THEN 1 ELSE 0)
    <3>1. /\ count[m] \in Nat /\ rewound[m] \in Nat /\ rewound'[m] = rewound[m]
          /\ count[m] <= rewound[m] + (IF Passed(m) THEN 1 ELSE 0)
          /\ count'[m] = IF m = n THEN count[m] + 1 ELSE count[m]
      BY <1>3 DEF WindowInv, WindowTypeOK
    <3> QED BY <3>1, <2>4
  <2> QED BY <1>3, <2>1, <2>5, <2>6 DEF WindowInv
<1>4. CASE UNCHANGED nonceVars
  BY <1>4 DEF nonceVars, WindowInv, WindowTypeOK, Passed
<1> QED BY <1>1, <1>2, <1>3, <1>4 DEF WindowNext, Arrive, Resync

(* The inductive invariant holds in every behaviour.                       *)
LEMMA WindowInductive == WindowSpec => []WindowInv
BY WindowInitHolds, WindowStepHolds, PTL DEF WindowSpec

(* The window stays a nonce: it saturates, it does not wrap.               *)
THEOREM WindowTypeCorrect == WindowSpec => []WindowTypeOK
BY WindowInductive, PTL DEF WindowInv

(* A frame is accepted once, and once more only for every resync that      *)
(* moved the window back from behind it, for any width of the nonces, any  *)
(* window of at least one frame and any pairs resynced on.                 *)
THEOREM ReplayNeedsRewindHolds == WindowSpec => []ReplayNeedsRewind
<1>1. WindowInv => ReplayNeedsRewind
  <2> SUFFICES ASSUME WindowInv, NEW n \in Nonces PROVE count[n] <= 1 + rewound[n]
    BY DEF ReplayNeedsRewind
  <2>1. /\ count[n] \in Nat /\ rewound[n] \in Nat
        /\ count[n] <= rewound[n] + (IF Passed(n) THEN 1 ELSE 0)
    BY DEF WindowInv, WindowTypeOK
  <2> QED BY <2>1
<1> QED BY <1>1, WindowInductive, PTL

(* A sender that stays within the window is heard.                         *)
THEOREM SenderIsHeardHolds == WindowSpec => []SenderIsHeard
<1>1. WindowInv => SenderIsHeard
  <2> SUFFICES ASSUME WindowInv PROVE SenderIsHeard
    OBVIOUS
  <2>1. ASSUME cursor <= expected + Skew, expected + Skew < NonceLimit
        PROVE  Verdict(cursor, TRUE) = "ok"
    <3>1. (expected + Skew) % NonceLimit = expected + Skew
      <4>1. expected + Skew \in 0 .. NonceLimit - 1
        BY <2>1, NonceLimitAssumption, SkewAssumption DEF WindowInv, WindowTypeOK, Nonces
      <4> QED BY ONLY <4>1, NonceLimitAssumption
    <3>2. ~(cursor < expected) /\ ~(cursor > (expected + Skew) % NonceLimit)
      BY <2>1, <3>1, SkewAssumption, NonceLimitAssumption DEF WindowInv, WindowTypeOK, Nonces
    <3> QED BY <3>2 DEF Verdict
  <2> QED BY <2>1 DEF SenderIsHeard, WindowInv
<1> QED BY <1>1, WindowInductive, PTL

-----------------------------------------------------------------------------
(* Remainders.                                                             *)

(* Division with remainder, for any divisor.                               *)
LEMMA DivisionStep ==
    ASSUME NEW a \in Int, NEW b \in Nat, b > 0, NEW q \in Int, NEW r \in Int, q = a \div b, r = a % b
    PROVE  a = b * q + r
  OBVIOUS

(* Division with a remainder, both named.                                  *)
LEMMA Division ==
    ASSUME NEW a \in Int, NEW b \in Nat \ {0}
    PROVE  \E q \in Int : \E r \in 0 .. b - 1 : r = a % b /\ a = b * q + r
  <1>1. a % b \in 0 .. b - 1
    OBVIOUS
  <1>2. a \div b \in Int
    OBVIOUS
  <1>3. PICK q \in Int : q = a \div b
    BY <1>2
  <1>4. PICK r \in 0 .. b - 1 : r = a % b
    BY <1>1
  <1>5. a = b * q + r
    BY <1>3, <1>4, DivisionStep
  <1> QED
    BY <1>3, <1>4, <1>5

(* What a remainder is of.                                                 *)
LEMMA RemainderOf ==
    ASSUME NEW b \in Nat \ {0}, NEW q \in Int, NEW r \in 0 .. b - 1
    PROVE  (b * q + r) % b = r
  OBVIOUS

(* There is only one.                                                      *)
LEMMA RemaindersUnique ==
    ASSUME NEW b \in Nat \ {0}, NEW p \in Int, NEW q \in Int, NEW r \in 0 .. b - 1,
           NEW s \in 0 .. b - 1, b * p + r = b * q + s
    PROVE  r = s
  <1>1. CASE p = q
    BY <1>1
  <1>2. CASE p > q
    <2>1. b * (p - q) >= b
      BY <1>2
    <2> QED
      BY <2>1
  <1>3. CASE p < q
    <2>1. b * (q - p) >= b
      BY <1>3
    <2> QED
      BY <2>1
  <1> QED
    BY <1>1, <1>2, <1>3

(* Two numbers have the same remainder exactly when it divides their       *)
(* difference.                                                             *)
LEMMA SameRemainder ==
    ASSUME NEW a \in Int, NEW c \in Int, NEW b \in Nat \ {0}
    PROVE  (a % b = c % b) <=> ((a - c) % b = 0)
  <1>1. PICK p \in Int, x \in 0 .. b - 1 : x = a % b /\ a = b * p + x
    BY Division
  <1>2. PICK q \in Int, y \in 0 .. b - 1 : y = c % b /\ c = b * q + y
    BY Division
  <1>3. PICK d \in Int, z \in 0 .. b - 1 : z = (a - c) % b /\ a - c = b * d + z
    <2>1. a - c \in Int
      OBVIOUS
    <2> QED
      BY <2>1, Division
  <1>4. ASSUME x = y PROVE z = 0
    <2>1. a - c = b * (p - q) + 0
      <3>1. a = b * p + x /\ c = b * q + x
        BY <1>1, <1>2, <1>4
      <3>2. b * (p - q) = b * p - b * q /\ b * p \in Int /\ b * q \in Int
        OBVIOUS
      <3> QED
        BY <3>1, <3>2
    <2>2. b * (p - q) + 0 = b * d + z
      BY <1>3, <2>1
    <2> QED
      BY <2>2, RemaindersUnique
  <1>5. ASSUME z = 0 PROVE x = y
    <2>1. b * p + x = b * (q + d) + y
      <3>1. a = b * p + x /\ c = b * q + y
        BY <1>1, <1>2
      <3>2. a - c = b * d
        BY <1>3, <1>5
      <3>3. b * (q + d) = b * q + b * d
        OBVIOUS
      <3>4. b * p \in Int /\ b * q \in Int /\ b * d \in Int
        OBVIOUS
      <3> QED
        BY <3>1, <3>2, <3>3, <3>4
    <2> QED
      BY <2>1, RemaindersUnique
  <1> QED
    BY <1>1, <1>2, <1>3, <1>4, <1>5

(* What follows in a cycle depends on the remainder only.                  *)
LEMMA NextRemainder ==
    ASSUME NEW a \in Int, NEW c \in Int, NEW b \in Nat \ {0}, a % b = c % b
    PROVE  /\ (a + 1) % b = (c + 1) % b
           /\ ((a + 1) % b) % b = (c + 1) % b
  <1>1. (a - c) % b = 0
    BY SameRemainder
  <1>2. (a + 1) - (c + 1) = a - c
    OBVIOUS
  <1>3. (a + 1) % b = (c + 1) % b
    <2>1. a + 1 \in Int /\ c + 1 \in Int /\ ((a + 1) - (c + 1)) % b = 0
      BY <1>1, <1>2
    <2>2. PICK d \in Int : d = a + 1
      BY <2>1
    <2>3. PICK e \in Int : e = c + 1
      BY <2>1
    <2>4. (d - e) % b = 0
      BY <2>1, <2>2, <2>3
    <2> QED
      BY <2>2, <2>3, <2>4, SameRemainder
  <1>4. PICK q \in Int, x \in 0 .. b - 1 : x = (c + 1) % b /\ c + 1 = b * q + x
    <2>1. c + 1 \in Int
      OBVIOUS
    <2> QED
      BY <2>1, Division
  <1>5. x % b = x
    BY RemainderOf
  <1> QED
    BY <1>3, <1>4, <1>5
-----------------------------------------------------------------------------
(* The channel ensemble.                                                   *)

(* The channel a layer of technology t visits at index k of its plan.      *)
Visits(t, k) == IF t = "lora" THEN plan[k] ELSE k

Places == 0 .. Bands["lora"] - 1

(* The plan is a permutation, cursors count hops up to whole rounds, and   *)
(* every hop went where the plan says.                                     *)
CEInv ==
    /\ plan \in [Places -> Places] /\ \A i, j \in Places : plan[i] = plan[j] => i = j
    /\ shuffle \in Places
    /\ cursors \in [Technologies -> Nat]
    /\ hops \in [Technologies -> Seq(Nat)]
    /\ measured \in Seq(Measurements)
    /\ shuffle > 0 => \A t \in Technologies : hops[t] = <<>>
    /\ \A t \in Technologies :
          /\ cursors[t] % Bands[t] = Len(hops[t]) % Bands[t]
          /\ \A i \in DOMAIN hops[t] : hops[t][i] = Visits(t, (i - 1) % Bands[t])

(* A technology has bands, ...                                             *)
LEMMA BandSizes == \A t \in Technologies : Bands[t] \in Nat \ {0}
  BY BandsAssumption DEF Technologies

(* ... LoRa too.                                                           *)
LEMMA LoraIsABand == "lora" \in Technologies /\ Bands["lora"] \in Nat \ {0}
  BY BandsAssumption DEF Technologies

(* One hop of one layer.                                                   *)
LEMMA HopKeeps ==
    ASSUME CEInv, NEW t \in Technologies, NEW cursor2, NEW hops2,
           cursor2 = Advance(t), hops2 = Append(hops[t], Channel(t))
    PROVE  /\ cursor2 \in Nat /\ hops2 \in Seq(Nat)
           /\ cursor2 % Bands[t] = Len(hops2) % Bands[t]
           /\ \A i \in DOMAIN hops2 : hops2[i] = Visits(t, (i - 1) % Bands[t])
  <1>1. PICK b \in Nat \ {0} : b = Bands[t]
    BY BandSizes
  <1>2. PICK c \in Nat : c = cursors[t]
    BY DEF CEInv
  <1>3. PICK h \in Seq(Nat) : h = hops[t]
    BY DEF CEInv
  <1>4. PICK n \in Nat : n = Len(h)
    BY LenProperties
  <1>5. c % b = n % b /\ \A i \in DOMAIN h : h[i] = Visits(t, (i - 1) % b)
    BY <1>1, <1>2, <1>3, <1>4 DEF CEInv
  <1>6. PICK k \in 0 .. b - 1 : k = c % b /\ k = n % b
    BY <1>5, Division
  <1>7. Channel(t) = Visits(t, k)
    BY <1>1, <1>2, <1>6 DEF Channel, Visits
  <1>8. Visits(t, k) \in Nat
    <2>1. t = "lora" => plan[k] \in Places
      BY <1>1 DEF CEInv, Places
    <2> QED
      BY <2>1, LoraIsABand DEF Visits, Places
  <1>9. hops2 = Append(h, Visits(t, k))
    BY <1>3, <1>7
  <1>10. /\ hops2 \in Seq(Nat) /\ Len(hops2) = n + 1 /\ DOMAIN h = 1 .. n
         /\ DOMAIN hops2 = 1 .. n + 1
         /\ \A i \in 1 .. n : hops2[i] = h[i]
         /\ hops2[n + 1] = Visits(t, k)
    <2>1. /\ hops2 \in Seq(Nat) /\ Len(hops2) = Len(h) + 1
          /\ \A i \in 1 .. Len(h) : hops2[i] = h[i]
          /\ hops2[Len(h) + 1] = Visits(t, k)
      BY <1>8, <1>9, AppendProperties
    <2>2. DOMAIN h = 1 .. Len(h) /\ DOMAIN hops2 = 1 .. Len(hops2)
      BY <2>1, LenProperties
    <2> QED
      BY <1>4, <2>1, <2>2
  <1>11. \A i \in DOMAIN hops2 : hops2[i] = Visits(t, (i - 1) % b)
    <2> TAKE i \in DOMAIN hops2
    <2>1. CASE i \in 1 .. n
      BY <1>5, <1>10, <2>1
    <2>2. CASE i = n + 1
      <3>1. i - 1 = n
        BY <2>2
      <3> QED
        BY <1>6, <1>10, <2>2, <3>1
    <2> QED
      BY <1>10, <2>1, <2>2
  <1>12. cursor2 \in {(c + 1) % b, c + 1}
    BY <1>1, <1>2 DEF Advance
  <1>13. cursor2 \in Nat /\ cursor2 % b = (n + 1) % b
    <2>1. c \in Int /\ n \in Int /\ c + 1 \in Int
      OBVIOUS
    <2>2. /\ (c + 1) % b = (n + 1) % b
          /\ ((c + 1) % b) % b = (n + 1) % b
      BY <1>5, <2>1, NextRemainder
    <2>3. (c + 1) % b \in Nat
      BY <2>1
    <2> QED
      BY <1>12, <2>2, <2>3
  <1> QED
    BY <1>1, <1>10, <1>11, <1>13

(* Hopping and measuring keep the invariant.                               *)
LEMMA CEStepKeeps ==
    ASSUME CEInv, [CENext]_ceVars
    PROVE  CEInv'
  <1>1. CASE UNCHANGED ceVars
    BY <1>1 DEF ceVars, CEInv, Visits
  <1>2. CASE Shuffle
    <2>1. /\ shuffle > 0 /\ shuffle' = shuffle - 1 /\ UNCHANGED <<cursors, measured, hops>>
          /\ \A t \in Technologies : hops[t] = <<>>
      BY <1>2 DEF Shuffle, CEInv
    <2>2. PICK j \in 0 .. shuffle : plan' = Swap(shuffle, j)
      BY <1>2 DEF Shuffle
    <2>3. j \in Places /\ shuffle \in Places /\ shuffle' \in Places
      BY <2>1, LoraIsABand DEF CEInv, Places
    <2>4. plan' \in [Places -> Places]
      BY <2>2, <2>3 DEF Swap, CEInv
    <2>5. \A i \in Places : plan'[i] = IF i = j THEN plan[shuffle]
                                       ELSE IF i = shuffle THEN plan[j] ELSE plan[i]
      BY <2>2, <2>3 DEF Swap, CEInv
    <2>6. \A i, k \in Places : plan'[i] = plan'[k] => i = k
      BY <2>3, <2>5 DEF CEInv
    <2>7. \A t \in Technologies : DOMAIN hops[t] = {}
      BY <2>1
    <2> QED
      BY <2>1, <2>3, <2>4, <2>6, <2>7 DEF CEInv
  <1>3. ASSUME NEW T \in SUBSET Technologies, HopNext(T)
        PROVE  CEInv'
    <2>1. /\ shuffle = 0 /\ UNCHANGED <<plan, shuffle>> /\ measured' = <<>>
          /\ cursors' = [t \in Technologies |-> IF t \in T THEN Advance(t) ELSE cursors[t]]
          /\ hops' = [t \in Technologies |->
                         IF t \in T THEN Append(hops[t], Channel(t)) ELSE hops[t]]
      BY <1>3 DEF HopNext
    <2>2. ASSUME NEW t \in Technologies
          PROVE  /\ cursors'[t] \in Nat /\ hops'[t] \in Seq(Nat)
                 /\ cursors'[t] % Bands[t] = Len(hops'[t]) % Bands[t]
                 /\ \A i \in DOMAIN hops'[t] : hops'[t][i] = Visits(t, (i - 1) % Bands[t])
      <3>1. CASE t \in T
        <4>1. cursors'[t] = Advance(t) /\ hops'[t] = Append(hops[t], Channel(t))
          BY <2>1, <3>1
        <4> QED
          BY <4>1, HopKeeps
      <3>2. CASE t \notin T
        <4>1. cursors'[t] = cursors[t] /\ hops'[t] = hops[t]
          BY <2>1, <3>2
        <4> QED
          BY <4>1 DEF CEInv
      <3> QED
        BY <3>1, <3>2
    <2>3. cursors' \in [Technologies -> Nat] /\ hops' \in [Technologies -> Seq(Nat)]
      BY <2>1, <2>2
    <2>4. \A t \in Technologies :
             \A i \in DOMAIN hops'[t] : hops'[t][i] = Visits(t, (i - 1) % Bands[t])'
      BY <2>1, <2>2 DEF Visits
    <2> QED
      BY <2>1, <2>2, <2>3, <2>4 DEF CEInv
  <1>4. CASE Measure
    BY <1>4, AppendProperties DEF Measure, CEInv, Visits
  <1> QED
    BY <1>1, <1>2, <1>3, <1>4 DEF CENext

(* A technology has gone through all its bands in as many hops, and then   *)
(* goes through them again in the same order.                              *)
LEMMA HopsCover ==
    ASSUME CEInv
    PROVE  HopsCoverTheBand
  <1> SUFFICES ASSUME NEW t \in Technologies, NEW i \in DOMAIN hops[t], NEW j \in DOMAIN hops[t]
               PROVE  (hops[t][i] = hops[t][j]) <=> ((i - j) % Bands[t] = 0)
    BY DEF HopsCoverTheBand
  <1>1. PICK b \in Nat \ {0} : b = Bands[t]
    BY BandSizes
  <1>2. i \in Int /\ j \in Int
    BY LenProperties DEF CEInv
  <1>3. PICK x \in 0 .. b - 1 : x = (i - 1) % b
    <2>1. i - 1 \in Int
      BY <1>2
    <2> QED
      BY <2>1, Division
  <1>4. PICK y \in 0 .. b - 1 : y = (j - 1) % b
    <2>1. j - 1 \in Int
      BY <1>2
    <2> QED
      BY <2>1, Division
  <1>5. hops[t][i] = Visits(t, x) /\ hops[t][j] = Visits(t, y)
    BY <1>1, <1>3, <1>4 DEF CEInv
  <1>6. Visits(t, x) = Visits(t, y) <=> x = y
    BY <1>1 DEF CEInv, Visits, Places
  <1>7. (x = y) <=> ((i - j) % b = 0)
    <2>1. PICK u \in Int : u = i - 1
      BY <1>2
    <2>2. PICK v \in Int : v = j - 1
      BY <1>2
    <2>3. u - v = i - j
      BY <1>2, <2>1, <2>2
    <2>4. (u % b = v % b) <=> ((u - v) % b = 0)
      BY SameRemainder
    <2> QED
      BY <1>3, <1>4, <2>1, <2>2, <2>3, <2>4
  <1> QED
    BY <1>1, <1>5, <1>6, <1>7

(* The uncertainty of a fusion is the least of its losses, and MaxLoss at  *)
(* most.                                                                   *)
LEMMA UncertaintyIsLeast ==
    ASSUME NEW losses \in SUBSET Nat
    PROVE  /\ Uncertainty(losses) \in losses \cup {MaxLoss}
           /\ \A k \in losses \cup {MaxLoss} : Uncertainty(losses) <= k
  <1> DEFINE L == losses \cup {MaxLoss}
  <1>1. L \in SUBSET Nat /\ L # {}
    BY ScoreAssumption
  <1> HIDE DEF L
  <1>2. \E l \in L : IsLeast(l, L)
    BY <1>1, LeastExists
  <1>3. \E l \in L : \A k \in L : l <= k
    BY <1>2 DEF IsLeast
  <1> QED
    BY <1>3 DEF Uncertainty, L

(* What a fusion is made of.                                               *)
BitsOf(ms) == {i \in DOMAIN ms : ms[i].bit}
LossesOf(ms) == {ms[i].loss : i \in DOMAIN ms}
TechsOf(ms) == {ms[i].tech : i \in DOMAIN ms}

(* What a fusion counts is finite.                                         *)
LEMMA FuseShape ==
    ASSUME NEW ms \in Seq(Measurements)
    PROVE  /\ LossesOf(ms) \in SUBSET Nat /\ TechsOf(ms) \subseteq Technologies
           /\ IsFiniteSet(BitsOf(ms)) /\ IsFiniteSet(TechsOf(ms)) /\ IsFiniteSet(Technologies)
           /\ Fuse(ms).bits = Cardinality(BitsOf(ms)) /\ Fuse(ms).bits \in Nat
           /\ Fuse(ms).technologies = Cardinality(TechsOf(ms)) /\ Fuse(ms).technologies \in 0 .. 3
           /\ Fuse(ms).uncertainty = Uncertainty(LossesOf(ms))
           /\ Fuse(ms).uncertainty \in 0 .. MaxLoss
           /\ Cardinality(Technologies) = 3
  <1>1. /\ DOMAIN ms = 1 .. Len(ms) /\ Len(ms) \in Nat
        /\ \A i \in DOMAIN ms : ms[i] \in Measurements
    BY LenProperties, ElementOfSeq
  <1>2. \A i \in DOMAIN ms : ms[i].tech \in Technologies /\ ms[i].loss \in Nat
    BY <1>1, MeasurementsAssumption
  <1>3. LossesOf(ms) \in SUBSET Nat /\ TechsOf(ms) \subseteq Technologies
    BY <1>2 DEF LossesOf, TechsOf
  <1>4. IsFiniteSet(Technologies) /\ Cardinality(Technologies) = 3
    <2>1. Technologies = {"lora", "ble", "wifi"}
      BY BandsAssumption DEF Technologies
    <2>2. /\ IsFiniteSet({"lora"}) /\ Cardinality({"lora"}) = 1
      BY FS_Singleton
    <2>3. /\ IsFiniteSet({"lora"} \cup {"ble"}) /\ Cardinality({"lora"} \cup {"ble"}) = 2
      <3>1. "ble" \notin {"lora"}
        OBVIOUS
      <3>2. IsFiniteSet({"lora"} \cup {"ble"})
        BY <2>2, FS_AddElement
      <3>3. Cardinality({"lora"} \cup {"ble"}) = Cardinality({"lora"}) + 1
        BY <2>2, <3>1, FS_AddElement
      <3> QED
        BY <2>2, <3>2, <3>3
    <2>4. /\ IsFiniteSet(({"lora"} \cup {"ble"}) \cup {"wifi"})
          /\ Cardinality(({"lora"} \cup {"ble"}) \cup {"wifi"}) = 3
      <3>1. "wifi" \notin {"lora"} \cup {"ble"}
        OBVIOUS
      <3>2. IsFiniteSet(({"lora"} \cup {"ble"}) \cup {"wifi"})
        BY <2>3, FS_AddElement
      <3>3. Cardinality(({"lora"} \cup {"ble"}) \cup {"wifi"})
              = Cardinality({"lora"} \cup {"ble"}) + 1
        BY <2>3, <3>1, FS_AddElement
      <3> QED
        BY <2>3, <3>2, <3>3
    <2>5. ({"lora"} \cup {"ble"}) \cup {"wifi"} = Technologies
      BY <2>1
    <2> QED
      BY <2>4, <2>5
  <1>5. IsFiniteSet(TechsOf(ms)) /\ Cardinality(TechsOf(ms)) \in 0 .. 3
    <2>1. IsFiniteSet(TechsOf(ms)) /\ Cardinality(TechsOf(ms)) <= Cardinality(Technologies)
      BY <1>3, <1>4, FS_Subset
    <2>2. Cardinality(TechsOf(ms)) \in Nat
      BY <2>1, FS_CardinalityType
    <2> QED
      BY <1>4, <2>1, <2>2
  <1>6. IsFiniteSet(BitsOf(ms)) /\ Cardinality(BitsOf(ms)) \in Nat
    <2>1. IsFiniteSet(DOMAIN ms)
      BY <1>1, FS_Interval
    <2>2. IsFiniteSet(BitsOf(ms))
      BY <2>1, FS_Subset DEF BitsOf
    <2> QED
      BY <2>2, FS_CardinalityType
  <1>7. Uncertainty(LossesOf(ms)) \in 0 .. MaxLoss
    <2>1. Uncertainty(LossesOf(ms)) \in Nat /\ Uncertainty(LossesOf(ms)) <= MaxLoss
      BY <1>3, UncertaintyIsLeast, ScoreAssumption
    <2> QED
      BY <2>1, ScoreAssumption
  <1>8. /\ Fuse(ms).bits = Cardinality(BitsOf(ms))
        /\ Fuse(ms).technologies = Cardinality(TechsOf(ms))
        /\ Fuse(ms).uncertainty = Uncertainty(LossesOf(ms))
    BY DEF Fuse, BitsOf, TechsOf, LossesOf
  <1> QED
    BY <1>3, <1>4, <1>5, <1>6, <1>7, <1>8

(* More bits, more technologies and less loss never make a lower score.    *)
LEMMA ScoreIsMonotone ==
    ASSUME NEW f, NEW g, f.bits \in Nat, g.bits \in Nat, f.bits <= g.bits,
           f.technologies \in Nat, g.technologies \in Nat, f.technologies <= g.technologies,
           f.uncertainty \in 0 .. MaxLoss, g.uncertainty \in 0 .. MaxLoss,
           g.uncertainty <= f.uncertainty
    PROVE  SecurityScore(f) <= SecurityScore(g)
  <1>1. PICK M \in Nat, E \in Nat : M = MaxLoss /\ E = EnoughBits
    BY ScoreAssumption
  <1>2. PICK x \in Nat : x = IF f.bits < E THEN f.bits ELSE E
    OBVIOUS
  <1>3. PICK y \in Nat : y = IF g.bits < E THEN g.bits ELSE E
    OBVIOUS
  <1>4. x <= y
    BY <1>2, <1>3
  <1>5. PICK t \in Nat, u \in Nat, v \in Nat, w \in Nat :
           /\ t = f.technologies /\ u = g.technologies
           /\ v = M - f.uncertainty /\ w = M - g.uncertainty
    BY <1>1
  <1>6. t <= u /\ v <= w
    BY <1>1, <1>5
  <1>7. x * M <= y * M
    BY <1>4
  <1>8. E * M \in Nat /\ t * (E * M) <= u * (E * M)
    BY <1>6
  <1>9. E * v <= E * w
    BY <1>6
  <1>10. /\ SecurityScore(f) = 4 * x * M + t * E * M + 3 * E * v
         /\ SecurityScore(g) = 4 * y * M + u * E * M + 3 * E * w
    BY <1>1, <1>2, <1>3, <1>5 DEF SecurityScore
  <1>11. /\ 4 * x * M = 4 * (x * M) /\ 4 * y * M = 4 * (y * M)
         /\ t * E * M = t * (E * M) /\ u * E * M = u * (E * M)
         /\ 3 * E * v = 3 * (E * v) /\ 3 * E * w = 3 * (E * w)
    OBVIOUS
  <1>12. /\ x * M \in Nat /\ y * M \in Nat /\ t * (E * M) \in Nat /\ u * (E * M) \in Nat
         /\ E * v \in Nat /\ E * w \in Nat
    OBVIOUS
  <1> QED
    BY <1>7, <1>8, <1>9, <1>10, <1>11, <1>12

(* The full score needs every technology.                                  *)
LEMMA FullScoreNeedsAll ==
    ASSUME NEW f, f.bits \in Nat, f.technologies \in 0 .. 3, f.uncertainty \in 0 .. MaxLoss,
           SecurityScore(f) = 10 * EnoughBits * MaxLoss
    PROVE  f.technologies = 3
  <1>1. PICK M \in Nat \ {0}, E \in Nat \ {0} : M = MaxLoss /\ E = EnoughBits
    BY ScoreAssumption
  <1>2. PICK x \in 0 .. E : x = IF f.bits < E THEN f.bits ELSE E
    OBVIOUS
  <1>3. PICK t \in 0 .. 3, v \in 0 .. M : t = f.technologies /\ v = M - f.uncertainty
    BY <1>1
  <1>4. 4 * x * M + t * E * M + 3 * E * v = 10 * E * M
    BY <1>1, <1>2, <1>3 DEF SecurityScore
  <1>5. PICK p \in Nat : p = E * M
    OBVIOUS
  <1>6. p > 0
    BY <1>5
  <1>7. x * M <= p /\ E * v <= p /\ x * M \in Nat /\ E * v \in Nat
    BY <1>5
  <1>8. 4 * (x * M) + t * p + 3 * (E * v) = 10 * p
    <2>1. /\ 4 * x * M = 4 * (x * M) /\ t * E * M = t * (E * M)
          /\ 3 * E * v = 3 * (E * v) /\ 10 * E * M = 10 * (E * M)
      OBVIOUS
    <2> QED
      BY <1>4, <1>5, <2>1
  <1>9. t * p >= 3 * p
    BY <1>7, <1>8
  <1>10. CASE t \in 0 .. 2
    BY <1>6, <1>9, <1>10
  <1> QED
    BY <1>3, <1>10

(* One more measurement never makes the score lower.                       *)
LEMMA EvidenceHelps ==
    ASSUME measured \in Seq(Measurements)
    PROVE  EvidenceOnlyHelps
  <1>1. ASSUME NEW n \in 1 .. Len(measured)
        PROVE  SecurityScore(Fuse(SubSeq(measured, 1, n - 1)))
                  <= SecurityScore(Fuse(SubSeq(measured, 1, n)))
    <2>1. PICK ms : ms = SubSeq(measured, 1, n - 1)
      OBVIOUS
    <2>2. PICK ns : ns = SubSeq(measured, 1, n)
      OBVIOUS
    <2>3. Len(measured) \in Nat /\ n \in Nat \ {0} /\ n <= Len(measured)
      BY LenProperties
    <2>4. /\ ms \in Seq(Measurements) /\ DOMAIN ms = 1 .. n - 1
          /\ \A i \in 1 .. n - 1 : ms[i] = measured[i]
      <3>1. \A i \in 1 .. n - 1 : measured[i] \in Measurements
        BY <2>3, ElementOfSeq
      <3>2. ms = [i \in 1 .. n - 1 |-> measured[i]]
        BY <2>1, <2>3
      <3>3. ms \in Seq(Measurements)
        BY <2>3, <3>1, <3>2, IsASeq
      <3> QED
        BY <3>2, <3>3
    <2>5. /\ ns \in Seq(Measurements) /\ DOMAIN ns = 1 .. n
          /\ \A i \in 1 .. n : ns[i] = measured[i]
      <3>1. \A i \in 1 .. n : measured[i] \in Measurements
        BY <2>3, ElementOfSeq
      <3>2. ns = [i \in 1 .. n |-> measured[i]]
        BY <2>2, <2>3
      <3>3. ns \in Seq(Measurements)
        BY <2>3, <3>1, <3>2, IsASeq
      <3> QED
        BY <3>2, <3>3
    <2>6. /\ BitsOf(ms) \subseteq BitsOf(ns) /\ TechsOf(ms) \subseteq TechsOf(ns)
          /\ LossesOf(ms) \subseteq LossesOf(ns)
      BY <2>3, <2>4, <2>5 DEF BitsOf, TechsOf, LossesOf
    <2>7. Cardinality(BitsOf(ms)) <= Cardinality(BitsOf(ns))
      BY <2>5, <2>6, FuseShape, FS_Subset
    <2>8. Cardinality(TechsOf(ms)) <= Cardinality(TechsOf(ns))
      BY <2>5, <2>6, FuseShape, FS_Subset
    <2>9. Uncertainty(LossesOf(ns)) <= Uncertainty(LossesOf(ms))
      BY <2>4, <2>5, <2>6, FuseShape, UncertaintyIsLeast
    <2>10. SecurityScore(Fuse(ms)) <= SecurityScore(Fuse(ns))
      <3>1. /\ Fuse(ms).bits \in Nat /\ Fuse(ms).technologies \in Nat
            /\ Fuse(ms).uncertainty \in 0 .. MaxLoss
            /\ Fuse(ms).bits = Cardinality(BitsOf(ms))
            /\ Fuse(ms).technologies = Cardinality(TechsOf(ms))
            /\ Fuse(ms).uncertainty = Uncertainty(LossesOf(ms))
        BY <2>4, FuseShape
      <3>2. /\ Fuse(ns).bits \in Nat /\ Fuse(ns).technologies \in Nat
            /\ Fuse(ns).uncertainty \in 0 .. MaxLoss
            /\ Fuse(ns).bits = Cardinality(BitsOf(ns))
            /\ Fuse(ns).technologies = Cardinality(TechsOf(ns))
            /\ Fuse(ns).uncertainty = Uncertainty(LossesOf(ns))
        BY <2>5, FuseShape
      <3>3. /\ Fuse(ms).bits <= Fuse(ns).bits
            /\ Fuse(ms).technologies <= Fuse(ns).technologies
            /\ Fuse(ns).uncertainty <= Fuse(ms).uncertainty
        BY <2>7, <2>8, <2>9, <3>1, <3>2
      <3> QED
        BY <3>1, <3>2, <3>3, ScoreIsMonotone
    <2> QED
      BY <2>1, <2>2, <2>10
  <1>2. ASSUME SecurityScore(Fuse(measured)) = 10 * EnoughBits * MaxLoss
        PROVE  TechsOf(measured) = Technologies
    <2>1. Cardinality(TechsOf(measured)) = 3
      BY <1>2, FuseShape, FullScoreNeedsAll
    <2> QED
      BY <2>1, FuseShape, FS_Subset
  <1> QED
    BY <1>1, <1>2 DEF EvidenceOnlyHelps, TechsOf

(* Whatever the seed and however the layers are stepped, hops cover their  *)
(* band before they repeat, evidence never lowers a score, and the full    *)
(* score takes every technology: for bands of any size, any number of hops *)
(* and any measurements.                                                   *)
THEOREM EnsembleIsFairHolds == CESpec => []EnsembleIsFair
  <1>1. CEInit => CEInv
    <2> SUFFICES ASSUME CEInit PROVE CEInv
      OBVIOUS
    <2>1. /\ plan \in [Places -> Places] /\ \A i, j \in Places : plan[i] = plan[j] => i = j
          /\ shuffle \in Places
      BY LoraIsABand DEF CEInit, Places
    <2>2. \A t \in Technologies : Len(hops[t]) = 0 /\ DOMAIN hops[t] = {} /\ cursors[t] = 0
      BY DEF CEInit
    <2> QED
      BY <2>1, <2>2 DEF CEInit, CEInv
  <1>2. CEInv => EnsembleIsFair
    BY HopsCover, EvidenceHelps DEF EnsembleIsFair, CEInv
  <1> QED
    BY <1>1, <1>2, CEStepKeeps, PTL DEF CESpec

-----------------------------------------------------------------------------
(* The anomaly detector: any ring, any samples.                            *)

(* The places whose value is at most x, and below x.                       *)
UpTo(f, n, x) == {p \in 0 .. n - 1 : f[p] <= x}
Below(f, n, x) == {p \in 0 .. n - 1 : f[p] < x}

HasRank(x, f, n, k) ==
    /\ \E p \in 0 .. n - 1 : x = f[p]
    /\ Cardinality(Below(f, n, x)) <= k
    /\ Cardinality(UpTo(f, n, x)) > k

Measured(f, n) == \A p \in 0 .. n - 1 : f[p] \in Nat

(* There are finitely many such places.                                   *)
LEMMA PlacesFinite ==
    ASSUME NEW n \in Nat, NEW f, NEW x
    PROVE  /\ IsFiniteSet(UpTo(f, n, x)) /\ IsFiniteSet(Below(f, n, x))
           /\ Cardinality(UpTo(f, n, x)) \in Nat /\ Cardinality(Below(f, n, x)) \in Nat
  <1>1. IsFiniteSet(0 .. n - 1)
    BY FS_Interval
  <1>2. UpTo(f, n, x) \subseteq 0 .. n - 1 /\ Below(f, n, x) \subseteq 0 .. n - 1
    BY DEF UpTo, Below
  <1> QED
    BY <1>1, <1>2, FS_Subset, FS_CardinalityType

(* Finitely many values have a bound.                                      *)
LEMMA BoundExists ==
    ASSUME NEW n \in Nat, NEW f, Measured(f, n)
    PROVE  \E b \in Nat : \A p \in 0 .. n - 1 : f[p] <= b
  <1> DEFINE Unbounded == {m \in Nat : m <= n /\ ~ \E b \in Nat : \A p \in 0 .. m - 1 : f[p] <= b}
  <1>1. SUFFICES ASSUME Unbounded # {} PROVE FALSE
    OBVIOUS
  <1>2. PICK m \in Unbounded : \A k \in Unbounded : m <= k
    <2>1. Unbounded \in SUBSET Nat
      OBVIOUS
    <2> HIDE DEF Unbounded
    <2> QED
      BY <1>1, <2>1, LeastExists DEF IsLeast
  <1>3. m # 0
    OBVIOUS
  <1>4. m - 1 \in Nat /\ m - 1 <= n /\ m - 1 \notin Unbounded /\ m \in Nat /\ m <= n
    <2>1. m \in Nat /\ m <= n
      OBVIOUS
    <2>2. m - 1 \in Nat /\ ~(m <= m - 1)
      BY <1>3, <2>1
    <2> HIDE DEF Unbounded
    <2> QED
      BY <1>2, <2>1, <2>2
  <1>5. PICK b \in Nat : \A p \in 0 .. (m - 1) - 1 : f[p] <= b
    BY <1>4
  <1>6. f[m - 1] \in Nat
    BY <1>4, <1>3 DEF Measured
  <1>7. PICK c \in Nat : c >= b /\ c >= f[m - 1]
    <2>1. b + f[m - 1] \in Nat /\ b + f[m - 1] >= b /\ b + f[m - 1] >= f[m - 1]
      BY <1>6
    <2> QED
      BY <2>1
  <1>8. \A p \in 0 .. m - 1 : f[p] <= c
    <2> SUFFICES ASSUME NEW p \in 0 .. m - 1 PROVE f[p] <= c
      OBVIOUS
    <2>1. CASE p = m - 1
      BY <1>7, <2>1
    <2>2. CASE p # m - 1
      <3>1. p \in 0 .. (m - 1) - 1 /\ p \in 0 .. n - 1
        BY <1>4, <2>2
      <3>2. f[p] \in Nat /\ f[p] <= b
        BY <1>5, <3>1 DEF Measured
      <3> QED
        BY <1>7, <3>2
    <2> QED
      BY <2>1, <2>2
  <1> QED
    BY <1>8

(* Every rank below n is some value's.                                     *)
LEMMA RankExists ==
    ASSUME NEW n \in Nat, NEW f, Measured(f, n), NEW k \in Nat, k < n
    PROVE  \E x \in Nat : HasRank(x, f, n, k)
  <1> DEFINE Enough == {m \in Nat : Cardinality(UpTo(f, n, m)) > k}
  <1>1. Enough # {}
    <2>1. PICK b \in Nat : \A p \in 0 .. n - 1 : f[p] <= b
      BY BoundExists
    <2>2. UpTo(f, n, b) = 0 .. n - 1
      BY <2>1 DEF UpTo
    <2>3. Cardinality(0 .. n - 1) = n
      BY FS_Interval
    <2> QED
      BY <2>2, <2>3
  <1>2. PICK m \in Enough : \A j \in Enough : m <= j
    <2>1. Enough \in SUBSET Nat
      OBVIOUS
    <2> HIDE DEF Enough
    <2> QED
      BY <1>1, <2>1, LeastExists DEF IsLeast
  <1>3. m \in Nat /\ Cardinality(UpTo(f, n, m)) > k
    OBVIOUS
  <1>4. Cardinality(Below(f, n, m)) <= k
    <2>1. CASE m = 0
      <3>1. Below(f, n, m) = {}
        BY <2>1 DEF Below, Measured
      <3> QED
        BY <3>1, FS_EmptySet
    <2>2. CASE m # 0
      <3>1. m - 1 \in Nat /\ ~(m <= m - 1)
        BY <1>3, <2>2
      <3>2. m - 1 \notin Enough
        <4> HIDE DEF Enough
        <4> QED
          BY <1>2, <3>1
      <3>3. Cardinality(UpTo(f, n, m - 1)) <= k
        BY <3>1, <3>2, PlacesFinite
      <3>4. UpTo(f, n, m - 1) = Below(f, n, m)
        BY <1>3 DEF UpTo, Below, Measured
      <3> QED
        BY <3>3, <3>4
    <2> QED
      BY <2>1, <2>2
  <1>5. \E p \in 0 .. n - 1 : m = f[p]
    <2> SUFFICES ASSUME \A p \in 0 .. n - 1 : m # f[p] PROVE FALSE
      OBVIOUS
    <2>1. UpTo(f, n, m) = Below(f, n, m)
      BY <1>3 DEF UpTo, Below, Measured
    <2>2. Cardinality(UpTo(f, n, m)) \in Nat
      BY PlacesFinite
    <2> QED
      BY <1>3, <1>4, <2>1, <2>2
  <1> QED
    BY <1>3, <1>4, <1>5 DEF HasRank

(* ... and of only one. *)
LEMMA RankUnique ==
    ASSUME NEW n \in Nat, NEW f, Measured(f, n), NEW k \in Nat,
           NEW x, NEW y, HasRank(x, f, n, k), HasRank(y, f, n, k)
    PROVE  ~(x < y)
  <1> SUFFICES ASSUME x < y PROVE FALSE
    OBVIOUS
  <1>1. x \in Nat /\ y \in Nat
    BY DEF HasRank, Measured
  <1>2. UpTo(f, n, x) \subseteq Below(f, n, y)
    BY <1>1 DEF UpTo, Below, Measured
  <1>3. Cardinality(UpTo(f, n, x)) <= Cardinality(Below(f, n, y))
    BY <1>2, PlacesFinite, FS_Subset
  <1>4. Cardinality(UpTo(f, n, x)) > k /\ Cardinality(Below(f, n, y)) <= k
    BY DEF HasRank
  <1>5. Cardinality(UpTo(f, n, x)) \in Nat /\ Cardinality(Below(f, n, y)) \in Nat
    BY PlacesFinite
  <1> QED
    BY <1>3, <1>4, <1>5

(* Ranked is the value that has the rank.                                  *)
LEMMA RankedIs ==
    ASSUME NEW n \in Nat, NEW f, Measured(f, n), NEW k \in Nat, NEW x, HasRank(x, f, n, k)
    PROVE  Ranked(f, n, k) = x
  <1>1. HasRank(Ranked(f, n, k), f, n, k)
    <2> DEFINE S == {f[p] : p \in 0 .. n - 1}
               Q(v) == /\ Cardinality(Below(f, n, v)) <= k
                       /\ Cardinality(UpTo(f, n, v)) > k
    <2>1. Ranked(f, n, k) = CHOOSE v \in S : Q(v)
      BY DEF Ranked, Below, UpTo
    <2>2. \E v \in S : Q(v)
      BY DEF HasRank
    <2>3. Ranked(f, n, k) \in S /\ Q(Ranked(f, n, k))
      <3> HIDE DEF S, Q
      <3> QED
        BY <2>1, <2>2
    <2> QED
      BY <2>3 DEF HasRank
  <1>2. ~(Ranked(f, n, k) < x) /\ ~(x < Ranked(f, n, k))
    BY <1>1, RankUnique
  <1>3. x \in Nat /\ Ranked(f, n, k) \in Nat
    BY <1>1 DEF HasRank, Measured
  <1> QED
    BY <1>2, <1>3

(* What Ranked returns.                                                    *)
LEMMA RankedHasRank ==
    ASSUME NEW n \in Nat, NEW f, Measured(f, n), NEW k \in Nat, k < n
    PROVE  Ranked(f, n, k) \in Nat /\ HasRank(Ranked(f, n, k), f, n, k)
  BY RankExists, RankedIs

-----------------------------------------------------------------------------
(* The same values in another order.                                       *)

Rearranges(b, f, g, n) ==
    /\ b \in Bijection(0 .. n - 1, 0 .. n - 1)
    /\ \A p \in 0 .. n - 1 : f[p] = g[b[p]]

(* As many places as before pass a test on the value.                      *)
LEMMA SameCount ==
    ASSUME NEW n \in Nat, NEW R, NEW b, b \in Bijection(0 .. n - 1, R),
           NEW S \in SUBSET (0 .. n - 1), NEW T \in SUBSET R,
           \A p \in 0 .. n - 1 : p \in S <=> b[p] \in T
    PROVE  Cardinality(S) = Cardinality(T)
  <1> DEFINE P == 0 .. n - 1
             h == [p \in S |-> b[p]]
  <1>1. IsFiniteSet(S)
    <2>1. IsFiniteSet(0 .. n - 1)
      BY FS_Interval
    <2> QED
      BY <2>1, FS_Subset
  <1>2. /\ b \in [P -> R]
        /\ \A p, q \in P : b[p] = b[q] => p = q
        /\ \A q \in R : \E p \in P : b[p] = q
    BY DEF Bijection, Injection, Surjection, IsInjective
  <1>3. h \in [S -> T]
    BY <1>2
  <1>4. \A p, q \in S : h[p] = h[q] => p = q
    BY <1>2
  <1>5. \A q \in T : \E p \in S : h[p] = q
    BY <1>2
  <1>6. h \in Bijection(S, T)
    <2> HIDE DEF h
    <2> QED
      BY <1>3, <1>4, <1>5 DEF Bijection, Injection, Surjection, IsInjective
  <1>7. ExistsBijection(S, T)
    <2> HIDE DEF h
    <2> QED
      BY <1>6 DEF ExistsBijection
  <1> QED
    BY <1>1, <1>7, FS_Bijection

(* Ranks, and with them medians, do not depend on the order.               *)
LEMMA SameRanked ==
    ASSUME NEW n \in Nat, NEW f, NEW g, Measured(g, n), NEW b, Rearranges(b, f, g, n),
           NEW k \in Nat, k < n
    PROVE  Ranked(f, n, k) = Ranked(g, n, k)
  <1> DEFINE x == Ranked(g, n, k)
  <1>1. HasRank(x, g, n, k) /\ x \in Nat
    BY RankedHasRank
  <1> HIDE DEF x
  <1>2. /\ b \in [0 .. n - 1 -> 0 .. n - 1]
        /\ \A q \in 0 .. n - 1 : \E p \in 0 .. n - 1 : b[p] = q
    BY DEF Rearranges, Bijection, Injection, Surjection, IsInjective
  <1>3. Measured(f, n)
    BY <1>2 DEF Measured, Rearranges
  <1>4. Cardinality(UpTo(f, n, x)) = Cardinality(UpTo(g, n, x))
    <2>1. \A p \in 0 .. n - 1 : p \in UpTo(f, n, x) <=> b[p] \in UpTo(g, n, x)
      BY <1>2 DEF UpTo, Rearranges
    <2>2. UpTo(f, n, x) \in SUBSET (0 .. n - 1) /\ UpTo(g, n, x) \in SUBSET (0 .. n - 1)
      BY DEF UpTo
    <2> QED
      BY <2>1, <2>2, SameCount DEF Rearranges
  <1>5. Cardinality(Below(f, n, x)) = Cardinality(Below(g, n, x))
    <2>1. \A p \in 0 .. n - 1 : p \in Below(f, n, x) <=> b[p] \in Below(g, n, x)
      BY <1>2 DEF Below, Rearranges
    <2>2. Below(f, n, x) \in SUBSET (0 .. n - 1) /\ Below(g, n, x) \in SUBSET (0 .. n - 1)
      BY DEF Below
    <2> QED
      BY <2>1, <2>2, SameCount DEF Rearranges
  <1>6. \E p \in 0 .. n - 1 : x = f[p]
    <2>1. PICK q \in 0 .. n - 1 : x = g[q]
      BY <1>1 DEF HasRank
    <2>2. PICK p \in 0 .. n - 1 : b[p] = q
      BY <1>2
    <2>3. f[p] = g[b[p]]
      BY DEF Rearranges
    <2> QED
      BY <2>1, <2>2, <2>3
  <1>7. HasRank(x, f, n, k)
    BY <1>1, <1>4, <1>5, <1>6 DEF HasRank
  <1>8. Ranked(f, n, k) = x
    BY <1>3, <1>7, RankedIs
  <1> QED
    BY <1>8 DEF x

(* A median lies at or above the upper of its middle values, halved.       *)
LEMMA MedianType ==
    ASSUME NEW n \in Nat \ {0}, NEW f, Measured(f, n)
    PROVE  /\ n \div 2 \in Nat /\ n \div 2 < n
           /\ Ranked(f, n, n \div 2) \in Nat
           /\ TwiceMedian(f, n) \in Nat
           /\ TwiceMedian(f, n) >= Ranked(f, n, n \div 2)
  <1> DEFINE low == IF n % 2 = 1 THEN n \div 2 ELSE n \div 2 - 1
  <1>1. n \div 2 \in Nat /\ n \div 2 < n /\ low \in Nat /\ low < n
    OBVIOUS
  <1>2. Ranked(f, n, n \div 2) \in Nat
    BY <1>1, RankedHasRank
  <1>3. Ranked(f, n, low) \in Nat
    <2> HIDE DEF low
    <2> QED
      BY <1>1, RankedHasRank
  <1>4. TwiceMedian(f, n) = Ranked(f, n, n \div 2) + Ranked(f, n, low)
    BY DEF TwiceMedian
  <1> HIDE DEF low
  <1> QED
    BY <1>1, <1>2, <1>3, <1>4

(* The median does not depend on the order.                                *)
LEMMA SameMedian ==
    ASSUME NEW n \in Nat \ {0}, NEW f, NEW g, Measured(g, n), NEW b, Rearranges(b, f, g, n)
    PROVE  TwiceMedian(f, n) = TwiceMedian(g, n) /\ TwiceMedian(g, n) \in Nat
  <1> DEFINE low == IF n % 2 = 1 THEN n \div 2 ELSE n \div 2 - 1
  <1>1. n \div 2 \in Nat /\ n \div 2 < n /\ low \in Nat /\ low < n
    OBVIOUS
  <1>2. Ranked(f, n, n \div 2) = Ranked(g, n, n \div 2) /\ Ranked(g, n, n \div 2) \in Nat
    BY <1>1, SameRanked, RankedHasRank
  <1>3. Ranked(f, n, low) = Ranked(g, n, low) /\ Ranked(g, n, low) \in Nat
    <2> HIDE DEF low
    <2> QED
      BY <1>1, SameRanked, RankedHasRank
  <1> QED
    BY <1>2, <1>3 DEF TwiceMedian

-----------------------------------------------------------------------------
(* The verdict.                                                            *)

Distances(f, n, m) == [p \in 0 .. n - 1 |-> Distance(f[p], m)]

(* Distances are natural numbers, ...                                       *)
LEMMA DistanceType ==
    ASSUME NEW x \in Nat, NEW m \in Nat
    PROVE  Distance(x, m) \in Nat
  BY DEF Distance

(* ... and so are those of a whole window. *)
LEMMA DistancesMeasured ==
    ASSUME NEW n \in Nat, NEW f, Measured(f, n), NEW m \in Nat
    PROVE  Measured(Distances(f, n, m), n)
  BY DistanceType DEF Measured, Distances

(* The verdict on a sample does not depend on the order of the window.     *)
LEMMA SameJudge ==
    ASSUME NEW n \in Nat \ {0}, NEW f, NEW g, Measured(g, n), NEW b, Rearranges(b, f, g, n), NEW x
    PROVE  Judge(x, f, n) = Judge(x, g, n)
  <1>1. PICK m \in Nat : m = TwiceMedian(f, n) /\ m = TwiceMedian(g, n)
    BY SameMedian
  <1>2. b \in [0 .. n - 1 -> 0 .. n - 1]
    BY DEF Rearranges, Bijection, Injection
  <1>3. Rearranges(b, Distances(f, n, m), Distances(g, n, m), n)
    BY <1>2 DEF Rearranges, Distances
  <1>4. Measured(Distances(g, n, m), n)
    BY DistancesMeasured
  <1>5. TwiceMedian(Distances(f, n, m), n) = TwiceMedian(Distances(g, n, m), n)
    BY <1>3, <1>4, SameMedian
  <1> QED
    BY <1>1, <1>5 DEF Judge, Distances

(* A sample that is called an anomaly is farther from the median than the  *)
(* median distance, and so than half of the window.                        *)
LEMMA AnomalyIsFar ==
    ASSUME NEW n \in Nat \ {0}, NEW f, Measured(f, n), NEW x \in Nat, Judge(x, f, n) = "anomaly",
           NEW m, m = TwiceMedian(f, n)
    PROVE  2 * Cardinality(Below(Distances(f, n, m), n, Distance(x, m))) >= n
  <1>1. m \in Nat /\ Distance(x, m) \in Nat
    BY MedianType, DistanceType
  <1> DEFINE d == Distances(f, n, m)
             far == Distance(x, m)
             mad4 == TwiceMedian(d, n)
             mid == Ranked(d, n, n \div 2)
  <1>2. Measured(d, n)
    BY <1>1, DistancesMeasured
  <1>3. 20000 * far > 44478 * mad4
    BY DEF Judge, Distances
  <1>4. far \in Nat
    BY <1>1
  <1> HIDE DEF d, far
  <1>5. n \div 2 \in Nat /\ n \div 2 < n /\ mad4 \in Nat /\ mid \in Nat /\ mad4 >= mid
    BY <1>2, MedianType
  <1>6. HasRank(mid, d, n, n \div 2)
    BY <1>2, <1>5, RankedHasRank
  <1> HIDE DEF mad4, mid
  <1>7. mid < far
    BY <1>3, <1>4, <1>5
  <1>8. UpTo(d, n, mid) \subseteq Below(d, n, far)
    BY <1>2, <1>4, <1>5, <1>7 DEF UpTo, Below, Measured
  <1>9. Cardinality(UpTo(d, n, mid)) <= Cardinality(Below(d, n, far))
    BY <1>8, PlacesFinite, FS_Subset
  <1>10. Cardinality(UpTo(d, n, mid)) > n \div 2
    BY <1>6 DEF HasRank
  <1>11. Cardinality(UpTo(d, n, mid)) \in Nat /\ Cardinality(Below(d, n, far)) \in Nat
    BY PlacesFinite
  <1>12. Cardinality(Below(d, n, far)) >= n \div 2 + 1
    BY <1>5, <1>9, <1>10, <1>11
  <1>13. 2 * (n \div 2) + 1 >= n
    OBVIOUS
  <1>14. 2 * Cardinality(Below(d, n, far)) >= n
    BY <1>5, <1>11, <1>12, <1>13
  <1> QED
    BY <1>14 DEF d, far

-----------------------------------------------------------------------------
(* The ring.                                                               *)

(* What the ring holds: the latest samples, each at the place of its       *)
(* number.                                                                 *)
AWInv ==
    /\ seen \in Seq(Samples)
    /\ window \in [0 .. Window - 1 -> Nat]
    /\ filled = (IF Latest < Window THEN Latest ELSE Window)
    /\ pos = Latest % Window
    /\ \A i \in Recent : window[(i - 1) % Window] = seen[i]
    /\ Latest > 0 => flag = Judge(seen[Latest], window, filled)

(* Samples less than a turn apart have places of their own.                *)
LEMMA PlacesDiffer ==
    ASSUME NEW b \in Nat \ {0}, NEW i \in Int, NEW j \in Int, i < j, j - i < b
    PROVE  i % b # j % b
  <1>1. (j - i) % b = j - i /\ j - i # 0
    OBVIOUS
  <1>2. (j % b = i % b) <=> ((j - i) % b = 0)
    BY SameRemainder
  <1> QED
    BY <1>1, <1>2

(* Every update keeps the ring so.                                         *)
LEMMA AWStepKeeps == AWInv /\ [AWNext]_awVars => AWInv'
  <1> SUFFICES ASSUME AWInv, [AWNext]_awVars PROVE AWInv'
    OBVIOUS
  <1>1. CASE UNCHANGED awVars
    BY <1>1 DEF AWInv, awVars, Latest, Recent
  <1>2. CASE Update
    <2>1. PICK x \in Samples :
             /\ window' = [window EXCEPT ![pos] = x]
             /\ seen' = Append(seen, x)
             /\ filled' = (IF filled < Window THEN filled + 1 ELSE filled)
             /\ pos' = (pos + 1) % Window
             /\ flag' = Judge(x, window', filled')
      BY <1>2 DEF Update, Place
    <2>2. PICK L \in Nat : L = Len(seen)
      BY DEF AWInv
    <2>3. /\ Len(seen') = L + 1 /\ seen' \in Seq(Samples) /\ seen'[L + 1] = x
          /\ \A i \in 1 .. L : seen'[i] = seen[i]
      BY <2>1, <2>2 DEF AWInv
    <2>4. Window \in Nat \ {0} /\ x \in Nat
      BY RingAssumption, SamplesAssumption
    <2>5. pos = L % Window /\ L % Window \in 0 .. Window - 1
      BY <2>2, <2>4 DEF AWInv, Latest
    <2>6. pos' = (L + 1) % Window
      <3>1. PICK r \in 0 .. Window - 1 : r = L % Window
        BY <2>5
      <3>2. r % Window = r /\ r \in Int /\ L \in Int
        BY <2>4, <3>1
      <3>3. r % Window = L % Window
        BY <3>1, <3>2
      <3>4. (r + 1) % Window = (L + 1) % Window
        BY <2>4, <3>2, <3>3, NextRemainder
      <3> QED
        BY <2>1, <2>5, <3>1, <3>4
    <2>7. window' \in [0 .. Window - 1 -> Nat] /\ window'[L % Window] = x
      BY <2>1, <2>4, <2>5 DEF AWInv
    <2>8. filled' = (IF L + 1 < Window THEN L + 1 ELSE Window)
      BY <2>1, <2>2, <2>4 DEF AWInv, Latest
    <2>9. ASSUME NEW i \in (IF L + 1 > Window THEN L + 1 - Window + 1 ELSE 1) .. L + 1
          PROVE  window'[(i - 1) % Window] = seen'[i]
      <3>1. CASE i = L + 1
        <4>1. i - 1 = L
          BY <2>2, <3>1
        <4> QED
          BY <2>3, <2>7, <3>1, <4>1
      <3>2. CASE i # L + 1
        <4>1. i \in Int /\ i >= 1 /\ i <= L /\ L - (i - 1) < Window /\ i - 1 < L /\ i - 1 \in Int
          BY <2>4, <2>9, <3>2
        <4>2. (i - 1) % Window # L % Window
          <5>1. PICK j \in Int : j = i - 1
            BY <4>1
          <5>2. j < L /\ L - j < Window /\ L \in Int
            BY <4>1, <5>1
          <5>3. j % Window # L % Window
            BY <2>4, <5>2, PlacesDiffer
          <5> QED
            BY <5>1, <5>3
        <4>3. (i - 1) % Window \in 0 .. Window - 1
          BY <2>4, <4>1
        <4>4. i \in (IF L > Window THEN L - Window + 1 ELSE 1) .. L
          BY <2>4, <4>1
        <4>5. window[(i - 1) % Window] = seen[i]
          BY <2>2, <4>4 DEF AWInv, Recent, Latest
        <4>6. window'[(i - 1) % Window] = window[(i - 1) % Window]
          BY <2>1, <2>5, <4>2, <4>3 DEF AWInv
        <4>7. seen'[i] = seen[i]
          BY <2>3, <4>1
        <4> QED
          BY <4>5, <4>6, <4>7
      <3> QED
        BY <3>1, <3>2
    <2>10. Latest' = L + 1
      BY <2>3 DEF Latest
    <2>11. \A i \in Recent' : window'[(i - 1) % Window] = seen'[i]
      <3>1. Recent' = (IF Latest' > Window THEN Latest' - Window + 1 ELSE 1) .. Latest'
        BY DEF Recent
      <3>2. \A i \in Recent' : i \in (IF L + 1 > Window THEN L + 1 - Window + 1 ELSE 1) .. L + 1
        BY <2>4, <2>10, <3>1
      <3> QED
        BY <2>9, <3>2
    <2>12. flag' = Judge(seen'[Latest'], window', filled')
      BY <2>1, <2>3, <2>10
    <2>13. Judge(seen[Latest], window, filled)' = Judge(seen'[Latest'], window', filled')
      BY DEF Judge, TwiceMedian, Ranked
    <2> QED
      BY <2>3, <2>6, <2>7, <2>8, <2>10, <2>11, <2>12, <2>13 DEF AWInv
  <1> QED
    BY <1>1, <1>2 DEF AWNext

(* From the sample p before the latest to its place in the ring.           *)
Back == [p \in 0 .. filled - 1 |-> (Latest - p - 1) % Window]

(* What the ring holds is the latest samples in another order.             *)
LEMMA BackRearranges ==
    ASSUME AWInv, NEW f, \A p \in 0 .. filled - 1 : f[p] = seen[Latest - p]
    PROVE  Rearranges(Back, f, window, filled)
  <1>1. PICK L \in Nat : L = Latest
    BY DEF AWInv, Latest
  <1>2. PICK n \in Nat : n = filled /\ n <= L /\ n <= Window /\ (n = L \/ n = Window)
    BY <1>1, RingAssumption DEF AWInv
  <1>3. Window \in Nat \ {0}
    BY RingAssumption
  <1>4. ASSUME NEW p \in 0 .. n - 1
        PROVE  (L - p - 1) % Window \in 0 .. n - 1
    <2>1. CASE n = Window
      BY <1>3, <2>1
    <2>2. CASE n = L
      BY <1>2, <1>3, <2>2
    <2> QED
      BY <1>2, <2>1, <2>2
  <1>5. ASSUME NEW p \in 0 .. n - 1, NEW q \in 0 .. n - 1, p < q
        PROVE  (L - p - 1) % Window # (L - q - 1) % Window
    <2>1. PICK i \in Int, j \in Int : i = L - q - 1 /\ j = L - p - 1
      OBVIOUS
    <2>2. i < j /\ j - i < Window
      BY <1>2, <1>3, <1>5, <2>1
    <2>3. i % Window # j % Window
      BY <1>3, <2>2, PlacesDiffer
    <2> QED
      BY <2>1, <2>3
  <1>6. Back = [p \in 0 .. n - 1 |-> (L - p - 1) % Window]
    BY <1>1, <1>2 DEF Back
  <1>7. Back \in [0 .. n - 1 -> 0 .. n - 1]
    BY <1>4, <1>6
  <1>8. \A p, q \in 0 .. n - 1 : Back[p] = Back[q] => p = q
    <2> SUFFICES ASSUME NEW p \in 0 .. n - 1, NEW q \in 0 .. n - 1, Back[p] = Back[q], p # q
                 PROVE  FALSE
      OBVIOUS
    <2>1. (L - p - 1) % Window = (L - q - 1) % Window
      BY <1>6
    <2>2. p < q \/ q < p
      OBVIOUS
    <2> QED
      BY <1>5, <2>1, <2>2
  <1>9. Back \in Bijection(0 .. n - 1, 0 .. n - 1)
    <2>1. Back \in Injection(0 .. n - 1, 0 .. n - 1)
      BY <1>7, <1>8 DEF Injection, IsInjective
    <2>2. IsFiniteSet(0 .. n - 1)
      BY FS_Interval
    <2>3. Back \in Surjection(0 .. n - 1, 0 .. n - 1)
      BY <2>1, <2>2, FS_Injection
    <2> QED
      BY <2>1, <2>3 DEF Bijection
  <1>10. ASSUME NEW p \in 0 .. n - 1
         PROVE  f[p] = window[Back[p]]
    <2>1. PICK i \in Int : i = L - p
      OBVIOUS
    <2>2. i \in Recent
      BY <1>1, <1>2, <1>3, <2>1 DEF Recent
    <2>3. window[(i - 1) % Window] = seen[i]
      BY <2>2 DEF AWInv
    <2>4. Back[p] = (i - 1) % Window
      BY <1>6, <2>1
    <2> QED
      BY <1>1, <1>2, <2>1, <2>3, <2>4
  <1> QED
    BY <1>2, <1>9, <1>10 DEF Rearranges

(* There are as many recent samples as the ring holds.                     *)
LEMMA RecentCount ==
    ASSUME AWInv
    PROVE  /\ filled \in Nat /\ Cardinality(Recent) = filled
           /\ [p \in 0 .. filled - 1 |-> Latest - p] \in Bijection(0 .. filled - 1, Recent)
  <1>1. PICK L \in Nat : L = Latest
    BY DEF AWInv, Latest
  <1>2. PICK n \in Nat : n = filled /\ n <= L
    BY <1>1, RingAssumption DEF AWInv
  <1>3. Recent = L - n + 1 .. L
    BY <1>1, <1>2, RingAssumption DEF Recent, AWInv
  <1> DEFINE h == [p \in 0 .. n - 1 |-> L - p]
  <1>4. h \in [0 .. n - 1 -> Recent] /\ \A p, q \in 0 .. n - 1 : h[p] = h[q] => p = q
    BY <1>3
  <1>5. \A i \in Recent : \E p \in 0 .. n - 1 : h[p] = i
    <2> SUFFICES ASSUME NEW i \in Recent PROVE \E p \in 0 .. n - 1 : h[p] = i
      OBVIOUS
    <2>1. L - i \in 0 .. n - 1 /\ L - (L - i) = i
      BY <1>3
    <2> QED
      BY <2>1
  <1>6. h \in Bijection(0 .. n - 1, Recent)
    <2> HIDE DEF h
    <2> QED
      BY <1>4, <1>5 DEF Bijection, Injection, Surjection, IsInjective
  <1>7. Cardinality(L - n + 1 .. L) = n
    <2>1. L - n + 1 \in Int /\ L \in Int
      OBVIOUS
    <2>2. Cardinality(L - n + 1 .. L) = IF L - n + 1 > L THEN 0 ELSE L - (L - n + 1) + 1
      BY <2>1, FS_Interval
    <2> QED
      BY <2>2
  <1> QED
    BY <1>1, <1>2, <1>3, <1>6, <1>7

(* update judges a sample by the last WINDOW samples and nothing older,    *)
(* whatever their order in the ring, and what it calls an anomaly lies     *)
(* farther from their median than at least half of them.                   *)
THEOREM AnomaliesAreRareHolds == AWSpec => []AnomaliesAreRare
  <1>1. AWInit => AWInv
    <2> SUFFICES ASSUME AWInit PROVE AWInv
      OBVIOUS
    <2>1. Latest = 0 /\ seen \in Seq(Samples) /\ Recent = {}
      BY RingAssumption DEF AWInit, Latest, Recent
    <2> QED
      BY <2>1, RingAssumption DEF AWInit, AWInv
  <1>2. AWInv => AnomaliesAreRare
    <2> SUFFICES ASSUME AWInv, Latest > 0 PROVE AnomaliesAreRare
      BY DEF AnomaliesAreRare
    <2>1. PICK n \in Nat \ {0} : n = filled /\ n = Cardinality(Recent)
      BY RecentCount, RingAssumption DEF AWInv, Latest
    <2> DEFINE f == [p \in 0 .. n - 1 |-> seen[Latest - p]]
               x == seen[Latest]
               m == TwiceMedian(f, n)
               Far(y) == Distance(y, m)
    <2>2. Latest \in Nat /\ n <= Latest
      BY <2>1, RingAssumption DEF AWInv, Latest
    <2>3. ASSUME NEW i \in 1 .. Latest
          PROVE  seen[i] \in Nat
      <3>1. seen \in Seq(Samples) /\ i \in 1 .. Len(seen)
        BY <2>3 DEF AWInv, Latest
      <3>2. seen[i] \in Samples
        BY <3>1
      <3> QED
        BY <3>2, SamplesAssumption
    <2>4. Measured(f, n) /\ x \in Nat
      <3>1. \A p \in 0 .. n - 1 : Latest - p \in 1 .. Latest
        BY <2>2
      <3>2. Latest \in 1 .. Latest
        BY <2>2
      <3> QED
        BY <2>3, <3>1, <3>2 DEF Measured
    <2>5. Rearranges(Back, f, window, n)
      BY <2>1, BackRearranges
    <2>6. Measured(window, n)
      BY <2>1, RingAssumption DEF AWInv, Measured, Latest
    <2>7. flag = Judge(x, f, n)
      <3>1. flag = Judge(x, window, n)
        BY <2>1 DEF AWInv
      <3> HIDE DEF f, x
      <3> QED
        BY <2>5, <2>6, <3>1, SameJudge
    <2>8. ASSUME flag = "anomaly"
          PROVE  2 * Cardinality({i \in Recent : Far(seen[i]) < Far(x)}) >= n
      <3> DEFINE S == Below(Distances(f, n, m), n, Far(x))
                 T == {i \in Recent : Far(seen[i]) < Far(x)}
                 h == [p \in 0 .. n - 1 |-> Latest - p]
      <3>1. 2 * Cardinality(S) >= n
        <4>1. Judge(x, f, n) = "anomaly"
          BY <2>7, <2>8
        <4> HIDE DEF f, x
        <4> QED
          BY <2>4, <4>1, AnomalyIsFar
      <3>2. h \in Bijection(0 .. n - 1, Recent)
        BY <2>1, RecentCount
      <3>3. \A p \in 0 .. n - 1 : h[p] \in Recent
        BY <3>2 DEF Bijection, Injection
      <3>4. \A p \in 0 .. n - 1 : p \in S <=> h[p] \in T
        <4> SUFFICES ASSUME NEW p \in 0 .. n - 1 PROVE p \in S <=> h[p] \in T
          OBVIOUS
        <4>1. h[p] = Latest - p /\ f[p] = seen[Latest - p]
          OBVIOUS
        <4>2. Distances(f, n, m)[p] = Far(f[p])
          BY DEF Distances
        <4> HIDE DEF f, x, m, h
        <4> QED
          BY <3>3, <4>1, <4>2 DEF Below
      <3>5. S \in SUBSET (0 .. n - 1) /\ T \in SUBSET Recent
        BY DEF Below
      <3>6. Cardinality(S) = Cardinality(T)
        <4> HIDE DEF S, T, h
        <4> QED
          BY <3>2, <3>4, <3>5, SameCount
      <3> QED
        BY <3>1, <3>6
    <2> QED
      BY <2>1, <2>7, <2>8 DEF AnomaliesAreRare
  <1> QED
    BY <1>1, <1>2, AWStepKeeps, PTL DEF AWSpec

-----------------------------------------------------------------------------
(* The telemetry frame: any layout, any number of bits in a byte, any      *)
(* header and any sequence numbers.                                        *)

\* Every frame the layout has room for.
Frames == [0 .. Len(Blank) - 1 -> Byte]

\* One step of the fold, from what the steps before it made.
Folded(f, o, acc) ==
    IF o = 0 THEN Seed
    ELSE IF o = ChecksumAt + 1 THEN acc[o - 1]
    ELSE Xor(Rotated(acc[o - 1]), f[o - 1])

Folds(acc, f, n) == acc = [o \in 0 .. n |-> Folded(f, o, acc)]

(* There is a function that folds the frame, ...                           *)
LEMMA FoldExists ==
    ASSUME NEW f, NEW n \in Nat
    PROVE  \E acc : Folds(acc, f, n)
  <1> DEFINE Without == {m \in Nat : m <= n /\ ~ \E acc : Folds(acc, f, m)}
  <1>1. SUFFICES ASSUME Without # {} PROVE FALSE
    OBVIOUS
  <1>2. PICK m \in Without : \A k \in Without : m <= k
    <2>1. Without \in SUBSET Nat
      OBVIOUS
    <2> HIDE DEF Without
    <2> QED
      BY <1>1, <2>1, LeastExists DEF IsLeast
  <1>3. m \in Nat /\ m <= n /\ ~ \E acc : Folds(acc, f, m)
    OBVIOUS
  <1>4. CASE m = 0
    <2> DEFINE acc == [o \in 0 .. 0 |-> Seed]
    <2>1. \A o \in 0 .. 0 : Folded(f, o, acc) = Seed
      BY DEF Folded
    <2>2. Folds(acc, f, 0)
      BY <2>1 DEF Folds
    <2> QED
      BY <1>3, <1>4, <2>2
  <1>5. CASE m # 0
    <2>1. m - 1 \in Nat /\ m - 1 <= n /\ ~(m <= m - 1)
      BY <1>3, <1>5
    <2>2. m - 1 \notin Without
      <3> HIDE DEF Without
      <3> QED
        BY <1>2, <2>1
    <2>3. PICK acc : Folds(acc, f, m - 1)
      BY <2>1, <2>2
    <2> DEFINE more == [o \in 0 .. m |-> IF o = m THEN Folded(f, m, acc) ELSE acc[o]]
    <2>4. \A o \in 0 .. m - 1 : acc[o] = Folded(f, o, acc)
      BY <2>3 DEF Folds
    <2>5. ASSUME NEW o \in 0 .. m
          PROVE  more[o] = Folded(f, o, more)
      <3>1. o # 0 => o - 1 \in 0 .. m /\ o - 1 # m
        BY <1>3, <2>5
      <3>2. o # 0 => more[o - 1] = acc[o - 1]
        BY <3>1
      <3>3. Folded(f, o, more) = Folded(f, o, acc)
        <4> HIDE DEF more
        <4> QED
          BY <3>2 DEF Folded
      <3>4. more[o] = Folded(f, o, acc)
        BY <1>3, <2>4, <2>5
      <3> QED
        BY <3>3, <3>4
    <2>6. more = [o \in 0 .. m |-> more[o]]
      OBVIOUS
    <2>7. Folds(more, f, m)
      <3> HIDE DEF more
      <3> QED
        BY <2>5, <2>6 DEF Folds
    <2> QED
      BY <1>3, <2>7
  <1> QED
    BY <1>4, <1>5

(* ... and the checksum is what it ends with.                              *)
LEMMA ChecksumIs ==
    ASSUME NEW f
    PROVE  \E acc : Folds(acc, f, Len(Blank)) /\ compute_checksum(f) = acc[Len(Blank)]
  <1> DEFINE acc == CHOOSE acc : Folds(acc, f, Len(Blank))
  <1>1. Len(Blank) \in Nat
    BY FrameAssumption
  <1>2. Folds(acc, f, Len(Blank))
    BY <1>1, FoldExists
  <1>3. compute_checksum(f) = acc[Len(Blank)]
    BY DEF compute_checksum, Folds, Folded
  <1> HIDE DEF acc
  <1> QED
    BY <1>2, <1>3

(* Turning a byte and adding another to it can both be undone.             *)
LEMMA XorUndone ==
    ASSUME NEW a, NEW b, NEW c
    PROVE  (Xor(a, c) = Xor(b, c) => a = b) /\ (Xor(c, a) = Xor(c, b) => a = b)
  BY DEF Xor

(* So can turning it.                                                      *)
LEMMA RotatedUndone ==
    ASSUME NEW a \in Byte, NEW b \in Byte, Rotated(a) = Rotated(b)
    PROVE  a = b
  <1>1. ASSUME NEW x \in Byte, NEW y \in Byte, Rotated(x) = Rotated(y), NEW k \in x
        PROVE  k \in y
    <2>1. (k + 1) % Bits \in Rotated(y)
      BY <1>1 DEF Rotated
    <2>2. PICK l \in y : (k + 1) % Bits = (l + 1) % Bits
      BY <2>1 DEF Rotated
    <2>3. k \in 0 .. Bits - 1 /\ l \in 0 .. Bits - 1
      BY <1>1 DEF Byte
    <2>4. k = l
      <3>1. Bits \in Nat \ {0}
        BY FrameAssumption
      <3>2. ASSUME NEW i \in 0 .. Bits - 1, NEW j \in 0 .. Bits - 1, i < j
            PROVE  (i + 1) % Bits # (j + 1) % Bits
        <4>1. PICK c \in Int, d \in Int : c = i + 1 /\ d = j + 1
          BY <3>1
        <4>2. c < d /\ d - c < Bits
          BY <3>1, <3>2, <4>1
        <4>3. c % Bits # d % Bits
          BY <3>1, <4>2, PlacesDiffer
        <4> QED
          BY <4>1, <4>3
      <3>3. k < l \/ l < k \/ k = l
        BY <2>3
      <3> QED
        BY <2>2, <2>3, <3>2, <3>3
    <2> QED
      BY <2>4
  <1> QED
    BY <1>1

(* A byte stays a byte.                                                    *)
LEMMA FoldedType ==
    ASSUME NEW a \in Byte, NEW b \in Byte
    PROVE  Xor(Rotated(a), b) \in Byte /\ Rotated(a) \in Byte
  <1>1. \A k \in a : (k + 1) % Bits \in 0 .. Bits - 1
    BY FrameAssumption DEF Byte
  <1> QED
    BY <1>1 DEF Byte, Xor, Rotated

(* The checksum leaves itself out.                                         *)
LEMMA ChecksumIgnoresItself ==
    ASSUME NEW f \in Frames, NEW g \in Frames, \A o \in 0 .. Len(Blank) - 1 : o # ChecksumAt => f[o] = g[o]
    PROVE  compute_checksum(f) = compute_checksum(g)
  <1>1. PICK n \in Nat : n = Len(Blank)
    BY FrameAssumption
  <1>2. ASSUME NEW acc, Folds(acc, f, n)
        PROVE  Folds(acc, g, n)
    <2>1. ASSUME NEW o \in 0 .. n
          PROVE  Folded(f, o, acc) = Folded(g, o, acc)
      <3>1. o # 0 /\ o # ChecksumAt + 1 => o - 1 \in 0 .. n - 1 /\ o - 1 # ChecksumAt
        BY LayoutAssumption
      <3> QED
        BY <1>1, <3>1 DEF Folded
    <2> QED
      BY <1>2, <2>1 DEF Folds
  <1>3. PICK a : Folds(a, f, n) /\ compute_checksum(f) = a[n]
    BY <1>1, ChecksumIs
  <1>4. PICK b : Folds(b, g, n) /\ compute_checksum(g) = b[n]
    BY <1>1, ChecksumIs
  <1>5. \A m \in 0 .. n : a[m] = b[m]
    <2> DEFINE Differ == {m \in Nat : m <= n /\ a[m] # b[m]}
    <2>1. SUFFICES ASSUME Differ # {} PROVE FALSE
      OBVIOUS
    <2>2. PICK m \in Differ : \A k \in Differ : m <= k
      <3>1. Differ \in SUBSET Nat
        OBVIOUS
      <3> HIDE DEF Differ
      <3> QED
        BY <2>1, <3>1, LeastExists DEF IsLeast
    <2>3. m \in Nat /\ m <= n /\ a[m] # b[m]
      OBVIOUS
    <2>4. Folds(a, g, n)
      BY <1>2, <1>3
    <2>5. a[m] = Folded(g, m, a) /\ b[m] = Folded(g, m, b)
      <3>1. m \in 0 .. n
        BY <2>3
      <3>2. a[m] = Folded(g, m, a)
        BY <2>4, <3>1 DEF Folds
      <3>3. b[m] = Folded(g, m, b)
        BY <1>4, <3>1 DEF Folds
      <3> QED
        BY <3>2, <3>3
    <2>6. m # 0
      BY <2>3, <2>5 DEF Folded
    <2>7. m - 1 \in Nat /\ m - 1 <= n /\ ~(m <= m - 1)
      BY <2>3, <2>6
    <2>8. a[m - 1] = b[m - 1]
      <3>1. m - 1 \notin Differ
        <4> HIDE DEF Differ
        <4> QED
          BY <2>2, <2>7
      <3> QED
        BY <2>7, <3>1
    <2> QED
      BY <2>3, <2>5, <2>6, <2>8 DEF Folded
  <1> QED
    BY <1>3, <1>4, <1>5

(* What is folded is a byte.                                               *)
LEMMA FoldsType ==
    ASSUME NEW f \in Frames, NEW n, n = Len(Blank), NEW acc, Folds(acc, f, n)
    PROVE  \A o \in 0 .. n : acc[o] \in Byte
  <1>1. n \in Nat
    BY FrameAssumption
  <1> DEFINE Wrong == {m \in Nat : m <= n /\ acc[m] \notin Byte}
  <1>2. SUFFICES ASSUME Wrong # {} PROVE FALSE
    BY <1>1
  <1>3. PICK m \in Wrong : \A k \in Wrong : m <= k
    <2>1. Wrong \in SUBSET Nat
      OBVIOUS
    <2> HIDE DEF Wrong
    <2> QED
      BY <1>2, <2>1, LeastExists DEF IsLeast
  <1>4. m \in Nat /\ m <= n /\ acc[m] \notin Byte
    OBVIOUS
  <1>5. acc[m] = Folded(f, m, acc)
    BY <1>1, <1>4 DEF Folds
  <1>6. m # 0
    BY <1>4, <1>5, FrameAssumption DEF Folded
  <1>7. m - 1 \in Nat /\ m - 1 <= n /\ ~(m <= m - 1)
    BY <1>1, <1>4, <1>6
  <1>8. acc[m - 1] \in Byte
    <2>1. m - 1 \notin Wrong
      <3> HIDE DEF Wrong
      <3> QED
        BY <1>3, <1>7
    <2> QED
      BY <1>7, <2>1
  <1>9. f[m - 1] \in Byte
    BY <1>1, <1>4, <1>7 DEF Frames
  <1> QED
    BY <1>4, <1>5, <1>6, <1>8, <1>9, FoldedType DEF Folded

(* A single byte that differs shows in the checksum, whichever it is: what *)
(* is folded after it differs, too, to the end.                            *)
LEMMA ChecksumShows ==
    ASSUME NEW f \in Frames, NEW g \in Frames, NEW d \in 0 .. Len(Blank) - 1, d # ChecksumAt,
           f[d] # g[d], \A o \in 0 .. Len(Blank) - 1 : o # d => f[o] = g[o]
    PROVE  compute_checksum(f) # compute_checksum(g)
  <1>1. PICK n \in Nat : n = Len(Blank)
    BY FrameAssumption
  <1>2. PICK a : Folds(a, f, n) /\ compute_checksum(f) = a[n]
    BY <1>1, ChecksumIs
  <1>3. PICK b : Folds(b, g, n) /\ compute_checksum(g) = b[n]
    BY <1>1, ChecksumIs
  <1>4. \A o \in 0 .. n : a[o] \in Byte /\ b[o] \in Byte /\ a[o] = Folded(f, o, a) /\ b[o] = Folded(g, o, b)
    BY <1>1, <1>2, <1>3, FoldsType DEF Folds
  <1> DEFINE Wrong == {m \in Nat : m <= n /\ ~((a[m] = b[m]) <=> m <= d)}
  <1>5. Wrong = {}
    <2> SUFFICES ASSUME Wrong # {} PROVE FALSE
      OBVIOUS
    <2>1. PICK m \in Wrong : \A k \in Wrong : m <= k
      <3>1. Wrong \in SUBSET Nat
        OBVIOUS
      <3> HIDE DEF Wrong
      <3> QED
        BY <3>1, LeastExists DEF IsLeast
    <2>2. m \in Nat /\ m <= n /\ ~((a[m] = b[m]) <=> m <= d)
      OBVIOUS
    <2>3. a[m] = Folded(f, m, a) /\ b[m] = Folded(g, m, b)
      BY <1>4, <2>2
    <2>4. d \in Nat /\ d < n
      BY <1>1
    <2>5. m # 0
      BY <2>2, <2>3, <2>4 DEF Folded
    <2>6. m - 1 \in Nat /\ m - 1 <= n /\ ~(m <= m - 1) /\ m - 1 \in 0 .. n - 1
      BY <2>2, <2>5
    <2>7. (a[m - 1] = b[m - 1]) <=> m - 1 <= d
      <3>1. m - 1 \notin Wrong
        <4> HIDE DEF Wrong
        <4> QED
          BY <2>1, <2>6
      <3> QED
        BY <2>6, <3>1
    <2>8. CASE m = ChecksumAt + 1
      <3>1. a[m] = a[m - 1] /\ b[m] = b[m - 1]
        BY <2>3, <2>5, <2>8 DEF Folded
      <3>2. m - 1 # d
        BY <2>8, LayoutAssumption
      <3> QED
        BY <2>2, <2>4, <2>7, <3>1, <3>2
    <2>9. CASE m # ChecksumAt + 1
      <3>1. /\ a[m] = Xor(Rotated(a[m - 1]), f[m - 1])
            /\ b[m] = Xor(Rotated(b[m - 1]), g[m - 1])
        BY <2>3, <2>5, <2>9 DEF Folded
      <3>2. CASE m - 1 < d
        <4>1. a[m - 1] = b[m - 1] /\ f[m - 1] = g[m - 1]
          BY <1>1, <2>4, <2>6, <2>7, <3>2
        <4>2. m <= d
          BY <2>2, <2>4, <3>2
        <4> QED
          BY <2>2, <3>1, <4>1, <4>2
      <3>3. CASE m - 1 = d
        <4>1. a[m - 1] = b[m - 1] /\ f[m - 1] # g[m - 1]
          BY <2>4, <2>7, <3>3
        <4>2. a[m] # b[m]
          BY <3>1, <4>1, XorUndone
        <4>3. ~(m <= d)
          BY <2>2, <2>4, <3>3
        <4> QED
          BY <2>2, <4>2, <4>3
      <3>4. CASE m - 1 > d
        <4>1. a[m - 1] # b[m - 1] /\ f[m - 1] = g[m - 1]
          BY <1>1, <2>4, <2>6, <2>7, <3>4
        <4>2. Rotated(a[m - 1]) # Rotated(b[m - 1])
          BY <1>4, <2>6, <4>1, RotatedUndone
        <4>3. a[m] # b[m]
          <5>1. PICK x, y : x = Rotated(a[m - 1]) /\ y = Rotated(b[m - 1])
            OBVIOUS
          <5>2. PICK z : z = f[m - 1] /\ z = g[m - 1]
            BY <4>1
          <5>3. x # y
            BY <4>2, <5>1
          <5>4. Xor(x, z) = Xor(y, z) => x = y
            BY XorUndone
          <5> QED
            BY <3>1, <5>1, <5>2, <5>3, <5>4
        <4>4. ~(m <= d)
          BY <2>2, <2>4, <3>4
        <4> QED
          BY <2>2, <4>3, <4>4
      <3> QED
        BY <2>4, <2>6, <3>2, <3>3, <3>4
    <2> QED
      BY <2>8, <2>9
  <1>6. n \notin Wrong
    <2> HIDE DEF Wrong
    <2> QED
      BY <1>5
  <1> QED
    BY <1>1, <1>2, <1>3, <1>6

(* A checksum made anew is right, and nothing else changes.                *)
LEMMA RefreshedIsRight ==
    ASSUME NEW f \in Frames
    PROVE  /\ Refreshed(f) \in Frames
           /\ \A o \in 0 .. Len(Blank) - 1 : o # ChecksumAt => Refreshed(f)[o] = f[o]
           /\ Refreshed(f)[ChecksumAt] = compute_checksum(Refreshed(f))
  <1>1. PICK n \in Nat : n = Len(Blank)
    BY FrameAssumption
  <1>2. compute_checksum(f) \in Byte
    <2>1. PICK acc : Folds(acc, f, n) /\ compute_checksum(f) = acc[n]
      BY <1>1, ChecksumIs
    <2>2. n \in 0 .. n
      BY <1>1
    <2> QED
      BY <1>1, <2>1, <2>2, FoldsType
  <1>3. Refreshed(f) = [f EXCEPT ![ChecksumAt] = compute_checksum(f)]
    BY DEF Refreshed
  <1>4. Refreshed(f) \in Frames
    BY <1>2, <1>3 DEF Frames
  <1>5. \A o \in 0 .. Len(Blank) - 1 : o # ChecksumAt => Refreshed(f)[o] = f[o]
    BY <1>3 DEF Frames
  <1>6. Refreshed(f)[ChecksumAt] = compute_checksum(f)
    BY <1>3, LayoutAssumption DEF Frames
  <1>7. compute_checksum(f) = compute_checksum(Refreshed(f))
    <2>1. PICK g \in Frames : g = Refreshed(f)
      BY <1>4
    <2> QED
      BY <1>5, <2>1, ChecksumIgnoresItself
  <1> QED
    BY <1>4, <1>5, <1>6, <1>7

(* A field written in place.                                               *)
LEMMA PutIs ==
    ASSUME NEW f \in Frames, NEW at \in Nat, NEW bytes \in Seq(Byte)
    PROVE  /\ Put(f, at, bytes) \in Frames
           /\ \A o \in 0 .. Len(Blank) - 1 :
                  Put(f, at, bytes)[o] = IF o \in at .. at + Len(bytes) - 1 THEN bytes[o - at + 1] ELSE f[o]
  <1>1. DOMAIN f = 0 .. Len(Blank) - 1 /\ \A o \in 0 .. Len(Blank) - 1 : f[o] \in Byte
    BY DEF Frames
  <1>2. \A o \in at .. at + Len(bytes) - 1 : o - at + 1 \in 1 .. Len(bytes)
    OBVIOUS
  <1>3. \A o \in at .. at + Len(bytes) - 1 : bytes[o - at + 1] \in Byte
    BY <1>2, ElementOfSeq
  <1> QED
    BY <1>1, <1>3 DEF Put, Frames

-----------------------------------------------------------------------------

\* A frame that says what was written.
Says(f, w) ==
    /\ f \in Frames
    /\ \A k \in DOMAIN w.source : f[SourceAt + k - 1] = w.source[k]
    /\ \A k \in DOMAIN w.sequence : f[SequenceAt + k - 1] = w.sequence[k]
    /\ \A o \in 0 .. Len(Blank) - 1 :
           \/ o \in SourceAt .. SourceAt + Len(w.source) - 1
           \/ o \in SequenceAt .. SequenceAt + Len(w.sequence) - 1
           \/ o = ChecksumAt
           \/ f[o] = Blank[o + 1]

(* What a frame says it says with a new checksum, too.                     *)
LEMMA RefreshedSays ==
    ASSUME NEW s \in Sources, NEW q \in SequenceNumbers, NEW w, w = [source |-> s, sequence |-> q],
           NEW f, Says(f, w)
    PROVE  Says(Refreshed(f), w)
  <1>1. f \in Frames
    BY DEF Says
  <1>2. PICK g : g = Refreshed(f)
    OBVIOUS
  <1>3. g \in Frames /\ \A o \in 0 .. Len(Blank) - 1 : o # ChecksumAt => g[o] = f[o]
    BY <1>1, <1>2, RefreshedIsRight
  <1>4. s \in Seq(Byte) /\ q \in Seq(Byte) /\ Len(s) \in Nat /\ Len(q) \in Nat
        /\ DOMAIN s = 1 .. Len(s) /\ DOMAIN q = 1 .. Len(q)
    BY LayoutAssumption, LenProperties
  <1>5. /\ SourceAt \in Nat /\ SequenceAt \in Nat /\ Len(Blank) \in Nat
        /\ SourceAt + Len(s) <= Len(Blank) /\ SequenceAt + Len(q) <= Len(Blank)
        /\ ChecksumAt \notin SourceAt .. SourceAt + Len(s) - 1
        /\ ChecksumAt \notin SequenceAt .. SequenceAt + Len(q) - 1
    BY LayoutAssumption, FrameAssumption
  <1>6. w.source = s /\ w.sequence = q
    OBVIOUS
  <1>7. \A k \in 1 .. Len(s) : SourceAt + k - 1 \in 0 .. Len(Blank) - 1 /\ SourceAt + k - 1 # ChecksumAt
    BY <1>4, <1>5
  <1>8. \A k \in 1 .. Len(q) : SequenceAt + k - 1 \in 0 .. Len(Blank) - 1 /\ SequenceAt + k - 1 # ChecksumAt
    BY <1>4, <1>5
  <1>9. \A k \in DOMAIN w.source : g[SourceAt + k - 1] = w.source[k]
    BY <1>3, <1>4, <1>6, <1>7 DEF Says
  <1>10. \A k \in DOMAIN w.sequence : g[SequenceAt + k - 1] = w.sequence[k]
    BY <1>3, <1>4, <1>6, <1>8 DEF Says
  <1>11. Says(g, w)
    BY <1>3, <1>9, <1>10 DEF Says
  <1> QED
    BY <1>2, <1>11

(* A field overwritten, the other one and the bytes of neither stay.       *)
LEMMA PutSays ==
    ASSUME NEW s \in Sources, NEW q \in SequenceNumbers, NEW f,
           Says(f, [source |-> s, sequence |-> q]),
           NEW t \in Sources, NEW r \in SequenceNumbers
    PROVE  /\ Says(Put(f, SourceAt, t), [source |-> t, sequence |-> q])
           /\ Says(Put(f, SequenceAt, r), [source |-> s, sequence |-> r])
  <1> DEFINE N == Len(Blank)
  <1>1. f \in Frames
    BY DEF Says
  <1>2. \A x \in {s, t, q, r} : x \in Seq(Byte) /\ Len(x) \in Nat /\ DOMAIN x = 1 .. Len(x)
    BY LayoutAssumption, LenProperties
  <1>3. /\ SourceAt \in Nat /\ SequenceAt \in Nat /\ N \in Nat
        /\ Len(s) = Len(t) /\ Len(q) = Len(r)
        /\ SourceAt + Len(s) <= N /\ SequenceAt + Len(q) <= N
        /\ SourceAt + Len(s) <= SequenceAt \/ SequenceAt + Len(q) <= SourceAt
    BY LayoutAssumption, FrameAssumption
  <1>4. PICK g : g = Put(f, SourceAt, t)
    OBVIOUS
  <1>5. /\ g \in Frames
        /\ \A o \in 0 .. N - 1 :
               g[o] = IF o \in SourceAt .. SourceAt + Len(t) - 1 THEN t[o - SourceAt + 1] ELSE f[o]
    <2>1. t \in Seq(Byte) /\ SourceAt \in Nat
      BY <1>2, <1>3
    <2>2. /\ Put(f, SourceAt, t) \in Frames
          /\ \A o \in 0 .. Len(Blank) - 1 :
                 Put(f, SourceAt, t)[o] = IF o \in SourceAt .. SourceAt + Len(t) - 1 THEN t[o - SourceAt + 1] ELSE f[o]
      BY <2>1, <1>1, PutIs
    <2> QED
      BY <2>2, <1>4
  <1>6. PICK h : h = Put(f, SequenceAt, r)
    OBVIOUS
  <1>7. /\ h \in Frames
        /\ \A o \in 0 .. N - 1 :
               h[o] = IF o \in SequenceAt .. SequenceAt + Len(r) - 1 THEN r[o - SequenceAt + 1] ELSE f[o]
    <2>1. r \in Seq(Byte) /\ SequenceAt \in Nat
      BY <1>2, <1>3
    <2>2. /\ Put(f, SequenceAt, r) \in Frames
          /\ \A o \in 0 .. Len(Blank) - 1 :
                 Put(f, SequenceAt, r)[o] = IF o \in SequenceAt .. SequenceAt + Len(r) - 1 THEN r[o - SequenceAt + 1] ELSE f[o]
      BY <2>1, <1>1, PutIs
    <2> QED
      BY <2>2, <1>6
  <1>8. \A k \in 1 .. Len(t) :
           /\ SourceAt + k - 1 \in 0 .. N - 1
           /\ SourceAt + k - 1 \in SourceAt .. SourceAt + Len(t) - 1
           /\ SourceAt + k - 1 \notin SequenceAt .. SequenceAt + Len(r) - 1
           /\ (SourceAt + k - 1) - SourceAt + 1 = k
    BY <1>2, <1>3
  <1>9. \A k \in 1 .. Len(r) :
           /\ SequenceAt + k - 1 \in 0 .. N - 1
           /\ SequenceAt + k - 1 \in SequenceAt .. SequenceAt + Len(r) - 1
           /\ SequenceAt + k - 1 \notin SourceAt .. SourceAt + Len(t) - 1
           /\ (SequenceAt + k - 1) - SequenceAt + 1 = k
    BY <1>2, <1>3
  <1>10. /\ \A k \in 1 .. Len(s) : f[SourceAt + k - 1] = s[k]
         /\ \A k \in 1 .. Len(q) : f[SequenceAt + k - 1] = q[k]
         /\ \A o \in 0 .. N - 1 :
               \/ o \in SourceAt .. SourceAt + Len(s) - 1
               \/ o \in SequenceAt .. SequenceAt + Len(q) - 1
               \/ o = ChecksumAt
               \/ f[o] = Blank[o + 1]
    BY <1>2 DEF Says
  <1>11. Says(g, [source |-> t, sequence |-> q])
    <2>1. \A k \in 1 .. Len(t) : g[SourceAt + k - 1] = t[k]
      BY <1>5, <1>8
    <2>2. \A k \in 1 .. Len(q) : g[SequenceAt + k - 1] = q[k]
      BY <1>3, <1>5, <1>9, <1>10
    <2>3. \A o \in 0 .. N - 1 :
               \/ o \in SourceAt .. SourceAt + Len(t) - 1
               \/ o \in SequenceAt .. SequenceAt + Len(q) - 1
               \/ o = ChecksumAt
               \/ g[o] = Blank[o + 1]
      BY <1>3, <1>5, <1>10
    <2> QED
      BY <1>2, <1>5, <2>1, <2>2, <2>3 DEF Says
  <1>12. Says(h, [source |-> s, sequence |-> r])
    <2>1. \A k \in 1 .. Len(r) : h[SequenceAt + k - 1] = r[k]
      BY <1>7, <1>9
    <2>2. \A k \in 1 .. Len(s) : h[SourceAt + k - 1] = s[k]
      BY <1>3, <1>7, <1>8, <1>10
    <2>3. \A o \in 0 .. N - 1 :
               \/ o \in SourceAt .. SourceAt + Len(s) - 1
               \/ o \in SequenceAt .. SequenceAt + Len(r) - 1
               \/ o = ChecksumAt
               \/ h[o] = Blank[o + 1]
      BY <1>3, <1>7, <1>10
    <2> QED
      BY <1>2, <1>7, <2>1, <2>2, <2>3 DEF Says
  <1> QED
    BY <1>4, <1>6, <1>11, <1>12

(* ... and so a new frame says what it was made of.                        *)
LEMMA NewSays ==
    ASSUME NEW s \in Sources, NEW q \in SequenceNumbers
    PROVE  /\ Says(New(s, q), [source |-> s, sequence |-> q])
           /\ New(s, q)[ChecksumAt] = compute_checksum(New(s, q))
  <1> DEFINE N == Len(Blank)
             zero == [o \in 0 .. N - 1 |-> Blank[o + 1]]
  <1>1. N \in Nat /\ \A o \in 0 .. N - 1 : o + 1 \in 1 .. N
    BY FrameAssumption
  <1>2. zero \in Frames
    <2>1. \A o \in 0 .. N - 1 : Blank[o + 1] \in Byte
      BY <1>1, FrameAssumption, ElementOfSeq
    <2> QED
      BY <2>1 DEF Frames
  <1>3. \A x \in {s, q} : x \in Seq(Byte) /\ Len(x) \in Nat /\ DOMAIN x = 1 .. Len(x)
    BY LayoutAssumption, LenProperties
  <1>4. /\ SourceAt \in Nat /\ SequenceAt \in Nat
        /\ SourceAt + Len(s) <= N /\ SequenceAt + Len(q) <= N
        /\ SourceAt + Len(s) <= SequenceAt \/ SequenceAt + Len(q) <= SourceAt
    BY LayoutAssumption
  <1>5. PICK z : z = zero /\ z \in Frames /\ \A o \in 0 .. N - 1 : z[o] = Blank[o + 1]
    BY <1>2
  <1> HIDE DEF zero
  <1>6. PICK g : g = Put(z, SourceAt, s)
    OBVIOUS
  <1>7. /\ g \in Frames
        /\ \A o \in 0 .. N - 1 :
               g[o] = IF o \in SourceAt .. SourceAt + Len(s) - 1 THEN s[o - SourceAt + 1] ELSE z[o]
    <2>1. s \in Seq(Byte) /\ SourceAt \in Nat
      BY <1>3, <1>4
    <2>2. /\ Put(z, SourceAt, s) \in Frames
          /\ \A o \in 0 .. Len(Blank) - 1 :
                 Put(z, SourceAt, s)[o] = IF o \in SourceAt .. SourceAt + Len(s) - 1 THEN s[o - SourceAt + 1] ELSE z[o]
      BY <2>1, <1>5, PutIs
    <2> QED
      BY <2>2, <1>6
  <1>8. PICK h : h = Put(g, SequenceAt, q)
    OBVIOUS
  <1>9. /\ h \in Frames
        /\ \A o \in 0 .. N - 1 :
               h[o] = IF o \in SequenceAt .. SequenceAt + Len(q) - 1 THEN q[o - SequenceAt + 1] ELSE g[o]
    <2>1. q \in Seq(Byte) /\ SequenceAt \in Nat
      BY <1>3, <1>4
    <2>2. /\ Put(g, SequenceAt, q) \in Frames
          /\ \A o \in 0 .. Len(Blank) - 1 :
                 Put(g, SequenceAt, q)[o] = IF o \in SequenceAt .. SequenceAt + Len(q) - 1 THEN q[o - SequenceAt + 1] ELSE g[o]
      BY <2>1, <1>7, PutIs
    <2> QED
      BY <2>2, <1>8
  <1>10. \A k \in 1 .. Len(s) :
           /\ SourceAt + k - 1 \in 0 .. N - 1
           /\ SourceAt + k - 1 \in SourceAt .. SourceAt + Len(s) - 1
           /\ SourceAt + k - 1 \notin SequenceAt .. SequenceAt + Len(q) - 1
           /\ (SourceAt + k - 1) - SourceAt + 1 = k
    BY <1>1, <1>3, <1>4
  <1>11. \A k \in 1 .. Len(q) :
           /\ SequenceAt + k - 1 \in 0 .. N - 1
           /\ SequenceAt + k - 1 \in SequenceAt .. SequenceAt + Len(q) - 1
           /\ (SequenceAt + k - 1) - SequenceAt + 1 = k
    BY <1>1, <1>3, <1>4
  <1>12. \A k \in 1 .. Len(s) : h[SourceAt + k - 1] = s[k]
    BY <1>7, <1>9, <1>10
  <1>13. \A k \in 1 .. Len(q) : h[SequenceAt + k - 1] = q[k]
    BY <1>9, <1>11
  <1>14. \A o \in 0 .. N - 1 :
               \/ o \in SourceAt .. SourceAt + Len(s) - 1
               \/ o \in SequenceAt .. SequenceAt + Len(q) - 1
               \/ o = ChecksumAt
               \/ h[o] = Blank[o + 1]
    BY <1>5, <1>7, <1>9
  <1>15. Says(h, [source |-> s, sequence |-> q])
    BY <1>3, <1>9, <1>12, <1>13, <1>14 DEF Says
  <1>16. New(s, q) = Refreshed(h)
    BY <1>5, <1>6, <1>8 DEF New, zero
  <1>17. Says(Refreshed(h), [source |-> s, sequence |-> q])
    BY <1>15, RefreshedSays
  <1>18. Refreshed(h)[ChecksumAt] = compute_checksum(Refreshed(h))
    BY <1>9, RefreshedIsRight
  <1> QED
    BY <1>16, <1>17, <1>18

(* The frame says what was written last, and the frame that was sealed     *)
(* carries its own checksum.                                               *)
TFInv ==
    /\ written \in [source : Sources, sequence : SequenceNumbers]
    /\ Says(frame, written)
    /\ sealed \in Frames
    /\ sealed[ChecksumAt] = compute_checksum(sealed)

(* Every overwrite keeps this, whether it makes the checksum anew or not.  *)
LEMMA TFStepKeeps == TFInv /\ [TFNext]_tfVars => TFInv'
  <1> SUFFICES ASSUME TFInv, [TFNext]_tfVars PROVE TFInv'
    OBVIOUS
  <1>1. PICK s \in Sources, q \in SequenceNumbers : written = [source |-> s, sequence |-> q]
    BY DEF TFInv
  <1>2. ASSUME NEW f, NEW recompute \in BOOLEAN, Overwrite(f, recompute),
               NEW t \in Sources, NEW r \in SequenceNumbers, written' = [source |-> t, sequence |-> r],
               Says(f, [source |-> t, sequence |-> r])
        PROVE  TFInv'
    <2>1. CASE recompute
      <3>1. frame' = Refreshed(f) /\ sealed' = Refreshed(f)
        BY <1>2, <2>1 DEF Overwrite
      <3>2. Says(Refreshed(f), [source |-> t, sequence |-> r])
        BY <1>2, RefreshedSays
      <3>3. f \in Frames
        BY <1>2 DEF Says
      <3>4. Refreshed(f) \in Frames /\ Refreshed(f)[ChecksumAt] = compute_checksum(Refreshed(f))
        BY <3>3, RefreshedIsRight
      <3>5. Says(frame', written')
        BY <1>2, <3>1, <3>2
      <3>6. sealed' \in Frames /\ sealed'[ChecksumAt] = compute_checksum(sealed')
        BY <3>1, <3>4
      <3> QED
        BY <1>2, <3>5, <3>6 DEF TFInv, Says, compute_checksum
    <2>2. CASE ~recompute
      <3>1. frame' = f /\ sealed' = sealed
        BY <1>2, <2>2 DEF Overwrite
      <3>2. Says(frame', written')
        BY <1>2, <3>1
      <3> QED
        BY <1>2, <3>1, <3>2 DEF TFInv, Says, compute_checksum
    <2> QED
      BY <2>1, <2>2
  <1>3. CASE UNCHANGED tfVars
    BY <1>3 DEF TFInv, tfVars, Says, compute_checksum
  <1>4. ASSUME NEW recompute \in BOOLEAN, NEW t \in Sources, overwrite_source_id(t, recompute)
        PROVE  TFInv'
    <2>1. written' = [source |-> t, sequence |-> q]
      BY <1>1, <1>4 DEF overwrite_source_id
    <2>2. Says(Put(frame, SourceAt, t), [source |-> t, sequence |-> q])
      BY <1>1, PutSays DEF TFInv
    <2> QED
      BY <1>2, <1>4, <2>1, <2>2 DEF overwrite_source_id
  <1>5. ASSUME NEW recompute \in BOOLEAN, NEW r \in SequenceNumbers, overwrite_sequence_number(r, recompute)
        PROVE  TFInv'
    <2>1. written' = [source |-> s, sequence |-> r]
      BY <1>1, <1>5 DEF overwrite_sequence_number
    <2>2. Says(Put(frame, SequenceAt, r), [source |-> s, sequence |-> r])
      BY <1>1, PutSays DEF TFInv
    <2> QED
      BY <1>2, <1>5, <2>1, <2>2 DEF overwrite_sequence_number
  <1> QED
    BY <1>3, <1>4, <1>5 DEF TFNext

(* A frame says what was written last, and a single byte that changed      *)
(* since the checksum was made shows: for any layout, any number of bits   *)
(* in a byte and any byte that changed.                                    *)
THEOREM OneByteShowsHolds == TFSpec => []OneByteShows
  <1>1. TFInit => TFInv
    <2> SUFFICES ASSUME NEW s \in Sources, NEW q \in SequenceNumbers,
                        frame = New(s, q), sealed = frame, written = [source |-> s, sequence |-> q]
                 PROVE  TFInv
      BY DEF TFInit
    <2>1. /\ Says(New(s, q), [source |-> s, sequence |-> q])
          /\ New(s, q)[ChecksumAt] = compute_checksum(New(s, q))
      BY NewSays
    <2>2. New(s, q) \in Frames
      BY <2>1 DEF Says
    <2> QED
      BY <2>1, <2>2 DEF TFInv
  <1>2. TFInv => OneByteShows
    <2> SUFFICES ASSUME TFInv PROVE OneByteShows
      OBVIOUS
    <2> DEFINE changed == {o \in DOMAIN frame : frame[o] # sealed[o]}
    <2>1. frame \in Frames /\ sealed \in Frames /\ DOMAIN frame = 0 .. Len(Blank) - 1
      BY DEF TFInv, Says, Frames
    <2>2. ASSUME changed = {}
          PROVE  checksum_valid
      <3>1. frame = sealed
        BY <2>1, <2>2 DEF Frames
      <3> QED
        BY <3>1 DEF TFInv, checksum_valid
    <2>3. ASSUME NEW d \in changed, changed = {d}
          PROVE  ~checksum_valid
      <3>1. d \in 0 .. Len(Blank) - 1 /\ frame[d] # sealed[d]
            /\ \A o \in 0 .. Len(Blank) - 1 : o # d => frame[o] = sealed[o]
        BY <2>1, <2>3
      <3>2. CASE d = ChecksumAt
        <4>1. compute_checksum(frame) = compute_checksum(sealed)
          BY <2>1, <3>1, <3>2, ChecksumIgnoresItself
        <4> QED
          BY <3>1, <3>2, <4>1 DEF TFInv, checksum_valid
      <3>3. CASE d # ChecksumAt
        <4>1. compute_checksum(frame) # compute_checksum(sealed)
          BY <2>1, <3>1, <3>3, ChecksumShows
        <4>2. frame[ChecksumAt] = sealed[ChecksumAt]
          BY <3>1, <3>3, LayoutAssumption
        <4> QED
          BY <4>1, <4>2 DEF TFInv, checksum_valid
      <3> QED
        BY <3>2, <3>3
    <2> QED
      BY <2>1, <2>2, <2>3 DEF OneByteShows, TFInv, Says
  <1> QED
    BY <1>1, <1>2, TFStepKeeps, PTL DEF TFSpec

-----------------------------------------------------------------------------
(* The laboratory radio: FIFO and ring of any size, any packets that fit   *)
(* the FIFO, any calls, faults and arrivals.                               *)

\* The registers of the chip, the bytes in its FIFO and the words on its bus.
Registers == {"mode", "high", "low", "pa", "dac", "done", "count", "addr", "ptr", "of", "next", "fifo"}
Cells == Nat \X Nat
RegisterWords ==
    {"sleep", "standby", "receive", "transmit"} \cup BOOLEAN \cup Int \cup Frequencies
        \cup {c.freq : c \in Carriers}

Sets(access, register) == access.kind = "write" /\ access.register = register

\* What the driver ever asks of the bus.
Accesses ==
    {a \in [kind : {"read", "write"}, register : Registers, value : RegisterWords] :
        /\ a.kind = "write" => a.register \in {"mode", "high", "low", "pa", "dac", "done", "ptr"}
        /\ a.kind = "read" => a.register \in {"done", "count", "addr", "fifo", "of"} /\ a.value = 0
        /\ Sets(a, "ptr") => a.value \in 0 .. FifoSize - 1
        /\ Sets(a, "done") => a.value = FALSE}

(* An access changes the register it writes, a mode write also where the   *)
(* next packet goes, and a read of the FIFO its pointer.                   *)
LEMMA EffectIs ==
    ASSUME DOMAIN chip = Registers, NEW a \in Accesses
    PROVE  /\ DOMAIN Effect(a) = Registers
           /\ a.kind = "write" => Effect(a)[a.register] = a.value
           /\ Sets(a, "mode") =>
                  Effect(a).next = (IF a.value = "receive" THEN 0 ELSE chip.next)
           /\ a.kind = "read" =>
                  Effect(a).ptr = (IF a.register = "fifo" THEN (chip.ptr + 1) % FifoSize ELSE chip.ptr)
           /\ \A r \in Registers :
                  \/ Sets(a, r)
                  \/ r = "next" /\ Sets(a, "mode")
                  \/ r = "ptr" /\ a.kind = "read"
                  \/ Effect(a)[r] = chip[r]
  <1>1. CASE Sets(a, "mode")
    <2>1. Effect(a) = [chip EXCEPT !.mode = a.value, !.next = IF a.value = "receive" THEN 0 ELSE @]
      BY <1>1 DEF Effect, Sets
    <2>2. DOMAIN Effect(a) = Registers /\ Effect(a).mode = a.value
          /\ Effect(a).next = (IF a.value = "receive" THEN 0 ELSE chip.next)
          /\ \A r \in Registers \ {"mode", "next"} : Effect(a)[r] = chip[r]
      BY <2>1 DEF Registers
    <2> QED
      BY <1>1, <2>2 DEF Sets
  <1>2. CASE a.kind = "write" /\ a.register # "mode"
    <2>1. Effect(a) = [chip EXCEPT ![a.register] = a.value] /\ a.register \in Registers
      BY <1>2 DEF Effect, Accesses
    <2> QED
      BY <1>2, <2>1 DEF Sets
  <1>3. CASE a.kind = "read" /\ a.register = "fifo"
    <2>1. Effect(a) = [chip EXCEPT !.ptr = (@ + 1) % FifoSize]
      BY <1>3 DEF Effect
    <2>2. DOMAIN Effect(a) = Registers /\ Effect(a).ptr = (chip.ptr + 1) % FifoSize
          /\ \A r \in Registers \ {"ptr"} : Effect(a)[r] = chip[r]
      BY <2>1 DEF Registers
    <2> QED
      BY <1>3, <2>2 DEF Sets
  <1>4. CASE a.kind = "read" /\ a.register # "fifo"
    BY <1>4 DEF Effect, Sets
  <1> QED
    BY <1>1, <1>2, <1>3, <1>4 DEF Accesses, Sets

\* The packet heard last is in the FIFO, where the chip says.
HoldsPacket(c) ==
    /\ c.count = Lengths[c.of]
    /\ \A i \in 0 .. Lengths[c.of] - 1 : c.fifo[(c.addr + i) % FifoSize] = <<c.of, i>>

\* The chip, after so many packets.
ChipInv(c, packets) ==
    /\ DOMAIN c = Registers
    /\ c.ptr \in 0 .. FifoSize - 1 /\ c.addr \in 0 .. FifoSize - 1 /\ c.next \in 0 .. FifoSize - 1
    /\ c.done \in BOOLEAN /\ c.count \in Nat
    /\ c.fifo \in [0 .. FifoSize - 1 -> Cells]
    /\ c.of \in 0 .. packets
    /\ c.done => c.of # 0
    /\ c.of # 0 => HoldsPacket(c)

(* No access touches what was heard.                                       *)
LEMMA EffectKeepsChip ==
    ASSUME NEW packets \in Nat, ChipInv(chip, packets), NEW a \in Accesses
    PROVE  /\ ChipInv(Effect(a), packets)
           /\ Effect(a).addr = chip.addr /\ Effect(a).count = chip.count /\ Effect(a).of = chip.of
           /\ Effect(a).fifo = chip.fifo
           /\ Effect(a).done = chip.done \/ Effect(a).done = FALSE
  <1>1. DOMAIN chip = Registers
    BY DEF ChipInv
  <1>2. PICK d : d = Effect(a)
    OBVIOUS
  <1>3. DOMAIN d = Registers
    BY <1>1, <1>2, EffectIs
  <1>4. d.addr = chip.addr /\ d.count = chip.count /\ d.of = chip.of /\ d.fifo = chip.fifo
    <2>1. \A r \in {"addr", "count", "of", "fifo"} : d[r] = chip[r]
      <3> SUFFICES ASSUME NEW r \in {"addr", "count", "of", "fifo"} PROVE d[r] = chip[r]
        OBVIOUS
      <3>1. r \in Registers /\ r # "next" /\ r # "ptr"
        BY DEF Registers
      <3>2. ~Sets(a, r)
        BY DEF Accesses, Sets
      <3> QED
        BY <1>1, <1>2, <3>1, <3>2, EffectIs
    <2> QED
      BY <2>1
  <1>5. d.done = chip.done \/ d.done = FALSE
    <2>1. CASE Sets(a, "done")
      BY <1>1, <1>2, <2>1, EffectIs DEF Accesses, Sets
    <2>2. CASE ~Sets(a, "done")
      <3>1. "done" \in Registers
        BY DEF Registers
      <3> QED
        BY <1>1, <1>2, <2>2, <3>1, EffectIs
    <2> QED
      BY <2>1, <2>2
  <1>6. d.ptr \in 0 .. FifoSize - 1
    <2>1. CASE Sets(a, "ptr")
      BY <1>1, <1>2, <2>1, EffectIs DEF Accesses, Sets
    <2>2. CASE a.kind = "read"
      <3>1. chip.ptr \in 0 .. FifoSize - 1 /\ (chip.ptr + 1) % FifoSize \in 0 .. FifoSize - 1
        BY FifoAssumption DEF ChipInv
      <3>2. d.ptr = (IF a.register = "fifo" THEN (chip.ptr + 1) % FifoSize ELSE chip.ptr)
        BY <1>1, <1>2, <2>2, EffectIs
      <3> QED
        BY <3>1, <3>2
    <2>3. CASE ~Sets(a, "ptr") /\ a.kind # "read"
      <3>1. "ptr" \in Registers
        BY DEF Registers
      <3>2. d.ptr = chip.ptr
        BY <1>1, <1>2, <2>3, <3>1, EffectIs
      <3> QED
        BY <3>2 DEF ChipInv
    <2> QED
      BY <2>1, <2>2, <2>3
  <1>7. d.next \in 0 .. FifoSize - 1
    <2>1. CASE Sets(a, "mode")
      <3>1. d.next = (IF a.value = "receive" THEN 0 ELSE chip.next)
        BY <1>1, <1>2, <2>1, EffectIs
      <3> QED
        BY <3>1, FifoAssumption DEF ChipInv
    <2>2. CASE ~Sets(a, "mode")
      <3>1. "next" \in Registers /\ ~Sets(a, "next")
        BY DEF Registers, Accesses, Sets
      <3>2. d.next = chip.next
        BY <1>1, <1>2, <2>2, <3>1, EffectIs
      <3> QED
        BY <3>2 DEF ChipInv
    <2> QED
      BY <2>1, <2>2
  <1>8. ChipInv(d, packets)
    BY <1>3, <1>4, <1>5, <1>6, <1>7 DEF ChipInv, HoldsPacket
  <1> QED
    BY <1>2, <1>4, <1>5, <1>8

\* What a poll does, what tuning does, and what cannot put the chip on air.
PollAccesses == {a \in Accesses : a.kind = "write" => a.register \in {"done", "ptr"}}
TuneAccesses == {a \in Accesses : a.kind = "write" /\ a.register \in {"high", "low"}}
SilentAccesses ==
    {a \in Accesses : /\ a.kind = "write"
                      /\ a.register \in {"mode", "high", "low", "ptr", "done"}
                      /\ a.register = "mode" => a.value \in {"sleep", "standby", "receive"}}

(* An access, two more and the rest, one after another.                    *)
LEMMA Joined ==
    ASSUME NEW S, NEW v \in Seq(S), NEW w \in Seq(S), NEW t \in Seq(S), Len(v) = 1, Len(w) = 2
    PROVE  /\ (v \o w) \o t \in Seq(S)
           /\ Len((v \o w) \o t) = 3 + Len(t)
           /\ ((v \o w) \o t)[1] = v[1]
           /\ ((v \o w) \o t)[2] = w[1]
           /\ ((v \o w) \o t)[3] = w[2]
           /\ \A i \in 1 .. Len(t) : ((v \o w) \o t)[3 + i] = t[i]
  <1>1. PICK u : u = v \o w
    OBVIOUS
  <1>2. u \in Seq(S) /\ Len(u) = 3 /\ u[1] = v[1] /\ u[2] = w[1] /\ u[3] = w[2]
    <2>1. /\ v \o w \in Seq(S) /\ Len(v \o w) = Len(v) + Len(w)
          /\ \A i \in 1 .. Len(v) + Len(w) :
                 (v \o w)[i] = IF i <= Len(v) THEN v[i] ELSE w[i - Len(v)]
      BY ConcatProperties, ZenonT(30)
    <2> QED
      BY <1>1, <2>1
  <1>3. /\ u \o t \in Seq(S) /\ Len(u \o t) = 3 + Len(t)
        /\ \A i \in 1 .. 3 + Len(t) : (u \o t)[i] = IF i <= 3 THEN u[i] ELSE t[i - 3]
    <2>1. /\ u \o t \in Seq(S) /\ Len(u \o t) = Len(u) + Len(t)
          /\ \A i \in 1 .. Len(u) + Len(t) :
                 (u \o t)[i] = IF i <= Len(u) THEN u[i] ELSE t[i - Len(u)]
      BY <1>2, ConcatProperties, ZenonT(30)
    <2> QED
      BY <1>2, <2>1
  <1>4. Len(t) \in Nat
    BY LenProperties
  <1> QED
    BY <1>1, <1>2, <1>3, <1>4

(* The calls, access by access.                                            *)
LEMMA CallsAre ==
    /\ \A f \in Frequencies : Tune(f) \in Seq(TuneAccesses)
    /\ \A f \in Frequencies :
           Listen(f) \in Seq(SilentAccesses) /\ Listen(f) # <<>> /\ Sets(Listen(f)[1], "mode")
    /\ LET s == <<Write("mode", "standby")>>
       IN  s \in Seq(SilentAccesses) /\ Sets(s[1], "mode")
    /\ \A c \in Carriers :
           /\ Carrier(c) \in Seq(Accesses) /\ Len(Carrier(c)) = 7
           /\ Carrier(c)[1] = Write("mode", "sleep")
           /\ Carrier(c)[2] = Write("high", c.freq) /\ Carrier(c)[3] = Write("low", c.freq)
           /\ Carrier(c)[4] = Write("pa", Pa(c.dbm)) /\ Carrier(c)[5] = Write("dac", BoostDac(c.dbm))
           /\ Carrier(c)[6] = Write("mode", "standby") /\ Carrier(c)[7] = Write("mode", "transmit")
  <1>1. ASSUME NEW r \in {"high", "low"}, NEW f \in Frequencies \cup {c.freq : c \in Carriers}
        PROVE  Write(r, f) \in TuneAccesses /\ Write(r, f) \in SilentAccesses
    <2>1. Write(r, f) \in Accesses
      BY <1>1 DEF Accesses, Write, Registers, RegisterWords, Sets
    <2> QED
      BY <1>1, <2>1 DEF TuneAccesses, SilentAccesses, Write
  <1>2. ASSUME NEW m \in {"sleep", "standby", "receive"}
        PROVE  Write("mode", m) \in SilentAccesses
    <2>1. Write("mode", m) \in Accesses
      BY DEF Accesses, Write, Registers, RegisterWords, Sets
    <2> QED
      BY <2>1 DEF SilentAccesses, Write
  <1>3. Write("ptr", 0) \in SilentAccesses /\ Write("done", FALSE) \in SilentAccesses
    <2>1. Write("ptr", 0) \in Accesses
      BY FifoAssumption DEF Accesses, Write, Registers, RegisterWords, Sets
    <2>2. Write("done", FALSE) \in Accesses
      BY DEF Accesses, Write, Registers, RegisterWords, Sets
    <2> QED
      BY <2>1, <2>2 DEF SilentAccesses, Write
  <1>4. ASSUME NEW f \in Frequencies
        PROVE  Tune(f) \in Seq(TuneAccesses)
    BY <1>1 DEF Tune
  <1>5. ASSUME NEW f \in Frequencies
        PROVE  Listen(f) \in Seq(SilentAccesses) /\ Listen(f) # <<>> /\ Sets(Listen(f)[1], "mode")
    <2>1. PICK x : x = Write("ptr", 0)
      OBVIOUS
    <2>2. PICK y : y = Write("done", FALSE)
      OBVIOUS
    <2>3. PICK z : z = Write("mode", "receive")
      OBVIOUS
    <2>4. PICK t : t = <<x, y, z>>
      OBVIOUS
    <2>5. x \in SilentAccesses /\ y \in SilentAccesses /\ z \in SilentAccesses
      BY <1>2, <1>3, <2>1, <2>2, <2>3
    <2>6. t \in Seq(SilentAccesses) /\ Len(t) = 3
      BY <2>4, <2>5
    <2>7. PICK m : m = Write("mode", "sleep")
      OBVIOUS
    <2>8. PICK h : h = Write("high", f)
      OBVIOUS
    <2>9. PICK g : g = Write("low", f)
      OBVIOUS
    <2>10. m \in SilentAccesses /\ h \in SilentAccesses /\ g \in SilentAccesses
      BY <1>1, <1>2, <2>7, <2>8, <2>9
    <2>11. PICK l : l = Listen(f)
      OBVIOUS
    <2>v. PICK v : v = <<m>>
      OBVIOUS
    <2>w. PICK w : w = <<h, g>>
      OBVIOUS
    <2>12. /\ v \in Seq(SilentAccesses) /\ Len(v) = 1 /\ v[1] = m
           /\ w \in Seq(SilentAccesses) /\ Len(w) = 2
      BY <2>10, <2>v, <2>w
    <2>13. l \in Seq(SilentAccesses) /\ Len(l) = 3 + Len(t) /\ l[1] = m
      <3>1. l = v \o w \o t
        BY <2>1, <2>2, <2>3, <2>4, <2>7, <2>8, <2>9, <2>11, <2>v, <2>w DEF Listen, Tune
      <3>2. v \in Seq(SilentAccesses) /\ w \in Seq(SilentAccesses) /\ t \in Seq(SilentAccesses)
        BY <2>6, <2>12
      <3>3. Len(v) = 1 /\ Len(w) = 2
        BY <2>12
      <3>4. l \in Seq(SilentAccesses) /\ Len(l) = 3 + Len(t) /\ l[1] = v[1]
        BY <3>1, <3>2, <3>3, Joined
      <3> QED
        BY <2>12, <3>4
    <2>14. l # <<>>
      BY <2>6, <2>13
    <2>15. Sets(m, "mode")
      BY <2>7 DEF Sets, Write
    <2> QED
      BY <2>11, <2>13, <2>14, <2>15
  <1>6. LET s == <<Write("mode", "standby")>>
        IN  s \in Seq(SilentAccesses) /\ Sets(s[1], "mode")
    BY <1>2 DEF Sets, Write
  <1>7. ASSUME NEW c \in Carriers
        PROVE  /\ Carrier(c) \in Seq(Accesses) /\ Len(Carrier(c)) = 7
               /\ Carrier(c)[1] = Write("mode", "sleep")
               /\ Carrier(c)[2] = Write("high", c.freq) /\ Carrier(c)[3] = Write("low", c.freq)
               /\ Carrier(c)[4] = Write("pa", Pa(c.dbm)) /\ Carrier(c)[5] = Write("dac", BoostDac(c.dbm))
               /\ Carrier(c)[6] = Write("mode", "standby") /\ Carrier(c)[7] = Write("mode", "transmit")
    <2>1. PICK t : t = <<Write("pa", Pa(c.dbm)), Write("dac", BoostDac(c.dbm)),
                         Write("mode", "standby"), Write("mode", "transmit")>>
      OBVIOUS
    <2>2. Write("pa", Pa(c.dbm)) \in Accesses
      BY CarriersAssumption DEF Accesses, Write, Registers, RegisterWords, Sets, Pa
    <2>3. Write("dac", BoostDac(c.dbm)) \in Accesses
      BY CarriersAssumption DEF Accesses, Write, Registers, RegisterWords, Sets, BoostDac
    <2>4. Write("mode", "transmit") \in Accesses
      BY DEF Accesses, Write, Registers, RegisterWords, Sets
    <2>5. /\ t \in Seq(Accesses) /\ Len(t) = 4
          /\ t[1] = Write("pa", Pa(c.dbm)) /\ t[2] = Write("dac", BoostDac(c.dbm))
          /\ t[3] = Write("mode", "standby") /\ t[4] = Write("mode", "transmit")
      BY <1>2, <2>1, <2>2, <2>3, <2>4 DEF SilentAccesses
    <2>6. PICK m \in Accesses : m = Write("mode", "sleep")
      BY <1>2 DEF SilentAccesses
    <2>7. PICK h \in Accesses : h = Write("high", c.freq)
      BY <1>1 DEF SilentAccesses
    <2>8. PICK g \in Accesses : g = Write("low", c.freq)
      BY <1>1 DEF SilentAccesses
    <2>9. PICK l : l = Carrier(c)
      OBVIOUS
    <2>v. PICK v : v = <<m>>
      OBVIOUS
    <2>w. PICK w : w = <<h, g>>
      OBVIOUS
    <2>10. /\ v \in Seq(Accesses) /\ Len(v) = 1 /\ v[1] = m
           /\ w \in Seq(Accesses) /\ Len(w) = 2 /\ w[1] = h /\ w[2] = g
      BY <2>v, <2>w
    <2>11. /\ l \in Seq(Accesses) /\ Len(l) = 3 + Len(t) /\ l[1] = m /\ l[2] = h /\ l[3] = g
           /\ \A i \in 1 .. Len(t) : l[3 + i] = t[i]
      <3>1. l = v \o w \o t
        BY <2>1, <2>6, <2>7, <2>8, <2>9, <2>v, <2>w DEF Carrier, Tune
      <3>2. v \in Seq(Accesses) /\ w \in Seq(Accesses) /\ t \in Seq(Accesses)
        BY <2>5, <2>10
      <3>3. Len(v) = 1 /\ Len(w) = 2
        BY <2>10
      <3>4. /\ l \in Seq(Accesses) /\ Len(l) = 3 + Len(t)
            /\ l[1] = v[1] /\ l[2] = w[1] /\ l[3] = w[2]
            /\ \A i \in 1 .. Len(t) : l[3 + i] = t[i]
        BY <3>1, <3>2, <3>3, Joined
      <3> QED
        BY <2>10, <3>4
    <2>12. Len(l) = 7 /\ l[4] = t[1] /\ l[5] = t[2] /\ l[6] = t[3] /\ l[7] = t[4]
      BY <2>5, <2>11
    <2> QED
      BY <2>5, <2>6, <2>7, <2>8, <2>9, <2>11, <2>12
  <1> QED
    BY <1>4, <1>5, <1>6, <1>7

(* A packet leaves the chip with that packet in its FIFO, and the          *)
(* transmitter as it was.                                                  *)
LEMMA ReceiveKeepsChip ==
    ASSUME ChipInv(chip, radio.packets), radio.packets \in Nat, Receive
    PROVE  /\ ChipInv(chip', radio'.packets)
           /\ radio'.packets = radio.packets + 1 /\ radio'.packets <= Len(Lengths)
           /\ chip'.of = radio'.packets /\ chip'.done = TRUE
           /\ \A r \in {"mode", "high", "low", "pa", "dac"} : chip'[r] = chip[r]
  <1> DEFINE p == radio.packets + 1
             Cell(i) == (chip.next + i) % FifoSize
             heard == [a \in 0 .. FifoSize - 1 |->
                          IF \E i \in 0 .. Lengths[p] - 1 : a = Cell(i)
                          THEN <<p, CHOOSE i \in 0 .. Lengths[p] - 1 : a = Cell(i)>>
                          ELSE chip.fifo[a]]
  <1>1. /\ radio.packets < Len(Lengths)
        /\ radio' = [radio EXCEPT !.packets = p]
        /\ chip' = [chip EXCEPT
               !.done = TRUE, !.of = p, !.addr = chip.next, !.count = Lengths[p],
               !.next = Cell(Lengths[p]), !.fifo = heard]
    BY DEF Receive, ChipInv
  <1>2. p \in Nat /\ p \in 1 .. Len(Lengths) /\ Lengths[p] \in 0 .. FifoSize
    <2>1. Len(Lengths) \in Nat
      BY FifoAssumption, LenProperties
    <2>2. p \in 1 .. Len(Lengths)
      BY <1>1, <2>1
    <2> QED
      BY <2>2, FifoAssumption, ElementOfSeq
  <1>3. FifoSize \in Nat \ {0} /\ chip.next \in 0 .. FifoSize - 1
    BY FifoAssumption DEF ChipInv
  <1>4. \A i \in Nat : Cell(i) \in 0 .. FifoSize - 1
    BY <1>3
  <1>5. \A i, j \in 0 .. Lengths[p] - 1 : Cell(i) = Cell(j) => i = j
    <2>1. ASSUME NEW i \in 0 .. Lengths[p] - 1, NEW j \in 0 .. Lengths[p] - 1, i < j
          PROVE  Cell(i) # Cell(j)
      <3>0. i \in Int /\ j \in Int /\ j - i < FifoSize /\ chip.next \in Int
        <4>1. PICK l \in 0 .. FifoSize : l = Lengths[p]
          BY <1>2
        <4>2. 0 <= i /\ j <= l - 1 /\ i \in Int /\ j \in Int
          BY <1>3, <2>1, <4>1
        <4> QED
          BY <1>3, <4>1, <4>2
      <3>1. PICK a \in Int : a = chip.next + i
        BY <3>0
      <3>2. PICK b \in Int : b = chip.next + j
        BY <3>0
      <3>3. a < b /\ b - a < FifoSize
        BY <1>3, <2>1, <3>0, <3>1, <3>2
      <3>4. a % FifoSize # b % FifoSize
        BY <1>3, <3>3, PlacesDiffer
      <3> QED
        BY <3>1, <3>2, <3>4
    <2> QED
      BY <1>2, <2>1
  <1>6. heard \in [0 .. FifoSize - 1 -> Cells]
    <2>1. ASSUME NEW a \in 0 .. FifoSize - 1
          PROVE  heard[a] \in Cells
      <3>1. CASE \E i \in 0 .. Lengths[p] - 1 : a = Cell(i)
        <4>1. PICK k : k = CHOOSE i \in 0 .. Lengths[p] - 1 : a = Cell(i)
          OBVIOUS
        <4>2. k \in 0 .. Lengths[p] - 1
          BY <3>1, <4>1
        <4>3. heard[a] = <<p, k>>
          BY <3>1, <4>1
        <4> QED
          BY <1>2, <4>2, <4>3 DEF Cells
      <3>2. CASE ~ \E i \in 0 .. Lengths[p] - 1 : a = Cell(i)
        BY <3>2 DEF ChipInv
      <3> QED
        BY <3>1, <3>2
    <2> QED
      BY <2>1
  <1>7. \A i \in 0 .. Lengths[p] - 1 : heard[Cell(i)] = <<p, i>>
    <2> SUFFICES ASSUME NEW i \in 0 .. Lengths[p] - 1
                 PROVE  heard[Cell(i)] = <<p, i>>
      OBVIOUS
    <2>1. PICK a : a = Cell(i)
      OBVIOUS
    <2>2. a \in 0 .. FifoSize - 1
      BY <1>2, <1>4, <2>1
    <2>3. PICK k : k = CHOOSE j \in 0 .. Lengths[p] - 1 : a = Cell(j)
      OBVIOUS
    <2>4. k \in 0 .. Lengths[p] - 1 /\ a = Cell(k)
      BY <2>1, <2>3
    <2>5. k = i
      BY <1>5, <2>1, <2>4
    <2> QED
      BY <2>1, <2>2, <2>3, <2>5
  <1> HIDE DEF heard
  <1>8. /\ DOMAIN chip' = Registers
        /\ chip'.done = TRUE /\ chip'.of = p /\ chip'.addr = chip.next /\ chip'.count = Lengths[p]
        /\ chip'.next = Cell(Lengths[p]) /\ chip'.fifo = heard
        /\ chip'.ptr = chip.ptr
        /\ \A r \in {"mode", "high", "low", "pa", "dac"} : chip'[r] = chip[r]
    BY <1>1 DEF ChipInv, Registers
  <1>9. radio'.packets = p
    BY <1>1
  <1>10. HoldsPacket(chip')
    BY <1>7, <1>8 DEF HoldsPacket
  <1>11. ChipInv(chip', p)
    <2>1. chip'.next \in 0 .. FifoSize - 1 /\ chip'.count \in Nat
      <3>1. PICK l \in Nat : l = Lengths[p]
        BY <1>2, <1>3
      <3> QED
        BY <1>4, <1>8, <3>1
    <2>2. chip'.ptr \in 0 .. FifoSize - 1 /\ chip'.addr \in 0 .. FifoSize - 1
      BY <1>3, <1>8 DEF ChipInv
    <2>3. chip'.of \in 0 .. p /\ chip'.of # 0
      <3>1. PICK q \in Nat \ {0} : q = p
        BY <1>2
      <3>2. chip'.of = q
        BY <1>8, <3>1
      <3> QED
        BY <3>1, <3>2
    <2>4. chip'.done \in BOOLEAN
      BY <1>8
    <2> HIDE DEF p
    <2> QED
      BY <1>6, <1>8, <1>10, <2>1, <2>2, <2>3, <2>4 DEF ChipInv
  <1> QED
    BY <1>1, <1>2, <1>8, <1>9, <1>11

(* The ring r holds the newest of the samples p, sample j at place         *)
(* (j - 1) % Ring, and knows how many it lost.                             *)
RingHas(r, p, lost) ==
    /\ DOMAIN r = {"samples", "next", "dropped"}
    /\ Len(r.samples) <= Ring /\ lost \in Nat
    /\ r.dropped = lost /\ r.next = lost % Ring
    /\ lost = 0 \/ Len(r.samples) = Ring
    /\ \A j \in lost + 1 .. Len(p) : r.samples[((j - 1) % Ring) + 1] = p[j]

RingHolds(r, p) == RingHas(r, p, Len(p) - Len(r.samples))

(* Pushing a sample keeps it so, before and after the ring is full.        *)
LEMMA PushKeepsRing ==
    ASSUME NEW S, NEW s \in S, pushed \in Seq(S), ring.samples \in Seq(S), RingHolds(ring, pushed)
    PROVE  /\ RingHolds(PushSample(s), Append(pushed, s))
           /\ PushSample(s).samples \in Seq(S) /\ Append(pushed, s) \in Seq(S)
  <1>1. PICK q : q = Append(pushed, s)
    OBVIOUS
  <1>2. /\ q \in Seq(S) /\ Len(pushed) \in Nat /\ Len(q) = Len(pushed) + 1
        /\ q[Len(q)] = s /\ \A i \in 1 .. Len(pushed) : q[i] = pushed[i]
    BY <1>1, AppendProperties, LenProperties
  <1>3. PICK kept \in Nat : kept = Len(ring.samples)
    BY LenProperties
  <1>4. PICK lost \in Nat : lost = Len(pushed) - kept
    BY <1>3 DEF RingHolds, RingHas
  <1>5. /\ DOMAIN ring = {"samples", "next", "dropped"}
        /\ kept <= Ring
        /\ ring.dropped = lost /\ ring.next = lost % Ring
        /\ lost = 0 \/ kept = Ring
        /\ \A j \in lost + 1 .. Len(pushed) : ring.samples[((j - 1) % Ring) + 1] = pushed[j]
    BY <1>3, <1>4 DEF RingHolds, RingHas
  <1>6. Ring \in Nat \ {0}
    BY RingSizeAssumption
  <1>7. PICK r : r = PushSample(s)
    OBVIOUS
  <1>8. CASE kept < Ring
    <2>1. lost = 0 /\ Len(pushed) = kept
      BY <1>2, <1>4, <1>5, <1>8
    <2>2. r = [ring EXCEPT !.samples = Append(ring.samples, s)]
      BY <1>3, <1>7, <1>8 DEF PushSample
    <2>3. /\ DOMAIN r = {"samples", "next", "dropped"} /\ r.samples = Append(ring.samples, s)
          /\ r.next = ring.next /\ r.dropped = ring.dropped
      BY <1>5, <2>2
    <2>4. /\ r.samples \in Seq(S) /\ Len(r.samples) = kept + 1
          /\ r.samples[kept + 1] = s
          /\ \A i \in 1 .. kept : r.samples[i] = ring.samples[i]
      BY <1>3, <2>3, AppendProperties
    <2>5. ASSUME NEW j \in 1 .. Len(q)
          PROVE  r.samples[((j - 1) % Ring) + 1] = q[j]
      <3>1. (j - 1) % Ring = j - 1
        BY <1>2, <1>6, <1>8, <2>1
      <3>2. CASE j = kept + 1
        BY <1>2, <2>1, <2>4, <3>1, <3>2
      <3>3. CASE j \in 1 .. kept
        <4>1. ring.samples[((j - 1) % Ring) + 1] = pushed[j]
          BY <1>5, <2>1, <3>3
        <4>2. r.samples[((j - 1) % Ring) + 1] = ring.samples[((j - 1) % Ring) + 1]
          BY <2>4, <3>1, <3>3
        <4>3. q[j] = pushed[j]
          BY <1>2, <2>1, <3>3
        <4> QED
          BY <4>1, <4>2, <4>3
      <3> QED
        BY <1>2, <2>1, <3>2, <3>3
    <2>6. Len(q) - Len(r.samples) = 0
      BY <1>2, <2>1, <2>4
    <2>7. RingHolds(r, q)
      <3>1. r.next = 0 % Ring /\ r.dropped = 0 /\ Len(r.samples) <= Ring
        BY <1>5, <1>6, <1>8, <2>1, <2>3, <2>4
      <3>2. RingHas(r, q, 0)
        <4>1. \A j \in 0 + 1 .. Len(q) : r.samples[((j - 1) % Ring) + 1] = q[j]
          BY <2>5
        <4> QED
          BY <2>3, <3>1, <4>1 DEF RingHas
      <3> QED
        BY <2>6, <3>2 DEF RingHolds
    <2> QED
      BY <1>1, <1>2, <1>7, <2>4, <2>7
  <1>9. CASE kept = Ring
    <2>1. r = [samples |-> [ring.samples EXCEPT ![ring.next + 1] = s],
               next |-> (ring.next + 1) % Ring, dropped |-> ring.dropped + 1]
      BY <1>3, <1>6, <1>7, <1>9 DEF PushSample
    <2>2. PICK x \in 0 .. Ring - 1 : x = lost % Ring
      BY <1>6
    <2>3. r.samples = [ring.samples EXCEPT ![x + 1] = s] /\ r.next = (x + 1) % Ring
          /\ r.dropped = lost + 1 /\ DOMAIN r = {"samples", "next", "dropped"}
      BY <1>5, <2>1, <2>2
    <2>4. x + 1 \in 1 .. Len(ring.samples)
      BY <1>3, <1>6, <1>9, <2>2
    <2>5. /\ r.samples \in Seq(S) /\ Len(r.samples) = Ring
          /\ \A i \in 1 .. Ring : r.samples[i] = IF i = x + 1 THEN s ELSE ring.samples[i]
      <3>1. PICK u \in Seq(S) : u = ring.samples
        OBVIOUS
      <3>2. PICK k \in 1 .. Len(u) : k = x + 1
        BY <2>4, <3>1
      <3>3. /\ [u EXCEPT ![k] = s] \in Seq(S) /\ Len([u EXCEPT ![k] = s]) = Len(u)
            /\ \A i \in 1 .. Len(u) : [u EXCEPT ![k] = s][i] = IF i = k THEN s ELSE u[i]
        BY ExceptSeq
      <3> QED
        BY <1>3, <1>9, <2>3, <3>1, <3>2, <3>3
    <2>6. (x + 1) % Ring = (lost + 1) % Ring
      <3>1. x % Ring = x /\ x \in Int /\ lost \in Int
        BY <1>6
      <3>2. x % Ring = lost % Ring
        BY <2>2, <3>1
      <3> QED
        BY <1>6, <3>1, <3>2, NextRemainder
    <2>7. Len(q) = lost + 1 + Ring /\ Len(pushed) = lost + Ring
      BY <1>2, <1>3, <1>4, <1>9
    <2>8. ASSUME NEW j \in lost + 2 .. Len(q)
          PROVE  r.samples[((j - 1) % Ring) + 1] = q[j]
      <3>1. PICK y \in 0 .. Ring - 1 : y = (j - 1) % Ring
        BY <1>6
      <3>2. y + 1 \in 1 .. Ring
        BY <1>6, <3>1
      <3>3. CASE j = Len(q)
        <4>1. y = x
          <5>1. PICK a \in Int : a = j - 1
            OBVIOUS
          <5>2. a - lost = Ring
            BY <1>6, <2>7, <3>3, <5>1
          <5>3. (a - lost) % Ring = 0
            BY <1>6, <5>2
          <5>4. a % Ring = lost % Ring
            <6>1. lost \in Int
              OBVIOUS
            <6> QED
              BY <1>6, <5>3, <6>1, SameRemainder
          <5> QED
            BY <2>2, <3>1, <5>1, <5>4
        <4> QED
          BY <1>2, <2>5, <3>1, <3>2, <3>3, <4>1
      <3>4. CASE j # Len(q)
        <4>1. j \in lost + 1 .. Len(pushed) /\ j \in 1 .. Len(pushed)
          BY <1>2, <2>7, <2>8, <3>4
        <4>2. y # x
          <5>1. PICK a \in Int : a = j - 1
            BY <4>1
          <5>2. lost \in Int /\ lost < a /\ a - lost < Ring
            BY <1>6, <2>7, <2>8, <4>1, <5>1
          <5>3. lost % Ring # a % Ring
            BY <1>6, <5>2, PlacesDiffer
          <5> QED
            BY <2>2, <3>1, <5>1, <5>3
        <4>3. ring.samples[y + 1] = pushed[j]
          BY <1>5, <3>1, <4>1
        <4>4. q[j] = pushed[j]
          BY <1>2, <4>1
        <4>5. r.samples[y + 1] = ring.samples[y + 1]
          <5>1. y + 1 # x + 1
            BY <1>6, <4>2
          <5> QED
            BY <2>5, <3>2, <5>1
        <4> QED
          BY <3>1, <4>3, <4>4, <4>5
      <3> QED
        BY <3>3, <3>4
    <2>9. Len(q) - Len(r.samples) = lost + 1
      BY <2>5, <2>7
    <2>10. RingHolds(r, q)
      <3>1. PICK d \in Nat : d = lost + 1
        OBVIOUS
      <3>2. RingHas(r, q, d)
        BY <1>6, <2>3, <2>5, <2>6, <2>7, <2>8, <3>1 DEF RingHas
      <3> QED
        BY <2>9, <3>1, <3>2 DEF RingHolds
    <2> QED
      BY <1>1, <1>2, <1>7, <2>5, <2>10
  <1> QED
    BY <1>3, <1>5, <1>6, <1>8, <1>9

(* Such a ring holds the newest samples.                                   *)
LEMMA RingIsExact ==
    RingHolds(ring, pushed) /\ Len(ring.samples) \in Nat /\ Len(pushed) \in Nat => RingKeepsNewest
  <1> SUFFICES ASSUME RingHolds(ring, pushed), Len(ring.samples) \in Nat, Len(pushed) \in Nat
               PROVE  RingKeepsNewest
    OBVIOUS
  <1>1. PICK kept \in Nat : kept = Len(ring.samples)
    OBVIOUS
  <1>2. PICK lost \in Nat : lost = Len(pushed) - kept
    BY <1>1 DEF RingHolds, RingHas
  <1>3. PICK x \in Int : x = ring.next /\ x = lost % Ring
    BY <1>1, <1>2, RingSizeAssumption DEF RingHolds, RingHas
  <1>4. ring.dropped = lost /\ (lost = 0 \/ kept = Ring)
    BY <1>1, <1>2 DEF RingHolds, RingHas
  <1>5. ASSUME NEW i \in 1 .. kept
        PROVE  ring.samples[((ring.next + i - 1) % Ring) + 1] = pushed[lost + i]
    <2>1. PICK j \in Int : j = lost + i
      OBVIOUS
    <2>2. ring.samples[((j - 1) % Ring) + 1] = pushed[j]
      <3>1. Len(pushed) = lost + kept
        BY <1>2
      <3>2. j \in lost + 1 .. Len(pushed)
        BY <1>5, <2>1, <3>1
      <3> QED
        BY <1>1, <1>2, <3>2 DEF RingHolds, RingHas
    <2>3. PICK a \in Int, b \in Int : a = x + i - 1 /\ b = j - 1
      OBVIOUS
    <2>4. (b - a) % Ring = 0
      <3>1. PICK d \in Int, z \in 0 .. Ring - 1 : z = lost % Ring /\ lost = Ring * d + z
        <4>1. lost \in Int
          OBVIOUS
        <4> QED
          BY <4>1, RingSizeAssumption, Division
      <3>2. b - a = Ring * d
        <4>1. PICK m \in Int : m = Ring * d
          BY RingSizeAssumption
        <4>2. lost = m + x
          BY <1>3, <3>1, <4>1
        <4>3. b - a = m
          BY <1>5, <2>1, <2>3, <4>2
        <4> QED
          BY <4>1, <4>3
      <3>3. 0 \in 0 .. Ring - 1 /\ Ring * d + 0 = Ring * d
        BY RingSizeAssumption
      <3>4. (Ring * d + 0) % Ring = 0
        BY <3>3, RemainderOf, RingSizeAssumption
      <3> QED
        BY <3>2, <3>3, <3>4
    <2>5. b % Ring = a % Ring
      BY <2>4, SameRemainder, RingSizeAssumption
    <2> QED
      BY <1>3, <2>1, <2>2, <2>3, <2>5
  <1> QED
    <2>1. \A i \in 1 .. Len(ring.samples) :
              ring.samples[((ring.next + i - 1) % Ring) + 1] = pushed[(Len(pushed) - Len(ring.samples)) + i]
      BY <1>1, <1>2, <1>5
    <2>2. /\ ring.dropped = Len(pushed) - Len(ring.samples)
          /\ Len(pushed) - Len(ring.samples) = 0 \/ Len(ring.samples) = Ring
      BY <1>1, <1>2, <1>4
    <2> QED
      BY <2>1, <2>2 DEF RingKeepsNewest

\* What a poll may have read, and what it pushes.
Reads == [done : BOOLEAN, count : Nat, addr : 0 .. FifoSize - 1, bytes : Seq(Cells), of : Nat]
RawSamples == [bytes : Seq(Cells), of : Nat, torn : BOOLEAN]

(* What a read returns goes to its field, a byte behind the others.        *)
LEMMA KeepIs ==
    ASSUME NEW packets \in Nat, ChipInv(chip, packets), sample \in Reads, NEW a \in Accesses
    PROVE  /\ Keep(a) \in Reads
           /\ a.kind = "write" => Keep(a) = sample
           /\ a.kind = "read" =>
                  /\ Keep(a).bytes = IF a.register = "fifo" THEN Append(sample.bytes, chip.fifo[chip.ptr])
                                     ELSE sample.bytes
                  /\ Keep(a).count = IF a.register = "count" THEN chip.count ELSE sample.count
                  /\ Keep(a).addr = IF a.register = "addr" THEN chip.addr ELSE sample.addr
                  /\ Keep(a).of = IF a.register = "of" THEN chip.of ELSE sample.of
  <1>0. /\ chip.done \in BOOLEAN /\ chip.count \in Nat /\ chip.addr \in 0 .. FifoSize - 1
        /\ chip.of \in Nat /\ chip.fifo[chip.ptr] \in Cells
    <2>1. chip.ptr \in 0 .. FifoSize - 1 /\ chip.fifo \in [0 .. FifoSize - 1 -> Cells]
      BY DEF ChipInv
    <2>2. chip.of \in 0 .. packets
      BY DEF ChipInv
    <2>3. chip.done \in BOOLEAN /\ chip.count \in Nat /\ chip.addr \in 0 .. FifoSize - 1
      BY DEF ChipInv
    <2>4. chip.fifo[chip.ptr] \in Cells
      BY <2>1
    <2> QED
      BY <2>2, <2>3, <2>4
  <1>1. CASE a.kind = "write"
    BY <1>1 DEF Keep
  <1>2. CASE a.kind = "read" /\ a.register = "fifo"
    <2>1. PICK cell \in Cells : cell = chip.fifo[chip.ptr]
      BY <1>0
    <2>2. Keep(a) = [sample EXCEPT !.bytes = Append(sample.bytes, cell)]
      BY <1>2, <2>1 DEF Keep, Reads
    <2>3. Append(sample.bytes, cell) \in Seq(Cells)
      BY AppendProperties DEF Reads
    <2> QED
      BY <1>2, <2>1, <2>2, <2>3 DEF Reads
  <1>3. CASE a.kind = "read" /\ a.register = "done"
    <2>1. Keep(a) = [sample EXCEPT !.done = chip.done]
      BY <1>3 DEF Keep
    <2> QED
      BY <1>0, <1>3, <2>1 DEF Reads
  <1>4. CASE a.kind = "read" /\ a.register = "count"
    <2>1. Keep(a) = [sample EXCEPT !.count = chip.count]
      BY <1>4 DEF Keep
    <2> QED
      BY <1>0, <1>4, <2>1 DEF Reads
  <1>5. CASE a.kind = "read" /\ a.register = "addr"
    <2>1. Keep(a) = [sample EXCEPT !.addr = chip.addr]
      BY <1>5 DEF Keep
    <2> QED
      BY <1>0, <1>5, <2>1 DEF Reads
  <1>6. CASE a.kind = "read" /\ a.register = "of"
    <2>1. Keep(a) = [sample EXCEPT !.of = chip.of]
      BY <1>6 DEF Keep
    <2> QED
      BY <1>0, <1>6, <2>1 DEF Reads
  <1> QED
    BY <1>1, <1>2, <1>3, <1>4, <1>5, <1>6 DEF Accesses

\* The reads of r more bytes, and what a poll does after them.
IsFetch(s, r) ==
    /\ s \in Seq(PollAccesses) /\ Len(s) = r + 2
    /\ \A i \in 1 .. r : s[i] = Read("fifo")
    /\ s[r + 1] = Read("of") /\ s[r + 2] = Write("done", FALSE)

IsPoll(s, addr, r) ==
    /\ s \in Seq(PollAccesses) /\ s # <<>>
    /\ s[1] = Write("ptr", addr) /\ IsFetch(Tail(s), r)

(* What a poll reads and writes.                                           *)
LEMMA PollWords ==
    /\ \A r \in {"done", "count", "addr", "fifo", "of"} : Read(r) \in PollAccesses
    /\ Write("done", FALSE) \in PollAccesses
    /\ \A a \in 0 .. FifoSize - 1 : Write("ptr", a) \in PollAccesses
  <1>1. \A r \in {"done", "count", "addr", "fifo", "of"} : Read(r) \in Accesses
    BY DEF Read, Accesses, Registers, RegisterWords, Sets
  <1>2. Write("done", FALSE) \in Accesses
    BY DEF Write, Accesses, Registers, RegisterWords, Sets
  <1>3. \A a \in 0 .. FifoSize - 1 : Write("ptr", a) \in Accesses
    BY FifoAssumption DEF Write, Accesses, Registers, RegisterWords, Sets
  <1> QED
    BY <1>1, <1>2, <1>3 DEF PollAccesses, Read, Write

(* A poll sets the pointer, reads the bytes, asks what they are and clears *)
(* the flag.                                                               *)
LEMMA PollIs ==
    ASSUME NEW addr \in 0 .. FifoSize - 1, NEW n \in Nat
    PROVE  IsPoll(Poll(addr, n), addr, n)
  <1>1. PICK v : v = <<Write("ptr", addr)>>
    OBVIOUS
  <1>2. v \in Seq(PollAccesses) /\ Len(v) = 1 /\ v[1] = Write("ptr", addr)
    <2>1. PICK x \in PollAccesses : x = Write("ptr", addr)
      BY PollWords
    <2> QED
      BY <1>1, <2>1
  <1>3. PICK w : w = [i \in 1 .. n |-> Read("fifo")]
    OBVIOUS
  <1>4. w \in Seq(PollAccesses) /\ Len(w) = n /\ \A i \in 1 .. n : w[i] = Read("fifo")
    <2>1. PICK x \in PollAccesses : x = Read("fifo")
      BY PollWords
    <2>2. w \in [1 .. n -> PollAccesses]
      BY <1>3, <2>1
    <2>3. w \in Seq(PollAccesses)
      BY <2>2, SeqDef
    <2> QED
      BY <1>3, <2>2, <2>3
  <1>5. PICK t : t = <<Read("of"), Write("done", FALSE)>>
    OBVIOUS
  <1>6. t \in Seq(PollAccesses) /\ Len(t) = 2 /\ t[1] = Read("of") /\ t[2] = Write("done", FALSE)
    <2>1. PICK x \in PollAccesses : x = Read("of")
      BY PollWords
    <2>2. PICK y \in PollAccesses : y = Write("done", FALSE)
      BY PollWords
    <2>3. t = <<x, y>>
      BY <1>5, <2>1, <2>2
    <2>4. t \in Seq(PollAccesses) /\ Len(t) = 2 /\ t[1] = x /\ t[2] = y
      BY <2>3
    <2> QED
      BY <2>1, <2>2, <2>4
  <1>7. PICK s : s = Poll(addr, n)
    OBVIOUS
  <1>8. PICK u : u = v \o w
    OBVIOUS
  <1>9. /\ u \in Seq(PollAccesses) /\ Len(u) = 1 + n
        /\ u[1] = v[1] /\ \A i \in 1 .. n : u[1 + i] = w[i]
    <2>1. /\ v \o w \in Seq(PollAccesses) /\ Len(v \o w) = Len(v) + Len(w)
          /\ \A i \in 1 .. Len(v) + Len(w) :
                 (v \o w)[i] = IF i <= Len(v) THEN v[i] ELSE w[i - Len(v)]
      BY <1>2, <1>4, ConcatProperties, ZenonT(30)
    <2> QED
      BY <1>2, <1>4, <1>8, <2>1
  <1>10. /\ s \in Seq(PollAccesses) /\ Len(s) = n + 3
         /\ \A i \in 1 .. n + 1 : s[i] = u[i]
         /\ s[n + 2] = t[1] /\ s[n + 3] = t[2]
    <2>1. s = u \o t
      BY <1>1, <1>3, <1>5, <1>7, <1>8 DEF Poll
    <2>2. /\ u \o t \in Seq(PollAccesses) /\ Len(u \o t) = Len(u) + Len(t)
          /\ \A i \in 1 .. Len(u) + Len(t) :
                 (u \o t)[i] = IF i <= Len(u) THEN u[i] ELSE t[i - Len(u)]
      BY <1>6, <1>9, ConcatProperties, ZenonT(30)
    <2>3. /\ s \in Seq(PollAccesses) /\ Len(s) = n + 3
          /\ \A i \in 1 .. n + 3 : s[i] = IF i <= n + 1 THEN u[i] ELSE t[i - (1 + n)]
      BY <1>6, <1>9, <2>1, <2>2
    <2>4. \A i \in 1 .. n + 1 : s[i] = u[i]
      BY <2>3
    <2>5. s[n + 2] = t[1]
      <3>1. n + 2 \in 1 .. n + 3 /\ ~(n + 2 <= n + 1) /\ (n + 2) - (1 + n) = 1
        OBVIOUS
      <3> QED
        BY <2>3, <3>1
    <2>6. s[n + 3] = t[2]
      <3>1. n + 3 \in 1 .. n + 3 /\ ~(n + 3 <= n + 1) /\ (n + 3) - (1 + n) = 2
        OBVIOUS
      <3> QED
        BY <2>3, <3>1
    <2> QED
      BY <2>3, <2>4, <2>5, <2>6
  <1>11. s # <<>>
    BY <1>10
  <1>12. /\ Tail(s) \in Seq(PollAccesses) /\ Len(Tail(s)) = n + 2
         /\ \A i \in 1 .. n + 2 : Tail(s)[i] = s[i + 1]
    BY <1>10, <1>11, HeadTailProperties
  <1>13. IsFetch(Tail(s), n)
    <2>1. ASSUME NEW i \in 1 .. n
          PROVE  Tail(s)[i] = Read("fifo")
      <3>1. Tail(s)[i] = s[i + 1] /\ s[i + 1] = u[i + 1]
        BY <1>10, <1>12
      <3>2. u[i + 1] = w[i]
        <4>1. i + 1 = 1 + i
          OBVIOUS
        <4> QED
          BY <1>9, <4>1
      <3> QED
        BY <1>4, <3>1, <3>2
    <2>2. Tail(s)[n + 1] = Read("of")
      <3>1. (n + 1) + 1 = n + 2 /\ n + 1 \in 1 .. n + 2
        OBVIOUS
      <3> QED
        BY <1>6, <1>10, <1>12, <3>1
    <2>3. Tail(s)[n + 2] = Write("done", FALSE)
      <3>1. (n + 2) + 1 = n + 3 /\ n + 2 \in 1 .. n + 2
        OBVIOUS
      <3> QED
        BY <1>6, <1>10, <1>12, <3>1
    <2> QED
      BY <1>12, <2>1, <2>2, <2>3 DEF IsFetch
  <1> QED
    BY <1>2, <1>7, <1>9, <1>10, <1>11, <1>13 DEF IsPoll

(* One byte less to read.                                                  *)
LEMMA FetchTail ==
    ASSUME NEW s, NEW r \in Nat, IsFetch(s, r)
    PROVE  /\ s # <<>> /\ s[1] = IF r = 0 THEN Read("of") ELSE Read("fifo")
           /\ r > 0 => IsFetch(Tail(s), r - 1)
           /\ r = 0 => Tail(s) = <<Write("done", FALSE)>>
  <1>1. s \in Seq(PollAccesses) /\ Len(s) = r + 2 /\ s # <<>>
    BY DEF IsFetch
  <1>2. /\ Tail(s) \in Seq(PollAccesses) /\ Len(Tail(s)) = r + 1
        /\ \A i \in 1 .. r + 1 : Tail(s)[i] = s[i + 1]
    BY <1>1, HeadTailProperties
  <1>3. ASSUME r > 0 PROVE IsFetch(Tail(s), r - 1)
    <2>1. ASSUME NEW i \in 1 .. r - 1
          PROVE  Tail(s)[i] = Read("fifo")
      BY <1>2, <2>1 DEF IsFetch
    <2>2. Tail(s)[(r - 1) + 1] = Read("of")
      <3>1. (r - 1) + 1 = r /\ r \in 1 .. r + 1
        BY <1>3
      <3> QED
        BY <1>2, <3>1 DEF IsFetch
    <2>3. Tail(s)[(r - 1) + 2] = Write("done", FALSE)
      <3>1. (r - 1) + 2 = r + 1 /\ r + 1 \in 1 .. r + 1 /\ (r + 1) + 1 = r + 2
        BY <1>3
      <3> QED
        BY <1>2, <3>1 DEF IsFetch
    <2>4. Len(Tail(s)) = (r - 1) + 2
      BY <1>2
    <2> QED
      BY <1>2, <2>1, <2>2, <2>3, <2>4 DEF IsFetch
  <1>4. ASSUME r = 0 PROVE Tail(s) = <<Write("done", FALSE)>>
    <2>1. PICK x \in PollAccesses : x = Write("done", FALSE)
      BY PollWords
    <2>2. Len(Tail(s)) = 1 /\ Tail(s)[1] = x
      <3>1. s[2] = x
        <4>1. s[r + 2] = x
          BY <2>1 DEF IsFetch
        <4>2. r + 2 = 2
          BY <1>4
        <4> QED
          BY <4>1, <4>2
      <3>2. Len(Tail(s)) = 1
        BY <1>2, <1>4
      <3>3. 1 \in 1 .. r + 1 /\ 1 + 1 = 2
        BY <1>4
      <3>4. Tail(s)[1] = s[2]
        BY <1>2, <3>3
      <3> QED
        BY <3>1, <3>2, <3>4
    <2>3. PICK y : y = <<x>>
      OBVIOUS
    <2>4. y \in Seq(PollAccesses) /\ Len(y) = 1 /\ y[1] = x
      BY <2>3
    <2>5. PICK z \in Seq(PollAccesses) : z = Tail(s)
      BY <1>2
    <2>6. Len(z) = Len(y) /\ \A i \in 1 .. Len(z) : z[i] = y[i]
      BY <2>2, <2>4, <2>5
    <2>7. z = y
      BY <2>4, <2>6, SeqEqual
    <2> QED
      BY <2>1, <2>3, <2>5, <2>7
  <1>5. s[1] = IF r = 0 THEN Read("of") ELSE Read("fifo")
    BY DEF IsFetch
  <1> QED
    BY <1>1, <1>3, <1>4, <1>5

\* Packet p has not been taken yet, nor a later one.
NotTaken(p) == \A i \in DOMAIN pushed : pushed[i].of < p

Whole(p) == [k \in 1 .. Lengths[p] |-> <<p, k - 1>>]

\* Samples are whole, each packet was taken once, and none that was not heard.
PushedInv ==
    /\ SamplesAreWhole
    /\ \A i \in DOMAIN pushed : pushed[i].of <= chip.of
    /\ chip.done => NotTaken(chip.of)

\* Where the packet lies, as the chip said, unless it has heard another since.
Located == torn \/ (sample.count = chip.count /\ sample.addr = chip.addr)

\* So far the poll has read the first k bytes of it.
Fetched(k) ==
    torn \/ /\ chip.ptr = (chip.addr + k) % FifoSize
            /\ sample.bytes = [i \in 1 .. k |-> <<chip.of, i - 1>>]

\* The poll has asked for the flags, ...
Asking == todo = <<Read("done")>> /\ sample = NoSample

\* ... there is a packet that was not taken, and it asks where it lies, ...
Locating ==
    /\ chip.of # 0 /\ NotTaken(chip.of)
    /\ sample.of = 0 /\ sample.bytes = <<>>
    /\ \/ todo = <<Read("count"), Read("addr")>>
       \/ todo = <<Read("addr")>> /\ (torn \/ sample.count = chip.count)
       \/ IsPoll(todo, sample.addr, sample.count) /\ Located

\* ... it has r more bytes to read, ...
Fetching ==
    /\ chip.of # 0 /\ NotTaken(chip.of)
    /\ sample.of = 0 /\ Located
    /\ \E r \in 0 .. sample.count : IsFetch(todo, r) /\ Fetched(sample.count - r)

\* ... it knows what packet it was and has the flags to clear.
Ending ==
    /\ todo = <<Write("done", FALSE)>>
    /\ sample.of \in 1 .. chip.of /\ NotTaken(sample.of)
    /\ torn \/ sample.bytes = Whole(sample.of)

(* A poll, from its first question to the sample it pushes.                *)
Polling == Asking \/ Locating \/ Fetching \/ Ending

\* The receiver: what the chip, the poll and the ring hold fits together.
SampleInv ==
    /\ radio \in [packets : Nat, faults : Nat, calls : Nat]
    /\ ChipInv(chip, radio.packets)
    /\ sample \in Reads /\ torn \in BOOLEAN
    /\ ring.samples \in Seq(RawSamples) /\ pushed \in Seq(RawSamples)
    /\ RingHolds(ring, pushed) /\ PushedInv

(* What an access leaves when it pushes nothing.                           *)
LEMMA NothingPushed ==
    ASSUME SampleInv, NEW a \in Accesses, chip' = Effect(a), sample' \in Reads, torn' \in BOOLEAN,
           radio' \in [packets : Nat, faults : Nat, calls : Nat], radio'.packets = radio.packets,
           UNCHANGED <<ring, pushed>>
    PROVE  SampleInv'
  <1>1. /\ ChipInv(Effect(a), radio.packets) /\ Effect(a).of = chip.of
        /\ Effect(a).done = chip.done \/ Effect(a).done = FALSE
    BY EffectKeepsChip DEF SampleInv
  <1>3. PICK d : d = Effect(a)
    OBVIOUS
  <1>4. chip' = d /\ d.of = chip.of /\ (d.done = chip.done \/ d.done = FALSE)
    BY <1>1, <1>3
  <1>5. PushedInv'
    BY <1>4 DEF SampleInv, PushedInv, NotTaken, SamplesAreWhole
  <1>6. RingHolds(ring, pushed)'
    BY DEF SampleInv, RingHolds, RingHas
  <1> QED
    BY <1>1, <1>5, <1>6 DEF SampleInv

(* What an access does, and that only the last of a poll pushes a sample.  *)
LEMMA AccessIs ==
    ASSUME SampleInv, Access, NEW a \in Accesses, a = todo[1]
    PROVE  /\ chip' = Effect(a) /\ sample' = Keep(a) /\ todo' = Rest(a) /\ torn' = torn
           /\ DOMAIN chip = Registers /\ sample \in Reads
           /\ chip'.addr = chip.addr /\ chip'.count = chip.count /\ chip'.of = chip.of
           /\ chip'.fifo = chip.fifo
           /\ Keep(a).of = 0 \/ Rest(a) # <<>> => SampleInv' /\ pushed' = pushed
  <1>1. chip' = Effect(a) /\ sample' = Keep(a) /\ todo' = Rest(a) /\ torn' = torn /\ radio' = radio
    BY DEF Access
  <1>2. ASSUME Keep(a).of = 0 \/ Rest(a) # <<>>
        PROVE  ring' = ring /\ pushed' = pushed
    BY <1>1, <1>2 DEF Access, Finish
  <1>3. ASSUME Keep(a).of = 0 \/ Rest(a) # <<>>
        PROVE  SampleInv'
    <2>1. Keep(a) \in Reads
      BY KeepIs DEF SampleInv
    <2> QED
      BY <1>1, <1>2, <1>3, <2>1, NothingPushed DEF SampleInv
  <1>4. /\ Effect(a).addr = chip.addr /\ Effect(a).count = chip.count /\ Effect(a).of = chip.of
        /\ Effect(a).fifo = chip.fifo
    BY EffectKeepsChip DEF SampleInv
  <1> QED
    BY <1>1, <1>2, <1>3, <1>4 DEF SampleInv, ChipInv

(* A read changes its own field and nothing on the chip.                   *)
LEMMA ReadIs ==
    ASSUME SampleInv, Access, NEW r \in {"done", "count", "addr", "of"}, todo[1] = Read(r)
    PROVE  /\ Read(r) \in Accesses
           /\ chip' = chip
           /\ sample'.bytes = sample.bytes
           /\ sample'.count = IF r = "count" THEN chip.count ELSE sample.count
           /\ sample'.addr = IF r = "addr" THEN chip.addr ELSE sample.addr
           /\ sample'.of = IF r = "of" THEN chip.of ELSE sample.of
  <1>1. PICK a \in Accesses : a = Read(r)
    BY PollWords DEF PollAccesses
  <1>2. a.kind = "read" /\ a.register = r
    BY <1>1 DEF Read
  <1>3. chip' = Effect(a) /\ sample' = Keep(a)
    BY <1>1, AccessIs
  <1>4. Effect(a) = chip
    BY <1>2 DEF Effect
  <1>5. /\ Keep(a).bytes = sample.bytes
        /\ Keep(a).count = IF r = "count" THEN chip.count ELSE sample.count
        /\ Keep(a).addr = IF r = "addr" THEN chip.addr ELSE sample.addr
        /\ Keep(a).of = IF r = "of" THEN chip.of ELSE sample.of
    BY <1>2, KeepIs DEF SampleInv
  <1> QED
    BY <1>1, <1>3, <1>4, <1>5

(* A packet is looked for, ...                                             *)
LEMMA AskingStep ==
    ASSUME SampleInv, Asking, Access
    PROVE  SampleInv' /\ (todo' = <<>> \/ Polling')
  <1>1. PICK a \in Accesses : a = Read("done")
    BY PollWords DEF PollAccesses
  <1>2. a = todo[1]
    BY <1>1 DEF Asking
  <1>3. chip' = chip /\ sample'.of = 0 /\ sample'.bytes = <<>>
    BY <1>1, <1>2, ReadIs DEF Asking, NoSample
  <1>4. SampleInv' /\ pushed' = pushed
    BY <1>2, <1>3, AccessIs
  <1>5. todo' = IF chip.done THEN <<Read("count"), Read("addr")>> ELSE <<>>
    BY <1>1, <1>2, AccessIs DEF Rest, Read
  <1>6. ASSUME chip.done PROVE Locating'
    <2>1. chip.of # 0 /\ NotTaken(chip.of)
      BY <1>6 DEF SampleInv, ChipInv, PushedInv
    <2> QED
      BY <1>3, <1>4, <1>5, <1>6, <2>1 DEF Locating, NotTaken
  <1> QED
    BY <1>4, <1>5, <1>6 DEF Polling

(* ... found where it lies, ...                                            *)
LEMMA LocatingStep ==
    ASSUME SampleInv, Locating, Access
    PROVE  SampleInv' /\ Polling'
  <1>1. CASE todo = <<Read("count"), Read("addr")>>
    <2>1. PICK a \in Accesses : a = Read("count")
      BY PollWords DEF PollAccesses
    <2>2. a = todo[1]
      BY <1>1, <2>1
    <2>3. chip' = chip /\ sample'.of = 0 /\ sample'.bytes = <<>> /\ sample'.count = chip.count
      BY <2>1, <2>2, ReadIs DEF Locating
    <2>4. SampleInv' /\ pushed' = pushed
      BY <2>2, <2>3, AccessIs
    <2>5. todo' = <<Read("addr")>>
      <3>1. todo' = Tail(todo)
        BY <2>1, <2>2, AccessIs DEF Rest, Read
      <3>2. PICK b : b = Read("addr")
        OBVIOUS
      <3>3. todo = <<a, b>>
        BY <1>1, <2>1, <3>2
      <3>4. Tail(<<a, b>>) = <<b>>
        OBVIOUS
      <3> QED
        BY <3>1, <3>2, <3>3, <3>4
    <2>6. Locating'
      BY <2>3, <2>4, <2>5 DEF Locating, NotTaken
    <2> QED
      BY <2>4, <2>6 DEF Polling
  <1>2. CASE todo = <<Read("addr")>> /\ (torn \/ sample.count = chip.count)
    <2>1. PICK a \in Accesses : a = Read("addr")
      BY PollWords DEF PollAccesses
    <2>2. a = todo[1]
      BY <1>2, <2>1
    <2>3. /\ chip' = chip /\ sample'.of = 0 /\ sample'.bytes = <<>>
          /\ sample'.count = sample.count /\ sample'.addr = chip.addr
      BY <2>1, <2>2, ReadIs DEF Locating
    <2>4. SampleInv' /\ pushed' = pushed /\ torn' = torn
      BY <2>2, <2>3, AccessIs
    <2>5. todo' = Poll(chip.addr, sample.count)
      BY <2>1, <2>2, AccessIs DEF Rest, Read
    <2>6. IsPoll(todo', chip.addr, sample.count)
      <3>1. chip.addr \in 0 .. FifoSize - 1 /\ sample.count \in Nat
        BY DEF SampleInv, ChipInv, Reads
      <3> QED
        BY <2>5, <3>1, PollIs
    <2>7. Locating'
      BY <1>2, <2>3, <2>4, <2>6 DEF Locating, NotTaken, Located
    <2> QED
      BY <2>4, <2>7 DEF Polling
  <1>3. CASE IsPoll(todo, sample.addr, sample.count) /\ Located
    <2>1. sample.addr \in 0 .. FifoSize - 1 /\ sample.count \in Nat
      BY DEF SampleInv, Reads
    <2>2. PICK a \in Accesses : a = Write("ptr", sample.addr)
      BY <2>1, PollWords DEF PollAccesses
    <2>3. a = todo[1] /\ IsFetch(Tail(todo), sample.count)
      BY <1>3, <2>2 DEF IsPoll
    <2>4. a.kind = "write" /\ a.register = "ptr" /\ a.value = sample.addr
      BY <2>2 DEF Write
    <2>5. todo' = Tail(todo)
      BY <2>3, <2>4, AccessIs DEF Rest
    <2>6. sample' = sample
      <3>1. Keep(a) = sample
        BY <2>4 DEF Keep
      <3> QED
        BY <2>3, <3>1, AccessIs
    <2>7. chip'.ptr = sample.addr
      <3>1. DOMAIN chip = Registers /\ chip' = Effect(a)
        BY <2>3, AccessIs
      <3>2. Effect(a)["ptr"] = sample.addr
        BY <2>4, <3>1, EffectIs
      <3> QED
        BY <3>1, <3>2
    <2>8. SampleInv' /\ pushed' = pushed /\ torn' = torn
      <3>1. Keep(a).of = 0
        BY <2>4 DEF Keep, Locating
      <3> QED
        BY <2>3, <3>1, AccessIs
    <2>9. /\ chip'.addr = chip.addr /\ chip'.count = chip.count /\ chip'.of = chip.of
      BY <2>3, AccessIs
    <2>10. Fetched(0)'
      <3>1. ASSUME ~torn PROVE chip'.ptr = (chip'.addr + 0) % FifoSize
        <4>1. chip.addr = sample.addr
          BY <1>3, <3>1 DEF Located
        <4>2. sample.addr = (sample.addr + 0) % FifoSize
          <5>1. PICK x \in 0 .. FifoSize - 1 : x = sample.addr
            BY <2>1
          <5>2. x + 0 = x /\ x % FifoSize = x
            BY FifoAssumption
          <5> QED
            BY <5>1, <5>2
        <4> QED
          BY <2>7, <2>9, <4>1, <4>2
      <3>2. sample'.bytes = [i \in 1 .. 0 |-> <<chip'.of, i - 1>>]
        BY <2>6 DEF Locating
      <3> QED
        BY <2>8, <3>1, <3>2 DEF Fetched
    <2>11. Fetching'
      <3>1. sample.count \in 0 .. sample'.count /\ sample'.count - sample.count = 0
        BY <2>1, <2>6
      <3>2. IsFetch(todo', sample.count)
        BY <2>3, <2>5
      <3>5. torn' \/ /\ chip'.ptr = (chip'.addr + (sample'.count - sample.count)) % FifoSize
                     /\ sample'.bytes = [i \in 1 .. sample'.count - sample.count |-> <<chip'.of, i - 1>>]
        BY <2>10, <3>1 DEF Fetched
      <3>3. Located'
        BY <1>3, <2>6, <2>8, <2>9 DEF Located
      <3>4. chip'.of # 0 /\ NotTaken(chip.of)' /\ sample'.of = 0
        BY <2>6, <2>8, <2>9 DEF Locating, NotTaken
      <3> QED
        BY <3>1, <3>2, <3>3, <3>4, <3>5 DEF Fetching, Fetched, NotTaken
    <2> QED
      BY <2>8, <2>11 DEF Polling
  <1> QED
    BY <1>1, <1>2, <1>3 DEF Locating

(* ... read byte by byte ...                                               *)
LEMMA FetchingStep ==
    ASSUME SampleInv, Fetching, Access
    PROVE  SampleInv' /\ Polling'
  <1>1. PICK r \in 0 .. sample.count : IsFetch(todo, r) /\ Fetched(sample.count - r)
    BY DEF Fetching
  <1>2. sample.count \in Nat /\ r \in Nat
    BY DEF SampleInv, Reads
  <1>3. /\ todo # <<>> /\ todo[1] = (IF r = 0 THEN Read("of") ELSE Read("fifo"))
        /\ r > 0 => IsFetch(Tail(todo), r - 1)
        /\ r = 0 => Tail(todo) = <<Write("done", FALSE)>>
    BY <1>1, <1>2, FetchTail
  <1>4. CASE r > 0
    <2>1. PICK a \in Accesses : a = Read("fifo")
      BY PollWords DEF PollAccesses
    <2>2. a = todo[1] /\ a.kind = "read" /\ a.register = "fifo"
      BY <1>3, <1>4, <2>1 DEF Read
    <2>3. todo' = Tail(todo)
      BY <2>2, AccessIs DEF Rest
    <2>4. /\ Keep(a).bytes = Append(sample.bytes, chip.fifo[chip.ptr])
          /\ Keep(a).count = sample.count /\ Keep(a).addr = sample.addr /\ Keep(a).of = sample.of
      BY <2>2, KeepIs DEF SampleInv
    <2>5. /\ sample' = Keep(a) /\ chip' = Effect(a) /\ torn' = torn
          /\ chip'.addr = chip.addr /\ chip'.count = chip.count /\ chip'.of = chip.of
          /\ DOMAIN chip = Registers
      BY <2>2, AccessIs
    <2>6. SampleInv' /\ pushed' = pushed
      BY <2>2, <2>4, AccessIs DEF Fetching
    <2>7. chip'.ptr = (chip.ptr + 1) % FifoSize
      BY <2>2, <2>5, EffectIs
    <2>8. PICK k \in Nat : k = sample.count - r
      BY <1>2
    <2>9. ASSUME ~torn
          PROVE  /\ chip'.ptr = (chip.addr + (k + 1)) % FifoSize
                 /\ sample'.bytes = [i \in 1 .. k + 1 |-> <<chip.of, i - 1>>]
      <3>1. /\ chip.ptr = (chip.addr + k) % FifoSize
            /\ sample.bytes = [i \in 1 .. k |-> <<chip.of, i - 1>>]
        BY <1>1, <2>8, <2>9 DEF Fetched
      <3>2. PICK x \in Int : x = chip.addr + k
        <4>1. chip.addr \in Int
          BY FifoAssumption DEF SampleInv, ChipInv
        <4> QED
          BY <4>1
      <3>3. PICK y \in 0 .. FifoSize - 1 : y = x % FifoSize
        BY FifoAssumption
      <3>4. (y + 1) % FifoSize = (x + 1) % FifoSize
        <4>1. y % FifoSize = y /\ y \in Int
          BY FifoAssumption
        <4>2. y % FifoSize = x % FifoSize
          BY <3>3, <4>1
        <4> QED
          BY <4>1, <4>2, NextRemainder, FifoAssumption
      <3>5. chip'.ptr = (chip.addr + (k + 1)) % FifoSize
        <4>1. x + 1 = chip.addr + (k + 1)
          <5>1. chip.addr \in Int
            BY FifoAssumption DEF SampleInv, ChipInv
          <5> QED
            BY <3>2, <5>1
        <4> QED
          BY <2>7, <3>1, <3>2, <3>3, <3>4, <4>1
      <3>6. chip.fifo[chip.ptr] = <<chip.of, k>>
        <4>1. chip.count = sample.count /\ chip.count = Lengths[chip.of] /\ chip.of # 0
          BY <2>9 DEF Fetching, Located, SampleInv, ChipInv, HoldsPacket
        <4>2. k \in 0 .. Lengths[chip.of] - 1
          BY <1>2, <1>4, <2>8, <4>1
        <4>3. chip.fifo[(chip.addr + k) % FifoSize] = <<chip.of, k>>
          BY <4>1, <4>2 DEF SampleInv, ChipInv, HoldsPacket
        <4> QED
          BY <3>1, <4>3
      <3>7. sample'.bytes = [i \in 1 .. k + 1 |-> <<chip.of, i - 1>>]
        <4>1. PICK p \in Nat : p = chip.of
          BY DEF SampleInv, ChipInv
        <4>2. PICK b : b = [i \in 1 .. k |-> <<p, i - 1>>]
          OBVIOUS
        <4>3. b \in Seq(Cells) /\ Len(b) = k /\ \A i \in 1 .. k : b[i] = <<p, i - 1>>
          <5>1. \A i \in 1 .. k : <<p, i - 1>> \in Cells
            BY DEF Cells
          <5>2. b \in [1 .. k -> Cells]
            BY <4>2, <5>1
          <5>3. b \in Seq(Cells)
            BY <5>2, SeqDef
          <5> QED
            BY <4>2, <5>2, <5>3
        <4>4. PICK cell \in Cells : cell = <<p, k>>
          BY DEF Cells
        <4>5. PICK d : d = Append(b, cell)
          OBVIOUS
        <4>6. /\ d \in Seq(Cells) /\ Len(d) = k + 1
              /\ \A i \in 1 .. k : d[i] = b[i]
              /\ d[k + 1] = cell
          BY <4>3, <4>5, AppendProperties
        <4>7. \A i \in 1 .. k + 1 : d[i] = <<p, i - 1>>
          <5> SUFFICES ASSUME NEW i \in 1 .. k + 1 PROVE d[i] = <<p, i - 1>>
            OBVIOUS
          <5>1. CASE i = k + 1
            <6>1. i - 1 = k
              BY <5>1
            <6> QED
              <7>1. d[i] = cell
                BY <4>6, <5>1
              <7>2. <<p, i - 1>> = <<p, k>>
                BY <6>1
              <7> QED
                BY <4>4, <7>1, <7>2, Zenon
          <5>2. CASE i \in 1 .. k
            BY <4>3, <4>6, <5>2
          <5> QED
            BY <5>1, <5>2
        <4>8. d = [i \in 1 .. k + 1 |-> <<p, i - 1>>]
          <5>1. DOMAIN d = 1 .. k + 1 /\ d \in [1 .. k + 1 -> Cells]
            BY <4>6, LenProperties
          <5> QED
            BY <4>7, <5>1
        <4> QED
          <5>1. sample.bytes = b /\ chip.fifo[chip.ptr] = cell
            BY <3>1, <3>6, <4>1, <4>2, <4>4
          <5>2. sample'.bytes = d
            BY <2>4, <2>5, <4>5, <5>1
          <5> QED
            BY <4>1, <4>8, <5>2
      <3> QED
        BY <3>5, <3>7
    <2>10. Fetching'
      <3>1. r - 1 \in 0 .. sample'.count /\ sample'.count - (r - 1) = k + 1
        BY <1>2, <1>4, <2>4, <2>5, <2>8
      <3>2. IsFetch(todo', r - 1)
        BY <1>3, <1>4, <2>3
      <3>3. Located'
        BY <2>4, <2>5 DEF Fetching, Located
      <3>4. chip'.of # 0 /\ NotTaken(chip.of)' /\ sample'.of = 0
        BY <2>4, <2>5, <2>6 DEF Fetching, NotTaken
      <3>5. torn' \/ /\ chip'.ptr = (chip'.addr + (sample'.count - (r - 1))) % FifoSize
                     /\ sample'.bytes = [i \in 1 .. sample'.count - (r - 1) |-> <<chip'.of, i - 1>>]
        BY <2>5, <2>9, <3>1
      <3>6. PICK n : n = r - 1
        OBVIOUS
      <3> QED
        BY <3>1, <3>2, <3>3, <3>4, <3>5, <3>6 DEF Fetching, Fetched, NotTaken
    <2> QED
      BY <2>6, <2>10 DEF Polling
  <1>5. CASE r = 0
    <2>1. PICK a \in Accesses : a = Read("of")
      BY PollWords DEF PollAccesses
    <2>2. a = todo[1]
      BY <1>3, <1>5, <2>1
    <2>3. /\ chip' = chip /\ sample'.of = chip.of /\ sample'.bytes = sample.bytes
      BY <2>1, <2>2, ReadIs
    <2>4. todo' = <<Write("done", FALSE)>> /\ Rest(a) # <<>> /\ torn' = torn
      <3>1. Rest(a) = Tail(todo)
        BY <2>1 DEF Rest, Read
      <3>2. PICK x \in PollAccesses : x = Write("done", FALSE)
        BY PollWords
      <3>3. <<x>> # <<>>
        OBVIOUS
      <3>4. Tail(todo) = <<x>>
        BY <1>3, <1>5, <3>2
      <3>5. todo' = Rest(a) /\ torn' = torn
        BY <2>2, AccessIs
      <3> QED
        BY <3>1, <3>2, <3>3, <3>4, <3>5
    <2>5. SampleInv' /\ pushed' = pushed
      BY <2>2, <2>4, AccessIs
    <2>6. chip.of \in Nat \ {0}
      BY DEF Fetching, SampleInv, ChipInv
    <2>7. torn \/ sample.bytes = Whole(chip.of)
      <3>1. ASSUME ~torn PROVE sample.bytes = Whole(chip.of)
        <4>1. chip.count = sample.count /\ chip.count = Lengths[chip.of]
          BY <2>6, <3>1 DEF Fetching, Located, SampleInv, ChipInv, HoldsPacket
        <4>2. sample.count - r = Lengths[chip.of]
          BY <1>2, <1>5, <4>1
        <4> QED
          BY <1>1, <3>1, <4>2 DEF Fetched, Whole
      <3> QED
        BY <3>1
    <2>8. Ending'
      BY <2>3, <2>4, <2>5, <2>6, <2>7 DEF Ending, Whole, NotTaken, Fetching
    <2> QED
      BY <2>5, <2>8 DEF Polling
  <1> QED
    BY <1>2, <1>4, <1>5

(* ... and pushed, its flag cleared.                                       *)
LEMMA EndingStep ==
    ASSUME SampleInv, Ending, Access
    PROVE  SampleInv' /\ todo' = <<>>
  <1>1. PICK a \in Accesses : a = Write("done", FALSE)
    BY PollWords DEF PollAccesses
  <1>2. a = todo[1] /\ a.kind = "write" /\ a.register = "done" /\ a.value = FALSE
    BY <1>1 DEF Ending, Write
  <1>3. todo' = <<>>
    <2>1. todo' = Tail(todo)
      BY <1>2, AccessIs DEF Rest
    <2>2. Tail(<<a>>) = <<>>
      OBVIOUS
    <2> QED
      BY <1>1, <2>1, <2>2 DEF Ending
  <1>4. sample' = sample
    <2>1. Keep(a) = sample
      BY <1>2 DEF Keep
    <2> QED
      BY <1>2, <2>1, AccessIs
  <1>5. /\ chip' = Effect(a) /\ DOMAIN chip = Registers /\ chip'.of = chip.of /\ torn' = torn
        /\ radio' = radio
    BY <1>2, AccessIs DEF Access
  <1>6. chip'.done = FALSE
    BY <1>2, <1>5, EffectIs
  <1>7. ChipInv(chip', radio'.packets)
    BY <1>5, EffectKeepsChip DEF SampleInv
  <1> DEFINE s == [bytes |-> sample.bytes, of |-> sample.of, torn |-> torn]
  <1>8. ring' = PushSample(s) /\ pushed' = Append(pushed, s)
    <2>1. sample'.of # 0 /\ todo' = <<>>
      BY <1>3, <1>4 DEF Ending
    <2>2. [bytes |-> sample'.bytes, of |-> sample'.of, torn |-> torn] = s
      BY <1>4
    <2> QED
      BY <2>1, <2>2 DEF Access, Finish
  <1>9. s \in RawSamples
    BY DEF SampleInv, Reads, RawSamples
  <1>10. /\ s.bytes = sample.bytes /\ s.of = sample.of /\ s.torn = torn
    OBVIOUS
  <1> HIDE DEF s
  <1>11. /\ ring'.samples \in Seq(RawSamples) /\ pushed' \in Seq(RawSamples)
         /\ RingHolds(ring', pushed')
    <2>1. /\ RingHolds(PushSample(s), Append(pushed, s))
          /\ PushSample(s).samples \in Seq(RawSamples) /\ Append(pushed, s) \in Seq(RawSamples)
      BY <1>9, PushKeepsRing DEF SampleInv
    <2> QED
      BY <1>8, <2>1
  <1>12. PICK n \in Nat : n = Len(pushed)
    BY LenProperties DEF SampleInv
  <1>13. /\ DOMAIN pushed = 1 .. n /\ DOMAIN pushed' = 1 .. n + 1
         /\ pushed'[n + 1] = s /\ \A i \in 1 .. n : pushed'[i] = pushed[i]
    <2>1. /\ Append(pushed, s) \in Seq(RawSamples) /\ Len(Append(pushed, s)) = n + 1
          /\ Append(pushed, s)[n + 1] = s
          /\ \A i \in 1 .. n : Append(pushed, s)[i] = pushed[i]
      BY <1>9, <1>12, AppendProperties DEF SampleInv
    <2>2. DOMAIN pushed = 1 .. n /\ DOMAIN Append(pushed, s) = 1 .. n + 1
      BY <1>12, <2>1, LenProperties DEF SampleInv
    <2> QED
      BY <1>8, <2>1, <2>2
  <1>14. \A i \in 1 .. n : pushed[i].of \in Nat /\ pushed[i].of < s.of
    <2>1. \A i \in 1 .. n : pushed[i] \in RawSamples
      BY <1>12, ElementOfSeq DEF SampleInv
    <2> QED
      BY <1>10, <1>13, <2>1 DEF Ending, NotTaken, RawSamples
  <1>15. s.of \in 1 .. chip.of /\ chip.of \in Nat /\ (s.torn \/ s.bytes = Whole(s.of))
    BY <1>10 DEF Ending, SampleInv, ChipInv
  <1>16. PushedInv'
    <2>1. ASSUME NEW i \in 1 .. n + 1
          PROVE  /\ pushed'[i].torn \/ pushed'[i].bytes = Whole(pushed'[i].of)
                 /\ pushed'[i].of <= chip'.of
      <3>1. CASE i = n + 1
        BY <1>5, <1>13, <1>15, <3>1
      <3>2. CASE i \in 1 .. n
        BY <1>5, <1>13, <3>2 DEF SampleInv, PushedInv, SamplesAreWhole, Whole
      <3> QED
        BY <3>1, <3>2
    <2>2. ASSUME NEW i \in 1 .. n + 1, NEW j \in 1 .. n + 1, i < j
          PROVE  pushed'[i].of < pushed'[j].of
      <3>1. CASE j = n + 1
        BY <1>13, <1>14, <2>2, <3>1
      <3>2. CASE j \in 1 .. n
        BY <1>13, <2>2, <3>2 DEF SampleInv, PushedInv, SamplesAreWhole
      <3> QED
        BY <3>1, <3>2
    <2> QED
      BY <1>6, <1>13, <2>1, <2>2 DEF PushedInv, SamplesAreWhole, Whole
  <1>17. sample' \in Reads /\ torn' \in BOOLEAN /\ radio' \in [packets : Nat, faults : Nat, calls : Nat]
    BY <1>4, <1>5 DEF SampleInv
  <1> QED
    BY <1>3, <1>7, <1>11, <1>16, <1>17 DEF SampleInv

\* The chip c has on air a config of configs, at its frequency unless it was tuned.
AsAsked(c, configs, tuned) ==
    c.mode = "transmit" =>
        \E k \in configs :
            /\ c.pa = Pa(k.dbm) /\ c.dac = BoostDac(k.dbm)
            /\ tuned \/ (c.high = k.freq /\ c.low = k.freq)

\* The call in progress tunes, ...
Tuning == retuned /\ sample.of = 0 /\ todo \in Seq(TuneAccesses)

\* ... leaves the chip silent, its first access sees to that, ...
Silencing ==
    /\ sample.of = 0 /\ todo \in Seq(SilentAccesses) /\ todo # <<>>
    /\ chip.mode # "transmit" \/ Sets(todo[1], "mode")

\* The carrier k has n - 1 of its accesses behind it.
Begun(k, n) ==
    /\ todo = SubSeq(Carrier(k), n, 7)
    /\ n > 1 => chip.mode # "transmit"
    /\ n > 2 => chip.high = k.freq
    /\ n > 3 => chip.low = k.freq
    /\ n > 4 => chip.pa = Pa(k.dbm)
    /\ n > 5 => chip.dac = BoostDac(k.dbm)

\* ... or brings a carrier on air.
Beginning == sample.of = 0 /\ \E k \in began : \E n \in 1 .. 7 : Begun(k, n)

(* Which call is in progress, and how far it is.                           *)
InCall == todo = <<>> \/ Polling \/ Tuning \/ Silencing \/ Beginning

SxInv ==
    /\ SampleInv
    /\ began \subseteq Carriers /\ retuned \in BOOLEAN
    /\ TransmitsAsAsked
    /\ InCall

\* The next access leaves on air what was asked for, or nothing, whether the call
\* goes on after it or not.
NextIsAsAsked ==
    todo[1] \in Accesses /\ AsAsked(Effect(todo[1]), began, retuned /\ ~OnAir(todo[1]))

(* What the next access leaves in the registers of the transmitter.        *)
LEMMA RegisterAfter ==
    ASSUME SampleInv, NEW a \in Accesses, NEW r \in {"mode", "high", "low", "pa", "dac"}
    PROVE  Effect(a)[r] = IF Sets(a, r) THEN a.value ELSE chip[r]
  <1>1. DOMAIN chip = Registers
    BY DEF SampleInv, ChipInv
  <1>2. r \in Registers /\ r # "next" /\ r # "ptr"
    BY DEF Registers
  <1>3. CASE Sets(a, r)
    BY <1>1, <1>3, EffectIs DEF Sets
  <1>4. CASE ~Sets(a, r)
    BY <1>1, <1>2, <1>4, EffectIs
  <1> QED
    BY <1>3, <1>4

(* A write of a call that is no poll: the call goes on with what is left.  *)
LEMMA WriteIs ==
    ASSUME SampleInv, sample.of = 0, Access, NEW a \in Accesses, a = todo[1], a.kind = "write"
    PROVE  SampleInv' /\ chip' = Effect(a) /\ sample' = sample /\ todo' = Tail(todo)
  <1>1. Keep(a) = sample /\ Rest(a) = Tail(todo)
    BY DEF Keep, Rest
  <1> QED
    BY <1>1, AccessIs

(* Tuning changes nothing but the frequency, ...                           *)
LEMMA TuneKeeps ==
    ASSUME SxInv, Tuning, todo # <<>>
    PROVE  NextIsAsAsked /\ (Access => SampleInv' /\ InCall')
  <1>1. PICK a \in TuneAccesses : a = todo[1]
    <2>1. Len(todo) \in Nat \ {0}
      BY EmptySeq DEF Tuning
    <2>2. todo[1] \in TuneAccesses
      BY <2>1, ElementOfSeq DEF Tuning
    <2> QED
      BY <2>2
  <1>2. a \in Accesses /\ a.kind = "write" /\ a.register \in {"high", "low"}
    BY DEF TuneAccesses
  <1>3. Effect(a).mode = chip.mode /\ Effect(a).pa = chip.pa /\ Effect(a).dac = chip.dac
    <2>1. ~Sets(a, "mode") /\ ~Sets(a, "pa") /\ ~Sets(a, "dac")
      BY <1>2 DEF Sets
    <2>2. \A r \in {"mode", "pa", "dac"} : Effect(a)[r] = chip[r]
      BY <1>2, <2>1, RegisterAfter DEF SxInv
    <2> QED
      BY <2>2
  <1>4. retuned /\ ~OnAir(a)
    BY <1>2 DEF Tuning, OnAir
  <1>5. NextIsAsAsked
    BY <1>1, <1>2, <1>3, <1>4 DEF NextIsAsAsked, AsAsked, SxInv, TransmitsAsAsked
  <1>6. ASSUME Access PROVE SampleInv' /\ InCall'
    <2>1. SampleInv' /\ sample' = sample /\ todo' = Tail(todo)
      BY <1>1, <1>2, <1>6, WriteIs DEF SxInv, Tuning
    <2>2. Tail(todo) \in Seq(TuneAccesses)
      BY HeadTailProperties DEF Tuning
    <2>3. retuned'
      BY <1>1, <1>4, <1>6 DEF Access
    <2> QED
      BY <2>1, <2>2, <2>3 DEF InCall, Tuning
  <1> QED
    BY <1>5, <1>6

(* ... a call of another kind silences the transmitter first and keeps it  *)
(* silent, ...                                                             *)
LEMMA SilenceKeeps ==
    ASSUME SxInv, Silencing
    PROVE  NextIsAsAsked /\ (Access => SampleInv' /\ InCall')
  <1>1. PICK a \in SilentAccesses : a = todo[1]
    <2>1. Len(todo) \in Nat \ {0}
      BY EmptySeq DEF Silencing
    <2>2. todo[1] \in SilentAccesses
      BY <2>1, ElementOfSeq DEF Silencing
    <2> QED
      BY <2>2
  <1>2. a \in Accesses /\ a.kind = "write"
    BY DEF SilentAccesses
  <1>3. Effect(a).mode # "transmit"
    <2>1. Effect(a)["mode"] = IF Sets(a, "mode") THEN a.value ELSE chip["mode"]
      BY <1>2, RegisterAfter DEF SxInv
    <2>2. Sets(a, "mode") => a.value # "transmit"
      BY DEF Sets, SilentAccesses
    <2> QED
      BY <1>1, <2>1, <2>2 DEF Silencing
  <1>4. NextIsAsAsked
    BY <1>1, <1>2, <1>3 DEF NextIsAsAsked, AsAsked
  <1>5. ASSUME Access PROVE SampleInv' /\ InCall'
    <2>1. SampleInv' /\ sample' = sample /\ todo' = Tail(todo) /\ chip' = Effect(a)
      BY <1>1, <1>2, <1>5, WriteIs DEF SxInv, Silencing
    <2>2. Tail(todo) \in Seq(SilentAccesses)
      BY HeadTailProperties DEF Silencing
    <2> QED
      BY <1>3, <2>1, <2>2 DEF InCall, Silencing
  <1> QED
    BY <1>4, <1>5

(* ... and a poll does not touch it.                                       *)
LEMMA PollKeeps ==
    ASSUME SxInv, Polling
    PROVE  NextIsAsAsked /\ (Access => SampleInv' /\ InCall')
  <1>1. PICK a \in PollAccesses : a = todo[1]
    <2>1. CASE Asking
      BY <2>1, PollWords DEF Asking
    <2>2. CASE Locating
      <3>1. sample.addr \in 0 .. FifoSize - 1
        BY DEF SxInv, SampleInv, Reads
      <3>2. CASE todo = <<Read("count"), Read("addr")>>
        BY <3>2, PollWords
      <3>3. CASE todo = <<Read("addr")>>
        BY <3>3, PollWords
      <3>4. CASE IsPoll(todo, sample.addr, sample.count)
        BY <3>1, <3>4, PollWords DEF IsPoll
      <3> QED
        BY <2>2, <3>2, <3>3, <3>4 DEF Locating
    <2>3. CASE Fetching
      <3>1. PICK r \in 0 .. sample.count : IsFetch(todo, r)
        BY <2>3 DEF Fetching
      <3>2. r \in Nat
        BY DEF SxInv, SampleInv, Reads
      <3>3. todo[1] = IF r = 0 THEN Read("of") ELSE Read("fifo")
        BY <3>1, <3>2, FetchTail
      <3> QED
        BY <3>3, PollWords
    <2>4. CASE Ending
      BY <2>4, PollWords DEF Ending
    <2> QED
      BY <2>1, <2>2, <2>3, <2>4 DEF Polling
  <1>2. a \in Accesses /\ \A r \in {"mode", "high", "low", "pa", "dac"} : ~Sets(a, r)
    BY DEF PollAccesses, Sets
  <1>3. \A r \in {"mode", "high", "low", "pa", "dac"} : Effect(a)[r] = chip[r]
    BY <1>2, RegisterAfter DEF SxInv
  <1>4. ~OnAir(a)
    BY DEF OnAir, PollAccesses, Accesses
  <1>5. NextIsAsAsked
    <2>1. /\ Effect(a).mode = chip.mode /\ Effect(a).high = chip.high /\ Effect(a).low = chip.low
          /\ Effect(a).pa = chip.pa /\ Effect(a).dac = chip.dac
      BY <1>3
    <2> QED
      BY <1>1, <1>2, <1>4, <2>1 DEF NextIsAsAsked, AsAsked, SxInv, TransmitsAsAsked
  <1>6. ASSUME Access PROVE SampleInv' /\ InCall'
    BY <1>6, AskingStep, LocatingStep, FetchingStep, EndingStep DEF SxInv, Polling, InCall
  <1> QED
    BY <1>5, <1>6

(* A carrier goes on air after all of its registers are written.           *)
LEMMA BeginKeeps ==
    ASSUME SxInv, Beginning
    PROVE  NextIsAsAsked /\ (Access => SampleInv' /\ InCall')
  <1>1. PICK k \in began, n \in 1 .. 7 : Begun(k, n)
    BY DEF Beginning
  <1>2. k \in Carriers
    BY DEF SxInv
  <1>3. PICK s \in Seq(Accesses) :
            /\ s = Carrier(k) /\ Len(s) = 7
            /\ s[1] = Write("mode", "sleep") /\ s[2] = Write("high", k.freq)
            /\ s[3] = Write("low", k.freq) /\ s[4] = Write("pa", Pa(k.dbm))
            /\ s[5] = Write("dac", BoostDac(k.dbm)) /\ s[6] = Write("mode", "standby")
            /\ s[7] = Write("mode", "transmit")
    BY <1>2, CallsAre
  <1>4. todo = SubSeq(s, n, 7) /\ todo[1] = s[n] /\ Tail(todo) = SubSeq(s, n + 1, 7)
    <2>1. n \in 1 .. Len(s) /\ 7 \in n .. Len(s)
      BY <1>3
    <2>2. Tail(SubSeq(s, n, 7)) = SubSeq(s, n + 1, 7)
      BY <2>1, HeadTailOfSubSeq
    <2>3. SubSeq(s, n, 7)[1] = s[n]
      <3>1. ASSUME NEW i \in n .. 7 PROVE s[i] \in Accesses
        <4>1. i \in 1 .. Len(s)
          BY <1>3
        <4> QED
          BY <4>1, ElementOfSeq
      <3>2. \A i \in 1 .. 7 - n + 1 : SubSeq(s, n, 7)[i] = s[n + i - 1]
        BY <3>1, SubSeqProperties
      <3>3. 1 \in 1 .. 7 - n + 1 /\ n + 1 - 1 = n
        OBVIOUS
      <3> QED
        BY <3>2, <3>3
    <2> QED
      BY <1>1, <1>3, <2>2, <2>3 DEF Begun
  <1>5. PICK a \in Accesses : a = s[n] /\ a = todo[1]
    <2>1. n \in 1 .. Len(s)
      BY <1>3
    <2>2. s[n] \in Accesses
      BY <2>1, ElementOfSeq
    <2> QED
      BY <1>4, <2>2
  <1>6. a.kind = "write"
    <2>1. \A i \in 1 .. 7 : s[i].kind = "write"
      <3>1. \A i \in 1 .. 7 : i \in {1, 2, 3, 4, 5, 6, 7}
        OBVIOUS
      <3>2. \A i \in {1, 2, 3, 4, 5, 6, 7} : s[i].kind = "write"
        BY <1>3 DEF Write
      <3> QED
        BY <3>1, <3>2
    <2> QED
      BY <1>5, <2>1
  <1>7. PICK e : e = Effect(a)
    OBVIOUS
  <1>8. /\ e.mode = IF Sets(a, "mode") THEN a.value ELSE chip.mode
        /\ e.high = IF Sets(a, "high") THEN a.value ELSE chip.high
        /\ e.low = IF Sets(a, "low") THEN a.value ELSE chip.low
        /\ e.pa = IF Sets(a, "pa") THEN a.value ELSE chip.pa
        /\ e.dac = IF Sets(a, "dac") THEN a.value ELSE chip.dac
    <2>1. \A r \in {"mode", "high", "low", "pa", "dac"} :
              e[r] = IF Sets(a, r) THEN a.value ELSE chip[r]
      BY <1>7, RegisterAfter DEF SxInv
    <2> QED
      BY <2>1
  \* What the chip holds after it.
  <1>9. /\ n < 7 => e.mode # "transmit"
        /\ n + 1 > 2 => e.high = k.freq
        /\ n + 1 > 3 => e.low = k.freq
        /\ n + 1 > 4 => e.pa = Pa(k.dbm)
        /\ n + 1 > 5 => e.dac = BoostDac(k.dbm)
    <2>1. CASE n = 1
      BY <1>1, <1>3, <1>5, <1>8, <2>1 DEF Begun, Write, Sets
    <2>2. CASE n = 2
      BY <1>1, <1>3, <1>5, <1>8, <2>2 DEF Begun, Write, Sets
    <2>3. CASE n = 3
      BY <1>1, <1>3, <1>5, <1>8, <2>3 DEF Begun, Write, Sets
    <2>4. CASE n = 4
      BY <1>1, <1>3, <1>5, <1>8, <2>4 DEF Begun, Write, Sets
    <2>5. CASE n = 5
      BY <1>1, <1>3, <1>5, <1>8, <2>5 DEF Begun, Write, Sets
    <2>6. CASE n = 6
      BY <1>1, <1>3, <1>5, <1>8, <2>6 DEF Begun, Write, Sets
    <2>7. CASE n = 7
      BY <1>1, <1>3, <1>5, <1>8, <2>7 DEF Begun, Write, Sets
    <2> QED
      BY <2>1, <2>2, <2>3, <2>4, <2>5, <2>6, <2>7
  <1>10. NextIsAsAsked
    <2>1. AsAsked(e, began, retuned /\ ~OnAir(a))
      BY <1>9 DEF AsAsked
    <2> QED
      BY <1>5, <1>7, <2>1 DEF NextIsAsAsked
  <1>11. ASSUME Access PROVE SampleInv' /\ InCall'
    <2>1. /\ SampleInv' /\ sample' = sample /\ todo' = SubSeq(s, n + 1, 7) /\ chip' = e
          /\ began' = began
      BY <1>4, <1>5, <1>6, <1>7, <1>11, WriteIs DEF SxInv, Beginning, Access
    <2>2. CASE n = 7
      <3>1. SubSeq(s, 8, 7) = <<>>
        BY SubSeqEmpty
      <3> QED
        BY <2>1, <2>2, <3>1 DEF InCall
    <2>3. CASE n # 7
      <3>1. PICK m \in 1 .. 7 : m = n + 1
        BY <2>3
      <3>2. Begun(k, m)'
        BY <1>3, <1>9, <2>1, <2>3, <3>1 DEF Begun
      <3> QED
        BY <2>1, <3>1, <3>2 DEF InCall, Beginning
    <2> QED
      BY <2>1, <2>2, <2>3
  <1> QED
    BY <1>10, <1>11

(* A call begins.                                                          *)
LEMMA CallKeeps ==
    ASSUME SxInv, NEW s, Call(s)
    PROVE  SampleInv' /\ chip' = chip /\ sample' = NoSample /\ todo' = s /\ pushed' = pushed
  <1>1. /\ radio' \in [packets : Nat, faults : Nat, calls : Nat]
        /\ radio'.packets = radio.packets
    BY DEF SxInv, SampleInv, Call
  <1>2. NoSample \in Reads
    <2>1. 0 \in 0 .. FifoSize - 1 /\ <<>> \in Seq(Cells)
      BY FifoAssumption, EmptySeq
    <2> QED
      BY <2>1 DEF NoSample, Reads
  <1>3. UNCHANGED <<chip, ring, pushed>> /\ torn' = FALSE /\ sample' = NoSample /\ todo' = s
    BY DEF Call
  <1>4. PushedInv'
    BY <1>3 DEF SxInv, SampleInv, PushedInv, NotTaken, SamplesAreWhole
  <1>5. RingHolds(ring, pushed)'
    BY <1>3 DEF SxInv, SampleInv, RingHolds, RingHas
  <1>6. ChipInv(chip', radio'.packets)
    BY <1>1, <1>3 DEF SxInv, SampleInv
  <1> QED
    BY <1>1, <1>2, <1>3, <1>4, <1>5, <1>6 DEF SxInv, SampleInv

(* The bus fails before or after the access.                               *)
LEMMA FaultKeeps ==
    ASSUME SxInv, SpiFault
    PROVE  SxInv'
  <1>1. NextIsAsAsked
    BY TuneKeeps, SilenceKeeps, PollKeeps, BeginKeeps DEF SxInv, InCall, SpiFault
  <1>2. PICK a \in Accesses : a = todo[1] /\ AsAsked(Effect(a), began, retuned /\ ~OnAir(a))
    BY <1>1 DEF NextIsAsAsked
  <1>3. /\ chip' = chip \/ chip' = Effect(a)
        /\ todo' = <<>> /\ UNCHANGED <<sample, ring, began, retuned, torn, pushed>>
    BY <1>2 DEF SpiFault
  <1>4. radio' \in [packets : Nat, faults : Nat, calls : Nat] /\ radio'.packets = radio.packets
    BY DEF SpiFault, SxInv, SampleInv
  <1>5. SampleInv'
    <2>1. CASE chip' = chip
      BY <1>3, <1>4, <2>1
      DEF SxInv, SampleInv, PushedInv, NotTaken, SamplesAreWhole, RingHolds, RingHas
    <2>2. CASE chip' = Effect(a)
      BY <1>3, <1>4, <2>2, NothingPushed DEF SxInv, SampleInv
    <2> QED
      BY <1>3, <2>1, <2>2
  <1>6. AsAsked(chip', began, retuned)
    <2>1. CASE chip' = chip
      BY <2>1 DEF SxInv, TransmitsAsAsked, AsAsked
    <2>2. CASE chip' = Effect(a)
      <3>1. AsAsked(chip', began, retuned /\ ~OnAir(a))
        BY <1>2, <2>2
      <3> QED
        BY <3>1 DEF AsAsked
    <2> QED
      BY <1>3, <2>1, <2>2
  <1> QED
    BY <1>3, <1>5, <1>6 DEF SxInv, InCall, AsAsked, TransmitsAsAsked

(* A packet comes in, also in the middle of a poll.                        *)
LEMMA ReceiveKeeps ==
    ASSUME SxInv, Receive
    PROVE  SxInv'
  <1>1. /\ ChipInv(chip', radio'.packets) /\ radio'.packets = radio.packets + 1
        /\ chip'.of = radio'.packets /\ chip'.done = TRUE
        /\ \A r \in {"mode", "high", "low", "pa", "dac"} : chip'[r] = chip[r]
    BY ReceiveKeepsChip DEF SxInv, SampleInv
  <1>2. /\ torn' = TRUE /\ UNCHANGED <<todo, sample, ring, began, retuned, pushed>>
        /\ radio' \in [packets : Nat, faults : Nat, calls : Nat]
    <2>1. radio' = [radio EXCEPT !.packets = radio.packets + 1]
      BY DEF Receive
    <2> QED
      BY <2>1 DEF Receive, SxInv, SampleInv
  <1>3. chip.of \in Nat /\ chip'.of \in Nat /\ chip.of < chip'.of
    BY <1>1 DEF SxInv, SampleInv, ChipInv
  <1>4. \A i \in DOMAIN pushed : pushed[i].of \in Nat /\ pushed[i].of <= chip.of
    <2>1. pushed \in [1 .. Len(pushed) -> RawSamples]
      BY LenProperties DEF SxInv, SampleInv
    <2>2. \A i \in DOMAIN pushed : pushed[i] \in RawSamples
      BY <2>1
    <2> QED
      BY <2>2 DEF SxInv, SampleInv, PushedInv, RawSamples
  <1>5. \A i \in DOMAIN pushed : pushed[i].of < chip'.of
    BY <1>3, <1>4
  <1>6. SampleInv'
    BY <1>1, <1>2, <1>3, <1>4, <1>5
    DEF SxInv, SampleInv, PushedInv, NotTaken, SamplesAreWhole, RingHolds, RingHas
  <1>7. /\ chip'.mode = chip.mode /\ chip'.high = chip.high /\ chip'.low = chip.low
        /\ chip'.pa = chip.pa /\ chip'.dac = chip.dac
    BY <1>1
  <1>8. InCall'
    <2>1. CASE todo = <<>>
      BY <1>2, <2>1 DEF InCall
    <2>2. CASE Asking
      BY <1>2, <2>2 DEF InCall, Polling, Asking
    <2>3. CASE Locating
      <3>1. Locating'
        BY <1>2, <1>3, <1>5, <2>3 DEF Locating, NotTaken, Located
      <3> QED
        BY <3>1 DEF InCall, Polling
    <2>4. CASE Fetching
      <3>1. Fetching'
        BY <1>2, <1>3, <1>5, <2>4 DEF Fetching, NotTaken, Located, Fetched
      <3> QED
        BY <3>1 DEF InCall, Polling
    <2>5. CASE Ending
      <3>1. sample.of \in 1 .. chip'.of
        BY <1>3, <2>5 DEF Ending
      <3>2. Ending'
        BY <1>2, <2>5, <3>1 DEF Ending, NotTaken
      <3> QED
        BY <3>2 DEF InCall, Polling
    <2>6. CASE Tuning
      BY <1>2, <2>6 DEF InCall, Tuning
    <2>7. CASE Silencing
      BY <1>2, <1>7, <2>7 DEF InCall, Silencing
    <2>8. CASE Beginning
      BY <1>2, <1>7, <2>8 DEF InCall, Beginning, Begun
    <2> QED
      BY <2>1, <2>2, <2>3, <2>4, <2>5, <2>6, <2>7, <2>8 DEF SxInv, InCall, Polling
  <1>9. TransmitsAsAsked'
    BY <1>2, <1>7 DEF SxInv, TransmitsAsAsked
  <1> QED
    BY <1>2, <1>6, <1>8, <1>9 DEF SxInv

(* No call, access, fault or packet leads out of it.                       *)
LEMMA SxStepKeeps == SxInv /\ [SxNext]_sxVars => SxInv'
  <1> SUFFICES ASSUME SxInv, [SxNext]_sxVars PROVE SxInv'
    OBVIOUS
  <1>1. CASE UNCHANGED sxVars
    <2>1. UNCHANGED <<chip, todo, sample, ring, radio, began, retuned, torn, pushed>>
      BY <1>1 DEF sxVars
    <2>2. SampleInv'
      BY <2>1
      DEF SxInv, SampleInv, PushedInv, NotTaken, SamplesAreWhole, RingHolds, RingHas
    <2>3. TransmitsAsAsked'
      BY <2>1 DEF SxInv, TransmitsAsAsked
    <2>4. InCall'
      <3>1. Polling => Polling'
        BY <2>1 DEF Polling, Asking, Locating, Fetching, Ending, NotTaken, Located, Fetched
      <3>2. (Tuning => Tuning') /\ (Silencing => Silencing') /\ (Beginning => Beginning')
        BY <2>1 DEF Tuning, Silencing, Beginning, Begun
      <3> QED
        BY <2>1, <3>1, <3>2 DEF SxInv, InCall
    <2> QED
      BY <2>1, <2>2, <2>3, <2>4 DEF SxInv
  <1>2. CASE StartListener
    <2>1. PICK f \in Frequencies : Call(Listen(f)) /\ UNCHANGED <<began, retuned>>
      BY <1>2 DEF StartListener
    <2>2. Listen(f) \in Seq(SilentAccesses) /\ Listen(f) # <<>> /\ Sets(Listen(f)[1], "mode")
      BY CallsAre
    <2>3. SampleInv' /\ chip' = chip /\ sample' = NoSample /\ todo' = Listen(f)
      BY <2>1, CallKeeps
    <2>4. Silencing'
      BY <2>2, <2>3 DEF Silencing, NoSample
    <2> QED
      BY <2>1, <2>3, <2>4 DEF SxInv, InCall, TransmitsAsAsked
  <1>3. CASE StartCarrier
    <2>1. PICK k \in Carriers :
              Call(Carrier(k)) /\ began' = began \cup {k} /\ UNCHANGED retuned
      BY <1>3 DEF StartCarrier
    <2>2. SampleInv' /\ chip' = chip /\ sample' = NoSample /\ todo' = Carrier(k)
      BY <2>1, CallKeeps
    <2>3. Carrier(k) = SubSeq(Carrier(k), 1, 7)
      <3>1. Carrier(k) \in Seq(Accesses) /\ Len(Carrier(k)) = 7
        BY CallsAre
      <3> QED
        BY <3>1, SubSeqFull
    <2>4. Begun(k, 1)'
      BY <2>2, <2>3 DEF Begun
    <2>5. Beginning'
      BY <2>1, <2>2, <2>4 DEF Beginning, NoSample
    <2>6. TransmitsAsAsked'
      BY <2>1, <2>2 DEF SxInv, TransmitsAsAsked
    <2> QED
      BY <2>1, <2>2, <2>5, <2>6 DEF SxInv, InCall
  <1>4. CASE StopCarrier
    <2>1. PICK s : s = <<Write("mode", "standby")>>
      OBVIOUS
    <2>2. s \in Seq(SilentAccesses) /\ Sets(s[1], "mode") /\ s # <<>>
      BY <2>1, CallsAre
    <2>3. Call(s) /\ UNCHANGED <<began, retuned>>
      BY <1>4, <2>1 DEF StopCarrier
    <2>4. SampleInv' /\ chip' = chip /\ sample' = NoSample /\ todo' = s
      BY <2>3, CallKeeps
    <2>5. Silencing'
      BY <2>2, <2>4 DEF Silencing, NoSample
    <2> QED
      BY <2>3, <2>4, <2>5 DEF SxInv, InCall, TransmitsAsAsked
  <1>5. CASE Retune
    <2>1. PICK f \in Frequencies : Call(Tune(f)) /\ retuned' = TRUE /\ UNCHANGED began
      BY <1>5 DEF Retune
    <2>2. SampleInv' /\ chip' = chip /\ sample' = NoSample /\ todo' = Tune(f)
      BY <2>1, CallKeeps
    <2>3. Tuning'
      BY <2>1, <2>2, CallsAre DEF Tuning, NoSample
    <2>4. TransmitsAsAsked'
      BY <2>1, <2>2 DEF SxInv, TransmitsAsAsked
    <2> QED
      BY <2>1, <2>2, <2>3, <2>4 DEF SxInv, InCall
  <1>6. CASE StartPoll
    <2>1. Call(<<Read("done")>>) /\ UNCHANGED <<began, retuned>>
      BY <1>6 DEF StartPoll
    <2>2. SampleInv' /\ chip' = chip /\ sample' = NoSample /\ todo' = <<Read("done")>>
      BY <2>1, CallKeeps
    <2>3. Polling'
      BY <2>2 DEF Polling, Asking
    <2> QED
      BY <2>1, <2>2, <2>3 DEF SxInv, InCall, TransmitsAsAsked
  <1>7. CASE Access
    <2>1. NextIsAsAsked /\ SampleInv' /\ InCall'
      BY <1>7, TuneKeeps, SilenceKeeps, PollKeeps, BeginKeeps DEF SxInv, InCall, Access
    <2>2. /\ chip' = Effect(todo[1]) /\ began' = began
          /\ retuned' = (retuned /\ ~OnAir(todo[1]))
      BY <1>7 DEF Access
    <2>3. TransmitsAsAsked'
      BY <2>1, <2>2 DEF NextIsAsAsked, AsAsked, TransmitsAsAsked
    <2>4. retuned' \in BOOLEAN
      BY <2>2
    <2> QED
      BY <2>1, <2>2, <2>3, <2>4 DEF SxInv
  <1>8. CASE SpiFault
    BY <1>8, FaultKeeps
  <1>9. CASE Receive
    BY <1>9, ReceiveKeeps
  <1> QED
    BY <1>1, <1>2, <1>3, <1>4, <1>5, <1>6, <1>7, <1>8, <1>9 DEF SxNext

(* The laboratory radio delivers what it heard, whole or marked as torn    *)
(* and each packet once, keeps the newest samples, and has on air only     *)
(* what was asked for: for FIFO and ring of any size, any packets that fit *)
(* the FIFO, any calls, whichever access fails and whenever a packet comes *)
(* in.                                                                     *)
THEOREM LabRadioIsExactHolds == SxSpec => []LabRadioIsExact
  <1>1. SxInit => SxInv
    <2> SUFFICES ASSUME SxInit PROVE SxInv
      OBVIOUS
    <2>1. NoSample \in Reads
      <3>1. 0 \in 0 .. FifoSize - 1 /\ <<>> \in Seq(Cells)
        BY FifoAssumption, EmptySeq
      <3> QED
        BY <3>1 DEF NoSample, Reads
    <2>2. ChipInv(chip, 0)
      <3>1. 0 \in 0 .. FifoSize - 1 /\ <<0, 0>> \in Cells
        BY FifoAssumption DEF Cells
      <3> QED
        BY <3>1 DEF SxInit, ChipInv, Registers
    <2>3. /\ ring.samples \in Seq(RawSamples) /\ pushed \in Seq(RawSamples)
          /\ Len(ring.samples) = 0 /\ Len(pushed) = 0 /\ DOMAIN pushed = {}
      BY EmptySeq DEF SxInit
    <2>4. RingHolds(ring, pushed)
      <3>1. RingHas(ring, pushed, 0)
        <4>1. 0 % Ring = 0 /\ 0 <= Ring
          BY RingSizeAssumption
        <4> QED
          BY <2>3, <4>1 DEF RingHas, SxInit
      <3> QED
        BY <2>3, <3>1 DEF RingHolds
    <2>5. PushedInv
      BY <2>3 DEF PushedInv, SamplesAreWhole, SxInit
    <2>6. radio \in [packets : Nat, faults : Nat, calls : Nat] /\ radio.packets = 0
      BY DEF SxInit
    <2>7. TransmitsAsAsked
      BY DEF SxInit, TransmitsAsAsked
    <2> QED
      BY <2>1, <2>2, <2>3, <2>4, <2>5, <2>6, <2>7 DEF SxInv, SampleInv, InCall, SxInit
  <1>2. SxInv => LabRadioIsExact
    <2> SUFFICES ASSUME SxInv PROVE LabRadioIsExact
      OBVIOUS
    <2>1. Len(ring.samples) \in Nat /\ Len(pushed) \in Nat
      BY LenProperties DEF SxInv, SampleInv
    <2>2. RingKeepsNewest
      BY <2>1, RingIsExact DEF SxInv, SampleInv
    <2> QED
      BY <2>2 DEF LabRadioIsExact, SxInv, SampleInv, PushedInv
  <1> QED
    BY <1>1, <1>2, SxStepKeeps, PTL DEF SxSpec

-----------------------------------------------------------------------------
(* The drills of the simulator: any nonces, any captured frames.           *)

DrillNonces == 0 .. NonceWord - 1
Frame32 == [nonce : DrillNonces, session : Sessions]
Entries == [nonce : DrillNonces, verdict : {"stale", "out_of_window", "tag_mismatch", "ok"}]

\* Whether a window at e takes the frame.
Takes(e, packet, session) ==
    /\ packet.nonce >= e /\ packet.nonce <= (e + DrillSkew) % NonceWord
    /\ packet.session = session

(* What the window says of a frame.                                        *)
LEMMA VerdictIs ==
    ASSUME NEW e \in DrillNonces, NEW packet \in Frame32, NEW session
    PROVE  LET outcome == Receiver(e)!Verdict(packet.nonce, packet.session = session)
           IN  /\ outcome \in {"stale", "out_of_window", "tag_mismatch", "ok"}
               /\ outcome = "ok" <=> Takes(e, packet, session)
  <1>1. PICK r \in Int : r = (e + DrillSkew) % NonceWord
    BY DrillAssumption DEF DrillNonces
  <1>2. packet.nonce \in DrillNonces
    BY DEF Frame32
  <1> DEFINE outcome == Receiver(e)!Verdict(packet.nonce, packet.session = session)
  <1>3. outcome = IF packet.nonce < e THEN "stale" ELSE IF packet.nonce > r THEN "out_of_window"
                  ELSE IF packet.session # session THEN "tag_mismatch" ELSE "ok"
    BY <1>1 DEF Receiver!Verdict
  <1> HIDE DEF outcome
  <1>4. /\ outcome \in {"stale", "out_of_window", "tag_mismatch", "ok"}
        /\ outcome = "ok" <=> packet.nonce >= e /\ packet.nonce <= r /\ packet.session = session
    BY <1>2, <1>3 DEF DrillNonces
  <1> QED
    BY <1>1, <1>4 DEF Takes, outcome

\* What has been offered: accepted nonces are below the window and rising.
StateIsSound(state) ==
    /\ state.expected \in DrillNonces
    /\ state.log \in Seq(Entries)
    /\ \A i \in 1 .. Len(state.log) :
           state.log[i].verdict = "ok" =>
               state.log[i].nonce < state.expected \/ state.expected = NonceWord - 1
    /\ \A i, j \in 1 .. Len(state.log) :
           i < j /\ state.log[i].verdict = "ok" /\ state.log[j].verdict = "ok" =>
               state.log[i].nonce < state.log[j].nonce \/ state.log[j].nonce = NonceWord - 1

(* One frame more.                                                         *)
LEMMA OfferIs ==
    ASSUME NEW state, StateIsSound(state), NEW packet \in Frame32, NEW session
    PROVE  LET next == Offer(state, packet, session)
               n == Len(state.log)
           IN  /\ StateIsSound(next)
               /\ Len(next.log) = n + 1
               /\ \A i \in 1 .. n : next.log[i] = state.log[i]
               /\ next.log[n + 1].verdict = "ok" <=> Takes(state.expected, packet, session)
               /\ next.expected = IF Takes(state.expected, packet, session)
                                  THEN IF packet.nonce = NonceWord - 1 THEN packet.nonce
                                       ELSE packet.nonce + 1
                                  ELSE state.expected
  <1> DEFINE outcome == Receiver(state.expected)!Verdict(packet.nonce, packet.session = session)
             entry == [nonce |-> packet.nonce, verdict |-> outcome]
             next == Offer(state, packet, session)
  <1>1. state.expected \in DrillNonces /\ state.log \in Seq(Entries) /\ packet.nonce \in DrillNonces
    BY DEF StateIsSound, Frame32
  <1>2. /\ outcome \in {"stale", "out_of_window", "tag_mismatch", "ok"}
        /\ outcome = "ok" <=> Takes(state.expected, packet, session)
    BY <1>1, VerdictIs
  <1>3. Receiver(0)!Successor(packet.nonce) = IF packet.nonce = NonceWord - 1 THEN packet.nonce
                                             ELSE packet.nonce + 1
    BY DEF Receiver!Successor
  <1>4. /\ next.log = Append(state.log, entry)
        /\ next.expected = IF outcome = "ok" THEN Receiver(0)!Successor(packet.nonce)
                                             ELSE state.expected
    BY DEF Offer
  <1> HIDE DEF next, outcome
  <1>5. entry \in Entries /\ entry.verdict = outcome /\ entry.nonce = packet.nonce
    BY <1>1, <1>2 DEF Entries
  <1> HIDE DEF entry
  <1>6. PICK n \in Nat : n = Len(state.log)
    BY <1>1
  <1>7. /\ next.log \in Seq(Entries) /\ Len(next.log) = n + 1
        /\ \A i \in 1 .. n : next.log[i] = state.log[i]
        /\ next.log[n + 1] = entry
    BY <1>1, <1>4, <1>5, <1>6, AppendProperties
  <1>8. next.expected = IF Takes(state.expected, packet, session)
                        THEN IF packet.nonce = NonceWord - 1 THEN packet.nonce ELSE packet.nonce + 1
                        ELSE state.expected
    BY <1>2, <1>3, <1>4
  <1>9. /\ next.expected \in DrillNonces /\ next.expected >= state.expected
        /\ outcome = "ok" => packet.nonce < next.expected \/ next.expected = NonceWord - 1
        /\ outcome = "ok" => packet.nonce >= state.expected
    <2>1. Takes(state.expected, packet, session) => packet.nonce >= state.expected
      BY DEF Takes
    <2> QED
      BY <1>1, <1>2, <1>8, <2>1, DrillAssumption DEF DrillNonces
  <1>10. \A i \in 1 .. n : /\ state.log[i] \in Entries /\ state.log[i].nonce \in DrillNonces
                           /\ state.log[i].verdict = "ok" =>
                                  \/ state.log[i].nonce < state.expected
                                  \/ state.expected = NonceWord - 1
    <2>1. \A i \in 1 .. n : state.log[i] \in Entries
      BY <1>1, <1>6
    <2> QED
      BY <1>6, <2>1 DEF StateIsSound, Entries
  <1>11. ASSUME NEW i \in 1 .. n + 1, next.log[i].verdict = "ok"
         PROVE  next.log[i].nonce < next.expected \/ next.expected = NonceWord - 1
    <2>1. CASE i = n + 1
      BY <1>5, <1>7, <1>9, <1>11, <2>1
    <2>2. CASE i # n + 1
      <3>1. i \in 1 .. n
        BY <2>2
      <3>2. next.log[i] = state.log[i]
        BY <1>7, <3>1
      <3> QED
        BY <1>1, <1>9, <1>10, <1>11, <3>1, <3>2, DrillAssumption DEF DrillNonces
    <2> QED
      BY <2>1, <2>2
  <1>12. ASSUME NEW i \in 1 .. n + 1, NEW j \in 1 .. n + 1, i < j,
                next.log[i].verdict = "ok", next.log[j].verdict = "ok"
         PROVE  next.log[i].nonce < next.log[j].nonce \/ next.log[j].nonce = NonceWord - 1
    <2>1. i \in 1 .. n /\ next.log[i] = state.log[i]
      BY <1>7, <1>12
    <2>2. CASE j = n + 1
      <3>1. next.log[j].nonce = packet.nonce /\ packet.nonce >= state.expected
        BY <1>5, <1>7, <1>9, <1>12, <2>2
      <3>2. state.log[i].nonce < state.expected \/ state.expected = NonceWord - 1
        BY <1>10, <1>12, <2>1
      <3> QED
        BY <1>1, <1>10, <2>1, <3>1, <3>2, DrillAssumption DEF DrillNonces
    <2>3. CASE j # n + 1
      <3>1. j \in 1 .. n
        BY <2>3
      <3>2. next.log[j] = state.log[j]
        BY <1>7, <3>1
      <3> QED
        BY <1>6, <1>12, <2>1, <3>1, <3>2 DEF StateIsSound
    <2> QED
      BY <2>2, <2>3
  <1>13. StateIsSound(next)
    BY <1>7, <1>9, <1>11, <1>12 DEF StateIsSound
  <1> QED
    BY <1>2, <1>5, <1>6, <1>7, <1>8, <1>13 DEF next

\* One turn of the loop over the frames, from what the turns before it left.
Turn(after, frames, base, session, k) ==
    IF k = 0 THEN [expected |-> base, log |-> <<>>]
             ELSE Offer(after[k - 1], frames[k], session)

Turns(after, frames, base, session, n) ==
    after = [k \in 0 .. n |-> Turn(after, frames, base, session, k)]

(* There is a function that offers the frames one after the other.         *)
LEMMA TurnsExist ==
    ASSUME NEW frames, NEW base, NEW session, NEW n \in Nat
    PROVE  \E after : Turns(after, frames, base, session, n)
  <1> DEFINE Has(m) == \E after : Turns(after, frames, base, session, m)
             Without == {m \in Nat : m <= n /\ ~Has(m)}
  <1>1. SUFFICES ASSUME Without # {} PROVE FALSE
    OBVIOUS
  <1>2. PICK m \in Without : \A k \in Without : m <= k
    <2>1. Without \in SUBSET Nat
      OBVIOUS
    <2> HIDE DEF Without
    <2> QED
      BY <1>1, <2>1, LeastExists DEF IsLeast
  <1>3. m \in Nat /\ m <= n /\ ~Has(m)
    OBVIOUS
  <1>4. CASE m = 0
    <2> DEFINE after == [k \in 0 .. 0 |-> [expected |-> base, log |-> <<>>]]
    <2>1. \A k \in 0 .. 0 : Turn(after, frames, base, session, k) = [expected |-> base, log |-> <<>>]
      BY DEF Turn
    <2>2. Turns(after, frames, base, session, 0)
      BY <2>1 DEF Turns
    <2> QED
      BY <1>3, <1>4, <2>2
  <1>5. CASE m # 0
    <2>1. m - 1 \in Nat /\ m - 1 <= n /\ ~(m <= m - 1)
      BY <1>3, <1>5
    <2>2. m - 1 \notin Without
      <3> HIDE DEF Without
      <3> QED
        BY <1>2, <2>1
    <2>3. PICK after : Turns(after, frames, base, session, m - 1)
      BY <2>1, <2>2
    <2> DEFINE more == [k \in 0 .. m |-> IF k = m THEN Turn(after, frames, base, session, m)
                                                  ELSE after[k]]
    <2>4. \A k \in 0 .. m - 1 : after[k] = Turn(after, frames, base, session, k)
      BY <2>3 DEF Turns
    <2>5. ASSUME NEW k \in 0 .. m
          PROVE  more[k] = Turn(more, frames, base, session, k)
      <3>1. k # 0 => k - 1 \in 0 .. m /\ k - 1 # m
        BY <1>3, <2>5
      <3>2. k # 0 => more[k - 1] = after[k - 1]
        BY <3>1
      <3>3. Turn(more, frames, base, session, k) = Turn(after, frames, base, session, k)
        <4> HIDE DEF more
        <4> QED
          BY <3>2 DEF Turn
      <3>4. more[k] = Turn(after, frames, base, session, k)
        BY <1>3, <2>4, <2>5
      <3> QED
        BY <3>3, <3>4
    <2>6. more = [k \in 0 .. m |-> more[k]]
      OBVIOUS
    <2>7. Turns(more, frames, base, session, m)
      <3> HIDE DEF more
      <3> QED
        BY <2>5, <2>6 DEF Turns
    <2> QED
      BY <1>3, <2>7
  <1> QED
    BY <1>4, <1>5

\* What n frames leave: a sound log of that length, and all of them accepted
\* where the nonces do not run out.
Offered(state, base, n, roomy) ==
    /\ StateIsSound(state) /\ Len(state.log) = n
    /\ roomy => /\ state.expected = base + n
                /\ \A i \in 1 .. n : state.log[i].verdict = "ok"

Roomy(base, n) == base + n + DrillSkew + 3 < NonceWord

(* The frames a drill encodes.                                             *)
LEMMA OriginalsAre ==
    ASSUME NEW session \in Sessions, NEW base \in DrillNonces, NEW n \in Nat
    PROVE  /\ Originals(session, base, n) \in Seq(Frame32)
           /\ Len(Originals(session, base, n)) = n
           /\ \A k \in 1 .. n :
                  /\ Originals(session, base, n)[k].session = session
                  /\ Roomy(base, n) => Originals(session, base, n)[k].nonce = base + k - 1
  <1> DEFINE f == Originals(session, base, n)
  <1>1. NonceWord \in Nat \ {0} /\ DrillSkew \in Nat /\ base \in Nat
    BY DrillAssumption DEF DrillNonces
  <1>2. ASSUME NEW k \in 1 .. n
        PROVE  /\ (base + k - 1) % NonceWord \in DrillNonces
               /\ Roomy(base, n) => (base + k - 1) % NonceWord = base + k - 1
    <2>1. PICK x \in Nat : x = base + k - 1
      BY <1>1
    <2>2. x % NonceWord \in 0 .. NonceWord - 1 /\ (x < NonceWord => x % NonceWord = x)
      BY <1>1
    <2>3. Roomy(base, n) => x < NonceWord
      BY <1>1, <2>1 DEF Roomy
    <2> QED
      BY <2>1, <2>2, <2>3 DEF DrillNonces
  <1>3. \A k \in 1 .. n : f[k] = [nonce |-> (base + k - 1) % NonceWord, session |-> session]
    BY DEF Originals
  <1>4. \A k \in 1 .. n : f[k] \in Frame32
    <2> SUFFICES ASSUME NEW k \in 1 .. n PROVE f[k] \in Frame32
      OBVIOUS
    <2>1. PICK x \in DrillNonces : x = (base + k - 1) % NonceWord
      BY <1>2
    <2>2. [nonce |-> x, session |-> session] \in Frame32
      BY DEF Frame32
    <2> QED
      BY <1>3, <2>1, <2>2
  <1>5. f \in [1 .. n -> Frame32]
    BY <1>4 DEF Originals
  <1>6. f \in Seq(Frame32) /\ Len(f) = n
    <2> HIDE DEF f
    <2> QED
      BY <1>5
  <1> QED
    BY <1>2, <1>3, <1>6

(* One original more.                                                      *)
LEMMA OriginalIsTaken ==
    ASSUME NEW session \in Sessions, NEW base \in DrillNonces, NEW n \in Nat, NEW k \in 1 .. n,
           NEW state, Offered(state, base, k - 1, Roomy(base, n))
    PROVE  Offered(Offer(state, Originals(session, base, n)[k], session), base, k, Roomy(base, n))
  <1> DEFINE packet == Originals(session, base, n)[k]
             next == Offer(state, packet, session)
  <1>1. NonceWord \in Nat \ {0} /\ DrillSkew \in Nat \ {0} /\ base \in Nat
    BY DrillAssumption DEF DrillNonces
  <1>2. /\ packet \in Frame32 /\ packet.session = session
        /\ Roomy(base, n) => packet.nonce = base + k - 1
    BY OriginalsAre
  <1> HIDE DEF packet
  <1>3. StateIsSound(state) /\ Len(state.log) = k - 1
    BY DEF Offered
  <1>4. /\ StateIsSound(next)
        /\ Len(next.log) = (k - 1) + 1
        /\ \A i \in 1 .. k - 1 : next.log[i] = state.log[i]
        /\ next.log[(k - 1) + 1].verdict = "ok" <=> Takes(state.expected, packet, session)
        /\ next.expected = IF Takes(state.expected, packet, session)
                           THEN IF packet.nonce = NonceWord - 1 THEN packet.nonce
                                ELSE packet.nonce + 1
                           ELSE state.expected
    BY <1>2, <1>3, OfferIs
  <1> HIDE DEF next
  <1>5. (k - 1) + 1 = k
    OBVIOUS
  <1>6. ASSUME Roomy(base, n)
        PROVE  next.expected = base + k /\ \A i \in 1 .. k : next.log[i].verdict = "ok"
    <2>1. state.expected = base + (k - 1) /\ packet.nonce = base + k - 1
      BY <1>2, <1>6 DEF Offered
    <2>2. PICK x \in Nat : x = base + k - 1
      BY <1>1
    <2>3. x + DrillSkew < NonceWord /\ x # NonceWord - 1
      BY <1>1, <1>6, <2>2 DEF Roomy
    <2>4. (x + DrillSkew) % NonceWord = x + DrillSkew
      BY <1>1, <2>3
    <2>5. state.expected = x /\ packet.nonce = x
      BY <1>1, <2>1, <2>2
    <2>6. Takes(state.expected, packet, session)
      BY <1>1, <1>2, <2>4, <2>5 DEF Takes
    <2>7. next.expected = x + 1
      BY <1>4, <2>3, <2>5, <2>6
    <2>8. ASSUME NEW i \in 1 .. k PROVE next.log[i].verdict = "ok"
      <3>1. CASE i = k
        BY <1>4, <1>5, <2>6, <3>1
      <3>2. CASE i # k
        <4>1. i \in 1 .. k - 1
          BY <3>2
        <4> QED
          BY <1>4, <1>6, <4>1 DEF Offered
      <3> QED
        BY <3>1, <3>2
    <2> QED
      BY <1>1, <2>2, <2>7, <2>8
  <1>7. Offered(next, base, k, Roomy(base, n))
    BY <1>4, <1>5, <1>6 DEF Offered
  <1> QED
    BY <1>7 DEF next, packet

(* All originals.                                                          *)
LEMMA AllOffered ==
    ASSUME NEW session \in Sessions, NEW base \in DrillNonces, NEW n \in Nat,
           NEW after, Turns(after, Originals(session, base, n), base, session, n)
    PROVE  Offered(after[n], base, n, Roomy(base, n))
  <1> DEFINE frames == Originals(session, base, n)
             roomy == Roomy(base, n)
             Bad == {k \in Nat : k <= n /\ ~Offered(after[k], base, k, roomy)}
  <1>1. SUFFICES ASSUME Bad # {} PROVE FALSE
    OBVIOUS
  <1>2. PICK m \in Bad : \A k \in Bad : m <= k
    <2>1. Bad \in SUBSET Nat
      OBVIOUS
    <2> HIDE DEF Bad
    <2> QED
      BY <1>1, <2>1, LeastExists DEF IsLeast
  <1>3. m \in Nat /\ m <= n /\ ~Offered(after[m], base, m, roomy)
    OBVIOUS
  <1>4. after[m] = Turn(after, frames, base, session, m)
    BY <1>3 DEF Turns
  <1>5. CASE m = 0
    <2>1. after[m].expected = base /\ after[m].log = <<>>
      BY <1>4, <1>5 DEF Turn
    <2>2. after[m].log \in Seq(Entries) /\ Len(after[m].log) = 0
      BY <2>1
    <2>3. base + 0 = base
      BY DEF DrillNonces
    <2>4. StateIsSound(after[m])
      BY <2>1, <2>2 DEF StateIsSound
    <2> QED
      BY <1>3, <1>5, <2>1, <2>2, <2>3, <2>4 DEF Offered
  <1>6. CASE m # 0
    <2>1. m - 1 \in Nat /\ m - 1 <= n /\ ~(m <= m - 1) /\ m \in 1 .. n
      BY <1>3, <1>6
    <2>2. m - 1 \notin Bad
      <3> HIDE DEF Bad
      <3> QED
        BY <1>2, <2>1
    <2>3. Offered(after[m - 1], base, m - 1, roomy)
      BY <2>1, <2>2
    <2>4. after[m] = Offer(after[m - 1], frames[m], session)
      BY <1>4, <1>6 DEF Turn
    <2> HIDE DEF Bad
    <2> QED
      BY <1>3, <2>1, <2>3, <2>4, OriginalIsTaken
  <1> QED
    BY <1>5, <1>6

\* The frame of the far future, as the node builds it.
Future(e, session) == [nonce |-> FarFuture(e), session |-> session]

(* It is a frame, and beyond the window where the nonces do not run out.   *)
LEMMA FutureIs ==
    ASSUME NEW session \in Sessions, NEW e \in DrillNonces
    PROVE  /\ Future(e, session) \in Frame32
           /\ e + DrillSkew + 3 < NonceWord =>
                  \A other : ~Takes(e, Future(e, session), other)
  <1>1. NonceWord \in Nat \ {0} /\ DrillSkew \in Nat \ {0} /\ e \in Nat /\ e < NonceWord
    BY DrillAssumption DEF DrillNonces
  <1>2. FarFuture(e) \in DrillNonces
    BY <1>1 DEF FarFuture, Saturated, DrillNonces
  <1>3. ASSUME e + DrillSkew + 3 < NonceWord, NEW other
        PROVE  ~Takes(e, Future(e, session), other)
    <2>1. FarFuture(e) = e + DrillSkew + 3
      BY <1>1, <1>3 DEF FarFuture, Saturated
    <2>2. (e + DrillSkew) % NonceWord = e + DrillSkew
      BY <1>1, <1>3
    <2> QED
      BY <1>1, <2>1, <2>2 DEF Takes, Future
  <1> QED
    BY <1>2, <1>3 DEF Frame32, Future

(* Accepted entries of a log of which the last two may be new.             *)
LEMMA OksOfLonger ==
    ASSUME NEW short \in Seq(Entries), NEW long \in Seq(Entries), Len(long) = Len(short) + 2,
           \A i \in 1 .. Len(short) : long[i] = short[i]
    PROVE  LET Oks(entries) == Cardinality({i \in DOMAIN entries : entries[i].verdict = "ok"})
               n == Len(short)
           IN  2 + Oks(short) - Oks(long) = 2 <=>
                   long[n + 1].verdict # "ok" /\ long[n + 2].verdict # "ok"
  <1> DEFINE n == Len(short)
             S == {i \in DOMAIN short : short[i].verdict = "ok"}
             T == {i \in DOMAIN long : long[i].verdict = "ok"}
  <1>1. n \in Nat /\ DOMAIN short = 1 .. n /\ DOMAIN long = 1 .. n + 2
    OBVIOUS
  <1>2. IsFiniteSet(S) /\ IsFiniteSet(T)
    <2>1. S \subseteq 1 .. n + 2 /\ T \subseteq 1 .. n + 2
      BY <1>1
    <2>2. PICK m \in Nat : m = n + 2
      BY <1>1
    <2>3. IsFiniteSet(1 .. m)
      BY FS_Interval
    <2> HIDE DEF S, T
    <2> QED
      BY <2>1, <2>2, <2>3, FS_Subset
  <1>3. S \subseteq T
    BY <1>1
  <1>4. S = T <=> long[n + 1].verdict # "ok" /\ long[n + 2].verdict # "ok"
    <2>1. n + 1 \in 1 .. n + 2 /\ n + 2 \in 1 .. n + 2 /\ n + 1 \notin 1 .. n /\ n + 2 \notin 1 .. n
      BY <1>1
    <2>2. \A i \in 1 .. n + 2 : i \in 1 .. n \/ i = n + 1 \/ i = n + 2
      BY <1>1
    <2>3. \A i \in T : i \in S \/ i = n + 1 \/ i = n + 2
      BY <1>1, <2>2
    <2>4. n + 1 \notin S /\ n + 2 \notin S
      BY <1>1, <2>1
    <2>5. (n + 1 \in T <=> long[n + 1].verdict = "ok") /\ (n + 2 \in T <=> long[n + 2].verdict = "ok")
      BY <1>1, <2>1
    <2> HIDE DEF S, T, n
    <2> QED
      BY <1>3, <2>3, <2>4, <2>5
  <1> HIDE DEF S, T
  <1>5. /\ Cardinality(S) \in Nat /\ Cardinality(T) \in Nat
        /\ Cardinality(S) = Cardinality(T) <=> S = T
    BY <1>2, <1>3, FS_Subset, FS_CardinalityType
  <1>6. 2 + Cardinality(S) - Cardinality(T) = 2 <=> S = T
    BY <1>5
  <1> QED
    BY <1>4, <1>6 DEF S, T

\* What a replay drill on the captured frames leaves in its log.
LogIsSound(entries, n, roomy, fresh) ==
    /\ entries # <<>>
    /\ \A i, j \in DOMAIN entries :
           i < j /\ entries[i].verdict = "ok" /\ entries[j].verdict = "ok" =>
               entries[i].nonce < entries[j].nonce \/ entries[j].nonce = NonceWord - 1
    /\ roomy => /\ \A i \in 1 .. n : entries[i].verdict = "ok"
                /\ entries[n + 1].verdict = "ok" => ~fresh
                /\ entries[n + 2].verdict = "ok" => entries[n + 1].verdict = "ok"

(* The whole drill.                                                        *)
LEMMA DrillIsSound ==
    ASSUME NEW session \in Sessions, NEW base \in DrillNonces, NEW n \in Nat \ {0},
           NEW old \in Seq(Frame32)
    PROVE  LET drill == Replayed(session, base, n, old)
           IN  /\ drill.captured \in Seq(Frame32)
               /\ LogIsSound(drill.log, n, Roomy(base, n), old = <<>>)
               /\ drill.report.kind = "loopback"
               /\ drill.report.rejected = 2 <=>
                      drill.log[n + 1].verdict # "ok" /\ drill.log[n + 2].verdict # "ok"
  <1> DEFINE drill == Replayed(session, base, n, old)
             frames == Originals(session, base, n)
             roomy == Roomy(base, n)
             after == CHOOSE g : Turns(g, frames, base, session, n)
             passed == after[n]
             first == StaleDuplicate(old \o frames)
             stale == Offer(passed, first, session)
             future == Future(passed.expected, session)
             last == Offer(stale, future, session)
             Oks(entries) == Cardinality({i \in DOMAIN entries : entries[i].verdict = "ok"})
  <1>1. Turns(after, frames, base, session, n)
    BY TurnsExist
  <1>2. /\ drill.captured = old \o frames /\ drill.log = last.log
        /\ drill.report.kind = "loopback"
        /\ drill.report.rejected = 2 + Oks(passed.log) - Oks(last.log)
    BY DEF Replayed, Turns, Turn, Future
  <1> HIDE DEF after, drill
  <1>3. StateIsSound(passed) /\ Len(passed.log) = n
        /\ (roomy => passed.expected = base + n /\ \A i \in 1 .. n : passed.log[i].verdict = "ok")
    BY <1>1, AllOffered DEF Offered
  <1> HIDE DEF passed
  <1>4. frames \in Seq(Frame32) /\ Len(frames) = n /\ frames[1] \in Frame32
        /\ (roomy => frames[1].nonce = base)
    <2>1. n \in Nat /\ 1 \in 1 .. n
      OBVIOUS
    <2>2. /\ frames \in Seq(Frame32) /\ Len(frames) = n
          /\ roomy => frames[1].nonce = base + 1 - 1
      BY <2>1, OriginalsAre
    <2>3. base + 1 - 1 = base
      BY DEF DrillNonces
    <2> HIDE DEF frames, roomy
    <2>4. frames[1] \in Frame32
      BY <2>1, <2>2
    <2> QED
      BY <2>2, <2>3, <2>4
  <1> HIDE DEF frames
  <1>5. /\ old \o frames \in Seq(Frame32) /\ first \in Frame32
        /\ old = <<>> => first = frames[1]
    <2>1. /\ old \o frames \in Seq(Frame32) /\ Len(old \o frames) = Len(old) + Len(frames)
          /\ \A i \in 1 .. Len(old) + Len(frames) :
                 (old \o frames)[i] = IF i <= Len(old) THEN old[i] ELSE frames[i - Len(old)]
      BY <1>4, ConcatProperties
    <2>2. PICK both \in Seq(Frame32) : both = old \o frames
      BY <2>1
    <2>3. Len(both) \in Nat /\ Len(both) >= 1
      BY <1>4, <2>1, <2>2
    <2>4. both[1] \in Frame32
      BY <2>3
    <2>5. old = <<>> => both[1] = frames[1]
      <3> SUFFICES ASSUME old = <<>> PROVE both[1] = frames[1]
        OBVIOUS
      <3>1. Len(old) = 0 /\ 1 \in 1 .. Len(old) + Len(frames) /\ 1 - 0 = 1
        BY <1>4
      <3> QED
        BY <2>1, <2>2, <3>1
    <2> QED
      BY <2>2, <2>4, <2>5 DEF StaleDuplicate
  <1> HIDE DEF first
  <1>6. passed.expected \in DrillNonces
    BY <1>3 DEF StateIsSound
  <1>7. /\ StateIsSound(stale) /\ Len(stale.log) = n + 1
        /\ \A i \in 1 .. n : stale.log[i] = passed.log[i]
        /\ stale.log[n + 1].verdict = "ok" <=> Takes(passed.expected, first, session)
        /\ ~Takes(passed.expected, first, session) => stale.expected = passed.expected
    BY <1>3, <1>5, OfferIs
  <1> HIDE DEF stale
  <1>8. /\ future \in Frame32
        /\ passed.expected + DrillSkew + 3 < NonceWord => ~Takes(passed.expected, future, session)
    BY <1>6, FutureIs
  <1> HIDE DEF future
  <1>9. /\ StateIsSound(last) /\ Len(last.log) = (n + 1) + 1
        /\ \A i \in 1 .. n + 1 : last.log[i] = stale.log[i]
        /\ last.log[(n + 1) + 1].verdict = "ok" <=> Takes(stale.expected, future, session)
    BY <1>7, <1>8, OfferIs
  <1> HIDE DEF last
  <1>10. /\ (n + 1) + 1 = n + 2 /\ n + 1 \in 1 .. n + 1
         /\ \A i \in 1 .. n : i \in 1 .. n + 1
    OBVIOUS
  <1>11. /\ Len(last.log) = n + 2 /\ last.log \in Seq(Entries) /\ passed.log \in Seq(Entries)
         /\ \A i \in 1 .. n : last.log[i] = passed.log[i]
         /\ last.log[n + 1] = stale.log[n + 1]
    BY <1>3, <1>7, <1>9, <1>10 DEF StateIsSound
  <1>12. 2 + Oks(passed.log) - Oks(last.log) = 2 <=>
             last.log[n + 1].verdict # "ok" /\ last.log[n + 2].verdict # "ok"
    BY <1>3, <1>11, OksOfLonger
  <1> HIDE DEF Oks
  <1>13. ASSUME roomy
         PROVE  /\ \A i \in 1 .. n : last.log[i].verdict = "ok"
                /\ last.log[n + 1].verdict = "ok" => old # <<>>
                /\ last.log[n + 2].verdict = "ok" => last.log[n + 1].verdict = "ok"
    <2>1. passed.expected = base + n /\ base \in Nat /\ NonceWord \in Nat /\ DrillSkew \in Nat
      BY <1>3, <1>13, DrillAssumption DEF DrillNonces
    <2>2. \A i \in 1 .. n : last.log[i].verdict = "ok"
      BY <1>3, <1>11, <1>13
    <2>3. ASSUME old = <<>> PROVE ~Takes(passed.expected, first, session)
      <3>1. first.nonce = base
        BY <1>4, <1>5, <1>13, <2>3
      <3>2. ~(base >= base + n)
        BY <2>1
      <3> QED
        BY <2>1, <3>1, <3>2 DEF Takes
    <2>4. passed.expected + DrillSkew + 3 < NonceWord
      BY <1>13, <2>1 DEF Roomy
    <2>5. ASSUME ~Takes(passed.expected, first, session)
          PROVE  ~Takes(stale.expected, future, session)
      BY <1>7, <1>8, <2>4, <2>5
    <2> QED
      BY <1>7, <1>9, <1>10, <1>11, <2>2, <2>3, <2>5
  <1>14. LogIsSound(last.log, n, roomy, old = <<>>)
    <2>1. DOMAIN last.log = 1 .. Len(last.log) /\ last.log # <<>>
      BY <1>11
    <2>2. \A i, j \in 1 .. Len(last.log) :
             i < j /\ last.log[i].verdict = "ok" /\ last.log[j].verdict = "ok" =>
                 last.log[i].nonce < last.log[j].nonce \/ last.log[j].nonce = NonceWord - 1
      BY <1>9 DEF StateIsSound
    <2> QED
      BY <1>13, <2>1, <2>2 DEF LogIsSound
  <1> QED
    BY <1>2, <1>5, <1>12, <1>14 DEF drill, Oks

AZInv == captured \in Seq(Frame32) /\ DrillVerdictsAreSound

(* A drill that leaves a sound log keeps the invariant.                    *)
LEMMA LogKeeps ==
    ASSUME NEW n \in Nat, NEW entries, NEW roomy \in BOOLEAN, NEW fresh \in BOOLEAN,
           LogIsSound(entries, n, roomy, fresh),
           injected' = [fresh |-> fresh, roomy |-> roomy, size |-> n, log |-> entries],
           report'.kind = "resilience" =>
               (report'.blocked <=> entries[n + 1].verdict # "ok" /\ entries[n + 2].verdict # "ok")
    PROVE  DrillVerdictsAreSound'
  BY DEF LogIsSound, DrillVerdictsAreSound

(* Three forged reports are always blocked.                                *)
LEMMA ForgedIsBlocked ==
    ASSUME NEW nodes, Len(nodes) = 3
    PROVE  Forged(nodes).mode = "silent" /\ Blocks(Forged(nodes), nodes)
  <1> DEFINE recovery == Recovery("signature_mismatch", 9)
  <1>1. nodes # <<>>
    OBVIOUS
  <1>2. recovery = <<"key_resync", "silent", "reboot">>
    <2>1. recovery = Append(<<"key_resync", "silent">>, "reboot")
      <3>1. FaultClass["signature_mismatch"] = "security"
        BY DEF FaultClass
      <3>2. Plans["security"] = <<"key_resync", "silent">>
        BY DEF Plans
      <3>3. recovery = Append(Plans[FaultClass["signature_mismatch"]], "reboot")
        BY DEF Recovery
      <3> QED
        BY <3>1, <3>2, <3>3
    <2> QED
      BY <2>1
  <1>3. "silent" \in ToSet(recovery)
    <2>1. 2 \in DOMAIN recovery /\ recovery[2] = "silent"
      BY <1>2
    <2> HIDE DEF recovery
    <2> QED
      BY <2>1 DEF ToSet
  <1>4. Forged(nodes).mode = "silent" /\ Forged(nodes).dropped = Len(nodes) + 1
    BY <1>1, <1>3 DEF Forged
  <1> QED
    BY <1>4 DEF Blocks

(* Every drill keeps the invariant.                                        *)
LEMMA AZStepKeeps == AZInv /\ [AZNext]_azVars => AZInv'
  <1> SUFFICES ASSUME AZInv, [AZNext]_azVars PROVE AZInv'
    OBVIOUS
  <1>1. captured \in Seq(Frame32)
    BY DEF AZInv
  <1>2. CASE UNCHANGED azVars
    BY <1>2 DEF azVars, AZInv, DrillVerdictsAreSound
  <1>3. CASE Interference
    <2>1. captured' = captured /\ injected' = injected /\ report'.kind # "resilience"
      BY <1>3 DEF Interference, Jammed
    <2> QED
      BY <2>1 DEF AZInv, DrillVerdictsAreSound
  <1>4. CASE Byzantine
    <2>1. captured' = captured /\ injected' = injected /\ report'.kind # "resilience"
      BY <1>4 DEF Byzantine, Forged
    <2> QED
      BY <2>1 DEF AZInv, DrillVerdictsAreSound
  <1>5. CASE Loopback
    <2>1. PICK session \in Sessions, base \in Bases, n \in Counts :
              /\ report' = Replayed(session, base, n, captured).report
              /\ captured' = Replayed(session, base, n, captured).captured
              /\ Remember(session, base, n)
      BY <1>5 DEF Loopback
    <2> DEFINE drill == Replayed(session, base, n, captured)
    <2>2. base \in DrillNonces /\ n \in Nat \ {0}
      BY DrillAssumption DEF DrillNonces
    <2>3. /\ drill.captured \in Seq(Frame32)
          /\ LogIsSound(drill.log, n, Roomy(base, n), captured = <<>>)
          /\ drill.report.kind = "loopback"
      BY <1>1, <2>2, DrillIsSound
    <2>4. injected' = [fresh |-> captured = <<>>, roomy |-> Roomy(base, n),
                       size |-> n, log |-> drill.log]
      BY <2>1 DEF Remember, Roomy
    <2>5. report'.kind # "resilience" /\ captured' \in Seq(Frame32)
      BY <2>1, <2>3
    <2> HIDE DEF drill
    <2>6. Roomy(base, n) \in BOOLEAN /\ (captured = <<>>) \in BOOLEAN
      BY DEF Roomy
    <2>7. DrillVerdictsAreSound'
      BY <2>2, <2>3, <2>4, <2>5, <2>6, LogKeeps
    <2> QED
      BY <2>5, <2>7 DEF AZInv
  <1>6. CASE Resilience
    <2>1. PICK session \in Sessions, nodes \in {l \in NodeLists : Len(l) = 3} :
              /\ captured' = Replayed(session, GuardBase, 4, captured).captured
              /\ Remember(session, GuardBase, 4)
              /\ report'.kind = "resilience"
              /\ report'.blocked =
                     (/\ Replayed(session, GuardBase, 4, captured).report.rejected = 2
                      /\ Blocks(Forged(nodes), nodes)
                      /\ (IF Forged(nodes).mode = "silent" THEN "silent" ELSE Jammed(64).mode)
                             = "silent")
      BY <1>6 DEF Resilience
    <2> DEFINE drill == Replayed(session, GuardBase, 4, captured)
    <2>2. GuardBase \in DrillNonces /\ 4 \in Nat \ {0}
      BY DrillAssumption DEF DrillNonces
    <2>3. /\ drill.captured \in Seq(Frame32)
          /\ LogIsSound(drill.log, 4, Roomy(GuardBase, 4), captured = <<>>)
          /\ drill.report.rejected = 2 <=>
                 drill.log[4 + 1].verdict # "ok" /\ drill.log[4 + 2].verdict # "ok"
      BY <1>1, <2>2, DrillIsSound
    <2>4. injected' = [fresh |-> captured = <<>>, roomy |-> Roomy(GuardBase, 4),
                       size |-> 4, log |-> drill.log]
      BY <2>1 DEF Remember, Roomy
    <2>5. report'.blocked <=> drill.report.rejected = 2
      BY <2>1, ForgedIsBlocked
    <2>6. captured' \in Seq(Frame32)
      BY <2>1, <2>3
    <2> HIDE DEF drill
    <2>7. Roomy(GuardBase, 4) \in BOOLEAN /\ (captured = <<>>) \in BOOLEAN
      BY DEF Roomy
    <2>8. DrillVerdictsAreSound'
      BY <2>2, <2>3, <2>4, <2>5, <2>7, LogKeeps
    <2> QED
      BY <2>6, <2>8 DEF AZInv
  <1> QED
    BY <1>2, <1>3, <1>4, <1>5, <1>6 DEF AZNext

(* DrillVerdictsAreSound: what validate_loopback_persistence reports, for  *)
(* any drills in any order, also where nonces run out.                     *)
THEOREM DrillVerdictsAreSoundHolds == AZSpec => []DrillVerdictsAreSound
  <1>1. AZInit => AZInv
    BY DEF AZInit, AZInv, DrillVerdictsAreSound
  <1>2. AZInv => DrillVerdictsAreSound
    BY DEF AZInv
  <1> QED
    BY <1>1, <1>2, AZStepKeeps, PTL DEF AZSpec

-----------------------------------------------------------------------------
(* The spin solver: any graph, any number of spins and of flips.           *)

(* What is drawn between two spins does not depend on which comes first.   *)
LEMMA DrawnEitherWay ==
    ASSUME NEW draws, NEW i, NEW j PROVE Drawn(draws, i, j) = Drawn(draws, j, i)
  <1>1. {i, j} = {j, i}
    OBVIOUS
  <1> QED
    BY <1>1 DEF Drawn

(* A matrix: an edge has two rows, and no spin is its own neighbour.       *)
Coupled(w) ==
    /\ DOMAIN w \subseteq Spins \X Spins
    /\ \A e \in DOMAIN w : w[e] \in Int /\ e[1] # e[2] /\ <<e[2], e[1]>> \in DOMAIN w

(* The matrices that can be drawn are such.                                *)
LEMMA DrawnIsCoupled ==
    ASSUME NEW draws \in Draws, NEW w \in Matrices(draws) PROVE Coupled(w)
  <1> DEFINE edges == {e \in Spins \X Spins : e[1] # e[2] /\ Drawn(draws, e[1], e[2]) # {}}
  <1>1. /\ DOMAIN w = edges
        /\ \A e \in edges : w[e] \in Drawn(draws, e[1], e[2])
    BY DEF Matrices
  <1>2. ASSUME NEW e \in edges
        PROVE  w[e] \in Int /\ e[1] # e[2] /\ <<e[2], e[1]>> \in edges
    <2>1. e[1] \in Spins /\ e[2] \in Spins /\ e[1] # e[2] /\ Drawn(draws, e[1], e[2]) # {}
      OBVIOUS
    <2>2. <<e[2], e[1]>> \in Spins \X Spins
      BY <2>1
    <2>3. Drawn(draws, e[2], e[1]) # {}
      BY <2>1, DrawnEitherWay
    <2>4. Drawn(draws, e[1], e[2]) \subseteq Int
      BY <2>1, DrawsAssumption DEF Drawn
    <2> QED
      BY <1>1, <2>1, <2>2, <2>3, <2>4
  <1> HIDE DEF edges
  <1>3. edges \subseteq Spins \X Spins
    BY DEF edges
  <1> QED
    BY <1>1, <1>2, <1>3 DEF Coupled

-----------------------------------------------------------------------------
(* What a flip does to sums.                                               *)

Flip(s, k) == [s EXCEPT ![k] = -s[k]]

(* Where one summand changes its sign, the sum loses it twice.             *)
LEMMA SignChange ==
    ASSUME NEW S, IsFiniteSet(S), NEW f, NEW g, NEW k \in S,
           \A y \in S : f[y] \in Int, g[k] = -f[k], \A y \in S \ {k} : g[y] = f[y]
    PROVE  /\ SumFunctionOnSet(f, S) \in Int
           /\ SumFunctionOnSet(g, S) = SumFunctionOnSet(f, S) - 2 * f[k]
  <1>1. f[k] \in Int /\ g[k] \in Int /\ g[k] = -f[k]
    OBVIOUS
  <1>2. ASSUME NEW y \in S PROVE f[y] \in Int /\ g[y] \in Int
    BY <1>1
  <1>3. SumFunctionOnSet(f, S) \in Int
    BY SumIsInteger
  <1>4. \A y \in S \ {k} : g[y] = f[y]
    OBVIOUS
  <1>5. SumFunctionOnSet(g, S) = SumFunctionOnSet(f, S) + g[k] - f[k]
    BY ONLY <1>2, <1>4, k \in S, IsFiniteSet(S), SumChange
  <1> QED
    BY <1>1, <1>3, <1>5

(* The sum over all edges: each edge of the flipped spin changes its sign, *)
(* and the row of that spin says what they were.                           *)
LEMMA EdgesFlip ==
    ASSUME NEW w, Coupled(w), \A e \in DOMAIN w : w[<<e[2], e[1]>>] = w[e],
           NEW s \in [Spins -> {-1, 1}], NEW k \in Spins,
           NEW half, half = {e \in DOMAIN w : e[1] < e[2]},
           NEW row, row = {j \in Spins : <<k, j>> \in DOMAIN w}
    PROVE  SumFunctionOnSet([e \in half |-> w[e] * Flip(s, k)[e[1]] * Flip(s, k)[e[2]]], half)
               = SumFunctionOnSet([e \in half |-> w[e] * s[e[1]] * s[e[2]]], half)
                     - 2 * s[k] * SumFunctionOnSet([j \in row |-> w[<<k, j>>] * s[j]], row)
  <1> DEFINE edge(j) == IF k < j THEN <<k, j>> ELSE <<j, k>>
             f == [e \in half |-> w[e] * s[e[1]] * s[e[2]]]
             g == [e \in half |-> w[e] * Flip(s, k)[e[1]] * Flip(s, k)[e[2]]]
             h == [j \in row |-> w[<<k, j>>] * s[j]]
             part(J) == [e \in half |-> IF \E j \in J : e = edge(j) THEN -f[e] ELSE f[e]]
             Good == {J \in SUBSET row :
                         SumFunctionOnSet(part(J), half)
                             = SumFunctionOnSet(f, half) - 2 * s[k] * SumFunctionOnSet(h, J)}
  <1>1. IsFiniteSet(row) /\ row \subseteq Spins /\ k \notin row /\ Spins \subseteq Nat
    <2>1. k \notin row
      BY DEF Coupled
    <2> QED
      BY <2>1, SpinsAssumption, FS_Subset
  <1>2. IsFiniteSet(half) /\ \A e \in half : f[e] \in Int /\ f[e] = w[e] * s[e[1]] * s[e[2]]
    <2>1. IsFiniteSet(Spins \X Spins)
      BY SpinsAssumption, FS_Product
    <2>2. half \subseteq Spins \X Spins
      BY DEF Coupled
    <2>3. ASSUME NEW e \in half PROVE f[e] \in Int
      <3>1. w[e] \in Int /\ s[e[1]] \in Int /\ s[e[2]] \in Int
        <4>1. e[1] \in Spins /\ e[2] \in Spins
          BY <2>2
        <4>2. w[e] \in Int
          BY DEF Coupled
        <4> QED
          BY <4>1, <4>2
      <3>2. f[e] = w[e] * s[e[1]] * s[e[2]]
        OBVIOUS
      <3> HIDE DEF f
      <3> QED
        BY <3>1, <3>2
    <2> QED
      BY <2>1, <2>2, <2>3, FS_Subset
  <1>3. ASSUME NEW j \in row
        PROVE  edge(j) \in half /\ f[edge(j)] = s[k] * h[j] /\ h[j] \in Int
    <2>1. /\ <<k, j>> \in DOMAIN w /\ j # k /\ j \in Spins /\ j \in Nat /\ k \in Nat
          /\ w[<<k, j>>] \in Int /\ s[j] \in {-1, 1} /\ s[k] \in {-1, 1}
      BY <1>1 DEF Coupled
    <2>2. <<j, k>> \in DOMAIN w /\ w[<<j, k>>] = w[<<k, j>>]
      BY <2>1 DEF Coupled
    <2>3. h[j] = w[<<k, j>>] * s[j]
      OBVIOUS
    <2>4. CASE k < j
      <3>1. edge(j) = <<k, j>> /\ <<k, j>> \in half
        BY <2>1, <2>4
      <3>2. f[edge(j)] = w[<<k, j>>] * s[k] * s[j]
        BY <3>1
      <3> QED
        BY <2>1, <2>3, <3>1, <3>2
    <2>5. CASE ~(k < j)
      <3>1. edge(j) = <<j, k>> /\ j < k
        BY <2>1, <2>5
      <3>2. <<j, k>> \in half
        BY <2>2, <3>1
      <3>3. f[edge(j)] = w[<<k, j>>] * s[j] * s[k]
        BY <2>2, <3>1, <3>2
      <3> QED
        BY <2>1, <2>3, <3>1, <3>2, <3>3
    <2> QED
      BY <2>4, <2>5
  <1>4. ASSUME NEW i \in row, NEW j \in row, edge(i) = edge(j)
        PROVE  i = j
    BY <1>4, <1>1
  <1>5. ASSUME NEW J \in SUBSET row, \A U \in SUBSET J : U # J => U \in Good
        PROVE  J \in Good
    <2>1. CASE J = {}
      <3>1. \A e \in half : part({})[e] = f[e]
        OBVIOUS
      <3>2. SumFunctionOnSet(part({}), half) = SumFunctionOnSet(f, half)
        <4> HIDE DEF part, f
        <4> QED
          BY <1>2, <3>1, SumSame
      <3>3. SumFunctionOnSet(h, {}) = 0
        BY SumOfNothing
      <3>4. SumFunctionOnSet(f, half) \in Int /\ s[k] \in Int
        <4> HIDE DEF f
        <4> QED
          BY <1>2, SumIsInteger
      <3> QED
        BY <2>1, <3>2, <3>3, <3>4
    <2>2. CASE J # {}
      <3> DEFINE j == Pick(J)
                 U == J \ {j}
      <3>1. j \in J /\ j \in row /\ IsFiniteSet(J) /\ U \in SUBSET J /\ U # J /\ IsFiniteSet(U)
        BY <1>1, <2>2, PickIsElement, FS_Subset
      <3>2. SumFunctionOnSet(part(U), half)
                = SumFunctionOnSet(f, half) - 2 * s[k] * SumFunctionOnSet(h, U)
        BY <1>5, <3>1
      <3>3. SumFunctionOnSet(h, J) = h[j] + SumFunctionOnSet(h, U)
        <4> HIDE DEF h
        <4> QED
          BY <2>2, <3>1, SumPick
      <3>4. edge(j) \in half /\ f[edge(j)] = s[k] * h[j] /\ h[j] \in Int
        BY <1>3, <3>1
      <3>5. \A y \in half : part(U)[y] \in Int
        <4> HIDE DEF f, edge
        <4> QED
          BY <1>2
      <3>6. /\ part(U)[edge(j)] = f[edge(j)]
            /\ part(J)[edge(j)] = -f[edge(j)]
        <4>1. ~\E i \in U : edge(j) = edge(i)
          <5> HIDE DEF edge
          <5> QED
            BY <1>4, <3>1
        <4> HIDE DEF f, edge
        <4> QED
          BY <3>1, <3>4, <4>1
      <3>7. \A y \in half \ {edge(j)} : part(J)[y] = part(U)[y]
        <4>1. ASSUME NEW y \in half, y # edge(j)
              PROVE  (\E i \in J : y = edge(i)) <=> (\E i \in U : y = edge(i))
          <5> HIDE DEF edge
          <5> QED
            BY <4>1
        <4> HIDE DEF f, edge, U
        <4> QED
          BY <4>1
      <3>8. SumFunctionOnSet(part(J), half)
                = SumFunctionOnSet(part(U), half) - 2 * part(U)[edge(j)]
        <4> DEFINE p == part(U)
                   q == part(J)
                   x == edge(j)
        <4>1. /\ x \in half /\ q[x] = -p[x]
              /\ \A y \in half : p[y] \in Int
              /\ \A y \in half \ {x} : q[y] = p[y]
          <5> HIDE DEF f, edge, U, part
          <5> QED
            BY <3>4, <3>5, <3>6, <3>7
        <4>2. IsFiniteSet(half)
          BY <1>2
        <4> HIDE DEF p, q, x
        <4>3. SumFunctionOnSet(q, half) = SumFunctionOnSet(p, half) - 2 * p[x]
          BY ONLY <4>1, <4>2, SignChange
        <4> QED
          BY <4>3 DEF p, q, x
      <3>9. /\ SumFunctionOnSet(f, half) \in Int /\ SumFunctionOnSet(h, U) \in Int
            /\ s[k] \in {-1, 1}
        <4>1. \A x \in U : h[x] \in Int
          BY <1>3, <3>1
        <4> HIDE DEF f, h, U
        <4> QED
          BY <1>2, <3>1, <4>1, SumIsInteger
      <3> HIDE DEF f, h, part, edge, U, j
      <3>10. SumFunctionOnSet(part(J), half)
                 = SumFunctionOnSet(f, half) - 2 * s[k] * SumFunctionOnSet(h, U) - 2 * (s[k] * h[j])
        BY <3>2, <3>4, <3>6, <3>8
      <3>11. SumFunctionOnSet(part(J), half)
                 = SumFunctionOnSet(f, half) - 2 * s[k] * (h[j] + SumFunctionOnSet(h, U))
        BY <3>4, <3>9, <3>10
      <3> QED
        BY <3>3, <3>11
    <2> QED
      BY <2>1, <2>2
  <1>6. row \in Good
    <2> HIDE DEF Good
    <2>1. IsFiniteSet(row)
      BY <1>1
    <2>2. \A J \in SUBSET row : J \in Good
      BY ONLY <2>1, <1>5, SubsetInduction
    <2> QED
      BY <2>2
  <1>7. \A e \in half : part(row)[e] = g[e]
    <2> SUFFICES ASSUME NEW e \in half PROVE part(row)[e] = g[e]
      OBVIOUS
    <2>1. /\ e \in DOMAIN w /\ e[1] \in Spins /\ e[2] \in Spins /\ e = <<e[1], e[2]>>
          /\ e[1] < e[2] /\ w[e] \in Int /\ <<e[2], e[1]>> \in DOMAIN w
          /\ e[1] \in Nat /\ e[2] \in Nat /\ k \in Nat
      <3>1. e \in DOMAIN w /\ e[1] < e[2] /\ e \in Spins \X Spins
        BY DEF Coupled
      <3>2. e[1] \in Spins /\ e[2] \in Spins /\ e = <<e[1], e[2]>>
        BY <3>1
      <3>3. w[e] \in Int /\ <<e[2], e[1]>> \in DOMAIN w
        BY <3>1 DEF Coupled
      <3> QED
        BY <1>1, <3>1, <3>2, <3>3
    <2>2. /\ s[e[1]] \in {-1, 1} /\ s[e[2]] \in {-1, 1} /\ s[k] \in {-1, 1}
          /\ g[e] = w[e] * Flip(s, k)[e[1]] * Flip(s, k)[e[2]]
          /\ f[e] = w[e] * s[e[1]] * s[e[2]]
      BY <2>1
    <2>3. CASE e[1] = k
      <3>1. e[2] \in row /\ e = edge(e[2])
        BY <2>1, <2>3
      <3>2. part(row)[e] = -f[e]
        <4> HIDE DEF f, edge
        <4> QED
          BY <3>1
      <3>3. Flip(s, k)[e[1]] = -s[e[1]] /\ Flip(s, k)[e[2]] = s[e[2]]
        BY <2>1, <2>3 DEF Flip
      <3> QED
        BY <2>1, <2>2, <3>2, <3>3
    <2>4. CASE e[2] = k
      <3>1. e[1] \in row /\ e = edge(e[1])
        BY <2>1, <2>4
      <3>2. part(row)[e] = -f[e]
        <4> HIDE DEF f, edge
        <4> QED
          BY <3>1
      <3>3. Flip(s, k)[e[1]] = s[e[1]] /\ Flip(s, k)[e[2]] = -s[e[2]]
        BY <2>1, <2>4 DEF Flip
      <3> QED
        BY <2>1, <2>2, <3>2, <3>3
    <2>5. CASE e[1] # k /\ e[2] # k
      <3>1. \A j \in row : e # edge(j)
        BY <2>1, <2>5
      <3>2. part(row)[e] = f[e]
        <4> HIDE DEF f, edge
        <4> QED
          BY <3>1
      <3>3. Flip(s, k)[e[1]] = s[e[1]] /\ Flip(s, k)[e[2]] = s[e[2]]
        BY <2>1, <2>5 DEF Flip
      <3> QED
        BY <2>2, <3>2, <3>3
    <2> QED
      BY <2>3, <2>4, <2>5
  <1>8. SumFunctionOnSet(part(row), half) = SumFunctionOnSet(g, half)
    <2> DEFINE p == part(row)
    <2> HIDE DEF p, g
    <2> QED
      BY <1>2, <1>7, SumSame DEF p
  <1> QED
    BY <1>6, <1>8

-----------------------------------------------------------------------------
(* The solver.                                                             *)

(* What a start carries along, and that it is what it should be.           *)
Carried ==
    /\ Coupled(weight)
    /\ spin \in [Spins -> {-1, 1}]
    /\ sparse_local \in [Spins -> Int]
    /\ m_ref \in Int
    /\ FlipsAddUp

AllAgree == \A e \in Edges : Agree(e[1], e[2])

(* What is carried along is right; while annealing, the energy it ends     *)
(* with is that of the spins as they are, and no round of polishing is     *)
(* counted yet.                                                            *)
SolverInv ==
    /\ Carried
    /\ search \in [baseline : Baselines, phase : {"anneal", "polish", "done"}, step : Int,
                   no_imp : Int, e : Int, best : Int, rounds : Nat]
    /\ flips \in Int /\ annealed \in Int
    /\ search.phase = "anneal" => annealed = energy /\ search.rounds = 0
    /\ EnergyIsHonest

(* The sums are those of integers.                                         *)
LEMMA SumsAreIntegers ==
    ASSUME Coupled(weight), spin \in [Spins -> {-1, 1}]
    PROVE  /\ Overlap \in Int
           /\ \A i \in Spins : FieldAt(i) \in Int /\ IsFiniteSet(Row(i)) /\ i \notin Row(i)
           /\ m_ref \in Int => energy \in Int
  <1>1. Overlap \in Int
    <2> DEFINE f == [i \in Spins |-> spin[i] * Reference[i]]
    <2>1. \A i \in Spins : f[i] \in Int
      BY FieldsAssumption
    <2>2. Overlap = SumFunctionOnSet(f, Spins)
      BY DEF Overlap, SumFunction
    <2> HIDE DEF f
    <2> QED
      BY <2>1, <2>2, SpinsAssumption, SumIsInteger
  <1>2. ASSUME NEW i \in Spins
        PROVE  FieldAt(i) \in Int /\ IsFiniteSet(Row(i)) /\ i \notin Row(i)
    <2> DEFINE f == [j \in Row(i) |-> weight[<<i, j>>] * spin[j]]
    <2>1. IsFiniteSet(Row(i))
      <3>1. Row(i) \subseteq Spins
        BY DEF Row
      <3> QED
        BY <3>1, SpinsAssumption, FS_Subset
    <2>2. \A j \in Row(i) : f[j] \in Int
      <3> SUFFICES ASSUME NEW j \in Row(i) PROVE weight[<<i, j>>] * spin[j] \in Int
        OBVIOUS
      <3>1. weight[<<i, j>>] \in Int
        BY DEF Row, Edges, Coupled
      <3>2. spin[j] \in Int
        BY DEF Row
      <3> QED
        BY <3>1, <3>2
    <2>3. FieldAt(i) = Bias[i] + SumFunctionOnSet(f, Row(i))
      BY DEF FieldAt, SumFunction
    <2>4. i \notin Row(i)
      BY DEF Row, Edges, Coupled
    <2> HIDE DEF f
    <2>5. SumFunctionOnSet(f, Row(i)) \in Int
      BY ONLY <2>1, <2>2, SumIsInteger
    <2> QED
      BY <2>1, <2>3, <2>4, <2>5, FieldsAssumption
  <1>3. ASSUME m_ref \in Int PROVE energy \in Int
    <2> DEFINE half == {e \in Edges : e[1] < e[2]}
               f == [i \in Spins |-> Bias[i] * spin[i]]
               g == [e \in half |-> weight[e] * spin[e[1]] * spin[e[2]]]
    <2>1. \A i \in Spins : f[i] \in Int
      BY FieldsAssumption
    <2>2. IsFiniteSet(half)
      <3>1. half \subseteq Spins \X Spins
        BY DEF Coupled, Edges
      <3> QED
        BY <3>1, SpinsAssumption, FS_Product, FS_Subset
    <2>3. \A e \in half : g[e] \in Int
      <3> SUFFICES ASSUME NEW e \in half PROVE g[e] \in Int
        OBVIOUS
      <3>1. e \in Spins \X Spins /\ weight[e] \in Int
        BY DEF Coupled, Edges
      <3>2. spin[e[1]] \in Int /\ spin[e[2]] \in Int
        BY <3>1
      <3>3. g[e] = weight[e] * spin[e[1]] * spin[e[2]]
        OBVIOUS
      <3> HIDE DEF g
      <3> QED
        BY <3>1, <3>2, <3>3
    <2>4. energy = - Alpha * m_ref * m_ref - 2 * Size * SumFunctionOnSet(f, Spins)
                       - 2 * Size * SumFunctionOnSet(g, half)
      BY DEF energy, SumFunction
    <2>5. Size \in Int
      BY SpinsAssumption, FS_CardinalityType DEF Size
    <2> HIDE DEF f, g, half
    <2>6. SumFunctionOnSet(f, Spins) \in Int
      BY ONLY SpinsAssumption, <2>1, SumIsInteger
    <2>7. SumFunctionOnSet(g, half) \in Int
      BY ONLY <2>2, <2>3, SumIsInteger
    <2> QED
      BY <1>3, <2>4, <2>5, <2>6, <2>7, FieldsAssumption
  <1> QED
    BY <1>1, <1>2, <1>3

(* So is the energy of what is carried along.                              *)
LEMMA CarriedEnergy == Carried => energy \in Int
  BY SumsAreIntegers DEF Carried

(* And so it is after a step.                                              *)
LEMMA EnergyNext == Carried' => energy' \in Int
  <1>1. (Carried => energy \in Int)'
    BY CarriedEnergy, PTL
  <1> QED
    BY <1>1

(* A flip turns one spin.                                                  *)
LEMMA FlipTurns ==
    ASSUME spin \in [Spins -> {-1, 1}], m_ref \in Int, NEW k \in Spins, apply_flip(k)
    PROVE  /\ spin' = Flip(spin, k) /\ spin' \in [Spins -> {-1, 1}]
           /\ spin'[k] = -spin[k] /\ \A i \in Spins \ {k} : spin'[i] = spin[i]
           /\ spin[k] \in {-1, 1}
           /\ m_ref' = m_ref - 2 * spin[k] * Reference[k]
           /\ sparse_local' = Neighbours(k, -2 * spin[k])
  <1>1. spin' = Flip(spin, k) /\ sparse_local' = Neighbours(k, -2 * spin[k])
    BY DEF apply_flip, Flip
  <1>2. spin[k] \in {-1, 1}
    OBVIOUS
  <1>3. \A i \in Spins : spin'[i] = IF i = k THEN -spin[k] ELSE spin[i]
    BY <1>1 DEF Flip
  <1>4. spin' \in [Spins -> {-1, 1}]
    <2>1. -spin[k] \in {-1, 1}
      BY <1>2
    <2> QED
      BY <1>1, <2>1 DEF Flip
  <1>5. m_ref' = m_ref + (-2 * spin[k]) * Reference[k]
    BY DEF apply_flip
  <1>6. m_ref' = m_ref - 2 * spin[k] * Reference[k]
    <2>1. Reference[k] \in {-1, 1}
      BY FieldsAssumption
    <2>2. (-2 * spin[k]) * Reference[k] = - (2 * spin[k] * Reference[k])
      BY <1>2, <2>1
    <2> QED
      BY <1>2, <1>5, <2>1, <2>2
  <1> QED
    BY <1>1, <1>2, <1>3, <1>4, <1>6

(* The overlap follows a flip.                                             *)
LEMMA OverlapFollows ==
    ASSUME Carried, NEW k \in Spins, apply_flip(k)
    PROVE  m_ref' \in Int /\ m_ref' = Overlap'
  <1> DEFINE f == [i \in Spins |-> spin[i] * Reference[i]]
             g == [i \in Spins |-> spin'[i] * Reference[i]]
  <1>1. \A i \in Spins : f[i] \in Int
    BY FieldsAssumption DEF Carried
  <1>2. /\ spin'[k] = -spin[k] /\ \A i \in Spins \ {k} : spin'[i] = spin[i]
        /\ spin[k] \in {-1, 1} /\ Reference[k] \in {-1, 1}
        /\ m_ref' = m_ref - 2 * spin[k] * Reference[k]
    BY FlipTurns, FieldsAssumption DEF Carried
  <1>3. /\ f[k] = spin[k] * Reference[k] /\ g[k] = -f[k]
        /\ \A i \in Spins \ {k} : g[i] = f[i]
    BY <1>2
  <1>4. /\ m_ref = SumFunctionOnSet(f, Spins) /\ m_ref \in Int
        /\ Overlap' = SumFunctionOnSet(g, Spins)
    BY DEF Overlap, SumFunction, Carried, FlipsAddUp
  <1> HIDE DEF f, g
  <1>5. SumFunctionOnSet(g, Spins) = SumFunctionOnSet(f, Spins) - 2 * f[k]
    BY ONLY <1>1, <1>3, SpinsAssumption, k \in Spins, SignChange
  <1> QED
    BY <1>1, <1>2, <1>3, <1>4, <1>5

(* The fields follow a flip, where rows agree.                             *)
LEMMA FieldsFollow ==
    ASSUME Carried, NEW k \in Spins, apply_flip(k), weight' = weight,
           NEW i \in Spins, \A j \in Row(i) : Agree(i, j)
    PROVE  sparse_local'[i] = FieldAt(i)'
  <1> DEFINE f == [j \in Row(i) |-> weight[<<i, j>>] * spin[j]]
             g == [j \in Row(i) |-> weight[<<i, j>>] * spin'[j]]
  <1>1. /\ spin'[k] = -spin[k] /\ \A j \in Spins \ {k} : spin'[j] = spin[j]
        /\ spin[k] \in {-1, 1}
        /\ sparse_local' = Neighbours(k, -2 * spin[k])
    BY FlipTurns DEF Carried
  <1>2. /\ sparse_local[i] \in Int
        /\ sparse_local[i] = Bias[i] + SumFunctionOnSet(f, Row(i))
    BY DEF FieldAt, SumFunction, Carried, FlipsAddUp
  <1>3. FieldAt(i)' = Bias[i] + SumFunctionOnSet(g, Row(i))
    BY DEF FieldAt, SumFunction, Row, Edges
  <1>4. IsFiniteSet(Row(i)) /\ Row(i) \subseteq Spins /\ Bias[i] \in Int
    BY SumsAreIntegers, FieldsAssumption DEF Carried, Row
  <1>5. \A j \in Row(i) : f[j] \in Int /\ weight[<<i, j>>] \in Int
    <2> SUFFICES ASSUME NEW j \in Row(i)
                 PROVE  weight[<<i, j>>] * spin[j] \in Int /\ weight[<<i, j>>] \in Int
      OBVIOUS
    <2>1. weight[<<i, j>>] \in Int
      BY DEF Row, Edges, Coupled, Carried
    <2>2. spin[j] \in Int
      BY DEF Row, Carried
    <2> QED
      BY <2>1, <2>2
  <1>6. CASE k \in Row(i)
    <2>1. <<k, i>> \in Edges /\ weight[<<k, i>>] = weight[<<i, k>>]
      <3>1. <<i, k>> \in DOMAIN weight /\ <<i, k>>[1] = i /\ <<i, k>>[2] = k
        BY <1>6 DEF Row, Edges
      <3>2. <<k, i>> \in DOMAIN weight
        BY <3>1 DEF Coupled, Carried
      <3> QED
        BY <1>6, <3>2 DEF Agree, Edges
    <2>2. sparse_local'[i] = sparse_local[i] + weight[<<i, k>>] * (-2 * spin[k])
      BY <1>1, <2>1 DEF Neighbours
    <2>3. /\ f[k] = weight[<<i, k>>] * spin[k] /\ g[k] = weight[<<i, k>>] * (-spin[k])
          /\ \A j \in Row(i) \ {k} : g[j] = f[j]
          /\ weight[<<i, k>>] \in Int
      BY <1>1, <1>4, <1>5, <1>6
    <2>4. f[k] \in Int /\ g[k] = -f[k]
      BY <1>1, <2>3
    <2> HIDE DEF f, g
    <2>5. /\ SumFunctionOnSet(f, Row(i)) \in Int
          /\ SumFunctionOnSet(g, Row(i)) = SumFunctionOnSet(f, Row(i)) - 2 * f[k]
      BY ONLY <1>4, <1>5, <1>6, <2>3, <2>4, SignChange
    <2> QED
      BY <1>1, <1>2, <1>3, <1>4, <2>2, <2>3, <2>5
  <1>7. CASE k \notin Row(i)
    <2>1. <<k, i>> \notin Edges
      BY <1>7 DEF Row, Edges, Coupled, Carried
    <2>2. sparse_local'[i] = sparse_local[i]
      BY <1>1, <2>1 DEF Neighbours
    <2>3. \A j \in Row(i) : f[j] = g[j]
      BY <1>1, <1>4, <1>7
    <2> HIDE DEF f, g
    <2>4. SumFunctionOnSet(f, Row(i)) = SumFunctionOnSet(g, Row(i))
      BY ONLY <1>4, <2>3, SumSame
    <2> QED
      BY <1>2, <1>3, <2>2, <2>4
  <1> QED
    BY <1>6, <1>7

(* A flip keeps what is carried along.                                     *)
LEMMA FlipKeepsCarried ==
    ASSUME Carried, NEW k \in Spins, apply_flip(k), weight' = weight
    PROVE  Carried'
  <1>1. /\ spin' \in [Spins -> {-1, 1}]
        /\ spin'[k] = -spin[k] /\ \A i \in Spins \ {k} : spin'[i] = spin[i]
        /\ spin[k] \in {-1, 1}
        /\ sparse_local' = Neighbours(k, -2 * spin[k])
    BY FlipTurns DEF Carried
  <1>2. sparse_local' \in [Spins -> Int]
    <2> SUFFICES ASSUME NEW j \in Spins
                 PROVE  Neighbours(k, -2 * spin[k])[j] \in Int
      BY <1>1 DEF Neighbours
    <2>1. sparse_local[j] \in Int /\ -2 * spin[k] \in Int
      BY <1>1 DEF Carried
    <2>2. <<k, j>> \in Edges => weight[<<k, j>>] \in Int
      BY DEF Edges, Coupled, Carried
    <2>3. <<k, j>> \in Edges => weight[<<k, j>>] * (-2 * spin[k]) \in Int
      BY <2>1, <2>2
    <2> QED
      BY <2>1, <2>3 DEF Neighbours
  <1>3. packed' = {i \in Spins : spin'[i] > 0}
    <2>1. packed = {i \in Spins : spin[i] > 0}
      BY DEF Carried, FlipsAddUp
    <2>2. packed' = IF k \in packed THEN packed \ {k} ELSE packed \cup {k}
      BY DEF apply_flip
    <2>3. CASE spin[k] = 1
      <3>1. k \in packed /\ ~(spin'[k] > 0)
        BY <1>1, <2>1, <2>3
      <3> QED
        BY <1>1, <2>1, <2>2, <3>1
    <2>4. CASE spin[k] = -1
      <3>1. k \notin packed /\ spin'[k] > 0
        BY <1>1, <2>1, <2>4
      <3> QED
        BY <1>1, <2>1, <2>2, <3>1
    <2> QED
      BY <1>1, <2>3, <2>4
  <1>4. m_ref' \in Int /\ m_ref' = Overlap'
    BY OverlapFollows
  <1>5. ASSUME NEW i \in Spins, \A j \in Row(i)' : Agree(i, j)'
        PROVE  sparse_local'[i] = FieldAt(i)'
    <2>1. \A j \in Row(i) : Agree(i, j)
      BY <1>5 DEF Row, Agree, Edges
    <2> QED
      BY <2>1, FieldsFollow
  <1>6. Coupled(weight')
    BY DEF Carried
  <1> QED
    BY <1>1, <1>2, <1>3, <1>4, <1>5, <1>6 DEF Carried, FlipsAddUp

(* The arithmetic of the energy.                                           *)
LEMMA EnergyStep ==
    ASSUME NEW a \in Int, NEW m \in Int, NEW n \in Int, NEW B \in Int, NEW X \in Int,
           NEW b \in Int, NEW H \in Int, NEW s \in {-1, 1}, NEW r \in {-1, 1}
    PROVE  - a * (m - 2 * s * r) * (m - 2 * s * r) - 2 * n * (B - 2 * (b * s))
               - 2 * n * (X - 2 * s * H)
           = (- a * m * m - 2 * n * B - 2 * n * X)
               + 4 * s * (a * m * r + n * (b + H)) - 4 * a
  <1>1. CASE s = 1 /\ r = 1
    BY <1>1
  <1>2. CASE s = 1 /\ r = -1
    BY <1>2
  <1>3. CASE s = -1 /\ r = 1
    BY <1>3
  <1>4. CASE s = -1 /\ r = -1
    BY <1>4
  <1> QED
    BY <1>1, <1>2, <1>3, <1>4

(* Where all rows agree, a flip changes the energy by what it is taken to  *)
(* cost, less the coupling of the spin to itself.                          *)
LEMMA FlipCosts ==
    ASSUME Carried, AllAgree, NEW k \in Spins, apply_flip(k), weight' = weight
    PROVE  energy' = energy + Cost(k) - 4 * Alpha
  <1> DEFINE half == {e \in Edges : e[1] < e[2]}
             bias == [i \in Spins |-> Bias[i] * spin[i]]
             bias2 == [i \in Spins |-> Bias[i] * spin'[i]]
             links == [e \in half |-> weight[e] * spin[e[1]] * spin[e[2]]]
             links2 == [e \in half |-> weight[e] * spin'[e[1]] * spin'[e[2]]]
             row == [j \in Row(k) |-> weight[<<k, j>>] * spin[j]]
  <1>1. /\ spin' = Flip(spin, k) /\ spin' \in [Spins -> {-1, 1}]
        /\ spin'[k] = -spin[k] /\ \A i \in Spins \ {k} : spin'[i] = spin[i]
        /\ spin[k] \in {-1, 1} /\ Reference[k] \in {-1, 1}
        /\ m_ref' = m_ref - 2 * spin[k] * Reference[k]
    BY FlipTurns, FieldsAssumption DEF Carried
  <1>2. energy = - Alpha * m_ref * m_ref - 2 * Size * SumFunctionOnSet(bias, Spins)
                     - 2 * Size * SumFunctionOnSet(links, half)
    BY DEF energy, SumFunction
  <1>3. energy' = - Alpha * m_ref' * m_ref' - 2 * Size * SumFunctionOnSet(bias2, Spins)
                      - 2 * Size * SumFunctionOnSet(links2, half)
    BY DEF energy, SumFunction, Edges
  <1>4. /\ SumFunctionOnSet(bias, Spins) \in Int
        /\ SumFunctionOnSet(bias2, Spins) = SumFunctionOnSet(bias, Spins) - 2 * (Bias[k] * spin[k])
    <2>1. /\ \A i \in Spins : bias[i] \in Int
          /\ bias[k] = Bias[k] * spin[k] /\ bias2[k] = Bias[k] * (-spin[k])
          /\ \A i \in Spins \ {k} : bias2[i] = bias[i]
      BY <1>1, FieldsAssumption DEF Carried
    <2>2. bias2[k] = -bias[k]
      BY <1>1, <2>1, FieldsAssumption
    <2> HIDE DEF bias, bias2
    <2>3. /\ SumFunctionOnSet(bias, Spins) \in Int
          /\ SumFunctionOnSet(bias2, Spins) = SumFunctionOnSet(bias, Spins) - 2 * bias[k]
      BY ONLY <2>1, <2>2, k \in Spins, SpinsAssumption, SignChange
    <2> QED
      BY <2>1, <2>3
  <1>5. SumFunctionOnSet(links2, half)
            = SumFunctionOnSet(links, half) - 2 * spin[k] * SumFunctionOnSet(row, Row(k))
    <2>1. \A e \in DOMAIN weight : weight[<<e[2], e[1]>>] = weight[e]
      <3> SUFFICES ASSUME NEW e \in DOMAIN weight PROVE weight[<<e[2], e[1]>>] = weight[e]
        OBVIOUS
      <3>1. e \in Spins \X Spins
        BY DEF Carried, Coupled
      <3>2. e = <<e[1], e[2]>>
        BY <3>1
      <3> QED
        BY <3>2 DEF AllAgree, Agree, Edges
    <2>2. Coupled(weight) /\ spin \in [Spins -> {-1, 1}]
      BY DEF Carried
    <2>3. half = {e \in DOMAIN weight : e[1] < e[2]}
      BY DEF Edges
    <2>4. Row(k) = {j \in Spins : <<k, j>> \in DOMAIN weight}
      BY DEF Row, Edges
    <2>5. links2 = [e \in half |-> weight[e] * Flip(spin, k)[e[1]] * Flip(spin, k)[e[2]]]
      BY <1>1
    <2> HIDE DEF half, links2
    <2>6. links = [e \in half |-> weight[e] * spin[e[1]] * spin[e[2]]]
      OBVIOUS
    <2> QED
      BY ONLY <2>1, <2>2, <2>3, <2>4, <2>5, k \in Spins, EdgesFlip
  <1>6. AllAgree => sparse_local[k] = Bias[k] + SumFunctionOnSet(row, Row(k))
    <2>1. \A j \in Row(k) : Agree(k, j)
      <3> SUFFICES ASSUME NEW j \in Row(k) PROVE Agree(k, j)
        OBVIOUS
      <3>1. <<k, j>> \in Edges
        BY DEF Row
      <3> QED
        BY <3>1 DEF AllAgree
    <2> QED
      BY <2>1 DEF Carried, FlipsAddUp, FieldAt, SumFunction
  <1>7. /\ SumFunctionOnSet(links, half) \in Int /\ SumFunctionOnSet(row, Row(k)) \in Int
        /\ m_ref \in Int /\ Bias[k] \in Int /\ Alpha \in Int /\ Size \in Int
    <2>1. \A e \in half : links[e] \in Int
      <3> SUFFICES ASSUME NEW e \in half PROVE links[e] \in Int
        OBVIOUS
      <3>1. e \in Spins \X Spins /\ weight[e] \in Int
        BY DEF Coupled, Edges, Carried
      <3>2. spin[e[1]] \in Int /\ spin[e[2]] \in Int
        BY <3>1 DEF Carried
      <3>3. links[e] = weight[e] * spin[e[1]] * spin[e[2]]
        OBVIOUS
      <3> HIDE DEF links
      <3> QED
        BY <3>1, <3>2, <3>3
    <2>2. IsFiniteSet(half)
      <3>1. half \subseteq Spins \X Spins
        BY DEF Coupled, Edges, Carried
      <3> QED
        BY <3>1, SpinsAssumption, FS_Product, FS_Subset
    <2>3. \A j \in Row(k) : row[j] \in Int
      <3> SUFFICES ASSUME NEW j \in Row(k) PROVE weight[<<k, j>>] * spin[j] \in Int
        OBVIOUS
      <3>1. weight[<<k, j>>] \in Int
        BY DEF Row, Edges, Coupled, Carried
      <3>2. spin[j] \in Int
        BY DEF Row, Carried
      <3> QED
        BY <3>1, <3>2
    <2>4. IsFiniteSet(Row(k))
      BY SumsAreIntegers DEF Carried
    <2>5. m_ref \in Int /\ Bias[k] \in Int /\ Alpha \in Int /\ Size \in Int
      BY FieldsAssumption, SpinsAssumption, FS_CardinalityType DEF Carried, Size
    <2> HIDE DEF half, links, row
    <2>6. SumFunctionOnSet(links, half) \in Int
      BY ONLY <2>1, <2>2, SumIsInteger
    <2>7. SumFunctionOnSet(row, Row(k)) \in Int
      BY ONLY <2>3, <2>4, SumIsInteger
    <2> QED
      BY <2>5, <2>6, <2>7
  <1>8. Cost(k) = 4 * spin[k] * (Alpha * m_ref * Reference[k] + Size * (Bias[k] + SumFunctionOnSet(row, Row(k))))
    BY <1>6 DEF Cost, local_field
  <1> HIDE DEF half, bias, bias2, links, links2, row
  <1> QED
    BY <1>1, <1>2, <1>3, <1>4, <1>5, <1>7, <1>8, EnergyStep

(* What is carried along stays where no spin turns.                        *)
LEMMA RestKeepsCarried ==
    ASSUME Carried, UNCHANGED <<weight, spin, packed, sparse_local, m_ref>>
    PROVE  Carried' /\ energy' = energy /\ AllAgree' = AllAgree
  <1>1. /\ Overlap' = Overlap /\ energy' = energy /\ Edges' = Edges /\ AllAgree' = AllAgree
        /\ \A i \in Spins : FieldAt(i)' = FieldAt(i) /\ Row(i)' = Row(i)
    BY DEF Overlap, energy, FieldAt, Row, Edges, AllAgree, Agree
  <1>2. FlipsAddUp'
    BY <1>1 DEF Carried, FlipsAddUp, Agree
  <1> QED
    BY <1>1, <1>2 DEF Carried

(* What one start does and does not change.                                *)
LEMMA SolverInvStep == SolverInv /\ [SSNext]_ssVars => SolverInv'
  <1> SUFFICES ASSUME SolverInv, [SSNext]_ssVars PROVE SolverInv'
    OBVIOUS
  <1>a. /\ Carried /\ energy \in Int /\ Alpha \in Int
        /\ flips \in Int /\ annealed \in Int /\ search.e \in Int /\ search.rounds \in Nat
        /\ \A k \in Spins : Cost(k) \in Int /\ Margin(k) \in Int /\ Cost(k) = 4 * Margin(k)
        /\ AllAgree => /\ search.e = annealed + 4 * Alpha * flips
                       /\ energy <= annealed - 4 * Alpha * search.rounds
    <2>1. energy \in Int
      BY SumsAreIntegers DEF SolverInv, Carried
    <2>2. ASSUME NEW k \in Spins
          PROVE  Cost(k) \in Int /\ Margin(k) \in Int /\ Cost(k) = 4 * Margin(k)
      <3>1. /\ sparse_local[k] \in Int /\ Reference[k] \in Int /\ Alpha \in Int
            /\ m_ref \in Int /\ Size \in Int /\ spin[k] \in Int
        BY FieldsAssumption, SpinsAssumption, FS_CardinalityType DEF SolverInv, Carried, Size
      <3>2. local_field(k) \in Int
        BY <3>1 DEF local_field
      <3> QED
        BY <3>1, <3>2 DEF Cost, Margin
    <2> QED
      BY <2>1, <2>2, FieldsAssumption DEF SolverInv, EnergyIsHonest, AllAgree
  <1>b. EnergyIsHonest' = (AllAgree' => /\ search'.e = annealed' + 4 * Alpha * flips'
                                        /\ energy' <= annealed' - 4 * Alpha * search'.rounds)
    BY DEF EnergyIsHonest, AllAgree
  <1>1. ASSUME Anneal PROVE SolverInv'
    <2>1. PICK i \in Spins :
              \/ apply_flip(i) /\ Tried(search.e + Cost(i)) /\ flips' = flips + 1
              \/ Cost(i) > 0 /\ Rests /\ Tried(search.e) /\ UNCHANGED flips
      BY <1>1 DEF Anneal
    <2>2. weight' = weight /\ annealed' = energy' /\ search.phase = "anneal"
      BY <1>1 DEF Anneal
    <2>3. search.rounds = 0 /\ annealed = energy
      BY <2>2 DEF SolverInv
    <2>4. ASSUME NEW e \in Int, Tried(e)
          PROVE  /\ search' \in [baseline : Baselines, phase : {"anneal", "polish", "done"},
                                 step : Int, no_imp : Int, e : Int, best : Int, rounds : Nat]
                 /\ search'.e = e /\ search'.rounds = 0
      <3> DEFINE better == e < search.best
                 no_imp == IF better THEN 0 ELSE search.no_imp + 1
                 best == IF better THEN e ELSE search.best
                 phase == IF ~search.baseline /\ no_imp >= PlateauLimit THEN "polish"
                          ELSE search.phase
      <3>1. search \in [baseline : Baselines, phase : {"anneal", "polish", "done"}, step : Int,
                        no_imp : Int, e : Int, best : Int, rounds : Nat]
        BY DEF SolverInv
      <3>2. search' = [search EXCEPT !.step = search.step + 1, !.e = e, !.best = best,
                                     !.no_imp = no_imp, !.phase = phase]
        BY <2>4 DEF Tried
      <3>3. /\ no_imp \in Int /\ best \in Int /\ search.step + 1 \in Int
            /\ phase \in {"anneal", "polish", "done"}
        BY <3>1
      <3> HIDE DEF no_imp, best, phase
      <3> QED
        BY <2>3, <3>1, <3>2, <3>3
    <2>5. CASE apply_flip(i) /\ Tried(search.e + Cost(i)) /\ flips' = flips + 1
      <3>1. Carried'
        BY <1>a, <2>2, <2>5, FlipKeepsCarried
      <3>2. energy' \in Int
        BY <3>1, EnergyNext
      <3>3. AllAgree => energy' = energy + Cost(i) - 4 * Alpha
        BY <1>a, <2>2, <2>5, FlipCosts
      <3>4. AllAgree' = AllAgree
        BY <2>2 DEF AllAgree, Agree, Edges
      <3>5. search.e + Cost(i) \in Int
        BY <1>a
      <3>6. AllAgree => search'.e = annealed' + 4 * Alpha * flips'
        BY <1>a, <2>2, <2>3, <2>4, <2>5, <3>3, <3>5
      <3>7. energy' <= annealed' - 4 * Alpha * search'.rounds
        BY <1>a, <2>2, <2>4, <2>5, <3>2, <3>5
      <3>8. flips' \in Int
        BY <1>a, <2>5
      <3> QED
        BY <1>b, <2>2, <2>4, <2>5, <3>1, <3>2, <3>4, <3>5, <3>6, <3>7, <3>8 DEF SolverInv
    <2>6. CASE Cost(i) > 0 /\ Rests /\ Tried(search.e) /\ UNCHANGED flips
      <3>1. Carried' /\ energy' = energy /\ AllAgree' = AllAgree
        BY <1>a, <2>2, <2>6, RestKeepsCarried DEF Rests
      <3>2. energy' <= annealed' - 4 * Alpha * search'.rounds
        BY <1>a, <2>2, <2>4, <2>6, <3>1
      <3>3. AllAgree => search'.e = annealed' + 4 * Alpha * flips'
        BY <1>a, <2>2, <2>3, <2>4, <2>6, <3>1
      <3> QED
        BY <1>a, <1>b, <2>2, <2>4, <2>6, <3>1, <3>2, <3>3 DEF SolverInv
    <2> QED
      BY <2>1, <2>5, <2>6
  <1>2. ASSUME EndAnneal PROVE SolverInv'
    <2>1. /\ search.phase = "anneal"
          /\ search' = [search EXCEPT !.phase = IF search.baseline THEN "done" ELSE "polish"]
          /\ UNCHANGED <<weight, spin, packed, sparse_local, m_ref, flips, annealed>>
      BY <1>2 DEF EndAnneal
    <2>2. Carried' /\ energy' = energy /\ AllAgree' = AllAgree
      BY <1>a, <2>1, RestKeepsCarried
    <2>3. /\ search' \in [baseline : Baselines, phase : {"anneal", "polish", "done"}, step : Int,
                          no_imp : Int, e : Int, best : Int, rounds : Nat]
          /\ search'.e = search.e /\ search'.rounds = search.rounds
          /\ search'.phase # "anneal"
      BY <2>1 DEF SolverInv
    <2> QED
      BY <1>a, <1>b, <2>1, <2>2, <2>3 DEF SolverInv
  <1>3. ASSUME Polish PROVE SolverInv'
    <2>1. PICK i \in Worst : apply_flip(i)
      BY <1>3 DEF Polish
    <2>2. /\ search.phase = "polish" /\ search' = [search EXCEPT !.rounds = @ + 1]
          /\ UNCHANGED <<weight, flips, annealed>>
      BY <1>3 DEF Polish
    <2>3. i \in Spins /\ Margin(i) < 0
      BY DEF Worst
    <2>4. Carried'
      BY <1>a, <2>1, <2>2, <2>3, FlipKeepsCarried
    <2>5. energy' \in Int
      BY <2>4, EnergyNext
    <2>6. AllAgree => energy' = energy + Cost(i) - 4 * Alpha
      BY <1>a, <2>1, <2>2, <2>3, FlipCosts
    <2>7. AllAgree' = AllAgree
      BY <2>2 DEF AllAgree, Agree, Edges
    <2>8. /\ search' \in [baseline : Baselines, phase : {"anneal", "polish", "done"}, step : Int,
                          no_imp : Int, e : Int, best : Int, rounds : Nat]
          /\ search'.e = search.e /\ search'.rounds = search.rounds + 1
          /\ search'.phase # "anneal"
      BY <2>2 DEF SolverInv
    <2>9. AllAgree => energy' <= annealed' - 4 * Alpha * search'.rounds
      <3>1. Cost(i) < 0 /\ Cost(i) \in Int
        BY <1>a, <2>3
      <3> QED
        BY <1>a, <2>2, <2>5, <2>6, <2>8, <3>1
    <2> QED
      BY <1>a, <1>b, <2>2, <2>4, <2>7, <2>8, <2>9 DEF SolverInv
  <1>4. ASSUME EndPolish PROVE SolverInv'
    <2>1. /\ search' = [search EXCEPT !.phase = "done"]
          /\ UNCHANGED <<weight, spin, packed, sparse_local, m_ref, flips, annealed>>
      BY <1>4 DEF EndPolish
    <2>2. Carried' /\ energy' = energy /\ AllAgree' = AllAgree
      BY <1>a, <2>1, RestKeepsCarried
    <2>3. /\ search' \in [baseline : Baselines, phase : {"anneal", "polish", "done"}, step : Int,
                          no_imp : Int, e : Int, best : Int, rounds : Nat]
          /\ search'.e = search.e /\ search'.rounds = search.rounds
          /\ search'.phase # "anneal"
      BY <2>1 DEF SolverInv
    <2> QED
      BY <1>a, <1>b, <2>1, <2>2, <2>3 DEF SolverInv
  <1>5. ASSUME UNCHANGED ssVars PROVE SolverInv'
    <2>1. /\ Carried' /\ energy' = energy /\ AllAgree' = AllAgree
          /\ UNCHANGED <<search, flips, annealed>>
      BY <1>a, <1>5, RestKeepsCarried DEF ssVars
    <2> QED
      BY <1>a, <1>b, <2>1 DEF SolverInv
  <1> QED
    BY <1>1, <1>2, <1>3, <1>4, <1>5 DEF SSNext

(* However many spins are turned, in whichever order and on whichever      *)
(* graph, what a start carries along is what it would be computed anew:    *)
(* the bits, the overlap, the fields of the spins whose neighbours' rows   *)
(* agree with theirs; and where all rows agree, the running energy is off  *)
(* by exactly the coupling of each flipped spin to itself.                 *)
THEOREM SolverIsConsistentHolds == SSSpec => []SolverIsConsistent
  <1>1. SSInit => SolverInv
    <2> SUFFICES ASSUME SSInit PROVE SolverInv
      OBVIOUS
    <2>1. PICK draws \in Draws : weight \in Matrices(draws)
      BY DEF SSInit
    <2>2. Coupled(weight)
      BY <2>1, DrawnIsCoupled
    <2>3. /\ spin \in [Spins -> {-1, 1}] /\ packed = {i \in Spins : spin[i] > 0}
          /\ sparse_local = [i \in Spins |-> FieldAt(i)] /\ m_ref = Overlap
          /\ flips = 0 /\ annealed = energy
      BY DEF SSInit
    <2>4. /\ Overlap \in Int /\ \A i \in Spins : FieldAt(i) \in Int
          /\ energy \in Int
      BY <2>2, <2>3, SumsAreIntegers
    <2>5. Carried
      BY <2>2, <2>3, <2>4 DEF Carried, FlipsAddUp
    <2>6. PICK b \in Baselines :
              search = [baseline |-> b, phase |-> "anneal", step |-> 0, no_imp |-> 0,
                        e |-> energy, best |-> energy, rounds |-> 0]
      BY DEF SSInit
    <2>7. /\ search \in [baseline : Baselines, phase : {"anneal", "polish", "done"}, step : Int,
                         no_imp : Int, e : Int, best : Int, rounds : Nat]
          /\ search.e = energy /\ search.rounds = 0
      BY <2>4, <2>6
    <2>8. EnergyIsHonest
      BY <2>3, <2>4, <2>7, FieldsAssumption DEF EnergyIsHonest
    <2> QED
      BY <2>3, <2>4, <2>5, <2>7, <2>8 DEF SolverInv
  <1>2. SolverInv => SolverIsConsistent
    BY DEF SolverInv, Carried, SolverIsConsistent
  <1> QED
    BY <1>1, <1>2, SolverInvStep, PTL DEF SSSpec

-----------------------------------------------------------------------------
(* The portable pipeline: any artifacts, chips, decisions and mappings.    *)

(* A set of naturals that is not empty has a lowest element, one within    *)
(* bounds also a highest.                                                  *)
LEMMA LowestOf ==
    ASSUME NEW S \in SUBSET Int, S # {}, NEW low \in Int, \A x \in S : x >= low
    PROVE  Lowest(S) \in S /\ \A x \in S : Lowest(S) <= x
  <1> DEFINE D == {x - low : x \in S}
  <1>1. D \in SUBSET Nat /\ D # {}
    <2>1. ASSUME NEW x \in S PROVE x - low \in Nat
      <3>1. x \in Int
        OBVIOUS
      <3> QED
        BY <3>1
    <2> QED
      BY ONLY <2>1, S # {}
  <1>2. PICK l \in D : \A k \in D : l <= k
    BY <1>1, LeastExists DEF IsLeast
  <1>3. PICK x \in S : l = x - low
    OBVIOUS
  <1>4. \A y \in S : x <= y
    <2> SUFFICES ASSUME NEW y \in S PROVE x <= y
      OBVIOUS
    <2>1. y - low \in D
      OBVIOUS
    <2> HIDE DEF D
    <2> QED
      BY <1>2, <1>3, <2>1
  <1> QED
    BY <1>4 DEF Lowest

(* The same from above. *)
LEMMA HighestOf ==
    ASSUME NEW S \in SUBSET Int, S # {}, NEW high \in Int, \A x \in S : x <= high
    PROVE  Highest(S) \in S /\ \A x \in S : Highest(S) >= x
  <1> DEFINE D == {high - x : x \in S}
  <1>1. D \in SUBSET Nat /\ D # {}
    <2>1. ASSUME NEW x \in S PROVE high - x \in Nat
      <3>1. x \in Int
        OBVIOUS
      <3> QED
        BY <3>1
    <2> QED
      BY ONLY <2>1, S # {}
  <1>2. PICK l \in D : \A k \in D : l <= k
    BY <1>1, LeastExists DEF IsLeast
  <1>3. PICK x \in S : l = high - x
    OBVIOUS
  <1>4. \A y \in S : x >= y
    <2> SUFFICES ASSUME NEW y \in S PROVE x >= y
      OBVIOUS
    <2>1. high - y \in D
      OBVIOUS
    <2> HIDE DEF D
    <2> QED
      BY <1>2, <1>3, <2>1
  <1> QED
    BY <1>4 DEF Highest

(* Of two numbers.                                                         *)
LEMMA BoundsOfTwo ==
    ASSUME NEW a \in Int, NEW b \in Int
    PROVE  /\ Lowest({a, b}) = IF a <= b THEN a ELSE b
           /\ Highest({a, b}) = IF a >= b THEN a ELSE b
  <1>1. Lowest({a, b}) = IF a <= b THEN a ELSE b
    <2>1. \E x \in {a, b} : \A y \in {a, b} : x <= y
      OBVIOUS
    <2>2. Lowest({a, b}) \in {a, b} /\ \A y \in {a, b} : Lowest({a, b}) <= y
      BY <2>1 DEF Lowest
    <2> QED
      BY <2>2
  <1>2. Highest({a, b}) = IF a >= b THEN a ELSE b
    <2>1. \E x \in {a, b} : \A y \in {a, b} : x >= y
      OBVIOUS
    <2>2. Highest({a, b}) \in {a, b} /\ \A y \in {a, b} : Highest({a, b}) >= y
      BY <2>1 DEF Highest
    <2> QED
      BY <2>2
  <1> QED
    BY <1>1, <1>2

(* A value is moved into its bounds and no farther.                        *)
LEMMA ClampIs ==
    ASSUME NEW x \in Int, NEW low \in Int, NEW high \in Int, low <= high
    PROVE  /\ Clamp(x, low, high) \in low .. high
           /\ x \in low .. high => Clamp(x, low, high) = x
  <1>1. Lowest({x, high}) = IF x <= high THEN x ELSE high
    BY BoundsOfTwo
  <1>2. Lowest({x, high}) \in Int
    BY <1>1
  <1>3. Clamp(x, low, high) = IF low >= Lowest({x, high}) THEN low ELSE Lowest({x, high})
    BY <1>2, BoundsOfTwo DEF Clamp
  <1> QED
    BY <1>1, <1>3

(* What rules may ask.                                                     *)
RequirementsOK(r) ==
    /\ r.sfMin \in Int /\ r.sfMax \in Int /\ r.bws \subseteq Int
    /\ r.txMax \in Int /\ r.txMax >= LeastPower

OfferOK(n, c) ==
    /\ n.sfMin \in Int /\ n.sfMax \in Int /\ n.sfMin >= c.sfMin /\ n.sfMax <= c.sfMax
    /\ n.txMax \in Int /\ n.txMax >= LeastPower /\ n.txMax <= c.txMax
    /\ n.bws \subseteq {c.bws[i] : i \in DOMAIN c.bws}
    /\ n.bws = {} => c.bws = <<>>

(* What rules ask of a key lies in its range.                              *)
LEMMA AskedIs ==
    ASSUME NEW rules \in ChipArtifacts, NEW key \in {"sf", "bw", "tx"},
           NEW low \in Int, NEW high \in Int, low <= high
    PROVE  Asked(rules, key, low, high) \subseteq low .. high
  <1> SUFFICES ASSUME NEW r \in rules, key \in DOMAIN r
               PROVE  Clamp(r[key], low, high) \in low .. high
    BY DEF Asked
  <1>1. r[key] \in Int
    BY RulesAssumption
  <1> QED
    BY <1>1, ClampIs

(* An offer is within what the chip can do, and where it is not reported   *)
(* downgraded it is what was asked.                                        *)
LEMMA NegotiatedIs ==
    ASSUME NEW r, RequirementsOK(r), NEW c \in Capabilities
    PROVE  LET d == Negotiated(r, c) IN
           /\ OfferOK(d.offer, c)
           /\ d.compatible => d.offer.sfMin <= d.offer.sfMax
           /\ d.compatible /\ ~d.downgraded =>
                  /\ d.offer.sfMin = r.sfMin /\ d.offer.sfMax = r.sfMax
                  /\ d.offer.txMax = r.txMax
                  /\ d.offer.bws = r.bws \/ d.offer.bws = {}
  <1> DEFINE n == Negotiated(r, c).offer
  <1>1. /\ c.sfMin \in Nat /\ c.sfMax \in Nat /\ c.txMax \in Int /\ c.txMax >= LeastPower
        /\ c.bws \in Seq(Nat)
    BY CapabilitiesAssumption
  <1>2. /\ n.sfMin = Highest({r.sfMin, c.sfMin}) /\ n.sfMax = Lowest({r.sfMax, c.sfMax})
        /\ n.bws = Bandwidths(r.bws, c.bws) /\ n.txMax = Lowest({r.txMax, c.txMax})
    BY DEF Negotiated
  <1>3. /\ n.sfMin = IF r.sfMin >= c.sfMin THEN r.sfMin ELSE c.sfMin
        /\ n.sfMax = IF r.sfMax <= c.sfMax THEN r.sfMax ELSE c.sfMax
    <2> HIDE DEF n
    <2>1. r.sfMin \in Int /\ r.sfMax \in Int /\ c.sfMin \in Int /\ c.sfMax \in Int
      BY <1>1 DEF RequirementsOK
    <2> QED
      BY <1>2, <2>1, BoundsOfTwo
  <1>4. n.txMax = IF r.txMax <= c.txMax THEN r.txMax ELSE c.txMax
    <2>1. r.txMax \in Int /\ c.txMax \in Int
      BY <1>1 DEF RequirementsOK
    <2> QED
      BY <1>2, <2>1, BoundsOfTwo
  <1>5. /\ n.bws \subseteq {c.bws[i] : i \in DOMAIN c.bws}
        /\ n.bws = {} => c.bws = <<>>
    <2>1. CASE c.bws = <<>>
      BY <1>2, <2>1 DEF Bandwidths
    <2>2. CASE c.bws # <<>>
      <3>1. 1 \in DOMAIN c.bws
        BY <1>1, <2>2
      <3>2. c.bws[1] \in {c.bws[i] : i \in DOMAIN c.bws}
        BY <3>1
      <3> QED
        BY <1>2, <2>2, <3>2 DEF Bandwidths
    <2> QED
      BY <2>1, <2>2
  <1>6. OfferOK(n, c)
    BY <1>1, <1>3, <1>4, <1>5 DEF OfferOK, RequirementsOK
  <1>7. Negotiated(r, c).compatible = (n.sfMin <= n.sfMax)
    BY DEF Negotiated
  <1>8. ASSUME Negotiated(r, c).compatible, ~Negotiated(r, c).downgraded
        PROVE  /\ n.sfMin = r.sfMin /\ n.sfMax = r.sfMax /\ n.txMax = r.txMax
               /\ n.bws = r.bws \/ n.bws = {}
    BY <1>8 DEF Negotiated
  <1> QED
    BY <1>6, <1>7, <1>8

-----------------------------------------------------------------------------

(* What the pipeline has found out at each stage.                          *)
CPInv ==
    /\ pack.rules \in ChipArtifacts /\ pack.cap \in Capabilities /\ pack.mapping \in Mappings
    /\ stage \in {"derive", "negotiate", "decide", "write", "failed"}
    /\ stage # "derive" => RequirementsOK(requirements)
    /\ stage \in {"decide", "write"} =>
           /\ negotiation = Negotiated(requirements, pack.cap)
           /\ negotiation.compatible
    /\ writes \in Seq(Int)
    /\ stage # "write" => writes = <<>>
    /\ stage = "write" =>
           /\ verdict \in ChipDecisions
           /\ Len(writes) <= Len(pack.mapping)
           /\ \A i \in 1 .. Len(writes) :
                  LET rule == pack.mapping[i]
                  IN  writes[i] = Encode(rule, Fit(rule.field, verdict[rule.field]))

(* A decision is fitted to the chip, and left alone where it may be.       *)
LEMMA FitIs ==
    ASSUME CPInv, stage = "write", NEW field \in {"sf", "tx", "bw"}
    PROVE  /\ Fit(field, verdict[field]) \in Possible(field)
           /\ Fit(field, verdict[field]) \in Int
           /\ ~negotiation.downgraded =>
                  \/ field = "sf" /\ verdict.sf \notin requirements.sfMin .. requirements.sfMax
                  \/ field = "tx" /\ verdict.tx > requirements.txMax
                  \/ field = "bw" /\ verdict.bw \notin requirements.bws
                  \/ Fit(field, verdict[field]) = verdict[field]
  <1> DEFINE n == negotiation.offer
             c == pack.cap
  <1>1. /\ RequirementsOK(requirements) /\ c \in Capabilities
        /\ negotiation = Negotiated(requirements, c) /\ negotiation.compatible
    BY DEF CPInv
  <1>2. /\ OfferOK(n, c) /\ n.sfMin <= n.sfMax
        /\ ~negotiation.downgraded =>
               /\ n.sfMin = requirements.sfMin /\ n.sfMax = requirements.sfMax
               /\ n.txMax = requirements.txMax
               /\ n.bws = requirements.bws \/ n.bws = {}
    BY <1>1, NegotiatedIs
  <1>3. /\ c.sfMin \in Nat /\ c.sfMax \in Nat /\ c.txMax \in Int /\ c.bws \in Seq(Nat)
        /\ verdict.sf \in Nat /\ verdict.bw \in Nat /\ verdict.tx \in Int
        /\ verdict.tx >= LeastPower
    BY <1>1, CapabilitiesAssumption, DecisionsAssumption DEF CPInv
  <1>4. CASE field = "sf"
    <2>1. Fit(field, verdict[field]) = Clamp(verdict.sf, n.sfMin, n.sfMax)
      BY <1>4 DEF Fit
    <2>2. /\ n.sfMin \in Int /\ n.sfMax \in Int /\ n.sfMin <= n.sfMax
          /\ c.sfMin <= n.sfMin /\ n.sfMax <= c.sfMax
      BY <1>2 DEF OfferOK
    <2>3. /\ Clamp(verdict.sf, n.sfMin, n.sfMax) \in n.sfMin .. n.sfMax
          /\ verdict.sf \in n.sfMin .. n.sfMax => Clamp(verdict.sf, n.sfMin, n.sfMax) = verdict.sf
      <3> HIDE DEF n
      <3>1. verdict.sf \in Int
        BY <1>3
      <3> QED
        BY <2>2, <3>1, ClampIs
    <2>4. Possible(field) = c.sfMin .. c.sfMax
      BY <1>4 DEF Possible
    <2> HIDE DEF n, c
    <2>5. Clamp(verdict.sf, n.sfMin, n.sfMax) \in c.sfMin .. c.sfMax
      BY <1>3, <2>2, <2>3
    <2>6. Fit(field, verdict[field]) \in Possible(field)
      BY <2>1, <2>4, <2>5
    <2>7. Fit(field, verdict[field]) \in Int
      BY <2>1, <2>2, <2>3
    <2>8. ASSUME ~negotiation.downgraded, verdict.sf \in requirements.sfMin .. requirements.sfMax
          PROVE  Fit(field, verdict[field]) = verdict[field]
      BY <1>2, <1>4, <2>1, <2>3, <2>8
    <2> QED
      BY <1>4, <2>6, <2>7, <2>8
  <1>5. CASE field = "tx"
    <2>1. Fit(field, verdict[field]) = Lowest({verdict.tx, n.txMax})
      BY <1>5 DEF Fit
    <2>2. n.txMax \in Int /\ n.txMax >= LeastPower /\ n.txMax <= c.txMax
      BY <1>2 DEF OfferOK
    <2>3. Lowest({verdict.tx, n.txMax}) = IF verdict.tx <= n.txMax THEN verdict.tx ELSE n.txMax
      <3> HIDE DEF n
      <3> QED
        BY <1>3, <2>2, BoundsOfTwo
    <2>4. Possible(field) = LeastPower .. c.txMax
      BY <1>5 DEF Possible
    <2> HIDE DEF n, c
    <2>5. LeastPower \in Int
      BY DEF LeastPower
    <2> QED
      BY <1>2, <1>3, <1>5, <2>1, <2>2, <2>3, <2>4, <2>5
  <1>6. CASE field = "bw"
    <2> DEFINE offered == {c.bws[i] : i \in DOMAIN c.bws}
    <2>1. Fit(field, verdict[field])
              = IF verdict.bw \in n.bws \/ n.bws = {} THEN verdict.bw ELSE Lowest(n.bws)
      BY <1>6 DEF Fit
    <2>2. n.bws \subseteq offered /\ (n.bws = {} => c.bws = <<>>)
      BY <1>2 DEF OfferOK
    <2>3. offered \subseteq Nat
      BY <1>3
    <2>4. Possible(field) = IF c.bws = <<>> THEN {verdict.bw} ELSE offered
      BY <1>6 DEF Possible
    <2>5. c.bws = <<>> => offered = {}
      OBVIOUS
    <2>6. n.bws # {} => Lowest(n.bws) \in n.bws
      <3> HIDE DEF n, offered
      <3>1. \A x \in n.bws : x \in Nat
        BY <2>2, <2>3
      <3>2. n.bws \in SUBSET Int /\ (\A x \in n.bws : x >= 0) /\ 0 \in Int
        BY <3>1
      <3> QED
        BY ONLY <3>2, LowestOf
    <2>7. n.bws # {} => c.bws # <<>>
      BY <2>2, <2>5
    <2> HIDE DEF n, c, offered
    <2>8. Fit(field, verdict[field]) \in Possible(field)
      BY <2>1, <2>2, <2>4, <2>6, <2>7
    <2>9. Fit(field, verdict[field]) \in Int
      <3>1. CASE verdict.bw \in n.bws \/ n.bws = {}
        BY <1>3, <2>1, <3>1
      <3>2. CASE n.bws # {} /\ verdict.bw \notin n.bws
        <4>1. Lowest(n.bws) \in Nat
          BY <2>2, <2>3, <2>6, <3>2
        <4> QED
          BY <2>1, <3>2, <4>1
      <3> QED
        BY <3>1, <3>2
    <2>10. ASSUME ~negotiation.downgraded, verdict.bw \in requirements.bws
           PROVE  Fit(field, verdict[field]) = verdict[field]
      BY <1>2, <1>6, <2>1, <2>10
    <2> QED
      BY <1>6, <2>8, <2>9, <2>10
  <1> QED
    BY <1>4, <1>5, <1>6

(* One step.                                                               *)
LEMMA CPStepKeeps == CPInv /\ [CPNext]_cpVars => CPInv'
  <1> SUFFICES ASSUME CPInv, [CPNext]_cpVars PROVE CPInv'
    OBVIOUS
  <1>1. ASSUME Derive PROVE CPInv'
    <2> DEFINE sf == Asked(pack.rules, "sf", 7, 12)
               bw == Asked(pack.rules, "bw", 62, 500)
               tx == Asked(pack.rules, "tx", -4, 20)
    <2>1. pack.rules \in ChipArtifacts
      BY DEF CPInv
    <2>2. /\ \A x \in sf : x \in Int /\ x >= 7 /\ x <= 12
          /\ \A x \in bw : x \in Int
          /\ \A x \in tx : x \in Int /\ x >= -4 /\ x <= 20
      <3>1. sf \subseteq 7 .. 12
        BY <2>1, AskedIs
      <3>2. bw \subseteq 62 .. 500
        BY <2>1, AskedIs
      <3>3. tx \subseteq -4 .. 20
        BY <2>1, AskedIs
      <3> HIDE DEF sf, bw, tx
      <3> QED
        BY <3>1, <3>2, <3>3
    <2>3. /\ requirements'.sfMin = (IF sf = {} THEN 7 ELSE Lowest(sf))
          /\ requirements'.sfMax = (IF sf = {} THEN 12 ELSE Highest(sf))
          /\ requirements'.bws = (IF bw = {} THEN {62, 125, 250, 500} ELSE bw)
          /\ requirements'.txMax = (IF tx = {} THEN 20 ELSE Highest(tx))
      BY <1>1 DEF Derive
    <2> HIDE DEF sf, bw, tx
    <2>4. sf # {} => Lowest(sf) \in sf /\ Highest(sf) \in sf
      <3>1. sf \in SUBSET Int /\ (\A x \in sf : x >= 7) /\ (\A x \in sf : x <= 12)
        BY <2>2
      <3>2. 7 \in Int /\ 12 \in Int
        OBVIOUS
      <3> QED
        BY ONLY <3>1, <3>2, LowestOf, HighestOf
    <2>5. tx # {} => Highest(tx) \in tx
      <3>1. tx \in SUBSET Int /\ (\A x \in tx : x <= 20)
        BY <2>2
      <3>2. 20 \in Int
        OBVIOUS
      <3> QED
        BY ONLY <3>1, <3>2, HighestOf
    <2>6. RequirementsOK(requirements)'
      BY <2>2, <2>3, <2>4, <2>5 DEF RequirementsOK, LeastPower
    <2> QED
      BY <1>1, <2>6 DEF Derive, CPInv
  <1>2. ASSUME Negotiate PROVE CPInv'
    <2>1. negotiation' = Negotiated(requirements, pack.cap)
      BY <1>2 DEF Negotiate
    <2>2. stage' \in {"decide", "failed"} /\ (stage' = "decide" => negotiation'.compatible)
      BY <1>2 DEF Negotiate
    <2> QED
      BY <1>2, <2>1, <2>2 DEF Negotiate, CPInv
  <1>3. ASSUME Execute PROVE CPInv'
    <2>1. /\ stage = "decide" /\ stage' = "write" /\ verdict' \in ChipDecisions
          /\ UNCHANGED <<pack, requirements, negotiation, writes>> /\ writes = <<>>
      BY <1>3 DEF Execute, CPInv
    <2>2. Len(pack.mapping) \in Nat
      BY MappingsAssumption DEF CPInv
    <2>3. Len(writes') = 0 /\ 1 .. 0 = {}
      BY <2>1
    <2> QED
      BY <2>1, <2>2, <2>3 DEF CPInv
  <1>4. ASSUME WriteNext PROVE CPInv'
    <2> DEFINE k == Len(writes) + 1
               rule == pack.mapping[k]
               w == Encode(rule, Fit(rule.field, verdict[rule.field]))
    <2>1. /\ stage = "write" /\ Len(writes) < Len(pack.mapping)
          /\ writes' = Append(writes, w)
          /\ UNCHANGED <<pack, stage, requirements, negotiation, verdict>>
      BY <1>4 DEF WriteNext
    <2>2. writes \in Seq(Int) /\ Len(writes) \in Nat
      BY DEF CPInv
    <2>3. pack.mapping \in Seq([field : {"sf", "tx", "bw"}, scale : Int, offset : Int])
      BY MappingsAssumption DEF CPInv
    <2>4. rule \in [field : {"sf", "tx", "bw"}, scale : Int, offset : Int]
      <3>1. Len(pack.mapping) \in Nat
        BY <2>3
      <3>2. k \in 1 .. Len(pack.mapping)
        BY <2>1, <2>2, <3>1
      <3> HIDE DEF k
      <3> QED
        BY <2>3, <3>2, ElementOfSeq
    <2>5. Fit(rule.field, verdict[rule.field]) \in Int
      <3> HIDE DEF rule
      <3> QED
        BY <2>1, <2>4, FitIs
    <2>6. w \in Int
      <3> DEFINE v == Fit(rule.field, verdict[rule.field])
      <3>1. v \in Int /\ rule.scale \in Int /\ rule.offset \in Int
        BY <2>4, <2>5
      <3> HIDE DEF v, rule
      <3>2. v * rule.scale + rule.offset \in Int
        BY <3>1
      <3>3. Encode(rule, v) \in Int
        <4>1. 0 \in Int
          OBVIOUS
        <4>2. Highest({0, v * rule.scale + rule.offset}) \in {0, v * rule.scale + rule.offset}
          BY <3>2, <4>1, BoundsOfTwo
        <4> QED
          BY <3>2, <4>2 DEF Encode
      <3> QED
        BY <3>3 DEF v
    <2>7. /\ writes' \in Seq(Int) /\ Len(writes') = k
          /\ writes'[k] = w /\ \A i \in 1 .. Len(writes) : writes'[i] = writes[i]
      <3> HIDE DEF w
      <3> QED
        BY <2>1, <2>2, <2>6
    <2>8. Len(writes') <= Len(pack.mapping)
      BY <2>1, <2>2, <2>3, <2>7
    <2>9. ASSUME NEW i \in 1 .. Len(writes')
          PROVE  writes'[i] = Encode(pack.mapping[i], Fit(pack.mapping[i].field, verdict[pack.mapping[i].field]))
      <3>1. CASE i = k
        <4> HIDE DEF k
        <4> QED
          BY <2>7, <3>1
      <3>2. CASE i # k
        <4>1. i \in 1 .. Len(writes)
          BY <2>2, <2>7, <3>2
        <4> HIDE DEF k
        <4> QED
          BY <2>1, <2>7, <4>1 DEF CPInv
      <3> QED
        BY <3>1, <3>2
    <2>10. \A field, v : Fit(field, v)' = Fit(field, v)
      BY <2>1 DEF Fit
    <2> HIDE DEF k, rule, w
    <2> QED
      BY <2>1, <2>7, <2>8, <2>9 DEF CPInv, Fit
  <1>5. ASSUME UNCHANGED cpVars PROVE CPInv'
    BY <1>5 DEF cpVars, CPInv, Fit
  <1> QED
    BY <1>1, <1>2, <1>3, <1>4, <1>5 DEF CPNext

(* Whatever an artifact asks and the executor decides, a chip is told only *)
(* what it can do, and a pipeline that reports no downgrade leaves what    *)
(* was asked and decided as it is.                                         *)
THEOREM PipelineIsHonestHolds == CPSpec => []PipelineIsHonest
  <1>1. CPInit => CPInv
    BY DEF CPInit, CPInv
  <1>2. CPInv => PipelineIsHonest
    <2> SUFFICES ASSUME CPInv, NEW i \in DOMAIN writes
                 PROVE  /\ \E v \in Possible(pack.mapping[i].field) :
                               writes[i] = Encode(pack.mapping[i], v)
                        /\ ~negotiation.downgraded =>
                               LET field == pack.mapping[i].field
                                   v == verdict[field]
                                   r == requirements
                               IN  \/ field = "sf" /\ v \notin r.sfMin .. r.sfMax
                                   \/ field = "tx" /\ v > r.txMax
                                   \/ field = "bw" /\ v \notin r.bws
                                   \/ writes[i] = Encode(pack.mapping[i], v)
      BY DEF PipelineIsHonest, WritesFitChip, SilenceMeansVerbatim
    <2> DEFINE rule == pack.mapping[i]
    <2>1. stage = "write" /\ i \in 1 .. Len(writes)
      BY DEF CPInv
    <2>2. rule.field \in {"sf", "tx", "bw"}
      <3>1. pack.mapping \in Seq([field : {"sf", "tx", "bw"}, scale : Int, offset : Int])
        BY MappingsAssumption DEF CPInv
      <3>2. i \in 1 .. Len(pack.mapping)
        <4>1. Len(writes) <= Len(pack.mapping) /\ Len(writes) \in Nat /\ Len(pack.mapping) \in Nat
          BY <2>1, <3>1 DEF CPInv
        <4> QED
          BY <2>1, <4>1
      <3>3. rule \in [field : {"sf", "tx", "bw"}, scale : Int, offset : Int]
        BY <3>1, <3>2, ElementOfSeq
      <3> QED
        BY <3>3
    <2>3. writes[i] = Encode(rule, Fit(rule.field, verdict[rule.field]))
      BY <2>1 DEF CPInv
    <2> HIDE DEF rule
    <2>4. /\ Fit(rule.field, verdict[rule.field]) \in Possible(rule.field)
          /\ ~negotiation.downgraded =>
                  \/ rule.field = "sf" /\ verdict.sf \notin requirements.sfMin .. requirements.sfMax
                  \/ rule.field = "tx" /\ verdict.tx > requirements.txMax
                  \/ rule.field = "bw" /\ verdict.bw \notin requirements.bws
                  \/ Fit(rule.field, verdict[rule.field]) = verdict[rule.field]
      BY <2>1, <2>2, FitIs
    <2> QED
      BY <2>3, <2>4 DEF rule
  <1> QED
    BY <1>1, <1>2, CPStepKeeps, PTL DEF CPSpec

-----------------------------------------------------------------------------
(* GPL policies: any policies, files, metrics and contexts. First, how a   *)
(* policy is lowered.                                                      *)

IsPolicy(p) ==
    \E n \in Nat :
        /\ DOMAIN p = 1 .. n
        /\ \A i \in 1 .. n : p[i].name \in Nat \ {0} /\ p[i].priority \in Nat

(* Rule j of a policy is lowered to a place before that of rule i.         *)
LoweredBefore(p, j, i) ==
    \/ p[j].priority > p[i].priority
    \/ /\ p[j].priority = p[i].priority
       /\ p[j].name < p[i].name \/ (p[j].name = p[i].name /\ j < i)

(* Lowering puts each rule at a place, before those it is to go before.    *)
LEMMA LowerIs ==
    ASSUME NEW p, NEW n \in Nat, DOMAIN p = 1 .. n,
           \A i \in 1 .. n : p[i].name \in Nat \ {0} /\ p[i].priority \in Nat
    PROVE  \E place \in [1 .. n -> 1 .. n] :
               /\ DOMAIN Lower(p) = 1 .. n
               /\ \A i \in 1 .. n : Lower(p)[place[i]] = p[i]
               /\ \A k \in 1 .. n : \E i \in 1 .. n : place[i] = k
               /\ \A i, j \in 1 .. n : LoweredBefore(p, j, i) => place[j] < place[i]
  <1> DEFINE Prior == [i \in 1 .. n |-> {j \in 1 .. n : LoweredBefore(p, j, i)}]
             place == [i \in 1 .. n |-> Position(Prior, i)]
  <1>1. \A i \in 1 .. n : p[i].name \in Int /\ p[i].priority \in Int
    OBVIOUS
  <1>2. Orders(Prior, 1 .. n)
    <2>1. \A i \in 1 .. n : Prior[i] \subseteq 1 .. n /\ i \notin Prior[i]
      BY <1>1 DEF LoweredBefore
    <2>2. ASSUME NEW i \in 1 .. n, NEW k \in 1 .. n, i \in Prior[k], NEW j \in Prior[i]
          PROVE  j \in Prior[k]
      <3>1. LoweredBefore(p, i, k) /\ LoweredBefore(p, j, i) /\ j \in 1 .. n
        BY <2>2
      <3>2. LoweredBefore(p, j, k)
        BY <1>1, <3>1 DEF LoweredBefore
      <3> QED
        BY <3>1, <3>2
    <2>3. ASSUME NEW i \in 1 .. n, NEW k \in 1 .. n, i # k
          PROVE  i \in Prior[k] \/ k \in Prior[i]
      BY <1>1, <2>3 DEF LoweredBefore
    <2> HIDE DEF Prior
    <2> QED
      BY <2>1, <2>2, <2>3 DEF Orders
  <1>3. ASSUME NEW i \in 1 .. n
        PROVE  Prior[i] = {j \in DOMAIN p :
                               Before(p[j], p[i]) \/ (j < i /\ ~Before(p[i], p[j]))}
    <2>1. ASSUME NEW j \in 1 .. n
          PROVE  LoweredBefore(p, j, i) <=> Before(p[j], p[i]) \/ (j < i /\ ~Before(p[i], p[j]))
      BY <1>1 DEF LoweredBefore, Before
    <2> QED
      BY <2>1
  <1>4. ASSUME NEW k \in 1 .. n
        PROVE  Lower(p)[k] = p[CHOOSE i \in 1 .. n : Position(Prior, i) = k]
    <2> DEFINE At(i) ==
                   Cardinality({j \in DOMAIN p :
                       Before(p[j], p[i]) \/ (j < i /\ ~Before(p[i], p[j]))}) + 1
    <2>1. Lower(p)[k] = p[CHOOSE i \in DOMAIN p : At(i) = k]
      BY DEF Lower
    <2>2. \A i \in 1 .. n : At(i) = Position(Prior, i)
      <3> HIDE DEF Prior
      <3> QED
        BY <1>3 DEF Position
    <2> HIDE DEF At, Prior
    <2>3. (CHOOSE i \in DOMAIN p : At(i) = k) = (CHOOSE i \in 1 .. n : Position(Prior, i) = k)
      BY <2>2
    <2> QED
      BY <2>1, <2>3
  <1>5. DOMAIN Lower(p) = 1 .. n
    BY DEF Lower
  <1>6. \A i, j \in 1 .. n : LoweredBefore(p, j, i) => j \in Prior[i]
    OBVIOUS
  <1> HIDE DEF Prior
  <1>7. /\ \A i \in 1 .. n : Position(Prior, i) \in 1 .. n
        /\ \A i, k \in 1 .. n : i \in Prior[k] => Position(Prior, i) < Position(Prior, k)
        /\ \A i, k \in 1 .. n : Position(Prior, i) = Position(Prior, k) => i = k
        /\ \A q \in 1 .. n : \E i \in 1 .. n : Position(Prior, i) = q
    <2>1. IsFiniteSet(1 .. n) /\ Cardinality(1 .. n) = n
      BY FS_Interval
    <2> QED
      BY ONLY <1>2, <2>1, PositionsInOrder
  <1>8. \A i \in 1 .. n : Lower(p)[place[i]] = p[i]
    <2> SUFFICES ASSUME NEW i \in 1 .. n PROVE Lower(p)[Position(Prior, i)] = p[i]
      OBVIOUS
    <2> DEFINE k == Position(Prior, i)
               x == CHOOSE j \in 1 .. n : Position(Prior, j) = k
    <2>1. x \in 1 .. n /\ Position(Prior, x) = k
      OBVIOUS
    <2>2. x = i
      BY <1>7, <2>1
    <2>3. k \in 1 .. n
      BY <1>7
    <2> QED
      BY <1>4, <2>2, <2>3
  <1>9. \A i \in 1 .. n : place[i] = Position(Prior, i)
    OBVIOUS
  <1>10. place \in [1 .. n -> 1 .. n]
    BY <1>7
  <1> HIDE DEF place
  <1>11. \A k \in 1 .. n : \E i \in 1 .. n : place[i] = k
    BY <1>7, <1>9
  <1>12. ASSUME NEW i \in 1 .. n, NEW j \in 1 .. n, LoweredBefore(p, j, i)
         PROVE  place[j] < place[i]
    <2>1. Position(Prior, j) < Position(Prior, i)
      BY <1>6, <1>7, <1>12
    <2> QED
      BY <1>9, <2>1
  <1> QED
    BY <1>5, <1>8, <1>10, <1>11, <1>12

(* The decision of a rule of a policy.                                     *)
Decides(p, d) ==
    LET firing == {i \in DOMAIN p : Fires(p[i], d.context)}
    IN  \E i \in firing :
            /\ d.rule = p[i].name
            /\ d.power = Printed(d.by, p[i].power)
            /\ \A j \in firing \ {i} : LoweredBefore(p, i, j)

NoneFires(p, c) == {i \in DOMAIN p : Fires(p[i], c)} = {}

(* The decision of a program that follows a policy it read, if it did.     *)
Follows(w, d) ==
    IF d.by \in {"fallback", "nobody"} THEN w.read => NoneFires(w.policy, d.context)
    ELSE w.read /\ Decides(w.policy, d)

(* What the lowered rules resolve a context to follows their policy, and   *)
(* they leave it to another if none of them fires.                         *)
LEMMA ResolveFollows ==
    ASSUME NEW p, IsPolicy(p), NEW by \in {"portable", "gplc_rt"}, NEW c
    PROVE  LET d == Resolve(by, Lower(p), c) IN
           \/ d = Undecided("nobody", c) /\ NoneFires(p, c)
           \/ d.by = by /\ Decides(p, d)
  <1>1. PICK n \in Nat : /\ DOMAIN p = 1 .. n
                         /\ \A i \in 1 .. n : p[i].name \in Nat \ {0} /\ p[i].priority \in Nat
    BY DEF IsPolicy
  <1>2. PICK place \in [1 .. n -> 1 .. n] :
               /\ DOMAIN Lower(p) = 1 .. n
               /\ \A i \in 1 .. n : Lower(p)[place[i]] = p[i]
               /\ \A k \in 1 .. n : \E i \in 1 .. n : place[i] = k
               /\ \A i, j \in 1 .. n : LoweredBefore(p, j, i) => place[j] < place[i]
    BY ONLY <1>1, LowerIs
  <1> DEFINE lowered == {k \in DOMAIN Lower(p) : Fires(Lower(p)[k], c)}
             firing == {i \in DOMAIN p : Fires(p[i], c)}
             d == Resolve(by, Lower(p), c)
  <1> SUFFICES \/ d = Undecided("nobody", c) /\ NoneFires(p, c)
               \/ d.by = by /\ Decides(p, d)
    OBVIOUS
  <1>3. \A i \in 1 .. n : i \in firing <=> place[i] \in lowered
    BY <1>1, <1>2
  <1>4. CASE lowered = {}
    <2>1. firing = {}
      BY <1>1, <1>3, <1>4
    <2>2. d = Undecided("nobody", c)
      BY <1>4 DEF Resolve
    <2> QED
      BY <2>1, <2>2 DEF NoneFires
  <1>5. CASE lowered # {}
    <2> DEFINE k == CHOOSE i \in lowered : \A j \in lowered : i <= j
    <2>1. \E i \in lowered : \A j \in lowered : i <= j
      <3>1. lowered \subseteq 1 .. n
        BY <1>2
      <3>2. lowered \in SUBSET Nat
        BY <3>1
      <3> HIDE DEF lowered
      <3> QED
        BY <1>5, <3>2, LeastExists DEF IsLeast
    <2>2. k \in lowered /\ \A j \in lowered : k <= j
      BY <2>1
    <2>3. d = [context |-> c, by |-> by, rule |-> Lower(p)[k].name,
                power |-> Printed(by, Lower(p)[k].power)]
      BY <1>5 DEF Resolve
    <2> HIDE DEF k
    <2>4. PICK i \in 1 .. n : place[i] = k
      BY <1>2, <2>2
    <2>5. i \in firing /\ Lower(p)[k] = p[i]
      BY <1>2, <1>3, <2>2, <2>4
    <2>6. ASSUME NEW j \in firing \ {i} PROVE LoweredBefore(p, i, j)
      <3>1. j \in 1 .. n /\ place[j] \in lowered
        BY <1>1, <1>3
      <3>2. k <= place[j]
        BY <2>2, <3>1
      <3>3. ~LoweredBefore(p, j, i)
        <4> SUFFICES ASSUME LoweredBefore(p, j, i) PROVE FALSE
          OBVIOUS
        <4>1. place[j] < place[i]
          BY <1>2, <3>1
        <4>2. place[j] \in Int /\ place[i] \in Int
          BY <1>2, <3>1
        <4> QED
          BY <2>4, <3>2, <4>1, <4>2
      <3> QED
        BY <1>1, <3>1, <3>3 DEF LoweredBefore
    <2>7. /\ d.context = c /\ d.by = by /\ d.rule = p[i].name
          /\ d.power = Printed(by, p[i].power)
      BY <2>3, <2>5
    <2> HIDE DEF d, lowered
    <2> QED
      BY <2>5, <2>6, <2>7 DEF Decides
  <1> QED
    BY <1>4, <1>5

-----------------------------------------------------------------------------
(* Rewriting a policy.                                                     *)

IsThreshold(t) == t.op = ">=" /\ t.field \in {"confidence", "memory_confidence"}

(* A test after any number of rewritings, of what it was at first; and     *)
(* whether none of them was asked to tighten.                              *)
LooserTest(loose, t, u) ==
    /\ DOMAIN u = {"field", "op", "value"} /\ u.field = t.field /\ u.op = t.op
    /\ u.op = ">=" => u.value \in Int
    /\ u.value # t.value => IsThreshold(t)
    /\ u.value # t.value /\ loose => u.value <= t.value \/ BelowFloor(t)

LooserRule(loose, q, r) ==
    /\ DOMAIN r = {"name", "priority", "named", "power", "when"}
    /\ r.name = q.name /\ r.priority = q.priority
    /\ r.power \in Int
    /\ r.power >= q.power \/ r.power = 20
    /\ r.power <= 20 \/ r.power = q.power
    /\ DOMAIN r.when = DOMAIN q.when
    /\ \A k \in DOMAIN q.when : LooserTest(loose, q.when[k], r.when[k])

Looser(loose, p) ==
    /\ DOMAIN p = DOMAIN origin
    /\ \A i \in DOMAIN origin : LooserRule(loose, origin[i], p[i])

(* A policy the files began with.                                          *)
LEMMA OriginIs ==
    ASSUME NEW p \in Policies, NEW i \in DOMAIN p
    PROVE  LET when == p[i].when IN
           /\ DOMAIN p[i] = {"name", "priority", "named", "power", "when"}
           /\ p[i].name \in Nat \ {0} /\ p[i].priority \in Nat /\ p[i].power \in Int
           /\ Len(when) \in Nat /\ DOMAIN when = 1 .. Len(when)
           /\ \A k \in DOMAIN when :
                  /\ DOMAIN when[k] = {"field", "op", "value"}
                  /\ when[k].op = ">=" => when[k].value \in Int
  BY PoliciesAssumption

(* It is as loose as itself.                                               *)
LEMMA OriginIsLooser ==
    ASSUME origin \in Policies, NEW loose \in BOOLEAN
    PROVE  Looser(loose, origin)
  <1> SUFFICES ASSUME NEW i \in DOMAIN origin PROVE LooserRule(loose, origin[i], origin[i])
    BY DEF Looser
  <1> DEFINE r == origin[i]
  <1>1. /\ DOMAIN r = {"name", "priority", "named", "power", "when"}
        /\ r.power \in Int
        /\ \A k \in DOMAIN r.when :
               /\ DOMAIN r.when[k] = {"field", "op", "value"}
               /\ r.when[k].op = ">=" => r.when[k].value \in Int
    BY OriginIs
  <1> HIDE DEF r
  <1>2. \A k \in DOMAIN r.when : LooserTest(loose, r.when[k], r.when[k])
    BY <1>1 DEF LooserTest
  <1>3. LooserRule(loose, r, r)
    BY <1>1, <1>2 DEF LooserRule
  <1> QED
    BY <1>3 DEF r

(* Looser rules make a policy, which is lowered as it should be.           *)
LEMMA LooserIsPolicy ==
    ASSUME origin \in Policies, NEW loose \in BOOLEAN, NEW p, Looser(loose, p)
    PROVE  IsPolicy(p)
  <1>1. PICK n \in Nat : DOMAIN origin = 1 .. n
    BY PoliciesAssumption
  <1>2. ASSUME NEW i \in DOMAIN origin
        PROVE  p[i].name \in Nat \ {0} /\ p[i].priority \in Nat
    <2>1. p[i].name = origin[i].name /\ p[i].priority = origin[i].priority
      BY DEF Looser, LooserRule
    <2> QED
      BY <2>1, OriginIs
  <1>3. DOMAIN p = 1 .. n
    BY <1>1 DEF Looser
  <1>4. \A i \in 1 .. n : p[i].name \in Nat \ {0} /\ p[i].priority \in Nat
    BY <1>1, <1>2
  <1> QED
    BY ONLY <1>3, <1>4, n \in Nat, Zenon DEF IsPolicy

(* A tool never raises a threshold above its floor, unless it is asked to. *)
LEMMA AtLeastIs ==
    ASSUME NEW tool \in {"gplc_rt", "radnet_tools"}, NEW m \in Metrics, NEW old \in Int
    PROVE  LET new == AtLeast(tool, Relaxed(old, m)) IN
           /\ new \in Int
           /\ Relaxation(m) >= 0 => new <= old \/ new = (IF tool = "gplc_rt" THEN 1 ELSE 50)
  <1>1. Relaxation(m) \in Int
    BY MetricsAssumption DEF Relaxation
  <1>2. Relaxed(old, m) \in Int /\ (Relaxation(m) >= 0 => Relaxed(old, m) <= old)
    BY <1>1 DEF Relaxed
  <1> HIDE DEF Relaxed
  <1> QED
    BY <1>2 DEF AtLeast

(* A rewritten test of a rule is as loose as before.                       *)
LEMMA TestStaysLooser ==
    ASSUME NEW tool \in {"gplc_rt", "radnet_tools"}, NEW m \in Metrics,
           NEW loose \in BOOLEAN, NEW keeps \in BOOLEAN, keeps => loose /\ Relaxation(m) >= 0,
           NEW t, t.op = ">=" => t.value \in Int, NEW u, LooserTest(loose, t, u), Found(tool, u)
    PROVE  LooserTest(keeps, t, [u EXCEPT !.value = AtLeast(tool, Relaxed(@, m))])
  <1> DEFINE new == AtLeast(tool, Relaxed(u.value, m))
             v == [u EXCEPT !.value = AtLeast(tool, Relaxed(@, m))]
  <1>1. /\ DOMAIN v = {"field", "op", "value"} /\ v.field = t.field /\ v.op = t.op
        /\ v.value = new
    BY DEF LooserTest
  <1>2. /\ t.op = ">=" /\ t.value \in Int /\ u.value \in Int
        /\ t.field \in (IF tool = "gplc_rt" THEN {"confidence", "memory_confidence"}
                         ELSE {"confidence"})
    BY DEF LooserTest, Found
  <1>3. /\ new \in Int
        /\ Relaxation(m) >= 0 => new <= u.value \/ new = (IF tool = "gplc_rt" THEN 1 ELSE 50)
    BY ONLY <1>2, AtLeastIs, tool \in {"gplc_rt", "radnet_tools"}, m \in Metrics
  <1> HIDE DEF new, v
  <1>4. CASE keeps
    <2>1. u.value <= t.value \/ BelowFloor(t)
      BY <1>2, <1>4 DEF LooserTest
    <2>2. Relaxation(m) >= 0
      BY <1>4
    <2> QED
      BY <1>1, <1>2, <1>3, <2>1, <2>2 DEF BelowFloor, LooserTest, IsThreshold, v
  <1>5. CASE ~keeps
    BY <1>1, <1>2, <1>3, <1>5 DEF LooserTest, IsThreshold, v
  <1> QED
    BY <1>4, <1>5

(* A rewritten rule is.                                                    *)
LEMMA RuleStaysLooser ==
    ASSUME NEW tool \in {"gplc_rt", "radnet_tools"}, NEW m \in Metrics,
           NEW loose \in BOOLEAN, NEW keeps \in BOOLEAN, keeps => loose /\ ~Tightens(m),
           origin \in Policies, NEW i \in DOMAIN origin, NEW r, LooserRule(loose, origin[i], r)
    PROVE  LooserRule(keeps, origin[i],
                      [r EXCEPT !.when = RelaxWhen(tool, @, m), !.power = Boost(@, m)])
  <1> DEFINE q == origin[i]
             when == RelaxWhen(tool, r.when, m)
             power == Boost(r.power, m)
             s == [r EXCEPT !.when = RelaxWhen(tool, @, m), !.power = Boost(@, m)]
  <1>1. /\ q.power \in Int /\ Len(q.when) \in Nat /\ DOMAIN q.when = 1 .. Len(q.when)
        /\ \A k \in DOMAIN q.when : q.when[k].op = ">=" => q.when[k].value \in Int
    BY OriginIs
  <1>2. /\ DOMAIN s = {"name", "priority", "named", "power", "when"}
        /\ s.name = r.name /\ s.priority = r.priority /\ s.power = power /\ s.when = when
    BY DEF LooserRule
  <1>3. /\ r.name = q.name /\ r.priority = q.priority /\ r.power \in Int
        /\ r.power >= q.power \/ r.power = 20
        /\ r.power <= 20 \/ r.power = q.power
        /\ DOMAIN r.when = DOMAIN q.when
        /\ \A k \in DOMAIN q.when : LooserTest(loose, q.when[k], r.when[k])
    BY DEF LooserRule
  <1>4. /\ power \in Int
        /\ power >= q.power \/ power = 20
        /\ power <= 20
    <2> HIDE DEF q
    <2> QED
      BY <1>1, <1>3 DEF Boost
  <1>5. /\ DOMAIN when = DOMAIN q.when
        /\ \A k \in DOMAIN q.when : LooserTest(keeps, q.when[k], when[k])
    <2> DEFINE found == {k \in DOMAIN r.when : Found(tool, r.when[k])}
               first == CHOOSE k \in found : \A j \in found : k <= j
    <2>0. \A k \in DOMAIN q.when : LooserTest(keeps, q.when[k], r.when[k])
      <3> HIDE DEF q
      <3> QED
        BY <1>3 DEF LooserTest
    <2>1. CASE m.confidence >= 90 \/ found = {}
      <3>1. when = r.when
        BY <2>1 DEF RelaxWhen
      <3> QED
        BY <1>3, <2>0, <3>1
    <2>2. CASE ~(m.confidence >= 90 \/ found = {})
      <3>1. when = [r.when EXCEPT ![first].value = AtLeast(tool, Relaxed(@, m))]
        BY <2>2 DEF RelaxWhen
      <3>2. first \in found
        <4>1. found \in SUBSET Nat /\ found # {}
          BY <1>1, <1>3, <2>2
        <4> HIDE DEF found
        <4>2. \E k \in found : \A j \in found : k <= j
          BY <4>1, LeastExists DEF IsLeast
        <4> QED
          BY <4>2
      <3> HIDE DEF first
      <3>3. first \in DOMAIN q.when /\ Found(tool, r.when[first])
        BY <1>3, <3>2
      <3> HIDE DEF found
      <3>4. DOMAIN when = DOMAIN q.when
        BY <1>3, <3>1
      <3>5. /\ when[first] = [r.when[first] EXCEPT !.value = AtLeast(tool, Relaxed(@, m))]
            /\ \A k \in DOMAIN q.when : k # first => when[k] = r.when[k]
        BY <1>3, <3>1, <3>3
      <3>6. LooserTest(keeps, q.when[first], when[first])
        <4>1. q.when[first].op = ">=" => q.when[first].value \in Int
          BY <1>1, <3>3
        <4>2. LooserTest(loose, q.when[first], r.when[first])
          BY <1>3, <3>3
        <4>3. keeps => loose /\ Relaxation(m) >= 0
          <5>1. Relaxation(m) \in Int /\ m.confidence \in Int
            BY MetricsAssumption DEF Relaxation
          <5>2. m.confidence < 90
            BY ONLY <2>2, <5>1
          <5>3. ~Tightens(m) => Relaxation(m) >= 0
            BY ONLY <5>1, <5>2 DEF Tightens
          <5> QED
            BY <5>3
        <4>4. LooserTest(keeps, q.when[first],
                         [r.when[first] EXCEPT !.value = AtLeast(tool, Relaxed(@, m))])
          BY ONLY <3>3, <4>1, <4>2, <4>3, TestStaysLooser, loose \in BOOLEAN, keeps \in BOOLEAN,
                  tool \in {"gplc_rt", "radnet_tools"}, m \in Metrics
        <4> HIDE DEF when, q
        <4> QED
          BY <3>5, <4>4
      <3> HIDE DEF when, q
      <3> QED
        BY <2>0, <3>4, <3>5, <3>6
    <2> QED
      BY <2>1, <2>2
  <1> HIDE DEF when, power, s, q
  <1>6. LooserRule(keeps, q, s)
    BY <1>2, <1>3, <1>4, <1>5 DEF LooserRule
  <1> QED
    BY <1>6 DEF q, s

(* And with its rules a policy.                                            *)
LEMMA RewrittenStaysLooser ==
    ASSUME NEW tool \in {"gplc_rt", "radnet_tools"}, NEW m \in Metrics,
           NEW loose \in BOOLEAN, NEW keeps \in BOOLEAN, keeps => loose /\ ~Tightens(m),
           origin \in Policies, NEW p, Looser(loose, p)
    PROVE  Looser(keeps, Rewritten(tool, p, m))
  <1>1. ASSUME NEW i \in DOMAIN origin
        PROVE  LooserRule(keeps, origin[i], Rewritten(tool, p, m)[i])
    <2>1. LooserRule(loose, origin[i], p[i])
      BY DEF Looser
    <2>2. LooserRule(keeps, origin[i],
                     [p[i] EXCEPT !.when = RelaxWhen(tool, @, m), !.power = Boost(@, m)])
      BY ONLY <2>1, RuleStaysLooser, i \in DOMAIN origin, origin \in Policies,
              tool \in {"gplc_rt", "radnet_tools"}, m \in Metrics,
              loose \in BOOLEAN, keeps \in BOOLEAN, keeps => loose /\ ~Tightens(m),
              ZenonT(60)
    <2>3. Rewritten(tool, p, m)[i] =
              [p[i] EXCEPT !.when = RelaxWhen(tool, @, m), !.power = Boost(@, m)]
      BY DEF Looser, Rewritten
    <2> QED
      BY <2>2, <2>3
  <1>2. DOMAIN Rewritten(tool, p, m) = DOMAIN origin
    BY DEF Looser, Rewritten
  <1> QED
    BY ONLY <1>1, <1>2 DEF Looser

(* A looser rule fires where the first one did, unless one of its          *)
(* thresholds was below the floor.                                         *)
LEMMA LooserFires ==
    ASSUME NEW q, NEW r, LooserRule(TRUE, q, r), NEW c \in GplContexts, Fires(q, c),
           \A k \in DOMAIN q.when : /\ ~BelowFloor(q.when[k])
                                    /\ q.when[k].op = ">=" => q.when[k].value \in Int
    PROVE  Fires(r, c)
  <1> SUFFICES ASSUME NEW k \in DOMAIN q.when PROVE Holds(r.when[k], c)
    BY DEF Fires, LooserRule
  <1> DEFINE t == q.when[k]
             u == r.when[k]
  <1>1. Holds(t, c) /\ ~BelowFloor(t) /\ (t.op = ">=" => t.value \in Int)
    BY DEF Fires
  <1>2. LooserTest(TRUE, t, u)
    BY DEF LooserRule
  <1> SUFFICES Holds(u, c)
    OBVIOUS
  <1> HIDE DEF t, u
  <1>3. CASE u.value = t.value
    BY <1>1, <1>2, <1>3 DEF Holds, LooserTest
  <1>4. CASE u.value # t.value
    <2>1. /\ t.op = ">=" /\ t.field \in {"confidence", "memory_confidence"}
          /\ u.value <= t.value /\ u.op = ">=" /\ u.field = t.field /\ u.value \in Int
      BY <1>1, <1>2, <1>4 DEF LooserTest, IsThreshold
    <2>2. t.field \in DOMAIN c /\ c[t.field] \in Int /\ c[t.field] >= t.value
      BY <1>1, <2>1, ContextsAssumption DEF Holds
    <2>3. c[u.field] >= u.value
      BY <1>1, <2>1, <2>2
    <2> QED
      BY <2>1, <2>2, <2>3 DEF Holds
  <1> QED
    BY <1>3, <1>4

-----------------------------------------------------------------------------
(* The files, the bytecode and the last decision.                          *)

(* What a bytecode file holds, of the text it was last compiled from.      *)
Kept(p, b) ==
    /\ IsPolicy(p) /\ DOMAIN b = {"state", "rules", "source"}
    /\ b.state = "whole" => b.rules = Lower(p)
    /\ b.state # "none" => b.source \in GplFiles

GPInv ==
    /\ origin \in Policies
    /\ DOMAIN gplFiles = GplFiles
    /\ \A f \in GplFiles : Looser(f \notin tightened, gplFiles[f])
    /\ DOMAIN bytecode = Forms /\ DOMAIN built = Forms
    /\ \A x \in Forms : Kept(built[x], bytecode[x])
    /\ pending # <<>> => pending[1] = bytecode["json"] /\ bytecode["json"].state = "whole"
    /\ DecisionsFollowPolicy

(* Follows is what the property says.                                      *)
LEMMA FollowsMeans == Follows(judged, resolved) <=> DecisionsFollowPolicy
  <1> DEFINE policy == judged.policy
  <1>1. \A i, j \in DOMAIN policy :
            LoweredBefore(policy, i, j) <=>
                \/ policy[i].priority > policy[j].priority
                \/ /\ policy[i].priority = policy[j].priority
                   /\ \/ policy[i].name < policy[j].name
                      \/ policy[i].name = policy[j].name /\ i < j
    BY DEF LoweredBefore
  <1> QED
    BY <1>1 DEF Follows, Decides, NoneFires, DecisionsFollowPolicy

(* The same of the next state.                                             *)
LEMMA DecisionFollows == Follows(judged', resolved') => DecisionsFollowPolicy'
  <1>1. (Follows(judged, resolved) => DecisionsFollowPolicy)'
    BY FollowsMeans, PTL
  <1> QED
    BY <1>1

(* A command changes files, bytecode or the last decision as it should.    *)
LEMMA GPStepKeeps == GPInv /\ [GPNext]_gpVars => GPInv'
  <1> SUFFICES ASSUME GPInv, [GPNext]_gpVars PROVE GPInv'
    OBVIOUS
  <1>0. /\ origin \in Policies
        /\ DOMAIN gplFiles = GplFiles
        /\ \A f \in GplFiles : Looser(f \notin tightened, gplFiles[f])
        /\ DOMAIN bytecode = Forms /\ DOMAIN built = Forms
        /\ \A x \in Forms : Kept(built[x], bytecode[x])
        /\ pending # <<>> => pending[1] = bytecode["json"] /\ bytecode["json"].state = "whole"
        /\ DecisionsFollowPolicy
    BY DEF GPInv
  <1>1. ASSUME UNCHANGED <<origin, gplFiles, tightened>>
        PROVE  /\ origin' \in Policies
               /\ DOMAIN gplFiles' = GplFiles
               /\ \A f \in GplFiles : Looser(f \notin tightened, gplFiles[f])'
    BY <1>0, <1>1 DEF Looser
  <1>2. ASSUME UNCHANGED <<resolved, judged>> PROVE DecisionsFollowPolicy'
    BY <1>0, <1>2 DEF DecisionsFollowPolicy
  <1>a. \A f \in GplFiles : IsPolicy(gplFiles[f])
    <2> SUFFICES ASSUME NEW f \in GplFiles PROVE IsPolicy(gplFiles[f])
      OBVIOUS
    <2>1. Looser(f \notin tightened, gplFiles[f]) /\ (f \notin tightened) \in BOOLEAN
      BY <1>0
    <2> QED
      BY <1>0, <2>1, LooserIsPolicy
  <1>3. ASSUME NEW f \in GplFiles, Command, EmitJson(f) PROVE GPInv'
    <2> DEFINE compiled == [state |-> "whole", rules |-> Lower(gplFiles[f]), source |-> f]
    <2>1. /\ \/ /\ bytecode' = [bytecode EXCEPT !["json"] = compiled]
                /\ built' = [built EXCEPT !["json"] = gplFiles[f]]
                /\ pending' = <<compiled>>
             \/ /\ bytecode' \in {bytecode, [bytecode EXCEPT !["json"] = HalfWritten(compiled)]}
                /\ UNCHANGED <<built, pending>>
          /\ pending = <<>>
          /\ UNCHANGED <<gplFiles, resolved, origin, judged, tightened>>
      BY <1>3 DEF EmitJson, Command
    <2>2. /\ Kept(gplFiles[f], compiled) /\ compiled.state = "whole"
          /\ \A p : IsPolicy(p) => Kept(p, HalfWritten(compiled))
      BY <1>a DEF Kept, HalfWritten
    <2>3. \A x \in Forms : IsPolicy(built[x])
      BY <1>0 DEF Kept
    <2> HIDE DEF compiled
    <2>4. /\ DOMAIN bytecode' = Forms /\ DOMAIN built' = Forms
          /\ \A x \in Forms : Kept(built'[x], bytecode'[x])
          /\ pending' # <<>> =>
                 pending'[1] = bytecode'["json"] /\ bytecode'["json"].state = "whole"
      <3>1. CASE /\ bytecode' = [bytecode EXCEPT !["json"] = compiled]
                 /\ built' = [built EXCEPT !["json"] = gplFiles[f]]
                 /\ pending' = <<compiled>>
        <4>1. /\ DOMAIN bytecode' = Forms /\ DOMAIN built' = Forms
              /\ bytecode'["json"] = compiled /\ built'["json"] = gplFiles[f]
              /\ \A x \in Forms : x # "json" => bytecode'[x] = bytecode[x] /\ built'[x] = built[x]
          BY <1>0, <3>1 DEF Forms
        <4> QED
          BY <1>0, <2>2, <3>1, <4>1
      <3>2. CASE bytecode' = bytecode /\ UNCHANGED <<built, pending>>
        BY <1>0, <2>1, <3>2
      <3>3. CASE /\ bytecode' = [bytecode EXCEPT !["json"] = HalfWritten(compiled)]
                 /\ UNCHANGED <<built, pending>>
        <4>1. /\ DOMAIN bytecode' = Forms /\ DOMAIN built' = Forms
              /\ bytecode'["json"] = HalfWritten(compiled)
              /\ \A x \in Forms : x # "json" => bytecode'[x] = bytecode[x]
              /\ \A x \in Forms : built'[x] = built[x]
          BY <1>0, <3>3 DEF Forms
        <4> QED
          BY <1>0, <2>1, <2>2, <2>3, <3>3, <4>1
      <3> QED
        BY <2>1, <3>1, <3>2, <3>3
    <2>5. DecisionsFollowPolicy'
      BY <1>2, <2>1
    <2>6. /\ origin' \in Policies
          /\ DOMAIN gplFiles' = GplFiles
          /\ \A g \in GplFiles : Looser(g \notin tightened, gplFiles[g])'
      BY <1>1, <2>1
    <2> QED
      BY <2>4, <2>5, <2>6 DEF GPInv
  <1>4. CASE WriteBinary
    <2>1. /\ pending[1] = bytecode["json"] /\ bytecode["json"].state = "whole" /\ pending' = <<>>
          /\ UNCHANGED <<gplFiles, resolved, origin, judged, tightened>>
      BY <1>0, <1>4 DEF WriteBinary
    <2>2. \A x \in Forms : IsPolicy(built[x])
      BY <1>0 DEF Kept
    <2>3. /\ DOMAIN bytecode' = Forms /\ DOMAIN built' = Forms
          /\ \A x \in Forms : Kept(built'[x], bytecode'[x])
      <3>1. CASE /\ bytecode' = [bytecode EXCEPT !["bin"] = pending[1]]
                 /\ built' = [built EXCEPT !["bin"] = built["json"]]
        <4>1. /\ DOMAIN bytecode' = Forms /\ DOMAIN built' = Forms
              /\ bytecode'["bin"] = bytecode["json"] /\ built'["bin"] = built["json"]
              /\ bytecode'["json"] = bytecode["json"] /\ built'["json"] = built["json"]
          BY <1>0, <2>1, <3>1 DEF Forms
        <4> QED
          BY <1>0, <4>1 DEF Forms
      <3>2. CASE bytecode' = bytecode /\ UNCHANGED built
        BY <1>0, <3>2
      <3>3. CASE /\ bytecode' = [bytecode EXCEPT !["bin"] = HalfWritten(pending[1])]
                 /\ UNCHANGED built
        <4>1. /\ DOMAIN bytecode' = Forms /\ DOMAIN built' = Forms
              /\ bytecode'["bin"] = HalfWritten(bytecode["json"])
              /\ \A x \in Forms : x # "bin" => bytecode'[x] = bytecode[x]
              /\ \A x \in Forms : built'[x] = built[x]
          BY <1>0, <2>1, <3>3 DEF Forms
        <4>2. \A p : IsPolicy(p) => Kept(p, HalfWritten(bytecode["json"]))
          BY <1>0, <2>1 DEF Kept, HalfWritten, Forms
        <4> QED
          BY <1>0, <2>2, <4>1, <4>2
      <3> QED
        BY <1>4, <3>1, <3>2, <3>3 DEF WriteBinary
    <2>4. DecisionsFollowPolicy'
      BY <1>2, <2>1
    <2>5. /\ origin' \in Policies
          /\ DOMAIN gplFiles' = GplFiles
          /\ \A g \in GplFiles : Looser(g \notin tightened, gplFiles[g])'
      BY <1>1, <2>1
    <2> QED
      BY <2>1, <2>3, <2>4, <2>5 DEF GPInv
  <1>5. ASSUME NEW tool \in {"gplc_rt", "radnet_tools"}, NEW f \in GplFiles, NEW g \in GplFiles,
               NEW m \in Metrics, RewriteFile(tool, f, g, m)
        PROVE  GPInv'
    <2>1. /\ gplFiles' = [gplFiles EXCEPT ![g] = Rewritten(tool, gplFiles[f], m)]
          /\ tightened' = IF f \in tightened \/ Tightens(m) THEN tightened \cup {g}
                          ELSE tightened \ {g}
          /\ UNCHANGED <<pending, bytecode, resolved, origin, built, judged>>
      BY <1>5 DEF RewriteFile
    <2>2. Looser(g \notin tightened', Rewritten(tool, gplFiles[f], m))
      <3> DEFINE loose == f \notin tightened
                 keeps == g \notin tightened'
      <3>1. Looser(loose, gplFiles[f])
        BY <1>0
      <3>2. keeps => loose /\ ~Tightens(m)
        BY <2>1
      <3>3. loose \in BOOLEAN /\ keeps \in BOOLEAN
        OBVIOUS
      <3> HIDE DEF loose, keeps
      <3>4. Looser(keeps, Rewritten(tool, gplFiles[f], m))
        BY <1>0, <3>1, <3>2, <3>3, RewrittenStaysLooser
      <3> QED
        BY <3>4 DEF keeps
    <2>3. \A h \in GplFiles : Looser(h \notin tightened', gplFiles'[h])
      <3> SUFFICES ASSUME NEW h \in GplFiles PROVE Looser(h \notin tightened', gplFiles'[h])
        OBVIOUS
      <3>1. CASE h = g
        <4>1. gplFiles'[g] = Rewritten(tool, gplFiles[f], m)
          BY <1>0, <2>1
        <4> QED
          BY <2>2, <3>1, <4>1
      <3>2. CASE h # g
        <4>1. gplFiles'[h] = gplFiles[h] /\ (h \in tightened' <=> h \in tightened)
          BY <1>0, <2>1, <3>2
        <4>2. Looser(h \notin tightened, gplFiles[h])
          BY <1>0
        <4> QED
          BY <4>1, <4>2 DEF Looser, LooserRule, LooserTest
      <3> QED
        BY <3>1, <3>2
    <2>4. /\ DOMAIN gplFiles' = GplFiles
          /\ \A h \in GplFiles : Looser(h \notin tightened, gplFiles[h])'
      BY <1>0, <2>1, <2>3 DEF Looser
    <2>5. DecisionsFollowPolicy'
      BY <1>2, <2>1
    <2> QED
      BY <1>0, <2>1, <2>4, <2>5 DEF GPInv
  <1>6. ASSUME UNCHANGED <<gplFiles, pending, bytecode, origin, built, tightened>>,
               Follows(judged', resolved')
        PROVE  GPInv'
    <2>1. DecisionsFollowPolicy'
      BY <1>6, DecisionFollows
    <2>2. /\ origin' \in Policies
          /\ DOMAIN gplFiles' = GplFiles
          /\ \A g \in GplFiles : Looser(g \notin tightened, gplFiles[g])'
      BY <1>1, <1>6
    <2> QED
      BY <1>0, <1>6, <2>1, <2>2 DEF GPInv
  <1>7. ASSUME NEW form \in Forms, NEW c \in GplContexts, RunPortable(form, c) PROVE GPInv'
    <2> DEFINE whole == bytecode[form].state = "whole"
               decision == Resolve("portable", bytecode[form].rules, c)
    <2>1. /\ IF whole /\ decision.by = "portable" THEN resolved' = decision
             ELSE \E by \in {"fallback", "nobody"} : resolved' = Undecided(by, c)
          /\ judged' = [policy |-> built[form], read |-> whole]
          /\ UNCHANGED <<gplFiles, pending, bytecode, origin, built, tightened>>
      BY <1>7 DEF RunPortable
    <2>2. /\ judged'.policy = built[form] /\ judged'.read = whole
      BY <2>1
    <2>3. \A by : Undecided(by, c).by = by /\ Undecided(by, c).context = c
      BY DEF Undecided
    <2>4. whole => \/ decision = Undecided("nobody", c) /\ NoneFires(built[form], c)
                   \/ decision.by = "portable" /\ Decides(built[form], decision)
      <3> SUFFICES ASSUME whole
                   PROVE  \/ decision = Undecided("nobody", c) /\ NoneFires(built[form], c)
                          \/ decision.by = "portable" /\ Decides(built[form], decision)
        OBVIOUS
      <3>1. IsPolicy(built[form]) /\ bytecode[form].rules = Lower(built[form])
        BY <1>0 DEF Kept
      <3> QED
        BY <3>1, ResolveFollows
    <2> HIDE DEF whole, decision
    <2>5. Follows(judged', resolved')
      <3>1. CASE whole /\ decision.by = "portable"
        <4>1. Decides(built[form], decision) /\ resolved' = decision
          BY <2>1, <2>3, <2>4, <3>1
        <4> QED
          BY <2>2, <3>1, <4>1 DEF Follows
      <3>2. CASE ~(whole /\ decision.by = "portable")
        <4>1. /\ resolved'.by \in {"fallback", "nobody"} /\ resolved'.context = c
              /\ whole => NoneFires(built[form], c)
          BY <2>1, <2>3, <2>4, <3>2
        <4> QED
          BY <2>2, <4>1 DEF Follows
      <3> QED
        BY <3>1, <3>2
    <2> QED
      BY <1>6, <2>1, <2>5
  <1>8. ASSUME NEW c \in GplContexts, RunRt(c) PROVE GPInv'
    <2> DEFINE policy == gplFiles[bytecode["json"].source]
    <2>1. /\ \/ /\ bytecode["json"].state # "none"
                /\ resolved' = Resolve("gplc_rt", Lower(policy), c)
                /\ judged' = [policy |-> policy, read |-> TRUE]
             \/ /\ resolved' = Undecided("nobody", c)
                /\ judged' = [policy |-> <<>>, read |-> FALSE]
          /\ UNCHANGED <<gplFiles, pending, bytecode, origin, built, tightened>>
      BY <1>8 DEF RunRt
    <2>2. bytecode["json"].state # "none" => IsPolicy(policy)
      BY <1>0, <1>a DEF Kept, Forms
    <2> HIDE DEF policy
    <2>3. Follows(judged', resolved')
      <3>1. CASE /\ bytecode["json"].state # "none"
                 /\ resolved' = Resolve("gplc_rt", Lower(policy), c)
                 /\ judged' = [policy |-> policy, read |-> TRUE]
        <4> DEFINE d == Resolve("gplc_rt", Lower(policy), c)
        <4>1. \/ d = Undecided("nobody", c) /\ NoneFires(policy, c)
              \/ d.by = "gplc_rt" /\ Decides(policy, d)
          BY <2>2, <3>1, ResolveFollows
        <4>2. judged'.policy = policy /\ judged'.read /\ resolved' = d
          BY <3>1
        <4> HIDE DEF d
        <4> QED
          BY <4>1, <4>2 DEF Follows, Undecided
      <3>2. CASE /\ resolved' = Undecided("nobody", c)
                 /\ judged' = [policy |-> <<>>, read |-> FALSE]
        BY <3>2 DEF Follows, Undecided
      <3> QED
        BY <2>1, <3>1, <3>2
    <2> QED
      BY <1>6, <2>1, <2>3
  <1>9. CASE UNCHANGED gpVars
    BY <1>0, <1>1, <1>2, <1>9 DEF gpVars, gpHistory, GPInv
  <1> QED
    BY <1>3, <1>4, <1>5, <1>7, <1>8, <1>9
    DEF GPNext, cmd_compile, compile_gpl_command, cmd_mutate, mutate_gpl_command

(* However many policies, files and rules there are, and however they are  *)
(* rewritten, compiled, half written and run, a decision of a rule is that *)
(* of the text its bytecode was compiled from, and rules only get looser,  *)
(* but in files rewritten from metrics that ask for higher thresholds.     *)
THEOREM PolicyIsKeptHolds == GPSpec => []PolicyIsKept
  <1>1. GPInit => GPInv
    <2> SUFFICES ASSUME GPInit PROVE GPInv
      OBVIOUS
    <2>1. /\ origin \in Policies /\ gplFiles = [f \in GplFiles |-> origin]
          /\ bytecode = [x \in Forms |-> NoBytecode] /\ built = [x \in Forms |-> <<>>]
          /\ pending = <<>> /\ resolved = Undecided("nobody", <<>>)
          /\ judged = [policy |-> <<>>, read |-> FALSE]
      BY DEF GPInit
    <2>2. IsPolicy(<<>>)
      <3>1. 0 \in Nat /\ DOMAIN <<>> = 1 .. 0
        OBVIOUS
      <3> QED
        BY <3>1 DEF IsPolicy
    <2>3. Kept(<<>>, NoBytecode)
      BY <2>2 DEF Kept, NoBytecode
    <2>4. DecisionsFollowPolicy
      BY <2>1 DEF DecisionsFollowPolicy, Undecided
    <2>5. \A f \in GplFiles : Looser(f \notin tightened, gplFiles[f])
      <3> SUFFICES ASSUME NEW f \in GplFiles PROVE Looser(f \notin tightened, origin)
        BY <2>1
      <3>1. (f \notin tightened) \in BOOLEAN
        OBVIOUS
      <3> QED
        BY <2>1, <3>1, OriginIsLooser
    <2> QED
      BY <2>1, <2>3, <2>4, <2>5 DEF GPInv
  <1>2. GPInv => PolicyIsKept
    <2> SUFFICES ASSUME GPInv PROVE RulesOnlyLoosen
      BY DEF GPInv, PolicyIsKept
    <2> SUFFICES ASSUME NEW f \in GplFiles, NEW i \in DOMAIN origin
                 PROVE  LET r == gplFiles[f][i]
                            first == origin[i]
                        IN  /\ r.power >= first.power \/ r.power = 20
                            /\ r.power <= 20 \/ r.power = first.power
                            /\ \A c \in GplContexts :
                                   Fires(first, c) =>
                                       \/ Fires(r, c)
                                       \/ \E k \in DOMAIN first.when : BelowFloor(first.when[k])
                                       \/ f \in tightened
      BY DEF RulesOnlyLoosen
    <2>1. LooserRule(f \notin tightened, origin[i], gplFiles[f][i])
      BY DEF GPInv, Looser
    <2>2. \A k \in DOMAIN origin[i].when :
              origin[i].when[k].op = ">=" => origin[i].when[k].value \in Int
      BY OriginIs DEF GPInv
    <2>3. ASSUME NEW c \in GplContexts, Fires(origin[i], c), ~Fires(gplFiles[f][i], c),
                 f \notin tightened
          PROVE  \E k \in DOMAIN origin[i].when : BelowFloor(origin[i].when[k])
      <3>1. LooserRule(TRUE, origin[i], gplFiles[f][i])
        BY <2>1, <2>3 DEF LooserRule, LooserTest
      <3> QED
        BY <2>2, <2>3, <3>1, LooserFires
    <2>4. /\ gplFiles[f][i].power >= origin[i].power \/ gplFiles[f][i].power = 20
          /\ gplFiles[f][i].power <= 20 \/ gplFiles[f][i].power = origin[i].power
      BY <2>1 DEF LooserRule
    <2> QED
      BY <2>3, <2>4
  <1> QED
    BY <1>1, <1>2, GPStepKeeps, PTL DEF GPSpec

-----------------------------------------------------------------------------
(* The peripheral laboratory as a whole.                                   *)

(* A laboratory whose radio and whose telemetry behave as modelled         *)
(* delivers, sends and shows what it should.                               *)
THEOREM PeripheralLabIsExactHolds == SxSpec /\ TFSpec => []PeripheralLabIsExact
  <1>1. LabRadioIsExact /\ OneByteShows => PeripheralLabIsExact
    BY DEF PeripheralLabIsExact
  <1> QED
    BY <1>1, LabRadioIsExactHolds, OneByteShowsHolds, PTL

-----------------------------------------------------------------------------
(* COOPER's lessons and cards.                                             *)

(* In s each element of S stands where those before it, counted, put it.   *)
RanksBy(s, Prior, S) ==
    \A k \in 1 .. Cardinality(S), x \in S :
        Cardinality(Prior[x]) = k - 1 => s[k] \in S /\ Cardinality(Prior[s[k]]) = k - 1

(* A set put in order by counting: every element has a place, those before *)
(* it come earlier, and none comes twice.                                  *)
LEMMA OrderedByCounting ==
    ASSUME NEW S, IsFiniteSet(S), NEW Prior, Orders(Prior, S), NEW s, RanksBy(s, Prior, S)
    PROVE  /\ \A k \in 1 .. Cardinality(S) : s[k] \in S
           /\ \A x \in S : \E k \in 1 .. Cardinality(S) : s[k] = x
           /\ \A j, k \in 1 .. Cardinality(S) : j < k => s[j] \in Prior[s[k]] /\ s[j] # s[k]
  <1>1. Cardinality(S) \in Nat
    BY FS_CardinalityType
  <1>2. /\ \A x \in S : Position(Prior, x) \in 1 .. Cardinality(S)
        /\ \A x, y \in S : x \in Prior[y] => Position(Prior, x) < Position(Prior, y)
        /\ \A x, y \in S : Position(Prior, x) = Position(Prior, y) => x = y
        /\ \A k \in 1 .. Cardinality(S) : \E x \in S : Position(Prior, x) = k
    BY PositionsInOrder
  <1>3. \A x \in S : Cardinality(Prior[x]) \in Nat
    BY FS_Subset, FS_CardinalityType DEF Orders
  <1>4. ASSUME NEW k \in 1 .. Cardinality(S)
        PROVE  s[k] \in S /\ Position(Prior, s[k]) = k
    <2>1. PICK x \in S : Position(Prior, x) = k
      BY <1>2
    <2>2. Cardinality(Prior[x]) = k - 1
      BY <1>3, <2>1 DEF Position
    <2>3. s[k] \in S /\ Cardinality(Prior[s[k]]) = k - 1
      BY <2>2 DEF RanksBy
    <2> QED
      BY <1>3, <2>3 DEF Position
  <1>5. ASSUME NEW x \in S
        PROVE  \E k \in 1 .. Cardinality(S) : s[k] = x
    <2>1. Position(Prior, x) \in 1 .. Cardinality(S)
      BY <1>2
    <2>2. s[Position(Prior, x)] = x
      BY <1>2, <1>4, <2>1
    <2> QED
      BY <2>1, <2>2
  <1>6. ASSUME NEW j \in 1 .. Cardinality(S), NEW k \in 1 .. Cardinality(S), j < k
        PROVE  s[j] \in Prior[s[k]] /\ s[j] # s[k]
    <2>1. s[j] \in S /\ s[k] \in S /\ Position(Prior, s[j]) = j /\ Position(Prior, s[k]) = k
      BY <1>4
    <2>2. s[j] # s[k]
      BY <1>6, <2>1
    <2>3. ~ (Position(Prior, s[k]) < Position(Prior, s[j]))
      BY <1>1, <1>6, <2>1
    <2>4. s[k] \notin Prior[s[j]]
      BY <1>2, <2>1, <2>3
    <2> QED
      BY <2>1, <2>2, <2>4 DEF Orders
  <1> QED
    BY <1>4, <1>5, <1>6

LEMMA FiniteRange ==
    ASSUME NEW f, IsFiniteSet(DOMAIN f)
    PROVE  IsFiniteSet(ToSet(f))
  <1> DEFINE g == [i \in DOMAIN f |-> f[i]]
  <1>1. g \in Surjection(DOMAIN f, ToSet(f))
    BY DEF Surjection, ToSet
  <1> QED
    BY <1>1, FS_Surjection

(* The cards that may be made of a profile and the lessons.                *)
MayBeCards == {line \in ToSet(profile) \cup ToSet(LessonCards) : MayBeCard(line)}

CLTypes ==
    /\ profile \in Profiles
    /\ log \in [Logs -> Seq(Queries)]
    /\ Len(lessons) \in Nat /\ DOMAIN lessons = 1 .. Len(lessons)

(* What cards there are goes into the deck in order of rank.               *)
LEMMA DeckIs ==
    ASSUME CLTypes, LessonsWereAsked
    PROVE  \E s :
               /\ IsFiniteSet(MayBeCards)
               /\ Cards = IF Len(s) > MaxCards THEN SubSeq(s, 1, MaxCards) ELSE s
               /\ DOMAIN s = 1 .. Cardinality(MayBeCards) /\ s \in Seq(MayBeCards)
               /\ Len(s) = Cardinality(MayBeCards)
               /\ \A x \in MayBeCards : \E k \in DOMAIN s : s[k] = x
               /\ \A j, k \in DOMAIN s : j < k => GoesBefore(s[j], s[k]) /\ s[j] # s[k]
  <1> DEFINE S == MayBeCards
             s == InOrder(S, GoesBefore)
             Prior == [x \in S |-> {y \in S : GoesBefore(y, x)}]
  <1>1. IsFiniteSet(S)
    <2>1. Len(profile) \in Nat /\ DOMAIN profile = 1 .. Len(profile)
      BY LinesAssumption DEF CLTypes
    <2>2. IsFiniteSet(DOMAIN profile) /\ IsFiniteSet(DOMAIN lessons)
      BY <2>1, FS_Interval DEF CLTypes
    <2>3. DOMAIN LessonCards = DOMAIN lessons
      BY DEF LessonCards
    <2>4. IsFiniteSet(ToSet(profile)) /\ IsFiniteSet(ToSet(LessonCards))
      BY <2>2, <2>3, FiniteRange
    <2>5. IsFiniteSet(ToSet(profile) \cup ToSet(LessonCards))
      BY <2>4, FS_Union
    <2> QED
      BY <2>5, FS_Subset DEF MayBeCards
  <1>2. ASSUME NEW x \in S
        PROVE  x \in DOMAIN Rank /\ Priority[x.tag] \in Int /\ Rank[x] \in Int
    <2>1. MayBeCard(x) /\ (x \in ToSet(profile) \/ x \in ToSet(LessonCards))
      BY DEF MayBeCards
    <2>2. Priority[x.tag] \in Int
      BY <2>1, DeckAssumption DEF MayBeCard
    <2>3. CASE x \in ToSet(profile)
      <3>1. PICK n \in DOMAIN profile : x = profile[n]
        BY <2>3 DEF ToSet
      <3>2. x \in DOMAIN Rank
        BY <3>1, LinesAssumption DEF CLTypes
      <3> QED
        BY <2>2, <3>2, DeckAssumption
    <2>4. CASE x \in ToSet(LessonCards)
      <3>1. PICK n \in DOMAIN lessons : x = [tag |-> TagOf[lessons[n]], text |-> lessons[n]]
        BY <2>4 DEF ToSet, LessonCards
      <3>2. PICK f \in Logs : \E q \in ToSet(log[f]) : Normal[q] = lessons[n]
        BY DEF LessonsWereAsked
      <3>3. PICK q \in ToSet(log[f]) : Normal[q] = lessons[n]
        BY <3>2
      <3>4. log[f] \in Seq(Queries)
        BY DEF CLTypes
      <3>5. q \in Queries
        BY <3>4 DEF ToSet
      <3>6. lessons[n] # ""
        BY <2>1, <3>1 DEF MayBeCard
      <3>7. x \in DOMAIN Rank
        BY <3>1, <3>3, <3>5, <3>6, LinesAssumption
      <3> QED
        BY <2>2, <3>7, DeckAssumption
    <2> QED
      BY <2>1, <2>3, <2>4
  <1>3. Orders(Prior, S)
    <2> HIDE DEF S
    <2>1. \A x \in S : Prior[x] \subseteq S /\ x \notin Prior[x]
      BY <1>2 DEF GoesBefore
    <2>2. ASSUME NEW x \in S, NEW y \in S, x \in Prior[y], NEW z \in Prior[x]
          PROVE  z \in Prior[y]
      <3>1. z \in S /\ GoesBefore(z, x) /\ GoesBefore(x, y)
        BY <2>2
      <3>2. GoesBefore(z, y)
        BY <1>2, <3>1 DEF GoesBefore
      <3> QED
        BY <3>1, <3>2
    <2>3. ASSUME NEW x \in S, NEW y \in S, x # y
          PROVE  x \in Prior[y] \/ y \in Prior[x]
      <3>1. Rank[x] # Rank[y]
        BY <1>2, <2>3, DeckAssumption
      <3>2. GoesBefore(x, y) \/ GoesBefore(y, x)
        BY <1>2, <3>1 DEF GoesBefore
      <3> QED
        BY <3>2
    <2> HIDE DEF Prior
    <2> QED
      BY <2>1, <2>2, <2>3 DEF Orders
  <1>4. DOMAIN s = 1 .. Cardinality(S) /\ s = [k \in 1 .. Cardinality(S) |-> s[k]]
    <2> DEFINE at(k) == CHOOSE x \in S : Cardinality({y \in S : GoesBefore(y, x)}) = k - 1
    <2>1. s = [k \in 1 .. Cardinality(S) |-> at(k)]
      BY DEF InOrder
    <2> HIDE DEF S, s, at
    <2> QED
      BY <2>1
  <1>5. ASSUME NEW k \in 1 .. Cardinality(S), NEW z \in S, Cardinality(Prior[z]) = k - 1
        PROVE  s[k] \in S /\ Cardinality(Prior[s[k]]) = k - 1
    <2> HIDE DEF S
    <2>1. s[k] = CHOOSE x \in S : Cardinality({y \in S : GoesBefore(y, x)}) = k - 1
      BY DEF InOrder
    <2>2. \A x \in S : {y \in S : GoesBefore(y, x)} = Prior[x]
      OBVIOUS
    <2> HIDE DEF s, Prior
    <2>3. s[k] = CHOOSE x \in S : Cardinality(Prior[x]) = k - 1
      BY <2>1, <2>2
    <2> QED
      BY <1>5, <2>3
  <1>6. Cards = IF Len(s) > MaxCards THEN SubSeq(s, 1, MaxCards) ELSE s
    BY DEF Cards, MayBeCards
  <1>7. \A x \in S : \A y \in Prior[x] : GoesBefore(y, x)
    OBVIOUS
  <1> HIDE DEF S, s, Prior
  <1>8. RanksBy(s, Prior, S)
    BY <1>5 DEF RanksBy
  <1>9. /\ \A k \in 1 .. Cardinality(S) : s[k] \in S
        /\ \A x \in S : \E k \in 1 .. Cardinality(S) : s[k] = x
        /\ \A j, k \in 1 .. Cardinality(S) : j < k => s[j] \in Prior[s[k]] /\ s[j] # s[k]
    BY ONLY <1>1, <1>3, <1>8, OrderedByCounting
  <1>10. Cardinality(S) \in Nat
    BY <1>1, FS_CardinalityType
  <1>11. s \in Seq(S) /\ Len(s) = Cardinality(S)
    <2>1. s \in [1 .. Cardinality(S) -> S]
      BY <1>4, <1>9
    <2> QED
      BY <1>10, <2>1, <1>4
  <1>12. /\ \A x \in S : \E k \in DOMAIN s : s[k] = x
         /\ \A j, k \in DOMAIN s : j < k => GoesBefore(s[j], s[k]) /\ s[j] # s[k]
    BY <1>4, <1>7, <1>9
  <1> QED
    BY <1>1, <1>4, <1>6, <1>11, <1>12 DEF S

Best(deck, candidates) ==
    LET kept == ToSet(deck) IN
    /\ kept \subseteq candidates /\ Cardinality(kept) = Len(deck)
    /\ \A n \in 1 .. Len(deck) - 1 : Priority[deck[n].tag] >= Priority[deck[n + 1].tag]
    /\ kept # candidates =>
           /\ Len(deck) = MaxCards
           /\ \A c \in candidates \ kept, k \in kept : Priority[k.tag] >= Priority[c.tag]

LEMMA OneCard ==
    ASSUME NEW d, NEW x, d = <<[tag |-> "", text |-> x]>>
    PROVE  Len(d) = 1 /\ d[1].tag = ""
  <1>1. d[1] = [tag |-> "", text |-> x]
    OBVIOUS
  <1> QED
    BY <1>1

(* So the deck is the best of what it was made of, and is not mistaken for *)
(* a torn file or for no cards.                                            *)
LEMMA DeckIsBest ==
    ASSUME CLTypes, LessonsWereAsked
    PROVE  Best(Cards, MayBeCards) /\ Cards # Torn /\ Cards # NoCards
  <1> DEFINE S == MayBeCards
  <1>1. PICK s :
            /\ IsFiniteSet(S)
            /\ Cards = IF Len(s) > MaxCards THEN SubSeq(s, 1, MaxCards) ELSE s
            /\ DOMAIN s = 1 .. Cardinality(S) /\ s \in Seq(S)
            /\ Len(s) = Cardinality(S)
            /\ \A x \in S : \E k \in DOMAIN s : s[k] = x
            /\ \A j, k \in DOMAIN s : j < k => GoesBefore(s[j], s[k]) /\ s[j] # s[k]
    BY DeckIs
  <1>2. Cardinality(S) \in Nat /\ MaxCards \in Nat
    BY <1>1, FS_CardinalityType, DeckAssumption
  <1>3. \A c \in S : c.tag # "" /\ Priority[c.tag] \in Int
    BY DeckAssumption DEF MayBeCards, MayBeCard
  <1>4. ASSUME NEW a \in S, NEW b \in S, GoesBefore(a, b)
         PROVE  Priority[a.tag] >= Priority[b.tag]
    <2>1. Priority[a.tag] \in Int /\ Priority[b.tag] \in Int
      BY <1>3
    <2> QED
      BY <1>4, <2>1 DEF GoesBefore
  <1>5. PICK n \in Nat :
            /\ n <= Cardinality(S) /\ (n < Cardinality(S) => n = MaxCards)
            /\ Len(Cards) = n /\ DOMAIN Cards = 1 .. n
            /\ \A k \in 1 .. n : Cards[k] = s[k]
    <2>1. CASE Len(s) > MaxCards
      <3>1. /\ SubSeq(s, 1, MaxCards) \in Seq(S)
            /\ Len(SubSeq(s, 1, MaxCards)) = MaxCards
            /\ \A k \in 1 .. MaxCards : SubSeq(s, 1, MaxCards)[k] = s[k]
        BY <1>1, <1>2, <2>1
      <3> QED
        BY <1>1, <1>2, <2>1, <3>1
    <2>2. CASE ~ (Len(s) > MaxCards)
      <3>1. Cards = s
        BY <1>1, <2>2
      <3> QED
        BY <1>1, <1>2, <3>1
    <2> QED
      BY <2>1, <2>2
  <1> HIDE DEF S
  <1>6. \A k \in 1 .. n : Cards[k] \in S /\ k \in DOMAIN s
    BY <1>1, <1>2, <1>5
  <1>7. ASSUME NEW j \in 1 .. n, NEW k \in 1 .. n, j < k
        PROVE  GoesBefore(Cards[j], Cards[k]) /\ Cards[j] # Cards[k]
    <2>1. j \in DOMAIN s /\ k \in DOMAIN s /\ Cards[j] = s[j] /\ Cards[k] = s[k]
      BY <1>5, <1>6
    <2>2. GoesBefore(s[j], s[k]) /\ s[j] # s[k]
      BY ONLY <1>1, <1>7, <2>1
    <2> QED
      BY <2>1, <2>2
  <1>8. ToSet(Cards) = {Cards[k] : k \in 1 .. n}
    BY <1>5 DEF ToSet
  <1>9. ToSet(Cards) \subseteq S /\ Cardinality(ToSet(Cards)) = n
    <2> DEFINE g == [k \in 1 .. n |-> Cards[k]]
    <2>1. \A j, k \in 1 .. n : g[j] = g[k] => j = k
      <3> SUFFICES ASSUME NEW j \in 1 .. n, NEW k \in 1 .. n, j # k
                   PROVE  Cards[j] # Cards[k]
        OBVIOUS
      <3>1. j < k \/ k < j
        BY <1>5
      <3> QED
        BY <1>7, <3>1
    <2>2. g \in Bijection(1 .. n, ToSet(Cards))
      <3>1. g \in [1 .. n -> ToSet(Cards)] /\ \A x \in ToSet(Cards) : \E k \in 1 .. n : g[k] = x
        BY <1>8
      <3> HIDE DEF g
      <3> QED
        BY <2>1, <3>1 DEF Bijection, Injection, Surjection, IsInjective
    <2>3. IsFiniteSet(1 .. n) /\ Cardinality(1 .. n) = n
      BY FS_Interval
    <2>4. Cardinality(ToSet(Cards)) = n
      BY <2>2, <2>3, FS_Bijection DEF ExistsBijection
    <2> QED
      BY <1>6, <1>8, <2>4
  <1>10. \A k \in 1 .. n - 1 : Priority[Cards[k].tag] >= Priority[Cards[k + 1].tag]
    <2> SUFFICES ASSUME NEW k \in 1 .. n - 1
                 PROVE  Priority[Cards[k].tag] >= Priority[Cards[k + 1].tag]
      OBVIOUS
    <2>1. k \in 1 .. n /\ k + 1 \in 1 .. n /\ k < k + 1
      BY <1>5
    <2>2. GoesBefore(Cards[k], Cards[k + 1]) /\ Cards[k] \in S /\ Cards[k + 1] \in S
      BY <1>6, <1>7, <2>1
    <2> QED
      BY <1>4, <2>2
  <1>11. ASSUME ToSet(Cards) # S
         PROVE  /\ n = MaxCards
                /\ \A c \in S \ ToSet(Cards), k \in ToSet(Cards) :
                       Priority[k.tag] >= Priority[c.tag]
    <2>1. ASSUME NEW c \in S \ ToSet(Cards)
          PROVE  \E i \in DOMAIN s : s[i] = c /\ i > n
      <3>1. PICK i \in DOMAIN s : s[i] = c
        BY <1>1
      <3>2. i \in 1 .. Cardinality(S) /\ i \notin 1 .. n
        BY <1>1, <1>5, <1>8, <3>1
      <3> QED
        BY <1>2, <1>5, <3>1, <3>2
    <2>2. n = MaxCards
      <3>1. PICK c \in S : c \notin ToSet(Cards)
        BY <1>9, <1>11
      <3>2. PICK i \in DOMAIN s : i > n
        BY <2>1, <3>1
      <3> QED
        BY <1>1, <1>2, <1>5, <3>2
    <2>3. ASSUME NEW c \in S \ ToSet(Cards), NEW k \in ToSet(Cards)
          PROVE  Priority[k.tag] >= Priority[c.tag]
      <3>1. PICK i \in DOMAIN s : s[i] = c /\ i > n
        BY <2>1
      <3>2. PICK j \in 1 .. n : k = Cards[j]
        BY <1>8
      <3>3. j \in DOMAIN s /\ s[j] = k /\ j < i
        BY <1>1, <1>2, <1>5, <1>6, <3>1, <3>2
      <3>4. GoesBefore(k, c) /\ k \in S
        BY <1>1, <1>6, <3>1, <3>2, <3>3
      <3> QED
        BY <1>4, <3>4
    <2> QED
      BY <2>2, <2>3
  <1>12. Best(Cards, S)
    BY <1>5, <1>9, <1>10, <1>11 DEF Best
  <1>13. ASSUME NEW x, Cards = <<[tag |-> "", text |-> x]>>
         PROVE  FALSE
    <2>1. Len(Cards) = 1 /\ Cards[1].tag = ""
      BY <1>13, OneCard
    <2>2. n = 1
      BY ONLY <1>5, <2>1
    <2>3. Cards[1] \in S
      BY <1>6, <2>2
    <2> QED
      BY <1>3, <2>1, <2>3
  <1> QED
    BY <1>12, <1>13 DEF Torn, NoCards, S

LEMMA FiniteLines ==
    ASSUME CLTypes
    PROVE  IsFiniteSet(Lines) /\ \A e \in Lines : e[1] \in Logs /\ e[2] \in DOMAIN log[e[1]]
                                     /\ e[1] \in Int /\ e[2] \in Nat /\ e = <<e[1], e[2]>>
  <1> DEFINE linesOf == [f \in Logs |-> {f} \X DOMAIN log[f]]
  <1>1. \A f \in Logs : Len(log[f]) \in Nat /\ DOMAIN log[f] = 1 .. Len(log[f])
    BY DEF CLTypes
  <1>2. ASSUME NEW T \in ToSet(linesOf)
        PROVE  IsFiniteSet(T)
    <2>1. PICK f \in Logs : T = {f} \X DOMAIN log[f]
      BY <1>2 DEF ToSet
    <2>2. IsFiniteSet({f})
      BY FS_Singleton
    <2>3. IsFiniteSet(DOMAIN log[f])
      BY <1>1, FS_Interval
    <2> QED
      BY <2>1, <2>2, <2>3, FS_Product
  <1>3. IsFiniteSet(ToSet(linesOf))
    BY LogsAssumption, FiniteRange
  <1>4. Lines = UNION ToSet(linesOf)
    BY DEF Lines, ToSet
  <1>5. IsFiniteSet(Lines)
    <2> HIDE DEF linesOf
    <2> QED
      BY <1>2, <1>3, <1>4, FS_UNION
  <1>6. ASSUME NEW e \in Lines
        PROVE  /\ e[1] \in Logs /\ e[2] \in DOMAIN log[e[1]]
               /\ e[1] \in Int /\ e[2] \in Nat /\ e = <<e[1], e[2]>>
    <2>1. PICK f \in Logs : e \in {f} \X DOMAIN log[f]
      BY DEF Lines
    <2>2. e[1] = f /\ e[2] \in DOMAIN log[f] /\ e = <<e[1], e[2]>>
      BY <2>1
    <2> QED
      BY <1>1, <2>2, LogsAssumption
  <1> QED
    BY <1>5, <1>6

(* The distilled queries are distinct, and each stands in a log.           *)
LEMMA DistilledIs ==
    ASSUME CLTypes
    PROVE  /\ Len(Distilled) \in Nat /\ DOMAIN Distilled = 1 .. Len(Distilled)
           /\ \A j, k \in DOMAIN Distilled : Distilled[j] = Distilled[k] => j = k
           /\ \A k \in DOMAIN Distilled :
                  \E f \in Logs : \E q \in ToSet(log[f]) : Normal[q] = Distilled[k]
  <1> DEFINE S == FirstAsked
             s == InOrder(S, Earlier)
             Prior == [x \in S |-> {y \in S : Earlier(y, x)}]
  <1>1. ASSUME NEW e \in S
        PROVE  /\ e \in Lines /\ e[1] \in Logs /\ e[2] \in DOMAIN log[e[1]]
               /\ e[1] \in Int /\ e[2] \in Nat /\ e = <<e[1], e[2]>>
    BY FiniteLines DEF FirstAsked
  <1>2. IsFiniteSet(S)
    BY FiniteLines, FS_Subset DEF FirstAsked
  <1>3. Orders(Prior, S)
    <2> HIDE DEF S
    <2>1. \A x \in S : Prior[x] \subseteq S /\ x \notin Prior[x]
      BY <1>1 DEF Earlier
    <2>2. ASSUME NEW x \in S, NEW y \in S, x \in Prior[y], NEW z \in Prior[x]
          PROVE  z \in Prior[y]
      <3>1. z \in S /\ Earlier(z, x) /\ Earlier(x, y)
        BY <2>2
      <3>2. Earlier(z, y)
        BY <1>1, <3>1 DEF Earlier
      <3> QED
        BY <3>1, <3>2
    <2>3. ASSUME NEW x \in S, NEW y \in S, x # y
          PROVE  x \in Prior[y] \/ y \in Prior[x]
      <3>1. x[1] # y[1] \/ x[2] # y[2]
        BY <1>1, <2>3
      <3>2. Earlier(x, y) \/ Earlier(y, x)
        BY <1>1, <3>1 DEF Earlier
      <3> QED
        BY <3>2
    <2> HIDE DEF Prior
    <2> QED
      BY <2>1, <2>2, <2>3 DEF Orders
  <1>4. DOMAIN s = 1 .. Cardinality(S)
    <2> DEFINE at(k) == CHOOSE x \in S : Cardinality({y \in S : Earlier(y, x)}) = k - 1
    <2>1. s = [k \in 1 .. Cardinality(S) |-> at(k)]
      BY DEF InOrder
    <2> HIDE DEF S, s, at
    <2> QED
      BY <2>1
  <1>5. ASSUME NEW k \in 1 .. Cardinality(S), NEW z \in S, Cardinality(Prior[z]) = k - 1
        PROVE  s[k] \in S /\ Cardinality(Prior[s[k]]) = k - 1
    <2> HIDE DEF S
    <2>1. s[k] = CHOOSE x \in S : Cardinality({y \in S : Earlier(y, x)}) = k - 1
      BY DEF InOrder
    <2>2. \A x \in S : {y \in S : Earlier(y, x)} = Prior[x]
      OBVIOUS
    <2> HIDE DEF s, Prior
    <2>3. s[k] = CHOOSE x \in S : Cardinality(Prior[x]) = k - 1
      BY <2>1, <2>2
    <2> QED
      BY <1>5, <2>3
  <1>6. Distilled = [k \in DOMAIN s |-> QueryAt(s[k])]
    BY DEF Distilled
  <1>7. \A x \in S : \A y \in Prior[x] : Earlier(y, x)
    OBVIOUS
  <1> HIDE DEF s, Prior
  <1>8. ASSUME NEW x \in S, NEW y \in S, y \in Prior[x]
        PROVE  QueryAt(y) # QueryAt(x)
    BY <1>1, <1>7, <1>8 DEF FirstAsked
  <1> HIDE DEF S
  <1>9. RanksBy(s, Prior, S)
    BY <1>5 DEF RanksBy
  <1>10. /\ \A k \in 1 .. Cardinality(S) : s[k] \in S
         /\ \A j, k \in 1 .. Cardinality(S) : j < k => s[j] \in Prior[s[k]] /\ s[j] # s[k]
    BY ONLY <1>2, <1>3, <1>9, OrderedByCounting
  <1>11. Cardinality(S) \in Nat
    BY <1>2, FS_CardinalityType
  <1>12. DOMAIN Distilled = 1 .. Cardinality(S) /\ Len(Distilled) = Cardinality(S)
    <2> DEFINE query(k) == QueryAt(s[k])
    <2>1. Distilled = [k \in 1 .. Cardinality(S) |-> query(k)]
      BY <1>4, <1>6
    <2> HIDE DEF query
    <2> QED
      BY <1>11, <2>1
  <1>13. ASSUME NEW j \in DOMAIN Distilled, NEW k \in DOMAIN Distilled, j # k
         PROVE  Distilled[j] # Distilled[k]
    <2>1. j \in 1 .. Cardinality(S) /\ k \in 1 .. Cardinality(S)
      BY <1>12
    <2>2. j < k \/ k < j
      BY <1>11, <1>13, <2>1
    <2>3. s[j] \in S /\ s[k] \in S /\ (s[j] \in Prior[s[k]] \/ s[k] \in Prior[s[j]])
      BY <1>10, <2>1, <2>2
    <2> QED
      BY <1>4, <1>6, <1>8, <2>1, <2>3
  <1>14. ASSUME NEW k \in DOMAIN Distilled
         PROVE  \E f \in Logs : \E q \in ToSet(log[f]) : Normal[q] = Distilled[k]
    <2>1. s[k] \in S /\ Distilled[k] = QueryAt(s[k])
      BY <1>4, <1>6, <1>10, <1>12
    <2>2. s[k][1] \in Logs /\ log[s[k][1]][s[k][2]] \in ToSet(log[s[k][1]])
      BY <1>1, <2>1 DEF ToSet
    <2> QED
      BY <2>1, <2>2 DEF QueryAt
  <1> QED
    BY <1>11, <1>12, <1>13, <1>14
Candidates(made) ==
    {c \in ToSet(made.profile) \cup {[tag |-> TagOf[q], text |-> q] : q \in ToSet(made.lessons)} :
        MayBeCard(c)}

LEMMA CardsAreBest == CardsAreTheBest <=> (cards # Torn => Best(cards, Candidates(madeOf)))
  BY DEF CardsAreTheBest, Best, Candidates, MayBeCard

CardsAreKept ==
    /\ cards # Torn => cards \in stored
    /\ building # NoCards => building \in stored

(* The inductive invariant: cards that may still become an image have been *)
(* the contents of their file.                                             *)
CLInv == CLTypes /\ CardsAreKept /\ LearningIsHonest

LEMMA CLInitInv == CLInit => CLInv
  <1> SUFFICES ASSUME CLInit PROVE CLInv
    OBVIOUS
  <1> USE DEF CLInit
  <1>1. CLTypes
    BY DEF CLTypes
  <1>2. CardsAreKept /\ CardsAreTheBest /\ BankFollowsCards
    BY DEF CardsAreKept, CardsAreTheBest, BankFollowsCards, Sound, NoImage
  <1>3. LessonsWereAsked
    BY DEF LessonsWereAsked, IsInjective
  <1> QED
    BY <1>1, <1>2, <1>3 DEF CLInv, LearningIsHonest

(* The deck that is written is the best of the profile and the lessons.    *)
LEMMA BuiltCardsAreBest ==
    ASSUME CLInv, madeOf' = [profile |-> profile, lessons |-> lessons],
           cards' = Cards \/ cards' = Torn
    PROVE  CardsAreTheBest'
  <1>1. Best(Cards, MayBeCards)
    BY DeckIsBest DEF CLInv, LearningIsHonest
  <1>2. Candidates(madeOf') = MayBeCards
    <2>1. madeOf'.profile = profile /\ madeOf'.lessons = lessons
      OBVIOUS
    <2>2. ToSet(LessonCards) = {[tag |-> TagOf[q], text |-> q] : q \in ToSet(lessons)}
      BY DEF ToSet, LessonCards
    <2> QED
      BY <2>1, <2>2 DEF Candidates, MayBeCards
  <1>3. cards' # Torn => Best(cards', Candidates(madeOf'))
    BY <1>1, <1>2
  <1>4. CardsAreTheBest' <=> (cards' # Torn => Best(cards', Candidates(madeOf')))
    BY DEF CardsAreTheBest, Best, Candidates, MayBeCard
  <1> QED
    BY <1>3, <1>4

LEMMA CLStep == CLInv /\ [CLNext]_clVars => CLInv'
  <1> SUFFICES ASSUME CLInv, [CLNext]_clVars PROVE CLInv'
    OBVIOUS
  <1>1. CLTypes /\ CardsAreKept /\ CardsAreTheBest /\ LessonsWereAsked /\ BankFollowsCards
    BY DEF CLInv, LearningIsHonest
  <1>2. SUFFICES CLTypes' /\ CardsAreKept' /\ CardsAreTheBest' /\ LessonsWereAsked' /\ BankFollowsCards'
    BY DEF CLInv, LearningIsHonest
  <1>3. ASSUME UNCHANGED <<cards, madeOf>>
        PROVE  CardsAreTheBest'
    BY <1>1, <1>3 DEF CardsAreTheBest
  <1>4. ASSUME UNCHANGED <<log, lessons>>
        PROVE  LessonsWereAsked'
    BY <1>1, <1>4 DEF LessonsWereAsked
  <1>5. ASSUME UNCHANGED <<cards, building, image, payload, stored>>
        PROVE  CardsAreKept' /\ BankFollowsCards'
    BY <1>1, <1>5 DEF CardsAreKept, BankFollowsCards
  <1>6. ASSUME UNCHANGED <<log, lessons, profile>>
        PROVE  CLTypes'
    BY <1>1, <1>6 DEF CLTypes
  <1>7. ASSUME NEW f \in Logs, NEW q \in Queries, LogQuery(f, q)
        PROVE  CLTypes' /\ LessonsWereAsked'
    <2>1. log[f] \in Seq(Queries) /\ log' = [log EXCEPT ![f] = Append(@, q)]
      BY <1>1, <1>7 DEF CLTypes, LogQuery
    <2>2. log' \in [Logs -> Seq(Queries)]
      BY <1>1, <2>1 DEF CLTypes
    <2>3. UNCHANGED <<lessons, profile>>
      BY <1>7 DEF LogQuery
    <2>4. ASSUME NEW g \in Logs
          PROVE  ToSet(log[g]) \subseteq ToSet(log'[g])
      <3>1. CASE g = f
        <4>1. log'[g] = Append(log[g], q) /\ log[g] \in Seq(Queries)
          BY <1>1, <2>1, <3>1 DEF CLTypes
        <4>2. \A i \in DOMAIN log[g] : i \in DOMAIN log'[g] /\ log'[g][i] = log[g][i]
          BY <4>1
        <4> QED
          BY <4>2 DEF ToSet
      <3>2. CASE g # f
        <4>1. log'[g] = log[g]
          BY <1>1, <2>1, <3>2 DEF CLTypes
        <4> QED
          BY <4>1
      <3> QED
        BY <3>1, <3>2
    <2>5. ASSUME NEW n \in DOMAIN lessons
          PROVE  \E g \in Logs : \E r \in ToSet(log'[g]) : Normal[r] = lessons[n]
      BY <1>1, <2>4 DEF LessonsWereAsked
    <2> QED
      BY <1>1, <2>2, <2>3, <2>5 DEF CLTypes, LessonsWereAsked
  <1>8. ASSUME build_cooper_offline_lessons
        PROVE  CLTypes' /\ LessonsWereAsked'
    <2>1. PICK n \in 0 .. Len(Distilled) : lessons' = SubSeq(Distilled, 1, n)
      BY <1>8 DEF build_cooper_offline_lessons
    <2>2. UNCHANGED <<log, profile>>
      BY <1>8 DEF build_cooper_offline_lessons
    <2> DEFINE V == {Distilled[k] : k \in DOMAIN Distilled}
    <2>3. /\ Len(Distilled) \in Nat /\ DOMAIN Distilled = 1 .. Len(Distilled)
          /\ \A j, k \in DOMAIN Distilled : Distilled[j] = Distilled[k] => j = k
          /\ \A k \in DOMAIN Distilled :
                 \E f \in Logs : \E q \in ToSet(log[f]) : Normal[q] = Distilled[k]
      BY <1>1, DistilledIs
    <2>4. n \in Int /\ \A i \in 1 .. n : i \in DOMAIN Distilled /\ Distilled[i] \in V
      BY <2>1, <2>3
    <2>5. /\ lessons' \in Seq(V) /\ Len(lessons') = n
          /\ \A i \in 1 .. n : lessons'[i] = Distilled[i]
      <3> HIDE DEF V
      <3>1. /\ SubSeq(Distilled, 1, n) \in Seq(V)
            /\ Len(SubSeq(Distilled, 1, n)) = IF 1 <= n THEN n - 1 + 1 ELSE 0
            /\ \A i \in 1 .. n - 1 + 1 : SubSeq(Distilled, 1, n)[i] = Distilled[1 + i - 1]
        BY <2>4, SubSeqProperties
      <3>2. n \in Nat
        BY <2>1
      <3>3. n - 1 + 1 = n /\ \A i \in 1 .. n : 1 + i - 1 = i
        BY <3>2
      <3> QED
        BY <2>1, <3>1, <3>2, <3>3
    <2>6. DOMAIN lessons' = 1 .. n
      BY <2>5
    <2>7. LessonsWereAsked'
      BY <2>2, <2>3, <2>4, <2>5, <2>6 DEF LessonsWereAsked, IsInjective
    <2> QED
      BY <1>1, <2>2, <2>5, <2>6, <2>7 DEF CLTypes
  <1>9. ASSUME build_cooper_cards
        PROVE  CardsAreTheBest' /\ CardsAreKept' /\ BankFollowsCards'
    <2>1. /\ madeOf' = [profile |-> profile, lessons |-> lessons]
          /\ building = NoCards /\ UNCHANGED <<image, payload>>
          /\ \/ cards' = Cards /\ building' = Cards /\ stored' = stored \cup {Cards}
             \/ cards' = Torn /\ UNCHANGED <<building, stored>>
      BY <1>9 DEF build_cooper_cards, CooperCommand
    <2>2. CardsAreTheBest'
      BY <2>1, BuiltCardsAreBest
    <2> QED
      BY <1>1, <2>1, <2>2 DEF CardsAreKept, BankFollowsCards
  <1>10. ASSUME NEW p \in stored, image' \in {image, Image(p)} \cup PiecesOf(p)
         PROVE  Sound(image') => image'.payload \in stored
    <2>1. CASE image' = image
      BY <1>1, <2>1 DEF BankFollowsCards
    <2>2. CASE image' = Image(p)
      BY <2>2 DEF Image
    <2>3. CASE image' = NoImage
      BY <2>3 DEF NoImage, Sound
    <2>4. CASE image' = [Image(p) EXCEPT !.header = NoCards]
      BY <2>4 DEF Image, Sound
    <2>5. CASE image' = [Image(p) EXCEPT !.payload = NoCards]
      BY <2>5 DEF Image, Sound
    <2> QED
      BY <1>10, <2>1, <2>2, <2>3, <2>4, <2>5 DEF PiecesOf
  <1>11. ASSUME WriteBank
         PROVE  CardsAreKept' /\ BankFollowsCards'
    <2>1. /\ building # NoCards /\ building' = NoCards
          /\ image' \in {image, Image(building)} \cup PiecesOf(building)
          /\ UNCHANGED <<cards, payload, stored>>
      BY <1>11 DEF WriteBank
    <2>2. building \in stored
      BY <1>1, <2>1 DEF CardsAreKept
    <2>3. Sound(image') => image'.payload \in stored
      BY <1>10, <2>1, <2>2
    <2> QED
      BY <1>1, <2>1, <2>3 DEF CardsAreKept, BankFollowsCards
  <1>12. ASSUME BuildBank
         PROVE  CardsAreKept' /\ BankFollowsCards'
    <2>1. /\ cards # Torn /\ image' \in {Image(cards)} \cup PiecesOf(cards)
          /\ UNCHANGED <<cards, building, payload, stored>>
      BY <1>12 DEF BuildBank
    <2>2. cards \in stored
      BY <1>1, <2>1 DEF CardsAreKept
    <2>3. Sound(image') => image'.payload \in stored
      BY <1>10, <2>1, <2>2
    <2> QED
      BY <1>1, <2>1, <2>3 DEF CardsAreKept, BankFollowsCards
  <1>13. ASSUME Inspect
         PROVE  CardsAreKept' /\ BankFollowsCards'
    BY <1>1, <1>13 DEF Inspect, CardsAreKept, BankFollowsCards
  <1>14. CASE \E f \in Logs, q \in Queries : LogQuery(f, q)
    BY <1>3, <1>5, <1>7, <1>14 DEF LogQuery
  <1>15. CASE \E p \in Profiles : EditProfile(p)
    <2>1. CLTypes'
      BY <1>1, <1>15 DEF EditProfile, CLTypes
    <2> QED
      BY <1>3, <1>4, <1>5, <1>15, <2>1 DEF EditProfile
  <1>16. CASE build_cooper_offline_lessons
    BY <1>3, <1>5, <1>8, <1>16 DEF build_cooper_offline_lessons
  <1>17. CASE build_cooper_cards
    BY <1>4, <1>6, <1>9, <1>17 DEF build_cooper_cards
  <1>18. CASE WriteBank
    BY <1>3, <1>4, <1>6, <1>11, <1>18 DEF WriteBank
  <1>19. CASE BuildBank
    BY <1>3, <1>4, <1>6, <1>12, <1>19 DEF BuildBank
  <1>20. CASE Inspect
    BY <1>3, <1>4, <1>6, <1>13, <1>20 DEF Inspect
  <1>21. CASE UNCHANGED clVars
    BY <1>3, <1>4, <1>5, <1>6, <1>21 DEF clVars
  <1> QED
    BY <1>14, <1>15, <1>16, <1>17, <1>18, <1>19, <1>20, <1>21 DEF CLNext

(* Any logs, profiles and writes cut short: lessons were asked, cards are  *)
(* the best of what they were made of, and an image that is accepted holds *)
(* what the cards file held (cooper-lessons, cooper-cards, learning-bank). *)
THEOREM LearningIsHonestHolds == CLSpec => []LearningIsHonest
  <1>1. CLInv => LearningIsHonest
    BY DEF CLInv
  <1> QED
    BY CLInitInv, CLStep, <1>1, PTL DEF CLSpec

-----------------------------------------------------------------------------

(* Whoever edits policies and teaches COOPER finds both kept, for any      *)
(* policies, metrics, logs and profiles (gplc_rt, radnet_tools,            *)
(* raman_portable).                                                        *)
THEOREM ToolsKeepTheirWordHolds == GPSpec /\ CLSpec => []ToolsKeepTheirWord
  <1>1. PolicyIsKept /\ LearningIsHonest => ToolsKeepTheirWord
    BY DEF ToolsKeepTheirWord
  <1> QED
    BY PolicyIsKeptHolds, LearningIsHonestHolds, <1>1, PTL
=============================================================================
