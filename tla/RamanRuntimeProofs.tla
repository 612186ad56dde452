-------------------------- MODULE RamanRuntimeProofs --------------------------
(***************************************************************************)
(* What TLAPS proves of the two RAMAN executors, for every artifact, every *)
(* set of streams and situations, and every number of calls.               *)
(***************************************************************************)
EXTENDS RamanRuntime, RamanCore, TLAPS

-------------------------------------------------------------------------------
(* The pure parts *)

\* What the planner alone gives is a snapshot.
LEMMA BaseType ==
    ASSUME NEW situation \in Situations
    PROVE  BaseSnapshot(situation) \in Snapshots
BY RuntimeAssumption DEF BaseSnapshot, Snapshots

\* A readable action of a matching rule fills its slot with a value of its kind.
LEMMA FillType ==
    ASSUME NEW s \in Snapshots, NEW r \in Rule, NEW situation \in Situations,
           Taken(r, s, situation), Readable(r.action)
    PROVE  Fill(r.action, s) \in Snapshots
<1> DEFINE a == r.action
<1>1. a \in Actions /\ a.kind \in Kinds /\ Readable(a)
  BY DEF Rule, Taken
<1>2. CASE a.kind = "contract"
  BY <1>1, <1>2 DEF Actions, ActionsOf, Values, Fill, Snapshots, OtherKind
<1>3. CASE a.kind = "phy"
  BY <1>1, <1>3 DEF Actions, ActionsOf, Values, Fill, Snapshots, Readable, OtherKind
<1>4. CASE a.kind = "transport"
  BY <1>1, <1>4 DEF Actions, ActionsOf, Values, Fill, Snapshots, OtherKind
<1>5. CASE a.kind = "ris"
  BY <1>1, <1>5 DEF Actions, ActionsOf, Values, Fill, Snapshots, OtherKind
<1>6. CASE a.kind = "verify"
  BY <1>1, <1>6 DEF Actions, ActionsOf, Values, Fill, Snapshots, OtherKind
<1>7. CASE a.kind = "hold"
  BY <1>1, <1>7 DEF Actions, ActionsOf, Values, Fill, Snapshots, OtherKind
<1>8. CASE a.kind = "cooldown"
  BY <1>1, <1>8 DEF Actions, ActionsOf, Values, Fill, Snapshots, OtherKind
<1> QED
  BY <1>1, <1>2, <1>3, <1>4, <1>5, <1>6, <1>7, <1>8 DEF Kinds

\* The decided priority is a priority, whichever of the three sources it is
\* taken from.
LEMMA PriorityType ==
    ASSUME NEW s \in Snapshots, NEW situation \in Situations
    PROVE  PriorityOf(s, situation) \in Priorities
<1>1. default_priority(situation, s.name) \in Priorities
  BY RuntimeAssumption DEF default_priority, Snapshots
<1>2. s.verify # None => s.verify.fallback \in Priorities
  BY DEF Snapshots, Verifies
<1>3. s.transport # None => s.transport \in Priorities
  BY DEF Snapshots
<1> QED
  BY <1>1, <1>2, <1>3 DEF PriorityOf

\* A window is a number of ticks.
LEMMA WindowType ==
    ASSUME NEW s \in Snapshots
    PROVE  WindowOf(s) \in Nat
BY DEF WindowOf, Snapshots

\* Sorting a compiled program or taking an executable one gives rules.
LEMMA RulesType ==
    ASSUME NEW a \in Artifacts, NEW r \in RulesOf(a)
    PROVE  r \in Seq(Rule)
<1>1. a.compiled \in Seq(Rule) /\ a.executable \in Seq(Rule)
  BY ArtifactAssumption
<1>2. CASE a.executable = <<>>
  <2>1. r \in [1..Len(a.compiled) -> {a.compiled[n] : n \in 1..Len(a.compiled)}]
    BY <1>2 DEF RulesOf, SortedRules
  <2>2. \A n \in 1..Len(a.compiled) : a.compiled[n] \in Rule
    BY <1>1
  <2>3. r \in [1..Len(a.compiled) -> Rule]
    BY <2>1, <2>2
  <2> QED
    BY <1>1, <2>3
<1>3. CASE a.executable # <<>>
  BY <1>1, <1>3 DEF RulesOf
<1> QED
  BY <1>2, <1>3

-------------------------------------------------------------------------------
(* Types *)

\* The host starts in a state of the right type.
LEMMA InitType == Init => TypeOK
<1> SUFFICES ASSUME Init PROVE TypeOK
  OBVIOUS
<1>1. rules \in Seq(Rule)
  BY RulesType DEF Init
<1>2. snap \in Snapshots
  BY BaseType DEF Init
<1> QED
  BY <1>1, <1>2, RuntimeAssumption
  DEF Init, TypeOK, FreshPlatform, Statuses

\* A step of the scan keeps the types: only the snapshot needs an argument.
LEMMA ScanType == TypeOK /\ ScanRule => TypeOK'
<1> SUFFICES ASSUME TypeOK, ScanRule PROVE TypeOK'
  OBVIOUS
<1>1. rules[i] \in Rule /\ i + 1 \in Nat \ {0} /\ i \in Nat \ {0}
  BY DEF TypeOK, ScanRule
<1>2. CASE /\ ~Taken(rules[i], snap, call.situation)
           /\ i' = i + 1 /\ UNCHANGED <<snap, pc, status>>
  BY <1>1, <1>2 DEF TypeOK, ScanRule, hostVars, windowVars
<1>3. CASE /\ Taken(rules[i], snap, call.situation)
           /\ Readable(rules[i].action)
           /\ i' = i + 1 /\ snap' = Fill(rules[i].action, snap)
           /\ UNCHANGED <<pc, status>>
  <2>1. snap' \in Snapshots
    BY <1>1, <1>3, FillType DEF TypeOK
  <2> QED
    BY <1>1, <1>3, <2>1 DEF TypeOK, ScanRule, hostVars, windowVars
<1>4. CASE Return("rule_error") /\ UNCHANGED scanVars
  BY <1>4 DEF TypeOK, ScanRule, Return, Statuses, hostVars, windowVars, scanVars
<1> QED
  BY <1>2, <1>3, <1>4 DEF ScanRule

\* A decision, and the window it opens, have their types.
LEMMA DecideType == TypeOK /\ Decide => TypeOK'
<1> SUFFICES ASSUME TypeOK, Decide PROVE TypeOK'
  OBVIOUS
<1> DEFINE priority == PriorityOf(snap, call.situation)
<1> DEFINE fresh == [priority |-> priority, snap |-> snap, reused |-> FALSE]
<1> DEFINE window == [stream |-> call.stream, snap |-> snap,
                      priority |-> priority, left |-> WindowOf(snap)]
<1>1. fresh \in Decisions
  BY PriorityType DEF TypeOK, Decisions
<1>2. window \in Windows
  BY PriorityType, WindowType DEF TypeOK, Windows
<1>3. decision' = {fresh} /\ pc' = "phy"
  BY DEF Decide
<1>4. \/ temporal' = {window} /\ opened' = {fresh} /\ served' = 0
      \/ UNCHANGED windowVars
  BY DEF Decide
<1> HIDE DEF fresh, window
<1>5. temporal' \in SUBSET Windows /\ opened' \in SUBSET Decisions /\ served' \in Nat
  <2>1. CASE temporal' = {window} /\ opened' = {fresh} /\ served' = 0
    BY <1>1, <1>2, <2>1
  <2>2. CASE UNCHANGED windowVars
    BY <2>2 DEF TypeOK, windowVars
  <2> QED
    BY <1>4, <2>1, <2>2
<1>6. UNCHANGED <<hostVars, platform, output, call, scanVars, status, calls>>
  BY DEF Decide
<1> QED
  BY <1>1, <1>3, <1>5, <1>6 DEF TypeOK, hostVars, scanVars

\* Serving a window keeps the types.
LEMMA ReuseType ==
    ASSUME NEW stream \in Streams, NEW situation \in Situations
    PROVE  TypeOK /\ Reuse(stream, situation) => TypeOK'
<1> SUFFICES ASSUME TypeOK, Reuse(stream, situation) PROVE TypeOK'
  OBVIOUS
<1>1. PICK w \in temporal :
          /\ decision' = {[priority |-> w.priority, snap |-> w.snap,
                           reused |-> TRUE]}
          /\ temporal' = IF w.left > 1 THEN {[w EXCEPT !.left = @ - 1]} ELSE {}
          /\ served' = served + 1
  BY DEF Reuse
<1>2. w \in Windows
  BY DEF TypeOK
<1>3. decision' \in SUBSET Decisions
  BY <1>1, <1>2 DEF Windows, Decisions
<1>4. temporal' \in SUBSET Windows
  <2>1. w.left > 1 => w.left - 1 \in Nat
    BY <1>2 DEF Windows
  <2> QED
    BY <1>1, <1>2, <2>1 DEF Windows
<1>5. calls' \in 0..MaxCalls
  BY RuntimeAssumption DEF TypeOK, Reuse, BeginCall
<1>6. call' \in [stream : Streams, situation : Situations]
  BY DEF Reuse, BeginCall
<1>7. served' \in Nat
  BY <1>1 DEF TypeOK
<1> QED
  BY <1>3, <1>4, <1>5, <1>6, <1>7
  DEF TypeOK, Reuse, BeginCall, hostVars, scanVars

\* Beginning a scan keeps the types.
LEMMA BeginScanType ==
    ASSUME NEW stream \in Streams, NEW situation \in Situations
    PROVE  TypeOK /\ BeginScan(stream, situation) => TypeOK'
<1> SUFFICES ASSUME TypeOK, BeginScan(stream, situation) PROVE TypeOK'
  OBVIOUS
<1>1. snap' \in Snapshots
  BY BaseType DEF BeginScan
<1>2. calls' \in 0..MaxCalls
  BY RuntimeAssumption DEF TypeOK, BeginScan, BeginCall
<1>3. call' \in [stream : Streams, situation : Situations]
  BY DEF BeginScan, BeginCall
<1> QED
  BY <1>1, <1>2, <1>3
  DEF TypeOK, BeginScan, BeginCall, hostVars, windowVars

\* The three settings of the platform keep the types.
LEMMA ApplyType ==
    TypeOK /\ (ApplyPhy \/ ApplyTransport \/ ApplyRis) => TypeOK'
<1> SUFFICES ASSUME TypeOK, ApplyPhy \/ ApplyTransport \/ ApplyRis PROVE TypeOK'
  OBVIOUS
<1>1. CASE ApplyPhy
  <2>1. PICK d \in decision :
          Apply("phy", d.snap.phy, pc' = "transport" /\ UNCHANGED <<status, output>>)
    BY <1>1 DEF ApplyPhy
  <2>2. d.snap.phy \in Phys
    BY DEF TypeOK, Decisions, Snapshots
  <2> QED
    BY <2>1, <2>2 DEF TypeOK, Apply, Return, Statuses, hostVars, windowVars, scanVars
<1>2. CASE ApplyTransport
  <2>1. PICK d \in decision :
          Apply("transport", d.snap.transport,
                pc' = "ris" /\ UNCHANGED <<status, output>>)
    BY <1>2 DEF ApplyTransport
  <2>2. d.snap.transport \in Priorities \cup {None}
    BY DEF TypeOK, Decisions, Snapshots
  <2> QED
    BY <2>1, <2>2 DEF TypeOK, Apply, Return, Statuses, hostVars, windowVars, scanVars
<1>3. CASE ApplyRis
  <2>1. PICK d \in decision :
          Apply("ris", d.snap.ris,
                /\ Return("ok")
                /\ output' = IF host = "ffi" THEN {d} ELSE output)
    BY <1>3 DEF ApplyRis
  <2>2. d.snap.ris \in RisModes \cup {None} /\ d \in Decisions
    BY DEF TypeOK, Decisions, Snapshots
  <2> QED
    BY <2>1, <2>2 DEF TypeOK, Apply, Return, Statuses, hostVars, windowVars, scanVars
<1> QED
  BY <1>1, <1>2, <1>3

\* TypeOK is inductive by itself.
LEMMA NextType == TypeOK /\ [Next]_vars => TypeOK'
<1> SUFFICES ASSUME TypeOK, [Next]_vars PROVE TypeOK'
  OBVIOUS
<1>1. CASE \E stream \in Streams, situation \in Situations :
              Reuse(stream, situation) \/ BeginScan(stream, situation)
  BY <1>1, ReuseType, BeginScanType
<1>2. CASE BadInput
  <2>1. calls' \in 0..MaxCalls
    BY <1>2, RuntimeAssumption DEF TypeOK, BadInput
  <2> QED
    BY <1>2, <2>1
    DEF TypeOK, BadInput, Return, Statuses, hostVars, windowVars, scanVars
<1>3. CASE ScanRule
  BY <1>3, ScanType
<1>4. CASE Decide
  BY <1>4, DecideType
<1>5. CASE ApplyPhy \/ ApplyTransport \/ ApplyRis
  BY <1>5, ApplyType
<1>6. CASE NewRuntime
  BY <1>6 DEF TypeOK, NewRuntime, FreshPlatform, Statuses, hostVars, scanVars
<1>7. CASE UNCHANGED vars
  BY <1>7 DEF TypeOK, vars
<1> QED
  BY <1>1, <1>2, <1>3, <1>4, <1>5, <1>6, <1>7 DEF Next

\* Every reachable state of the host has the right types, for any artifact.
THEOREM TypeCorrect == Spec => []TypeOK
BY InitType, NextType, PTL DEF Spec

-------------------------------------------------------------------------------
(* The scan *)

\* One more rule, taken or not, leaves every slot owed to the first rule that
\* speaks of it.
LEMMA ScanStep ==
    ASSUME TypeOK, pc = "scan", i <= Len(rules), FirstRuleWins(snap, i - 1),
           UNCHANGED <<rules, call>>,
           \/ ~Taken(rules[i], snap, call.situation) /\ snap' = snap
           \/ /\ Taken(rules[i], snap, call.situation)
              /\ snap' = Fill(rules[i].action, snap)
    PROVE  FirstRuleWins(snap', i)
<1> DEFINE sit == call.situation
<1> DEFINE rule == rules[i]
<1>1. /\ i \in Nat \ {0} /\ rule \in Rule /\ snap \in Snapshots
      /\ i - 1 \in Nat /\ 1..i = 1..(i - 1) \cup {i}
  BY DEF TypeOK
<1>2. ASSUME NEW kind \in Kinds
      PROVE  OwedToTheFirst(snap', kind, i)
  <2>1. OwedToTheFirst(snap, kind, i - 1)
    BY DEF FirstRuleWins
  <2>2. CASE ~Taken(rule, snap, sit) /\ snap' = snap
    <3>1. Speaks(i, kind) => snap[kind] # Unset(kind, sit)
      BY <2>2 DEF Speaks, Taken
    <3> QED
      BY <1>1, <2>1, <2>2, <3>1 DEF OwedToTheFirst
  <2>3. CASE /\ Taken(rule, snap, sit) /\ snap' = Fill(rule.action, snap)
             /\ kind # rule.action.kind
    <3>1. snap'[kind] = snap[kind]
      BY <2>3 DEF Fill, Kinds
    <3>2. ~Speaks(i, kind)
      BY <2>3 DEF Speaks
    <3> QED
      BY <1>1, <2>1, <3>1, <3>2 DEF OwedToTheFirst
  <2>4. CASE /\ Taken(rule, snap, sit) /\ snap' = Fill(rule.action, snap)
             /\ kind = rule.action.kind
    <3>1. snap'[kind] = rule.action.value
      BY <2>4 DEF Fill, Kinds
    <3>2. snap[kind] = Unset(kind, sit) /\ Matches(rule, sit)
      BY <2>4 DEF Taken
    <3>3. \A m \in 1..(i - 1) : ~Speaks(m, kind)
      BY <2>1, <3>2 DEF OwedToTheFirst, Speaks
    <3>4. CASE rule.action.value = Unset(kind, sit)
      <4>1. ~Speaks(i, kind)
        BY <3>4 DEF Speaks
      <4> QED
        BY <1>1, <3>1, <3>3, <3>4, <4>1 DEF OwedToTheFirst
    <3>5. CASE rule.action.value # Unset(kind, sit)
      <4>1. Speaks(i, kind)
        BY <2>4, <3>2, <3>5 DEF Speaks
      <4> QED
        BY <1>1, <3>1, <3>3, <4>1 DEF OwedToTheFirst
    <3> QED
      BY <3>4, <3>5
  <2> QED
    BY <2>2, <2>3, <2>4
<1>3. NameOfThePhy(snap', i)
  <2>1. NameOfThePhy(snap, i - 1)
    BY DEF FirstRuleWins
  <2>2. CASE snap'.name = snap.name /\ snap'.phy = snap.phy
    BY <1>1, <2>1, <2>2 DEF NameOfThePhy
  <2>3. CASE /\ Taken(rule, snap, sit) /\ snap' = Fill(rule.action, snap)
             /\ rule.action.kind = "phy"
    <3>1. /\ snap'.name = rule.action.name /\ snap'.phy = rule.action.value
          /\ Matches(rule, sit)
      BY <2>3 DEF Fill, Taken
    <3> QED
      BY <1>1, <2>3, <3>1 DEF NameOfThePhy
  <2>4. CASE /\ Taken(rule, snap, sit) /\ snap' = Fill(rule.action, snap)
             /\ rule.action.kind # "phy"
    <3>1. snap'.name = snap.name /\ snap'.phy = snap.phy
      BY <2>4 DEF Fill
    <3> QED
      BY <2>2, <3>1
  <2> QED
    BY <2>2, <2>3, <2>4
<1> QED
  BY <1>2, <1>3 DEF FirstRuleWins

\* Before the first rule every slot is unset.
LEMMA ScanBegins ==
    ASSUME NEW s, s = BaseSnapshot(call.situation)
    PROVE  FirstRuleWins(s, 0)
<1>1. s.name = BaseName /\ s.phy = BasePhy[call.situation]
  BY DEF BaseSnapshot
<1>2. \A kind \in Kinds : s[kind] = Unset(kind, call.situation)
  BY DEF Unset
<1>3. 1..0 = {}
  OBVIOUS
<1> QED
  BY <1>1, <1>2, <1>3 DEF FirstRuleWins, OwedToTheFirst, NameOfThePhy

\* No step of the host breaks what the scan owes to the rules.
LEMMA NextScan ==
    TypeOK /\ SnapshotFollowsTheRules /\ [Next]_vars => SnapshotFollowsTheRules'
<1> SUFFICES ASSUME TypeOK, SnapshotFollowsTheRules, [Next]_vars
             PROVE  SnapshotFollowsTheRules'
  OBVIOUS
<1>1. CASE \E stream \in Streams, situation \in Situations :
              Reuse(stream, situation)
  <2>1. pc' = "phy" /\ \A d \in decision' : d.reused
    BY <1>1 DEF Reuse
  <2> QED
    BY <2>1 DEF SnapshotFollowsTheRules
<1>2. CASE \E stream \in Streams, situation \in Situations :
              BeginScan(stream, situation)
  <2>1. /\ pc' = "scan" /\ i' = 1 /\ rules' = rules
        /\ snap' = BaseSnapshot(call'.situation)
    BY <1>2 DEF BeginScan, BeginCall, hostVars
  <2>2. /\ \A kind \in Kinds : snap'[kind] = Unset(kind, call'.situation)
        /\ snap'.name = BaseName /\ snap'.phy = BasePhy[call'.situation]
    BY <2>1 DEF Unset, BaseSnapshot
  <2>3. i' - 1 = 0 /\ 1..(i' - 1) = {} /\ Len(rules') \in Nat
    BY <2>1 DEF TypeOK
  <2>4. FirstRuleWins(snap, i - 1)'
    BY <2>2, <2>3 DEF FirstRuleWins, OwedToTheFirst, NameOfThePhy
  <2> QED
    BY <2>1, <2>3, <2>4 DEF SnapshotFollowsTheRules
<1>3. CASE ScanRule
  <2>1. CASE pc' = "idle"
    BY <2>1 DEF SnapshotFollowsTheRules
  <2>2. CASE pc' # "idle"
    <3>1. /\ pc = "scan" /\ pc' = "scan" /\ i <= Len(rules) /\ i' = i + 1
          /\ UNCHANGED <<rules, call>>
          /\ \/ ~Taken(rules[i], snap, call.situation) /\ snap' = snap
             \/ /\ Taken(rules[i], snap, call.situation)
                /\ snap' = Fill(rules[i].action, snap)
      BY <1>3, <2>2 DEF ScanRule, Return, hostVars
    <3>2. FirstRuleWins(snap', i)
      BY <3>1, ScanStep DEF SnapshotFollowsTheRules
    <3>3. i' - 1 = i /\ i' - 1 <= Len(rules')
      BY <3>1 DEF TypeOK
    <3>4. \A kind, n : Speaks(n, kind)' <=> Speaks(n, kind)
      BY <3>1 DEF Speaks
    <3>5. ASSUME NEW kind \in Kinds
          PROVE  OwedToTheFirst(snap, kind, i - 1)'
      <4>1. OwedToTheFirst(snap', kind, i)
        BY <3>2 DEF FirstRuleWins
      <4> QED
        BY <3>1, <3>3, <3>4, <4>1 DEF OwedToTheFirst
    <3>6. NameOfThePhy(snap, i - 1)'
      <4>1. NameOfThePhy(snap', i)
        BY <3>2 DEF FirstRuleWins
      <4> QED
        BY <3>1, <3>3, <4>1 DEF NameOfThePhy
    <3>7. FirstRuleWins(snap, i - 1)'
      BY <3>5, <3>6 DEF FirstRuleWins
    <3> QED
      BY <3>1, <3>3, <3>7 DEF SnapshotFollowsTheRules
  <2> QED
    BY <2>1, <2>2
<1>4. CASE Decide
  <2>1. /\ pc = "scan" /\ pc' = "phy" /\ i > Len(rules)
        /\ UNCHANGED <<rules, call>> /\ \A d \in decision' : d.snap = snap
    BY <1>4 DEF Decide, hostVars
  <2>2. i - 1 = Len(rules) /\ FirstRuleWins(snap, Len(rules))
    BY <2>1 DEF SnapshotFollowsTheRules, TypeOK
  <2>3. \A d \in decision' : FirstRuleWins(d.snap, Len(rules))
    BY <2>1, <2>2
  <2>4. (\A d \in decision : FirstRuleWins(d.snap, Len(rules)))'
    BY <2>1, <2>3 DEF FirstRuleWins, OwedToTheFirst, NameOfThePhy, Speaks
  <2> QED
    BY <2>1, <2>4 DEF SnapshotFollowsTheRules
<1>5. CASE ApplyPhy \/ ApplyTransport \/ ApplyRis
  <2>1. /\ pc \in {"phy", "transport", "ris"}
        /\ pc' \in {"transport", "ris", "idle"}
        /\ UNCHANGED <<rules, call, decision>>
    BY <1>5 DEF ApplyPhy, ApplyTransport, ApplyRis, Apply, Return, hostVars
  <2> QED
    BY <2>1
    DEF SnapshotFollowsTheRules, FirstRuleWins, OwedToTheFirst, NameOfThePhy, Speaks
<1>6. CASE BadInput \/ NewRuntime
  BY <1>6 DEF BadInput, NewRuntime, Return, SnapshotFollowsTheRules
<1>7. CASE UNCHANGED vars
  BY <1>7
  DEF vars, SnapshotFollowsTheRules, FirstRuleWins, OwedToTheFirst, NameOfThePhy, Speaks
<1> QED
  BY <1>1, <1>2, <1>3, <1>4, <1>5, <1>6, <1>7 DEF Next

\* Whatever the artifact, the first matching rule with a value owns each slot
\* of every fresh decision, and the profile name goes with the profile.
THEOREM FirstRuleWinsHolds == Spec => []SnapshotFollowsTheRules
<1>1. Init => SnapshotFollowsTheRules
  BY DEF Init, SnapshotFollowsTheRules
<1> QED
  BY <1>1, InitType, NextType, NextScan, PTL DEF Spec

-------------------------------------------------------------------------------
(* The window *)

\* Every step keeps the account of the window.
LEMMA NextWindow ==
    TypeOK /\ WindowIsServedExactly /\ [Next]_vars => WindowIsServedExactly'
<1> SUFFICES ASSUME TypeOK, WindowIsServedExactly, [Next]_vars
             PROVE  WindowIsServedExactly'
  OBVIOUS
<1>1. ASSUME NEW stream \in Streams, NEW situation \in Situations,
             Reuse(stream, situation)
      PROVE  WindowIsServedExactly'
  <2>1. PICK w \in temporal :
          /\ decision' = {[priority |-> w.priority, snap |-> w.snap,
                           reused |-> TRUE]}
          /\ temporal' = IF w.left > 1 THEN {[w EXCEPT !.left = @ - 1]} ELSE {}
          /\ served' = served + 1
    BY <1>1 DEF Reuse
  <2>0. \A v, x \in temporal' : v = x
    BY <2>1
  <2>2. opened' = opened
    BY <1>1 DEF Reuse
  <2>3. w \in Windows /\ served \in Nat
    BY DEF TypeOK
  <2>4. /\ opened = {[priority |-> w.priority, snap |-> w.snap, reused |-> FALSE]}
        /\ served + w.left = WindowOf(w.snap)
    BY DEF WindowIsServedExactly
  <2>5. \A d \in decision' : opened' = {[d EXCEPT !.reused = FALSE]}
    BY <2>1, <2>2, <2>4
  <2>6. \A v \in temporal' :
          /\ v.left >= 1
          /\ served' + v.left = WindowOf(v.snap)
          /\ opened' = {[priority |-> v.priority, snap |-> v.snap, reused |-> FALSE]}
    <3>1. CASE w.left > 1
      <4>1. /\ w.left - 1 >= 1
            /\ (served + 1) + (w.left - 1) = WindowOf(w.snap)
        BY <2>3, <2>4, <3>1 DEF Windows
      <4> QED
        BY <2>1, <2>2, <2>3, <2>4, <3>1, <4>1 DEF Windows
    <3>2. CASE ~(w.left > 1)
      BY <2>1, <3>2
    <3> QED
      BY <3>1, <3>2
  <2> QED
    BY <2>0, <2>5, <2>6 DEF WindowIsServedExactly
<1>2. CASE \E stream \in Streams, situation \in Situations :
              BeginScan(stream, situation)
  BY <1>2 DEF BeginScan, windowVars, WindowIsServedExactly
<1>3. CASE Decide
  <2> DEFINE priority == PriorityOf(snap, call.situation)
  <2> DEFINE fresh == [priority |-> priority, snap |-> snap, reused |-> FALSE]
  <2>1. decision' = {fresh} /\ ~fresh.reused
    BY <1>3 DEF Decide
  <2>2. CASE UNCHANGED windowVars
    BY <2>1, <2>2 DEF windowVars, WindowIsServedExactly
  <2>3. CASE /\ WindowOf(snap) > 0
             /\ temporal' = {[stream |-> call.stream, snap |-> snap,
                              priority |-> priority, left |-> WindowOf(snap)]}
             /\ opened' = {fresh} /\ served' = 0
    <3>1. WindowOf(snap) \in Nat
      BY WindowType DEF TypeOK
    <3> QED
      BY <2>1, <2>3, <3>1 DEF WindowIsServedExactly
  <2> QED
    BY <1>3, <2>2, <2>3 DEF Decide
<1>4. CASE BadInput \/ ScanRule \/ ApplyPhy \/ ApplyTransport \/ ApplyRis
  <2>1. UNCHANGED <<windowVars, decision>>
    BY <1>4 DEF BadInput, ScanRule, ApplyPhy, ApplyTransport, ApplyRis, Apply
  <2> QED
    BY <2>1 DEF windowVars, WindowIsServedExactly
<1>5. CASE NewRuntime
  BY <1>5 DEF NewRuntime, WindowIsServedExactly
<1>6. CASE UNCHANGED vars
  BY <1>6 DEF vars, WindowIsServedExactly
<1> QED
  BY <1>1, <1>2, <1>3, <1>4, <1>5, <1>6 DEF Next

\* A window is served exactly as often as the decision that opened it asked
\* for, with that decision, for any number of streams calling in between.
THEOREM WindowIsServedExactlyHolds == Spec => []WindowIsServedExactly
<1>1. Init => WindowIsServedExactly
  BY DEF Init, WindowIsServedExactly
<1> QED
  BY <1>1, InitType, NextType, NextWindow, PTL DEF Spec

\* A window never just disappears: it goes with its last tick or its runtime.
THEOREM WindowsEndServedHolds == Spec => WindowsEndServed
<1> DEFINE Ends ==
      \A w \in temporal :
          temporal' = {} => \/ served' = WindowOf(w.snap)
                               /\ call'.stream = w.stream
                            \/ decision' = {} /\ status' = "ready"
<1>1. TypeOK /\ WindowIsServedExactly /\ [Next]_vars => [Ends]_vars
  <2> SUFFICES ASSUME TypeOK, WindowIsServedExactly, Next,
                      NEW w \in temporal, temporal' = {}
               PROVE  \/ served' = WindowOf(w.snap) /\ call'.stream = w.stream
                      \/ decision' = {} /\ status' = "ready"
    BY DEF vars
  <2>1. ASSUME NEW stream \in Streams, NEW situation \in Situations,
               Reuse(stream, situation)
        PROVE  served' = WindowOf(w.snap) /\ call'.stream = w.stream
    <3>1. PICK v \in temporal :
            /\ v.stream = stream /\ v.left > 0
            /\ temporal' = IF v.left > 1 THEN {[v EXCEPT !.left = @ - 1]} ELSE {}
            /\ served' = served + 1
      BY <2>1 DEF Reuse
    <3>2. call'.stream = stream
      BY <2>1 DEF Reuse, BeginCall
    <3>3. v.left \in Nat
      BY <3>1 DEF TypeOK, Windows
    <3>4. v.left = 1
      <4>1. [v EXCEPT !.left = @ - 1] \notin temporal'
        OBVIOUS
      <4>2. ~(v.left > 1)
        BY <3>1, <4>1
      <4> QED
        BY <3>1, <3>3, <4>2
    <3>5. v = w /\ served + v.left = WindowOf(v.snap)
      BY DEF WindowIsServedExactly
    <3> QED
      BY <3>1, <3>2, <3>4, <3>5
  <2>2. CASE \E stream \in Streams, situation \in Situations :
                BeginScan(stream, situation)
    BY <2>2 DEF BeginScan, windowVars
  <2>3. CASE BadInput \/ ScanRule \/ ApplyPhy \/ ApplyTransport \/ ApplyRis
    <3>1. UNCHANGED windowVars
      BY <2>3 DEF BadInput, ScanRule, ApplyPhy, ApplyTransport, ApplyRis, Apply
    <3> QED
      BY <3>1 DEF windowVars
  <2>4. CASE Decide
    BY <2>4 DEF Decide, windowVars
  <2>5. CASE NewRuntime
    BY <2>5 DEF NewRuntime
  <2> QED
    BY <2>1, <2>2, <2>3, <2>4, <2>5 DEF Next
<1>2. Init => WindowIsServedExactly
  BY DEF Init, WindowIsServedExactly
<1>3. TypeOK /\ WindowIsServedExactly /\ [Next]_vars => [Ends]_vars
  BY <1>1
<1> HIDE DEF Ends
<1>4. Spec => [][Ends]_vars
  BY <1>2, <1>3, InitType, NextType, NextWindow, PTL DEF Spec
<1> QED
  BY <1>4 DEF WindowsEndServed, Ends

-------------------------------------------------------------------------------
(* The platform *)

\* What the platform was told so far is what the decision asks for.
ApplyingInv ==
    /\ pc \in {"phy", "transport", "ris"} =>
          \E d \in Decisions : decision = {d}
    /\ pc \in {"transport", "ris"} =>
          \A d \in decision : platform.phy = d.snap.phy
    /\ pc = "ris" => \A d \in decision : platform.transport = d.snap.transport
    /\ ReportedMeansApplied

\* Every step keeps the platform in line with the decision being applied.
LEMMA NextApplying ==
    TypeOK /\ ApplyingInv /\ [Next]_vars => ApplyingInv'
<1> SUFFICES ASSUME TypeOK, ApplyingInv, [Next]_vars PROVE ApplyingInv'
  OBVIOUS
<1>1. CASE \E stream \in Streams, situation \in Situations :
              Reuse(stream, situation)
  <2>1. pc' = "phy" /\ \E d : decision' = {d}
    BY <1>1 DEF Reuse
  <2>2. decision' \in SUBSET Decisions
    BY NextType DEF TypeOK
  <2> QED
    BY <2>1, <2>2 DEF ApplyingInv, ReportedMeansApplied
<1>2. CASE \E stream \in Streams, situation \in Situations :
              BeginScan(stream, situation)
  BY <1>2 DEF BeginScan, ApplyingInv, ReportedMeansApplied
<1>3. CASE BadInput \/ NewRuntime
  BY <1>3 DEF BadInput, NewRuntime, Return, ApplyingInv, ReportedMeansApplied
<1>4. CASE ScanRule
  BY <1>4 DEF ScanRule, Return, ApplyingInv, ReportedMeansApplied
<1>5. CASE Decide
  <2>1. pc' = "phy" /\ \E d : decision' = {d}
    BY <1>5 DEF Decide
  <2>2. decision' \in SUBSET Decisions
    BY NextType DEF TypeOK
  <2> QED
    BY <2>1, <2>2 DEF ApplyingInv, ReportedMeansApplied
<1>6. ASSUME ApplyPhy \/ ApplyTransport \/ ApplyRis
      PROVE  ApplyingInv'
  <2>1. PICK d \in Decisions : decision = {d} /\ decision' = {d}
    BY <1>6 DEF ApplyingInv, ApplyPhy, ApplyTransport, ApplyRis, Apply
  <2>2. platform \in [phy : Phys \cup {None}, transport : Priorities \cup {None},
                      ris : RisModes \cup {None}]
    BY DEF TypeOK
  <2>3. CASE Return("apply_error")
    BY <2>3 DEF Return, ApplyingInv, ReportedMeansApplied
  <2>4. CASE ApplyPhy /\ ~Return("apply_error")
    <3>1. pc' = "transport" /\ platform' = [platform EXCEPT !["phy"] = d.snap.phy]
      BY <2>1, <2>4 DEF ApplyPhy, Apply
    <3> QED
      BY <2>1, <2>2, <3>1 DEF ApplyingInv, ReportedMeansApplied
  <2>5. CASE ApplyTransport /\ ~Return("apply_error")
    <3>1. /\ pc = "transport" /\ pc' = "ris"
          /\ platform' = [platform EXCEPT !["transport"] = d.snap.transport]
      BY <2>1, <2>5 DEF ApplyTransport, Apply
    <3> QED
      BY <2>1, <2>2, <3>1 DEF ApplyingInv, ReportedMeansApplied
  <2>6. CASE ApplyRis /\ ~Return("apply_error")
    <3>1. /\ pc = "ris" /\ pc' = "idle" /\ host' = host
          /\ platform' = [platform EXCEPT !["ris"] = d.snap.ris]
          /\ output' = IF host = "ffi" THEN {d} ELSE output
      BY <2>1, <2>6 DEF ApplyRis, Apply, Return, hostVars
    <3>2. platform.phy = d.snap.phy /\ platform.transport = d.snap.transport
      BY <2>1, <3>1 DEF ApplyingInv
    <3>3. platform' = [phy |-> d.snap.phy, transport |-> d.snap.transport,
                       ris |-> d.snap.ris]
      BY <2>2, <3>1, <3>2
    <3> QED
      BY <2>1, <3>1, <3>3 DEF ApplyingInv, ReportedMeansApplied
  <2> QED
    BY <1>6, <2>3, <2>4, <2>5, <2>6
<1>7. CASE UNCHANGED vars
  BY <1>7 DEF vars, ApplyingInv, ReportedMeansApplied
<1> QED
  BY <1>1, <1>2, <1>3, <1>4, <1>5, <1>6, <1>7 DEF Next

\* A report is never returned for a platform that was not told all of it.
THEOREM ReportedMeansAppliedHolds == Spec => []ReportedMeansApplied
<1>1. Init => ApplyingInv
  BY DEF Init, ApplyingInv, ReportedMeansApplied
<1>2. ApplyingInv => ReportedMeansApplied
  BY DEF ApplyingInv
<1> QED
  BY <1>1, <1>2, InitType, NextType, NextApplying, PTL DEF Spec

-------------------------------------------------------------------------------
(* raman-core *)

\* The executor state; what keeps the ticks within u8 is the account itself.
CoreTypes ==
    /\ core \in [action : CoreActions \cup {NoAction}, priority : Int,
                 order : Nat, hold : Int, cooldown : Int]
    /\ begun \in [hold : Int, cooldown : Int]
    /\ reused \in [hold : Int, cooldown : Int]

\* The device executor serves both windows of every action to the last tick,
\* for any program and any sequence of frames.
THEOREM CoreWindowsAreExactHolds == CoreSpec => []CoreWindowsAreExact
<1>1. CoreInit => CoreTypes /\ CoreWindowsAreExact
  BY DEF CoreInit, CoreTypes, CoreWindowsAreExact, Idle
<1>2. CoreTypes /\ CoreWindowsAreExact /\ [CoreNext]_coreVars
      => CoreTypes' /\ CoreWindowsAreExact'
  <2> SUFFICES ASSUME CoreTypes, CoreWindowsAreExact, [CoreNext]_coreVars
               PROVE  CoreTypes' /\ CoreWindowsAreExact'
    OBVIOUS
  <2>1. CASE ServeHold
    BY <2>1 DEF ServeHold, Serve, CoreTypes, CoreWindowsAreExact
  <2>2. CASE ServeCooldown
    BY <2>2 DEF ServeCooldown, Serve, CoreTypes, CoreWindowsAreExact
  <2>3. ASSUME NEW matching \in SUBSET DOMAIN Program, Select(matching)
        PROVE  CoreTypes' /\ CoreWindowsAreExact'
    <3>1. PICK n \in matching :
            /\ core' = [action |-> Program[n].action,
                        priority |-> Program[n].priority,
                        order |-> Program[n].order,
                        hold |-> Program[n].action.hold_ticks,
                        cooldown |-> Program[n].action.cooldown_ticks]
            /\ begun' = [hold |-> Program[n].action.hold_ticks,
                         cooldown |-> Program[n].action.cooldown_ticks]
      BY <2>3 DEF Select
    <3>2. Program[n] \in CoreRule
      BY ProgramAssumption
    <3>3. /\ Program[n].action \in CoreActions
          /\ Program[n].priority \in Int /\ Program[n].order \in Nat
          /\ Program[n].action.hold_ticks \in 0..255
          /\ Program[n].action.cooldown_ticks \in 0..255
      BY <3>2 DEF CoreRule, CoreActions
    <3>4. reused' = [hold |-> 0, cooldown |-> 0]
      BY <2>3 DEF Select
    <3>5. CoreTypes'
      <4>1. 0..255 \subseteq Int /\ 0 \in Int
        OBVIOUS
      <4>2. /\ Program[n].action.hold_ticks \in Int
            /\ Program[n].action.cooldown_ticks \in Int
        BY <3>3, <4>1
      <4>3. core' \in [action : CoreActions \cup {NoAction}, priority : Int,
                       order : Nat, hold : Int, cooldown : Int]
        BY <3>1, <3>3, <4>2
      <4>4. begun' \in [hold : Int, cooldown : Int]
        BY <3>1, <4>2
      <4>5. reused' \in [hold : Int, cooldown : Int]
        BY <3>4, <4>1
      <4> QED
        BY <4>3, <4>4, <4>5 DEF CoreTypes
    <3>6. core'.action # NoAction
      BY <3>1, <3>3, NoActionAssumption
    <3>7. \A w \in {"hold", "cooldown"} : core'[w] + reused'[w] = begun'[w]
      <4>1. /\ core'["hold"] = begun'["hold"] /\ core'["hold"] \in Int
            /\ core'["cooldown"] = begun'["cooldown"] /\ core'["cooldown"] \in Int
        BY <3>1, <3>3
      <4>2. reused'["hold"] = 0 /\ reused'["cooldown"] = 0
        BY <3>4
      <4> QED
        BY <4>1, <4>2
    <3>8. /\ core'.hold >= 0 /\ core'.cooldown >= 0
          /\ reused'.cooldown = 0
          /\ begun'.hold = core'.action.hold_ticks
          /\ begun'.cooldown = core'.action.cooldown_ticks
      <4>1. \A t \in 0..255 : t >= 0
        OBVIOUS
      <4>2. /\ Program[n].action.hold_ticks >= 0
            /\ Program[n].action.cooldown_ticks >= 0
        BY <3>3, <4>1
      <4> QED
        BY <3>1, <3>4, <4>2
    <3> QED
      BY <3>5, <3>6, <3>7, <3>8 DEF CoreWindowsAreExact
  <2>4. CASE SelectNothing
    BY <2>4 DEF SelectNothing, CoreTypes, CoreWindowsAreExact, Idle
  <2>5. CASE NoFrame \/ UNCHANGED coreVars
    BY <2>5 DEF NoFrame, coreVars, CoreTypes, CoreWindowsAreExact
  <2> QED
    BY <2>1, <2>2, <2>3, <2>4, <2>5 DEF CoreNext
<1> QED
  BY <1>1, <1>2, PTL DEF CoreSpec
===============================================================================
