----------------------------- MODULE RamanRuntime -----------------------------
(***************************************************************************)
(* The RAMAN runtime host: RamanMirrorExecutor, which turns one signal of  *)
(* one stream into a decision by scanning the artifact's rules, keeps a    *)
(* single temporal window (hold or cooldown) during which that stream gets *)
(* the same decision again, and RamanRuntimeHost, which then drives the    *)
(* three settings of the platform one after the other.                     *)
(*                                                                         *)
(* A call is synchronous, but each rule of the scan and each setting of    *)
(* the platform is a step of its own, because each may end the call with   *)
(* an error after the steps before it have taken effect.                   *)
(*                                                                         *)
(* Data that only selects a rule is abstracted: a situation is one value   *)
(* of RamanRuntimeContext, a rule lists the situations its predicates      *)
(* match, and the text of an action is its value, or None.                 *)
(*                                                                         *)
(* An operator named Bug... is a mutated form of the definition after it.  *)
(***************************************************************************)
EXTENDS Integers, Sequences

CONSTANTS
    Streams,          \* stream identifiers
    Situations,       \* values of RamanRuntimeContext
    Phys,             \* physical profiles
    Names,            \* profile names
    Priorities,       \* transport priorities
    RisModes,         \* reflecting surface settings
    Contracts,        \* non-empty lists of contract values
    None,             \* Rust's Option::None, an empty list, an unreadable text
    BasePhy,          \* what ProfilePlanner derives from a situation
    BaseName,         \* what a derived profile is called
    GuardPriority,    \* the priority a profile name forces, or None
    TrafficPriority,  \* the priority the traffic class of a situation deserves
    Artifacts,        \* what the host may be built from
    MaxCalls          \* bound: calls in a behaviour

Kinds == {"contract", "phy", "transport", "ris", "verify", "hold", "cooldown"}

\* An action kind the executor does not know falls through its match.
OtherKind == "other"

Verifies == [below : SUBSET Situations, fallback : Priorities]

\* The values each kind of action may carry.
Values == [contract |-> Contracts, phy |-> Phys, transport |-> Priorities,
           ris |-> RisModes, verify |-> Verifies, hold |-> Nat,
           cooldown |-> Nat]

\* None is an action without the value (contract, transport) or with one that
\* does not parse (the other kinds).
ActionsOf(kind) ==
    [kind : {kind}, name : Names, value : Values[kind] \cup {None}]

Actions ==
    ActionsOf("contract") \cup ActionsOf("phy") \cup ActionsOf("transport")
    \cup ActionsOf("ris") \cup ActionsOf("verify") \cup ActionsOf("hold")
    \cup ActionsOf("cooldown")
    \cup [kind : {OtherKind}, name : Names, value : {None}]

Rule == [priority : Int, order : Nat, when : SUBSET Situations, action : Actions]

Snapshots ==
    [contract : Contracts \cup {None}, phy : Phys,
     transport : Priorities \cup {None}, ris : RisModes \cup {None},
     verify : Verifies \cup {None}, hold : Nat \cup {None},
     cooldown : Nat \cup {None}, name : Names]

Decisions == [priority : Priorities, snap : Snapshots, reused : BOOLEAN]

Windows == [stream : Streams, snap : Snapshots, priority : Priorities,
            left : Nat]

ASSUME RuntimeAssumption ==
    /\ None \notin Phys \cup Priorities \cup RisModes \cup Contracts
    /\ None \notin Nat \cup Verifies
    /\ BasePhy \in [Situations -> Phys]
    /\ BaseName \in Names
    /\ GuardPriority \in [Names -> Priorities \cup {None}]
    /\ TrafficPriority \in [Situations -> Priorities]
    /\ MaxCalls \in Nat

ASSUME ArtifactAssumption ==
    \A a \in Artifacts : a.compiled \in Seq(Rule) /\ a.executable \in Seq(Rule)

-------------------------------------------------------------------------------
VARIABLES
    rules,     \* RamanMirrorExecutor.rules
    host,      \* "ffi": NoopRamanPlatform behind the C functions; "device"
    temporal,  \* RamanExecutorState.temporal: a set of at most one window
    platform,  \* what the platform was last told
    output,    \* what the last good C call wrote: a set of at most one decision
    pc,        \* where the call is
    call,      \* the arguments of the call
    i,         \* the next rule of the scan
    snap,      \* the snapshot being built
    decision,  \* the decision of the call: a set of at most one
    status,    \* what the last call returned
    calls,     \* how many calls were made
    opened,    \* history: the decision that opened the last window
    served     \* history: how often that window was served since

vars == <<rules, host, temporal, platform, output, pc, call, i, snap, decision,
          status, calls, opened, served>>

hostVars == <<rules, host>>
scanVars == <<i, snap>>
windowVars == <<temporal, opened, served>>

-------------------------------------------------------------------------------
(* The rules a host runs *)

\* parse_compiled_rpl_rules numbers the rules by their lines and sorts them by
\* falling priority; equal priorities keep the order of their lines.
SortedRules(compiled) ==
    {r \in [1..Len(compiled) -> {compiled[n] : n \in 1..Len(compiled)}] :
        \A n, m \in 1..Len(compiled) :
            n < m => \/ r[n].priority > r[m].priority
                     \/ /\ r[n].priority = r[m].priority
                        /\ r[n].order < r[m].order}

\* from_artifact prefers the executable program, and takes it as it stands.
RulesOf(a) ==
    IF a.executable = <<>> THEN SortedRules(a.compiled) ELSE {a.executable}

-------------------------------------------------------------------------------
(* Pure parts of execute *)

Matches(rule, situation) == situation \in rule.when

BaseSnapshot(situation) ==
    [contract |-> None, phy |-> BasePhy[situation], transport |-> None,
     ris |-> None, verify |-> None, hold |-> None, cooldown |-> None,
     name |-> BaseName]

\* What a slot holds while its arm of the match is still open.
Unset(kind, situation) == BaseSnapshot(situation)[kind]

\* The match without its guards: a later rule overwrites an earlier one.
BugTaken(rule, s, situation) ==
    Matches(rule, situation) /\ rule.action.kind \in Kinds

\* The arm of a rule is taken when the rule matches and its slot is open.
Taken(rule, s, situation) ==
    /\ Matches(rule, situation)
    /\ rule.action.kind \in Kinds
    /\ s[rule.action.kind] = Unset(rule.action.kind, situation)

\* A missing priority or an empty contract is not an error, any other is.
Readable(action) ==
    action.kind \in {"contract", "transport"} \/ action.value # None

\* The snapshot after a rule: its slot filled, and its name taken by a profile.
Fill(action, s) ==
    LET Slot(kind) == IF action.kind = kind THEN action.value ELSE s[kind]
    IN  [contract |-> Slot("contract"), phy |-> Slot("phy"),
         transport |-> Slot("transport"), ris |-> Slot("ris"),
         verify |-> Slot("verify"), hold |-> Slot("hold"),
         cooldown |-> Slot("cooldown"),
         name |-> IF action.kind = "phy" THEN action.name ELSE s.name]

default_priority(situation, name) ==
    IF GuardPriority[name] # None THEN GuardPriority[name]
                                  ELSE TrafficPriority[situation]

PriorityOf(s, situation) ==
    IF s.verify # None /\ situation \in s.verify.below THEN s.verify.fallback
    ELSE IF s.transport # None THEN s.transport
    ELSE default_priority(situation, s.name)

\* A hold, even one of zero ticks, takes the place of a cooldown.
WindowOf(s) ==
    IF s.hold # None THEN s.hold
    ELSE IF s.cooldown # None THEN s.cooldown ELSE 0

-------------------------------------------------------------------------------
(* The host *)

FreshPlatform == [phy |-> None, transport |-> None, ris |-> None]

Init ==
    /\ \E a \in Artifacts : rules \in RulesOf(a)
    /\ host \in {"ffi", "device"}
    /\ temporal = {} /\ opened = {} /\ served = 0
    /\ platform = FreshPlatform
    /\ output = {} /\ decision = {}
    /\ pc = "idle" /\ status = "ready" /\ calls = 0
    /\ call \in [stream : Streams, situation : Situations]
    /\ i = 1 /\ snap = BaseSnapshot(call.situation)

\* The end of process_signal: an error, or the report.
Return(s) == pc' = "idle" /\ status' = s

BeginCall(stream, situation) ==
    /\ pc = "idle" /\ calls < MaxCalls
    /\ calls' = calls + 1
    /\ call' = [stream |-> stream, situation |-> situation]
    /\ UNCHANGED <<hostVars, platform, output>>

\* context_from_ffi: a C string that is not UTF-8, or a null one.
BadInput ==
    /\ pc = "idle" /\ host = "ffi" /\ calls < MaxCalls
    /\ calls' = calls + 1
    /\ Return("bad_input")
    /\ UNCHANGED <<hostVars, windowVars, platform, output, call, scanVars,
                   decision>>

\* The window is put back as it was taken out.
BugReuse(stream, situation) ==
    /\ BeginCall(stream, situation)
    /\ \E w \in temporal :
          /\ w.stream = stream /\ w.left > 0
          /\ decision' = {[priority |-> w.priority, snap |-> w.snap,
                           reused |-> TRUE]}
          /\ UNCHANGED temporal
          /\ served' = served + 1
    /\ pc' = "phy"
    /\ UNCHANGED <<scanVars, opened, status>>

\* execute finds a window of this stream: one tick less, and the window is
\* put back only when ticks are left.
Reuse(stream, situation) ==
    /\ BeginCall(stream, situation)
    /\ \E w \in temporal :
          /\ w.stream = stream /\ w.left > 0
          /\ decision' = {[priority |-> w.priority, snap |-> w.snap,
                           reused |-> TRUE]}
          /\ temporal' = IF w.left > 1 THEN {[w EXCEPT !.left = @ - 1]} ELSE {}
          /\ served' = served + 1
    /\ pc' = "phy"
    /\ UNCHANGED <<scanVars, opened, status>>

\* The window of another stream is taken out and not put back.
BugBeginScan(stream, situation) ==
    /\ BeginCall(stream, situation)
    /\ \A w \in temporal : ~(w.stream = stream /\ w.left > 0)
    /\ i' = 1 /\ snap' = BaseSnapshot(situation)
    /\ temporal' = {} /\ decision' = {}
    /\ pc' = "scan"
    /\ UNCHANGED <<opened, served, status>>

\* No window of this stream: whatever window there is stays, and the scan
\* starts from what the planner derives.
BeginScan(stream, situation) ==
    /\ BeginCall(stream, situation)
    /\ \A w \in temporal : ~(w.stream = stream /\ w.left > 0)
    /\ i' = 1 /\ snap' = BaseSnapshot(situation)
    /\ decision' = {}
    /\ pc' = "scan"
    /\ UNCHANGED <<windowVars, status>>

\* One rule of the loop; an action that does not parse ends the call.
ScanRule ==
    /\ pc = "scan" /\ i <= Len(rules)
    /\ \/ /\ ~Taken(rules[i], snap, call.situation)
          /\ i' = i + 1
          /\ UNCHANGED <<snap, pc, status>>
       \/ /\ Taken(rules[i], snap, call.situation)
          /\ Readable(rules[i].action)
          /\ i' = i + 1
          /\ snap' = Fill(rules[i].action, snap)
          /\ UNCHANGED <<pc, status>>
       \/ /\ Taken(rules[i], snap, call.situation)
          /\ ~Readable(rules[i].action)
          /\ Return("rule_error")
          /\ UNCHANGED scanVars
    /\ UNCHANGED <<hostVars, windowVars, platform, output, call, decision, calls>>

\* After the loop: the priority, and the window this decision opens, which
\* replaces the window of another stream.
Decide ==
    /\ pc = "scan" /\ i > Len(rules)
    /\ LET priority == PriorityOf(snap, call.situation)
           fresh == [priority |-> priority, snap |-> snap, reused |-> FALSE]
       IN  /\ decision' = {fresh}
           /\ \/ /\ WindowOf(snap) > 0
                 /\ temporal' = {[stream |-> call.stream, snap |-> snap,
                                  priority |-> priority, left |-> WindowOf(snap)]}
                 /\ opened' = {fresh} /\ served' = 0
              \/ /\ WindowOf(snap) = 0
                 /\ UNCHANGED windowVars
    /\ pc' = "phy"
    /\ UNCHANGED <<hostVars, platform, output, call, scanVars, status, calls>>

\* A refusal is dropped and the call goes on.
BugApply(step, setting, next) ==
    /\ pc = step
    /\ \/ /\ platform' = [platform EXCEPT ![step] = setting]
          /\ next
       \/ /\ host = "device"
          /\ next
          /\ UNCHANGED platform
    /\ UNCHANGED <<hostVars, windowVars, call, scanVars, decision, calls>>

\* One call of the control plane. Only a device platform can refuse.
Apply(step, setting, next) ==
    /\ pc = step
    /\ \/ /\ platform' = [platform EXCEPT ![step] = setting]
          /\ next
       \/ /\ host = "device"
          /\ Return("apply_error")
          /\ UNCHANGED <<platform, output>>
    /\ UNCHANGED <<hostVars, windowVars, call, scanVars, decision, calls>>

ApplyPhy ==
    \E d \in decision :
        Apply("phy", d.snap.phy,
              pc' = "transport" /\ UNCHANGED <<status, output>>)

\* The platform gets the priority of the transport rule, not the decided one.
ApplyTransport ==
    \E d \in decision :
        Apply("transport", d.snap.transport,
              pc' = "ris" /\ UNCHANGED <<status, output>>)

\* The last setting, the report, and behind the C interface the output.
ApplyRis ==
    \E d \in decision :
        Apply("ris", d.snap.ris,
              /\ Return("ok")
              /\ output' = IF host = "ffi" THEN {d} ELSE output)

\* raman_runtime_free and raman_runtime_new_from_binary; the one-shot
\* raman_process_signal_binary does this around every call.
NewRuntime ==
    /\ pc = "idle" /\ host = "ffi" /\ calls > 0
    /\ temporal' = {} /\ opened' = {} /\ served' = 0
    /\ platform' = FreshPlatform
    /\ decision' = {} /\ status' = "ready"
    /\ UNCHANGED <<hostVars, output, pc, call, scanVars, calls>>

Next ==
    \/ \E stream \in Streams, situation \in Situations :
          Reuse(stream, situation) \/ BeginScan(stream, situation)
    \/ BadInput
    \/ ScanRule
    \/ Decide
    \/ ApplyPhy
    \/ ApplyTransport
    \/ ApplyRis
    \/ NewRuntime

Spec == Init /\ [][Next]_vars

-------------------------------------------------------------------------------
(* Properties *)

Statuses == {"ready", "ok", "bad_input", "rule_error", "apply_error"}

\* Every variable has its type, and a call that is applying has a decision.
TypeOK ==
    /\ rules \in Seq(Rule)
    /\ host \in {"ffi", "device"}
    /\ temporal \in SUBSET Windows
    /\ platform \in [phy : Phys \cup {None}, transport : Priorities \cup {None},
                     ris : RisModes \cup {None}]
    /\ output \in SUBSET Decisions
    /\ pc \in {"idle", "scan", "phy", "transport", "ris"}
    /\ call \in [stream : Streams, situation : Situations]
    /\ i \in Nat \ {0}
    /\ snap \in Snapshots
    /\ decision \in SUBSET Decisions
    /\ status \in Statuses
    /\ calls \in 0..MaxCalls
    /\ opened \in SUBSET Decisions
    /\ served \in Nat

\* Rule n has something to say about the slot: it matches and its value is not
\* the one the slot starts with.
Speaks(n, kind) ==
    /\ Matches(rules[n], call.situation)
    /\ rules[n].action.kind = kind
    /\ rules[n].action.value # Unset(kind, call.situation)

\* The slot is owed to the first of the first n rules that speaks of it.
OwedToTheFirst(s, kind, n) ==
    \/ /\ s[kind] = Unset(kind, call.situation)
       /\ \A m \in 1..n : ~Speaks(m, kind)
    \/ \E m \in 1..n :
          /\ Speaks(m, kind) /\ s[kind] = rules[m].action.value
          /\ \A l \in 1..(m - 1) : ~Speaks(l, kind)

\* The name always belongs to the profile in force.
NameOfThePhy(s, n) ==
    \/ s.name = BaseName /\ s.phy = BasePhy[call.situation]
    \/ \E m \in 1..n :
          /\ Matches(rules[m], call.situation) /\ rules[m].action.kind = "phy"
          /\ s.name = rules[m].action.name /\ s.phy = rules[m].action.value

\* A snapshot that scanned n rules.
FirstRuleWins(s, n) ==
    /\ \A kind \in Kinds : OwedToTheFirst(s, kind, n)
    /\ NameOfThePhy(s, n)

\* The scan gives every slot to the first matching rule that has a value for
\* it, whatever rules of other kinds stand between, and the reported profile
\* name is the one of the profile in force (execute, the match in the loop).
\* So does the decision while it is being applied, unless it is a reused one.
SnapshotFollowsTheRules ==
    /\ pc = "scan" => i - 1 <= Len(rules) /\ FirstRuleWins(snap, i - 1)
    /\ pc \in {"phy", "transport", "ris"} =>
          \A d \in decision : ~d.reused => FirstRuleWins(d.snap, Len(rules))

\* There is one window at most, and it never loses or gains a tick: what was served and what is left add
\* up to what the opening decision asked for, calls of other streams and
\* failed calls included, and a reused decision is the opening one (execute,
\* the temporal branch and the two that open a window).
WindowIsServedExactly ==
    /\ \A v, w \in temporal : v = w
    /\ \A w \in temporal :
          /\ w.left >= 1
          /\ served + w.left = WindowOf(w.snap)
          /\ opened = {[priority |-> w.priority, snap |-> w.snap,
                        reused |-> FALSE]}
    /\ \A d \in decision :
          d.reused => opened = {[d EXCEPT !.reused = FALSE]}

\* A window goes away only when its last tick is served to its own stream, or
\* with its runtime: a call of another stream that opens no window of its own
\* puts back what execute took out of the state.
WindowsEndServed ==
    [][\A w \in temporal :
          temporal' = {} => \/ served' = WindowOf(w.snap)
                               /\ call'.stream = w.stream
                            \/ decision' = {} /\ status' = "ready"]_vars

\* A call that returned a report left the platform with exactly the settings
\* of the reported decision, and a C caller with that decision in its output;
\* a refusal at any of the three settings is never reported as success
\* (process_signal and raman_process_signal).
ReportedMeansApplied ==
    pc = "idle" /\ status = "ok" =>
        /\ \A d \in decision :
              /\ platform = [phy |-> d.snap.phy, transport |-> d.snap.transport,
                             ris |-> d.snap.ris]
              /\ host = "ffi" => output = {d}
        /\ decision # {}
===============================================================================
