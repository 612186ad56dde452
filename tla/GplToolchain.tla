---------------------------- MODULE GplToolchain ----------------------------
(***************************************************************************)
(* The life of a GPL policy: two compilers (src/bin/gplc_rt.rs and the gpl *)
(* command of src/bin/radnet_tools.rs) lower a policy file to bytecode, as *)
(* JSON and as a binary, and rewrite policy files from observed metrics;   *)
(* src/bin/raman_portable.rs runs the bytecode, or a policy of another     *)
(* kind where the bytecode decides nothing; gplc_rt's own run command runs *)
(* the file the bytecode names.                                            *)
(*                                                                         *)
(* Thresholds, confidences and drifts are hundredths.  Parsing, rendering  *)
(* and the byte format lose nothing and are left out, but for what a text  *)
(* search in the "when" clause finds.  Rule names are ordered numbers.  A  *)
(* write of bytecode may fail half way; a policy file is rewritten whole.  *)
(* An operator named Bug... is a mutated form of the definition after it.  *)
(***************************************************************************)
EXTENDS Integers, Sequences, FiniteSets

CONSTANTS
    Policies,      \* a policy a file starts with: <<[name, priority, when, named, power], ...>>,
                   \* where named says that the profile of the rule has a name
    GplFiles,
    Metrics,       \* [confidence, drift]
    GplContexts,   \* functions of fields, absent ones left out, to values
    PowerScale, Offset, \* of the RHML mapping of tx_power_dbm
    MaxGplSteps

\* Of rules of a policy and of its tests, whose fields a context may have; a
\* threshold is a number that is not negative.  Metrics are any numbers.
ASSUME PoliciesAssumption ==
    \A p \in Policies :
        /\ Len(p) \in Nat /\ DOMAIN p = 1 .. Len(p)
        /\ \A i \in DOMAIN p :
               LET when == p[i].when IN
               /\ DOMAIN p[i] = {"name", "priority", "named", "power", "when"}
               /\ p[i].name \in Nat \ {0} /\ p[i].priority \in Nat /\ p[i].power \in Int
               /\ Len(when) \in Nat /\ DOMAIN when = 1 .. Len(when)
               /\ \A k \in DOMAIN when :
                      /\ DOMAIN when[k] = {"field", "op", "value"}
                      /\ when[k].op = ">=" => when[k].value \in Nat
ASSUME MetricsAssumption == \A m \in Metrics : m.confidence \in Int /\ m.drift \in Int
ASSUME ContextsAssumption ==
    \A c \in GplContexts : \A field \in DOMAIN c \cap {"confidence", "memory_confidence"} :
        c[field] \in Nat

VARIABLES
    gplFiles,  \* what each policy file says
    pending,   \* rules lowered, whose binary is not written yet, or <<>>
    bytecode,  \* what the .gbc.json and the .gbc.bin hold: [state, rules, source]
    resolved,  \* what the last run printed
    gplSteps,  \* commands so far
    \* history
    origin,    \* the policy the files began with
    built,     \* the policy text each bytecode was compiled from
    judged,    \* the policy text the last run is to be judged by, and whether it
               \* could read what it ran: [policy, read]
    tightened  \* files rewritten from metrics that ask for higher thresholds

gpHistory == <<origin, built, judged, tightened>>
gpVars == <<gplFiles, pending, bytecode, resolved, gplSteps, gpHistory>>

Forms == {"json", "bin"}
NoBytecode == [state |-> "none", rules |-> <<>>, source |-> "none"]

\* A file whose write ended before its end.
HalfWritten(file) == [file EXCEPT !.state = "torn", !.rules = <<>>]

\* What a run prints if no rule of the policy decides.
Undecided(by, c) == [context |-> c, by |-> by, rule |-> 0, power |-> 0]

GPInit ==
    \E p \in Policies :
        /\ gplFiles = [f \in GplFiles |-> p]
        /\ origin = p
        /\ pending = <<>>
        /\ bytecode = [x \in Forms |-> NoBytecode]
        /\ built = [x \in Forms |-> <<>>]
        /\ resolved = Undecided("nobody", <<>>)
        /\ judged = [policy |-> <<>>, read |-> FALSE]
        /\ tightened = {}
        /\ gplSteps = 0

-----------------------------------------------------------------------------

(* typecheck_gpl, of one of the two compilers only.                        *)
WellTyped(rules) ==
    /\ \A i, j \in DOMAIN rules : rules[i].name = rules[j].name => i = j
    /\ \A i \in DOMAIN rules : rules[i].priority \in 0 .. 1000 /\ rules[i].named

BugBefore(r, s) == r.priority > s.priority

(* The order of lower_to_ir and lower_gpl_to_ir.                           *)
Before(r, s) ==
    r.priority > s.priority \/ (r.priority = s.priority /\ r.name < s.name)

(* Both sort stably: rules neither of which goes first stay as they were.  *)
Lower(rules) ==
    LET At(i) == Cardinality({j \in DOMAIN rules :
                     \/ Before(rules[j], rules[i])
                     \/ j < i /\ ~Before(rules[i], rules[j])}) + 1
    IN  [k \in DOMAIN rules |-> rules[CHOOSE i \in DOMAIN rules : At(i) = k]]

Command == gplSteps < MaxGplSteps /\ pending = <<>> /\ gplSteps' = gplSteps + 1

(* The JSON is written first.  If that fails the command ends, and leaves  *)
(* the file as it was or torn: a write empties the file before it fills it.*)
EmitJson(f) ==
    /\ LET compiled == [state |-> "whole", rules |-> Lower(gplFiles[f]), source |-> f]
       IN  \/ /\ bytecode' = [bytecode EXCEPT !["json"] = compiled]
              /\ built' = [built EXCEPT !["json"] = gplFiles[f]]
              /\ pending' = <<compiled>>
           \/ /\ bytecode' \in {bytecode, [bytecode EXCEPT !["json"] = HalfWritten(compiled)]}
              /\ UNCHANGED <<built, pending>>
    /\ UNCHANGED <<gplFiles, resolved, origin, judged, tightened>>

cmd_compile(f) == Command /\ EmitJson(f)

compile_gpl_command(f) == Command /\ WellTyped(gplFiles[f]) /\ EmitJson(f)

(* Then the binary, if one was asked for, with the same ways to fail.      *)
WriteBinary ==
    /\ pending # <<>>
    /\ \/ /\ bytecode' = [bytecode EXCEPT !["bin"] = pending[1]]
          /\ built' = [built EXCEPT !["bin"] = built["json"]]
       \/ /\ bytecode' \in {bytecode, [bytecode EXCEPT !["bin"] = HalfWritten(pending[1])]}
          /\ UNCHANGED built
    /\ pending' = <<>>
    /\ UNCHANGED <<gplFiles, resolved, gplSteps, origin, judged, tightened>>

-----------------------------------------------------------------------------

\* In tenths of a hundredth: 0.03 + min(0.15, 0.4 * max(0, 0.9 - c) + 0.1 * d),
\* which a negative drift may leave negative.
Relaxation(m) ==
    LET lack == IF m.confidence < 90 THEN 90 - m.confidence ELSE 0
        part == 4 * lack + m.drift
    IN  30 + (IF part < 150 THEN part ELSE 150)

Tightens(m) == m.confidence < 90 /\ Relaxation(m) < 0

Relaxed(old, m) == (10 * old - Relaxation(m) + 5) \div 10

(* The threshold each tool finds in a rule: gplc_rt the first text that    *)
(* ends with "confidence >=", radnet_tools the first of that very field.   *)
Found(tool, p) ==
    /\ p.op = ">="
    /\ p.field \in (IF tool = "gplc_rt" THEN {"confidence", "memory_confidence"}
                    ELSE {"confidence"})

(* gplc_rt takes its floor before it goes back from hundredths: 0.5 is     *)
(* half of one of them.  radnet_tools takes 0.50.                          *)
AtLeast(tool, new) ==
    LET floor == IF tool = "gplc_rt" THEN 1 ELSE 50
    IN  IF new < floor THEN floor ELSE new

RelaxWhen(tool, when, m) ==
    LET found == {i \in DOMAIN when : Found(tool, when[i])}
        first == CHOOSE i \in found : \A j \in found : i <= j
    IN  IF m.confidence >= 90 \/ found = {} THEN when
        ELSE [when EXCEPT ![first].value = AtLeast(tool, Relaxed(@, m))]

Boost(p, m) ==
    LET boosted == p + (IF m.confidence >= 70 THEN 1 ELSE 2)
    IN  IF boosted < 20 THEN boosted ELSE 20

(* mutate: from one file to another, or the same.                          *)
Rewritten(tool, rules, m) ==
    [i \in DOMAIN rules |->
        [rules[i] EXCEPT !.when = RelaxWhen(tool, @, m), !.power = Boost(@, m)]]

RewriteFile(tool, f, g, m) ==
    /\ Command
    /\ gplFiles' = [gplFiles EXCEPT ![g] = Rewritten(tool, gplFiles[f], m)]
    /\ tightened' = IF f \in tightened \/ Tightens(m) THEN tightened \cup {g} ELSE tightened \ {g}
    /\ UNCHANGED <<pending, bytecode, resolved, origin, built, judged>>

cmd_mutate(f, g, m) == RewriteFile("gplc_rt", f, g, m)

mutate_gpl_command(f, g, m) == RewriteFile("radnet_tools", f, g, m)

-----------------------------------------------------------------------------

Holds(p, c) ==
    /\ p.field \in DOMAIN c
    /\ p.op = ">=" => c[p.field] >= p.value
    /\ p.op = "<"  => c[p.field] < p.value
    /\ p.op = "==" => c[p.field] = p.value

Fires(r, c) == \A i \in DOMAIN r.when : Holds(r.when[i], c)

\* The register of tx_power_dbm holds no negative value.
Register(p) == IF p * PowerScale + Offset < 0 THEN 0 ELSE p * PowerScale + Offset

\* raman_portable prints registers, gplc_rt the value of the rule.
Printed(by, p) == IF by = "portable" THEN Register(p) ELSE p

Resolve(by, rules, c) ==
    LET firing == {i \in DOMAIN rules : Fires(rules[i], c)}
    IN  IF firing = {} THEN Undecided("nobody", c)
        ELSE LET r == rules[CHOOSE i \in firing : \A j \in firing : i <= j]
             IN  [context |-> c, by |-> by, rule |-> r.name, power |-> Printed(by, r.power)]

(* raman_portable, on either form.  If no rule fires or the loader refuses *)
(* the file - missing or torn - the decision is that of a fallback         *)
(* artifact, or nobody's when that is not wanted or not there.             *)
RunPortable(form, c) ==
    /\ Command
    /\ LET whole == bytecode[form].state = "whole"
           decision == Resolve("portable", bytecode[form].rules, c)
       IN  /\ IF whole /\ decision.by = "portable" THEN resolved' = decision
              ELSE \E by \in {"fallback", "nobody"} : resolved' = Undecided(by, c)
           /\ judged' = [policy |-> built[form], read |-> whole]
    /\ UNCHANGED <<gplFiles, pending, bytecode, origin, built, tightened>>

(* gplc_rt run, which lowers the file the bytecode names once more.  What  *)
(* is left of a torn file may not name it; then, too, no rule matches.     *)
RunRt(c) ==
    /\ Command
    /\ \/ /\ bytecode["json"].state # "none"
          /\ LET policy == gplFiles[bytecode["json"].source]
             IN  /\ resolved' = Resolve("gplc_rt", Lower(policy), c)
                 /\ judged' = [policy |-> policy, read |-> TRUE]
       \/ /\ bytecode["json"].state # "whole"
          /\ resolved' = Undecided("nobody", c)
          /\ judged' = [policy |-> <<>>, read |-> FALSE]
    /\ UNCHANGED <<gplFiles, pending, bytecode, origin, built, tightened>>

GPNext ==
    \/ \E f \in GplFiles : cmd_compile(f) \/ compile_gpl_command(f)
    \/ WriteBinary
    \/ \E f, g \in GplFiles, m \in Metrics : cmd_mutate(f, g, m) \/ mutate_gpl_command(f, g, m)
    \/ \E form \in Forms, c \in GplContexts : RunPortable(form, c)
    \/ \E c \in GplContexts : RunRt(c)

GPSpec == GPInit /\ [][GPNext]_gpVars

-----------------------------------------------------------------------------

(* A decision of a rule is that of the policy text its bytecode was        *)
(* compiled from, or of the file as it is for gplc_rt: a rule that fires   *)
(* and that no other firing rule goes before, whatever was rewritten,      *)
(* compiled or half written since.  Another artifact or nobody decides     *)
(* only if no rule of the text fires or there is no whole file to read.    *)
DecisionsFollowPolicy ==
    LET policy == judged.policy
        firing == {i \in DOMAIN policy : Fires(policy[i], resolved.context)}
    IN  IF resolved.by \in {"fallback", "nobody"} THEN judged.read => firing = {}
        ELSE /\ judged.read
             /\ \E i \in firing :
                    /\ resolved.rule = policy[i].name
                    /\ resolved.power = Printed(resolved.by, policy[i].power)
                    /\ \A j \in firing \ {i} :
                           \/ policy[i].priority > policy[j].priority
                           \/ /\ policy[i].priority = policy[j].priority
                              /\ \/ policy[i].name < policy[j].name
                                 \/ policy[i].name = policy[j].name /\ i < j

\* A threshold below what the tools set one to, which raises it.
BelowFloor(p) ==
    /\ p.op = ">="
    /\ \/ p.field = "confidence" /\ p.value < 50
       \/ p.field = "memory_confidence" /\ p.value < 1

(* However often and with whichever tool a policy is rewritten, a rule     *)
(* fires wherever it did at first, but for thresholds that began below the *)
(* tools' floor, and for metrics of a drift so negative that the tools     *)
(* raise thresholds; with no less power but for one above 20 dBm, and with *)
(* no more than 20 dBm but for the power it began with.                    *)
RulesOnlyLoosen ==
    \A f \in GplFiles, i \in DOMAIN origin :
        LET r == gplFiles[f][i]
            first == origin[i]
        IN  /\ r.power >= first.power \/ r.power = 20
            /\ r.power <= 20 \/ r.power = first.power
            /\ \A c \in GplContexts :
                   Fires(first, c) =>
                       \/ Fires(r, c)
                       \/ \E k \in DOMAIN first.when : BelowFloor(first.when[k])
                       \/ f \in tightened

(* What a policy is compiled to and rewritten to is what it asks for.      *)
PolicyIsKept == DecisionsFollowPolicy /\ RulesOnlyLoosen
=============================================================================
