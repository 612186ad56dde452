-------------------------- MODULE ChipPortability --------------------------
(***************************************************************************)
(* The portable pipeline (src/portability.rs): what an artifact's device   *)
(* rules ask of a radio is derived from them, negotiated with what a chip  *)
(* pack offers, and the decision of the executor is written to the chip's  *)
(* registers through the pack's mapping.                                   *)
(***************************************************************************)
EXTENDS Integers, Sequences, FiniteSets

CONSTANTS
    ChipArtifacts,     \* sets of device rules: functions of keys to numbers
    Capabilities,  \* [sfMin, sfMax, bws (a sequence), txMax, ris, transport]
    ChipDecisions,     \* [bw, sf, tx] of the executor; sf = 0: no LoRa profile
    Mappings       \* sequences of [field, scale, offset]

LeastPower == -128   \* in dBm; powers are an i8

ASSUME RulesAssumption ==
    \A rules \in ChipArtifacts : \A r \in rules, key \in {"sf", "bw", "tx"} :
        key \in DOMAIN r => r[key] \in Int
ASSUME CapabilitiesAssumption ==
    \A c \in Capabilities :
        /\ c.sfMin \in Nat /\ c.sfMax \in Nat /\ c.bws \in Seq(Nat)
        /\ c.txMax \in Int /\ c.txMax >= LeastPower
ASSUME DecisionsAssumption ==
    \A d \in ChipDecisions :
        d.sf \in Nat /\ d.bw \in Nat /\ d.tx \in Int /\ d.tx >= LeastPower
ASSUME MappingsAssumption ==
    Mappings \subseteq Seq([field : {"sf", "tx", "bw"}, scale : Int, offset : Int])

VARIABLES
    pack,          \* the inputs: [rules, cap, mapping]
    stage,         \* how far the pipeline is
    requirements,
    negotiation,
    verdict,       \* the decision
    writes         \* values written so far, one per mapping rule

cpVars == <<pack, stage, requirements, negotiation, verdict, writes>>

Nothing == [none |-> TRUE]

CPInit ==
    /\ \E r \in ChipArtifacts, c \in Capabilities, m \in Mappings :
           pack = [rules |-> r, cap |-> c, mapping |-> m]
    /\ stage = "derive"
    /\ requirements = Nothing /\ negotiation = Nothing /\ verdict = Nothing
    /\ writes = <<>>

-----------------------------------------------------------------------------

Lowest(S)  == CHOOSE x \in S : \A y \in S : x <= y
Highest(S) == CHOOSE x \in S : \A y \in S : x >= y
Clamp(x, low, high) == Highest({low, Lowest({x, high})})

\* The values the rules give a key, kept in its range.
Asked(rules, key, low, high) ==
    {Clamp(r[key], low, high) : r \in {s \in rules : key \in DOMAIN s}}

Mentions(rules, keys) == \E r \in rules : keys \cap DOMAIN r # {}

(* derive_artifact_requirements, with what it takes when no rule says.     *)
Derive ==
    /\ stage = "derive"
    /\ LET sf == Asked(pack.rules, "sf", 7, 12)
           bw == Asked(pack.rules, "bw", 62, 500)
           tx == Asked(pack.rules, "tx", -4, 20)
       IN  requirements' =
               [sfMin |-> IF sf = {} THEN 7 ELSE Lowest(sf),
                sfMax |-> IF sf = {} THEN 12 ELSE Highest(sf),
                bws |-> IF bw = {} THEN {62, 125, 250, 500} ELSE bw,
                txMax |-> IF tx = {} THEN 20 ELSE Highest(tx),
                ris |-> Mentions(pack.rules, {"mode", "surface"}),
                transport |-> Mentions(pack.rules, {"priority"})]
    /\ stage' = "negotiate"
    /\ UNCHANGED <<pack, negotiation, verdict, writes>>

(* The bandwidths both know; failing that, the first the chip knows.       *)
Bandwidths(asked, offered) ==
    LET both == asked \cap {offered[i] : i \in DOMAIN offered}
    IN  IF both # {} \/ offered = <<>> THEN both ELSE {offered[1]}

(* negotiate_artifact_with_capability                                      *)
Negotiated(r, c) ==
    LET n == [sfMin |-> Highest({r.sfMin, c.sfMin}), sfMax |-> Lowest({r.sfMax, c.sfMax}),
              bws |-> Bandwidths(r.bws, c.bws), txMax |-> Lowest({r.txMax, c.txMax}),
              ris |-> r.ris /\ c.ris, transport |-> r.transport /\ c.transport]
        compatible == n.sfMin <= n.sfMax
    IN  [offer |-> n, compatible |-> compatible,
         downgraded |->
             \/ compatible /\ (n.sfMin # r.sfMin \/ n.sfMax # r.sfMax)
             \/ n.bws # r.bws /\ ~(n.bws = {} /\ c.bws = <<>>)
             \/ n.txMax # r.txMax
             \/ n.ris # r.ris
             \/ n.transport # r.transport]

Negotiate ==
    /\ stage = "negotiate"
    /\ negotiation' = Negotiated(requirements, pack.cap)
    /\ stage' = IF negotiation'.compatible THEN "decide" ELSE "failed"
    /\ UNCHANGED <<pack, requirements, verdict, writes>>

Execute ==
    /\ stage = "decide"
    /\ verdict' \in ChipDecisions
    /\ stage' = "write"
    /\ UNCHANGED <<pack, requirements, negotiation, writes>>

\* The decision's value, kept in the offer.
BugFit(field, v) ==
    LET n == negotiation.offer
    IN  [sf |-> Clamp(v, n.sfMin, n.sfMax),
         tx |-> Lowest({v, requirements.txMax}),
         bw |-> IF v \in n.bws \/ n.bws = {} THEN v ELSE Lowest(n.bws)][field]

Fit(field, v) ==
    LET n == negotiation.offer
    IN  [sf |-> Clamp(v, n.sfMin, n.sfMax),
         tx |-> Lowest({v, n.txMax}),
         bw |-> IF v \in n.bws \/ n.bws = {} THEN v ELSE Lowest(n.bws)][field]

Encode(rule, v) == Highest({0, v * rule.scale + rule.offset})

(* compile_rhml_command_plan, one rule of the mapping.                     *)
WriteNext ==
    /\ stage = "write"
    /\ Len(writes) < Len(pack.mapping)
    /\ LET rule == pack.mapping[Len(writes) + 1]
       IN  writes' = Append(writes, Encode(rule, Fit(rule.field, verdict[rule.field])))
    /\ UNCHANGED <<pack, stage, requirements, negotiation, verdict>>

CPNext == Derive \/ Negotiate \/ Execute \/ WriteNext

CPSpec == CPInit /\ [][CPNext]_cpVars

-----------------------------------------------------------------------------

\* What the chip pack says the chip can do with a field; without a list of
\* bandwidths, whatever it is told.
Possible(field) ==
    LET c == pack.cap
    IN  [sf |-> c.sfMin .. c.sfMax,
         tx |-> LeastPower .. c.txMax,
         bw |-> IF c.bws = <<>> THEN {verdict.bw} ELSE {c.bws[i] : i \in DOMAIN c.bws}][field]

(* Every register is written what encodes a value the chip can do,         *)
(* whatever the rules asked and the executor decided.                      *)
WritesFitChip ==
    \A i \in DOMAIN writes :
        LET rule == pack.mapping[i]
        IN  \E v \in Possible(rule.field) : writes[i] = Encode(rule, v)

(* A pipeline that reports no downgrade writes a decision that lies within *)
(* what the rules asked as it is.                                          *)
SilenceMeansVerbatim ==
    writes # <<>> /\ ~negotiation.downgraded =>
        \A i \in DOMAIN writes :
            LET field == pack.mapping[i].field
                v == verdict[field]
                r == requirements
            IN  \/ field = "sf" /\ v \notin r.sfMin .. r.sfMax
                \/ field = "tx" /\ v > r.txMax
                \/ field = "bw" /\ v \notin r.bws
                \/ writes[i] = Encode(pack.mapping[i], v)

(* The pipeline fits a decision to the chip, and says so when it had to.   *)
PipelineIsHonest == WritesFitChip /\ SilenceMeansVerbatim
=============================================================================
