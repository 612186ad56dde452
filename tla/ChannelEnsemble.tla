-------------------------- MODULE ChannelEnsemble --------------------------
(***************************************************************************)
(* The multi-band ensemble (src/channel_ensemble.rs): LoRa hops through a  *)
(* shuffled plan, BLE and WiFi through theirs in order, and the            *)
(* measurements taken on the channels are fused into a score.              *)
(*                                                                         *)
(* The seed is any: the shuffle may pick any element at any step.  Scores  *)
(* are scaled to whole numbers.  An operator named Bug... is a mutated     *)
(* form of the definition after it.                                        *)
(***************************************************************************)
EXTENDS Integers, Sequences, FiniteSets

CONSTANTS
    Bands,         \* Bands[t]: the number of channels of technology t
    Measurements,  \* [tech, bit, loss]; bit: an entropy bit came out; loss: |rssi|
    MaxLoss,       \* a loss that leaves full uncertainty, 256
    EnoughBits,    \* 128
    MaxHops, MaxMeasurements

Technologies == DOMAIN Bands

ASSUME BandsAssumption == Bands \in [{"lora", "ble", "wifi"} -> Nat \ {0}]
ASSUME MeasurementsAssumption ==
    Measurements \subseteq [tech : Technologies, bit : BOOLEAN, loss : Nat]
ASSUME ScoreAssumption == {MaxLoss, EnoughBits} \subseteq Nat \ {0}

VARIABLES
    plan,      \* hop_sequence
    shuffle,   \* the index the shuffle is at; 0 when the plan is ready
    cursors,   \* the current_index of each technology
    measured,  \* the measurements taken where the layers are
    \* history
    hops       \* hops[t]: channels visited, in order

ceVars == <<plan, shuffle, cursors, measured, hops>>

CEInit ==
    /\ plan = [k \in 0 .. Bands["lora"] - 1 |-> k]
    /\ shuffle = Bands["lora"] - 1
    /\ cursors = [t \in Technologies |-> 0]
    /\ measured = <<>>
    /\ hops = [t \in Technologies |-> <<>>]

BugSwap(i, j) == [plan EXCEPT ![i] = plan[j]]

Swap(i, j) == [plan EXCEPT ![i] = plan[j], ![j] = plan[i]]

(* FullBandHopPlan::new, one round of its shuffle.                         *)
Shuffle ==
    /\ shuffle > 0
    /\ \E j \in 0 .. shuffle : plan' = Swap(shuffle, j)
    /\ shuffle' = shuffle - 1
    /\ UNCHANGED <<cursors, measured, hops>>

Channel(t) ==
    LET k == cursors[t] % Bands[t]
    IN  IF t = "lora" THEN plan[k] ELSE k

\* LoRa wraps its index when it moves, the others when they use it.
Advance(t) == IF t = "lora" THEN (cursors[t] + 1) % Bands[t] ELSE cursors[t] + 1

(* next_channel of some of the layers: of one, or of all by next_triple.   *)
HopNext(T) ==
    /\ shuffle = 0
    /\ \A t \in T : Len(hops[t]) < MaxHops
    /\ cursors' = [t \in Technologies |-> IF t \in T THEN Advance(t) ELSE cursors[t]]
    /\ hops' = [t \in Technologies |->
                   IF t \in T THEN Append(hops[t], Channel(t)) ELSE hops[t]]
    /\ measured' = <<>>
    /\ UNCHANGED <<plan, shuffle>>

(* Measurements come in.  fuse looks at no channel's index, so it is       *)
(* enough to take them before the first hop.                               *)
Measure ==
    /\ shuffle = 0 /\ \A t \in Technologies : hops[t] = <<>>
    /\ Len(measured) < MaxMeasurements
    /\ \E m \in Measurements : measured' = Append(measured, m)
    /\ UNCHANGED <<plan, shuffle, cursors, hops>>

CENext ==
    \/ Shuffle
    \/ \E t \in Technologies : HopNext({t})
    \/ HopNext(Technologies)
    \/ Measure

CESpec == CEInit /\ [][CENext]_ceVars

-----------------------------------------------------------------------------

\* u_out = min(u1, u2, ...), and full uncertainty of nothing.
Uncertainty(losses) ==
    CHOOSE l \in losses \cup {MaxLoss} : \A k \in losses \cup {MaxLoss} : l <= k

(* BruFusion::fuse                                                         *)
Fuse(ms) ==
    [bits |-> Cardinality({i \in DOMAIN ms : ms[i].bit}),
     uncertainty |-> Uncertainty({ms[i].loss : i \in DOMAIN ms}),
     technologies |-> Cardinality({ms[i].tech : i \in DOMAIN ms})]

(* BruFusion::security_score, times 10 * EnoughBits * MaxLoss.             *)
SecurityScore(f) ==
    LET bits == IF f.bits < EnoughBits THEN f.bits ELSE EnoughBits
    IN  4 * bits * MaxLoss
            + f.technologies * EnoughBits * MaxLoss
            + 3 * EnoughBits * (MaxLoss - f.uncertainty)

-----------------------------------------------------------------------------

(* Whatever the seed, and however the layers are stepped, no channel comes *)
(* back before all others of its band were visited.                        *)
HopsCoverTheBand ==
    \A t \in Technologies : \A i, j \in DOMAIN hops[t] :
        (hops[t][i] = hops[t][j]) <=> ((i - j) % Bands[t] = 0)

(* One more measurement never lowers the score, and no number of them      *)
(* makes up for a missing technology.                                      *)
EvidenceOnlyHelps ==
    /\ \A n \in 1 .. Len(measured) :
           SecurityScore(Fuse(SubSeq(measured, 1, n - 1)))
               <= SecurityScore(Fuse(SubSeq(measured, 1, n)))
    /\ SecurityScore(Fuse(measured)) = 10 * EnoughBits * MaxLoss
           => {measured[i].tech : i \in DOMAIN measured} = Technologies

(* The ensemble spreads over its bands and scores what it measured there.  *)
EnsembleIsFair == HopsCoverTheBand /\ EvidenceOnlyHelps
=============================================================================
