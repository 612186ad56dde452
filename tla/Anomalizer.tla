----------------------------- MODULE Anomalizer -----------------------------
(***************************************************************************)
(* The drills of the simulator (EnvironmentAnomalizer in src/sim.rs): one  *)
(* anomalizer jams a virtual bus, replays frames it captured into a fresh  *)
(* nonce window, reports states with forged tags, and says whether the     *)
(* node would have held out.  What it keeps from one drill to the next is  *)
(* the bus, the captured frames and the isolated nodes.                    *)
(*                                                                         *)
(* An operator named Bug... is a mutated form of the definition after it.  *)
(***************************************************************************)
EXTENDS Integers, Sequences, FiniteSets, SequencesExt

CONSTANTS
    NonceWord,   \* 2^32
    DrillSkew,   \* 8, the window of a drill
    Sessions,
    Bases,       \* first nonces of a drill
    Counts,      \* frames of a drill
    Jams,        \* corrupted frames
    NodeLists,   \* sequences of node names
    GuardBase,   \* 31_000
    MaxDrills

ASSUME DrillAssumption ==
    /\ NonceWord \in Nat /\ DrillSkew \in 1 .. NonceWord - 1
    /\ Bases \cup {GuardBase} \subseteq 0 .. NonceWord - 1
    /\ Counts \subseteq Nat \ {0}

VARIABLES
    depth,       \* length of virtual_bus
    captured,    \* captured_frames: [nonce, session], in order
    isolated,    \* isolated_nodes
    report,      \* what the last drill returned
    \* history
    injected,    \* the last replay drill: [fresh, window, verdicts]
    drills

azVars == <<depth, captured, isolated, report, injected, drills>>

-----------------------------------------------------------------------------
(* Interference: long bursts make the node hop and lower its mode.         *)

Jammed(n) ==
    LET penalty == IF 16 + n \div 2 > 36 THEN 36 ELSE 16 + n \div 2
        hops == IF penalty < 24 THEN 0 ELSE IF n < 8 THEN 1 ELSE n \div 8
    IN  [kind |-> "interference", hops |-> hops, depth |-> depth + n,
         mode |-> IF penalty >= 30 THEN "survival"
                  ELSE IF penalty >= 24 THEN "degraded" ELSE "nominal"]

-----------------------------------------------------------------------------
(* Replay: a window of its own, the frames in order, then a stale frame    *)
(* and one of the far future.                                              *)

Receiver(e) ==
    INSTANCE ReplayWindow WITH
        NonceLimit <- NonceWord, Skew <- DrillSkew, First <- 0, MaxRewinds <- 0,
        expected <- e, cursor <- 0, sent <- {}, count <- <<>>, rewound <- <<>>

Saturated(n) == IF n >= NonceWord THEN NonceWord - 1 ELSE n

\* One frame offered to the window; log holds the verdicts so far.
Offer(state, frame, session) ==
    LET verdict == Receiver(state.expected)!Verdict(frame.nonce, frame.session = session)
    IN  [expected |-> IF verdict = "ok" THEN Receiver(0)!Successor(frame.nonce)
                                        ELSE state.expected,
         log |-> Append(state.log, [nonce |-> frame.nonce, verdict |-> verdict])]

BugFarFuture(expected) == Saturated(Saturated(expected + DrillSkew))

FarFuture(expected) == Saturated(Saturated(expected + DrillSkew) + 3)

Originals(session, base, n) ==
    [i \in 1 .. n |-> [nonce |-> (base + i - 1) % NonceWord, session |-> session]]

\* The oldest captured frame, whatever drill it comes from.
StaleDuplicate(frames) == frames[1]

(* validate_loopback_persistence, on what was captured before it.          *)
Replayed(session, base, n, old) ==
    LET frames == Originals(session, base, n)
        after[k \in 0 .. n] ==
            IF k = 0 THEN [expected |-> base, log |-> <<>>]
                     ELSE Offer(after[k - 1], frames[k], session)
        passed == after[n]
        stale == Offer(passed, StaleDuplicate(old \o frames), session)
        \* built before the stale frame is offered, which may move the window
        future == [nonce |-> FarFuture(passed.expected), session |-> session]
        last == Offer(stale, future, session)
        Oks(log) == Cardinality({i \in DOMAIN log : log[i].verdict = "ok"})
    IN  [captured |-> old \o frames,
         log |-> last.log,
         report |-> [kind |-> "loopback", accepted |-> Oks(passed.log),
                     rejected |-> 2 + Oks(passed.log) - Oks(last.log),
                     expected |-> last.expected]]

-----------------------------------------------------------------------------
(* Byzantine: every forged report fails its tag, isolates its node and is  *)
(* answered by the recovery plan of src/assurance.rs.                      *)

FaultClass ==
    [ack_timeout_burst |-> "link", crc_spike |-> "integrity", thermal_runaway |-> "thermal",
     queue_overrun |-> "scheduling", clock_drift_spike |-> "timing",
     signature_mismatch |-> "security"]

\* isolate_and_plan: the actions, in order.
Plans ==
    [link       |-> <<"renegotiate", "survival", "reset_radio">>,
     integrity  |-> <<"store_and_forward", "reset_radio">>,
     thermal    |-> <<"silent", "drain_queue">>,
     scheduling |-> <<"drain_queue", "beacon_only">>,
     timing     |-> <<"degraded", "reset_radio">>,
     security   |-> <<"key_resync", "silent">>]

Recovery(symptom, severity) ==
    LET plan == Plans[FaultClass[symptom]]
    IN  IF severity >= 9 THEN Append(plan, "reboot") ELSE plan

Forged(nodes) ==
    LET plan == IF nodes = <<>> THEN <<>> ELSE Recovery("signature_mismatch", 9)
    IN  [kind |-> "byzantine",
         dropped |-> Len(nodes) + 1,         \* and the firmware blob
         liars |-> isolated \cup ToSet(nodes),
         mode |-> IF "silent" \in ToSet(plan) THEN "silent" ELSE "nominal"]

Blocks(byzantine, nodes) ==
    byzantine.dropped = Len(nodes) + 1 /\ byzantine.mode = "silent"

-----------------------------------------------------------------------------

AZInit ==
    /\ depth = 0 /\ captured = <<>> /\ isolated = {}
    /\ report = [kind |-> "none"]
    /\ injected = [fresh |-> FALSE, roomy |-> FALSE, size |-> 0, log |-> <<>>]
    /\ drills = 0

Remember(session, base, n) ==
    injected' =
        [fresh |-> captured = <<>>,
         roomy |-> base + n + DrillSkew + 3 < NonceWord,
         size |-> n,
         log |-> Replayed(session, base, n, captured).log]

Interference ==
    \E n \in Jams :
        /\ report' = Jammed(n)
        /\ depth' = depth + n
        /\ UNCHANGED <<captured, isolated, injected>>

Loopback ==
    \E session \in Sessions, base \in Bases, n \in Counts :
        LET drill == Replayed(session, base, n, captured)
        IN  /\ report' = drill.report
            /\ captured' = drill.captured
            /\ Remember(session, base, n)
            /\ UNCHANGED <<depth, isolated>>

Byzantine ==
    \E nodes \in NodeLists :
        /\ report' = Forged(nodes)
        /\ isolated' = Forged(nodes).liars
        /\ UNCHANGED <<depth, captured, injected>>

(* run_raman_gplang_low_level_resilience: the three drills in a row, and   *)
(* whether all of them held.                                               *)
Resilience ==
    \E session \in Sessions, nodes \in {l \in NodeLists : Len(l) = 3} :
        LET jam == Jammed(64)
            drill == Replayed(session, GuardBase, 4, captured)
            forged == Forged(nodes)
            mode == IF forged.mode = "silent" THEN "silent" ELSE jam.mode
        IN  /\ depth' = depth + 64
            /\ captured' = drill.captured
            /\ isolated' = forged.liars
            /\ Remember(session, GuardBase, 4)
            /\ report' = [kind |-> "resilience", hops |-> jam.hops, mode |-> mode,
                          rejected |-> drill.report.rejected,
                          blocked |-> /\ drill.report.rejected = 2
                                      /\ Blocks(forged, nodes)
                                      /\ mode = "silent"]

AZNext ==
    /\ drills < MaxDrills
    /\ drills' = drills + 1
    /\ Interference \/ Loopback \/ Byzantine \/ Resilience

AZSpec == AZInit /\ [][AZNext]_azVars

-----------------------------------------------------------------------------

(* In a replay drill no frame is accepted twice; where the nonces do not   *)
(* run out, every original is accepted; on an anomalizer that captured     *)
(* nothing before, both injected frames are turned away; on any other the  *)
(* far-future frame gets in only behind an old frame that moved the        *)
(* window; and the node is said to have held out exactly when neither got  *)
(* in.                                                                     *)
DrillVerdictsAreSound ==
    LET log == injected.log
        Ok(i) == log[i].verdict = "ok"
        stale == injected.size + 1
        future == injected.size + 2
    IN  log # <<>> =>
            /\ \A i, j \in DOMAIN log :
                   i < j /\ Ok(i) /\ Ok(j) =>
                       log[i].nonce < log[j].nonce \/ log[j].nonce = NonceWord - 1
            /\ injected.roomy =>
                   /\ \A i \in 1 .. injected.size : Ok(i)
                   /\ Ok(stale) => ~injected.fresh
                   /\ Ok(future) => Ok(stale)
            /\ report.kind = "resilience" => (report.blocked <=> ~Ok(stale) /\ ~Ok(future))
=============================================================================
