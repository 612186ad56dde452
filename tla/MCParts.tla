------------------------------- MODULE MCParts -------------------------------
(***************************************************************************)
(* The parts that share no state, each on a small instance: the gate's     *)
(* slot table, the RAMAN executors, the nonce window and its drills, the   *)
(* laboratory radio and its telemetry, the channel ensemble, the anomaly   *)
(* window, the GPL tools, COOPER's lessons, artifact binaries, the chip    *)
(* pipeline and the spin solver.  A                                        *)
(* behaviour runs one part and leaves the others where they start: the     *)
(* states add up instead of multiplying.                                   *)
(***************************************************************************)
EXTENDS AccountTable, RamanRuntime, RamanCore, ReplayWindow, Anomalizer, PeripheralLab,
        ChannelEnsemble, AnomalyWindow, PolicyTools, RamanArtifact,
        ChipPortability, SpinSolver

CONSTANTS
    s1, s2,              \* streams
    calm, jammed,        \* situations
    fast, robust, slow,  \* profiles
    critical, bulk, guard,
    none

MCStreams == {s1, s2}
MCSituations == {calm, jammed}
MCPhys == {fast, robust, slow}
MCNames == {"derived", "guarded", "plain"}
MCPriorities == {critical, bulk, guard}
MCBasePhy == [s \in MCSituations |-> IF s = calm THEN fast ELSE robust]
MCGuardPriority ==
    [n \in MCNames |-> IF n = "guarded" THEN guard ELSE none]
MCTrafficPriority ==
    [s \in MCSituations |-> IF s = calm THEN bulk ELSE critical]

Act(kind, value) == [kind |-> kind, name |-> "plain", value |-> value]
Named(name, value) == [kind |-> "phy", name |-> name, value |-> value]
When(situations, priority, order, action) ==
    [priority |-> priority, order |-> order, when |-> situations,
     action |-> action]

\* A jammed link is guarded and held; the first profile rule asks for what the
\* planner derives anyway, and the later rules repeat kinds already set.
Guarded ==
    <<When({jammed}, 10, 0, Act("hold", 2)),
      When({jammed}, 30, 1, Named("plain", robust)),
      When(MCSituations, 30, 2, Named("guarded", slow)),
      When({jammed}, 20, 3, Named("plain", fast)),
      When({calm}, 20, 4, Act("cooldown", 1)),
      When({jammed}, 5, 5, Act("hold", 3))>>

\* An executable program is not sorted: a verify with its fallback, a hold of
\* zero ticks before a cooldown, a transport rule with no priority.
Verified ==
    <<When(MCSituations, 1, 0, Act("transport", none)),
      When(MCSituations, 2, 1, Act("transport", bulk)),
      When(MCSituations, 3, 2,
           Act("verify", [below |-> {jammed}, fallback |-> critical])),
      When({calm}, 4, 3, Act("hold", 0)),
      When(MCSituations, 5, 4, Act("cooldown", 2))>>

\* An action that does not parse, behind rules of the same kind that do, and
\* kinds without an effect on the radio.
Faulty ==
    <<When({calm}, 3, 0, Act("ris", "assisted")),
      When(MCSituations, 2, 1, Act("ris", none)),
      When(MCSituations, 2, 2, Act("contract", "relay")),
      When({calm}, 1, 3, Act("cooldown", 2)),
      When(MCSituations, 0, 4, Act("other", none))>>

MCArtifacts ==
    {[compiled |-> Guarded, executable |-> <<>>],
     [compiled |-> Verified, executable |-> Verified],
     [compiled |-> Faulty, executable |-> <<>>]}

MCProgram ==
    <<[priority |-> 1, order |-> 0,
       action |-> [id |-> 1, hold_ticks |-> 2, cooldown_ticks |-> 1]],
      [priority |-> 3, order |-> 2,
       action |-> [id |-> 2, hold_ticks |-> 0, cooldown_ticks |-> 2]],
      [priority |-> 3, order |-> 1,
       action |-> [id |-> 3, hold_ticks |-> 1, cooldown_ticks |-> 0]],
      [priority |-> 2, order |-> 3,
       action |-> [id |-> 4, hold_ticks |-> 0, cooldown_ticks |-> 0]]>>

-----------------------------------------------------------------------------
(* The slot table: home slots collide, and there are more accounts than    *)
(* slots, so that probes wrap around, overtake each other and run out of   *)
(* table.                                                                  *)

CONSTANTS x1, x2, x3, x4

CrowdedHome == (x1 :> 2) @@ (x2 :> 2) @@ (x3 :> 1) @@ (x4 :> 0)

-----------------------------------------------------------------------------
(* The drills of the anomalizer.                                           *)

MCNodeLists == {<<>>, <<"a">>, <<"a", "b", "c">>}

-----------------------------------------------------------------------------
(* The laboratory radio: packets of which the FIFO holds two.        *)

MCLengths == <<2, 1, 2>>
Carry(f, dbm, ack) == [freq |-> f, dbm |-> dbm, accepted |-> ack]
MCCarriers == {Carry(1, 10, TRUE), Carry(2, 20, TRUE), Carry(2, 30, FALSE)}

-----------------------------------------------------------------------------
(* Channels of three technologies.                                         *)

MCBands == ("lora" :> 4) @@ ("ble" :> 3) @@ ("wifi" :> 2)
MCMeasurements == [tech : {"lora", "ble", "wifi"}, bit : {TRUE, FALSE}, loss : {0, 3}]

-----------------------------------------------------------------------------
(* Policies whose rules overlap, with one beyond all ranges, and with a    *)
(* threshold below the floor.                                              *)

Test(field, op, value) == [field |-> field, op |-> op, value |-> value]
GplRule(name, priority, power, when) ==
    [name |-> name, priority |-> priority, named |-> name < 3, power |-> power, when |-> when]
Sure == Test("confidence", ">=", 85)
Remembered == Test("memory_confidence", ">=", 60)
Lossy == Test("traffic", "==", "bulk")
MCPolicies ==
    {<<GplRule(3, 10, 14, <<Sure>>), GplRule(2, 50, 19, <<Remembered, Sure>>), GplRule(1, 10, -4, <<Lossy>>)>>,
     <<GplRule(1, 10, 14, <<Sure>>), GplRule(1, 10, 19, <<Lossy, Test("confidence", ">=", 40)>>), GplRule(1, 2000, 24, <<Test("confidence", "<", 60)>>)>>}
Ctx(c, m, t) == [confidence |-> c, memory_confidence |-> m, traffic |-> t]
MCGplContexts ==
    {Ctx(90, 70, "bulk"), Ctx(55, 50, "voice"), [confidence |-> 45, traffic |-> "bulk"]}
MCMetrics == {[confidence |-> 95, drift |-> 0], [confidence |-> 40, drift |-> 30],
              [confidence |-> 85, drift |-> -120]}

-----------------------------------------------------------------------------
(* Queries of which two are the same but for their spaces; a profile with  *)
(* a line twice, one of a tag that is not allowed and one too long.        *)

Line(t, x) == [tag |-> t, text |-> x]
MCNormal ==
    ("who are you" :> "who are you") @@ ("who  are you" :> "who are you")
    @@ ("fix bug" :> "fix bug") @@ ("  " :> "")
MCTagOf == ("who are you" :> "identity") @@ ("fix bug" :> "programming")
MCProfiles ==
    {<<Line("identity", "be kind"), Line("programming", "test first"), Line("identity", "be kind"),
       Line("poetry", "rhyme"), Line("communication", "long")>>,
     <<Line("communication", "short")>>}
MCChars ==
    ("who are you" :> 2) @@ ("fix bug" :> 1) @@ ("be kind" :> 2) @@ ("test first" :> 1)
    @@ ("rhyme" :> 1) @@ ("long" :> 9) @@ ("short" :> 1) @@ ("" :> 0)
MCPriority ==
    ("identity" :> 100) @@ ("programming" :> 80) @@ ("communication" :> 60) @@ ("poetry" :> 50)
TextRank ==
    ("rhyme" :> 1) @@ ("who are you" :> 2) @@ ("test first" :> 3) @@ ("be kind" :> 4)
    @@ ("fix bug" :> 5) @@ ("short" :> 6) @@ ("long" :> 7)
MCRank == [c \in [tag : DOMAIN MCPriority, text : DOMAIN TextRank] |-> 1000 * TextRank[c.text] + MCPriority[c.tag]]

-----------------------------------------------------------------------------
(* Artifacts: with all sections, without the later ones, and some that do  *)
(* not validate.                                                           *)

ExecutableRule(order) ==
    [priority |-> 5, order |-> order, predicates |-> <<[field |-> "snr", op |-> "<", value |-> "5"]>>,
     action |-> "phy", values |-> <<[key |-> "sf", value |-> "9"]>>]
DeviceRule ==
    [priority |-> 5, order |-> 0, predicates |-> <<[field_id |-> 1, op_id |-> 2, value_id |-> 3]>>,
     action |-> 7, values |-> <<[key |-> 4, value |-> 9]>>]
WholeArtifact ==
    [magic |-> "magic", version |-> "raman-artifact/v1", source |-> "test", runtime |-> "RamanExecutor v1",
     compiled_rpl |-> "rpl", total_rules |-> 1, indexed_fields |-> <<"snr">>,
     ir |-> <<[priority |-> 5, order |-> 0, kind |-> "phy", exact_filters |-> <<[key |-> "snr", value |-> "5"]>>]>>,
     executable |-> <<ExecutableRule(0)>>,
     device_abi |-> [version |-> "raman-device-abi/v1", rules |-> <<DeviceRule>>]]
MCEncodables ==
    {WholeArtifact,
     [WholeArtifact EXCEPT !.executable = <<>>, !.device_abi = NoProgram],
     [WholeArtifact EXCEPT !.total_rules = 2],
     [WholeArtifact EXCEPT !.executable = <<ExecutableRule(0), ExecutableRule(1)>>],
     [WholeArtifact EXCEPT !.device_abi.version = "other"]}
MCLeftovers == {<<1>>, encode_raman_artifact_binary(WholeArtifact)}

-----------------------------------------------------------------------------
(* Chips that can do less than is asked of them.                           *)

MCChipArtifacts ==
    {{}, {("sf" :> 8) @@ ("bw" :> 125), ("sf" :> 13) @@ ("tx" :> 17) @@ ("mode" :> 1)},
     {("bw" :> 62) @@ ("tx" :> -9), ("bw" :> 250) @@ ("priority" :> 1)}}
Cap(low, high, bws, tx, all) ==
    [sfMin |-> low, sfMax |-> high, bws |-> bws, txMax |-> tx, ris |-> all, transport |-> all]
MCCapabilities ==
    {Cap(7, 12, <<500, 250, 125, 62>>, 20, TRUE), Cap(8, 11, <<500, 125>>, 14, FALSE),
     Cap(9, 9, <<250>>, -4, TRUE), Cap(5, 6, <<125>>, 20, TRUE), Cap(7, 12, <<>>, 20, TRUE)}
MCChipDecisions ==
    [bw : {62, 125, 500}, sf : {0, 7, 12}, tx : {-4, 14, 20}]
Map(field, scale, offset) == [field |-> field, scale |-> scale, offset |-> offset]
MCMappings ==
    {<<Map("bw", 1, 0), Map("sf", 16, 0), Map("tx", 1, 4)>>, <<Map("tx", 2, -10), Map("sf", -1, 12)>>}

-----------------------------------------------------------------------------
(* A telemetry frame of three-bit bytes, with a word of two bytes, and     *)
(* sources two changes of which cancel out.                                *)

MCBlank == <<{0, 2}, {}, {}, {}, {}, {1, 2}, {}, {1}>>
MCSources == {<<{}, {}>>, <<{0}, {}>>, <<{2}, {0, 1}>>, <<{0, 2}, {1}>>}
MCSequenceNumbers == {<<{}, {}>>, <<{}, {2}>>, <<{0}, {1}>>, <<0 .. 2, 0 .. 2>>}

-----------------------------------------------------------------------------
(* All graphs in which each of three spins draws one edge.                 *)

MCDraws ==
    {d \in [1 .. 3 -> [to : 1 .. 3, w : {-1, 2}]] : \A k \in 1 .. 3 : d[k].to # k}
MCReference == <<1, -1, 1>>
MCBias == <<1, 0, -2>>

SolverAtRest ==
    /\ weight = [e \in {<<1, 2>>, <<2, 1>>} |-> 2]
    /\ spin = Reference /\ packed = {1, 3}
    /\ sparse_local = [k \in Spins |-> FieldAt(k)] /\ m_ref = Overlap
    /\ search = [baseline |-> TRUE, phase |-> "done", step |-> 0, no_imp |-> 0,
                  e |-> energy, best |-> energy, rounds |-> 0]
    /\ flips = 0 /\ annealed = energy

-----------------------------------------------------------------------------

VARIABLE running

partsVars ==
    <<tableVars, vars, coreVars, nonceVars, azVars, sxVars, tfVars, ceVars, awVars,
      gpVars, clVars, raVars, cpVars, ssVars>>

PartsInit ==
    /\ running \in {"table", "runtime", "core", "window", "drills", "radio", "telemetry",
                    "ensemble", "anomaly", "tools", "learning", "binary", "chip",
                    "solver"}
    \* a part that does not run has one initial state
    /\ TFInit
    /\ running # "telemetry" =>
           written = [source |-> <<{}, {}>>, sequence |-> <<{}, {}>>]
    /\ Init
    /\ running # "runtime" =>
           /\ host = "ffi" /\ rules = Verified
           /\ call = [stream |-> s1, situation |-> calm]
    /\ GPInit
    /\ running # "tools" => origin = CHOOSE p \in Policies : TRUE
    /\ CPInit
    /\ running # "chip" =>
           pack = [rules |-> {}, cap |-> CHOOSE c \in Capabilities : TRUE,
                   mapping |-> CHOOSE m \in Mappings : TRUE]
    /\ CLInit
    /\ running # "learning" => profile = CHOOSE p \in Profiles : TRUE
    /\ RAInit /\ TableInit /\ CoreInit /\ WindowInit /\ AZInit /\ SxInit /\ CEInit /\ AWInit
    /\ \/ running = "solver" /\ SSInit
       \/ running # "solver" /\ SolverAtRest

PartsNext ==
    /\ UNCHANGED running
    /\ \/ /\ running = "table" /\ TableNext
          /\ UNCHANGED <<vars, coreVars, nonceVars, azVars, sxVars, tfVars, ceVars,
                       awVars, gpVars, clVars, raVars, cpVars, ssVars>>
       \/ /\ running = "runtime" /\ Next
          /\ UNCHANGED <<tableVars, coreVars, nonceVars, azVars, sxVars, tfVars, ceVars,
                       awVars, gpVars, clVars, raVars, cpVars, ssVars>>
       \/ /\ running = "core" /\ CoreNext
          /\ UNCHANGED <<tableVars, vars, nonceVars, azVars, sxVars, tfVars, ceVars,
                       awVars, gpVars, clVars, raVars, cpVars, ssVars>>
       \/ /\ running = "window" /\ WindowNext
          /\ UNCHANGED <<tableVars, vars, coreVars, azVars, sxVars, tfVars, ceVars,
                       awVars, gpVars, clVars, raVars, cpVars, ssVars>>
       \/ /\ running = "drills" /\ AZNext
          /\ UNCHANGED <<tableVars, vars, coreVars, nonceVars, sxVars, tfVars, ceVars,
                       awVars, gpVars, clVars, raVars, cpVars, ssVars>>
       \/ /\ running = "radio" /\ SxNext
          /\ UNCHANGED <<tableVars, vars, coreVars, nonceVars, azVars, tfVars, ceVars,
                       awVars, gpVars, clVars, raVars, cpVars, ssVars>>
       \/ /\ running = "telemetry" /\ TFNext
          /\ UNCHANGED <<tableVars, vars, coreVars, nonceVars, azVars, sxVars, ceVars,
                       awVars, gpVars, clVars, raVars, cpVars, ssVars>>
       \/ /\ running = "ensemble" /\ CENext
          /\ UNCHANGED <<tableVars, vars, coreVars, nonceVars, azVars, sxVars, tfVars,
                       awVars, gpVars, clVars, raVars, cpVars, ssVars>>
       \/ /\ running = "anomaly" /\ AWNext
          /\ UNCHANGED <<tableVars, vars, coreVars, nonceVars, azVars, sxVars, tfVars,
                       ceVars, gpVars, clVars, raVars, cpVars, ssVars>>
       \/ /\ running = "tools" /\ GPNext
          /\ UNCHANGED <<tableVars, vars, coreVars, nonceVars, azVars, sxVars, tfVars,
                       ceVars, awVars, clVars, raVars, cpVars, ssVars>>
       \/ /\ running = "learning" /\ CLNext
          /\ UNCHANGED <<tableVars, vars, coreVars, nonceVars, azVars, sxVars, tfVars,
                       ceVars, awVars, gpVars, raVars, cpVars, ssVars>>
       \/ /\ running = "binary" /\ RANext
          /\ UNCHANGED <<tableVars, vars, coreVars, nonceVars, azVars, sxVars, tfVars,
                       ceVars, awVars, gpVars, clVars, cpVars, ssVars>>
       \/ /\ running = "chip" /\ CPNext
          /\ UNCHANGED <<tableVars, vars, coreVars, nonceVars, azVars, sxVars, tfVars,
                       ceVars, awVars, gpVars, clVars, raVars, ssVars>>
       \/ /\ running = "solver" /\ SSNext
          /\ UNCHANGED <<tableVars, vars, coreVars, nonceVars, azVars, sxVars, tfVars,
                       ceVars, awVars, gpVars, clVars, raVars, cpVars>>

PartsSpec == PartsInit /\ [][PartsNext]_<<running, partsVars>> /\ TableFairness
=============================================================================
