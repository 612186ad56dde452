---------------------------- MODULE MorphicRadio ----------------------------
(* The morphic kernel over the SX1262 driver and its SPI bus: how a change of  *)
(* profile is planned as register writes, sent frame by frame, and what stands *)
(* on the chip when a pin, the SPI or the busy line fails in the middle.       *)
EXTENDS Integers, FiniteSets

CONSTANTS
    Contexts,    \* the link conditions the planner may be given
    Custom,      \* profiles that do not come from the planner
    LogSize,     \* MAX_REGISTER_WRITES
    PollLimit,   \* SX1262_BUSY_POLL_LIMIT
    Word,        \* the registers' range: 2^32
    MaxCalls     \* bound: calls made

Absent == -1     \* None of an Option

Modulation == {"Fsk", "LoRa"}

\* Enumerations are their discriminants: Khz62.. is 0..3, Sf7.. 0..5, Cr45.. 0..3.
PhyProfile ==
    [modulation : Modulation, frequency : Nat, bandwidth : 0 .. 3,
     sf : {Absent} \cup 0 .. 5, cr : {Absent} \cup 0 .. 3, preamble : Nat,
     sync : Nat, power : Int, crc : {0, 1}, whitening : {0, 1}, header : {0, 1}]

Context == [snr : Int, battery : Nat, latency : Nat, margin : Int]

ASSUME RadioAssumption ==
    /\ Contexts \subseteq Context
    /\ Custom \subseteq PhyProfile
    /\ LogSize \in Nat
    /\ PollLimit \in Nat \ {0}
    /\ Word \in Nat /\ Word > 20
    /\ MaxCalls \in Nat

-----------------------------------------------------------------------------
(* Presets and the planner.                                                    *)

Presets == {"Default", "DefaultLowPower", "LowLatency", "Resilient", "ResilientLowPower"}

Lora(bandwidth, sf, cr, power) ==
    [modulation |-> "LoRa", frequency |-> 868100000, bandwidth |-> bandwidth,
     sf |-> sf, cr |-> cr, preamble |-> 8, sync |-> 18, power |-> power,
     crc |-> 1, whitening |-> 0, header |-> 0]

Profile(preset) ==
    [Default           |-> Lora(1, 2, 0, 14),
     DefaultLowPower   |-> Lora(1, 2, 0, 12),
     LowLatency        |-> Lora(2, 0, 0, 10),
     Resilient         |-> Lora(1, 4, 3, 17),
     ResilientLowPower |-> Lora(1, 4, 3, 12)][preset]

IsPreset(p) == \E q \in Presets : p = Profile(q)

Valid(p) ==
    /\ p.frequency \in 137000000 .. 1020000000
    /\ p.power \in -4 .. 20
    /\ p.preamble # 0
    /\ IF p.modulation = "LoRa"
       THEN p.sf # Absent /\ p.cr # Absent
       ELSE p.sf = Absent /\ p.cr = Absent

SelectPreset(c) ==
    LET low == c.battery < 3200
    IN  IF c.snr <= -5 \/ c.margin <= 4
        THEN IF low THEN "ResilientLowPower" ELSE "Resilient"
        ELSE IF c.latency <= 60 /\ c.snr >= 8
        THEN "LowLatency"
        ELSE IF low THEN "DefaultLowPower" ELSE "Default"

PowerRange(preset) ==
    [Default           |-> [floor |-> 10, ceiling |-> 14],
     DefaultLowPower   |-> [floor |-> 8,  ceiling |-> 12],
     LowLatency        |-> [floor |-> 8,  ceiling |-> 10],
     Resilient         |-> [floor |-> 12, ceiling |-> 17],
     ResilientLowPower |-> [floor |-> 10, ceiling |-> 12]][preset]

RecommendTxPower(preset, c) ==
    LET floor    == PowerRange(preset).floor
        ceiling  == PowerRange(preset).ceiling
        adjusted == IF c.snr >= 14 /\ c.margin >= 20 THEN floor
                    ELSE IF c.snr >= 8 /\ c.margin >= 12 THEN floor + 1
                    ELSE IF c.snr >= 0 /\ c.margin >= 8 THEN (floor + ceiling) \div 2
                    ELSE IF c.snr >= -4 /\ c.margin >= 4 THEN ceiling - 1
                    ELSE ceiling
    IN  IF c.battery < 3200 /\ adjusted > 12 THEN 12 ELSE adjusted

GeneratePhy(c) ==
    LET preset == SelectPreset(c)
    IN  [Profile(preset) EXCEPT !.power = RecommendTxPower(preset, c)]

Targets == {GeneratePhy(c) : c \in Contexts} \cup {Profile(q) : q \in Presets} \cup Custom

-----------------------------------------------------------------------------
(* The registers of a profile, and which of them a morph rewrites.             *)

RegisterOrder == <<"OP_MODE", "FRF", "MODEM_CONFIG_1", "MODEM_CONFIG_2",
                   "PACKET_CONFIG", "PREAMBLE", "SYNC_WORD", "PA_CONFIG">>

Registers == {"OP_MODE", "FRF", "MODEM_CONFIG_1", "MODEM_CONFIG_2",
              "PACKET_CONFIG", "PREAMBLE", "SYNC_WORD", "PA_CONFIG"}

Or(option, default) == IF option = Absent THEN default ELSE option

\* compile_plan_slow: the value each register is given.
Encode(p) ==
    [OP_MODE        |-> IF p.modulation = "LoRa" THEN 128 ELSE 0,
     FRF            |-> p.frequency,
     MODEM_CONFIG_1 |-> 16 * (6 + p.bandwidth) + 2 * (1 + Or(p.cr, 0)) + p.header,
     MODEM_CONFIG_2 |-> 16 * (7 + Or(p.sf, 0)) + 4 * p.crc,
     PACKET_CONFIG  |-> p.whitening,
     PREAMBLE       |-> p.preamble,
     SYNC_WORD      |-> p.sync,
     PA_CONFIG      |-> p.power % Word]

\* ProfileDiff::between: the registers some field of which changes.
Changed(c, t) ==
    {r \in Registers :
        \/ r = "OP_MODE" /\ c.modulation # t.modulation
        \/ r = "FRF" /\ c.frequency # t.frequency
        \/ r = "MODEM_CONFIG_1" /\ (c.bandwidth # t.bandwidth \/ c.cr # t.cr \/ c.header # t.header)
        \/ r = "MODEM_CONFIG_2" /\ (c.sf # t.sf \/ c.crc # t.crc)
        \/ r = "PACKET_CONFIG" /\ c.whitening # t.whitening
        \/ r = "PREAMBLE" /\ c.preamble # t.preamble
        \/ r = "SYNC_WORD" /\ c.sync # t.sync
        \/ r = "PA_CONFIG" /\ c.power # t.power}

\* compile_preset_transition: three registers, as constants of the preset.
PresetRegisters(preset) ==
    [Default           |-> [MODEM_CONFIG_1 |-> 114, MODEM_CONFIG_2 |-> 148, PA_CONFIG |-> 14],
     DefaultLowPower   |-> [MODEM_CONFIG_1 |-> 114, MODEM_CONFIG_2 |-> 148, PA_CONFIG |-> 12],
     LowLatency        |-> [MODEM_CONFIG_1 |-> 130, MODEM_CONFIG_2 |-> 116, PA_CONFIG |-> 10],
     Resilient         |-> [MODEM_CONFIG_1 |-> 120, MODEM_CONFIG_2 |-> 180, PA_CONFIG |-> 17],
     ResilientLowPower |-> [MODEM_CONFIG_1 |-> 120, MODEM_CONFIG_2 |-> 180, PA_CONFIG |-> 12]
    ][preset]

BugPresetPlan(c, t) ==
    LET old == PresetRegisters(c)
        new == PresetRegisters(t)
    IN  [r \in {x \in {"MODEM_CONFIG_1", "MODEM_CONFIG_2"} : old[x] # new[x]} |-> new[r]]

PresetPlan(c, t) ==
    LET old == PresetRegisters(c)
        new == PresetRegisters(t)
    IN  [r \in {x \in {"MODEM_CONFIG_1", "MODEM_CONFIG_2", "PA_CONFIG"} : old[x] # new[x]}
            |-> new[r]]

SlowPlan(c, t) == [r \in Changed(c, t) |-> Encode(t)[r]]

\* The preset a preset's profile is.
PresetOf(p) == CHOOSE q \in Presets : p = Profile(q)

CompilePlan(c, t) ==
    IF IsPreset(c) /\ IsPreset(t) THEN PresetPlan(PresetOf(c), PresetOf(t)) ELSE SlowPlan(c, t)

-----------------------------------------------------------------------------
(* The state: the chip and its select line, the call in progress, the caller.  *)

VARIABLES
    chip,        \* what each register holds
    nss,         \* the chip select line: "low" while a frame is addressed to the chip
    logged,      \* entries of the driver's `writes`, never cleared
    current,     \* the profile the caller takes the radio to be in
    target,      \* the profile of the morph in progress
    plan,        \* its WritePlan
    left,        \* the registers of the plan not yet put on the SPI
    frame,       \* the frame in hand: "standby" or a register
    call,        \* "none", "morph" or "bring_up"
    pc, polls, spiFailed,
    calls,
    suspect,     \* history: registers a failed call may have left in another state
    selectFault  \* history: a write of the select line has failed

radio == <<chip, nss, logged>>
work == <<target, plan, left, call, calls>>
history == <<suspect, selectFault>>
vars == <<radio, current, work, frame, pc, polls, spiFailed, history>>

Default == Profile("Default")

Init ==
    /\ chip = Encode(Default) /\ nss = "high" /\ logged = 0
    /\ current = Default /\ target = Default
    /\ plan = <<>> /\ left = {}
    /\ frame = "standby" /\ call = "none" /\ pc = "idle"
    /\ polls = 0 /\ spiFailed = FALSE /\ calls = 0
    /\ suspect = {} /\ selectFault = FALSE

\* write_frame, first line: wait until the chip is not busy.
StartFrame(f) == frame' = f /\ pc' = "before" /\ polls' = 0 /\ spiFailed' = FALSE

\* An error reaches the caller, who goes on with the profile it had.
Fail ==
    /\ pc' = "idle" /\ call' = "none"
    /\ suspect' = IF call = "morph" THEN suspect \cup (DOMAIN plan \ left) ELSE Registers
    /\ UNCHANGED <<current, target, plan, left, calls, frame, polls, spiFailed>>

-----------------------------------------------------------------------------
(* The calls.                                                                  *)

\* apply_profile (checked) and apply_profile_fast / apply_preset (not checked),
\* up to the standby frame.
Morph(t, checked) ==
    /\ pc = "idle" /\ calls < MaxCalls
    /\ checked => Valid(current) /\ Valid(t)
    /\ calls' = calls + 1 /\ call' = "morph" /\ target' = t
    /\ plan' = CompilePlan(current, t)
    /\ left' = DOMAIN CompilePlan(current, t)
    /\ StartFrame("standby")
    /\ UNCHANGED <<radio, current, history>>

\* Esp32C3Sx1262Board::bring_up -> hard_reset.
BringUp ==
    /\ pc = "idle" /\ calls < MaxCalls
    /\ calls' = calls + 1 /\ call' = "bring_up" /\ pc' = "reset_low"
    /\ plan' = <<>> /\ left' = {}
    /\ UNCHANGED <<radio, current, target, frame, polls, spiFailed, history>>

\* The reset line goes low: the chip forgets its registers.
ResetLow ==
    /\ pc = "reset_low"
    /\ chip' = Encode(Default)
    /\ pc' = "reset_high"
    /\ UNCHANGED <<nss, logged, current, work, frame, polls, spiFailed, history>>

ResetHigh ==
    /\ pc = "reset_high"
    /\ pc' = "reset_wait" /\ polls' = 0
    /\ UNCHANGED <<radio, current, work, frame, spiFailed, history>>

\* A write of the reset line fails; the line may have moved.
ResetFails ==
    /\ pc \in {"reset_low", "reset_high"}
    /\ chip' \in {chip, Encode(Default)}
    /\ Fail
    /\ UNCHANGED <<nss, logged, selectFault>>

-----------------------------------------------------------------------------
(* wait_while_busy, wherever it is called.                                     *)

Waiting == {"reset_wait", "before", "settle", "commit"}

BugBusy ==
    /\ pc \in Waiting
    /\ polls' = (polls + 1) % PollLimit
    /\ UNCHANGED <<radio, current, work, frame, pc, spiFailed, history>>

\* The busy pin is high: wait again, or time out after PollLimit polls.
Busy ==
    /\ pc \in Waiting /\ polls + 1 < PollLimit
    /\ polls' = polls + 1
    /\ UNCHANGED <<radio, current, work, frame, pc, spiFailed, history>>

\* The time-out, or a failed read of the pin.
WaitFails ==
    /\ pc \in Waiting
    /\ Fail
    /\ UNCHANGED <<radio, selectFault>>

\* The register of a set that comes first in the plan.
FirstOf(regs) == RegisterOrder[CHOOSE i \in 1 .. 8 :
    /\ RegisterOrder[i] \in regs
    /\ \A j \in 1 .. i - 1 : RegisterOrder[j] \notin regs]

\* The chip is ready: on to the select line.
Ready ==
    /\ pc = "before"
    /\ pc' = "select"
    /\ UNCHANGED <<radio, current, work, frame, polls, spiFailed, history>>

\* The chip is ready after the reset: bring_up goes on to the standby frame.
ResetDone ==
    /\ pc = "reset_wait"
    /\ StartFrame("standby")
    /\ UNCHANGED <<radio, current, work, history>>

\* The chip took a frame: write_opcode_burst goes on with the next one.
NextFrame ==
    /\ pc = "settle" /\ call = "morph" /\ left # {}
    /\ StartFrame(FirstOf(left))
    /\ UNCHANGED <<radio, current, work, history>>

EndBurst ==
    /\ pc = "settle" /\ call = "morph" /\ left = {}
    /\ pc' = "log"
    /\ UNCHANGED <<radio, current, work, frame, polls, spiFailed, history>>

\* The standby frame of bring_up was the last one.
BroughtUp ==
    /\ pc = "settle" /\ call = "bring_up"
    /\ pc' = "idle" /\ call' = "none"
    /\ current' = Default /\ suspect' = {}
    /\ UNCHANGED <<radio, target, plan, left, calls, frame, polls, spiFailed, selectFault>>

\* commit found the chip ready: the caller takes the target for its profile.
Commit ==
    /\ pc = "commit"
    /\ pc' = "idle" /\ call' = "none"
    /\ current' = target /\ suspect' = suspect \ DOMAIN plan
    /\ UNCHANGED <<radio, target, plan, left, calls, frame, polls, spiFailed, selectFault>>

-----------------------------------------------------------------------------
(* write_frame between its two waits, and the driver's log.                    *)

Select ==
    /\ pc = "select"
    /\ nss' = "low" /\ pc' = "spi"
    /\ UNCHANGED <<chip, logged, current, work, frame, polls, spiFailed, history>>

\* set_low fails: the line may have moved or not.
SelectFails ==
    /\ pc = "select"
    /\ nss' \in {nss, "low"} /\ selectFault' = TRUE
    /\ Fail
    /\ UNCHANGED <<chip, logged>>

Taken == IF frame = "standby" THEN chip ELSE [chip EXCEPT ![frame] = plan[frame]]

SpiWrite ==
    /\ pc = "spi"
    /\ chip' = Taken
    /\ left' = left \ {frame} /\ pc' = "release"
    /\ UNCHANGED <<nss, logged, current, target, plan, call, calls, frame, polls, spiFailed, history>>

\* The SPI fails: the chip may have taken the frame. The line is released first.
SpiFails ==
    /\ pc = "spi"
    /\ chip' \in {chip, Taken}
    /\ left' = left \ {frame} /\ pc' = "release" /\ spiFailed' = TRUE
    /\ UNCHANGED <<nss, logged, current, target, plan, call, calls, frame, polls, history>>

Release ==
    /\ pc = "release" /\ ~spiFailed
    /\ nss' = "high"
    /\ pc' = "settle" /\ polls' = 0
    /\ UNCHANGED <<chip, logged, current, work, frame, spiFailed, history>>

BugReleaseAfterError ==
    /\ pc = "release" /\ spiFailed
    /\ Fail
    /\ UNCHANGED <<radio, selectFault>>

ReleaseAfterError ==
    /\ pc = "release" /\ spiFailed
    /\ nss' = "high"
    /\ Fail
    /\ UNCHANGED <<chip, logged, selectFault>>

\* set_high fails.
ReleaseFails ==
    /\ pc = "release"
    /\ nss' \in {nss, "high"} /\ selectFault' = TRUE
    /\ Fail
    /\ UNCHANGED <<chip, logged>>

\* Sx1262Driver::write_burst pushes the writes it has sent.
LogWrites ==
    /\ pc = "log" /\ logged + Cardinality(DOMAIN plan) <= LogSize
    /\ logged' = logged + Cardinality(DOMAIN plan)
    /\ pc' = "commit" /\ polls' = 0
    /\ UNCHANGED <<chip, nss, current, work, frame, spiFailed, history>>

\* "sx1262 driver write buffer full": the chip has the target, the caller an error.
LogFull ==
    /\ pc = "log" /\ logged + Cardinality(DOMAIN plan) > LogSize
    /\ logged' = LogSize
    /\ Fail
    /\ UNCHANGED <<chip, nss, selectFault>>

-----------------------------------------------------------------------------
(* The specification.                                                          *)

Step ==
    \/ ResetLow \/ ResetHigh \/ ResetFails \/ ResetDone \/ BroughtUp
    \/ Busy \/ WaitFails \/ Ready \/ NextFrame \/ EndBurst \/ Commit
    \/ Select \/ SelectFails \/ SpiWrite \/ SpiFails
    \/ Release \/ ReleaseAfterError \/ ReleaseFails
    \/ LogWrites \/ LogFull

Next ==
    \/ \E t \in Targets, checked \in BOOLEAN : Morph(t, checked)
    \/ BringUp
    \/ Step

Spec == Init /\ [][Next]_vars

FairSpec == Spec /\ WF_vars(Step)

-----------------------------------------------------------------------------
(* Properties.                                                                 *)

\* Every variable keeps its type; in particular the driver's log never
\* outgrows MAX_REGISTER_WRITES (src/radio.rs) and every plan names registers.
TypeOK ==
    /\ chip \in [Registers -> Int]
    /\ nss \in {"high", "low"}
    /\ logged \in 0 .. LogSize
    /\ current \in PhyProfile /\ target \in PhyProfile
    /\ DOMAIN plan \subseteq Registers /\ left \subseteq DOMAIN plan
    /\ frame \in {"standby"} \cup Registers
    /\ call \in {"none", "morph", "bring_up"}
    /\ pc \in Waiting \cup {"idle", "reset_low", "reset_high", "select", "spi", "release", "log"}
    /\ polls \in 0 .. PollLimit - 1
    /\ spiFailed \in BOOLEAN /\ selectFault \in BOOLEAN
    /\ calls \in 0 .. MaxCalls
    /\ suspect \subseteq Registers

\* Between calls the chip holds the profile its caller believes in, register by
\* register, whatever presets and custom profiles the morphs of src/kernel.rs
\* went through and by either of its two planning paths, except for registers
\* that a failed call had attempted and no later success has rewritten.
CleanRegistersMatch ==
    pc = "idle" => \A r \in Registers \ suspect : chip[r] = Encode(current)[r]

\* Between calls the chip is deselected, also after a failed SPI transfer
\* (write_frame, src/hal/sx1262_bus.rs), unless the select line itself failed.
ChipIsDeselected == (pc = "idle" /\ nss = "low") => selectFault

\* A call returns, also when the busy line never falls (wait_while_busy).
EveryCallReturns == (pc # "idle") ~> (pc = "idle")

=============================================================================
