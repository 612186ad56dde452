------------------------- MODULE MorphicRadioProofs -------------------------
(* Types, and that a register no failed call touched holds the caller's        *)
(* profile, for any contexts, custom profiles and sizes.                       *)
EXTENDS MorphicRadio, FiniteSetTheorems, TLAPS

\* What a plan promises (compile_plan): it writes the target's value, and a
\* register it leaves out has the same value in both profiles.
PlanIsRight(c, t, p) ==
    /\ DOMAIN p \subseteq Registers
    /\ \A r \in Registers :
        IF r \in DOMAIN p THEN p[r] = Encode(t)[r] ELSE Encode(c)[r] = Encode(t)[r]

\* The stages of write_frame up to the SPI, where the frame has not been attempted.
Ahead == {"before", "select", "spi"}

Shape ==
    /\ pc = "idle" <=> call = "none"
    /\ pc \in {"reset_low", "reset_high", "reset_wait"} => call = "bring_up"
    /\ pc \in {"log", "commit"} => call = "morph" /\ left = {}
    /\ pc \in Ahead \cup {"settle", "log", "commit"} => ~spiFailed
    /\ (pc \in Ahead /\ frame # "standby") => frame \in left
    /\ call = "bring_up" => left = {} /\ DOMAIN plan = {}
    /\ (call = "bring_up" /\ pc # "reset_low") => chip = Encode(Default)

\* A morph in progress: registers not attempted are the old profile's, registers
\* attempted without an error are the new one's.
Progress ==
    call = "morph" =>
        /\ PlanIsRight(current, target, plan)
        /\ \A r \in (Registers \ suspect) \ (DOMAIN plan \ left) : chip[r] = Encode(current)[r]
        /\ ~spiFailed => \A r \in DOMAIN plan \ left : chip[r] = Encode(target)[r]

IInv == TypeOK /\ Shape /\ Progress /\ CleanRegistersMatch

-----------------------------------------------------------------------------
(* Profiles, registers, plans.                                                 *)

\* Presets are well-typed profiles.
LEMMA ProfileType == ASSUME NEW q \in Presets PROVE Profile(q) \in PhyProfile
BY DEF Presets, Profile, Lora, PhyProfile, Absent, Modulation

\* The planner yields well-typed profiles.
LEMMA TargetsType == Targets \subseteq PhyProfile
<1>1. SUFFICES ASSUME NEW c \in Contexts PROVE GeneratePhy(c) \in PhyProfile
  BY ProfileType, RadioAssumption DEF Targets
<1>2. c.snr \in Int /\ c.margin \in Int /\ c.battery \in Nat /\ c.latency \in Nat
  BY RadioAssumption DEF Context
<1>3. SelectPreset(c) \in Presets
  BY <1>2 DEF SelectPreset, Presets
<1>4. ASSUME NEW q \in Presets PROVE RecommendTxPower(q, c) \in Int
  BY <1>2 DEF RecommendTxPower, PowerRange, Presets
<1>5. QED
  BY <1>3, <1>4, ProfileType DEF GeneratePhy, PhyProfile

\* The values of a well-typed profile's registers are numbers.
LEMMA EncodeType == ASSUME NEW p \in PhyProfile PROVE Encode(p) \in [Registers -> Int]
<1>1. /\ p.frequency \in Int /\ p.bandwidth \in Int /\ p.sf \in Int /\ p.cr \in Int
      /\ p.preamble \in Int /\ p.sync \in Int /\ p.power \in Int /\ p.crc \in Int
      /\ p.whitening \in Int /\ p.header \in Int
  BY DEF PhyProfile, Absent
<1>2. p.power % Word \in Int
  BY <1>1, RadioAssumption
<1>3. Or(p.sf, 0) \in Int /\ Or(p.cr, 0) \in Int
  BY <1>1 DEF Or
<1>4. QED
  BY <1>1, <1>2, <1>3 DEF Encode, Registers

\* The field-by-field plan is right.
LEMMA SlowPlanIsRight ==
    ASSUME NEW c \in PhyProfile, NEW t \in PhyProfile
    PROVE  PlanIsRight(c, t, SlowPlan(c, t))
<1>1. ASSUME NEW r \in Registers \ Changed(c, t) PROVE Encode(c)[r] = Encode(t)[r]
  BY DEF Changed, Encode, Registers
<1>2. Changed(c, t) \subseteq Registers
  BY DEF Changed
<1>3. QED
  BY <1>1, <1>2 DEF PlanIsRight, SlowPlan

\* The plan between presets is right: its constants are what the encoding gives.
LEMMA PresetPlanIsRight ==
    ASSUME NEW q \in Presets, NEW s \in Presets
    PROVE  PlanIsRight(Profile(q), Profile(s), PresetPlan(q, s))
<1> DEFINE Three == {"MODEM_CONFIG_1", "MODEM_CONFIG_2", "PA_CONFIG"}
<1>1. ASSUME NEW x \in Presets
      PROVE  \A r \in Three : Encode(Profile(x))[r] = PresetRegisters(x)[r]
  <2>1. ASSUME NEW n \in 0 .. 20 PROVE n % Word = n
    BY RadioAssumption
  <2>2. Encode(Profile(x)).PA_CONFIG = PresetRegisters(x).PA_CONFIG
    BY <2>1 DEF Encode, PresetRegisters, Presets, Profile, Lora
  <2>3. /\ Encode(Profile(x)).MODEM_CONFIG_1 = PresetRegisters(x).MODEM_CONFIG_1
        /\ Encode(Profile(x)).MODEM_CONFIG_2 = PresetRegisters(x).MODEM_CONFIG_2
    BY DEF Encode, PresetRegisters, Presets, Profile, Lora, Or, Absent
  <2>4. QED
    BY <2>2, <2>3
<1>2. \A r \in Registers \ Three : Encode(Profile(q))[r] = Encode(Profile(s))[r]
  BY DEF Registers, Encode, Presets, Profile, Lora
<1>3. Three \subseteq Registers
  BY DEF Registers
<1>4. QED
  BY <1>1, <1>2, <1>3 DEF PlanIsRight, PresetPlan

\* The plan is right on both paths of compile_plan.
LEMMA CompilePlanIsRight ==
    ASSUME NEW c \in PhyProfile, NEW t \in PhyProfile
    PROVE  PlanIsRight(c, t, CompilePlan(c, t))
<1>1. ASSUME NEW p, IsPreset(p) PROVE PresetOf(p) \in Presets /\ p = Profile(PresetOf(p))
  BY <1>1 DEF IsPreset, PresetOf
<1>2. CASE IsPreset(c) /\ IsPreset(t)
  BY <1>1, <1>2, PresetPlanIsRight DEF CompilePlan
<1>3. CASE ~(IsPreset(c) /\ IsPreset(t))
  BY <1>3, SlowPlanIsRight DEF CompilePlan
<1>4. QED
  BY <1>2, <1>3

-----------------------------------------------------------------------------
(* The invariant.                                                              *)

\* A wait starts within its limit.
LEMMA NoPolls == 0 \in 0 .. PollLimit - 1
BY RadioAssumption

\* Initially the radio is in the caller's profile and nothing is in progress.
LEMMA InitInvariant == Init => IInv
<1>1. Default \in PhyProfile
  BY ProfileType DEF Default, Presets
<1>2. SUFFICES ASSUME Init PROVE IInv
  OBVIOUS
<1>3. chip \in [Registers -> Int]
  BY <1>1, <1>2, EncodeType DEF Init
<1>0. DOMAIN plan = {}
  BY <1>2 DEF Init
<1>b. spiFailed \in BOOLEAN /\ selectFault \in BOOLEAN
  BY <1>2 DEF Init
<1>4. TypeOK
  BY <1>0, <1>1, <1>2, <1>3, <1>b, NoPolls, RadioAssumption DEF Init, TypeOK, Waiting
<1>5. Shape /\ Progress /\ CleanRegistersMatch
  BY <1>2 DEF Init, Shape, Progress, CleanRegistersMatch, Ahead
<1>6. QED
  BY <1>4, <1>5 DEF IInv

\* A call that fails keeps the invariant, whatever the failing step did to the
\* select line and the log, as long as the chip is as before.
LEMMA FailKeeps ==
    ASSUME IInv, Fail, pc # "idle", chip' = chip, call = "morph",
           nss' \in {"high", "low"}, logged' \in 0 .. LogSize, selectFault' \in BOOLEAN
    PROVE  IInv'
<1>1. TypeOK'
  BY DEF IInv, TypeOK, Fail
<1>2. Shape'
  BY DEF IInv, Shape, Fail, Ahead
<1>3. Progress' /\ CleanRegistersMatch'
  BY DEF IInv, TypeOK, Progress, CleanRegistersMatch, Fail
<1>4. QED
  BY <1>1, <1>2, <1>3 DEF IInv

\* A bring-up that fails leaves every register suspect.
LEMMA FailedBringUpKeeps ==
    ASSUME IInv, Fail, call = "bring_up", chip' \in [Registers -> Int],
           nss' \in {"high", "low"}, logged' \in 0 .. LogSize, selectFault' \in BOOLEAN
    PROVE  IInv'
<1>1. TypeOK'
  BY DEF IInv, TypeOK, Fail
<1>2. Shape'
  BY DEF IInv, Shape, Fail, Ahead
<1>3. Progress' /\ CleanRegistersMatch'
  BY DEF IInv, TypeOK, Progress, CleanRegistersMatch, Fail
<1>4. QED
  BY <1>1, <1>2, <1>3 DEF IInv

\* The frame after a register frame is one of those left.
LEMMA FirstOfIsLeft ==
    ASSUME NEW regs, regs \subseteq Registers, regs # {}
    PROVE  FirstOf(regs) \in regs
<1> DEFINE Has(i) == RegisterOrder[i] \in regs
           Least(i) == Has(i) /\ \A j \in 1 .. i - 1 : ~Has(j)
<1>1. \E i \in 1 .. 8 : Has(i)
  <2>1. PICK r \in Registers : r \in regs
    OBVIOUS
  <2>2. \E i \in 1 .. 8 : RegisterOrder[i] = r
    <3>1. /\ RegisterOrder[1] = "OP_MODE" /\ RegisterOrder[2] = "FRF"
          /\ RegisterOrder[3] = "MODEM_CONFIG_1" /\ RegisterOrder[4] = "MODEM_CONFIG_2"
          /\ RegisterOrder[5] = "PACKET_CONFIG" /\ RegisterOrder[6] = "PREAMBLE"
          /\ RegisterOrder[7] = "SYNC_WORD" /\ RegisterOrder[8] = "PA_CONFIG"
      BY DEF RegisterOrder
    <3>2. QED
      BY <3>1 DEF Registers
  <2>3. QED
    BY <2>1, <2>2
<1>2. \E i \in 1 .. 8 : Least(i)
  <2>1. \A i \in {1, 2, 3, 4, 5, 6, 7, 8} : 1 .. i - 1 = {j \in {1, 2, 3, 4, 5, 6, 7, 8} : j < i}
    OBVIOUS
  <2>2. 1 .. 8 = {1, 2, 3, 4, 5, 6, 7, 8}
    OBVIOUS
  <2> HIDE DEF Has
  <2>3. QED
    BY <1>1, <2>1, <2>2
<1>3. QED
  BY <1>2 DEF FirstOf

\* A call that starts with a right plan and untouched registers.
LEMMA MorphKeeps ==
    ASSUME IInv, NEW t \in Targets, NEW checked \in BOOLEAN, Morph(t, checked)
    PROVE  IInv'
<1>1. t \in PhyProfile /\ current \in PhyProfile
  BY TargetsType DEF IInv, TypeOK
<1>2. PlanIsRight(current, t, plan')
  BY <1>1, CompilePlanIsRight DEF Morph
<1>b. spiFailed' \in BOOLEAN /\ frame' \in {"standby"} \cup Registers
  BY DEF Morph, StartFrame
<1>3. TypeOK'
  BY <1>1, <1>2, <1>b, NoPolls, RadioAssumption
  DEF IInv, TypeOK, Morph, StartFrame, radio, history, PlanIsRight, Waiting
<1>4. Shape'
  BY DEF IInv, Shape, Morph, StartFrame, Ahead
<1>5. Progress' /\ CleanRegistersMatch'
  BY <1>2 DEF IInv, TypeOK, Progress, CleanRegistersMatch, Morph, StartFrame, radio, history
<1>6. QED
  BY <1>3, <1>4, <1>5 DEF IInv

\* Bringing the board up, to the end of the reset.
LEMMA ResetKeeps ==
    ASSUME IInv, BringUp \/ ResetLow \/ ResetHigh \/ ResetFails \/ ResetDone
    PROVE  IInv'
<1>0. Default \in PhyProfile /\ Encode(Default) \in [Registers -> Int]
  BY ProfileType, EncodeType DEF Default, Presets
<1>d. DOMAIN <<>> = {}
  OBVIOUS
<1>1. CASE BringUp
  <2>1. TypeOK'
    BY <1>1, <1>d, RadioAssumption DEF IInv, TypeOK, BringUp, radio, history
  <2>2. Shape'
    BY <1>1, <1>d DEF IInv, Shape, BringUp, Ahead
  <2>3. Progress' /\ CleanRegistersMatch'
    BY <1>1 DEF IInv, Progress, CleanRegistersMatch, BringUp
  <2>4. QED
    BY <2>1, <2>2, <2>3 DEF IInv
<1>2. CASE ResetLow
  <2>1. TypeOK'
    BY <1>0, <1>2 DEF IInv, TypeOK, ResetLow, work, history
  <2>2. Shape'
    BY <1>2 DEF IInv, Shape, ResetLow, Ahead, work
  <2>3. Progress' /\ CleanRegistersMatch'
    BY <1>2 DEF IInv, Shape, Progress, CleanRegistersMatch, ResetLow, work
  <2>4. QED
    BY <2>1, <2>2, <2>3 DEF IInv
<1>3. CASE ResetHigh
  <2>1. TypeOK'
    BY <1>3, RadioAssumption DEF IInv, TypeOK, ResetHigh, radio, work, history, Waiting
  <2>2. Shape'
    BY <1>3 DEF IInv, Shape, ResetHigh, Ahead, radio, work
  <2>3. Progress' /\ CleanRegistersMatch'
    BY <1>3 DEF IInv, Shape, Progress, CleanRegistersMatch, ResetHigh, work
  <2>4. QED
    BY <2>1, <2>2, <2>3 DEF IInv
<1>4. CASE ResetFails
  <2>1. /\ Fail /\ call = "bring_up" /\ chip' \in [Registers -> Int]
        /\ nss' = nss /\ logged' = logged /\ selectFault' = selectFault
    BY <1>0, <1>4 DEF IInv, TypeOK, Shape, ResetFails
  <2>2. QED
    BY <2>1, FailedBringUpKeeps DEF IInv, TypeOK
<1>5. CASE ResetDone
  <2>b. spiFailed' \in BOOLEAN /\ frame' \in {"standby"} \cup Registers
    BY <1>5 DEF ResetDone, StartFrame
  <2>1. TypeOK'
    BY <1>5, <2>b, NoPolls DEF IInv, TypeOK, ResetDone, StartFrame, radio, work, history, Waiting
  <2>2. Shape'
    BY <1>5 DEF IInv, Shape, ResetDone, StartFrame, Ahead, radio, work
  <2>3. Progress' /\ CleanRegistersMatch'
    BY <1>5 DEF IInv, Shape, Progress, CleanRegistersMatch, ResetDone, StartFrame, work
  <2>4. QED
    BY <2>1, <2>2, <2>3 DEF IInv
<1>6. QED
  BY <1>1, <1>2, <1>3, <1>4, <1>5

\* A step that fails without touching the chip.
LEMMA FailingStepKeeps ==
    ASSUME IInv, WaitFails \/ SelectFails \/ ReleaseAfterError \/ ReleaseFails \/ LogFull
    PROVE  IInv'
<1>1. /\ Fail /\ chip' = chip /\ pc # "idle"
      /\ nss' \in {"high", "low"} /\ selectFault' \in BOOLEAN
  BY DEF IInv, TypeOK, WaitFails, SelectFails, ReleaseAfterError, ReleaseFails, LogFull, radio, Waiting
<1>2. logged' \in 0 .. LogSize
  BY RadioAssumption
  DEF IInv, TypeOK, WaitFails, SelectFails, ReleaseAfterError, ReleaseFails, LogFull, radio
<1>3. call \in {"morph", "bring_up"} /\ chip' \in [Registers -> Int]
  BY <1>1 DEF IInv, TypeOK, Shape
<1>4. QED
  BY <1>1, <1>2, <1>3, FailKeeps, FailedBringUpKeeps

\* The steps of a frame and of the waits around it that leave the chip alone.
LEMMA QuietStepKeeps ==
    ASSUME IInv, Busy \/ Ready \/ NextFrame \/ EndBurst \/ Select \/ Release \/ LogWrites
    PROVE  IInv'
<1>1. UNCHANGED <<chip, current, target, plan, left, call, calls, suspect, selectFault>>
  BY DEF Busy, Ready, NextFrame, EndBurst, Select, Release, LogWrites, radio, work, history, StartFrame
<1>2. pc # "idle" /\ pc' # "idle"
  BY DEF Busy, Ready, NextFrame, EndBurst, Select, Release, LogWrites, StartFrame, Waiting
<1>3. spiFailed' = spiFailed \/ (spiFailed' = FALSE /\ ~spiFailed)
  BY DEF Busy, Ready, NextFrame, EndBurst, Select, Release, LogWrites, StartFrame, IInv, Shape
<1>4. FirstOf(left) \in left \/ left = {}
  BY FirstOfIsLeft DEF IInv, TypeOK
<1>5. frame' \in {"standby"} \cup Registers /\ polls' \in 0 .. PollLimit - 1
  BY <1>4, RadioAssumption
  DEF Busy, Ready, NextFrame, EndBurst, Select, Release, LogWrites, StartFrame, IInv, TypeOK
<1>6. nss' \in {"high", "low"} /\ spiFailed' \in BOOLEAN
  BY DEF Busy, Ready, NextFrame, EndBurst, Select, Release, LogWrites, StartFrame, IInv, TypeOK, radio
<1>7. logged' \in 0 .. LogSize
  <2>1. CASE LogWrites
    <3>1. IsFiniteSet(DOMAIN plan)
      <4>1. IsFiniteSet(Registers)
        <5>1. Registers = {} \cup {"OP_MODE"} \cup {"FRF"} \cup {"MODEM_CONFIG_1"}
                          \cup {"MODEM_CONFIG_2"} \cup {"PACKET_CONFIG"} \cup {"PREAMBLE"}
                          \cup {"SYNC_WORD"} \cup {"PA_CONFIG"}
          BY DEF Registers
        <5>2. QED
          BY <5>1, FS_EmptySet, FS_AddElement
      <4>2. QED
        BY <4>1, FS_Subset DEF IInv, TypeOK
    <3>2. Cardinality(DOMAIN plan) \in Nat
      BY <3>1, FS_CardinalityType
    <3>3. QED
      BY <2>1, <3>2, RadioAssumption DEF LogWrites, IInv, TypeOK
  <2>2. CASE ~LogWrites
    BY <2>2 DEF Busy, Ready, NextFrame, EndBurst, Select, Release, IInv, TypeOK, radio
  <2>3. QED
    BY <2>1, <2>2
<1>8. pc' \in Waiting \cup {"idle", "reset_low", "reset_high", "select", "spi", "release", "log"}
  BY DEF Busy, Ready, NextFrame, EndBurst, Select, Release, LogWrites, StartFrame, IInv, TypeOK, Waiting
<1>9. TypeOK'
  BY <1>1, <1>5, <1>6, <1>7, <1>8 DEF IInv, TypeOK
<1>10. Shape'
  <2>1. CASE Busy
    BY <2>1 DEF IInv, Shape, Busy, Ahead, radio, work
  <2>2. CASE Ready
    BY <2>2 DEF IInv, Shape, Ready, Ahead, radio, work
  <2>3. CASE NextFrame
    BY <2>3, <1>4 DEF IInv, Shape, NextFrame, StartFrame, Ahead, radio, work
  <2>4. CASE EndBurst
    BY <2>4 DEF IInv, Shape, EndBurst, Ahead, radio, work
  <2>5. CASE Select
    BY <2>5 DEF IInv, Shape, Select, Ahead, work
  <2>6. CASE Release
    BY <2>6 DEF IInv, Shape, Release, Ahead, work
  <2>7. CASE LogWrites
    BY <2>7 DEF IInv, Shape, LogWrites, Ahead, work
  <2>8. QED
    BY <2>1, <2>2, <2>3, <2>4, <2>5, <2>6, <2>7
<1>11. Progress' /\ CleanRegistersMatch'
  BY <1>1, <1>2, <1>3 DEF IInv, Progress, CleanRegistersMatch
<1>12. QED
  BY <1>9, <1>10, <1>11 DEF IInv

\* A frame on the SPI, taken or not.
LEMMA SpiKeeps == ASSUME IInv, SpiWrite \/ SpiFails PROVE IInv'
<1>1. CASE frame = "standby"
  <2>1. chip' = chip /\ left' = left
    BY <1>1 DEF SpiWrite, SpiFails, Taken, IInv, TypeOK, Registers
  <2>2. TypeOK'
    BY <2>1 DEF IInv, TypeOK, SpiWrite, SpiFails, history
  <2>3. Shape'
    BY <2>1 DEF IInv, Shape, SpiWrite, SpiFails, Ahead
  <2>4. Progress' /\ CleanRegistersMatch'
    BY <2>1 DEF IInv, Shape, Progress, CleanRegistersMatch, SpiWrite, SpiFails, Ahead, history
  <2>5. QED
    BY <2>2, <2>3, <2>4 DEF IInv
<1>2. CASE frame # "standby"
  <2>1. /\ frame \in left /\ call = "morph" /\ ~spiFailed
        /\ frame \in DOMAIN plan /\ frame \in Registers
    BY <1>2 DEF IInv, TypeOK, Shape, SpiWrite, SpiFails, Ahead
  <2>2. plan[frame] = Encode(target)[frame] /\ plan[frame] \in Int
    BY <2>1, EncodeType DEF IInv, TypeOK, Progress, PlanIsRight
  <2>3. Taken \in [Registers -> Int] /\ \A r \in Registers :
            Taken[r] = IF r = frame THEN Encode(target)[r] ELSE chip[r]
    BY <1>2, <2>1, <2>2 DEF Taken, IInv, TypeOK
  <2>4. left' = left \ {frame} /\ UNCHANGED <<current, target, plan, call, calls, frame, polls, suspect, selectFault, nss, logged>>
    BY DEF SpiWrite, SpiFails, history
  <2>5. chip' \in {chip, Taken} /\ pc' = "release" /\ spiFailed' \in BOOLEAN
    BY DEF SpiWrite, SpiFails, IInv, TypeOK
  <2>6. ~spiFailed' => chip' = Taken
    BY <2>1 DEF SpiWrite, SpiFails
  <2>7. TypeOK'
    BY <2>3, <2>4, <2>5 DEF IInv, TypeOK
  <2>8. Shape'
    BY <2>1, <2>4, <2>5 DEF IInv, Shape, SpiWrite, SpiFails, Ahead
  <2>9. Progress'
    <3>1. \A r \in (Registers \ suspect) \ (DOMAIN plan \ left') : chip'[r] = Encode(current)[r]
      BY <2>1, <2>3, <2>4, <2>5 DEF IInv, Progress
    <3>2. ~spiFailed' => \A r \in DOMAIN plan \ left' : chip'[r] = Encode(target)[r]
      BY <2>1, <2>3, <2>4, <2>6 DEF IInv, TypeOK, Progress
    <3>3. QED
      BY <2>4, <3>1, <3>2 DEF IInv, Progress
  <2>10. CleanRegistersMatch'
    BY <2>5 DEF CleanRegistersMatch
  <2>11. QED
    BY <2>7, <2>8, <2>9, <2>10 DEF IInv
<1>3. QED
  BY <1>1, <1>2

\* A call that returns Ok leaves clean what it wrote.
LEMMA OkKeeps == ASSUME IInv, Commit \/ BroughtUp PROVE IInv'
<1>1. CASE Commit
  <2>1. call = "morph" /\ left = {} /\ ~spiFailed
    BY <1>1 DEF IInv, Shape, Commit
  <2>2. TypeOK'
    BY <1>1 DEF IInv, TypeOK, Commit, radio
  <2>3. Shape'
    BY <1>1 DEF IInv, Shape, Commit, Ahead
  <2>4. \A r \in Registers \ (suspect \ DOMAIN plan) : chip[r] = Encode(target)[r]
    BY <2>1 DEF IInv, Progress, PlanIsRight
  <2>5. Progress' /\ CleanRegistersMatch'
    BY <1>1, <2>4 DEF Progress, CleanRegistersMatch, Commit, radio
  <2>6. QED
    BY <2>2, <2>3, <2>5 DEF IInv
<1>2. CASE BroughtUp
  <2>1. Default \in PhyProfile /\ chip = Encode(Default)
    BY <1>2, ProfileType DEF IInv, Shape, BroughtUp, Default, Presets
  <2>2. TypeOK'
    BY <1>2, <2>1 DEF IInv, TypeOK, BroughtUp, radio
  <2>3. Shape'
    BY <1>2 DEF IInv, Shape, BroughtUp, Ahead
  <2>4. Progress' /\ CleanRegistersMatch'
    BY <1>2, <2>1 DEF Progress, CleanRegistersMatch, BroughtUp, radio
  <2>5. QED
    BY <2>2, <2>3, <2>4 DEF IInv
<1>3. QED
  BY <1>1, <1>2

\* Every step keeps the invariant.
LEMMA NextKeeps == ASSUME IInv, [Next]_vars PROVE IInv'
<1>1. CASE UNCHANGED vars
  BY <1>1 DEF vars, radio, work, history, IInv, TypeOK, Shape, Progress, CleanRegistersMatch, Ahead
<1>2. CASE \E t \in Targets, checked \in BOOLEAN : Morph(t, checked)
  BY <1>2, MorphKeeps
<1>3. CASE BringUp
  BY <1>3, ResetKeeps
<1>4. CASE Step
  BY <1>4, ResetKeeps, FailingStepKeeps, QuietStepKeeps, SpiKeeps, OkKeeps DEF Step
<1>5. QED
  BY <1>1, <1>2, <1>3, <1>4 DEF Next

\* Every state satisfies the invariant.
THEOREM InvariantHolds == Spec => []IInv
<1>1. QED
  BY InitInvariant, NextKeeps, PTL DEF Spec

\* Types: the driver's log never outgrows its size, every plan names registers,
\* for any contexts, custom profiles, log size and poll limit.
THEOREM TypeCorrect == Spec => []TypeOK
<1>1. IInv => TypeOK
  BY DEF IInv
<1>2. QED
  BY <1>1, InvariantHolds, PTL

\* Between calls the chip holds the caller's profile but for the registers that
\* failed calls attempted: both planning paths of the kernel, any order of morphs,
\* any failure of a pin or the SPI.
THEOREM CleanRegistersMatchHolds == Spec => []CleanRegistersMatch
<1>1. IInv => CleanRegistersMatch
  BY DEF IInv
<1>2. QED
  BY <1>1, InvariantHolds, PTL

-----------------------------------------------------------------------------
(* The select line.                                                            *)

\* The line is low only while a frame is on the SPI, or since a fault of its own.
Selected == nss = "low" => selectFault \/ pc \in {"spi", "release"}

\* Every step leaves the line high, or in the hands of the frame or of a fault.
LEMMA SelectedKeeps == Selected /\ [Next]_vars => Selected'
<1> SUFFICES ASSUME Selected, [Next]_vars PROVE Selected'
  OBVIOUS
<1> USE DEF Selected, radio, history, work, Fail, StartFrame, Waiting
<1>1. CASE UNCHANGED vars
  BY <1>1 DEF vars
<1>2. CASE (\E t \in Targets, checked \in BOOLEAN : Morph(t, checked)) \/ BringUp
  BY <1>2 DEF Morph, BringUp
<1>3. CASE Select \/ SelectFails
  BY <1>3 DEF Select, SelectFails
<1>4. CASE SpiWrite \/ SpiFails
  BY <1>4 DEF SpiWrite, SpiFails
<1>5. CASE Release \/ ReleaseAfterError \/ ReleaseFails
  BY <1>5 DEF Release, ReleaseAfterError, ReleaseFails
<1>6. CASE ResetLow \/ ResetHigh \/ ResetFails \/ ResetDone \/ BroughtUp
  BY <1>6 DEF ResetLow, ResetHigh, ResetFails, ResetDone, BroughtUp
<1>7. CASE Busy \/ WaitFails \/ Ready \/ NextFrame \/ EndBurst \/ Commit
  BY <1>7 DEF Busy, WaitFails, Ready, NextFrame, EndBurst, Commit
<1>8. CASE LogWrites \/ LogFull
  BY <1>8 DEF LogWrites, LogFull
<1>9. QED
  BY <1>1, <1>2, <1>3, <1>4, <1>5, <1>6, <1>7, <1>8 DEF Next, Step

\* Between calls the chip is deselected, also after a failed SPI transfer and for
\* any order of failures, unless the select line itself failed.
THEOREM ChipIsDeselectedHolds == Spec => []ChipIsDeselected
<1>1. Init => Selected
  BY DEF Init, Selected
<1>2. Selected => ChipIsDeselected
  BY DEF Selected, ChipIsDeselected
<1>3. QED
  BY <1>1, <1>2, SelectedKeeps, PTL DEF Spec

-----------------------------------------------------------------------------
(* The planner.                                                                *)

\* The power of a planned profile is the recommendation for its preset.
LEMMA PlannedPower ==
    ASSUME NEW c \in Context
    PROVE  GeneratePhy(c).power = RecommendTxPower(SelectPreset(c), c)
<1>1. SelectPreset(c) \in Presets
  BY DEF SelectPreset, Presets, Context
<1>2. Profile(SelectPreset(c)) \in PhyProfile
  BY <1>1, ProfileType
<1>3. QED
  BY <1>2 DEF GeneratePhy, PhyProfile

\* The worse of two links, all else equal, gets no less power, across the presets
\* select_preset changes between (src/kernel.rs) and the rungs of
\* recommend_tx_power_dbm (src/power.rs): for all links.
THEOREM WorseLinkNoLessPower ==
    \A good, bad \in Context :
        (/\ bad.snr <= good.snr /\ bad.margin <= good.margin
         /\ bad.battery = good.battery /\ bad.latency = good.latency)
        => GeneratePhy(bad).power >= GeneratePhy(good).power
<1>1. SUFFICES ASSUME NEW good \in Context, NEW bad \in Context,
                      bad.snr <= good.snr, bad.margin <= good.margin,
                      bad.battery = good.battery, bad.latency = good.latency
               PROVE  RecommendTxPower(SelectPreset(bad), bad)
                        >= RecommendTxPower(SelectPreset(good), good)
  BY PlannedPower
<1>2. /\ good.snr \in Int /\ good.margin \in Int /\ good.battery \in Nat /\ good.latency \in Nat
      /\ bad.snr \in Int /\ bad.margin \in Int
  BY DEF Context
<1>3. CASE good.battery < 3200
  BY <1>1, <1>2, <1>3 DEF RecommendTxPower, SelectPreset, PowerRange
<1>4. CASE ~(good.battery < 3200)
  BY <1>1, <1>2, <1>4 DEF RecommendTxPower, SelectPreset, PowerRange
<1>5. QED
  BY <1>3, <1>4

=============================================================================
