------------------------------- MODULE Sx1276 -------------------------------
(***************************************************************************)
(* The driver of the laboratory radio (src/drivers/sx1276.rs): a listener  *)
(* polled for raw packets, a ring of the samples it took, and a carrier    *)
(* for heat tests.  A call is a sequence of register accesses; each may    *)
(* fail, before or after it reached the chip, and ends the call there.     *)
(* Packets arrive between any two accesses.                                *)
(*                                                                         *)
(* A packet is its number, a byte of it <<number, index>>; the frequency   *)
(* is two registers instead of three.  An operator named Bug... is a       *)
(* mutated form of the definition after it.                                *)
(***************************************************************************)
EXTENDS Integers, Sequences

CONSTANTS
    Lengths,      \* Lengths[p]: the bytes of packet p
    FifoSize,     \* 256
    Ring,         \* RING
    Carriers,     \* configs: [freq, dbm, accepted]; accepted: acknowledged, in range
    Frequencies,  \* tuned to by set_frequency_hz
    MaxSpiFaults, MaxRadioCalls

ASSUME FifoAssumption == FifoSize \in Nat \ {0} /\ Lengths \in Seq(0 .. FifoSize)

\* A driver without a ring drops every sample; those that are built have one.
ASSUME RingSizeAssumption == Ring \in Nat \ {0}
ASSUME CarriersAssumption == \A c \in Carriers : c.dbm \in Int

Packets == 1 .. Len(Lengths)

VARIABLES
    chip,     \* the registers, the FIFO and where the next packet goes
    todo,     \* accesses the call in progress has left
    sample,   \* what its reads returned so far
    ring,     \* raw_ring
    radio,    \* packets sent so far, SPI faults and calls so far
    \* history
    began,    \* carrier configs that passed the checks
    retuned,  \* set_frequency_hz was called since the chip went on air
    torn,     \* a packet came in since the poll in progress began
    pushed    \* samples pushed: [bytes, of, torn]

sxVars == <<chip, todo, sample, ring, radio, began, retuned, torn, pushed>>

NoSample == [done |-> FALSE, count |-> 0, addr |-> 0, bytes |-> <<>>, of |-> 0]

SxInit ==
    /\ chip = [mode |-> "standby", high |-> 0, low |-> 0, pa |-> 15, dac |-> FALSE,
               done |-> FALSE, count |-> 0, addr |-> 0, ptr |-> 0, of |-> 0, next |-> 0,
               fifo |-> [a \in 0 .. FifoSize - 1 |-> <<0, 0>>]]
    /\ todo = <<>>
    /\ sample = NoSample
    /\ ring = [samples |-> <<>>, next |-> 0, dropped |-> 0]
    /\ radio = [packets |-> 0, faults |-> 0, calls |-> 0]
    /\ began = {} /\ retuned = FALSE /\ torn = FALSE /\ pushed = <<>>

-----------------------------------------------------------------------------

Write(register, value) == [kind |-> "write", register |-> register, value |-> value]
Read(register) == [kind |-> "read", register |-> register, value |-> 0]

\* pa_config_for_dbm: the amplifier's scale starts at 2 dBm and ends at 17.
Pa(dbm) == IF dbm < 2 THEN 0 ELSE IF dbm > 17 THEN 15 ELSE dbm - 2

BoostDac(dbm) == dbm > 17

Tune(f) == <<Write("high", f), Write("low", f)>>

\* configure_raw_packet_listener, less the modem settings.
Listen(f) ==
    <<Write("mode", "sleep")>> \o Tune(f)
        \o <<Write("ptr", 0), Write("done", FALSE), Write("mode", "receive")>>

\* start_pa_thermal_cw
Carrier(c) ==
    <<Write("mode", "sleep")>> \o Tune(c.freq)
        \o <<Write("pa", Pa(c.dbm)), Write("dac", BoostDac(c.dbm)),
             Write("mode", "standby"), Write("mode", "transmit")>>

\* poll_raw_packet after the flags: what the packet is, its bytes, its
\* strength, and the flags written back, which clears them.
BugPoll(addr, count) ==
    [i \in 1 .. count |-> Read("fifo")] \o <<Read("of"), Write("done", FALSE)>>

Poll(addr, count) ==
    <<Write("ptr", addr)>> \o [i \in 1 .. count |-> Read("fifo")]
        \o <<Read("of"), Write("done", FALSE)>>

Call(accesses) ==
    /\ todo = <<>>
    /\ radio.calls < MaxRadioCalls
    /\ radio' = [radio EXCEPT !.calls = @ + 1]
    /\ todo' = accesses
    /\ sample' = NoSample
    /\ torn' = FALSE
    /\ UNCHANGED <<chip, ring, pushed>>

StartListener == \E f \in Frequencies : Call(Listen(f)) /\ UNCHANGED <<began, retuned>>

StartCarrier ==
    \E c \in Carriers :
        /\ c.accepted
        /\ Call(Carrier(c))
        /\ began' = began \cup {c}
        /\ UNCHANGED retuned

StopCarrier == Call(<<Write("mode", "standby")>>) /\ UNCHANGED <<began, retuned>>

Retune == \E f \in Frequencies : Call(Tune(f)) /\ retuned' = TRUE /\ UNCHANGED began

StartPoll == Call(<<Read("done")>>) /\ UNCHANGED <<began, retuned>>

-----------------------------------------------------------------------------

\* Sx1276RawPacketRing::push
PushSample(s) ==
    IF Len(ring.samples) < Ring
    THEN [ring EXCEPT !.samples = Append(@, s)]
    ELSE [samples |-> [ring.samples EXCEPT ![ring.next + 1] = s],
          next |-> (ring.next + 1) % Ring, dropped |-> ring.dropped + 1]

\* What an access does to the chip: reception starts at FIFO_RX_BASE_ADDR.
Effect(access) ==
    IF access.kind = "write" /\ access.register = "mode"
    THEN [chip EXCEPT !.mode = access.value,
                      !.next = IF access.value = "receive" THEN 0 ELSE @]
    ELSE IF access.kind = "write" THEN [chip EXCEPT ![access.register] = access.value]
    ELSE IF access.register = "fifo" THEN [chip EXCEPT !.ptr = (@ + 1) % FifoSize]
    ELSE chip

\* What the driver keeps of a read.
Keep(access) ==
    IF access.kind = "write" THEN sample
    ELSE IF access.register = "fifo"
    THEN [sample EXCEPT !.bytes = Append(@, chip.fifo[chip.ptr])]
    ELSE [sample EXCEPT ![access.register] = chip[access.register]]

\* The accesses that follow: a poll learns from its reads what to do next.
Rest(access) ==
    IF access.kind = "read" /\ access.register = "done"
    THEN IF chip.done THEN <<Read("count"), Read("addr")>> ELSE <<>>
    ELSE IF access.kind = "read" /\ access.register = "addr" THEN Poll(chip.addr, sample.count)
    ELSE Tail(todo)

\* A poll whose last access is done pushes its sample.
Finish(kept) ==
    IF kept.of # 0 /\ todo' = <<>>
    THEN LET s == [bytes |-> kept.bytes, of |-> kept.of, torn |-> torn]
         IN  ring' = PushSample(s) /\ pushed' = Append(pushed, s)
    ELSE UNCHANGED <<ring, pushed>>

OnAir(access) == access.register = "mode" /\ access.value = "transmit"

Access ==
    /\ todo # <<>>
    /\ chip' = Effect(todo[1])
    /\ sample' = Keep(todo[1])
    /\ todo' = Rest(todo[1])
    /\ Finish(sample')
    /\ retuned' = (retuned /\ ~OnAir(todo[1]))
    /\ UNCHANGED <<radio, began, torn>>

\* The bus fails, and with it the call; the access may have been done or not.
SpiFault ==
    /\ todo # <<>>
    /\ radio.faults < MaxSpiFaults
    /\ radio' = [radio EXCEPT !.faults = @ + 1]
    /\ chip' \in {chip, Effect(todo[1])}
    /\ todo' = <<>>
    /\ UNCHANGED <<sample, ring, began, retuned, torn, pushed>>

\* The next packet: its bytes go where the one before ended.
Receive ==
    /\ chip.mode = "receive"
    /\ radio.packets < Len(Lengths)
    /\ LET p == radio.packets + 1
           Cell(i) == (chip.next + i) % FifoSize
       IN  /\ radio' = [radio EXCEPT !.packets = p]
           /\ chip' = [chip EXCEPT
                  !.done = TRUE, !.of = p, !.addr = chip.next, !.count = Lengths[p],
                  !.next = Cell(Lengths[p]),
                  !.fifo = [a \in 0 .. FifoSize - 1 |->
                               IF \E i \in 0 .. Lengths[p] - 1 : a = Cell(i)
                               THEN <<p, CHOOSE i \in 0 .. Lengths[p] - 1 : a = Cell(i)>>
                               ELSE @[a]]]
    /\ torn' = TRUE
    /\ UNCHANGED <<todo, sample, ring, began, retuned, pushed>>

SxNext ==
    \/ StartListener \/ StartCarrier \/ StopCarrier \/ Retune \/ StartPoll
    \/ Access \/ SpiFault \/ Receive

SxSpec == SxInit /\ [][SxNext]_sxVars

-----------------------------------------------------------------------------

(* The carrier on air is one that was asked for: its power is that of a    *)
(* config that passed the checks, never one call's amplifier level with    *)
(* another's boost, and so is its frequency unless it was tuned since.     *)
TransmitsAsAsked ==
    chip.mode = "transmit" =>
        \E c \in began :
            /\ chip.pa = Pa(c.dbm) /\ chip.dac = BoostDac(c.dbm)
            /\ retuned \/ (chip.high = c.freq /\ chip.low = c.freq)

(* A sample is one whole packet unless another came in while it was being  *)
(* read, also after a poll that failed half way; and no packet is taken    *)
(* twice.                                                                  *)
SamplesAreWhole ==
    /\ \A i \in DOMAIN pushed :
           pushed[i].torn
           \/ pushed[i].bytes = [k \in 1 .. Lengths[pushed[i].of] |-> <<pushed[i].of, k - 1>>]
    /\ \A i, j \in DOMAIN pushed : i < j => pushed[i].of < pushed[j].of

(* The ring holds the newest samples, the oldest where the next one goes,  *)
(* and counts the others.                                                  *)
RingKeepsNewest ==
    LET kept == Len(ring.samples)
        lost == Len(pushed) - kept
    IN  /\ ring.dropped = lost
        /\ lost = 0 \/ kept = Ring
        /\ \A i \in 1 .. kept : ring.samples[((ring.next + i - 1) % Ring) + 1] = pushed[lost + i]

(* The laboratory radio delivers what it heard and sends what was asked.   *)
LabRadioIsExact == TransmitsAsAsked /\ SamplesAreWhole /\ RingKeepsNewest
=============================================================================
