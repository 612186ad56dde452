--------------------------- MODULE TelemetryFrame ---------------------------
(***************************************************************************)
(* The telemetry frame (src/telemetry.rs) as the peripheral laboratory of  *)
(* src/sim.rs uses it: two of its fields are overwritten in place, with    *)
(* the checksum made anew or left as it was.                               *)
(*                                                                         *)
(* A byte is the set of its bits that are set: exclusive-or is symmetric   *)
(* difference.  Offsets count from 0 as in the code; the fields nobody     *)
(* overwrites are the bytes a frame begins with.                           *)
(***************************************************************************)
EXTENDS Integers, Sequences

CONSTANTS
    Bits,        \* bits of a byte: 8
    Blank,       \* the bytes of a new frame, but for the two fields
    SourceAt, SequenceAt, ChecksumAt, \* offsets
    Sources, SequenceNumbers,         \* values written: sequences of bytes
    Seed,        \* 0x5D
    MaxOverwrites

Byte == SUBSET (0 .. Bits - 1)

ASSUME FrameAssumption == Bits \in Nat \ {0} /\ Blank \in Seq(Byte) /\ Seed \in Byte

\* Fields of a fixed width, apart from each other and from the checksum.
ASSUME LayoutAssumption ==
    /\ {SourceAt, SequenceAt} \subseteq Nat /\ ChecksumAt \in 0 .. Len(Blank) - 1
    /\ Sources \subseteq Seq(Byte) /\ SequenceNumbers \subseteq Seq(Byte)
    /\ \A s, t \in Sources : Len(s) = Len(t)
    /\ \A q, r \in SequenceNumbers : Len(q) = Len(r)
    /\ \A s \in Sources, q \in SequenceNumbers :
           /\ SourceAt + Len(s) <= Len(Blank) /\ SequenceAt + Len(q) <= Len(Blank)
           /\ SourceAt + Len(s) <= SequenceAt \/ SequenceAt + Len(q) <= SourceAt
           /\ ChecksumAt \notin SourceAt .. SourceAt + Len(s) - 1
           /\ ChecksumAt \notin SequenceAt .. SequenceAt + Len(q) - 1

VARIABLES
    frame,
    \* history
    sealed,      \* the frame when its checksum was made last
    written,     \* [source, sequence] as written last
    overwrites

tfVars == <<frame, sealed, written, overwrites>>

Xor(a, b) == (a \ b) \cup (b \ a)

\* rotate_left(1)
Rotated(a) == {(k + 1) % Bits : k \in a}

(* compute_checksum: every byte but the checksum itself, in order.         *)
compute_checksum(f) ==
    LET acc[o \in 0 .. Len(Blank)] ==  \* of the bytes before offset o
            IF o = 0 THEN Seed
            ELSE IF o = ChecksumAt + 1 THEN acc[o - 1]
            ELSE Xor(Rotated(acc[o - 1]), f[o - 1])
    IN  acc[Len(Blank)]

checksum_valid == frame[ChecksumAt] = compute_checksum(frame)

Put(f, at, bytes) ==
    [o \in DOMAIN f |-> IF o \in at .. at + Len(bytes) - 1 THEN bytes[o - at + 1] ELSE f[o]]

Refreshed(f) == [f EXCEPT ![ChecksumAt] = compute_checksum(f)]

New(source, sequence) ==
    Refreshed(Put(Put([o \in 0 .. Len(Blank) - 1 |-> Blank[o + 1]], SourceAt, source),
                  SequenceAt, sequence))

TFInit ==
    \E s \in Sources, q \in SequenceNumbers :
        /\ frame = New(s, q) /\ sealed = frame
        /\ written = [source |-> s, sequence |-> q]
        /\ overwrites = 0

Overwrite(f, recompute) ==
    /\ overwrites < MaxOverwrites /\ overwrites' = overwrites + 1
    /\ frame' = IF recompute THEN Refreshed(f) ELSE f
    /\ sealed' = IF recompute THEN frame' ELSE sealed

overwrite_source_id(source, recompute) ==
    /\ Overwrite(Put(frame, SourceAt, source), recompute)
    /\ written' = [written EXCEPT !.source = source]

overwrite_sequence_number(sequence, recompute) ==
    /\ Overwrite(Put(frame, SequenceAt, sequence), recompute)
    /\ written' = [written EXCEPT !.sequence = sequence]

TFNext ==
    \E recompute \in BOOLEAN :
        \/ \E s \in Sources : overwrite_source_id(s, recompute)
        \/ \E q \in SequenceNumbers : overwrite_sequence_number(q, recompute)

TFSpec == TFInit /\ [][TFNext]_tfVars

-----------------------------------------------------------------------------

(* A frame says what was written last and nothing else has changed; a      *)
(* checksum made after that is valid; one made before is found invalid as  *)
(* long as a single byte differs, whichever byte and however it differs.   *)
(* Changes of more bytes may cancel out.                                   *)
OneByteShows ==
    LET changed == {o \in DOMAIN frame : frame[o] # sealed[o]}
    IN  /\ \A k \in DOMAIN written.source : frame[SourceAt + k - 1] = written.source[k]
        /\ \A k \in DOMAIN written.sequence : frame[SequenceAt + k - 1] = written.sequence[k]
        /\ \A o \in DOMAIN frame :
               \/ o \in SourceAt .. SourceAt + Len(written.source) - 1
               \/ o \in SequenceAt .. SequenceAt + Len(written.sequence) - 1
               \/ o = ChecksumAt
               \/ frame[o] = Blank[o + 1]
        /\ changed = {} => checksum_valid
        /\ \A o \in changed : changed = {o} => ~checksum_valid
=============================================================================
