--------------------------- MODULE MCMorphicRadio ---------------------------
(* A small instance of MorphicRadio: planned, preset and custom profiles.      *)
EXTENDS MorphicRadio

\* Context::constrained and Context::favorable.
MCContexts ==
    {[snr |-> -8, battery |-> 3300, latency |-> 250, margin |-> 3],
     [snr |-> 11, battery |-> 3700, latency |-> 40, margin |-> 18]}

\* One profile that differs from every preset in all registers, and one that
\* does not validate and can only be applied unchecked.
MCCustom ==
    {[modulation |-> "Fsk", frequency |-> 915000000, bandwidth |-> 3, sf |-> Absent,
      cr |-> Absent, preamble |-> 12, sync |-> 52, power |-> -4, crc |-> 0,
      whitening |-> 1, header |-> 1],
     [Default EXCEPT !.sf = Absent, !.preamble = 0]}

=============================================================================
