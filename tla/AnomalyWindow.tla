--------------------------- MODULE AnomalyWindow ---------------------------
(***************************************************************************)
(* The outlier detector of the hot path (src/blockchain/raman_anomaly.rs): *)
(* a ring of the last samples, their median, the median of the distances   *)
(* to it, and a sample is an anomaly when it is too far away.              *)
(*                                                                         *)
(* Halves and quarters are avoided by doubling: a distance is twice, the   *)
(* median distance four times what the code has.  An operator named Bug... *)
(* is a mutated form of the definition after it.                           *)
(***************************************************************************)
EXTENDS Integers, Sequences, FiniteSets

CONSTANTS
    Window,      \* WINDOW, 128
    MinHistory,  \* 8
    Samples,     \* what is measured, u64
    MaxSamples

ASSUME RingAssumption == Window \in Nat \ {0} /\ MinHistory \in Nat
ASSUME SamplesAssumption == Samples \subseteq Nat /\ MaxSamples \in Nat

VARIABLES
    window,   \* the samples, Window places
    filled,   \* len
    pos,      \* where the next one goes
    flag,     \* what update returned: "normal", "anomaly", "extreme"
    \* history
    seen      \* all samples so far

awVars == <<window, filled, pos, flag, seen>>

AWInit ==
    /\ window = [p \in 0 .. Window - 1 |-> 0]
    /\ filled = 0 /\ pos = 0
    /\ flag = "normal"
    /\ seen = <<>>

\* The k-th smallest of the first n values of f, from 0.
Ranked(f, n, k) ==
    CHOOSE x \in {f[p] : p \in 0 .. n - 1} :
        /\ Cardinality({p \in 0 .. n - 1 : f[p] < x}) <= k
        /\ Cardinality({p \in 0 .. n - 1 : f[p] <= x}) > k

TwiceMedian(f, n) ==
    Ranked(f, n, n \div 2) + Ranked(f, n, IF n % 2 = 1 THEN n \div 2 ELSE n \div 2 - 1)

Distance(x, median2) == IF 2 * x >= median2 THEN 2 * x - median2 ELSE median2 - 2 * x

\* mad_std < 1, with mad_std = 1.4826 * mad
Degenerate(mad4) == 14826 * mad4 < 40000

(* What update makes of a sample, given the first n places of the window.  *)
Judge(x, f, n) ==
    LET median2 == TwiceMedian(f, n)
        mad4 == TwiceMedian([p \in 0 .. n - 1 |-> Distance(f[p], median2)], n)
        far == Distance(x, median2)
    IN  IF n < MinHistory THEN "normal"
        ELSE IF Degenerate(mad4) THEN IF far = 0 THEN "normal" ELSE "extreme"
        \* |z| > 3
        ELSE IF 20000 * far > 44478 * mad4 THEN "anomaly" ELSE "normal"

BugPlace(x) == [window EXCEPT ![filled % Window] = x]

Place(x) == [window EXCEPT ![pos] = x]

Update ==
    /\ Len(seen) < MaxSamples
    /\ \E x \in Samples :
           /\ window' = Place(x)
           /\ seen' = Append(seen, x)
           /\ filled' = (IF filled < Window THEN filled + 1 ELSE filled)
           /\ pos' = (pos + 1) % Window
           /\ flag' = Judge(x, window', filled')

AWNext == Update

AWSpec == AWInit /\ [][AWNext]_awVars

-----------------------------------------------------------------------------

Latest == Len(seen)
Recent == (IF Latest > Window THEN Latest - Window + 1 ELSE 1) .. Latest

(* A sample is judged by the last Window samples and nothing older, and    *)
(* one that is called an anomaly lies farther from their median than at    *)
(* least half of them.                                                     *)
AnomaliesAreRare ==
    LET n == Cardinality(Recent)
        f == [p \in 0 .. n - 1 |-> seen[Latest - p]]
        Far(x) == Distance(x, TwiceMedian(f, n))
    IN  Latest > 0 =>
            /\ flag = Judge(seen[Latest], f, n)
            /\ flag = "anomaly" =>
                   2 * Cardinality({i \in Recent : Far(seen[i]) < Far(seen[Latest])}) >= n

(* An extreme outlier is seen only when more than half the window is       *)
(* identical.                                                              *)
ExtremeMeansIdentical ==
    flag = "extreme" =>
        \E x \in Samples :
            2 * Cardinality({p \in 0 .. filled - 1 : window[p] = x}) > filled
=============================================================================
