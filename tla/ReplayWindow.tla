---------------------------- MODULE ReplayWindow ----------------------------
(***************************************************************************)
(* The nonce window of a RADNet session (src/packet.rs): a sender numbers  *)
(* its frames, the radio loses, delays, reorders, duplicates and damages   *)
(* them, and the receiver accepts a frame when its nonce lies in the       *)
(* window and its tag is right.  A pair of frames that follow each other   *)
(* moves the window behind them wherever it was, forward to catch up with  *)
(* a sender that got too far ahead, and back when the pair is an old one.  *)
(*                                                                         *)
(* The tag of a frame is right exactly when the frame is one that was      *)
(* sent, undamaged.  Nonces are unsigned words; a sum of nonces wraps      *)
(* around as it does in a release build.                                   *)
(*                                                                         *)
(* An operator named Bug... is a mutated form of the definition after it:  *)
(* no action uses it, the project file says which property rejects it.     *)
(***************************************************************************)
EXTENDS Integers

CONSTANTS
    NonceLimit,   \* 2^32
    Skew,         \* max_future_skew_packets
    First,        \* the nonce a session starts with
    MaxRewinds    \* bound on the resyncs that move the window back over a nonce

ASSUME NonceLimitAssumption == NonceLimit \in Nat /\ NonceLimit >= 2
ASSUME SkewAssumption       == Skew \in 1 .. NonceLimit - 1
ASSUME FirstAssumption      == First \in 0 .. NonceLimit - 1

Nonces == 0 .. NonceLimit - 1

VARIABLES
    expected,   \* window.expected_nonce
    cursor,     \* the nonce of the sender's next frame
    sent,       \* nonces of the frames sent so far: any may arrive, at any time
    \* history
    count,      \* count[n]: how often the frame with nonce n was accepted
    rewound     \* rewound[n]: how often the window was moved back from behind n

nonceVars == <<expected, cursor, sent, count, rewound>>

Successor(n) == IF n = NonceLimit - 1 THEN n ELSE n + 1

WindowInit ==
    /\ expected = First
    /\ cursor = First
    /\ sent = {}
    /\ count = [n \in Nonces |-> 0]
    /\ rewound = [n \in Nonces |-> 0]

(* The next frame goes out.                                                *)
Transmit ==
    /\ cursor < NonceLimit
    /\ sent' = sent \cup {cursor}
    /\ cursor' = cursor + 1
    /\ UNCHANGED <<expected, count, rewound>>

BugVerdict(n, intact) ==
    IF n > (expected + Skew) % NonceLimit THEN "out_of_window"
    ELSE IF ~intact THEN "tag_mismatch" ELSE "ok"

(* accept_frame's checks, in its order.                                    *)
Verdict(n, intact) ==
    IF n < expected THEN "stale"
    ELSE IF n > (expected + Skew) % NonceLimit THEN "out_of_window"
    ELSE IF ~intact THEN "tag_mismatch" ELSE "ok"

BugMoveTooFar(n) == expected' = Successor(Successor(n))

MoveWindow(n) == expected' = Successor(n)

Arrive(n, intact) ==
    \/ /\ Verdict(n, intact) = "ok"
       /\ MoveWindow(n)
       /\ count' = [count EXCEPT ![n] = @ + 1]
       /\ UNCHANGED <<cursor, sent, rewound>>
    \/ /\ Verdict(n, intact) # "ok"
       /\ UNCHANGED nonceVars

\* The window is past nonce n: the frame is stale, or the window is at the
\* last nonce, where it accepts nothing.
Passed(n) == n < expected \/ expected = NonceLimit - 1

(* resync_window, on any two frames that were sent, in either order or one *)
(* of them twice: nothing compares them with the window they move.         *)
ResyncVerdict(a, b, intact) ==
    IF b # Successor(a) THEN "sequence_gap"
    ELSE IF ~intact THEN "tag_mismatch" ELSE "ok"

Resync(a, b, intact) ==
    \/ /\ ResyncVerdict(a, b, intact) = "ok"
       /\ MoveWindow(b)
       /\ expected' < expected => \A n \in Nonces : rewound[n] < MaxRewinds
       /\ rewound' =
              [n \in Nonces |-> IF Passed(n) /\ ~Passed(n)' THEN rewound[n] + 1 ELSE rewound[n]]
       /\ UNCHANGED <<cursor, sent, count>>
    \/ /\ ResyncVerdict(a, b, intact) # "ok"
       /\ UNCHANGED nonceVars

WindowNext ==
    \/ Transmit
    \/ \E n \in sent, intact \in BOOLEAN : Arrive(n, intact)
    \/ \E a, b \in sent, intact \in BOOLEAN : Resync(a, b, intact)

WindowSpec == WindowInit /\ [][WindowNext]_nonceVars

-----------------------------------------------------------------------------

(* Every variable has its type.                                            *)
WindowTypeOK ==
    /\ expected \in Nonces
    /\ cursor \in 0 .. NonceLimit
    /\ sent \subseteq Nonces
    /\ count \in [Nonces -> Nat]
    /\ rewound \in [Nonces -> Nat]

(* A frame is accepted once, however often and however late it arrives,    *)
(* and once more only for every resync that moved the window back from     *)
(* behind it - which an old pair of frames does, for resync_window asks    *)
(* nothing of the pair but that its frames are genuine and neighbours.     *)
ReplayNeedsRewind == \A n \in Nonces : count[n] <= 1 + rewound[n]

(* The window never gets ahead of its sender: unless the nonces run out,   *)
(* the next frame of a sender that lost no more than Skew frames is        *)
(* accepted.                                                               *)
SenderIsHeard ==
    /\ expected <= cursor
    /\ cursor <= expected + Skew /\ expected + Skew < NonceLimit => Verdict(cursor, TRUE) = "ok"

=============================================================================
