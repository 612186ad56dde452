---------------------------- MODULE MCRawIngress ----------------------------
(***************************************************************************)
(* Small instances of RawIngress.  The second connection holds the chain   *)
(* of the first, and so does the first UDP socket.                         *)
(***************************************************************************)
EXTENDS RawIngress, TLC

CONSTANTS c1, c2, d1, d2, k1, k2

Chains == (c1 :> k1) @@ (c2 :> k1) @@ (d1 :> k1) @@ (d2 :> k2)
=============================================================================
