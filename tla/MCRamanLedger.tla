---------------------------- MODULE MCRamanLedger ----------------------------
(***************************************************************************)
(* Small instances of RamanLedger: words of a few bits, so that products   *)
(* saturate and credits wrap around.                                       *)
(***************************************************************************)
EXTENDS RamanLedger, TLC

=============================================================================
