----------------------------- MODULE PeripheralLab -----------------------------
(***************************************************************************)
(* The peripheral laboratory: the radio it listens with (Sx1276) and the   *)
(* telemetry frames it overwrites (TelemetryFrame).  They share no state;  *)
(* SxSpec /\ TFSpec is the laboratory in which both do their work.         *)
(***************************************************************************)
EXTENDS Sx1276, TelemetryFrame

(* The laboratory delivers what it heard, sends what was asked and shows   *)
(* when a byte of a frame was changed.                                     *)
PeripheralLabIsExact == LabRadioIsExact /\ OneByteShows
=============================================================================
