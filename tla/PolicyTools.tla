------------------------------ MODULE PolicyTools ------------------------------
(***************************************************************************)
(* The tools of a policy author: GPL policies (GplToolchain) and what      *)
(* COOPER learns (CooperLearning).  They share no file; GPSpec /\ CLSpec   *)
(* is an author who uses both.                                             *)
(***************************************************************************)
EXTENDS GplToolchain, CooperLearning

(* What the tools write is what they were given: a policy compiled and     *)
(* rewritten, lessons, cards and their bank.                               *)
ToolsKeepTheirWord == PolicyIsKept /\ LearningIsHonest
=============================================================================
