---------------------------- MODULE MC_Recording ----------------------------
(* Instances of Recording for TLC.                                         *)
EXTENDS Recording
=============================================================================
