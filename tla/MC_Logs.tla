------------------------------- MODULE MC_Logs ------------------------------
(* Instances of Logs for TLC. *)
EXTENDS Logs, TLC

\* Loggers are interchangeable.
LogSymmetry == Permutations(Loggers)
=============================================================================
