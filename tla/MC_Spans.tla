------------------------------ MODULE MC_Spans ------------------------------
(* Instances of Spans for TLC. *)
EXTENDS SpansRefineDynamicScope, TLC

\* Spans and scopes are interchangeable.
SpanSymmetry == Permutations(Spans) \cup Permutations(Scopes)
=============================================================================
