--------------------------- MODULE MC_SpanProcessors ------------------------
(* Instances of SpanProcessors for TLC. *)
EXTENDS SpanProcessors, TLC

TwoEntries == <<"env:pkg::a", "env:pkg::b">>
TwoGenerated == <<"span-processor-1", "span-processor-2">>

\* Spans are interchangeable.
SpanSymmetry == Permutations(Spans)
=============================================================================
