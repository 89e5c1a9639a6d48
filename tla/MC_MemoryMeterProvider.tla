---------------------- MODULE MC_MemoryMeterProvider ----------------------
(* Instances of MemoryMeterProvider for TLC. *)
EXTENDS MemoryMeterProvider
=============================================================================
