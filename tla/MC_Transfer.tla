---------------------------- MODULE MC_Transfer ----------------------------
(***************************************************************************)
(* Every entry point of the C layer that carries data, with one shape of   *)
(* data varied at a time.                                                  *)
(***************************************************************************)
EXTENDS TransferInvariant

Plain1 == [kind |-> "k_string", point |-> "k_sum_point_data", items |-> <<>>,
           full |-> TRUE]
Rich1 == [Plain1 EXCEPT !.kind = "k_string_array",
                        !.point = "k_histogram_point_data"]

\* n elements at depth d, and one at all others.
Items1(n, d) == [i \in 1..d |-> IF i = d THEN n ELSE 1]

MC_Shapes ==
  {[Plain1 EXCEPT !.kind = k] : k \in Kinds}
  \cup {[Plain1 EXCEPT !.point = p] : p \in Points}
  \cup {[Rich1 EXCEPT !.items = Items1(n, d)] : n \in {0, 2}, d \in 1..5}
  \cup {[Rich1 EXCEPT !.items = <<n>>, !.full = FALSE] : n \in 0..2}

\* Only these may be given less.
HasOptional(call) ==
  call \in {"get_logs", "parse_logs", "create_tracer_http",
            "create_logger_http", "create_meter_http", "create_tracer_file",
            "create_logger_file", "create_meter_file"}

\* The options of an exporter have no attributes: only the headers vary.
OptionsOf(call) ==
  call \in {"tracer_http_options", "logger_http_options", "meter_http_options"}

MC_Inputs ==
  {i \in (DOMAIN Entry) \X MC_Shapes :
     /\ i[2].full \/ HasOptional(i[1])
     /\ OptionsOf(i[1]) => \/ i[2] = Plain1
                           \/ /\ i[1] = "tracer_http_options"
                              /\ i[2].kind = "k_string_array"
                              /\ Len(i[2].items) = 1}

\* Of the strings of an exporter's options, and of those of a message, whose
\* allocations nobody looks at, few are missing: no two of them have anything
\* in common.
Missing ==
  {c \in DOMAIN mem : /\ Last(c).struct = "otel_string" /\ mem[c] = "null"
                      /\ \A i \in DOMAIN todo : ~InZone(c, todo[i])}
FewMissing ==
  phase = "filling" =>
    /\ OptionsOf(op) /\ (todo /= <<>> => Top.at = <<>>) =>
         Cardinality({c \in Missing : Len(c) = 2}) <= 2
    /\ E.parses => Cardinality(Missing) <= 3
=============================================================================
