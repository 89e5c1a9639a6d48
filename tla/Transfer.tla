------------------------------ MODULE Transfer ------------------------------
(***************************************************************************)
(* One call that carries data across the C layer: a struct is filled, from *)
(* R's values or from the C++ library's, read on the other side, and given *)
(* back.  Any allocation on the way may fail, and what happens then        *)
(* depends on who asked: some callers look at the result and clean up,     *)
(* some leave the member out, some use the NULL.                           *)
(*                                                                         *)
(* The memory is a function from places to states.  A place is the path to *)
(* it through structs: of each the member, or the element of the array     *)
(* that the member points to, or the count of that array.  A state is      *)
(*   "garbage"   never written           "null"      zero                  *)
(*   "set"       a number                "live"      memory to give back   *)
(*   "borrowed"  memory of R             "dangling"  given back already    *)
(***************************************************************************)
EXTENDS CStructs, Integers, SequencesExt

CONSTANT
  Inputs    \* pairs of an entry point (DOMAIN Entry) and its data (IsShape)

VARIABLES
  op,       \* the entry point
  shape,    \* the data it converts
  mem,      \* the memory it sees
  todo,     \* what is left to fill, next one first
  catches,  \* after a failure: the structs that are left to give back
  phase,    \* where the call is
  met       \* what free() was called on, besides its own live blocks

vars == <<op, shape, mem, todo, catches, phase, met>>

Kinds == {"k_string", "k_boolean", "k_double", "k_int64", "k_string_array",
          "k_boolean_array", "k_double_array", "k_int64_array"}

Points == {"k_sum_point_data", "k_histogram_point_data",
           "k_last_value_point_data", "k_drop_point_data"}

(***************************************************************************)
(* The data: the type of the attributes and of the metrics' points, how    *)
(* many elements the arrays at each depth of nesting have (the deeper ones *)
(* have one), and whether what may be missing is there.                    *)
(***************************************************************************)
IsShape(s) ==
  /\ s.kind \in Kinds /\ s.point \in Points
  /\ s.items \in Seq(Nat) /\ s.full \in BOOLEAN

-----------------------------------------------------------------------------
(* The tagged unions.                                                      *)

ValueOf ==
  [k_string |-> "otel_string", k_boolean |-> "number", k_double |-> "number",
   k_int64 |-> "number", k_string_array |-> "otel_string_array",
   k_boolean_array |-> "otel_boolean_array",
   k_double_array |-> "otel_double_array",
   k_int64_array |-> "otel_int64_array"]

PointOf ==
  [k_sum_point_data |-> "number", k_last_value_point_data |-> "number",
   k_drop_point_data |-> "number",
   k_histogram_point_data |-> "otel_histogram_point_data"]

TypeOf(m, sh) ==
  CASE m.of = "by type"       -> ValueOf[sh.kind]
    [] m.of = "by point_type" -> PointOf[sh.point]
    [] OTHER                  -> m.of

MemberOf(T, n) == LET ms == Layout[T] IN ms[CHOOSE i \in DOMAIN ms : ms[i].name = n]

Element(p, T, n, i) == Append(p, [struct |-> T, member |-> n, index |-> i])
Member(p, T, n) == Element(p, T, n, 0)
Count(p, T, n) == Element(p, T, n, -1)

\* The pointer and the count of the array that place c goes through at step k.
PointerOf(c, k) == Member(SubSeq(c, 1, k - 1), c[k].struct, c[k].member)
CountOf(c, k) == Count(SubSeq(c, 1, k - 1), c[k].struct, c[k].member)

Items(p, sh) ==
  LET depth == 1 + Cardinality({i \in DOMAIN p : p[i].index > 0})
  IN IF depth \in DOMAIN sh.items THEN sh.items[depth] ELSE 1

\* cc2c_otel_strings() allocates two strings for each header, and stops when
\* the index of the next string, not of the next header, reaches their number.
Allocated(T, n) == IF T = "otel_strings" THEN 2 * n ELSE n

\* Mutant: the loops end one element early.
FilledShort(T, n) == IF n = 0 THEN 0 ELSE n - 1

Filled(T, n) == IF T = "otel_strings" THEN 2 * ((n + 1) \div 2) ELSE n

\* What a struct T at p has without allocating: its members, and those of the
\* structs inside of it, which are four deep at most (NestingAssumption).
Nested(F, sh) ==
  UNION {{<<Member(f[1], f[2], m.name), TypeOf(m, sh)>> :
            m \in {x \in ToSet(Layout[f[2]]) : x.kind = "struct"}} : f \in F}
OwnCells(F) ==
  UNION {UNION {{Member(f[1], f[2], m.name)}
                \cup IF m.kind = "array" THEN {Count(f[1], f[2], m.name)} ELSE {} :
                  m \in {x \in ToSet(Layout[f[2]]) : x.kind /= "struct"}} : f \in F}
CellsOf(T, p, sh) ==
  LET one   == {<<p, T>>}
      two   == Nested(one, sh)
      three == Nested(two, sh)
      four  == Nested(three, sh)
  IN OwnCells(one) \cup OwnCells(two) \cup OwnCells(three) \cup OwnCells(four)

-----------------------------------------------------------------------------
(***************************************************************************)
(* How a member is filled:                                                 *)
(*   checked     a failing allocation makes the whole conversion fail      *)
(*   optional    the result is ignored, the member stays empty             *)
(*   abandoning  the result is ignored, and so is the rest of the array    *)
(*   unchecked   the result is used at once                                *)
(*   throwing    a failing allocation is an error in R                     *)
(*   borrowed    it points to memory of R                                  *)
(*   R_alloc     memory that R frees after the call                        *)
(*   as called   as the struct it is in                                    *)
(***************************************************************************)
Gets(n, how) ==
  [name |-> n, how |-> how, part |-> "all", ifGiven |-> FALSE,
   zeroed |-> FALSE, caught |-> FALSE]
MayGet(n, how) == [Gets(n, how) EXCEPT !.ifGiven = TRUE]
Allocates(n, how) == [Gets(n, how) EXCEPT !.part = "array"]
Elements(n, how) == [Gets(n, how) EXCEPT !.part = "elements"]
Zeroed(e) == [e EXCEPT !.zeroed = TRUE]
Caught(e) == [e EXCEPT !.caught = TRUE]   \* filled by a function that frees it when it fails
AllGet(names, how) == [i \in DOMAIN names |-> Gets(names[i], how)]
AllMayGet(names, how) == [i \in DOMAIN names |-> MayGet(names[i], how)]

(* What the C++ code fills.                                                *)

StringFill == [otel_string |-> <<Gets("s", "as called")>>]

StringsFill == [otel_strings |-> <<Gets("a", "abandoning")>>]

ScopeFill ==
  [otel_instrumentation_scope |->
     AllGet(<<"name", "version", "schema_url", "attributes">>, "checked")]

AttributeFill ==
  [otel_attribute |-> AllGet(<<"name", "type", "val">>, "checked")]

AttributesFill == [otel_attributes |-> <<Caught(Gets("a", "checked"))>>]

ArrayFill ==
  [otel_boolean_array |-> <<Gets("a", "checked")>>,
   otel_int64_array   |-> <<Gets("a", "checked")>>,
   otel_double_array  |-> <<Gets("a", "checked")>>,
   otel_string_array  |-> AllGet(<<"a", "storage">>, "checked")]

EventFill ==
  [otel_event  |-> AllGet(<<"timestamp", "name", "attributes">>, "checked"),
   otel_events |-> <<Gets("a", "checked")>>]

LinkFill ==
  [otel_span_link  |-> AllGet(<<"trace_id", "span_id", "attributes">>, "checked"),
   otel_span_links |-> <<Gets("a", "checked")>>]

SpanFill ==
  [otel_span_data1 |->
     AllGet(<<"trace_id", "span_id", "name", "parent", "kind", "status",
              "description", "start_time", "duration", "flags", "schema_url",
              "resource_attributes">>, "checked")
     \o <<Caught(Gets("instrumentation_scope", "checked")),
          Gets("attributes", "checked"), Caught(Gets("events", "checked")),
          Caught(Gets("links", "checked"))>>,
   otel_span_data |-> <<Gets("a", "checked")>>]

LogFill ==
  [otel_log_data1 |->
     AllMayGet(<<"trace_id", "span_id", "body">>, "checked")
     \o AllGet(<<"severity_text", "event_name", "schema_url",
                 "resource_attributes">>, "checked")
     \o <<Caught(Gets("instrumentation_scope", "checked")),
          Gets("attributes", "checked")>>,
   otel_log_data |-> <<Zeroed(Gets("a", "checked"))>>]

MetricFill ==
  [otel_metrics_data |-> <<Gets("a", "checked")>>,
   otel_resource_metrics |->
     <<Zeroed(Allocates("scope_metric_data", "checked")),
       Gets("attributes", "checked"), Elements("scope_metric_data", "checked")>>,
   otel_scope_metrics |->
     <<Zeroed(Allocates("metric_data", "checked")),
       Gets("instrumentation_scope", "checked"),
       Elements("metric_data", "checked")>>,
   otel_metric_data |->
     <<Zeroed(Allocates("point_data_attr", "checked"))>>
     \o AllGet(<<"instrument_name", "instrument_description",
                 "instrument_unit">>, "checked")
     \o <<Elements("point_data_attr", "checked")>>]

PointFill ==
  [otel_point_data_attributes |->
     AllGet(<<"attributes", "point_type", "value">>, "checked"),
   otel_histogram_point_data |-> AllGet(<<"boundaries", "counts">>, "checked")]

CollectorLogFill ==
  [otel_collector_resource_logs |-> <<Zeroed(Gets("resource_logs", "checked"))>>,
   otel_collector_resource_log |->
     <<Gets("schema_url", "optional"), Zeroed(Gets("scope_logs", "checked"))>>,
   otel_collector_scope_log |->
     <<Gets("schema_url", "optional"), Zeroed(Gets("log_records", "checked"))>>,
   otel_collector_log_record |->
     AllGet(<<"severity_text", "trace_id", "span_id", "event_name">>, "optional")
     \o <<MayGet("body", "optional")>>]

CollectorMetricFill ==
  [otel_collector_resource_metrics |->
     <<Zeroed(Gets("resource_metrics", "unchecked"))>>,
   otel_collector_resource_metric |->
     <<Gets("schema_url", "optional"), Zeroed(Gets("scope_metrics", "checked"))>>,
   otel_collector_scope_metric |->
     <<Gets("schema_url", "optional"), Zeroed(Gets("metrics", "checked"))>>,
   otel_collector_metric |->
     AllGet(<<"name", "description", "unit">>, "optional")]

FileDefaultsFill ==
  [otel_file_exporter_options |->
     AllGet(<<"file_pattern", "alias_pattern">>, "optional")]

HttpDefaultsFill ==
  [otel_provider_http_options |->
     AllGet(<<"url", "http_headers", "ssl_ca_cert_path", "ssl_ca_cert_string",
       "ssl_client_key_path", "ssl_client_key_string",
       "ssl_client_cert_path", "ssl_client_cert_string", "ssl_min_tls",
       "ssl_max_tls", "ssl_cipher", "ssl_cipher_suite", "compression">>,
       "optional")]

BatchDefaultsFill ==
  [otel_bsp_options |->
     AllGet(<<"max_queue_size", "schedule_delay", "max_export_batch_size">>,
            "checked")]

FilledByLibrary ==
  StringFill @@ StringsFill @@ ScopeFill @@ AttributeFill @@ AttributesFill
  @@ ArrayFill @@ EventFill @@ LinkFill @@ SpanFill @@ LogFill @@ MetricFill
  @@ PointFill @@ CollectorLogFill @@ CollectorMetricFill @@ FileDefaultsFill
  @@ HttpDefaultsFill @@ BatchDefaultsFill @@ [number |-> <<>>]

(* What is filled from the values of R.                                    *)

StringFromR == [otel_string |-> <<Gets("s", "as called")>>]

\* Nothing allocates the array, and nothing counts it.
HeadersFromR ==
  [otel_http_headers |-> <<Elements("a", "throwing")>>,
   otel_http_header |-> AllGet(<<"name", "value">>, "throwing")]

\* Arrays of strings are pointers to R's strings; logicals and doubles are
\* not copied at all.
AttributeFromR ==
  [otel_attribute |->
     <<Gets("name", "optional"), Gets("type", ""), Gets("val", "unchecked")>>,
   otel_string_array |-> <<Gets("a", "unchecked")>>,
   otel_boolean_array |-> <<Gets("a", "borrowed")>>,
   otel_double_array |-> <<Gets("a", "borrowed")>>,
   otel_int64_array |-> <<Gets("a", "unchecked")>>]

AttributesFromR == [otel_attributes |-> <<Zeroed(Gets("a", "unchecked"))>>]

FileOptionsFromR ==
  [otel_file_exporter_options |->
     AllMayGet(<<"file_pattern", "alias_pattern">>, "throwing"),
   file_locals |-> AllGet(<<"options_", "attributes_">>, "")]

HttpOptionsFromR ==
  [otel_http_exporter_options |->
     AllMayGet(<<"url", "http_headers", "ssl_ca_cert_path",
       "ssl_ca_cert_string", "ssl_client_key_path", "ssl_client_key_string",
       "ssl_client_cert_path", "ssl_client_cert_string", "ssl_min_tls",
       "ssl_max_tls", "ssl_cipher", "ssl_cipher_suite">>, "throwing"),
   http_locals |-> AllGet(<<"options_", "attributes_">>, "")]

LinksFromR ==
  [start_locals |-> AllGet(<<"attributes_", "links_">>, ""),
   otel_links |-> <<Gets("a", "R_alloc")>>, otel_link |-> <<Gets("attr", "")>>]

FilledFromR ==
  StringFromR @@ HeadersFromR @@ AttributeFromR @@ AttributesFromR
  @@ FileOptionsFromR @@ HttpOptionsFromR @@ LinksFromR
  @@ [stdstream_locals |-> <<Gets("attributes_", "")>>, number |-> <<>>]

FillOrder == [library |-> FilledByLibrary, R |-> FilledFromR]

-----------------------------------------------------------------------------
(* What is left to fill: a list of members, with the element that comes    *)
(* next, of those that are arrays and allocated.                           *)

Task(e, T, p, how, caught) ==
  [entry |-> e, struct |-> T, at |-> p,
   how |-> IF e.how = "as called" THEN how ELSE e.how,
   catches |-> caught, next |-> IF e.part = "elements" THEN 1 ELSE 0]

\* by: who fills; T at p: what; how: for its caller; caught: the structs that
\* the functions on the way give back when they fail, innermost first.
Tasks(by, T, p, how, caught) ==
  [i \in DOMAIN FillOrder[by][T] |-> Task(FillOrder[by][T][i], T, p, how, caught)]

Place(t) == Member(t.at, t.struct, t.entry.name)
ElementPlace(t, i) == Element(t.at, t.struct, t.entry.name, i)
CountPlace(t) == Count(t.at, t.struct, t.entry.name)
What(t) == MemberOf(t.struct, t.entry.name)

\* The tasks that t consists of, for the struct at place p.
Parts(t, p, by, sh) ==
  LET U == TypeOf(What(t), sh)
  IN Tasks(by, U, p, t.how,
           IF t.entry.caught THEN <<<<U, p>>>> \o t.catches ELSE t.catches)

-----------------------------------------------------------------------------
(* Giving back: the memory after it, and what else free() was called on.   *)

\* Mutant: the pointer stays.
FreedStays(m, c) == IF m[c] \in {"set", "null"} THEN m[c] ELSE "dangling"

\* A pointer is set to NULL when its block is given back.
Freed(m, c) == IF m[c] = "set" THEN "set" ELSE "null"

\* The places a function gets to from the struct at p, that goes through the
\* members that order lists for each struct, and the elements that are counted.
Reached(order, p, m) ==
  {c \in DOMAIN m :
     /\ IsPrefix(p, c)
     /\ \A k \in (Len(p) + 1)..Len(c) :
          /\ c[k].struct \in DOMAIN order
          /\ c[k].member \in ToSet(order[c[k].struct])
          /\ c[k].index > 0 => m[CountOf(c, k)] = "set"}

\* Mutant: the elements are not gone through.
VisitedShallow(p, m) ==
  {c \in Reached(FreeOrder, p, m) : \A k \in (Len(p) + 1)..Len(c) : c[k].index = 0}

\* The places an otel_*_free() goes through.
Visited(p, m) ==
  {c \in Reached(FreeOrder, p, m) :
     /\ Last(c).index /= -1
     /\ \A k \in (Len(p) + 1)..Len(c) :
          c[k].index > 0 => \/ m[PointerOf(c, k)] \in {"live", "borrowed"}
                           \/ c[k].struct \in CountedFirst}

\* Of these, the ones that it comes to more than once.
VisitedTwice(p, m) ==
  {c \in Visited(p, m) :
     \E k \in (Len(p) + 1)..Len(c) :
       LET names == FreeOrder[c[k].struct]
       IN \E i, j \in DOMAIN names :
            i < j /\ names[i] = c[k].member /\ names[j] = c[k].member}

\* Giving back the struct at p.
Free(p) ==
  /\ mem' = [c \in DOMAIN mem |-> IF c \in Visited(p, mem) THEN Freed(mem, c) ELSE mem[c]]
  /\ met' = (met \cup {mem[c] : c \in Visited(p, mem)}
                 \cup {mem'[c] : c \in VisitedTwice(p, mem)}) \ {"null", "set", "live"}

-----------------------------------------------------------------------------
(* The entry points.                                                       *)

\* From the library to R: the C++ function gives the struct back when it fails.
MemberNames(T) == {m.name : m \in ToSet(Layout[T])}
ToR(root) ==
  [root |-> root, fill |-> "library", how |-> "checked", zeroed |-> MemberNames(root),
   catches |-> <<<<root, <<>>>>>>, parses |-> FALSE, reads |-> "R",
   frees |-> TRUE, throws |-> TRUE]
Decodes(root) == [ToR(root) EXCEPT !.parses = TRUE]
Uncaught(root, how) == [ToR(root) EXCEPT !.how = how, !.catches = <<>>]

\* From R to the library: R's errors find nobody who would clean up.  Of the
\* local variables only these are zeroed before they are filled.
FromR(root) ==
  [root |-> root, fill |-> "R", how |-> "unchecked", zeroed |-> {"options_", "links_"},
   catches |-> <<>>, parses |-> FALSE, reads |-> "library",
   frees |-> TRUE, throws |-> TRUE]
\* Nothing is allocated in R between the call of the library and the free().
AtOnce(root) == [FromR(root) EXCEPT !.throws = FALSE]
Keeps(root) == [FromR(root) EXCEPT !.frees = FALSE]

otel_create_tracer_provider_stdstream == FromR("otel_attributes")
otel_create_tracer_provider_http      == FromR("http_locals")
otel_create_tracer_provider_memory    == FromR("otel_attributes")
otel_create_tracer_provider_file      == FromR("file_locals")
otel_tracer_provider_file_options_defaults ==
  Uncaught("otel_file_exporter_options", "optional")
otel_get_tracer                       == FromR("otel_attributes")
otel_tracer_provider_http_options     ==
  Uncaught("otel_provider_http_options", "optional")
otel_tracer_provider_memory_get_spans == ToR("otel_span_data")
otel_bsp_defaults ==
  [Uncaught("otel_bsp_options", "checked") EXCEPT !.zeroed = {}]

otel_start_span          == Keeps("start_locals")
otel_span_set_attribute  ==
  [AtOnce("otel_attribute") EXCEPT !.zeroed = MemberNames("otel_attribute"),
                                   !.reads = "span"]
otel_span_set_attributes == [AtOnce("otel_attributes") EXCEPT !.reads = "span"]
otel_span_add_event      == AtOnce("otel_attributes")
otel_span_add_link       == AtOnce("otel_attributes")

otel_create_logger_provider_stdstream == FromR("otel_attributes")
otel_create_logger_provider_http      == FromR("http_locals")
otel_create_logger_provider_file      ==
  [AtOnce("otel_file_exporter_options")
     EXCEPT !.zeroed = MemberNames("otel_file_exporter_options")]
otel_logger_provider_file_options_defaults ==
  Uncaught("otel_file_exporter_options", "optional")
otel_create_logger_provider_memory    == FromR("otel_attributes")
otel_logger_provider_memory_get_logs  == ToR("otel_log_data")
otel_get_logger                       == Keeps("otel_attributes")
otel_logger_get_name                  == Uncaught("otel_string", "checked")
otel_log                              == AtOnce("otel_attributes")
otel_logger_provider_http_options     ==
  Uncaught("otel_provider_http_options", "optional")
otel_blrp_defaults ==
  [Uncaught("otel_bsp_options", "checked") EXCEPT !.zeroed = {}]

otel_create_meter_provider_stdstream == FromR("stdstream_locals")
otel_create_meter_provider_http      == FromR("http_locals")
otel_create_meter_provider_file      ==
  [AtOnce("otel_file_exporter_options")
     EXCEPT !.zeroed = MemberNames("otel_file_exporter_options")]
otel_meter_provider_file_options_defaults ==
  Uncaught("otel_file_exporter_options", "optional")
otel_create_meter_provider_memory    == FromR("otel_attributes")
otel_meter_provider_memory_get_metrics == ToR("otel_metrics_data")
otel_get_meter                       == Keeps("otel_attributes")
otel_counter_add                     == Keeps("otel_attributes")
otel_up_down_counter_add             == Keeps("otel_attributes")
otel_histogram_record                == Keeps("otel_attributes")
otel_gauge_record                    == Keeps("otel_attributes")
otel_meter_provider_http_options     ==
  Uncaught("otel_provider_http_options", "optional")

otel_parse_log_record     == Decodes("otel_collector_resource_logs")
otel_parse_metrics_record == Decodes("otel_collector_resource_metrics")
otel_encode_response      == Uncaught("otel_string", "optional")

Entry ==
  [create_tracer_stdstream |-> otel_create_tracer_provider_stdstream,
   create_tracer_http |-> otel_create_tracer_provider_http,
   create_tracer_memory |-> otel_create_tracer_provider_memory,
   create_tracer_file |-> otel_create_tracer_provider_file,
   tracer_file_defaults |-> otel_tracer_provider_file_options_defaults,
   get_tracer |-> otel_get_tracer,
   tracer_http_options |-> otel_tracer_provider_http_options,
   get_spans |-> otel_tracer_provider_memory_get_spans,
   bsp_defaults |-> otel_bsp_defaults,
   start_span |-> otel_start_span,
   set_attribute |-> otel_span_set_attribute,
   set_attributes |-> otel_span_set_attributes,
   add_event |-> otel_span_add_event,
   add_link |-> otel_span_add_link,
   create_logger_stdstream |-> otel_create_logger_provider_stdstream,
   create_logger_http |-> otel_create_logger_provider_http,
   create_logger_file |-> otel_create_logger_provider_file,
   logger_file_defaults |-> otel_logger_provider_file_options_defaults,
   create_logger_memory |-> otel_create_logger_provider_memory,
   get_logs |-> otel_logger_provider_memory_get_logs,
   get_logger |-> otel_get_logger,
   get_name |-> otel_logger_get_name,
   log |-> otel_log,
   logger_http_options |-> otel_logger_provider_http_options,
   blrp_defaults |-> otel_blrp_defaults,
   create_meter_stdstream |-> otel_create_meter_provider_stdstream,
   create_meter_http |-> otel_create_meter_provider_http,
   create_meter_file |-> otel_create_meter_provider_file,
   meter_file_defaults |-> otel_meter_provider_file_options_defaults,
   create_meter_memory |-> otel_create_meter_provider_memory,
   get_metrics |-> otel_meter_provider_memory_get_metrics,
   get_meter |-> otel_get_meter,
   counter_add |-> otel_counter_add,
   up_down_counter_add |-> otel_up_down_counter_add,
   histogram_record |-> otel_histogram_record,
   gauge_record |-> otel_gauge_record,
   meter_http_options |-> otel_meter_provider_http_options,
   parse_logs |-> otel_parse_log_record,
   parse_metrics |-> otel_parse_metrics_record,
   encode_response |-> otel_encode_response]

ASSUME TransferAssumption ==
  \A i \in Inputs : i = <<i[1], i[2]>> /\ i[1] \in DOMAIN Entry /\ IsShape(i[2])

E == Entry[op]

-----------------------------------------------------------------------------
Init ==
  /\ \E i \in Inputs : op = i[1] /\ shape = i[2]
  /\ mem = [c \in CellsOf(E.root, <<>>, shape) |->
              IF c[1].member \in E.zeroed THEN "null" ELSE "garbage"]
  /\ todo = Tasks(E.fill, E.root, <<>>, E.how, E.catches)
  /\ catches = <<>> /\ phase = "called" /\ met = {}

\* What a decoder is given is no message of the protocol.
Malformed ==
  /\ phase = "called" /\ E.parses
  /\ phase' = "failed"
  /\ UNCHANGED <<op, shape, mem, todo, catches, met>>

Begin ==
  /\ phase = "called"
  /\ phase' = "filling"
  /\ UNCHANGED <<op, shape, mem, todo, catches, met>>

Top == Head(todo)
Number == Items(Top.at, shape)
Given == Top.entry.ifGiven => shape.full
Filling(kind) ==
  phase = "filling" /\ todo /= <<>> /\ Given /\ What(Top).kind = kind

Done(newMem) ==
  /\ mem' = newMem /\ todo' = Tail(todo)
  /\ UNCHANGED <<op, shape, catches, phase, met>>
Replace(tasks) ==
  /\ todo' = tasks \o Tail(todo)
  /\ UNCHANGED <<op, shape, mem, catches, phase, met>>

\* Mutant: R's memory is taken for a number.
OursByValue(how) == IF how \in {"borrowed", "R_alloc"} THEN "set" ELSE "live"

Ours(how) == IF how \in {"borrowed", "R_alloc"} THEN "borrowed" ELSE "live"

NotGiven ==
  /\ phase = "filling" /\ todo /= <<>> /\ ~Given
  /\ Done(mem)

FillNumber ==
  /\ Filling("plain") /\ Place(Top) \in DOMAIN mem
  /\ Done([mem EXCEPT ![Place(Top)] = "set"])

FillBlock ==
  /\ Filling("block") /\ Place(Top) \in DOMAIN mem
  /\ Done([mem EXCEPT ![Place(Top)] = Ours(Top.how)])

FillStruct ==
  /\ Filling("struct")
  /\ Replace(Parts(Top, Place(Top), E.fill, shape))

\* R's side allocates no empty arrays.
IsEmpty == E.fill = "R" /\ Number = 0
ToAllocate == Filling("array") /\ Top.next = 0 /\ Place(Top) \in DOMAIN mem

FillEmpty ==
  /\ ToAllocate /\ IsEmpty
  /\ Done([mem EXCEPT ![Place(Top)] = "null",
                      ![CountPlace(Top)] = "set"])

\* Mutant: none of the memory is zeroed.
FreshFromMalloc(e) == "garbage"

\* From calloc() or from malloc().
Fresh(e) == IF e.zeroed THEN "null" ELSE "garbage"

\* Mutant: nothing is counted.
CountsNothing(how) == FALSE

\* cc2c_otel_strings() does not count what it fills.
Counts(how) == how /= "abandoning"

NewCells ==
  UNION {CellsOf(TypeOf(What(Top), shape), ElementPlace(Top, i), shape) :
           i \in 1..Allocated(Top.struct, Number)}

FillArray ==
  /\ ToAllocate /\ ~IsEmpty
  /\ mem' = [c \in DOMAIN mem \cup NewCells |->
                IF c \in NewCells THEN Fresh(Top.entry)
                ELSE IF c = Place(Top) THEN Ours(Top.how)
                ELSE IF c = CountPlace(Top) /\ Counts(Top.how) THEN "set"
                ELSE mem[c]]
  /\ todo' = IF Top.entry.part = "array" THEN Tail(todo)
             ELSE [todo EXCEPT ![1].next = 1]
  /\ UNCHANGED <<op, shape, catches, phase, met>>

FillElement ==
  /\ Filling("array") /\ Top.next \in 1..Filled(Top.struct, Number)
  /\ Replace(Parts(Top, ElementPlace(Top, Top.next), E.fill, shape)
             \o IF Top.next = Filled(Top.struct, Number) THEN <<>>
                ELSE <<[Top EXCEPT !.next = @ + 1]>>)

NoElements ==
  /\ Filling("array") /\ Filled(Top.struct, Number) = 0 /\ Top.next = 1
  /\ Done(mem)

\* The member is in an array that nobody allocated.
NullWrite ==
  /\ \/ Filling("plain") \/ Filling("block") \/ (Filling("array") /\ Top.next = 0)
  /\ Place(Top) \notin DOMAIN mem
  /\ phase' = "crashed"
  /\ UNCHANGED <<op, shape, mem, todo, catches, met>>

CanFail ==
  \/ Filling("block") /\ Place(Top) \in DOMAIN mem
  \/ ToAllocate /\ ~IsEmpty
Empty == What(Top).kind = "array" /\ Number = 0
Failed == [mem EXCEPT ![Place(Top)] = "null"]

\* The allocation fails, everybody on the way back gives back what they have.
FailChecked ==
  /\ CanFail /\ Top.how = "checked"
  /\ mem' = Failed /\ catches' = Top.catches
  /\ phase' = "failing"
  /\ UNCHANGED <<op, shape, todo, met>>

Catch ==
  /\ phase = "failing" /\ catches /= <<>>
  /\ Free(Head(catches)[2])
  /\ catches' = Tail(catches)
  /\ UNCHANGED <<op, shape, todo, phase>>

AllCaught ==
  /\ phase = "failing" /\ catches = <<>>
  /\ phase' = IF met = {} THEN "failed" ELSE "wild"
  /\ UNCHANGED <<op, shape, mem, todo, catches, met>>

\* The allocation fails and nobody looks.
FailOptional ==
  /\ CanFail
  /\ \/ Top.how = "optional"
     \/ Top.how = "unchecked" /\ Empty
  /\ Done(Failed)

\* The same, and the function that fills the array returns.
FailAbandoning ==
  /\ CanFail /\ Top.how = "abandoning"
  /\ mem' = Failed
  /\ \E n \in 1..Len(todo) :
       /\ \A i \in 1..n : todo[i].how = "abandoning"
       /\ n < Len(todo) => todo[n + 1].how /= "abandoning"
       /\ todo' = SubSeq(todo, n + 1, Len(todo))
  /\ UNCHANGED <<op, shape, catches, phase, met>>

\* The allocation fails and the NULL is written to.
FailUnchecked ==
  /\ CanFail /\ Top.how = "unchecked" /\ ~Empty
  /\ phase' = "crashed"
  /\ UNCHANGED <<op, shape, mem, todo, catches, met>>

\* The allocation fails and R leaves the function.
FailThrowing ==
  /\ CanFail /\ Top.how \in {"throwing", "R_alloc"}
  /\ phase' = "jumped"
  /\ UNCHANGED <<op, shape, mem, todo, catches, met>>

IsFilled == phase = "filling" /\ todo = <<>>
ToRead == Reached(ReadOrder[E.reads], <<>>, mem)

\* The name of an attribute is used without a look at it.
UsesNullName == \E c \in ToRead : Last(c).member = "name" /\ mem[c] = "null"

Read ==
  /\ IsFilled
  /\ phase' = IF UsesNullName THEN "crashed" ELSE "read"
  /\ UNCHANGED <<op, shape, mem, todo, catches, met>>

\* R cannot allocate the result and leaves the function.
ReadThrows ==
  /\ IsFilled /\ E.throws
  /\ phase' = "jumped"
  /\ UNCHANGED <<op, shape, mem, todo, catches, met>>

GiveBack ==
  /\ phase = "read" /\ E.frees
  /\ Free(<<>>)
  /\ phase' = IF met' = {} THEN "done" ELSE "wild"
  /\ UNCHANGED <<op, shape, todo, catches>>

\* These never give back what they allocated.
Keep ==
  /\ phase = "read" /\ ~E.frees
  /\ phase' = "kept"
  /\ UNCHANGED <<op, shape, mem, todo, catches, met>>

Next ==
  \/ Malformed \/ Begin
  \/ NotGiven \/ FillNumber \/ FillBlock \/ FillStruct \/ FillEmpty \/ FillArray
  \/ FillElement \/ NoElements \/ NullWrite
  \/ FailChecked \/ Catch \/ AllCaught
  \/ FailOptional \/ FailAbandoning \/ FailUnchecked \/ FailThrowing
  \/ Read \/ ReadThrows \/ GiveBack \/ Keep

Spec == Init /\ [][Next]_vars

-----------------------------------------------------------------------------
States == {"garbage", "null", "set", "live", "borrowed", "dangling"}

IsNumber(c) ==
  Last(c).index = -1 \/ MemberOf(Last(c).struct, Last(c).member).kind = "plain"

\* A pointer is never a number, and a number is never memory.
TypeOK ==
  /\ <<op, shape>> \in Inputs
  /\ \A c \in DOMAIN mem :
       mem[c] \in IF IsNumber(c) THEN {"garbage", "null", "set"}
                  ELSE States \ {"set"}
  /\ phase \in {"called", "filling", "failing", "read", "done", "failed", "crashed",
                "jumped", "wild", "kept"}
  /\ met \subseteq {"garbage", "borrowed", "dangling"}

(* No block is given back twice, although the cleanup of a failed          *)
(* conversion runs once in every function on the way back, each of them    *)
(* going through all that is below it: otel_string_free() and the others   *)
(* (wrap-r.c) leave a NULL behind.  Nor is memory that belongs to R, for   *)
(* arrays of strings because the code "does not own the strings"; that it  *)
(* does not own the vectors of logicals and doubles is forgotten (README). *)
FreesOnlyItsOwn ==
  /\ "dangling" \notin met
  /\ "borrowed" \in met => shape.kind \in {"k_boolean_array", "k_double_array"}

(* The other side never reads a member that nobody filled, although the    *)
(* records come from malloc() and the side that fills a struct, the struct *)
(* and the side that reads it are in three files.                          *)
ReadsOnlyFilled ==
  IsFilled => \A c \in ToRead : mem[c] /= "garbage"

\* The two that do not arrive (README): the headers of the environment, which
\* cc2c_otel_strings() does not count, and the attributes of the stdout meter
\* provider.
UncountedHeaders ==
  {c \in DOMAIN mem : E.root = "otel_provider_http_options"
                      /\ Len(c) > 2 /\ c[1].member = "http_headers"}
Unread == IF E.root = "stdstream_locals" THEN DOMAIN mem ELSE {}

(* Everything else that was converted arrives: what the filling side       *)
(* allocated is read by the other side.                                    *)
NothingLost ==
  IsFilled => \A c \in DOMAIN mem \ (UncountedHeaders \cup Unread) :
                 mem[c] = "live" => c \in ToRead

\* The functions that convert attributes, start_span() those of the links too,
\* and have no otel_attributes_free(): every call of them leaks (README).
NeverFree ==
  {"start_span", "get_logger", "get_meter", "counter_add",
   "up_down_counter_add", "histogram_record", "gauge_record"}

(* A call of any other entry point that ends, or fails in a way its        *)
(* functions look at, has given back all it allocated but the uncounted    *)
(* headers, whichever of its allocations failed.  (What R leaves by an     *)
(* error, and what uses a NULL, does not end in this sense.)               *)
NothingLeaks ==
  op \notin NeverFree /\ phase \in {"done", "failed", "kept"} =>
    \A c \in DOMAIN mem \ UncountedHeaders : mem[c] /= "live"

(* The decoders of the collector clean up correctly wherever they fail:    *)
(* their arrays come from calloc() (collector.cc), so that the free        *)
(* functions meet no member that was not reached.                          *)
DecodersFailSafely ==
  E.parses => "garbage" \notin met
=============================================================================
