------------------------------ MODULE CStructs ------------------------------
(***************************************************************************)
(* The C structs that carry data between R and the C++ library: what each  *)
(* is made of (src/src/otel_common.h), what its otel_*_free() gives back   *)
(* and what its conversion to R reads (src/src/wrap-r.c).                  *)
(*                                                                         *)
(* A member is one of                                                      *)
(*   block   a pointer to memory of its own: a string, an array of numbers *)
(*   plain   a number or an enum                                           *)
(*   struct  a struct inside the struct                                    *)
(*   array   a pointer to an array of structs, counted by "count"          *)
(* Numbers are listed only where the struct is not zeroed before it is     *)
(* filled: elsewhere they always have a value.  The length of a string is  *)
(* one thing with its block.                                               *)
(***************************************************************************)
EXTENDS Naturals, SequencesExt, TLC

Block(n) == [name |-> n, kind |-> "block",  of |-> ""]
Plain(n) == [name |-> n, kind |-> "plain",  of |-> ""]
In(n, T) == [name |-> n, kind |-> "struct", of |-> T]
Arr(n, T) == [name |-> n, kind |-> "array", of |-> T]

StringsIn(names) == [i \in DOMAIN names |-> In(names[i], "otel_string")]
PlainsIn(names) == [i \in DOMAIN names |-> Plain(names[i])]

-----------------------------------------------------------------------------
(* The structs, in the order of otel_common.h.                             *)

StringLayouts ==
  [otel_string       |-> <<Block("s")>>,
   otel_strings      |-> <<Arr("a", "otel_string")>>,
   otel_http_header  |-> StringsIn(<<"name", "value">>),
   otel_http_headers |-> <<Arr("a", "otel_http_header")>>]

ArrayLayouts ==
  [otel_string_array  |-> <<Block("a"), Block("storage")>>,
   otel_boolean_array |-> <<Block("a")>>,
   otel_double_array  |-> <<Block("a")>>,
   otel_int64_array   |-> <<Block("a")>>]

\* The union "val" is one of the structs above, or a number.
AttributeLayouts ==
  [otel_attribute  |-> <<Plain("type"), Block("name"), In("val", "by type")>>,
   otel_attributes |-> <<Arr("a", "otel_attribute")>>]

LinkLayouts ==
  [otel_link  |-> <<In("attr", "otel_attributes")>>,
   otel_links |-> <<Arr("a", "otel_link")>>]

OptionLayouts ==
  [otel_file_exporter_options |-> StringsIn(<<"file_pattern", "alias_pattern">>),
   otel_provider_http_options |->
     StringsIn(<<"url", "ssl_ca_cert_path", "ssl_ca_cert_string",
       "ssl_client_key_path", "ssl_client_key_string",
       "ssl_client_cert_path", "ssl_client_cert_string", "ssl_min_tls",
       "ssl_max_tls", "ssl_cipher", "ssl_cipher_suite", "compression">>)
     \o <<In("http_headers", "otel_strings")>>]

ScopeLayouts ==
  [otel_instrumentation_scope |->
     StringsIn(<<"name", "version", "schema_url">>)
     \o <<In("attributes", "otel_attributes")>>]

EventLayouts ==
  [otel_event  |-> <<In("name", "otel_string"), Plain("timestamp"),
                     In("attributes", "otel_attributes")>>,
   otel_events |-> <<Arr("a", "otel_event")>>]

SpanLinkLayouts ==
  [otel_span_link  |-> StringsIn(<<"trace_id", "span_id">>)
                       \o <<In("attributes", "otel_attributes")>>,
   otel_span_links |-> <<Arr("a", "otel_span_link")>>]

SpanLayouts ==
  [otel_span_data1 |->
     StringsIn(<<"trace_id", "span_id", "parent", "name", "schema_url",
                 "description">>)
     \o PlainsIn(<<"flags", "kind", "status", "start_time", "duration">>)
     \o <<In("resource_attributes", "otel_attributes"),
          In("instrumentation_scope", "otel_instrumentation_scope"),
          In("attributes", "otel_attributes"),
          In("events", "otel_events"), In("links", "otel_span_links")>>,
   otel_span_data |-> <<Arr("a", "otel_span_data1")>>]

LogLayouts ==
  [otel_log_data1 |->
     StringsIn(<<"trace_id", "span_id", "body", "severity_text",
                 "event_name", "schema_url">>)
     \o <<In("resource_attributes", "otel_attributes"),
          In("instrumentation_scope", "otel_instrumentation_scope"),
          In("attributes", "otel_attributes")>>,
   otel_log_data |-> <<Arr("a", "otel_log_data1")>>]

\* The union "value" has blocks only for a histogram.
PointLayouts ==
  [otel_histogram_point_data |->
     <<In("boundaries", "otel_double_array"), In("counts", "otel_double_array")>>,
   otel_point_data_attributes |->
     <<In("attributes", "otel_attributes"), Plain("point_type"),
       In("value", "by point_type")>>]

MetricLayouts ==
  [otel_metric_data |->
     <<Arr("point_data_attr", "otel_point_data_attributes")>>
     \o StringsIn(<<"instrument_name", "instrument_description",
                    "instrument_unit">>),
   otel_scope_metrics |->
     <<Arr("metric_data", "otel_metric_data"),
       In("instrumentation_scope", "otel_instrumentation_scope")>>,
   otel_resource_metrics |->
     <<Arr("scope_metric_data", "otel_scope_metrics"),
       In("attributes", "otel_attributes")>>,
   otel_metrics_data |-> <<Arr("a", "otel_resource_metrics")>>]

CollectorLogLayouts ==
  [otel_collector_log_record |->
     <<In("attr", "otel_attributes")>>
     \o StringsIn(<<"severity_text", "event_name", "trace_id", "span_id",
                    "body">>),
   otel_collector_scope_log |->
     <<In("schema_url", "otel_string"),
       Arr("log_records", "otel_collector_log_record")>>,
   otel_collector_resource_log |->
     <<In("schema_url", "otel_string"),
       Arr("scope_logs", "otel_collector_scope_log")>>,
   otel_collector_resource_logs |->
     <<Arr("resource_logs", "otel_collector_resource_log")>>]

CollectorMetricLayouts ==
  [otel_collector_metric |-> StringsIn(<<"name", "description", "unit">>),
   otel_collector_scope_metric |->
     <<In("schema_url", "otel_string"), Arr("metrics", "otel_collector_metric")>>,
   otel_collector_resource_metric |->
     <<In("schema_url", "otel_string"),
       Arr("scope_metrics", "otel_collector_scope_metric")>>,
   otel_collector_resource_metrics |->
     <<Arr("resource_metrics", "otel_collector_resource_metric")>>]

ExporterLayouts ==
  [otel_http_exporter_options |->
     StringsIn(<<"url", "ssl_ca_cert_path", "ssl_ca_cert_string",
       "ssl_client_key_path", "ssl_client_key_string",
       "ssl_client_cert_path", "ssl_client_cert_string", "ssl_min_tls",
       "ssl_max_tls", "ssl_cipher", "ssl_cipher_suite">>)
     \o <<In("http_headers", "otel_http_headers")>>]

BatchLayouts ==
  [otel_bsp_options |->
     PlainsIn(<<"max_queue_size", "schedule_delay", "max_export_batch_size">>)]

\* The local variables of the C functions that hold more than one struct.
LocalLayouts ==
  [http_locals |-> <<In("options_", "otel_http_exporter_options"),
                     In("attributes_", "otel_attributes")>>,
   file_locals |-> <<In("options_", "otel_file_exporter_options"),
                     In("attributes_", "otel_attributes")>>,
   start_locals |-> <<In("attributes_", "otel_attributes"),
                      In("links_", "otel_links")>>,
   stdstream_locals |-> <<In("attributes_", "otel_attributes")>>,
   number |-> <<>>]

Layout ==
  LocalLayouts @@ StringLayouts @@ ArrayLayouts @@ AttributeLayouts
  @@ LinkLayouts @@ OptionLayouts @@ ScopeLayouts @@ EventLayouts
  @@ SpanLinkLayouts @@ SpanLayouts @@ LogLayouts @@ PointLayouts
  @@ MetricLayouts @@ CollectorLogLayouts @@ CollectorMetricLayouts
  @@ ExporterLayouts @@ BatchLayouts

-----------------------------------------------------------------------------
(* What each otel_*_free() goes through, in its order.                     *)

StringFree ==
  [otel_string |-> <<"s">>, otel_strings |-> <<"a">>,
   otel_http_header |-> <<"name", "value">>, otel_http_headers |-> <<"a">>]

ScopeFree ==
  [otel_instrumentation_scope |-> <<"name", "version", "schema_url", "attributes">>]

\* description is given back twice: the first time leaves a NULL.
SpanFree ==
  [otel_span_data1 |->
     <<"trace_id", "span_id", "parent", "name", "description", "schema_url",
       "resource_attributes", "instrumentation_scope", "description",
       "attributes", "events", "links">>,
   otel_span_data |-> <<"a">>]

LogFree ==
  [otel_log_data1 |->
     <<"trace_id", "span_id", "body", "severity_text", "event_name",
       "schema_url", "resource_attributes", "instrumentation_scope",
       "attributes">>,
   otel_log_data |-> <<"a">>]

ArrayFree ==
  [otel_string_array |-> <<"storage", "a">>, otel_boolean_array |-> <<"a">>,
   otel_double_array |-> <<"a">>, otel_int64_array |-> <<"a">>]

AttributeFree ==
  [otel_attribute |-> <<"name", "type", "val">>]

AttributesFree ==
  [otel_attributes |-> <<"a">>]

FileOptionsFree ==
  [otel_file_exporter_options |-> <<"file_pattern", "alias_pattern">>]

HttpOptionsFree ==
  [otel_http_exporter_options |->
     <<"url", "http_headers", "ssl_ca_cert_path", "ssl_ca_cert_string",
       "ssl_client_key_path", "ssl_client_key_string",
       "ssl_client_cert_path", "ssl_client_cert_string", "ssl_min_tls",
       "ssl_max_tls", "ssl_cipher", "ssl_cipher_suite">>]

EventFree ==
  [otel_event |-> <<"name", "attributes">>, otel_events |-> <<"a">>,
   otel_span_link |-> <<"trace_id", "span_id", "attributes">>,
   otel_span_links |-> <<"a">>]

MetricFree ==
  [otel_histogram_point_data |-> <<"boundaries", "counts">>,
   otel_point_data_attributes |-> <<"attributes", "point_type", "value">>,
   otel_metric_data |->
     <<"instrument_name", "instrument_description", "instrument_unit",
       "point_data_attr">>,
   otel_scope_metrics |-> <<"instrumentation_scope", "metric_data">>,
   otel_resource_metrics |-> <<"attributes", "scope_metric_data">>,
   otel_metrics_data |-> <<"a">>]

CollectorLogFree ==
  [otel_collector_log_record |->
     <<"attr", "severity_text", "trace_id", "span_id", "event_name", "body">>,
   otel_collector_scope_log |-> <<"schema_url", "log_records">>,
   otel_collector_resource_log |-> <<"schema_url", "scope_logs">>,
   otel_collector_resource_logs |-> <<"resource_logs">>]

CollectorMetricFree ==
  [otel_collector_metric |-> <<"name", "description", "unit">>,
   otel_collector_scope_metric |-> <<"schema_url", "metrics">>,
   otel_collector_resource_metric |-> <<"schema_url", "scope_metrics">>,
   otel_collector_resource_metrics |-> <<"resource_metrics">>,
   otel_bsp_options |-> <<>>]

ProviderOptionsFree ==
  [otel_provider_http_options |->
     <<"url", "http_headers", "ssl_ca_cert_path", "ssl_ca_cert_string",
       "ssl_client_key_path", "ssl_client_key_string",
       "ssl_client_cert_path", "ssl_client_cert_string", "ssl_min_tls",
       "ssl_max_tls", "ssl_cipher", "ssl_cipher_suite", "compression">>]

\* The locals of the functions that create the providers.
LocalFree ==
  [http_locals |-> <<"options_", "attributes_">>,
   file_locals |-> <<"options_", "attributes_">>,
   stdstream_locals |-> <<"attributes_">>, number |-> <<>>]

FreeOrder ==
  StringFree @@ ScopeFree @@ SpanFree @@ LogFree @@ ArrayFree
  @@ AttributeFree @@ AttributesFree @@ FileOptionsFree @@ HttpOptionsFree
  @@ EventFree @@ MetricFree @@ CollectorLogFree @@ CollectorMetricFree
  @@ ProviderOptionsFree @@ LocalFree

\* These two go through their elements without looking at the array first.
CountedFirst == {"otel_strings", "otel_http_headers"}

-----------------------------------------------------------------------------
(* What the conversions to R read.                                         *)

StringRead ==
  [otel_string |-> <<"s">>]

\* The names and the values of the headers, in one array.
NamedStringsRead ==
  [otel_strings |-> <<"a">>]

ScopeRead ==
  [otel_instrumentation_scope |-> <<"name", "version", "schema_url", "attributes">>]

DoubleArrayRead ==
  [otel_double_array |-> <<"a">>]

FileOptionsRead ==
  [otel_file_exporter_options |-> <<"file_pattern", "alias_pattern">>]

\* An array of strings is read through its pointers into "storage".
AttributeRead ==
  [otel_attribute |-> <<"type", "name", "val">>,
   otel_string_array |-> <<"a", "storage">>, otel_boolean_array |-> <<"a">>,
   otel_int64_array |-> <<"a">>]

AttributesRead ==
  [otel_attributes |-> <<"a">>]

EventRead ==
  [otel_event |-> <<"name", "timestamp", "attributes">>,
   otel_events |-> <<"a">>]

SpanLinkRead ==
  [otel_span_link |-> <<"trace_id", "span_id", "attributes">>,
   otel_span_links |-> <<"a">>]

HistogramRead ==
  [otel_histogram_point_data |-> <<"boundaries", "counts">>]

PointRead ==
  [otel_point_data_attributes |-> <<"attributes", "point_type", "value">>]

MetricRead ==
  [otel_metric_data |->
     <<"instrument_name", "instrument_description", "instrument_unit",
       "point_data_attr">>,
   otel_scope_metrics |-> <<"instrumentation_scope", "metric_data">>,
   otel_resource_metrics |-> <<"attributes", "scope_metric_data">>,
   otel_metrics_data |-> <<"a">>]

CollectorLogRead ==
  [otel_collector_log_record |->
     <<"severity_text", "trace_id", "span_id", "body", "event_name">>,
   otel_collector_scope_log |-> <<"schema_url", "log_records">>,
   otel_collector_resource_log |-> <<"schema_url", "scope_logs">>,
   otel_collector_resource_logs |-> <<"resource_logs">>]

CollectorMetricRead ==
  [otel_collector_metric |-> <<"name", "description", "unit">>,
   otel_collector_scope_metric |-> <<"schema_url", "metrics">>,
   otel_collector_resource_metric |-> <<"schema_url", "scope_metrics">>,
   otel_collector_resource_metrics |-> <<"resource_metrics">>]

\* otel_tracer_provider_memory_get_spans() and
\* otel_logger_provider_memory_get_logs() read their records themselves.
SpanRead ==
  [otel_span_data1 |->
     <<"trace_id", "span_id", "name", "flags", "parent", "description",
       "resource_attributes", "schema_url", "instrumentation_scope", "kind",
       "status", "start_time", "duration", "attributes", "events", "links">>,
   otel_span_data |-> <<"a">>]

LogRead ==
  [otel_log_data1 |->
     <<"trace_id", "span_id", "body", "severity_text", "event_name",
       "resource_attributes", "schema_url", "instrumentation_scope",
       "attributes">>,
   otel_log_data |-> <<"a">>]

ProviderOptionsRead ==
  [otel_provider_http_options |->
     <<"url", "http_headers", "ssl_ca_cert_path", "ssl_ca_cert_string",
       "ssl_client_key_path", "ssl_client_key_string",
       "ssl_client_cert_path", "ssl_client_cert_string", "ssl_min_tls",
       "ssl_max_tls", "ssl_cipher", "ssl_cipher_suite", "compression">>]

BatchRead ==
  [otel_bsp_options |-> <<"max_queue_size", "schedule_delay",
                          "max_export_batch_size">>]

ReadByR ==
  StringRead @@ NamedStringsRead @@ ScopeRead @@ DoubleArrayRead
  @@ FileOptionsRead @@ AttributeRead @@ AttributesRead @@ EventRead
  @@ SpanLinkRead @@ HistogramRead @@ PointRead @@ MetricRead
  @@ CollectorLogRead @@ CollectorMetricRead @@ SpanRead @@ LogRead
  @@ ProviderOptionsRead @@ BatchRead @@ [number |-> <<>>]

-----------------------------------------------------------------------------
(* What the C++ code reads of the structs that R fills.                    *)

\* RKeyValueIterable, the attributes as the library iterates over them.
IterableRead ==
  [otel_attribute |-> <<"type", "name", "val">>, otel_attributes |-> <<"a">>,
   otel_string_array |-> <<"a">>, otel_boolean_array |-> <<"a">>,
   otel_double_array |-> <<"a">>, otel_int64_array |-> <<"a">>]

\* otel_span_set_attribute_(), the same one by one.
SpanAttributeRead ==
  [otel_attribute |-> <<"type", "name", "val">>, otel_attributes |-> <<"a">>]

LinksRead ==
  [otel_link |-> <<"attr">>, otel_links |-> <<"a">>,
   start_locals |-> <<"attributes_", "links_">>]

HttpOptionsRead ==
  [otel_http_exporter_options |->
     <<"url", "http_headers", "ssl_ca_cert_path", "ssl_ca_cert_string",
       "ssl_client_key_path", "ssl_client_key_string",
       "ssl_client_cert_path", "ssl_client_cert_string", "ssl_min_tls",
       "ssl_max_tls", "ssl_cipher", "ssl_cipher_suite">>,
   http_locals |-> <<"options_", "attributes_">>]

HttpHeadersRead ==
  [otel_http_headers |-> <<"a">>, otel_http_header |-> <<"name", "value">>]

FileBackendRead ==
  [otel_file_exporter_options |-> <<"file_pattern", "alias_pattern">>,
   file_locals |-> <<"options_", "attributes_">>]

\* The attributes of the stdout meter provider are never handed over.
StdstreamRead ==
  [stdstream_locals |-> <<>>]

ReadByLibrary ==
  IterableRead @@ LinksRead @@ HttpOptionsRead @@ HttpHeadersRead
  @@ FileBackendRead @@ StdstreamRead @@ [otel_string |-> <<"s">>, number |-> <<>>]

ReadOrder ==
  [R |-> ReadByR, library |-> ReadByLibrary,
   span |-> SpanAttributeRead @@ ReadByLibrary]
=============================================================================
