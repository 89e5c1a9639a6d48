------------------------------- MODULE Options -------------------------------
(***************************************************************************)
(* The way of an option from where it is given, an argument or one of      *)
(* several environment variables, to the exporter that uses it.  Four      *)
(* layers decide in turn: the as_*_options() functions of R/checks.R, the  *)
(* conversion to C structs (wrap-r.c and tracer.c, logger.c, meter.c), the *)
(* constructors of the C++ library's own option classes, which read the    *)
(* environment once more, and the C++ code that assigns to their fields    *)
(* what the structs have.  options() of a provider asks the first and the  *)
(* third.                                                                  *)
(*                                                                         *)
(* A value is the option it was given for, where, and its unit of time,    *)
(* and, for a string, whether the NUL at its end counts as a part of it.   *)
(***************************************************************************)
EXTENDS Naturals, Sequences

CONSTANT
  Inputs   \* what R code and the environment give (IsInput)

VARIABLES
  signal,    \* "traces", "logs" or "metrics"
  exporter,  \* "http", "file", "stdstream" or "memory"
  given,     \* of the options that are given: where
  plain,     \* file sizes in the environment are numbers without a unit
  stream,    \* the file pattern that is given is "stdout" or "stderr"
  phase,     \* what new() and then options() have done
  ropts,     \* the list of options in R
  copts,     \* the C struct
  used,      \* the fields of the C++ class that the exporter gets
  reported   \* the result of options()

input == <<signal, exporter, given, plain, stream>>
vars == <<input, phase, ropts, copts, used, reported>>

-----------------------------------------------------------------------------
(* The options, by who reads their environment variables.                  *)

\* In the specification of OpenTelemetry: the library does.
InSpec ==
  {"url", "content_type", "timeout", "http_headers",
   "ssl_ca_cert_path", "ssl_ca_cert_string", "ssl_client_key_path",
   "ssl_client_key_string", "ssl_client_cert_path", "ssl_client_cert_string",
   "compression"}

\* Both do, from different variables.
Tls == {"ssl_min_tls", "ssl_max_tls", "ssl_cipher", "ssl_cipher_suite"}
Retry == {"retry_policy_max_attempts", "retry_policy_initial_backoff",
          "retry_policy_max_backoff", "retry_policy_backoff_multiplier"}

\* R does.
NoSupport == {"json_bytes_mapping", "use_json_name", "console_debug",
              "ssl_insecure_skip_verify"}

HttpOptions == InSpec \cup Tls \cup Retry \cup NoSupport
FileOptions == {"file_pattern", "alias_pattern", "flush_interval",
                "flush_count", "file_size", "rotate_size"}
BatchOptions == {"max_queue_size", "max_export_batch_size", "schedule_delay"}
ReaderOptions == {"export_interval", "export_timeout"}
Temporality == "aggregation_temporality"

Signals == {"traces", "logs", "metrics"}
Exporters == {"http", "file", "stdstream", "memory"}

OptionsOf(s, e) ==
  CASE e = "http" -> HttpOptions \cup
         IF s = "metrics" THEN ReaderOptions \cup {Temporality} ELSE BatchOptions
    [] e = "file" -> FileOptions \cup IF s = "metrics" THEN ReaderOptions ELSE {}
    [] e = "stdstream" -> {"output"} \cup IF s = "metrics" THEN ReaderOptions ELSE {}
    [] e = "memory" -> {"buffer_size"} \cup
         IF s = "metrics" THEN ReaderOptions \cup {Temporality} ELSE {}

Options == OptionsOf(signal, exporter)

(***************************************************************************)
(* "arg": the opts argument; "signal" and "general": the environment       *)
(* variables for one and for all signals; "library": a variable that the   *)
(* help pages do not name: of the library, for what R has variables of its *)
(* own for, and OTEL_BLRP_*, where OTEL_BSP_* is the "general" one.        *)
(***************************************************************************)
SourcesOf(o) ==
  CASE o \in ReaderOptions \cup {Temporality} -> {"arg", "general"}
    [] o \in BatchOptions -> {"arg", "general", "library"}
    [] o \in Tls \cup Retry -> {"arg", "signal", "general", "library"}
    [] OTHER -> {"arg", "signal", "general"}

IsInput(i) ==
  /\ i.signal \in Signals /\ i.exporter \in Exporters
  /\ DOMAIN i.given \subseteq OptionsOf(i.signal, i.exporter)
  /\ \A o \in DOMAIN i.given : i.given[o] \subseteq SourcesOf(o)
  /\ {i.plain, i.stream} \subseteq BOOLEAN
  /\ i.stream => /\ i.exporter = "file" /\ "file_pattern" \in DOMAIN i.given
                 /\ i.given["file_pattern"] /= {}

ASSUME OptionsAssumption == \A i \in Inputs : IsInput(i)

Durations == {"timeout", "flush_interval", "schedule_delay",
              "retry_policy_initial_backoff", "retry_policy_max_backoff",
              "export_interval", "export_timeout"}

Value(o, from) ==
  [of |-> o, from |-> from, unit |-> IF o \in Durations THEN "ms" ELSE "",
   end |-> ""]
Default(o) == Value(o, "default")
Null == [of |-> "NULL", from |-> "NULL", unit |-> "", end |-> ""]

Given(o) == IF o \in DOMAIN given THEN given[o] ELSE {}

\* Of the sources that have a value, the one that goes first.
Order == <<"arg", "signal", "general", "library">>
First(found) ==
  Order[CHOOSE i \in DOMAIN Order :
          Order[i] \in found /\ \A j \in 1..(i - 1) : Order[j] \notin found]

FirstGiven(o, see, otherwise) ==
  IF see \cap Given(o) = {} THEN otherwise ELSE Value(o, First(see \cap Given(o)))

Env == {"signal", "general"}
ArgEnv == {"arg"} \cup Env

-----------------------------------------------------------------------------
(* In R.  Each operator takes the sources it may look at: all of them, or, *)
(* for options(), all but the argument.                                    *)

\* Of a choice, NULL means the default, and nothing else is asked.
as_choice(o, see) == IF "arg" \in see \cap Given(o) THEN Value(o, "arg") ELSE Default(o)

\* `$` finds an element of a list by the beginning of its name, if the name
\* itself is not there.  Only one name of an option begins with another.
PartialMatch(o, see) ==
  /\ o = "ssl_cipher" /\ "arg" \in see \ Given(o)
  /\ "arg" \in Given("ssl_cipher_suite")

as_http_exporter_options(o, see) ==
  CASE PartialMatch(o, see) -> Value("ssl_cipher_suite", "arg")
    [] o \in {"json_bytes_mapping", "compression"} -> as_choice(o, see)
    [] o \in InSpec \ {"compression"} ->
         IF "arg" \in see \cap Given(o) THEN Value(o, "arg") ELSE Null
    [] OTHER -> FirstGiven(o, see, Default(o))

\* Without an alias, the pattern makes one, except if there is no file.
as_file_exporter_options(o, see) ==
  LET pattern == FirstGiven("file_pattern", see, Null)
  IN FirstGiven(o, see,
       IF o = "alias_pattern" /\ ~stream THEN pattern ELSE Null)

as_batch_processor_options(o, see) ==
  IF "arg" \in see \cap Given(o) THEN Value(o, "arg") ELSE Null

as_metric_reader_options(o, see) ==
  FirstGiven(o, see \ {"signal"}, Default(o))

as_stdstream_exporter_options(o, see) ==
  FirstGiven(o, see, Default(o))

as_memory_exporter_options(o, see) ==
  FirstGiven(o, see, Default(o))

Checked(o, see) ==
  CASE o \in HttpOptions   -> as_http_exporter_options(o, see)
    [] o \in FileOptions   -> as_file_exporter_options(o, see)
    [] o \in BatchOptions  -> as_batch_processor_options(o, see)
    [] o \in ReaderOptions -> as_metric_reader_options(o, see)
    [] o = Temporality     -> as_choice(o, see)
    [] o = "output"        -> as_stdstream_exporter_options(o, see)
    [] o = "buffer_size"   -> as_memory_exporter_options(o, see)

(* To C: R's accessors fail on a vector of another type.                   *)

StoredAs(v) ==
  CASE v.of \in {"max_queue_size", "max_export_batch_size", "flush_count"} -> "integer"
    [] v.of \in {"file_size", "rotate_size"} /\ v.from = "arg" -> "double"
    [] v.of = "file_size" /\ v.from /= "arg" -> IF plain THEN "integer" ELSE "double"
    [] v.of = "rotate_size" /\ v.from /= "arg" -> "integer"
    [] OTHER -> "other"

\* Mutant: the logger's code reads counts as the tracer's does.
BatchReadAsTracer(s, o) == IF o = "schedule_delay" THEN "other" ELSE "double"

BatchReadAs(s, o) ==
  CASE o = "schedule_delay" -> "other"
    [] o /= "schedule_delay" /\ s = "traces" -> "double"
    [] OTHER -> "integer"

ReadAs(o) ==
  CASE o \in BatchOptions -> BatchReadAs(signal, o)
    [] o \in {"flush_count", "rotate_size"} -> "integer"
    [] o = "file_size" -> "double"
    [] OTHER -> "other"

WrongType(r) == {o \in DOMAIN r : r[o] /= Null /\ StoredAs(r[o]) /= ReadAs(o)}

\* The size of the C string has one byte for the NUL.
r2c_otel_string(v) == [v EXCEPT !.end = "NUL"]

HttpStrings ==
  {"url", "ssl_ca_cert_path", "ssl_ca_cert_string", "ssl_client_key_path",
   "ssl_client_key_string", "ssl_client_cert_path", "ssl_client_cert_string"}
    \cup Tls

\* A string that is empty, as the defaults in Tls are, is not passed on.
r2c_otel_http_exporter_options(r) ==
  [o \in DOMAIN r |->
     IF r[o] = Null \/ (o \in Tls /\ r[o] = Default(o)) THEN Null
     ELSE IF o \in HttpStrings THEN r2c_otel_string(r[o]) ELSE r[o]]

r2c_otel_file_exporter_options(r) ==
  [o \in DOMAIN r |-> IF r[o] /= Null /\ o \in {"file_pattern", "alias_pattern"}
                      THEN r2c_otel_string(r[o]) ELSE r[o]]

Converted(r) ==
  CASE exporter = "http" -> r2c_otel_http_exporter_options(r)
    [] exporter = "file" -> r2c_otel_file_exporter_options(r)
    [] OTHER -> r

-----------------------------------------------------------------------------
(* In C++.                                                                 *)

\* What the constructors of the library's classes take from the environment.
LibraryDefault(o) ==
  CASE o \in InSpec -> FirstGiven(o, Env, Default(o))
    [] o \in Tls \cup Retry -> FirstGiven(o, {"library"}, Default(o))
    [] o \in BatchOptions -> FirstGiven(o, {IF signal = "logs" THEN "library" ELSE "general"},
                                        Default(o))
    [] OTHER -> Default(o)

\* The fields f after what the struct c has of the options S is assigned.
Assigned(c, S, f) ==
  [o \in DOMAIN f |-> IF o \in S /\ c[o] /= Null THEN c[o] ELSE f[o]]

\* A std::string of as many bytes as the C string has: with the NUL.
c2cc_otel_string(v) == v

c2cc_otel_http_exporter_options(c, f) ==
  LET g == Assigned(c, HttpOptions \ {"ssl_client_key_path"}, f)
  IN IF c["ssl_client_key_path"] = Null THEN g
     ELSE [g EXCEPT !["ssl_ca_cert_string"] =
                           c2cc_otel_string(c["ssl_client_key_path"])]

\* A std::string that is made of a pointer alone ends where the text does.
Text(v) == [v EXCEPT !.end = ""]

c2cc_file_exporter_options(c, f) ==
  LET g == Assigned([o \in DOMAIN c |-> Text(c[o])], FileOptions, f)
  IN IF c["flush_interval"] = Null THEN g
     ELSE [g EXCEPT !["flush_interval"].unit = "us"]

c2cc_file_exporter_backend(c, f) ==
  IF stream THEN [f EXCEPT !["file_pattern"] = Text(c["file_pattern"])]
  ELSE c2cc_file_exporter_options(c, f)

otel_create_tracer_provider_http_(c, f) ==
  Assigned(c, BatchOptions, c2cc_otel_http_exporter_options(c, f))
otel_create_tracer_provider_file_(c, f) == c2cc_file_exporter_backend(c, f)
otel_create_tracer_provider_stdstream_(c, f) == Assigned(c, {"output"}, f)
otel_create_tracer_provider_memory_(c, f) == Assigned(c, {"buffer_size"}, f)

\* Mutant: the batch size is taken for the size of the queue.
otel_create_logger_provider_http_swapped(c, f) ==
  Assigned([c EXCEPT !["max_queue_size"] = c["max_export_batch_size"]],
           BatchOptions, c2cc_otel_http_exporter_options(c, f))

otel_create_logger_provider_http_(c, f) ==
  Assigned(c, BatchOptions, c2cc_otel_http_exporter_options(c, f))
otel_create_logger_provider_file_(c, f) == c2cc_file_exporter_backend(c, f)
otel_create_logger_provider_stdstream_(c, f) == Assigned(c, {"output"}, f)
otel_create_logger_provider_memory_(c, f) == Assigned(c, {"buffer_size"}, f)

otel_create_meter_provider_http_(c, f) ==
  Assigned(c, ReaderOptions \cup {Temporality},
           c2cc_otel_http_exporter_options(c, f))
otel_create_meter_provider_file_(c, f) ==
  Assigned(c, ReaderOptions, c2cc_file_exporter_backend(c, f))
otel_create_meter_provider_stdstream_(c, f) ==
  Assigned(c, {"output"} \cup ReaderOptions, f)
\* The temporality is a parameter that nothing uses.
otel_create_meter_provider_memory_(c, f) ==
  Assigned(c, {"buffer_size"} \cup ReaderOptions, f)

Created(c, f) ==
  CASE signal = "traces" /\ exporter = "http" -> otel_create_tracer_provider_http_(c, f)
    [] signal = "traces" /\ exporter = "file" -> otel_create_tracer_provider_file_(c, f)
    [] signal = "traces" /\ exporter = "stdstream" -> otel_create_tracer_provider_stdstream_(c, f)
    [] signal = "traces" /\ exporter = "memory" -> otel_create_tracer_provider_memory_(c, f)
    [] signal = "logs" /\ exporter = "http" -> otel_create_logger_provider_http_(c, f)
    [] signal = "logs" /\ exporter = "file" -> otel_create_logger_provider_file_(c, f)
    [] signal = "logs" /\ exporter = "stdstream" -> otel_create_logger_provider_stdstream_(c, f)
    [] signal = "logs" /\ exporter = "memory" -> otel_create_logger_provider_memory_(c, f)
    [] signal = "metrics" /\ exporter = "http" -> otel_create_meter_provider_http_(c, f)
    [] signal = "metrics" /\ exporter = "file" -> otel_create_meter_provider_file_(c, f)
    [] signal = "metrics" /\ exporter = "stdstream" -> otel_create_meter_provider_stdstream_(c, f)
    [] signal = "metrics" /\ exporter = "memory" -> otel_create_meter_provider_memory_(c, f)

(* What the library's classes have, on the way back to R: some durations   *)
(* become seconds, and headers are not counted.                            *)

otel_provider_http_default_options(o) ==
  CASE o = "http_headers" -> Default(o)
    [] o = "timeout" -> [LibraryDefault(o) EXCEPT !.unit = "s"]
    [] OTHER -> LibraryDefault(o)

cc2c_file_exporter_options(o) ==
  IF o = "flush_interval" THEN [LibraryDefault(o) EXCEPT !.unit = "s"]
  ELSE LibraryDefault(o)

\* otel_bsp_defaults_() and otel_blrp_defaults_()
BatchDefaults(o) == LibraryDefault(o)

\* Mutant: of the library's defaults, those of the batches are forgotten.
ReportsWithoutBatch(o) ==
  IF exporter = "http" /\ o \in InSpec THEN otel_provider_http_default_options(o)
  ELSE Checked(o, Env)

Reports(o) ==
  CASE exporter = "http" /\ o \in InSpec -> otel_provider_http_default_options(o)
    [] exporter = "http" /\ o \in BatchOptions -> BatchDefaults(o)
    [] exporter = "file" /\ o \in FileOptions -> cc2c_file_exporter_options(o)
    [] OTHER -> Checked(o, Env)

-----------------------------------------------------------------------------
Nothing == <<>>

Init ==
  /\ \E i \in Inputs :
       /\ signal = i.signal /\ exporter = i.exporter /\ given = i.given
       /\ plain = i.plain /\ stream = i.stream
  /\ phase = "called"
  /\ ropts = Nothing /\ copts = Nothing /\ used = Nothing /\ reported = Nothing

\* as_tracer_provider_http_options() and the like.
CheckOptions ==
  /\ phase = "called"
  /\ phase' = "checked"
  /\ ropts' = [o \in Options |-> Checked(o, ArgEnv)]
  /\ UNCHANGED <<input, copts, used, reported>>

HeadersGiven == exporter = "http" /\ ropts["http_headers"] /= Null

\* r2c_otel_http_headers() writes to an array that is not there.
HeadersCrash ==
  /\ phase = "checked" /\ HeadersGiven
  /\ phase' = "crashed"
  /\ UNCHANGED <<input, ropts, copts, used, reported>>

WrongTypeError ==
  /\ phase = "checked" /\ ~HeadersGiven /\ WrongType(ropts) /= {}
  /\ phase' = "error"
  /\ UNCHANGED <<input, ropts, copts, used, reported>>

ConvertOptions ==
  /\ phase = "checked" /\ ~HeadersGiven /\ WrongType(ropts) = {}
  /\ phase' = "converted"
  /\ copts' = Converted(ropts)
  /\ UNCHANGED <<input, ropts, used, reported>>

CreateProvider ==
  /\ phase = "converted"
  /\ phase' = "created"
  /\ used' = Created(copts, [o \in Options |-> LibraryDefault(o)])
  /\ UNCHANGED <<input, ropts, copts, reported>>

ReportOptions ==
  /\ phase = "created"
  /\ phase' = "reported"
  /\ reported' = [o \in Options |-> Reports(o)]
  /\ UNCHANGED <<input, ropts, copts, used>>

Next ==
  \/ CheckOptions \/ HeadersCrash \/ WrongTypeError \/ ConvertOptions
  \/ CreateProvider \/ ReportOptions

Spec == Init /\ [][Next]_vars
-----------------------------------------------------------------------------
\* Where the help pages (R/docs.R) say that the value of an option is from.
Documented(o) ==
  LET derived == IF stream THEN Default(o) ELSE FirstGiven("file_pattern", ArgEnv, Default(o))
  IN FirstGiven(o, ArgEnv, IF o = "alias_pattern" THEN derived ELSE Default(o))

IsCreated == phase \in {"created", "reported"}

\* Streams have no other options.
Used == IF stream THEN Options \ (FileOptions \ {"file_pattern"}) ELSE Options

(* Where the code is known to do otherwise (README).                       *)

\* NULL means the default, whatever the environment has.
ChoiceFromEnv(o) ==
  /\ o \in {"json_bytes_mapping", "compression", Temporality}
  /\ "arg" \notin Given(o) /\ Given(o) /= {}
KeyForCertificate(o) ==
  /\ o \in {"ssl_client_key_path", "ssl_ca_cert_string"}
  /\ "arg" \in Given("ssl_client_key_path")
TemporalityUnused(o) == o = Temporality /\ exporter = "memory" /\ Given(o) /= {}
FlushTooEarly(o) == o = "flush_interval" /\ Given(o) /= {}
\* An empty default of Tls does not keep the library from looking.
LibraryLooks(o) == o \in Tls /\ Given(o) = {"library"}
CipherFromSuite(o) == PartialMatch(o, ArgEnv)
\* The help page of the logger provider has the variables of the tracers.
OtherVariables(o) ==
  /\ signal = "logs" /\ o \in BatchOptions
  /\ "arg" \notin Given(o) /\ Given(o) /= {}
\* The string is the documented one, and a NUL.
WithNul(o) == o \in HttpStrings /\ used[o] = r2c_otel_string(Documented(o))

(* Every option reaches the exporter: with its own value, from the source  *)
(* that the documentation gives precedence, in the documented unit, and    *)
(* not with another option's, but for the eight deviations named above.    *)
(* Four layers and twelve creators decide this, two of them by reading the *)
(* environment.                                                            *)
OptionsArrive ==
  IsCreated => \A o \in Used :
    \/ used[o] = Documented(o)
    \/ ChoiceFromEnv(o) \/ KeyForCertificate(o) \/ TemporalityUnused(o)
    \/ FlushTooEarly(o) \/ LibraryLooks(o) \/ CipherFromSuite(o)
    \/ OtherVariables(o) \/ WithNul(o)

(* options() returns "the current values for all options" (for example     *)
(* R/tracer-provider-http.R): what a provider that is made without         *)
(* arguments uses, except of those that the library has in other units,    *)
(* that it cannot return, and that are only in the environment of R, and   *)
(* except for the NUL that the strings from there have at their end.       *)
ReportedAsUsed ==
  phase = "reported" /\ (\A o \in Options : "arg" \notin Given(o)) =>
    \A o \in Used :
      \/ reported[o] = used[o]
      \/ o \in Tls /\ r2c_otel_string(reported[o]) = used[o]
      \/ o \in {"timeout", "flush_interval"}
      \/ o \in {"http_headers", "compression"} /\ Given(o) /= {}
      \/ o \in FileOptions /\ Given(o) \cup Given("file_pattern") /= {}
      \/ LibraryLooks(o)

(* A valid option does not make new() fail: R and C agree on its type,     *)
(* except on those of two counts, of the tracers', and of two sizes.       *)
ValidOptionsWork ==
  phase \in {"error", "crashed"} =>
    \/ "arg" \in Given("http_headers")
    \/ /\ signal = "traces"
       /\ "arg" \in Given("max_queue_size") \cup Given("max_export_batch_size")
    \/ "arg" \in Given("rotate_size")
    \/ plain /\ Given("file_size") \notin {{}, {"arg"}}

(* The documentation of ssl_client_key_path (R/docs.R:803) says that it is *)
(* the "SSL client key, path to a file".  c2cc_otel_http_exporter_options  *)
(* (otel_common_cpp.h:245) assigns it to the CA certificate.               *)
ClientKeyArrives ==
  IsCreated /\ exporter = "http" =>
    Text(used["ssl_client_key_path"]) = Documented("ssl_client_key_path")
=============================================================================
