---------------------------- MODULE Options_proofs ---------------------------
(***************************************************************************)
(* Proofs about Options, for any number of options, each given in any ways *)
(* it can be given.                                                        *)
(***************************************************************************)
EXTENDS Options, TLAPS

Sources == {"arg", "signal", "general", "library"}

-----------------------------------------------------------------------------
(* Where a value is from *)

\* Of some sources the first is one of them, and an argument goes first.
LEMMA FirstIs ==
    ASSUME NEW found, found \cap Sources # {}
    PROVE  /\ First(found) \in found \cap Sources
           /\ "arg" \in found => First(found) = "arg"
<1> DEFINE P(i) == Order[i] \in found /\ \A j \in 1..(i - 1) : Order[j] \notin found
<1>1. /\ DOMAIN Order = {1, 2, 3, 4}
      /\ Order[1] = "arg" /\ Order[2] = "signal"
      /\ Order[3] = "general" /\ Order[4] = "library"
  BY DEF Order
<1>2. /\ 1..(1 - 1) = {} /\ 1..(2 - 1) = {1} /\ 1..(3 - 1) = {1, 2}
      /\ 1..(4 - 1) = {1, 2, 3}
  OBVIOUS
<1>3. \E i \in DOMAIN Order : P(i)
  <2>1. CASE "arg" \in found
    BY <1>1, <1>2, <2>1
  <2>2. CASE "arg" \notin found /\ "signal" \in found
    BY <1>1, <1>2, <2>2
  <2>3. CASE "arg" \notin found /\ "signal" \notin found /\ "general" \in found
    BY <1>1, <1>2, <2>3
  <2>4. CASE /\ "arg" \notin found /\ "signal" \notin found
             /\ "general" \notin found /\ "library" \in found
    BY <1>1, <1>2, <2>4
  <2> QED
    BY <2>1, <2>2, <2>3, <2>4 DEF Sources
<1> DEFINE k == CHOOSE i \in DOMAIN Order : P(i)
<1>4. k \in DOMAIN Order /\ P(k)
  BY <1>3
<1>5. First(found) = Order[k]
  BY DEF First
<1> HIDE DEF k
<1>6. "arg" \in found => k = 1
  <2>1. ASSUME "arg" \in found, k # 1 PROVE FALSE
    <3>1. k \in {2, 3, 4}
      BY <1>1, <1>4, <2>1
    <3>2. 1 \in 1..(k - 1)
      BY <3>1
    <3> QED
      BY <1>1, <1>4, <2>1, <3>2
  <2> QED
    BY <2>1
<1> QED
  BY <1>1, <1>4, <1>5, <1>6 DEF Sources

\* What is given, and the value that is found.
LEMMA FirstGivenIs ==
    ASSUME NEW o, NEW see, NEW otherwise, Given(o) \subseteq Sources
    PROVE  /\ see \cap Given(o) = {} => FirstGiven(o, see, otherwise) = otherwise
           /\ see \cap Given(o) # {} =>
                /\ FirstGiven(o, see, otherwise) # Default(o)
                /\ FirstGiven(o, see, otherwise).of = o
           /\ "arg" \in see \cap Given(o) =>
                FirstGiven(o, see, otherwise) = Value(o, "arg")
           /\ \A see2, otherwise2 :
                /\ see2 \cap Given(o) = see \cap Given(o)
                /\ see \cap Given(o) = {} => otherwise = otherwise2
                => FirstGiven(o, see, otherwise) = FirstGiven(o, see2, otherwise2)
<1> DEFINE found == see \cap Given(o)
<1>1. CASE found = {}
  BY <1>1 DEF FirstGiven
<1>2. CASE found # {}
  <2>1. found \cap Sources # {}
    BY <1>2
  <2>2. FirstGiven(o, see, otherwise) = Value(o, First(found))
    BY <1>2 DEF FirstGiven
  <2> HIDE DEF found
  <2>3. First(found) \in Sources /\ ("arg" \in found => First(found) = "arg")
    BY <2>1, FirstIs
  <2>4. First(found) # "default"
    BY <2>3 DEF Sources
  <2>5. \A from : Value(o, from).from = from /\ Value(o, from).of = o
    BY DEF Value
  <2>6. Value(o, First(found)) # Default(o)
    BY <2>4, <2>5 DEF Default
  <2>7. \A see2, otherwise2 : see2 \cap Given(o) = found
          => FirstGiven(o, see2, otherwise2) = Value(o, First(found))
    BY <1>2 DEF FirstGiven, found
  <2> QED
    BY <1>2, <2>2, <2>3, <2>5, <2>6, <2>7 DEF found
<1> QED
  BY <1>1, <1>2

\* The name of no option is the mark for a value that is missing.
LEMMA Named ==
    ASSUME NEW o, o # "NULL"
    PROVE  \A from : Value(o, from) # Null /\ Default(o) # Null
BY DEF Value, Default, Null

\* What is found, or the default, is a value.
LEMMA Found ==
  ASSUME NEW o, o # "NULL", NEW see, Given(o) \subseteq Sources
  PROVE  FirstGiven(o, see, Default(o)) # Null
<1>1. CASE see \cap Given(o) = {}
  BY <1>1, Named DEF FirstGiven
<1>2. CASE see \cap Given(o) # {}
  BY <1>2, Named DEF FirstGiven
<1> QED
  BY <1>1, <1>2

-----------------------------------------------------------------------------
(* The way of the options *)

\* What the input can be, seen from one option.
InputInv ==
  /\ signal \in Signals /\ exporter \in Exporters
  /\ \A o : Given(o) \subseteq SourcesOf(o)
  /\ stream => exporter = "file" /\ Given("file_pattern") # {}

\* What each of the layers has made of the options.
ChainInv ==
  /\ InputInv
  /\ phase \in {"called", "checked", "crashed", "error", "converted",
                "created", "reported"}
  /\ phase # "called" => ropts = [o \in Options |-> Checked(o, ArgEnv)]
  /\ phase = "crashed" => HeadersGiven
  /\ phase = "error" => WrongType(ropts) # {}
  /\ phase \in {"converted", "created", "reported"} =>
       copts = Converted(ropts)
  /\ IsCreated => used = Created(copts, [o \in Options |-> LibraryDefault(o)])
  /\ phase = "reported" => reported = [o \in Options |-> Reports(o)]

\* The layers make the same of the same input.
LEMMA SameInput ==
  ASSUME UNCHANGED input
  PROVE  /\ InputInv => InputInv'
         /\ Options' = Options
         /\ \A o, see : Checked(o, see)' = Checked(o, see)
         /\ \A o : LibraryDefault(o)' = LibraryDefault(o)
         /\ \A o : Reports(o)' = Reports(o)
         /\ \A c, f : Created(c, f)' = Created(c, f)
         /\ \A r : WrongType(r)' = WrongType(r) /\ Converted(r)' = Converted(r)
<1>1. /\ signal' = signal /\ exporter' = exporter /\ given' = given
      /\ plain' = plain /\ stream' = stream
  BY DEF input
<1>2. \A o : Given(o)' = Given(o)
  BY <1>1 DEF Given
<1>3. Options' = Options
  BY <1>1 DEF Options
<1>4. \A o, see, otherwise :
        FirstGiven(o, see, otherwise)' = FirstGiven(o, see, otherwise)
  BY <1>2 DEF FirstGiven
<1>5. \A o, see : Checked(o, see)' = Checked(o, see)
  <2>1. \A o, see : /\ PartialMatch(o, see)' = PartialMatch(o, see)
                    /\ as_choice(o, see)' = as_choice(o, see)
    BY <1>2 DEF PartialMatch, as_choice
  <2>2. \A o, see : as_http_exporter_options(o, see)'
                      = as_http_exporter_options(o, see)
    BY <1>2, <1>4, <2>1 DEF as_http_exporter_options
  <2>3. \A o, see : as_file_exporter_options(o, see)'
                      = as_file_exporter_options(o, see)
    BY <1>1, <1>4 DEF as_file_exporter_options
  <2> QED
    BY <1>2, <1>4, <2>1, <2>2, <2>3
    DEF Checked, as_batch_processor_options, as_metric_reader_options,
        as_stdstream_exporter_options, as_memory_exporter_options
<1>6. \A o : LibraryDefault(o)' = LibraryDefault(o)
  BY <1>1, <1>4 DEF LibraryDefault
<1>7. \A o : Reports(o)' = Reports(o)
  BY <1>1, <1>5, <1>6 DEF Reports, otel_provider_http_default_options,
                         BatchDefaults, cc2c_file_exporter_options
<1>8. \A c, f : Created(c, f)' = Created(c, f)
  BY <1>1 DEF Created, c2cc_file_exporter_backend,
              otel_create_tracer_provider_file_, otel_create_logger_provider_file_,
              otel_create_meter_provider_file_
<1>9. \A r : WrongType(r)' = WrongType(r) /\ Converted(r)' = Converted(r)
  BY <1>1 DEF WrongType, StoredAs, ReadAs, Converted
<1>10. InputInv => InputInv'
  BY <1>1, <1>2 DEF InputInv
<1> QED
  BY <1>3, <1>5, <1>6, <1>7, <1>8, <1>9, <1>10

\* Every input is one that R code and the environment can give.
LEMMA ChainInit == Init => ChainInv
<1> SUFFICES ASSUME Init PROVE ChainInv
  OBVIOUS
<1>1. PICK i \in Inputs :
        /\ signal = i.signal /\ exporter = i.exporter /\ given = i.given
        /\ plain = i.plain /\ stream = i.stream
  BY DEF Init
<1>2. IsInput(i)
  BY OptionsAssumption
<1>3. \A o : Given(o) \subseteq SourcesOf(o)
  BY <1>1, <1>2 DEF IsInput, Given
<1>4. stream => exporter = "file" /\ Given("file_pattern") # {}
  BY <1>1, <1>2 DEF IsInput, Given
<1>5. InputInv
  BY <1>1, <1>2, <1>3, <1>4 DEF IsInput, InputInv
<1> QED
  BY <1>5 DEF Init, ChainInv, IsCreated

\* Every layer does its part.
LEMMA ChainStep == ChainInv /\ [Next]_vars => ChainInv'
<1> SUFFICES ASSUME ChainInv, [Next]_vars PROVE ChainInv'
  OBVIOUS
<1>1. UNCHANGED input
  BY DEF Next, CheckOptions, HeadersCrash, WrongTypeError, ConvertOptions,
         CreateProvider, ReportOptions, vars
<1>2. /\ InputInv' /\ Options' = Options /\ exporter' = exporter
      /\ \A o, see : Checked(o, see)' = Checked(o, see)
      /\ \A o : LibraryDefault(o)' = LibraryDefault(o)
      /\ \A o : Reports(o)' = Reports(o)
      /\ \A c, f : Created(c, f)' = Created(c, f)
      /\ \A r : WrongType(r)' = WrongType(r) /\ Converted(r)' = Converted(r)
  BY <1>1, SameInput DEF ChainInv, input
<1>3. CASE CheckOptions
  BY <1>2, <1>3 DEF CheckOptions, ChainInv, IsCreated
<1>4. CASE HeadersCrash
  BY <1>2, <1>4 DEF HeadersCrash, ChainInv, IsCreated, HeadersGiven
<1>5. CASE WrongTypeError
  BY <1>2, <1>5 DEF WrongTypeError, ChainInv, IsCreated
<1>6. CASE ConvertOptions
  BY <1>2, <1>6 DEF ConvertOptions, ChainInv, IsCreated
<1>7. CASE CreateProvider
  BY <1>2, <1>7 DEF CreateProvider, ChainInv, IsCreated
<1>8. CASE ReportOptions
  BY <1>2, <1>8 DEF ReportOptions, ChainInv, IsCreated
<1>9. CASE UNCHANGED vars
  BY <1>2, <1>9 DEF vars, ChainInv, IsCreated, HeadersGiven
<1> QED
  BY <1>3, <1>4, <1>5, <1>6, <1>7, <1>8, <1>9 DEF Next

-----------------------------------------------------------------------------
(* What each layer does with an option, by the kind of the option          *)

\* Options that R only passes on, and the library looks for.
LEMMA InSpecKind ==
  ASSUME NEW o \in InSpec
  PROVE  /\ o # "NULL" /\ o \in HttpOptions /\ o \notin Tls \cup FileOptions
         /\ o \notin BatchOptions \cup ReaderOptions \cup {Temporality}
         /\ SourcesOf(o) = ArgEnv
         /\ LibraryDefault(o) = FirstGiven(o, Env, Default(o))
         /\ o # "compression" =>
              \A see : Checked(o, see) =
                IF "arg" \in see \cap Given(o) THEN Value(o, "arg") ELSE Null
         /\ o = "compression" => \A see : Checked(o, see) = as_choice(o, see)
<1>1. /\ o # "NULL" /\ o # "output" /\ o # "buffer_size"
      /\ o \notin Tls \cup Retry /\ o # "json_bytes_mapping"
      /\ o \notin FileOptions \cup BatchOptions \cup ReaderOptions \cup {Temporality}
  BY DEF InSpec, Tls, Retry, FileOptions, BatchOptions, ReaderOptions, Temporality
<1>2. o \in HttpOptions
  BY DEF HttpOptions
<1>3. \A see : /\ Checked(o, see) = as_http_exporter_options(o, see)
               /\ ~PartialMatch(o, see)
  BY <1>1, <1>2 DEF Checked, PartialMatch, Tls
<1> QED
  BY <1>1, <1>2, <1>3
  DEF SourcesOf, ArgEnv, Env, LibraryDefault, as_http_exporter_options

\* Options that both look for, in variables of their own.
LEMMA TlsRetryKind ==
  ASSUME NEW o \in Tls \cup Retry
  PROVE  /\ o # "NULL" /\ o \in HttpOptions /\ o \notin InSpec \cup FileOptions
         /\ o \notin BatchOptions \cup ReaderOptions \cup {Temporality}
         /\ o \in Retry => o \notin Tls
         /\ SourcesOf(o) = Sources
         /\ LibraryDefault(o) = FirstGiven(o, {"library"}, Default(o))
         /\ \A see : Checked(o, see) =
              IF PartialMatch(o, see) THEN Value("ssl_cipher_suite", "arg")
              ELSE FirstGiven(o, see, Default(o))
<1>1. /\ o # "NULL" /\ o # "output" /\ o # "buffer_size"
      /\ o \notin InSpec \cup {"json_bytes_mapping", "compression"}
      /\ o \notin FileOptions \cup BatchOptions \cup ReaderOptions \cup {Temporality}
      /\ o \in Retry => o \notin Tls
  BY DEF InSpec, Tls, Retry, FileOptions, BatchOptions, ReaderOptions, Temporality
<1>2. o \in HttpOptions
  BY DEF HttpOptions
<1>3. \A see : Checked(o, see) = as_http_exporter_options(o, see)
  BY <1>1, <1>2 DEF Checked
<1> QED
  BY <1>1, <1>2, <1>3
  DEF SourcesOf, Sources, LibraryDefault, as_http_exporter_options

\* Options that only R knows.
LEMMA NoSupportKind ==
  ASSUME NEW o \in NoSupport
  PROVE  /\ o # "NULL" /\ o \in HttpOptions /\ o \notin InSpec \cup Tls \cup FileOptions
         /\ o \notin BatchOptions \cup ReaderOptions \cup {Temporality}
         /\ SourcesOf(o) = ArgEnv
         /\ LibraryDefault(o) = Default(o)
         /\ o = "json_bytes_mapping" => \A see : Checked(o, see) = as_choice(o, see)
         /\ o # "json_bytes_mapping" =>
              \A see : Checked(o, see) = FirstGiven(o, see, Default(o))
<1>1. /\ o # "NULL" /\ o # "output" /\ o # "buffer_size"
      /\ o \notin InSpec \cup Tls \cup Retry \cup {"compression"}
      /\ o \notin FileOptions \cup BatchOptions \cup ReaderOptions \cup {Temporality}
  BY DEF InSpec, Tls, Retry, NoSupport, FileOptions, BatchOptions, ReaderOptions,
         Temporality
<1>2. o \in HttpOptions
  BY DEF HttpOptions
<1>3. \A see : /\ Checked(o, see) = as_http_exporter_options(o, see)
               /\ ~PartialMatch(o, see)
  BY <1>1, <1>2 DEF Checked, PartialMatch, Tls
<1> QED
  BY <1>1, <1>2, <1>3
  DEF SourcesOf, ArgEnv, Env, LibraryDefault, as_http_exporter_options

\* Options of the batch processors.
LEMMA BatchKind ==
  ASSUME NEW o \in BatchOptions
  PROVE  /\ o # "NULL" /\ o \notin InSpec \cup Tls \cup HttpOptions \cup FileOptions
         /\ SourcesOf(o) = {"arg", "general", "library"}
         /\ LibraryDefault(o) =
              FirstGiven(o, {IF signal = "logs" THEN "library" ELSE "general"},
                         Default(o))
         /\ \A see : Checked(o, see) =
              IF "arg" \in see \cap Given(o) THEN Value(o, "arg") ELSE Null
<1>1. /\ o # "NULL" /\ o # "output" /\ o # "buffer_size"
      /\ o \notin InSpec \cup Tls \cup Retry \cup NoSupport \cup FileOptions
      /\ o \notin ReaderOptions \cup {Temporality}
  BY DEF InSpec, Tls, Retry, NoSupport, FileOptions, BatchOptions, ReaderOptions,
         Temporality
<1>2. o \notin HttpOptions
  BY <1>1 DEF HttpOptions
<1>3. \A see : Checked(o, see) = as_batch_processor_options(o, see)
  BY <1>1, <1>2 DEF Checked
<1> QED
  BY <1>1, <1>2, <1>3 DEF SourcesOf, LibraryDefault, as_batch_processor_options

\* Options of the readers of metrics, and the temporality of their data.
LEMMA ReaderKind ==
  ASSUME NEW o \in ReaderOptions \cup {Temporality}
  PROVE  /\ o # "NULL" /\ o \notin InSpec \cup Tls \cup HttpOptions \cup FileOptions
         /\ o \notin BatchOptions
         /\ SourcesOf(o) = {"arg", "general"}
         /\ LibraryDefault(o) = Default(o)
         /\ o \in ReaderOptions =>
              o # Temporality /\ \A see : Checked(o, see) =
                             FirstGiven(o, see \ {"signal"}, Default(o))
         /\ o = Temporality => \A see : Checked(o, see) = as_choice(o, see)
<1>1. /\ o # "NULL" /\ o # "output" /\ o # "buffer_size"
      /\ o \notin InSpec \cup Tls \cup Retry \cup NoSupport \cup FileOptions \cup BatchOptions
      /\ o \in ReaderOptions => o # Temporality
      /\ o = Temporality => o \notin ReaderOptions
  BY DEF InSpec, Tls, Retry, NoSupport, FileOptions, BatchOptions, ReaderOptions,
         Temporality
<1>2. o \notin HttpOptions
  BY <1>1 DEF HttpOptions
<1>3. /\ o \in ReaderOptions => \A see : Checked(o, see) = as_metric_reader_options(o, see)
      /\ o = Temporality => \A see : Checked(o, see) = as_choice(o, see)
  BY <1>1, <1>2 DEF Checked
<1> QED
  BY <1>1, <1>2, <1>3 DEF SourcesOf, LibraryDefault, as_metric_reader_options

\* Options of the file exporters.
LEMMA FileKind ==
  ASSUME NEW o \in FileOptions
  PROVE  /\ o # "NULL" /\ o \notin InSpec \cup Tls \cup HttpOptions
         /\ o \notin BatchOptions \cup ReaderOptions \cup {Temporality}
         /\ SourcesOf(o) = ArgEnv
         /\ LibraryDefault(o) = Default(o)
         /\ \A see : Checked(o, see) = as_file_exporter_options(o, see)
<1>1. /\ o # "NULL" /\ o # "output" /\ o # "buffer_size"
      /\ o \notin InSpec \cup Tls \cup Retry \cup NoSupport
      /\ o \notin BatchOptions \cup ReaderOptions \cup {Temporality}
  BY DEF InSpec, Tls, Retry, NoSupport, FileOptions, BatchOptions, ReaderOptions,
         Temporality
<1>2. o \notin HttpOptions
  BY <1>1 DEF HttpOptions
<1>3. \A see : Checked(o, see) = as_file_exporter_options(o, see)
  BY <1>1, <1>2 DEF Checked
<1> QED
  BY <1>1, <1>2, <1>3 DEF SourcesOf, ArgEnv, Env, LibraryDefault

\* Options of the standard streams and of the exporters in memory.
LEMMA PlainKind ==
  ASSUME NEW o \in {"output", "buffer_size"}
  PROVE  /\ o # "NULL" /\ o \notin InSpec \cup Tls \cup HttpOptions \cup FileOptions
         /\ o \notin BatchOptions \cup ReaderOptions \cup {Temporality}
         /\ SourcesOf(o) = ArgEnv
         /\ LibraryDefault(o) = Default(o)
         /\ \A see : Checked(o, see) = FirstGiven(o, see, Default(o))
<1>1. /\ o # "NULL" /\ o \notin InSpec \cup Tls \cup Retry \cup NoSupport \cup FileOptions
      /\ o \notin BatchOptions \cup ReaderOptions \cup {Temporality}
  BY DEF InSpec, Tls, Retry, NoSupport, FileOptions, BatchOptions, ReaderOptions,
         Temporality
<1>2. o \notin HttpOptions
  BY <1>1 DEF HttpOptions
<1>3. \A see : Checked(o, see) = FirstGiven(o, see, Default(o))
  BY <1>1, <1>2 DEF Checked, as_stdstream_exporter_options, as_memory_exporter_options
<1> QED
  BY <1>1, <1>2, <1>3 DEF SourcesOf, ArgEnv, Env, LibraryDefault

-----------------------------------------------------------------------------
(* The OTLP/HTTP exporters *)

\* What R passes on.
Passed(o) ==
  LET v == Checked(o, ArgEnv)
  IN IF v = Null \/ (o \in Tls /\ v = Default(o)) THEN Null
     ELSE IF o \in HttpStrings THEN r2c_otel_string(v) ELSE v

\* A string with its NUL is still a value.
LEMMA WithNulIs ==
  ASSUME NEW o, o # "NULL", NEW from
  PROVE  /\ r2c_otel_string(Value(o, from)) # Null
         /\ r2c_otel_string(Value(o, from)) # Value(o, from)
<1>1. /\ r2c_otel_string(Value(o, from)).of = o
      /\ r2c_otel_string(Value(o, from)).end = "NUL"
      /\ Value(o, from).end = ""
  BY DEF r2c_otel_string, Value
<1>2. Null.end = ""
  BY DEF Null
<1> QED
  BY <1>1, <1>2, Zenon

\* A value is passed on, and a string with its NUL.
LEMMA PassedIs ==
  ASSUME NEW o, o # "NULL", NEW from, Checked(o, ArgEnv) = Value(o, from),
         o \in Tls => Value(o, from) # Default(o)
  PROVE  /\ Passed(o) # Null
         /\ Passed(o) = IF o \in HttpStrings THEN r2c_otel_string(Value(o, from))
                        ELSE Value(o, from)
<1>1. Value(o, from) # Null
  BY Named
<1> QED
  BY <1>1, WithNulIs DEF Passed

\* What the exporter gets: what R passes on, or else what the library finds,
\* but for the path of the client's key, which takes another option's place.
LEMMA HttpUsed ==
  ASSUME ChainInv, IsCreated, exporter = "http", NEW o \in Options
  PROVE  /\ o \in InSpec \cup Tls \cup Retry \cup NoSupport \cup BatchOptions
                  \cup ReaderOptions \cup {Temporality}
         /\ copts[o] = Passed(o)
         /\ ~(/\ o = "ssl_ca_cert_string"
              /\ "arg" \in Given("ssl_client_key_path")) =>
              used[o] = IF o # "ssl_client_key_path" /\ Passed(o) # Null
                        THEN Passed(o) ELSE LibraryDefault(o)
<1> DEFINE key == "ssl_client_key_path"
           ca == "ssl_ca_cert_string"
           f == [x \in Options |-> LibraryDefault(x)]
           g == c2cc_otel_http_exporter_options(copts, f)
           S == IF signal = "metrics" THEN ReaderOptions \cup {Temporality}
                ELSE BatchOptions
<1>1. Options = HttpOptions \cup S /\ signal \in Signals
  BY DEF Options, OptionsOf, ChainInv, InputInv
<1>2. /\ ropts = [x \in Options |-> Checked(x, ArgEnv)]
      /\ copts = r2c_otel_http_exporter_options(ropts)
      /\ used = Created(copts, f)
  BY DEF ChainInv, IsCreated, Converted
<1>3. /\ DOMAIN copts = Options
      /\ \A x \in Options : copts[x] = Passed(x)
  BY <1>2 DEF r2c_otel_http_exporter_options, Passed
<1>4. used = Assigned(copts, S, g)
  <2>1. CASE signal = "traces"
    BY <1>2, <2>1 DEF Created, otel_create_tracer_provider_http_
  <2>2. CASE signal = "logs"
    BY <1>2, <2>2 DEF Created, otel_create_logger_provider_http_
  <2>3. CASE signal = "metrics"
    BY <1>2, <2>3 DEF Created, otel_create_meter_provider_http_
  <2> QED
    BY <1>1, <2>1, <2>2, <2>3 DEF Signals
<1>5. /\ key \in InSpec /\ ca \in InSpec /\ key # "compression" /\ key # ca
      /\ key \in Options /\ ca \in HttpOptions
  BY <1>1 DEF InSpec, HttpOptions
<1>6. copts[key] # Null => "arg" \in Given(key)
  <2>1. /\ key \notin Tls
        /\ Checked(key, ArgEnv) = IF "arg" \in ArgEnv \cap Given(key)
                                  THEN Value(key, "arg") ELSE Null
    BY <1>5, InSpecKind
  <2> QED
    BY <1>3, <1>5, <2>1 DEF ArgEnv, Passed
<1> HIDE DEF S, key, ca
<1>8. /\ DOMAIN g = Options
      /\ \A x \in Options :
           ~(x = ca /\ copts[key] # Null) =>
           g[x] = IF x \in HttpOptions \ {key} /\ copts[x] # Null THEN copts[x]
                  ELSE LibraryDefault(x)
  BY <1>1, <1>5 DEF c2cc_otel_http_exporter_options, Assigned, key, ca
<1> HIDE DEF g, f
<1>9. used[o] = IF o \in S /\ copts[o] # Null THEN copts[o] ELSE g[o]
  BY <1>4, <1>8 DEF Assigned
<1>10. o \in S => o \notin HttpOptions
  BY BatchKind, ReaderKind DEF S
<1>11. ~(o = ca /\ "arg" \in Given(key)) =>
         used[o] = IF o # key /\ copts[o] # Null THEN copts[o]
                 ELSE LibraryDefault(o)
  <2>1. CASE o \in S
    <3>1. o # ca /\ o # key
      BY <1>5, <1>10, <2>1 DEF HttpOptions
    <3> QED
      BY <1>8, <1>9, <1>10, <2>1, <3>1
  <2>2. CASE o \notin S
    BY <1>1, <1>6, <1>8, <1>9, <2>2
  <2> QED
    BY <2>1, <2>2
<1> QED
  BY <1>1, <1>3, <1>11 DEF HttpOptions, S, key, ca

\* OptionsArrive and ReportedAsUsed of one option.
Arrives(o) ==
  \/ used[o] = Documented(o)
  \/ ChoiceFromEnv(o) \/ KeyForCertificate(o) \/ TemporalityUnused(o)
  \/ FlushTooEarly(o) \/ LibraryLooks(o) \/ CipherFromSuite(o)
  \/ OtherVariables(o) \/ WithNul(o)

Reported(o) ==
  \/ reported[o] = used[o]
  \/ o \in Tls /\ r2c_otel_string(reported[o]) = used[o]
  \/ o \in {"timeout", "flush_interval"}
  \/ o \in {"http_headers", "compression"} /\ Given(o) /= {}
  \/ o \in FileOptions /\ Given(o) \cup Given("file_pattern") /= {}
  \/ LibraryLooks(o)

\* An option that is passed on arrives.
LEMMA PassedArrives ==
  ASSUME NEW o, o # "NULL", Checked(o, ArgEnv) = Documented(o),
         NEW from, Documented(o) = Value(o, from),
         o \in Tls => Documented(o) # Default(o),
         used[o] = IF Passed(o) # Null THEN Passed(o) ELSE LibraryDefault(o)
  PROVE  Arrives(o)
<1>1. /\ Passed(o) # Null
      /\ Passed(o) = IF o \in HttpStrings THEN r2c_otel_string(Value(o, from))
                     ELSE Value(o, from)
  BY PassedIs
<1> QED
  BY <1>1 DEF Arrives, WithNul

\* What is documented, and what is given as an argument, is a value.
LEMMA FirstIsValue ==
  ASSUME NEW o, NEW see
  PROVE  \E from : FirstGiven(o, see, Default(o)) = Value(o, from)
BY DEF FirstGiven, Default

\* Without an argument it makes no difference whether arguments are seen.
LEMMA NoArgument ==
  ASSUME NEW o, "arg" \notin Given(o)
  PROVE  \A otherwise :
           FirstGiven(o, ArgEnv, otherwise) = FirstGiven(o, Env, otherwise)
<1>1. ArgEnv \cap Given(o) = Env \cap Given(o)
  BY DEF ArgEnv
<1> QED
  BY <1>1 DEF FirstGiven

\* Every option of an OTLP/HTTP exporter arrives.
LEMMA HttpArrives ==
  ASSUME ChainInv, IsCreated, exporter = "http", NEW o \in Options
  PROVE  Arrives(o)
<1> DEFINE key == "ssl_client_key_path"
<1>1. Given(o) \subseteq SourcesOf(o) /\ SourcesOf(o) \subseteq Sources /\ ~stream
  BY DEF ChainInv, InputInv, SourcesOf, Sources
<1>0. Given(o) \subseteq Sources
  BY <1>1
<1>2. Documented(o) = FirstGiven(o, ArgEnv, Default(o))
  <2>1. o # "alias_pattern"
    BY HttpUsed DEF InSpec, Tls, Retry, NoSupport, BatchOptions, ReaderOptions,
                    Temporality
  <2> QED
    BY <2>1 DEF Documented
<1>3. "arg" \in Given(o) => FirstGiven(o, ArgEnv, Default(o)) = Value(o, "arg")
  BY <1>1, FirstGivenIs DEF ArgEnv
<1>4. "arg" \notin Given(o) =>
        FirstGiven(o, ArgEnv, Default(o)) = FirstGiven(o, Env, Default(o))
  BY NoArgument
<1>5. Given(o) = {} => \A see : FirstGiven(o, see, Default(o)) = Default(o)
  BY DEF FirstGiven
<1>6. CASE o \in {key, "ssl_ca_cert_string"} /\ "arg" \in Given(key)
  BY <1>6 DEF Arrives, KeyForCertificate
<1>7. CASE o = key /\ "arg" \notin Given(key)
  <2>1. o \in InSpec
    BY <1>7 DEF InSpec
  <2> QED
    BY <1>2, <1>4, <1>7, <2>1, InSpecKind, HttpUsed DEF Arrives
<1>8. CASE o # key /\ ~(o = "ssl_ca_cert_string" /\ "arg" \in Given(key))
  <2>0. /\ used[o] = IF Passed(o) # Null THEN Passed(o) ELSE LibraryDefault(o)
        /\ \E from : Documented(o) = Value(o, from)
    BY <1>2, <1>8, HttpUsed, FirstIsValue
  <2>1. CASE o \in InSpec /\ o # "compression"
    <3>1. /\ Checked(o, ArgEnv) = IF "arg" \in ArgEnv \cap Given(o)
                                  THEN Value(o, "arg") ELSE Null
          /\ LibraryDefault(o) = FirstGiven(o, Env, Default(o))
          /\ o # "NULL" /\ o \notin Tls
      BY <2>1, InSpecKind
    <3>2. CASE "arg" \in Given(o)
      <4>1. Checked(o, ArgEnv) = Documented(o) /\ Documented(o) = Value(o, "arg")
        BY <1>2, <1>3, <3>1, <3>2 DEF ArgEnv
      <4> QED
        BY <2>0, <3>1, <4>1, PassedArrives
    <3>3. CASE "arg" \notin Given(o)
      <4>1. Passed(o) = Null
        BY <3>1, <3>3 DEF Passed
      <4> QED
        BY <1>2, <1>4, <2>0, <3>1, <3>3, <4>1 DEF Arrives
    <3> QED
      BY <3>2, <3>3
  <2>2. CASE o \in {"compression", "json_bytes_mapping", Temporality}
    <3>1. /\ o # "NULL" /\ o \notin Tls
          /\ Checked(o, ArgEnv) = as_choice(o, ArgEnv)
      BY <2>2, InSpecKind, NoSupportKind, ReaderKind DEF InSpec, NoSupport
    <3>2. Checked(o, ArgEnv) = IF "arg" \in Given(o) THEN Value(o, "arg")
                               ELSE Default(o)
      BY <3>1 DEF as_choice, ArgEnv
    <3>3. CASE "arg" \in Given(o)
      <4>1. Checked(o, ArgEnv) = Documented(o)
        BY <1>2, <1>3, <3>2, <3>3
      <4> QED
        BY <2>0, <3>1, <4>1, PassedArrives
    <3>4. CASE Given(o) = {}
      <4>1. Checked(o, ArgEnv) = Documented(o)
        BY <1>2, <1>5, <3>2, <3>4
      <4> QED
        BY <2>0, <3>1, <4>1, PassedArrives
    <3>5. CASE "arg" \notin Given(o) /\ Given(o) # {}
      BY <2>2, <3>5 DEF Arrives, ChoiceFromEnv
    <3> QED
      BY <3>3, <3>4, <3>5
  <2>3. CASE o \in Tls
    <3>1. /\ ~PartialMatch(o, ArgEnv) => Checked(o, ArgEnv) = Documented(o)
          /\ LibraryDefault(o) = FirstGiven(o, {"library"}, Default(o))
          /\ o # "NULL"
      BY <1>2, <2>3, TlsRetryKind
    <3>2. CASE PartialMatch(o, ArgEnv)
      BY <3>2 DEF Arrives, CipherFromSuite
    <3>3. CASE ~PartialMatch(o, ArgEnv) /\ Documented(o) # Default(o)
      BY <2>0, <3>1, <3>3, PassedArrives
    <3>4. CASE ~PartialMatch(o, ArgEnv) /\ Documented(o) = Default(o)
      <4>0. Passed(o) = Null
        BY <2>3, <3>1, <3>4 DEF Passed
      <4>1. ArgEnv \cap Given(o) = {}
        <5>1. ArgEnv \cap Given(o) # {}
                => FirstGiven(o, ArgEnv, Default(o)) # Default(o)
          BY <1>0, FirstGivenIs, Zenon
        <5> QED
          BY <1>2, <3>4, <5>1
      <4>2. Given(o) \subseteq {"library"}
        BY <1>1, <4>1 DEF Sources, ArgEnv, Env
      <4>3. Given(o) = {} => used[o] = Documented(o)
        BY <1>2, <1>5, <2>0, <3>1, <3>4, <4>0
      <4> QED
        BY <2>3, <4>2, <4>3 DEF Arrives, LibraryLooks
    <3> QED
      BY <3>2, <3>3, <3>4
  <2>4. CASE o \in Retry \cup (NoSupport \ {"json_bytes_mapping"}) \cup ReaderOptions
    <3>1. o # "NULL" /\ o \notin Tls /\ Checked(o, ArgEnv) = Documented(o)
      <4>1. CASE o \in Retry \cup (NoSupport \ {"json_bytes_mapping"})
        <5>1. ~PartialMatch(o, ArgEnv)
          BY <4>1 DEF PartialMatch, Retry, NoSupport
        <5> QED
          BY <1>2, <4>1, <5>1, TlsRetryKind, NoSupportKind
      <4>2. CASE o \in ReaderOptions
        <5>1. /\ o # "NULL" /\ o \notin Tls
              /\ Checked(o, ArgEnv) = FirstGiven(o, ArgEnv \ {"signal"}, Default(o))
              /\ SourcesOf(o) = {"arg", "general"}
          BY <4>2, ReaderKind
        <5>2. (ArgEnv \ {"signal"}) \cap Given(o) = ArgEnv \cap Given(o)
          BY <1>1, <5>1
        <5> QED
          BY <1>2, <5>1, <5>2 DEF FirstGiven
      <4> QED
        BY <2>4, <4>1, <4>2
    <3> QED
      BY <2>0, <3>1, PassedArrives
  <2>5. CASE o \in BatchOptions
    <3>1. /\ Checked(o, ArgEnv) = IF "arg" \in ArgEnv \cap Given(o)
                                  THEN Value(o, "arg") ELSE Null
          /\ LibraryDefault(o) =
               FirstGiven(o, {IF signal = "logs" THEN "library" ELSE "general"},
                          Default(o))
          /\ SourcesOf(o) = {"arg", "general", "library"}
          /\ o # "NULL" /\ o \notin Tls
      BY <2>5, BatchKind
    <3>2. CASE "arg" \in Given(o)
      <4>1. Checked(o, ArgEnv) = Documented(o)
        BY <1>2, <1>3, <3>1, <3>2 DEF ArgEnv
      <4> QED
        BY <2>0, <3>1, <4>1, PassedArrives
    <3>3. CASE "arg" \notin Given(o)
      <4>1. Passed(o) = Null
        BY <3>1, <3>3 DEF Passed
      <4>2. CASE Given(o) = {}
        <5>1. LibraryDefault(o) = Default(o)
          BY <3>1, <4>2 DEF FirstGiven
        <5> QED
          BY <1>2, <1>5, <2>0, <4>1, <4>2, <5>1 DEF Arrives
      <4>3. CASE signal = "logs" /\ Given(o) # {}
        BY <2>5, <3>3, <4>3 DEF Arrives, OtherVariables
      <4>4. CASE signal # "logs"
        <5>1. Env \cap Given(o) = {"general"} \cap Given(o)
          BY <1>1, <3>1 DEF Env
        <5>2. LibraryDefault(o) = FirstGiven(o, Env, Default(o))
          BY <3>1, <4>4, <5>1 DEF FirstGiven
        <5> QED
          BY <1>2, <1>4, <2>0, <3>3, <4>1, <5>2 DEF Arrives
      <4> QED
        BY <4>2, <4>3, <4>4
    <3> QED
      BY <3>2, <3>3
  <2> QED
    BY <2>1, <2>2, <2>3, <2>4, <2>5, HttpUsed
<1> QED
  BY <1>6, <1>7, <1>8

-----------------------------------------------------------------------------
(* The other exporters *)

\* What a reader of metrics is asked for is what is documented.
LEMMA ReaderChecked ==
  ASSUME InputInv, NEW o \in ReaderOptions
  PROVE  /\ Checked(o, ArgEnv) = FirstGiven(o, ArgEnv, Default(o))
         /\ Checked(o, ArgEnv) = Documented(o)
         /\ Checked(o, ArgEnv) # Null
<1>1. /\ o # "NULL" /\ o # "alias_pattern" /\ SourcesOf(o) = {"arg", "general"}
      /\ Checked(o, ArgEnv) = FirstGiven(o, ArgEnv \ {"signal"}, Default(o))
  BY ReaderKind DEF ReaderOptions
<1>2. Given(o) \subseteq {"arg", "general"}
  BY <1>1 DEF InputInv
<1>3. (ArgEnv \ {"signal"}) \cap Given(o) = ArgEnv \cap Given(o)
  BY <1>2
<1>4. Checked(o, ArgEnv) = FirstGiven(o, ArgEnv, Default(o))
  BY <1>1, <1>3 DEF FirstGiven
<1>5. Given(o) \subseteq Sources
  BY <1>2 DEF Sources
<1>6. Checked(o, ArgEnv) # Null
  BY <1>1, <1>4, <1>5, Found
<1> QED
  BY <1>1, <1>4, <1>6 DEF Documented

\* A string is itself again when it is read up to its NUL.
LEMMA TextIs ==
  ASSUME NEW v,
         v = Null \/ \E o, from : o # "NULL" /\ v = Value(o, from)
  PROVE  /\ Text(v) = v
         /\ v # Null => Text(r2c_otel_string(v)) = v /\ r2c_otel_string(v) # Null
<1>1. PICK a, b, c : v = [of |-> a, from |-> b, unit |-> c, end |-> ""]
  BY DEF Null, Value
<1>2. Text(v) = v /\ Text(r2c_otel_string(v)) = v
  <2> DEFINE s == Text(v)
             t == Text(r2c_otel_string(v))
  <2>1. /\ DOMAIN s = DOMAIN v /\ \A x \in DOMAIN v : s[x] = v[x]
        /\ DOMAIN t = DOMAIN v /\ \A x \in DOMAIN v : t[x] = v[x]
    <3>1. "end" \in DOMAIN v /\ v["end"] = ""
      BY <1>1
    <3>2. /\ DOMAIN s = DOMAIN v /\ s["end"] = ""
          /\ \A x \in DOMAIN v \ {"end"} : s[x] = v[x]
      BY <3>1 DEF Text
    <3>3. /\ DOMAIN t = DOMAIN v /\ t["end"] = ""
          /\ \A x \in DOMAIN v \ {"end"} : t[x] = v[x]
      BY <3>1 DEF Text, r2c_otel_string
    <3> QED
      BY <3>1, <3>2, <3>3
  <2>2. /\ s = [x \in DOMAIN s |-> s[x]] /\ t = [x \in DOMAIN t |-> t[x]]
        /\ v = [x \in DOMAIN v |-> v[x]]
    BY <1>1 DEF Text, r2c_otel_string
  <2> QED
    BY <2>1, <2>2
<1>3. v # Null => r2c_otel_string(v) # Null
  BY WithNulIs
<1> QED
  BY <1>2, <1>3

\* What R makes of an option of the file exporters.
LEMMA FileChecked ==
  ASSUME NEW o \in FileOptions
  PROVE  \/ Checked(o, ArgEnv) = Null
         \/ \E o2, from : o2 # "NULL" /\ Checked(o, ArgEnv) = Value(o2, from)
<1>1. /\ Checked(o, ArgEnv) = as_file_exporter_options(o, ArgEnv)
      /\ o # "NULL" /\ "file_pattern" # "NULL"
  BY FileKind
<1> QED
  BY <1>1 DEF as_file_exporter_options, FirstGiven

\* What a file exporter gets: without a stream, what R passes on, in another
\* unit if it is an interval; with one, only the name of the stream.
LEMMA FileUsed ==
  ASSUME ChainInv, IsCreated, exporter = "file", NEW o \in Options
  PROVE  /\ o \in FileOptions \cup ReaderOptions
         /\ o \in ReaderOptions => used[o] = Checked(o, ArgEnv)
         /\ o \in FileOptions /\ ~stream /\ Checked(o, ArgEnv) = Null =>
              used[o] = Default(o)
         /\ /\ o \in FileOptions /\ ~stream /\ o # "flush_interval"
            /\ Checked(o, ArgEnv) # Null
            => used[o] = Checked(o, ArgEnv)
         /\ o = "file_pattern" /\ stream => used[o] = Checked(o, ArgEnv)
<1> DEFINE patterns == {"file_pattern", "alias_pattern"}
           text == [x \in DOMAIN copts |-> Text(copts[x])]
           f == [x \in Options |-> LibraryDefault(x)]
           g == c2cc_file_exporter_backend(copts, f)
           S == IF signal = "metrics" THEN ReaderOptions ELSE {}
<1>1. Options = FileOptions \cup S /\ signal \in Signals
  BY DEF Options, OptionsOf, ChainInv, InputInv
<1>2. /\ copts = [x \in Options |->
                   IF Checked(x, ArgEnv) # Null /\ x \in patterns
                   THEN r2c_otel_string(Checked(x, ArgEnv)) ELSE Checked(x, ArgEnv)]
      /\ used = Created(copts, f)
  BY DEF ChainInv, IsCreated, Converted, r2c_otel_file_exporter_options
<1>3. /\ DOMAIN copts = Options /\ DOMAIN text = Options
      /\ \A x \in Options : x \notin FileOptions => copts[x] = Checked(x, ArgEnv)
      /\ \A x \in FileOptions : x \in Options =>
           /\ text[x] = Checked(x, ArgEnv)
           /\ copts[x] = Null <=> Checked(x, ArgEnv) = Null
  <2>1. /\ DOMAIN copts = Options /\ DOMAIN text = Options
        /\ \A x \in Options : text[x] = Text(copts[x])
        /\ \A x \in Options : x \notin FileOptions => copts[x] = Checked(x, ArgEnv)
    BY <1>2 DEF FileOptions
  <2>2. ASSUME NEW x \in FileOptions, x \in Options
        PROVE  /\ text[x] = Checked(x, ArgEnv)
               /\ copts[x] = Null <=> Checked(x, ArgEnv) = Null
    <3> DEFINE v == Checked(x, ArgEnv)
    <3>1. \/ v = Null
          \/ \E o2, from : o2 # "NULL" /\ v = Value(o2, from)
      BY FileChecked
    <3>2. /\ Text(v) = v
          /\ v # Null => Text(r2c_otel_string(v)) = v /\ r2c_otel_string(v) # Null
      BY <3>1, TextIs
    <3> QED
      BY <1>2, <2>1, <2>2, <3>2
  <2> QED
    BY <2>1, <2>2
<1>4. used = Assigned(copts, S, g) \/ (S = {} /\ used = g)
  <2>1. CASE signal = "traces"
    BY <1>2, <2>1 DEF Created, otel_create_tracer_provider_file_
  <2>2. CASE signal = "logs"
    BY <1>2, <2>2 DEF Created, otel_create_logger_provider_file_
  <2>3. CASE signal = "metrics"
    BY <1>2, <2>3 DEF Created, otel_create_meter_provider_file_
  <2> QED
    BY <1>1, <2>1, <2>2, <2>3 DEF Signals
<1>5. \A x \in Options : x \in S => x \notin FileOptions
  BY ReaderKind DEF S
<1>6. "file_pattern" \in FileOptions /\ "flush_interval" \in FileOptions
  BY DEF FileOptions
<1> HIDE DEF S, text
<1>7. /\ DOMAIN g = Options
      /\ stream => g["file_pattern"] = text["file_pattern"]
      /\ ~stream => \A x \in FileOptions :
           /\ text[x] = Null => g[x] = LibraryDefault(x)
           /\ text[x] # Null /\ x # "flush_interval" => g[x] = text[x]
  <2>1. CASE stream
    <3>1. g = [f EXCEPT !["file_pattern"] = Text(copts["file_pattern"])]
      BY <2>1 DEF c2cc_file_exporter_backend
    <3>2. text["file_pattern"] = Text(copts["file_pattern"])
      BY <1>1, <1>3, <1>6 DEF text
    <3> QED
      BY <1>1, <1>6, <2>1, <3>1, <3>2
  <2>2. CASE ~stream
    <3> DEFINE a == Assigned(text, FileOptions, f)
    <3>1. /\ DOMAIN a = Options
          /\ \A x \in Options : a[x] = IF x \in FileOptions /\ text[x] # Null
                                       THEN text[x] ELSE LibraryDefault(x)
      BY DEF Assigned
    <3>2. g = IF copts["flush_interval"] = Null THEN a
              ELSE [a EXCEPT !["flush_interval"].unit = "us"]
      BY <2>2 DEF c2cc_file_exporter_backend, c2cc_file_exporter_options, text
    <3> HIDE DEF g, a
    <3>3. /\ DOMAIN g = Options
          /\ \A x \in Options : x # "flush_interval" => g[x] = a[x]
          /\ text["flush_interval"] = Null => g = a
      BY <1>1, <1>3, <1>6, <3>1, <3>2
    <3> QED
      BY <1>1, <2>2, <3>1, <3>3
  <2> QED
    BY <2>1, <2>2
<1> HIDE DEF g, f
<1>8. /\ o \in S => used[o] = IF copts[o] # Null THEN copts[o] ELSE g[o]
      /\ o \notin S => used[o] = g[o]
  BY <1>4, <1>7 DEF Assigned
<1>9. o \in S => o \in ReaderOptions
  BY DEF S
<1>10. o \in S => used[o] = Checked(o, ArgEnv)
  BY <1>3, <1>5, <1>8, <1>9, ReaderChecked DEF ChainInv
<1>11. o \in ReaderOptions => o \notin FileOptions
  BY ReaderKind
<1>12. o \in FileOptions => LibraryDefault(o) = Default(o) /\ o \notin S
  BY <1>5, FileKind
<1> QED
  BY <1>1, <1>3, <1>6, <1>7, <1>8, <1>9, <1>10, <1>11, <1>12

\* Every option of a file exporter arrives.
LEMMA FileArrives ==
  ASSUME ChainInv, IsCreated, exporter = "file", NEW o \in Used
  PROVE  Arrives(o)
<1>1. o \in Options /\ (stream /\ o \in FileOptions => o = "file_pattern")
  BY DEF Used
<1>2. CASE o \in ReaderOptions
  BY <1>1, <1>2, ReaderChecked, FileUsed DEF Arrives, ChainInv
<1>3. CASE o \in FileOptions
  <2> DEFINE pattern == "file_pattern"
  <2>1. /\ \A x : Given(x) \subseteq SourcesOf(x)
        /\ stream => Given(pattern) # {}
    BY DEF ChainInv, InputInv
  <2>2. /\ pattern \in FileOptions /\ pattern # "alias_pattern" /\ pattern # "NULL"
        /\ pattern # "flush_interval"
    BY DEF FileOptions
  <2>3. ArgEnv \cap Given(o) = Given(o) /\ ArgEnv \cap Given(pattern) = Given(pattern)
    BY <1>3, <2>1, <2>2, FileKind
  <2>4. Checked(o, ArgEnv) = FirstGiven(o, ArgEnv,
                     IF o = "alias_pattern" /\ ~stream
                     THEN FirstGiven(pattern, ArgEnv, Null) ELSE Null)
    BY <1>1, <1>3, FileKind DEF as_file_exporter_options
  <2>5. \A x \in {o, pattern} : Given(x) # {} => \A otherwise, otherwise2 :
          /\ FirstGiven(x, ArgEnv, otherwise) = FirstGiven(x, ArgEnv, otherwise2)
          /\ FirstGiven(x, ArgEnv, otherwise) # Null
    <3> TAKE x \in {o, pattern}
    <3>1. ArgEnv \cap Given(x) = Given(x) /\ x # "NULL"
      BY <1>3, <2>2, <2>3, FileKind
    <3> QED
      BY <3>1, Named DEF FirstGiven
  <2>6. \A x \in {o, pattern} : Given(x) = {} => \A otherwise :
          FirstGiven(x, ArgEnv, otherwise) = otherwise
    BY DEF FirstGiven
  <2> HIDE DEF pattern
  <2>7. CASE Given(o) # {}
    <3>1. CASE o = "flush_interval"
      BY <2>7, <3>1 DEF Arrives, FlushTooEarly
    <3>2. CASE o # "flush_interval"
      <4>1. Checked(o, ArgEnv) = Documented(o) /\ Checked(o, ArgEnv) # Null
        BY <2>4, <2>5, <2>7 DEF Documented
      <4> QED
        BY <1>1, <1>3, <3>2, <4>1, FileUsed DEF Arrives, pattern
    <3> QED
      BY <3>1, <3>2
  <2>8. CASE Given(o) = {} /\ o # "alias_pattern"
    <3>1. Checked(o, ArgEnv) = Null /\ Documented(o) = Default(o)
      BY <2>4, <2>6, <2>8 DEF Documented
    <3>2. ~stream
      BY <1>1, <1>3, <2>1, <2>8 DEF pattern
    <3> QED
      BY <1>1, <1>3, <3>1, <3>2, FileUsed DEF Arrives
  <2>9. CASE Given(o) = {} /\ o = "alias_pattern"
    <3>1. ~stream
      BY <1>1, <1>3, <2>2, <2>9 DEF pattern
    <3>2. /\ Checked(o, ArgEnv) = FirstGiven(pattern, ArgEnv, Null)
          /\ Documented(o) = FirstGiven(pattern, ArgEnv, Default(o))
      BY <2>4, <2>6, <2>9, <3>1 DEF Documented, pattern
    <3>3. o # "flush_interval"
      BY <2>9
    <3>4. CASE Given(pattern) = {}
      BY <1>1, <1>3, <2>6, <3>1, <3>2, <3>4, FileUsed DEF Arrives
    <3>5. CASE Given(pattern) # {}
      BY <1>1, <1>3, <2>5, <3>1, <3>2, <3>3, <3>5, FileUsed DEF Arrives
    <3> QED
      BY <3>4, <3>5
  <2> QED
    BY <2>7, <2>8, <2>9
<1> QED
  BY <1>1, <1>2, <1>3, FileUsed

\* What the other exporters get.
LEMMA PlainUsed ==
  ASSUME ChainInv, IsCreated, exporter \in {"stdstream", "memory"}, NEW o \in Options
  PROVE  /\ o \in {"output", "buffer_size"} \cup ReaderOptions \cup {Temporality}
         /\ exporter = "stdstream" => o # Temporality
         /\ o # Temporality => used[o] = Documented(o)
                               /\ Checked(o, ArgEnv) = Documented(o)
         /\ o = Temporality => used[o] = Default(o)
<1> DEFINE f == [x \in Options |-> LibraryDefault(x)]
           one == IF exporter = "stdstream" THEN "output" ELSE "buffer_size"
           S == {one} \cup IF signal = "metrics" THEN ReaderOptions ELSE {}
<1>1. /\ Options = {one} \cup IF signal # "metrics" THEN {}
                              ELSE IF exporter = "stdstream" THEN ReaderOptions
                              ELSE ReaderOptions \cup {Temporality}
      /\ signal \in Signals
  BY DEF Options, OptionsOf, ChainInv, InputInv
<1>2. /\ copts = [x \in Options |-> Checked(x, ArgEnv)]
      /\ used = Created(copts, f)
  BY DEF ChainInv, IsCreated, Converted
<1>3. used = Assigned(copts, S, f)
  <2> USE DEF Created, otel_create_tracer_provider_stdstream_,
        otel_create_tracer_provider_memory_, otel_create_logger_provider_stdstream_,
        otel_create_logger_provider_memory_, otel_create_meter_provider_stdstream_,
        otel_create_meter_provider_memory_
  <2>1. CASE signal = "traces" /\ exporter = "stdstream"
    BY <1>2, <2>1
  <2>2. CASE signal = "logs" /\ exporter = "stdstream"
    BY <1>2, <2>2
  <2>3. CASE signal = "metrics" /\ exporter = "stdstream"
    BY <1>2, <2>3
  <2>4. CASE signal = "traces" /\ exporter = "memory"
    BY <1>2, <2>4
  <2>5. CASE signal = "logs" /\ exporter = "memory"
    BY <1>2, <2>5
  <2>6. CASE signal = "metrics" /\ exporter = "memory"
    BY <1>2, <2>6
  <2> QED
    BY <1>1, <2>1, <2>2, <2>3, <2>4, <2>5, <2>6 DEF Signals
<1>4. used[o] = IF o \in S /\ Checked(o, ArgEnv) # Null THEN Checked(o, ArgEnv)
                ELSE LibraryDefault(o)
  BY <1>2, <1>3 DEF Assigned
<1>5. one \in {"output", "buffer_size"} /\ one # Temporality /\ one # "alias_pattern"
  BY DEF Temporality
<1> HIDE DEF one
<1>6. CASE o = one
  <2>1. /\ Checked(o, ArgEnv) = FirstGiven(o, ArgEnv, Default(o))
        /\ o # "NULL" /\ SourcesOf(o) = ArgEnv
    BY <1>5, <1>6, PlainKind
  <2>2. Given(o) \subseteq Sources
    BY <2>1 DEF ChainInv, InputInv, ArgEnv, Env, Sources
  <2>3. Checked(o, ArgEnv) # Null
    BY <2>1, <2>2, Found
  <2> QED
    BY <1>4, <1>5, <1>6, <2>1, <2>3 DEF Documented
<1>7. CASE o \in ReaderOptions /\ o \in Options
  <2>1. signal = "metrics" \/ o = one
    BY <1>1
  <2>2. o # Temporality
    BY <1>7, ReaderKind
  <2>3. /\ Checked(o, ArgEnv) = Documented(o) /\ Checked(o, ArgEnv) # Null
    BY <1>7, ReaderChecked DEF ChainInv
  <2>4. o \in S
    BY <1>7, <2>1
  <2> QED
    BY <1>4, <1>7, <2>2, <2>3, <2>4
<1>8. CASE o = Temporality
  <2>1. o \notin S /\ LibraryDefault(o) = Default(o)
    BY <1>5, <1>8, ReaderKind
  <2>2. exporter # "stdstream"
    BY <1>1, <1>5, <1>8, ReaderKind
  <2> QED
    BY <1>4, <1>8, <2>1, <2>2
<1> QED
  BY <1>1, <1>5, <1>6, <1>7, <1>8

\* Every option of the other exporters arrives.
LEMMA PlainArrives ==
  ASSUME ChainInv, IsCreated, exporter \in {"stdstream", "memory"}, NEW o \in Options
  PROVE  Arrives(o)
<1>1. CASE o # Temporality
  BY <1>1, PlainUsed DEF Arrives
<1>2. CASE o = Temporality
  <2>1. used[o] = Default(o) /\ exporter = "memory"
    BY <1>2, PlainUsed
  <2>2. CASE Given(o) # {}
    BY <1>2, <2>1, <2>2 DEF Arrives, TemporalityUnused
  <2>3. CASE Given(o) = {}
    <3>1. o # "alias_pattern"
      BY <1>2 DEF Temporality
    <3>2. Documented(o) = Default(o)
      BY <2>3, <3>1 DEF Documented, FirstGiven
    <3> QED
      BY <2>1, <3>2 DEF Arrives
  <2> QED
    BY <2>2, <2>3
<1> QED
  BY <1>1, <1>2

-----------------------------------------------------------------------------
(* What options() returns *)

\* Of an option of an OTLP/HTTP exporter options() returns what a provider
\* that is created without arguments uses.
LEMMA HttpReported ==
  ASSUME ChainInv, phase = "reported", exporter = "http", NEW o \in Options,
         \A x \in Options : "arg" \notin Given(x)
  PROVE  Reported(o)
<1>1. IsCreated /\ reported[o] = Reports(o)
  BY DEF ChainInv, IsCreated
<1>2. /\ "arg" \notin Given(o) /\ "arg" \notin Given("ssl_client_key_path")
      /\ Given(o) \subseteq SourcesOf(o)
  <2>1. "ssl_client_key_path" \in Options
    BY DEF Options, OptionsOf, HttpOptions, InSpec
  <2> QED
    BY <2>1 DEF ChainInv, InputInv
<1>3. /\ used[o] = IF o # "ssl_client_key_path" /\ Passed(o) # Null THEN Passed(o)
                   ELSE LibraryDefault(o)
      /\ o \in InSpec \cup Tls \cup Retry \cup NoSupport \cup BatchOptions
               \cup ReaderOptions \cup {Temporality}
  BY <1>1, <1>2, HttpUsed
<1>4. CASE o \in InSpec
  <2>0. Reports(o) = otel_provider_http_default_options(o)
    <3>1. o \notin BatchOptions /\ o \notin FileOptions
      BY <1>4, InSpecKind
    <3> QED
      BY <1>4, <3>1 DEF Reports
  <2>1. o \in {"timeout", "http_headers"} \/ Reports(o) = LibraryDefault(o)
    BY <2>0 DEF otel_provider_http_default_options
  <2>2. CASE o # "compression"
    <3>1. Passed(o) = Null
      BY <1>2, <1>4, <2>2, InSpecKind DEF Passed
    <3>2. used[o] = LibraryDefault(o)
      BY <1>3, <3>1
    <3>3. CASE o = "http_headers" /\ Given(o) = {}
      <4>1. LibraryDefault(o) = Default(o)
        BY <1>4, <3>3, InSpecKind DEF FirstGiven
      <4>2. Reports(o) = Default(o)
        BY <2>0, <3>3 DEF otel_provider_http_default_options
      <4> QED
        BY <1>1, <3>2, <4>1, <4>2 DEF Reported
    <3>4. CASE o = "http_headers" /\ Given(o) # {}
      BY <3>4 DEF Reported
    <3>5. CASE o # "http_headers"
      BY <1>1, <2>1, <3>2, <3>5 DEF Reported
    <3> QED
      BY <3>3, <3>4, <3>5
  <2>3. CASE o = "compression" /\ Given(o) = {}
    <3>1. /\ LibraryDefault(o) = Default(o) /\ Checked(o, ArgEnv) = Default(o)
          /\ o \notin Tls /\ o \notin HttpStrings
      BY <1>4, <2>3, InSpecKind DEF FirstGiven, as_choice, HttpStrings
    <3>2. used[o] = Default(o)
      BY <1>3, <3>1 DEF Passed
    <3>3. Reports(o) = LibraryDefault(o)
      BY <2>1, <2>3
    <3> QED
      BY <1>1, <3>1, <3>2, <3>3 DEF Reported
  <2>4. CASE o = "compression" /\ Given(o) # {}
    BY <2>4 DEF Reported
  <2> QED
    BY <2>2, <2>3, <2>4
<1>5. CASE o \in BatchOptions
  <2>1. Passed(o) = Null /\ o \notin InSpec
    BY <1>2, <1>5, BatchKind DEF Passed
  <2>2. used[o] = LibraryDefault(o)
    BY <1>3, <2>1
  <2>3. Reports(o) = LibraryDefault(o)
    <3>1. o \notin FileOptions
      BY <1>5, BatchKind
    <3> QED
      BY <1>5, <2>1, <3>1 DEF Reports, BatchDefaults
  <2> QED
    BY <1>1, <2>2, <2>3 DEF Reported
<1>6. CASE o \in Tls \cup Retry \cup NoSupport \cup ReaderOptions \cup {Temporality}
  <2>1. /\ o \notin InSpec \cup BatchOptions \cup FileOptions
        /\ o # "ssl_client_key_path" /\ o # "NULL" /\ SourcesOf(o) \subseteq Sources
    BY <1>6, TlsRetryKind, NoSupportKind, ReaderKind
    DEF InSpec, Sources, ArgEnv, Env
  <2>0. o \in Tls \cup Retry => ~PartialMatch(o, Env) /\ ~PartialMatch(o, ArgEnv)
    <3>1. o = "ssl_cipher" => "ssl_cipher_suite" \in Options
      BY DEF Options, OptionsOf, HttpOptions, Tls
    <3> QED
      BY <3>1 DEF PartialMatch
  <2>2. Reports(o) = Checked(o, Env)
    BY <2>1 DEF Reports, Env
  <2>3. Checked(o, Env) = Checked(o, ArgEnv)
    <3>1. CASE o \in Tls \cup Retry
      <4>1. ~PartialMatch(o, Env) /\ ~PartialMatch(o, ArgEnv)
        BY <2>0, <3>1
      <4> QED
        BY <1>2, <3>1, <4>1, TlsRetryKind, NoArgument
    <3>2. CASE o \in NoSupport
      BY <1>2, <3>2, NoSupportKind, NoArgument DEF as_choice
    <3>3. CASE o \in ReaderOptions
      <4>1. (ArgEnv \ {"signal"}) \cap Given(o) = (Env \ {"signal"}) \cap Given(o)
        BY <1>2 DEF ArgEnv
      <4> QED
        BY <3>3, <4>1, ReaderKind DEF FirstGiven
    <3>4. CASE o = Temporality
      BY <1>2, <3>4, ReaderKind DEF as_choice
    <3> QED
      BY <1>6, <3>1, <3>2, <3>3, <3>4
  <2>4. CASE o \notin Tls
    <3>1. Checked(o, ArgEnv) # Null
      <4>1. Given(o) \subseteq Sources
        BY <1>2, <2>1
      <4>2. CASE o \in Retry
        BY <2>0, <2>1, <4>1, <4>2, TlsRetryKind, Found
      <4>3. CASE o \in NoSupport
        BY <2>1, <4>1, <4>3, NoSupportKind, Found, Named DEF as_choice
      <4>4. CASE o \in ReaderOptions
        BY <4>4, ReaderChecked DEF ChainInv
      <4>5. CASE o = Temporality
        BY <2>1, <4>5, ReaderKind, Named DEF as_choice
      <4> QED
        BY <1>6, <2>4, <4>2, <4>3, <4>4, <4>5
    <3> QED
      <4>1. o \notin HttpStrings
        BY <1>6, <2>4, TlsRetryKind, NoSupportKind, ReaderKind
        DEF HttpStrings, Retry, NoSupport, ReaderOptions, Temporality
      <4>2. Passed(o) = Checked(o, ArgEnv)
        BY <2>4, <3>1, <4>1 DEF Passed
      <4> QED
        BY <1>1, <1>3, <2>1, <2>2, <2>3, <3>1, <4>2 DEF Reported
  <2>5. CASE o \in Tls
    <3>1. /\ Checked(o, ArgEnv) = FirstGiven(o, ArgEnv, Default(o))
          /\ LibraryDefault(o) = FirstGiven(o, {"library"}, Default(o))
          /\ Given(o) \subseteq Sources
      BY <1>2, <2>0, <2>1, <2>5, TlsRetryKind
    <3>2. Checked(o, ArgEnv) # Null
      BY <2>1, <3>1, Found
    <3>3. CASE Checked(o, ArgEnv) # Default(o)
      <4>1. PICK from : Checked(o, ArgEnv) = Value(o, from)
        BY <3>1, FirstIsValue
      <4>2. Passed(o) # Null /\ Passed(o) = r2c_otel_string(Checked(o, ArgEnv))
        BY <2>1, <2>5, <3>3, <4>1, PassedIs DEF HttpStrings
      <4> QED
        BY <1>1, <1>3, <2>1, <2>2, <2>3, <2>5, <4>2 DEF Reported
    <3>4. CASE Checked(o, ArgEnv) = Default(o)
      <4>1. ArgEnv \cap Given(o) # {} => FirstGiven(o, ArgEnv, Default(o)) # Default(o)
        BY <3>1, FirstGivenIs, Zenon
      <4>2. Given(o) \subseteq {"library"}
        BY <3>1, <3>4, <4>1 DEF Sources, ArgEnv, Env
      <4>3. CASE Given(o) = {}
        <5>1. LibraryDefault(o) = Default(o)
          BY <3>1, <4>3 DEF FirstGiven
        <5> QED
          BY <1>1, <1>3, <2>1, <2>2, <2>3, <2>5, <3>4, <5>1 DEF Reported, Passed
      <4>4. CASE Given(o) = {"library"}
        BY <2>5, <4>4 DEF Reported, LibraryLooks
      <4> QED
        BY <4>2, <4>3, <4>4
    <3> QED
      BY <3>3, <3>4
  <2> QED
    BY <2>4, <2>5
<1> QED
  BY <1>3, <1>4, <1>5, <1>6

\* The same of the other exporters.
LEMMA OtherReported ==
  ASSUME ChainInv, phase = "reported", exporter # "http", NEW o \in Used,
         \A x \in Options : "arg" \notin Given(x)
  PROVE  Reported(o)
<1>1. IsCreated /\ o \in Options /\ reported[o] = Reports(o)
  BY DEF ChainInv, IsCreated, Used
<1>2. "arg" \notin Given(o)
  BY <1>1
<1>3. exporter \in {"file", "stdstream", "memory"}
  BY DEF ChainInv, InputInv, Exporters
<1>4. CASE o \in FileOptions /\ exporter = "file"
  <2>1. CASE Given(o) \cup Given("file_pattern") # {}
    BY <1>4, <2>1 DEF Reported
  <2>2. CASE Given(o) \cup Given("file_pattern") = {}
    <3>1. ~stream
      BY <2>2 DEF ChainInv, InputInv
    <3>2. Checked(o, ArgEnv) = Null
      BY <1>4, <2>2, FileKind DEF as_file_exporter_options, FirstGiven
    <3>3. used[o] = Default(o)
      BY <1>1, <1>4, <3>1, <3>2, FileUsed
    <3>4. CASE o = "flush_interval"
      BY <3>4 DEF Reported
    <3>5. CASE o # "flush_interval"
      <4>1. Reports(o) = LibraryDefault(o) /\ LibraryDefault(o) = Default(o)
        BY <1>4, <3>5, FileKind DEF Reports, cc2c_file_exporter_options
      <4> QED
        BY <1>1, <3>3, <4>1 DEF Reported
    <3> QED
      BY <3>4, <3>5
  <2> QED
    BY <2>1, <2>2
<1>5. CASE ~(o \in FileOptions /\ exporter = "file")
  <2>1. Reports(o) = Checked(o, Env)
    BY <1>5 DEF Reports, Env
  <2>2. CASE o \in ReaderOptions
    <3>1. (ArgEnv \ {"signal"}) \cap Given(o) = (Env \ {"signal"}) \cap Given(o)
      BY <1>2 DEF ArgEnv
    <3>2. Checked(o, Env) = Checked(o, ArgEnv)
      BY <2>2, <3>1, ReaderKind DEF FirstGiven
    <3>3. used[o] = Checked(o, ArgEnv)
      <4>1. CASE exporter = "file"
        BY <1>1, <2>2, <4>1, FileUsed
      <4>2. CASE exporter \in {"stdstream", "memory"}
        BY <1>1, <2>2, <4>2, PlainUsed, ReaderKind
      <4> QED
        BY <1>3, <4>1, <4>2
    <3> QED
      BY <1>1, <2>1, <3>2, <3>3 DEF Reported
  <2>3. CASE o \in {"output", "buffer_size"} /\ exporter # "file"
    <3>1. Checked(o, Env) = Checked(o, ArgEnv)
      BY <1>2, <2>3, PlainKind, NoArgument
    <3>2. used[o] = Checked(o, ArgEnv)
      BY <1>1, <1>3, <2>3, PlainUsed, PlainKind
    <3> QED
      BY <1>1, <2>1, <3>1, <3>2 DEF Reported
  <2>4. CASE o = Temporality /\ exporter # "file"
    <3>1. Checked(o, Env) = Default(o)
      BY <1>2, <2>4, ReaderKind DEF as_choice
    <3>2. used[o] = Default(o)
      BY <1>1, <1>3, <2>4, PlainUsed
    <3> QED
      BY <1>1, <2>1, <3>1, <3>2 DEF Reported
  <2> QED
    BY <1>1, <1>3, <1>5, <2>2, <2>3, <2>4, FileUsed, PlainUsed
<1> QED
  BY <1>4, <1>5

-----------------------------------------------------------------------------
(* The theorems *)

\* Whatever options are given, and wherever, each reaches the exporter from
\* the documented source, except in the five ways the property names
\* (as_*_options() in R/checks.R, otel_common_cpp.h, the create functions).
THEOREM OptionsArriveCorrect == Spec => []OptionsArrive
<1>1. ChainInv => OptionsArrive
  <2> SUFFICES ASSUME ChainInv, IsCreated, NEW o \in Used PROVE Arrives(o)
    BY DEF OptionsArrive, Arrives
  <2>1. exporter \in Exporters /\ o \in Options
    BY DEF ChainInv, InputInv, Used
  <2> QED
    BY <2>1, HttpArrives, FileArrives, PlainArrives DEF Exporters
<1> QED
  BY <1>1, ChainInit, ChainStep, PTL DEF Spec

\* If no argument is given, options() returns what the provider uses, except
\* for the options the property names (the options() functions of the
\* providers).
THEOREM ReportedAsUsedCorrect == Spec => []ReportedAsUsed
<1>1. ChainInv => ReportedAsUsed
  <2> SUFFICES ASSUME ChainInv, phase = "reported",
                      \A x \in Options : "arg" \notin Given(x), NEW o \in Used
               PROVE  Reported(o)
    BY DEF ReportedAsUsed, Reported
  <2>1. o \in Options
    BY DEF Used
  <2> QED
    BY <2>1, HttpReported, OtherReported
<1> QED
  BY <1>1, ChainInit, ChainStep, PTL DEF Spec

\* The types in which R has an option and C reads it.
LEMMA TypesAgree ==
  ASSUME InputInv, NEW o \in Options, Checked(o, ArgEnv) # Null,
         StoredAs(Checked(o, ArgEnv)) # ReadAs(o)
  PROVE  \/ /\ signal = "traces" /\ "arg" \in Given(o)
            /\ o \in {"max_queue_size", "max_export_batch_size"}
         \/ o = "rotate_size" /\ "arg" \in Given(o)
         \/ o = "file_size" /\ plain /\ Given(o) \notin {{}, {"arg"}}
<1> DEFINE v == Checked(o, ArgEnv)
           counts == {"max_queue_size", "max_export_batch_size"}
           sizes == {"flush_count", "rotate_size", "file_size"}
<1>1. /\ Given(o) \subseteq SourcesOf(o) /\ SourcesOf(o) \subseteq Sources
      /\ \A x, from : Value(x, from).of = x /\ Value(x, from).from = from
  BY DEF InputInv, SourcesOf, Sources, Value
<1>2. o \in InSpec \cup Tls \cup Retry \cup NoSupport \cup BatchOptions
            \cup ReaderOptions \cup {Temporality} \cup FileOptions
            \cup {"output", "buffer_size"}
  BY DEF Options, OptionsOf, HttpOptions, InputInv, Exporters
<1>3. CASE o \in BatchOptions
  <2>1. v = Value(o, "arg") /\ "arg" \in Given(o)
    BY <1>3, BatchKind
  <2>2. CASE o = "schedule_delay"
    <3>1. v.of = "schedule_delay"
      BY <1>1, <2>1, <2>2
    <3>2. StoredAs(v) = "other"
      BY <3>1 DEF StoredAs
    <3>3. ReadAs(o) = "other"
      BY <1>3, <2>2 DEF ReadAs, BatchReadAs
    <3> QED
      BY <3>2, <3>3
  <2>3. CASE o \in counts
    <3>1. v.of \in counts
      BY <1>1, <2>1, <2>3
    <3> HIDE DEF v
    <3>2. StoredAs(v) = "integer"
      BY <3>1 DEF StoredAs
    <3>3. signal # "traces" => ReadAs(o) = "integer"
      BY <1>3, <2>3 DEF ReadAs, BatchReadAs
    <3> QED
      BY <2>1, <2>3, <3>2, <3>3 DEF v
  <2> QED
    BY <1>3, <2>2, <2>3 DEF BatchOptions
<1>4. CASE o \in sizes
  <2>1. /\ o \in FileOptions /\ o # "alias_pattern" /\ Given(o) \subseteq ArgEnv
        /\ v = FirstGiven(o, ArgEnv, Null)
    BY <1>1, <1>4, FileKind DEF FileOptions, as_file_exporter_options
  <2>2. /\ ArgEnv \cap Given(o) = Given(o) /\ Given(o) # {}
    BY <2>1 DEF FirstGiven
  <2>3. v = Value(o, First(Given(o)))
    BY <2>1, <2>2 DEF FirstGiven
  <2> DEFINE from == First(Given(o))
  <2>4. v.of = o /\ v.from = from
    BY <1>1, <2>3
  <2>5. /\ from \in Given(o)
        /\ "arg" \in Given(o) => from = "arg"
    <3>1. Given(o) \cap Sources # {}
      BY <1>1, <2>2
    <3> QED
      BY <3>1, FirstIs
  <2> HIDE DEF v, from
  <2>6. CASE o = "flush_count"
    <3>1. StoredAs(v) = "integer"
      BY <2>4, <2>6 DEF StoredAs
    <3>2. ReadAs(o) = "integer"
      BY <2>6 DEF ReadAs, BatchOptions
    <3> QED
      BY <3>1, <3>2 DEF v
  <2>7. CASE o = "rotate_size"
    <3>1. from # "arg" => StoredAs(v) = "integer"
      BY <2>4, <2>7 DEF StoredAs
    <3>2. ReadAs(o) = "integer"
      BY <2>7 DEF ReadAs, BatchOptions
    <3> QED
      BY <2>5, <2>7, <3>1, <3>2 DEF v
  <2>8. CASE o = "file_size"
    <3>1. from = "arg" \/ ~plain => StoredAs(v) = "double"
      BY <2>4, <2>8 DEF StoredAs
    <3>2. ReadAs(o) = "double"
      BY <2>8 DEF ReadAs, BatchOptions
    <3>3. from # "arg" /\ plain
      BY <3>1, <3>2 DEF v
    <3>4. Given(o) # {} /\ Given(o) # {"arg"}
      BY <2>5, <3>3
    <3> QED
      BY <2>8, <3>3, <3>4
  <2> QED
    BY <1>4, <2>6, <2>7, <2>8
<1>5. CASE o \notin BatchOptions /\ o \notin sizes
  <2>1. ReadAs(o) = "other"
    BY <1>5 DEF ReadAs
  <2>2. v.of \in {o, "file_pattern", "ssl_cipher_suite"}
    <3>1. \A see : see \cap Given(o) # {} =>
            \A otherwise : FirstGiven(o, see, otherwise).of = o
      BY <1>1 DEF FirstGiven
    <3>2. Default(o).of = o /\ Value(o, "arg").of = o
      BY <1>1 DEF Default
    <3>3. \A see : FirstGiven(o, see, Default(o)).of = o
      BY <3>1, <3>2 DEF FirstGiven
    <3>4. CASE o \in InSpec
      BY <3>2, <3>4, InSpecKind DEF as_choice
    <3>5. CASE o \in Tls \cup Retry
      BY <1>1, <3>3, <3>5, TlsRetryKind
    <3>6. CASE o \in NoSupport
      BY <3>2, <3>3, <3>6, NoSupportKind DEF as_choice
    <3>7. CASE o \in ReaderOptions \cup {Temporality}
      <4>1. CASE o \in ReaderOptions
        BY <3>1, <3>2, <4>1, ReaderKind, ReaderChecked DEF FirstGiven
      <4>2. CASE o = Temporality
        BY <3>2, <4>2, ReaderKind DEF as_choice
      <4> QED
        BY <3>7, <4>1, <4>2
    <3>8. CASE o \in FileOptions
      <4>1. v = as_file_exporter_options(o, ArgEnv)
        BY <3>8, FileKind
      <4>2. CASE ArgEnv \cap Given(o) # {}
        BY <3>1, <4>1, <4>2 DEF as_file_exporter_options
      <4>3. CASE ArgEnv \cap Given(o) = {}
        <5>1. v = FirstGiven("file_pattern", ArgEnv, Null)
          BY <4>1, <4>3 DEF as_file_exporter_options, FirstGiven
        <5> QED
          BY <1>1, <5>1 DEF FirstGiven
      <4> QED
        BY <4>2, <4>3
    <3>9. CASE o \in {"output", "buffer_size"}
      BY <3>3, <3>9, PlainKind
    <3> QED
      BY <1>2, <1>5, <3>4, <3>5, <3>6, <3>7, <3>8, <3>9
  <2> HIDE DEF v
  <2>3. StoredAs(v) = "other"
    <3>1. v.of \notin counts \cup sizes
      BY <1>5, <2>2 DEF BatchOptions
    <3> QED
      BY <3>1 DEF StoredAs
  <2> QED
    BY <2>1, <2>3 DEF v
<1> QED
  BY <1>3, <1>4, <1>5

\* A valid option makes new() fail only where the property says so: R and C
\* disagree on the types of four options, and on no others (wrap-r.c,
\* otel_create_tracer_provider_http and its siblings).
THEOREM ValidOptionsWorkCorrect == Spec => []ValidOptionsWork
<1>1. ChainInv => ValidOptionsWork
  <2> SUFFICES ASSUME ChainInv, phase \in {"error", "crashed"}
               PROVE  \/ "arg" \in Given("http_headers")
                      \/ /\ signal = "traces"
                         /\ "arg" \in Given("max_queue_size")
                                      \cup Given("max_export_batch_size")
                      \/ "arg" \in Given("rotate_size")
                      \/ plain /\ Given("file_size") \notin {{}, {"arg"}}
    BY DEF ValidOptionsWork
  <2>1. InputInv /\ ropts = [o \in Options |-> Checked(o, ArgEnv)]
    BY DEF ChainInv
  <2>2. CASE phase = "error"
    <3>1. PICK o \in Options : Checked(o, ArgEnv) # Null
                               /\ StoredAs(Checked(o, ArgEnv)) # ReadAs(o)
      BY <2>1, <2>2 DEF ChainInv, WrongType
    <3> QED
      BY <2>1, <3>1, TypesAgree
  <2>3. CASE phase = "crashed"
    <3> DEFINE h == "http_headers"
    <3>1. exporter = "http" /\ ropts[h] # Null
      BY <2>3 DEF ChainInv, HeadersGiven
    <3>2. h \in InSpec /\ h # "compression" /\ h \in Options
      BY <3>1 DEF InSpec, Options, OptionsOf, HttpOptions
    <3>3. Checked(h, ArgEnv) # Null
      BY <2>1, <3>1, <3>2
    <3> HIDE DEF h
    <3>4. "arg" \in Given(h)
      BY <3>2, <3>3, InSpecKind
    <3> QED
      BY <3>4 DEF h
  <2> QED
    BY <2>2, <2>3
<1> QED
  BY <1>1, ChainInit, ChainStep, PTL DEF Spec
=============================================================================
