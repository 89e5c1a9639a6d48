# A TLA+ verification of otelsdk

otelsdk is an R package that records OpenTelemetry traces, metrics and logs. R
code calls closures on R objects, these call C functions with external
pointers, and these call opentelemetry-cpp, which is vendored. Paths below are
relative to `src/`, the repository.

## The system

| Component | State | Operations | Status |
|---|---|---|---|
| spans and scopes (`R/span.R`, `R/tracer.R`, `src/span.c`, `src/tracer-api.cc`) | spans and their status; external pointers to spans and scopes; the thread's context stack | `start_span()`, `start_local_active_span()`, `activate()`, `deactivate()`, `set_status()`, `end()`, `get_active_span()`, finalizers | `Spans`, `RuntimeContext` |
| exit handlers (`R/utils.R`) | the `on.exit()` list of each R function call | `defer()`, leaving a call, errors | `Spans` |
| span processors (`R/span-processor.R`) | registry, id counter, two flags, runs in progress | `add_span_processor()`, `remove_span_processor()`, `run_span_processors()`, loading from the environment | `SpanProcessors` |
| loggers (`R/logger.R`, `src/logger.c`, `src/logger-sdk.cc`) | minimum severity of each logger | `get_logger()`, `log()`, `is_enabled()`, `set_minimum_severity()` | `Logs` |
| in-memory logger provider (`R/logger-provider-memory.R`, `src/in-memory-log-exporter.h`) | ring buffer, shutdown flag | `get_logs()`, `flush()`, `shutdown()` | `Logs` |
| recording for tests (`R/record.R`) | the provider cache of the otel package, calls in progress | `with_otel_record()` | `Recording` |
| in-memory meter provider (`R/meter-provider-memory.R`, `src/meter.c`, `src/meter-sdk.cc`) | the library's reader thread and circular buffer | `get_metrics()`, `flush()`, `shutdown()`, finalizer | `MemoryMeterProvider` |
| in-memory tracer provider (`src/tracer-sdk.cc`) | buffer of the library | `get_spans()` | partly, in `Recording` and `Transfer` |
| meters and instruments (`R/meter.R`, `src/meter.c`, `src/meter-sdk.cc`) | instruments, histogram views of a provider | `create_*()`, `add()`, `record()` | `HistogramViews`, `MemoryMeterProvider` |
| external pointers (`src/tracer.c`, `src/logger.c`, `src/meter.c`, `src/span.c`) | the address of each object, cleared by its finalizer | constructors, methods, finalizers, at exit too | `Lifetimes`, `Spans` |
| options and checks (`R/checks.R`, `R/config.R`) | none | `as_*_options()`, `options()` | `Options`, without the checks of single values |
| conversions (`src/wrap-r.c`, `src/wrap-c.cc`, `src/otel_*.h`) | the C struct of a call | `r2c_*()`, `c2r_*()`, `cc2c_*()`, `c2cc_*()`, `otel_*_free()` | `CStructs`, `Transfer` |
| http, file and stdout providers (`R/*-provider-*.R`, `src/stdstream.cc`) | the stream of a provider; the rest is in the library | constructors, `options()`, `flush()`, `shutdown()` | partly, in `Options` and `Lifetimes` |
| test collector (`R/collector.R`, `src/collector.cc`) | the records it received | decoders, POST and GET handlers | the decoders, in `Transfer` |
| context propagation (`src/context.c`) | none | to and from HTTP headers | not modelled |
| glue, errors, cleancall, printing, docs | none across calls | | not modelled |

### How they interact

*Calls.* A tracer method calls `span_new()`, which starts the C++ span, gives it
to the span processors, and only then defers `end()` and activates.  The
callbacks of processors are R code of somebody else; they can call anything.

*Callbacks by R.* Handlers on the `on.exit()` list of a function call run when it
leaves.  Finalizers run when the garbage collector finds an external pointer
that nothing reaches, that is between any two steps of R code.

R also runs the finalizers that are left when it exits.

*Data.* A C entry point fills a struct of `otel_common.h` from R values or lets C++
fill it, hands it to the other side, and frees it. Errors of R leave these functions
by a jump, which cleans nothing up.

*Options* go through four layers: the checks in R, the C struct, the constructors of the
library's option classes, which read the environment again, and the assignments to their fields.

*Threads.* R is single threaded. A meter provider has a reader thread, that
collects the instruments, one after the other, into a report and exports it, when
its timer fires and when `flush()` or `shutdown()` ask for it and wait.

*Shared state.* Scopes share the context stack of the thread.  A span is shared
by its R objects (there can be several, `get_active_span()` makes another) and
by the contexts of the scopes that it is active in; a context also keeps those it derives
from, so a scope keeps the spans of all scopes that were on the stack when it began. The
span is destroyed, and so ended, when the last of them goes. R objects keep each other
alive through the closures of their methods; the structs of meters have a raw pointer to
their provider's, and exporters write to a stream that is a member of the provider's.

### What is hard, and what makes it correct

* Handlers, manual calls and finalizers end scopes in an order that no code
  controls. The context stack must stay a nest of live scopes, a scope that is
  off the stack must not disturb it, and scoped use must look like dynamic
  scoping of the active span.
* A span can be ended by hand, by several handlers and by destruction. It must
  be exported once, with a final status, and neither early nor never.
* Exits through errors run the same handlers, and these themselves handle errors.
* Callbacks are reentrant; registry and flags change under a running loop.
* A report is collected while R code measures, and a request for a report may come
  while one is collected. Reports must never go back, `flush()` and
  `shutdown()` must return, and leave a complete report when they do.
* Views are found by meter and histogram when a histogram is first created: later
  creations must neither change its boundaries nor add views.
* Recordings nest and fail; each must put back the providers of the one around it.
* The log ring overflows, is read, and is shut down, in any order.
* A struct is declared, filled, read and freed in four files, and any of its many
  allocations may fail: what was filled must be what is read and freed, by its owner, once.
* An option has up to four sources and passes through four layers, each with a copied
  line for each of the options; what is used, what is documented and what `options()` says must agree.
* Objects become unreachable in any order, their finalizers run between any two steps of
  R code and of the reader thread, and the structs they delete refer to each other.

`PROJECT.json` lists every hazard at its line with the properties that cover it.

## Modules

### `Spans`, with `RuntimeContext`

`RuntimeContext` is the thread's context stack as `trace::Scope` uses it. It is
external: the operators say what `otel_scope_start_` and `otel_scope_end_` rely
on. `Detach` pops the scope *and everything above it*, and does nothing if
the scope is not on the stack. `Derived` and `Carries` are the chain of contexts that
`Context::SetValue` makes: a context that nobody needs any more goes with the spans that only it carried.

`Spans` has these variables:

| Variable | Code |
|---|---|
| `phase`, `status`, `exception`, `parent` | the C++ span behind an `RSpan`; `exception`: `end()` added the automatic event |
| `handle` | the otel_span R objects of a span: one that R code reaches (`held`), only ones that handlers may reach (`dropped`), none (`gone`) |
| `exported` | the calls of the processor's `OnEnd()` |
| `scope`, `scopeSpan` | the external pointer of a scope, who holds it, and the span in the C++ Scope |
| `stack` | the context stack |
| `below` | the scopes whose contexts a scope's own derives from (`src/tracer-api.cc:350`), also after these left the stack |
| `frames` | the R calls in progress, each with its `on.exit()` list and whether it is running, returning or failing |
| `activeBefore`, `outer` | history: the active span when a scope or a call began |

Actions are the operations: `StartSpan` is `span_new()` as a whole, and
`StartSpanNoScope` and `StartSpanNoActivation` are the same function when
`defer()` fails at its first or second call, because the environment is not
that of a call in progress. `Activate`, `Deactivate`, `SetStatus`, `End`,
`GetActiveSpan` are the methods. `RunHandler` runs the handler that was deferred
last; `PopFrame` leaves the call, and lets an error propagate or be
caught. `FinalizeScope` and `FinalizeSpan` are the C finalizers.
`ForgetSpan` and `ForgetScope` are R code that drops its last reference.
Deleting a scope is `ReleaseContexts`: it ends the spans that the scope is the last one to keep
(`LastHolder`), be it the span it activated or one of an outer scope whose own R objects are gone,
in the order in which the contexts are destroyed.

R is single threaded and each C call runs to its end, so actions are whole
handlers. A call that is being unwound runs no code of the session but its
handlers, hence `UserTurn`. Errors inside the handlers are caught by the methods.

A span processor that runs inside `span_new()` is left to `SpanProcessors`: for
`Spans` its calls are steps before or after `StartSpan`.

`Spec` lets R code do anything. `LocalSpec` restricts it to the documented, scoped
way: `start_local_active_span()` and `activate()` with their defaults, inside
function calls, with `set_status()`, `end()`, and forgetting at any time.

### `DynamicScope` and `SpansRefineDynamicScope`

`DynamicScope` says what scoped activation promises: a call binds the active span as
often as it likes, and when it leaves its bindings are undone, newest first.
It has no scopes and no stack of contexts. `SpansRefineDynamicScope` maps to it. A call's
`outer` and whether it is leaving are in `frames`; the active span is that on top of the
context stack; and the spans that a call bound are those of the stack above the highest place
(`Bottom`) that a call outside of it is still to detach. The run
`spans_local` checks that `LocalSpec` implements it, and `ScopingCorrect` proves it.

### `SpanProcessors`

The registry is a sequence of ids and callbacks (`procs`), as an R list is.
Calls of `run_span_processors()` in progress form a stack (`runs`), because a
callback, or a package that is being loaded, may start a span. Each run is at
an entry of `OTEL_R_SPAN_PROCESSORS` or at a callback, and the code of others
runs between the steps of the top run. `Escapes` are the ways to fail that
`otelsdk` does not catch: jumps, and with `OTEL_ENV=dev` errors.
`called`, `loads`, `added` and `started` are history, and so is `leftAt`, the entry at which
loading was left by a jump, if it was.

### `Logs`

Loggers, the exporter and the ring of the in-memory provider. `Log` is `log()`
and all it calls. A record is its number and its severity. The ids of its span context are taken in one
call that nothing can come in between, so they are data, as its body and its attributes are.
`exported`, `count` and `returned` are history.

### `MemoryMeterProvider`

Two threads: the R thread (`Measure`, `Flush`, `Shutdown`, `Finalize`, `GetMetrics`, and the
steps of a call that waits, `CallStep`) and the reader thread (`ReaderStep`, `Timer`).
The reader thread is the library's, and external: it starts with a collection, and
then waits for its timer or to be woken. `requested` and `serving` stand for the
library's numbers of the last flush asked for and of the one that a collection answers;
a request that comes while instruments are read is left to the next collection.
`call` says where `flush()` (`"flush"`) and `shutdown()` are (`"drain"`: waits for a last
report, `"join"`: waits for the thread). A report is abstracted to the number of measurements
it includes of each instrument. `taken` is history.
Collections that take longer than `export_timeout` are left out; the library gives these up.

### `HistogramViews`

`CreateHistogram` is `create_histogram()`: `NeedsView` and `histogramViews` are the code's, the
registry of views and `FindView` are the library's. Of two views that match, the first makes
the storage. A meter may have no version (`NoVersion`), which is the default of `get_meter()`: it
shares views with all meters of its name, and `VersionClash` says of which histograms this is true.
`created` and `given` are history.

### `Recording`

`calls` are the calls of `with_otel_record()` in progress, each with its copy of the
`cache` of the otel package. A call's providers have its number. `Begin`, `Return` and `Fail` are the
three parts of it, `Leave` its exit handlers, and `BeginFails` is a call with invalid
options. `StartSpan`, `EndSpan`, `Log` and `Measure` are R code that gets tracers, meters and
loggers of the current provider, or uses those it has. `finished` is history.
The reader thread is one step (`Collect`) here; `MemoryMeterProvider` has its details.

### `CStructs` and `Transfer`

`CStructs` is the contents of the C layer as tables: the members of each struct
(`Layout`), the members that its `otel_*_free()` goes through and in which order
(`FreeOrder`), and those that `c2r_*()` and the C++ code read (`ReadOrder`). `Transfer` is one call of an entry
point (`Entry`, one operator for each). Its memory is a function from places, paths of
members and indices, to what is there: never written, NULL, a number, a block to give
back, memory of R, or a dangling pointer. The steps of filling come from `FillOrder`, which says
of every member who looks at a failing allocation. `todo` is the list of members (tasks) that are
left to fill: `FillStruct` replaces a struct by its members, `FillArray` allocates an array
and `FillElement` its elements in turn, `FillNumber` and `FillBlock` fill the others, and `NotGiven` leaves out what is optional.
`FailChecked`, `FailOptional`, `FailAbandoning`, `FailUnchecked` and `FailThrowing` are what a failing
allocation does; after `FailChecked`, `Catch` is one of the functions on the way back that frees its
struct. `Read` and `GiveBack` are the other side and `otel_*_free()`; `Keep` are the
seven entry points that never free (`NeverFree`). `met` collects what `free()` was called on but its own live blocks.
Nothing is recursive: what a struct has without allocating is four structs deep at most, and
the rest is a step of its own.

`TransferInvariant` has what the tables must agree on, as assumptions about constants that TLC
evaluates, and the invariant of the proofs.

### `Options`

`CheckOptions` is `as_*_options()` for the twelve provider classes, `ConvertOptions` the C
code, `CreateProvider` the library's constructors and the assignments of `otel_create_*_()`, and
`ReportOptions` is `options()`. A value is the option that it was given for, its source, its
unit of time, and whether the NUL at its end counts as a part of it: `r2c_otel_string` adds it
to the size, `c2cc_otel_string` copies as many bytes as the size says, and `Text` stops at it, as
the file exporters do. `PartialMatch` is what `$` finds on a list that has only a longer name. `First` is the `%||%` of the checks, which takes the first source that has one. `WrongTypeError` and `HeadersCrash` are conversions that do not return. The exceptions
that the properties name (`ChoiceFromEnv`, `KeyForCertificate`, `TemporalityUnused`, `FlushTooEarly`,
`LibraryLooks`, `CipherFromSuite`, `OtherVariables`, `WithNul`) are listed below as known disagreements.

### `Lifetimes`

Objects are numbered in the order of their creation; `kind`, `parent`, `address` and `span` are
their class, the object that their closures refer to, the address in the external
pointer, and the span they share. R code creates objects (`CreateProvider`, `Get`, `StartSpan`,
`GetActiveSpan`, `CreateInstrument`), uses them (`Measure`, `Log`, `EndSpan`, `Activate`, `Deactivate`,
`Flush`, `Shutdown`) and forgets them. `Collect` finds some of the unreachable objects, as a
collection of young generations does: never one that a survivor refers to.
Their finalizers run later, between any other steps, newest first, which is what R does, or in any
order, which is all that its documentation allows to assume. The destructor of a provider
takes two steps, because the members of a struct are destroyed last to first, and the reader
thread may report between them. What the library does then is external: providers of
spans and logs only shut down, one of metrics collects and exports once more unless it was
shut down. `dead` records what was used after its destruction.
There is one activation at a time here; scopes within scopes, whose contexts keep the outer span too,
are in `Spans`.

### Proof modules and instances

The `*_proofs` modules hold the theorems about the modules they are named for; `Meters_proofs`
has those about `MemoryMeterProvider` and `HistogramViews`, whose `Init`, `Next`, `Spec` and
`TypeOK` are therefore called `ViewsInit` and so on.
`MC_*` modules define the constants and symmetry sets of the runs. Operators with
`Mutant:` in their comment are faulty variants of the definition that follows
them. Nothing uses them: a reader can put one in place of its original to see the
property fail that it is listed with in `PROJECT.json`.

## Runs

Runs check for deadlock, except those of `Transfer` and `Options`, which model one call that
ends. Type invariants are proved; the runs check those of `Spans` and `Transfer`.

| Run | Question | Distinct states |
|---|---|---|
| `spans_collector` | Are stack, ownership and export consistent under manual use, exits and collection? | 632,000 |
| `spans_status` | Is what a span ends with final, does the automatic exception agree with it, and does a leaving call end its spans? | 208,000 |
| `spans_local` | Do children end first, and does scoped use implement dynamic scoping? | 140,000 |
| `span_processors` | Is each span given to the right callbacks, once, in order, after loading? | 181,000 |
| `logs` | Does the ring return the newest records once and in order? | 10,000 |
| `memory_meter` | Do reports only grow, do calls return, are reports complete when they do, and is shutdown final? | 56,000 |
| `histogram_views` | Does the first creation decide, unless versions clash, and with one view at most? | 28,500 |
| `recording` | Do signals go to the innermost call, and nowhere else? | 254,000 |
| `transfer` | Is memory filled before it is read and freed once, by its owner, whichever allocations fail? | 63,000 |
| `options` | Does each option arrive, from the right source, and is it reported as it is used? | 39,000 |
| `options_client_key` | Does the path of the client key arrive? (violated) | - |
| `lifetimes` | Is nothing used after its deletion, and no span lost, in any order of finalizers? | 259,000 |

**Bounds.** Two spans, two scopes and two nested calls (`MaxDepth`) are enough for
a scope that is popped by the end of the scope below it, for a handler that
outlives the span it is for, for a span in two scopes, and for an error that
propagates or is caught. Scoped use does not meet stale scopes, so `spans_local`
takes three of each, enough for two activations in one call and
one in another. `spans_status` needs one scope and one call
only, because all calls leave alike, but all codes and parents. Three
spans let a callback's span start a third one. Two entries of the environment
variable and three additions (`MaxCallbacks`) let a package's code
add, remove, replace, and start spans between the entries. A ring of two
(`Capacity`) and five records (`MaxRecords`) overflow, also again after a read; several reads
distinguish what is returned from what is dropped. Two instruments let R code measure
between the two that a collection reads, each at most twice (`MaxMeasured`); a buffer of two is full
after a flush and a timer. No version and two versions of a meter, two histograms and two boundaries
are all that `HistogramViews` compares; three views (`FewViews`) are a clash of any two versions
next to another view. Two recordings nest, or follow each other, and four
signals are enough for one in each of two providers, before and after.
`transfer` gives the arrays at each of the five depths of nesting zero, one and two elements in turn
(two, so that a failure at the second leaves a filled first), attributes every type, points every type, and drops what is optional. Of the strings of an exporter's options, whose failing
allocations nobody looks at, at most two are missing (`FewMissing`), instead of any subset; of those of
a message that is decoded, at most three. `Transfer_proofs` is about any number of elements at any depth,
any type, and any strings missing.
`options` gives each option alone in every subset of
its sources, which decides precedence, and every two options from one source each, which finds
values that end in the field of another (`Options_proofs` is about any number). `lifetimes` has six objects (`MaxObjects`): two
providers with a tracer each, and a span with objects of both tracers; a span with two
objects; a meter provider with two meters and an instrument; and a logger provider next to a meter provider.
These are the smallest groups in which structs are shared. The six objects of the first group are
finalized newest first only (`LongestInOrder`): `SpansDelivered`, which they are for, is about
that order.

**Symmetry** is used for spans and scopes, loggers, and versions, histograms and boundaries, in runs
without liveness, where they are not constants of the cfg's other sets.

**Fairness.** In `Spans` only R is fair: a leaving call runs its handlers and leaves
(`RunHandler`, `PopFrame`). Nothing is assumed of R code or of the garbage
collector, which may never run. In `MemoryMeterProvider` both threads are
weakly fair, because the operating system runs both: the reader thread (`ReaderStep`), and
the waiting call (`CallStep`), whose wait evaluates its condition again and
again, and wakes the reader thread each time. Nothing is assumed of R code, which need not
call anything, and of the timer, which may never fire: calls do not depend on it.

## Findings

* *Client key* (`options_client_key`). `ssl_client_key_path` is documented as "SSL client key, path
  to a file" (`R/docs.R:803`). `c2cc_otel_http_exporter_options()` assigns it to
  `ssl_ca_cert_string` (`src/otel_common_cpp.h:245`): the key does not arrive, and
  the CA certificate is overwritten.

### Known disagreements

These were met while modelling. No run shows them; where a definition states the
expectation, it fails as its comment says, and elsewhere the properties name the exception.

* *Generated ids* (`GeneratedIdIsNew`). `add_span_processor()` documents that for `id = NULL` "a
  new id is generated" (`R/span-processor.R:92`). `new_span_processor_id()` only counts, so the
  new id may be in use, if somebody chose such an id by hand; the processor that has it is replaced.
* *Temporality* (`TemporalityAsGiven`, `TemporalityUnused`). The `aggregation_temporality` option of
  `meter_provider_memory` (`R/docs.R:987`) is passed down to `otel_create_meter_provider_memory_()`,
  which does not use it.
* *Boundaries of other versions* (`OthersNotAffected`, `VersionClash`). "Other histograms are not affected"
  (`tests/testthat/test-meter.R:68`), but a view for a meter without a version, which is the default
  (`R/meter.R:7`), matches the meters of its name with any version, and the other way round. The
  histogram of one may get the boundaries given for the other one, whichever was created first.
* *First boundaries* (`FirstCallWins`). "We only do this once per histogram, the first boundaries win"
  (`src/meter-sdk.cc:462`, and `tests/testthat/test-meter.R:62`). It is the first *creation* that wins, and
  this is what the property says: boundaries that come after a creation without any add a view, but have no
  effect, because the library has made the storage. Where versions clash not even that holds.
* *Unflushed measurements* (`ReturnsMetrics`). `with_otel_record()` returns "the recorded metrics
  measurements" (`R/record.R:28`), but asks for them without `flush()`: those the
  reader thread has not collected are missing.
* *Choices* (`ChoiceFromEnv`). `as_choice(NULL)` is the default, so the environment variables of
  `json_bytes_mapping`, `compression` and `aggregation_temporality` have no effect (`R/checks.R:142`).
* *Flush interval* (`FlushTooEarly`). Milliseconds are taken for microseconds (`src/wrap-c.cc:390`).
* *Trailing NUL* (`WithNul`). `r2c_otel_string()` counts the NUL in the size (`src/wrap-r.c:26`), and
  `c2cc_otel_string()` makes a string of that many bytes (`src/wrap-c.cc:65`): `url` and the `ssl_*` options
  of the HTTP exporters end in a NUL, so that an `ssl_min_tls` of "1.2" is not equal to "1.2" in the library.
* *Partial match* (`CipherFromSuite`). `opts$ssl_cipher` (`R/checks.R:1608`) finds `ssl_cipher_suite`, if
  that is all that is given: its value is used for both options, and the environment of `ssl_cipher` is not.
* *Variables of the logger provider* (`OtherVariables`). Its help page uses the text of the tracer provider's
  (`R/logger-provider-http.R:123`), which names `OTEL_BSP_*` (`R/docs.R:915`); the library reads `OTEL_BLRP_*`.
* *TLS variables* (`LibraryLooks`). The defaults of the TLS options are empty strings, which are not
  passed on, so the library looks at its own variables after all (`R/checks.R:1462`).
* *Valid options that fail* (`ValidOptionsWork`). `http_headers` as an argument writes through a NULL
  pointer (`src/wrap-r.c:92`); two integer counts of the tracer's batches are read with `REAL()`
  (`src/tracer.c:58`); `rotate_size` as an argument, and a file size in the environment without a unit,
  have the other type than the C code reads.
* *options()* (`ReportedAsUsed`). It returns a file provider's options from the library, without the
  environment that `new()` uses; timeouts in seconds; no headers; and of `compression` what the
  environment has.
* *Memory of R* (`FreesOnlyItsOwn`). Vectors of logicals and doubles are attributes by
  reference (`src/wrap-r.c:291`), but `otel_attribute_free()` frees them (`src/wrap-r.c:203`).
* *Cleanup of garbage.* The records of `get_spans()` and `get_metrics()`, and the attributes
  within records, are not cleared (`src/tracer-sdk.cc:154`): if an allocation fails half way, the cleanup frees
  members that were never written. `DecodersFailSafely` holds where `calloc()` is used.
* *Attributes that are never freed* (`NeverFree`). `otel_start_span()`, `otel_get_logger()`, `otel_get_meter()`,
  `otel_counter_add()`, `otel_up_down_counter_add()`, `otel_histogram_record()` and `otel_gauge_record()` convert
  attributes, `otel_start_span()` also those of links, and have no `otel_attributes_free()`: each call that gives
  some loses what was allocated for them (`src/tracer.c:296`).
* *Headers of the environment, attributes of the stdout meter provider* (`UncountedHeaders`, `Unread`).
  `cc2c_otel_strings()` stops half way and sets no count (`src/otel_common_cpp.h:101`), so that the strings are
  neither returned nor freed; `otel_create_meter_provider_stdstream()` never passes the attributes it converts.
* *Loading that was cut off* (`leftAt`). `otelsdk` "reads `OTEL_R_SPAN_PROCESSORS` when the first span is
  started" (`R/span-processor.R:63`). The flag is set before the loop (`R/span-processor.R:155`): if the code of
  an entry is interrupted, or jumps, the entries after it are not loaded by later spans either, and callbacks are called without them.
* *Number of reports.* Tests of the in-memory meter provider read the second report after `flush()` and
  `shutdown()` (`tests/testthat/test-meter.R:12`), others are skipped for doing so, as unreliable (`:37`, `:133`),
  or look at all reports, whose number "depends on timing" (`:78`, `:159`). The number does vary: the reader
  thread starts with a collection, and its timer adds more. `ReturnsAreComplete` is what one can rely on.
* *Last report to a destroyed stream* (`ReportsFromDestructor`). If a meter provider that writes to a file
  is deleted without `shutdown()`, its destructor exports once more, to a `std::fstream` that was
  destroyed before it (`src/otel_common_cpp.h:64`, `src/stdstream.cc:120`).
* *Foreign objects* (`HasForeignObject`). An object that `get_active_span()` of another provider's tracer
  returned does not keep the span's own provider alive: the span may outlive it and be dropped.

## Proofs

All theorems hold for any number of spans, scopes, calls, processors, records,
instruments, histograms and objects, under the named assumptions on the constants
(`SpansAssumption`, `ProcessorsAssumption`, `LogsAssumption`, `ConstantsAssumption`, `ChoicesAssumption`, `RecordingAssumption`, `LifetimesAssumption`): special values are not
members of the sets they extend, and bounds are natural numbers. `OptionsAssumption` says that the
inputs are possible: options of the provider's class, from sources that they have; `TransferAssumption`
the same of entry points and data. The other assumptions of `TransferInvariant` are about tables that
are fixed, so that TLC decides them.

* `Spans_proofs`. `TypeOK` is inductive; the steps are split by action, and lemmas say
  what the pieces of steps (`EndScope`, `StartScope`, `EndSpan`, `Defer`) do.
  `ScopesNest` is inductive on top of it: `Attach` puts a scope on top of
  the span that is active, and `Detach` leaves a prefix. `ScopeEndRestores` follows from it for
  each step: below the scope that ends sits the span that `activeBefore` names.
  `ExportedOnce` is inductive, by cases on `SdkEnd`.
  `ExceptionMeansError` is not: a span with the event could get another status later. Its
  strengthening `ExceptionInv` adds that the span has ended.
  `ExportedIsFinal` is proved for each step.
  `RecordingCanEnd` says nothing of a span that is not recording, which a scope could start to
  hold; `HolderInv` adds that a span that was started has an otel_span object, or had one.
  `BelowStarted` says that contexts derive only from those of scopes that were started, so that a new
  scope does not change what the others keep (`KeepsStart`). With these,
  `CollectorSparesActivated` follows from the live scopes of the stack.
* `Spans_proofs`, scoped use. `LocalSpec` implies `Spec`'s steps, so the invariants above hold.
  The proofs are about places (`At`): which handler is on which `on.exit()` list, and where.
  All that `LocalSpec` does to the lists is to push onto the innermost (`Push`) and to pop from it.
  `ChildrenEndFirst` rests on `ParentsEndLater`: the handler of a child is on the list of a later
  call than its parent's, or nearer to the head of the same list. A new span has no children yet
  because nothing refers to a span before it is started (`KnownSpans`).
  For the refinement, `DetachesStack` says that the scopes of the context stack are exactly those that
  handlers are to detach, in the order in which the handlers will run. So `Bottom` splits the stack
  between the calls, `OuterSpans` says that a call's part begins above the span it found, and `CallersRun`
  that only the innermost call may be leaving. Pushing is `Bind`, popping `Unbind`, returning `Leave`
  and `Done`, and all that neither touches the stack nor the calls a stutter.
* `SpanProcessors_proofs`. `OneRunCalls` needs no more than types. `LoadedOnce` and
  `EnvBeforeCalls` need an invariant of the loading run: there is at most
  one, its entries before `next` were loaded and the others were not, and runs
  exist only after the flag was set. If loading was left at an entry, then all entries up to that
  one were loaded, and no other one ever is. `ServedInOrder` needs `ServedInv`: a span has one run at most
  and only if it was started, and no callback has had it while its run is still loading. Then
  `called` only grows by the run's own step, whatever other runs do to the registry.
* `Logs_proofs`. `NewestKept` rests on a lemma on `Newest`: adding to the newest
  n of a sequence gives the newest n of the longer one. `ReturnedInOrder`
  needs `OrderInv`: all numbers are at most `count`, so the next one is larger.
* `Meters_proofs`, `MemoryMeterProvider`. `ReportsGrow` says nothing of a report that is being
  collected, which could be older than those in the buffer; `GrowInv` adds that what has
  been read of it is not. For `ReturnsAreComplete`, `AnswerInv` says that the collection
  that answers a request began after the call did: R code waits, so all it
  reads is `Fresh`, and once it has answered the buffer is complete. For
  `ShutdownIsFinal`, `GoneInv` says that the reader thread is gone as soon as the call that shuts down
  returns.
* `Meters_proofs`, `HistogramViews`. `ViewsInv`: `histogramViews` knows every histogram with a view,
  so a second view is never needed; and a view has boundaries that were given for its own
  histogram before any others (`GivenStays`: they stay the first ones). For `FirstCallWins`, the view that
  the first creation finds is its own, is of a histogram that clashes, or there is none; later
  creations do not touch the storage (`StorageStep`). Versions may be any, none included.
* `Recording_proofs`. `CopiesInv` says of every call in progress, not only of the innermost, that
  its copy of the cache is right for the calls around it; this is why `Leave` restores
  `InnermostRecords`. `CallsInv` says that calls have numbers of their own and that a meter provider
  runs only while the call that shuts it down is in progress. `ResultsInv`, for `ReturnsSpansAndLogs`: code can only
  have providers of calls that have begun, and the buffers of calls in progress agree
  with `finished`.

* `Lifetimes_proofs`. `UsesLiveObjects` needs to know that what an object that can be called
  refers to still has its struct. `IInv` has four parts: `Shape` (parents are objects
  of the right class), `ActiveIsSpan`, `ReachableLive` (what is reachable does not wait for its
  finalizer, because `Collect` never takes what a survivor refers to) and `StreamsLast` (a destroyed stream
  belongs to a provider that is being or has been deleted). `SpansDelivered` adds `ParentsLast`: if
  finalizers run newest first, a provider outlives the objects that refer to it, so that
  the end of a span meets a provider that is not shut down by its finalizer. `ExitInv`, for
  `ExitFinishes`, says that after the exit all that is left is ready, that a
  recording span still has an object with a struct, and that only a provider with a struct,
  or one that R code shut down, has measurements that were not reported.

* `Options_proofs`. `ChainInv` says that what each layer has is what its operators make of the
  layer before, so the properties become facts about these operators. They are shown for each
  kind of option, by who reads its variables. The runs give one option, or two; the theorems
  hold for any number, given together in any ways: no option changes what another one becomes,
  but for the pattern of a file and its alias, the client key and the CA certificate, and `ssl_cipher`
  and its suite. That strings arrive with a NUL or without is `PassedArrives`.

* `Transfer_proofs`. None of the properties is inductive: that the record at hand is filled says nothing of
  those that are not, and a cleanup frees what it gets to, so that one has to know what it gets to.
  `IInv` (`TransferInvariant`) is about all of the memory at every step, and TLC checked it on
  the run's instance before it was proved. Its parts:
  - `CellsFit`: places follow the types of `otel_common.h`; pointers are pointers and numbers are numbers;
    memory of R is only where R's side fills vectors; what is live was filled, so it is on a way that the reader and
    `otel_*_free()` take too (`Followed`).
  - `Held`: every place inside an array has, at each array that it goes through, a pointer that is there
    and a count that is set. So the loops of the other side come to it.
  - `TodoFits`: the tasks left are apart from each other (`AllApart`), nothing is allocated below what is
    not filled yet (`Unopened`, so a new array has only new cells), an array that is allocated before the
    rest of its struct is filled later (`Promised`), what may be skipped is zero (`CleanStays`), and
    whatever was never written is either left to fill or never read (`Covered`).
  - `CatchesFit`: after a failure, all that is live is below the root, and the root is among the structs that
    are given back; unless nothing is live.
  - `MetFits`: what `free()` met; for the decoders, nothing unwritten.

  What the four files of the conversions have to agree on is in the tables, which are large. The proofs do not look
  into them: they use statements about them (`LayoutAssumption`, `FillAssumption`, `CleanAssumption`, `HowAssumption`,
  `FreeAssumption`, `ReadAssumption`, `EntryAssumption` and others), each of which says what a careless change
  of a struct or a loop would break. TLC evaluates all of them in the run `transfer`. `Inductive` has one lemma for
  each action or group of actions. The theorems follow from `MemoryFits`: `Covered` with no tasks left is
  `ReadsOnlyFilled`; `Followed` and `Held` are `NothingLost` and, when everything is given back, which is so in
  all calls but those of `NeverFree`, `NothingLeaks`.

**Only model-checked:** `LeavingEndsSpans` and `CallsReturn`, because they are liveness properties under
fairness, which are out of the proof system's reach. All other properties of the passing runs are proved.

## Not modelled, and why

* Data that no property is about: names, times, message texts, and the values of attributes.
* The library's exporters, batching and I/O: they are vendored, and otelsdk only
  fills their options. So is the span buffer of the in-memory tracer provider.
* The checks of single values (`R/checks.R`: what is a count, a time with a unit, a choice), context
  propagation (`src/context.c`) and interpolation (`src/glue.c`): formatting and parsing of strings, by
  character, on which no other component's state depends.
* The web server of the test collector (`R/collector.R`): a fixture for the package's tests.
* `src/errors.c` and `src/cleancall.c`: raising errors of R, and calling C through `.Call()`.
* Failures of allocation outside of the conversions and of `get_logs()` and `get_metrics()`.
* Forked processes, and objects that were saved and loaded: their pointers are NULL, and every
  call of a method fails.

## Plan

In this order:

1. The span buffer of the in-memory tracer provider. To be proved: what is returned is a prefix of
   what was exported.
2. The checks of single options, as operators over forms of input, in `Options`.
3. `Glue`: the interpolation automaton against a reference definition, for all templates of up to
   six characters over its delimiters.
