----------------------------- MODULE Lifetimes -----------------------------
(***************************************************************************)
(* Who deletes what, and when: the external pointers of src/tracer.c,      *)
(* src/logger.c, src/meter.c and src/span.c. An R object has a pointer to  *)
(* a C++ struct; the pointer's finalizer deletes the struct, when R's      *)
(* collector has found the object unreachable, or when R exits. The        *)
(* structs refer to each other too, some by raw pointers, and a provider   *)
(* that writes to a file has an exporter that refers to the provider's     *)
(* own stream. Objects are numbered in the order of their creation.        *)
(***************************************************************************)
EXTENDS Integers, Sequences

CONSTANTS
    MaxObjects,     \* bound: the R objects that are created
    Programs,       \* bound: the classes of the objects that R code creates,
                    \* in their order, and the streams of their providers
    Orders          \* the orders in which R may run waiting finalizers

ASSUME LifetimesAssumption ==
    /\ MaxObjects \in Nat
    /\ Orders \subseteq {"newest", "any"}

VARIABLES
    program,    \* one of Programs
    order,      \* R runs the finalizers of the newest objects first, or any
    kind,       \* the class of each object, "none" before it is created
    parent,     \* the object that the closures of each object refer to
    address,    \* the address of its external pointer
    span,       \* the span behind a span object, named by the first of them
    held,       \* the objects that R code has in a variable
    active,     \* the span object with an activation scope, None if none
    ready,      \* the unreachable objects whose finalizer has not run
    deleting,   \* the provider in the middle of its destructor, None if none
    exited,     \* R is exiting: R code does not run any more
    stream,     \* the fstream member of a provider
    shut,       \* what has shut the exporters of a provider down
    spanState,  \* of each span
    unreported, \* a meter provider has measurements that no report has
    dead        \* history: what was used after its destruction

objectVars == <<kind, parent, address, span>>
rootVars == <<held, active>>
collectorVars == <<program, order, ready, deleting, exited>>
providerVars == <<stream, shut, unreported>>
vars == <<objectVars, rootVars, collectorVars, providerVars, spanState, dead>>

None == 0
Objects == 1..MaxObjects

Providers == {"tracer_provider", "logger_provider", "meter_provider"}
Getters == {"tracer", "logger", "meter"}
Kinds == {"none", "span", "instrument"} \cup Providers \cup Getters

\* The class of what the get_tracer(), get_logger() or get_meter() method of a
\* provider returns.
GetterOf == [k \in Providers |->
    CASE k = "tracer_provider" -> "tracer"
      [] k = "logger_provider" -> "logger"
      [] k = "meter_provider" -> "meter"]

ProviderOf(o) == IF kind[parent[o]] \in Providers THEN parent[o]
                                                  ELSE parent[parent[o]]

Init ==
    /\ program \in Programs
    /\ order \in Orders
    /\ kind = [o \in Objects |-> "none"]
    /\ parent = [o \in Objects |-> None]
    /\ address = [o \in Objects |-> "null"]
    /\ span = [o \in Objects |-> None]
    /\ held = {}
    /\ active = None
    /\ ready = {}
    /\ deleting = None
    /\ exited = FALSE
    /\ stream = [o \in Objects |-> "none"]
    /\ shut = [o \in Objects |-> "no"]
    /\ spanState = [o \in Objects |-> "none"]
    /\ unreported = [o \in Objects |-> FALSE]
    /\ dead = {}

-----------------------------------------------------------------------------
(***************************************************************************)
(* Reachability. The methods of an object are closures of the function     *)
(* that created it, so they refer to its arguments: a span to its tracer,  *)
(* an instrument to its meter, those to their provider. The exit handler   *)
(* of an activation scope refers to the span object.                       *)
(***************************************************************************)
\* Mutant: a meter does not refer to its provider.
RefersToButMeter(o) ==
    IF kind[o] = "meter" THEN {o} ELSE {o, parent[o]} \ {None}
\* Mutant: a span does not refer to its tracer.
RefersToButSpan(o) ==
    IF kind[o] = "span" THEN {o} ELSE {o, parent[o]} \ {None}
RefersTo(o) ==
    LET p == {parent[o]} \ {None}
    IN {o} \cup p \cup ({parent[q] : q \in p} \ {None})
Roots == held \cup ({active} \ {None})
Reachable(o) == \E r \in Roots : o \in RefersTo(r)

\* R code runs, and calls a method of the object. The C function of the method
\* raises an error if the pointer has been cleared.
Calls(o, kinds) ==
    /\ ~exited
    /\ deleting = None
    /\ kind[o] \in kinds
    /\ address[o] = "set"
    /\ Reachable(o)

\* A new object, the newest one, in a variable of the caller.
Create(o, k, p, s) ==
    /\ kind[o] = "none"
    /\ \A q \in 1..(o - 1) : kind[q] # "none"
    /\ o \in DOMAIN program.classes /\ program.classes[o] = k
    /\ kind' = [kind EXCEPT ![o] = k]
    /\ parent' = [parent EXCEPT ![o] = p]
    /\ address' = [address EXCEPT ![o] = "set"]
    /\ span' = [span EXCEPT ![o] = s]
    /\ held' = held \cup {o}
    /\ UNCHANGED <<active, collectorVars>>

\* The exporter of a provider writes to the provider's stream, if it has one,
\* or to the stdout or stderr of the process.
StreamUse(p) == IF stream[p] = "destroyed" THEN {<<"stream", p>>} ELSE {}

\* The struct behind an object is read through a raw pointer.
StructUse(p) == IF address[p] = "set" THEN {} ELSE {<<"struct", p>>}

-----------------------------------------------------------------------------
(***************************************************************************)
(* R code.                                                                 *)
(***************************************************************************)
CreateProvider(o, k, out) ==
    /\ ~exited
    /\ deleting = None
    /\ out \in program.streams
    /\ Create(o, k, None, None)
    /\ stream' = [stream EXCEPT ![o] = out]
    /\ UNCHANGED <<shut, unreported, spanState, dead>>

Get(o, p) ==
    /\ Calls(p, Providers)
    /\ Create(o, GetterOf[kind[p]], p, None)
    /\ UNCHANGED <<providerVars, spanState, dead>>

StartSpan(o, t) ==
    /\ Calls(t, {"tracer"})
    /\ Create(o, "span", t, o)
    /\ spanState' = [spanState EXCEPT ![o] = "recording"]
    /\ UNCHANGED <<providerVars, dead>>

\* A second object for the active span: it refers to the tracer that was asked
\* for it, and that may be the tracer of another provider.
GetActiveSpan(o, t) ==
    /\ Calls(t, {"tracer"})
    /\ active # None
    /\ Create(o, "span", t, span[active])
    /\ UNCHANGED <<providerVars, spanState, dead>>

\* A histogram with boundaries adds a view to the provider, which the struct of
\* the meter has a raw pointer to.
CreateInstrument(o, m) ==
    /\ Calls(m, {"meter"})
    /\ Create(o, "instrument", m, None)
    /\ dead' = dead \cup StructUse(parent[m])
    /\ UNCHANGED <<providerVars, spanState>>

Measure(i) ==
    /\ Calls(i, {"instrument"})
    /\ unreported' = [unreported EXCEPT ![ProviderOf(i)] = TRUE]
    /\ UNCHANGED <<objectVars, rootVars, collectorVars, stream, shut,
                   spanState, dead>>

Log(l) ==
    /\ Calls(l, {"logger"})
    /\ shut[parent[l]] = "no"
    /\ dead' = dead \cup StreamUse(parent[l])
    /\ UNCHANGED <<objectVars, rootVars, collectorVars, providerVars, spanState>>

\* The end of a span, which exports it, unless the exporter is shut down.
SpanEnds(s) ==
    LET p == ProviderOf(s)
    IN IF spanState[s] # "recording"
       THEN UNCHANGED <<spanState, dead>>
       ELSE /\ spanState' = [spanState EXCEPT ![s] =
                  IF shut[p] = "no" THEN "exported" ELSE "dropped"]
            /\ dead' = dead \cup (IF shut[p] = "no" THEN StreamUse(p) ELSE {})

EndSpan(o) ==
    /\ Calls(o, {"span"})
    /\ SpanEnds(span[o])
    /\ UNCHANGED <<objectVars, rootVars, collectorVars, providerVars>>

Activate(o) ==
    /\ Calls(o, {"span"})
    /\ active = None
    /\ active' = o
    /\ UNCHANGED <<objectVars, held, collectorVars, providerVars, spanState,
                   dead>>

Deactivate ==
    /\ ~exited
    /\ deleting = None
    /\ active # None
    /\ active' = None
    /\ UNCHANGED <<objectVars, held, collectorVars, providerVars, spanState,
                   dead>>

\* A report of everything measured, by the reader of a meter provider.
Report(p) ==
    /\ unreported' = [unreported EXCEPT ![p] = @ /\ shut[p] # "no"]
    /\ dead' = dead \cup (IF shut[p] = "no" THEN StreamUse(p) ELSE {})

Flush(p) ==
    /\ Calls(p, {"meter_provider"})
    /\ Report(p)
    /\ UNCHANGED <<objectVars, rootVars, collectorVars, stream, shut, spanState>>

\* Only the reader of a meter provider writes when it is shut down.
LastReport(p) ==
    IF kind[p] = "meter_provider" THEN Report(p) ELSE UNCHANGED <<unreported, dead>>

Shutdown(p) ==
    /\ Calls(p, Providers)
    /\ LastReport(p)
    /\ shut' = [shut EXCEPT ![p] = "by_user"]
    /\ UNCHANGED <<objectVars, rootVars, collectorVars, stream, spanState>>

\* R code loses its reference to an object. It may still get at it through the
\* objects that refer to it, so that copying a reference adds nothing.
Forget(o) ==
    /\ ~exited
    /\ deleting = None
    /\ held' = held \ {o}
    /\ o \in held
    /\ UNCHANGED <<objectVars, active, collectorVars, providerVars, spanState,
                   dead>>

-----------------------------------------------------------------------------
(***************************************************************************)
(* The library's thread, the collector of R, and its exit.                 *)
(***************************************************************************)
PeriodicReport(p) ==
    /\ kind[p] = "meter_provider"
    /\ address[p] = "set"
    /\ Report(p)
    /\ UNCHANGED <<objectVars, rootVars, collectorVars, stream, shut, spanState>>

WithFinalizer == {o \in Objects : address[o] = "set"} \ ready
Garbage == {o \in WithFinalizer : ~Reachable(o)}

\* A collection finds some of the unreachable objects (it spares those of older
\* generations, and what they refer to), and R runs their finalizers later.
Collect(found) ==
    /\ ~exited
    /\ deleting = None
    /\ found # {}
    /\ \A o \in WithFinalizer \ found : RefersTo(o) \cap found = {}
    /\ ready' = ready \cup found
    /\ UNCHANGED <<objectVars, rootVars, program, order, deleting, exited, providerVars,
                   spanState, dead>>

\* Mutant: providers are registered without finalization at exit.
ExitKeepingProviders ==
    /\ ~exited
    /\ deleting = None
    /\ exited' = TRUE
    /\ ready' = ready \cup {o \in WithFinalizer : kind[o] \notin Providers}
    /\ held' = {}
    /\ active' = None
    /\ UNCHANGED <<objectVars, program, order, deleting, providerVars, spanState,
                   dead>>
\* The finalizers are registered to run at exit as well.
Exit ==
    /\ ~exited
    /\ deleting = None
    /\ exited' = TRUE
    /\ ready' = ready \cup WithFinalizer
    /\ held' = {}
    /\ active' = None
    /\ UNCHANGED <<objectVars, program, order, deleting, providerVars, spanState,
                   dead>>

\* R runs the finalizer of an object, which deletes its struct.
Runs(o) ==
    /\ o \in ready
    /\ deleting = None
    /\ order = "newest" => \A r \in ready : r <= o

Cleared(o) ==
    /\ address' = [address EXCEPT ![o] = "null"]
    /\ ready' = ready \ {o}
    /\ UNCHANGED <<kind, parent, span, rootVars, program, order, exited>>

FinalizeOther(o) ==
    /\ Runs(o)
    /\ kind[o] \in Getters \cup {"instrument"}
    /\ Cleared(o)
    /\ UNCHANGED <<deleting, providerVars, spanState, dead>>

\* The span ends with the last object that has it.
FinalizeSpan(o) ==
    /\ Runs(o)
    /\ kind[o] = "span"
    /\ Cleared(o)
    /\ IF \E h \in Objects \ {o} : address[h] = "set" /\ span[h] = span[o]
       THEN UNCHANGED <<spanState, dead>>
       ELSE SpanEnds(span[o])
    /\ UNCHANGED <<deleting, providerVars>>

\* The members of a provider's struct are destroyed last to first: the stream
\* is declared after the pointer to the library's provider.
FinalizeProviderStream(p) ==
    /\ Runs(p)
    /\ kind[p] \in Providers
    /\ deleting' = p
    /\ stream' = [stream EXCEPT ![p] = IF @ = "open" THEN "destroyed" ELSE @]
    /\ UNCHANGED <<objectVars, rootVars, program, order, ready, exited, shut,
                   unreported, spanState, dead>>

\* The library's provider shuts itself down if nobody has.
FinalizeProvider(p) ==
    /\ deleting = p
    /\ deleting' = None
    /\ Cleared(p)
    /\ LastReport(p)
    /\ shut' = [shut EXCEPT ![p] = IF @ = "no" THEN "by_finalizer" ELSE @]
    /\ UNCHANGED <<stream, spanState>>

\* Only so that TLC does not take the end of the process for a deadlock.
Gone ==
    /\ exited
    /\ ready = {}
    /\ UNCHANGED vars

Creates(o) ==
    \/ \E k \in Providers, out \in {"none", "open"} : CreateProvider(o, k, out)
    \/ \E q \in Objects : \/ Get(o, q)
                          \/ StartSpan(o, q)
                          \/ GetActiveSpan(o, q)
                          \/ CreateInstrument(o, q)

Uses(o) ==
    \/ Measure(o) \/ Log(o) \/ EndSpan(o) \/ Activate(o)
    \/ Flush(o) \/ Shutdown(o) \/ Forget(o)

Finalizes(o) ==
    \/ FinalizeOther(o) \/ FinalizeSpan(o)
    \/ FinalizeProviderStream(o) \/ FinalizeProvider(o)

Next ==
    \/ \E o \in Objects : Creates(o)
    \/ \E o \in Objects : Uses(o)
    \/ Deactivate
    \/ \E p \in Objects : PeriodicReport(p)
    \/ \E found \in SUBSET Garbage : Collect(found)
    \/ Exit
    \/ \E o \in Objects : Finalizes(o)
    \/ Gone

Spec == Init /\ [][Next]_vars

-----------------------------------------------------------------------------
\* Only objects with a struct wait for their finalizer, which runs once: after
\* it, the pointer is cleared (the finalizers of src/tracer.c:10-35 and of the
\* other files).
TypeOK ==
    /\ order \in Orders
    /\ kind \in [Objects -> Kinds]
    /\ parent \in [Objects -> Objects \cup {None}]
    /\ address \in [Objects -> {"set", "null"}]
    /\ span \in [Objects -> Objects \cup {None}]
    /\ held \subseteq Objects
    /\ active \in Objects \cup {None}
    /\ ready \subseteq {o \in Objects : address[o] = "set"}
    /\ deleting \in ready \cup {None}
    /\ exited \in BOOLEAN
    /\ stream \in [Objects -> {"none", "open", "destroyed"}]
    /\ shut \in [Objects -> {"no", "by_user", "by_finalizer"}]
    /\ spanState \in [Objects -> {"none", "recording", "exported", "dropped"}]
    /\ unreported \in [Objects -> BOOLEAN]
    /\ dead \subseteq {"stream", "struct"} \X Objects

\* What the code does get wrong: a meter provider that writes to a file and that
\* was not shut down reports once more from its destructor, when its stream has
\* been destroyed already (src/otel_common_cpp.h:64-66, where the stream comes
\* after the pointer, and src/stdstream.cc:120-128).
ReportsFromDestructor(p) ==
    /\ kind[p] = "meter_provider"
    /\ stream[p] = "destroyed"
    /\ shut[p] # "by_user"

\* Nothing is used after its destruction, in whatever order R runs finalizers
\* and whatever R code forgets first: a meter finds its provider
\* ("keep the provider alive, the meter refers to it", src/meter.c:177), and
\* spans and log records that end late do not reach a destroyed stream.
UsesLiveObjects ==
    \A use \in dead : use[1] = "stream" /\ ReportsFromDestructor(use[2])

\* An object of the span that came from another provider's tracer.
HasForeignObject(s) ==
    \E h \in Objects : span[h] = s /\ ProviderOf(h) # ProviderOf(s)

\* The collector loses no span: a span whose objects R code forgets, before or
\* after those of its tracer and provider, is exported by its finalizer, if R
\* runs newest objects first. It is only dropped if R code has shut the provider
\* down, or keeps the span alive with an object that get_active_span() of
\* another provider's tracer returned, which does not refer to the span's own
\* provider (R/tracer.R:76, otel_span_finally() of src/span.c:26).
SpansDelivered ==
    \A s \in Objects : spanState[s] = "dropped" /\ order = "newest" =>
        shut[ProviderOf(s)] = "by_user" \/ HasForeignObject(s)

\* At exit, everything is deleted, every span has ended and every measurement
\* has been reported, except those that came after a shutdown()
\* (R_RegisterCFinalizerEx(..., TRUE) at every constructor).
ExitFinishes ==
    exited /\ ready = {} =>
        \A o \in Objects :
            /\ address[o] = "null"
            /\ spanState[o] # "recording"
            /\ unreported[o] => shut[o] = "by_user"
=============================================================================
