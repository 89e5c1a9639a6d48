--------------------------- MODULE SpanProcessors ---------------------------
(***************************************************************************)
(* The registry of span processors and the calls of their on_start         *)
(* callbacks (R/span-processor.R).                                         *)
(*                                                                         *)
(* Everything is in one R thread, but a callback is R code of somebody     *)
(* else: while one runs, and while a package is loaded that defines a      *)
(* processor, other processors can come and go, and spans can be started.  *)
(* So the calls of run_span_processors() that are in progress form a stack *)
(* here, and R code runs at its top.                                       *)
(*                                                                         *)
(* otelsdk uses the always-on sampler of the library, every new span is    *)
(* recording, and the early return for other spans is never taken.         *)
(***************************************************************************)
EXTENDS Integers, Sequences

CONSTANTS
    Spans,        \* the spans the session can start
    EnvIds,       \* ids for the entries of OTEL_R_SPAN_PROCESSORS, in order
    GeneratedIds, \* the ids new_span_processor_id() makes, in order; as many
                  \* as the session asks for
    UserIds,      \* the ids that callers of add_span_processor() choose
    MaxCallbacks, \* bound on the processors that are ever added
    Escapes       \* how R code can fail so that otelsdk does not catch it

\* R code returns, signals an error, or jumps out (e.g. by an interrupt).
Outcomes == {"value", "error", "jump"}

ASSUME ProcessorsAssumption ==
    /\ EnvIds \in Seq(STRING) /\ GeneratedIds \in Seq(STRING)
    /\ UserIds \subseteq STRING
    /\ MaxCallbacks \in Nat
    \* OTEL_ENV=dev adds "error".
    /\ Escapes \in {{"jump"}, {"error", "jump"}}

VARIABLES
    procs,      \* the$span_processors
    counter,    \* the$span_processor_counter
    envLoaded,  \* the$span_processors_env_loaded
    busy,       \* the$in_span_processor
    runs,       \* the calls of run_span_processors(), innermost last
    added,      \* how many processors were added so far (history)
    loads,      \* of an entry: how often it was loaded (history)
    leftAt,     \* the entry at which loading was left early, or 0 (history)
    started,    \* the spans that were started (history)
    called      \* of a span: the callbacks it was given to (history)

registry == <<procs, counter, added>>
vars == <<procs, counter, envLoaded, busy, runs, added, loads, leftAt,
          started, called>>

Ids == UserIds \cup {EnvIds[i] : i \in DOMAIN EnvIds}
               \cup {GeneratedIds[i] : i \in DOMAIN GeneratedIds}

\* A callback is known by the number of the add_span_processor() call that
\* brought it; NoCallback is an on_start that is NULL.
NoCallback == 0
Callbacks == 1..MaxCallbacks
Procs == Seq([id : Ids, onStart : Callbacks \cup {NoCallback}])

\* A run is at "load" before entry next of the environment variable, or at
\* "call" before callback next of the processors it found.
Runs == [span : Spans, at : {"load", "call"}, next : Nat \ {0}, found : Procs]

TypeOK ==
    /\ procs \in Procs
    /\ counter \in 0..Len(GeneratedIds)
    /\ envLoaded \in BOOLEAN
    /\ busy \in BOOLEAN
    /\ runs \in Seq(Runs)
    /\ added \in 0..MaxCallbacks
    /\ loads \in [DOMAIN EnvIds -> Nat]
    /\ leftAt \in 0..Len(EnvIds)
    /\ started \subseteq Spans
    /\ called \in [Spans -> Seq(Callbacks)]

Init ==
    /\ procs = <<>>
    /\ counter = 0
    /\ envLoaded = FALSE
    /\ busy = FALSE
    /\ runs = <<>>
    /\ added = 0
    /\ loads = [e \in DOMAIN EnvIds |-> 0]
    /\ leftAt = 0
    /\ started = {}
    /\ called = [s \in Spans |-> <<>>]

-----------------------------------------------------------------------------
(* The registry *)

Registered(ps, id) == \E i \in DOMAIN ps : ps[i].id = id

\* procs[[id]] <- list(on_start = cb): replaced in place, or put last.
AddTo(ps, id, cb) ==
    IF Registered(ps, id)
    THEN [i \in DOMAIN ps |->
            IF ps[i].id = id THEN [id |-> id, onStart |-> cb] ELSE ps[i]]
    ELSE Append(ps, [id |-> id, onStart |-> cb])

IndexOf(ps, id) == CHOOSE i \in DOMAIN ps : ps[i].id = id

\* procs[[id]] <- NULL
RemoveFrom(ps, id) ==
    IF Registered(ps, id)
    THEN SubSeq(ps, 1, IndexOf(ps, id) - 1) \o SubSeq(ps, IndexOf(ps, id) + 1, Len(ps))
    ELSE ps

Register(id, hasCallback) ==
    /\ added < MaxCallbacks
    /\ added' = added + 1
    /\ procs' = AddTo(procs, id, IF hasCallback THEN added + 1 ELSE NoCallback)

-----------------------------------------------------------------------------
(* The stack of runs *)

Top == runs[Len(runs)]
Below == SubSeq(runs, 1, Len(runs) - 1)
Loading == runs # <<>> /\ Top.at = "load" /\ Top.next \in DOMAIN EnvIds
Calling == runs # <<>> /\ Top.at = "call" /\ Top.next \in DOMAIN Top.found

\* Mutant: the callback is looked up in the registry as it is now.
CallbackNow(run) ==
    IF Registered(procs, run.found[run.next].id)
    THEN procs[IndexOf(procs, run.found[run.next].id)].onStart
    ELSE NoCallback

\* procs[[id]][["on_start"]], of the processors as the run found them.
CallbackAt(run) == run.found[run.next].onStart

\* R code of others runs: the session's, a package's, or a callback's.
ForeignCode ==
    \/ runs = <<>>
    \/ Loading
    \/ Calling /\ CallbackAt(Top) # NoCallback

NextItem == Append(Below, [Top EXCEPT !.next = @ + 1])

\* Mutant: in_span_processor is not checked.
BeginCallsAlways(s, below) ==
    IF procs = <<>>
    THEN /\ runs' = below
         /\ UNCHANGED busy
    ELSE /\ runs' = Append(below,
                       [span |-> s, at |-> "call", next |-> 1, found |-> procs])
         /\ busy' = TRUE

\* The run takes its processors and begins to call them, or has none to call.
BeginCalls(s, below) ==
    IF procs = <<>> \/ busy
    THEN /\ runs' = below
         /\ UNCHANGED busy
    ELSE /\ runs' = Append(below,
                       [span |-> s, at |-> "call", next |-> 1, found |-> procs])
         /\ busy' = TRUE

-----------------------------------------------------------------------------
(* What R code of others does *)

AddSpanProcessor(id, hasCallback) ==
    /\ ForeignCode
    /\ Register(id, hasCallback)
    /\ UNCHANGED <<counter, envLoaded, busy, runs, loads, leftAt, started, called>>

\* add_span_processor(id = NULL)
AddWithNewId(hasCallback) ==
    /\ ForeignCode
    /\ counter < Len(GeneratedIds)
    /\ counter' = counter + 1
    /\ Register(GeneratedIds[counter + 1], hasCallback)
    /\ UNCHANGED <<envLoaded, busy, runs, loads, leftAt, started, called>>

RemoveSpanProcessor(id) ==
    /\ ForeignCode
    /\ procs' = RemoveFrom(procs, id)
    /\ UNCHANGED <<counter, envLoaded, busy, runs, added, loads, leftAt,
                   started, called>>

\* Mutant: the flag is not set before the entries are loaded.
StartSpanFlagLater(s) ==
    /\ ForeignCode
    /\ s \notin started
    /\ started' = started \cup {s}
    /\ IF envLoaded
       THEN BeginCalls(s, runs)
       ELSE /\ runs' = Append(runs,
                          [span |-> s, at |-> "load", next |-> 1, found |-> <<>>])
            /\ UNCHANGED busy
    /\ UNCHANGED <<registry, envLoaded, loads, leftAt, called>>

\* Mutant: the entries are loaded only if there is no processor yet.
StartSpanLoadsIfNone(s) ==
    /\ ForeignCode
    /\ s \notin started
    /\ started' = started \cup {s}
    /\ IF envLoaded \/ procs # <<>>
       THEN /\ BeginCalls(s, runs)
            /\ UNCHANGED envLoaded
       ELSE /\ runs' = Append(runs,
                          [span |-> s, at |-> "load", next |-> 1, found |-> <<>>])
            /\ envLoaded' = TRUE
            /\ UNCHANGED busy
    /\ UNCHANGED <<registry, loads, leftAt, called>>

\* span_new() calls run_span_processors().
StartSpan(s) ==
    /\ ForeignCode
    /\ s \notin started
    /\ started' = started \cup {s}
    /\ IF envLoaded
       THEN /\ BeginCalls(s, runs)
            /\ UNCHANGED envLoaded
       ELSE /\ runs' = Append(runs,
                          [span |-> s, at |-> "load", next |-> 1, found |-> <<>>])
            /\ envLoaded' = TRUE
            /\ UNCHANGED busy
    /\ UNCHANGED <<registry, loads, leftAt, called>>

-----------------------------------------------------------------------------
(* What run_span_processors() does *)

\* An entry is loaded, with or without an on_start, or it is bad.  If R code
\* jumps out of it, load_span_processors_env() is left with it.
LoadEntry(outcome, hasCallback) ==
    /\ Loading
    /\ loads' = [loads EXCEPT ![Top.next] = @ + 1]
    /\ runs' = IF outcome \in Escapes THEN Below ELSE NextItem
    /\ leftAt' = IF outcome \in Escapes THEN Top.next ELSE leftAt
    /\ IF outcome = "value" THEN Register(EnvIds[Top.next], hasCallback)
       ELSE UNCHANGED <<procs, added>>
    /\ UNCHANGED <<counter, envLoaded, busy, started, called>>

EnvDone ==
    /\ runs # <<>> /\ Top.at = "load" /\ ~Loading
    /\ BeginCalls(Top.span, Below)
    /\ UNCHANGED <<registry, envLoaded, loads, leftAt, started, called>>

\* The callback is over.  If it fails for good, on.exit() still resets busy.
EndCallback(outcome) ==
    /\ Calling
    /\ CallbackAt(Top) # NoCallback
    /\ called' = [called EXCEPT ![Top.span] = Append(@, CallbackAt(Top))]
    /\ IF outcome \in Escapes
       THEN /\ runs' = Below
            /\ busy' = FALSE
       ELSE /\ runs' = NextItem
            /\ UNCHANGED busy
    /\ UNCHANGED <<registry, envLoaded, loads, leftAt, started>>

SkipProcessor ==
    /\ Calling
    /\ CallbackAt(Top) = NoCallback
    /\ runs' = NextItem
    /\ UNCHANGED <<registry, envLoaded, busy, loads, leftAt, started, called>>

EndRun ==
    /\ runs # <<>> /\ Top.at = "call" /\ ~Calling
    /\ runs' = Below
    /\ busy' = FALSE
    /\ UNCHANGED <<registry, envLoaded, loads, leftAt, started, called>>

Next ==
    \/ \E id \in UserIds, cb \in BOOLEAN : AddSpanProcessor(id, cb)
    \/ \E cb \in BOOLEAN : AddWithNewId(cb)
    \/ \E id \in Ids : RemoveSpanProcessor(id)
    \/ \E s \in Spans : StartSpan(s)
    \/ \E outcome \in Outcomes, cb \in BOOLEAN : LoadEntry(outcome, cb)
    \/ EnvDone
    \/ \E outcome \in Outcomes : EndCallback(outcome)
    \/ SkipProcessor
    \/ EndRun

Spec == Init /\ [][Next]_vars
-----------------------------------------------------------------------------
(* Properties *)

\* The flag in_span_processor is up exactly while one run calls callbacks,
\* however they end.  So a span that a callback starts is given to nobody,
\* at any depth, and no failure turns the processors off for the rest of
\* the session (run_span_processors and its on.exit()).
OneRunCalls ==
    /\ busy <=> \E i \in DOMAIN runs : runs[i].at = "call"
    /\ \A i, j \in DOMAIN runs :
         runs[i].at = "call" /\ runs[j].at = "call" => i = j

\* cbs are the callbacks of the first n of the processors ps: of all that have
\* one, once each, and in their order.
CallbacksOf(cbs, ps, n) ==
    LET those == {j \in 1..n : ps[j].onStart # NoCallback}
    IN  \E pos \in [DOMAIN cbs -> those] :
          /\ \A k \in DOMAIN cbs : cbs[k] = ps[pos[k]].onStart
          /\ \A k, m \in DOMAIN cbs : k < m => pos[k] < pos[m]
          /\ \A j \in those : \E k \in DOMAIN cbs : pos[k] = j

\* A span is given to the processors that were there when its turn came, in
\* their order and once each, even if callbacks add, replace or remove
\* processors meanwhile (the local copy procs in run_span_processors).
ServedInOrder ==
    \A i \in DOMAIN runs : runs[i].at = "call" =>
      CallbacksOf(called[runs[i].span], runs[i].found, runs[i].next - 1)

\* The environment variable is used once, although the packages it names can
\* start spans while they are being loaded (span_processors_env_loaded).
LoadedOnce ==
    /\ \A e \in DOMAIN EnvIds : loads[e] <= 1
    /\ \A i, j \in DOMAIN runs :
         runs[i].at = "load" /\ runs[j].at = "load" => i = j

\* No callback is called before the entries of the environment variable were
\* tried, but for spans that are started while they are being loaded.  If R
\* code jumped out of an entry, that one was the last: those after it were not
\* tried and never will be, since span_processors_env_loaded was set before
\* (the order of the steps of run_span_processors).
EnvBeforeCalls ==
    \A i \in DOMAIN runs :
      /\ runs[i].at = "call"
      /\ \A j \in 1..(i - 1) : runs[j].at # "load"
      => \A e \in DOMAIN EnvIds :
           loads[e] = IF leftAt = 0 \/ e <= leftAt THEN 1 ELSE 0

\* A generated id is new: it does not replace a processor that is there, as
\* "a new id is generated" in the docs says. new_span_processor_id() does not
\* look at the ids in use: this fails if one of UserIds is in GeneratedIds.
GeneratedIdIsNew ==
    [][counter' > counter => Len(procs') = Len(procs) + 1]_vars
=============================================================================
