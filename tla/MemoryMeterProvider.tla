------------------------ MODULE MemoryMeterProvider ------------------------
(***************************************************************************)
(* The in-memory meter provider: R/meter-provider-memory.R, src/meter.c    *)
(* and src/meter-sdk.cc. R code measures, flushes, shuts down and takes    *)
(* the reports, on the R thread. The provider has a reader thread, the     *)
(* library's, that collects what was measured into a report and exports it *)
(* to a ring buffer, when its timer fires and when flush() or shutdown()   *)
(* ask for it. A report says how many of the measurements of each          *)
(* instrument it includes, which stands for their sum or last value.       *)
(***************************************************************************)
EXTENDS Integers, Sequences, SequencesExt

CONSTANTS
    Instruments,    \* the counters, histograms and gauges
    Capacity,       \* the buffer_size option
    Temporality,    \* the aggregation_temporality option
    TimerFires,     \* whether a run lasts longer than export_interval
    MaxMeasured     \* bound: the measurements of an instrument

ASSUME ConstantsAssumption ==
    /\ Capacity \in Nat \ {0}
    /\ MaxMeasured \in Nat
    /\ TimerFires \in BOOLEAN

VARIABLES
    measured,   \* the measurements of each instrument so far
    held,       \* R code can reach the provider
    call,       \* the call of the provider that the R thread is in
    shut,       \* a shutdown has begun
    requested,  \* the call waits for a report
    woken,      \* the reader thread has been told not to wait for its timer
    stopped,    \* the reader thread has been told to leave
    reader,     \* where the reader thread is
    serving,    \* the collection began after the request
    unread,     \* the instruments that the collection has not come to
    cut,        \* what it has read of the others
    ring,       \* the reports of the buffer, oldest first
    taken       \* history: the newest report that get_metrics() returned

readerVars == <<reader, serving, unread, cut>>
signals == <<requested, woken, stopped>>
vars == <<measured, held, call, shut, signals, readerVars, ring, taken>>

Values == [Instruments -> 0..MaxMeasured]
Nothing == [i \in Instruments |-> 0]
Reports == [temporality : {"cumulative"}, value : Values]

\* The exporter is created without a temporality selector, so that the option
\* is not used: reports are cumulative, the library's default.
ReportOf(value) == [temporality |-> "cumulative", value |-> value]

Init ==
    /\ measured = Nothing
    /\ held = TRUE
    /\ call = "none"
    /\ shut = FALSE
    /\ requested = FALSE
    /\ woken = FALSE
    /\ stopped = FALSE
    /\ reader = "top"
    /\ serving = FALSE
    /\ unread = {}
    /\ cut = Nothing
    /\ ring = <<>>
    /\ taken = Nothing

-----------------------------------------------------------------------------
(* The R thread.                                                           *)

Idle == held /\ call = "none"

\* add() or record() of an instrument.
Measure(i) ==
    /\ Idle
    /\ measured[i] < MaxMeasured
    /\ measured' = [measured EXCEPT ![i] = @ + 1]
    /\ UNCHANGED <<held, call, shut, signals, readerVars, ring, taken>>

\* Asks the reader thread for a report and waits for it. On a provider that is
\* shut down the library refuses.
Flush ==
    /\ Idle
    /\ ~shut
    /\ call' = "flush"
    /\ requested' = TRUE
    /\ UNCHANGED <<measured, held, shut, woken, stopped, readerVars, ring, taken>>

\* The condition that the call waits for wakes the reader thread up each time
\* that it is evaluated and there is no report yet.
WakeReader ==
    /\ call \in {"flush", "drain"}
    /\ requested
    /\ ~woken
    /\ woken' = TRUE
    /\ UNCHANGED <<measured, held, call, shut, requested, stopped, readerVars,
                   ring, taken>>

FlushReturns ==
    /\ call = "flush"
    /\ ~requested
    /\ call' = "none"
    /\ UNCHANGED <<measured, held, shut, signals, readerVars, ring, taken>>

\* Shutting down happens once. It begins by waiting for a report.
BeginShutdown ==
    /\ shut' = TRUE
    /\ IF shut THEN UNCHANGED <<call, requested>>
               ELSE call' = "drain" /\ requested' = TRUE
    /\ UNCHANGED <<measured, woken, stopped, readerVars, ring, taken>>

Shutdown ==
    /\ Idle
    /\ BeginShutdown
    /\ UNCHANGED held

\* The finalizer deletes the provider, and its destructor shuts it down.
\* Instruments refer to their meter, and that to the provider: nothing is
\* measured any more.
Finalize ==
    /\ Idle
    /\ held' = FALSE
    /\ BeginShutdown

DrainDone ==
    /\ call = "drain"
    /\ ~requested
    /\ call' = "join"
    /\ stopped' = TRUE
    /\ UNCHANGED <<measured, held, shut, requested, woken, readerVars, ring, taken>>

\* Mutant: shutdown() does not wait for the reader thread to leave.
ShutdownReturnsEarly ==
    /\ call = "join"
    /\ call' = "none"
    /\ UNCHANGED <<measured, held, shut, signals, readerVars, ring, taken>>

ShutdownReturns ==
    /\ call = "join"
    /\ reader = "gone"
    /\ call' = "none"
    /\ UNCHANGED <<measured, held, shut, signals, readerVars, ring, taken>>

\* Mutant: the reports stay in the buffer.
GetMetricsKeeps ==
    /\ Idle
    /\ ring # <<>>
    /\ taken' = Last(ring).value
    /\ UNCHANGED <<measured, held, call, shut, signals, readerVars, ring>>

\* Returns the reports and removes them from the buffer.
GetMetrics ==
    /\ Idle
    /\ ring # <<>>
    /\ ring' = <<>>
    /\ taken' = Last(ring).value
    /\ UNCHANGED <<measured, held, call, shut, signals, readerVars>>

\* Converting the reports runs out of memory when they have left the buffer
\* already: the caller gets an empty list.
GetMetricsFails ==
    /\ Idle
    /\ ring # <<>>
    /\ ring' = <<>>
    /\ UNCHANGED <<measured, held, call, shut, signals, readerVars, taken>>

-----------------------------------------------------------------------------
(* The reader thread. It begins with a collection, before any timer.       *)

\* Mutant: a request is noticed when the collection is over.
BeginCollectUnaware ==
    /\ reader = "top"
    /\ reader' = "collecting"
    /\ serving' = TRUE
    /\ unread' = Instruments
    /\ cut' = Nothing
    /\ UNCHANGED <<measured, held, call, shut, signals, ring, taken>>

\* Mutant: an off by one in the number of the request that it answers.
BeginCollectForLast ==
    /\ reader = "top"
    /\ reader' = "collecting"
    /\ serving' = FALSE
    /\ unread' = Instruments
    /\ cut' = Nothing
    /\ UNCHANGED <<measured, held, call, shut, signals, ring, taken>>

BeginCollect ==
    /\ reader = "top"
    /\ reader' = "collecting"
    /\ serving' = requested
    /\ unread' = Instruments
    /\ cut' = Nothing
    /\ UNCHANGED <<measured, held, call, shut, signals, ring, taken>>

\* Each instrument has a lock of its own, so that R code can measure between
\* two of them.
ReadInstrument(i) ==
    /\ reader = "collecting"
    /\ i \in unread
    /\ unread' = unread \ {i}
    /\ cut' = [cut EXCEPT ![i] = measured[i]]
    /\ UNCHANGED <<measured, held, call, shut, signals, reader, serving, ring, taken>>

\* A full buffer drops the new report.
Added(report) ==
    IF Len(ring) < Capacity THEN Append(ring, report) ELSE ring

\* Exports the report, and answers the request it serves.
Export ==
    /\ reader = "collecting"
    /\ unread = {}
    /\ reader' = "waiting"
    /\ serving' = FALSE
    /\ requested' = (requested /\ ~serving)
    /\ ring' = Added(ReportOf(cut))
    /\ UNCHANGED <<measured, held, call, shut, woken, stopped, unread, cut, taken>>

LoopOrLeave == reader' = IF stopped THEN "gone" ELSE "top"

ReaderWoken ==
    /\ reader = "waiting"
    /\ woken \/ stopped
    /\ woken' = FALSE
    /\ LoopOrLeave
    /\ UNCHANGED <<measured, held, call, shut, requested, stopped, serving,
                   unread, cut, ring, taken>>

Timer ==
    /\ TimerFires
    /\ reader = "waiting"
    /\ LoopOrLeave
    /\ UNCHANGED <<measured, held, call, shut, signals, serving, unread, cut,
                   ring, taken>>

\* The provider is deleted: nothing of it is left to run.
Deleted ==
    /\ ~held
    /\ call = "none"
    /\ UNCHANGED vars

CallStep == WakeReader \/ FlushReturns \/ DrainDone \/ ShutdownReturns

ReaderStep ==
    \/ BeginCollect
    \/ \E i \in Instruments : ReadInstrument(i)
    \/ Export
    \/ ReaderWoken

Next ==
    \/ \E i \in Instruments : Measure(i)
    \/ Flush
    \/ Shutdown
    \/ Finalize
    \/ GetMetrics
    \/ GetMetricsFails
    \/ CallStep
    \/ ReaderStep
    \/ Timer
    \/ Deleted

\* Both threads run. Nothing says that the timer fires before the session ends.
Spec == Init /\ [][Next]_vars /\ WF_vars(CallStep) /\ WF_vars(ReaderStep)

-----------------------------------------------------------------------------

TypeOK ==
    /\ measured \in Values
    /\ held \in BOOLEAN
    /\ call \in {"none", "flush", "drain", "join"}
    /\ shut \in BOOLEAN
    /\ requested \in BOOLEAN
    /\ woken \in BOOLEAN
    /\ stopped \in BOOLEAN
    /\ reader \in {"top", "collecting", "waiting", "gone"}
    /\ serving \in BOOLEAN
    /\ unread \in SUBSET Instruments
    /\ cut \in Values
    /\ ring \in Seq(Reports)
    /\ Len(ring) <= Capacity
    /\ taken \in Values

AtMost(v, w) == \A i \in Instruments : v[i] <= w[i]

\* Reports never go back: those in the buffer are in order, include what
\* get_metrics() returned before, and nothing that was not measured, although
\* the R thread measures while the reader thread goes through the instruments.
ReportsGrow ==
    /\ \A j, k \in 1..Len(ring) : j < k => AtMost(ring[j].value, ring[k].value)
    /\ \A k \in 1..Len(ring) :
          /\ AtMost(taken, ring[k].value)
          /\ AtMost(ring[k].value, measured)

Complete == Len(ring) = Capacity \/ Last(ring).value = measured

\* When flush() or shutdown() returns, the newest report in the buffer has
\* all that was measured, unless the buffer was full: a collection that was
\* under way when the call began does not count as an answer.
ReturnsAreComplete ==
    [][call # "none" /\ call' = "none" => Complete']_vars

\* Once shutdown() has returned, nothing comes to the buffer.
ShutdownIsFinal ==
    [][shut /\ call = "none" => Len(ring') <= Len(ring)]_vars

\* flush() and shutdown() return, although nobody else wakes the reader thread.
CallsReturn == (call # "none") ~> (call = "none")

\* The reports have the temporality of the aggregation_temporality option.
\* The code does not use the option: this fails if Temporality is "delta".
TemporalityAsGiven ==
    \A k \in 1..Len(ring) : ring[k].temporality = Temporality
=============================================================================
