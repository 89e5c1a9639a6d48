----------------------------- MODULE Recording -----------------------------
(***************************************************************************)
(* with_otel_record() of R/record.R. The otel package keeps the current    *)
(* provider of each signal in a cache. A call saves the cache, puts        *)
(* in-memory providers in place, evaluates an expression, which may record *)
(* signals, fail, and record with calls of its own, asks the providers for *)
(* what they have, and puts the cache back.                                *)
(*                                                                         *)
(* A provider is the number of the call that made it. Spans and log        *)
(* records are in the buffer of their provider when they have ended or     *)
(* been emitted; measurements when the reader thread has collected them.   *)
(***************************************************************************)
EXTENDS Integers, Sequences, FiniteSets

CONSTANTS
    Unset,       \* what the cache has for a signal nobody has used
    Standard,    \* the provider that otel makes for the session then
    MaxCalls,    \* bound: calls of with_otel_record()
    MaxRecords   \* bound: spans, measurements and log records

ASSUME RecordingAssumption ==
    /\ MaxCalls \in Nat
    /\ MaxRecords \in Nat
    /\ Unset \notin 0..MaxCalls
    /\ Standard \notin 0..MaxCalls \cup {Unset}

VARIABLES
    cache,     \* the cache of the otel package
    calls,     \* the calls in progress, the outermost first
    meters,    \* whether the meter provider of a call is running or shut down
    buffer,    \* what the providers of a call can return
    pending,   \* measurements that their reader thread has not collected
    known,     \* the providers that R code has tracers, meters, loggers of
    open,      \* spans that have not ended, with their provider
    lastCall,  \* number of calls so far
    lastNo,    \* number of spans, measurements and log records so far
    finished,  \* history: of each call, everything its providers got in time
    result     \* history: what the last call returned, and which it was

vars == <<cache, calls, meters, buffer, pending, known, open, lastCall, lastNo,
          finished, result>>

Signals == {"traces", "metrics", "logs"}
CallIds == 1..MaxCalls
Providers == CallIds \cup {Standard}
Caches == [Signals -> Providers \cup {Unset}]
Frames == [id : CallIds, what : SUBSET Signals, copy : Caches]
Nos == 1..MaxRecords
NoRecords == [s \in Signals |-> {}]
NoResult == [id |-> 0, records |-> NoRecords]

Init ==
    /\ cache = [s \in Signals |-> Unset]
    /\ calls = <<>>
    /\ meters = [c \in CallIds |-> "none"]
    /\ buffer = [c \in CallIds |-> NoRecords]
    /\ pending = [c \in CallIds |-> {}]
    /\ known = [s \in Signals |-> {}]
    /\ open = {}
    /\ lastCall = 0
    /\ lastNo = 0
    /\ finished = [c \in CallIds |-> NoRecords]
    /\ result = NoResult

Top == calls[Len(calls)]
Outer == SubSeq(calls, 1, Len(calls) - 1)

-----------------------------------------------------------------------------
(* A call of with_otel_record().                                           *)

\* The cache that otel_restore_cache() puts in place: signals that are not
\* recorded are unset.
RecordingCache(what, id) == [s \in Signals |-> IF s \in what THEN id ELSE Unset]

Begin(what) ==
    /\ lastCall < MaxCalls
    /\ lastCall' = lastCall + 1
    /\ calls' = Append(calls, [id |-> lastCall', what |-> what, copy |-> cache])
    /\ cache' = RecordingCache(what, lastCall')
    /\ meters' = IF "metrics" \in what
                 THEN [meters EXCEPT ![lastCall'] = "running"] ELSE meters
    /\ UNCHANGED <<buffer, pending, known, open, lastNo, finished, result>>

\* The options of the provider for signal s are invalid: those made before are
\* given up, and the meter provider, if it is among them, is shut down.
BeginFails(what, s) ==
    /\ lastCall < MaxCalls
    /\ s \in what
    /\ lastCall' = lastCall + 1
    /\ meters' = IF "metrics" \in what /\ s = "logs"
                 THEN [meters EXCEPT ![lastCall'] = "shut"] ELSE meters
    /\ UNCHANGED <<cache, calls, buffer, pending, known, open, lastNo, finished,
                   result>>

ShutMeters(frame) ==
    meters' = IF "metrics" \in frame.what
              THEN [meters EXCEPT ![frame.id] = "shut"] ELSE meters

\* Mutant: the second on.exit() replaces the first one.
LeaveShutOnly ==
    /\ calls # <<>>
    /\ calls' = Outer
    /\ cache' = IF "metrics" \in Top.what THEN cache ELSE Top.copy
    /\ ShutMeters(Top)

\* Mutant: the meter provider is left running.
LeaveRunning ==
    /\ calls # <<>>
    /\ calls' = Outer
    /\ cache' = Top.copy
    /\ UNCHANGED meters

\* The handlers on the on.exit() list. Shutting down collects what is pending,
\* for nobody.
Leave ==
    /\ calls # <<>>
    /\ calls' = Outer
    /\ cache' = Top.copy
    /\ ShutMeters(Top)

\* The expression has been evaluated: get_spans(), get_metrics(), get_logs().
Return ==
    /\ Leave
    /\ result' = [id |-> Top.id,
                  records |-> [s \in Signals |->
                      IF s \in Top.what THEN buffer[Top.id][s] ELSE {}]]
    /\ UNCHANGED <<buffer, pending, known, open, lastCall, lastNo, finished>>

\* The expression fails. The error can go on to the expression of the call
\* outside, or be caught on its way.
Fail ==
    /\ Leave
    /\ UNCHANGED <<buffer, pending, known, open, lastCall, lastNo, finished,
                   result>>

-----------------------------------------------------------------------------
(* Code that records signals, in an expression or outside of all calls.    *)

\* The provider for a signal: otel makes the standard one if there is none.
Provider(s) == IF cache[s] = Unset THEN Standard ELSE cache[s]

\* Code gets a tracer, meter or logger, or uses one that it got earlier, maybe
\* in another call of with_otel_record().
Use(s, p) ==
    /\ lastNo < MaxRecords
    /\ lastNo' = lastNo + 1
    /\ \/ /\ p = Provider(s)
          /\ cache' = [cache EXCEPT ![s] = p]
          /\ known' = [known EXCEPT ![s] = @ \cup {p}]
       \/ /\ p \in known[s]
          /\ UNCHANGED <<cache, known>>

\* In time: while the call that made provider p is in progress.
InProgress(p) == \E k \in 1..Len(calls) : calls[k].id = p

InTime(s, p, no) ==
    IF InProgress(p) THEN [finished EXCEPT ![p][s] = @ \cup {no}] ELSE finished

\* Mutant: what a span or a record belongs to is looked up when it ends.
BufferedByInnermost(s, p, no) ==
    IF calls = <<>> THEN buffer ELSE [buffer EXCEPT ![Top.id][s] = @ \cup {no}]

Buffered(s, p, no) ==
    IF p = Standard THEN buffer ELSE [buffer EXCEPT ![p][s] = @ \cup {no}]

StartSpan(p) ==
    /\ Use("traces", p)
    /\ open' = open \cup {[no |-> lastNo', provider |-> p]}
    /\ UNCHANGED <<calls, meters, buffer, pending, lastCall, finished, result>>

\* A span belongs to the provider it was started with.
EndSpan(span) ==
    /\ span \in open
    /\ open' = open \ {span}
    /\ buffer' = Buffered("traces", span.provider, span.no)
    /\ finished' = InTime("traces", span.provider, span.no)
    /\ UNCHANGED <<cache, calls, meters, pending, known, lastCall, lastNo,
                   result>>

Log(p) ==
    /\ Use("logs", p)
    /\ buffer' = Buffered("logs", p, lastNo')
    /\ finished' = InTime("logs", p, lastNo')
    /\ UNCHANGED <<calls, meters, pending, open, lastCall, result>>

Measure(p) ==
    /\ Use("metrics", p)
    /\ pending' = IF p = Standard THEN pending
                  ELSE [pending EXCEPT ![p] = @ \cup {lastNo'}]
    /\ finished' = InTime("metrics", p, lastNo')
    /\ UNCHANGED <<calls, meters, buffer, open, lastCall, result>>

\* The reader thread of a call's meter provider, at its start or by its timer.
Collect(c) ==
    /\ meters[c] = "running"
    /\ pending[c] # {}
    /\ buffer' = [buffer EXCEPT ![c]["metrics"] = @ \cup pending[c]]
    /\ pending' = [pending EXCEPT ![c] = {}]
    /\ UNCHANGED <<cache, calls, meters, known, open, lastCall, lastNo,
                   finished, result>>

\* The session goes on without recording anything.
Other == UNCHANGED vars

Next ==
    \/ \E what \in SUBSET Signals : Begin(what)
    \/ \E what \in SUBSET Signals, s \in Signals : BeginFails(what, s)
    \/ Return
    \/ Fail
    \/ \E p \in Providers : StartSpan(p)
    \/ \E span \in open : EndSpan(span)
    \/ \E p \in Providers : Log(p)
    \/ \E p \in Providers : Measure(p)
    \/ \E c \in CallIds : Collect(c)
    \/ Other

Spec == Init /\ [][Next]_vars

-----------------------------------------------------------------------------

TypeOK ==
    /\ cache \in Caches
    /\ calls \in Seq(Frames)
    /\ meters \in [CallIds -> {"none", "running", "shut"}]
    /\ buffer \in [CallIds -> [Signals -> SUBSET Nos]]
    /\ pending \in [CallIds -> SUBSET Nos]
    /\ known \in [Signals -> SUBSET Providers]
    /\ open \in SUBSET [no : Nos, provider : Providers]
    /\ lastCall \in 0..MaxCalls
    /\ lastNo \in 0..MaxRecords
    /\ finished \in [CallIds -> [Signals -> SUBSET Nos]]
    /\ result \in [id : 0..MaxCalls, records : [Signals -> SUBSET Nos]]

\* Signals go to the innermost call, if it records them, and otherwise to the
\* provider of the session: never to the providers of another call, after
\* whatever nesting, failures on the way, and invalid options.
InnermostRecords ==
    \A s \in Signals :
        cache[s] \in IF calls # <<>> /\ s \in Top.what
                     THEN {Top.id} ELSE {Unset, Standard}

\* A call that is over leaves no reader thread behind.
ReadersStop ==
    \A c \in CallIds : meters[c] = "running" => InProgress(c)

\* A call returns the spans that ended and the log records that were emitted
\* with its providers while it was in progress, and nothing else.
ReturnsSpansAndLogs ==
    [][result' # result =>
        \A s \in Top.what \ {"metrics"} :
            result'.records[s] = finished[Top.id][s]]_vars

\* R/record.R says that the result has "the recorded metrics measurements".
\* It has those that the reader thread has exported so far: this fails.
ReturnsMetrics ==
    [][result' # result /\ "metrics" \in Top.what =>
        result'.records["metrics"] = finished[Top.id]["metrics"]]_vars
=============================================================================
