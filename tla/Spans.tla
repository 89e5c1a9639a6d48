------------------------------- MODULE Spans -------------------------------
(***************************************************************************)
(* The life of spans and of their activation scopes in one R session.      *)
(*                                                                         *)
(* R code starts spans, activates and deactivates them, and ends them,     *)
(* either by hand or through the handlers that span_new() and activate()   *)
(* push on the on.exit() list of a function call (R/span.R).  A call that  *)
(* leaves, by returning or by an error, runs its handlers newest first.    *)
(* The garbage collector may finalize what R code cannot reach any more,   *)
(* between any two steps: a scope (which deactivates), or a span (which    *)
(* ends it once no context holds it).                                      *)
(*                                                                         *)
(* R is single threaded, so each call into C runs to its end.              *)
(***************************************************************************)
EXTENDS RuntimeContext

CONSTANTS
    Spans,      \* the spans the session can start
    Scopes,     \* the scopes it can create
    NoSpan,     \* no span: the invalid span of an empty context stack
    MaxDepth,   \* bound on the nesting of R function calls
    Parents,    \* the parent options R code uses
    SetCodes,   \* the status codes it gives to set_status()
    EndCodes    \* ... and to end()

Statuses == {"unset", "ok", "error"}

ASSUME SpansAssumption ==
    /\ NoSpan \notin Spans
    /\ Spans \cap {"active", "root"} = {}
    /\ MaxDepth \in Nat
    /\ Parents \subseteq Spans \cup {"active", "root"}
    /\ SetCodes \subseteq Statuses
    /\ EndCodes \subseteq Statuses \cup {"keep", "auto"}

VARIABLES
    phase,         \* of a span: "unused", "recording" or "ended"
    status,        \* of a span: its status code
    exception,     \* of a span: end() recorded an "exception" event
    parent,        \* of a span: the parent it was started with
    handle,        \* of a span: its otel_span R objects (see Handles)
    exported,      \* ended spans, in the order the processor got them
    scope,         \* of a scope: who holds its external pointer
    scopeSpan,     \* of a scope: the span it activated
    activeBefore,  \* of a scope: the span active when it started (history)
    below,         \* of a scope: those whose contexts its own derives from
    stack,         \* the context stack, a sequence of scopes
    frames         \* the R function calls in progress, innermost last

spanVars  == <<phase, status, exception, parent, exported>>
scopeVars == <<scope, scopeSpan, activeBefore, below, stack>>
vars == <<phase, status, exception, parent, handle, exported,
          scope, scopeSpan, activeBefore, below, stack, frames>>

-----------------------------------------------------------------------------
Phases == {"unused", "recording", "ended"}

\* "none": not created; "held": R code can reach an otel_span object of the
\* span; "dropped": only exit handlers may; "gone": all were finalized.
Handles == {"none", "held", "dropped", "gone"}

\* "deferred": an exit handler holds the scope; "user": R code does;
\* "dropped": nobody does; "cleared": the Scope was deleted.
ScopeStates == {"unused", "deferred", "user", "dropped", "cleared"}

\* What defer() puts on the on.exit list of a call.
Handlers == [op : {"end"}, of : Spans] \cup [op : {"detach"}, of : Scopes]
EndHandler(s)    == [op |-> "end", of |-> s]
DetachHandler(c) == [op |-> "detach", of |-> c]

Modes  == {"running", "returning", "failing"}

\* A call: how it goes, its on.exit list, and the span that was active when
\* it began (history).
Frames == [mode : Modes, todo : Seq(Handlers), outer : Spans \cup {NoSpan}]

TypeOK ==
    /\ phase \in [Spans -> Phases]
    /\ status \in [Spans -> Statuses]
    /\ exception \in [Spans -> BOOLEAN]
    /\ parent \in [Spans -> Spans \cup {NoSpan}]
    /\ handle \in [Spans -> Handles]
    /\ exported \in Seq(Spans)
    /\ scope \in [Scopes -> ScopeStates]
    /\ scopeSpan \in [Scopes -> Spans \cup {NoSpan}]
    /\ activeBefore \in [Scopes -> Spans \cup {NoSpan}]
    /\ below \in [Scopes -> Seq(Scopes)]
    /\ stack \in Seq(Scopes)
    /\ frames \in Seq(Frames)
    /\ \A c \in Scopes :
         scope[c] \in {"deferred", "user", "dropped"} => scopeSpan[c] \in Spans

Init ==
    /\ phase = [s \in Spans |-> "unused"]
    /\ status = [s \in Spans |-> "unset"]
    /\ exception = [s \in Spans |-> FALSE]
    /\ parent = [s \in Spans |-> NoSpan]
    /\ handle = [s \in Spans |-> "none"]
    /\ exported = <<>>
    /\ scope = [c \in Scopes |-> "unused"]
    /\ scopeSpan = [c \in Scopes |-> NoSpan]
    /\ activeBefore = [c \in Scopes |-> NoSpan]
    /\ below = [c \in Scopes |-> <<>>]
    /\ stack = <<>>
    /\ frames = <<>>

-----------------------------------------------------------------------------
(* State functions *)

ActiveSpan == CurrentSpan(stack, scopeSpan, NoSpan)

Live(c) == scope[c] \in {"deferred", "user", "dropped"}

\* h is still to be run by the call at depth d.
PendingAt(d, h) == \E i \in DOMAIN frames[d].todo : frames[d].todo[i] = h
Pending(h) == \E d \in DOMAIN frames : PendingAt(d, h)

Innermost == Len(frames)
Leaving == frames # <<>> /\ frames[Innermost].mode # "running"

\* R code of the session runs only when no call is being unwound.
UserTurn == ~Leaving

\* The environments a caller can pass as a scope: NULL, one that belongs to
\* no call in progress, or that of a call in progress.
NullEnv == 0
DeadEnv == -1
LiveEnv(env) == env \in DOMAIN frames
Envs == {NullEnv, DeadEnv} \cup DOMAIN frames

\* Mutant: on.exit(after = TRUE), the oldest handler runs first.
DeferAtEnd(fs, env, handlers) ==
    IF env = NullEnv THEN fs ELSE [fs EXCEPT ![env].todo = @ \o handlers]

\* on.exit(add = TRUE, after = FALSE): the newest handler runs first.
Defer(fs, env, handlers) ==
    IF env = NullEnv THEN fs
    ELSE [fs EXCEPT ![env].todo = handlers \o @]

-----------------------------------------------------------------------------
(* Pieces of steps *)

\* Mutant: the status Ok is not final.
AcceptedStatusAny(old, new) == IF new \in {"unset", "keep"} THEN old ELSE new

\* sdk Span::SetStatus: Ok is final and Unset is ignored.  "keep" is the
\* NULL status code of end(): SetStatus is not called.
AcceptedStatus(old, new) ==
    IF old = "ok" \/ new \in {"unset", "keep"} THEN old ELSE new

\* Mutant: an error on exit is recorded although R code set the status.
AutoErrorAlways(s, code, errorExit) == code = "auto" /\ errorExit

\* end(status_code = "auto") marks a span as failed only if its call is
\* failing and nobody has set the status.
AutoError(s, code, errorExit) ==
    code = "auto" /\ status[s] = "unset" /\ errorExit

CodeAtEnd(s, code, errorExit) ==
    CASE code # "auto"                 -> code
      [] AutoError(s, code, errorExit) -> "error"
      [] OTHER                         -> "keep"

\* Mutant: each call of End hands the span to the processor.
SdkEndTwice(s) ==
    /\ phase' = [phase EXCEPT ![s] = "ended"]
    /\ exported' = Append(exported, s)

\* sdk Span::End: the first call hands the span to the processor.
SdkEnd(s) ==
    IF phase[s] = "recording"
    THEN /\ phase' = [phase EXCEPT ![s] = "ended"]
         /\ exported' = Append(exported, s)
    ELSE UNCHANGED <<phase, exported>>

\* Mutant: end() gives up where it finds an error to record.
EndSpanGivesUp(s, code, errorExit) ==
    IF phase[s] = "recording" /\ AutoError(s, code, errorExit)
    THEN /\ status' = [status EXCEPT ![s] = "error"]
         /\ exception' = [exception EXCEPT ![s] = TRUE]
         /\ UNCHANGED <<phase, exported>>
    ELSE /\ SdkEnd(s)
         /\ UNCHANGED <<status, exception>>

\* The span's end() method.
EndSpan(s, code, errorExit) ==
    /\ SdkEnd(s)
    /\ IF phase[s] = "recording"
       THEN /\ status' = [status EXCEPT
                 ![s] = AcceptedStatus(@, CodeAtEnd(s, code, errorExit))]
            /\ exception' =
                 [exception EXCEPT ![s] = @ \/ AutoError(s, code, errorExit)]
       ELSE UNCHANGED <<status, exception>>

\* otel_start_span: a parent that is not valid means the active span.
ChosenParent(p) ==
    CASE p = "active" -> ActiveSpan
      [] p = "root"   -> NoSpan
      [] OTHER        -> p

CreateSpan(s, p) ==
    /\ phase[s] = "unused"
    /\ p \in Spans => handle[p] = "held"
    /\ phase' = [phase EXCEPT ![s] = "recording"]
    /\ parent' = [parent EXCEPT ![s] = ChosenParent(p)]
    /\ UNCHANGED <<status, exception, exported>>

\* Mutant: the scope does not keep the span.
StartScopeWithoutSpan(c, s, holder) ==
    /\ scope[c] = "unused"
    /\ scope' = [scope EXCEPT ![c] = holder]
    /\ activeBefore' = [activeBefore EXCEPT ![c] = ActiveSpan]
    /\ below' = [below EXCEPT ![c] = stack]
    /\ stack' = Attach(stack, c)
    /\ UNCHANGED scopeSpan

\* otel_scope_start: the scope keeps the span alive.  Its context derives
\* from the current one, which derives from the one under it, and so on.
StartScope(c, s, holder) ==
    /\ scope[c] = "unused"
    /\ scope' = [scope EXCEPT ![c] = holder]
    /\ scopeSpan' = [scopeSpan EXCEPT ![c] = s]
    /\ activeBefore' = [activeBefore EXCEPT ![c] = ActiveSpan]
    /\ below' = [below EXCEPT ![c] = stack]
    /\ stack' = Attach(stack, c)

\* The Scope c keeps the span s alive, on the stack or off it.
Keeps(c, s) == Live(c) /\ Carries(Derived(below[c], c), scopeSpan, s)

\* Mutant: a scope destroys the span it activated, and no other one.
LastHolderOwnSpan(c, s) ==
    /\ handle[s] = "gone"
    /\ Live(c) /\ scopeSpan[c] = s
    /\ \A d \in Scopes \ {c} : ~Keeps(d, s)

\* No otel_span object of s is left, and of the Scopes that keep it only c,
\* so deleting c destroys the span.
LastHolder(c, s) ==
    /\ handle[s] = "gone"
    /\ Keeps(c, s)
    /\ \A d \in Scopes \ {c} : ~Keeps(d, s)

\* Destroying spans that are recording ends them, one after the other.
SdkEndAll(order) ==
    /\ phase' = [s \in Spans |->
                   IF \E i \in DOMAIN order : order[i] = s THEN "ended" ELSE phase[s]]
    /\ exported' = exported \o order

\* Deleting the Scope c destroys the contexts that only c kept, its own first,
\* then the one it derives from, and so on.  A span goes with the last of
\* these contexts that carries it.
ReleaseContexts(c) ==
    LET derived == Derived(below[c], c)
        lost == {s \in Spans : phase[s] = "recording" /\ LastHolder(c, s)}
        GoesBefore(s, t) ==
          \E p \in DOMAIN derived :
            /\ scopeSpan[derived[p]] = t
            /\ \A q \in 1..p : scopeSpan[derived[q]] # s
    IN \E n \in 0..Len(derived) : \E order \in [1..n -> lost] :
         /\ \A s \in lost : \E i \in 1..n : order[i] = s
         /\ \A i, j \in 1..n : i < j => GoesBefore(order[i], order[j])
         /\ SdkEndAll(order)

\* Mutant: the pointer is cleared, the Scope is not deleted.
EndScopeLeaks(c) ==
    /\ IF Live(c) THEN scope' = [scope EXCEPT ![c] = "cleared"]
       ELSE UNCHANGED scope
    /\ UNCHANGED <<stack, phase, exported>>
    /\ UNCHANGED <<status, exception, parent, scopeSpan, activeBefore, below>>

\* Mutant: the scope that is current is detached, whichever it is.
EndScopePopsTop(c) ==
    /\ IF Live(c)
       THEN /\ scope' = [scope EXCEPT ![c] = "cleared"]
            /\ stack' = IF stack = <<>> THEN stack
                        ELSE SubSeq(stack, 1, Len(stack) - 1)
            /\ ReleaseContexts(c)
       ELSE UNCHANGED <<scope, stack, phase, exported>>
    /\ UNCHANGED <<status, exception, parent, scopeSpan, activeBefore, below>>

\* otel_scope_end and the scope's finalizer: nothing happens the second time.
EndScope(c) ==
    /\ IF Live(c)
       THEN /\ scope' = [scope EXCEPT ![c] = "cleared"]
            /\ stack' = Detach(stack, c)
            /\ ReleaseContexts(c)
       ELSE UNCHANGED <<scope, stack, phase, exported>>
    /\ UNCHANGED <<status, exception, parent, scopeSpan, activeBefore, below>>

-----------------------------------------------------------------------------
(* The tracer: start_span() and start_local_active_span() *)

\* Everything works: end() is deferred in scopeEnv, the span is activated,
\* and the deactivation is deferred in actEnv.
StartSpan(s, p, scopeEnv, actEnv, c) ==
    /\ UserTurn
    /\ scopeEnv # DeadEnv /\ actEnv # DeadEnv
    /\ CreateSpan(s, p)
    /\ handle' = [handle EXCEPT ![s] = "held"]
    /\ IF actEnv = NullEnv THEN UNCHANGED scopeVars
       ELSE StartScope(c, s, "deferred")
    /\ frames' = Defer(Defer(frames, scopeEnv, <<EndHandler(s)>>),
                       actEnv, <<DetachHandler(c)>>)

\* defer() of end() fails after the span was started: the caller gets a no-op
\* span, and the garbage collector is left to end the real one.
StartSpanNoScope(s, p, scopeEnv) ==
    /\ UserTurn
    /\ scopeEnv = DeadEnv
    /\ CreateSpan(s, p)
    /\ handle' = [handle EXCEPT ![s] = "dropped"]
    /\ UNCHANGED <<scopeVars, frames>>

\* defer() of the deactivation fails: end() is already deferred, and the
\* scope stays attached until it is collected.
StartSpanNoActivation(s, p, scopeEnv, actEnv, c) ==
    /\ UserTurn
    /\ scopeEnv # DeadEnv /\ actEnv = DeadEnv
    /\ CreateSpan(s, p)
    /\ handle' = [handle EXCEPT ![s] = "dropped"]
    /\ StartScope(c, s, "dropped")
    /\ frames' = Defer(frames, scopeEnv, <<EndHandler(s)>>)

\* get_active_span(): another otel_span object for the active span.
GetActiveSpan ==
    /\ UserTurn
    /\ ActiveSpan # NoSpan
    /\ handle' = [handle EXCEPT ![ActiveSpan] = "held"]
    /\ UNCHANGED <<spanVars, scopeVars, frames>>

-----------------------------------------------------------------------------
(* The methods of otel_span *)

SetStatus(s, code) ==
    /\ UserTurn
    /\ handle[s] = "held"
    /\ phase[s] = "recording"
    /\ status' = [status EXCEPT ![s] = AcceptedStatus(@, code)]
    /\ UNCHANGED <<phase, exception, parent, handle, exported, scopeVars, frames>>

\* Outside on.exit() there is no return value to see, so "auto" takes the
\* call for a failing one.
End(s, code) ==
    /\ UserTurn
    /\ handle[s] = "held"
    /\ EndSpan(s, code, TRUE)
    /\ UNCHANGED <<parent, handle, scopeVars, frames>>

\* activate(): the span may have ended.
Activate(s, env, endOnExit, c) ==
    /\ UserTurn
    /\ handle[s] = "held"
    /\ StartScope(c, s, CASE env = NullEnv -> "user"
                          [] env = DeadEnv -> "dropped"
                          [] OTHER         -> "deferred")
    /\ frames' = IF env = DeadEnv THEN frames
                 ELSE Defer(frames, env,
                            IF endOnExit THEN <<DetachHandler(c), EndHandler(s)>>
                            ELSE <<DetachHandler(c)>>)
    /\ UNCHANGED <<spanVars, handle>>

\* deactivate(): R code may call it in any order, and more than once.
Deactivate(c) ==
    /\ UserTurn
    /\ scope[c] \in {"user", "cleared"}
    /\ EndScope(c)
    /\ UNCHANGED <<handle, frames>>

-----------------------------------------------------------------------------
(* R: function calls, on.exit() and the garbage collector *)

CallFunction ==
    /\ UserTurn
    /\ Len(frames) < MaxDepth
    /\ frames' = Append(frames, [mode |-> "running", todo |-> <<>>,
                                outer |-> ActiveSpan])
    /\ UNCHANGED <<spanVars, handle, scopeVars>>

LeaveFunction(mode) ==
    /\ UserTurn
    /\ frames # <<>>
    /\ frames' = [frames EXCEPT ![Innermost].mode = mode]
    /\ UNCHANGED <<spanVars, handle, scopeVars>>

\* The leaving call runs the handler that was deferred last.
RunHandler ==
    /\ Leaving
    /\ frames[Innermost].todo # <<>>
    /\ frames' = [frames EXCEPT ![Innermost].todo = Tail(@)]
    /\ LET h == Head(frames[Innermost].todo) IN
         \/ /\ h.op = "end"
            /\ EndSpan(h.of, "auto", frames[Innermost].mode = "failing")
            /\ UNCHANGED <<parent, scopeVars>>
         \/ /\ h.op = "detach"
            /\ EndScope(h.of)
    /\ UNCHANGED handle

\* All handlers have run.  An error goes on to the caller, or is caught there.
PopFrame(caught) ==
    /\ Leaving
    /\ frames[Innermost].todo = <<>>
    /\ LET callers == SubSeq(frames, 1, Innermost - 1) IN
         frames' = IF frames[Innermost].mode = "failing" /\ ~caught /\ callers # <<>>
                   THEN [callers EXCEPT ![Innermost - 1].mode = "failing"]
                   ELSE callers
    /\ UNCHANGED <<spanVars, handle, scopeVars>>

\* R code drops its last reference to the span, or to a scope it holds.
ForgetSpan(s) ==
    /\ UserTurn
    /\ handle[s] = "held"
    /\ handle' = [handle EXCEPT ![s] = "dropped"]
    /\ UNCHANGED <<spanVars, scopeVars, frames>>

ForgetScope(c) ==
    /\ UserTurn
    /\ scope[c] = "user"
    /\ scope' = [scope EXCEPT ![c] = "dropped"]
    /\ UNCHANGED <<spanVars, handle, scopeSpan, activeBefore, below, stack, frames>>

\* otel_scope_finally of a scope nobody can reach.
FinalizeScope(c) ==
    /\ scope[c] = "dropped"
    /\ EndScope(c)
    /\ UNCHANGED <<handle, frames>>

\* An exit handler keeps the span's R object reachable.
HandlerKeeps(s) ==
    \/ Pending(EndHandler(s))
    \/ \E c \in Scopes : scopeSpan[c] = s /\ Pending(DetachHandler(c))

\* Mutant: the finalizer ends the span, also while a Scope keeps it.
FinalizeSpanEnds(s) ==
    /\ handle[s] = "dropped"
    /\ ~HandlerKeeps(s)
    /\ handle' = [handle EXCEPT ![s] = "gone"]
    /\ SdkEnd(s)
    /\ UNCHANGED <<status, exception, parent, scopeVars, frames>>

\* otel_span_finally of the last R object; Scopes may still keep the span.
FinalizeSpan(s) ==
    /\ handle[s] = "dropped"
    /\ ~HandlerKeeps(s)
    /\ handle' = [handle EXCEPT ![s] = "gone"]
    /\ IF \E c \in Scopes : Keeps(c, s)
       THEN UNCHANGED <<phase, exported>>
       ELSE SdkEnd(s)
    /\ UNCHANGED <<status, exception, parent, scopeVars, frames>>

-----------------------------------------------------------------------------
RStep ==
    \/ CallFunction
    \/ \E mode \in {"returning", "failing"} : LeaveFunction(mode)
    \/ RunHandler
    \/ \E caught \in BOOLEAN : PopFrame(caught)

SpanStep(s) ==
    \/ \E code \in SetCodes : SetStatus(s, code)
    \/ \E code \in EndCodes : End(s, code)
    \/ ForgetSpan(s)
    \/ FinalizeSpan(s)

\* Scopes by hand, in any environment, and left to the garbage collector.
ManualStep ==
    \/ \E s \in Spans, p \in Parents, env \in Envs :
         StartSpanNoScope(s, p, env)
    \/ \E s \in Spans, p \in Parents, c \in Scopes, env, act \in Envs :
         \/ StartSpan(s, p, env, act, c)
         \/ StartSpanNoActivation(s, p, env, act, c)
    \/ \E s \in Spans, c \in Scopes, env \in Envs, e \in BOOLEAN :
         Activate(s, env, e, c)
    \/ \E c \in Scopes : Deactivate(c) \/ ForgetScope(c) \/ FinalizeScope(c)

Next ==
    \/ RStep
    \/ GetActiveSpan
    \/ \E s \in Spans : SpanStep(s)
    \/ ManualStep

Spec == Init /\ [][Next]_vars

\* Mutant: so is that of activate().
LocalActivateOutermost(s, c) ==
    frames # <<>> /\ Activate(s, 1, FALSE, c)

\* The documented way: start_local_active_span() with its defaults, and
\* activate() with its default scope.
LocalStart(s, p, c) ==
    frames # <<>> /\ StartSpan(s, p, Innermost, Innermost, c)
LocalActivate(s, c) ==
    frames # <<>> /\ Activate(s, Innermost, FALSE, c)

LocalNext ==
    \/ RStep
    \/ GetActiveSpan
    \/ \E s \in Spans : SpanStep(s)
    \/ \E s \in Spans, c \in Scopes :
         \/ \E p \in Parents \ Spans : LocalStart(s, p, c)
         \/ LocalActivate(s, c)

LocalSpec == Init /\ [][LocalNext]_vars

\* R runs the handlers of a call that leaves, and then leaves it.
Fairness ==
    /\ WF_vars(RunHandler)
    /\ WF_vars(\E caught \in BOOLEAN : PopFrame(caught))

FairSpec == Spec /\ Fairness
-----------------------------------------------------------------------------
(* Properties of Spec: whatever R code and the garbage collector do *)

\* A span reaches the processor exactly when it ends, and only once, whether
\* end(), an exit handler, or a finalizer ends it, and in whatever order
\* (otel_span_end, otel_scope_end, otel_span_finally).
ExportedOnce ==
    /\ \A i, j \in DOMAIN exported : exported[i] = exported[j] => i = j
    /\ \A s \in Spans :
         phase[s] = "ended" <=> \E i \in DOMAIN exported : exported[i] = s

\* The context stack holds live scopes, each once, and each over the span
\* that was active when it started; the stale ones are gone for good
\* (otel_scope_start, otel_scope_end, otel_scope_finally).
ScopesNest ==
    \A i \in DOMAIN stack :
      /\ Live(stack[i])
      /\ scopeSpan[stack[i]] # NoSpan
      /\ \A j \in DOMAIN stack : stack[i] = stack[j] => i = j
      /\ activeBefore[stack[i]] =
           IF i = 1 THEN NoSpan ELSE scopeSpan[stack[i - 1]]

\* Ending a scope, by hand, on exit or by the garbage collector, makes the
\* span active again that was active when the scope started.  If the scope
\* is off the stack by then, nothing changes (otel_scope_end_).
ScopeEndRestores ==
    [][\A c \in Scopes :
         Live(c) /\ ~Live(c)' =>
           IF Attached(stack, c) THEN ActiveSpan' = activeBefore[c]
           ELSE stack' = stack]_vars

\* A span that is recording can still end: an R object of it is left, to
\* call end() or to be finalized, or the context of a Scope keeps it, itself
\* or through the contexts it derives from.  A pending handler always has an
\* R object to work with (otel_span_finally, otel_scope_start_, otel_scope_end_).
RecordingCanEnd ==
    \A s \in Spans :
      /\ phase[s] = "recording" =>
           \/ handle[s] \in {"held", "dropped"}
           \/ \E c \in Scopes : Keeps(c, s)
      /\ HandlerKeeps(s) => handle[s] \in {"held", "dropped"}

\* Collecting the R objects of a span does not end it while it is active, or
\* while it will be active again (the Scope's reference in otel_scope_start_).
CollectorSparesActivated ==
    [][\A s \in Spans :
         /\ handle[s] = "dropped" /\ handle'[s] = "gone"
         /\ \E i \in DOMAIN stack : scopeSpan[stack[i]] = s
         => phase'[s] = phase[s]]_vars

\* What a span was exported with never changes, and the status Ok is final
\* even before that: a later error, also one seen on exit, does not undo it
\* (set_status() and end() in R/span.R).
ExportedIsFinal ==
    [][\A s \in Spans :
         /\ phase[s] = "ended" =>
              /\ phase'[s] = "ended"
              /\ status'[s] = status[s]
              /\ exception'[s] = exception[s]
         /\ status[s] = "ok" => status'[s] = "ok"]_vars

\* A span that carries the automatic "exception" event has status error: the
\* event is never put on a span whose status R code had set (end()).
ExceptionMeansError ==
    \A s \in Spans : exception[s] => status[s] = "error"

-----------------------------------------------------------------------------
(* Properties of LocalSpec: only the documented, scoped way *)

\* When an exit ends a span, the spans that other exits are to end and that
\* were started under it have ended: children are exported before parents.
ChildrenEndFirst ==
    [][\A s \in Spans :
         /\ Leaving /\ handle'[s] # "gone"
         /\ phase[s] = "recording" /\ phase'[s] = "ended"
         => \A k \in Spans : parent[k] = s /\ phase[k] = "recording" =>
                               ~Pending(EndHandler(k))]_vars

\* A span that a leaving call is to end does end.
LeavingEndsSpans ==
    \A s \in Spans, d \in 1..MaxDepth :
      (Leaving /\ d = Innermost /\ PendingAt(d, EndHandler(s)))
        ~> phase[s] = "ended"
=============================================================================
