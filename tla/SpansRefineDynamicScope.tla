----------------------- MODULE SpansRefineDynamicScope ----------------------
(***************************************************************************)
(* Scoped use of spans implements dynamic scoping of the active span: the  *)
(* C++ context stack, which knows nothing of R's calls, always agrees with *)
(* the deactivations that R's calls have pending.                          *)
(***************************************************************************)
EXTENDS Spans

\* The places of the context stack that calls outside call d are to detach.
Outside(d) ==
    {p \in DOMAIN stack :
       \E e \in DOMAIN frames : e < d /\ PendingAt(e, DetachHandler(stack[p]))}

\* The highest of them: what call d activated sits above it.
Bottom(d) == CHOOSE m \in {0} \cup Outside(d) : \A p \in Outside(d) : p <= m

\* The spans that call d activated and is still to deactivate, oldest first.
BoundSpans(d) ==
    [k \in 1..(Bottom(d + 1) - Bottom(d)) |-> scopeSpan[stack[Bottom(d) + k]]]

\* R's calls in progress, as DynamicScope sees them.
ScopedCall(d) == [leaving |-> frames[d].mode # "running",
                  outer   |-> frames[d].outer,
                  bound   |-> BoundSpans(d)]
ScopedCalls == [d \in DOMAIN frames |-> ScopedCall(d)]

Scoping == INSTANCE DynamicScope WITH
    active <- ActiveSpan,
    calls  <- ScopedCalls

\* The active span of the context stack follows the rules of dynamic scoping
\* (activate() and span_new() in R/span.R, defer() in R/utils.R, and the
\* scopes of src/tracer-api.cc, together).
ImplementsDynamicScope == Scoping!Spec
=============================================================================
