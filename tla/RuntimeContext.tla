--------------------------- MODULE RuntimeContext ---------------------------
(***************************************************************************)
(* The thread-local context stack of opentelemetry-cpp, as trace::Scope    *)
(* uses it.  A Scope attaches a fresh context that carries its span, so a  *)
(* scope stands for the context it attached; deleting the Scope detaches   *)
(* that context.  Contexts are lists with shared tails, so a context keeps *)
(* alive all that it derives from.  The library is vendored: the           *)
(* operators say what src/tracer-api.cc relies on when it creates and      *)
(* deletes a Scope.                                                        *)
(***************************************************************************)
EXTENDS Integers, Sequences

\* Scope c is attached somewhere on the stack st.
Attached(st, c) == \E i \in DOMAIN st : st[i] = c

\* Where c sits, counted from the bottom of the stack.
PositionOf(st, c) == CHOOSE i \in DOMAIN st : st[i] = c

\* RuntimeContext::Attach: the new context becomes the current one.
Attach(st, c) == Append(st, c)

\* RuntimeContext::Detach: pops c and whatever was attached after it.  A
\* token that is not on the stack any more changes nothing.
Detach(st, c) ==
    IF Attached(st, c) THEN SubSeq(st, 1, PositionOf(st, c) - 1) ELSE st

\* The span of the current context, given the span each scope carries;
\* none stands for the invalid default span.
CurrentSpan(st, spanOf, none) ==
    IF st = <<>> THEN none ELSE spanOf[st[Len(st)]]

\* Context::SetValue: the context of scope c derives from the one that was
\* current, the last of st, which derives from the one before it, and so on.
Derived(st, c) == Append(st, c)

\* One of the contexts in this list carries the span s.
Carries(contexts, spanOf, s) ==
    \E i \in DOMAIN contexts : spanOf[contexts[i]] = s
=============================================================================
