---------------------------- MODULE DynamicScope ----------------------------
(***************************************************************************)
(* What scoped activation promises: the active span is dynamically scoped. *)
(* A call may bind the active span as often as it likes; when it leaves,   *)
(* its bindings are undone, newest first, and then the caller finds the    *)
(* active span it had when it made the call.                               *)
(***************************************************************************)
EXTENDS Integers, Sequences

CONSTANTS Spans, NoSpan

VARIABLES
    calls,   \* the calls in progress, innermost last: whether each is leaving,
             \* the outer active span, and the spans it bound
    active   \* the active span

vars == <<calls, active>>

Init == calls = <<>> /\ active = NoSpan

Top == calls[Len(calls)]
Callers == SubSeq(calls, 1, Len(calls) - 1)
Running == calls = <<>> \/ ~Top.leaving

Call ==
    /\ Running
    /\ calls' = Append(calls, [leaving |-> FALSE, outer |-> active, bound |-> <<>>])
    /\ UNCHANGED active

Bind(s) ==
    /\ Running /\ calls # <<>>
    /\ calls' = [calls EXCEPT ![Len(calls)].bound = Append(@, s)]
    /\ active' = s

Leave ==
    /\ Running /\ calls # <<>>
    /\ calls' = [calls EXCEPT ![Len(calls)].leaving = TRUE]
    /\ UNCHANGED active

\* The newest binding goes, and the one below it shows again.
Unbind ==
    /\ ~Running
    /\ Top.bound # <<>>
    /\ LET n == Len(Top.bound) IN
         /\ calls' = [calls EXCEPT ![Len(calls)].bound = SubSeq(@, 1, n - 1)]
         /\ active' = IF n = 1 THEN Top.outer ELSE Top.bound[n - 1]

\* An error makes the caller leave as well.
Done ==
    /\ ~Running
    /\ Top.bound = <<>>
    /\ \/ calls' = Callers
       \/ /\ Callers # <<>>
          /\ calls' = [Callers EXCEPT ![Len(Callers)].leaving = TRUE]
    /\ active' = Top.outer

Next == Call \/ (\E s \in Spans : Bind(s)) \/ Leave \/ Unbind \/ Done

Spec == Init /\ [][Next]_vars
=============================================================================
