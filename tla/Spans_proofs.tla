---------------------------- MODULE Spans_proofs ----------------------------
(***************************************************************************)
(* Proofs about Spans, for any sets of spans and scopes and any depth.     *)
(*                                                                         *)
(* First Spec, where spans and scopes end in any order.  Then LocalSpec,   *)
(* the documented use of spans: exits end children before their parents,   *)
(* and the active span is dynamically scoped.  Both of these rest on the   *)
(* order of the on.exit lists, read from the innermost call outwards and   *)
(* from the head of each list: it is the reverse of the order in which     *)
(* spans and scopes were started, and so the order of the context stack    *)
(* from its top.                                                           *)
(***************************************************************************)
EXTENDS SpansRefineDynamicScope, SequenceTheorems, WellFoundedInduction, TLAPS

-----------------------------------------------------------------------------
(* The context stack *)

\* Detaching leaves a prefix of the stack.
LEMMA DetachPrefix ==
    ASSUME NEW S, NEW st \in Seq(S), NEW c
    PROVE  /\ Detach(st, c) \in Seq(S)
           /\ Len(Detach(st, c)) <= Len(st)
           /\ \A i \in 1..Len(Detach(st, c)) : Detach(st, c)[i] = st[i]
           /\ ~Attached(st, c) => Detach(st, c) = st
<1>1. CASE ~Attached(st, c)
  BY <1>1 DEF Detach, Attached
<1>2. CASE Attached(st, c)
  <2> DEFINE k == PositionOf(st, c)
  <2>1. k \in 1..Len(st)
    BY <1>2 DEF Attached, PositionOf
  <2>2. Detach(st, c) = SubSeq(st, 1, k - 1)
    BY <1>2 DEF Detach
  <2> HIDE DEF k
  <2> QED
    BY <1>2, <2>1, <2>2
<1> QED
  BY <1>1, <1>2

\* If nothing is attached twice, detaching what sits at position k leaves
\* exactly the k - 1 scopes below it, and none of them is the detached one.
LEMMA DetachPosition ==
    ASSUME NEW S, NEW st \in Seq(S), NEW k \in DOMAIN st,
           \A i, j \in DOMAIN st : st[i] = st[j] => i = j
    PROVE  /\ Len(Detach(st, st[k])) = k - 1
           /\ \A i \in 1..Len(Detach(st, st[k])) : Detach(st, st[k])[i] # st[k]
<1>1. Attached(st, st[k])
  BY DEF Attached
<1>2. PositionOf(st, st[k]) = k
  BY DEF PositionOf
<1>3. Detach(st, st[k]) = SubSeq(st, 1, k - 1)
  BY <1>1, <1>2 DEF Detach
<1> QED
  BY <1>3

\* The active span is a span or none.
LEMMA ActiveSpanType ==
    TypeOK => ActiveSpan \in Spans \cup {NoSpan}
BY DEF TypeOK, ActiveSpan, CurrentSpan

-----------------------------------------------------------------------------
(* Exit handlers *)

\* What span_new() and activate() defer are exit handlers.
LEMMA HandlerTypes ==
    /\ \A s \in Spans : EndHandler(s) \in Handlers
    /\ \A c \in Scopes : DetachHandler(c) \in Handlers
BY DEF EndHandler, DetachHandler, Handlers

\* Deferring handlers keeps the calls calls, and adds or removes none.
LEMMA DeferType ==
    ASSUME NEW fs \in Seq(Frames), NEW env \in {NullEnv} \cup DOMAIN fs,
           NEW handlers \in Seq(Handlers)
    PROVE  /\ Defer(fs, env, handlers) \in Seq(Frames)
           /\ DOMAIN Defer(fs, env, handlers) = DOMAIN fs
<1>1. CASE env = NullEnv
  BY <1>1 DEF Defer
<1>2. CASE env # NullEnv
  <2>1. env \in DOMAIN fs /\ fs[env] \in Frames
    BY <1>2
  <2>2. fs[env].todo \in Seq(Handlers)
    BY <2>1 DEF Frames
  <2>3. handlers \o fs[env].todo \in Seq(Handlers)
    BY <2>2
  <2>4. [fs[env] EXCEPT !.todo = handlers \o fs[env].todo] \in Frames
    BY <2>1, <2>3 DEF Frames
  <2>5. Defer(fs, env, handlers) =
          [fs EXCEPT ![env] = [fs[env] EXCEPT !.todo = handlers \o fs[env].todo]]
    BY <1>2 DEF Defer
  <2> QED
    BY <2>1, <2>4, <2>5
<1> QED
  BY <1>1, <1>2

-----------------------------------------------------------------------------
(* Type correctness *)

\* Ending a span in the SDK keeps the types of what it changes.
LEMMA SdkEndType ==
    ASSUME TypeOK, NEW s \in Spans, SdkEnd(s)
    PROVE  phase' \in [Spans -> Phases] /\ exported' \in Seq(Spans)
<1>1. phase \in [Spans -> Phases] /\ exported \in Seq(Spans)
  BY DEF TypeOK
<1>2. CASE phase[s] = "recording"
  BY <1>1, <1>2 DEF SdkEnd, Phases
<1>3. CASE phase[s] # "recording"
  BY <1>1, <1>3 DEF SdkEnd
<1> QED
  BY <1>2, <1>3

\* So does the end() method.
LEMMA EndSpanType ==
    ASSUME TypeOK, NEW s \in Spans, NEW code \in EndCodes \cup {"auto"},
           NEW errorExit \in BOOLEAN, EndSpan(s, code, errorExit)
    PROVE  /\ phase' \in [Spans -> Phases] /\ exported' \in Seq(Spans)
           /\ status' \in [Spans -> Statuses]
           /\ exception' \in [Spans -> BOOLEAN]
<1>1. phase' \in [Spans -> Phases] /\ exported' \in Seq(Spans)
  BY SdkEndType DEF EndSpan
<1>2. code \in Statuses \cup {"keep", "auto"}
  BY SpansAssumption
<1>3. AutoError(s, code, errorExit) \in BOOLEAN
  BY DEF AutoError
<1>4. CodeAtEnd(s, code, errorExit) \in Statuses \cup {"keep"}
  BY <1>2, <1>3 DEF CodeAtEnd, Statuses
<1>5. AcceptedStatus(status[s], CodeAtEnd(s, code, errorExit)) \in Statuses
  BY <1>4 DEF AcceptedStatus, TypeOK, Statuses
<1> HIDE DEF AutoError, CodeAtEnd, AcceptedStatus
<1>6. status' \in [Spans -> Statuses]
  BY <1>5 DEF EndSpan, TypeOK
<1>7. exception' \in [Spans -> BOOLEAN]
  BY <1>3 DEF EndSpan, TypeOK
<1> QED
  BY <1>1, <1>6, <1>7

\* Starting a scope keeps the types of what it changes.
LEMMA StartScopeType ==
    ASSUME TypeOK, NEW c \in Scopes, NEW s \in Spans,
           NEW holder \in ScopeStates, StartScope(c, s, holder)
    PROVE  /\ scope' \in [Scopes -> ScopeStates]
           /\ scopeSpan' \in [Scopes -> Spans \cup {NoSpan}]
           /\ activeBefore' \in [Scopes -> Spans \cup {NoSpan}]
           /\ below' \in [Scopes -> Seq(Scopes)]
           /\ stack' \in Seq(Scopes)
BY ActiveSpanType DEF TypeOK, StartScope, Attach

\* The spans that go when a Scope is deleted are ended together, in some
\* order and each once: they were recording, and only that Scope kept them.
LEMMA ReleasedSpans ==
    ASSUME TypeOK, NEW c \in Scopes, ReleaseContexts(c)
    PROVE  \E order \in Seq(Spans) :
             /\ SdkEndAll(order)
             /\ \A i, j \in DOMAIN order : order[i] = order[j] => i = j
             /\ \A s \in Spans : (\E i \in DOMAIN order : order[i] = s)
                                   <=> phase[s] = "recording" /\ LastHolder(c, s)
<1> DEFINE derived == Derived(below[c], c)
           lost == {s \in Spans : phase[s] = "recording" /\ LastHolder(c, s)}
           GoesBefore(s, t) ==
             \E p \in DOMAIN derived :
               /\ scopeSpan[derived[p]] = t
               /\ \A q \in 1..p : scopeSpan[derived[q]] # s
<1>0. PICK n \in 0..Len(derived) : \E order \in [1..n -> lost] :
        /\ \A s \in lost : \E i \in 1..n : order[i] = s
        /\ \A i, j \in 1..n : i < j => GoesBefore(order[i], order[j])
        /\ SdkEndAll(order)
  BY DEF ReleaseContexts
<1>1. PICK order \in [1..n -> lost] :
        /\ \A s \in lost : \E i \in 1..n : order[i] = s
        /\ \A i, j \in 1..n : i < j => GoesBefore(order[i], order[j])
        /\ SdkEndAll(order)
  BY <1>0
<1>2. derived \in Seq(Scopes)
  BY DEF Derived, TypeOK
<1>3. n \in Nat /\ DOMAIN order = 1..n
  BY <1>0, <1>1, <1>2
<1>4. order \in Seq(Spans)
  BY <1>3
<1>5. \A s \in Spans : ~GoesBefore(s, s)
  BY <1>2
<1> HIDE DEF GoesBefore, derived
<1>6. ASSUME NEW i \in 1..n, NEW j \in 1..n, order[i] = order[j]
      PROVE  i = j
  <2>1. ~(i < j) /\ ~(j < i)
    BY <1>1, <1>5, <1>6
  <2> QED
    BY <1>3, <2>1
<1>7. \A s \in Spans : (\E i \in 1..n : order[i] = s) <=> s \in lost
  BY <1>1
<1> QED
  BY <1>1, <1>3, <1>4, <1>6, <1>7

\* Ending several spans keeps the types of what it changes.
LEMMA SdkEndAllType ==
    ASSUME TypeOK, NEW order \in Seq(Spans), SdkEndAll(order)
    PROVE  phase' \in [Spans -> Phases] /\ exported' \in Seq(Spans)
BY DEF TypeOK, SdkEndAll, Phases

\* So does ending a scope, which leaves statuses and parents alone.
LEMMA EndScopeType ==
    ASSUME TypeOK, NEW c \in Scopes, EndScope(c)
    PROVE  /\ scope' \in [Scopes -> ScopeStates]
           /\ stack' \in Seq(Scopes)
           /\ phase' \in [Spans -> Phases] /\ exported' \in Seq(Spans)
           /\ UNCHANGED <<status, exception, parent, scopeSpan, activeBefore, below>>
<1>1. scope' \in [Scopes -> ScopeStates]
  BY DEF TypeOK, EndScope, ScopeStates
<1>2. stack' \in Seq(Scopes)
  BY DetachPrefix DEF TypeOK, EndScope
<1>3. phase' \in [Spans -> Phases] /\ exported' \in Seq(Spans)
  <2>1. CASE Live(c)
    BY <2>1, ReleasedSpans, SdkEndAllType DEF EndScope
  <2>2. CASE ~Live(c)
    BY <2>2 DEF EndScope, TypeOK
  <2> QED
    BY <2>1, <2>2
<1> QED
  BY <1>1, <1>2, <1>3 DEF EndScope

\* What the actions leave alone keeps its type.
LEMMA CreateSpanType ==
    ASSUME TypeOK, NEW s \in Spans, NEW p \in Parents, CreateSpan(s, p)
    PROVE  /\ phase' \in [Spans -> Phases]
           /\ parent' \in [Spans -> Spans \cup {NoSpan}]
           /\ UNCHANGED <<status, exception, exported>>
<1>1. ChosenParent(p) \in Spans \cup {NoSpan}
  BY ActiveSpanType, SpansAssumption DEF ChosenParent
<1>2. phase' \in [Spans -> Phases]
  BY DEF CreateSpan, TypeOK, Phases
<1>3. parent' \in [Spans -> Spans \cup {NoSpan}]
  BY <1>1 DEF CreateSpan, TypeOK
<1> QED
  BY <1>2, <1>3 DEF CreateSpan

\* An environment that defer() accepts is NULL or that of a call.
LEMMA EnvType ==
    ASSUME TypeOK, NEW env \in Envs, env # DeadEnv
    PROVE  env \in {NullEnv} \cup DOMAIN frames
BY DEF Envs

\* A scope that starts is live and carries a span; one that ends is not live.
LEMMA StartScopeSpan ==
    ASSUME TypeOK, NEW c \in Scopes, NEW s \in Spans,
           NEW holder \in ScopeStates, StartScope(c, s, holder)
    PROVE  \A d \in Scopes :
             scope'[d] \in {"deferred", "user", "dropped"} => scopeSpan'[d] \in Spans
BY DEF TypeOK, StartScope

\* Ending a scope leaves the spans of the other live scopes.
LEMMA EndScopeSpan ==
    ASSUME TypeOK, NEW c \in Scopes, EndScope(c)
    PROVE  \A d \in Scopes :
             scope'[d] \in {"deferred", "user", "dropped"} => scopeSpan'[d] \in Spans
BY DEF TypeOK, EndScope

\* Every step keeps the types.
LEMMA TypeStep == TypeOK /\ [Next]_vars => TypeOK'
<1> SUFFICES ASSUME TypeOK, [Next]_vars PROVE TypeOK'
  OBVIOUS
<1> USE DEF spanVars, scopeVars
<1>1. CASE UNCHANGED vars
  BY <1>1 DEF TypeOK, vars
<1>2. CASE CallFunction
  <2>1. [mode |-> "running", todo |-> <<>>, outer |-> ActiveSpan] \in Frames
    BY ActiveSpanType DEF Frames, Modes
  <2>2. frames' \in Seq(Frames)
    BY <1>2, <2>1 DEF CallFunction, TypeOK
  <2> QED
    BY <1>2, <2>2 DEF CallFunction, TypeOK
<1>3. ASSUME NEW mode \in {"returning", "failing"}, LeaveFunction(mode)
      PROVE  TypeOK'
  <2>1. Innermost \in DOMAIN frames /\ frames[Innermost] \in Frames
    BY <1>3 DEF LeaveFunction, TypeOK, Innermost
  <2>2. [frames[Innermost] EXCEPT !.mode = mode] \in Frames
    BY <2>1 DEF Frames, Modes
  <2>3. frames' = [frames EXCEPT ![Innermost] = [frames[Innermost] EXCEPT !.mode = mode]]
    BY <1>3 DEF LeaveFunction
  <2>4. frames' \in Seq(Frames)
    BY <2>1, <2>2, <2>3 DEF TypeOK
  <2> QED
    BY <1>3, <2>4 DEF LeaveFunction, TypeOK
<1>4. CASE RunHandler
  <2> DEFINE f == frames[Innermost]  h == Head(f.todo)
  <2>1. Innermost \in DOMAIN frames /\ f \in Frames
    BY <1>4 DEF RunHandler, Leaving, TypeOK, Innermost
  <2>2. f.todo \in Seq(Handlers) /\ f.todo # <<>>
    BY <1>4, <2>1 DEF RunHandler, Frames
  <2>3. h \in Handlers /\ Tail(f.todo) \in Seq(Handlers)
    BY <2>2
  <2>4. [f EXCEPT !.todo = Tail(f.todo)] \in Frames
    BY <2>1, <2>3 DEF Frames
  <2>5. frames' = [frames EXCEPT ![Innermost] = [f EXCEPT !.todo = Tail(f.todo)]]
    BY <1>4 DEF RunHandler
  <2>6. frames' \in Seq(Frames)
    BY <2>1, <2>4, <2>5 DEF TypeOK
  <2>7. handle' = handle
    BY <1>4 DEF RunHandler
  <2>8. CASE h.op = "end"
    <3>1. h.of \in Spans
      BY <2>3, <2>8 DEF Handlers
    <3>2. EndSpan(h.of, "auto", f.mode = "failing") /\ UNCHANGED <<parent, scopeVars>>
      BY <1>4, <2>8 DEF RunHandler
    <3> QED
      BY <2>6, <2>7, <3>1, <3>2, EndSpanType DEF TypeOK
  <2>9. CASE h.op = "detach"
    <3>1. h.of \in Scopes
      BY <2>3, <2>9 DEF Handlers
    <3>2. EndScope(h.of)
      BY <1>4, <2>9 DEF RunHandler
    <3> QED
      BY <2>6, <2>7, <3>1, <3>2, EndScopeType, EndScopeSpan DEF TypeOK
  <2> QED
    BY <2>3, <2>8, <2>9 DEF Handlers
<1>5. ASSUME NEW caught \in BOOLEAN, PopFrame(caught)
      PROVE  TypeOK'
  <2> DEFINE callers == SubSeq(frames, 1, Innermost - 1)
  <2>1. callers \in Seq(Frames) /\ Len(callers) = Innermost - 1
    <3>1. frames \in Seq(Frames) /\ frames # <<>>
      BY <1>5 DEF PopFrame, Leaving, TypeOK
    <3>2. Innermost = Len(frames) /\ Innermost \in Nat \ {0}
      BY <3>1 DEF Innermost
    <3> QED
      BY <3>1, <3>2
  <2>2. CASE frames' = callers
    BY <1>5, <2>1, <2>2 DEF PopFrame, TypeOK
  <2>3. CASE /\ callers # <<>>
             /\ frames' = [callers EXCEPT ![Innermost - 1].mode = "failing"]
    <3>1. Innermost - 1 \in DOMAIN callers /\ callers[Innermost - 1] \in Frames
      BY <2>1, <2>3
    <3>2. [callers[Innermost - 1] EXCEPT !.mode = "failing"] \in Frames
      BY <3>1 DEF Frames, Modes
    <3>3. frames' \in Seq(Frames)
      BY <2>1, <2>3, <3>1, <3>2
    <3> QED
      BY <1>5, <3>3 DEF PopFrame, TypeOK
  <2> QED
    BY <1>5, <2>2, <2>3 DEF PopFrame
<1>6. CASE GetActiveSpan
  BY <1>6 DEF GetActiveSpan, TypeOK, Handles
<1>7. ASSUME NEW s \in Spans, NEW code \in SetCodes, SetStatus(s, code)
      PROVE  TypeOK'
  <2>1. AcceptedStatus(status[s], code) \in Statuses
    BY SpansAssumption DEF AcceptedStatus, TypeOK
  <2> QED
    BY <1>7, <2>1 DEF SetStatus, TypeOK
<1>8. ASSUME NEW s \in Spans, NEW code \in EndCodes, End(s, code)
      PROVE  TypeOK'
  BY <1>8, EndSpanType DEF End, TypeOK
<1>9. ASSUME NEW s \in Spans, ForgetSpan(s)
      PROVE  TypeOK'
  BY <1>9 DEF ForgetSpan, TypeOK, Handles
<1>10. ASSUME NEW s \in Spans, FinalizeSpan(s)
       PROVE  TypeOK'
  <2>1. phase' \in [Spans -> Phases] /\ exported' \in Seq(Spans)
    BY <1>10, SdkEndType DEF FinalizeSpan, TypeOK
  <2> QED
    BY <1>10, <2>1 DEF FinalizeSpan, TypeOK, Handles
<1>11. ASSUME NEW s \in Spans, NEW p \in Parents, NEW env \in Envs,
              StartSpanNoScope(s, p, env)
       PROVE  TypeOK'
  BY <1>11, CreateSpanType DEF StartSpanNoScope, TypeOK, Handles
<1>12. ASSUME NEW s \in Spans, NEW p \in Parents, NEW c \in Scopes,
              NEW env \in Envs, NEW act \in Envs, StartSpan(s, p, env, act, c)
       PROVE  TypeOK'
  <2>1. <<EndHandler(s)>> \in Seq(Handlers) /\ <<DetachHandler(c)>> \in Seq(Handlers)
    BY HandlerTypes
  <2>2. env \in {NullEnv} \cup DOMAIN frames /\ act \in {NullEnv} \cup DOMAIN frames
    BY <1>12, EnvType DEF StartSpan
  <2>3. /\ Defer(frames, env, <<EndHandler(s)>>) \in Seq(Frames)
        /\ DOMAIN Defer(frames, env, <<EndHandler(s)>>) = DOMAIN frames
    BY <2>1, <2>2, DeferType DEF TypeOK
  <2>4. frames' \in Seq(Frames)
    BY <1>12, <2>1, <2>2, <2>3, DeferType DEF StartSpan
  <2>5. handle' \in [Spans -> Handles]
    BY <1>12 DEF StartSpan, TypeOK, Handles
  <2>6. CASE act = NullEnv
    BY <1>12, <2>4, <2>5, <2>6, CreateSpanType DEF StartSpan, TypeOK
  <2>7. CASE act # NullEnv
    <3>1. StartScope(c, s, "deferred") /\ "deferred" \in ScopeStates
      BY <1>12, <2>7 DEF StartSpan, ScopeStates
    <3> QED
      BY <1>12, <2>4, <2>5, <3>1, CreateSpanType, StartScopeType, StartScopeSpan
      DEF StartSpan, TypeOK
  <2> QED
    BY <2>6, <2>7
<1>13. ASSUME NEW s \in Spans, NEW p \in Parents, NEW c \in Scopes,
              NEW env \in Envs, NEW act \in Envs,
              StartSpanNoActivation(s, p, env, act, c)
       PROVE  TypeOK'
  <2>1. <<EndHandler(s)>> \in Seq(Handlers)
    BY HandlerTypes
  <2>2. env \in {NullEnv} \cup DOMAIN frames
    BY <1>13, EnvType DEF StartSpanNoActivation
  <2>3. frames' \in Seq(Frames)
    BY <1>13, <2>1, <2>2, DeferType DEF StartSpanNoActivation, TypeOK
  <2>4. StartScope(c, s, "dropped") /\ "dropped" \in ScopeStates
    BY <1>13 DEF StartSpanNoActivation, ScopeStates
  <2>5. handle' \in [Spans -> Handles]
    BY <1>13 DEF StartSpanNoActivation, TypeOK, Handles
  <2> QED
    BY <1>13, <2>3, <2>4, <2>5, CreateSpanType, StartScopeType, StartScopeSpan
    DEF StartSpanNoActivation, TypeOK
<1>14. ASSUME NEW s \in Spans, NEW c \in Scopes, NEW env \in Envs,
              NEW e \in BOOLEAN, Activate(s, env, e, c)
       PROVE  TypeOK'
  <2>1. PICK holder \in ScopeStates : StartScope(c, s, holder)
    BY <1>14 DEF Activate, ScopeStates
  <2>2. frames' \in Seq(Frames)
    <3>1. CASE env = DeadEnv
      BY <1>14, <3>1 DEF Activate, TypeOK
    <3>2. CASE env # DeadEnv
      <4>1. <<DetachHandler(c), EndHandler(s)>> \in Seq(Handlers)
        BY HandlerTypes
      <4>2. <<DetachHandler(c)>> \in Seq(Handlers)
        BY HandlerTypes
      <4>3. env \in {NullEnv} \cup DOMAIN frames
        BY <3>2, EnvType
      <4> QED
        BY <1>14, <3>2, <4>1, <4>2, <4>3, DeferType DEF Activate, TypeOK
    <3> QED
      BY <3>1, <3>2
  <2> QED
    BY <1>14, <2>1, <2>2, StartScopeType, StartScopeSpan DEF Activate, TypeOK
<1>15. ASSUME NEW c \in Scopes, Deactivate(c)
       PROVE  TypeOK'
  BY <1>15, EndScopeType, EndScopeSpan DEF Deactivate, TypeOK
<1>16. ASSUME NEW c \in Scopes, ForgetScope(c)
       PROVE  TypeOK'
  BY <1>16 DEF ForgetScope, TypeOK, ScopeStates
<1>17. ASSUME NEW c \in Scopes, FinalizeScope(c)
       PROVE  TypeOK'
  BY <1>17, EndScopeType, EndScopeSpan DEF FinalizeScope, TypeOK
<1> QED
  BY <1>1, <1>2, <1>3, <1>4, <1>5, <1>6, <1>7, <1>8, <1>9, <1>10, <1>11, <1>12,
     <1>13, <1>14, <1>15, <1>16, <1>17
  DEF Next, RStep, SpanStep, ManualStep

\* The initial state has the right types.
LEMMA TypeInit == Init => TypeOK
BY DEF Init, TypeOK, Phases, Statuses, Handles, ScopeStates

\* The variables of Spans keep their types: in particular every exit handler
\* is about a span or a scope of the session, and every live scope carries a
\* span.
THEOREM TypeCorrect == Spec => []TypeOK
BY TypeInit, TypeStep, PTL DEF Spec

-----------------------------------------------------------------------------
(* The steps that matter to the context stack *)

\* Every step starts one scope, ends one scope, hands a scope from R code to
\* the collector, or leaves the scopes alone.
LEMMA ScopeSteps ==
    ASSUME TypeOK, [Next]_vars
    PROVE  \/ \E c \in Scopes, s \in Spans, holder \in {"deferred", "user", "dropped"} :
                StartScope(c, s, holder)
           \/ \E c \in Scopes : EndScope(c)
           \/ \E c \in Scopes :
                /\ scope[c] = "user"
                /\ scope' = [scope EXCEPT ![c] = "dropped"]
                /\ UNCHANGED <<scopeSpan, activeBefore, below, stack>>
           \/ UNCHANGED scopeVars
<1> USE DEF spanVars, scopeVars
<1>1. CASE UNCHANGED vars \/ CallFunction \/ GetActiveSpan
  BY <1>1 DEF vars, CallFunction, GetActiveSpan
<1>2. ASSUME NEW mode, LeaveFunction(mode)
      PROVE  UNCHANGED scopeVars
  BY <1>2 DEF LeaveFunction
<1>3. CASE RunHandler
  <2> DEFINE h == Head(frames[Innermost].todo)
  <2>1. Innermost \in DOMAIN frames /\ frames[Innermost] \in Frames
    BY <1>3 DEF RunHandler, Leaving, TypeOK, Innermost
  <2>2. h \in Handlers
    BY <1>3, <2>1 DEF RunHandler, Frames
  <2>3. CASE h.op = "end"
    BY <1>3, <2>3 DEF RunHandler
  <2>4. CASE h.op = "detach"
    BY <1>3, <2>2, <2>4 DEF RunHandler, Handlers
  <2> QED
    BY <1>3, <2>3, <2>4 DEF RunHandler
<1>4. ASSUME NEW caught, PopFrame(caught)
      PROVE  UNCHANGED scopeVars
  BY <1>4 DEF PopFrame
<1>5. ASSUME NEW s \in Spans, SpanStep(s)
      PROVE  UNCHANGED scopeVars
  BY <1>5 DEF SpanStep, SetStatus, End, ForgetSpan, FinalizeSpan
<1>6. CASE ManualStep
  <2> DEFINE Started == \E c \in Scopes, s \in Spans,
                           holder \in {"deferred", "user", "dropped"} :
                          StartScope(c, s, holder)
  <2>1. ASSUME NEW s \in Spans, NEW p \in Parents, NEW env \in Envs,
               StartSpanNoScope(s, p, env)
        PROVE  UNCHANGED scopeVars
    BY <2>1 DEF StartSpanNoScope
  <2>2. ASSUME NEW s \in Spans, NEW p \in Parents, NEW c \in Scopes,
               NEW env \in Envs, NEW act \in Envs, StartSpan(s, p, env, act, c)
        PROVE  Started \/ UNCHANGED scopeVars
    BY <2>2 DEF StartSpan
  <2>3. ASSUME NEW s \in Spans, NEW p \in Parents, NEW c \in Scopes,
               NEW env \in Envs, NEW act \in Envs,
               StartSpanNoActivation(s, p, env, act, c)
        PROVE  Started
    BY <2>3 DEF StartSpanNoActivation
  <2>4. ASSUME NEW s \in Spans, NEW c \in Scopes, NEW env \in Envs,
               NEW e \in BOOLEAN, Activate(s, env, e, c)
        PROVE  Started
    BY <2>4 DEF Activate
  <2>5. ASSUME NEW c \in Scopes, Deactivate(c) \/ FinalizeScope(c)
        PROVE  EndScope(c)
    BY <2>5 DEF Deactivate, FinalizeScope
  <2>6. ASSUME NEW c \in Scopes, ForgetScope(c)
        PROVE  /\ scope[c] = "user"
               /\ scope' = [scope EXCEPT ![c] = "dropped"]
               /\ UNCHANGED <<scopeSpan, activeBefore, below, stack>>
    BY <2>6 DEF ForgetScope
  <2> HIDE DEF Started
  <2>7. Started \/ (\E c \in Scopes : EndScope(c) \/ ForgetScope(c))
          \/ UNCHANGED scopeVars
    BY <1>6, <2>1, <2>2, <2>3, <2>4, <2>5 DEF ManualStep
  <2> QED
    BY <2>6, <2>7 DEF Started
<1> QED
  BY <1>1, <1>2, <1>3, <1>4, <1>5, <1>6 DEF Next, RStep

\* The scopes that stay on the stack when c ends are still live, and only c
\* stops being live.
LEMMA EndScopeLive ==
    ASSUME TypeOK, NEW c \in Scopes, EndScope(c)
    PROVE  /\ \A d \in Scopes : d # c => scope'[d] = scope[d]
           /\ ~Live(c)'
           /\ UNCHANGED <<scopeSpan, activeBefore, below>>
           /\ stack' = IF Live(c) THEN Detach(stack, c) ELSE stack
BY DEF TypeOK, EndScope, Live

-----------------------------------------------------------------------------
(* The context stack is well nested *)

\* Starting a scope keeps the stack well nested: the new scope lies over the
\* span that was active.
LEMMA NestStart ==
    ASSUME TypeOK, ScopesNest, NEW c \in Scopes, NEW s \in Spans,
           NEW holder \in {"deferred", "user", "dropped"}, StartScope(c, s, holder)
    PROVE  ScopesNest'
<1> DEFINE n == Len(stack)
<1>1. stack \in Seq(Scopes) /\ stack' = Append(stack, c)
  BY DEF TypeOK, StartScope, Attach
<1>2. \A i \in 1..n : stack[i] # c /\ stack[i] \in Scopes
  BY <1>1, SMTT(20) DEF ScopesNest, Live, StartScope
<1>3. scope' = [scope EXCEPT ![c] = holder] /\ scopeSpan' = [scopeSpan EXCEPT ![c] = s]
  BY DEF StartScope
<1>4. activeBefore' = [activeBefore EXCEPT
                         ![c] = IF n = 0 THEN NoSpan ELSE scopeSpan[stack[n]]]
  BY <1>1 DEF StartScope, ActiveSpan, CurrentSpan
<1> SUFFICES ASSUME NEW i \in DOMAIN stack'
             PROVE  /\ Live(stack[i])'
                    /\ (scopeSpan[stack[i]] # NoSpan)'
                    /\ \A j \in DOMAIN stack' : stack'[i] = stack'[j] => i = j
                    /\ activeBefore'[stack'[i]] =
                         IF i = 1 THEN NoSpan ELSE scopeSpan'[stack'[i - 1]]
  BY DEF ScopesNest
<1>5. CASE i = n + 1
  <2>1. stack'[i] = c /\ \A j \in 1..n : stack'[j] = stack[j]
    BY <1>1, <1>5
  <2>2. Live(stack[i])'
    BY <1>3, <2>1 DEF Live, TypeOK
  <2>3. (scopeSpan[stack[i]] # NoSpan)'
    BY <1>3, <2>1, SpansAssumption DEF TypeOK
  <2>4. \A j \in DOMAIN stack' : stack'[i] = stack'[j] => i = j
    BY <1>1, <1>2, <1>5, <2>1
  <2>5. activeBefore'[stack'[i]] = IF i = 1 THEN NoSpan ELSE scopeSpan'[stack'[i - 1]]
    BY <1>1, <1>2, <1>3, <1>4, <1>5, <2>1 DEF TypeOK
  <2> QED
    BY <2>2, <2>3, <2>4, <2>5
<1>6. CASE i \in 1..n
  <2>1. stack'[i] = stack[i] /\ stack[i] \in Scopes /\ stack[i] # c
    BY <1>1, <1>2, <1>6
  <2>2. Live(stack[i])'
    BY <1>1, <1>3, <1>6, <2>1 DEF Live, TypeOK, ScopesNest
  <2>3. (scopeSpan[stack[i]] # NoSpan)'
    BY <1>1, <1>3, <1>6, <2>1 DEF TypeOK, ScopesNest
  <2>4. \A j \in DOMAIN stack' : stack'[i] = stack'[j] => i = j
    BY <1>1, <1>2, <1>6, <2>1 DEF ScopesNest
  <2>5. activeBefore'[stack'[i]] = IF i = 1 THEN NoSpan ELSE scopeSpan'[stack'[i - 1]]
    <3>1. i # 1 => /\ stack'[i - 1] = stack[i - 1]
                   /\ stack[i - 1] \in Scopes /\ stack[i - 1] # c
      BY <1>1, <1>2, <1>6
    <3>2. activeBefore[stack[i]] = IF i = 1 THEN NoSpan ELSE scopeSpan[stack[i - 1]]
      BY <1>1, <1>6 DEF ScopesNest
    <3> QED
      BY <1>3, <1>4, <2>1, <3>1, <3>2 DEF TypeOK
  <2> QED
    BY <2>2, <2>3, <2>4, <2>5
<1> QED
  BY <1>1, <1>5, <1>6

\* Ending a scope keeps the stack well nested: what is left is a prefix of it,
\* without the scope that ended.
LEMMA NestEnd ==
    ASSUME TypeOK, ScopesNest, NEW c \in Scopes, EndScope(c)
    PROVE  ScopesNest'
<1>1. stack \in Seq(Scopes)
  BY DEF TypeOK
<1>2. CASE stack' = stack /\ ~Attached(stack, c)
  BY <1>1, <1>2, EndScopeLive DEF ScopesNest, Live, Attached
<1>3. CASE Attached(stack, c)
  <2>1. PICK k \in DOMAIN stack : stack[k] = c
    BY <1>3 DEF Attached
  <2>2. Live(c)
    BY <2>1 DEF ScopesNest
  <2>3. stack' = Detach(stack, c)
    BY <2>2, EndScopeLive
  <2>4. /\ stack' \in Seq(Scopes)
        /\ Len(stack') <= Len(stack)
        /\ \A i \in 1..Len(stack') : stack'[i] = stack[i]
    BY <1>1, <2>3, DetachPrefix
  <2>5. \A i \in 1..Len(stack') : stack'[i] # c
    BY <1>1, <2>1, <2>3, DetachPosition DEF ScopesNest
  <2>6. \A i \in 1..Len(stack') : i \in DOMAIN stack /\ stack[i] \in Scopes
    BY <1>1, <2>4
  <2>7. scopeSpan' = scopeSpan /\ activeBefore' = activeBefore
    BY EndScopeLive
  <2>8. ASSUME NEW i \in DOMAIN stack'
        PROVE  /\ i \in 1..Len(stack') /\ i \in DOMAIN stack
               /\ stack'[i] = stack[i] /\ scope'[stack[i]] = scope[stack[i]]
               /\ i # 1 => i - 1 \in DOMAIN stack' /\ stack'[i - 1] = stack[i - 1]
    <3>1. i \in 1..Len(stack') /\ i \in DOMAIN stack /\ stack'[i] = stack[i]
      BY <2>4, <2>6, <2>8
    <3>2. scope'[stack[i]] = scope[stack[i]]
      BY <2>5, <2>6, <3>1, EndScopeLive
    <3>3. i # 1 => i - 1 \in 1..Len(stack')
      BY <2>4, <3>1
    <3> QED
      BY <2>4, <3>1, <3>2, <3>3
  <2>9. ASSUME NEW i \in DOMAIN stack'
        PROVE  /\ Live(stack[i])'
               /\ (scopeSpan[stack[i]] # NoSpan)'
               /\ \A j \in DOMAIN stack' : stack'[i] = stack'[j] => i = j
               /\ activeBefore'[stack'[i]] =
                    IF i = 1 THEN NoSpan ELSE scopeSpan'[stack'[i - 1]]
    <3>1. /\ Live(stack[i]) /\ scopeSpan[stack[i]] # NoSpan
          /\ \A j \in DOMAIN stack : stack[i] = stack[j] => i = j
          /\ activeBefore[stack[i]] =
               IF i = 1 THEN NoSpan ELSE scopeSpan[stack[i - 1]]
      BY <2>8 DEF ScopesNest
    <3>2. Live(stack[i])' /\ (scopeSpan[stack[i]] # NoSpan)'
      BY <2>7, <2>8, <3>1 DEF Live
    <3>3. \A j \in DOMAIN stack' : stack'[i] = stack'[j] => i = j
      BY <2>8, <3>1
    <3>4. activeBefore'[stack'[i]] =
            IF i = 1 THEN NoSpan ELSE scopeSpan'[stack'[i - 1]]
      BY <2>7, <2>8, <3>1
    <3> QED
      BY <3>2, <3>3, <3>4
  <2> QED
    BY <2>9 DEF ScopesNest
<1>4. ~Attached(stack, c) => stack' = stack
  BY <1>1, DetachPrefix, EndScopeLive
<1> QED
  BY <1>2, <1>3, <1>4

\* Every step keeps the stack well nested.
LEMMA NestStep == TypeOK /\ ScopesNest /\ [Next]_vars => ScopesNest'
<1> SUFFICES ASSUME TypeOK, ScopesNest, [Next]_vars PROVE ScopesNest'
  OBVIOUS
<1>1. CASE \E c \in Scopes, s \in Spans, holder \in {"deferred", "user", "dropped"} :
             StartScope(c, s, holder)
  BY <1>1, NestStart
<1>2. CASE \E c \in Scopes : EndScope(c)
  BY <1>2, NestEnd
<1>3. ASSUME NEW c \in Scopes, scope' = [scope EXCEPT ![c] = "dropped"],
             UNCHANGED <<scopeSpan, activeBefore, below, stack>>
      PROVE  ScopesNest'
  <2>1. \A d \in Scopes : Live(d) => Live(d)'
    BY <1>3 DEF Live, TypeOK
  <2>2. \A i \in DOMAIN stack : stack[i] \in Scopes
    BY DEF TypeOK
  <2> QED
    BY <1>3, <2>1, <2>2 DEF ScopesNest
<1>4. CASE UNCHANGED scopeVars
  BY <1>4 DEF scopeVars, ScopesNest, Live
<1> QED
  BY <1>1, <1>2, <1>3, <1>4, ScopeSteps

\* The context stack stays well nested, whatever is activated, deactivated
\* and collected in whatever order.
THEOREM NestCorrect == Spec => []ScopesNest
<1>1. Init => ScopesNest
  BY DEF Init, ScopesNest
<1> QED
  BY <1>1, TypeCorrect, NestStep, PTL DEF Spec

\* Ending a scope restores the span that was active when it started, or
\* changes nothing if the scope is off the stack already.
THEOREM ScopeEndRestoresCorrect == Spec => ScopeEndRestores
<1>1. ASSUME TypeOK, ScopesNest, [Next]_vars, NEW c \in Scopes, Live(c), ~Live(c)'
      PROVE  IF Attached(stack, c) THEN ActiveSpan' = activeBefore[c]
             ELSE stack' = stack
  <2>1. EndScope(c)
    <3>1. ASSUME NEW d \in Scopes, NEW s \in Spans,
                 NEW holder \in {"deferred", "user", "dropped"}, StartScope(d, s, holder)
          PROVE  FALSE
      BY <1>1, <3>1 DEF Live, StartScope, TypeOK
    <3>2. ASSUME NEW d \in Scopes, EndScope(d)
          PROVE  d = c
      BY <1>1, <3>2, EndScopeLive DEF Live
    <3>3. ASSUME NEW d \in Scopes, scope' = [scope EXCEPT ![d] = "dropped"]
          PROVE  FALSE
      BY <1>1, <3>3 DEF Live, TypeOK
    <3>4. CASE UNCHANGED scopeVars
      BY <1>1, <3>4 DEF Live, scopeVars
    <3> QED
      BY <1>1, <3>1, <3>2, <3>3, <3>4, ScopeSteps
  <2>2. stack \in Seq(Scopes) /\ stack' = Detach(stack, c) /\ scopeSpan' = scopeSpan
    BY <1>1, <2>1, EndScopeLive DEF TypeOK
  <2>3. CASE ~Attached(stack, c)
    BY <2>2, <2>3, DetachPrefix
  <2>4. CASE Attached(stack, c)
    <3> SUFFICES ActiveSpan' = activeBefore[c]
      BY <2>4
    <3>1. PICK k \in DOMAIN stack : stack[k] = c
      BY <2>4 DEF Attached
    <3>2. /\ stack' \in Seq(Scopes) /\ Len(stack') = k - 1
          /\ \A i \in 1..(k - 1) : stack'[i] = stack[i]
      <4>1. \A i, j \in DOMAIN stack : stack[i] = stack[j] => i = j
        BY <1>1 DEF ScopesNest
      <4>2. Len(Detach(stack, stack[k])) = k - 1
        BY <2>2, <4>1, DetachPosition
      <4>3. stack' = Detach(stack, stack[k])
        BY <2>2, <3>1
      <4>4. /\ stack' \in Seq(Scopes)
            /\ \A i \in 1..Len(stack') : stack'[i] = stack[i]
        BY <2>2, DetachPrefix
      <4> QED
        BY <4>2, <4>3, <4>4
    <3>3. activeBefore[c] = IF k = 1 THEN NoSpan ELSE scopeSpan[stack[k - 1]]
      BY <1>1, <3>1 DEF ScopesNest
    <3>4. CASE k = 1
      <4>1. stack' = <<>>
        BY <3>2, <3>4
      <4> QED
        BY <3>3, <3>4, <4>1 DEF ActiveSpan, CurrentSpan
    <3>5. CASE k # 1
      <4>1. k - 1 \in 1..(k - 1) /\ stack' # <<>>
        BY <2>2, <3>1, <3>2, <3>5
      <4> QED
        BY <2>2, <3>2, <3>3, <3>5, <4>1 DEF ActiveSpan, CurrentSpan
    <3> QED
      BY <3>4, <3>5
  <2> QED
    BY <2>3, <2>4
<1>2. TypeOK /\ ScopesNest /\ [Next]_vars =>
        [\A c \in Scopes : Live(c) /\ ~Live(c)' =>
           IF Attached(stack, c) THEN ActiveSpan' = activeBefore[c]
           ELSE stack' = stack]_vars
  BY <1>1
<1> QED
  BY <1>2, TypeCorrect, NestCorrect, PTL DEF Spec, ScopeEndRestores

-----------------------------------------------------------------------------
(* The steps that matter to the spans *)

\* Spans that were recording end together, each once.
EndTogether(order) ==
    /\ SdkEndAll(order)
    /\ \A i, j \in DOMAIN order : order[i] = order[j] => i = j
    /\ \A i \in DOMAIN order : phase[order[i]] = "recording"

\* Every step starts one span, ends one (if it is recording) or those that a
\* deleted Scope kept, or leaves the phases and the export alone.
LEMMA PhaseSteps ==
    ASSUME TypeOK, [Next]_vars
    PROVE  \/ \E s \in Spans :
                /\ phase[s] = "unused"
                /\ phase' = [phase EXCEPT ![s] = "recording"]
                /\ exported' = exported
           \/ \E s \in Spans : SdkEnd(s)
           \/ \E order \in Seq(Spans) : EndTogether(order)
           \/ UNCHANGED <<phase, exported>>
<1> USE DEF spanVars
<1>1. CASE UNCHANGED vars \/ CallFunction \/ GetActiveSpan
  BY <1>1 DEF vars, CallFunction, GetActiveSpan
<1>2. ASSUME NEW mode, LeaveFunction(mode)
      PROVE  UNCHANGED <<phase, exported>>
  BY <1>2 DEF LeaveFunction
<1>3. ASSUME NEW c \in Scopes, EndScope(c)
      PROVE  (\E order \in Seq(Spans) : EndTogether(order)) \/ UNCHANGED <<phase, exported>>
  <2>1. CASE Live(c)
    <3>1. PICK order \in Seq(Spans) :
            /\ SdkEndAll(order)
            /\ \A i, j \in DOMAIN order : order[i] = order[j] => i = j
            /\ \A s \in Spans : (\E i \in DOMAIN order : order[i] = s)
                                  <=> phase[s] = "recording" /\ LastHolder(c, s)
      BY <1>3, <2>1, ReleasedSpans DEF EndScope
    <3>2. \A i \in DOMAIN order : phase[order[i]] = "recording"
      BY <3>1
    <3> QED
      BY <3>1, <3>2 DEF EndTogether
  <2>2. CASE ~Live(c)
    BY <1>3, <2>2 DEF EndScope
  <2> QED
    BY <2>1, <2>2
<1>4. CASE RunHandler
  <2> DEFINE h == Head(frames[Innermost].todo)
  <2>1. Innermost \in DOMAIN frames /\ frames[Innermost] \in Frames
    BY <1>4 DEF RunHandler, Leaving, TypeOK, Innermost
  <2>2. h \in Handlers
    BY <1>4, <2>1 DEF RunHandler, Frames
  <2>3. CASE h.op = "end"
    BY <1>4, <2>2, <2>3 DEF RunHandler, Handlers, EndSpan
  <2>4. CASE h.op = "detach"
    BY <1>3, <1>4, <2>2, <2>4 DEF RunHandler, Handlers
  <2> QED
    BY <1>4, <2>3, <2>4 DEF RunHandler
<1>5. ASSUME NEW caught, PopFrame(caught)
      PROVE  UNCHANGED <<phase, exported>>
  BY <1>5 DEF PopFrame
<1>6. ASSUME NEW s \in Spans, SpanStep(s)
      PROVE  SdkEnd(s) \/ UNCHANGED <<phase, exported>>
  BY <1>6 DEF SpanStep, SetStatus, End, EndSpan, ForgetSpan, FinalizeSpan
<1>7. CASE ManualStep
  <2>1. CASE \E c \in Scopes : Deactivate(c) \/ ForgetScope(c) \/ FinalizeScope(c)
    BY <1>3, <2>1 DEF Deactivate, ForgetScope, FinalizeScope
  <2>2. ASSUME NEW s \in Spans, NEW p, CreateSpan(s, p)
        PROVE  \E t \in Spans :
                 /\ phase[t] = "unused"
                 /\ phase' = [phase EXCEPT ![t] = "recording"]
                 /\ exported' = exported
    BY <2>2 DEF CreateSpan
  <2>3. ASSUME NEW s \in Spans, NEW env, NEW e, NEW c, Activate(s, env, e, c)
        PROVE  UNCHANGED <<phase, exported>>
    BY <2>3 DEF Activate
  <2> QED
    BY <1>7, <2>1, <2>2, <2>3
    DEF ManualStep, StartSpanNoScope, StartSpan, StartSpanNoActivation
<1> QED
  BY <1>1, <1>2, <1>4, <1>5, <1>6, <1>7 DEF Next, RStep

\* Every step keeps the exported spans those that have ended, once each.
LEMMA ExportStep == TypeOK /\ ExportedOnce /\ [Next]_vars => ExportedOnce'
<1> SUFFICES ASSUME TypeOK, ExportedOnce, [Next]_vars PROVE ExportedOnce'
  OBVIOUS
<1>1. phase \in [Spans -> Phases] /\ exported \in Seq(Spans)
  BY DEF TypeOK
<1>2. ASSUME NEW s \in Spans, phase[s] = "unused",
             phase' = [phase EXCEPT ![s] = "recording"], exported' = exported
      PROVE  ExportedOnce'
  BY <1>1, <1>2 DEF ExportedOnce
<1>3. ASSUME NEW s \in Spans, SdkEnd(s), phase[s] = "recording"
      PROVE  ExportedOnce'
  <2> DEFINE n == Len(exported)
  <2>1. phase' = [phase EXCEPT ![s] = "ended"] /\ exported' = Append(exported, s)
    BY <1>3 DEF SdkEnd
  <2>2. /\ DOMAIN exported = 1..n /\ DOMAIN exported' = 1..(n + 1)
        /\ \A i \in 1..n : exported'[i] = exported[i]
        /\ exported'[n + 1] = s
        /\ n \in Nat
    BY <1>1, <2>1
  <2>3. \A i \in 1..n : exported[i] # s
    BY <1>3, <2>2 DEF ExportedOnce
  <2>4. \A i, j \in DOMAIN exported' : exported'[i] = exported'[j] => i = j
    BY <2>2, <2>3 DEF ExportedOnce
  <2>5. ASSUME NEW t \in Spans
        PROVE  phase'[t] = "ended" <=> \E i \in DOMAIN exported' : exported'[i] = t
    <3>1. CASE t = s
      BY SMTT(30), <1>1, <2>1, <2>2, <3>1
    <3>2. CASE t # s
      <4>1. phase'[t] = phase[t]
        BY <1>1, <2>1, <3>2
      <4>2. (\E i \in DOMAIN exported' : exported'[i] = t)
              <=> (\E i \in DOMAIN exported : exported[i] = t)
        BY <2>2, <3>2
      <4> QED
        BY <4>1, <4>2 DEF ExportedOnce
    <3> QED
      BY <3>1, <3>2
  <2> QED
    BY <2>4, <2>5 DEF ExportedOnce
<1>4. CASE UNCHANGED <<phase, exported>>
  BY <1>4 DEF ExportedOnce
<1>5. ASSUME NEW order \in Seq(Spans), EndTogether(order)
      PROVE  ExportedOnce'
  <2> DEFINE n == Len(exported)
             m == Len(order)
  <2>1. /\ n \in Nat /\ m \in Nat
        /\ DOMAIN exported = 1..n /\ DOMAIN order = 1..m /\ DOMAIN exported' = 1..(n + m)
        /\ \A i \in 1..n : exported'[i] = exported[i]
        /\ \A i \in 1..m : exported'[n + i] = order[i]
    BY <1>1, <1>5 DEF EndTogether, SdkEndAll
  <2>2. \A i \in 1..(n + m) : i \in 1..n \/ (i - n \in 1..m /\ exported'[i] = order[i - n])
    BY <2>1
  <2> HIDE DEF n, m
  <2>d. DOMAIN order = 1..m /\ \A j \in 1..m : order[j] \in Spans
    BY <2>1
  <2>o. /\ \A j \in 1..m : order[j] \in Spans /\ phase[order[j]] = "recording"
        /\ \A i, j \in 1..m : order[i] = order[j] => i = j
    BY <1>5, <2>d DEF EndTogether
  <2>e. \A i \in 1..n : exported[i] \in Spans /\ phase[exported[i]] = "ended"
    <3>1. \A i \in 1..n : exported[i] \in Spans
      BY <1>1, <2>1
    <3> QED
      BY <2>1, <3>1 DEF ExportedOnce
  <2>3. \A i \in 1..n, j \in 1..m : exported[i] # order[j]
    BY <2>o, <2>e
  <2>4. ASSUME NEW i \in 1..(n + m), NEW j \in 1..(n + m), exported'[i] = exported'[j]
        PROVE  i = j
    <3>1. CASE i \in 1..n /\ j \in 1..n
      BY <2>1, <2>4, <3>1 DEF ExportedOnce
    <3>2. CASE i \notin 1..n /\ j \notin 1..n
      <4>1. i - n = j - n
        BY <2>o, <2>2, <2>4, <3>2
      <4> QED
        BY <2>1, <4>1
    <3>3. CASE (i \in 1..n) # (j \in 1..n)
      BY <2>1, <2>2, <2>3, <2>4, <3>3
    <3> QED
      BY <3>1, <3>2, <3>3
  <2>5. ASSUME NEW t \in Spans
        PROVE  phase'[t] = "ended" <=> \E i \in 1..(n + m) : exported'[i] = t
    <3>1. phase'[t] = "ended" <=> phase[t] = "ended" \/ \E i \in 1..m : order[i] = t
      BY <1>5, <2>1 DEF EndTogether, SdkEndAll
    <3>2. phase[t] = "ended" <=> \E i \in 1..n : exported[i] = t
      BY <2>1 DEF ExportedOnce
    <3>3. ASSUME NEW i \in 1..m
          PROVE  n + i \in 1..(n + m) /\ exported'[n + i] = order[i]
      BY <2>1
    <3>4. ASSUME NEW i \in 1..n
          PROVE  i \in 1..(n + m) /\ exported'[i] = exported[i]
      BY <2>1
    <3> QED
      BY <2>2, <3>1, <3>2, <3>3, <3>4
  <2> QED
    BY <2>1, <2>4, <2>5 DEF ExportedOnce
<1> QED
  BY <1>2, <1>3, <1>4, <1>5, PhaseSteps DEF SdkEnd

\* However its end comes about, a span is exported once, and only if it ended.
THEOREM ExportedOnceCorrect == Spec => []ExportedOnce
<1>1. Init => ExportedOnce
  BY DEF Init, ExportedOnce
<1> QED
  BY <1>1, TypeCorrect, ExportStep, PTL DEF Spec

-----------------------------------------------------------------------------
(* The steps that matter to the status *)

\* A status changes only while its span is recording, by the rules of the
\* SDK, and the "exception" event comes only with a change from Unset to Error.
LEMMA StatusSteps ==
    ASSUME TypeOK, [Next]_vars
    PROVE  \/ UNCHANGED <<status, exception>>
           \/ \E s \in Spans, new \in Statuses \cup {"keep"} :
                /\ phase[s] = "recording"
                /\ status' = [status EXCEPT ![s] = AcceptedStatus(status[s], new)]
                /\ \/ exception' = exception
                   \/ /\ exception' = [exception EXCEPT ![s] = TRUE]
                      /\ status[s] = "unset" /\ new = "error" /\ phase'[s] = "ended"
<1> USE DEF spanVars
<1>1. CASE UNCHANGED vars \/ CallFunction \/ GetActiveSpan
  BY <1>1 DEF vars, CallFunction, GetActiveSpan
<1>2. ASSUME NEW mode, LeaveFunction(mode)
      PROVE  UNCHANGED <<status, exception>>
  BY <1>2 DEF LeaveFunction
<1>3. ASSUME NEW s \in Spans, NEW code \in EndCodes \cup {"auto"},
             NEW errorExit \in BOOLEAN, EndSpan(s, code, errorExit)
      PROVE  \/ UNCHANGED <<status, exception>>
             \/ \E new \in Statuses \cup {"keep"} :
                  /\ phase[s] = "recording"
                  /\ status' = [status EXCEPT ![s] = AcceptedStatus(status[s], new)]
                  /\ \/ exception' = exception
                     \/ /\ exception' = [exception EXCEPT ![s] = TRUE]
                        /\ status[s] = "unset" /\ new = "error" /\ phase'[s] = "ended"
  <2> DEFINE new == CodeAtEnd(s, code, errorExit)
  <2>1. code \in Statuses \cup {"keep", "auto"}
    BY SpansAssumption
  <2>2. new \in Statuses \cup {"keep"}
    BY <2>1 DEF CodeAtEnd, AutoError, Statuses
  <2>3. CASE phase[s] # "recording"
    BY <1>3, <2>3 DEF EndSpan
  <2>4. CASE phase[s] = "recording" /\ AutoError(s, code, errorExit)
    <3>1. new = "error" /\ status[s] = "unset" /\ phase'[s] = "ended"
      BY <1>3, <2>4 DEF CodeAtEnd, AutoError, EndSpan, SdkEnd, TypeOK
    <3>2. exception' = [exception EXCEPT ![s] = TRUE]
      <4>1. exception' = [exception EXCEPT ![s] = exception[s] \/ TRUE]
        BY <1>3, <2>4 DEF EndSpan
      <4> QED
        BY <4>1
    <3>3. status' = [status EXCEPT ![s] = AcceptedStatus(status[s], new)]
      BY <1>3, <2>4 DEF EndSpan
    <3> HIDE DEF new
    <3> QED
      BY <2>2, <2>4, <3>1, <3>2, <3>3
  <2>5. CASE phase[s] = "recording" /\ ~AutoError(s, code, errorExit)
    <3>1. exception' = exception
      <4>1. exception' = [exception EXCEPT ![s] = exception[s] \/ FALSE]
        BY <1>3, <2>5 DEF EndSpan
      <4>2. exception[s] \in BOOLEAN /\ exception \in [Spans -> BOOLEAN]
        BY DEF TypeOK
      <4> QED
        BY <4>1, <4>2
    <3>2. status' = [status EXCEPT ![s] = AcceptedStatus(status[s], new)]
      BY <1>3, <2>5 DEF EndSpan
    <3> HIDE DEF new
    <3> QED
      BY <2>2, <2>5, <3>1, <3>2
  <2> QED
    BY <2>3, <2>4, <2>5
<1>4. CASE RunHandler
  <2> DEFINE h == Head(frames[Innermost].todo)
  <2>1. Innermost \in DOMAIN frames /\ frames[Innermost] \in Frames
    BY <1>4 DEF RunHandler, Leaving, TypeOK, Innermost
  <2>2. h \in Handlers
    BY <1>4, <2>1 DEF RunHandler, Frames
  <2>3. CASE h.op = "end"
    <3>1. EndSpan(h.of, "auto", frames[Innermost].mode = "failing") /\ h.of \in Spans
      BY <1>4, <2>2, <2>3 DEF RunHandler, Handlers
    <3> QED
      BY <1>3, <3>1
  <2>4. CASE h.op = "detach"
    BY <1>4, <2>4 DEF RunHandler, EndScope
  <2> QED
    BY <1>4, <2>3, <2>4 DEF RunHandler
<1>5. ASSUME NEW caught, PopFrame(caught)
      PROVE  UNCHANGED <<status, exception>>
  BY <1>5 DEF PopFrame
<1>6. ASSUME NEW s \in Spans, NEW code \in SetCodes, SetStatus(s, code)
      PROVE  /\ code \in Statuses /\ phase[s] = "recording" /\ exception' = exception
             /\ status' = [status EXCEPT ![s] = AcceptedStatus(status[s], code)]
  BY <1>6, SpansAssumption DEF SetStatus
<1>7. ASSUME NEW s \in Spans, NEW code \in EndCodes, End(s, code)
      PROVE  EndSpan(s, code, TRUE)
  BY <1>7 DEF End
<1>8. ASSUME NEW s \in Spans, ForgetSpan(s) \/ FinalizeSpan(s)
      PROVE  UNCHANGED <<status, exception>>
  BY <1>8 DEF ForgetSpan, FinalizeSpan
<1>9. CASE ManualStep
  <2>1. ASSUME NEW s \in Spans, NEW p, NEW env, StartSpanNoScope(s, p, env)
        PROVE  UNCHANGED <<status, exception>>
    BY <2>1 DEF StartSpanNoScope, CreateSpan
  <2>2. ASSUME NEW s \in Spans, NEW p, NEW c, NEW env, NEW act,
               StartSpan(s, p, env, act, c) \/ StartSpanNoActivation(s, p, env, act, c)
        PROVE  UNCHANGED <<status, exception>>
    BY <2>2 DEF StartSpan, StartSpanNoActivation, CreateSpan
  <2>3. ASSUME NEW s \in Spans, NEW env, NEW e, NEW c, Activate(s, env, e, c)
        PROVE  UNCHANGED <<status, exception>>
    BY <2>3 DEF Activate
  <2>4. ASSUME NEW c, Deactivate(c) \/ ForgetScope(c) \/ FinalizeScope(c)
        PROVE  UNCHANGED <<status, exception>>
    BY <2>4 DEF Deactivate, ForgetScope, FinalizeScope, EndScope
  <2> QED
    BY <1>9, <2>1, <2>2, <2>3, <2>4 DEF ManualStep
<1>10. CASE RStep
  BY <1>1, <1>2, <1>4, <1>5, <1>10 DEF RStep
<1>11. ASSUME NEW s \in Spans, SpanStep(s)
       PROVE  \/ UNCHANGED <<status, exception>>
              \/ \E new \in Statuses \cup {"keep"} :
                   /\ phase[s] = "recording"
                   /\ status' = [status EXCEPT ![s] = AcceptedStatus(status[s], new)]
                   /\ \/ exception' = exception
                      \/ /\ exception' = [exception EXCEPT ![s] = TRUE]
                         /\ status[s] = "unset" /\ new = "error" /\ phase'[s] = "ended"
  <2>1. CASE \E code \in SetCodes : SetStatus(s, code)
    BY <1>6, <2>1
  <2>2. CASE \E code \in EndCodes : End(s, code)
    BY <1>3, <1>7, <2>2
  <2> QED
    BY <1>8, <1>11, <2>1, <2>2 DEF SpanStep
<1> QED
  BY <1>1, <1>9, <1>10, <1>11 DEF Next

\* ExceptionMeansError is not inductive: an Error could still give way to Ok.
\* It does not, because end() records the event and ends the span in one call.
ExceptionInv == \A s \in Spans : exception[s] => status[s] = "error" /\ phase[s] = "ended"

\* Every step keeps ExceptionInv.
LEMMA ExceptionStep == TypeOK /\ ExceptionInv /\ [Next]_vars => ExceptionInv'
<1> SUFFICES ASSUME TypeOK, ExceptionInv, [Next]_vars, NEW t \in Spans, exception'[t]
             PROVE  status'[t] = "error" /\ phase'[t] = "ended"
  BY DEF ExceptionInv
<1>1. /\ phase \in [Spans -> Phases]
      /\ status \in [Spans -> Statuses]
      /\ exception \in [Spans -> BOOLEAN]
  BY DEF TypeOK
<1>2. phase[t] = "ended" => phase'[t] = "ended"
  BY <1>1, PhaseSteps DEF SdkEnd, EndTogether, SdkEndAll
<1>3. CASE exception[t]
  <2>1. status[t] = "error" /\ phase[t] = "ended"
    BY <1>3 DEF ExceptionInv
  <2>2. status'[t] = status[t]
    BY <1>1, <2>1, StatusSteps
  <2> QED
    BY <1>2, <2>1, <2>2
<1>4. CASE ~exception[t]
  <2>1. PICK s \in Spans, new \in Statuses \cup {"keep"} :
          /\ status' = [status EXCEPT ![s] = AcceptedStatus(status[s], new)]
          /\ exception' = [exception EXCEPT ![s] = TRUE]
          /\ status[s] = "unset" /\ new = "error" /\ phase'[s] = "ended"
    BY <1>4, StatusSteps
  <2>2. t = s
    BY <1>1, <1>4, <2>1
  <2> QED
    BY <1>1, <2>1, <2>2 DEF AcceptedStatus
<1> QED
  BY <1>3, <1>4

\* The "exception" event is never put on a span whose status R code had set.
THEOREM ExceptionMeansErrorCorrect == Spec => []ExceptionMeansError
<1>1. Init => ExceptionInv
  BY DEF Init, ExceptionInv
<1>2. ExceptionInv => ExceptionMeansError
  BY DEF ExceptionInv, ExceptionMeansError
<1> QED
  BY <1>1, <1>2, TypeCorrect, ExceptionStep, PTL DEF Spec

\* Neither the status nor the event of an exported span changes any more, and
\* the status Ok is never undone.
THEOREM ExportedIsFinalCorrect == Spec => ExportedIsFinal
<1>1. ASSUME TypeOK, [Next]_vars, NEW s \in Spans
      PROVE  /\ phase[s] = "ended" =>
                  /\ phase'[s] = "ended"
                  /\ status'[s] = status[s]
                  /\ exception'[s] = exception[s]
             /\ status[s] = "ok" => status'[s] = "ok"
  <2>1. phase[s] = "ended" => phase'[s] = "ended"
    BY <1>1, PhaseSteps DEF TypeOK, SdkEnd, EndTogether, SdkEndAll
  <2>2. phase[s] = "ended" => status'[s] = status[s] /\ exception'[s] = exception[s]
    BY <1>1, StatusSteps DEF TypeOK
  <2>3. status[s] = "ok" => status'[s] = "ok"
    BY <1>1, StatusSteps DEF TypeOK, AcceptedStatus
  <2> QED
    BY <2>1, <2>2, <2>3
<1>2. TypeOK /\ [Next]_vars =>
        [\A s \in Spans :
           /\ phase[s] = "ended" =>
                /\ phase'[s] = "ended"
                /\ status'[s] = status[s]
                /\ exception'[s] = exception[s]
           /\ status[s] = "ok" => status'[s] = "ok"]_vars
  BY <1>1
<1> QED
  BY <1>2, TypeCorrect, PTL DEF Spec, ExportedIsFinal

-----------------------------------------------------------------------------
(* The steps that matter to the collector *)

\* What is on the on.exit list of a call after defer().
LEMMA DeferTodo ==
    ASSUME NEW fs \in Seq(Frames), NEW env \in {NullEnv} \cup DOMAIN fs,
           NEW handlers \in Seq(Handlers), NEW d \in DOMAIN fs
    PROVE  /\ Defer(fs, env, handlers)[d].todo =
                IF d = env THEN handlers \o fs[d].todo ELSE fs[d].todo
           /\ Defer(fs, env, handlers)[d].mode = fs[d].mode
           /\ Defer(fs, env, handlers)[d].outer = fs[d].outer
<1>1. fs[d] \in Frames /\ d # NullEnv
  BY DEF NullEnv
<1> QED
  BY <1>1 DEF Defer, Frames

\* h is on the on.exit list of a call in fs.
Listed(fs, h) == \E d \in DOMAIN fs : \E i \in DOMAIN fs[d].todo : fs[d].todo[i] = h

\* defer() adds the handlers it is given to those that are pending.
LEMMA DeferPending ==
    ASSUME NEW fs \in Seq(Frames), NEW env \in {NullEnv} \cup DOMAIN fs,
           NEW handlers \in Seq(Handlers), NEW h,
           Listed(Defer(fs, env, handlers), h)
    PROVE  (\E j \in DOMAIN handlers : handlers[j] = h) \/ Listed(fs, h)
<1> DEFINE new == Defer(fs, env, handlers)
<1>1. new \in Seq(Frames) /\ DOMAIN new = DOMAIN fs
  BY DeferType
<1>2. PICK d \in DOMAIN new : \E i \in DOMAIN new[d].todo : new[d].todo[i] = h
  BY DEF Listed
<1>3. PICK i \in DOMAIN new[d].todo : new[d].todo[i] = h
  BY <1>2
<1>4. d \in DOMAIN fs /\ fs[d].todo \in Seq(Handlers)
  <2>1. d \in DOMAIN fs /\ fs[d] \in Frames
    BY <1>1
  <2> QED
    BY <2>1 DEF Frames
<1>5. new[d].todo = IF d = env THEN handlers \o fs[d].todo ELSE fs[d].todo
  <2>1. d \in DOMAIN fs
    BY <1>4
  <2> QED
    BY ONLY <2>1, DeferTodo, fs \in Seq(Frames), env \in {NullEnv} \cup DOMAIN fs,
            handlers \in Seq(Handlers)
<1> HIDE DEF new
<1>6. CASE d = env
  <2>1. new[d].todo = handlers \o fs[d].todo
    BY <1>5, <1>6
  <2>2. i \in 1..(Len(handlers) + Len(fs[d].todo))
    BY <1>3, <1>4, <2>1
  <2>3. CASE i <= Len(handlers)
    BY <1>3, <1>4, <2>1, <2>2, <2>3
  <2>4. CASE i > Len(handlers)
    <3>1. /\ i - Len(handlers) \in DOMAIN fs[d].todo
          /\ fs[d].todo[i - Len(handlers)] = h
      BY <1>3, <1>4, <2>1, <2>2, <2>4
    <3> QED
      BY <1>4, <3>1 DEF Listed
  <2> QED
    BY <2>2, <2>3, <2>4
<1>7. CASE d # env
  BY <1>3, <1>4, <1>5, <1>7 DEF Listed
<1> QED
  BY <1>6, <1>7

\* The same for a single handler.
LEMMA DeferOnePending ==
    ASSUME NEW fs \in Seq(Frames), NEW env \in {NullEnv} \cup DOMAIN fs,
           NEW x \in Handlers, NEW h
    PROVE  Listed(Defer(fs, env, <<x>>), h) => h = x \/ Listed(fs, h)
<1> DEFINE hs == <<x>>
<1>1. hs \in Seq(Handlers) /\ \A j \in DOMAIN hs : hs[j] = x
  OBVIOUS
<1> HIDE DEF hs
<1>2. Listed(Defer(fs, env, hs), h) => h = x \/ Listed(fs, h)
  BY <1>1, DeferPending
<1> QED
  BY <1>2 DEF hs

\* What a running or leaving call does to the list of calls leaves no handler
\* that was not pending.
LEMMA CallsShrink ==
    ASSUME TypeOK, NEW h,
           \/ CallFunction
           \/ \E mode \in {"returning", "failing"} : LeaveFunction(mode)
           \/ RunHandler
           \/ \E caught \in BOOLEAN : PopFrame(caught),
           Pending(h)'
    PROVE  Pending(h)
<1>1. frames \in Seq(Frames) /\ Innermost = Len(frames) /\ Innermost \in Nat
  BY DEF TypeOK, Innermost
<1>2. \A d \in DOMAIN frames : frames[d] \in Frames /\ frames[d].todo \in Seq(Handlers)
  <2>1. \A d \in DOMAIN frames : frames[d] \in Frames
    BY <1>1
  <2> QED
    BY <2>1 DEF Frames
<1>3. PICK d \in DOMAIN frames' : \E i \in DOMAIN frames'[d].todo : frames'[d].todo[i] = h
  BY DEF Pending, PendingAt
<1>4. PICK i \in DOMAIN frames'[d].todo : frames'[d].todo[i] = h
  BY <1>3
<1> SUFFICES /\ d \in DOMAIN frames
             /\ \E j \in DOMAIN frames[d].todo : frames[d].todo[j] = h
  BY DEF Pending, PendingAt
<1>5. CASE CallFunction
  <2> DEFINE new == [mode |-> "running", todo |-> <<>>, outer |-> ActiveSpan]
  <2>1. frames' = Append(frames, new) /\ new.todo = <<>>
    BY <1>5 DEF CallFunction
  <2> HIDE DEF new
  <2>2. d # Innermost + 1
    BY <1>1, <1>4, <2>1
  <2> QED
    BY <1>1, <1>4, <2>1, <2>2
<1>6. ASSUME NEW mode, LeaveFunction(mode)
      PROVE  d \in DOMAIN frames /\ frames'[d].todo = frames[d].todo
  <2>1. Innermost \in DOMAIN frames
    BY <1>1, <1>6 DEF LeaveFunction
  <2> QED
    BY <1>1, <1>2, <1>6, <2>1 DEF LeaveFunction, Frames
<1>7. CASE RunHandler
  <2>1. Innermost \in DOMAIN frames
    BY <1>1, <1>7 DEF RunHandler, Leaving
  <2>2. /\ d \in DOMAIN frames
        /\ frames'[d].todo = IF d = Innermost THEN Tail(frames[d].todo)
                             ELSE frames[d].todo
    BY <1>1, <1>2, <1>7, <2>1 DEF RunHandler, Frames
  <2>3. frames[Innermost].todo \in Seq(Handlers) /\ frames[Innermost].todo # <<>>
    BY <1>2, <1>7, <2>1 DEF RunHandler
  <2>4. CASE d = Innermost
    <3>1. /\ i + 1 \in DOMAIN frames[d].todo
          /\ frames[d].todo[i + 1] = h
      BY <1>4, <2>2, <2>3, <2>4
    <3> QED
      BY <2>2, <3>1
  <2> QED
    BY <1>4, <2>2, <2>4
<1>8. ASSUME NEW caught, PopFrame(caught)
      PROVE  d \in DOMAIN frames /\ frames'[d].todo = frames[d].todo
  <2> DEFINE callers == SubSeq(frames, 1, Innermost - 1)
  <2>1. /\ frames # <<>> /\ callers \in Seq(Frames) /\ Len(callers) = Innermost - 1
        /\ \A e \in DOMAIN callers : e \in DOMAIN frames /\ callers[e] = frames[e]
    BY <1>1, <1>8 DEF PopFrame, Leaving
  <2> HIDE DEF callers
  <2>2. CASE frames' = callers
    BY <2>1, <2>2
  <2>3. CASE callers # <<>> /\ frames' = [callers EXCEPT ![Innermost - 1].mode = "failing"]
    <3>1. d \in DOMAIN callers
      BY <2>1, <2>3
    <3>2. callers[d] \in Frames
      BY <2>1, <3>1
    <3> QED
      BY <2>1, <2>3, <3>1, <3>2 DEF Frames
  <2> QED
    BY <1>8, <2>2, <2>3 DEF PopFrame, callers
<1> QED
  BY <1>4, <1>5, <1>6, <1>7, <1>8

\* No context derives from one that was never attached.
BelowStarted ==
    \A c \in Scopes : \A i \in DOMAIN below[c] : scope[below[c][i]] # "unused"

\* Every step keeps that.
LEMMA BelowStep == TypeOK /\ ScopesNest /\ BelowStarted /\ [Next]_vars => BelowStarted'
<1> SUFFICES ASSUME TypeOK, ScopesNest, BelowStarted, [Next]_vars PROVE BelowStarted'
  OBVIOUS
<1>1. ASSUME below' = below, \A d \in Scopes : scope[d] # "unused" => scope'[d] # "unused"
      PROVE  BelowStarted'
  <2>1. \A c \in Scopes : \A i \in DOMAIN below[c] : below[c][i] \in Scopes
    BY DEF TypeOK
  <2> QED
    BY <1>1, <2>1 DEF BelowStarted
<1>2. ASSUME NEW c \in Scopes, NEW s \in Spans,
             NEW holder \in {"deferred", "user", "dropped"}, StartScope(c, s, holder)
      PROVE  BelowStarted'
  <2>1. /\ below' = [below EXCEPT ![c] = stack]
        /\ \A d \in Scopes : scope[d] # "unused" => scope'[d] # "unused"
    BY <1>2 DEF StartScope, TypeOK
  <2>2. \A i \in DOMAIN stack : stack[i] \in Scopes /\ scope[stack[i]] # "unused"
    <3>1. \A i \in DOMAIN stack : stack[i] \in Scopes
      BY DEF TypeOK
    <3>2. \A i \in DOMAIN stack : scope[stack[i]] # "unused"
      BY DEF ScopesNest, Live
    <3> QED
      BY <3>1, <3>2
  <2>3. \A d \in Scopes : \A i \in DOMAIN below[d] : below[d][i] \in Scopes
    BY DEF TypeOK
  <2> SUFFICES ASSUME NEW d \in Scopes, NEW i \in DOMAIN below'[d]
               PROVE  scope'[below'[d][i]] # "unused"
    BY DEF BelowStarted
  <2>4. CASE d = c
    BY <2>1, <2>2, <2>4 DEF TypeOK
  <2>5. CASE d # c
    BY <2>1, <2>3, <2>5 DEF TypeOK, BelowStarted
  <2> QED
    BY <2>4, <2>5
<1>3. ASSUME NEW c \in Scopes, EndScope(c)
      PROVE  BelowStarted'
  BY <1>1, <1>3 DEF EndScope, TypeOK
<1>4. ASSUME NEW c \in Scopes, scope' = [scope EXCEPT ![c] = "dropped"], UNCHANGED below
      PROVE  BelowStarted'
  BY <1>1, <1>4 DEF TypeOK
<1>5. CASE UNCHANGED scopeVars
  BY <1>1, <1>5 DEF scopeVars
<1> QED
  BY <1>2, <1>3, <1>4, <1>5, ScopeSteps

\* A scope that starts takes no span from the others.
LEMMA KeepsStart ==
    ASSUME TypeOK, BelowStarted, NEW c \in Scopes, NEW s \in Spans,
           NEW holder \in {"deferred", "user", "dropped"}, StartScope(c, s, holder),
           NEW d \in Scopes, NEW t \in Spans, Keeps(d, t)
    PROVE  Keeps(d, t)'
<1> DEFINE derived == Derived(below[d], d)
<1>1. Live(d) /\ scope[c] = "unused" /\ d # c
  BY DEF Keeps, StartScope, Live
<1>2. Live(d)' /\ below'[d] = below[d]
  BY <1>1 DEF StartScope, Live, TypeOK
<1>3. below[d] \in Seq(Scopes)
  BY DEF TypeOK
<1>4. PICK i \in DOMAIN derived : scopeSpan[derived[i]] = t
  BY DEF Keeps, Carries
<1>5. derived[i] \in Scopes /\ derived[i] # c
  BY <1>1, <1>3, <1>4 DEF Derived, BelowStarted
<1>6. scopeSpan'[derived[i]] = t
  BY <1>4, <1>5 DEF StartScope, TypeOK
<1> QED
  BY <1>2, <1>4, <1>6 DEF Keeps, Carries

\* Where the scopes and the contexts stay, so does what they keep.
LEMMA KeepsSame ==
    ASSUME UNCHANGED scopeVars
    PROVE  \A d, t : Keeps(d, t)' <=> Keeps(d, t)
BY DEF scopeVars, Keeps, Live, Carries, Derived

\* A span that was started has an otel_span object, or had one. This is what
\* RecordingCanEnd needs to be inductive: the deletion of the last scope that
\* keeps a span ends it, unless an object is left.
HolderInv ==
    /\ RecordingCanEnd
    /\ \A s \in Spans : phase[s] # "unused" => handle[s] # "none"

\* Steps that make new handlers and scopes, if any, for one span, which has an
\* object then, and delete no scope.
LEMMA HolderStart ==
    ASSUME TypeOK, HolderInv, NEW s \in Spans \cup {NoSpan},
           s \in Spans => handle'[s] \in {"held", "dropped"},
           \A t \in Spans \ {s} : phase'[t] = phase[t] /\ handle'[t] = handle[t],
           \A c \in Scopes, t \in Spans : Keeps(c, t) => Keeps(c, t)',
           \A c \in Scopes : scopeSpan'[c] = scopeSpan[c] \/ scopeSpan'[c] = s,
           \A t \in Spans : Pending(EndHandler(t))' => Pending(EndHandler(t)) \/ t = s,
           \A c \in Scopes : Pending(DetachHandler(c))' =>
                               Pending(DetachHandler(c)) \/ scopeSpan'[c] = s
    PROVE  HolderInv'
<1> SUFFICES ASSUME NEW t \in Spans
             PROVE  /\ phase'[t] = "recording" =>
                         \/ handle'[t] \in {"held", "dropped"}
                         \/ \E c \in Scopes : Keeps(c, t)'
                    /\ HandlerKeeps(t)' => handle'[t] \in {"held", "dropped"}
                    /\ phase'[t] # "unused" => handle'[t] # "none"
  BY DEF HolderInv, RecordingCanEnd
<1>1. CASE t = s
  BY <1>1
<1>2. CASE t # s
  <2>1. HandlerKeeps(t)' => HandlerKeeps(t)
    BY <1>2 DEF HandlerKeeps
  <2> QED
    BY <1>2, <2>1 DEF HolderInv, RecordingCanEnd
<1> QED
  BY <1>1, <1>2

\* The deletion of a scope: its span ends if nothing else is left of it.
LEMMA HolderEnd ==
    ASSUME TypeOK, HolderInv, NEW c \in Scopes, EndScope(c), handle' = handle,
           \A h : Pending(h)' => Pending(h)
    PROVE  HolderInv'
<1>1. /\ scopeSpan' = scopeSpan /\ below' = below
      /\ \A d \in Scopes \ {c}, t \in Spans : Keeps(d, t)' <=> Keeps(d, t)
  BY EndScopeLive DEF Live, Keeps, Carries, Derived
<1> SUFFICES ASSUME NEW t \in Spans
             PROVE  /\ phase'[t] = "recording" =>
                         \/ handle'[t] \in {"held", "dropped"}
                         \/ \E d \in Scopes : Keeps(d, t)'
                    /\ HandlerKeeps(t)' => handle'[t] \in {"held", "dropped"}
                    /\ phase'[t] # "unused" => handle'[t] # "none"
  BY DEF HolderInv, RecordingCanEnd
<1>2. HandlerKeeps(t)' => HandlerKeeps(t)
  BY <1>1 DEF HandlerKeeps
<1>r. Live(c) => \E order \in Seq(Spans) :
                   /\ SdkEndAll(order)
                   /\ (\E i \in DOMAIN order : order[i] = t)
                        <=> phase[t] = "recording" /\ LastHolder(c, t)
  BY ReleasedSpans DEF EndScope
<1>3. phase'[t] # phase[t] => phase[t] = "recording" /\ phase'[t] = "ended"
  BY <1>r DEF SdkEndAll, EndScope
<1>4. ASSUME phase'[t] = "recording", handle[t] \notin {"held", "dropped"}
      PROVE  \E d \in Scopes : Keeps(d, t)'
  <2>1. phase[t] = "recording" /\ handle[t] = "gone"
    BY <1>3, <1>4 DEF HolderInv, TypeOK, Handles
  <2>2. PICK d \in Scopes : Keeps(d, t)
    BY <1>4, <2>1 DEF HolderInv, RecordingCanEnd
  <2>3. CASE d # c
    BY <1>1, <2>2, <2>3
  <2>4. CASE d = c
    <3>1. Live(c)
      BY <2>2, <2>4 DEF Keeps
    <3>2. LastHolder(c, t) => phase'[t] = "ended"
      BY <1>r, <2>1, <3>1 DEF SdkEndAll
    <3>3. ~LastHolder(c, t)
      BY <1>4, <3>2
    <3> QED
      BY <1>1, <2>1, <2>2, <2>4, <3>3 DEF LastHolder
  <2> QED
    BY <2>3, <2>4
<1> QED
  BY <1>2, <1>3, <1>4 DEF HolderInv, RecordingCanEnd

\* A span that starts: it gets an object, and maybe a scope and handlers.
LEMMA HolderStartSpan ==
    ASSUME TypeOK, BelowStarted, HolderInv, NEW s \in Spans, NEW p \in Parents, NEW c \in Scopes,
           NEW env \in Envs, NEW act \in Envs,
           \/ StartSpanNoScope(s, p, env)
           \/ StartSpan(s, p, env, act, c)
           \/ StartSpanNoActivation(s, p, env, act, c)
    PROVE  HolderInv'
<1>1. /\ handle' = [handle EXCEPT ![s] = "held"] \/ handle' = [handle EXCEPT ![s] = "dropped"]
      /\ phase' = [phase EXCEPT ![s] = "recording"]
  BY DEF StartSpanNoScope, StartSpan, StartSpanNoActivation, CreateSpan
<1>2. /\ handle'[s] \in {"held", "dropped"}
      /\ \A t \in Spans \ {s} : phase'[t] = phase[t] /\ handle'[t] = handle[t]
  BY <1>1 DEF TypeOK
<1>3. UNCHANGED scopeVars \/ StartScope(c, s, "deferred") \/ StartScope(c, s, "dropped")
  BY DEF StartSpanNoScope, StartSpan, StartSpanNoActivation
<1>k. \A d \in Scopes, t \in Spans : Keeps(d, t) => Keeps(d, t)'
  BY <1>3, KeepsStart, KeepsSame
<1>4. \A d \in Scopes : scopeSpan'[d] = scopeSpan[d] \/ scopeSpan'[d] = s
  BY <1>3 DEF scopeVars, StartScope, TypeOK
<1>5. ASSUME NEW h, Pending(h)'
      PROVE  \/ Pending(h) \/ h = EndHandler(s)
             \/ h = DetachHandler(c) /\ StartSpan(s, p, env, act, c) /\ act # NullEnv
  <2> DEFINE one == Defer(frames, env, <<EndHandler(s)>>)
  <2>1. frames \in Seq(Frames)
    BY DEF TypeOK
  <2>2. Listed(frames', h) /\ (Listed(frames, h) => Pending(h))
    BY <1>5 DEF Pending, PendingAt, Listed
  <2>3. <<EndHandler(s)>> \in Seq(Handlers) /\ <<DetachHandler(c)>> \in Seq(Handlers)
    BY HandlerTypes
  <2>4. CASE StartSpanNoScope(s, p, env)
    BY <2>2, <2>4 DEF StartSpanNoScope
  <2>5. ASSUME env # DeadEnv
        PROVE  /\ one \in Seq(Frames) /\ DOMAIN one = DOMAIN frames
               /\ Listed(one, h) => h = EndHandler(s) \/ Listed(frames, h)
    <3>1. env \in {NullEnv} \cup DOMAIN frames
      BY <2>5, EnvType
    <3>2. EndHandler(s) \in Handlers
      BY HandlerTypes
    <3>3. Listed(one, h) => h = EndHandler(s) \/ Listed(frames, h)
      BY <2>1, <3>1, <3>2, DeferOnePending
    <3>4. one \in Seq(Frames) /\ DOMAIN one = DOMAIN frames
      BY <2>1, <2>3, <3>1, DeferType
    <3> QED
      BY <3>3, <3>4
  <2>6. CASE StartSpanNoActivation(s, p, env, act, c)
    <3>1. env # DeadEnv /\ frames' = one
      BY <2>6 DEF StartSpanNoActivation
    <3> QED
      BY <2>2, <2>5, <3>1
  <2>7. CASE StartSpan(s, p, env, act, c)
    <3>1. env # DeadEnv /\ act # DeadEnv /\ frames' = Defer(one, act, <<DetachHandler(c)>>)
      BY <2>7 DEF StartSpan
    <3>2. act \in {NullEnv} \cup DOMAIN one
      BY <2>5, <3>1, EnvType
    <3>3. CASE act = NullEnv
      BY <2>2, <2>5, <3>1, <3>3 DEF Defer
    <3>4. CASE act # NullEnv
      <4>1. Listed(Defer(one, act, <<DetachHandler(c)>>), h)
        BY <2>2, <3>1
      <4> HIDE DEF one
      <4>2. h = DetachHandler(c) \/ Listed(one, h)
        BY <2>5, <3>1, <3>2, <4>1, HandlerTypes, DeferOnePending
      <4> QED
        BY <2>2, <2>5, <2>7, <3>1, <3>4, <4>2
    <3> QED
      BY <3>3, <3>4
  <2> QED
    BY <2>4, <2>6, <2>7
<1>6. \A t \in Spans : Pending(EndHandler(t))' => Pending(EndHandler(t)) \/ t = s
  BY <1>5 DEF EndHandler, DetachHandler
<1>7. ASSUME NEW d \in Scopes, Pending(DetachHandler(d))'
      PROVE  Pending(DetachHandler(d)) \/ scopeSpan'[d] = s
  <2>1. \/ Pending(DetachHandler(d))
        \/ d = c /\ StartSpan(s, p, env, act, c) /\ act # NullEnv
    BY <1>5, <1>7 DEF EndHandler, DetachHandler
  <2> QED
    BY <2>1 DEF StartSpan, StartScope, TypeOK
<1> QED
  BY <1>2, <1>k, <1>4, <1>6, <1>7, HolderStart

\* A span that is activated has an object.
LEMMA HolderActivate ==
    ASSUME TypeOK, BelowStarted, HolderInv, NEW s \in Spans, NEW c \in Scopes, NEW env \in Envs,
           NEW e \in BOOLEAN, Activate(s, env, e, c)
    PROVE  HolderInv'
<1>1. handle[s] = "held" /\ UNCHANGED <<phase, handle>>
  BY DEF Activate, spanVars
<1>2. PICK holder \in {"deferred", "user", "dropped"} : StartScope(c, s, holder)
  BY DEF Activate
<1>k. \A d \in Scopes, t \in Spans : Keeps(d, t) => Keeps(d, t)'
  BY <1>2, KeepsStart
<1>3. /\ \A d \in Scopes : scopeSpan'[d] = scopeSpan[d] \/ scopeSpan'[d] = s
      /\ scopeSpan'[c] = s
  BY <1>2 DEF StartScope, TypeOK
<1>4. ASSUME NEW h, Pending(h)'
      PROVE  Pending(h) \/ h = EndHandler(s) \/ h = DetachHandler(c)
  <2> DEFINE hs == IF e THEN <<DetachHandler(c), EndHandler(s)>> ELSE <<DetachHandler(c)>>
  <2>1. frames \in Seq(Frames)
    BY DEF TypeOK
  <2>2. Listed(frames', h) /\ (Listed(frames, h) => Pending(h))
    BY <1>4 DEF Pending, PendingAt, Listed
  <2>3. /\ <<DetachHandler(c), EndHandler(s)>> \in Seq(Handlers)
        /\ <<DetachHandler(c)>> \in Seq(Handlers)
    BY HandlerTypes
  <2>4. hs \in Seq(Handlers)
    BY <2>3
  <2>5. \A j \in DOMAIN hs : hs[j] = EndHandler(s) \/ hs[j] = DetachHandler(c)
    OBVIOUS
  <2>6. frames' = IF env = DeadEnv THEN frames ELSE Defer(frames, env, hs)
    BY DEF Activate
  <2> HIDE DEF hs
  <2>7. CASE env = DeadEnv
    BY <2>2, <2>6, <2>7
  <2>8. CASE env # DeadEnv
    <3>1. env \in {NullEnv} \cup DOMAIN frames
      BY <2>8, EnvType
    <3>2. Listed(Defer(frames, env, hs), h)
      BY <2>2, <2>6, <2>8
    <3>3. (\E j \in DOMAIN hs : hs[j] = h) \/ Listed(frames, h)
      BY <2>1, <2>4, <3>1, <3>2, DeferPending
    <3> QED
      BY <2>2, <2>5, <3>3
  <2> QED
    BY <2>7, <2>8
<1>5. \A t \in Spans : Pending(EndHandler(t))' => Pending(EndHandler(t)) \/ t = s
  BY <1>4 DEF EndHandler, DetachHandler
<1>6. \A d \in Scopes : Pending(DetachHandler(d))' =>
                          Pending(DetachHandler(d)) \/ scopeSpan'[d] = s
  BY <1>3, <1>4 DEF EndHandler, DetachHandler
<1> QED
  BY <1>1, <1>k, <1>3, <1>5, <1>6, HolderStart

\* Steps that touch no span, no object and no scope.
LEMMA HolderFrames ==
    ASSUME TypeOK, HolderInv, UNCHANGED <<spanVars, handle, scopeVars>>,
           \A h : Pending(h)' => Pending(h)
    PROVE  HolderInv'
<1>1. /\ \A t \in Spans : phase'[t] = phase[t] /\ handle'[t] = handle[t]
      /\ \A c \in Scopes : scopeSpan'[c] = scopeSpan[c]
      /\ \A c \in Scopes, t \in Spans : Keeps(c, t)' <=> Keeps(c, t)
  BY KeepsSame DEF spanVars, scopeVars
<1>2. \A t \in Spans : HandlerKeeps(t)' => HandlerKeeps(t)
  BY <1>1 DEF HandlerKeeps
<1> QED
  BY <1>1, <1>2 DEF HolderInv, RecordingCanEnd

\* Steps that touch the life of one span and its object, which it has then.
LEMMA HolderOne ==
    ASSUME TypeOK, HolderInv, NEW s \in Spans, handle'[s] \in {"held", "dropped"},
           \A t \in Spans \ {s} : phase'[t] = phase[t] /\ handle'[t] = handle[t],
           UNCHANGED scopeVars, \A h : Pending(h)' => Pending(h)
    PROVE  HolderInv'
<1>1. /\ \A c \in Scopes : scopeSpan'[c] = scopeSpan[c]
      /\ \A c \in Scopes, t \in Spans : Keeps(c, t) => Keeps(c, t)'
  BY KeepsSame DEF scopeVars
<1> QED
  BY <1>1, HolderStart

\* HolderInv is kept by every step.
LEMMA HolderStep == TypeOK /\ BelowStarted /\ HolderInv /\ [Next]_vars => HolderInv'
<1> SUFFICES ASSUME TypeOK, BelowStarted, HolderInv, [Next]_vars
             PROVE  HolderInv'
  OBVIOUS
<1>u. ASSUME UNCHANGED frames
      PROVE  \A h : Pending(h)' => Pending(h)
  BY <1>u DEF Pending, PendingAt
<1>1. CASE UNCHANGED vars
  BY <1>1, <1>u, HolderFrames DEF vars, spanVars, scopeVars
<1>2. CASE CallFunction \/ \E mode \in {"returning", "failing"} : LeaveFunction(mode)
  <2>1. UNCHANGED <<spanVars, handle, scopeVars>>
    BY <1>2 DEF CallFunction, LeaveFunction
  <2> QED
    BY <1>2, <2>1, CallsShrink, HolderFrames
<1>3. CASE \E caught \in BOOLEAN : PopFrame(caught)
  <2>1. UNCHANGED <<spanVars, handle, scopeVars>>
    BY <1>3 DEF PopFrame
  <2> QED
    BY <1>3, <2>1, CallsShrink, HolderFrames
<1>4. CASE RunHandler
  <2> DEFINE h == Head(frames[Innermost].todo)
  <2>1. \A x : Pending(x)' => Pending(x)
    BY <1>4, CallsShrink
  <2>2. /\ frames \in Seq(Frames) /\ Innermost \in DOMAIN frames
        /\ frames[Innermost].todo # <<>> /\ handle' = handle
    BY <1>4 DEF RunHandler, Leaving, Innermost, TypeOK
  <2>3. frames[Innermost] \in Frames
    BY <2>2
  <2>4. frames[Innermost].todo \in Seq(Handlers)
    BY <2>3 DEF Frames
  <2>5. h \in Handlers /\ 1 \in DOMAIN frames[Innermost].todo
        /\ h = frames[Innermost].todo[1]
    BY <2>2, <2>4
  <2>6. Pending(h)
    BY <2>2, <2>5 DEF Pending, PendingAt
  <2>7. \/ h.op = "end" /\ EndSpan(h.of, "auto", frames[Innermost].mode = "failing")
           /\ UNCHANGED <<parent, scopeVars>>
        \/ h.op = "detach" /\ EndScope(h.of)
    BY <1>4 DEF RunHandler
  <2> HIDE DEF h
  <2>8. CASE h.op = "end"
    <3>1. h.of \in Spans /\ h = EndHandler(h.of)
      BY <2>5, <2>8 DEF Handlers, EndHandler
    <3>2. handle[h.of] \in {"held", "dropped"}
      BY <2>6, <3>1 DEF HolderInv, RecordingCanEnd, HandlerKeeps
    <3>3. EndSpan(h.of, "auto", frames[Innermost].mode = "failing") /\ UNCHANGED scopeVars
      BY <2>7, <2>8
    <3>4. \A t \in Spans \ {h.of} : phase'[t] = phase[t]
      BY <3>3 DEF EndSpan, SdkEnd, TypeOK
    <3> QED
      BY <2>1, <2>2, <3>1, <3>2, <3>3, <3>4, HolderOne
  <2>9. CASE h.op = "detach"
    <3>1. h.of \in Scopes /\ EndScope(h.of)
      BY <2>5, <2>7, <2>9 DEF Handlers
    <3> QED
      BY <2>1, <2>2, <3>1, HolderEnd
  <2> QED
    BY <2>7, <2>8, <2>9
<1>5. CASE GetActiveSpan
  <2>1. ActiveSpan \in Spans
    BY <1>5, ActiveSpanType DEF GetActiveSpan
  <2>2. /\ handle' = [handle EXCEPT ![ActiveSpan] = "held"] /\ UNCHANGED phase
        /\ UNCHANGED scopeVars /\ UNCHANGED frames
    BY <1>5 DEF GetActiveSpan, spanVars
  <2>3. /\ handle'[ActiveSpan] = "held"
        /\ \A t \in Spans \ {ActiveSpan} : phase'[t] = phase[t] /\ handle'[t] = handle[t]
    BY <2>1, <2>2 DEF TypeOK
  <2> QED
    BY <1>u, <2>1, <2>2, <2>3, HolderOne
<1>6. ASSUME NEW s \in Spans, SpanStep(s)
      PROVE  HolderInv'
  <2>1. UNCHANGED scopeVars /\ UNCHANGED frames
    BY <1>6 DEF SpanStep, SetStatus, End, ForgetSpan, FinalizeSpan
  <2>2. CASE \E code \in SetCodes : SetStatus(s, code)
    BY <1>u, <2>1, <2>2, HolderOne DEF SetStatus
  <2>3. CASE \E code \in EndCodes : End(s, code)
    <3>1. handle[s] = "held" /\ handle' = handle
      BY <2>3 DEF End
    <3>2. \A t \in Spans \ {s} : phase'[t] = phase[t]
      BY <2>3 DEF End, EndSpan, SdkEnd, TypeOK
    <3> QED
      BY <1>u, <2>1, <3>1, <3>2, HolderOne
  <2>4. CASE ForgetSpan(s)
    <3>1. handle'[s] = "dropped"
      BY <2>4 DEF ForgetSpan, TypeOK
    <3>2. \A t \in Spans \ {s} : phase'[t] = phase[t] /\ handle'[t] = handle[t]
      BY <2>4 DEF ForgetSpan, TypeOK, spanVars
    <3> QED
      BY <1>u, <2>1, <3>1, <3>2, HolderOne
  <2>5. CASE FinalizeSpan(s)
    <3>1. /\ handle' = [handle EXCEPT ![s] = "gone"] /\ ~HandlerKeeps(s)
          /\ IF \E c \in Scopes : Keeps(c, s)
             THEN UNCHANGED <<phase, exported>>
             ELSE SdkEnd(s)
      BY <2>5 DEF FinalizeSpan
    <3>2. /\ \A c \in Scopes, t \in Spans : Keeps(c, t)' <=> Keeps(c, t)
          /\ \A t \in Spans : HandlerKeeps(t)' => HandlerKeeps(t)
      BY <1>u, <2>1, KeepsSame DEF scopeVars, HandlerKeeps
    <3>3. \A t \in Spans \ {s} : phase'[t] = phase[t] /\ handle'[t] = handle[t]
      BY <3>1 DEF SdkEnd, TypeOK
    <3>4. /\ handle'[s] = "gone"
          /\ phase'[s] = "recording" => \E c \in Scopes : Keeps(c, s)'
      BY <3>1, <3>2 DEF SdkEnd, TypeOK
    <3> QED
      BY <3>1, <3>2, <3>3, <3>4 DEF HolderInv, RecordingCanEnd
  <2> QED
    BY <1>6, <2>2, <2>3, <2>4, <2>5 DEF SpanStep
<1>7. CASE ManualStep
  <2>1. CASE \E s \in Spans, p \in Parents, env \in Envs : StartSpanNoScope(s, p, env)
    <3>1. PICK s \in Spans, p \in Parents, env \in Envs : StartSpanNoScope(s, p, env)
      BY <2>1
    <3>2. /\ handle' = [handle EXCEPT ![s] = "dropped"]
          /\ phase' = [phase EXCEPT ![s] = "recording"]
          /\ UNCHANGED scopeVars /\ UNCHANGED frames
      BY <3>1 DEF StartSpanNoScope, CreateSpan
    <3>3. /\ handle'[s] = "dropped"
          /\ \A t \in Spans \ {s} : phase'[t] = phase[t] /\ handle'[t] = handle[t]
      BY <3>2 DEF TypeOK
    <3> QED
      BY <1>u, <3>2, <3>3, HolderOne
  <2>2. CASE \E s \in Spans, p \in Parents, c \in Scopes, env, act \in Envs :
               StartSpan(s, p, env, act, c) \/ StartSpanNoActivation(s, p, env, act, c)
    BY <2>2, HolderStartSpan
  <2>3. CASE \E s \in Spans, c \in Scopes, env \in Envs, e \in BOOLEAN :
               Activate(s, env, e, c)
    BY <2>3, HolderActivate
  <2>4. CASE \E c \in Scopes : Deactivate(c) \/ FinalizeScope(c)
    <3>1. PICK c \in Scopes : EndScope(c) /\ UNCHANGED handle /\ UNCHANGED frames
      BY <2>4 DEF Deactivate, FinalizeScope
    <3> QED
      BY <1>u, <3>1, HolderEnd
  <2>5. CASE \E c \in Scopes : ForgetScope(c)
    <3>1. PICK c \in Scopes : ForgetScope(c)
      BY <2>5
    <3>2. /\ \A t \in Spans : phase'[t] = phase[t] /\ handle'[t] = handle[t]
          /\ \A d \in Scopes : scopeSpan'[d] = scopeSpan[d]
          /\ \A d \in Scopes, t \in Spans : Keeps(d, t) => Keeps(d, t)'
          /\ \A h : Pending(h)' => Pending(h)
      BY <1>u, <3>1 DEF ForgetScope, spanVars, Keeps, Carries, Derived, Live, TypeOK
    <3>3. \A t \in Spans : HandlerKeeps(t)' => HandlerKeeps(t)
      BY <3>2 DEF HandlerKeeps
    <3> QED
      BY <3>2, <3>3 DEF HolderInv, RecordingCanEnd
  <2> QED
    BY <1>7, <2>1, <2>2, <2>3, <2>4, <2>5 DEF ManualStep
<1> QED
  BY <1>1, <1>2, <1>3, <1>4, <1>5, <1>6, <1>7 DEF Next, RStep

\* A span that is recording can still end, and a pending handler has an R
\* object to work with: finalizers neither end a span too early nor lose it.
THEOREM RecordingCanEndCorrect == Spec => []RecordingCanEnd
<1>1. Init => HolderInv /\ BelowStarted
  BY DEF Init, HolderInv, RecordingCanEnd, HandlerKeeps, Pending, PendingAt, BelowStarted
<1>2. HolderInv => RecordingCanEnd
  BY DEF HolderInv
<1> QED
  BY <1>1, <1>2, TypeCorrect, NestCorrect, BelowStep, HolderStep, PTL DEF Spec

\* The finalizer of the last R object of a span does not end it while a scope
\* of the context stack keeps it.
THEOREM CollectorSparesActivatedCorrect == Spec => CollectorSparesActivated
<1>1. ASSUME TypeOK, ScopesNest, [Next]_vars, NEW s \in Spans,
             handle[s] = "dropped", handle'[s] = "gone",
             \E i \in DOMAIN stack : scopeSpan[stack[i]] = s
      PROVE  phase'[s] = phase[s]
  <2>1. \E c \in Scopes : Keeps(c, s)
    <3>1. PICK c \in Scopes : Live(c) /\ scopeSpan[c] = s
      BY <1>1 DEF TypeOK, ScopesNest
    <3>2. /\ Len(below[c]) + 1 \in DOMAIN Derived(below[c], c)
          /\ Derived(below[c], c)[Len(below[c]) + 1] = c
      BY <1>1 DEF TypeOK, Derived
    <3> QED
      BY <3>1, <3>2 DEF Keeps, Carries
  <2>2. FinalizeSpan(s)
    <3>1. handle \in [Spans -> Handles] /\ handle' # handle
      BY <1>1 DEF TypeOK
    <3>2. ~RStep /\ ~UNCHANGED vars
      BY <3>1 DEF RStep, vars, CallFunction, LeaveFunction, RunHandler, PopFrame
    <3>3. ASSUME NEW t, NEW h \in {"held", "dropped"}, handle' = [handle EXCEPT ![t] = h]
          PROVE  FALSE
      BY <1>1, <3>1, <3>3
    <3>4. ~GetActiveSpan
      BY <3>3 DEF GetActiveSpan
    <3>5. ~ManualStep
      BY <3>1, <3>3 DEF ManualStep, StartSpan, StartSpanNoScope, StartSpanNoActivation,
         Activate, Deactivate, ForgetScope, FinalizeScope
    <3>6. PICK t \in Spans : SpanStep(t)
      BY <1>1, <3>2, <3>4, <3>5 DEF Next
    <3>7. FinalizeSpan(t)
      BY <3>1, <3>3, <3>6 DEF SpanStep, SetStatus, End, ForgetSpan
    <3>8. t = s
      BY <1>1, <3>1, <3>7 DEF FinalizeSpan
    <3> QED
      BY <3>7, <3>8
  <2> QED
    BY <2>1, <2>2 DEF FinalizeSpan
<1>2. TypeOK /\ ScopesNest /\ [Next]_vars =>
        [\A s \in Spans :
           /\ handle[s] = "dropped" /\ handle'[s] = "gone"
           /\ \E i \in DOMAIN stack : scopeSpan[stack[i]] = s
           => phase'[s] = phase[s]]_vars
  BY <1>1
<1> QED
  BY <1>2, TypeCorrect, NestCorrect, PTL DEF Spec, CollectorSparesActivated

-----------------------------------------------------------------------------
(* LocalSpec is a part of Spec *)

\* start_local_active_span() and activate() with their defaults are calls
\* that Next allows.
LEMMA LocalIsNext == TypeOK /\ [LocalNext]_vars => [Next]_vars
<1> SUFFICES ASSUME TypeOK, LocalNext PROVE Next
  OBVIOUS
<1>1. frames # <<>> => Innermost \in Envs
  BY DEF TypeOK, Innermost, Envs
<1>2. ASSUME NEW s \in Spans, NEW c \in Scopes, NEW p \in Parents \ Spans,
             LocalStart(s, p, c)
      PROVE  ManualStep
  BY <1>1, <1>2 DEF LocalStart, ManualStep
<1>3. ASSUME NEW s \in Spans, NEW c \in Scopes, LocalActivate(s, c)
      PROVE  ManualStep
  BY <1>1, <1>3 DEF LocalActivate, ManualStep
<1> QED
  BY <1>2, <1>3 DEF LocalNext, Next

\* What holds of every use of spans holds of this one.
LEMMA LocalKeeps == LocalSpec => [](TypeOK /\ ScopesNest)
<1>1. Init => TypeOK /\ ScopesNest
  BY TypeInit DEF Init, ScopesNest
<1>2. TypeOK /\ ScopesNest /\ [LocalNext]_vars => (TypeOK /\ ScopesNest)'
  BY LocalIsNext, TypeStep, NestStep
<1> QED
  BY <1>1, <1>2, PTL DEF LocalSpec

-----------------------------------------------------------------------------
(* Places on the on.exit lists *)

\* h is the i-th handler on the list of call d.
At(d, i, h) ==
    /\ d \in DOMAIN frames
    /\ i \in DOMAIN frames[d].todo
    /\ frames[d].todo[i] = h

\* The lists are sequences of handlers.
LEMMA TodoType ==
    TypeOK => /\ frames \in Seq(Frames) /\ Innermost = Len(frames) /\ Innermost \in Nat
              /\ \A d \in DOMAIN frames : /\ frames[d] \in Frames
                                          /\ frames[d].todo \in Seq(Handlers)
<1> SUFFICES ASSUME TypeOK
             PROVE  /\ frames \in Seq(Frames) /\ Innermost = Len(frames)
                    /\ Innermost \in Nat
                    /\ \A d \in DOMAIN frames : /\ frames[d] \in Frames
                                                /\ frames[d].todo \in Seq(Handlers)
  OBVIOUS
<1>1. frames \in Seq(Frames)
  BY DEF TypeOK
<1>2. \A d \in DOMAIN frames : frames[d] \in Frames
  BY <1>1
<1> QED
  BY <1>1, <1>2 DEF Frames, Innermost

\* A handler that is pending has a place.
LEMMA AtPending ==
    TypeOK => /\ \A d \in Nat, i \in Nat : \A h : At(d, i, h) => PendingAt(d, h)
              /\ \A d \in DOMAIN frames : \A h :
                    PendingAt(d, h) => d \in Nat /\ \E i \in Nat : At(d, i, h)
<1> SUFFICES ASSUME TypeOK
             PROVE  /\ \A d \in Nat, i \in Nat : \A h : At(d, i, h) => PendingAt(d, h)
                    /\ \A d \in DOMAIN frames : \A h :
                         PendingAt(d, h) => d \in Nat /\ \E i \in Nat : At(d, i, h)
  OBVIOUS
<1>1. \A d \in DOMAIN frames : d \in Nat /\ DOMAIN frames[d].todo \subseteq Nat
  BY TodoType
<1> QED
  BY <1>1 DEF At, PendingAt

\* Deferring in the innermost call moves its other handlers back.
LEMMA PushAt ==
    ASSUME TypeOK, frames # <<>>, NEW hs \in Seq(Handlers),
           frames' = Defer(frames, Innermost, hs)
    PROVE  \A d, i \in Nat : \A h :
             At(d, i, h)' <=> \/ d # Innermost /\ At(d, i, h)
                              \/ d = Innermost /\ i \in DOMAIN hs /\ hs[i] = h
                              \/ d = Innermost /\ i > Len(hs) /\ At(d, i - Len(hs), h)
<1>1. frames \in Seq(Frames) /\ Innermost \in DOMAIN frames
  BY TodoType
<1>2. DOMAIN frames' = DOMAIN frames
  BY <1>1, DeferType
<1>a. \A d, i, h : (At(d, i, h) => d \in DOMAIN frames) /\ (At(d, i, h)' => d \in DOMAIN frames')
  BY DEF At
<1> SUFFICES ASSUME NEW d \in DOMAIN frames, NEW i \in Nat, NEW h
             PROVE  At(d, i, h)' <=>
                      \/ d # Innermost /\ At(d, i, h)
                      \/ d = Innermost /\ i \in DOMAIN hs /\ hs[i] = h
                      \/ d = Innermost /\ i > Len(hs) /\ At(d, i - Len(hs), h)
  BY <1>1, <1>2, <1>a
<1>3. frames[d].todo \in Seq(Handlers)
  BY TodoType
<1>4. frames'[d].todo = IF d = Innermost THEN hs \o frames[d].todo ELSE frames[d].todo
  BY <1>1, DeferTodo
<1>5. CASE d # Innermost
  BY <1>2, <1>4, <1>5 DEF At
<1>6. CASE d = Innermost
  <2>1. At(d, i, h)' <=> /\ i \in 1..(Len(hs) + Len(frames[d].todo))
                         /\ (hs \o frames[d].todo)[i] = h
    BY <1>2, <1>3, <1>4, <1>6 DEF At
  <2>2. ASSUME i \in 1..(Len(hs) + Len(frames[d].todo))
        PROVE  (hs \o frames[d].todo)[i] =
                 IF i <= Len(hs) THEN hs[i] ELSE frames[d].todo[i - Len(hs)]
    BY <1>3, <2>2
  <2>3. CASE i <= Len(hs)
    BY <1>3, <1>6, <2>1, <2>2, <2>3
  <2>4. CASE i > Len(hs)
    BY <1>3, <1>6, <2>1, <2>2, <2>4 DEF At
  <2> QED
    BY <2>3, <2>4
<1> QED
  BY <1>5, <1>6

\* The places of what is left of a list.
LEMMA TailPlaces ==
    ASSUME NEW t \in Seq(Handlers), t # <<>>, NEW i \in Nat, NEW h
    PROVE  (i \in DOMAIN Tail(t) /\ Tail(t)[i] = h) <=>
             i > 0 /\ i + 1 \in DOMAIN t /\ t[i + 1] = h
OBVIOUS

\* Running a handler moves the others of its call forward.
LEMMA PopAt ==
    ASSUME TypeOK, RunHandler
    PROVE  /\ Innermost \in DOMAIN frames /\ DOMAIN frames' = DOMAIN frames
           /\ Head(frames[Innermost].todo) \in Handlers
           /\ At(Innermost, 1, Head(frames[Innermost].todo))
           /\ \A d, i \in Nat : \A h :
                At(d, i, h)' <=> \/ d # Innermost /\ At(d, i, h)
                                 \/ d = Innermost /\ i > 0 /\ At(d, i + 1, h)
<1>1. /\ frames \in Seq(Frames) /\ Innermost \in DOMAIN frames
      /\ frames[Innermost].todo # <<>>
      /\ frames' = [frames EXCEPT ![Innermost].todo = Tail(@)]
  BY TodoType DEF RunHandler, Leaving
<1>2. frames[Innermost].todo \in Seq(Handlers)
  BY <1>1, TodoType
<1>3. /\ Head(frames[Innermost].todo) \in Handlers
      /\ At(Innermost, 1, Head(frames[Innermost].todo))
  BY <1>1, <1>2 DEF At
<1>4. DOMAIN frames' = DOMAIN frames
  BY <1>1
<1>5. ASSUME NEW d \in DOMAIN frames, NEW i \in Nat, NEW h
      PROVE  At(d, i, h)' <=> \/ d # Innermost /\ At(d, i, h)
                              \/ d = Innermost /\ i > 0 /\ At(d, i + 1, h)
  <2>1. frames[d] \in Frames
    BY TodoType
  <2>2. frames'[d].todo = IF d = Innermost THEN Tail(frames[d].todo) ELSE frames[d].todo
    BY <1>1, <2>1 DEF Frames
  <2>3. CASE d # Innermost
    BY <1>4, <2>2, <2>3 DEF At
  <2>4. CASE d = Innermost
    <3> DEFINE t == frames[d].todo
    <3>1. t \in Seq(Handlers) /\ t # <<>> /\ frames'[d].todo = Tail(t)
      BY <1>1, <1>2, <2>2, <2>4
    <3>2. At(d, i, h)' <=> i \in DOMAIN Tail(t) /\ Tail(t)[i] = h
      BY <1>4, <3>1 DEF At
    <3>3. At(d, i + 1, h) <=> i + 1 \in DOMAIN t /\ t[i + 1] = h
      BY DEF At
    <3> HIDE DEF t
    <3> QED
      BY <2>4, <3>1, <3>2, <3>3, TailPlaces
  <2> QED
    BY <2>3, <2>4
<1>6. \A d, i \in Nat : \A h :
        At(d, i, h)' <=> \/ d # Innermost /\ At(d, i, h)
                         \/ d = Innermost /\ i > 0 /\ At(d, i + 1, h)
  BY <1>4, <1>5 DEF At
<1> QED
  BY <1>1, <1>3, <1>4, <1>6

\* Calls and returns, and what spans do without handlers, move no handler.
Quiet ==
    /\ UNCHANGED <<scopeVars, parent>>
    /\ \A d, i \in Nat : \A h : At(d, i, h)' <=> At(d, i, h)

\* What start_local_active_span() and activate() do to the stack and the lists.
Push(s, c, hs) ==
    /\ UserTurn /\ frames # <<>>
    /\ StartScope(c, s, "deferred")
    /\ hs \in Seq(Handlers) /\ Len(hs) > 0 /\ hs[1] = DetachHandler(c)
    /\ \A i \in DOMAIN hs : i # 1 => hs[i] = EndHandler(s)
    /\ frames' = Defer(frames, Innermost, hs)

\* Deferring one handler after another is deferring both, newest first.
LEMMA DeferTwice ==
    ASSUME NEW fs \in Seq(Frames), NEW n \in DOMAIN fs, NEW h \in Handlers, NEW g \in Handlers
    PROVE  Defer(Defer(fs, n, <<h>>), n, <<g>>) = Defer(fs, n, <<g, h>>)
<1> DEFINE one == Defer(fs, n, <<h>>)
<1>1. n # NullEnv
  BY DEF NullEnv
<1>2. fs[n] \in Frames /\ fs[n].todo \in Seq(Handlers)
  <2>1. fs[n] \in Frames
    OBVIOUS
  <2> QED
    BY <2>1 DEF Frames
<1>3. /\ one = [fs EXCEPT ![n] = [fs[n] EXCEPT !.todo = <<h>> \o @]]
      /\ Defer(one, n, <<g>>) = [one EXCEPT ![n] = [one[n] EXCEPT !.todo = <<g>> \o @]]
      /\ Defer(fs, n, <<g, h>>) = [fs EXCEPT ![n] = [fs[n] EXCEPT !.todo = <<g, h>> \o @]]
  BY <1>1 DEF Defer
<1>4. <<g>> \o (<<h>> \o fs[n].todo) = <<g, h>> \o fs[n].todo
  <2> DEFINE t == fs[n].todo
             a == <<g>> \o (<<h>> \o t)
             b == <<g, h>> \o t
  <2>1. t \in Seq(Handlers) /\ <<g>> \in Seq(Handlers) /\ <<g, h>> \in Seq(Handlers)
        /\ <<h>> \in Seq(Handlers)
    BY <1>2
  <2> HIDE DEF t
  <2>2. <<h>> \o t \in Seq(Handlers)
    BY <2>1
  <2>3. a \in Seq(Handlers) /\ b \in Seq(Handlers)
    BY <2>1, <2>2
  <2>4. Len(a) = Len(t) + 2 /\ Len(b) = Len(t) + 2
    BY <2>1, <2>2
  <2>5. \A i \in 1..(Len(t) + 2) : a[i] = b[i]
    BY <2>1, <2>2
  <2> HIDE DEF a, b
  <2>6. a = b
    BY <2>3, <2>4, <2>5, SeqEqual
  <2> QED
    BY <2>6 DEF a, b, t
<1>5. one[n] = [fs[n] EXCEPT !.todo = <<h>> \o fs[n].todo]
  BY <1>3
<1>6. one[n].todo = <<h>> \o fs[n].todo
  BY <1>2, <1>5 DEF Frames
<1>7. [one[n] EXCEPT !.todo = <<g>> \o one[n].todo]
        = [fs[n] EXCEPT !.todo = <<g, h>> \o fs[n].todo]
  BY <1>2, <1>4, <1>5, <1>6 DEF Frames
<1> HIDE DEF one
<1> QED
  BY <1>3, <1>7 DEF one

\* Most steps are quiet.
LEMMA QuietSteps ==
    ASSUME TypeOK,
           \/ CallFunction
           \/ \E mode \in {"returning", "failing"} : LeaveFunction(mode)
           \/ \E caught \in BOOLEAN : PopFrame(caught)
           \/ GetActiveSpan
           \/ \E s \in Spans : SpanStep(s)
           \/ UNCHANGED vars
    PROVE  Quiet
<1>u. ASSUME UNCHANGED frames
      PROVE  \A d, i \in Nat : \A h : At(d, i, h)' <=> At(d, i, h)
  BY <1>u DEF At
<1>1. CASE UNCHANGED vars
  BY <1>1, <1>u DEF vars, Quiet, scopeVars
<1>2. CASE CallFunction
  <2> DEFINE new == [mode |-> "running", todo |-> <<>>, outer |-> ActiveSpan]
  <2>1. frames' = Append(frames, new) /\ new.todo = <<>> /\ UNCHANGED <<scopeVars, parent>>
    BY <1>2 DEF CallFunction, spanVars
  <2> HIDE DEF new
  <2>2. \A d, i \in Nat : \A h : At(d, i, h)' <=> At(d, i, h)
    BY <2>1, TodoType DEF At
  <2> QED
    BY <2>1, <2>2 DEF Quiet
<1>3. ASSUME NEW mode, LeaveFunction(mode)
      PROVE  Quiet
  <2>1. Innermost \in DOMAIN frames /\ UNCHANGED <<scopeVars, parent>>
    BY <1>3, TodoType DEF LeaveFunction, spanVars
  <2>2. DOMAIN frames' = DOMAIN frames /\ \A d \in DOMAIN frames : frames'[d].todo = frames[d].todo
    BY <1>3, <2>1, TodoType DEF LeaveFunction, Frames
  <2> QED
    BY <2>1, <2>2 DEF Quiet, At
<1>4. ASSUME NEW caught, PopFrame(caught)
      PROVE  Quiet
  <2> DEFINE callers == SubSeq(frames, 1, Innermost - 1)
  <2>1. /\ Innermost \in DOMAIN frames /\ UNCHANGED <<scopeVars, parent>>
        /\ frames[Innermost].todo = <<>>
        /\ \A d \in DOMAIN frames : d # Innermost <=> d \in DOMAIN callers
        /\ \A d \in DOMAIN callers : callers[d] \in Frames /\ callers[d] = frames[d]
                                     /\ d \in DOMAIN frames
    <3>1. /\ frames # <<>> /\ frames[Innermost].todo = <<>>
          /\ UNCHANGED <<scopeVars, parent>>
      BY <1>4 DEF PopFrame, Leaving, spanVars
    <3>2. /\ frames \in Seq(Frames) /\ Innermost = Len(frames) /\ Innermost \in Nat
          /\ Innermost > 0
      BY <3>1, TodoType
    <3>3. /\ DOMAIN frames = 1..Innermost /\ DOMAIN callers = 1..(Innermost - 1)
          /\ \A d \in 1..(Innermost - 1) : callers[d] = frames[d]
      BY <3>2
    <3> HIDE DEF callers
    <3>4. \A d \in DOMAIN frames : frames[d] \in Frames
      BY <3>2
    <3> QED
      BY <3>1, <3>2, <3>3, <3>4
  <2>2. frames' = callers \/ frames' = [callers EXCEPT ![Innermost - 1].mode = "failing"]
    BY <1>4 DEF PopFrame
  <2> HIDE DEF callers
  <2>3. DOMAIN frames' = DOMAIN callers
    BY <2>2
  <2>4. \A d \in DOMAIN callers : frames'[d].todo = frames[d].todo
    <3>1. CASE frames' = callers
      BY <2>1, <3>1
    <3>2. CASE frames' = [callers EXCEPT ![Innermost - 1].mode = "failing"]
      BY <2>1, <3>2 DEF Frames
    <3> QED
      BY <2>2, <3>1, <3>2
  <2>5. \A d, i \in Nat : \A h : At(d, i, h)' <=> At(d, i, h)
    BY <2>1, <2>3, <2>4 DEF At
  <2> QED
    BY <2>1, <2>5 DEF Quiet
<1>5. CASE GetActiveSpan
  BY <1>5, <1>u DEF GetActiveSpan, Quiet, spanVars
<1>6. ASSUME NEW s \in Spans, SpanStep(s)
      PROVE  Quiet
  <2>1. UNCHANGED <<scopeVars, parent>> /\ UNCHANGED frames
    BY <1>6 DEF SpanStep, SetStatus, End, ForgetSpan, FinalizeSpan, spanVars
  <2> QED
    BY <1>u, <2>1 DEF Quiet
<1> QED
  BY <1>1, <1>2, <1>3, <1>4, <1>5, <1>6

\* start_local_active_span() and activate() push a scope and its handlers.
LEMMA LocalPushes ==
    ASSUME TypeOK, NEW s \in Spans, NEW c \in Scopes,
           \/ \E p \in Parents \ Spans : LocalStart(s, p, c)
           \/ LocalActivate(s, c)
    PROVE  \E hs \in Seq(Handlers) :
             /\ Push(s, c, hs)
             /\ \/ \E p \in Parents \ Spans : CreateSpan(s, p)
                \/ UNCHANGED spanVars /\ hs = <<DetachHandler(c)>> /\ handle[s] = "held"
<1>1. ASSUME NEW p \in Parents \ Spans, LocalStart(s, p, c)
      PROVE  \E hs \in Seq(Handlers) : Push(s, c, hs) /\ CreateSpan(s, p)
  <2> DEFINE hs == <<DetachHandler(c), EndHandler(s)>>
  <2>1. frames \in Seq(Frames) /\ Innermost \in DOMAIN frames /\ Innermost # NullEnv
    BY <1>1, TodoType DEF LocalStart, NullEnv
  <2>2. /\ UserTurn /\ StartScope(c, s, "deferred") /\ CreateSpan(s, p)
        /\ frames' = Defer(Defer(frames, Innermost, <<EndHandler(s)>>),
                           Innermost, <<DetachHandler(c)>>)
    BY <1>1, <2>1 DEF LocalStart, StartSpan
  <2>3. frames' = Defer(frames, Innermost, hs)
    BY <2>1, <2>2, DeferTwice, HandlerTypes
  <2>4. /\ hs \in Seq(Handlers) /\ Len(hs) > 0 /\ hs[1] = DetachHandler(c)
        /\ \A i \in DOMAIN hs : i # 1 => hs[i] = EndHandler(s)
    BY HandlerTypes
  <2> HIDE DEF hs
  <2>5. Push(s, c, hs)
    BY <1>1, <2>2, <2>3, <2>4 DEF Push, LocalStart
  <2> QED
    BY <2>2, <2>4, <2>5
<1>2. CASE LocalActivate(s, c)
  <2> DEFINE hs == <<DetachHandler(c)>>
  <2>1. Innermost # NullEnv /\ Innermost # DeadEnv
    BY <1>2, TodoType DEF LocalActivate, NullEnv, DeadEnv
  <2>2. /\ UserTurn /\ StartScope(c, s, "deferred") /\ UNCHANGED spanVars
        /\ handle[s] = "held" /\ frames' = Defer(frames, Innermost, hs)
    BY <1>2, <2>1 DEF LocalActivate, Activate
  <2>3. /\ hs \in Seq(Handlers) /\ Len(hs) > 0 /\ hs[1] = DetachHandler(c)
        /\ \A i \in DOMAIN hs : i # 1 => hs[i] = EndHandler(s)
    BY HandlerTypes
  <2> HIDE DEF hs
  <2>4. Push(s, c, hs)
    BY <1>2, <2>2, <2>3 DEF Push, LocalActivate
  <2> QED
    BY <2>2, <2>3, <2>4 DEF hs
<1> QED
  BY <1>1, <1>2

\* The three kinds of steps of LocalSpec.
LEMMA LocalSteps ==
    ASSUME TypeOK, [LocalNext]_vars
    PROVE  \/ Quiet
           \/ RunHandler
           \/ \E s \in Spans, c \in Scopes : \E hs \in Seq(Handlers) :
                /\ Push(s, c, hs)
                /\ \/ \E p \in Parents \ Spans : CreateSpan(s, p)
                   \/ UNCHANGED spanVars /\ hs = <<DetachHandler(c)>> /\ handle[s] = "held"
BY QuietSteps, LocalPushes DEF LocalNext, RStep

-----------------------------------------------------------------------------
(* Exits end children before their parents *)

\* Whatever refers to a span came after the span was started.
KnownSpans ==
    \A s \in Spans : phase[s] = "unused" =>
      /\ handle[s] = "none"
      /\ \A k \in Spans : parent[k] # s
      /\ \A c \in Scopes : scopeSpan[c] # s
      /\ \A d, i \in Nat : ~At(d, i, EndHandler(s))

\* A span that was started under another one is ended by an inner call, or
\* earlier by the same one.
ParentsEndLater ==
    \A k, s \in Spans, d, i, e, j \in Nat :
      parent[k] = s /\ At(d, i, EndHandler(k)) /\ At(e, j, EndHandler(s)) =>
        d > e \/ (d = e /\ i < j)

\* Where the handlers are that were there before a span or scope was started.
LEMMA PushOld ==
    ASSUME TypeOK, NEW s \in Spans, NEW c \in Scopes, NEW hs \in Seq(Handlers),
           Push(s, c, hs), NEW d \in Nat, NEW i \in Nat, NEW h, At(d, i, h)',
           h # DetachHandler(c), h # EndHandler(s)
    PROVE  /\ d \in DOMAIN frames /\ d <= Innermost
           /\ d # Innermost => At(d, i, h)
           /\ d = Innermost => i - Len(hs) \in Nat /\ i > Len(hs) /\ At(d, i - Len(hs), h)
<1>1. /\ frames # <<>> /\ frames' = Defer(frames, Innermost, hs)
      /\ \A x \in DOMAIN hs : hs[x] = DetachHandler(c) \/ hs[x] = EndHandler(s)
  BY DEF Push
<1>2. \/ d # Innermost /\ At(d, i, h)
      \/ d = Innermost /\ i > Len(hs) /\ At(d, i - Len(hs), h)
  BY <1>1, PushAt
<1>3. d \in DOMAIN frames /\ frames \in Seq(Frames) /\ Innermost = Len(frames)
  BY <1>2, TodoType DEF At
<1> QED
  BY <1>2, <1>3

\* Where the handlers are that a new span or scope brings.
LEMMA PushNew ==
    ASSUME TypeOK, NEW s \in Spans, NEW c \in Scopes, NEW hs \in Seq(Handlers),
           Push(s, c, hs), NEW d \in Nat, NEW i \in Nat, NEW h, At(d, i, h)'
    PROVE  \/ d = Innermost /\ i <= Len(hs)
           \/ \E j \in Nat : At(d, j, h)
<1>1. frames # <<>> /\ frames' = Defer(frames, Innermost, hs)
  BY DEF Push
<1>2. \/ d # Innermost /\ At(d, i, h)
      \/ d = Innermost /\ i \in DOMAIN hs /\ hs[i] = h
      \/ d = Innermost /\ i > Len(hs) /\ At(d, i - Len(hs), h)
  BY <1>1, PushAt
<1> QED
  BY <1>2

\* An object is made for a new span or for the active one.
LEMMA HandleSteps ==
    ASSUME TypeOK, [LocalNext]_vars, NEW s \in Spans, handle'[s] # "none"
    PROVE  handle[s] # "none" \/ phase'[s] # "unused" \/ ActiveSpan = s
<1>1. CASE RStep \/ UNCHANGED vars
  BY <1>1 DEF RStep, vars, CallFunction, LeaveFunction, RunHandler, PopFrame
<1>2. CASE GetActiveSpan
  <2>1. handle' = [handle EXCEPT ![ActiveSpan] = "held"]
    BY <1>2 DEF GetActiveSpan
  <2> QED
    BY <2>1 DEF TypeOK
<1>3. ASSUME NEW t \in Spans, SpanStep(t)
      PROVE  handle[s] # "none"
  BY <1>3 DEF SpanStep, SetStatus, End, ForgetSpan, FinalizeSpan, TypeOK
<1>4. ASSUME NEW t \in Spans, NEW c \in Scopes, NEW p \in Parents \ Spans, LocalStart(t, p, c)
      PROVE  handle[s] # "none" \/ phase'[s] # "unused"
  BY <1>4 DEF LocalStart, StartSpan, CreateSpan, TypeOK
<1>5. ASSUME NEW t \in Spans, NEW c \in Scopes, LocalActivate(t, c)
      PROVE  handle[s] # "none"
  BY <1>5 DEF LocalActivate, Activate
<1> QED
  BY <1>1, <1>2, <1>3, <1>4, <1>5 DEF LocalNext

\* A span that was started stays started.
LEMMA StartedStays ==
    ASSUME TypeOK, [LocalNext]_vars, NEW s \in Spans, phase'[s] = "unused"
    PROVE  phase[s] = "unused"
<1>1. [Next]_vars
  BY LocalIsNext
<1>2. phase \in [Spans -> Phases]
  BY DEF TypeOK
<1>3. ASSUME NEW t \in Spans, SdkEnd(t)
      PROVE  phase[s] = "unused"
  BY <1>2, <1>3 DEF SdkEnd
<1>4. ASSUME NEW order \in Seq(Spans), EndTogether(order)
      PROVE  phase[s] = "unused"
  BY <1>4 DEF EndTogether, SdkEndAll
<1>5. ASSUME NEW t \in Spans, phase' = [phase EXCEPT ![t] = "recording"]
      PROVE  phase[s] = "unused"
  BY <1>2, <1>5
<1> QED
  BY <1>1, <1>3, <1>4, <1>5, PhaseSteps

\* The active span was started.
LEMMA ActiveKnown ==
    TypeOK /\ KnownSpans => \A s \in Spans : phase[s] = "unused" => ActiveSpan # s
BY SpansAssumption DEF TypeOK, KnownSpans, ActiveSpan, CurrentSpan

\* KnownSpans is kept by every step.
LEMMA KnownStep == TypeOK /\ KnownSpans /\ [LocalNext]_vars => KnownSpans'
<1> SUFFICES ASSUME TypeOK, KnownSpans, [LocalNext]_vars, NEW s \in Spans,
                    phase'[s] = "unused"
             PROVE  /\ handle'[s] = "none"
                    /\ \A k \in Spans : parent'[k] # s
                    /\ \A c \in Scopes : scopeSpan'[c] # s
                    /\ \A d, i \in Nat : ~At(d, i, EndHandler(s))'
  BY DEF KnownSpans
<1>1. phase[s] = "unused" /\ ActiveSpan # s
  BY StartedStays, ActiveKnown
<1>2. /\ handle[s] = "none"
      /\ \A k \in Spans : parent[k] # s
      /\ \A c \in Scopes : scopeSpan[c] # s
      /\ \A d, i \in Nat : ~At(d, i, EndHandler(s))
  BY <1>1 DEF KnownSpans
<1>3. handle'[s] = "none"
  BY <1>1, <1>2, HandleSteps
<1>4. CASE Quiet
  BY <1>2, <1>3, <1>4 DEF Quiet, scopeVars
<1>5. CASE RunHandler
  <2>1. UNCHANGED <<parent, scopeSpan>>
    BY <1>5 DEF RunHandler, EndScope, scopeVars
  <2>2. \A d, i \in Nat : ~At(d, i, EndHandler(s))'
    BY <1>2, <1>5, PopAt
  <2> QED
    BY <1>2, <1>3, <2>1, <2>2
<1>6. ASSUME NEW t \in Spans, NEW c \in Scopes, NEW hs \in Seq(Handlers), Push(t, c, hs),
             \/ \E p \in Parents \ Spans : CreateSpan(t, p)
             \/ UNCHANGED spanVars /\ hs = <<DetachHandler(c)>> /\ handle[t] = "held"
      PROVE  /\ \A k \in Spans : parent'[k] # s
             /\ \A b \in Scopes : scopeSpan'[b] # s
             /\ \A d, i \in Nat : ~At(d, i, EndHandler(s))'
  <2>1. t # s
    BY <1>1, <1>2, <1>6 DEF CreateSpan, TypeOK
  <2>2. \A b \in Scopes : scopeSpan'[b] # s
    BY <1>2, <1>6, <2>1 DEF Push, StartScope, TypeOK
  <2>3. ASSUME NEW d \in Nat, NEW i \in Nat, At(d, i, EndHandler(s))'
        PROVE  FALSE
    <3>1. EndHandler(s) # DetachHandler(c) /\ EndHandler(s) # EndHandler(t)
      BY <2>1 DEF EndHandler, DetachHandler
    <3> QED
      BY <1>2, <1>6, <2>3, <3>1, PushOld
  <2>4. \A k \in Spans : parent'[k] # s
    BY <1>1, <1>2, <1>6, SpansAssumption DEF CreateSpan, ChosenParent, spanVars, TypeOK
  <2> QED
    BY <2>2, <2>3, <2>4
<1> QED
  BY <1>3, <1>4, <1>5, <1>6, LocalSteps

\* ParentsEndLater is kept by every step: a new span is ended first of all.
LEMMA ParentsStep ==
    TypeOK /\ KnownSpans /\ ParentsEndLater /\ [LocalNext]_vars => ParentsEndLater'
<1> SUFFICES ASSUME TypeOK, KnownSpans, ParentsEndLater, [LocalNext]_vars,
                    NEW k \in Spans, NEW s \in Spans, NEW d \in Nat, NEW i \in Nat,
                    NEW e \in Nat, NEW j \in Nat, parent'[k] = s,
                    At(d, i, EndHandler(k))', At(e, j, EndHandler(s))'
             PROVE  d > e \/ (d = e /\ i < j)
  BY DEF ParentsEndLater
<1>n. Innermost \in Nat
  BY TodoType
<1>1. CASE Quiet
  BY <1>1 DEF Quiet, ParentsEndLater
<1>2. CASE RunHandler
  <2>1. parent[k] = s
    BY <1>2 DEF RunHandler, EndScope
  <2>2. /\ IF d = Innermost THEN At(d, i + 1, EndHandler(k)) ELSE At(d, i, EndHandler(k))
        /\ IF e = Innermost THEN At(e, j + 1, EndHandler(s)) ELSE At(e, j, EndHandler(s))
    BY <1>2, PopAt
  <2> QED
    BY <1>n, <2>1, <2>2 DEF ParentsEndLater
<1>3. ASSUME NEW t \in Spans, NEW c \in Scopes, NEW hs \in Seq(Handlers), Push(t, c, hs),
             \/ \E p \in Parents \ Spans : CreateSpan(t, p)
             \/ UNCHANGED spanVars /\ hs = <<DetachHandler(c)>> /\ handle[t] = "held"
      PROVE  d > e \/ (d = e /\ i < j)
  <2>1. \A x, y \in Spans : EndHandler(x) # DetachHandler(c)
                            /\ (EndHandler(x) = EndHandler(y) => x = y)
    BY DEF EndHandler, DetachHandler
  <2>l. Len(hs) \in Nat
    BY <1>3
  <2>2. CASE \E p \in Parents \ Spans : CreateSpan(t, p)
    <3>1. /\ phase[t] = "unused"
          /\ parent' = [parent EXCEPT ![t] = ActiveSpan] \/ parent' = [parent EXCEPT ![t] = NoSpan]
      BY <2>2, SpansAssumption DEF CreateSpan, ChosenParent
    <3>2. ActiveSpan # t /\ NoSpan # t /\ \A x \in Spans : parent[x] # t
      BY <3>1, ActiveKnown, SpansAssumption DEF KnownSpans
    <3>3. s # t /\ (k # t => parent[k] = s)
      BY <3>1, <3>2 DEF TypeOK
    <3>4. /\ e <= Innermost
          /\ e # Innermost => At(e, j, EndHandler(s))
          /\ e = Innermost => j - Len(hs) \in Nat /\ j > Len(hs)
                              /\ At(e, j - Len(hs), EndHandler(s))
      BY <1>3, <2>1, <3>3, PushOld
    <3>5. CASE k = t
      <4>1. \A x \in Nat : ~At(d, x, EndHandler(k))
        BY <3>1, <3>5 DEF KnownSpans
      <4>2. d = Innermost /\ i <= Len(hs)
        BY <1>3, <4>1, PushNew
      <4> QED
        BY <1>n, <2>l, <3>4, <4>2
    <3>6. CASE k # t
      <4>1. /\ d <= Innermost
            /\ d # Innermost => At(d, i, EndHandler(k))
            /\ d = Innermost => i - Len(hs) \in Nat /\ i > Len(hs)
                                /\ At(d, i - Len(hs), EndHandler(k))
        BY <1>3, <2>1, <3>6, PushOld
      <4>2. parent[k] = s
        BY <3>3, <3>6
      <4> DEFINE i0 == IF d = Innermost THEN i - Len(hs) ELSE i
                 j0 == IF e = Innermost THEN j - Len(hs) ELSE j
      <4>3. /\ i0 \in Nat /\ j0 \in Nat
            /\ At(d, i0, EndHandler(k)) /\ At(e, j0, EndHandler(s))
        BY <3>4, <4>1
      <4>4. d > e \/ (d = e /\ i0 < j0)
        BY <4>2, <4>3 DEF ParentsEndLater
      <4> QED
        BY <1>n, <2>l, <4>4
    <3> QED
      BY <3>5, <3>6
  <2>3. CASE UNCHANGED spanVars /\ hs = <<DetachHandler(c)>>
    <3>1. parent[k] = s /\ Len(hs) = 1
      BY <2>3 DEF spanVars
    <3>2. /\ frames # <<>> /\ frames' = Defer(frames, Innermost, hs)
          /\ \A x \in DOMAIN hs : hs[x] = DetachHandler(c)
      BY <1>3, <2>3 DEF Push
    <3>3. ASSUME NEW x \in Spans, NEW y \in Nat, NEW z \in Nat, At(y, z, EndHandler(x))'
          PROVE  \/ y # Innermost /\ At(y, z, EndHandler(x))
                 \/ y = Innermost /\ z > 1 /\ At(y, z - 1, EndHandler(x))
      <4>1. \/ y # Innermost /\ At(y, z, EndHandler(x))
            \/ y = Innermost /\ z \in DOMAIN hs /\ hs[z] = EndHandler(x)
            \/ y = Innermost /\ z > Len(hs) /\ At(y, z - Len(hs), EndHandler(x))
        BY <1>3, <3>2, <3>3, PushAt
      <4> QED
        BY <2>1, <3>1, <3>2, <4>1
    <3> DEFINE i0 == IF d = Innermost THEN i - 1 ELSE i
               j0 == IF e = Innermost THEN j - 1 ELSE j
    <3>4. /\ i0 \in Nat /\ j0 \in Nat
          /\ At(d, i0, EndHandler(k)) /\ At(e, j0, EndHandler(s))
      BY <3>3
    <3>5. d > e \/ (d = e /\ i0 < j0)
      BY <3>1, <3>4 DEF ParentsEndLater
    <3> QED
      BY <1>n, <3>5
  <2> QED
    BY <1>3, <2>2, <2>3
<1> QED
  BY <1>1, <1>2, <1>3, LocalSteps

\* When an exit ends a span, the spans that were started under it and that
\* other exits are to end have ended before.
THEOREM ChildrenEndFirstCorrect == LocalSpec => ChildrenEndFirst
<1>1. ASSUME TypeOK, ParentsEndLater, [LocalNext]_vars, NEW s \in Spans,
             Leaving, handle'[s] # "gone", phase[s] = "recording", phase'[s] = "ended",
             NEW k \in Spans, parent[k] = s
      PROVE  ~Pending(EndHandler(k))
  <2>1. RunHandler
    <3>1. CASE UNCHANGED vars \/ \E caught \in BOOLEAN : PopFrame(caught)
      BY <1>1, <3>1 DEF vars, PopFrame, spanVars
    <3>2. ASSUME NEW t \in Spans, SpanStep(t)
          PROVE  FALSE
      <4>1. FinalizeSpan(t)
        BY <1>1, <3>2 DEF SpanStep, SetStatus, End, ForgetSpan, UserTurn
      <4>2. t # s
        BY <1>1, <4>1 DEF FinalizeSpan, TypeOK
      <4> QED
        BY <1>1, <4>1, <4>2 DEF FinalizeSpan, SdkEnd, TypeOK
    <3>3. ~UserTurn
      BY <1>1 DEF UserTurn
    <3> QED
      BY <1>1, <3>1, <3>2, <3>3 DEF LocalNext, RStep, CallFunction, LeaveFunction,
         GetActiveSpan, LocalStart, StartSpan, LocalActivate, Activate
  <2> DEFINE h == Head(frames[Innermost].todo)
  <2>2. At(Innermost, 1, h) /\ h \in Handlers /\ handle' = handle
    BY <1>1, <2>1, PopAt DEF RunHandler
  <2>3. \/ h.op = "end" /\ EndSpan(h.of, "auto", frames[Innermost].mode = "failing")
        \/ h.op = "detach" /\ EndScope(h.of)
    BY <2>1 DEF RunHandler
  <2> HIDE DEF h
  <2>4. h = EndHandler(s)
    <3>1. CASE h.op = "end" /\ EndSpan(h.of, "auto", frames[Innermost].mode = "failing")
      <4>1. h = EndHandler(h.of) /\ SdkEnd(h.of) /\ h.of \in Spans
        BY <2>2, <3>1 DEF Handlers, EndHandler, EndSpan
      <4>2. h.of = s
        BY <1>1, <4>1 DEF SdkEnd, TypeOK
      <4> QED
        BY <4>1, <4>2
    <3>2. CASE h.op = "detach" /\ EndScope(h.of)
      <4>1. h.of \in Scopes
        BY <2>2, <3>2 DEF Handlers
      <4>2. Live(h.of) /\ ReleaseContexts(h.of)
        BY <1>1, <3>2 DEF EndScope
      <4>3. PICK order \in Seq(Spans) :
              /\ SdkEndAll(order)
              /\ \A t \in Spans : (\E i \in DOMAIN order : order[i] = t)
                                    <=> phase[t] = "recording" /\ LastHolder(h.of, t)
        BY <1>1, <4>1, <4>2, ReleasedSpans
      <4>4. \E i \in DOMAIN order : order[i] = s
        BY <1>1, <4>3 DEF SdkEndAll
      <4>5. LastHolder(h.of, s)
        BY <4>3, <4>4
      <4> QED
        BY <1>1, <2>2, <4>5 DEF LastHolder
    <3> QED
      BY <2>3, <3>1, <3>2
  <2>5. ASSUME NEW d \in DOMAIN frames, PendingAt(d, EndHandler(k))
        PROVE  FALSE
    <3>1. d \in Nat /\ d <= Innermost /\ Innermost \in Nat
      BY <1>1, TodoType
    <3>2. PICK i \in Nat : At(d, i, EndHandler(k))
      BY <1>1, <2>5, AtPending
    <3>3. d > Innermost \/ (d = Innermost /\ i < 1)
      BY <1>1, <2>2, <2>4, <3>1, <3>2 DEF ParentsEndLater
    <3>4. i \in DOMAIN frames[d].todo /\ frames[d].todo \in Seq(Handlers)
      BY <1>1, <3>2, TodoType DEF At
    <3> QED
      BY <3>1, <3>3, <3>4
  <2> QED
    BY <2>5 DEF Pending
<1>2. TypeOK /\ ParentsEndLater /\ [LocalNext]_vars =>
        [\A s \in Spans :
           /\ Leaving /\ handle'[s] # "gone"
           /\ phase[s] = "recording" /\ phase'[s] = "ended"
           => \A k \in Spans : parent[k] = s /\ phase[k] = "recording" =>
                                 ~Pending(EndHandler(k))]_vars
  BY <1>1
<1>3. Init => KnownSpans /\ ParentsEndLater
  BY SpansAssumption DEF Init, KnownSpans, ParentsEndLater, At
<1> QED
  BY <1>2, <1>3, LocalKeeps, KnownStep, ParentsStep, PTL DEF LocalSpec, ChildrenEndFirst

-----------------------------------------------------------------------------
(* The context stack is what the pending deactivations say *)

\* The i-th handler of call d detaches the scope at place p of the stack.
DetachAt(d, i, p) ==
    p \in DOMAIN stack /\ \E c \in Scopes : c = stack[p] /\ At(d, i, DetachHandler(c))

\* Every scope on the stack has a pending handler, and the other way round.
\* From the bottom of the stack up they run later calls first, and in one call
\* the handler nearer to the head of the list first.
DetachesStack ==
    /\ \A c \in Scopes, d, i \in Nat : At(d, i, DetachHandler(c)) => Attached(stack, c)
    /\ \A p \in DOMAIN stack : \E d, i \in Nat : DetachAt(d, i, p)
    /\ \A p, q \in DOMAIN stack, d, i, e, j \in Nat :
         DetachAt(d, i, p) /\ DetachAt(e, j, q) => (p < q <=> (d < e \/ (d = e /\ i > j)))

\* Of two scopes on the stack, the upper one is detached first.
LEMMA UpperFirst ==
    ASSUME DetachesStack,
           NEW p \in DOMAIN stack, NEW q \in DOMAIN stack,
           NEW d \in Nat, NEW i \in Nat, NEW e \in Nat, NEW j \in Nat,
           DetachAt(d, i, p), DetachAt(e, j, q)
    PROVE  p < q <=> (d < e \/ (d = e /\ i > j))
BY DEF DetachesStack

\* A new scope is detached first of all.
LEMMA PushDetaches ==
    ASSUME TypeOK, ScopesNest, DetachesStack, NEW s \in Spans, NEW c \in Scopes,
           NEW hs \in Seq(Handlers), Push(s, c, hs)
    PROVE  /\ stack' = Append(stack, c) /\ ~Attached(stack, c)
           /\ \A d, i, p \in Nat :
                DetachAt(d, i, p)' <=>
                  \/ p = Len(stack) + 1 /\ d = Innermost /\ i = 1
                  \/ d # Innermost /\ DetachAt(d, i, p)
                  \/ d = Innermost /\ i > Len(hs) /\ DetachAt(d, i - Len(hs), p)
<1>1. stack \in Seq(Scopes) /\ stack' = Append(stack, c) /\ scope[c] = "unused"
  BY DEF TypeOK, Push, StartScope, Attach
<1>2. ~Attached(stack, c)
  BY <1>1 DEF Attached, ScopesNest, Live
<1>3. \A d, i \in Nat : ~At(d, i, DetachHandler(c))
  BY <1>2 DEF DetachesStack
<1>4. /\ frames # <<>> /\ frames' = Defer(frames, Innermost, hs) /\ Len(hs) \in Nat
      /\ 1 \in DOMAIN hs /\ hs[1] = DetachHandler(c)
      /\ \A x \in DOMAIN hs : x # 1 => hs[x] = EndHandler(s)
  BY DEF Push
<1>5. \A b \in Scopes, x \in DOMAIN hs : hs[x] = DetachHandler(b) <=> b = c /\ x = 1
  BY <1>4 DEF DetachHandler, EndHandler
<1>6. ASSUME NEW d \in Nat, NEW i \in Nat, NEW b \in Scopes
      PROVE  At(d, i, DetachHandler(b))' <=>
               \/ d # Innermost /\ At(d, i, DetachHandler(b))
               \/ d = Innermost /\ i = 1 /\ b = c
               \/ d = Innermost /\ i > Len(hs) /\ At(d, i - Len(hs), DetachHandler(b))
  BY <1>4, <1>5, PushAt
<1>7. ASSUME NEW d \in Nat, NEW i \in Nat, NEW p \in Nat
      PROVE  DetachAt(d, i, p)' <=>
               \/ p = Len(stack) + 1 /\ d = Innermost /\ i = 1
               \/ d # Innermost /\ DetachAt(d, i, p)
               \/ d = Innermost /\ i > Len(hs) /\ DetachAt(d, i - Len(hs), p)
  <2>1. CASE p \in DOMAIN stack
    <3>1. /\ p \in DOMAIN stack' /\ stack'[p] = stack[p] /\ stack[p] \in Scopes
          /\ p # Len(stack) + 1
      BY <1>1, <2>1
    <3>2. stack[p] # c
      BY <1>2, <2>1 DEF Attached
    <3> QED
      BY <1>6, <2>1, <3>1, <3>2 DEF DetachAt
  <2>2. CASE p = Len(stack) + 1
    <3>1. p \in DOMAIN stack' /\ stack'[p] = c /\ p \notin DOMAIN stack
      BY <1>1, <2>2
    <3>2. DetachAt(d, i, p)' <=> At(d, i, DetachHandler(c))'
      BY <3>1 DEF DetachAt
    <3>3. i > Len(hs) => i - Len(hs) \in Nat
      BY <1>4
    <3> QED
      BY <1>3, <1>6, <2>2, <3>1, <3>2, <3>3 DEF DetachAt
  <2>3. CASE p \notin DOMAIN stack /\ p # Len(stack) + 1
    <3>1. p \notin DOMAIN stack'
      BY <1>1, <2>3
    <3> QED
      BY <2>3, <3>1 DEF DetachAt
  <2> QED
    BY <2>1, <2>2, <2>3
<1> QED
  BY <1>1, <1>2, <1>7

\* A handler that deactivates a scope finds it on top of the stack.
LEMMA PopDetaches ==
    ASSUME TypeOK, ScopesNest, DetachesStack, RunHandler,
           Head(frames[Innermost].todo).op = "detach"
    PROVE  /\ stack # <<>> /\ stack' = SubSeq(stack, 1, Len(stack) - 1)
           /\ DetachAt(Innermost, 1, Len(stack))
           /\ UNCHANGED scopeSpan
           /\ \A d, i, p \in Nat :
                DetachAt(d, i, p)' <=>
                  /\ p # Len(stack)
                  /\ \/ d # Innermost /\ DetachAt(d, i, p)
                     \/ d = Innermost /\ i > 0 /\ DetachAt(d, i + 1, p)
<1> DEFINE h == Head(frames[Innermost].todo)
           c == h.of
           n == Len(stack)
<1>1. /\ h = DetachHandler(c) /\ c \in Scopes /\ EndScope(c)
      /\ Innermost \in Nat /\ At(Innermost, 1, h)
  BY PopAt, TodoType DEF RunHandler, Handlers, DetachHandler
<1>2. stack \in Seq(Scopes)
  BY DEF TypeOK
<1> HIDE DEF h, c
<1>3. Attached(stack, c)
  BY <1>1 DEF DetachesStack
<1>4. PICK k \in DOMAIN stack : stack[k] = c
  BY <1>3 DEF Attached
<1>5. DetachAt(Innermost, 1, k)
  BY <1>1, <1>4 DEF DetachAt
<1>6. k = n
  <2>1. SUFFICES ASSUME k < n PROVE FALSE
    BY <1>2, <1>4
  <2>2. n \in DOMAIN stack
    BY <1>2, <1>4, <2>1
  <2>3. PICK e \in Nat, j \in Nat : DetachAt(e, j, n)
    BY <2>2 DEF DetachesStack
  <2>4. Innermost < e \/ (Innermost = e /\ 1 > j)
    BY <1>1, <1>4, <1>5, <2>1, <2>2, <2>3 DEF DetachesStack
  <2>5. e \in DOMAIN frames /\ j \in DOMAIN frames[e].todo
    BY <2>3 DEF DetachAt, At
  <2> QED
    BY <1>1, <2>4, <2>5, TodoType
<1>7. Live(c)
  BY <1>4 DEF ScopesNest
<1>8. stack' = Detach(stack, c) /\ UNCHANGED scopeSpan
  BY <1>1, <1>7, EndScopeLive
<1>9. PositionOf(stack, c) = n
  BY <1>4, <1>6 DEF PositionOf, ScopesNest
<1>10. stack # <<>> /\ stack' = SubSeq(stack, 1, n - 1)
  BY <1>3, <1>4, <1>8, <1>9 DEF Detach
<1>11. ASSUME NEW d \in Nat, NEW i \in Nat, NEW p \in Nat
       PROVE  DetachAt(d, i, p)' <=>
                /\ p # n
                /\ \/ d # Innermost /\ DetachAt(d, i, p)
                   \/ d = Innermost /\ i > 0 /\ DetachAt(d, i + 1, p)
  <2>1. \A b \in Scopes : At(d, i, DetachHandler(b))' <=>
          \/ d # Innermost /\ At(d, i, DetachHandler(b))
          \/ d = Innermost /\ i > 0 /\ At(d, i + 1, DetachHandler(b))
    BY PopAt
  <2>2. DOMAIN stack' = DOMAIN stack \ {n} /\ \A q \in DOMAIN stack' : stack'[q] = stack[q]
    BY <1>2, <1>10
  <2>3. \A q \in DOMAIN stack : stack[q] \in Scopes
    BY <1>2
  <2> QED
    BY <2>1, <2>2, <2>3 DEF DetachAt
<1> QED
  BY <1>5, <1>6, <1>8, <1>10, <1>11

\* Ending a span moves the handlers of the call, and no scope.
LEMMA PopEnds ==
    ASSUME TypeOK, RunHandler, Head(frames[Innermost].todo).op # "detach"
    PROVE  /\ UNCHANGED scopeVars /\ Innermost \in Nat
           /\ \A d, i, p \in Nat :
                /\ DetachAt(d, i, p)' <=>
                     \/ d # Innermost /\ DetachAt(d, i, p)
                     \/ d = Innermost /\ i > 0 /\ DetachAt(d, i + 1, p)
                /\ DetachAt(d, i, p) => d # Innermost \/ i > 1
<1> DEFINE h == Head(frames[Innermost].todo)
<1>1. UNCHANGED scopeVars /\ At(Innermost, 1, h) /\ Innermost \in Nat
  BY PopAt, TodoType DEF RunHandler
<1>2. ASSUME NEW d \in Nat, NEW i \in Nat, NEW b \in Scopes
      PROVE  /\ At(d, i, DetachHandler(b))' <=>
                  \/ d # Innermost /\ At(d, i, DetachHandler(b))
                  \/ d = Innermost /\ i > 0 /\ At(d, i + 1, DetachHandler(b))
             /\ At(d, i, DetachHandler(b)) => d # Innermost \/ i > 1
  <2>1. ASSUME At(d, i, DetachHandler(b)), d = Innermost
        PROVE  i > 1
    <3>1. i \in DOMAIN frames[Innermost].todo /\ i # 1
      BY <1>1, <2>1 DEF At, DetachHandler
    <3>2. Innermost \in DOMAIN frames
      BY PopAt
    <3> QED
      BY <3>1, <3>2, TodoType
  <2> QED
    BY <2>1, PopAt
<1>3. stack' = stack
  BY <1>1 DEF scopeVars
<1> QED
  BY <1>1, <1>2, <1>3 DEF DetachAt

\* The scopes of pending deactivations are attached, as a fact about places.
LEMMA DetachesPlaces ==
    DetachesStack => \A c \in Scopes, d, i \in Nat :
      At(d, i, DetachHandler(c)) => \E p \in DOMAIN stack : stack[p] = c /\ DetachAt(d, i, p)
BY DEF DetachesStack, DetachAt, Attached

\* DetachesStack is kept by every step.
LEMMA DetachesStep ==
    TypeOK /\ ScopesNest /\ DetachesStack /\ [LocalNext]_vars => DetachesStack'
<1> SUFFICES ASSUME TypeOK, ScopesNest, DetachesStack, [LocalNext]_vars
             PROVE  DetachesStack'
  OBVIOUS
<1>n. Innermost \in Nat /\ stack \in Seq(Scopes)
  BY TodoType DEF TypeOK
<1>1. CASE Quiet
  BY <1>1 DEF Quiet, DetachesStack, DetachAt, scopeVars
<1>2. CASE RunHandler /\ Head(frames[Innermost].todo).op # "detach"
  <2>1. stack' = stack
    BY <1>2, PopEnds DEF scopeVars
  <2>2. \A d, i, p \in Nat :
          /\ DetachAt(d, i, p)' <=>
               \/ d # Innermost /\ DetachAt(d, i, p)
               \/ d = Innermost /\ i > 0 /\ DetachAt(d, i + 1, p)
          /\ DetachAt(d, i, p) => d # Innermost \/ i > 1
    BY <1>2, PopEnds
  <2>3. ASSUME NEW c \in Scopes, NEW d \in Nat, NEW i \in Nat, At(d, i, DetachHandler(c))'
        PROVE  Attached(stack', c)
    BY <1>2, <2>1, <2>3, PopAt DEF DetachesStack
  <2>4. ASSUME NEW p \in DOMAIN stack'
        PROVE  \E d, i \in Nat : DetachAt(d, i, p)'
    <3>1. PICK d \in Nat, i \in Nat : DetachAt(d, i, p)
      BY <2>1 DEF DetachesStack
    <3>2. p \in Nat
      BY <1>n, <2>1
    <3>3. CASE d # Innermost
      BY <2>2, <3>1, <3>2, <3>3
    <3>4. CASE d = Innermost
      <4>1. i > 1 /\ i - 1 \in Nat /\ (i - 1) + 1 = i
        BY <2>2, <3>1, <3>2, <3>4
      <4>2. DetachAt(d, i - 1, p)'
        BY <2>2, <3>1, <3>2, <3>4, <4>1
      <4> QED
        BY <4>1, <4>2
    <3> QED
      BY <3>3, <3>4
  <2>5. ASSUME NEW p \in DOMAIN stack', NEW q \in DOMAIN stack',
               NEW d \in Nat, NEW i \in Nat, NEW e \in Nat, NEW j \in Nat,
               DetachAt(d, i, p)', DetachAt(e, j, q)'
        PROVE  p < q <=> (d < e \/ (d = e /\ i > j))
    <3> DEFINE i0 == IF d = Innermost THEN i + 1 ELSE i
               j0 == IF e = Innermost THEN j + 1 ELSE j
    <3>1. p \in Nat /\ q \in Nat
      BY <1>n, <2>1
    <3>2. i0 \in Nat /\ j0 \in Nat /\ DetachAt(d, i0, p) /\ DetachAt(e, j0, q)
      BY <2>2, <2>5, <3>1
    <3>3. p < q <=> (d < e \/ (d = e /\ i0 > j0))
      BY <2>1, <3>2 DEF DetachesStack
    <3> QED
      BY <3>3
  <2> QED
    BY <2>3, <2>4, <2>5 DEF DetachesStack
<1>3. CASE RunHandler /\ Head(frames[Innermost].todo).op = "detach"
  <2> DEFINE n == Len(stack)
  <2>1. /\ stack # <<>> /\ stack' = SubSeq(stack, 1, n - 1)
        /\ \A d, i, p \in Nat :
             DetachAt(d, i, p)' <=>
               /\ p # n
               /\ \/ d # Innermost /\ DetachAt(d, i, p)
                  \/ d = Innermost /\ i > 0 /\ DetachAt(d, i + 1, p)
    BY <1>3, PopDetaches
  <2>2. /\ n \in DOMAIN stack /\ DOMAIN stack' = DOMAIN stack \ {n}
        /\ \A p \in DOMAIN stack' : stack'[p] = stack[p] /\ p < n
        /\ DOMAIN stack \subseteq Nat
    BY <1>n, <2>1
  <2>t. DetachAt(Innermost, 1, n)
    BY <1>3, PopDetaches
  <2>3. ASSUME NEW c \in Scopes, NEW d \in Nat, NEW i \in Nat, At(d, i, DetachHandler(c))'
        PROVE  Attached(stack', c)
    <3> DEFINE i0 == IF d = Innermost THEN i + 1 ELSE i
    <3>1. i0 \in Nat /\ At(d, i0, DetachHandler(c)) /\ (d = Innermost => i0 > 1)
      BY <1>3, <2>3, PopAt
    <3>2. PICK p \in DOMAIN stack : stack[p] = c /\ DetachAt(d, i0, p)
      BY <3>1, DetachesPlaces
    <3>3. d \in DOMAIN frames
      BY <3>1 DEF At
    <3>4. d <= Innermost
      BY <3>3, TodoType
    <3>5. p # n
      <4>1. SUFFICES ASSUME p = n PROVE FALSE
        OBVIOUS
      <4>2. i0 \in Nat /\ DetachAt(d, i0, n) /\ (d = Innermost => i0 > 1)
        BY <3>1, <3>2, <4>1
      <4> HIDE DEF i0
      <4>3. n < n <=> (d < Innermost \/ (d = Innermost /\ i0 > 1))
        <5>1. Innermost \in Nat /\ d \in Nat
          BY <1>n
        <5> QED
          BY <2>2, <2>t, <4>2, <5>1, UpperFirst
      <4> QED
        BY <1>n, <3>4, <4>2, <4>3
    <3> QED
      BY <2>2, <3>2, <3>5 DEF Attached
  <2>4. ASSUME NEW p \in DOMAIN stack'
        PROVE  \E d, i \in Nat : DetachAt(d, i, p)'
    <3>1. p \in DOMAIN stack /\ p \in Nat /\ p < n
      BY <2>2
    <3>2. PICK d \in Nat, i \in Nat : DetachAt(d, i, p)
      BY <3>1 DEF DetachesStack
    <3>3. CASE d # Innermost
      BY <2>1, <3>1, <3>2, <3>3
    <3>4. CASE d = Innermost
      <4>1. d < Innermost \/ (d = Innermost /\ i > 1)
        <5>1. p < n <=> (d < Innermost \/ (d = Innermost /\ i > 1))
          BY <1>n, <2>2, <2>t, <3>1, <3>2, UpperFirst
        <5> QED
          BY <3>1, <5>1
      <4>2. i - 1 \in Nat /\ i - 1 > 0 /\ (i - 1) + 1 = i
        BY <3>4, <4>1
      <4>3. DetachAt(d, i - 1, p)'
        BY <2>1, <3>1, <3>2, <3>4, <4>2
      <4> QED
        BY <4>2, <4>3
    <3> QED
      BY <3>3, <3>4
  <2>5. ASSUME NEW p \in DOMAIN stack', NEW q \in DOMAIN stack',
               NEW d \in Nat, NEW i \in Nat, NEW e \in Nat, NEW j \in Nat,
               DetachAt(d, i, p)', DetachAt(e, j, q)'
        PROVE  p < q <=> (d < e \/ (d = e /\ i > j))
    <3> DEFINE i0 == IF d = Innermost THEN i + 1 ELSE i
               j0 == IF e = Innermost THEN j + 1 ELSE j
    <3>1. p \in DOMAIN stack /\ q \in DOMAIN stack /\ p \in Nat /\ q \in Nat
      BY <2>2
    <3>2. i0 \in Nat /\ j0 \in Nat /\ DetachAt(d, i0, p) /\ DetachAt(e, j0, q)
      BY <2>1, <2>5, <3>1
    <3>3. p < q <=> (d < e \/ (d = e /\ i0 > j0))
      BY SMTT(20), <3>1, <3>2 DEF DetachesStack
    <3> QED
      BY <3>3
  <2> QED
    BY <2>3, <2>4, <2>5 DEF DetachesStack
<1>4. ASSUME NEW s \in Spans, NEW c \in Scopes, NEW hs \in Seq(Handlers), Push(s, c, hs)
      PROVE  DetachesStack'
  <2> DEFINE n == Len(stack)
             k == Len(hs)
  <2>1. /\ stack' = Append(stack, c)
        /\ \A d, i, p \in Nat :
             DetachAt(d, i, p)' <=>
               \/ p = n + 1 /\ d = Innermost /\ i = 1
               \/ d # Innermost /\ DetachAt(d, i, p)
               \/ d = Innermost /\ i > k /\ DetachAt(d, i - k, p)
    BY <1>4, PushDetaches
  <2>2. /\ n \in Nat /\ k \in Nat /\ k > 0 /\ n + 1 \notin DOMAIN stack
        /\ DOMAIN stack' = DOMAIN stack \cup {n + 1} /\ stack'[n + 1] = c
        /\ \A p \in DOMAIN stack : stack'[p] = stack[p] /\ p < n + 1 /\ p \in Nat
    BY <1>4, <1>n, <2>1 DEF Push
  <2> HIDE DEF n, k
  <2>3. ASSUME NEW b \in Scopes, NEW d \in Nat, NEW i \in Nat, At(d, i, DetachHandler(b))'
        PROVE  Attached(stack', b)
    <3>1. CASE b = c
      BY <2>2, <3>1 DEF Attached
    <3>2. CASE b # c
      <4>1. DetachHandler(b) # DetachHandler(c) /\ DetachHandler(b) # EndHandler(s)
        BY <3>2 DEF DetachHandler, EndHandler
      <4>2. \E j \in Nat : At(d, j, DetachHandler(b))
        BY <1>4, <2>3, <4>1, PushOld
      <4>3. Attached(stack, b)
        BY <4>2 DEF DetachesStack
      <4> QED
        BY <2>2, <4>3 DEF Attached
    <3> QED
      BY <3>1, <3>2
  <2>4. ASSUME NEW p \in DOMAIN stack'
        PROVE  \E d, i \in Nat : DetachAt(d, i, p)'
    <3>1. CASE p = n + 1
      <4>1. \A d \in Nat : d = Innermost => DetachAt(d, 1, p)'
        BY <2>1, <2>2, <3>1
      <4> QED
        BY <1>n, <4>1
    <3>2. CASE p \in DOMAIN stack
      <4>1. PICK d \in Nat, i \in Nat : DetachAt(d, i, p)
        BY <3>2 DEF DetachesStack
      <4>2. CASE d # Innermost
        BY <2>1, <2>2, <3>2, <4>1, <4>2
      <4>3. CASE d = Innermost
        <5>1. i \in DOMAIN frames[d].todo /\ d \in DOMAIN frames
          BY <4>1 DEF DetachAt, At
        <5>2. i > 0
          BY <5>1, TodoType
        <5>3. i + k \in Nat /\ i + k > k /\ (i + k) - k = i
          BY <2>2, <5>2
        <5>4. DetachAt(d, i + k, p)'
          BY <2>1, <2>2, <3>2, <4>1, <4>3, <5>3
        <5> QED
          BY <5>3, <5>4
      <4> QED
        BY <4>2, <4>3
    <3> QED
      BY <2>2, <3>1, <3>2
  <2>5. ASSUME NEW p \in DOMAIN stack', NEW q \in DOMAIN stack',
               NEW d \in Nat, NEW i \in Nat, NEW e \in Nat, NEW j \in Nat,
               DetachAt(d, i, p)', DetachAt(e, j, q)'
        PROVE  p < q <=> (d < e \/ (d = e /\ i > j))
    <3>1. ASSUME NEW x \in Nat, NEW y \in Nat, NEW r \in DOMAIN stack', DetachAt(x, y, r)'
          PROVE  \/ r = n + 1 /\ x = Innermost /\ y = 1
                 \/ /\ r \in DOMAIN stack /\ x <= Innermost
                    /\ IF x = Innermost
                       THEN y - k \in Nat /\ y > k /\ DetachAt(x, y - k, r)
                       ELSE DetachAt(x, y, r)
      <4>1. \/ r = n + 1 /\ x = Innermost /\ y = 1
            \/ x # Innermost /\ DetachAt(x, y, r)
            \/ x = Innermost /\ y > k /\ DetachAt(x, y - k, r)
        <5>1. r \in Nat
          BY <2>2
        <5> QED
          BY <2>1, <3>1, <5>1
      <4>2. \A z : DetachAt(x, z, r) => r \in DOMAIN stack /\ x \in DOMAIN frames
        BY DEF DetachAt, At
      <4>3. x \in DOMAIN frames => x <= Innermost
        BY TodoType
      <4> QED
        BY <2>2, <4>1, <4>2, <4>3
    <3>2. CASE p \in DOMAIN stack /\ q \in DOMAIN stack
      <4> DEFINE i0 == IF d = Innermost THEN i - k ELSE i
                 j0 == IF e = Innermost THEN j - k ELSE j
      <4>1. /\ p # n + 1 /\ q # n + 1 /\ i0 \in Nat /\ j0 \in Nat
            /\ DetachAt(d, i0, p) /\ DetachAt(e, j0, q)
        <5>1. p # n + 1 /\ q # n + 1
          BY <2>2, <3>2
        <5>2. IF d = Innermost THEN i - k \in Nat /\ DetachAt(d, i - k, p)
                               ELSE DetachAt(d, i, p)
          BY <2>5, <3>1, <5>1
        <5>3. IF e = Innermost THEN j - k \in Nat /\ DetachAt(e, j - k, q)
                               ELSE DetachAt(e, j, q)
          BY <2>5, <3>1, <5>1
        <5> QED
          BY <5>1, <5>2, <5>3
      <4> HIDE DEF i0, j0
      <4>2. p < q <=> (d < e \/ (d = e /\ i0 > j0))
        BY <3>2, <4>1, UpperFirst
      <4> USE DEF i0, j0
      <4> QED
        BY <1>n, <2>2, <4>2
    <3>3. CASE p = n + 1
      <4>1. d = Innermost /\ i = 1
        BY <2>2, <2>5, <3>1, <3>3
      <4>2. e <= Innermost /\ (e = Innermost => j >= 1)
        BY <1>n, <2>2, <2>5, <3>1
      <4>3. ~(p < q)
        BY <2>2, <3>3
      <4> QED
        BY <1>n, <4>1, <4>2, <4>3
    <3>4. CASE p \in DOMAIN stack /\ q = n + 1
      <4>1. e = Innermost /\ j = 1
        BY <2>2, <2>5, <3>1, <3>4
      <4>2. d <= Innermost /\ (d = Innermost => i > 1)
        BY <1>n, <2>2, <2>5, <3>1, <3>4
      <4>3. p < q
        BY <2>2, <3>4
      <4> QED
        BY <1>n, <4>1, <4>2, <4>3
    <3> QED
      BY <2>2, <3>2, <3>3, <3>4
  <2> QED
    BY <2>3, <2>4, <2>5 DEF DetachesStack
<1> QED
  BY <1>1, <1>2, <1>3, <1>4, LocalSteps

-----------------------------------------------------------------------------
(* How high the stack is when a call begins *)

\* Places that calls outside call d are to detach, as handlers say.
OutsidePlaces ==
    \A d \in Nat : \A p :
      p \in Outside(d) <=> p \in DOMAIN stack /\ \E e, i \in Nat : e < d /\ DetachAt(e, i, p)

\* They are the places that Outside reads off the lists.
LEMMA OutsideIs == TypeOK => OutsidePlaces
<1> SUFFICES ASSUME TypeOK, NEW d \in Nat, NEW p \in DOMAIN stack
             PROVE  (\E e \in DOMAIN frames : e < d /\ PendingAt(e, DetachHandler(stack[p])))
                      <=> \E e, i \in Nat : e < d /\ DetachAt(e, i, p)
  BY DEF Outside, OutsidePlaces
<1>1. stack[p] \in Scopes
  BY DEF TypeOK
<1>2. \A e, i \in Nat : DetachAt(e, i, p) <=> At(e, i, DetachHandler(stack[p]))
  BY <1>1 DEF DetachAt
<1>3. \A e, i \in Nat : At(e, i, DetachHandler(stack[p])) => e \in DOMAIN frames
  BY DEF At
<1> QED
  BY <1>2, <1>3, AtPending

\* A set of numbers up to n without gaps goes up to some number.
LEMMA NoGaps ==
    ASSUME NEW n \in Nat, NEW S \in SUBSET (1..n), \A p \in S : \A q \in 1..n : q < p => q \in S
    PROVE  \E m \in 0..n : S = 1..m
<1> DEFINE T == {m \in 0..n : m + 1 \notin S}
<1>1. n \in T /\ T \in SUBSET Nat
  OBVIOUS
<1>2. \E m \in T : \A y \in T : ~(<<y, m>> \in OpToRel(<, Nat))
  BY <1>1, WFMin, NatLessThanWellFounded, Zenon
<1>3. PICK m \in T : \A y \in T : ~(y < m)
  BY <1>1, <1>2 DEF OpToRel
<1>4. \A q \in 1..m : q \in S
  <2>1. ASSUME NEW q \in 1..m PROVE q \in S
    <3>1. q - 1 \in 0..n /\ q - 1 < m /\ (q - 1) + 1 = q
      BY <1>3
    <3>2. q - 1 \notin T
      BY <1>3, <3>1
    <3> QED
      BY <3>1, <3>2
  <2> QED
    BY <2>1
<1>5. ASSUME NEW p \in S, p > m PROVE FALSE
  <2>1. m + 1 \notin S /\ m + 1 \in 1..n /\ m + 1 <= p
    BY <1>3, <1>5
  <2> QED
    BY <1>5, <2>1
<1>6. m \in 0..n /\ \A x \in S : x \in 1..m
  BY <1>3, <1>5
<1>7. S = 1..m
  BY <1>4, <1>6
<1> QED
  BY <1>6, <1>7

\* Of two such sets the larger one goes up higher.
LEMMA UpTo ==
    ASSUME NEW m \in Nat, NEW k \in Nat, \A p : p \in 1..m => p \in 1..k
    PROVE  m <= k
<1>1. CASE m = 0
  BY <1>1
<1>2. CASE m # 0
  <2>1. m \in 1..m
    BY <1>2
  <2>2. m \in 1..k
    BY <2>1
  <2> QED
    BY <2>2
<1> QED
  BY <1>1, <1>2

\* The stack is divided among the calls: Bottom(d) says where call d begins.
Bottoms ==
    \A d \in Nat : /\ Bottom(d) \in Nat /\ Bottom(d) <= Len(stack)
                   /\ Outside(d) = 1..Bottom(d)
                   /\ Bottom(d) <= Bottom(d + 1)
                   /\ d > Innermost => Bottom(d) = Len(stack)

\* The places below Bottom(d) are those of the calls outside call d.
LEMMA BottomIs == TypeOK /\ DetachesStack => Bottoms
<1> SUFFICES ASSUME TypeOK, DetachesStack PROVE Bottoms
  OBVIOUS
<1>n. stack \in Seq(Scopes) /\ Innermost \in Nat /\ Innermost = Len(frames)
  BY TodoType DEF TypeOK
<1>1. ASSUME NEW d \in Nat
      PROVE  Bottom(d) \in 0..Len(stack) /\ Outside(d) = 1..Bottom(d)
  <2>1. Outside(d) \in SUBSET (1..Len(stack))
    BY <1>n, OutsideIs DEF OutsidePlaces
  <2>2. ASSUME NEW p \in Outside(d), NEW q \in 1..Len(stack), q < p
        PROVE  q \in Outside(d)
    <3>1. p \in DOMAIN stack /\ q \in DOMAIN stack
      BY <1>n, <2>1, <2>2
    <3>2. PICK e \in Nat, i \in Nat : e < d /\ DetachAt(e, i, p)
      BY <2>2, OutsideIs DEF OutsidePlaces
    <3>3. PICK f \in Nat, j \in Nat : DetachAt(f, j, q)
      BY <3>1 DEF DetachesStack
    <3>4. f < e \/ (f = e /\ j > i)
      <4>1. q < p <=> (f < e \/ (f = e /\ j > i))
        BY <3>1, <3>2, <3>3, UpperFirst
      <4> QED
        BY <2>2, <4>1
    <3> QED
      BY <3>1, <3>2, <3>3, <3>4, OutsideIs DEF OutsidePlaces
  <2>3. PICK m \in 0..Len(stack) : Outside(d) = 1..m
    <3> DEFINE S == Outside(d)
    <3>1. S \in SUBSET (1..Len(stack)) /\ Len(stack) \in Nat
      BY <1>n, <2>1
    <3>2. \A p \in S : \A q \in 1..Len(stack) : q < p => q \in S
      BY <2>2
    <3> HIDE DEF S
    <3>3. \E m \in 0..Len(stack) : S = 1..m
      BY <3>1, <3>2, NoGaps
    <3> QED
      BY <3>3 DEF S
  <2>4. Bottom(d) = m
    BY <2>3 DEF Bottom
  <2> QED
    BY <2>3, <2>4
<1>2. ASSUME NEW d \in Nat
      PROVE  Bottom(d) <= Bottom(d + 1)
  <2>1. Outside(d) \subseteq Outside(d + 1)
    BY OutsideIs DEF OutsidePlaces
  <2>2. /\ Bottom(d) \in Nat /\ Bottom(d + 1) \in Nat
        /\ \A p : p \in 1..Bottom(d) => p \in 1..Bottom(d + 1)
    <3>1. d + 1 \in Nat
      OBVIOUS
    <3>2. /\ Bottom(d) \in 0..Len(stack) /\ Outside(d) = 1..Bottom(d)
          /\ Bottom(d + 1) \in 0..Len(stack) /\ Outside(d + 1) = 1..Bottom(d + 1)
      BY <1>1, <3>1
    <3> QED
      BY <1>n, <2>1, <3>2
  <2> QED
    BY <2>2, UpTo
<1>3. ASSUME NEW d \in Nat, d > Innermost
      PROVE  Bottom(d) = Len(stack)
  <2>1. ASSUME NEW p \in DOMAIN stack
        PROVE  p \in Outside(d)
    <3>1. PICK e \in Nat, i \in Nat : DetachAt(e, i, p)
      BY DEF DetachesStack
    <3>2. e \in DOMAIN frames
      BY <3>1 DEF DetachAt, At
    <3> QED
      BY <1>n, <1>3, <3>1, <3>2, OutsideIs DEF OutsidePlaces
  <2>2. /\ Len(stack) \in Nat /\ Bottom(d) \in Nat /\ Bottom(d) <= Len(stack)
        /\ \A p : p \in 1..Len(stack) => p \in 1..Bottom(d)
    <3>1. DOMAIN stack = 1..Len(stack) /\ Len(stack) \in Nat
      BY <1>n
    <3>2. Outside(d) = 1..Bottom(d) /\ Bottom(d) \in 0..Len(stack)
      BY <1>1
    <3>3. \A p : p \in 1..Len(stack) => p \in Outside(d)
      BY <2>1, <3>1
    <3> QED
      BY <3>1, <3>2, <3>3
  <2>3. Len(stack) <= Bottom(d)
    BY <2>2, UpTo
  <2> QED
    BY <2>2, <2>3
<1>4. \A d \in Nat : Bottom(d) \in Nat /\ Bottom(d) <= Len(stack)
                     /\ Outside(d) = 1..Bottom(d)
  <2>1. Len(stack) \in Nat
    BY <1>n
  <2>2. \A b \in 0..Len(stack) : b \in Nat /\ b <= Len(stack)
    BY <2>1
  <2> QED
    BY <1>1, <2>2, Zenon
<1> QED
  BY <1>2, <1>3, <1>4 DEF Bottoms

\* As long as the same places are outside a call, it begins where it began.
LEMMA BottomKept ==
    ASSUME TypeOK, DetachesStack, TypeOK', DetachesStack', NEW d \in Nat,
           \A p : p \in Outside(d)' <=> p \in Outside(d)
    PROVE  Bottom(d)' = Bottom(d)
<1>1. Bottom(d) \in Nat /\ Outside(d) = 1..Bottom(d)
  BY BottomIs DEF Bottoms
<1>2. (TypeOK /\ DetachesStack => Bottoms)'
  BY BottomIs, PTL
<1>3. Bottom(d)' \in Nat /\ Outside(d)' = 1..Bottom(d)'
  BY <1>2 DEF Bottoms
<1>4. Bottom(d)' <= Bottom(d) /\ Bottom(d) <= Bottom(d)'
  BY <1>1, <1>3, UpTo
<1> QED
  BY <1>1, <1>3, <1>4

-----------------------------------------------------------------------------
(* The steps, as DynamicScope sees them *)

\* The span at place m of the stack.
SpanAt(m) == IF m = 0 THEN NoSpan ELSE scopeSpan[stack[m]]

\* Each call began when the stack had its places below Bottom.
OuterSpans == \A d \in DOMAIN frames : frames[d].outer = SpanAt(Bottom(d))

\* Only the innermost call may be leaving.
CallersRun == \A d \in DOMAIN frames : d < Innermost => frames[d].mode = "running"

ScopeInv == TypeOK /\ ScopesNest /\ DetachesStack

\* The next state has the same invariants.
LEMMA ScopeInvNext ==
    ASSUME ScopeInv, [LocalNext]_vars
    PROVE  ScopeInv' /\ TypeOK' /\ DetachesStack' /\ Bottoms /\ Bottoms'
<1>1. TypeOK' /\ ScopesNest' /\ DetachesStack'
  BY LocalIsNext, TypeStep, NestStep, DetachesStep DEF ScopeInv
<1>2. (TypeOK /\ DetachesStack => Bottoms)'
  BY BottomIs, PTL
<1>3. Bottoms /\ Bottoms'
  BY <1>1, <1>2, BottomIs DEF ScopeInv
<1> QED
  BY <1>1, <1>3 DEF ScopeInv

\* Which places are outside a call in the next state.
LEMMA OutsideNext ==
    ASSUME TypeOK', NEW d \in Nat, NEW p
    PROVE  p \in Outside(d)' <=>
             p \in DOMAIN stack' /\ \E e, i \in Nat : e < d /\ DetachAt(e, i, p)'
<1>1. (TypeOK => OutsidePlaces)'
  BY OutsideIs, PTL
<1> QED
  BY <1>1 DEF OutsidePlaces

\* Steps that neither attach nor detach.
LEMMA StillBounds ==
    ASSUME ScopeInv, [LocalNext]_vars,
           Quiet \/ (RunHandler /\ Head(frames[Innermost].todo).op # "detach")
    PROVE  /\ UNCHANGED scopeVars /\ ActiveSpan' = ActiveSpan
           /\ \A d \in Nat : Bottom(d)' = Bottom(d) /\ BoundSpans(d)' = BoundSpans(d)
<1>1. UNCHANGED scopeVars
  BY PopEnds DEF Quiet, ScopeInv
<1>2. ActiveSpan' = ActiveSpan
  BY <1>1 DEF scopeVars, ActiveSpan
<1>3. \A e, p \in Nat : (\E i \in Nat : DetachAt(e, i, p)') <=> (\E i \in Nat : DetachAt(e, i, p))
  <2>1. CASE Quiet
    BY <1>1, <2>1 DEF Quiet, DetachAt, scopeVars
  <2>2. CASE RunHandler /\ Head(frames[Innermost].todo).op # "detach"
    <3>1. ASSUME NEW e \in Nat, NEW p \in Nat, NEW i \in Nat, DetachAt(e, i, p)'
          PROVE  \E j \in Nat : DetachAt(e, j, p)
      BY <2>2, <3>1, PopEnds DEF ScopeInv
    <3>2. ASSUME NEW e \in Nat, NEW p \in Nat, NEW i \in Nat, DetachAt(e, i, p)
          PROVE  \E j \in Nat : DetachAt(e, j, p)'
      <4>1. CASE e # Innermost
        BY <2>2, <3>2, <4>1, PopEnds DEF ScopeInv
      <4>2. CASE e = Innermost
        <5>1. i > 1
          BY <2>2, <3>2, <4>2, PopEnds DEF ScopeInv
        <5>2. i - 1 \in Nat /\ i - 1 > 0 /\ (i - 1) + 1 = i
          BY <5>1
        <5>3. DetachAt(e, i - 1, p)'
          BY <2>2, <3>2, <4>2, <5>2, PopEnds DEF ScopeInv
        <5> QED
          BY <5>2, <5>3
      <4> QED
        BY <4>1, <4>2
    <3> QED
      BY <3>1, <3>2
  <2> QED
    BY <2>1, <2>2
<1>4. ASSUME NEW d \in Nat
      PROVE  Bottom(d)' = Bottom(d)
  <2>1. stack' = stack /\ DOMAIN stack \subseteq Nat
    BY <1>1 DEF scopeVars, ScopeInv, TypeOK
  <2>2. \A p : p \in Outside(d)' <=> p \in Outside(d)
    BY <1>3, <2>1, ScopeInvNext, OutsideIs, OutsideNext DEF ScopeInv, OutsidePlaces
  <2> QED
    BY <2>2, ScopeInvNext, BottomKept DEF ScopeInv
<1>5. ASSUME NEW d \in Nat
      PROVE  BoundSpans(d)' = BoundSpans(d)
  <2>1. Bottom(d)' = Bottom(d) /\ Bottom(d + 1)' = Bottom(d + 1)
    BY <1>4
  <2> QED
    BY <1>1, <2>1 DEF BoundSpans, scopeVars
<1> QED
  BY <1>1, <1>2, <1>4, <1>5

\* Steps of the innermost call that leave what is outside of it.
LEMMA OuterBounds ==
    ASSUME ScopeInv, [LocalNext]_vars, frames # <<>>,
           \A d \in 0..Innermost : \A p : p \in Outside(d)' <=> p \in Outside(d),
           \A k \in Nat : k > 0 /\ k <= Bottom(Innermost) =>
             stack'[k] = stack[k] /\ scopeSpan'[stack[k]] = scopeSpan[stack[k]]
    PROVE  /\ \A d \in 0..Innermost : Bottom(d)' = Bottom(d) /\ SpanAt(Bottom(d))' = SpanAt(Bottom(d))
           /\ \A d \in 0..(Innermost - 1) : BoundSpans(d)' = BoundSpans(d)
<1>n. Innermost \in Nat /\ Bottoms
  BY ScopeInvNext, TodoType DEF ScopeInv
<1>1. ASSUME NEW d \in 0..Innermost
      PROVE  Bottom(d)' = Bottom(d)
  BY <1>1, <1>n, ScopeInvNext, BottomKept DEF ScopeInv
<1>2. \A d \in 0..Innermost : Bottom(d) \in Nat /\ Bottom(d) <= Bottom(Innermost)
  <2>1. ASSUME NEW d \in 0..Innermost PROVE Bottom(d) <= Bottom(Innermost)
    <3>1. \A p : p \in Outside(d) => p \in Outside(Innermost)
      BY <1>n, OutsideIs DEF ScopeInv, OutsidePlaces
    <3>d. d \in Nat
      BY <1>n
    <3>2. /\ Bottom(d) \in Nat /\ Outside(d) = 1..Bottom(d)
          /\ Bottom(Innermost) \in Nat /\ Outside(Innermost) = 1..Bottom(Innermost)
      BY <1>n, <3>d DEF Bottoms
    <3> QED
      BY <3>1, <3>2, UpTo
  <2> QED
    BY <1>n, <2>1 DEF Bottoms
<1>3. ASSUME NEW d \in 0..Innermost
      PROVE  SpanAt(Bottom(d))' = SpanAt(Bottom(d))
  BY <1>1, <1>2 DEF SpanAt
<1>4. ASSUME NEW d \in 0..(Innermost - 1)
      PROVE  BoundSpans(d)' = BoundSpans(d)
  <2>1. /\ d \in 0..Innermost /\ d + 1 \in 0..Innermost /\ d \in Nat
        /\ Bottom(d)' = Bottom(d) /\ Bottom(d + 1)' = Bottom(d + 1)
    BY <1>n, <1>1
  <2>2. /\ Bottom(d) \in Nat /\ Bottom(d + 1) \in Nat
        /\ Bottom(Innermost) \in Nat /\ Bottom(d + 1) <= Bottom(Innermost)
    BY <1>n, <1>2, <2>1
  <2>3. \A k \in 1..(Bottom(d + 1) - Bottom(d)) :
          scopeSpan'[stack'[Bottom(d) + k]] = scopeSpan[stack[Bottom(d) + k]]
    BY <2>2
  <2> QED
    BY <2>1, <2>3 DEF BoundSpans
<1> QED
  BY <1>1, <1>3, <1>4

\* What a call has bound, as a sequence of spans.
BoundSequences ==
    \A d \in Nat :
      /\ BoundSpans(d) \in Seq(Spans \cup {NoSpan})
      /\ Len(BoundSpans(d)) = Bottom(d + 1) - Bottom(d)
      /\ \A k \in 1..(Bottom(d + 1) - Bottom(d)) :
           BoundSpans(d)[k] = scopeSpan[stack[Bottom(d) + k]]

\* BoundSpans are the spans of the scopes between two bottoms.
LEMMA BoundIs == TypeOK /\ Bottoms => BoundSequences
<1> SUFFICES ASSUME TypeOK, Bottoms, NEW d \in Nat
             PROVE  /\ BoundSpans(d) \in Seq(Spans \cup {NoSpan})
                    /\ Len(BoundSpans(d)) = Bottom(d + 1) - Bottom(d)
                    /\ \A k \in 1..(Bottom(d + 1) - Bottom(d)) :
                         BoundSpans(d)[k] = scopeSpan[stack[Bottom(d) + k]]
  BY DEF BoundSequences
<1> DEFINE n == Bottom(d + 1) - Bottom(d)
<1>1. /\ Bottom(d) \in Nat /\ Bottom(d + 1) \in Nat /\ Bottom(d) <= Bottom(d + 1)
      /\ Bottom(d + 1) <= Len(stack)
  BY DEF Bottoms
<1>2. n \in Nat
  BY <1>1
<1>3. \A k \in 1..n : scopeSpan[stack[Bottom(d) + k]] \in Spans \cup {NoSpan}
  <2>1. \A k \in 1..n : Bottom(d) + k \in DOMAIN stack
    BY <1>1 DEF TypeOK
  <2>2. \A p \in DOMAIN stack : scopeSpan[stack[p]] \in Spans \cup {NoSpan}
    BY DEF TypeOK
  <2> QED
    BY <2>1, <2>2
<1>4. BoundSpans(d) = [k \in 1..n |-> scopeSpan[stack[Bottom(d) + k]]]
  BY DEF BoundSpans
<1> HIDE DEF n
<1>5. BoundSpans(d) \in [1..n -> Spans \cup {NoSpan}]
  BY <1>3, <1>4
<1>6. BoundSpans(d) \in Seq(Spans \cup {NoSpan}) /\ Len(BoundSpans(d)) = n
  BY <1>2, <1>5
<1> QED
  BY <1>4, <1>6 DEF n

\* Activating a span in the innermost call binds it there.
LEMMA PushBounds ==
    ASSUME ScopeInv, [LocalNext]_vars, NEW s \in Spans, NEW c \in Scopes,
           NEW hs \in Seq(Handlers), Push(s, c, hs)
    PROVE  /\ frames # <<>> /\ DOMAIN frames' = DOMAIN frames /\ Innermost' = Innermost
           /\ \A d \in DOMAIN frames : frames'[d].mode = frames[d].mode
                                       /\ frames'[d].outer = frames[d].outer
           /\ \A d \in 0..Innermost : Bottom(d)' = Bottom(d) /\ SpanAt(Bottom(d))' = SpanAt(Bottom(d))
           /\ \A d \in 0..(Innermost - 1) : BoundSpans(d)' = BoundSpans(d)
           /\ \A d \in Nat : d = Innermost => BoundSpans(d)' = Append(BoundSpans(d), s)
           /\ ActiveSpan' = s
<1>n. /\ Innermost \in Nat /\ Innermost = Len(frames) /\ frames \in Seq(Frames)
      /\ stack \in Seq(Scopes) /\ TypeOK' /\ Innermost' = Len(frames')
  BY ScopeInvNext, TodoType DEF ScopeInv, TypeOK, Innermost
<1>b. Bottoms /\ Bottom(Innermost) \in Nat /\ Bottom(Innermost) <= Len(stack)
  BY <1>n, ScopeInvNext DEF Bottoms
<1>c. Bottoms'
  BY ScopeInvNext
<1>1. /\ frames # <<>> /\ frames' = Defer(frames, Innermost, hs)
      /\ scopeSpan' = [scopeSpan EXCEPT ![c] = s]
  BY DEF Push, StartScope
<1>2. /\ stack' = Append(stack, c) /\ ~Attached(stack, c)
      /\ \A d, i, p \in Nat :
           DetachAt(d, i, p)' <=>
             \/ p = Len(stack) + 1 /\ d = Innermost /\ i = 1
             \/ d # Innermost /\ DetachAt(d, i, p)
             \/ d = Innermost /\ i > Len(hs) /\ DetachAt(d, i - Len(hs), p)
  BY PushDetaches DEF ScopeInv
<1>3. /\ DOMAIN stack' = 1..(Len(stack) + 1) /\ Len(stack') = Len(stack) + 1
      /\ stack'[Len(stack) + 1] = c
      /\ \A p \in DOMAIN stack : stack'[p] = stack[p] /\ stack[p] \in Scopes /\ stack[p] # c
  BY <1>n, <1>2 DEF Attached
<1>4. /\ DOMAIN frames' = DOMAIN frames
      /\ \A d \in DOMAIN frames : frames'[d].mode = frames[d].mode
                                  /\ frames'[d].outer = frames[d].outer
  <2>1. Innermost \in {NullEnv} \cup DOMAIN frames
    BY <1>n, <1>1
  <2>2. hs \in Seq(Handlers)
    OBVIOUS
  <2>3. DOMAIN Defer(frames, Innermost, hs) = DOMAIN frames
    BY <1>n, <2>1, DeferType
  <2>4. \A d \in DOMAIN frames :
          /\ Defer(frames, Innermost, hs)[d].mode = frames[d].mode
          /\ Defer(frames, Innermost, hs)[d].outer = frames[d].outer
    BY <1>n, <2>1, DeferTodo
  <2> QED
    BY <1>1, <2>3, <2>4
<1>5. Innermost' = Innermost
  <2>1. frames' \in Seq(Frames)
    BY <1>n DEF TypeOK
  <2>2. Len(frames') = Len(frames)
    BY <1>n, <1>4, <2>1
  <2> QED
    BY <1>n, <2>2
<1>6. \A d \in 0..Innermost : \A p : p \in Outside(d)' <=> p \in Outside(d)
  <2>1. SUFFICES ASSUME NEW d \in 0..Innermost, NEW p
                 PROVE  p \in Outside(d)' <=> p \in Outside(d)
    OBVIOUS
  <2>2. d \in Nat /\ d <= Innermost
    BY <1>n, <2>1
  <2>3. \A e, i \in Nat : p \in Nat /\ e < d => (DetachAt(e, i, p)' <=> DetachAt(e, i, p))
    BY <1>n, <1>2, <2>2
  <2>4. (p \in DOMAIN stack => p \in DOMAIN stack' /\ p \in Nat) /\ (p \in DOMAIN stack' => p \in Nat)
    BY <1>n, <1>3
  <2>5. \A e, i : DetachAt(e, i, p) => p \in DOMAIN stack
    BY DEF DetachAt
  <2>6. p \in Outside(d)' <=>
          p \in DOMAIN stack' /\ \E e, i \in Nat : e < d /\ DetachAt(e, i, p)'
    BY <1>n, <2>2, OutsideNext
  <2>7. p \in Outside(d) <=>
          p \in DOMAIN stack /\ \E e, i \in Nat : e < d /\ DetachAt(e, i, p)
    BY <2>2, OutsideIs DEF ScopeInv, OutsidePlaces
  <2> QED
    BY <2>3, <2>4, <2>5, <2>6, <2>7
<1>7. \A k \in Nat : k > 0 /\ k <= Bottom(Innermost) =>
        stack'[k] = stack[k] /\ scopeSpan'[stack[k]] = scopeSpan[stack[k]]
  <2>1. \A k \in Nat : k > 0 /\ k <= Bottom(Innermost) => k \in DOMAIN stack
    BY <1>b, <1>n
  <2> QED
    BY <1>1, <1>3, <2>1
<1>8. /\ \A d \in 0..Innermost : Bottom(d)' = Bottom(d) /\ SpanAt(Bottom(d))' = SpanAt(Bottom(d))
      /\ \A d \in 0..(Innermost - 1) : BoundSpans(d)' = BoundSpans(d)
  BY <1>1, <1>6, <1>7, OuterBounds
<1>9. scopeSpan'[c] = s
  BY <1>1 DEF ScopeInv, TypeOK
<1>10. ActiveSpan' = s
  BY <1>3, <1>9 DEF ActiveSpan, CurrentSpan
<1>11. ASSUME NEW d \in Nat, d = Innermost
       PROVE  BoundSpans(d)' = Append(BoundSpans(d), s)
  <2>1. /\ Bottom(d)' = Bottom(d) /\ Bottom(d) \in Nat /\ Bottom(d) <= Len(stack)
        /\ Bottom(d + 1) = Len(stack) /\ Bottom(d + 1)' = Len(stack) + 1
    <3>1. Bottom(d)' = Bottom(d)
      BY <1>n, <1>8, <1>11
    <3>2. d + 1 \in Nat /\ d + 1 > Innermost
      BY <1>n, <1>11
    <3>3. Bottom(d) \in Nat /\ Bottom(d) <= Len(stack) /\ Bottom(d + 1) = Len(stack)
      BY <1>b, <3>2 DEF Bottoms
    <3>4. Bottom(d + 1)' = Len(stack')
      BY <1>c, <1>5, <3>2 DEF Bottoms
    <3> QED
      BY <1>3, <3>1, <3>3, <3>4
  <2> DEFINE b == BoundSpans(d)
             n == Len(stack) - Bottom(d)
  <2>2. BoundSequences /\ BoundSequences'
    <3>1. BoundSequences
      BY <1>b, BoundIs DEF ScopeInv
    <3>2. (TypeOK /\ Bottoms => BoundSequences)'
      BY BoundIs, PTL
    <3> QED
      BY <1>c, <1>n, <3>1, <3>2
  <2>3. /\ b \in Seq(Spans \cup {NoSpan}) /\ Len(b) = n /\ n \in Nat
        /\ \A k \in 1..n : b[k] = scopeSpan[stack[Bottom(d) + k]]
    <3>1. /\ b \in Seq(Spans \cup {NoSpan}) /\ Len(b) = Bottom(d + 1) - Bottom(d)
          /\ \A k \in 1..(Bottom(d + 1) - Bottom(d)) : b[k] = scopeSpan[stack[Bottom(d) + k]]
      BY <2>2 DEF BoundSequences
    <3>2. Bottom(d + 1) - Bottom(d) = n /\ n \in Nat
      BY <1>n, <2>1
    <3> QED
      BY <3>1, <3>2
  <2>4. /\ b' \in Seq(Spans \cup {NoSpan}) /\ Len(b') = n + 1
        /\ \A k \in 1..(n + 1) : b'[k] = scopeSpan'[stack'[Bottom(d) + k]]
    <3>1. /\ b' \in Seq(Spans \cup {NoSpan}) /\ Len(b') = Bottom(d + 1)' - Bottom(d)'
          /\ \A k \in 1..(Bottom(d + 1)' - Bottom(d)') :
               b'[k] = scopeSpan'[stack'[Bottom(d)' + k]]
      BY <2>2 DEF BoundSequences
    <3>2. Bottom(d + 1)' - Bottom(d)' = n + 1 /\ Bottom(d)' = Bottom(d)
      BY <1>n, <2>1
    <3> QED
      BY <3>1, <3>2
  <2>5. \A k \in 1..n : scopeSpan'[stack'[Bottom(d) + k]] = scopeSpan[stack[Bottom(d) + k]]
    <3>1. \A k \in 1..n : Bottom(d) + k \in DOMAIN stack
      BY <1>n, <2>1
    <3> QED
      BY <1>1, <1>3, <3>1 DEF ScopeInv, TypeOK
  <2>6. scopeSpan'[stack'[Bottom(d) + (n + 1)]] = s
    <3>1. Bottom(d) + (n + 1) = Len(stack) + 1
      BY <1>n, <2>1
    <3> QED
      BY <1>3, <1>9, <3>1
  <2> HIDE DEF b, n
  <2>7. /\ Append(b, s) \in Seq(Spans \cup {NoSpan}) /\ Len(Append(b, s)) = n + 1
        /\ \A k \in 1..n : Append(b, s)[k] = b[k]
        /\ Append(b, s)[n + 1] = s
    BY <2>3
  <2>8. \A k \in 1..(n + 1) : b'[k] = Append(b, s)[k]
    BY <2>3, <2>4, <2>5, <2>6, <2>7
  <2>9. b' = Append(b, s)
    BY <2>4, <2>7, <2>8, SeqEqual
  <2> QED
    BY <2>9 DEF b
<1> QED
  BY <1>1, <1>4, <1>5, <1>8, <1>10, <1>11

\* Deactivating a span in a call that leaves undoes the newest binding.
LEMMA PopBounds ==
    ASSUME ScopeInv, OuterSpans, [LocalNext]_vars, RunHandler,
           Head(frames[Innermost].todo).op = "detach"
    PROVE  /\ frames # <<>> /\ DOMAIN frames' = DOMAIN frames /\ Innermost' = Innermost
           /\ \A d \in DOMAIN frames : frames'[d].mode = frames[d].mode
                                       /\ frames'[d].outer = frames[d].outer
           /\ \A d \in 0..Innermost : Bottom(d)' = Bottom(d) /\ SpanAt(Bottom(d))' = SpanAt(Bottom(d))
           /\ \A d \in 0..(Innermost - 1) : BoundSpans(d)' = BoundSpans(d)
           /\ \A d \in Nat : d = Innermost =>
                /\ Len(BoundSpans(d)) > 0
                /\ BoundSpans(d)' = SubSeq(BoundSpans(d), 1, Len(BoundSpans(d)) - 1)
                /\ ActiveSpan' = IF Len(BoundSpans(d)) = 1 THEN frames[d].outer
                                 ELSE BoundSpans(d)[Len(BoundSpans(d)) - 1]
<1> DEFINE n == Len(stack)
<1>n. /\ Innermost \in Nat /\ Innermost = Len(frames) /\ frames \in Seq(Frames)
      /\ Innermost \in DOMAIN frames
      /\ stack \in Seq(Scopes) /\ n \in Nat /\ TypeOK' /\ Innermost' = Len(frames')
  BY ScopeInvNext, TodoType, PopAt DEF ScopeInv, TypeOK, Innermost
<1>b. Bottoms /\ Bottoms'
  BY ScopeInvNext
<1>1. /\ stack # <<>> /\ stack' = SubSeq(stack, 1, n - 1) /\ UNCHANGED scopeSpan
      /\ DetachAt(Innermost, 1, n)
      /\ \A d, i, p \in Nat :
           DetachAt(d, i, p)' <=>
             /\ p # n
             /\ \/ d # Innermost /\ DetachAt(d, i, p)
                \/ d = Innermost /\ i > 0 /\ DetachAt(d, i + 1, p)
  BY PopDetaches DEF ScopeInv
<1>2. /\ n > 0 /\ DOMAIN stack = 1..n /\ DOMAIN stack' = 1..(n - 1) /\ Len(stack') = n - 1
      /\ \A p \in 1..(n - 1) : stack'[p] = stack[p]
  <2>1. n > 0 /\ DOMAIN stack = 1..n
    BY <1>n, <1>1
  <2>2. stack' = SubSeq(stack, 1, n - 1)
    BY <1>1
  <2> QED
    BY <1>n, <2>1, <2>2
<1> HIDE DEF n
<1>3. \A e, i \in Nat : DetachAt(e, i, n) => ~(e < Innermost)
  <2>1. SUFFICES ASSUME NEW e \in Nat, NEW i \in Nat, DetachAt(e, i, n), e < Innermost
                 PROVE  FALSE
    OBVIOUS
  <2>2. n \in DOMAIN stack /\ DetachAt(e, i, n) /\ DetachAt(Innermost, 1, n)
    BY <1>n, <1>1, <1>2, <2>1
  <2>3. n < n <=> (e < Innermost \/ (e = Innermost /\ i > 1))
    BY <1>n, <2>2 DEF ScopeInv, DetachesStack
  <2> QED
    BY <1>n, <2>1, <2>3
<1>4. /\ DOMAIN frames' = DOMAIN frames
      /\ \A d \in DOMAIN frames : frames'[d].mode = frames[d].mode
                                  /\ frames'[d].outer = frames[d].outer
  <2>1. frames' = [frames EXCEPT ![Innermost].todo = Tail(@)]
    BY DEF RunHandler
  <2>2. \A d \in DOMAIN frames : frames[d] \in Frames
    BY <1>n
  <2> QED
    BY <2>1, <2>2 DEF Frames
<1>5. Innermost' = Innermost /\ frames # <<>>
  <2>1. frames' \in Seq(Frames)
    BY <1>n DEF TypeOK
  <2>2. Len(frames') = Len(frames)
    BY <1>n, <1>4, <2>1
  <2> QED
    BY <1>n, <2>2
<1>6. \A d \in 0..Innermost : \A p : p \in Outside(d)' <=> p \in Outside(d)
  <2>1. SUFFICES ASSUME NEW d \in 0..Innermost, NEW p
                 PROVE  p \in Outside(d)' <=> p \in Outside(d)
    OBVIOUS
  <2>2. d \in Nat /\ d <= Innermost
    BY <1>n, <2>1
  <2>3. \A e, i \in Nat : p \in Nat /\ e < d => (DetachAt(e, i, p)' <=> DetachAt(e, i, p))
    BY <1>n, <1>1, <1>3, <2>2
  <2>4. /\ p \in DOMAIN stack => p = n \/ p \in DOMAIN stack'
        /\ p \in DOMAIN stack' => p \in DOMAIN stack
        /\ p \in DOMAIN stack => p \in Nat
    BY <1>n, <1>2
  <2>5. p = n => ~\E e, i \in Nat : e < d /\ DetachAt(e, i, p)
    BY <1>n, <1>3, <2>2
  <2>6. p \in Outside(d)' <=>
          p \in DOMAIN stack' /\ \E e, i \in Nat : e < d /\ DetachAt(e, i, p)'
    BY <1>n, <2>2, OutsideNext
  <2>7. p \in Outside(d) <=>
          p \in DOMAIN stack /\ \E e, i \in Nat : e < d /\ DetachAt(e, i, p)
    BY <2>2, OutsideIs DEF ScopeInv, OutsidePlaces
  <2> QED
    BY <2>3, <2>4, <2>5, <2>6, <2>7
<1>7. Bottom(Innermost) \in Nat /\ Bottom(Innermost) < n
  <2>1. /\ Bottom(Innermost) \in Nat /\ Bottom(Innermost) <= n
        /\ Outside(Innermost) = 1..Bottom(Innermost)
    BY <1>n, <1>b DEF Bottoms, n
  <2>2. n \notin Outside(Innermost)
    BY <1>n, <1>3, OutsideIs DEF ScopeInv, OutsidePlaces
  <2> QED
    BY <1>n, <1>2, <2>1, <2>2
<1>8. \A k \in Nat : k > 0 /\ k <= Bottom(Innermost) =>
        stack'[k] = stack[k] /\ scopeSpan'[stack[k]] = scopeSpan[stack[k]]
  BY <1>n, <1>1, <1>2, <1>7
<1>9. /\ \A d \in 0..Innermost : Bottom(d)' = Bottom(d) /\ SpanAt(Bottom(d))' = SpanAt(Bottom(d))
      /\ \A d \in 0..(Innermost - 1) : BoundSpans(d)' = BoundSpans(d)
  BY <1>5, <1>6, <1>8, OuterBounds
<1>10. ActiveSpan' = SpanAt(n - 1)
  <2>1. ActiveSpan' = IF stack' = <<>> THEN NoSpan ELSE scopeSpan[stack'[Len(stack')]]
    BY <1>1 DEF ActiveSpan, CurrentSpan
  <2>2. CASE n = 1
    BY <1>n, <1>1, <2>1, <2>2 DEF SpanAt
  <2>3. CASE n # 1
    <3>1. n - 1 \in 1..(n - 1) /\ n - 1 # 0
      BY <1>n, <1>2, <2>3
    <3>2. stack' # <<>>
      BY <1>2, <3>1
    <3> QED
      BY <1>2, <2>1, <3>1, <3>2 DEF SpanAt
  <2> QED
    BY <2>2, <2>3
<1>11. ASSUME NEW d \in Nat, d = Innermost
       PROVE  /\ Len(BoundSpans(d)) > 0
              /\ BoundSpans(d)' = SubSeq(BoundSpans(d), 1, Len(BoundSpans(d)) - 1)
              /\ ActiveSpan' = IF Len(BoundSpans(d)) = 1 THEN frames[d].outer
                               ELSE BoundSpans(d)[Len(BoundSpans(d)) - 1]
  <2>1. /\ Bottom(d)' = Bottom(d) /\ Bottom(d) \in Nat /\ Bottom(d) < n
        /\ Bottom(d + 1) = n /\ Bottom(d + 1)' = n - 1
    <3>1. Bottom(d)' = Bottom(d)
      BY <1>n, <1>9, <1>11
    <3>2. d + 1 \in Nat /\ d + 1 > Innermost
      BY <1>n, <1>11
    <3>3. Bottom(d + 1) = Len(stack)
      BY <1>b, <3>2 DEF Bottoms
    <3>4. Bottom(d + 1)' = Len(stack')
      BY <1>b, <1>5, <3>2 DEF Bottoms
    <3> QED
      BY <1>2, <1>7, <1>11, <3>1, <3>3, <3>4 DEF n
  <2> DEFINE b == BoundSpans(d)
             m == n - Bottom(d)
  <2>2. BoundSequences /\ BoundSequences'
    <3>1. BoundSequences
      BY <1>b, BoundIs DEF ScopeInv
    <3>2. (TypeOK /\ Bottoms => BoundSequences)'
      BY BoundIs, PTL
    <3> QED
      BY <1>b, <1>n, <3>1, <3>2
  <2>3. /\ b \in Seq(Spans \cup {NoSpan}) /\ Len(b) = m /\ m \in Nat /\ m > 0
        /\ \A k \in 1..m : b[k] = scopeSpan[stack[Bottom(d) + k]]
    <3>1. /\ b \in Seq(Spans \cup {NoSpan}) /\ Len(b) = Bottom(d + 1) - Bottom(d)
          /\ \A k \in 1..(Bottom(d + 1) - Bottom(d)) : b[k] = scopeSpan[stack[Bottom(d) + k]]
      BY <2>2 DEF BoundSequences
    <3>2. Bottom(d + 1) - Bottom(d) = m /\ m \in Nat /\ m > 0
      BY <1>n, <2>1
    <3> QED
      BY <3>1, <3>2
  <2>4. /\ b' \in Seq(Spans \cup {NoSpan}) /\ Len(b') = m - 1
        /\ \A k \in 1..(m - 1) : b'[k] = scopeSpan'[stack'[Bottom(d) + k]]
    <3>1. /\ b' \in Seq(Spans \cup {NoSpan}) /\ Len(b') = Bottom(d + 1)' - Bottom(d)'
          /\ \A k \in 1..(Bottom(d + 1)' - Bottom(d)') :
               b'[k] = scopeSpan'[stack'[Bottom(d)' + k]]
      BY <2>2 DEF BoundSequences
    <3>2. Bottom(d + 1)' - Bottom(d)' = m - 1 /\ Bottom(d)' = Bottom(d)
      BY <1>n, <2>1
    <3> QED
      BY <3>1, <3>2
  <2>5. \A k \in 1..(m - 1) : scopeSpan'[stack'[Bottom(d) + k]] = scopeSpan[stack[Bottom(d) + k]]
    <3>1. \A k \in 1..(m - 1) : Bottom(d) + k \in 1..(n - 1)
      BY <1>n, <2>1
    <3> QED
      BY <1>1, <1>2, <3>1
  <2>6. frames[d].outer = SpanAt(Bottom(d))
    BY <1>n, <1>11 DEF OuterSpans
  <2>7. Bottom(d) + (m - 1) = n - 1 /\ (m = 1 => Bottom(d) = n - 1)
        /\ (m # 1 => m - 1 \in 1..m /\ n - 1 # 0)
    BY <1>n, <2>1, <2>3
  <2> HIDE DEF b, m
  <2>8. ActiveSpan' = IF m = 1 THEN frames[d].outer ELSE b[m - 1]
    BY <1>10, <2>3, <2>6, <2>7 DEF SpanAt
  <2>9. /\ SubSeq(b, 1, m - 1) \in Seq(Spans \cup {NoSpan}) /\ Len(SubSeq(b, 1, m - 1)) = m - 1
        /\ \A k \in 1..(m - 1) : SubSeq(b, 1, m - 1)[k] = b[k]
    BY <2>3
  <2>10. \A k \in 1..(m - 1) : b'[k] = SubSeq(b, 1, m - 1)[k]
    BY <2>3, <2>4, <2>5, <2>9
  <2>11. b' = SubSeq(b, 1, m - 1)
    BY <2>4, <2>9, <2>10, SeqEqual
  <2> QED
    BY <2>3, <2>8, <2>11 DEF b
<1> QED
  BY <1>4, <1>5, <1>9, <1>11

-----------------------------------------------------------------------------
(* Every step is one of DynamicScope *)

\* R's calls, as DynamicScope types them.
ScopedCallTypes == [leaving : BOOLEAN, outer : Spans \cup {NoSpan},
                    bound : Seq(Spans \cup {NoSpan})]

\* ScopedCalls is a sequence of calls, one for each of R's.
CallsAreScoped ==
    /\ ScopedCalls \in Seq(ScopedCallTypes) /\ Len(ScopedCalls) = Innermost
    /\ \A d \in DOMAIN frames : /\ ScopedCalls[d] = ScopedCall(d)
                                /\ ScopedCall(d) \in ScopedCallTypes

\* This follows from the types of what calls have bound.
LEMMA ScopedIs == TypeOK /\ BoundSequences => CallsAreScoped
<1> SUFFICES ASSUME TypeOK, BoundSequences PROVE CallsAreScoped
  OBVIOUS
<1>1. /\ Innermost \in Nat /\ DOMAIN frames = 1..Innermost
      /\ \A d \in DOMAIN frames : d \in Nat /\ frames[d] \in Frames
  BY TodoType
<1>2. ASSUME NEW d \in DOMAIN frames
      PROVE  ScopedCall(d) \in ScopedCallTypes
  <2>1. BoundSpans(d) \in Seq(Spans \cup {NoSpan})
    BY <1>1 DEF BoundSequences
  <2>2. frames[d].outer \in Spans \cup {NoSpan}
    BY <1>1 DEF Frames
  <2> QED
    BY <2>1, <2>2 DEF ScopedCall, ScopedCallTypes
<1>3. ScopedCalls = [d \in 1..Innermost |-> ScopedCall(d)]
  BY <1>1 DEF ScopedCalls
<1>4. ScopedCalls \in [1..Innermost -> ScopedCallTypes]
  BY <1>1, <1>2, <1>3
<1>5. ScopedCalls \in Seq(ScopedCallTypes) /\ Len(ScopedCalls) = Innermost
  BY <1>1, <1>4
<1> QED
  BY <1>1, <1>2, <1>3, <1>5 DEF CallsAreScoped

\* It holds before and after a step.
LEMMA ScopedNext ==
    ASSUME ScopeInv, [LocalNext]_vars
    PROVE  CallsAreScoped /\ CallsAreScoped' /\ BoundSequences /\ BoundSequences'
<1>1. TypeOK /\ TypeOK' /\ Bottoms /\ Bottoms'
  BY ScopeInvNext DEF ScopeInv
<1>2. BoundSequences
  BY <1>1, BoundIs
<1>3. (TypeOK /\ Bottoms => BoundSequences)'
  BY BoundIs, PTL
<1>4. (TypeOK /\ BoundSequences => CallsAreScoped)'
  BY ScopedIs, PTL
<1> QED
  BY <1>1, <1>2, <1>3, <1>4, ScopedIs

\* The places on the stack, as DynamicScope sees the active span.
LEMMA ActiveIsTop == TypeOK => ActiveSpan = SpanAt(Len(stack))
BY DEF TypeOK, ActiveSpan, CurrentSpan, SpanAt

\* The two ways to say that no call is leaving.
LEMMA ScopedRunning ==
    ASSUME TypeOK, CallsAreScoped
    PROVE  /\ Scoping!Running <=> UserTurn
           /\ frames # <<>> <=> ScopedCalls # <<>>
           /\ frames # <<>> => Scoping!Top = ScopedCall(Innermost)
<1>1. Innermost \in Nat /\ DOMAIN frames = 1..Innermost /\ frames \in Seq(Frames)
      /\ Innermost = Len(frames)
  BY TodoType
<1>2. frames # <<>> <=> ScopedCalls # <<>>
  BY <1>1 DEF CallsAreScoped
<1>3. frames # <<>> => Innermost \in DOMAIN frames
  BY <1>1
<1>4. frames # <<>> => Scoping!Top = ScopedCall(Innermost)
  BY <1>3 DEF Scoping!Top, CallsAreScoped
<1>5. frames # <<>> => (Scoping!Top.leaving <=> frames[Innermost].mode # "running")
  <2>1. ScopedCall(Innermost).leaving <=> frames[Innermost].mode # "running"
    BY DEF ScopedCall
  <2> QED
    BY <1>4, <2>1
<1>6. Scoping!Running <=> UserTurn
  BY <1>2, <1>5 DEF Scoping!Running, UserTurn, Leaving
<1> QED
  BY <1>2, <1>4, <1>6

\* What the invariant of the refinement says of calls.
ScopedInv == ScopeInv /\ OuterSpans /\ CallersRun

\* A function call is a call.
LEMMA CallScoped ==
    ASSUME ScopedInv, CallFunction
    PROVE  OuterSpans' /\ CallersRun' /\ Scoping!Call
<1>n. /\ frames \in Seq(Frames) /\ Innermost = Len(frames) /\ Innermost \in Nat
      /\ TypeOK /\ [LocalNext]_vars
  BY TodoType DEF ScopedInv, ScopeInv, LocalNext, RStep
<1>b. Bottoms
  BY <1>n, ScopeInvNext DEF ScopedInv
<1>q. Quiet
  BY <1>n, QuietSteps
<1>1. /\ UNCHANGED scopeVars /\ ActiveSpan' = ActiveSpan
      /\ \A d \in Nat : Bottom(d)' = Bottom(d) /\ BoundSpans(d)' = BoundSpans(d)
  BY <1>n, <1>q, StillBounds DEF ScopedInv
<1>2. CallsAreScoped /\ CallsAreScoped' /\ BoundSequences
  BY <1>n, ScopedNext DEF ScopedInv
<1> DEFINE new == [mode |-> "running", todo |-> <<>>, outer |-> ActiveSpan]
           scoped == [leaving |-> FALSE, outer |-> ActiveSpan, bound |-> <<>>]
<1>3. frames' = Append(frames, new) /\ UserTurn
  BY DEF CallFunction
<1>m. new.mode = "running" /\ new.outer = ActiveSpan
  OBVIOUS
<1> HIDE DEF new
<1>4. /\ Innermost' = Innermost + 1 /\ DOMAIN frames' = 1..(Innermost + 1)
      /\ frames'[Innermost + 1] = new
      /\ \A d \in 1..Innermost : frames'[d] = frames[d] /\ d \in DOMAIN frames /\ d \in Nat
  BY <1>n, <1>3 DEF Innermost
<1>5. /\ Innermost + 1 \in Nat /\ Innermost + 2 \in Nat
      /\ Bottom(Innermost + 1) = Len(stack) /\ Bottom(Innermost + 2) = Len(stack)
  <2>1. /\ Innermost + 1 \in Nat /\ Innermost + 1 > Innermost
        /\ Innermost + 2 \in Nat /\ Innermost + 2 > Innermost
    BY <1>n
  <2> QED
    BY <1>b, <2>1 DEF Bottoms
<1>6. BoundSpans(Innermost + 1) = <<>>
  <2>1. (Innermost + 1) + 1 = Innermost + 2 /\ Len(stack) \in Nat
    BY <1>n DEF TypeOK
  <2>2. Len(BoundSpans(Innermost + 1)) = 0
        /\ BoundSpans(Innermost + 1) \in Seq(Spans \cup {NoSpan})
    BY <1>2, <1>5, <2>1 DEF BoundSequences
  <2> QED
    BY <2>2
<1>7. OuterSpans'
  <2>1. \A m : SpanAt(m)' = SpanAt(m)
    BY <1>1 DEF SpanAt, scopeVars
  <2>2. SUFFICES ASSUME NEW d \in DOMAIN frames'
                 PROVE  frames'[d].outer = SpanAt(Bottom(d))'
    BY DEF OuterSpans
  <2>3. CASE d \in 1..Innermost
    BY <1>1, <1>4, <2>1, <2>3 DEF ScopedInv, OuterSpans, SpanAt, scopeVars
  <2>4. CASE d = Innermost + 1
    <3>1. Bottom(d)' = Len(stack)
      BY <1>1, <1>5, <2>4
    <3>2. SpanAt(Bottom(d))' = SpanAt(Len(stack))
      BY <1>1, <3>1 DEF SpanAt, scopeVars
    <3> QED
      BY <1>n, <1>m, <1>4, <2>4, <3>2, ActiveIsTop
  <2>5. d \in 1..Innermost \/ d = Innermost + 1
    BY <1>n, <1>4
  <2> QED
    BY <2>3, <2>4, <2>5
<1>8. CallersRun'
  <2>1. SUFFICES ASSUME NEW d \in DOMAIN frames', d < Innermost'
                 PROVE  frames'[d].mode = "running"
    BY DEF CallersRun
  <2>2. d \in 1..Innermost /\ frames'[d] = frames[d] /\ d \in DOMAIN frames
    BY <1>n, <1>4, <2>1
  <2>3. CASE d < Innermost
    BY <2>2, <2>3 DEF ScopedInv, CallersRun
  <2>4. CASE d = Innermost
    BY <1>3, <2>2, <2>4 DEF UserTurn, Leaving
  <2> QED
    BY <1>n, <2>2, <2>3, <2>4
<1>9. ScopedCalls' = Append(ScopedCalls, scoped)
  <2>1. scoped \in ScopedCallTypes
    BY <1>n, <1>m DEF ScopedCallTypes, ActiveSpan, CurrentSpan, TypeOK
  <2>2. \A d \in 1..Innermost : ScopedCalls'[d] = ScopedCalls[d]
    <3>1. SUFFICES ASSUME NEW d \in 1..Innermost PROVE ScopedCalls'[d] = ScopedCalls[d]
      OBVIOUS
    <3>2. d \in DOMAIN frames /\ d \in DOMAIN frames' /\ frames'[d] = frames[d]
          /\ BoundSpans(d)' = BoundSpans(d)
      BY <1>n, <1>1, <1>4
    <3> QED
      BY <1>2, <3>2 DEF CallsAreScoped, ScopedCall
  <2>3. \A d \in DOMAIN frames' : d = Innermost + 1 => ScopedCalls'[d] = scoped
    <3>1. SUFFICES ASSUME NEW d \in DOMAIN frames', d = Innermost + 1
                   PROVE  ScopedCalls'[d] = scoped
      OBVIOUS
    <3>2. BoundSpans(d)' = <<>> /\ frames'[d] = new
      BY <1>1, <1>4, <1>5, <1>6, <3>1
    <3> QED
      BY <1>m, <1>2, <3>2 DEF CallsAreScoped, ScopedCall
  <2> HIDE DEF scoped
  <2>4. /\ ScopedCalls \in Seq(ScopedCallTypes) /\ Len(ScopedCalls) = Innermost
        /\ ScopedCalls' \in Seq(ScopedCallTypes) /\ Len(ScopedCalls') = Innermost + 1
    BY <1>2, <1>4 DEF CallsAreScoped
  <2>5. /\ Append(ScopedCalls, scoped) \in Seq(ScopedCallTypes)
        /\ Len(Append(ScopedCalls, scoped)) = Innermost + 1
        /\ \A d \in 1..Innermost : Append(ScopedCalls, scoped)[d] = ScopedCalls[d]
        /\ Append(ScopedCalls, scoped)[Innermost + 1] = scoped
    BY <1>n, <2>1, <2>4
  <2>6. \A d \in 1..(Innermost + 1) : ScopedCalls'[d] = Append(ScopedCalls, scoped)[d]
    BY <1>n, <1>4, <2>2, <2>3, <2>5
  <2> QED
    BY <2>4, <2>5, <2>6, SeqEqual
<1> QED
  BY <1>n, <1>1, <1>2, <1>3, <1>7, <1>8, <1>9, ScopedRunning DEF Scoping!Call

\* Two sequences that differ at one place.
LEMMA OneChange ==
    ASSUME NEW T, NEW q \in Seq(T), NEW r \in Seq(T), Len(r) = Len(q),
           NEW n \in 1..Len(q), NEW e, r[n] = e,
           \A k \in 1..Len(q) : k # n => r[k] = q[k]
    PROVE  r = [q EXCEPT ![n] = e]
<1>1. r = [k \in 1..Len(q) |-> r[k]] /\ DOMAIN q = 1..Len(q)
  OBVIOUS
<1>2. \A k \in 1..Len(q) : r[k] = [q EXCEPT ![n] = e][k]
  BY <1>1
<1> QED
  BY <1>1, <1>2

\* What is left of a call when it leaves.
LEMMA LeftCall ==
    ASSUME NEW c, NEW l, NEW o, NEW b, NEW t, c = [leaving |-> l, outer |-> o, bound |-> b]
    PROVE  [c EXCEPT !.leaving = t] = [leaving |-> t, outer |-> o, bound |-> b]
OBVIOUS

\* A call that starts to leave.
LEMMA LeavesCall ==
    ASSUME NEW d, frames'[d].mode # "running", frames'[d].outer = frames[d].outer,
           BoundSpans(d)' = BoundSpans(d)
    PROVE  ScopedCall(d)' = [ScopedCall(d) EXCEPT !.leaving = TRUE]
<1>1. (frames'[d].mode # "running") = TRUE
  OBVIOUS
<1>2. ScopedCall(d)' =
        [leaving |-> TRUE, outer |-> frames[d].outer, bound |-> BoundSpans(d)]
  BY <1>1 DEF ScopedCall
<1> DEFINE c == ScopedCall(d)
           was == frames[d].mode # "running"
           yes == TRUE
<1>3. c = [leaving |-> was, outer |-> frames[d].outer, bound |-> BoundSpans(d)]
  BY DEF ScopedCall
<1> HIDE DEF c, was, yes
<1>4. [c EXCEPT !.leaving = yes] =
        [leaving |-> yes, outer |-> frames[d].outer, bound |-> BoundSpans(d)]
  BY <1>3, LeftCall
<1> QED
  BY <1>2, <1>4 DEF c, yes

\* A call that R leaves is left.
LEMMA LeaveScoped ==
    ASSUME ScopedInv, NEW mode \in {"returning", "failing"}, LeaveFunction(mode)
    PROVE  OuterSpans' /\ CallersRun' /\ Scoping!Leave
<1>n. /\ frames \in Seq(Frames) /\ Innermost = Len(frames) /\ Innermost \in Nat
      /\ TypeOK /\ [LocalNext]_vars
  BY TodoType DEF ScopedInv, ScopeInv, LocalNext, RStep
<1>1. /\ UNCHANGED scopeVars /\ ActiveSpan' = ActiveSpan
      /\ \A d \in Nat : Bottom(d)' = Bottom(d) /\ BoundSpans(d)' = BoundSpans(d)
  BY <1>n, QuietSteps, StillBounds DEF ScopedInv
<1>2. CallsAreScoped /\ CallsAreScoped'
  BY <1>n, ScopedNext DEF ScopedInv
<1>3. frames # <<>> /\ frames' = [frames EXCEPT ![Innermost].mode = mode] /\ UserTurn
  BY DEF LeaveFunction
<1>4. /\ DOMAIN frames' = 1..Innermost /\ DOMAIN frames = 1..Innermost
      /\ Innermost \in 1..Innermost /\ 1..Innermost \subseteq Nat
      /\ \A d \in 1..Innermost : frames'[d].outer = frames[d].outer
      /\ \A d \in 1..Innermost : d # Innermost => frames'[d].mode = frames[d].mode
      /\ \A d \in 1..Innermost : d = Innermost => frames'[d].mode = mode
  <2>1. DOMAIN frames = 1..Innermost /\ Innermost \in 1..Innermost
    BY <1>n, <1>3
  <2>2. \A d \in DOMAIN frames : frames[d] \in Frames
    BY <1>n
  <2> QED
    BY <1>3, <2>1, <2>2 DEF Frames
<1>5. Innermost' = Innermost
  <2>1. frames' \in Seq(Frames) /\ Innermost' = Len(frames')
    BY <1>n, ScopeInvNext DEF ScopedInv, TypeOK, Innermost
  <2> QED
    BY <1>n, <1>4, <2>1
<1>6. OuterSpans'
  BY <1>1, <1>4 DEF ScopedInv, OuterSpans, SpanAt, scopeVars
<1>7. CallersRun'
  BY <1>4, <1>5 DEF ScopedInv, CallersRun
<1>8. ScopedCalls' = [ScopedCalls EXCEPT ![Len(ScopedCalls)].leaving = TRUE]
  <2>1. /\ ScopedCalls \in Seq(ScopedCallTypes) /\ Len(ScopedCalls) = Innermost
        /\ ScopedCalls' \in Seq(ScopedCallTypes) /\ Len(ScopedCalls') = Innermost
        /\ \A d \in 1..Innermost : /\ ScopedCalls[d] = ScopedCall(d)
                                   /\ ScopedCalls'[d] = ScopedCall(d)'
                                   /\ ScopedCall(d) \in ScopedCallTypes
    BY <1>2, <1>4, <1>5 DEF CallsAreScoped
  <2>2. ASSUME NEW d \in 1..Innermost, d # Innermost
        PROVE  ScopedCalls'[d] = ScopedCalls[d]
    <3>1. ScopedCall(d)' = ScopedCall(d)
      BY <1>1, <1>4, <2>2 DEF ScopedCall
    <3> QED
      BY <2>1, <3>1
  <2>3. ASSUME NEW d \in 1..Innermost, d = Innermost
        PROVE  ScopedCalls'[d] = [ScopedCalls[d] EXCEPT !.leaving = TRUE]
    <3>1. ScopedCall(d)' = [ScopedCall(d) EXCEPT !.leaving = TRUE]
      BY <1>1, <1>4, <2>3, LeavesCall
    <3> QED
      BY <2>1, <3>1
  <2> DEFINE top == [ScopedCalls[Innermost] EXCEPT !.leaving = TRUE]
  <2>4. ScopedCalls'[Innermost] = top
    BY <1>4, <2>3
  <2> HIDE DEF top
  <2>5. ScopedCalls' = [ScopedCalls EXCEPT ![Innermost] = top]
    BY <1>4, <2>1, <2>2, <2>4, OneChange
  <2> QED
    BY <2>1, <2>5 DEF top
<1> QED
  BY <1>n, <1>1, <1>2, <1>3, <1>6, <1>7, <1>8, ScopedRunning DEF Scoping!Leave

\* A call with no handlers left has undone what it bound.
LEMMA NothingBound ==
    ASSUME ScopedInv, Innermost \in DOMAIN frames, frames[Innermost].todo = <<>>
    PROVE  BoundSpans(Innermost) = <<>> /\ frames[Innermost].outer = ActiveSpan
<1>n. Innermost \in Nat /\ TypeOK /\ DetachesStack /\ Len(stack) \in Nat
  BY TodoType DEF ScopedInv, ScopeInv, TypeOK
<1>b. Bottoms /\ BoundSequences
  BY <1>n, BottomIs, BoundIs
<1>1. Innermost + 1 \in Nat /\ Innermost + 1 > Innermost
  BY <1>n
<1>2. Bottom(Innermost + 1) = Len(stack)
  BY <1>b, <1>1 DEF Bottoms
<1>3. \A p : p \in Outside(Innermost + 1) => p \in Outside(Innermost)
  <2>1. \A i, p : ~DetachAt(Innermost, i, p)
    BY DEF DetachAt, At
  <2> QED
    BY <1>n, <1>1, <2>1, OutsideIs DEF OutsidePlaces
<1>4. Bottom(Innermost) = Len(stack)
  <2>1. /\ Bottom(Innermost) \in Nat /\ Bottom(Innermost) <= Len(stack)
        /\ Outside(Innermost) = 1..Bottom(Innermost)
        /\ Outside(Innermost + 1) = 1..Len(stack)
    BY <1>n, <1>1, <1>2, <1>b DEF Bottoms
  <2>2. Len(stack) <= Bottom(Innermost)
    BY <1>n, <1>3, <2>1, UpTo
  <2> QED
    BY <1>n, <2>1, <2>2
<1>5. BoundSpans(Innermost) = <<>>
  <2>1. Len(BoundSpans(Innermost)) = Len(stack) - Len(stack)
        /\ BoundSpans(Innermost) \in Seq(Spans \cup {NoSpan})
    BY <1>n, <1>2, <1>4, <1>b DEF BoundSequences
  <2> QED
    BY <1>n, <2>1
<1> QED
  BY <1>n, <1>4, <1>5, ActiveIsTop DEF ScopedInv, OuterSpans

\* A call that has left is done, and finds the active span it was made with.
LEMMA PopScoped ==
    ASSUME ScopedInv, NEW caught \in BOOLEAN, PopFrame(caught)
    PROVE  OuterSpans' /\ CallersRun' /\ Scoping!Done
<1>n. /\ frames \in Seq(Frames) /\ Innermost = Len(frames) /\ Innermost \in Nat
      /\ TypeOK /\ [LocalNext]_vars
  BY TodoType DEF ScopedInv, ScopeInv, LocalNext, RStep
<1>1. /\ UNCHANGED scopeVars /\ ActiveSpan' = ActiveSpan
      /\ \A d \in Nat : Bottom(d)' = Bottom(d) /\ BoundSpans(d)' = BoundSpans(d)
  BY <1>n, QuietSteps, StillBounds DEF ScopedInv
<1>2. CallsAreScoped /\ CallsAreScoped' /\ TypeOK'
  BY <1>n, ScopedNext, ScopeInvNext DEF ScopedInv
<1> DEFINE n == Innermost - 1
           callers == SubSeq(frames, 1, n)
           failed == n > 0 /\ frames' = [callers EXCEPT ![n].mode = "failing"]
<1>3. /\ frames # <<>> /\ frames[Innermost].mode # "running"
      /\ frames[Innermost].todo = <<>>
  BY DEF PopFrame, Leaving
<1>4. /\ n \in Nat /\ Innermost \in DOMAIN frames /\ DOMAIN callers = 1..n /\ Len(callers) = n
      /\ callers \in Seq(Frames)
      /\ \A d \in 1..n : callers[d] = frames[d] /\ d \in DOMAIN frames /\ d \in Nat
                         /\ d < Innermost
  <2>1. n \in Nat /\ Innermost \in DOMAIN frames
    BY <1>n, <1>3
  <2>2. callers \in Seq(Frames) /\ Len(callers) = n
        /\ \A d \in 1..n : callers[d] = frames[d]
    BY <1>n, <2>1
  <2> HIDE DEF callers
  <2> QED
    BY <1>n, <2>1, <2>2
<1>5. frames' = callers \/ failed
  <2>1. frames' = callers \/ (callers # <<>> /\ frames' = [callers EXCEPT ![n].mode = "failing"])
    BY DEF PopFrame
  <2>2. callers # <<>> => n > 0
    BY <1>4
  <2> QED
    BY <2>1, <2>2
<1> HIDE DEF callers
<1>6. /\ DOMAIN frames' = 1..n
      /\ \A d \in 1..n : frames'[d].outer = frames[d].outer
      /\ \A d \in 1..n : d # n \/ frames' = callers => frames'[d].mode = frames[d].mode
      /\ \A d \in 1..n : d = n /\ failed => frames'[d].mode = "failing"
  <2>1. \A d \in 1..n : callers[d] \in Frames
    BY <1>4
  <2>2. CASE frames' = callers /\ ~failed
    BY <1>4, <2>1, <2>2
  <2>3. CASE failed
    <3>1. frames' = [callers EXCEPT ![n].mode = "failing"] /\ n > 0
      BY <2>3
    <3>2. /\ DOMAIN frames' = 1..n
          /\ \A d \in 1..n : d # n => frames'[d] = callers[d]
          /\ \A d \in 1..n : d = n => frames'[d] = [callers[d] EXCEPT !.mode = "failing"]
      BY <1>4, <3>1
    <3>3. \A d \in 1..n : frames'[d].outer = callers[d].outer
      BY <2>1, <3>2 DEF Frames
    <3>4. \A d \in 1..n : d = n => frames'[d].mode = "failing"
      BY <2>1, <3>2 DEF Frames
    <3>5. frames' = callers => \A d \in 1..n : frames'[d].mode = frames[d].mode
      BY <1>4
    <3> QED
      BY <1>4, <3>2, <3>3, <3>4, <3>5
  <2> QED
    BY <1>5, <2>2, <2>3
<1>7. Innermost' = n
  <2>1. frames' \in Seq(Frames) /\ Innermost' = Len(frames')
    BY <1>2 DEF TypeOK, Innermost
  <2> QED
    BY <1>4, <1>6, <2>1
<1>8. OuterSpans'
  BY <1>1, <1>4, <1>6 DEF ScopedInv, OuterSpans, SpanAt, scopeVars
<1>9. CallersRun'
  BY <1>4, <1>6, <1>7 DEF ScopedInv, CallersRun
<1>10. BoundSpans(Innermost) = <<>> /\ frames[Innermost].outer = ActiveSpan
  BY <1>3, <1>4, NothingBound
<1> DEFINE outer == SubSeq(ScopedCalls, 1, n)
<1>11. /\ ScopedCalls \in Seq(ScopedCallTypes) /\ Len(ScopedCalls) = Innermost
       /\ ScopedCalls' \in Seq(ScopedCallTypes) /\ Len(ScopedCalls') = n
       /\ outer \in Seq(ScopedCallTypes) /\ Len(outer) = n
       /\ \A d \in 1..n : outer[d] = ScopedCall(d) /\ ScopedCalls'[d] = ScopedCall(d)'
  <2>1. /\ ScopedCalls \in Seq(ScopedCallTypes) /\ Len(ScopedCalls) = Innermost
        /\ ScopedCalls' \in Seq(ScopedCallTypes) /\ Len(ScopedCalls') = n
        /\ \A d \in 1..n : ScopedCalls[d] = ScopedCall(d) /\ ScopedCalls'[d] = ScopedCall(d)'
    BY <1>2, <1>4, <1>6, <1>7 DEF CallsAreScoped
  <2>2. outer \in Seq(ScopedCallTypes) /\ Len(outer) = n
        /\ \A d \in 1..n : outer[d] = ScopedCalls[d]
    BY <1>n, <1>4, <2>1
  <2> HIDE DEF outer
  <2> QED
    BY <2>1, <2>2
<1> HIDE DEF outer
<1>12. ASSUME NEW d \in 1..n, d # n \/ frames' = callers
       PROVE  ScopedCalls'[d] = outer[d]
  <2>1. ScopedCall(d)' = ScopedCall(d)
    BY <1>1, <1>4, <1>6, <1>12 DEF ScopedCall
  <2> QED
    BY <1>11, <2>1
<1>13. \/ ScopedCalls' = outer
       \/ outer # <<>> /\ ScopedCalls' = [outer EXCEPT ![Len(outer)].leaving = TRUE]
  <2>1. CASE frames' = callers
    <3>1. \A d \in 1..n : ScopedCalls'[d] = outer[d]
      BY <1>12, <2>1
    <3> HIDE DEF n
    <3>2. ScopedCalls' = outer
      BY <1>11, <3>1, SeqEqual
    <3> QED
      BY <3>2
  <2>2. CASE failed
    <3>1. n \in 1..n
      BY <1>4, <2>2
    <3>2. ASSUME NEW d \in 1..n, d = n
          PROVE  ScopedCalls'[d] = [outer[d] EXCEPT !.leaving = TRUE]
      <4>1. frames'[d].mode # "running" /\ frames'[d].outer = frames[d].outer
            /\ BoundSpans(d)' = BoundSpans(d)
        BY <1>1, <1>4, <1>6, <2>2, <3>2
      <4>2. ScopedCall(d)' = [ScopedCall(d) EXCEPT !.leaving = TRUE]
        BY <4>1, LeavesCall
      <4> QED
        BY <1>11, <4>2
    <3>3. \A d \in 1..n : d # n => ScopedCalls'[d] = outer[d]
      BY <1>12
    <3> DEFINE top == [outer[n] EXCEPT !.leaving = TRUE]
    <3>4. ScopedCalls'[n] = top
      BY <3>1, <3>2
    <3> HIDE DEF top, n
    <3>5. ScopedCalls' = [outer EXCEPT ![n] = top]
      BY <1>11, <3>1, <3>3, <3>4, OneChange
    <3>6. outer # <<>>
      BY <1>11, <3>1
    <3> QED
      BY <1>11, <3>5, <3>6 DEF top
  <2> QED
    BY <1>5, <2>1, <2>2
<1>14. ~Scoping!Running /\ Scoping!Top = ScopedCall(Innermost)
  BY <1>2, <1>n, <1>3, ScopedRunning DEF UserTurn, Leaving
<1>15. Scoping!Top.bound = <<>> /\ Scoping!Top.outer = ActiveSpan
  BY <1>10, <1>14 DEF ScopedCall
<1>16. Scoping!Callers = outer
  BY <1>11 DEF Scoping!Callers, outer
<1> QED
  BY <1>1, <1>8, <1>9, <1>13, <1>14, <1>15, <1>16 DEF Scoping!Done

\* A call with other bindings.
LEMMA ReboundCall ==
    ASSUME NEW c, NEW l, NEW o, NEW b, NEW t, c = [leaving |-> l, outer |-> o, bound |-> b]
    PROVE  [c EXCEPT !.bound = t] = [leaving |-> l, outer |-> o, bound |-> t]
OBVIOUS

\* A call whose bindings change.
LEMMA RebindsCall ==
    ASSUME NEW d, NEW b, frames'[d].mode = frames[d].mode,
           frames'[d].outer = frames[d].outer, BoundSpans(d)' = b
    PROVE  ScopedCall(d)' = [ScopedCall(d) EXCEPT !.bound = b]
<1> DEFINE c == ScopedCall(d)
           leaving == frames[d].mode # "running"
<1>1. c = [leaving |-> leaving, outer |-> frames[d].outer, bound |-> BoundSpans(d)]
  BY DEF ScopedCall
<1>2. ScopedCall(d)' = [leaving |-> leaving, outer |-> frames[d].outer, bound |-> b]
  BY DEF ScopedCall
<1> HIDE DEF c, leaving
<1>3. [c EXCEPT !.bound = b]
        = [leaving |-> leaving, outer |-> frames[d].outer, bound |-> b]
  BY <1>1, ReboundCall
<1> QED
  BY <1>2, <1>3 DEF c

\* Only the innermost call binds and unbinds.
LEMMA RebindsTop ==
    ASSUME ScopedInv, [LocalNext]_vars, NEW b,
           frames # <<>>, DOMAIN frames' = DOMAIN frames, Innermost' = Innermost,
           \A d \in DOMAIN frames : frames'[d].mode = frames[d].mode
                                    /\ frames'[d].outer = frames[d].outer,
           \A d \in 0..Innermost : SpanAt(Bottom(d))' = SpanAt(Bottom(d)),
           \A d \in 0..(Innermost - 1) : BoundSpans(d)' = BoundSpans(d),
           \A d \in Nat : d = Innermost => BoundSpans(d)' = b
    PROVE  /\ OuterSpans' /\ CallersRun'
           /\ ScopedCalls # <<>> /\ Scoping!Top = ScopedCall(Innermost)
           /\ ScopedCalls[Len(ScopedCalls)].bound = BoundSpans(Innermost)
           /\ ScopedCalls' = [ScopedCalls EXCEPT ![Len(ScopedCalls)].bound = b]
<1>n. /\ Innermost \in Nat /\ DOMAIN frames = 1..Innermost /\ Innermost \in 1..Innermost
      /\ TypeOK /\ 1..Innermost \subseteq Nat /\ 1..Innermost \subseteq 0..Innermost
  <2>1. TypeOK /\ Innermost \in Nat /\ DOMAIN frames = 1..Innermost
    BY TodoType DEF ScopedInv, ScopeInv
  <2>2. Innermost # 0
    BY TodoType DEF ScopedInv, ScopeInv
  <2> QED
    BY <2>1, <2>2
<1>1. CallsAreScoped /\ CallsAreScoped'
  BY ScopedNext DEF ScopedInv
<1>2. OuterSpans'
  BY <1>n DEF ScopedInv, OuterSpans
<1>3. CallersRun'
  BY <1>n DEF ScopedInv, CallersRun
<1>4. /\ ScopedCalls \in Seq(ScopedCallTypes) /\ Len(ScopedCalls) = Innermost
      /\ ScopedCalls' \in Seq(ScopedCallTypes) /\ Len(ScopedCalls') = Innermost
      /\ \A d \in 1..Innermost : ScopedCalls[d] = ScopedCall(d)
                                 /\ ScopedCalls'[d] = ScopedCall(d)'
  BY <1>n, <1>1 DEF CallsAreScoped
<1>5. ASSUME NEW d \in 1..Innermost, d # Innermost
      PROVE  ScopedCalls'[d] = ScopedCalls[d]
  <2>1. BoundSpans(d)' = BoundSpans(d)
    BY <1>n, <1>5
  <2>2. ScopedCall(d)' = ScopedCall(d)
    BY <1>n, <2>1 DEF ScopedCall
  <2> QED
    BY <1>4, <2>2
<1>6. ASSUME NEW d \in 1..Innermost, d = Innermost
      PROVE  ScopedCalls'[d] = [ScopedCalls[d] EXCEPT !.bound = b]
  <2>1. ScopedCall(d)' = [ScopedCall(d) EXCEPT !.bound = b]
    BY <1>n, <1>6, RebindsCall
  <2> QED
    BY <1>4, <2>1
<1> DEFINE top == [ScopedCalls[Innermost] EXCEPT !.bound = b]
<1>7. ScopedCalls'[Innermost] = top
  BY <1>n, <1>6
<1> HIDE DEF top
<1>8. ScopedCalls' = [ScopedCalls EXCEPT ![Innermost] = top]
  BY <1>n, <1>4, <1>5, <1>7, OneChange
<1>9. ScopedCalls[Innermost].bound = BoundSpans(Innermost)
  BY <1>n, <1>4 DEF ScopedCall
<1> QED
  BY <1>n, <1>1, <1>2, <1>3, <1>4, <1>8, <1>9, ScopedRunning DEF top

\* Activating a span is binding the active span.
LEMMA PushScoped ==
    ASSUME ScopedInv, [LocalNext]_vars, NEW s \in Spans, NEW c \in Scopes,
           NEW hs \in Seq(Handlers), Push(s, c, hs)
    PROVE  OuterSpans' /\ CallersRun' /\ Scoping!Bind(s)
<1> DEFINE b == Append(BoundSpans(Innermost), s)
<1>1. /\ frames # <<>> /\ DOMAIN frames' = DOMAIN frames /\ Innermost' = Innermost
      /\ \A d \in DOMAIN frames : frames'[d].mode = frames[d].mode
                                  /\ frames'[d].outer = frames[d].outer
      /\ \A d \in 0..Innermost : Bottom(d)' = Bottom(d) /\ SpanAt(Bottom(d))' = SpanAt(Bottom(d))
      /\ \A d \in 0..(Innermost - 1) : BoundSpans(d)' = BoundSpans(d)
      /\ \A d \in Nat : d = Innermost => BoundSpans(d)' = Append(BoundSpans(d), s)
      /\ ActiveSpan' = s
  BY PushBounds DEF ScopedInv
<1>2. \A d \in Nat : d = Innermost => BoundSpans(d)' = b
  BY <1>1
<1> HIDE DEF b
<1>3. /\ OuterSpans' /\ CallersRun'
      /\ ScopedCalls # <<>>
      /\ ScopedCalls[Len(ScopedCalls)].bound = BoundSpans(Innermost)
      /\ ScopedCalls' = [ScopedCalls EXCEPT ![Len(ScopedCalls)].bound = b]
  BY <1>1, <1>2, RebindsTop
<1>4. Scoping!Running
  BY ScopedNext, ScopedRunning DEF Push, ScopedInv, ScopeInv
<1> QED
  BY <1>1, <1>3, <1>4 DEF Scoping!Bind, b

\* Deactivating a span is undoing the newest binding.
LEMMA PopsScoped ==
    ASSUME ScopedInv, RunHandler, Head(frames[Innermost].todo).op = "detach"
    PROVE  OuterSpans' /\ CallersRun' /\ Scoping!Unbind
<1>n. [LocalNext]_vars /\ Innermost \in Nat /\ TypeOK
  BY TodoType DEF LocalNext, RStep, ScopedInv, ScopeInv
<1> DEFINE n == Len(BoundSpans(Innermost))
           b == SubSeq(BoundSpans(Innermost), 1, n - 1)
<1>1. /\ frames # <<>> /\ DOMAIN frames' = DOMAIN frames /\ Innermost' = Innermost
      /\ \A d \in DOMAIN frames : frames'[d].mode = frames[d].mode
                                  /\ frames'[d].outer = frames[d].outer
      /\ \A d \in 0..Innermost : Bottom(d)' = Bottom(d) /\ SpanAt(Bottom(d))' = SpanAt(Bottom(d))
      /\ \A d \in 0..(Innermost - 1) : BoundSpans(d)' = BoundSpans(d)
      /\ \A d \in Nat : d = Innermost =>
           /\ Len(BoundSpans(d)) > 0
           /\ BoundSpans(d)' = SubSeq(BoundSpans(d), 1, Len(BoundSpans(d)) - 1)
           /\ ActiveSpan' = IF Len(BoundSpans(d)) = 1 THEN frames[d].outer
                            ELSE BoundSpans(d)[Len(BoundSpans(d)) - 1]
  BY <1>n, PopBounds DEF ScopedInv
<1>2. /\ \A d \in Nat : d = Innermost => BoundSpans(d)' = b
      /\ n > 0
      /\ ActiveSpan' = IF n = 1 THEN frames[Innermost].outer ELSE BoundSpans(Innermost)[n - 1]
  BY <1>n, <1>1
<1>3. n > 0 => BoundSpans(Innermost) # <<>>
  OBVIOUS
<1> HIDE DEF b
<1>4. /\ OuterSpans' /\ CallersRun'
      /\ ScopedCalls # <<>> /\ Scoping!Top = ScopedCall(Innermost)
      /\ ScopedCalls[Len(ScopedCalls)].bound = BoundSpans(Innermost)
      /\ ScopedCalls' = [ScopedCalls EXCEPT ![Len(ScopedCalls)].bound = b]
  BY <1>n, <1>1, <1>2, RebindsTop
<1>5. ~Scoping!Running
  BY <1>n, ScopedNext, ScopedRunning DEF RunHandler, UserTurn, ScopedInv, ScopeInv
<1>6. Scoping!Top.bound = BoundSpans(Innermost) /\ Scoping!Top.outer = frames[Innermost].outer
  BY <1>4 DEF ScopedCall
<1> QED
  BY <1>2, <1>3, <1>4, <1>5, <1>6 DEF Scoping!Unbind, b

\* Steps that do not show.
LEMMA StutterScoped ==
    ASSUME ScopedInv, [LocalNext]_vars,
           \/ RunHandler /\ Head(frames[Innermost].todo).op # "detach"
           \/ GetActiveSpan
           \/ \E s \in Spans : SpanStep(s)
           \/ UNCHANGED vars
    PROVE  OuterSpans' /\ CallersRun' /\ UNCHANGED <<ScopedCalls, ActiveSpan>>
<1>n. TypeOK /\ Innermost \in Nat /\ DOMAIN frames = 1..Innermost /\ frames \in Seq(Frames)
  BY TodoType DEF ScopedInv, ScopeInv
<1>1. /\ UNCHANGED scopeVars /\ ActiveSpan' = ActiveSpan
      /\ \A d \in Nat : Bottom(d)' = Bottom(d) /\ BoundSpans(d)' = BoundSpans(d)
  BY <1>n, QuietSteps, StillBounds DEF ScopedInv
<1>2. /\ DOMAIN frames' = DOMAIN frames
      /\ \A d \in DOMAIN frames : frames'[d].mode = frames[d].mode
                                  /\ frames'[d].outer = frames[d].outer
  <2>1. CASE RunHandler
    <3>1. frames' = [frames EXCEPT ![Innermost].todo = Tail(@)]
      BY <2>1 DEF RunHandler
    <3>2. \A d \in DOMAIN frames : frames[d] \in Frames
      BY <1>n
    <3> QED
      BY <3>1, <3>2 DEF Frames
  <2>2. CASE UNCHANGED frames
    BY <2>2
  <2> QED
    BY <2>1, <2>2 DEF GetActiveSpan, SpanStep, SetStatus, End, ForgetSpan, FinalizeSpan, vars
<1>3. Innermost' = Innermost
  <2>1. frames' \in Seq(Frames) /\ Innermost' = Len(frames')
    BY ScopeInvNext DEF ScopedInv, TypeOK, Innermost
  <2> QED
    BY <1>n, <1>2, <2>1
<1>4. OuterSpans'
  BY <1>n, <1>1, <1>2 DEF ScopedInv, OuterSpans, SpanAt, scopeVars
<1>5. CallersRun'
  BY <1>2, <1>3 DEF ScopedInv, CallersRun
<1>6. \A d \in DOMAIN frames : ScopedCall(d)' = ScopedCall(d)
  BY <1>n, <1>1, <1>2 DEF ScopedCall
<1>7. ScopedCalls' = ScopedCalls
  BY <1>2, <1>6 DEF ScopedCalls
<1> QED
  BY <1>1, <1>4, <1>5, <1>7

\* Every step is a step of dynamic scoping, or does not show.
LEMMA ScopingStep ==
    ScopedInv /\ [LocalNext]_vars =>
      /\ ScopedInv'
      /\ [Scoping!Next]_<<ScopedCalls, ActiveSpan>>
<1> SUFFICES ASSUME ScopedInv, [LocalNext]_vars
             PROVE  ScopedInv' /\ [Scoping!Next]_<<ScopedCalls, ActiveSpan>>
  OBVIOUS
<1>i. ScopeInv'
  BY ScopeInvNext DEF ScopedInv
<1>1. CASE CallFunction
  BY <1>1, <1>i, CallScoped DEF ScopedInv, Scoping!Next
<1>2. ASSUME NEW mode \in {"returning", "failing"}, LeaveFunction(mode)
      PROVE  ScopedInv' /\ [Scoping!Next]_<<ScopedCalls, ActiveSpan>>
  BY <1>2, <1>i, LeaveScoped DEF ScopedInv, Scoping!Next
<1>3. ASSUME NEW caught \in BOOLEAN, PopFrame(caught)
      PROVE  ScopedInv' /\ [Scoping!Next]_<<ScopedCalls, ActiveSpan>>
  BY <1>3, <1>i, PopScoped DEF ScopedInv, Scoping!Next
<1>4. CASE RunHandler /\ Head(frames[Innermost].todo).op = "detach"
  BY <1>4, <1>i, PopsScoped DEF ScopedInv, Scoping!Next
<1>5. CASE \/ RunHandler /\ Head(frames[Innermost].todo).op # "detach"
           \/ GetActiveSpan
           \/ \E s \in Spans : SpanStep(s)
           \/ UNCHANGED vars
  BY <1>5, <1>i, StutterScoped DEF ScopedInv
<1>6. ASSUME NEW s \in Spans, NEW c \in Scopes, NEW hs \in Seq(Handlers), Push(s, c, hs)
      PROVE  ScopedInv' /\ [Scoping!Next]_<<ScopedCalls, ActiveSpan>>
  BY <1>6, <1>i, PushScoped DEF ScopedInv, Scoping!Next
<1>7. ASSUME NEW s \in Spans, NEW c \in Scopes,
             \/ \E p \in Parents \ Spans : LocalStart(s, p, c)
             \/ LocalActivate(s, c)
      PROVE  ScopedInv' /\ [Scoping!Next]_<<ScopedCalls, ActiveSpan>>
  BY <1>6, <1>7, LocalPushes DEF ScopedInv, ScopeInv
<1> QED
  BY <1>1, <1>2, <1>3, <1>4, <1>5, <1>7 DEF LocalNext, RStep

\* The active span is dynamically scoped, however many calls are nested and
\* however many spans each of them activates: what the context stack says of
\* the active span is what the on.exit lists of R's calls say.
THEOREM ScopingCorrect == LocalSpec => ImplementsDynamicScope
<1>1. Init => ScopedInv /\ Scoping!Init
  <2>1. SUFFICES ASSUME Init PROVE ScopedInv /\ Scoping!Init
    OBVIOUS
  <2>2. frames = <<>> /\ stack = <<>> /\ DOMAIN frames = {} /\ DOMAIN stack = {}
    BY <2>1 DEF Init
  <2>3. TypeOK /\ ScopesNest
    BY <2>1, TypeInit DEF Init, ScopesNest
  <2>4. DetachesStack
    BY <2>2 DEF DetachesStack, DetachAt, At
  <2>5. OuterSpans /\ CallersRun
    BY <2>2 DEF OuterSpans, CallersRun
  <2>6. ScopedCalls = <<>> /\ ActiveSpan = NoSpan
    BY <2>2 DEF ScopedCalls, ActiveSpan, CurrentSpan
  <2> QED
    BY <2>3, <2>4, <2>5, <2>6 DEF ScopedInv, ScopeInv, Scoping!Init
<1>2. ScopedInv /\ [LocalNext]_vars => ScopedInv' /\ [Scoping!Next]_(Scoping!vars)
  BY ScopingStep DEF Scoping!vars
<1> QED
  BY <1>1, <1>2, PTL DEF LocalSpec, ImplementsDynamicScope, Scoping!Spec
=============================================================================
