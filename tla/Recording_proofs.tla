--------------------------- MODULE Recording_proofs -------------------------
(***************************************************************************)
(* Proofs about Recording, for any number of calls and records, and any    *)
(* depth of nesting.                                                       *)
(***************************************************************************)
EXTENDS Recording, SequenceTheorems, TLAPS

-----------------------------------------------------------------------------
(* Types *)

\* The last call in progress, and the ones around it.
LEMMA TopType ==
    ASSUME TypeOK, calls # <<>>
    PROVE  /\ Len(calls) \in 1..Len(calls)
           /\ Top \in Frames
           /\ Outer \in Seq(Frames)
           /\ Len(Outer) = Len(calls) - 1
           /\ \A k \in 1..(Len(calls) - 1) : Outer[k] = calls[k]
<1>1. Len(calls) \in 1..Len(calls) /\ Len(calls) \in Nat
  BY DEF TypeOK
<1>2. \A k \in 1..Len(calls) : calls[k] \in Frames
  BY DEF TypeOK
<1> DEFINE n == Len(calls)
<1>3. /\ n - 1 \in Int /\ \A k \in 1..(n - 1) : calls[k] \in Frames
  BY <1>1, <1>2
<1>4. /\ Outer \in Seq(Frames)
      /\ Len(Outer) = IF 1 <= n - 1 THEN n - 1 - 1 + 1 ELSE 0
      /\ \A k \in 1..(n - 1 - 1 + 1) : Outer[k] = calls[1 + k - 1]
  BY <1>3, SubSeqProperties DEF Outer
<1>n. n \in Nat /\ n > 0
  BY <1>1
<1> HIDE DEF n
<1>5. Len(Outer) = n - 1
  BY <1>n, <1>4
<1>6. ASSUME NEW k \in 1..(n - 1) PROVE Outer[k] = calls[k]
  <2>1. k \in 1..(n - 1 - 1 + 1) /\ 1 + k - 1 = k
    BY <1>n
  <2> QED
    BY <1>4, <2>1
<1> QED
  BY <1>1, <1>2, <1>4, <1>5, <1>6 DEF Top, n

\* A call begins: its number is new, and a provider.
LEMMA BeginTypes ==
    ASSUME TypeOK, NEW what \in SUBSET Signals, Begin(what)
    PROVE  TypeOK'
<1>1. lastCall' = lastCall + 1 /\ lastCall' \in CallIds /\ lastCall' \in 0..MaxCalls
  BY RecordingAssumption DEF Begin, TypeOK, CallIds
<1>2. [id |-> lastCall', what |-> what, copy |-> cache] \in Frames
  BY <1>1 DEF Frames, TypeOK
<1>3. calls' \in Seq(Frames)
  BY <1>2 DEF Begin, TypeOK
<1>4. cache' \in Caches
  BY <1>1 DEF Begin, RecordingCache, Caches, Providers
<1>5. meters' \in [CallIds -> {"none", "running", "shut"}]
  BY <1>1 DEF Begin, TypeOK
<1> QED
  BY <1>1, <1>3, <1>4, <1>5 DEF Begin, TypeOK

\* Every step of with_otel_record() keeps the types.
LEMMA CallTypes ==
    ASSUME TypeOK,
           \/ \E what \in SUBSET Signals : Begin(what)
           \/ \E what \in SUBSET Signals, s \in Signals : BeginFails(what, s)
           \/ Return \/ Fail
    PROVE  TypeOK'
<1>1. ASSUME NEW what \in SUBSET Signals, NEW s \in Signals, BeginFails(what, s)
      PROVE  TypeOK'
  <2>1. lastCall' \in 0..MaxCalls /\ lastCall' \in CallIds
    BY <1>1, RecordingAssumption DEF BeginFails, TypeOK, CallIds
  <2> QED
    BY <1>1, <2>1 DEF BeginFails, TypeOK
<1>2. ASSUME Leave
      PROVE  /\ calls' \in Seq(Frames)
             /\ cache' \in Caches
             /\ meters' \in [CallIds -> {"none", "running", "shut"}]
  BY <1>2, TopType DEF Leave, ShutMeters, TypeOK, Frames
<1>3. CASE Return
  <2>1. [id |-> Top.id, records |-> [s \in Signals |->
            IF s \in Top.what THEN buffer[Top.id][s] ELSE {}]]
          \in [id : 0..MaxCalls, records : [Signals -> SUBSET Nos]]
    <3>1. Top.id \in CallIds /\ Top.id \in 0..MaxCalls
      BY <1>3, TopType, RecordingAssumption DEF Return, Leave, Frames, CallIds
    <3> QED
      BY <3>1 DEF TypeOK
  <2> QED
    BY <1>2, <1>3, <2>1 DEF Return, TypeOK
<1>4. CASE Fail
  BY <1>2, <1>4 DEF Fail, TypeOK
<1> QED
  BY <1>1, <1>3, <1>4, BeginTypes

\* Code gets a provider that there is, or uses one it has.
LEMMA UseTypes ==
    ASSUME TypeOK, NEW s \in Signals, NEW p \in Providers, Use(s, p)
    PROVE  /\ lastNo' \in Nos /\ lastNo' \in 0..MaxRecords
           /\ cache' \in Caches
           /\ known' \in [Signals -> SUBSET Providers]
<1>1. lastNo' \in Nos /\ lastNo' \in 0..MaxRecords
  BY RecordingAssumption DEF Use, TypeOK, Nos
<1>2. CASE p = Provider(s) /\ cache' = [cache EXCEPT ![s] = p]
           /\ known' = [known EXCEPT ![s] = @ \cup {p}]
  <2>1. cache' \in Caches
    BY <1>2 DEF TypeOK, Caches
  <2>2. known' \in [Signals -> SUBSET Providers]
    BY <1>2 DEF TypeOK
  <2> QED
    BY <1>1, <2>1, <2>2
<1>3. CASE UNCHANGED <<cache, known>>
  BY <1>1, <1>3 DEF TypeOK
<1> QED
  BY <1>2, <1>3 DEF Use

\* What providers have are numbers of records.
LEMMA BufferTypes ==
    ASSUME TypeOK, NEW s \in Signals, NEW p \in Providers, NEW no \in Nos
    PROVE  /\ Buffered(s, p, no) \in [CallIds -> [Signals -> SUBSET Nos]]
           /\ InTime(s, p, no) \in [CallIds -> [Signals -> SUBSET Nos]]
<1>1. p # Standard => p \in CallIds
  BY DEF Providers
<1>2. InProgress(p) => p \in CallIds
  <2>1. \A k \in 1..Len(calls) : calls[k] \in Frames
    BY DEF TypeOK
  <2> QED
    BY <2>1 DEF InProgress, Frames
<1> QED
  BY <1>1, <1>2 DEF TypeOK, Buffered, InTime

\* Every step of code that records signals keeps the types.
LEMMA CodeTypes ==
    ASSUME TypeOK,
           \/ \E p \in Providers : StartSpan(p) \/ Log(p) \/ Measure(p)
           \/ \E span \in open : EndSpan(span)
           \/ \E c \in CallIds : Collect(c)
    PROVE  TypeOK'
<1> USE DEF Signals
<1>1. ASSUME NEW p \in Providers, StartSpan(p) PROVE TypeOK'
  BY <1>1, UseTypes DEF StartSpan, TypeOK
<1>2. ASSUME NEW p \in Providers, Log(p) PROVE TypeOK'
  <2>1. /\ buffer' \in [CallIds -> [Signals -> SUBSET Nos]]
        /\ finished' \in [CallIds -> [Signals -> SUBSET Nos]]
    BY <1>2, UseTypes, BufferTypes DEF Log
  <2> QED
    BY <1>2, <2>1, UseTypes DEF Log, TypeOK
<1>3. ASSUME NEW p \in Providers, Measure(p) PROVE TypeOK'
  <2>1. finished' \in [CallIds -> [Signals -> SUBSET Nos]]
    BY <1>3, UseTypes, BufferTypes DEF Measure
  <2>2. pending' \in [CallIds -> SUBSET Nos]
    BY <1>3, UseTypes DEF Measure, TypeOK, Providers
  <2> QED
    BY <1>3, <2>1, <2>2, UseTypes DEF Measure, TypeOK
<1>4. ASSUME NEW span \in open, EndSpan(span) PROVE TypeOK'
  <2>1. span.no \in Nos /\ span.provider \in Providers
    BY DEF TypeOK
  <2>2. /\ buffer' \in [CallIds -> [Signals -> SUBSET Nos]]
        /\ finished' \in [CallIds -> [Signals -> SUBSET Nos]]
    BY <1>4, <2>1, BufferTypes DEF EndSpan
  <2> QED
    BY <1>4, <2>2 DEF EndSpan, TypeOK
<1>5. ASSUME NEW c \in CallIds, Collect(c) PROVE TypeOK'
  <2>1. buffer' \in [CallIds -> [Signals -> SUBSET Nos]]
    BY <1>5 DEF Collect, TypeOK
  <2>2. pending' \in [CallIds -> SUBSET Nos]
    BY <1>5 DEF Collect, TypeOK
  <2> QED
    BY <1>5, <2>1, <2>2 DEF Collect, TypeOK
<1> QED
  BY <1>1, <1>2, <1>3, <1>4, <1>5

\* The cache, the calls in progress and what providers have always have their
\* types.
THEOREM TypeCorrect == Spec => []TypeOK
<1>1. Init => TypeOK
  <2>1. ASSUME Init PROVE TypeOK
    <3>1. NoRecords \in [Signals -> SUBSET Nos] /\ 0 \in 0..MaxCalls
      BY RecordingAssumption DEF NoRecords
    <3>2. /\ cache \in Caches
          /\ known \in [Signals -> SUBSET Providers]
          /\ 0 \in 0..MaxRecords
      BY <2>1, RecordingAssumption DEF Init, Caches
    <3>3. << >> \in Seq(Frames)
      OBVIOUS
    <3> QED
      BY <2>1, <3>1, <3>2, <3>3 DEF Init, TypeOK, NoResult
  <2> QED
    BY <2>1
<1>2. TypeOK /\ [Next]_vars => TypeOK'
  <2>1. TypeOK /\ (Other \/ UNCHANGED vars) => TypeOK'
    BY DEF Other, TypeOK, vars
  <2> QED
    BY <2>1, CallTypes, CodeTypes DEF Next
<1> QED
  BY <1>1, <1>2, PTL DEF Spec

-----------------------------------------------------------------------------
(* The cache *)

\* What the cache may have for a signal in the n-th of these calls, or outside
\* of all if n = 0.
Current(cs, n, s) ==
    IF n > 0 /\ s \in cs[n].what THEN {cs[n].id} ELSE {Unset, Standard}

\* The copy of each call is right for the calls around it: this is why the
\* cache is right again when the call is left.
CopiesInv ==
    /\ \A s \in Signals : cache[s] \in Current(calls, Len(calls), s)
    /\ \A k \in 1..Len(calls), s \in Signals :
          calls[k].copy[s] \in Current(calls, k - 1, s)

\* Calls that are the same have the same in the cache.
LEMMA CurrentOfSame ==
    ASSUME NEW cs, NEW ds, NEW n \in Nat, \A k \in 1..n : ds[k] = cs[k]
    PROVE  \A k \in 0..n, s \in Signals : Current(ds, k, s) = Current(cs, k, s)
<1> TAKE k \in 0..n, s \in Signals
<1>1. k = 0 \/ k \in 1..n
  OBVIOUS
<1>2. CASE k = 0
  BY <1>2 DEF Current
<1>3. CASE k \in 1..n
  <2>1. ds[k] = cs[k] /\ k > 0
    BY <1>3
  <2> QED
    BY <2>1 DEF Current
<1> QED
  BY <1>1, <1>2, <1>3

\* A call begins with a cache of its own, and a copy of the one around it.
LEMMA CopiesBegin ==
    ASSUME TypeOK, CopiesInv, NEW what \in SUBSET Signals, Begin(what)
    PROVE  CopiesInv'
<1> DEFINE n == Len(calls)
           frame == [id |-> lastCall', what |-> what, copy |-> cache]
<1>1. frame \in Frames
  BY RecordingAssumption DEF Begin, Frames, TypeOK, CallIds
<1>2. /\ n \in Nat
      /\ calls' = Append(calls, frame)
      /\ Len(calls') = n + 1
      /\ calls'[n + 1] = frame
      /\ \A k \in 1..n : calls'[k] = calls[k]
  BY <1>1 DEF Begin, TypeOK
<1> HIDE DEF n
<1>3. \A k \in 0..n, s \in Signals : Current(calls', k, s) = Current(calls, k, s)
  BY <1>2, CurrentOfSame
<1>4. \A s \in Signals : cache'[s] \in Current(calls', n + 1, s)
  BY <1>2 DEF Begin, RecordingCache, Current
<1>5. ASSUME NEW k \in 1..(n + 1), NEW s \in Signals
      PROVE  calls'[k].copy[s] \in Current(calls', k - 1, s)
  <2>1. CASE k = n + 1
    BY <1>2, <1>3, <2>1 DEF CopiesInv, n
  <2>2. CASE k \in 1..n
    <3>1. k - 1 \in 0..n
      BY <1>2, <2>2
    <3> QED
      BY <1>2, <1>3, <2>2, <3>1 DEF CopiesInv, n
  <2> QED
    BY <1>2, <2>1, <2>2
<1> QED
  BY <1>2, <1>4, <1>5 DEF CopiesInv

\* A call that is left puts back a cache that is right for the calls around it.
LEMMA CopiesLeave == TypeOK /\ CopiesInv /\ Leave => CopiesInv'
<1> SUFFICES ASSUME TypeOK, CopiesInv, Leave PROVE CopiesInv'
  OBVIOUS
<1> DEFINE n == Len(calls)
<1>1. calls # <<>> /\ calls' = Outer /\ cache' = calls[n].copy
  BY DEF Leave, Top
<1>2. /\ n \in Nat /\ n > 0
      /\ Len(calls') = n - 1
      /\ \A k \in 1..(n - 1) : calls'[k] = calls[k]
  BY <1>1, TopType
<1>3. \A s \in Signals : cache'[s] \in Current(calls, n - 1, s)
  BY <1>1, <1>2 DEF CopiesInv
<1>4. \A k \in 1..(n - 1), s \in Signals :
         calls[k].copy[s] \in Current(calls, k - 1, s)
  BY <1>2 DEF CopiesInv
<1> HIDE DEF n
<1>5. \A k \in 0..(n - 1), s \in Signals :
         Current(calls', k, s) = Current(calls, k, s)
  <2>1. n - 1 \in Nat
    BY <1>2
  <2> QED
    BY <1>2, <2>1, CurrentOfSame
<1>6. n - 1 \in 0..(n - 1) /\ \A k \in 1..(n - 1) : k - 1 \in 0..(n - 1)
  BY <1>2
<1> QED
  BY <1>2, <1>3, <1>4, <1>5, <1>6 DEF CopiesInv

\* Code that gets a provider may only fill the cache with the standard one.
LEMMA CopiesUse ==
    ASSUME TypeOK, CopiesInv, NEW s \in Signals, NEW p \in Providers, Use(s, p),
           UNCHANGED calls
    PROVE  CopiesInv'
<1>1. \A n \in 0..Len(calls), t \in Signals :
         Current(calls', n, t) = Current(calls, n, t)
  BY DEF Current
<1>2. Len(calls) \in 0..Len(calls)
  BY DEF TypeOK
<1>3. ASSUME NEW t \in Signals PROVE cache'[t] \in Current(calls, Len(calls), t)
  <2>1. CASE cache' = [cache EXCEPT ![s] = Provider(s)] /\ t = s
    <3>1. cache'[t] = Provider(s) /\ cache[s] \in Current(calls, Len(calls), s)
      BY <2>1 DEF CopiesInv, TypeOK, Caches
    <3>2. Unset \in Current(calls, Len(calls), s) =>
            Standard \in Current(calls, Len(calls), s)
      <4>1. \A k \in 1..Len(calls) : calls[k] \in Frames
        BY DEF TypeOK
      <4>2. Len(calls) > 0 => calls[Len(calls)].id # Unset
        BY <4>1, RecordingAssumption DEF Frames, CallIds, TypeOK
      <4> QED
        BY <4>2 DEF Current
    <3> QED
      BY <2>1, <3>1, <3>2 DEF Provider
  <2>2. CASE cache' = [cache EXCEPT ![s] = Provider(s)] /\ t # s
    BY <2>2 DEF CopiesInv, TypeOK, Caches
  <2>3. CASE UNCHANGED cache
    BY <2>3 DEF CopiesInv
  <2> QED
    BY <2>1, <2>2, <2>3 DEF Use
<1>4. \A k \in 1..Len(calls) : k - 1 \in 0..Len(calls)
  BY <1>2
<1> QED
  BY <1>1, <1>2, <1>3, <1>4 DEF CopiesInv

\* The invariant holds, however calls nest and fail.
LEMMA CopiesCorrect == Spec => []CopiesInv
<1>1. Init => CopiesInv
  BY DEF Init, CopiesInv, Current
<1>2. TypeOK /\ CopiesInv /\ [Next]_vars => CopiesInv'
  <2> SUFFICES ASSUME TypeOK, CopiesInv, [Next]_vars PROVE CopiesInv'
    OBVIOUS
  <2>1. CASE UNCHANGED <<cache, calls>>
    BY <2>1 DEF CopiesInv, Current
  <2>2. ASSUME NEW p \in Providers, StartSpan(p) \/ Log(p) \/ Measure(p)
        PROVE  CopiesInv'
    BY <2>2, CopiesUse DEF StartSpan, Log, Measure, Signals
  <2>3. ASSUME \/ \E what \in SUBSET Signals, s \in Signals : BeginFails(what, s)
               \/ \E span \in open : EndSpan(span)
               \/ \E c \in CallIds : Collect(c)
               \/ Other \/ UNCHANGED vars
        PROVE  CopiesInv'
    BY <2>1, <2>3 DEF BeginFails, EndSpan, Collect, Other, vars
  <2> QED
    BY <2>2, <2>3, CopiesBegin, CopiesLeave DEF Next, Return, Fail
<1> QED
  BY <1>1, <1>2, TypeCorrect, PTL DEF Spec

\* Signals always go to the innermost call that is in progress, if it records
\* them, for any depth of nesting and any failures.
THEOREM InnermostRecordsCorrect == Spec => []InnermostRecords
<1>1. TypeOK /\ CopiesInv => InnermostRecords
  <2>1. TypeOK => (calls # <<>> <=> Len(calls) > 0)
    BY DEF TypeOK
  <2> QED
    BY <2>1 DEF CopiesInv, Current, InnermostRecords, Top
<1> QED
  BY <1>1, TypeCorrect, CopiesCorrect, PTL

-----------------------------------------------------------------------------
(* Reader threads *)

\* Calls in progress have numbers of their own, and a meter provider runs only
\* while the call is in progress that is going to shut it down.
CallsInv ==
    /\ \A k \in 1..Len(calls) : calls[k].id <= lastCall
    /\ \A j, k \in 1..Len(calls) : calls[j].id = calls[k].id => j = k
    /\ \A c \in CallIds : meters[c] = "running" =>
          \E k \in 1..Len(calls) :
              calls[k].id = c /\ "metrics" \in calls[k].what

\* A call that begins has a new number.
LEMMA CallsBegin ==
    ASSUME TypeOK, CallsInv, NEW what \in SUBSET Signals, Begin(what)
    PROVE  CallsInv'
<1> DEFINE frame == [id |-> lastCall', what |-> what, copy |-> cache]
<1>1. /\ lastCall \in Nat /\ lastCall' = lastCall + 1 /\ lastCall' \in CallIds
      /\ frame \in Frames
  BY RecordingAssumption DEF Begin, Frames, TypeOK, CallIds
<1>2. /\ Len(calls) \in Nat
      /\ Len(calls') = Len(calls) + 1
      /\ calls'[Len(calls) + 1].id = lastCall'
      /\ calls'[Len(calls) + 1].what = what
      /\ \A k \in 1..Len(calls) : calls'[k] = calls[k]
  BY <1>1 DEF Begin, TypeOK
<1>3. \A k \in 1..Len(calls') : k \in 1..Len(calls) \/ k = Len(calls) + 1
  BY <1>2
<1>4. \A k \in 1..Len(calls) : calls[k].id \in Nat /\ calls[k].id <= lastCall
  <2>1. \A k \in 1..Len(calls) : calls[k] \in Frames
    BY DEF TypeOK
  <2> QED
    BY <2>1 DEF CallsInv, Frames, CallIds
<1>5. \A k \in 1..Len(calls') : calls'[k].id <= lastCall'
  BY <1>1, <1>2, <1>3, <1>4
<1>6. \A j, k \in 1..Len(calls') : calls'[j].id = calls'[k].id => j = k
  BY <1>1, <1>2, <1>3, <1>4 DEF CallsInv
<1>7. ASSUME NEW c \in CallIds, meters'[c] = "running"
      PROVE  \E k \in 1..Len(calls') :
                calls'[k].id = c /\ "metrics" \in calls'[k].what
  <2>1. CASE c = lastCall' /\ "metrics" \in what
    <3>1. Len(calls) + 1 \in 1..Len(calls')
      BY <1>2
    <3> QED
      BY <1>2, <2>1, <3>1
  <2>2. CASE ~(c = lastCall' /\ "metrics" \in what)
    <3>1. meters[c] = "running"
      BY <1>1, <1>7, <2>2 DEF Begin, TypeOK
    <3>2. PICK k \in 1..Len(calls) :
             calls[k].id = c /\ "metrics" \in calls[k].what
      BY <3>1 DEF CallsInv
    <3>3. k \in 1..Len(calls') /\ calls'[k] = calls[k]
      BY <1>2
    <3> QED
      BY <3>2, <3>3
  <2> QED
    BY <2>1, <2>2
<1> QED
  BY <1>5, <1>6, <1>7 DEF CallsInv

\* A call that is left shuts down its meter provider, and no other.
LEMMA CallsLeave ==
    ASSUME TypeOK, CallsInv, Leave, UNCHANGED lastCall
    PROVE  CallsInv'
<1> DEFINE n == Len(calls)
<1>1. calls # <<>> /\ calls' = Outer
  BY DEF Leave
<1>2. /\ n \in Nat /\ n > 0
      /\ Len(calls') = n - 1
      /\ \A k \in 1..(n - 1) : calls'[k] = calls[k]
      /\ Top = calls[n] /\ Top \in Frames
  BY <1>1, TopType DEF Top
<1>3. \A k \in 1..(n - 1) : k \in 1..n
  BY <1>2
<1>4. ASSUME NEW c \in CallIds, meters'[c] = "running"
      PROVE  \E k \in 1..Len(calls') :
                calls'[k].id = c /\ "metrics" \in calls'[k].what
  <2>1. meters[c] = "running" /\ ~(c = Top.id /\ "metrics" \in Top.what)
    BY <1>4 DEF Leave, ShutMeters, TypeOK
  <2>2. PICK k \in 1..n : calls[k].id = c /\ "metrics" \in calls[k].what
    BY <2>1 DEF CallsInv
  <2>3. k # n
    BY <1>2, <2>1, <2>2
  <2>4. k \in 1..(n - 1)
    BY <1>2, <2>3
  <2> QED
    BY <1>2, <2>2, <2>4
<1> QED
  BY <1>2, <1>3, <1>4 DEF CallsInv

\* A call with invalid options has no meter provider that runs.
LEMMA CallsBeginFails ==
    ASSUME TypeOK, CallsInv, NEW what \in SUBSET Signals, NEW s \in Signals,
           BeginFails(what, s)
    PROVE  CallsInv'
<1>1. \A c \in CallIds : meters'[c] = "running" => meters[c] = "running"
  BY DEF BeginFails, TypeOK
<1>2. \A k \in 1..Len(calls) : calls[k].id <= lastCall'
  <2>1. \A k \in 1..Len(calls) : calls[k] \in Frames
    BY DEF TypeOK
  <2> QED
    BY <2>1 DEF BeginFails, CallsInv, TypeOK, Frames, CallIds
<1> QED
  BY <1>1, <1>2 DEF BeginFails, CallsInv

\* The invariant holds, however calls nest and fail.
LEMMA CallsCorrect == Spec => []CallsInv
<1>1. Init => CallsInv
  BY DEF Init, CallsInv
<1>2. TypeOK /\ CallsInv /\ [Next]_vars => CallsInv'
  <2> SUFFICES ASSUME TypeOK, CallsInv, [Next]_vars PROVE CallsInv'
    OBVIOUS
  <2>1. CASE UNCHANGED <<calls, meters, lastCall>>
    BY <2>1 DEF CallsInv
  <2>2. ASSUME \/ \E p \in Providers : StartSpan(p) \/ Log(p) \/ Measure(p)
               \/ \E span \in open : EndSpan(span)
               \/ \E c \in CallIds : Collect(c)
               \/ Other \/ UNCHANGED vars
        PROVE  CallsInv'
    BY <2>1, <2>2
       DEF StartSpan, Log, Measure, EndSpan, Collect, Other, vars
  <2> QED
    BY <2>2, CallsBegin, CallsBeginFails, CallsLeave DEF Next, Return, Fail
<1> QED
  BY <1>1, <1>2, TypeCorrect, PTL DEF Spec

\* No reader thread outlives the call that started it, whatever fails.
THEOREM ReadersStopCorrect == Spec => []ReadersStop
<1>1. CallsInv => ReadersStop
  BY DEF CallsInv, ReadersStop, InProgress
<1> QED
  BY <1>1, CallsCorrect, PTL

-----------------------------------------------------------------------------
(* Results *)

Made == 1..lastCall \cup {Standard}

\* Code can only have the providers of calls that have begun. What providers
\* of a call in progress, or of one to come, can return is what they got in
\* time. (Providers of a call that is over get more than that.)
ResultsInv ==
    /\ \A s \in Signals : known[s] \subseteq Made
    /\ \A span \in open : span.provider \in Made
    /\ \A c \in CallIds, s \in {"traces", "logs"} :
          InProgress(c) \/ c > lastCall => buffer[c][s] = finished[c][s]

\* The standard provider is not that of a call, and its number is none.
LEMMA StandardIsNoCall ==
    ASSUME TypeOK
    PROVE  /\ Standard \notin CallIds /\ ~InProgress(Standard)
           /\ 1..lastCall \subseteq CallIds
<1>1. \A k \in 1..Len(calls) : calls[k] \in Frames
  BY DEF TypeOK
<1> QED
  BY <1>1, RecordingAssumption DEF Frames, CallIds, InProgress, TypeOK

\* The provider that code gets for a signal belongs to a call that has begun.
LEMMA ProviderMade ==
    ASSUME TypeOK, CopiesInv, CallsInv, NEW s \in Signals
    PROVE  Provider(s) \in Made
<1>1. cache[s] \in {Unset, Standard}
      \/ \E k \in 1..Len(calls) : cache[s] = calls[k].id
  <2>1. Len(calls) \in Nat /\ cache[s] \in Current(calls, Len(calls), s)
    BY DEF TypeOK, CopiesInv
  <2>2. CASE Len(calls) > 0 /\ s \in calls[Len(calls)].what
    BY <2>1, <2>2 DEF Current
  <2>3. CASE ~(Len(calls) > 0 /\ s \in calls[Len(calls)].what)
    BY <2>1, <2>3 DEF Current
  <2> QED
    BY <2>2, <2>3
<1>2. \A k \in 1..Len(calls) : calls[k].id \in 1..lastCall
  <2>1. \A k \in 1..Len(calls) : calls[k] \in Frames
    BY DEF TypeOK
  <2> QED
    BY <2>1 DEF CallsInv, Frames, CallIds, TypeOK
<1> QED
  BY <1>1, <1>2 DEF Provider, Made

\* Code that uses a provider has it from a call that has begun.
LEMMA UseMade ==
    ASSUME TypeOK, CopiesInv, CallsInv, ResultsInv, UNCHANGED lastCall,
           NEW s \in Signals, NEW p \in Providers, Use(s, p)
    PROVE  p \in Made /\ Made' = Made /\ \A t \in Signals : known'[t] \subseteq Made'
<1>1. Made' = Made
  BY DEF Made
<1>2. CASE p = Provider(s) /\ known' = [known EXCEPT ![s] = @ \cup {p}]
  <2>1. p \in Made
    BY <1>2, ProviderMade
  <2> QED
    BY <1>1, <1>2, <2>1 DEF ResultsInv, TypeOK
<1>3. CASE p \in known[s] /\ UNCHANGED known
  BY <1>1, <1>3 DEF ResultsInv
<1> QED
  BY <1>2, <1>3 DEF Use

\* A provider of a call that has begun gets a signal: it has it in time if
\* and only if the call is in progress.
LEMMA GetsSignal ==
    ASSUME TypeOK, ResultsInv, UNCHANGED <<calls, lastCall>>,
           NEW s \in {"traces", "logs"}, NEW p \in Made, NEW no,
           buffer' = Buffered(s, p, no), finished' = InTime(s, p, no),
           NEW c \in CallIds, NEW t \in {"traces", "logs"},
           InProgress(c)' \/ c > lastCall'
    PROVE  buffer'[c][t] = finished'[c][t]
<1>1. InProgress(c) \/ c > lastCall
  BY DEF InProgress
<1>2. buffer[c][t] = finished[c][t]
  BY <1>1 DEF ResultsInv
<1>3. CASE p # c
  BY <1>2, <1>3, StandardIsNoCall DEF Buffered, InTime, TypeOK, Made
<1>4. CASE p = c
  <2>1. p # Standard /\ InProgress(p)
    <3>1. p \in 1..lastCall
      BY <1>4, StandardIsNoCall DEF Made
    <3>2. ~(c > lastCall)
      BY <1>4, <3>1 DEF TypeOK, CallIds
    <3> QED
      BY <1>1, <1>4, <3>2, StandardIsNoCall
  <2>2. /\ buffer' = [buffer EXCEPT ![c][s] = @ \cup {no}]
        /\ finished' = [finished EXCEPT ![c][s] = @ \cup {no}]
    BY <1>4, <2>1 DEF Buffered, InTime
  <2>3. /\ buffer[c] \in [Signals -> SUBSET Nos] /\ s \in Signals /\ t \in Signals
        /\ finished[c] \in [Signals -> SUBSET Nos]
    BY DEF TypeOK, Signals
  <2>4. /\ buffer'[c] = [buffer[c] EXCEPT ![s] = @ \cup {no}]
        /\ finished'[c] = [finished[c] EXCEPT ![s] = @ \cup {no}]
    BY <2>2 DEF TypeOK
  <2>5. CASE t = s
    <3>1. /\ buffer'[c][s] = buffer[c][s] \cup {no}
          /\ finished'[c][s] = finished[c][s] \cup {no}
      BY <2>3, <2>4
    <3> QED
      BY <1>2, <2>5, <3>1, Zenon
  <2>6. CASE t # s
    BY <1>2, <2>3, <2>4, <2>6
  <2> QED
    BY <2>5, <2>6
<1> QED
  BY <1>3, <1>4

\* A call begins, with valid or invalid options, or is left.
LEMMA ResultsOfCalls ==
    ASSUME TypeOK, ResultsInv,
           \/ \E what \in SUBSET Signals : Begin(what)
           \/ \E what \in SUBSET Signals, s \in Signals : BeginFails(what, s)
           \/ Return \/ Fail
    PROVE  ResultsInv'
<1>1. UNCHANGED <<buffer, finished, known, open>>
  BY DEF Begin, BeginFails, Return, Fail
<1>2. lastCall \in Nat /\ lastCall' \in {lastCall, lastCall + 1}
  <2>1. lastCall \in Nat
    BY DEF TypeOK
  <2>2. lastCall' \in {lastCall, lastCall + 1}
    BY DEF Begin, BeginFails, Return, Fail
  <2> QED
    BY <2>1, <2>2
<1>3. Made \subseteq Made'
  BY <1>2 DEF Made
<1>4. ASSUME NEW c \in CallIds, InProgress(c)' \/ c > lastCall'
      PROVE  InProgress(c) \/ c > lastCall
  <2>1. CASE c > lastCall'
    BY <1>2, <2>1 DEF CallIds
  <2>2. ASSUME NEW what \in SUBSET Signals, Begin(what), InProgress(c)'
        PROVE  InProgress(c) \/ c > lastCall
    <3>1. [id |-> lastCall', what |-> what, copy |-> cache] \in Frames
      BY <2>2, RecordingAssumption DEF Begin, Frames, TypeOK, CallIds
    <3>2. \A k \in 1..Len(calls') :
             \/ k \in 1..Len(calls) /\ calls'[k] = calls[k]
             \/ calls'[k].id = lastCall + 1
      BY <2>2, <3>1 DEF Begin, TypeOK
    <3> QED
      BY <1>2, <2>2, <3>2 DEF InProgress
  <2>3. ASSUME NEW what \in SUBSET Signals, NEW s \in Signals,
               BeginFails(what, s), InProgress(c)'
        PROVE  InProgress(c)
    BY <2>3 DEF BeginFails, InProgress
  <2>4. CASE Leave /\ InProgress(c)'
    <3>1. /\ Len(calls) \in Nat
          /\ Len(calls') = Len(calls) - 1
          /\ \A k \in 1..(Len(calls) - 1) : calls'[k] = calls[k]
      BY <2>4, TopType DEF Leave
    <3>2. \A k \in 1..(Len(calls) - 1) : k \in 1..Len(calls)
      BY <3>1
    <3> QED
      BY <2>4, <3>1, <3>2 DEF InProgress
  <2> QED
    BY <1>4, <2>1, <2>2, <2>3, <2>4 DEF Return, Fail
<1> QED
  BY <1>1, <1>3, <1>4 DEF ResultsInv

\* Code starts and ends spans, logs and measures; the reader thread collects.
LEMMA ResultsOfCode ==
    ASSUME TypeOK, CopiesInv, CallsInv, ResultsInv,
           \/ \E p \in Providers : StartSpan(p) \/ Log(p) \/ Measure(p)
           \/ \E span \in open : EndSpan(span)
           \/ \E c \in CallIds : Collect(c)
    PROVE  ResultsInv'
<1> USE DEF Signals
<1>1. UNCHANGED <<calls, lastCall>> /\ Made' = Made
  BY DEF StartSpan, Log, Measure, EndSpan, Collect, Made
<1>2. \A c \in CallIds : InProgress(c)' => InProgress(c)
  BY <1>1 DEF InProgress
<1>3. ASSUME NEW p \in Providers, StartSpan(p) PROVE ResultsInv'
  <2>1. \A t \in Signals : known'[t] \subseteq Made'
    BY <1>1, <1>3, UseMade DEF StartSpan
  <2>2. \A span \in open' : span.provider \in Made'
    BY <1>1, <1>3, UseMade DEF StartSpan, ResultsInv
  <2> QED
    BY <1>1, <1>2, <1>3, <2>1, <2>2 DEF StartSpan, ResultsInv
<1>4. ASSUME NEW p \in Providers, Log(p) PROVE ResultsInv'
  <2>1. p \in Made /\ \A t \in Signals : known'[t] \subseteq Made'
    BY <1>1, <1>4, UseMade DEF Log
  <2>2. \A c \in CallIds, t \in {"traces", "logs"} :
           InProgress(c)' \/ c > lastCall' => buffer'[c][t] = finished'[c][t]
    BY <1>1, <1>4, <2>1, GetsSignal DEF Log
  <2> QED
    BY <1>1, <1>4, <2>1, <2>2 DEF Log, ResultsInv
<1>5. ASSUME NEW p \in Providers, Measure(p) PROVE ResultsInv'
  <2>1. \A t \in Signals : known'[t] \subseteq Made'
    BY <1>1, <1>5, UseMade DEF Measure
  <2>2. \A c \in CallIds, t \in {"traces", "logs"} :
           finished'[c][t] = finished[c][t]
    BY <1>5 DEF Measure, InTime, TypeOK
  <2> QED
    BY <1>1, <1>2, <1>5, <2>1, <2>2 DEF Measure, ResultsInv
<1>6. ASSUME NEW span \in open, EndSpan(span) PROVE ResultsInv'
  <2>1. span.provider \in Made
    BY DEF ResultsInv
  <2>2. \A c \in CallIds, t \in {"traces", "logs"} :
           InProgress(c)' \/ c > lastCall' => buffer'[c][t] = finished'[c][t]
    BY <1>1, <1>6, <2>1, GetsSignal DEF EndSpan
  <2> QED
    BY <1>1, <1>6, <2>2 DEF EndSpan, ResultsInv
<1>7. ASSUME NEW c \in CallIds, Collect(c) PROVE ResultsInv'
  <2>1. \A d \in CallIds, t \in {"traces", "logs"} : buffer'[d][t] = buffer[d][t]
    BY <1>7 DEF Collect, TypeOK
  <2> QED
    BY <1>1, <1>2, <1>7, <2>1 DEF Collect, ResultsInv
<1> QED
  BY <1>3, <1>4, <1>5, <1>6, <1>7

\* The invariant holds, in whatever order spans, calls and providers end.
LEMMA ResultsCorrect == Spec => []ResultsInv
<1>1. Init => ResultsInv
  BY DEF Init, ResultsInv, NoRecords, Signals
<1>2. TypeOK /\ CopiesInv /\ CallsInv /\ ResultsInv /\ [Next]_vars => ResultsInv'
  <2>1. ResultsInv /\ (Other \/ UNCHANGED vars) => ResultsInv'
    BY DEF Other, vars, ResultsInv, InProgress, Made
  <2> QED
    BY <2>1, ResultsOfCalls, ResultsOfCode DEF Next
<1> QED
  BY <1>1, <1>2, TypeCorrect, CopiesCorrect, CallsCorrect, PTL DEF Spec

\* The result of a call has the spans that ended and the records that were
\* emitted in time with its own providers, whatever other calls do.
THEOREM ReturnsSpansAndLogsCorrect == Spec => ReturnsSpansAndLogs
<1> DEFINE A == result' # result => \A s \in Top.what \ {"metrics"} :
                    result'.records[s] = finished[Top.id][s]
<1>1. TypeOK /\ ResultsInv /\ [Next]_vars => [A]_vars
  <2> SUFFICES ASSUME TypeOK, ResultsInv, [Next]_vars, result' # result,
                      NEW s \in Top.what \ {"metrics"}
               PROVE  result'.records[s] = finished[Top.id][s]
    OBVIOUS
  <2>1. Return
    BY DEF Next, Begin, BeginFails, Fail, StartSpan, EndSpan, Log, Measure,
           Collect, Other, vars
  <2>2. Top.id \in CallIds /\ InProgress(Top.id) /\ s \in {"traces", "logs"}
    BY <2>1, TopType DEF Return, Leave, Frames, Signals, InProgress, Top
  <2>3. buffer[Top.id][s] = finished[Top.id][s]
    BY <2>2 DEF ResultsInv
  <2>4. result'.records[s] = buffer[Top.id][s]
    BY <2>1, <2>2 DEF Return, Signals
  <2> QED
    BY <2>3, <2>4
<1> QED
  BY <1>1, TypeCorrect, ResultsCorrect, PTL DEF Spec, ReturnsSpansAndLogs
=============================================================================
