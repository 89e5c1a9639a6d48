------------------------ MODULE SpanProcessors_proofs -----------------------
(***************************************************************************)
(* Proofs about SpanProcessors, for any spans, any environment variable,   *)
(* any ids, and in both modes of error handling.                           *)
(***************************************************************************)
EXTENDS SpanProcessors, SequenceTheorems, TLAPS

\* A processor as the registry holds it.
Proc == [id : Ids, onStart : Callbacks \cup {NoCallback}]

-----------------------------------------------------------------------------
(* The registry *)

\* Adding to the registry gives a registry.
LEMMA AddToType ==
    ASSUME NEW ps \in Procs, NEW id \in Ids, NEW cb \in Callbacks \cup {NoCallback}
    PROVE  AddTo(ps, id, cb) \in Procs
<1> DEFINE new == [id |-> id, onStart |-> cb]
<1>1. new \in Proc /\ ps \in Seq(Proc)
  BY DEF Proc, Procs
<1> HIDE DEF new
<1>2. CASE Registered(ps, id)
  <2>1. AddTo(ps, id, cb) = [i \in DOMAIN ps |-> IF ps[i].id = id THEN new ELSE ps[i]]
    BY <1>2 DEF AddTo, new
  <2>2. AddTo(ps, id, cb) \in Seq(Proc)
    BY <1>1, <2>1
  <2> QED
    BY <2>2 DEF Proc, Procs
<1>3. CASE ~Registered(ps, id)
  <2>1. AddTo(ps, id, cb) = Append(ps, new)
    BY <1>3 DEF AddTo, new
  <2>2. AddTo(ps, id, cb) \in Seq(Proc)
    BY <1>1, <2>1
  <2> QED
    BY <2>2 DEF Proc, Procs
<1> QED
  BY <1>2, <1>3

\* Removing from the registry gives a registry.
LEMMA RemoveFromType ==
    ASSUME NEW ps \in Procs, NEW id
    PROVE  RemoveFrom(ps, id) \in Procs
<1> DEFINE k == IndexOf(ps, id)
<1>1. ps \in Seq(Proc)
  BY DEF Proc, Procs
<1>2. CASE Registered(ps, id)
  <2>1. k \in 1..Len(ps)
    BY <1>1, <1>2 DEF Registered, IndexOf
  <2> HIDE DEF k
  <2>2. SubSeq(ps, 1, k - 1) \in Seq(Proc) /\ SubSeq(ps, k + 1, Len(ps)) \in Seq(Proc)
    BY <1>1, <2>1
  <2>3. SubSeq(ps, 1, k - 1) \o SubSeq(ps, k + 1, Len(ps)) \in Seq(Proc)
    BY <2>2
  <2> QED
    BY <1>2, <2>3 DEF RemoveFrom, Proc, Procs, k
<1> QED
  BY <1>2 DEF RemoveFrom

-----------------------------------------------------------------------------
(* The stack of runs *)

\* Leaving the innermost run leaves the others as they are.
LEMMA BelowRuns ==
    ASSUME runs \in Seq(Runs), runs # <<>>
    PROVE  /\ Below \in Seq(Runs)
           /\ Len(Below) = Len(runs) - 1
           /\ \A i \in 1..Len(Below) : Below[i] = runs[i]
<1> DEFINE n == Len(runs)
<1>1. n \in Nat /\ n > 0
  BY EmptySeq
<1>2. \A i \in 1..(n - 1) : runs[i] \in Runs
  BY <1>1
<1>3. Below = SubSeq(runs, 1, n - 1)
  BY DEF Below
<1> HIDE DEF n
<1>4. Below \in Seq(Runs) /\ Len(Below) = IF 1 <= n - 1 THEN n - 1 - 1 + 1 ELSE 0
  BY <1>1, <1>2, <1>3, SubSeqProperties
<1>5. \A i \in 1..(n - 1 - 1 + 1) : Below[i] = runs[1 + i - 1]
  BY <1>1, <1>2, <1>3, SubSeqProperties
<1>6. Len(Below) = n - 1
  BY <1>1, <1>4
<1>7. \A i \in 1..(n - 1) : Below[i] = runs[i]
  <2> TAKE i \in 1..(n - 1)
  <2>1. i \in 1..(n - 1 - 1 + 1) /\ 1 + i - 1 = i
    BY <1>1
  <2> QED
    BY <1>5, <2>1
<1> QED
  BY <1>4, <1>6, <1>7 DEF n

\* Going on to the next item touches only that, and only in the innermost run.
LEMMA NextItemRuns ==
    ASSUME runs \in Seq(Runs), runs # <<>>
    PROVE  /\ NextItem \in Seq(Runs)
           /\ Len(NextItem) = Len(runs)
           /\ \A i \in 1..Len(runs) :
                /\ NextItem[i].at = runs[i].at
                /\ NextItem[i].next =
                     IF i = Len(runs) THEN runs[i].next + 1 ELSE runs[i].next
<1> DEFINE top == [Top EXCEPT !.next = @ + 1]
<1>1. Top \in Runs /\ Top = runs[Len(runs)]
  BY DEF Top
<1>2. top \in Runs /\ top.at = Top.at /\ top.next = Top.next + 1
  BY <1>1 DEF Runs
<1>3. NextItem = Append(Below, top)
  BY DEF NextItem
<1> HIDE DEF top
<1> QED
  BY <1>1, <1>2, <1>3, BelowRuns

\* BeginCalls() puts a run on the stack, or not.
LEMMA BeginCallsRuns ==
    ASSUME procs \in Procs, NEW s \in Spans, NEW below \in Seq(Runs),
           BeginCalls(s, below)
    PROVE  /\ runs' \in Seq(Runs)
           /\ \A i \in 1..Len(below) : runs'[i] = below[i]
           /\ \/ (procs = <<>> \/ busy) /\ runs' = below /\ busy' = busy
              \/ /\ ~busy /\ busy'
                 /\ Len(runs') = Len(below) + 1
                 /\ runs'[Len(runs')].at = "call"
<1> DEFINE run == [span |-> s, at |-> "call", next |-> 1, found |-> procs]
<1>1. run \in Runs /\ run.at = "call"
  BY DEF Runs
<1>2. CASE procs = <<>> \/ busy
  BY <1>2 DEF BeginCalls
<1>3. CASE ~(procs = <<>> \/ busy)
  <2>1. runs' = Append(below, run) /\ busy' = TRUE
    BY <1>3 DEF BeginCalls
  <2> HIDE DEF run
  <2>2. /\ runs' \in Seq(Runs)
        /\ Len(runs') = Len(below) + 1
        /\ \A i \in 1..Len(below) : runs'[i] = below[i]
        /\ runs'[Len(below) + 1] = run
    BY <1>1, <2>1
  <2>3. ~busy /\ busy'
    BY <1>3, <2>1
  <2> QED
    BY <1>1, <2>2, <2>3
<1> QED
  BY <1>2, <1>3
-----------------------------------------------------------------------------
(* Types *)

\* Registering a processor keeps the types of the registry.
LEMMA RegisterType ==
    ASSUME procs \in Procs, added \in 0..MaxCallbacks, NEW id \in Ids,
           NEW hasCallback \in BOOLEAN, Register(id, hasCallback)
    PROVE  procs' \in Procs /\ added' \in 0..MaxCallbacks
<1> DEFINE cb == IF hasCallback THEN added + 1 ELSE NoCallback
<1>1. added' = added + 1 /\ procs' = AddTo(procs, id, cb) /\ added < MaxCallbacks
  BY DEF Register
<1>2. added + 1 \in Callbacks
  BY <1>1, ProcessorsAssumption DEF Callbacks
<1>3. cb \in Callbacks \cup {NoCallback}
  BY <1>2
<1> HIDE DEF cb
<1>4. procs' \in Procs
  BY <1>1, <1>3, AddToType
<1> QED
  BY <1>1, <1>4, ProcessorsAssumption

\* The constant sequences hold ids.
LEMMA IdTypes ==
    /\ \A e \in DOMAIN EnvIds : EnvIds[e] \in Ids
    /\ \A g \in DOMAIN GeneratedIds : GeneratedIds[g] \in Ids
    /\ UserIds \subseteq Ids
BY DEF Ids

\* The innermost run, and the callback it is at.
LEMMA TopType ==
    ASSUME runs \in Seq(Runs), runs # <<>>
    PROVE  /\ Top \in Runs
           /\ Top = runs[Len(runs)]
           /\ Len(runs) \in 1..Len(runs)
           /\ Calling => CallbackAt(Top) \in Callbacks \cup {NoCallback}
<1>1. Top \in Runs /\ Top = runs[Len(runs)] /\ Len(runs) \in 1..Len(runs)
  BY EmptySeq DEF Top
<1>2. ASSUME Calling PROVE CallbackAt(Top) \in Callbacks \cup {NoCallback}
  <2>1. Top.found \in Procs /\ Top.next \in DOMAIN Top.found
    BY <1>1, <1>2 DEF Runs, Calling
  <2> DEFINE found == Top.found
  <2>2. found \in Seq(Proc)
    BY <2>1 DEF Procs, Proc
  <2> HIDE DEF found
  <2>3. \A n \in DOMAIN found : found[n] \in Proc
    BY <2>2
  <2> QED
    BY <2>1, <2>3 DEF CallbackAt, Proc, found
<1> QED
  BY <1>1, <1>2

\* The initial state has the right types.
LEMMA TypeInit == Init => TypeOK
<1> SUFFICES ASSUME Init PROVE TypeOK
  OBVIOUS
<1>1. procs \in Procs /\ runs \in Seq(Runs)
  BY DEF Init, Procs
<1>2. /\ counter \in 0..Len(GeneratedIds) /\ added \in 0..MaxCallbacks
      /\ leftAt \in 0..Len(EnvIds)
  BY ProcessorsAssumption DEF Init
<1>3. loads \in [DOMAIN EnvIds -> Nat] /\ called \in [Spans -> Seq(Callbacks)]
  BY DEF Init
<1> QED
  BY <1>1, <1>2, <1>3 DEF Init, TypeOK

\* Every step keeps the types.
LEMMA TypeStep == TypeOK /\ [Next]_vars => TypeOK'
<1> SUFFICES ASSUME TypeOK, [Next]_vars PROVE TypeOK'
  OBVIOUS
<1> USE DEF registry
<1>1. ASSUME NEW id \in UserIds, NEW cb \in BOOLEAN, AddSpanProcessor(id, cb)
      PROVE  TypeOK'
  <2>1. procs' \in Procs /\ added' \in 0..MaxCallbacks
    BY <1>1, RegisterType, IdTypes DEF AddSpanProcessor, TypeOK
  <2> QED
    BY <1>1, <2>1 DEF AddSpanProcessor, TypeOK
<1>2. ASSUME NEW cb \in BOOLEAN, AddWithNewId(cb) PROVE TypeOK'
  <2>1. counter + 1 \in DOMAIN GeneratedIds /\ counter' \in 0..Len(GeneratedIds)
    BY <1>2, ProcessorsAssumption DEF AddWithNewId, TypeOK
  <2>2. procs' \in Procs /\ added' \in 0..MaxCallbacks
    BY <1>2, <2>1, RegisterType, IdTypes DEF AddWithNewId, TypeOK
  <2> QED
    BY <1>2, <2>1, <2>2 DEF AddWithNewId, TypeOK
<1>3. ASSUME NEW id \in Ids, RemoveSpanProcessor(id) PROVE TypeOK'
  <2>1. procs' \in Procs
    BY <1>3, RemoveFromType DEF RemoveSpanProcessor, TypeOK
  <2> QED
    BY <1>3, <2>1 DEF RemoveSpanProcessor, TypeOK
<1>4. ASSUME NEW s \in Spans, StartSpan(s) PROVE TypeOK'
  <2>1. runs' \in Seq(Runs) /\ busy' \in BOOLEAN /\ envLoaded' \in BOOLEAN
    <3>1. CASE envLoaded
      <4>1. BeginCalls(s, runs) /\ envLoaded' = envLoaded
        BY <1>4, <3>1 DEF StartSpan
      <4>2. runs' \in Seq(Runs) /\ busy' \in BOOLEAN
        BY <4>1, BeginCallsRuns DEF TypeOK
      <4> QED
        BY <4>1, <4>2 DEF TypeOK
    <3>2. CASE ~envLoaded
      <4> DEFINE run == [span |-> s, at |-> "load", next |-> 1, found |-> <<>>]
      <4>1. runs' = Append(runs, run) /\ envLoaded' = TRUE /\ busy' = busy
        BY <1>4, <3>2 DEF StartSpan
      <4>2. run \in Runs
        BY DEF Runs, Procs
      <4> QED
        BY <4>1, <4>2 DEF TypeOK
    <3> QED
      BY <3>1, <3>2
  <2> QED
    BY <1>4, <2>1 DEF StartSpan, TypeOK
<1>5. ASSUME NEW outcome \in Outcomes, NEW cb \in BOOLEAN, LoadEntry(outcome, cb)
      PROVE  TypeOK'
  <2>1. runs # <<>> /\ Top.next \in DOMAIN EnvIds
    BY <1>5 DEF LoadEntry, Loading
  <2>2. runs' \in Seq(Runs)
    BY <1>5, <2>1, BelowRuns, NextItemRuns DEF LoadEntry, TypeOK
  <2>3. procs' \in Procs /\ added' \in 0..MaxCallbacks
    BY <1>5, <2>1, RegisterType, IdTypes DEF LoadEntry, TypeOK
  <2>4. loads' \in [DOMAIN EnvIds -> Nat]
    BY <1>5, <2>1 DEF LoadEntry, TypeOK
  <2>5. leftAt' \in 0..Len(EnvIds)
    <3>1. /\ EnvIds \in Seq(STRING) /\ leftAt \in 0..Len(EnvIds)
          /\ leftAt' = IF outcome \in Escapes THEN Top.next ELSE leftAt
      BY <1>5, ProcessorsAssumption DEF LoadEntry, TypeOK
    <3> QED
      BY <2>1, <3>1
  <2> QED
    BY <1>5, <2>2, <2>3, <2>4, <2>5 DEF LoadEntry, TypeOK
<1>6. CASE EnvDone
  <2>1. Below \in Seq(Runs) /\ Top.span \in Spans
    BY <1>6, BelowRuns, TopType DEF EnvDone, TypeOK, Runs
  <2>2. BeginCalls(Top.span, Below)
    BY <1>6 DEF EnvDone
  <2>3. runs' \in Seq(Runs) /\ busy' \in BOOLEAN
    BY <2>1, <2>2, BeginCallsRuns DEF TypeOK
  <2> QED
    BY <1>6, <2>3 DEF EnvDone, TypeOK
<1>7. ASSUME NEW outcome \in Outcomes, EndCallback(outcome) PROVE TypeOK'
  <2>1. runs # <<>> /\ Top \in Runs /\ CallbackAt(Top) \in Callbacks
    BY <1>7, TopType DEF EndCallback, Calling, TypeOK
  <2>2. runs' \in Seq(Runs) /\ busy' \in BOOLEAN
    BY <1>7, <2>1, BelowRuns, NextItemRuns DEF EndCallback, TypeOK
  <2>3. called' \in [Spans -> Seq(Callbacks)]
    BY <1>7, <2>1 DEF EndCallback, TypeOK, Runs
  <2> QED
    BY <1>7, <2>2, <2>3 DEF EndCallback, TypeOK
<1>8. CASE SkipProcessor
  <2>1. runs' \in Seq(Runs)
    BY <1>8, NextItemRuns DEF SkipProcessor, Calling, TypeOK
  <2> QED
    BY <1>8, <2>1 DEF SkipProcessor, TypeOK
<1>9. CASE EndRun
  <2>1. runs' \in Seq(Runs)
    BY <1>9, BelowRuns DEF EndRun, TypeOK
  <2> QED
    BY <1>9, <2>1 DEF EndRun, TypeOK
<1>10. CASE UNCHANGED vars
  BY <1>10 DEF vars, TypeOK
<1> QED
  BY <1>1, <1>2, <1>3, <1>4, <1>5, <1>6, <1>7, <1>8, <1>9, <1>10 DEF Next

\* The registry, the flags and the runs always have the values they should
\* (R/span-processor.R).
THEOREM TypeCorrect == Spec => []TypeOK
<1>1. Init => TypeOK
  BY TypeInit
<1>2. TypeOK /\ [Next]_vars => TypeOK'
  BY TypeStep
<1> QED
  BY <1>1, <1>2, PTL DEF Spec
-----------------------------------------------------------------------------
(* One run calls callbacks at a time *)

\* A step that keeps the runs, their stages and the flag keeps OneRunCalls.
LEMMA OneRunSame ==
    ASSUME OneRunCalls, busy' = busy, DOMAIN runs' = DOMAIN runs,
           \A i \in DOMAIN runs : runs'[i].at = runs[i].at
    PROVE  OneRunCalls'
BY DEF OneRunCalls

\* Leaving a run that calls puts the flag down, and no other run calls.
LEMMA OneRunLeave ==
    ASSUME TypeOK, OneRunCalls, runs # <<>>, Top.at = "call",
           runs' = Below, busy' = FALSE
    PROVE  OneRunCalls'
<1>1. /\ Len(Below) = Len(runs) - 1 /\ Below \in Seq(Runs)
      /\ \A i \in 1..Len(Below) : Below[i] = runs[i]
  BY BelowRuns DEF TypeOK
<1>2. runs[Len(runs)].at = "call" /\ Len(runs) \in DOMAIN runs
  BY TopType DEF TypeOK
<1>3. \A i \in 1..Len(Below) : runs[i].at # "call"
  BY SMTT(30), <1>1, <1>2 DEF OneRunCalls, TypeOK
<1> QED
  BY <1>1, <1>3 DEF OneRunCalls

\* A run that begins its calls, on a stack whose other runs have the stages
\* they had, finds the flag down and puts it up.
LEMMA OneRunBegin ==
    ASSUME TypeOK, NEW s \in Spans, NEW below \in Seq(Runs), BeginCalls(s, below),
           \A i, j \in DOMAIN below :
             below[i].at = "call" /\ below[j].at = "call" => i = j,
           busy <=> \E i \in DOMAIN below : below[i].at = "call"
    PROVE  OneRunCalls'
<1>1. CASE runs' = below /\ busy' = busy
  BY <1>1 DEF OneRunCalls
<1>2. CASE /\ ~busy /\ busy'
           /\ Len(runs') = Len(below) + 1
           /\ runs'[Len(runs')].at = "call"
  <2>1. runs' \in Seq(Runs) /\ \A i \in 1..Len(below) : runs'[i] = below[i]
    BY BeginCallsRuns DEF TypeOK
  <2>2. \A i \in 1..Len(below) : runs'[i].at # "call"
    BY <1>2, <2>1
  <2>3. \A i \in DOMAIN runs' : runs'[i].at = "call" <=> i = Len(runs')
    BY <1>2, <2>1, <2>2
  <2>4. Len(runs') \in DOMAIN runs'
    BY <1>2, <2>1
  <2> QED
    BY <1>2, <2>3, <2>4 DEF OneRunCalls
<1> QED
  BY <1>1, <1>2, BeginCallsRuns DEF TypeOK

\* Every step keeps OneRunCalls.
LEMMA OneRunStep == TypeOK /\ OneRunCalls /\ [Next]_vars => OneRunCalls'
<1> SUFFICES ASSUME TypeOK, OneRunCalls, [Next]_vars PROVE OneRunCalls'
  OBVIOUS
<1> USE DEF registry
<1>1. ASSUME runs' = runs, busy' = busy PROVE OneRunCalls'
  BY <1>1, OneRunSame
<1>2. ASSUME runs # <<>>, runs' = NextItem, busy' = busy PROVE OneRunCalls'
  BY <1>2, OneRunSame, NextItemRuns DEF TypeOK
<1>3. ASSUME NEW s \in Spans, StartSpan(s) PROVE OneRunCalls'
  <2>1. CASE envLoaded
    <3>1. BeginCalls(s, runs)
      BY <1>3, <2>1 DEF StartSpan
    <3> QED
      BY <3>1, OneRunBegin DEF OneRunCalls, TypeOK
  <2>2. CASE ~envLoaded
    <3> DEFINE run == [span |-> s, at |-> "load", next |-> 1, found |-> <<>>]
    <3>1. runs' = Append(runs, run) /\ busy' = busy /\ run.at = "load"
      BY <1>3, <2>2 DEF StartSpan
    <3> HIDE DEF run
    <3>2. /\ DOMAIN runs' = 1..(Len(runs) + 1)
          /\ \A i \in 1..Len(runs) : runs'[i] = runs[i]
          /\ runs'[Len(runs) + 1].at = "load"
      BY <3>1 DEF TypeOK
    <3>3. \A i \in DOMAIN runs' :
            runs'[i].at = "call" <=> i \in DOMAIN runs /\ runs[i].at = "call"
      <4> TAKE i \in DOMAIN runs'
      <4>1. DOMAIN runs = 1..Len(runs) /\ Len(runs) \in Nat
        BY DEF TypeOK
      <4>2. CASE i \in 1..Len(runs)
        BY <3>2, <4>1, <4>2
      <4>3. CASE i = Len(runs) + 1
        <5>1. i \notin DOMAIN runs
          BY <4>1, <4>3
        <5> QED
          BY <3>2, <4>3, <5>1
      <4> QED
        BY <3>2, <4>1, <4>2, <4>3
    <3>4. DOMAIN runs \subseteq DOMAIN runs'
      BY <3>2 DEF TypeOK
    <3> QED
      BY <3>1, <3>3, <3>4 DEF OneRunCalls
  <2> QED
    BY <2>1, <2>2
<1>4. ASSUME NEW outcome \in Outcomes, NEW cb \in BOOLEAN, LoadEntry(outcome, cb)
      PROVE  OneRunCalls'
  <2>1. runs # <<>> /\ Top.at = "load" /\ busy' = busy
    BY <1>4 DEF LoadEntry, Loading
  <2>2. CASE runs' = NextItem
    BY <1>2, <2>1, <2>2
  <2>3. CASE runs' = Below
    <3>1. /\ Len(Below) = Len(runs) - 1 /\ Below \in Seq(Runs)
          /\ \A i \in 1..Len(Below) : Below[i] = runs[i]
          /\ runs[Len(runs)].at = "load"
      BY <2>1, BelowRuns, TopType DEF TypeOK
    <3>2. \A i \in DOMAIN runs : runs[i].at = "call" => i \in DOMAIN Below
      BY <3>1 DEF TypeOK
    <3>3. \A i \in DOMAIN Below : i \in DOMAIN runs /\ Below[i] = runs[i]
      BY SMTT(30), <3>1 DEF TypeOK
    <3> QED
      BY <2>1, <2>3, <3>2, <3>3 DEF OneRunCalls
  <2> QED
    BY <1>4, <2>2, <2>3 DEF LoadEntry
<1>5. CASE EnvDone
  <2>1. runs # <<>> /\ Top.at = "load" /\ BeginCalls(Top.span, Below)
    BY <1>5 DEF EnvDone
  <2>2. /\ Len(Below) = Len(runs) - 1 /\ Below \in Seq(Runs)
        /\ \A i \in 1..Len(Below) : Below[i] = runs[i]
        /\ runs[Len(runs)].at = "load" /\ Top.span \in Spans
    BY <2>1, BelowRuns, TopType DEF TypeOK, Runs
  <2>3. \A i \in DOMAIN runs : runs[i].at = "call" => i \in DOMAIN Below
    BY <2>2 DEF TypeOK
  <2>4. \A i \in DOMAIN Below : i \in DOMAIN runs /\ Below[i] = runs[i]
    BY SMTT(30), <2>2 DEF TypeOK
  <2>5. busy <=> \E i \in DOMAIN Below : Below[i].at = "call"
    BY <2>3, <2>4 DEF OneRunCalls
  <2>6. \A i, j \in DOMAIN Below :
          Below[i].at = "call" /\ Below[j].at = "call" => i = j
    BY <2>4 DEF OneRunCalls
  <2> QED
    BY <2>1, <2>2, <2>5, <2>6, OneRunBegin
<1>6. ASSUME NEW outcome \in Outcomes, EndCallback(outcome) PROVE OneRunCalls'
  <2>1. runs # <<>> /\ Top.at = "call"
    BY <1>6 DEF EndCallback, Calling
  <2>2. CASE outcome \in Escapes
    BY <1>6, <2>1, <2>2, OneRunLeave DEF EndCallback
  <2>3. CASE outcome \notin Escapes
    BY <1>2, <1>6, <2>1, <2>3 DEF EndCallback
  <2> QED
    BY <2>2, <2>3
<1>7. CASE SkipProcessor
  BY <1>2, <1>7 DEF SkipProcessor, Calling
<1>8. CASE EndRun
  BY <1>8, OneRunLeave DEF EndRun
<1> QED
  BY <1>1, <1>3, <1>4, <1>5, <1>6, <1>7, <1>8
  DEF Next, AddSpanProcessor, AddWithNewId, RemoveSpanProcessor, vars

\* At most one run calls callbacks, and in_span_processor tells whether one
\* does, however callbacks nest and fail (run_span_processors).
THEOREM OneRunCallsCorrect == Spec => []OneRunCalls
<1>1. Init => OneRunCalls
  BY DEF Init, OneRunCalls
<1>2. TypeOK /\ OneRunCalls /\ [Next]_vars => OneRunCalls'
  BY OneRunStep
<1> QED
  BY <1>1, <1>2, TypeCorrect, PTL DEF Spec
-----------------------------------------------------------------------------
(* The environment variable is used once, and first *)

\* The run that loads the entries is the first of all.
FirstLoads == runs # <<>> /\ runs[1].at = "load"

\* What has been loaded: nothing before the flag is up; then what the first
\* run has behind it; in the end everything, or everything up to the entry at
\* which loading was left.
LoadInv ==
    /\ ~envLoaded => runs = <<>> /\ \A e \in DOMAIN EnvIds : loads[e] = 0
    /\ ~envLoaded \/ FirstLoads => leftAt = 0
    /\ \A i \in DOMAIN runs : runs[i].at = "load" => i = 1
    /\ FirstLoads =>
         \A e \in DOMAIN EnvIds : loads[e] = IF e < runs[1].next THEN 1 ELSE 0
    /\ envLoaded /\ ~FirstLoads =>
         \A e \in DOMAIN EnvIds : loads[e] = IF leftAt = 0 \/ e <= leftAt THEN 1 ELSE 0

\* A step that loads nothing, and after which the same runs load as before,
\* keeps LoadInv.
LEMMA LoadSame ==
    ASSUME TypeOK, LoadInv, envLoaded, envLoaded' = envLoaded, loads' = loads,
           leftAt' = leftAt, FirstLoads' = FirstLoads,
           FirstLoads => runs'[1].next = runs[1].next,
           \A i \in DOMAIN runs' : runs'[i].at = "load" => i = 1
    PROVE  LoadInv'
BY DEF LoadInv, TypeOK

\* The first run loads only if it is the innermost one, or stays as it is.
LEMMA LoadTop ==
    ASSUME TypeOK, LoadInv, runs # <<>>
    PROVE  /\ envLoaded
           /\ Top.at = "load" => Len(runs) = 1 /\ FirstLoads /\ Top = runs[1]
           /\ Top.at = "call" /\ FirstLoads => Len(runs) > 1
<1>1. Top \in Runs /\ Top = runs[Len(runs)] /\ Len(runs) \in DOMAIN runs
  BY TopType DEF TypeOK
<1>2. Len(runs) \in Nat /\ Len(runs) > 0
  BY EmptySeq DEF TypeOK
<1>3. envLoaded
  BY DEF LoadInv, TypeOK
<1>4. ASSUME Top.at = "load"
      PROVE  Len(runs) = 1 /\ FirstLoads /\ Top = runs[1]
  <2>1. Len(runs) = 1
    BY <1>1, <1>4 DEF LoadInv
  <2> QED
    BY <1>1, <1>4, <2>1 DEF FirstLoads
<1>5. ASSUME Top.at = "call", FirstLoads PROVE Len(runs) > 1
  <2>1. Len(runs) # 1
    BY <1>1, <1>5 DEF FirstLoads
  <2> QED
    BY <1>2, <2>1
<1> QED
  BY <1>3, <1>4, <1>5

\* Leaving a run that calls, or going on in it, loads nothing.
LEMMA LoadCalls ==
    ASSUME TypeOK, LoadInv, runs # <<>>, Top.at = "call",
           envLoaded' = envLoaded, loads' = loads, leftAt' = leftAt,
           runs' = Below \/ runs' = NextItem
    PROVE  LoadInv'
<1>1. Len(runs) \in Nat /\ Len(runs) > 0 /\ DOMAIN runs = 1..Len(runs)
  BY EmptySeq DEF TypeOK
<1>2. envLoaded /\ (FirstLoads => Len(runs) > 1)
  BY LoadTop
<1>3. runs[Len(runs)].at = "call"
  BY TopType DEF TypeOK
<1>4. CASE runs' = Below
  <2>1. /\ Len(runs') = Len(runs) - 1 /\ runs' \in Seq(Runs)
        /\ \A i \in 1..Len(runs') : runs'[i] = runs[i]
    BY <1>4, BelowRuns DEF TypeOK
  <2>2. FirstLoads' = FirstLoads
    <3>1. CASE Len(runs) = 1
      BY <1>1, <1>3, <2>1, <3>1 DEF FirstLoads
    <3>2. CASE Len(runs) > 1
      BY <1>1, <2>1, <3>2 DEF FirstLoads
    <3> QED
      BY <1>1, <3>1, <3>2
  <2>3. FirstLoads => runs'[1].next = runs[1].next
    BY <1>2, <2>1
  <2>4. \A i \in DOMAIN runs' : runs'[i].at = "load" => i = 1
    BY <1>1, <2>1 DEF LoadInv
  <2> QED
    BY <1>2, <2>2, <2>3, <2>4, LoadSame
<1>5. CASE runs' = NextItem
  <2>1. /\ Len(runs') = Len(runs) /\ runs' \in Seq(Runs)
        /\ \A i \in 1..Len(runs) :
             /\ runs'[i].at = runs[i].at
             /\ runs'[i].next = IF i = Len(runs) THEN runs[i].next + 1
                                                ELSE runs[i].next
    BY <1>5, NextItemRuns DEF TypeOK
  <2> DEFINE first == 1
  <2>a. first \in 1..Len(runs) /\ runs' # <<>>
    <3>1. first \in 1..Len(runs)
      BY <1>1
    <3>2. ASSUME runs' = <<>> PROVE FALSE
      <4>1. Len(runs') = 0
        BY <3>2
      <4> QED
        BY <1>1, <2>1, <4>1
    <3> QED
      BY <3>1, <3>2
  <2> HIDE DEF first
  <2>b. /\ runs'[first].at = runs[first].at
        /\ first # Len(runs) => runs'[first].next = runs[first].next
    BY <2>1, <2>a
  <2>2. FirstLoads' = FirstLoads
    BY <2>a, <2>b DEF FirstLoads, first
  <2>3. FirstLoads => runs'[1].next = runs[1].next
    <3>1. ASSUME FirstLoads PROVE first # Len(runs)
      <4>1. Len(runs) > 1
        BY <1>2, <3>1
      <4> QED
        BY SMTT(30), <1>1, <4>1 DEF first
    <3> QED
      BY <2>b, <3>1 DEF first
  <2>4. \A i \in DOMAIN runs' : runs'[i].at = "load" => i = 1
    BY <1>1, <2>1 DEF LoadInv
  <2> QED
    BY <1>2, <2>2, <2>3, <2>4, LoadSame
<1> QED
  BY <1>4, <1>5

\* Starting a span begins to load the entries once, before anything else.
LEMMA LoadStart ==
    ASSUME TypeOK, LoadInv, NEW s \in Spans, StartSpan(s)
    PROVE  LoadInv'
<1>1. CASE envLoaded
  <2>1. /\ BeginCalls(s, runs) /\ envLoaded' = envLoaded
        /\ loads' = loads /\ leftAt' = leftAt
    BY <1>1 DEF StartSpan
  <2>2. CASE runs' = runs
    BY <1>1, <2>1, <2>2 DEF LoadInv, FirstLoads
  <2>3. CASE Len(runs') = Len(runs) + 1 /\ runs'[Len(runs')].at = "call"
    <3>1. /\ runs' \in Seq(Runs) /\ Len(runs) \in Nat
          /\ DOMAIN runs = 1..Len(runs) /\ DOMAIN runs' = 1..(Len(runs) + 1)
          /\ \A i \in 1..Len(runs) : runs'[i] = runs[i]
      BY <2>1, <2>3, BeginCallsRuns DEF TypeOK
    <3>2. FirstLoads' = FirstLoads
      <4>1. CASE runs = <<>>
        BY <2>3, <3>1, <4>1 DEF FirstLoads
      <4>2. CASE runs # <<>>
        <5>1. Len(runs) > 0
          BY <3>1, <4>2, EmptySeq DEF TypeOK
        <5> QED
          BY <2>3, <3>1, <4>2, <5>1 DEF FirstLoads
      <4> QED
        BY <4>1, <4>2
    <3>3. FirstLoads => runs'[1].next = runs[1].next
      <4>1. FirstLoads => 1 \in 1..Len(runs)
        BY <3>1, EmptySeq DEF FirstLoads, TypeOK
      <4> QED
        BY <3>1, <4>1
    <3>4. \A i \in DOMAIN runs' : runs'[i].at = "load" => i = 1
      <4> TAKE i \in DOMAIN runs'
      <4>1. CASE i \in 1..Len(runs)
        BY <3>1, <4>1 DEF LoadInv
      <4>2. CASE i = Len(runs')
        BY <2>3, <4>2
      <4> QED
        BY <2>3, <3>1, <4>1, <4>2
    <3> QED
      BY <1>1, <2>1, <3>2, <3>3, <3>4, LoadSame
  <2> QED
    BY <2>1, <2>2, <2>3, BeginCallsRuns DEF TypeOK
<1>2. CASE ~envLoaded
  <2> DEFINE run == [span |-> s, at |-> "load", next |-> 1, found |-> <<>>]
  <2>1. /\ runs' = Append(runs, run) /\ envLoaded' = TRUE
        /\ loads' = loads /\ leftAt' = leftAt
        /\ run.at = "load" /\ run.next = 1
    BY <1>2 DEF StartSpan
  <2>2. runs = <<>> /\ leftAt = 0 /\ \A e \in DOMAIN EnvIds : loads[e] = 0
    BY <1>2 DEF LoadInv
  <2> HIDE DEF run
  <2>3. runs' = <<run>>
    BY <2>1, <2>2
  <2>4. FirstLoads' /\ runs'[1].next = 1 /\ DOMAIN runs' = {1}
    BY <2>1, <2>3 DEF FirstLoads
  <2>5. \A e \in DOMAIN EnvIds : e >= 1
    BY ProcessorsAssumption
  <2>6. \A e \in DOMAIN EnvIds :
          loads'[e] = IF e < runs'[1].next THEN 1 ELSE 0
    BY <2>1, <2>2, <2>4, <2>5, ProcessorsAssumption
  <2> QED
    BY <2>1, <2>2, <2>4, <2>6 DEF LoadInv
<1> QED
  BY <1>1, <1>2
\* An entry that was tried is counted once, whether it is good or bad.
LEMMA LoadOne ==
    ASSUME TypeOK, LoadInv, NEW outcome \in Outcomes, NEW cb \in BOOLEAN,
           LoadEntry(outcome, cb)
    PROVE  LoadInv'
<1>1. /\ runs # <<>> /\ Top.at = "load" /\ Top.next \in DOMAIN EnvIds
      /\ loads' = [loads EXCEPT ![Top.next] = @ + 1] /\ envLoaded' = envLoaded
      /\ leftAt' = IF outcome \in Escapes THEN Top.next ELSE leftAt
      /\ runs' = IF outcome \in Escapes THEN Below ELSE NextItem
  BY DEF LoadEntry, Loading
<1>2. envLoaded /\ Len(runs) = 1 /\ FirstLoads /\ Top = runs[1]
  BY <1>1, LoadTop
<1>3. /\ DOMAIN EnvIds = 1..Len(EnvIds) /\ Len(EnvIds) \in Nat
      /\ \A e \in DOMAIN EnvIds : loads[e] = IF e < Top.next THEN 1 ELSE 0
  BY <1>2, ProcessorsAssumption DEF LoadInv
<1>4. Top.next \in Nat
  BY <1>1, <1>3
<1>5. \A e \in DOMAIN EnvIds : loads'[e] = IF e < Top.next + 1 THEN 1 ELSE 0
  <2> TAKE e \in DOMAIN EnvIds
  <2>1. loads'[e] = IF e = Top.next THEN loads[e] + 1 ELSE loads[e]
    BY <1>1 DEF TypeOK
  <2> QED
    BY <1>3, <1>4, <2>1
<1>6. CASE outcome \in Escapes
  <2>1. runs' \in Seq(Runs) /\ Len(runs') = 0
    BY <1>1, <1>2, <1>6, BelowRuns DEF TypeOK
  <2>2. runs' = <<>> /\ ~FirstLoads' /\ leftAt' = Top.next
    <3>1. runs' = <<>>
      BY <2>1, EmptySeq
    <3>2. ~FirstLoads'
      BY <3>1 DEF FirstLoads
    <3>3. leftAt' = Top.next
      BY <1>1, <1>6
    <3> QED
      BY <3>1, <3>2, <3>3
  <2>3. \A e \in DOMAIN EnvIds :
          loads'[e] = IF leftAt' = 0 \/ e <= leftAt' THEN 1 ELSE 0
    BY <1>1, <1>3, <1>4, <1>5, <2>2
  <2> QED
    BY <1>1, <1>2, <2>2, <2>3 DEF LoadInv
<1>7. CASE outcome \notin Escapes
  <2>1. /\ runs' \in Seq(Runs) /\ Len(runs') = 1
        /\ runs'[1].at = "load" /\ runs'[1].next = Top.next + 1
    <3>1. Len(runs) = 1 /\ 1 \in 1..Len(runs) /\ runs[1].at = "load"
      BY <1>1, <1>2
    <3>2. runs' = NextItem
      BY <1>1, <1>7
    <3>3. /\ NextItem \in Seq(Runs) /\ Len(NextItem) = 1
          /\ NextItem[1].at = "load" /\ NextItem[1].next = runs[1].next + 1
      BY <1>1, <3>1, NextItemRuns DEF TypeOK
    <3> QED
      BY <1>2, <3>2, <3>3
  <2>2. FirstLoads' /\ DOMAIN runs' = {1}
    BY <2>1, EmptySeq DEF FirstLoads
  <2>3. leftAt' = 0
    BY <1>1, <1>2, <1>7 DEF LoadInv
  <2> QED
    BY <1>1, <1>2, <1>5, <2>1, <2>2, <2>3 DEF LoadInv
<1> QED
  BY <1>6, <1>7

\* When the first run is done with the entries, all have been tried.
LEMMA LoadDone ==
    ASSUME TypeOK, LoadInv, EnvDone
    PROVE  LoadInv'
<1>1. /\ runs # <<>> /\ Top.at = "load" /\ Top.next \notin DOMAIN EnvIds
      /\ BeginCalls(Top.span, Below)
      /\ envLoaded' = envLoaded /\ loads' = loads /\ leftAt' = leftAt
  BY DEF EnvDone, Loading
<1>2. envLoaded /\ Len(runs) = 1 /\ FirstLoads /\ Top = runs[1] /\ Top \in Runs
  BY <1>1, LoadTop, TopType DEF TypeOK
<1>3. /\ DOMAIN EnvIds = 1..Len(EnvIds) /\ Len(EnvIds) \in Nat
      /\ Top.next \in Nat \ {0} /\ Top.span \in Spans
  BY <1>2, ProcessorsAssumption DEF Runs
<1>4. \A e \in DOMAIN EnvIds : loads[e] = 1
  <2>1. \A e \in DOMAIN EnvIds : e < Top.next
    BY <1>1, <1>3
  <2> QED
    BY <1>2, <2>1 DEF LoadInv
<1>5. Below \in Seq(Runs) /\ Len(Below) = 0
  BY <1>1, <1>2, BelowRuns DEF TypeOK
<1>6. \A i \in DOMAIN runs' : runs'[i].at = "call"
  <2>1. CASE runs' = Below
    BY <1>5, <2>1
  <2>2. CASE Len(runs') = Len(Below) + 1 /\ runs'[Len(runs')].at = "call"
    <3>1. runs' \in Seq(Runs)
      BY <1>1, <1>3, <1>5, BeginCallsRuns DEF TypeOK
    <3> QED
      BY <1>5, <2>2, <3>1
  <2> QED
    BY <1>1, <1>3, <1>5, <2>1, <2>2, BeginCallsRuns DEF TypeOK
<1>7. ~FirstLoads'
  <2>1. runs' \in Seq(Runs)
    BY <1>1, <1>3, <1>5, BeginCallsRuns DEF TypeOK
  <2>2. runs' # <<>> => 1 \in DOMAIN runs'
    BY <2>1, EmptySeq
  <2> QED
    BY <1>6, <2>2 DEF FirstLoads
<1> QED
  BY <1>1, <1>2, <1>4, <1>6, <1>7 DEF LoadInv

\* Every step keeps LoadInv.
LEMMA LoadStep == TypeOK /\ LoadInv /\ [Next]_vars => LoadInv'
<1> SUFFICES ASSUME TypeOK, LoadInv, [Next]_vars PROVE LoadInv'
  OBVIOUS
<1> USE DEF registry
<1>1. ASSUME UNCHANGED <<runs, envLoaded, loads, leftAt>> PROVE LoadInv'
  BY <1>1 DEF LoadInv, FirstLoads
<1>2. ASSUME NEW outcome \in Outcomes, EndCallback(outcome) PROVE LoadInv'
  BY <1>2, LoadCalls DEF EndCallback, Calling
<1>3. CASE SkipProcessor
  BY <1>3, LoadCalls DEF SkipProcessor, Calling
<1>4. CASE EndRun
  BY <1>4, LoadCalls DEF EndRun
<1> QED
  BY <1>1, <1>2, <1>3, <1>4, LoadStart, LoadOne, LoadDone
  DEF Next, AddSpanProcessor, AddWithNewId, RemoveSpanProcessor, vars

\* No entry of OTEL_R_SPAN_PROCESSORS is ever loaded twice, not even by a span
\* that is started while the entries are being loaded (run_span_processors).
THEOREM LoadedOnceCorrect == Spec => []LoadedOnce
<1>1. Init => LoadInv
  BY DEF Init, LoadInv, FirstLoads
<1>2. TypeOK /\ LoadInv => LoadedOnce
  <2> SUFFICES ASSUME TypeOK, LoadInv PROVE LoadedOnce
    OBVIOUS
  <2>1. \A e \in DOMAIN EnvIds : loads[e] <= 1
    BY DEF TypeOK, LoadInv
  <2> QED
    BY <2>1 DEF LoadInv, LoadedOnce
<1> QED
  BY <1>1, <1>2, LoadStep, TypeCorrect, PTL DEF Spec

\* Only spans started while the entries are being loaded can be given to
\* processors before the entries were tried: all, or, if R code jumped out of
\* one, those up to it and none after it (run_span_processors).
THEOREM EnvBeforeCallsCorrect == Spec => []EnvBeforeCalls
<1>1. Init => LoadInv
  BY DEF Init, LoadInv, FirstLoads
<1>2. TypeOK /\ LoadInv => EnvBeforeCalls
  <2> SUFFICES ASSUME TypeOK, LoadInv,
                      NEW i \in DOMAIN runs, runs[i].at = "call",
                      \A j \in 1..(i - 1) : runs[j].at # "load"
               PROVE  \A e \in DOMAIN EnvIds :
                        loads[e] = IF leftAt = 0 \/ e <= leftAt THEN 1 ELSE 0
    BY DEF EnvBeforeCalls
  <2>1. runs # <<>> /\ i \in Nat /\ i >= 1
    BY DEF TypeOK
  <2>2. ~FirstLoads
    <3>1. CASE i = 1
      BY <3>1 DEF FirstLoads
    <3>2. CASE i > 1
      BY <2>1, <3>2 DEF FirstLoads
    <3> QED
      BY <2>1, <3>1, <3>2
  <2> QED
    BY <2>1, <2>2 DEF LoadInv, TypeOK
<1> QED
  BY <1>1, <1>2, LoadStep, TypeCorrect, PTL DEF Spec

-----------------------------------------------------------------------------
(* A span is given to every processor, in order and once *)

\* Before the first processor nothing has been called.
LEMMA NoneCalled == ASSUME NEW ps PROVE CallbacksOf(<<>>, ps, 0)
<1> DEFINE those == {j \in 1..0 : ps[j].onStart # NoCallback}
           pos == [k \in DOMAIN <<>> |-> k]
<1>1. those = {}
  OBVIOUS
<1>2. pos \in [DOMAIN <<>> -> those]
  OBVIOUS
<1> QED
  BY <1>1, <1>2 DEF CallbacksOf

\* A processor without a callback is passed over.
LEMMA OneSkipped ==
    ASSUME NEW cbs, NEW ps, NEW n \in Nat, CallbacksOf(cbs, ps, n),
           ps[n + 1].onStart = NoCallback
    PROVE  CallbacksOf(cbs, ps, n + 1)
<1>1. {j \in 1..(n + 1) : ps[j].onStart # NoCallback}
        = {j \in 1..n : ps[j].onStart # NoCallback}
  <2>1. \A j : j \in 1..(n + 1) <=> j \in 1..n \/ j = n + 1
    OBVIOUS
  <2> QED
    BY <2>1
<1> QED
  BY <1>1 DEF CallbacksOf

\* A callback that is called goes to the end of those that were called.
LEMMA OneCalled ==
    ASSUME NEW S, NEW cbs \in Seq(S), NEW ps, NEW n \in Nat, NEW cb \in S,
           CallbacksOf(cbs, ps, n), ps[n + 1].onStart = cb, cb # NoCallback
    PROVE  CallbacksOf(Append(cbs, cb), ps, n + 1)
<1> DEFINE those == {j \in 1..n : ps[j].onStart # NoCallback}
           next == {j \in 1..(n + 1) : ps[j].onStart # NoCallback}
           all == Append(cbs, cb)
           m == Len(cbs)
<1>1. m \in Nat /\ DOMAIN cbs = 1..m
  OBVIOUS
<1>2. /\ DOMAIN all = 1..(m + 1) /\ all[m + 1] = cb
      /\ \A k \in 1..m : all[k] = cbs[k]
  OBVIOUS
<1>3. \A j : j \in next <=> j \in those \/ j = n + 1
  OBVIOUS
<1>4. \A j \in those : j \in Nat /\ j < n + 1
  OBVIOUS
<1>5. PICK pos \in [DOMAIN cbs -> those] :
        /\ \A k \in DOMAIN cbs : cbs[k] = ps[pos[k]].onStart
        /\ \A k, l \in DOMAIN cbs : k < l => pos[k] < pos[l]
        /\ \A j \in those : \E k \in DOMAIN cbs : pos[k] = j
  BY DEF CallbacksOf
<1> DEFINE longer == [k \in 1..(m + 1) |-> IF k = m + 1 THEN n + 1 ELSE pos[k]]
<1> HIDE DEF those, next, all, m
<1>6. \A k \in 1..(m + 1) : k \in 1..m \/ k = m + 1
  BY <1>1
<1>7. /\ \A k \in 1..m : k \in 1..(m + 1) /\ k # m + 1
      /\ m + 1 \in 1..(m + 1)
  BY <1>1
<1>8. /\ \A k \in 1..m : longer[k] = pos[k] /\ pos[k] \in those
      /\ longer[m + 1] = n + 1
  BY <1>1, <1>7
<1>9. longer \in [DOMAIN all -> next]
  BY <1>2, <1>3, <1>6, <1>8
<1> HIDE DEF longer
<1>10. \A k \in DOMAIN all : all[k] = ps[longer[k]].onStart
  BY <1>1, <1>2, <1>5, <1>6, <1>8
<1>11. ASSUME NEW k \in DOMAIN all, NEW l \in DOMAIN all, k < l
       PROVE  longer[k] < longer[l]
  <2>1. k \in 1..m
    BY <1>1, <1>2, <1>11
  <2>2. CASE l \in 1..m
    BY <1>1, <1>5, <1>8, <1>11, <2>1, <2>2
  <2>3. CASE l = m + 1
    <3>1. longer[k] \in those /\ longer[l] = n + 1
      BY <1>8, <2>1, <2>3
    <3> QED
      BY <1>4, <3>1
  <2> QED
    BY <1>2, <1>6, <2>2, <2>3
<1>12. ASSUME NEW j \in next PROVE \E k \in DOMAIN all : longer[k] = j
  <2>1. CASE j \in those
    <3>1. PICK k \in DOMAIN cbs : pos[k] = j
      BY <1>5, <2>1
    <3> QED
      BY <1>1, <1>2, <1>7, <1>8, <3>1
  <2>2. CASE j = n + 1
    BY <1>2, <1>7, <1>8, <2>2
  <2> QED
    BY <1>3, <1>12, <2>1, <2>2
<1> QED
  BY <1>9, <1>10, <1>11, <1>12 DEF CallbacksOf, all, next

\* ServedInOrder, and what it rests on: every span has one run at most, only
\* spans that were started have one, and before its run takes the processors
\* a span has been given to nobody.
ServedInv ==
    /\ ServedInOrder
    /\ \A i, j \in DOMAIN runs : runs[i].span = runs[j].span => i = j
    /\ \A i \in DOMAIN runs : runs[i].span \in started
    /\ \A i \in DOMAIN runs : runs[i].at = "load" => called[runs[i].span] = <<>>
    /\ \A s \in Spans \ started : called[s] = <<>>

\* The runs that go on as they are keep what they have called.
LEMMA ServedSame ==
    ASSUME ServedInv, DOMAIN runs' \subseteq DOMAIN runs,
           \A i \in DOMAIN runs' : runs'[i] = runs[i],
           called' = called, started' = started
    PROVE  ServedInv'
BY DEF ServedInv, ServedInOrder

\* Leaving the innermost run.
LEMMA ServedLeave ==
    ASSUME TypeOK, ServedInv, runs # <<>>, runs' = Below,
           called' = called, started' = started
    PROVE  ServedInv'
<1>1. /\ DOMAIN runs' = 1..(Len(runs) - 1) /\ DOMAIN runs = 1..Len(runs)
      /\ Len(runs) \in Nat
      /\ \A i \in DOMAIN runs' : runs'[i] = runs[i]
  <2>1. runs \in Seq(Runs)
    BY DEF TypeOK
  <2>2. /\ Below \in Seq(Runs) /\ Len(Below) = Len(runs) - 1
        /\ \A i \in 1..Len(Below) : Below[i] = runs[i]
    BY <2>1, BelowRuns
  <2>3. DOMAIN Below = 1..Len(Below) /\ DOMAIN runs = 1..Len(runs) /\ Len(runs) \in Nat
    BY <2>1, <2>2
  <2> HIDE DEF Below
  <2> QED
    BY <2>2, <2>3
<1>2. DOMAIN runs' \subseteq DOMAIN runs
  BY <1>1
<1> QED
  BY <1>1, <1>2, ServedSame

\* A run that begins, on runs that are there already, for a span that has no
\* run among them and was given to nobody.
LEMMA ServedBegin ==
    ASSUME TypeOK, ServedInv, NEW below \in Seq(Runs), NEW run \in Runs,
           \A i \in DOMAIN below : i \in DOMAIN runs /\ below[i] = runs[i],
           \A i \in DOMAIN below : below[i].span # run.span,
           called[run.span] = <<>>, run.at = "call" => run.next = 1,
           runs' = Append(below, run), called' = called,
           run.span \in started', started \subseteq started'
    PROVE  ServedInv'
<1> DEFINE m == Len(below)
<1>1. m \in Nat /\ DOMAIN below = 1..m
  OBVIOUS
<1>2. /\ DOMAIN runs' = 1..(m + 1) /\ runs'[m + 1] = run
      /\ \A i \in 1..m : runs'[i] = below[i]
  OBVIOUS
<1> HIDE DEF m
<1>3. \A i \in DOMAIN runs' : i \in 1..m \/ i = m + 1
  BY <1>1, <1>2
<1>4. \A i \in 1..m : i \in DOMAIN runs /\ runs'[i] = runs[i]
                      /\ runs'[i].span # run.span
  BY <1>1, <1>2
<1>5. ServedInOrder'
  <2> SUFFICES ASSUME NEW i \in DOMAIN runs', runs'[i].at = "call"
               PROVE  CallbacksOf(called[runs'[i].span], runs'[i].found,
                                  runs'[i].next - 1)
    BY DEF ServedInOrder
  <2>1. CASE i \in 1..m
    BY <1>4, <2>1 DEF ServedInv, ServedInOrder
  <2>2. CASE i = m + 1
    <3>1. runs'[i] = run /\ run.next = 1 /\ run.next - 1 = 0
      BY <1>2, <2>2
    <3> QED
      BY <3>1, NoneCalled
  <2> QED
    BY <1>3, <2>1, <2>2
<1>6. ASSUME NEW i \in DOMAIN runs', NEW j \in DOMAIN runs',
             runs'[i].span = runs'[j].span
      PROVE  i = j
  <2>1. CASE i \in 1..m /\ j \in 1..m
    <3>1. i \in DOMAIN runs /\ j \in DOMAIN runs /\ runs[i].span = runs[j].span
      BY <1>4, <1>6, <2>1
    <3> QED
      BY <3>1 DEF ServedInv
  <2>2. CASE i = m + 1 /\ j = m + 1
    BY <2>2
  <2>3. CASE i \in 1..m /\ j = m + 1
    BY <1>2, <1>4, <1>6, <2>3
  <2>4. CASE i = m + 1 /\ j \in 1..m
    BY <1>2, <1>4, <1>6, <2>4
  <2> QED
    BY <1>3, <2>1, <2>2, <2>3, <2>4
<1>7. \A i \in DOMAIN runs' : runs'[i].span \in started'
  BY <1>2, <1>3, <1>4 DEF ServedInv
<1>8. ASSUME NEW i \in DOMAIN runs', runs'[i].at = "load"
      PROVE  called'[runs'[i].span] = <<>>
  <2>1. CASE i \in 1..m
    <3>1. i \in DOMAIN runs /\ runs[i].at = "load" /\ runs'[i].span = runs[i].span
      BY <1>4, <1>8, <2>1
    <3> QED
      BY <3>1 DEF ServedInv
  <2>2. CASE i = m + 1
    BY <1>2, <2>2
  <2> QED
    BY <1>3, <2>1, <2>2
<1>9. \A s \in Spans \ started' : called'[s] = <<>>
  BY DEF ServedInv
<1> QED
  BY <1>5, <1>6, <1>7, <1>8, <1>9 DEF ServedInv

\* The run that goes on to its next item has called the callback of the item
\* before, if that has one, or has loaded it.
LEMMA ServedNext ==
    ASSUME TypeOK, ServedInv, runs # <<>>, runs' = NextItem, started' = started,
           \/ Top.at = "load" /\ called' = called
           \/ /\ Calling /\ CallbackAt(Top) = NoCallback
              /\ called' = called
           \/ /\ Calling /\ CallbackAt(Top) # NoCallback
              /\ called' = [called EXCEPT ![Top.span] = Append(@, CallbackAt(Top))]
    PROVE  ServedInv'
<1> DEFINE n == Len(runs)
           top == [Top EXCEPT !.next = @ + 1]
<1>1. /\ n \in Nat /\ n > 0 /\ DOMAIN runs = 1..n /\ n \in DOMAIN runs
      /\ Top \in Runs /\ Top = runs[n]
  BY TopType, EmptySeq DEF TypeOK
<1>2. /\ top \in Runs /\ top.at = Top.at /\ top.next = Top.next + 1
      /\ top.span = Top.span /\ top.found = Top.found
      /\ Top.next \in Nat \ {0} /\ Top.span \in Spans
  BY <1>1 DEF Runs
<1>3. runs' = Append(Below, top)
  BY DEF NextItem
<1>4. /\ Below \in Seq(Runs) /\ Len(Below) = n - 1
      /\ \A i \in 1..(n - 1) : Below[i] = runs[i]
  BY BelowRuns DEF TypeOK
<1> HIDE DEF top, n
<1>5. /\ DOMAIN runs' = 1..n /\ runs'[n] = top
      /\ \A i \in 1..(n - 1) : runs'[i] = runs[i]
  <2>1. Len(runs') = n /\ runs' \in Seq(Runs)
    BY <1>1, <1>2, <1>3, <1>4
  <2> QED
    BY <1>1, <1>2, <1>3, <1>4, <2>1
<1>6. \A i \in DOMAIN runs' : i \in 1..(n - 1) \/ i = n
  BY <1>1, <1>5
<1>7. \A i \in 1..(n - 1) : i \in DOMAIN runs /\ i # n
  BY <1>1
<1>8. /\ \A i \in DOMAIN runs' :
           runs'[i].span = runs[i].span /\ runs'[i].at = runs[i].at
      /\ DOMAIN runs' = DOMAIN runs
  BY <1>1, <1>2, <1>5, <1>6
<1>9. \A s \in Spans : s # Top.span => called'[s] = called[s]
  BY DEF TypeOK
<1>10. \A i \in 1..(n - 1) : runs[i].span # Top.span
  BY <1>1, <1>7 DEF ServedInv
<1>11. ASSUME NEW i \in 1..(n - 1) PROVE runs[i].span \in Spans
  <2>1. i \in DOMAIN runs
    BY <1>7
  <2>2. runs[i] \in Runs
    BY <2>1 DEF TypeOK
  <2> QED
    BY <2>2 DEF Runs
<1>12. ServedInOrder'
  <2> SUFFICES ASSUME NEW i \in DOMAIN runs', runs'[i].at = "call"
               PROVE  CallbacksOf(called'[runs'[i].span], runs'[i].found,
                                  runs'[i].next - 1)
    BY DEF ServedInOrder
  <2>1. CASE i \in 1..(n - 1)
    BY <1>5, <1>7, <1>9, <1>10, <1>11, <2>1 DEF ServedInv, ServedInOrder
  <2>2. CASE i = n
    <3> DEFINE k == Top.next - 1
               cbs == called[Top.span]
    <3>1. /\ runs'[i].found = Top.found /\ runs'[i].span = Top.span
          /\ runs'[i].next - 1 = k + 1 /\ k \in Nat /\ Top.next = k + 1
          /\ Top.at = "call"
      BY <1>2, <1>5, <2>2
    <3>2. CallbacksOf(cbs, Top.found, k)
      BY <1>1, <3>1 DEF ServedInv, ServedInOrder
    <3>3. cbs \in Seq(Callbacks)
      BY <1>2 DEF TypeOK
    <3> HIDE DEF k, cbs
    <3>4. CASE Calling /\ CallbackAt(Top) = NoCallback /\ called' = called
      <4>1. Top.found[k + 1].onStart = NoCallback
        BY <3>1, <3>4 DEF CallbackAt
      <4>2. CallbacksOf(cbs, Top.found, k + 1)
        BY <3>1, <3>2, <4>1, OneSkipped
      <4> QED
        BY <3>1, <3>4, <4>2 DEF cbs
    <3>5. CASE /\ Calling /\ CallbackAt(Top) # NoCallback
               /\ called' = [called EXCEPT ![Top.span] = Append(@, CallbackAt(Top))]
      <4>1. /\ Top.found[k + 1].onStart = CallbackAt(Top)
            /\ CallbackAt(Top) \in Callbacks
        BY <3>1, <3>5, TopType DEF CallbackAt, TypeOK
      <4>2. CallbacksOf(Append(cbs, CallbackAt(Top)), Top.found, k + 1)
        BY <3>1, <3>2, <3>3, <3>5, <4>1, OneCalled
      <4>3. called'[Top.span] = Append(cbs, CallbackAt(Top))
        BY <1>2, <3>5 DEF TypeOK, cbs
      <4> QED
        BY <3>1, <4>2, <4>3
    <3> QED
      BY <3>1, <3>4, <3>5
  <2> QED
    BY <1>6, <2>1, <2>2
<1>13. \A i, j \in DOMAIN runs' : runs'[i].span = runs'[j].span => i = j
  BY <1>8 DEF ServedInv
<1>14. \A i \in DOMAIN runs' : runs'[i].span \in started'
  BY <1>8 DEF ServedInv
<1>15. ASSUME NEW i \in DOMAIN runs', runs'[i].at = "load"
       PROVE  called'[runs'[i].span] = <<>>
  <2>1. i \in DOMAIN runs /\ runs[i].at = "load" /\ runs'[i].span = runs[i].span
    BY <1>8, <1>15
  <2>2. CASE Top.at = "load" /\ called' = called
    BY <2>1, <2>2 DEF ServedInv
  <2>3. CASE Calling
    <3>1. i # n
      BY <1>1, <2>1, <2>3 DEF Calling
    <3>2. i \in 1..(n - 1)
      BY <1>6, <3>1
    <3> QED
      BY <1>9, <1>10, <1>11, <2>1, <3>2 DEF ServedInv
  <2> QED
    BY <2>2, <2>3
<1>16. ASSUME NEW s \in Spans \ started' PROVE called'[s] = <<>>
  <2>1. s # Top.span
    BY <1>1 DEF ServedInv
  <2> QED
    BY <1>9, <2>1 DEF ServedInv
<1> QED
  BY <1>12, <1>13, <1>14, <1>15, <1>16 DEF ServedInv

\* A callback that fails for good is the last one its span was given to.
LEMMA ServedCut ==
    ASSUME TypeOK, ServedInv, Calling, runs' = Below, started' = started,
           called' = [called EXCEPT ![Top.span] = Append(@, CallbackAt(Top))]
    PROVE  ServedInv'
<1> DEFINE n == Len(runs)
<1>1. runs # <<>> /\ Top.at = "call"
  BY DEF Calling
<1>2. /\ n \in Nat /\ n > 0 /\ DOMAIN runs = 1..n /\ n \in DOMAIN runs
      /\ Top \in Runs /\ Top = runs[n]
  BY <1>1, TopType, EmptySeq DEF TypeOK
<1>3. /\ Below \in Seq(Runs) /\ Len(Below) = n - 1
      /\ \A i \in 1..(n - 1) : Below[i] = runs[i]
  BY <1>1, BelowRuns DEF TypeOK
<1> HIDE DEF n
<1>4. DOMAIN runs' = 1..(n - 1)
  BY <1>3
<1>5. \A i \in 1..(n - 1) : i \in DOMAIN runs /\ i # n
  BY <1>2
<1>6. \A i \in DOMAIN runs' : i \in DOMAIN runs /\ runs'[i] = runs[i] /\ i # n
  BY <1>3, <1>4, <1>5
<1>7. \A i \in DOMAIN runs' : runs[i].span # Top.span
  BY <1>2, <1>6 DEF ServedInv
<1>8. ASSUME NEW i \in DOMAIN runs' PROVE runs[i].span \in Spans
  <2>1. runs[i] \in Runs
    BY <1>6 DEF TypeOK
  <2> QED
    BY <2>1 DEF Runs
<1>9. \A s \in Spans : s # Top.span => called'[s] = called[s]
  BY DEF TypeOK
<1>10. \A i \in DOMAIN runs' : called'[runs'[i].span] = called[runs[i].span]
  BY <1>6, <1>7, <1>8, <1>9
<1>11. ServedInOrder'
  BY <1>6, <1>10 DEF ServedInv, ServedInOrder
<1>12. \A i, j \in DOMAIN runs' : runs'[i].span = runs'[j].span => i = j
  BY <1>6 DEF ServedInv
<1>13. \A i \in DOMAIN runs' : runs'[i].span \in started'
  BY <1>6 DEF ServedInv
<1>14. \A i \in DOMAIN runs' : runs'[i].at = "load" => called'[runs'[i].span] = <<>>
  BY <1>6, <1>10 DEF ServedInv
<1>15. ASSUME NEW s \in Spans \ started' PROVE called'[s] = <<>>
  <2>1. s # Top.span
    BY <1>2 DEF ServedInv
  <2> QED
    BY <1>9, <2>1 DEF ServedInv
<1> QED
  BY <1>11, <1>12, <1>13, <1>14, <1>15 DEF ServedInv

\* Every step keeps ServedInv.
LEMMA ServedStep == TypeOK /\ ServedInv /\ [Next]_vars => ServedInv'
<1> SUFFICES ASSUME TypeOK, ServedInv, [Next]_vars PROVE ServedInv'
  OBVIOUS
<1> USE DEF registry
<1>1. ASSUME UNCHANGED <<runs, called, started>> PROVE ServedInv'
  BY <1>1, ServedSame
<1>2. ASSUME NEW s \in Spans, StartSpan(s) PROVE ServedInv'
  <2>1. /\ s \notin started /\ started' = started \cup {s} /\ called' = called
        /\ called[s] = <<>>
    BY <1>2 DEF StartSpan, ServedInv
  <2>2. \A i \in DOMAIN runs : runs[i].span # s
    BY <2>1 DEF ServedInv
  <2>3. ASSUME NEW run \in Runs, run.span = s, run.at = "call" => run.next = 1,
               runs' = Append(runs, run)
        PROVE  ServedInv'
    BY <2>1, <2>2, <2>3, ServedBegin DEF TypeOK
  <2>4. CASE envLoaded
    <3>1. BeginCalls(s, runs)
      BY <1>2, <2>4 DEF StartSpan
    <3>2. CASE runs' = runs
      <4>1. \A t \in Spans \ started' : t \in Spans \ started
        BY <2>1
      <4> QED
        BY <2>1, <3>2, <4>1 DEF ServedInv, ServedInOrder
    <3>3. CASE runs' # runs
      <4> DEFINE run == [span |-> s, at |-> "call", next |-> 1, found |-> procs]
      <4>1. runs' = Append(runs, run)
        BY <3>1, <3>3 DEF BeginCalls
      <4>2. run \in Runs /\ run.span = s /\ run.next = 1
        BY DEF Runs, TypeOK
      <4> HIDE DEF run
      <4> QED
        BY <2>3, <4>1, <4>2
    <3> QED
      BY <3>2, <3>3
  <2>5. CASE ~envLoaded
    <3> DEFINE run == [span |-> s, at |-> "load", next |-> 1, found |-> <<>>]
    <3>1. runs' = Append(runs, run)
      BY <1>2, <2>5 DEF StartSpan
    <3>2. run \in Runs /\ run.span = s /\ run.next = 1
      BY DEF Runs, Procs
    <3> HIDE DEF run
    <3> QED
      BY <2>3, <3>1, <3>2
  <2> QED
    BY <2>4, <2>5
<1>3. ASSUME NEW outcome \in Outcomes, NEW cb \in BOOLEAN, LoadEntry(outcome, cb)
      PROVE  ServedInv'
  <2>1. runs # <<>> /\ Top.at = "load" /\ called' = called /\ started' = started
    BY <1>3 DEF LoadEntry, Loading
  <2>2. CASE runs' = Below
    BY <2>1, <2>2, ServedLeave
  <2>3. CASE runs' = NextItem
    BY <2>1, <2>3, ServedNext
  <2> QED
    BY <1>3, <2>2, <2>3 DEF LoadEntry
<1>4. CASE EnvDone
  <2>1. /\ runs # <<>> /\ Top.at = "load" /\ BeginCalls(Top.span, Below)
        /\ called' = called /\ started' = started
    BY <1>4 DEF EnvDone
  <2>2. CASE runs' = Below
    BY <2>1, <2>2, ServedLeave
  <2>3. CASE runs' # Below
    <3> DEFINE run == [span |-> Top.span, at |-> "call", next |-> 1,
                       found |-> procs]
               n == Len(runs)
    <3>1. runs' = Append(Below, run)
      BY <2>1, <2>3 DEF BeginCalls
    <3>2. /\ n \in Nat /\ n > 0 /\ DOMAIN runs = 1..n /\ n \in DOMAIN runs
          /\ Top \in Runs /\ Top = runs[n]
      BY <2>1, TopType, EmptySeq DEF TypeOK
    <3>3. run \in Runs /\ run.span = runs[n].span /\ run.next = 1
      BY <3>2 DEF Runs, TypeOK
    <3>4. /\ Below \in Seq(Runs) /\ Len(Below) = n - 1
          /\ \A i \in 1..(n - 1) : Below[i] = runs[i]
      BY <2>1, BelowRuns DEF TypeOK
    <3> HIDE DEF run, n
    <3>5. \A i \in DOMAIN Below : i \in DOMAIN runs /\ Below[i] = runs[i] /\ i # n
      <4>1. DOMAIN Below = 1..(n - 1)
        BY <3>4
      <4>2. \A i \in 1..(n - 1) : i \in 1..n /\ i # n
        BY <3>2
      <4> QED
        BY <3>2, <3>4, <4>1, <4>2
    <3>6. \A i \in DOMAIN Below : Below[i].span # run.span
      BY <3>2, <3>3, <3>5 DEF ServedInv
    <3>7. called[run.span] = <<>> /\ run.span \in started
      BY <2>1, <3>2, <3>3 DEF ServedInv
    <3> QED
      BY <2>1, <3>1, <3>3, <3>4, <3>5, <3>6, <3>7, ServedBegin
  <2> QED
    BY <2>2, <2>3
<1>5. ASSUME NEW outcome \in Outcomes, EndCallback(outcome) PROVE ServedInv'
  <2>1. /\ runs # <<>> /\ Calling /\ CallbackAt(Top) # NoCallback
        /\ called' = [called EXCEPT ![Top.span] = Append(@, CallbackAt(Top))]
        /\ started' = started
    BY <1>5 DEF EndCallback, Calling
  <2>2. CASE outcome \in Escapes
    <3>1. runs' = Below
      BY <1>5, <2>2 DEF EndCallback
    <3> QED
      BY <2>1, <3>1, ServedCut
  <2>3. CASE outcome \notin Escapes
    <3>1. runs' = NextItem
      BY <1>5, <2>3 DEF EndCallback
    <3> QED
      BY <2>1, <3>1, ServedNext
  <2> QED
    BY <2>2, <2>3
<1>6. CASE SkipProcessor
  BY <1>6, ServedNext DEF SkipProcessor, Calling
<1>7. CASE EndRun
  BY <1>7, ServedLeave DEF EndRun
<1> QED
  BY <1>1, <1>2, <1>3, <1>4, <1>5, <1>6, <1>7
  DEF Next, AddSpanProcessor, AddWithNewId, RemoveSpanProcessor, vars

\* Every span is given to the processors that were there when its turn came,
\* in their order and once each, whatever the callbacks do to the processors
\* meanwhile and however they end (run_span_processors).
THEOREM ServedInOrderCorrect == Spec => []ServedInOrder
<1>1. Init => ServedInv
  BY DEF Init, ServedInv, ServedInOrder
<1>2. ServedInv => ServedInOrder
  BY DEF ServedInv
<1> QED
  BY <1>1, <1>2, ServedStep, TypeCorrect, PTL DEF Spec
=============================================================================
